---------------------------- MODULE RecoveryProofs ----------------------------
(***************************************************************************)
(* What a backup is worth, for any files, any contents, any number of      *)
(* backups kept and any number of calls, failures and kills.               *)
(***************************************************************************)
EXTENDS Recovery, FiniteSetTheorems, WellFoundedInduction, TLAPS

LEMMA ContentsAreFiles == Contents \subseteq FileContents
<1> SUFFICES ASSUME NEW n \in Nat, NEW c \in [1..n -> Blocks]
             PROVE  c \in FileContents
  BY RecoveryAssumption DEF Contents
<1> QED
  BY DEF FileContents

LEMMA EmptyIsFile == <<>> \in FileContents /\ Len(<<>>) <= 1
BY DEF FileContents

LEMMA AppendIsFile ==
    ASSUME NEW c \in FileContents, NEW b \in Blocks \cup {Torn}
    PROVE  Append(c, b) \in FileContents
BY DEF FileContents

LEMMA SingleIsFile ==
    ASSUME NEW b \in Blocks \cup {Torn}
    PROVE  <<b>> \in FileContents
BY DEF FileContents

LEMMA AbsentIsNoFile == Absent \notin FileContents
BY RecoveryAssumption DEF FileContents

\* What the verifier keeps is at most one of the blocks it was given.
LEMMA VerifierType ==
    ASSUME NEW queue \in FileContents, offset \in Nat,
           Accepts(queue) \/ Rejects(queue)
    PROVE  /\ offset' \in Nat
           /\ rest' \in FileContents
           /\ Len(rest') <= 1
<1>1. CASE Accepts(queue)
  BY <1>1 DEF Accepts, FileContents
<1>2. CASE Rejects(queue)
  <2>1. PICK n \in DOMAIN queue : offset' = offset + n - 1 /\ rest' = <<queue[n]>>
    BY <1>2 DEF Rejects
  <2>2. n \in Nat /\ n >= 1 /\ queue[n] \in Blocks \cup {Torn}
    BY <2>1 DEF FileContents
  <2> QED
    BY <2>1, <2>2 DEF FileContents
<1> QED
  BY <1>1, <1>2

-----------------------------------------------------------------------------
(* Backups.                                                                *)

BackupType ==
    backups \subseteq [path : Paths, second : 0..MaxSeconds, stamp : 1..stamp, data : FileContents]

\* The backup that is written last is the newest, and the only one of its time.
LEMMA WriteIsNewest ==
    ASSUME NEW p \in Paths, NEW s \in 0..MaxSeconds, NEW c \in FileContents,
           stamp \in Nat, BackupType, StampsUnique, Write(p, s, c)
    PROVE  BackupType' /\ stamp' \in Nat /\ StampsUnique' /\ NewestIs(p, c)'
<1> DEFINE new == [path |-> p, second |-> s, stamp |-> stamp + 1, data |-> c]
<1>1. stamp' = stamp + 1 /\ new \in backups'
  BY DEF Write
<1>2. \A b \in backups' : b = new \/ b \in backups
  BY DEF Write
<1>3. \A b \in backups : b.stamp \in 1..stamp
  BY DEF BackupType
<1>4. BackupType'
  BY <1>1, <1>2 DEF BackupType
<1>5. StampsUnique'
  BY <1>1, <1>2, <1>3 DEF StampsUnique
<1> QED
  BY <1>1, <1>4, <1>5 DEF NewestIs

LEMMA LatestIsNewest ==
    ASSUME NEW p \in Paths, NEW c, stamp \in Nat, BackupType, StampsUnique, NewestIs(p, c),
           p \in Globs[p]
    PROVE  Latest(p).data = c
<1>1. PICK n \in backups : n.stamp = stamp /\ n.path = p /\ n.data = c
  BY DEF NewestIs
<1>2. n \in Found(p)
  BY <1>1 DEF Found
<1>3. \A b \in Found(p) : b \in backups /\ b.stamp \in Nat /\ b.stamp <= stamp
  BY DEF Found, BackupType
<1>4. \A b \in Found(p) : b.stamp <= n.stamp
  BY <1>1, <1>3
<1>5. Latest(p) \in Found(p) /\ \A b \in Found(p) : b.stamp <= Latest(p).stamp
  BY <1>2, <1>4 DEF Latest
<1>6. Latest(p).stamp = n.stamp
  BY <1>1, <1>2, <1>3, <1>5
<1> QED
  BY <1>1, <1>3, <1>5, <1>6 DEF StampsUnique

\* A set of numbers that has a bound has a largest one.
LEMMA LargestNumber ==
    ASSUME NEW bound \in Nat, NEW S \in SUBSET (0..bound), S # {}
    PROVE  \E m \in S : \A n \in S : n <= m
<1> DEFINE Gaps == {bound - n : n \in S}
<1>1. Gaps \subseteq Nat /\ Gaps # {}
  <2>1. \A n \in S : n \in Nat /\ bound - n \in Nat
    OBVIOUS
  <2>2. PICK n \in S : TRUE
    OBVIOUS
  <2>3. bound - n \in Gaps
    OBVIOUS
  <2> QED
    BY <2>1, <2>3
<1>2. PICK g \in Gaps : \A h \in Gaps : <<h, g>> \notin OpToRel(<, Nat)
  <2> HIDE DEF Gaps
  <2> QED
    BY <1>1, NatLessThanWellFounded, WFMin
<1>3. \A h \in Gaps : ~(h < g)
  BY <1>1, <1>2 DEF OpToRel
<1>4. PICK m \in S : g = bound - m
  OBVIOUS
<1>5. \A n \in S : n <= m
  BY <1>3, <1>4
<1> QED
  BY <1>5

\* Where the pattern finds anything, the latest is one of the backups.
LEMMA LatestType ==
    ASSUME NEW p \in Paths, Found(p) # {}, stamp \in Nat, BackupType
    PROVE  Latest(p) \in backups
<1> DEFINE S == {b.stamp : b \in Found(p)}
<1>1. S \in SUBSET (0..stamp) /\ S # {}
  BY DEF Found, BackupType
<1>2. PICK m \in S : \A n \in S : n <= m
  <2> HIDE DEF S
  <2> QED
    BY <1>1, LargestNumber
<1>3. PICK b \in Found(p) : b.stamp = m
  OBVIOUS
<1>4. \A c \in Found(p) : c.stamp <= b.stamp
  BY <1>2, <1>3
<1>5. Latest(p) \in Found(p)
  BY <1>4 DEF Latest
<1> QED
  BY <1>5 DEF Found

-----------------------------------------------------------------------------
(* Types.                                                                  *)

LEMMA InitInv == Init => RecoveryInv
<1> SUFFICES ASSUME Init PROVE RecoveryInv
  OBVIOUS
<1>1. TypeOK
  BY EmptyIsFile, ContentsAreFiles, RecoveryAssumption DEF Init, TypeOK, Ended
<1>2. StampsUnique /\ Backed /\ FilesThere /\ PreviousHeld
  BY DEF Init, StampsUnique, Backed, FilesThere, PreviousHeld, Running
<1> QED
  BY <1>1, <1>2 DEF RecoveryInv

LEMMA CopiedType ==
    ASSUME RecoveryInv, CopyBlock \/ RejectBlock
    PROVE  /\ Append(rest, NextBlock) \in FileContents
           /\ Append(file[tgt], NextBlock) \in FileContents
<1> USE DEF RecoveryInv, TypeOK, FilesThere, Running, Goto, CopyBlock, RejectBlock
<1>1. NextBlock \in Blocks \cup {Torn}
  BY DEF NextBlock, FileContents
<1> QED
  BY <1>1, AppendIsFile

LEMMA NextType ==
    ASSUME RecoveryInv, [Next]_vars
    PROVE  TypeOK'
<1> USE DEF RecoveryInv, TypeOK, Ended, Running, Goto, Fault, checker, call
<1>1. ASSUME NEW s \in Paths, NEW t \in Paths, Start(s, t) PROVE TypeOK'
  <2>1. offset' \in Nat /\ rest' \in FileContents /\ Len(rest') <= 1
    BY <1>1, EmptyIsFile DEF Start
  <2>2. stale' \in Nat
    BY <1>1, <2>1 DEF Start, FileContents
  <2>3. table' \in FileContents
    BY <1>1, EmptyIsFile DEF Start
  <2> QED
    BY <1>1, <2>1, <2>2, <2>3, RecoveryAssumption DEF Start
<1>2. CASE BeginBackup
  BY <1>2, SingleIsFile, WriteIsNewest DEF BeginBackup, BackupType
<1>3. CASE FinishBackup
  BY <1>3, WriteIsNewest DEF FinishBackup, BackupType, Backed
<1>4. CASE CleanUp
  BY <1>4 DEF CleanUp
<1>5. CASE SumSource
  BY <1>5 DEF SumSource, FilesThere
<1>6. CASE OpenFiles
  BY <1>6, EmptyIsFile DEF OpenFiles
<1>7. CASE CopyBlock \/ RejectBlock
  <2>2. Append(rest, NextBlock) \in FileContents /\ Append(file[tgt], NextBlock) \in FileContents
    BY <1>7, CopiedType
  <2>3. offset' \in Nat /\ rest' \in FileContents /\ Len(rest') <= 1
    BY <1>7, <2>2, VerifierType DEF CopyBlock, RejectBlock
  <2>4. file' \in [Paths -> FileContents \cup {Absent}]
    BY <1>7, <2>2 DEF CopyBlock, RejectBlock
  <2> QED
    BY <1>7, <2>3, <2>4, SMTT(20) DEF CopyBlock, RejectBlock
<1>8. CASE FinishCopy
  BY <1>8, VerifierType DEF FinishCopy
<1>9. CASE VerifyTarget
  BY <1>9 DEF VerifyTarget, FilesThere
<1>10. CASE Fail
  BY <1>10, RecoveryAssumption DEF Fail
<1>11. CASE FailCopy
  <2>1. pc = "writing" => Append(file[tgt], Torn) \in FileContents
    BY AppendIsFile DEF FilesThere
  <2>2. file' \in [Paths -> FileContents \cup {Absent}]
    BY <1>11, <2>1 DEF FailCopy
  <2> QED
    BY <1>11, <2>2, RecoveryAssumption DEF FailCopy
<1>12. CASE RecoverIntact \/ RecoverUnread
  BY <1>12, RecoveryAssumption, SMTT(20) DEF RecoverIntact, RecoverUnread
<1>13. CASE RecoverFails
  BY <1>13 DEF RecoverFails
<1>14. CASE BeginRestore
  BY <1>14, LatestType, SingleIsFile DEF BeginRestore, BackupType
<1>15. CASE FinishRestore
  BY <1>15, LatestType DEF FinishRestore, BackupType, FilesThere
<1>16. CASE Crash
  BY <1>16, EmptyIsFile, RecoveryAssumption DEF Crash
<1>17. ASSUME NEW p \in Paths, Edit(p) PROVE TypeOK'
  BY <1>17, ContentsAreFiles, RecoveryAssumption DEF Edit
<1>18. CASE Tick
  BY <1>18, RecoveryAssumption DEF Tick
<1>19. CASE UNCHANGED vars
  BY <1>19 DEF vars
<1> QED
  BY <1>1, <1>2, <1>3, <1>4, <1>5, <1>6, <1>7, <1>8, <1>9, <1>10,
     <1>11, <1>12, <1>13, <1>14, <1>15, <1>16, <1>17, <1>18, <1>19 DEF Next

-----------------------------------------------------------------------------
(* The backup of the running call.                                         *)

LEMMA NextUnique ==
    ASSUME RecoveryInv, [Next]_vars
    PROVE  StampsUnique'
<1> USE DEF RecoveryInv, TypeOK, StampsUnique
<1>1. CASE BeginBackup
  BY <1>1, SingleIsFile, WriteIsNewest DEF BeginBackup, BackupType
<1>2. CASE FinishBackup
  BY <1>2, WriteIsNewest DEF FinishBackup, BackupType, Backed, Goto
<1>3. CASE CleanUp
  BY <1>3 DEF CleanUp
<1>4. CASE UNCHANGED backups
  BY <1>4
<1> QED
  BY <1>1, <1>2, <1>3, <1>4
     DEF Next, vars, Start, SumSource, OpenFiles, CopyBlock, RejectBlock, FinishCopy,
         VerifyTarget, Fail, FailCopy, RecoverIntact, RecoverUnread, RecoverFails, BeginRestore,
         FinishRestore, Crash, Edit, Tick

\* The cleanup leaves the newest backup where it is.
LEMMA CleanUpKeepsNewest ==
    ASSUME RecoveryInv, CleanUp, NewestIs(tgt, before)
    PROVE  NewestIs(tgt, before)'
<1> USE DEF RecoveryInv, TypeOK
<1>1. PICK n \in backups : n.stamp = stamp /\ n.path = tgt /\ n.data = before
  BY DEF NewestIs
<1>2. {c \in Found(tgt) : c.stamp > n.stamp} = {}
  BY <1>1 DEF Found
<1>3. Cardinality({c \in Found(tgt) : c.stamp > n.stamp}) = 0
  BY <1>2, FS_EmptySet
<1>4. ~Superfluous(n)
  BY <1>3, RecoveryAssumption DEF Superfluous
<1> QED
  BY <1>1, <1>4 DEF CleanUp, NewestIs, call

LEMMA NextBacked ==
    ASSUME RecoveryInv, [Next]_vars
    PROVE  Backed' /\ FilesThere'
<1> USE DEF RecoveryInv, TypeOK, Backed, FilesThere, Ended, Running, Goto, call
<1>1. ASSUME NEW s \in Paths, NEW t \in Paths, Start(s, t) PROVE Backed' /\ FilesThere'
  <2>1. file[s] # Absent
    BY <1>1, ContentsAreFiles, AbsentIsNoFile DEF Start
  <2> QED
    BY <1>1, <2>1 DEF Start
<1>2. CASE BeginBackup
  BY <1>2 DEF BeginBackup
<1>3. CASE FinishBackup
  BY <1>3, WriteIsNewest DEF FinishBackup, BackupType
<1>4. CASE CleanUp
  BY <1>4, CleanUpKeepsNewest DEF CleanUp
<1>5. CASE SumSource \/ FinishCopy \/ VerifyTarget \/ RecoverIntact \/ RecoverUnread \/ RecoverFails
  BY <1>5 DEF SumSource, FinishCopy, VerifyTarget, RecoverIntact, RecoverUnread, RecoverFails, NewestIs
<1>6. CASE CopyBlock \/ RejectBlock
  <2>1. Append(file[tgt], NextBlock) # Absent
    BY <1>6, CopiedType, AbsentIsNoFile
  <2> QED
    BY <1>6, <2>1 DEF CopyBlock, RejectBlock, NewestIs
<1>7. CASE OpenFiles
  <2>1. <<>> # Absent
    BY EmptyIsFile, AbsentIsNoFile
  <2> QED
    BY <1>7, <2>1 DEF OpenFiles, NewestIs
<1>8. CASE Fail \/ Crash
  BY <1>8 DEF Fail, Crash
<1>9. CASE FailCopy
  <2>1. pc = "writing" => Append(file[tgt], Torn) # Absent
    BY AppendIsFile, AbsentIsNoFile, ZenonT(30)
  <2>2. \A p \in Paths : file[p] # Absent => file'[p] # Absent
    <3>1. file' = file \/ (pc = "writing" /\ file' = [file EXCEPT ![tgt] = Append(@, Torn)])
      BY <1>9 DEF FailCopy
    <3> QED
      BY <2>1, <3>1
  <2> QED
    BY <1>9, <2>2 DEF FailCopy, NewestIs
<1>10. CASE BeginRestore
  BY <1>10, AbsentIsNoFile, SingleIsFile DEF BeginRestore, NewestIs, Found
<1>11. CASE FinishRestore
  BY <1>11 DEF FinishRestore
<1>12. ASSUME NEW p \in Paths, Edit(p) PROVE Backed' /\ FilesThere'
  BY <1>12, ContentsAreFiles, AbsentIsNoFile DEF Edit, NewestIs, Found
<1>13. CASE Tick \/ UNCHANGED vars
  BY <1>13 DEF Tick, vars, NewestIs, Found
<1> QED
  BY <1>1, <1>2, <1>3, <1>4, <1>5, <1>6, <1>7, <1>8, <1>9, <1>10, <1>11, <1>12, <1>13
     DEF Next

\* Outside a call the target changes only by its user; in one, the backup is
\* made before it is touched.
LEMMA NextHeld ==
    ASSUME RecoveryInv, [Next]_vars
    PROVE  PreviousHeld'
<1> USE DEF RecoveryInv, TypeOK, PreviousHeld, Ended, Running, Goto, call
<1>1. CASE pc' \in {"backup", "copying"}
  BY <1>1, NextBacked DEF Backed
<1>2. CASE pc' \in Running \ {"backup", "copying"}
  BY <1>2, NextBacked DEF Backed, NewestIs
<1>3. CASE pc' \in Ended
  <2>1. CASE Fail
    BY <2>1 DEF Fail
  <2>2. CASE Crash
    BY <2>2 DEF Crash
  <2>3. CASE RecoverIntact \/ RecoverUnread \/ RecoverFails \/ VerifyTarget
    BY <2>3 DEF RecoverIntact, RecoverUnread, RecoverFails, VerifyTarget
  <2>4. CASE FinishRestore
    BY <2>4 DEF FinishRestore, Backed, NewestIs
  <2>5. ASSUME NEW p \in Paths, Edit(p) PROVE PreviousHeld'
    BY <2>5 DEF Edit
  <2>6. CASE Tick \/ UNCHANGED vars
    BY <2>6 DEF Tick, vars
  <2> QED
    BY <1>3, <2>1, <2>2, <2>3, <2>4, <2>5, <2>6
       DEF Next, Start, BeginBackup, FinishBackup, CleanUp, SumSource, OpenFiles,
           CopyBlock, RejectBlock, FinishCopy, FailCopy, BeginRestore
<1> QED
  BY <1>1, <1>2, <1>3, NextType

LEMMA Invariance == Spec => []RecoveryInv
<1>1. RecoveryInv /\ [Next]_vars => RecoveryInv'
  BY NextType, NextUnique, NextBacked, NextHeld DEF RecoveryInv
<1> QED
  BY InitInv, <1>1, PTL DEF Spec

-----------------------------------------------------------------------------

\* Every variable keeps its type, and the verifier keeps back one block at
\* most, for any configuration.
THEOREM TypeCorrect == Spec => []TypeOK
<1>1. RecoveryInv => TypeOK
  BY DEF RecoveryInv
<1> QED
  BY Invariance, <1>1, PTL

\* ApplyPatchWithIntegrity never loses the target's content before it has
\* succeeded, whatever fails and wherever it is killed.
THEOREM PreviousIsHeld == Spec => []PreviousHeld
<1>1. RecoveryInv => PreviousHeld
  BY DEF RecoveryInv
<1> QED
  BY Invariance, <1>1, PTL

\* RestoreFromBackup gives back what the target held when the call began, if
\* there was a target and its name is one that its own pattern finds.
THEOREM RestoreIsPrevious == Spec => []RestoresPrevious
<1>1. RecoveryInv => RestoresPrevious
  BY LatestIsNewest DEF RecoveryInv, TypeOK, Backed, Running, RestoresPrevious, BackupType
<1> QED
  BY Invariance, <1>1, PTL
-----------------------------------------------------------------------------
(* The copy.                                                               *)

\* Why CopiedIsChecked holds: the target is as long as the stretch copied, and
\* before its first block the verifier stands where earlier calls have left it,
\* with the block that it refused.
Copied ==
    /\ pc \in {"backup", "copying", "cleanup", "sum", "open"} => offset + Len(rest) = stale
    /\ pc \in {"writing", "verify"} =>
          /\ file[tgt] \in FileContents /\ Len(file[tgt]) = pos
          /\ pos = 0 /\ pc = "writing" => offset + Len(rest) = stale
          /\ pos > 0 =>
                /\ rest = <<>> /\ offset = stale + pos
                /\ \A i \in 1..pos : Checks(stale + i - 1, file[tgt][i])

LEMMA AppendedFile ==
    ASSUME NEW c \in FileContents, NEW b \in Blocks \cup {Torn}
    PROVE  /\ Append(c, b) \in FileContents /\ Len(c) \in Nat
           /\ Len(Append(c, b)) = Len(c) + 1 /\ DOMAIN Append(c, b) = 1..(Len(c) + 1)
           /\ \A i \in 1..Len(c) : Append(c, b)[i] = c[i]
           /\ Append(c, b)[Len(c) + 1] = b
BY DEF FileContents

\* One more block is written and checked where the verifier stands.
LEMMA CopyBlockCopied ==
    ASSUME RecoveryInv, Copied, CopyBlock
    PROVE  Copied'
<1> DEFINE data == file[tgt]
<1>0. /\ TypeOK /\ pc = "writing" /\ pc' = "writing" /\ UNCHANGED <<tgt, table>>
      /\ stale' = stale /\ pos' = pos + 1
      /\ file' = [file EXCEPT ![tgt] = Append(data, NextBlock)]
      /\ Accepts(Append(rest, NextBlock))
  BY DEF RecoveryInv, CopyBlock, Goto, call
<1>1. NextBlock \in Blocks \cup {Torn}
  BY DEF NextBlock, FileContents, RecoveryInv, TypeOK, FilesThere, Running, CopyBlock, Goto
<1>2. /\ data \in FileContents /\ Len(data) = pos /\ pos \in Nat /\ offset \in Nat
      /\ rest \in FileContents
  BY <1>0 DEF Copied, TypeOK
<1>3. /\ file'[tgt'] = Append(data, NextBlock)
      /\ file'[tgt'] \in FileContents /\ Len(file'[tgt']) = pos + 1
      /\ \A i \in 1..pos : file'[tgt'][i] = data[i]
      /\ file'[tgt'][pos + 1] = NextBlock
  <2>1. file'[tgt'] = Append(data, NextBlock)
    BY <1>0 DEF TypeOK
  <2> QED
    BY <1>1, <1>2, <2>1, AppendedFile, SMTT(20)
<1>4. /\ offset' = offset + Len(rest) + 1 /\ rest' = <<>> /\ Len(rest) \in Nat
      /\ Checks(offset + Len(rest), NextBlock)
  <2>1. /\ Len(rest) \in Nat /\ Len(Append(rest, NextBlock)) = Len(rest) + 1
        /\ DOMAIN Append(rest, NextBlock) = 1..(Len(rest) + 1)
        /\ Append(rest, NextBlock)[Len(rest) + 1] = NextBlock
    BY <1>1, <1>2, AppendedFile
  <2>2. Checks(offset + (Len(rest) + 1) - 1, NextBlock)
    <3>1. Len(rest) + 1 \in DOMAIN Append(rest, NextBlock)
      BY <2>1
    <3> QED
      BY <1>0, <2>1, <3>1, Zenon DEF Accepts
  <2>3. offset + (Len(rest) + 1) - 1 = offset + Len(rest)
    BY <1>2, <2>1
  <2>4. offset' = offset + Len(rest) + 1 /\ rest' = <<>>
    BY <1>0, <1>2, <2>1 DEF Accepts
  <2> QED
    BY <2>1, <2>2, <2>3, <2>4
<1>5. offset + Len(rest) = stale + pos
  <2>1. pos > 0 => rest = <<>> /\ offset = stale + pos
    BY <1>0 DEF Copied
  <2>2. pos = 0 => offset + Len(rest) = stale
    BY <1>0 DEF Copied
  <2> QED
    BY <1>2, <1>4, <2>1, <2>2
<1>6. offset' = stale + (pos + 1) /\ stale \in Nat
  <2>1. stale \in Nat /\ Len(rest) \in Nat
    BY <1>0, <1>4 DEF TypeOK
  <2> QED
    BY <1>2, <1>4, <1>5, <2>1
<1>7. ASSUME NEW i \in 1..(pos + 1)
      PROVE  Checks(stale + i - 1, file'[tgt'][i])
  <2>1. CASE i = pos + 1
    <3>1. stale + i - 1 = offset + Len(rest)
      BY <1>2, <1>4, <1>5, <1>6, <2>1
    <3> QED
      BY <1>3, <1>4, <2>1, <3>1
  <2>2. CASE i # pos + 1
    <3>1. i \in 1..pos /\ pos > 0
      BY <1>2, <2>2
    <3>2. Checks(stale + i - 1, data[i])
      BY <1>0, <3>1 DEF Copied
    <3> QED
      BY <1>3, <3>1, <3>2
  <2> QED
    BY <2>1, <2>2
<1>8. ASSUME NEW i \in 1..pos'
      PROVE  /\ stale' + i - 1 + 1 \in DOMAIN table'
             /\ table'[stale' + i - 1 + 1] = file'[tgt'][i]
  BY <1>0, <1>7 DEF Checks
<1>9. /\ file'[tgt'] \in FileContents /\ Len(file'[tgt']) = pos'
      /\ rest' = <<>> /\ offset' = stale' + pos' /\ pos' > 0
  BY <1>0, <1>2, <1>3, <1>4, <1>6
<1>10. pc' = "writing"
  BY <1>0
<1> QED
  <2> SUFFICES ASSUME pos' > 0
               PROVE  \A i \in 1..pos' : Checks(stale + i - 1, file[tgt][i])'
    BY <1>9, <1>10 DEF Copied
  <2> QED
    BY <1>8 DEF Checks

\* The other steps of the loop, and those of users, leave what is copied as it
\* is; Flush has nothing to check once a block has been copied.
LEMMA NextCopied ==
    ASSUME RecoveryInv, Copied, [Next]_vars
    PROVE  Copied'
<1> USE DEF Goto, call, checker
<1>0. TypeOK
  BY DEF RecoveryInv
<1>1. CASE CopyBlock
  BY <1>1, CopyBlockCopied
<1>2. CASE OpenFiles
  <2>1. file'[tgt'] = <<>> /\ pos' = 0 /\ pc' = "writing"
    BY <1>0, <1>2 DEF OpenFiles, TypeOK
  <2>2. offset' + Len(rest') = stale'
    BY <1>2 DEF OpenFiles, Copied
  <2> QED
    BY <2>1, <2>2, EmptyIsFile DEF Copied
<1>3. CASE FinishCopy
  <2> SUFFICES ASSUME pc' = "verify" PROVE Copied'
    BY <1>3 DEF Copied, FinishCopy
  <2>1. pc = "writing" /\ Accepts(rest) /\ UNCHANGED <<file, table, tgt, pos, stale>>
    BY <1>3 DEF FinishCopy
  <2>2. pos > 0 => rest' = <<>> /\ offset' = offset
    BY <1>0, <2>1 DEF Copied, Accepts, TypeOK
  <2> QED
    BY <2>1, <2>2 DEF Copied, Checks
<1>4. ASSUME NEW p \in Paths, Edit(p) PROVE Copied'
  <2>1. UNCHANGED <<table, offset, rest, pc, tgt, pos, stale>>
    BY <1>4 DEF Edit
  <2>2. pc \in {"writing", "verify"} => file'[tgt] = file[tgt]
    BY <1>0, <1>4 DEF Edit, TypeOK, Running
  <2> QED
    BY <2>1, <2>2 DEF Copied, Checks
<1>5. CASE Tick \/ UNCHANGED vars
  BY <1>5 DEF Tick, vars, Copied, Checks
<1>6. ASSUME NEW s \in Paths, NEW t \in Paths, Start(s, t) PROVE Copied'
  BY <1>6 DEF Start, Copied
<1>7. CASE BeginBackup \/ FinishBackup \/ CleanUp \/ SumSource
  BY <1>7 DEF BeginBackup, FinishBackup, CleanUp, SumSource, Copied
<1>8. CASE pc' \in Ended \cup {"recover", "restoring"}
  BY <1>8 DEF Copied, Ended
<1> QED
  BY <1>1, <1>2, <1>3, <1>4, <1>5, <1>6, <1>7, <1>8
     DEF Next, RejectBlock, VerifyTarget, Fail, FailCopy, RecoverIntact, RecoverUnread,
         RecoverFails, BeginRestore, FinishRestore, Crash, Ended

\* While the loop runs, block i of the target was compared on its way with the
\* checksum of block stale + i of the source, whatever users make of the source
\* meanwhile: of its own place with a new applier, of a later one if calls
\* before have used the verifier.
THEOREM CopyIsChecked == Spec => []CopiedIsChecked
<1>1. Init => Copied
  BY DEF Init, Copied
<1>2. RecoveryInv /\ Copied /\ [Next]_vars => Copied'
  BY NextCopied
<1>3. RecoveryInv /\ Copied => CopiedIsChecked
  <2> SUFFICES ASSUME RecoveryInv, Copied, pc \in {"writing", "verify"}, file[tgt] # <<>>
               PROVE  /\ rest = <<>> /\ offset = stale + pos
                      /\ \A i \in 1..pos : Checks(stale + i - 1, file[tgt][i])
    BY DEF CopiedIsChecked
  <2>1. pos > 0
    BY DEF Copied, FileContents, RecoveryInv, TypeOK
  <2> QED
    BY <2>1 DEF Copied
<1> QED
  BY <1>1, <1>2, <1>3, Invariance, PTL DEF Spec
=============================================================================
