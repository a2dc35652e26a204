-------------------------- MODULE PatchApplyProofs --------------------------
(***************************************************************************)
(* What ApplyPatch guarantees for any number of concurrent calls, any      *)
(* contents and patches, any number of retries, crashes and user edits.    *)
(***************************************************************************)
EXTENDS PatchApply, TLAPS

-----------------------------------------------------------------------------
(* Type correctness.                                                       *)

LEMMA InitType == Init => TypeOK
BY ContentsAssumption, ConfigAssumption
   DEF Init, TypeOK, FileStates, Finished, Working

LEMMA NextType == TypeOK /\ [Next]_vars => TypeOK'
<1> SUFFICES ASSUME TypeOK, [Next]_vars PROVE TypeOK'
  OBVIOUS
<1> USE ContentsAssumption, ConfigAssumption DEF TypeOK, FileStates, Finished, Working, Goto, user,
         BeforeRename
<1>1. ASSUME NEW a \in Appliers, Start(a) PROVE TypeOK'
  BY <1>1 DEF Start
<1>2. ASSUME NEW a \in Appliers, VerifySource(a) PROVE TypeOK'
  BY <1>2 DEF VerifySource
<1>3. ASSUME NEW a \in Appliers, CreateTemp(a) PROVE TypeOK'
  BY <1>3 DEF CreateTemp
<1>4. ASSUME NEW a \in Appliers, OpenSource(a) PROVE TypeOK'
  BY <1>4 DEF OpenSource, SourceContent
<1>5. ASSUME NEW a \in Appliers, ApplyOperation(a) PROVE TypeOK'
  <2>1. left' \in [Appliers -> 0..Operations]
    BY <1>5 DEF ApplyOperation
  <2>2. pristine' \in [Appliers -> BOOLEAN]
    <3>1. pristine' = [pristine EXCEPT ![a] = pristine[a] /\ view[a] = PatchSrc[a]]
      BY <1>5, Zenon DEF ApplyOperation
    <3>2. (pristine[a] /\ view[a] = PatchSrc[a]) \in BOOLEAN
      OBVIOUS
    <3> QED BY <3>1, <3>2, Zenon
  <2> QED BY <1>5, <2>1, <2>2 DEF ApplyOperation
<1>6. ASSUME NEW a \in Appliers, FinishOperations(a) PROVE TypeOK'
  BY <1>6 DEF FinishOperations, Rebuilt
<1>7. ASSUME NEW a \in Appliers, VerifyTemp(a) PROVE TypeOK'
  BY <1>7 DEF VerifyTemp
<1>8. ASSUME NEW a \in Appliers, SkipBackup(a) PROVE TypeOK'
  BY <1>8 DEF SkipBackup
<1>9. ASSUME NEW a \in Appliers, BeginBackup(a) PROVE TypeOK'
  BY <1>9 DEF BeginBackup
<1>10. ASSUME NEW a \in Appliers, FinishBackup(a) PROVE TypeOK'
  BY <1>10 DEF FinishBackup
<1>11. ASSUME NEW a \in Appliers, Replace(a) PROVE TypeOK'
  <2>1. live' \in [Appliers -> BOOLEAN]
    <3>1. live' = [b \in Appliers |-> live[b] /\ ~ReadsTarget(b)]
      BY <1>11, Zenon DEF Replace
    <3>2. \A b \in Appliers : (live[b] /\ ~ReadsTarget(b)) \in BOOLEAN
      OBVIOUS
    <3> QED BY <3>1, <3>2, Zenon
  <2> QED BY <1>11, <2>1 DEF Replace
<1>12. ASSUME NEW a \in Appliers, Fail(a) PROVE TypeOK'
  BY <1>12 DEF Fail
<1>13. ASSUME NEW a \in Appliers, Crash(a) PROVE TypeOK'
  BY <1>13 DEF Crash
<1>14. CASE EditTarget
  <2>1. PICK c \in UserContents :
          pristine' = [a \in Appliers |->
             pristine[a] /\ (live[a] /\ pc[a] = "backing" => view[a] = c)]
    BY <1>14, Zenon DEF EditTarget
  <2>2. \A a \in Appliers :
          (pristine[a] /\ (live[a] /\ pc[a] = "backing" => view[a] = c)) \in BOOLEAN
    OBVIOUS
  <2>3. pristine' \in [Appliers -> BOOLEAN]
    BY <2>1, <2>2, Zenon
  <2> QED BY <1>14, <2>3 DEF EditTarget
<1>15. CASE EditSource
  BY <1>15 DEF EditSource
<1>16. CASE UNCHANGED vars
  BY <1>16 DEF vars
<1> QED
  BY <1>1, <1>2, <1>3, <1>4, <1>5, <1>6, <1>7, <1>8, <1>9, <1>10, <1>11, <1>12,
     <1>13, <1>14, <1>15, <1>16 DEF Next, Step

\* Every variable of the protocol keeps its type.
THEOREM TypeCorrect == Spec => []TypeOK
BY InitType, NextType, PTL DEF Spec

-----------------------------------------------------------------------------
(* The target is never torn and never a wrong rebuild.                     *)

\* The invariant is not inductive alone: the file that Replace moves over the
\* target was checked several steps earlier, so the invariant has to say that
\* a checked temporary file stays what it was.
IntegrityInv == TypeOK /\ TargetIntegrity /\ CheckedTemp

LEMMA InitIntegrity == Init => IntegrityInv
BY InitType DEF Init, IntegrityInv, TargetIntegrity, CheckedTemp

LEMMA NextCheckedTemp ==
    ASSUME VerifyEnabled, IntegrityInv, [Next]_vars
    PROVE  CheckedTemp'
<1> USE DEF IntegrityInv, CheckedTemp, TypeOK, Goto
<1>1. ASSUME NEW a \in Appliers, Step(a) \/ Crash(a) PROVE CheckedTemp'
  <2>1. CASE Start(a) \/ Fail(a) \/ Crash(a)
    BY <2>1 DEF Start, Fail, Crash
  <2>2. CASE VerifySource(a) \/ CreateTemp(a) \/ OpenSource(a) \/ ApplyOperation(a)
    BY <2>2 DEF VerifySource, CreateTemp, OpenSource, ApplyOperation
  <2>3. CASE FinishOperations(a)
    BY <2>3 DEF FinishOperations
  <2>4. CASE VerifyTemp(a)
    BY <2>4 DEF VerifyTemp, TempVerified
  <2>5. CASE SkipBackup(a) \/ BeginBackup(a) \/ FinishBackup(a)
    BY <2>5 DEF SkipBackup, BeginBackup, FinishBackup
  <2>6. CASE Replace(a)
    BY <2>6 DEF Replace
  <2> QED
    BY <1>1, <2>1, <2>2, <2>3, <2>4, <2>5, <2>6 DEF Step
<1>2. CASE EditTarget \/ EditSource \/ UNCHANGED vars
  BY <1>2 DEF EditTarget, EditSource, vars
<1> QED
  BY <1>1, <1>2 DEF Next

LEMMA NextTargetIntegrity ==
    ASSUME IntegrityInv, [Next]_vars
    PROVE  TargetIntegrity'
<1> USE DEF IntegrityInv, TargetIntegrity
<1>1. ASSUME NEW a \in Appliers, Replace(a) PROVE TargetIntegrity'
  <2>1. target' = PatchDst[a]
    BY <1>1 DEF Replace, CheckedTemp, Goto
  <2> QED BY <2>1
<1>2. CASE EditTarget
  BY <1>2 DEF EditTarget
<1>3. ASSUME UNCHANGED target PROVE TargetIntegrity'
  BY <1>3
<1>4. ASSUME NEW a \in Appliers, Step(a) \/ Crash(a), ~Replace(a)
      PROVE  UNCHANGED target
  BY <1>4 DEF Step, Start, VerifySource, CreateTemp, OpenSource, ApplyOperation,
     FinishOperations, VerifyTemp, SkipBackup, BeginBackup, FinishBackup, Fail, Crash
<1>5. CASE EditSource \/ UNCHANGED vars
  BY <1>5 DEF EditSource, vars
<1> QED
  BY <1>1, <1>2, <1>3, <1>4, <1>5 DEF Next

\* With VerifyTarget on, the target is at every moment absent, a user's
\* content or the exact content of some patch, however calls interleave.
THEOREM TargetIsNeverTorn ==
    ASSUME VerifyEnabled
    PROVE  Spec => []TargetIntegrity
<1>1. IntegrityInv /\ [Next]_vars => IntegrityInv'
  BY NextType, NextCheckedTemp, NextTargetIntegrity DEF IntegrityInv
<1>2. IntegrityInv => TargetIntegrity
  BY DEF IntegrityInv
<1> QED
  BY InitIntegrity, <1>1, <1>2, PTL DEF Spec

-----------------------------------------------------------------------------
(* ApplyPatch implements AtomicUpdate.                                     *)

status == [a \in Appliers |-> Outcome(pc[a])]

\* A step that moves one call from p to q changes the mapped status of that
\* call alone, and not at all if both report the same.
LEMMA StatusStep ==
    ASSUME TypeOK, NEW a \in Appliers, NEW q, pc' = [pc EXCEPT ![a] = q]
    PROVE  status' = [status EXCEPT ![a] = Outcome(q)]
BY DEF status, TypeOK

LEMMA StatusSame ==
    ASSUME TypeOK, NEW a \in Appliers, NEW q, pc' = [pc EXCEPT ![a] = q],
           Outcome(q) = Outcome(pc[a])
    PROVE  status' = status
BY StatusStep DEF status, TypeOK

LEMMA StepImplements ==
    ASSUME IntegrityInv, VerifyEnabled, [Next]_vars
    PROVE  [Atomic!Next]_<<target, status>>
<1> USE DEF IntegrityInv, Atomic!Next
<1>1. ASSUME NEW a \in Appliers, Start(a) PROVE Atomic!Begin(a)
  <2>1. status[a] # "running"
    BY <1>1 DEF Start, status, Outcome, Finished, Working
  <2>2. status' = [status EXCEPT ![a] = "running"]
    <3>1. pc' = [pc EXCEPT ![a] = "validated"] /\ Outcome("validated") = "running"
      BY <1>1 DEF Start, Outcome, Working
    <3> QED BY <3>1, StatusStep
  <2> QED BY <1>1, <2>1, <2>2 DEF Start, status, Atomic!Begin
<1>2. ASSUME NEW a \in Appliers, Replace(a) PROVE Atomic!Commit(a)
  <2>1. status[a] = "running"
    BY <1>2 DEF Replace, Goto, status, Outcome, Working
  <2>2. status' = [status EXCEPT ![a] = "committed"]
    <3>1. pc' = [pc EXCEPT ![a] = "done"] /\ Outcome("done") = "committed"
      BY <1>2 DEF Replace, Goto, Outcome, Working
    <3> QED BY <3>1, StatusStep
  <2>3. target' = PatchDst[a]
    BY <1>2 DEF Replace, Goto, CheckedTemp
  <2> QED BY <2>1, <2>2, <2>3 DEF status, Atomic!Commit
<1>3. ASSUME NEW a \in Appliers, Fail(a) \/ Crash(a) PROVE Atomic!Abort(a)
  <2>1. status[a] = "running"
    BY <1>3 DEF Fail, Crash, status, Outcome
  <2>2. status' = [status EXCEPT ![a] = "aborted"]
    <3>1. PICK q \in {"failed", "crashed"} : pc' = [pc EXCEPT ![a] = q]
      BY <1>3 DEF Fail, Crash
    <3>2. Outcome(q) = "aborted"
      BY DEF Outcome, Working
    <3> QED BY <3>1, <3>2, StatusStep
  <2> QED BY <1>3, <2>1, <2>2 DEF Fail, Crash, status, Atomic!Abort
<1>4. ASSUME NEW a \in Appliers, Step(a), ~Start(a), ~Replace(a), ~Fail(a)
      PROVE  UNCHANGED <<target, status>>
  <2>1. UNCHANGED target
    BY <1>4 DEF Step, VerifySource, CreateTemp, OpenSource, ApplyOperation,
       FinishOperations, VerifyTemp, SkipBackup, BeginBackup, FinishBackup
  <2>2. CASE UNCHANGED pc
    BY <2>1, <2>2 DEF status
  <2>3. CASE ~ApplyOperation(a)
    <3>1. pc[a] \in Working
      BY <1>4, <2>3 DEF Step, VerifySource, CreateTemp, OpenSource, FinishOperations,
         VerifyTemp, SkipBackup, BeginBackup, FinishBackup, Goto, Working
    <3>2. \E q \in Working : pc' = [pc EXCEPT ![a] = q]
      BY <1>4, <2>3 DEF Step, VerifySource, CreateTemp, OpenSource, FinishOperations,
         VerifyTemp, SkipBackup, BeginBackup, FinishBackup, Goto, Working
    <3>3. PICK q \in Working : pc' = [pc EXCEPT ![a] = q]
      BY <3>2
    <3> QED BY <2>1, <3>1, <3>3, StatusSame DEF Outcome
  <2> QED BY <2>2, <2>3 DEF ApplyOperation
<1>5. CASE EditTarget
  <2>1. Atomic!UserWrite
    BY <1>5 DEF EditTarget, Atomic!UserWrite, status
  <2> QED BY <2>1
<1>6. CASE EditSource \/ UNCHANGED vars
  BY <1>6 DEF EditSource, vars, status
<1> QED
  BY <1>1, <1>2, <1>3, <1>4, <1>5, <1>6 DEF Next, Step

LEMMA InitImplements == Init => Atomic!Init
BY DEF Init, Atomic!Init, Outcome, Working

\* Every behaviour of ApplyPatch, seen through the target file and what the
\* calls report, is a behaviour of AtomicUpdate.
THEOREM ApplyIsAtomic ==
    ASSUME VerifyEnabled
    PROVE  Spec => ImplementsAtomicUpdate
<1>1. IntegrityInv /\ [Next]_vars => IntegrityInv'
  BY NextType, NextCheckedTemp, NextTargetIntegrity DEF IntegrityInv
<1>2. IntegrityInv /\ [Next]_vars => [Atomic!Next]_Atomic!avars
  BY StepImplements DEF Atomic!avars, status
<1>3. Spec => Atomic!Spec
  BY InitIntegrity, InitImplements, <1>1, <1>2, PTL DEF Spec, Atomic!Spec
<1> QED
  BY <1>3 DEF ImplementsAtomicUpdate

-----------------------------------------------------------------------------
(* One caller patching in place never loses what the user had.             *)

\* OriginalKept speaks of two files only.  What makes it survive a retry is
\* where the user's content is while the call stands at each of its steps, and
\* that a patch whose two contents differ refuses the file it has replaced:
\* otherwise a second call would copy the new content over the backup.
RetryInv == TypeOK /\ CheckedTemp /\ UserContentHeld

LEMMA NextUserContentHeld ==
    ASSUME InPlace, BackupEnabled,
           \A a, b \in Appliers : a = b,
           \A a \in Appliers : PatchSrc[a] # PatchDst[a],
           RetryInv, [Next]_vars
    PROVE  UserContentHeld'
<1> USE DEF RetryInv, UserContentHeld, TypeOK, Goto, Finished, Working, user
<1> USE ContentsAssumption
<1>1. ASSUME NEW a \in Appliers, Step(a) \/ Crash(a) PROVE UserContentHeld'
  <2>0. \A b \in Appliers : b = a
    OBVIOUS
  <2>1. CASE Start(a)
    BY <2>0, <2>1 DEF Start
  <2>2. CASE Fail(a) \/ Crash(a)
    BY <2>0, <2>2 DEF Fail, Crash, BeforeRename
  <2>3. CASE VerifySource(a)
    BY <2>0, <2>3 DEF VerifySource, SourceVerified, SourceContent
  <2>4. CASE CreateTemp(a) \/ OpenSource(a) \/ ApplyOperation(a)
    BY <2>0, <2>4 DEF CreateTemp, OpenSource, ApplyOperation
  <2>5. CASE FinishOperations(a) \/ VerifyTemp(a)
    BY <2>0, <2>5 DEF FinishOperations, VerifyTemp
  <2>6. CASE SkipBackup(a)
    BY <2>0, <2>6 DEF SkipBackup
  <2>7. CASE BeginBackup(a)
    BY <2>0, <2>7 DEF BeginBackup
  <2>8. CASE FinishBackup(a)
    BY <2>0, <2>8 DEF FinishBackup
  <2>9. CASE Replace(a)
    BY <2>0, <2>9 DEF Replace, CheckedTemp
  <2> QED
    BY <1>1, <2>1, <2>2, <2>3, <2>4, <2>5, <2>6, <2>7, <2>8, <2>9 DEF Step
<1>2. CASE EditTarget
  BY <1>2 DEF EditTarget, BeforeRename
<1>3. CASE EditSource \/ UNCHANGED vars
  BY <1>3 DEF EditSource, vars
<1> QED
  BY <1>1, <1>2, <1>3 DEF Next

LEMMA HeldIsKept ==
    ASSUME RetryInv, Appliers # {}
    PROVE  OriginalKept
<1>1. PICK a \in Appliers : TRUE
  OBVIOUS
<1>2. pc[a] \in Finished \cup Working
  BY DEF RetryInv, TypeOK
<1> QED
  BY <1>1, <1>2 DEF RetryInv, UserContentHeld, OriginalKept

\* A single caller that patches a file in place, with the checks and backups
\* on, has what the user last wrote there in the file or in the backup,
\* however often it fails, is killed and tries again; only a write between
\* the start of the backup and the rename is lost.
THEOREM RetriesKeepTheOriginal ==
    ASSUME InPlace, BackupEnabled, VerifyEnabled,
           Appliers # {}, \A a, b \in Appliers : a = b,
           \A a \in Appliers : PatchSrc[a] # PatchDst[a]
    PROVE  Spec => []OriginalKept
<1>1. Init => RetryInv /\ IntegrityInv
  BY InitType, InitIntegrity DEF Init, RetryInv, IntegrityInv, UserContentHeld, Finished, Working
<1>2. RetryInv /\ IntegrityInv /\ [Next]_vars => (RetryInv /\ IntegrityInv)'
  BY NextType, NextCheckedTemp, NextTargetIntegrity, NextUserContentHeld DEF RetryInv, IntegrityInv
<1>3. RetryInv => OriginalKept
  BY HeldIsKept
<1> QED
  BY <1>1, <1>2, <1>3, PTL DEF Spec

-----------------------------------------------------------------------------
(* Temporary files are removed.                                            *)

LEMMA NextNoStrayTemp ==
    ASSUME TypeOK, NoStrayTemp, [Next]_vars
    PROVE  NoStrayTemp'
<1> USE DEF NoStrayTemp, TypeOK, Goto, Working
<1>1. ASSUME NEW a \in Appliers, Start(a) \/ Replace(a) \/ Fail(a)
      PROVE  NoStrayTemp'
  <2>1. temp'[a] = Absent /\ \A b \in Appliers : b # a => temp'[b] = temp[b] /\ pc'[b] = pc[b]
    BY <1>1 DEF Start, Replace, Fail
  <2> QED BY <2>1
<1>2. ASSUME NEW a \in Appliers, NEW q \in Working \cup {"crashed"}, pc' = [pc EXCEPT ![a] = q],
             \A b \in Appliers : b # a => temp'[b] = temp[b]
      PROVE  NoStrayTemp'
  BY <1>2
<1>3. ASSUME NEW a \in Appliers,
             VerifySource(a) \/ CreateTemp(a) \/ OpenSource(a) \/ FinishOperations(a)
               \/ VerifyTemp(a) \/ SkipBackup(a) \/ BeginBackup(a) \/ FinishBackup(a) \/ Crash(a)
      PROVE  NoStrayTemp'
  <2>1. \E q \in Working \cup {"crashed"} : pc' = [pc EXCEPT ![a] = q]
    BY <1>3 DEF VerifySource, CreateTemp, OpenSource, FinishOperations, VerifyTemp, SkipBackup,
       BeginBackup, FinishBackup, Crash
  <2>2. \A b \in Appliers : b # a => temp'[b] = temp[b]
    BY <1>3 DEF VerifySource, CreateTemp, OpenSource, FinishOperations, VerifyTemp, SkipBackup,
       BeginBackup, FinishBackup, Crash
  <2> QED BY <1>2, <2>1, <2>2
<1>4. ASSUME UNCHANGED <<temp, pc>> PROVE NoStrayTemp'
  BY <1>4
<1>5. ASSUME NEW a \in Appliers, ApplyOperation(a) PROVE NoStrayTemp'
  BY <1>4, <1>5 DEF ApplyOperation
<1>6. CASE EditTarget \/ EditSource \/ UNCHANGED vars
  BY <1>4, <1>6 DEF EditTarget, EditSource, vars
<1> QED
  BY <1>1, <1>3, <1>5, <1>6 DEF Next, Step

\* However many calls fail at whatever step, and however they interleave, only
\* a process that was killed leaves its temporary file behind.
THEOREM TempsAreRemoved == Spec => []NoStrayTemp
<1>1. Init => TypeOK /\ NoStrayTemp
  BY InitType DEF Init, NoStrayTemp
<1>2. TypeOK /\ NoStrayTemp /\ [Next]_vars => (TypeOK /\ NoStrayTemp)'
  BY NextType, NextNoStrayTemp
<1> QED
  BY <1>1, <1>2, PTL DEF Spec
=============================================================================
