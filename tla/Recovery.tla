------------------------------- MODULE Recovery -------------------------------
(***************************************************************************)
(* EnhancedApplier.ApplyPatchWithIntegrity of                              *)
(* pkg/integrity/enhanced_applier.go with everything it owns: the          *)
(* RecoveryManager that backs the target up and restores it, the           *)
(* IntegrityChecker with its one table of block checksums, which every     *)
(* step loads anew with another file's, and the RealtimeVerifier that      *)
(* checks blocks on their way to the target and is never reset.            *)
(*                                                                         *)
(* A file is a sequence of blocks; two blocks have the same checksums      *)
(* exactly when they are equal.                                            *)
(***************************************************************************)
EXTENDS Naturals, Sequences, FiniteSets

CONSTANTS
    Paths,       \* files, given as source or target; no two have the same base name
    Globs,       \* Globs[p]: the files whose backups the pattern p.*.backup finds,
                 \* not those of p if p, or the directory, has [ * ? in its name
    Blocks,      \* contents of a block
    MaxBlocks,   \* bound: length of a file users write
    MaxBackups,  \* RecoveryConfig.MaxBackups
    Torn,        \* a block that is cut short
    Absent,      \* no such file
    MaxCalls,    \* bound: calls
    MaxSeconds,  \* bound: ticks of the clock that names backups
    MaxFaults,   \* bound: errors and kills
    MaxEdits     \* bound: files overwritten by users

ASSUME RecoveryAssumption ==
    /\ Globs \in [Paths -> SUBSET Paths]
    /\ Torn \notin Blocks
    /\ Absent \notin Seq(Blocks \cup {Torn})
    /\ MaxBackups \in Nat \ {0}
    /\ MaxBlocks \in Nat /\ MaxCalls \in Nat /\ MaxSeconds \in Nat
    /\ MaxFaults \in Nat /\ MaxEdits \in Nat

VARIABLES
    file,          \* the files
    backups,       \* the backup directory: [path, second, stamp, data]
    second, stamp, \* the time, in seconds, and the mtime of the last write there
    table,         \* checker.checksums: the blocks of the file last summed
    offset, rest,  \* the realtime verifier's offset and streamBuffer, in blocks
    pc,            \* where the call stands
    src, tgt,      \* its arguments
    pos,           \* blocks copied
    before,        \* the target's content when the call began
    stale,         \* the blocks that earlier calls have left in the verifier then
    calls, faults, edits

vars == <<file, backups, second, stamp, table, offset, rest, pc, src, tgt, pos,
          before, stale, calls, faults, edits>>
checker == <<table, offset, rest>>
call    == <<src, tgt, before, stale, calls>>

Contents == UNION {[1..n -> Blocks] : n \in 0..MaxBlocks}
Ended    == {"idle", "done", "failed", "recovered", "crashed"}
Running  == {"backup", "copying", "cleanup", "sum", "open", "writing", "verify",
             "recover", "restoring"}

Init ==
    /\ file \in [Paths -> Contents \cup {Absent}]
    /\ backups = {} /\ second = 0 /\ stamp = 0
    /\ table = <<>> /\ offset = 0 /\ rest = <<>>
    /\ pc = "idle" /\ pos = 0 /\ before = Absent /\ stale = 0
    /\ src \in Paths /\ tgt = src
    /\ calls = 0 /\ faults = 0 /\ edits = 0

Goto(from, to) == pc = from /\ pc' = to

\* One more of the errors and kills the model allows.
Fault == faults < MaxFaults /\ faults' = faults + 1

-----------------------------------------------------------------------------
(* Checksums.                                                              *)

\* VerifyBlock.
Checks(at, block) == at + 1 \in DOMAIN table /\ table[at + 1] = block

\* VerifyFile: every block that the file has is right.  Blocks that it lacks
\* are not missed.
Intact(data) == \A i \in DOMAIN data : Checks(i - 1, data[i])

Accepts_Unchecked(queue) ==
    /\ offset' = offset + Len(queue)
    /\ rest' = <<>>

Rejects_KeepsAll(queue) ==
    \E n \in DOMAIN queue :
        /\ \A i \in 1..(n - 1) : Checks(offset + i - 1, queue[i])
        /\ ~Checks(offset + n - 1, queue[n])
        /\ offset' = offset + n - 1
        /\ rest' = SubSeq(queue, n, Len(queue))

\* RealtimeVerifier.Write and Flush on a buffer and what comes after it: the
\* blocks are checked in order, and the first that fails stays in the buffer.
Accepts(queue) ==
    /\ \A i \in DOMAIN queue : Checks(offset + i - 1, queue[i])
    /\ offset' = offset + Len(queue)
    /\ rest' = <<>>

Rejects(queue) ==
    \E n \in DOMAIN queue :
        /\ \A i \in 1..(n - 1) : Checks(offset + i - 1, queue[i])
        /\ ~Checks(offset + n - 1, queue[n])
        /\ offset' = offset + n - 1
        /\ rest' = <<queue[n]>>

-----------------------------------------------------------------------------
(* The backup directory.                                                   *)

\* filepath.Glob, with the file's name in the pattern as it is.  A pattern that
\* is malformed finds nothing.
Found(p) == {b \in backups : b.path \in Globs[p]}

\* FindLatestBackup and the oldest-first order of cleanupOldBackups.
Latest(p) == CHOOSE b \in Found(p) : \A c \in Found(p) : c.stamp <= b.stamp

\* os.Create and the writes under a backup's name, which holds the second.
Write(p, s, data) ==
    /\ stamp' = stamp + 1
    /\ backups' = {b \in backups : b.path # p \/ b.second # s}
                     \cup {[path |-> p, second |-> s, stamp |-> stamp + 1, data |-> data]}

Superfluous_Newest(b) ==
    /\ b \in Found(tgt)
    /\ Cardinality({c \in Found(tgt) : c.stamp < b.stamp}) >= MaxBackups

\* cleanupOldBackups leaves the newest MaxBackups.
Superfluous(b) ==
    /\ b \in Found(tgt)
    /\ Cardinality({c \in Found(tgt) : c.stamp > b.stamp}) >= MaxBackups

-----------------------------------------------------------------------------
(* ApplyPatchWithIntegrity.                                                *)

\* A call, with the applier of the last one or a new one, on a source of whole
\* blocks.  There is a backup to make only if the target exists.
Start(s, t) ==
    /\ pc \in Ended
    /\ calls < MaxCalls
    /\ file[s] \in Contents
    /\ calls' = calls + 1
    /\ src' = s /\ tgt' = t /\ before' = file[t]
    /\ pc' = IF file[t] = Absent THEN "sum" ELSE "backup"
    /\ UNCHANGED checker \/ (table' = <<>> /\ offset' = 0 /\ rest' = <<>>)
    /\ stale' = offset' + Len(rest')
    /\ UNCHANGED <<file, backups, second, stamp, pos, faults, edits>>

\* CreateBackup: os.Create, the end of io.Copy, and cleanupOldBackups.
BeginBackup ==
    /\ Goto("backup", "copying")
    /\ Write(tgt, second, <<Torn>>)
    /\ UNCHANGED <<file, second, checker, call, pos, faults, edits>>

FinishBackup ==
    /\ Goto("copying", "cleanup")
    /\ Write(tgt, second, file[tgt])
    /\ UNCHANGED <<file, second, checker, call, pos, faults, edits>>

CleanUp ==
    /\ Goto("cleanup", "sum")
    /\ backups' = {b \in backups : ~Superfluous(b)}
    /\ UNCHANGED <<file, second, stamp, checker, call, pos, faults, edits>>

\* GenerateFileChecksums of the source.
SumSource ==
    /\ Goto("sum", "open")
    /\ table' = file[src]
    /\ UNCHANGED <<file, backups, second, stamp, offset, rest, call, pos, faults, edits>>

\* os.Open of the source, os.Create of the target: if they are one file, the
\* source is empty now.
OpenFiles ==
    /\ Goto("open", "writing")
    /\ file' = [file EXCEPT ![tgt] = <<>>]
    /\ pos' = 0
    /\ UNCHANGED <<backups, second, stamp, checker, call, faults, edits>>

NextBlock == file[src][pos + 1]

\* One turn of the copy loop: the MultiWriter writes to the target first and
\* then to the verifier.
CopyBlock ==
    /\ Goto("writing", "writing")
    /\ pos < Len(file[src])
    /\ Accepts(Append(rest, NextBlock))
    /\ file' = [file EXCEPT ![tgt] = Append(@, NextBlock)]
    /\ pos' = pos + 1
    /\ UNCHANGED <<backups, second, stamp, table, call, faults, edits>>

RejectBlock ==
    /\ Goto("writing", "recover")
    /\ pos < Len(file[src])
    /\ Rejects(Append(rest, NextBlock))
    /\ file' = [file EXCEPT ![tgt] = Append(@, NextBlock)]
    /\ UNCHANGED <<backups, second, stamp, table, call, pos, faults, edits>>

\* The end of the source and the verifier's Flush.
FinishCopy ==
    /\ pc = "writing"
    /\ pos >= Len(file[src])
    /\ \/ Accepts(rest) /\ pc' = "verify"
       \/ Rejects(rest) /\ pc' = "recover"
    /\ UNCHANGED <<file, backups, second, stamp, table, call, pos, faults, edits>>

\* postVerification sums the target up and checks it against that.
VerifyTarget ==
    /\ Goto("verify", "done")
    /\ table' = file[tgt]
    /\ UNCHANGED <<file, backups, second, stamp, offset, rest, call, pos, faults, edits>>

-----------------------------------------------------------------------------
(* Errors and kills.                                                       *)

\* Steps outside applyPatchOperations just return their error.
Fail ==
    /\ pc \in {"backup", "copying", "sum", "verify", "recover", "restoring"}
    /\ pc' = "failed"
    /\ Fault
    /\ UNCHANGED <<file, backups, second, stamp, checker, call, pos, edits>>

\* The source cannot be opened or read or the target not written, which may
\* cut its last block short.
FailCopy ==
    /\ pc \in {"open", "writing"}
    /\ pc' = "recover"
    /\ Fault
    /\ file' \in {file} \cup (IF pc = "open" THEN {}
                              ELSE {[file EXCEPT ![tgt] = Append(@, Torn)]})
    /\ UNCHANGED <<backups, second, stamp, checker, call, pos, edits>>

NeedsRestore == file[tgt] # Absent /\ ~Intact(file[tgt])

\* AutoRecover of a target that VerifyFile finds intact.
RecoverIntact ==
    /\ Goto("recover", "recovered")
    /\ file[tgt] # Absent
    /\ ~NeedsRestore
    /\ UNCHANGED <<file, backups, second, stamp, checker, call, pos, faults, edits>>

\* A read error ends VerifyFile with the blocks read until then, and if none of
\* them was wrong the file counts as intact.
RecoverUnread ==
    /\ Goto("recover", "recovered")
    /\ file[tgt] # Absent
    /\ Fault
    /\ UNCHANGED <<file, backups, second, stamp, checker, call, pos, edits>>

\* There is nothing to verify, or no backup.
RecoverFails ==
    /\ Goto("recover", "failed")
    /\ file[tgt] = Absent \/ (NeedsRestore /\ Found(tgt) = {})
    /\ UNCHANGED <<file, backups, second, stamp, checker, call, pos, faults, edits>>

\* RestoreFromBackup: the backup is checked against its own checksums, and
\* os.Create cuts the target.
BeginRestore ==
    /\ Goto("recover", "restoring")
    /\ NeedsRestore
    /\ Found(tgt) # {}
    /\ table' = Latest(tgt).data
    /\ file' = [file EXCEPT ![tgt] = <<Torn>>]
    /\ UNCHANGED <<backups, second, stamp, offset, rest, call, pos, faults, edits>>

FinishRestore ==
    /\ Goto("restoring", "recovered")
    /\ file' = [file EXCEPT ![tgt] = Latest(tgt).data]
    /\ UNCHANGED <<backups, second, stamp, checker, call, pos, faults, edits>>

\* The process is killed.  The checker and the verifier were in its memory.
Crash ==
    /\ pc \in Running
    /\ pc' = "crashed"
    /\ Fault
    /\ table' = <<>> /\ offset' = 0 /\ rest' = <<>>
    /\ UNCHANGED <<file, backups, second, stamp, call, pos, edits>>

\* Users overwrite files, but not the target of the running call.
Edit(p) ==
    /\ edits < MaxEdits
    /\ edits' = edits + 1
    /\ (pc \in Running => p # tgt)
    /\ \E c \in Contents :
          /\ file' = [file EXCEPT ![p] = c]
          /\ before' = IF p = tgt THEN c ELSE before
    /\ UNCHANGED <<backups, second, stamp, checker, pc, src, tgt, stale, pos, calls, faults>>

\* A backup keeps the second it was begun in, so the clock may as well wait.
Tick ==
    /\ pc # "copying"
    /\ second < MaxSeconds
    /\ second' = second + 1
    /\ UNCHANGED <<file, backups, stamp, checker, pc, call, pos, faults, edits>>

Next ==
    \/ \E s, t \in Paths : Start(s, t)
    \/ BeginBackup \/ FinishBackup \/ CleanUp
    \/ SumSource \/ OpenFiles \/ CopyBlock \/ RejectBlock \/ FinishCopy \/ VerifyTarget
    \/ Fail \/ FailCopy \/ RecoverIntact \/ RecoverUnread
    \/ RecoverFails \/ BeginRestore \/ FinishRestore
    \/ Crash
    \/ \E p \in Paths : Edit(p)
    \/ Tick

Spec == Init /\ [][Next]_vars

-----------------------------------------------------------------------------
(* Properties.                                                             *)

FileContents == Seq(Blocks \cup {Torn})

TypeOK ==
    /\ file \in [Paths -> FileContents \cup {Absent}]
    /\ backups \subseteq [path : Paths, second : 0..MaxSeconds, stamp : 1..stamp,
                          data : FileContents]
    /\ second \in 0..MaxSeconds /\ stamp \in Nat
    /\ table \in FileContents /\ offset \in Nat
    /\ rest \in FileContents /\ Len(rest) <= 1
    /\ pc \in Ended \cup Running
    /\ src \in Paths /\ tgt \in Paths /\ pos \in Nat
    /\ before \in FileContents \cup {Absent} /\ stale \in Nat
    /\ calls \in 0..MaxCalls /\ faults \in 0..MaxFaults /\ edits \in 0..MaxEdits

\* Until a call succeeds, what the target held when it began is in the target
\* or in a backup of it: whatever fails, wherever the process is killed, even
\* if the backup overwrites an older one of the same second, the cleanup
\* removes others and the restore is cut short.
PreviousHeld ==
    pc # "done" /\ before # Absent =>
        file[tgt] = before \/ \E b \in backups : b.path = tgt /\ b.data = before

\* What is copied has been checked: while the loop runs, block i of the target
\* was compared with the checksum of block stale + i of the source, although
\* users may overwrite the source.  With a new applier that is the checksum of
\* its own place, so the target is the start of the source as it was summed;
\* with one used before it is that of another block.
CopiedIsChecked ==
    pc \in {"writing", "verify"} /\ file[tgt] # <<>> =>
        /\ rest = <<>> /\ offset = stale + pos
        /\ \A i \in 1..pos : Checks(stale + i - 1, file[tgt][i])

\* Why PreviousHeld holds.  The backup of the running call is the newest of
\* all, so neither the cleanup nor the choice of the latest can miss it.
NewestIs(p, content) ==
    \E b \in backups : b.stamp = stamp /\ b.path = p /\ b.data = content

StampsUnique == \A b, c \in backups : b.stamp = c.stamp => b = c

Backed ==
    /\ pc \in {"backup", "copying"} => file[tgt] = before /\ before # Absent
    /\ pc \in Running \ {"backup", "copying"} /\ before # Absent => NewestIs(tgt, before)

\* The source has been there since the call began, the target since os.Create,
\* and the backup to restore since it was found.
FilesThere ==
    /\ pc \in Running => file[src] # Absent
    /\ pc \in {"writing", "verify", "restoring"} => file[tgt] # Absent
    /\ pc = "restoring" => Found(tgt) # {}

RecoveryInv == TypeOK /\ StampsUnique /\ Backed /\ FilesThere /\ PreviousHeld

\* A restore gives back what the target held when the call began, although
\* the pattern that finds the backups may find those of other files: if it
\* finds the target's own.  If it does not, the restore gives what another
\* file held, and if there was no target it gives an older backup.
RestoresPrevious ==
    pc = "restoring" /\ before # Absent /\ tgt \in Globs[tgt] =>
        Latest(tgt).data = before
=============================================================================
