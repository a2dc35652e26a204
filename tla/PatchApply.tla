----------------------------- MODULE PatchApply -----------------------------
(***************************************************************************)
(* Applier.ApplyPatch of pkg/patch/applier.go as a protocol on the file    *)
(* system: validate, read the patch, check the source's checksum, rebuild  *)
(* the new file in a temporary file next to the target, check the result,  *)
(* copy the target to its backup, rename.  Every step may fail, the        *)
(* process may be killed between any two, users may overwrite the files    *)
(* while it runs, and several calls may run at once.                       *)
(*                                                                         *)
(* A file's content is one value of Contents; two contents have the same   *)
(* SHA-256 exactly when they are equal.  A call of the program that reads  *)
(* or writes a whole file goes through an open handle: "view" is what the  *)
(* handle shows, "live" says that the handle is still the file under the   *)
(* name (a rename over the name leaves the handle on the old file).        *)
(* "owned" and "late" are history variables: no step depends on them.      *)
(***************************************************************************)
EXTENDS Naturals

CONSTANTS
    Appliers,       \* the calls of ApplyPatch; each has a patch of its own
    Contents,       \* file contents
    UserContents,   \* the contents users put in the files
    PatchSrc,       \* PatchSrc[a]: the content patch a was made from
    PatchDst,       \* PatchDst[a]: the content patch a was made for
    Torn,           \* a file that is only partly written
    Absent,         \* no file of that name
    InPlace,        \* the source path is the target path
    VerifyEnabled,  \* ApplierConfig.VerifyTarget
    BackupEnabled,  \* ApplierConfig.BackupEnabled
    Operations,     \* number of operations of a patch
    MaxRuns,        \* bound: calls each applier makes
    MaxEdits        \* bound: overwrites by users

ASSUME ContentsAssumption ==
    /\ UserContents \subseteq Contents
    /\ Torn \notin Contents /\ Absent \notin Contents /\ Torn # Absent
    /\ PatchSrc \in [Appliers -> Contents]
    /\ PatchDst \in [Appliers -> Contents]
ASSUME ConfigAssumption ==
    /\ InPlace \in BOOLEAN /\ VerifyEnabled \in BOOLEAN /\ BackupEnabled \in BOOLEAN
    /\ Operations \in Nat /\ MaxRuns \in Nat /\ MaxEdits \in Nat

VARIABLES
    source, target, backup,  \* the three files (source is unused when InPlace)
    temp,      \* temp[a]: the temporary file of a's current run
    pc,        \* pc[a]: where a is in ApplyPatch
    view,      \* view[a]: what a's open read handle shows
    live,      \* live[a]: that handle is still the file under its name
    pristine,  \* pristine[a]: all a has read of the source was PatchSrc[a];
               \* while a backs up, all it has read is one content
    left,      \* left[a]: operations still to apply
    runs,      \* runs[a]: calls made
    edits,     \* overwrites by users so far
    owned,     \* what the target was when a user last had it
    late       \* the calls that were between the start of their backup and
               \* the rename when a user last wrote the target, except those
               \* that ended there with an error

files  == <<source, target, backup>>
handle == <<view, live, pristine, left>>
user   == <<owned, late>>
vars   == <<source, target, backup, temp, pc, view, live, pristine, left, runs, edits,
            owned, late>>

FileStates == Contents \cup {Torn, Absent}
Finished   == {"idle", "done", "failed", "crashed"}
Working    == {"validated", "verified", "created", "applying", "applied",
               "checked", "backing", "backed"}

TypeOK ==
    /\ source \in FileStates /\ target \in FileStates /\ backup \in FileStates
    /\ temp \in [Appliers -> FileStates]
    /\ pc \in [Appliers -> Finished \cup Working]
    /\ view \in [Appliers -> FileStates]
    /\ live \in [Appliers -> BOOLEAN]
    /\ pristine \in [Appliers -> BOOLEAN]
    /\ left \in [Appliers -> 0..Operations]
    /\ runs \in [Appliers -> 0..MaxRuns]
    /\ edits \in 0..MaxEdits
    /\ owned \in FileStates
    /\ late \subseteq Appliers

-----------------------------------------------------------------------------
SourceContent == IF InPlace THEN target ELSE source

\* a holds an open read handle on the file under the target's name.
ReadsTarget(a) == pc[a] = "backing" \/ (InPlace /\ pc[a] = "applying")

\* a holds an open read handle on the separate source file.
ReadsSource(a) == ~InPlace /\ pc[a] = "applying"

SourceVerified_Skipped(a) == SourceContent # Absent

\* verifySourceFile: the whole file hashes to the header's SourceChecksum.
SourceVerified(a) == SourceContent = PatchSrc[a]

TempVerified_Skipped(a) == temp[a] # Torn

\* verifyTargetFile on the temporary file, when VerifyTarget is set.
TempVerified(a) == VerifyEnabled => temp[a] = PatchDst[a]

\* What a finished rebuild may hold: the new content if everything came from
\* the right source, anything (short copies included) if it did not.
Rebuilt(a) == IF pristine[a] THEN {PatchDst[a]} ELSE Contents

Init ==
    /\ source \in UserContents
    /\ target \in UserContents \cup {Absent}
    /\ backup = Absent
    /\ temp = [a \in Appliers |-> Absent]
    /\ pc = [a \in Appliers |-> "idle"]
    /\ view = [a \in Appliers |-> Absent]
    /\ live = [a \in Appliers |-> FALSE]
    /\ pristine = [a \in Appliers |-> FALSE]
    /\ left = [a \in Appliers |-> 0]
    /\ runs = [a \in Appliers |-> 0]
    /\ edits = 0
    /\ owned = target
    /\ late = {}

\* The calls of S that back up the target or are about to rename over it.
BeforeRename(S) == {a \in S : pc[a] \in {"backing", "backed"}}

Goto(a, from, to) ==
    /\ pc[a] = from
    /\ pc' = [pc EXCEPT ![a] = to]

-----------------------------------------------------------------------------
(* The steps of ApplyPatch.                                                *)

\* A call: validateInputFiles and DeserializePatch.  The temporary file of a
\* run that was killed stays in the directory under a name nobody uses.
Start(a) ==
    /\ pc[a] \in Finished
    /\ runs[a] < MaxRuns
    /\ SourceContent # Absent
    /\ runs' = [runs EXCEPT ![a] = @ + 1]
    /\ pc' = [pc EXCEPT ![a] = "validated"]
    /\ temp' = [temp EXCEPT ![a] = Absent]
    /\ UNCHANGED <<source, target, backup, view, live, pristine, left, edits, user>>

VerifySource(a) ==
    /\ SourceVerified(a)
    /\ Goto(a, "validated", "verified")
    /\ UNCHANGED <<source, target, backup, temp, view, live, pristine, left, runs, edits, user>>

\* createTempFile: an empty file with a fresh name in the target's directory.
CreateTemp(a) ==
    /\ Goto(a, "verified", "created")
    /\ temp' = [temp EXCEPT ![a] = Torn]
    /\ UNCHANGED <<source, target, backup, view, live, pristine, left, runs, edits, user>>

\* applyOperations opens the source by name, after the check and separately.
OpenSource(a) ==
    /\ Goto(a, "created", "applying")
    /\ SourceContent # Absent
    /\ view' = [view EXCEPT ![a] = SourceContent]
    /\ live' = [live EXCEPT ![a] = TRUE]
    /\ pristine' = [pristine EXCEPT ![a] = TRUE]
    /\ left' = [left EXCEPT ![a] = Operations]
    /\ UNCHANGED <<source, target, backup, temp, runs, edits, user>>

ApplyOperation_OneMore(a) ==
    /\ pc[a] = "applying"
    /\ left' = [left EXCEPT ![a] = @ - 1]
    /\ pristine' = [pristine EXCEPT ![a] = @ /\ view[a] = PatchSrc[a]]
    /\ UNCHANGED <<source, target, backup, temp, pc, view, live, runs, edits, user>>

ApplyOperation(a) ==
    /\ pc[a] = "applying"
    /\ left[a] > 0
    /\ left' = [left EXCEPT ![a] = @ - 1]
    /\ pristine' = [pristine EXCEPT ![a] = @ /\ view[a] = PatchSrc[a]]
    /\ UNCHANGED <<source, target, backup, temp, pc, view, live, runs, edits, user>>

FinishOperations(a) ==
    /\ left[a] = 0
    /\ Goto(a, "applying", "applied")
    /\ \E c \in Rebuilt(a) : temp' = [temp EXCEPT ![a] = c]
    /\ UNCHANGED <<source, target, backup, view, live, pristine, left, runs, edits, user>>

VerifyTemp(a) ==
    /\ TempVerified(a)
    /\ Goto(a, "applied", "checked")
    /\ UNCHANGED <<source, target, backup, temp, view, live, pristine, left, runs, edits, user>>

\* createBackup returns at once if there is nothing to back up.
SkipBackup(a) ==
    /\ BackupEnabled => target = Absent
    /\ Goto(a, "checked", "backed")
    /\ UNCHANGED <<source, target, backup, temp, view, live, pristine, left, runs, edits, user>>

\* copyFile: open the target, then os.Create truncates the last backup.
BeginBackup(a) ==
    /\ BackupEnabled
    /\ target # Absent
    /\ Goto(a, "checked", "backing")
    /\ backup' = Torn
    /\ view' = [view EXCEPT ![a] = target]
    /\ live' = [live EXCEPT ![a] = TRUE]
    /\ pristine' = [pristine EXCEPT ![a] = TRUE]
    /\ UNCHANGED <<source, target, temp, left, runs, edits, user>>

\* The end of io.Copy.  If another call wrote the same backup since this one
\* truncated it, the shorter content leaves a tail of the longer one; if the
\* target was overwritten meanwhile, the copy may be half of each.
FinishBackup(a) ==
    /\ Goto(a, "backing", "backed")
    /\ backup' \in IF pristine[a] /\ backup \in {Torn, view[a]}
                  THEN {view[a]} ELSE {view[a], Torn}
    /\ UNCHANGED <<source, target, temp, view, live, pristine, left, runs, edits, user>>

Replace_InPlaceWrite(a) ==
    /\ Goto(a, "backed", "done")
    /\ target' \in {temp[a], Torn}
    /\ temp' = [temp EXCEPT ![a] = Absent]
    /\ live' = [b \in Appliers |-> live[b] /\ ~ReadsTarget(b)]
    /\ UNCHANGED <<source, backup, view, pristine, left, runs, edits, user>>

\* atomicReplace, and the return of a successful result.
Replace(a) ==
    /\ Goto(a, "backed", "done")
    /\ target' = temp[a]
    /\ temp' = [temp EXCEPT ![a] = Absent]
    /\ live' = [b \in Appliers |-> live[b] /\ ~ReadsTarget(b)]
    /\ UNCHANGED <<source, backup, view, pristine, left, runs, edits, user>>

Fail_KeepsTemp(a) ==
    /\ pc[a] \in Working
    /\ pc' = [pc EXCEPT ![a] = "failed"]
    /\ late' = late \ BeforeRename({a})
    /\ UNCHANGED <<source, target, backup, temp, view, live, pristine, left, runs, edits, owned>>

\* Any error return: a failed check, an unreadable or unwritable file, a
\* patch that does not parse.  The deferred os.Remove deletes the temporary.
Fail(a) ==
    /\ pc[a] \in Working
    /\ pc' = [pc EXCEPT ![a] = "failed"]
    /\ temp' = [temp EXCEPT ![a] = Absent]
    /\ late' = late \ BeforeRename({a})
    /\ UNCHANGED <<source, target, backup, view, live, pristine, left, runs, edits, owned>>

-----------------------------------------------------------------------------
(* The environment.                                                        *)

\* The process is killed: no deferred call runs.
Crash(a) ==
    /\ pc[a] \in Working
    /\ pc' = [pc EXCEPT ![a] = "crashed"]
    /\ late' = late \ BeforeRename({a})
    /\ UNCHANGED <<source, target, backup, temp, view, live, pristine, left, runs, edits, owned>>

\* A user overwrites a file in place: open handles on it see the new bytes.
EditTarget ==
    /\ edits < MaxEdits
    /\ edits' = edits + 1
    /\ \E c \in UserContents :
          /\ target' = c
          /\ view' = [a \in Appliers |-> IF live[a] /\ ReadsTarget(a) THEN c ELSE view[a]]
          /\ pristine' = [a \in Appliers |->
                pristine[a] /\ (live[a] /\ pc[a] = "backing" => view[a] = c)]
          /\ owned' = c
    /\ late' = BeforeRename(Appliers)
    /\ UNCHANGED <<source, backup, temp, pc, live, left, runs>>

EditSource ==
    /\ ~InPlace
    /\ edits < MaxEdits
    /\ edits' = edits + 1
    /\ \E c \in UserContents :
          /\ source' = c
          /\ view' = [a \in Appliers |-> IF live[a] /\ ReadsSource(a) THEN c ELSE view[a]]
    /\ UNCHANGED <<target, backup, temp, pc, live, pristine, left, runs, user>>

Step(a) ==
    \/ Start(a) \/ VerifySource(a) \/ CreateTemp(a) \/ OpenSource(a)
    \/ ApplyOperation(a) \/ FinishOperations(a) \/ VerifyTemp(a)
    \/ SkipBackup(a) \/ BeginBackup(a) \/ FinishBackup(a) \/ Replace(a)
    \/ Fail(a)

Next ==
    \/ \E a \in Appliers : Step(a) \/ Crash(a)
    \/ EditTarget
    \/ EditSource

Spec == Init /\ [][Next]_vars

-----------------------------------------------------------------------------
(* Properties.                                                             *)

\* Whatever is interrupted, raced or edited, the file under the target's name
\* is something a user wrote or the exact content some patch was made for:
\* never a partly written file and never a rebuild from the wrong source
\* (ApplyPatch checks the source before it reads it again, line 98 and 110).
TargetIntegrity ==
    target \in UserContents \cup {PatchDst[a] : a \in Appliers} \cup {Absent}

\* A temporary file outlives its call only if the process was killed: every
\* error path after createTempFile removes it (line 107).
NoStrayTemp ==
    \A a \in Appliers : temp[a] # Absent => pc[a] \in Working \cup {"crashed"}

\* Patching a file in place, however often it is retried and wherever it is
\* killed, leaves what the user last had there in the file or in its backup.
\* The exception is a write between the start of the copy to the backup and
\* the rename (line 123 to 130), which no check notices: such a write is lost
\* with the rename.
OriginalKept == late = {} => owned \in {target, backup}

\* What a call that stands at p has reported to its caller.
Outcome(p) ==
    IF p \in Working THEN "running"
    ELSE IF p = "done" THEN "committed"
    ELSE IF p = "idle" THEN "idle" ELSE "aborted"

\* Applying a patch is all or nothing: it implements AtomicUpdate, in which
\* the target changes in one step, exactly when the call succeeds (the
\* comments on lines 102 and 129 promise an atomic operation).
Atomic == INSTANCE AtomicUpdate WITH
    Updates <- Appliers, New <- PatchDst, Missing <- Absent,
    file <- target, status <- [a \in Appliers |-> Outcome(pc[a])]

ImplementsAtomicUpdate == Atomic!Spec

-----------------------------------------------------------------------------
(* The inductive strengthenings of the proofs.                             *)

\* A temporary file that passed its check is the new content from then on:
\* nobody else knows its name.
CheckedTemp ==
    \A a \in Appliers :
        pc[a] \in {"checked", "backing", "backed"} => temp[a] = PatchDst[a]

\* What becomes of the user's content when a patch is applied in place.
\* Outside the calls it is in the file, or the patch's content is there and
\* it is in the backup; from the source check to the rename it is in the
\* file, and the copy has all of it unless the user wrote after its start.
UserContentHeld ==
    \A a \in Appliers :
        /\ pc[a] \in Finished \cup {"validated"} =>
              target = owned \/ (target = PatchDst[a] /\ (late # {} \/ backup = owned))
        /\ pc[a] \in Working \ {"validated"} => target = owned /\ owned # Absent
        /\ pc[a] = "backing" =>
              late # {} \/ (view[a] = owned /\ pristine[a] /\ backup = Torn)
        /\ pc[a] = "backed" => late # {} \/ backup = owned
=============================================================================
