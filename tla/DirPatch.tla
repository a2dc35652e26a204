------------------------------- MODULE DirPatch -------------------------------
(***************************************************************************)
(* A directory patch from end to end: CompareDirectories of                *)
(* pkg/diff/walk.go lists what changed between two trees,                  *)
(* SerializeDirPatch of pkg/patch/dir_serializer.go orders it, and         *)
(* ApplyDirPatch of pkg/cli/engine_adapter.go works through the list on a  *)
(* target tree, in place and one file after the other.  It may be          *)
(* interrupted between any two calls of the operating system.              *)
(*                                                                         *)
(* A tree gives every path a node: a file's content, Dir or Absent.        *)
(***************************************************************************)
EXTENDS Naturals, Sequences, SequencesExt

CONSTANTS
    Paths,      \* relative paths
    Above,      \* Above[p]: the directories above path p
    Temp,       \* Temp[p]: the path p.tmp, or NoPath if no tree has that name
    Ignored,    \* the paths WalkDirectory leaves out
    Data,       \* file contents
    SizeOf,     \* SizeOf[d]: the length of content d
    Torn,       \* a file that is only partly written
    Dir, Absent, NoPath,
    Stamped,    \* a file that changes gets another size or another mtime
    Swaps,      \* a path may be a file in one tree and a directory in the other
    TempNames,  \* trees may have files under the names Temp[p]
    Edited,     \* the target need not be a copy of the old tree
    MaxRuns,    \* bound: calls of ApplyDirPatch
    MaxFaults   \* bound: interruptions

ASSUME DirPatchAssumption ==
    /\ IsFiniteSet(Paths)
    /\ Above \in [Paths -> SUBSET Paths]
    /\ \A p \in Paths : p \notin Above[p]
    /\ \A p \in Paths : \A q \in Above[p] : Above[q] \subseteq Above[p]
    /\ Temp \in [Paths -> Paths \cup {NoPath}] /\ NoPath \notin Paths
    /\ Ignored \subseteq Paths
    /\ SizeOf \in [Data -> Nat]
    /\ Torn \notin Data /\ Dir \notin Data \cup {Torn} /\ Absent \notin Data \cup {Torn, Dir}
    /\ {Stamped, Swaps, TempNames, Edited} \subseteq BOOLEAN
    /\ MaxRuns \in Nat /\ MaxFaults \in Nat

VARIABLES
    old, new,    \* the trees the patch is made from
    sameTime,    \* paths whose mtime is the same in both
    unread,      \* files whose hash CompareDirectories fails to compute
    before,      \* the target tree before the first call
    dir,         \* the target tree
    patch,       \* the entries of the patch: [path, status]
    pc,          \* "diff", "ready", "applying", "writing", "staged", "done", "failed"
    next,        \* the entry ApplyDirPatch is at
    staged,      \* the content of the entry's .tmp file
    runs, faults

vars  == <<old, new, sameTime, unread, before, dir, patch, pc, next, staged, runs, faults>>
given == <<old, new, sameTime, unread, before>>

Nodes      == Data \cup {Torn, Dir, Absent}
IsFile(n)  == n \in Data \cup {Torn}
TempPaths  == {Temp[p] : p \in Paths} \ {NoPath}

\* Trees: whatever exists is in an existing directory.
Trees ==
    {t \in [Paths -> Data \cup {Dir, Absent}] :
        /\ \A p \in Paths : t[p] # Absent => \A q \in Above[p] : t[q] = Dir
        /\ TempNames \/ \A p \in TempPaths : t[p] = Absent}

-----------------------------------------------------------------------------
(* Comparing the trees.                                                    *)

Walked(t, p) == p \notin Ignored /\ t[p] \in Data

Added(p)   == ~Walked(old, p) /\ Walked(new, p)
Deleted(p) == Walked(old, p) /\ ~Walked(new, p)

Modified_SizeOnly(p) ==
    /\ Walked(old, p) /\ Walked(new, p)
    /\ SizeOf[old[p]] # SizeOf[new[p]]

\* Contents are only hashed when the sizes differ (and then they differ too);
\* a file that cannot be hashed is passed over without an error.
Modified(p) ==
    /\ Walked(old, p) /\ Walked(new, p)
    /\ IF SizeOf[old[p]] = SizeOf[new[p]] THEN p \notin sameTime ELSE p \notin unread

\* The entries of one kind, in whatever order the map iteration gave.
Listings(S, status) ==
    {[i \in DOMAIN s |-> [path |-> s[i], status |-> status]] : s \in SetToSeqs(S)}

AddedFiles    == {p \in Paths : Added(p)}
DeletedFiles  == {p \in Paths : Deleted(p)}
ModifiedFiles == {p \in Paths : Modified(p)}

\* SerializeDirPatch: added files, then deleted ones, then modified ones.
Patches ==
    {a \o d \o m :
        a \in Listings(AddedFiles, "added"),
        d \in Listings(DeletedFiles, "deleted"),
        m \in Listings(ModifiedFiles, "modified")}

Init ==
    /\ old \in Trees /\ new \in Trees
    /\ Swaps \/ \A p \in Paths : ~(IsFile(old[p]) /\ new[p] = Dir)
                              /\ ~(IsFile(new[p]) /\ old[p] = Dir)
    /\ sameTime \in SUBSET {p \in Paths : old[p] \in Data /\ new[p] \in Data}
    /\ Stamped => \A p \in sameTime : SizeOf[old[p]] = SizeOf[new[p]] => old[p] = new[p]
    /\ unread \in SUBSET {p \in Paths : old[p] \in Data /\ new[p] \in Data
                                         /\ SizeOf[old[p]] # SizeOf[new[p]]}
    /\ before \in IF Edited THEN Trees ELSE {old}
    /\ dir = before
    /\ patch = <<>> /\ pc = "diff" /\ next = 1 /\ staged = Absent
    /\ runs = 0 /\ faults = 0

\* GenerateDirDiff and SerializeDirPatch.
Generate ==
    /\ pc = "diff"
    /\ pc' = "ready"
    /\ patch' \in Patches
    /\ UNCHANGED <<given, dir, next, staged, runs, faults>>

-----------------------------------------------------------------------------
(* Applying the patch.                                                     *)

\* A call, also one that tries again after a failure or an interruption.
Start ==
    /\ pc \in {"ready", "failed"}
    /\ runs < MaxRuns
    /\ pc' = "applying"
    /\ next' = 1
    /\ runs' = runs + 1
    /\ UNCHANGED <<given, dir, patch, staged, faults>>

At(status) == pc = "applying" /\ next <= Len(patch) /\ patch[next].status = status

Path == patch[next].path

CanMkdir_Always(p) == TRUE

CanMkdir_OneLevel(p) == \A q \in Above[p] : dir[q] = Dir

\* os.MkdirAll of the path's directory.
CanMkdir(p) == \A q \in Above[p] : ~IsFile(dir[q])

MkdirAll(p) == [q \in Paths |-> IF q \in Above[p] THEN Dir ELSE dir[q]]

IsTemp(p, q) == q = Temp[p]

\* os.WriteFile truncates, then writes.
BeginWrite ==
    /\ At("added")
    /\ CanMkdir(Path) /\ dir[Path] # Dir
    /\ pc' = "writing"
    /\ dir' = [MkdirAll(Path) EXCEPT ![Path] = Torn]
    /\ UNCHANGED <<given, patch, next, staged, runs, faults>>

FinishWrite ==
    /\ pc = "writing"
    /\ pc' = "applying"
    /\ dir' = [dir EXCEPT ![Path] = new[Path]]
    /\ next' = next + 1
    /\ UNCHANGED <<given, patch, staged, runs, faults>>

\* os.Stat and os.Remove: a missing file is fine, a directory goes if empty.
CanRemove(p) == dir[p] = Dir => \A q \in Paths : p \in Above[q] => dir[q] = Absent

RemoveFile ==
    /\ At("deleted")
    /\ CanRemove(Path)
    /\ dir' = [dir EXCEPT ![Path] = Absent]
    /\ next' = next + 1
    /\ UNCHANGED <<given, patch, pc, staged, runs, faults>>

\* ApplyDelta into the path's .tmp file.  The patch has no checksum of the
\* source; what it rebuilds has to have the checksum of the new file, which a
\* rebuild from another source only has if the delta copies nothing.
CanStage(p) == dir[p] # Absent /\ (Temp[p] # NoPath => dir[Temp[p]] # Dir)

Rebuilds_Unchecked(p) == IF dir[p] = old[p] THEN {new[p]} ELSE {new[p], Torn}

Rebuilds(p) == {new[p]}

Stage_InPlace ==
    /\ At("modified")
    /\ CanStage(Path)
    /\ pc' = "staged"
    /\ staged' \in Rebuilds(Path)
    /\ dir' = [dir EXCEPT ![Path] = Torn]
    /\ UNCHANGED <<given, patch, next, runs, faults>>

Stage ==
    /\ At("modified")
    /\ CanStage(Path)
    /\ pc' = "staged"
    /\ staged' \in Rebuilds(Path)
    /\ dir' = [q \in Paths |-> IF IsTemp(Path, q) THEN staged' ELSE dir[q]]
    /\ UNCHANGED <<given, patch, next, runs, faults>>

\* os.Rename of the .tmp file to the path.
Rename ==
    /\ pc = "staged"
    /\ dir[Path] # Dir
    /\ pc' = "applying"
    /\ dir' = [q \in Paths |-> IF q = Path THEN staged
                               ELSE IF IsTemp(Path, q) THEN Absent ELSE dir[q]]
    /\ next' = next + 1
    /\ UNCHANGED <<given, patch, staged, runs, faults>>

\* The entry cannot be applied to the tree as it is: an error return.
Refused ==
    \/ At("added") /\ (~CanMkdir(Path) \/ dir[Path] = Dir)
    \/ At("deleted") /\ ~CanRemove(Path)
    \/ At("modified") /\ (~CanStage(Path) \/ dir[Path] # old[Path])
    \/ pc = "staged" /\ dir[Path] = Dir

Refuse ==
    /\ Refused
    /\ pc' = "failed"
    /\ dir' = IF ~At("deleted") /\ CanMkdir(Path) THEN MkdirAll(Path) ELSE dir
    /\ UNCHANGED <<given, patch, next, staged, runs, faults>>

\* The process is killed or a call fails; nothing is undone.
Interrupt ==
    /\ pc \in {"applying", "writing", "staged"}
    /\ faults < MaxFaults
    /\ pc' = "failed"
    /\ faults' = faults + 1
    /\ UNCHANGED <<given, dir, patch, next, staged, runs>>

Finish ==
    /\ pc = "applying"
    /\ next > Len(patch)
    /\ pc' = "done"
    /\ UNCHANGED <<given, dir, patch, next, staged, runs, faults>>

Next ==
    \/ Generate \/ Start \/ BeginWrite \/ FinishWrite \/ RemoveFile
    \/ Stage \/ Rename \/ Refuse \/ Interrupt \/ Finish

Spec == Init /\ [][Next]_vars

-----------------------------------------------------------------------------
(* Properties.                                                             *)

TypeOK ==
    /\ {old, new, before, dir} \subseteq [Paths -> Nodes]
    /\ sameTime \subseteq Paths /\ unread \subseteq Paths /\ staged \in Nodes
    /\ patch \in Seq([path : Paths, status : {"added", "deleted", "modified"}])
    /\ pc \in {"diff", "ready", "applying", "writing", "staged", "done", "failed"}
    /\ next \in 1..(Len(patch) + 1)
    /\ runs \in 0..MaxRuns /\ faults \in 0..MaxFaults

Listed == {patch[i].path : i \in DOMAIN patch}

\* A call that reports success has given every file the patch lists its new
\* content and removed those it lists as deleted, whatever was in the target
\* before and however many calls were interrupted.
PatchedIsNew ==
    pc = "done" =>
        \A p \in Listed : IF Walked(new, p) THEN dir[p] = new[p] ELSE ~IsFile(dir[p])

\* Applied to a copy of the old tree, the patch gives the new tree's files,
\* but for those that CompareDirectories could not hash.
RoundTrip ==
    pc = "done" /\ before = old =>
        \A p \in Paths \ (Ignored \cup unread) :
            IF Walked(new, p) THEN dir[p] = new[p] ELSE ~IsFile(dir[p])

\* Files the patch does not list are left alone, ignored files included.
BystandersKept ==
    \A p \in Paths \ Listed : IsFile(before[p]) => dir[p] = before[p]

\* A file the patch modifies is its former self or its new self, never in
\* between: an interruption cannot leave it torn.
ModifiedWhole ==
    \A i \in DOMAIN patch :
        patch[i].status = "modified" =>
            LET p == patch[i].path IN dir[p] \in {before[p], new[p]}

\* The first call on a copy of the old tree succeeds unless it is interrupted.
CleanApplySucceeds ==
    pc = "failed" /\ runs = 1 /\ before = old => faults > 0
=============================================================================
