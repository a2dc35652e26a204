---------------------------- MODULE AtomicUpdate ----------------------------
(***************************************************************************)
(* What applying a patch promises, without saying how: one file, a set of  *)
(* updates of it, and users who may overwrite it.  An update either        *)
(* replaces the file by its new content in a single step and reports       *)
(* success, or it leaves the file alone, whatever it fails on and wherever *)
(* it is killed.  PatchApply implements this with a temporary file, two    *)
(* checksums, a backup and a rename.                                       *)
(***************************************************************************)
CONSTANTS
    Updates,       \* the calls that update the file
    New,           \* New[u]: the content update u produces
    UserContents,  \* what users write
    Missing        \* the file does not exist

VARIABLES
    file,          \* the content under the target's name
    status         \* status[u] \in {"idle", "running", "committed", "aborted"}

avars == <<file, status>>

TypeOK ==
    /\ file \in UserContents \cup {New[u] : u \in Updates} \cup {Missing}
    /\ status \in [Updates -> {"idle", "running", "committed", "aborted"}]

Init ==
    /\ file \in UserContents \cup {Missing}
    /\ status = [u \in Updates |-> "idle"]

\* An update can be tried again after any outcome.
Begin(u) ==
    /\ status[u] # "running"
    /\ status' = [status EXCEPT ![u] = "running"]
    /\ UNCHANGED file

\* The only step of an update that changes the file, and the one that makes
\* it successful.
Commit(u) ==
    /\ status[u] = "running"
    /\ file' = New[u]
    /\ status' = [status EXCEPT ![u] = "committed"]

\* Errors and crashes.
Abort(u) ==
    /\ status[u] = "running"
    /\ status' = [status EXCEPT ![u] = "aborted"]
    /\ UNCHANGED file

UserWrite ==
    /\ file' \in UserContents
    /\ UNCHANGED status

Next ==
    \/ \E u \in Updates : Begin(u) \/ Commit(u) \/ Abort(u)
    \/ UserWrite

Spec == Init /\ [][Next]_avars
=============================================================================
