------------------------------- MODULE DirDiff -------------------------------
(***************************************************************************)
(* ProcessDirDiff of pkg/diff/walk.go: the calling goroutine feeds the     *)
(* modified and then the added files to one worker, which computes each    *)
(* file's delta or reads its content and reports either an error or its    *)
(* size; a third goroutine adds the sizes up for the progress display.     *)
(* The three are joined by channels of bounded capacity and a WaitGroup.   *)
(*                                                                         *)
(* Files are numbered in the order they are fed, so fileChan always holds  *)
(* the files taken + 1 .. sent.                                            *)
(***************************************************************************)
EXTENDS Integers, Sequences, FiniteSets

CONSTANTS
    FileCount,    \* number of modified and added files
    WorkerCount,  \* DirDiffConfig.WorkerCount: only sizes the channels
    Size,         \* Size[f]: the bytes TotalBytesToProcess counts for f
    MaxFailures   \* bound: files that cannot be read

Files == 1..FileCount

ASSUME DirDiffAssumption ==
    /\ FileCount \in Nat /\ WorkerCount \in 1..32 /\ MaxFailures \in Nat
    /\ Size \in [Files -> Nat]

VARIABLES
    main,          \* the calling goroutine
    worker,
    collector,
    sent, taken,   \* files sent to and received from fileChan
    wg,            \* the WaitGroup's counter
    errChan,       \* the file whose error is in errChan, 0 if it is empty
    progressChan,
    ready,         \* files whose Delta or PatchData is set
    failed,        \* files that could not be read
    processed,     \* processedBytes
    result         \* what ProcessDirDiff returned: 0 (no error) or a file

vars == <<main, worker, collector, sent, taken, wg, errChan, progressChan,
          ready, failed, processed, result>>

Capacity == 2 * WorkerCount   \* of fileChan and progressChan
Busy     == {"reading", "reporting", "failing", "finishing"}

FilesClosed    == main \in {"waiting", "selecting", "returned"}
ProgressClosed == main \in {"selecting", "returned"}

\* TotalBytesToProcess, for the files of S.
TotalOf(S) ==
    LET t[i \in 0..FileCount] ==
          IF i = 0 THEN 0 ELSE t[i - 1] + (IF i \in S THEN Size[i] ELSE 0)
    IN  t[FileCount]

ErrorFits == errChan = 0

AllDone_Early == wg <= 1

\* What wg.Done leaves of the counter, and when Wait lets go.
AllDone == wg = 0

Init ==
    /\ main = "adding" /\ worker = "idle" /\ collector = "running"
    /\ sent = 0 /\ taken = 0 /\ wg = 0
    /\ errChan = 0 /\ progressChan = <<>>
    /\ ready = {} /\ failed = {}
    /\ processed = 0 /\ result = 0

-----------------------------------------------------------------------------
(* The calling goroutine.                                                  *)

AddFile_OneMore ==
    /\ main = "adding"
    /\ sent <= FileCount
    /\ main' = "sending"
    /\ wg' = wg + 1
    /\ UNCHANGED <<worker, collector, sent, taken, errChan, progressChan, ready,
                   failed, processed, result>>

AddFile ==
    /\ main = "adding"
    /\ sent < FileCount
    /\ main' = "sending"
    /\ wg' = wg + 1
    /\ UNCHANGED <<worker, collector, sent, taken, errChan, progressChan, ready,
                   failed, processed, result>>

SendFile ==
    /\ main = "sending"
    /\ sent - taken < Capacity
    /\ main' = "adding"
    /\ sent' = sent + 1
    /\ UNCHANGED <<worker, collector, taken, wg, errChan, progressChan, ready,
                   failed, processed, result>>

CloseFiles ==
    /\ main = "adding"
    /\ sent = FileCount
    /\ main' = "waiting"
    /\ UNCHANGED <<worker, collector, sent, taken, wg, errChan, progressChan, ready,
                   failed, processed, result>>

\* wg.Wait and close(progressChan).
WaitForFiles ==
    /\ main = "waiting"
    /\ AllDone
    /\ main' = "selecting"
    /\ UNCHANGED <<worker, collector, sent, taken, wg, errChan, progressChan, ready,
                   failed, processed, result>>

\* The final select: an error if errChan holds one.
Return ==
    /\ main = "selecting"
    /\ main' = "returned"
    /\ result' = errChan
    /\ errChan' = 0
    /\ UNCHANGED <<worker, collector, sent, taken, wg, progressChan, ready,
                   failed, processed>>

-----------------------------------------------------------------------------
(* The worker.                                                             *)

TakeFile ==
    /\ worker = "idle"
    /\ taken < sent
    /\ worker' = "reading"
    /\ taken' = taken + 1
    /\ UNCHANGED <<main, collector, sent, wg, errChan, progressChan, ready,
                   failed, processed, result>>

ReadFile ==
    /\ worker = "reading"
    /\ worker' = "reporting"
    /\ ready' = ready \cup {taken}
    /\ UNCHANGED <<main, collector, sent, taken, wg, errChan, progressChan,
                   failed, processed, result>>

FailFile ==
    /\ worker = "reading"
    /\ Cardinality(failed) < MaxFailures
    /\ worker' = "failing"
    /\ failed' = failed \cup {taken}
    /\ UNCHANGED <<main, collector, sent, taken, wg, errChan, progressChan, ready,
                   processed, result>>

SendError_SkipsDone ==
    /\ worker = "failing"
    /\ ErrorFits
    /\ worker' = "idle"
    /\ errChan' = taken
    /\ UNCHANGED <<main, collector, sent, taken, wg, progressChan, ready,
                   failed, processed, result>>

SendError_DropsAll ==
    /\ worker = "failing"
    /\ worker' = "finishing"
    /\ UNCHANGED <<main, collector, sent, taken, wg, errChan, progressChan, ready,
                   failed, processed, result>>

\* errChan has room for one error and nobody reads it before wg.Wait returns.
SendError ==
    /\ worker = "failing"
    /\ ErrorFits
    /\ worker' = "finishing"
    /\ errChan' = taken
    /\ UNCHANGED <<main, collector, sent, taken, wg, progressChan, ready,
                   failed, processed, result>>

SendProgress ==
    /\ worker = "reporting"
    /\ Len(progressChan) < Capacity
    /\ worker' = "finishing"
    /\ progressChan' = Append(progressChan, Size[taken])
    /\ UNCHANGED <<main, collector, sent, taken, wg, errChan, ready, failed,
                   processed, result>>

FinishFile ==
    /\ worker = "finishing"
    /\ worker' = "idle"
    /\ wg' = wg - 1
    /\ UNCHANGED <<main, collector, sent, taken, errChan, progressChan, ready,
                   failed, processed, result>>

ExitWorker ==
    /\ worker = "idle"
    /\ FilesClosed /\ taken = sent
    /\ worker' = "exited"
    /\ UNCHANGED <<main, collector, sent, taken, wg, errChan, progressChan, ready,
                   failed, processed, result>>

-----------------------------------------------------------------------------
(* The collector.                                                          *)

ShowProgress ==
    /\ collector = "running"
    /\ progressChan # <<>>
    /\ progressChan' = Tail(progressChan)
    /\ processed' = processed + Head(progressChan)
    /\ UNCHANGED <<main, worker, collector, sent, taken, wg, errChan, ready,
                   failed, result>>

\* A range over a channel ends when it is closed and empty.
CollectorMayExit == ProgressClosed /\ progressChan = <<>>

ExitCollector ==
    /\ collector = "running"
    /\ CollectorMayExit
    /\ collector' = "exited"
    /\ UNCHANGED <<main, worker, sent, taken, wg, errChan, progressChan, ready,
                   failed, processed, result>>

-----------------------------------------------------------------------------
Main      == AddFile \/ SendFile \/ CloseFiles \/ WaitForFiles \/ Return
Worker    == \/ TakeFile \/ ReadFile \/ FailFile \/ SendError \/ SendProgress
             \/ FinishFile \/ ExitWorker
Collector == ShowProgress \/ ExitCollector

Next == Main \/ Worker \/ Collector

Spec == Init /\ [][Next]_vars

-----------------------------------------------------------------------------
(* Properties.                                                             *)

TypeOK ==
    /\ main \in {"adding", "sending", "waiting", "selecting", "returned"}
    /\ worker \in {"idle", "exited"} \cup Busy
    /\ collector \in {"running", "exited"}
    /\ sent \in 0..FileCount /\ taken \in 0..FileCount
    /\ wg \in 0..FileCount
    /\ errChan \in 0..FileCount
    /\ progressChan \in Seq(Nat)
    /\ ready \subseteq Files /\ failed \subseteq Files
    /\ processed \in Nat
    /\ result \in 0..FileCount

\* The WaitGroup counts the files on their way: one that is added and not yet
\* sent, those in fileChan and the one the worker holds.  So Wait cannot let
\* go between two files, and Done never takes the counter below zero.
GroupCountsFiles ==
    /\ taken <= sent /\ sent - taken <= Capacity
    /\ wg = (sent - taken) + (IF main = "sending" THEN 1 ELSE 0)
                           + (IF worker \in Busy THEN 1 ELSE 0)

\* Nothing is sent on progressChan after it is closed (that would panic).
NoSendOnClosed == ProgressClosed => worker \notin Busy

\* ProcessDirDiff returns no error only if every file has its delta or its
\* content, and otherwise the error of the first file that failed.
ErrorsReported ==
    main = "returned" =>
        IF result = 0 THEN ready = Files
        ELSE result \in failed /\ \A f \in failed : result <= f

\* Once a file is added, the call returns and leaves no goroutine behind: no
\* send, no receive and no Wait of the three goroutines blocks for ever on the
\* others.
Returns == wg > 0 ~> main = "returned" /\ worker = "exited" /\ collector = "exited"

-----------------------------------------------------------------------------
(* The inductive strengthening of the proofs.                              *)

\* Where the three goroutines stand relative to each other.
Order ==
    /\ main = "sending" => sent < FileCount
    /\ FilesClosed => sent = FileCount
    /\ ProgressClosed => wg = 0
    /\ worker = "exited" => FilesClosed /\ taken = sent
    /\ worker \in Busy => taken > 0

\* Every file the worker is through with was read or has failed.
FilesAccounted ==
    ready \cup failed = 1..(IF worker = "reading" THEN taken - 1 ELSE taken)

\* The first failure is on its way to errChan, in errChan or returned.
Reported ==
    IF failed = {} THEN 0
    ELSE IF main = "returned" THEN result
    ELSE IF errChan # 0 THEN errChan ELSE taken

ErrorHeld ==
    /\ main # "returned" => result = 0
    /\ errChan # 0 => errChan \in failed
    /\ worker = "failing" => taken \in failed
    /\ failed # {} =>
          /\ Reported \in failed /\ \A f \in failed : Reported <= f
          /\ main # "returned" => errChan # 0 \/ worker = "failing"
    /\ failed = {} => result = 0

\* The inductive invariant: all of it, for any number of failures.
PipelineInv == TypeOK /\ GroupCountsFiles /\ Order /\ FilesAccounted /\ ErrorHeld
=============================================================================
