---------------------------- MODULE DirDiffDisplay ----------------------------
(***************************************************************************)
(* The dir-diff command: the pipeline of DirDiff and the progress task of  *)
(* pkg/cli/progress.go it reports to.  The collector writes percentages,   *)
(* while the task's total is 0; once the pipeline has returned the command *)
(* sets the total to the bytes of the tree, then the current value, and    *)
(* finishes the task.  Every setter takes the task's mutex and draws.      *)
(***************************************************************************)
EXTENDS DirDiff

VARIABLES
    display,    \* the command: where it stands after ProcessDirDiff
    current,    \* ProgressTask.current and total
    total,
    drawn       \* the <<current, total>> drawn last

displayVars == <<vars, display, current, total, drawn>>

TotalBytes == TotalOf(Files)   \* TotalBytesToProcess

\* The filled cells of the bar, 40 of them when it is full; strings.Repeat is
\* given 40 minus this many empty ones.
Filled(c, t) == IF t > 0 THEN (40 * c) \div t ELSE 0

Draw(c, t) == current' = c /\ total' = t /\ drawn' = <<c, t>>

\* SetCurrent(10), and SetProgress(0) if there is anything to process.
DisplayInit ==
    /\ Init
    /\ display = "processing"
    /\ current = IF TotalBytes > 0 THEN 0 ELSE 10
    /\ total = 0
    /\ drawn = <<current, total>>

Percent(bytes) ==
    LET percent == (100 * bytes) \div TotalBytes IN
    IF percent > 100 THEN 100 ELSE percent

\* The collector's turn.  A task that is finished draws no more.
ReportProgress ==
    /\ ShowProgress
    /\ IF TotalBytes = 0 THEN UNCHANGED <<current, total, drawn>>
       ELSE IF display = "finished"
            THEN current' = Percent(processed') /\ UNCHANGED <<total, drawn>>
            ELSE Draw(Percent(processed'), total)
    /\ UNCHANGED display

FinalTotal_Files == FileCount

FinalTotal == TotalBytes

\* The command goes on if the pipeline had no error and the patch is written.
SetTotal ==
    /\ display = "processing"
    /\ main = "returned" /\ result = 0
    /\ display' = "total"
    /\ IF TotalBytes > 0 THEN Draw(current, FinalTotal)
                         ELSE UNCHANGED <<current, total, drawn>>
    /\ UNCHANGED vars

\* SetCurrent, and the draw of the last message, which changes no number.
SetCurrent ==
    /\ display = "total"
    /\ display' = "current"
    /\ IF TotalBytes > 0 THEN Draw(FinalTotal, total)
                         ELSE UNCHANGED <<current, total, drawn>>
    /\ UNCHANGED vars

\* Finish is deferred, so it runs on the error paths too: an error of the
\* pipeline, or a patch that cannot be written.
FinishDisplay ==
    /\ display \in {"processing", "current"}
    /\ main = "returned"
    /\ display' = "finished"
    /\ current' = total
    /\ UNCHANGED <<vars, total, drawn>>

\* The steps of the pipeline that draw nothing.
Quiet(A) == A /\ UNCHANGED <<display, current, total, drawn>>

Command == Quiet(Main) \/ SetTotal \/ SetCurrent \/ FinishDisplay
Progress == ReportProgress \/ Quiet(ExitCollector)

DisplayNext == Command \/ Quiet(Worker) \/ Progress

\* Go schedules every goroutine that can run.
DisplayFairness ==
    /\ WF_displayVars(Command)
    /\ WF_displayVars(Quiet(Worker))
    /\ WF_displayVars(Progress)

DisplaySpec == DisplayInit /\ [][DisplayNext]_displayVars /\ DisplayFairness

-----------------------------------------------------------------------------
(* Properties.                                                             *)

DisplayTypeOK ==
    /\ TypeOK
    /\ display \in {"processing", "total", "current", "finished"}
    /\ current \in Nat /\ total \in Nat
    /\ drawn \in Nat \X Nat

\* The bar that is drawn has at most 40 filled cells: a fuller one makes the
\* count of empty cells negative, on which strings.Repeat panics.
BarFits == Filled(drawn[1], drawn[2]) <= 40

\* The same for a tree of 100 bytes or more.  There a percentage is never more
\* than the total, whichever of the command's and the collector's writes comes
\* last.
BarFitsLargeTree == TotalBytes >= 100 => BarFits
=============================================================================
