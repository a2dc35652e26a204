---------------------------- MODULE DirDiffProofs ----------------------------
(***************************************************************************)
(* What ProcessDirDiff guarantees for any number of files, any number of   *)
(* failures among them and any worker count.                               *)
(***************************************************************************)
EXTENDS DirDiffDisplay, WellFoundedInduction, TLAPS

LEMMA InitType == Init => TypeOK
BY DirDiffAssumption DEF Init, TypeOK, Files, Busy

LEMMA InitPipeline == Init => PipelineInv
BY InitType, DirDiffAssumption
   DEF Init, PipelineInv, GroupCountsFiles, Order, FilesAccounted, ErrorHeld,
       FilesClosed, ProgressClosed, Busy, Capacity, Reported

LEMMA NextType ==
    ASSUME PipelineInv, [Next]_vars
    PROVE  TypeOK'
<1> USE DirDiffAssumption DEF PipelineInv, TypeOK, Files, Busy
<1>1. CASE AddFile
  BY <1>1 DEF AddFile, GroupCountsFiles, Order
<1>2. CASE SendFile
  BY <1>2 DEF SendFile, Order
<1>3. CASE CloseFiles
  BY <1>3 DEF CloseFiles
<1>4. CASE WaitForFiles
  BY <1>4 DEF WaitForFiles
<1>5. CASE Return
  BY <1>5 DEF Return
<1>6. CASE TakeFile
  BY <1>6 DEF TakeFile, GroupCountsFiles
<1>7. CASE ReadFile
  BY <1>7 DEF ReadFile, Order
<1>8. CASE FailFile
  BY <1>8 DEF FailFile, Order
<1>9. CASE SendError
  BY <1>9 DEF SendError
<1>10. CASE SendProgress
  BY <1>10 DEF SendProgress, Order
<1>11. CASE FinishFile
  BY <1>11 DEF FinishFile, GroupCountsFiles
<1>12. CASE ExitWorker
  BY <1>12 DEF ExitWorker
<1>13. CASE ShowProgress
  BY <1>13 DEF ShowProgress
<1>14. CASE ExitCollector
  BY <1>14 DEF ExitCollector
<1>15. CASE UNCHANGED vars
  BY <1>15 DEF vars
<1> QED
  BY <1>1, <1>2, <1>3, <1>4, <1>5, <1>6, <1>7, <1>8,
     <1>9, <1>10, <1>11, <1>12, <1>13, <1>14, <1>15
     DEF Next, Main, Worker, Collector

LEMMA NextGroup ==
    ASSUME PipelineInv, [Next]_vars
    PROVE  GroupCountsFiles'
<1> USE DirDiffAssumption DEF PipelineInv, TypeOK, GroupCountsFiles, Busy, Capacity
<1>1. CASE AddFile
  BY <1>1 DEF AddFile
<1>2. CASE SendFile
  BY <1>2 DEF SendFile
<1>3. CASE CloseFiles
  BY <1>3 DEF CloseFiles
<1>4. CASE WaitForFiles
  BY <1>4 DEF WaitForFiles
<1>5. CASE Return
  BY <1>5 DEF Return
<1>6. CASE TakeFile
  BY <1>6 DEF TakeFile
<1>7. CASE ReadFile
  BY <1>7 DEF ReadFile
<1>8. CASE FailFile
  BY <1>8 DEF FailFile
<1>9. CASE SendError
  BY <1>9 DEF SendError
<1>10. CASE SendProgress
  BY <1>10 DEF SendProgress
<1>11. CASE FinishFile
  BY <1>11 DEF FinishFile
<1>12. CASE ExitWorker
  BY <1>12 DEF ExitWorker
<1>13. CASE ShowProgress
  BY <1>13 DEF ShowProgress
<1>14. CASE ExitCollector
  BY <1>14 DEF ExitCollector
<1>15. CASE UNCHANGED vars
  BY <1>15 DEF vars
<1> QED
  BY <1>1, <1>2, <1>3, <1>4, <1>5, <1>6, <1>7, <1>8,
     <1>9, <1>10, <1>11, <1>12, <1>13, <1>14, <1>15
     DEF Next, Main, Worker, Collector

LEMMA NextOrder ==
    ASSUME PipelineInv, [Next]_vars
    PROVE  Order'
<1> USE DirDiffAssumption DEF PipelineInv, TypeOK, Order, FilesClosed, ProgressClosed, Busy
<1>1. CASE AddFile
  BY <1>1 DEF AddFile
<1>2. CASE SendFile
  BY <1>2 DEF SendFile
<1>3. CASE CloseFiles
  BY <1>3 DEF CloseFiles
<1>4. CASE WaitForFiles
  BY <1>4 DEF WaitForFiles, AllDone
<1>5. CASE Return
  BY <1>5 DEF Return
<1>6. CASE TakeFile
  BY <1>6 DEF TakeFile, GroupCountsFiles
<1>7. CASE ReadFile
  BY <1>7 DEF ReadFile
<1>8. CASE FailFile
  BY <1>8 DEF FailFile
<1>9. CASE SendError
  BY <1>9 DEF SendError
<1>10. CASE SendProgress
  BY <1>10 DEF SendProgress
<1>11. CASE FinishFile
  BY <1>11 DEF FinishFile, GroupCountsFiles
<1>12. CASE ExitWorker
  BY <1>12 DEF ExitWorker
<1>13. CASE ShowProgress
  BY <1>13 DEF ShowProgress
<1>14. CASE ExitCollector
  BY <1>14 DEF ExitCollector
<1>15. CASE UNCHANGED vars
  BY <1>15 DEF vars
<1> QED
  BY <1>1, <1>2, <1>3, <1>4, <1>5, <1>6, <1>7, <1>8,
     <1>9, <1>10, <1>11, <1>12, <1>13, <1>14, <1>15
     DEF Next, Main, Worker, Collector

LEMMA NextAccounted ==
    ASSUME PipelineInv, [Next]_vars
    PROVE  FilesAccounted'
<1> USE DirDiffAssumption DEF PipelineInv, TypeOK, FilesAccounted, Busy
<1>1. CASE AddFile
  BY <1>1 DEF AddFile
<1>2. CASE SendFile
  BY <1>2 DEF SendFile
<1>3. CASE CloseFiles
  BY <1>3 DEF CloseFiles
<1>4. CASE WaitForFiles
  BY <1>4 DEF WaitForFiles
<1>5. CASE Return
  BY <1>5 DEF Return
<1>6. CASE TakeFile
  BY <1>6 DEF TakeFile, GroupCountsFiles
<1>7. CASE ReadFile
  BY <1>7 DEF ReadFile, Order
<1>8. CASE FailFile
  BY <1>8 DEF FailFile, Order
<1>9. CASE SendError
  BY <1>9 DEF SendError
<1>10. CASE SendProgress
  BY <1>10 DEF SendProgress
<1>11. CASE FinishFile
  BY <1>11 DEF FinishFile
<1>12. CASE ExitWorker
  BY <1>12 DEF ExitWorker
<1>13. CASE ShowProgress
  BY <1>13 DEF ShowProgress
<1>14. CASE ExitCollector
  BY <1>14 DEF ExitCollector
<1>15. CASE UNCHANGED vars
  BY <1>15 DEF vars
<1> QED
  BY <1>1, <1>2, <1>3, <1>4, <1>5, <1>6, <1>7, <1>8,
     <1>9, <1>10, <1>11, <1>12, <1>13, <1>14, <1>15
     DEF Next, Main, Worker, Collector

LEMMA NextErrorHeld ==
    ASSUME PipelineInv, [Next]_vars
    PROVE  ErrorHeld'
<1> USE DirDiffAssumption DEF PipelineInv, TypeOK, ErrorHeld, Reported, Busy, Files
<1>1. CASE AddFile
  BY <1>1 DEF AddFile
<1>2. CASE SendFile
  BY <1>2 DEF SendFile
<1>3. CASE CloseFiles
  BY <1>3 DEF CloseFiles
<1>4. CASE WaitForFiles
  BY <1>4 DEF WaitForFiles
<1>5. CASE Return
  BY <1>5 DEF Return, Order, GroupCountsFiles, ProgressClosed
<1>6. CASE TakeFile
  BY <1>6 DEF TakeFile
<1>7. CASE ReadFile
  BY <1>7 DEF ReadFile
<1>8. CASE FailFile
  BY <1>8, SMTT(20) DEF FailFile, FilesAccounted, Order, GroupCountsFiles, ProgressClosed
<1>9. CASE SendError
  BY <1>9 DEF SendError, ErrorFits
<1>10. CASE SendProgress
  BY <1>10 DEF SendProgress
<1>11. CASE FinishFile
  BY <1>11 DEF FinishFile
<1>12. CASE ExitWorker
  BY <1>12 DEF ExitWorker
<1>13. CASE ShowProgress
  BY <1>13 DEF ShowProgress
<1>14. CASE ExitCollector
  BY <1>14 DEF ExitCollector
<1>15. CASE UNCHANGED vars
  BY <1>15 DEF vars
<1> QED
  BY <1>1, <1>2, <1>3, <1>4, <1>5, <1>6, <1>7, <1>8,
     <1>9, <1>10, <1>11, <1>12, <1>13, <1>14, <1>15
     DEF Next, Main, Worker, Collector

LEMMA NextPipeline == PipelineInv /\ [Next]_vars => PipelineInv'
BY NextType, NextGroup, NextOrder, NextAccounted, NextErrorHeld DEF PipelineInv

LEMMA PipelineHolds == Spec => []PipelineInv
BY InitPipeline, NextPipeline, PTL DEF Spec

LEMMA NobodySends == PipelineInv => NoSendOnClosed
BY DirDiffAssumption DEF PipelineInv, TypeOK, GroupCountsFiles, Order, NoSendOnClosed

-----------------------------------------------------------------------------
\* The WaitGroup's counter is the number of files on their way, so Wait lets
\* go only when every file is through and Done never panics.
THEOREM GroupIsBalanced == Spec => []GroupCountsFiles
<1>1. PipelineInv => GroupCountsFiles
  BY DEF PipelineInv
<1> QED
  BY PipelineHolds, <1>1, PTL

\* The worker never sends on progressChan after ProcessDirDiff has closed it.
THEOREM NeverSendsOnClosed == Spec => []NoSendOnClosed
BY PipelineHolds, NobodySends, PTL

\* A call that returns no error has set every file's delta or content; a call
\* that returns an error returns the first one, however many files failed.
THEOREM FirstErrorReturned == Spec => []ErrorsReported
<1>1. PipelineInv => ErrorsReported
  <2> SUFFICES ASSUME PipelineInv, main = "returned"
               PROVE  IF result = 0 THEN ready = Files
                      ELSE result \in failed /\ \A f \in failed : result <= f
    BY DEF ErrorsReported
  <2>1. worker \notin Busy /\ taken = FileCount
    BY NobodySends, DirDiffAssumption DEF PipelineInv, TypeOK, GroupCountsFiles, Order,
       NoSendOnClosed, ProgressClosed, FilesClosed
  <2>2. ready \cup failed = Files
    BY <2>1 DEF PipelineInv, FilesAccounted, Files, Busy
  <2>3. failed = {} => result = 0 /\ ready = Files
    BY <2>2 DEF PipelineInv, ErrorHeld
  <2>4. failed # {} => result \in failed /\ \A f \in failed : result <= f
    BY DEF PipelineInv, ErrorHeld, Reported
  <2>5. 0 \notin failed
    BY DEF PipelineInv, TypeOK, Files
  <2> QED
    BY <2>3, <2>4, <2>5
<1> QED
  BY PipelineHolds, <1>1, PTL
-----------------------------------------------------------------------------
(* How a call comes to its end.                                            *)

MainSteps ==
    IF main = "adding" THEN 4 ELSE IF main = "sending" THEN 3
    ELSE IF main = "waiting" THEN 2 ELSE IF main = "selecting" THEN 1 ELSE 0

WorkerSteps ==
    IF worker = "reading" THEN 5 ELSE IF worker \in {"reporting", "failing"} THEN 4
    ELSE IF worker = "finishing" THEN 2 ELSE IF worker = "idle" THEN 1 ELSE 0

\* More than the steps that are left.
StepsLeft ==
    6 * (FileCount - taken) + 2 * (FileCount - sent) + MainSteps + WorkerSteps
      + Len(progressChan) + (IF collector = "running" THEN 1 ELSE 0)

Finished == main = "returned" /\ worker = "exited" /\ collector = "exited"

\* The guards of the steps.
MainCanStep ==
    \/ main = "adding" \/ main = "selecting"
    \/ main = "sending" /\ sent - taken < Capacity
    \/ main = "waiting" /\ AllDone
WorkerCanStep ==
    \/ worker = "idle" /\ (taken < sent \/ FilesClosed)
    \/ worker = "reading" \/ worker = "finishing"
    \/ worker = "reporting" /\ Len(progressChan) < Capacity
    \/ worker = "failing" /\ ErrorFits
CollectorCanStep ==
    collector = "running" /\ (progressChan # <<>> \/ ProgressClosed)

\* The worker holds the error of a second file, and the first fills errChan.
HoldsSecondError ==
    /\ worker = "failing" /\ taken \in failed
    /\ errChan \in failed /\ errChan # taken

Reachable ==
    /\ collector = "exited" => ProgressClosed /\ progressChan = <<>>
    /\ worker = "failing" => errChan # taken

LEMMA StepsLeftType ==
    ASSUME PipelineInv
    PROVE  StepsLeft \in Nat /\ StepsLeft <= 8 * FileCount + 4 + 5 + Len(progressChan) + 1
<1>1. /\ FileCount \in Nat /\ sent \in 0..FileCount /\ taken \in 0..FileCount
      /\ Len(progressChan) \in Nat
  BY DirDiffAssumption DEF PipelineInv, TypeOK
<1>2. MainSteps \in 0..4 /\ WorkerSteps \in 0..5
  BY DEF MainSteps, WorkerSteps
<1> QED
  BY <1>1, <1>2 DEF StepsLeft

LEMMA StepsDecrease ==
    ASSUME PipelineInv, Next
    PROVE  StepsLeft' < StepsLeft
<1>0. /\ FileCount \in Nat /\ sent \in 0..FileCount /\ taken \in 0..FileCount
      /\ progressChan \in Seq(Nat) /\ Len(progressChan) \in Nat
      /\ Size \in [Files -> Nat] /\ (worker \in Busy => taken \in Files)
  BY DirDiffAssumption DEF PipelineInv, TypeOK, Order, Files
<1> USE DEF StepsLeft, MainSteps, WorkerSteps
<1>1. CASE AddFile
  BY <1>0, <1>1 DEF AddFile
<1>2. CASE SendFile
  BY <1>0, <1>2 DEF SendFile
<1>3. CASE CloseFiles
  BY <1>0, <1>3 DEF CloseFiles
<1>4. CASE WaitForFiles
  BY <1>0, <1>4 DEF WaitForFiles
<1>5. CASE Return
  BY <1>0, <1>5 DEF Return
<1>6. CASE TakeFile
  BY <1>0, <1>6 DEF TakeFile
<1>7. CASE ReadFile
  BY <1>0, <1>7 DEF ReadFile
<1>8. CASE FailFile
  BY <1>0, <1>8 DEF FailFile
<1>9. CASE SendError
  BY <1>0, <1>9 DEF SendError
<1>10. CASE SendProgress
  <2>1. Len(progressChan') = Len(progressChan) + 1
    BY <1>0, <1>10 DEF SendProgress, Busy
  <2> QED
    BY <1>0, <1>10, <2>1 DEF SendProgress
<1>11. CASE FinishFile
  BY <1>0, <1>11 DEF FinishFile
<1>12. CASE ExitWorker
  BY <1>0, <1>12 DEF ExitWorker
<1>13. CASE ShowProgress
  <2>1. Len(progressChan') = Len(progressChan) - 1
    BY <1>0, <1>13 DEF ShowProgress
  <2> QED
    BY <1>0, <1>13, <2>1 DEF ShowProgress
<1>14. CASE ExitCollector
  BY <1>0, <1>14 DEF ExitCollector
<1> QED
  BY <1>1, <1>2, <1>3, <1>4, <1>5, <1>6, <1>7, <1>8, <1>9, <1>10, <1>11, <1>12, <1>13, <1>14
     DEF Next, Main, Worker, Collector

LEMMA ReachableKept ==
    ASSUME PipelineInv, Reachable, [Next]_vars
    PROVE  Reachable'
<1>0. NoSendOnClosed /\ TypeOK /\ Order /\ GroupCountsFiles
  BY NobodySends DEF PipelineInv
<1> USE DEF Reachable, ProgressClosed
<1>1. CASE AddFile
  BY <1>0, <1>1 DEF AddFile
<1>2. CASE SendFile
  BY <1>0, <1>2 DEF SendFile
<1>3. CASE CloseFiles
  BY <1>0, <1>3 DEF CloseFiles
<1>4. CASE WaitForFiles
  BY <1>0, <1>4 DEF WaitForFiles
<1>5. CASE Return
  BY <1>0, <1>5 DEF Return, NoSendOnClosed, Busy
<1>6. CASE TakeFile
  BY <1>0, <1>6 DEF TakeFile
<1>7. CASE ReadFile
  BY <1>0, <1>7 DEF ReadFile
<1>8. CASE FailFile
  <2>1. errChan # 0 => errChan \in failed
    BY DEF PipelineInv, ErrorHeld
  <2>2. failed \subseteq 1..(taken - 1) /\ taken > 0
    BY <1>0, <1>8 DEF PipelineInv, FilesAccounted, FailFile, Order, Busy
  <2>3. errChan # taken
    BY <1>0, <2>1, <2>2 DEF TypeOK
  <2> QED
    BY <1>8, <2>3 DEF FailFile
<1>9. CASE SendError
  BY <1>0, <1>9 DEF SendError
<1>10. CASE SendProgress
  BY <1>0, <1>10 DEF SendProgress, NoSendOnClosed, Busy
<1>11. CASE FinishFile
  BY <1>0, <1>11 DEF FinishFile
<1>12. CASE ExitWorker
  BY <1>0, <1>12 DEF ExitWorker
<1>13. CASE ShowProgress
  BY <1>0, <1>13 DEF ShowProgress
<1>14. CASE ExitCollector
  BY <1>0, <1>14 DEF ExitCollector, CollectorMayExit
<1>15. CASE UNCHANGED vars
  BY <1>15 DEF vars
<1> QED
  BY <1>1, <1>2, <1>3, <1>4, <1>5, <1>6, <1>7, <1>8, <1>9, <1>10, <1>11, <1>12, <1>13, <1>14, <1>15
     DEF Next, Main, Worker, Collector

LEMMA ReachableHolds == Spec => [](PipelineInv /\ Reachable)
<1>1. Init => Reachable
  BY DEF Init, Reachable
<1> QED
  BY <1>1, InitPipeline, NextPipeline, ReachableKept, PTL DEF Spec

\* A call takes a bounded number of steps, of all three goroutines together:
\* every step lowers a number that is never negative and at first is
\* 8 * FileCount + 6, whatever fails and in whichever order they run.
THEOREM EveryStepGoesOn ==
    /\ Init => StepsLeft = 8 * FileCount + 6
    /\ Spec => [](StepsLeft \in Nat)
    /\ Spec => [][StepsLeft' < StepsLeft]_vars
<1>1. Init => StepsLeft = 8 * FileCount + 6
  <2> SUFFICES ASSUME Init PROVE StepsLeft = 8 * FileCount + 6
    OBVIOUS
  <2>1. /\ FileCount \in Nat /\ taken = 0 /\ sent = 0 /\ Len(progressChan) = 0
        /\ main = "adding" /\ worker = "idle" /\ collector = "running"
    BY DirDiffAssumption DEF Init
  <2> QED
    BY <2>1 DEF StepsLeft, MainSteps, WorkerSteps
<1>2. PipelineInv => StepsLeft \in Nat
  BY StepsLeftType
<1>3. PipelineInv /\ [Next]_vars => [StepsLeft' < StepsLeft]_vars
  BY StepsDecrease
<1>4. Spec => [](StepsLeft \in Nat)
  BY <1>2, PipelineHolds, PTL
<1>5. Spec => [][StepsLeft' < StepsLeft]_vars
  BY <1>3, PipelineHolds, PTL DEF Spec
<1> QED
  BY <1>1, <1>4, <1>5

\* The three goroutines never wait for each other in a circle: until the call
\* has returned and the others are gone one of them can go on, unless the
\* worker has the error of a second file in its hands while that of the first
\* is in errChan, which nobody reads before the files are through.
THEOREM OnlySecondErrorBlocks ==
    Spec => [](Finished \/ MainCanStep \/ WorkerCanStep \/ CollectorCanStep \/ HoldsSecondError)
<1>1. ASSUME PipelineInv, Reachable, ~MainCanStep, ~WorkerCanStep, ~CollectorCanStep
      PROVE  Finished \/ HoldsSecondError
  <2>0. TypeOK /\ Order /\ GroupCountsFiles /\ Capacity \in Nat /\ Capacity > 0
    BY <1>1, DirDiffAssumption DEF PipelineInv, Capacity
  <2>1. worker \in {"idle", "reporting", "failing", "exited"}
    BY <1>1, <2>0 DEF TypeOK, Busy, WorkerCanStep
  <2>2. CASE worker = "failing"
    <3>1. errChan # 0 /\ errChan \in failed /\ taken \in failed /\ errChan # taken
      BY <1>1, <2>2 DEF WorkerCanStep, ErrorFits, PipelineInv, ErrorHeld, Reachable
    <3> QED
      BY <2>2, <3>1 DEF HoldsSecondError
  <2>3. CASE worker = "reporting"
    <3>1. Len(progressChan) >= Capacity /\ progressChan # <<>>
      BY <1>1, <2>0, <2>3 DEF WorkerCanStep, TypeOK
    <3>2. collector = "running"
      BY <1>1, <2>0, <3>1 DEF Reachable, TypeOK
    <3> QED
      BY <1>1, <3>1, <3>2 DEF CollectorCanStep
  <2>4. CASE worker = "idle"
    <3>1. taken = sent /\ main \in {"adding", "sending"}
      BY <1>1, <2>0, <2>4 DEF WorkerCanStep, GroupCountsFiles, TypeOK, FilesClosed
    <3> QED
      BY <1>1, <2>0, <3>1 DEF MainCanStep, TypeOK
  <2>5. CASE worker = "exited"
    <3>1. taken = sent /\ main \in {"waiting", "selecting", "returned"}
      BY <2>0, <2>5 DEF Order, FilesClosed
    <3>2. wg = 0
      BY <2>0, <2>5, <3>1 DEF GroupCountsFiles, TypeOK, Busy
    <3>3. main = "returned"
      BY <1>1, <3>1, <3>2 DEF MainCanStep, AllDone
    <3>4. collector = "exited"
      BY <1>1, <2>0, <3>3 DEF CollectorCanStep, ProgressClosed, TypeOK
    <3> QED
      BY <2>5, <3>3, <3>4 DEF Finished
  <2> QED
    BY <2>1, <2>2, <2>3, <2>4, <2>5
<1> QED
  BY <1>1, ReachableHolds, PTL

-----------------------------------------------------------------------------
(* The total of the progress bar.                                          *)

\* A set of numbers that holds 0, and each number's successor, holds them all.
LEMMA AllNumbers ==
    ASSUME NEW S, 0 \in S, \A n \in Nat : n \in S => n + 1 \in S
    PROVE  Nat \subseteq S
<1> SUFFICES ASSUME Nat \ S # {} PROVE FALSE
  OBVIOUS
<1>1. PICK n \in Nat \ S : \A m \in Nat \ S : <<m, n>> \notin OpToRel(<, Nat)
  BY NatLessThanWellFounded, WFMin
<1>2. \A m \in Nat \ S : ~(m < n)
  BY <1>1 DEF OpToRel
<1>3. n - 1 \in Nat /\ n - 1 \in S
  BY <1>2
<1>4. (n - 1) + 1 \in S
  BY <1>3, Zenon
<1>5. (n - 1) + 1 = n
  BY <1>2
<1> QED
  BY <1>1, <1>4, <1>5, Zenon

Amount(i) == IF i \in Files THEN Size[i] ELSE 0

IsTotal(t, n) == t = [i \in 0..n |-> IF i = 0 THEN 0 ELSE t[i - 1] + Amount(i)]

LEMMA AmountType == \A i : Amount(i) \in Nat
BY DirDiffAssumption DEF Amount

\* The recursion of TotalBytesToProcess has a solution,
LEMMA TotalExists ==
    ASSUME NEW n \in Nat
    PROVE  \E t \in [0..n -> Nat] : IsTotal(t, n)
<1> DEFINE S == {m \in Nat : \E t \in [0..m -> Nat] : IsTotal(t, m)}
<1>1. 0 \in S
  <2> DEFINE t == [i \in 0..0 |-> 0]
  <2>1. t \in [0..0 -> Nat] /\ IsTotal(t, 0)
    BY DEF IsTotal
  <2> QED
    BY <2>1
<1>2. ASSUME NEW m \in Nat, m \in S PROVE m + 1 \in S
  <2>1. PICK t \in [0..m -> Nat] : IsTotal(t, m)
    BY <1>2
  <2> DEFINE u == [i \in 0..(m + 1) |-> IF i = m + 1 THEN t[m] + Amount(m + 1) ELSE t[i]]
  <2>2. u \in [0..(m + 1) -> Nat]
    BY AmountType
  <2>3. \A i \in 0..m : t[i] = IF i = 0 THEN 0 ELSE t[i - 1] + Amount(i)
    BY <2>1 DEF IsTotal
  <2>4. \A i \in 0..(m + 1) : u[i] = IF i = 0 THEN 0 ELSE u[i - 1] + Amount(i)
    <3> TAKE i \in 0..(m + 1)
    <3>1. CASE i = m + 1
      BY <3>1
    <3>2. CASE i # m + 1
      <4>1. i \in 0..m /\ u[i] = t[i] /\ (i # 0 => i - 1 \in 0..m /\ u[i - 1] = t[i - 1])
        BY <3>2
      <4> QED
        BY <2>3, <4>1
    <3> QED
      BY <3>1, <3>2
  <2>5. IsTotal(u, m + 1)
    BY <2>2, <2>4 DEF IsTotal
  <2> QED
    BY <2>2, <2>5
<1> HIDE DEF S
<1>3. n \in S
  BY <1>1, <1>2, AllNumbers
<1> QED
  BY <1>3 DEF S

\* and every solution consists of numbers.
LEMMA TotalsAreNumbers ==
    ASSUME NEW n \in Nat, NEW t, IsTotal(t, n)
    PROVE  t[n] \in Nat
<1> DEFINE S == {m \in Nat : m <= n => t[m] \in Nat}
<1>1. \A i \in 0..n : t[i] = IF i = 0 THEN 0 ELSE t[i - 1] + Amount(i)
  BY DEF IsTotal
<1>2. 0 \in S
  BY <1>1
<1>3. ASSUME NEW m \in Nat, m \in S PROVE m + 1 \in S
  <2> SUFFICES ASSUME m + 1 <= n PROVE t[m + 1] \in Nat
    OBVIOUS
  <2>1. t[m + 1] = t[m] + Amount(m + 1) /\ t[m] \in Nat
    BY <1>1, <1>3
  <2> QED
    BY <2>1, AmountType
<1> HIDE DEF S
<1>4. n \in S
  BY <1>2, <1>3, AllNumbers
<1> QED
  BY <1>4 DEF S

LEMMA TotalType == TotalBytes \in Nat
<1> DEFINE T == CHOOSE t : IsTotal(t, FileCount)
<1>1. TotalBytes = T[FileCount]
  BY DEF TotalBytes, TotalOf, IsTotal, Amount
<1>2. IsTotal(T, FileCount)
  BY TotalExists, DirDiffAssumption
<1> QED
  BY <1>1, <1>2, TotalsAreNumbers, DirDiffAssumption

-----------------------------------------------------------------------------
(* The progress bar.                                                       *)

\* What is not more than the total fills the bar at most.
LEMMA FullBar ==
    ASSUME NEW c \in Nat, NEW t \in Nat, t = 0 \/ c <= t
    PROVE  Filled(c, t) <= 40
<1>1. CASE t = 0
  BY <1>1 DEF Filled
<1>2. CASE t > 0 /\ c <= t
  <2> DEFINE q == (40 * c) \div t
  <2>1. q \in Int /\ q * t <= 40 * c
    BY <1>2
  <2> HIDE DEF q
  <2>2. q * t <= 40 * t
    BY <1>2, <2>1
  <2>3. q <= 40
    <3> SUFFICES ASSUME q >= 41 PROVE FALSE
      BY <2>1
    <3>1. q * t >= 41 * t
      BY <1>2, <2>1
    <3> QED
      BY <1>2, <2>1, <2>2, <3>1
  <2> QED
    BY <1>2, <2>3 DEF Filled, q
<1> QED
  BY <1>1, <1>2

\* The inductive invariant: neither the command nor the collector ever sets the
\* current value above the bytes of the tree.
DrawnWithin ==
    TotalBytes >= 100 =>
        /\ current \in Nat /\ current <= TotalBytes
        /\ total \in {0, TotalBytes}
        /\ drawn \in Nat \X {0, TotalBytes} /\ drawn[1] <= TotalBytes

LEMMA PercentType ==
    ASSUME NEW bytes \in Nat, TotalBytes >= 100
    PROVE  Percent(bytes) \in Nat /\ Percent(bytes) <= TotalBytes
<1>1. TotalBytes \in Nat /\ TotalBytes > 0
  BY TotalType
<1>2. (100 * bytes) \div TotalBytes \in Nat
  BY <1>1
<1> QED
  BY <1>1, <1>2 DEF Percent

LEMMA PipelineOfDisplay ==
    ASSUME PipelineInv, [DisplayNext]_displayVars
    PROVE  PipelineInv'
<1>1. [Next]_vars
  BY DEF DisplayNext, Command, Progress, Quiet, ReportProgress, SetTotal, SetCurrent,
     FinishDisplay, displayVars, Next, Collector
<1> QED
  BY <1>1, NextPipeline

LEMMA DisplayInv ==
    ASSUME PipelineInv, DrawnWithin, [DisplayNext]_displayVars
    PROVE  DrawnWithin'
<1> SUFFICES ASSUME TotalBytes >= 100
             PROVE  /\ current' \in Nat /\ current' <= TotalBytes
                    /\ total' \in {0, TotalBytes}
                    /\ drawn' \in Nat \X {0, TotalBytes} /\ drawn'[1] <= TotalBytes
  BY DEF DrawnWithin, TotalBytes, TotalOf, Files
<1>0. /\ TotalBytes \in Nat /\ current \in Nat /\ current <= TotalBytes
      /\ total \in {0, TotalBytes}
      /\ drawn \in Nat \X {0, TotalBytes} /\ drawn[1] <= TotalBytes
  BY TotalType DEF DrawnWithin
<1>1. CASE ReportProgress
  <2>1. processed' \in Nat
    BY <1>1, NextType DEF ReportProgress, Next, Collector, TypeOK
  <2>2. Percent(processed') \in Nat /\ Percent(processed') <= TotalBytes
    BY <2>1, PercentType
  <2> QED
    BY <1>0, <1>1, <2>2 DEF ReportProgress, Draw
<1>2. CASE SetTotal
  BY <1>0, <1>2 DEF SetTotal, Draw, FinalTotal
<1>3. CASE SetCurrent
  BY <1>0, <1>3 DEF SetCurrent, Draw, FinalTotal
<1>4. CASE FinishDisplay
  BY <1>0, <1>4 DEF FinishDisplay
<1>5. CASE UNCHANGED <<current, total, drawn>>
  BY <1>0, <1>5
<1> QED
  BY <1>1, <1>2, <1>3, <1>4, <1>5
     DEF DisplayNext, Command, Progress, Quiet, displayVars

\* For a tree of 100 bytes or more the progress bar is never drawn longer than
\* it is, in whichever order the collector and the command write.
THEOREM LargeTreeBarFits == DisplaySpec => []BarFitsLargeTree
<1>1. DisplayInit => PipelineInv /\ DrawnWithin
  <2> SUFFICES ASSUME DisplayInit PROVE PipelineInv /\ DrawnWithin
    OBVIOUS
  <2>1. TotalBytes \in Nat
    BY TotalType
  <2> QED
    BY <2>1, InitPipeline DEF DisplayInit, DrawnWithin
<1>2. PipelineInv /\ DrawnWithin /\ [DisplayNext]_displayVars => (PipelineInv /\ DrawnWithin)'
  BY PipelineOfDisplay, DisplayInv
<1>3. DrawnWithin => BarFitsLargeTree
  BY FullBar, TotalType DEF DrawnWithin, BarFitsLargeTree, BarFits
<1> QED
  BY <1>1, <1>2, <1>3, PTL DEF DisplaySpec
=============================================================================
