--------------------------- MODULE BatchProcessor ---------------------------
(***************************************************************************)
(* BatchProcessor of pkg/performance/concurrent.go: AddJob collects jobs   *)
(* in a buffer under a mutex and hands a full buffer, as one BatchJob, to  *)
(* Submit of a ConcurrentProcessor; Flush does so with what is left.       *)
(*                                                                         *)
(* The processor is a private field that nothing starts, so a batch that   *)
(* Submit accepts stays in its queue, and once the queue is full every     *)
(* further batch is refused.                                               *)
(***************************************************************************)
EXTENDS Naturals, Sequences, FiniteSets

CONSTANTS
    BatchJobs,    \* the jobs that are added, each once
    BatchSize,
    BatchQueue    \* ConcurrentConfig.QueueSize

ASSUME BatchAssumption == IsFiniteSet(BatchJobs) /\ {BatchSize, BatchQueue} \subseteq Nat

VARIABLES
    batchBuffer,   \* sequence of jobs
    accepted,      \* sequence of the batches in the processor's queue
    refused,       \* set of batches whose Submit returned an error
    answer         \* answer[j]: what AddJob(j) returned, "none" before

batchVars == <<batchBuffer, accepted, refused, answer>>

BatchInit ==
    /\ batchBuffer = <<>> /\ accepted = <<>> /\ refused = {}
    /\ answer = [j \in BatchJobs |-> "none"]

BatchFits == Len(accepted) < BatchQueue

KeptAfter_OnError(jobs) == IF BatchFits THEN <<>> ELSE jobs

\* The buffer is emptied before the batch is submitted, whatever Submit says.
KeptAfter(jobs) == <<>>

\* submitBatch, for the buffer jobs.
SubmitBatch(jobs) ==
    /\ batchBuffer' = KeptAfter(jobs)
    /\ accepted' = IF BatchFits THEN Append(accepted, jobs) ELSE accepted
    /\ refused' = IF BatchFits THEN refused ELSE refused \cup {jobs}

AddJob(j) ==
    LET jobs == Append(batchBuffer, j)
    IN  /\ answer[j] = "none"
        /\ IF Len(jobs) >= BatchSize
           THEN /\ SubmitBatch(jobs)
                /\ answer' = [answer EXCEPT ![j] = IF BatchFits THEN "nil" ELSE "error"]
           ELSE /\ batchBuffer' = jobs
                /\ answer' = [answer EXCEPT ![j] = "nil"]
                /\ UNCHANGED <<accepted, refused>>

FlushBatch ==
    /\ batchBuffer # <<>>
    /\ SubmitBatch(batchBuffer)
    /\ UNCHANGED answer

BatchNext == FlushBatch \/ \E j \in BatchJobs : AddJob(j)

BatchSpec == BatchInit /\ [][BatchNext]_batchVars

-----------------------------------------------------------------------------
(* Properties.                                                             *)

BatchTypeOK ==
    /\ answer \in [BatchJobs -> {"none", "nil", "error"}]
    /\ Len(batchBuffer) <= BatchSize /\ Len(accepted) <= BatchQueue

InBatch(b, j) == \E i \in DOMAIN b : b[i] = j

\* A job that was added is in the buffer, in one accepted batch or in one
\* refused batch, and once only.  A job whose AddJob returned an error is in no
\* accepted batch, so the caller that retries it does not run it twice; one
\* whose AddJob returned nil may have been refused later, with another's batch.
BatchKept ==
    \A j \in BatchJobs :
        LET places == {i \in DOMAIN accepted : InBatch(accepted[i], j)}
        IN  /\ Cardinality(places) + Cardinality({b \in refused : InBatch(b, j)})
                 + Cardinality({i \in DOMAIN batchBuffer : batchBuffer[i] = j})
               = IF answer[j] = "none" THEN 0 ELSE 1
            /\ answer[j] = "error" => places = {}
=============================================================================
