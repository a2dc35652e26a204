------------------------- MODULE ConcurrentProcessor -------------------------
(***************************************************************************)
(* ConcurrentProcessor of pkg/performance/concurrent.go: clients submit    *)
(* jobs to a bounded queue, workers run them and hand the results to a     *)
(* collector through a second bounded queue; the processor can be paused,  *)
(* and Stop cancels the context, closes the job queue, waits for the       *)
(* workers and closes the result queue.                                    *)
(*                                                                         *)
(* A Go select with several ready cases takes any of them; a send on a     *)
(* closed channel is a ready case and panics.                              *)
(***************************************************************************)
EXTENDS Integers, Sequences, FiniteSets

CONSTANTS
    Workers,    \* ConcurrentConfig.WorkerCount goroutines
    Clients,    \* goroutines that submit jobs
    QueueSize,  \* ConcurrentConfig.QueueSize, of both queues
    MaxJobs,    \* bound: jobs each client submits
    MaxPauses,  \* bound: calls of Pause
    None        \* no job

ASSUME ProcessorAssumption ==
    /\ QueueSize \in Nat \ {0} /\ MaxJobs \in Nat /\ MaxPauses \in Nat
    /\ IsFiniteSet(Workers) /\ IsFiniteSet(Clients)
    /\ None \notin Clients \X Nat

Jobs == Clients \X (1..MaxJobs)

VARIABLES
    phase,      \* how far Stop has come: "running", "cancelled", "closed", "stopped"
    panicked,   \* a send hit a closed channel: the program is gone
    paused, pauses,
    jobQueue,
    results,    \* results in resultQueue
    worker,     \* worker[w]: where w is in run and processJob
    job,        \* job[w]: the job w holds
    client,     \* client[c]: "idle", "waiting" in SubmitWithTimeout, "accepted"
    made,       \* made[c]: the jobs c has tried to submit
    accepted,   \* jobs sent to the queue
    executed,   \* jobs that ran to their end
    submitted, completed, failed,  \* JobsSubmitted, JobsCompleted, JobsFailed
    active, idle                   \* WorkersActive, WorkersIdle

vars == <<phase, panicked, paused, pauses, jobQueue, results, worker, job, client,
          made, accepted, executed, submitted, completed, failed, active, idle>>

stats  == <<submitted, completed, failed, active, idle>>
submit == <<client, made, accepted>>
pool   == <<results, worker, job, executed>>
pause  == <<paused, pauses>>

Cancelled     == phase # "running"
QueueClosed   == phase \in {"closed", "stopped"}
ResultsClosed == phase = "stopped"

QueueHasRoom == Len(jobQueue) < QueueSize

TypeOK ==
    /\ phase \in {"running", "cancelled", "closed", "stopped"}
    /\ panicked \in BOOLEAN /\ paused \in BOOLEAN /\ pauses \in 0..MaxPauses
    /\ jobQueue \in Seq(Jobs) /\ Len(jobQueue) <= QueueSize
    /\ results \in 0..QueueSize
    /\ worker \in [Workers -> {"idle", "holding", "sleeping", "running", "sending", "exited"}]
    /\ job \in [Workers -> Jobs \cup {None}]
    /\ client \in [Clients -> {"idle", "waiting", "accepted"}]
    /\ made \in [Clients -> 0..MaxJobs]
    /\ accepted \subseteq Jobs /\ executed \subseteq Jobs
    /\ {submitted, completed, failed} \subseteq Nat /\ {active, idle} \subseteq Int

Init ==
    /\ phase = "running" /\ panicked = FALSE /\ paused = FALSE /\ pauses = 0
    /\ jobQueue = <<>> /\ results = 0
    /\ worker = [w \in Workers |-> "idle"]
    /\ job = [w \in Workers |-> None]
    /\ client = [c \in Clients |-> "idle"]
    /\ made = [c \in Clients |-> 0]
    /\ accepted = {} /\ executed = {}
    /\ submitted = 0 /\ completed = 0 /\ failed = 0 /\ active = 0 /\ idle = 0

-----------------------------------------------------------------------------
(* Clients.                                                                *)

Current(c) == <<c, made[c]>>

\* The send case of a select on an open queue; JobsSubmitted comes after it.
Accept(c, j) ==
    /\ ~QueueClosed /\ QueueHasRoom
    /\ jobQueue' = Append(jobQueue, j)
    /\ accepted' = accepted \cup {j}
    /\ client' = [client EXCEPT ![c] = "accepted"]
    /\ UNCHANGED panicked

\* The send case on a closed queue.
Panic ==
    /\ QueueClosed
    /\ panicked' = TRUE
    /\ UNCHANGED <<jobQueue, accepted, client>>

Reject == UNCHANGED <<jobQueue, accepted, client, panicked>>

Begin(c) ==
    /\ ~panicked
    /\ client[c] = "idle"
    /\ made[c] < MaxJobs
    /\ made' = [made EXCEPT ![c] = @ + 1]

Submit(c) ==
    /\ Begin(c)
    /\ \/ Accept(c, <<c, made[c] + 1>>)
       \/ Panic
       \/ Cancelled /\ Reject
       \/ ~Cancelled /\ ~QueueHasRoom /\ Reject
    /\ UNCHANGED <<phase, pause, pool, stats>>

\* The context of the call may be done from the start: cancelled with the
\* processor's, or past its deadline.
SubmitWithTimeout(c) ==
    /\ Begin(c)
    /\ \/ Accept(c, <<c, made[c] + 1>>)
       \/ Panic
       \/ Reject
       \/ /\ ~Cancelled /\ ~QueueHasRoom
          /\ client' = [client EXCEPT ![c] = "waiting"]
          /\ UNCHANGED <<jobQueue, accepted, panicked>>
    /\ UNCHANGED <<phase, pause, pool, stats>>

WaitEnds(c) ==
    /\ ~panicked
    /\ client[c] = "waiting"
    /\ Accept(c, Current(c))
    /\ UNCHANGED <<phase, pause, pool, stats, made>>

Timeout(c) ==
    /\ ~panicked
    /\ client[c] = "waiting"
    /\ client' = [client EXCEPT ![c] = "idle"]
    /\ UNCHANGED <<phase, panicked, pause, jobQueue, pool, stats, made, accepted>>

CountSubmitted(c) ==
    /\ ~panicked
    /\ client[c] = "accepted"
    /\ client' = [client EXCEPT ![c] = "idle"]
    /\ submitted' = submitted + 1
    /\ UNCHANGED <<phase, panicked, pause, jobQueue, pool, made, accepted,
                   completed, failed, active, idle>>

-----------------------------------------------------------------------------
(* Workers and the collector.                                              *)

WorkerGoes(w, from, to) ==
    /\ ~panicked
    /\ worker[w] = from
    /\ worker' = [worker EXCEPT ![w] = to]

TakeJob_Peeks(w) ==
    /\ jobQueue # <<>>
    /\ WorkerGoes(w, "idle", "holding")
    /\ job' = [job EXCEPT ![w] = Head(jobQueue)]
    /\ UNCHANGED <<phase, panicked, pause, jobQueue, results, executed, submit, stats>>

TakeJob(w) ==
    /\ jobQueue # <<>>
    /\ WorkerGoes(w, "idle", "holding")
    /\ job' = [job EXCEPT ![w] = Head(jobQueue)]
    /\ jobQueue' = Tail(jobQueue)
    /\ UNCHANGED <<phase, panicked, pause, results, executed, submit, stats>>

\* The queue is closed and drained, or the context is done: a worker whose
\* select has both a job and a done context may leave the job in the queue.
ExitWorker(w) ==
    /\ Cancelled
    /\ WorkerGoes(w, "idle", "exited")
    /\ UNCHANGED <<phase, panicked, pause, jobQueue, results, job, executed, submit, stats>>

SleepPaused(w) ==
    /\ paused
    /\ WorkerGoes(w, "holding", "sleeping")
    /\ UNCHANGED <<phase, panicked, pause, jobQueue, results, job, executed, submit, stats>>

WakePaused_Never(w) == FALSE

WakePaused(w) ==
    /\ ~Cancelled
    /\ WorkerGoes(w, "sleeping", "holding")
    /\ UNCHANGED <<phase, panicked, pause, jobQueue, results, job, executed, submit, stats>>

AbandonJob_WhenPaused(w) ==
    /\ WorkerGoes(w, "sleeping", "exited")
    /\ job' = [job EXCEPT ![w] = None]
    /\ UNCHANGED <<phase, panicked, pause, jobQueue, results, executed, submit, stats>>

AbandonJob_Never(w) == FALSE

\* A paused worker that finds the context done returns with its job.
AbandonJob(w) ==
    /\ Cancelled
    /\ WorkerGoes(w, "sleeping", "exited")
    /\ job' = [job EXCEPT ![w] = None]
    /\ UNCHANGED <<phase, panicked, pause, jobQueue, results, executed, submit, stats>>

StartJob(w) ==
    /\ ~paused
    /\ WorkerGoes(w, "holding", "running")
    /\ active' = active + 1
    /\ idle' = idle - 1
    /\ UNCHANGED <<phase, panicked, pause, jobQueue, results, job, executed, submit,
                   submitted, completed, failed>>

ExecuteJob_CountsBoth(w) ==
    /\ WorkerGoes(w, "running", "sending")
    /\ executed' = executed \cup {job[w]}
    /\ completed' = completed + 1
    /\ failed' \in {failed, failed + 1}
    /\ UNCHANGED <<phase, panicked, pause, jobQueue, results, job, submit,
                   submitted, active, idle>>

ExecuteJob(w) ==
    /\ WorkerGoes(w, "running", "sending")
    /\ executed' = executed \cup {job[w]}
    /\ \/ completed' = completed + 1 /\ UNCHANGED failed
       \/ failed' = failed + 1 /\ UNCHANGED completed
    /\ UNCHANGED <<phase, panicked, pause, jobQueue, results, job, submit,
                   submitted, active, idle>>

ResultsHaveRoom == results < QueueSize

\* The select on the result queue and the context, then the deferred updates.
SendResult(w) ==
    /\ WorkerGoes(w, "sending", "idle")
    /\ job' = [job EXCEPT ![w] = None]
    /\ \/ ResultsHaveRoom /\ results' = results + 1
       \/ Cancelled /\ UNCHANGED results
    /\ active' = active - 1
    /\ idle' = idle + 1
    /\ UNCHANGED <<phase, panicked, pause, jobQueue, executed, submit,
                   submitted, completed, failed>>

CollectResult ==
    /\ ~panicked
    /\ results > 0
    /\ results' = results - 1
    /\ UNCHANGED <<phase, panicked, pause, jobQueue, worker, job, executed, submit, stats>>

-----------------------------------------------------------------------------
(* Stop, Pause and Resume.                                                 *)

\* cancel: clients blocked in SubmitWithTimeout wake up with an error.
Cancel ==
    /\ ~panicked
    /\ phase = "running"
    /\ phase' = "cancelled"
    /\ client' = [c \in Clients |-> IF client[c] = "waiting" THEN "idle" ELSE client[c]]
    /\ UNCHANGED <<panicked, pause, jobQueue, pool, stats, made, accepted>>

CloseQueue ==
    /\ ~panicked
    /\ phase = "cancelled"
    /\ phase' = "closed"
    /\ UNCHANGED <<panicked, pause, jobQueue, pool, submit, stats>>

AllExited_OrSending == \A w \in Workers : worker[w] \in {"exited", "sending"}

AllExited == \A w \in Workers : worker[w] = "exited"

CloseResults ==
    /\ ~panicked
    /\ phase = "closed"
    /\ AllExited
    /\ phase' = "stopped"
    /\ UNCHANGED <<panicked, pause, jobQueue, pool, submit, stats>>

Pause ==
    /\ ~panicked
    /\ pauses < MaxPauses
    /\ paused' = TRUE
    /\ pauses' = pauses + 1
    /\ UNCHANGED <<phase, panicked, jobQueue, pool, submit, stats>>

Resume ==
    /\ ~panicked
    /\ paused
    /\ paused' = FALSE
    /\ UNCHANGED <<phase, panicked, pauses, jobQueue, pool, submit, stats>>

-----------------------------------------------------------------------------
Work(w) ==
    \/ TakeJob(w) \/ ExitWorker(w) \/ SleepPaused(w) \/ WakePaused(w) \/ AbandonJob(w)
    \/ StartJob(w) \/ ExecuteJob(w) \/ SendResult(w)

Client(c) ==
    \/ Submit(c) \/ SubmitWithTimeout(c) \/ WaitEnds(c) \/ Timeout(c) \/ CountSubmitted(c)

Next ==
    \/ \E w \in Workers : Work(w)
    \/ \E c \in Clients : Client(c)
    \/ CollectResult
    \/ Cancel \/ CloseQueue \/ CloseResults
    \/ Pause \/ Resume

Spec == Init /\ [][Next]_vars

\* Go schedules every goroutine that can run, jobs end, and a Stop that has
\* begun goes on.  Nobody has to submit, pause, resume or call Stop.
Fairness ==
    /\ \A w \in Workers : WF_vars(Work(w))
    /\ WF_vars(CollectResult)
    /\ WF_vars(CloseQueue \/ CloseResults)

FairSpec == Spec /\ Fairness

-----------------------------------------------------------------------------
(* Properties.                                                             *)

Queued == {jobQueue[i] : i \in DOMAIN jobQueue}
Held   == {job[w] : w \in Workers} \ {None}

\* Until Stop begins, a job for which Submit reported success is in the
\* queue, at a worker, or done: pausing, full queues and waiting submitters
\* lose nothing.
NothingLost == ~Cancelled => accepted = Queued \cup Held \cup executed

\* No job is in two places, so none runs twice.
OnePlace ==
    /\ \A i, k \in DOMAIN jobQueue : i # k => jobQueue[i] # jobQueue[k]
    /\ \A v, w \in Workers : v # w /\ job[v] # None => job[v] # job[w]
    /\ Queued \cap (Held \cup executed) = {}
    /\ \A w \in Workers : worker[w] \in {"holding", "sleeping", "running"} => job[w] \notin executed

\* When Stop closes the result queue no worker can still send on it.
NoSendOnClosedResults == ResultsClosed => \A w \in Workers : worker[w] = "exited"

\* The counters are those of the jobs and workers: each run is counted once,
\* as completed or as failed, and active is the number of busy workers.
CountersAgree ==
    /\ completed + failed = Cardinality(executed)
    /\ active = Cardinality({w \in Workers : worker[w] \in {"running", "sending"}})
    /\ submitted + Cardinality({c \in Clients : client[c] = "accepted"}) = Cardinality(accepted)

\* Stop returns, paused or not and however full the queues are.
StopReturns == (phase = "cancelled") ~> (phase = "stopped" \/ panicked)

\* An accepted job runs, unless the processor is stopped or stays paused.
AcceptedRun ==
    <>[]paused \/ \A j \in Jobs : (j \in accepted) ~> (j \in executed \/ Cancelled)

\* Where the workers that have job j stand.
Stations(j) == {worker[w] : w \in {v \in Workers : job[v] = j}}

\* How far a job has come: it stays accepted while a worker only holds it, and
\* one that is neither queued nor held and did not run is dropped.
StateOf(j) ==
    IF j \notin accepted THEN "new"
    ELSE IF j \in Queued \/ Stations(j) \cap {"holding", "sleeping"} # {} THEN "accepted"
    ELSE IF "running" \in Stations(j) THEN "running"
    ELSE IF "sending" \in Stations(j) THEN "ran"
    ELSE IF j \in executed THEN "finished" ELSE "dropped"

Service == INSTANCE JobService WITH
    service <- IF panicked THEN "broken" ELSE phase,
    state   <- [j \in Jobs |-> StateOf(j)]

\* The processor implements JobService: every job goes from accepted to running
\* to reported, each step at most once, whatever clients, workers, Pause and Stop
\* do; only Stop drops jobs, none that has begun; and the result queue is closed
\* only when every job that ran has been reported.
ImplementsJobService == Service!Spec

-----------------------------------------------------------------------------
(* The inductive strengthening of the proofs.                              *)

\* Jobs are numbered: what is accepted has been tried, and what a client still
\* waits to submit is not accepted yet.
Numbered ==
    /\ \A j \in accepted : j[2] <= made[j[1]]
    /\ \A c \in Clients : client[c] = "waiting" => made[c] > 0 /\ Current(c) \notin accepted

\* Whatever is queued, held or done was accepted, and a worker has a job from
\* TakeJob until its result is sent.
Accounted ==
    /\ Queued \cup Held \cup executed \subseteq accepted
    /\ \A w \in Workers : job[w] = None <=> worker[w] \in {"idle", "exited"}
    /\ \A w \in Workers : worker[w] = "sending" => job[w] \in executed

ProcessorInv ==
    /\ TypeOK /\ Numbered /\ Accounted
    /\ OnePlace /\ NothingLost /\ NoSendOnClosedResults
=============================================================================
