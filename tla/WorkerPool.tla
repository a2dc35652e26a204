----------------------------- MODULE WorkerPool -----------------------------
(***************************************************************************)
(* WorkerPool of pkg/performance/concurrent.go: callers of Submit put      *)
(* functions on a channel of bounded capacity and the pool's goroutines    *)
(* run them.  Stop cancels the pool's context, closes the channel and      *)
(* waits for the goroutines; it may come at any time.                      *)
(***************************************************************************)
EXTENDS Naturals, Sequences, FiniteSets

CONSTANTS
    PoolJobs,     \* the functions, each submitted by a goroutine of its own
    PoolWorkers

ASSUME PoolAssumption == IsFiniteSet(PoolJobs) /\ IsFiniteSet(PoolWorkers)

VARIABLES
    pool,        \* "new", "running", "cancelled", "closed" or "stopped"
    poolJob,     \* poolJob[j]: where the function and the call of Submit stand
    poolQueue,   \* jobQueue
    poolHolds,   \* poolHolds[w]: what the worker runs, {} if nothing
    poolExited   \* workers that have returned

poolVars == <<pool, poolJob, poolQueue, poolHolds, poolExited>>

PoolInit ==
    /\ pool = "new" /\ poolQueue = <<>> /\ poolExited = {}
    /\ poolJob = [j \in PoolJobs |-> "unsubmitted"]
    /\ poolHolds = [w \in PoolWorkers |-> {}]

PoolDone   == pool \in {"cancelled", "closed", "stopped"}   \* ctx.Done is ready
PoolClosed == pool \in {"closed", "stopped"}                \* jobQueue is closed

\* A send on the closed channel panics, which ends the program.
PoolAlive == \A j \in PoolJobs : poolJob[j] # "panicked"

StartPool ==
    /\ pool = "new" /\ pool' = "running"
    /\ UNCHANGED <<poolJob, poolQueue, poolHolds, poolExited>>

\* The select of Submit, which waits while the queue is full.
SubmitToPool(j) ==
    /\ poolJob[j] = "unsubmitted"
    /\ \/ /\ ~PoolClosed /\ Len(poolQueue) < 2 * Cardinality(PoolWorkers)
          /\ poolQueue' = Append(poolQueue, j)
          /\ poolJob' = [poolJob EXCEPT ![j] = "queued"]
       \/ /\ PoolDone /\ UNCHANGED poolQueue
          /\ poolJob' = [poolJob EXCEPT ![j] = "dropped"]
       \/ /\ PoolClosed /\ UNCHANGED poolQueue
          /\ poolJob' = [poolJob EXCEPT ![j] = "panicked"]
    /\ UNCHANGED <<pool, poolHolds, poolExited>>

WorkerFree(w) == pool # "new" /\ poolHolds[w] = {} /\ w \notin poolExited

TakeFromPool(w) ==
    /\ WorkerFree(w) /\ poolQueue # <<>>
    /\ poolHolds' = [poolHolds EXCEPT ![w] = {Head(poolQueue)}]
    /\ poolJob' = [poolJob EXCEPT ![Head(poolQueue)] = "running"]
    /\ poolQueue' = Tail(poolQueue)
    /\ UNCHANGED <<pool, poolExited>>

RunInPool_Once(w) ==
    /\ \E j \in poolHolds[w] : poolJob' = [poolJob EXCEPT ![j] = "done"]
    /\ poolHolds' = [poolHolds EXCEPT ![w] = {}]
    /\ poolExited' = poolExited \cup {w}
    /\ UNCHANGED <<pool, poolQueue>>

RunInPool(w) ==
    /\ \E j \in poolHolds[w] : poolJob' = [poolJob EXCEPT ![j] = "done"]
    /\ poolHolds' = [poolHolds EXCEPT ![w] = {}]
    /\ UNCHANGED <<pool, poolQueue, poolExited>>

\* The channel is closed and empty, or the select takes ctx.Done.
PoolWorkerMayExit(w) == PoolDone

ExitPoolWorker(w) ==
    /\ WorkerFree(w) /\ PoolWorkerMayExit(w)
    /\ poolExited' = poolExited \cup {w}
    /\ UNCHANGED <<pool, poolJob, poolQueue, poolHolds>>

CancelPool ==
    /\ pool = "running" /\ pool' = "cancelled"
    /\ UNCHANGED <<poolJob, poolQueue, poolHolds, poolExited>>

ClosePool ==
    /\ pool = "cancelled" /\ pool' = "closed"
    /\ UNCHANGED <<poolJob, poolQueue, poolHolds, poolExited>>

\* wg.Wait.
PoolWaitEnds == poolExited = PoolWorkers

FinishStopPool ==
    /\ pool = "closed" /\ PoolWaitEnds /\ pool' = "stopped"
    /\ UNCHANGED <<poolJob, poolQueue, poolHolds, poolExited>>

PoolWork(w) == PoolAlive /\ (TakeFromPool(w) \/ RunInPool(w) \/ ExitPoolWorker(w))
PoolSubmit(j) == PoolAlive /\ SubmitToPool(j)
PoolOwner == PoolAlive /\ (StartPool \/ ClosePool \/ FinishStopPool)

PoolNext ==
    \/ PoolOwner
    \/ PoolAlive /\ CancelPool
    \/ \E j \in PoolJobs : PoolSubmit(j)
    \/ \E w \in PoolWorkers : PoolWork(w)

\* Go schedules every goroutine that can run, and a pool that is made is
\* started; Stop need not be called.
PoolFairness ==
    /\ WF_poolVars(PoolOwner)
    /\ \A w \in PoolWorkers : WF_poolVars(PoolWork(w))
    /\ \A j \in PoolJobs : WF_poolVars(PoolSubmit(j))

PoolSpec == PoolInit /\ [][PoolNext]_poolVars /\ PoolFairness

-----------------------------------------------------------------------------
(* Properties.                                                             *)

PoolTypeOK ==
    /\ pool \in {"new", "running", "cancelled", "closed", "stopped"}
    /\ poolJob \in [PoolJobs -> {"unsubmitted", "queued", "running", "done", "dropped", "panicked"}]
    /\ Len(poolQueue) <= 2 * Cardinality(PoolWorkers)
    /\ poolExited \subseteq PoolWorkers

\* A pool that is started comes to run every function that is submitted, unless
\* Stop is called; and Stop returns, whatever is queued or running or waits in
\* Submit at that time.
PoolServes ==
    pool \in {"running", "cancelled"} ~>
        \/ pool = "running" /\ \A j \in PoolJobs : poolJob[j] = "done"
        \/ pool = "stopped" \/ ~PoolAlive

\* The pool implements JobService, for functions without results: none runs
\* twice, none that has begun is lost, and Stop waits for those; a function that
\* is queued when Stop comes may never run.
PoolStageOf(s) ==
    CASE s = "queued"  -> "accepted"
      [] s = "running" -> "running"
      [] s = "done"    -> "finished"
      [] OTHER         -> "new"

PoolService == INSTANCE JobService WITH
    Jobs    <- PoolJobs,
    service <- IF ~PoolAlive THEN "broken" ELSE IF pool = "new" THEN "running" ELSE pool,
    state   <- [j \in PoolJobs |-> PoolStageOf(poolJob[j])]

PoolImplementsJobService == PoolService!Spec
=============================================================================
