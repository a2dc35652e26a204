----------------------------- MODULE JobService -----------------------------
(***************************************************************************)
(* What a processor of jobs promises its clients, without queues, workers  *)
(* and counters: every job is accepted at most once and run at most once;  *)
(* while the service runs an accepted job is never dropped; a job that has *)
(* begun is never dropped at all, for stopping waits until it has ended    *)
(* and its result is reported; and nothing runs after the stop.  A job     *)
(* that is accepted and not begun when the service stops may stay so for   *)
(* ever, or be dropped by the worker that has it.                          *)
(* ConcurrentProcessor and WorkerPool implement this.                      *)
(***************************************************************************)
CONSTANT Jobs

VARIABLES
    service,   \* "running", "cancelled", "closed", "stopped" or "broken"
    state      \* state[j] \in JobStates

JobStates == {"new", "accepted", "dropped", "running", "ran", "finished"}

servicevars == <<service, state>>

Init ==
    /\ service = "running"
    /\ state = [j \in Jobs |-> "new"]

Moves(j, from, to) ==
    /\ state[j] = from
    /\ state' = [state EXCEPT ![j] = to]
    /\ UNCHANGED service

\* A stop that is not complete does not refuse jobs at once.
Accept(j) == service \in {"running", "cancelled"} /\ Moves(j, "new", "accepted")

Begin(j) == service \in {"running", "cancelled", "closed"} /\ Moves(j, "accepted", "running")

Drop(j) == service \in {"cancelled", "closed"} /\ Moves(j, "accepted", "dropped")

\* The job ends: its result is reported later, or there is none.
End(j) == \E s \in {"ran", "finished"} : Moves(j, "running", s)

Report(j) == Moves(j, "ran", "finished")

Cancel == service = "running" /\ service' = "cancelled" /\ UNCHANGED state
Close  == service = "cancelled" /\ service' = "closed" /\ UNCHANGED state

Finish ==
    /\ service = "closed" /\ service' = "stopped"
    /\ \A j \in Jobs : state[j] \notin {"running", "ran"}
    /\ UNCHANGED state

\* A call that submits a job after the stop has closed the queue.
Break ==
    /\ service \in {"closed", "stopped"} /\ service' = "broken"
    /\ UNCHANGED state

JobStep(j) == Accept(j) \/ Begin(j) \/ Drop(j) \/ End(j) \/ Report(j)
Stop       == Cancel \/ Close \/ Finish

\* The first conjunct follows from JobStep; it saves looking at the other jobs.
Next ==
    \/ \E j \in Jobs : state'[j] # state[j] /\ JobStep(j)
    \/ Stop \/ Break

Spec == Init /\ [][Next]_servicevars
=============================================================================
