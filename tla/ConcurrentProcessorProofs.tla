---------------------- MODULE ConcurrentProcessorProofs ----------------------
(***************************************************************************)
(* What the processor guarantees for any number of workers and clients and *)
(* any size of the queues.                                                 *)
(***************************************************************************)
EXTENDS ConcurrentProcessor, FiniteSetTheorems, TLAPS

-----------------------------------------------------------------------------
(* Queues.                                                                 *)

\* Appending adds one element to those of a queue, at its end.
LEMMA AppendElements ==
    ASSUME NEW S, NEW q \in Seq(S), NEW x \in S
    PROVE  /\ Append(q, x) \in Seq(S) /\ Len(Append(q, x)) = Len(q) + 1
           /\ DOMAIN q = 1..Len(q) /\ DOMAIN Append(q, x) = 1..(Len(q) + 1)
           /\ \A i \in 1..Len(q) : Append(q, x)[i] = q[i]
           /\ Append(q, x)[Len(q) + 1] = x
OBVIOUS

\* Taking the head leaves the others, one place further on.
LEMMA TailElements ==
    ASSUME NEW S, NEW q \in Seq(S), q # <<>>
    PROVE  /\ Head(q) \in S /\ Head(q) = q[1]
           /\ Tail(q) \in Seq(S) /\ Len(Tail(q)) = Len(q) - 1 /\ Len(q) > 0
           /\ DOMAIN q = 1..Len(q) /\ DOMAIN Tail(q) = 1..(Len(q) - 1)
           /\ \A i \in 1..(Len(q) - 1) : Tail(q)[i] = q[i + 1]
OBVIOUS

\* An accepted submission adds one job to the queued ones.
LEMMA QueueGrows ==
    ASSUME TypeOK, NEW j \in Jobs, jobQueue' = Append(jobQueue, j)
    PROVE  /\ Queued' = Queued \cup {j}
           /\ /\ j \notin Queued
              /\ \A i, k \in DOMAIN jobQueue : i # k => jobQueue[i] # jobQueue[k]
              => \A i, k \in DOMAIN jobQueue' : i # k => jobQueue'[i] # jobQueue'[k]
<1>1. jobQueue \in Seq(Jobs) /\ Len(jobQueue) \in Nat
  BY DEF TypeOK
<1>2. /\ DOMAIN jobQueue = 1..Len(jobQueue) /\ DOMAIN jobQueue' = 1..(Len(jobQueue) + 1)
      /\ \A i \in 1..Len(jobQueue) : jobQueue'[i] = jobQueue[i]
      /\ jobQueue'[Len(jobQueue) + 1] = j
  BY <1>1, AppendElements
<1>3. \A i \in DOMAIN jobQueue' : i \in DOMAIN jobQueue \/ i = Len(jobQueue) + 1
  BY <1>1, <1>2
<1>4. Len(jobQueue) + 1 \in DOMAIN jobQueue' /\ DOMAIN jobQueue \subseteq DOMAIN jobQueue'
  BY <1>1, <1>2
<1> QED
  BY <1>2, <1>3, <1>4 DEF Queued

\* A worker that takes the head removes it from the queued jobs, if no job is
\* in the queue twice.
LEMMA QueueShrinks ==
    ASSUME TypeOK, jobQueue # <<>>, jobQueue' = Tail(jobQueue),
           \A i, k \in DOMAIN jobQueue : i # k => jobQueue[i] # jobQueue[k]
    PROVE  /\ Head(jobQueue) \in Queued /\ Head(jobQueue) \in Jobs
           /\ Queued' = Queued \ {Head(jobQueue)}
           /\ \A i, k \in DOMAIN jobQueue' : i # k => jobQueue'[i] # jobQueue'[k]
<1>1. jobQueue \in Seq(Jobs)
  BY DEF TypeOK
<1> DEFINE n == Len(jobQueue)
<1>2. /\ n \in Nat /\ n > 0
      /\ Head(jobQueue) \in Jobs /\ Head(jobQueue) = jobQueue[1]
      /\ DOMAIN jobQueue = 1..n /\ DOMAIN jobQueue' = 1..(n - 1)
      /\ \A i \in 1..(n - 1) : jobQueue'[i] = jobQueue[i + 1]
  BY <1>1, TailElements
<1> HIDE DEF n
<1>3. \A i \in DOMAIN jobQueue' : i + 1 \in DOMAIN jobQueue /\ i + 1 # 1
  BY <1>2
<1>4. 1 \in DOMAIN jobQueue /\ \A i \in DOMAIN jobQueue : i # 1 => i - 1 \in DOMAIN jobQueue' /\ (i - 1) + 1 = i
  BY <1>2
<1>5. \A i \in DOMAIN jobQueue : i # 1 => jobQueue[i] # Head(jobQueue)
  BY <1>2, <1>4
<1>6. \A x \in Queued' : x \in Queued /\ x # Head(jobQueue)
  <2> TAKE x \in Queued'
  <2>1. PICK i \in DOMAIN jobQueue' : x = jobQueue'[i]
    BY DEF Queued
  <2> QED
    BY <2>1, <1>2, <1>3, <1>5 DEF Queued
<1>7. \A x \in Queued : x # Head(jobQueue) => x \in Queued'
  <2> SUFFICES ASSUME NEW x \in Queued, x # Head(jobQueue) PROVE x \in Queued'
    OBVIOUS
  <2>1. PICK i \in DOMAIN jobQueue : x = jobQueue[i]
    BY DEF Queued
  <2>2. i # 1
    BY <2>1, <1>2
  <2>3. i - 1 \in DOMAIN jobQueue' /\ jobQueue'[i - 1] = x
    BY <2>1, <2>2, <1>2, <1>4
  <2> QED
    BY <2>3 DEF Queued
<1>8. \A i, k \in DOMAIN jobQueue' : i # k => jobQueue'[i] # jobQueue'[k]
  <2> SUFFICES ASSUME NEW i \in DOMAIN jobQueue', NEW k \in DOMAIN jobQueue', i # k
               PROVE  jobQueue'[i] # jobQueue'[k]
    OBVIOUS
  <2>1. i + 1 # k + 1
    BY <1>2
  <2>2. jobQueue[i + 1] # jobQueue[k + 1]
    BY <2>1, <1>3
  <2> QED
    BY <2>2, <1>2
<1>9. Head(jobQueue) \in Queued
  BY <1>2, <1>4 DEF Queued
<1> QED
  BY <1>2, <1>6, <1>7, <1>8, <1>9

-----------------------------------------------------------------------------
(* What the steps do to the jobs.                                          *)

\* A client's step leaves the workers alone; it may put one new job at the end
\* of the queue, which nobody has seen before.
LEMMA ClientStep ==
    ASSUME TypeOK, Numbered, NEW c \in Clients, Client(c)
    PROVE  /\ UNCHANGED <<phase, pause, pool>>
           /\ \/ /\ UNCHANGED <<jobQueue, accepted>>
                 /\ \E s \in {"idle", "waiting"} : client' = [client EXCEPT ![c] = s]
              \/ \E j \in Jobs \ accepted :
                    /\ jobQueue' = Append(jobQueue, j) /\ Len(jobQueue) < QueueSize
                    /\ accepted' = accepted \cup {j}
                    /\ j[1] = c /\ j[2] = made'[c]
                    /\ client' = [client EXCEPT ![c] = "accepted"]
<1> USE DEF pause, pool
<1>1. client[c] = "idle" /\ made[c] < MaxJobs =>
          <<c, made[c] + 1>> \in Jobs \ accepted
  BY ProcessorAssumption DEF TypeOK, Numbered, Jobs
<1>2. client[c] = "waiting" => Current(c) \in Jobs \ accepted
  BY ProcessorAssumption DEF TypeOK, Numbered, Jobs, Current
<1>3. CASE Submit(c)
  BY <1>1, <1>3 DEF Submit, Begin, Accept, Panic, Reject, QueueHasRoom, TypeOK
<1>4. CASE SubmitWithTimeout(c)
  BY <1>1, <1>4 DEF SubmitWithTimeout, Begin, Accept, Panic, Reject, QueueHasRoom, TypeOK
<1>5. CASE WaitEnds(c)
  BY <1>2, <1>5 DEF WaitEnds, Accept, Current, QueueHasRoom
<1>6. CASE Timeout(c)
  BY <1>6 DEF Timeout
<1>7. CASE CountSubmitted(c)
  BY <1>7 DEF CountSubmitted
<1> QED
  BY <1>3, <1>4, <1>5, <1>6, <1>7 DEF Client

\* Stop, Pause, Resume and the collector leave the jobs alone.
ControlStep ==
    \/ CollectResult \/ Cancel \/ CloseQueue \/ CloseResults \/ Pause \/ Resume
    \/ UNCHANGED vars

LEMMA ControlKeepsJobs ==
    ControlStep =>
        /\ UNCHANGED <<jobQueue, worker, job, executed, made, accepted>>
        /\ Cancelled => Cancelled'
        /\ ResultsClosed' => ResultsClosed \/ AllExited
        /\ client' = client
           \/ client' = [c \in Clients |-> IF client[c] = "waiting" THEN "idle" ELSE client[c]]
BY DEF ControlStep, CollectResult, Cancel, CloseQueue, CloseResults, Pause, Resume, vars,
       pool, submit, pause, stats, Cancelled, ResultsClosed

\* A worker's step changes nothing of the clients and of Stop.
LEMMA WorkKeepsClients ==
    ASSUME NEW w \in Workers, Work(w)
    PROVE  UNCHANGED <<phase, panicked, pause, client, made, accepted, submitted>>
BY DEF Work, WorkerGoes, TakeJob, ExitWorker, SleepPaused, WakePaused, AbandonJob, StartJob,
       ExecuteJob, SendResult, submit, pause, stats

LEMMA StepCases ==
    ASSUME [Next]_vars
    PROVE  (\E w \in Workers : Work(w)) \/ (\E c \in Clients : Client(c)) \/ ControlStep
BY DEF Next, ControlStep

-----------------------------------------------------------------------------
(* The invariant.                                                          *)

LEMMA InitInv == Init => ProcessorInv
<1> SUFFICES ASSUME Init PROVE ProcessorInv
  OBVIOUS
<1>1. TypeOK
  <2>1. panicked \in BOOLEAN /\ paused \in BOOLEAN
    BY Zenon DEF Init
  <2>2. jobQueue \in Seq(Jobs) /\ Len(jobQueue) <= QueueSize /\ results \in 0..QueueSize
    BY ProcessorAssumption DEF Init
  <2>3. /\ worker \in [Workers -> {"idle", "holding", "sleeping", "running", "sending", "exited"}]
        /\ job \in [Workers -> Jobs \cup {None}]
        /\ client \in [Clients -> {"idle", "waiting", "accepted"}]
    BY Zenon DEF Init
  <2>4. made \in [Clients -> 0..MaxJobs]
    BY ProcessorAssumption DEF Init
  <2> QED
    BY <2>1, <2>2, <2>3, <2>4, ProcessorAssumption DEF Init, TypeOK
<1>2. Queued = {} /\ Held = {} /\ executed = {} /\ accepted = {}
  BY DEF Init, Queued, Held
<1>3. Numbered /\ Accounted
  BY <1>2 DEF Init, Numbered, Accounted
<1>4. OnePlace
  BY <1>2 DEF Init, OnePlace
<1>5. NothingLost /\ NoSendOnClosedResults
  BY <1>2 DEF Init, NothingLost, NoSendOnClosedResults, ResultsClosed
<1> QED
  BY <1>1, <1>3, <1>4, <1>5 DEF ProcessorInv

LEMMA NextType ==
    ASSUME ProcessorInv, [Next]_vars
    PROVE  TypeOK'
<1> USE ProcessorAssumption DEF TypeOK
<1>0. TypeOK /\ Numbered /\ Accounted /\ OnePlace
  BY DEF ProcessorInv
<1>1. ASSUME NEW w \in Workers, Work(w) PROVE TypeOK'
  <2>1. CASE TakeJob(w)
    <3>1. Head(jobQueue) \in Jobs /\ Tail(jobQueue) \in Seq(Jobs) /\ Len(Tail(jobQueue)) = Len(jobQueue) - 1
      BY <1>0, <2>1, TailElements DEF TakeJob
    <3> QED
      BY <1>0, <2>1, <3>1 DEF TakeJob, WorkerGoes, submit, pause, stats
  <2>2. CASE ExitWorker(w)
    BY <1>0, <2>2 DEF ExitWorker, WorkerGoes, submit, pause, stats
  <2>3. CASE SleepPaused(w)
    BY <1>0, <2>3 DEF SleepPaused, WorkerGoes, submit, pause, stats
  <2>4. CASE WakePaused(w)
    BY <1>0, <2>4 DEF WakePaused, WorkerGoes, submit, pause, stats
  <2>5. CASE AbandonJob(w)
    BY <1>0, <2>5 DEF AbandonJob, WorkerGoes, submit, pause, stats
  <2>6. CASE StartJob(w)
    BY <1>0, <2>6, SMTT(20) DEF StartJob, WorkerGoes, submit, pause, stats
  <2>7. CASE ExecuteJob(w)
    <3>1. job[w] \in Jobs
      BY <1>0, <2>7 DEF Accounted, ExecuteJob, WorkerGoes
    <3> QED
      BY <1>0, <2>7, <3>1 DEF ExecuteJob, WorkerGoes, submit, pause, stats
  <2>8. CASE SendResult(w)
    BY <1>0, <2>8, SMTT(20) DEF SendResult, ResultsHaveRoom, WorkerGoes, submit, pause, stats
  <2> QED
    BY <1>1, <2>1, <2>2, <2>3, <2>4, <2>5, <2>6, <2>7, <2>8 DEF Work
<1>2. ASSUME NEW c \in Clients, Client(c) PROVE TypeOK'
  <2>1. jobQueue' \in Seq(Jobs) /\ Len(jobQueue') <= QueueSize /\ accepted' \subseteq Jobs
    <3>1. CASE UNCHANGED <<jobQueue, accepted>>
      BY <1>0, <3>1
    <3>2. ASSUME NEW j \in Jobs \ accepted, jobQueue' = Append(jobQueue, j),
                 Len(jobQueue) < QueueSize, accepted' = accepted \cup {j}
          PROVE  jobQueue' \in Seq(Jobs) /\ Len(jobQueue') <= QueueSize /\ accepted' \subseteq Jobs
      <4>1. jobQueue' \in Seq(Jobs) /\ Len(jobQueue') = Len(jobQueue) + 1
        BY <1>0, <3>2, AppendElements
      <4>2. Len(jobQueue) \in Nat
        BY <1>0
      <4> QED
        BY <1>0, <3>2, <4>1, <4>2
    <3> QED
      BY <1>0, <1>2, <3>1, <3>2, ClientStep
  <2>2. UNCHANGED <<phase, paused, pauses, results, worker, job, executed>>
    BY <1>0, <1>2, ClientStep DEF pause, pool
  <2>3. panicked' \in BOOLEAN
    BY <1>0, <1>2, Zenon DEF Client, Submit, SubmitWithTimeout, WaitEnds, Timeout, CountSubmitted,
       Accept, Panic, Reject
  <2>4. /\ client' \in [Clients -> {"idle", "waiting", "accepted"}]
        /\ made' \in [Clients -> 0..MaxJobs]
        /\ {submitted', completed', failed'} \subseteq Nat /\ {active', idle'} \subseteq Int
    <3>1. CASE Submit(c)
      <4>1. client' \in [Clients -> {"idle", "waiting", "accepted"}]
        BY <1>0, <3>1, Zenon DEF Submit, Accept, Panic, Reject
      <4>2. made' \in [Clients -> 0..MaxJobs]
        BY <1>0, <3>1 DEF Submit, Begin
      <4> QED
        BY <1>0, <3>1, <4>1, <4>2 DEF Submit, stats
    <3>2. CASE SubmitWithTimeout(c)
      <4>1. client' \in [Clients -> {"idle", "waiting", "accepted"}]
        BY <1>0, <3>2, Zenon DEF SubmitWithTimeout, Accept, Panic, Reject
      <4>2. made' \in [Clients -> 0..MaxJobs]
        BY <1>0, <3>2 DEF SubmitWithTimeout, Begin
      <4> QED
        BY <1>0, <3>2, <4>1, <4>2 DEF SubmitWithTimeout, stats
    <3>3. CASE WaitEnds(c)
      BY <1>0, <3>3 DEF WaitEnds, Accept, stats
    <3>4. CASE Timeout(c)
      BY <1>0, <3>4 DEF Timeout, stats
    <3>5. CASE CountSubmitted(c)
      BY <1>0, <3>5 DEF CountSubmitted, stats
    <3> QED
      BY <1>2, <3>1, <3>2, <3>3, <3>4, <3>5 DEF Client
  <2> QED
    BY <1>0, <2>1, <2>2, <2>3, <2>4
<1>3. CASE ControlStep
  <2>1. panicked' \in BOOLEAN /\ paused' \in BOOLEAN
    BY <1>0, <1>3, Zenon DEF ControlStep, CollectResult, Cancel, CloseQueue, CloseResults,
       Pause, Resume, vars, pause
  <2>2. pauses' \in 0..MaxPauses /\ results' \in 0..QueueSize
    BY <1>0, <1>3, SMTT(20) DEF ControlStep, CollectResult, Cancel, CloseQueue, CloseResults,
       Pause, Resume, vars, pause, pool
  <2>3. phase' \in {"running", "cancelled", "closed", "stopped"}
    BY <1>0, <1>3 DEF ControlStep, CollectResult, Cancel, CloseQueue, CloseResults,
       Pause, Resume, vars
  <2>4. UNCHANGED stats
    BY <1>3 DEF ControlStep, CollectResult, Cancel, CloseQueue, CloseResults, Pause, Resume,
       vars, stats
  <2>5. client' \in [Clients -> {"idle", "waiting", "accepted"}]
    BY <1>0, <1>3, ControlKeepsJobs
  <2> QED
    BY <1>0, <1>3, <2>1, <2>2, <2>3, <2>4, <2>5, ControlKeepsJobs DEF stats
<1> QED
  BY <1>1, <1>2, <1>3, StepCases

LEMMA NextNumbered ==
    ASSUME ProcessorInv, [Next]_vars
    PROVE  Numbered'
<1>0. TypeOK /\ Numbered
  BY DEF ProcessorInv
<1>1. ASSUME NEW w \in Workers, Work(w) PROVE Numbered'
  BY <1>0, <1>1, WorkKeepsClients DEF Numbered, Current
<1>2. ASSUME NEW c \in Clients, Client(c) PROVE Numbered'
  <2>1. \A d \in Clients : made[d] \in Nat /\ made'[d] \in Nat /\ made[d] <= made'[d]
    BY <1>0, <1>2 DEF TypeOK, Client, Submit, SubmitWithTimeout, WaitEnds, Timeout,
       CountSubmitted, Begin
  <2>2. \A d \in Clients : d # c => made'[d] = made[d] /\ client'[d] = client[d]
    BY <1>0, <1>2 DEF TypeOK, Client, Submit, SubmitWithTimeout, WaitEnds, Timeout,
       CountSubmitted, Begin, Accept, Panic, Reject
  <2>3. \A j \in accepted : j[1] \in Clients /\ j[2] \in Nat
    BY <1>0 DEF TypeOK, Jobs
  <2>4. \A j \in accepted' : j[2] <= made'[j[1]]
    <3>1. \A j \in accepted : j[2] <= made'[j[1]]
      BY <1>0, <2>1, <2>3 DEF Numbered
    <3>2. accepted' = accepted \/ \E j \in Jobs \ accepted :
              accepted' = accepted \cup {j} /\ j[1] = c /\ j[2] = made'[c]
      BY <1>0, <1>2, ClientStep
    <3> QED
      BY <2>1, <3>1, <3>2
  <2>5. client'[c] = "waiting" => made'[c] > 0 /\ <<c, made'[c]>> \notin accepted' /\ accepted' = accepted
    <3> SUFFICES ASSUME client'[c] = "waiting"
                 PROVE  made'[c] > 0 /\ <<c, made'[c]>> \notin accepted' /\ accepted' = accepted
      OBVIOUS
    <3>1. SubmitWithTimeout(c) \/ Submit(c)
      BY <1>0, <1>2 DEF TypeOK, Client, WaitEnds, Accept, Timeout, CountSubmitted
    <3>2. made'[c] = made[c] + 1 /\ accepted' = accepted
      BY <1>0, <3>1 DEF TypeOK, SubmitWithTimeout, Submit, Begin, Accept, Panic, Reject
    <3> QED
      BY <1>0, <2>1, <2>3, <3>2 DEF Numbered
  <2>6. \A d \in Clients : d # c /\ client'[d] = "waiting" =>
            made'[d] > 0 /\ <<d, made'[d]>> \notin accepted'
    <3>1. accepted' = accepted \/ \E j \in Jobs : accepted' = accepted \cup {j} /\ j[1] = c
      BY <1>0, <1>2, ClientStep
    <3> QED
      BY <1>0, <2>2, <3>1 DEF Numbered, Current
  <2> QED
    BY <2>4, <2>5, <2>6 DEF Numbered, Current
<1>3. CASE ControlStep
  BY <1>0, <1>3, ControlKeepsJobs DEF Numbered, Current, TypeOK
<1> QED
  BY <1>1, <1>2, <1>3, StepCases

LEMMA NextOnePlace ==
    ASSUME ProcessorInv, [Next]_vars
    PROVE  OnePlace' /\ Accounted'
<1>0. TypeOK /\ Numbered /\ Accounted /\ OnePlace
  BY DEF ProcessorInv
<1>1. None \notin Jobs
  BY ProcessorAssumption DEF Jobs
<1>2. ASSUME NEW w \in Workers, Work(w) PROVE OnePlace' /\ Accounted'
  <2>0. accepted' = accepted
    BY <1>2, WorkKeepsClients
  <2>1. CASE TakeJob(w)
    <3>1. /\ Head(jobQueue) \in Queued /\ Head(jobQueue) \in Jobs
          /\ Queued' = Queued \ {Head(jobQueue)}
          /\ \A i, k \in DOMAIN jobQueue' : i # k => jobQueue'[i] # jobQueue'[k]
      BY <1>0, <2>1, QueueShrinks DEF OnePlace, TakeJob
    <3>2. Head(jobQueue) \notin Held \cup executed /\ Head(jobQueue) \in accepted
      BY <1>0, <3>1 DEF OnePlace, Accounted
    <3>3. /\ worker' = [worker EXCEPT ![w] = "holding"]
          /\ job' = [job EXCEPT ![w] = Head(jobQueue)] /\ executed' = executed
          /\ worker[w] = "idle" /\ job[w] = None
      BY <1>0, <2>1 DEF TakeJob, WorkerGoes, Accounted
    <3>4. Held' = Held \cup {Head(jobQueue)}
      BY <1>0, <1>1, <3>1, <3>3 DEF Held, TypeOK
    <3>5. Accounted'
      BY <1>0, <1>1, <2>0, <3>1, <3>2, <3>3, <3>4 DEF Accounted, TypeOK
    <3>6. \A v, u \in Workers : v # u /\ job'[v] # None => job'[v] # job'[u]
      BY <1>0, <3>2, <3>3 DEF OnePlace, TypeOK, Held
    <3>7. Queued' \cap (Held' \cup executed') = {}
      BY <1>0, <3>1, <3>2, <3>3, <3>4 DEF OnePlace
    <3>8. \A u \in Workers : worker'[u] \in {"holding", "sleeping", "running"} => job'[u] \notin executed'
      BY <1>0, <3>2, <3>3 DEF OnePlace, TypeOK
    <3> QED
      BY <3>1, <3>5, <3>6, <3>7, <3>8 DEF OnePlace
  <2>2. ASSUME UNCHANGED <<jobQueue, job, executed>>,
               NEW s \in {"holding", "sleeping", "running"}, NEW r \in {"holding", "sleeping"},
               worker[w] = r, worker' = [worker EXCEPT ![w] = s]
        PROVE  OnePlace' /\ Accounted'
    <3>1. Queued' = Queued /\ Held' = Held
      BY <2>2 DEF Queued, Held
    <3> QED
      BY <1>0, <2>0, <2>2, <3>1 DEF OnePlace, Accounted, TypeOK
  <2>3. CASE ExitWorker(w)
    <3>1. Queued' = Queued /\ Held' = Held
      BY <2>3 DEF ExitWorker, Queued, Held
    <3> QED
      BY <1>0, <2>0, <2>3, <3>1 DEF ExitWorker, WorkerGoes, OnePlace, Accounted, TypeOK
  <2>4. CASE SleepPaused(w)
    BY <2>4, <2>2 DEF SleepPaused, WorkerGoes
  <2>5. CASE WakePaused(w)
    BY <2>5, <2>2 DEF WakePaused, WorkerGoes
  <2>6. CASE StartJob(w)
    BY <2>6, <2>2 DEF StartJob, WorkerGoes
  <2>7. ASSUME UNCHANGED <<jobQueue, executed>>, job' = [job EXCEPT ![w] = None],
               NEW s \in {"idle", "exited"}, worker' = [worker EXCEPT ![w] = s]
        PROVE  OnePlace' /\ Accounted'
    <3>1. Queued' = Queued /\ Held' \subseteq Held
      BY <1>0, <2>7 DEF Queued, Held, TypeOK
    <3>2. Accounted'
      BY <1>0, <2>0, <2>7, <3>1 DEF Accounted, TypeOK
    <3> QED
      BY <1>0, <2>7, <3>1, <3>2 DEF OnePlace, TypeOK
  <2>8. CASE AbandonJob(w)
    BY <2>8, <2>7 DEF AbandonJob, WorkerGoes
  <2>9. CASE SendResult(w)
    BY <2>9, <2>7 DEF SendResult, WorkerGoes
  <2>10. CASE ExecuteJob(w)
    <3>1. /\ worker[w] = "running" /\ worker' = [worker EXCEPT ![w] = "sending"]
          /\ UNCHANGED <<jobQueue, job>> /\ executed' = executed \cup {job[w]}
      BY <2>10 DEF ExecuteJob, WorkerGoes
    <3>2. Queued' = Queued /\ Held' = Held /\ job[w] \in Held
      BY <1>0, <3>1 DEF Queued, Held, Accounted
    <3>3. Accounted'
      BY <1>0, <2>0, <3>1, <3>2 DEF Accounted, TypeOK
    <3>4. Queued' \cap (Held' \cup executed') = {}
      BY <1>0, <3>1, <3>2 DEF OnePlace
    <3>5. \A u \in Workers : worker'[u] \in {"holding", "sleeping", "running"} => job'[u] \notin executed'
      BY <1>0, <3>1 DEF OnePlace, TypeOK, Accounted
    <3> QED
      BY <1>0, <3>1, <3>3, <3>4, <3>5 DEF OnePlace
  <2> QED
    BY <1>2, <2>1, <2>3, <2>4, <2>5, <2>6, <2>8, <2>9, <2>10 DEF Work
<1>3. ASSUME NEW c \in Clients, Client(c) PROVE OnePlace' /\ Accounted'
  <2>1. UNCHANGED <<worker, job, executed>> /\ Held' = Held
    BY <1>0, <1>3, ClientStep DEF pool, Held
  <2>2. CASE UNCHANGED <<jobQueue, accepted>>
    <3>1. Queued' = Queued
      BY <2>2 DEF Queued
    <3> QED
      BY <1>0, <2>1, <2>2, <3>1 DEF OnePlace, Accounted
  <2>3. ASSUME NEW j \in Jobs \ accepted, jobQueue' = Append(jobQueue, j),
               accepted' = accepted \cup {j}
        PROVE  OnePlace' /\ Accounted'
    <3>1. j \notin Queued \cup Held \cup executed
      BY <1>0, <2>3 DEF Accounted
    <3>2. /\ Queued' = Queued \cup {j}
          /\ \A i, k \in DOMAIN jobQueue' : i # k => jobQueue'[i] # jobQueue'[k]
      BY <1>0, <2>3, <3>1, QueueGrows DEF OnePlace
    <3> QED
      BY <1>0, <2>1, <2>3, <3>1, <3>2 DEF OnePlace, Accounted
  <2> QED
    BY <1>0, <1>3, <2>2, <2>3, ClientStep
<1>4. CASE ControlStep
  <2>1. UNCHANGED <<jobQueue, worker, job, executed, accepted>>
    BY <1>4, ControlKeepsJobs
  <2>2. Queued' = Queued /\ Held' = Held
    BY <2>1 DEF Queued, Held
  <2> QED
    BY <1>0, <2>1, <2>2 DEF OnePlace, Accounted
<1> QED
  BY <1>2, <1>3, <1>4, StepCases

LEMMA NextNothingLost ==
    ASSUME ProcessorInv, [Next]_vars
    PROVE  NothingLost'
<1>0. TypeOK /\ Numbered /\ Accounted /\ OnePlace /\ NothingLost
  BY DEF ProcessorInv
<1>1. None \notin Jobs
  BY ProcessorAssumption DEF Jobs
<1> SUFFICES ASSUME ~Cancelled' PROVE accepted' = Queued' \cup Held' \cup executed'
  BY DEF NothingLost
<1>2. ASSUME NEW w \in Workers, Work(w) PROVE accepted' = Queued' \cup Held' \cup executed'
  <2>0. ~Cancelled /\ accepted = Queued \cup Held \cup executed /\ accepted' = accepted
    BY <1>0, <1>2, WorkKeepsClients DEF Cancelled, NothingLost
  <2>1. CASE TakeJob(w)
    <3>1. /\ Head(jobQueue) \in Queued /\ Head(jobQueue) \in Jobs
          /\ Queued' = Queued \ {Head(jobQueue)}
      BY <1>0, <2>1, QueueShrinks DEF OnePlace, TakeJob
    <3>2. Held' = Held \cup {Head(jobQueue)} /\ executed' = executed
      BY <1>0, <1>1, <2>1, <3>1 DEF Held, TypeOK, TakeJob, WorkerGoes, Accounted
    <3> QED
      BY <2>0, <3>1, <3>2
  <2>2. CASE ExitWorker(w) \/ SleepPaused(w) \/ WakePaused(w) \/ StartJob(w)
    BY <2>0, <2>2 DEF ExitWorker, SleepPaused, WakePaused, StartJob, Queued, Held
  <2>3. CASE AbandonJob(w)
    BY <2>0, <2>3 DEF AbandonJob
  <2>4. CASE ExecuteJob(w)
    <3>1. Queued' = Queued /\ Held' = Held /\ executed' = executed \cup {job[w]} /\ job[w] \in Held
      BY <1>0, <2>4 DEF ExecuteJob, WorkerGoes, Queued, Held, Accounted
    <3> QED
      BY <2>0, <3>1
  <2>5. CASE SendResult(w)
    <3>1. Queued' = Queued /\ executed' = executed /\ job[w] \in executed
      BY <1>0, <2>5 DEF SendResult, WorkerGoes, Queued, Accounted
    <3>2. Held' \subseteq Held /\ Held \subseteq Held' \cup {job[w]}
      BY <1>0, <2>5 DEF SendResult, Held, TypeOK
    <3> QED
      BY <2>0, <3>1, <3>2
  <2> QED
    BY <1>2, <2>1, <2>2, <2>3, <2>4, <2>5 DEF Work
<1>3. ASSUME NEW c \in Clients, Client(c) PROVE accepted' = Queued' \cup Held' \cup executed'
  <2>1. executed' = executed /\ Held' = Held /\ ~Cancelled
    BY <1>0, <1>3, ClientStep DEF pool, Held, Cancelled
  <2>2. CASE UNCHANGED <<jobQueue, accepted>>
    BY <1>0, <2>1, <2>2 DEF NothingLost, Queued
  <2>3. ASSUME NEW j \in Jobs \ accepted, jobQueue' = Append(jobQueue, j),
               accepted' = accepted \cup {j}
        PROVE  accepted' = Queued' \cup Held' \cup executed'
    <3>1. Queued' = Queued \cup {j}
      BY <1>0, <2>3, QueueGrows
    <3> QED
      BY <1>0, <2>1, <2>3, <3>1 DEF NothingLost
  <2> QED
    BY <1>0, <1>3, <2>2, <2>3, ClientStep
<1>4. CASE ControlStep
  <2>1. UNCHANGED <<jobQueue, job, executed, accepted>> /\ ~Cancelled
    BY <1>4, ControlKeepsJobs
  <2> QED
    BY <1>0, <2>1 DEF NothingLost, Queued, Held
<1> QED
  BY <1>2, <1>3, <1>4, StepCases

LEMMA NextResultsOpen ==
    ASSUME ProcessorInv, [Next]_vars
    PROVE  NoSendOnClosedResults'
<1>0. TypeOK /\ NoSendOnClosedResults
  BY DEF ProcessorInv
<1>1. ASSUME NEW w \in Workers, Work(w) PROVE NoSendOnClosedResults'
  <2>1. worker[w] # "exited" /\ ResultsClosed' = ResultsClosed
    BY <1>1, WorkKeepsClients DEF ResultsClosed, Work, WorkerGoes, TakeJob, ExitWorker,
       SleepPaused, WakePaused, AbandonJob, StartJob, ExecuteJob, SendResult
  <2> QED
    BY <1>0, <2>1 DEF NoSendOnClosedResults
<1>2. ASSUME NEW c \in Clients, Client(c) PROVE NoSendOnClosedResults'
  BY <1>0, <1>2, ClientStep, <1>0 DEF ProcessorInv, NoSendOnClosedResults, ResultsClosed, pool
<1>3. CASE ControlStep
  BY <1>0, <1>3, ControlKeepsJobs DEF NoSendOnClosedResults, AllExited
<1> QED
  BY <1>1, <1>2, <1>3, StepCases

LEMMA ProcessorIsSafe == Spec => []ProcessorInv
<1>1. ProcessorInv /\ [Next]_vars => ProcessorInv'
  BY NextType, NextNumbered, NextOnePlace, NextNothingLost, NextResultsOpen DEF ProcessorInv
<1> QED
  BY InitInv, <1>1, PTL DEF Spec

-----------------------------------------------------------------------------
\* Every variable keeps its type: in particular the queues never hold more
\* than QueueSize.
THEOREM TypeCorrect == Spec => []TypeOK
<1>1. ProcessorInv => TypeOK
  BY DEF ProcessorInv
<1> QED
  BY ProcessorIsSafe, <1>1, PTL

\* Until Stop begins, no accepted job is lost, whatever clients, workers and
\* callers of Pause and Resume do.
THEOREM NoJobIsLost == Spec => []NothingLost
<1>1. ProcessorInv => NothingLost
  BY DEF ProcessorInv
<1> QED
  BY ProcessorIsSafe, <1>1, PTL

\* No job is in two places, so no job is run twice.
THEOREM NoJobRunsTwice == Spec => []OnePlace
<1>1. ProcessorInv => OnePlace
  BY DEF ProcessorInv
<1> QED
  BY ProcessorIsSafe, <1>1, PTL

\* Once Stop has closed the result queue, every worker is gone.
THEOREM ResultsOutliveWorkers == Spec => []NoSendOnClosedResults
<1>1. ProcessorInv => NoSendOnClosedResults
  BY DEF ProcessorInv
<1> QED
  BY ProcessorIsSafe, <1>1, PTL
-----------------------------------------------------------------------------
(* The counters.                                                           *)

\* The workers that active counts, and the submissions that submitted does
\* not count yet.
Busy      == {w \in Workers : worker[w] \in {"running", "sending"}}
Uncounted == {c \in Clients : client[c] = "accepted"}

LEMMA CountedSetsFinite ==
    ASSUME TypeOK
    PROVE  /\ IsFiniteSet(Busy) /\ IsFiniteSet(Uncounted)
           /\ IsFiniteSet(executed) /\ IsFiniteSet(accepted)
<1>1. IsFiniteSet(Jobs)
  <2>1. IsFiniteSet(1..MaxJobs)
    BY ProcessorAssumption, FS_Interval
  <2> QED
    BY <2>1, ProcessorAssumption, FS_Product DEF Jobs
<1>2. IsFiniteSet(executed) /\ IsFiniteSet(accepted)
  BY <1>1, FS_Subset DEF TypeOK
<1>3. Busy \in SUBSET Workers /\ Uncounted \in SUBSET Clients
  BY DEF Busy, Uncounted
<1>4. IsFiniteSet(Busy)
  BY <1>3, ProcessorAssumption, FS_Subset
<1>5. IsFiniteSet(Uncounted)
  BY <1>3, ProcessorAssumption, FS_Subset
<1> QED
  BY <1>2, <1>4, <1>5

\* What one more element, or one fewer, does to the size of a set.
LEMMA OneMore ==
    ASSUME NEW S, NEW x, IsFiniteSet(S), x \notin S
    PROVE  Cardinality(S) \in Nat /\ Cardinality(S \cup {x}) = Cardinality(S) + 1
BY FS_AddElement, FS_CardinalityType

LEMMA OneFewer ==
    ASSUME NEW S, NEW x, IsFiniteSet(S), x \in S
    PROVE  Cardinality(S) \in Nat /\ Cardinality(S \ {x}) = Cardinality(S) - 1
BY FS_RemoveElement, FS_CardinalityType

\* A worker is busy from StartJob to SendResult; ExecuteJob, in between, runs
\* a job that has not run before.
LEMMA WorkCounts ==
    ASSUME ProcessorInv, CountersAgree, NEW w \in Workers, Work(w)
    PROVE  /\ completed' + failed' = Cardinality(executed')
           /\ active' = Cardinality(Busy')
<1>0. TypeOK /\ Accounted /\ OnePlace
  BY DEF ProcessorInv
<1>1. /\ completed + failed = Cardinality(executed) /\ active = Cardinality(Busy)
      /\ completed \in Nat /\ failed \in Nat
  BY <1>0 DEF CountersAgree, Busy, TypeOK
<1>2. CASE TakeJob(w) \/ ExitWorker(w) \/ SleepPaused(w) \/ WakePaused(w) \/ AbandonJob(w)
  <2>1. UNCHANGED <<completed, failed, active, executed>>
    BY <1>2 DEF TakeJob, ExitWorker, SleepPaused, WakePaused, AbandonJob, stats
  <2>2. Busy' = Busy
    BY <1>0, <1>2 DEF Busy, TypeOK, TakeJob, ExitWorker, SleepPaused, WakePaused, AbandonJob,
       WorkerGoes
  <2> QED
    BY <1>1, <2>1, <2>2
<1>3. CASE StartJob(w)
  <2>1. UNCHANGED <<completed, failed, executed>> /\ active' = active + 1
    BY <1>3 DEF StartJob
  <2>2. w \notin Busy /\ Busy' = Busy \cup {w}
    BY <1>0, <1>3 DEF Busy, TypeOK, StartJob, WorkerGoes
  <2> QED
    BY <1>0, <1>1, <2>1, <2>2, CountedSetsFinite, OneMore
<1>4. CASE ExecuteJob(w)
  <2>1. /\ executed' = executed \cup {job[w]} /\ job[w] \notin executed
        /\ completed' + failed' = completed + failed + 1 /\ active' = active
    BY <1>0, <1>1, <1>4 DEF ExecuteJob, WorkerGoes, OnePlace
  <2>2. Busy' = Busy
    BY <1>0, <1>4 DEF Busy, TypeOK, ExecuteJob, WorkerGoes
  <2> QED
    BY <1>0, <1>1, <2>1, <2>2, CountedSetsFinite, OneMore
<1>5. CASE SendResult(w)
  <2>1. UNCHANGED <<completed, failed, executed>> /\ active' = active - 1
    BY <1>5 DEF SendResult
  <2>2. w \in Busy /\ Busy' = Busy \ {w}
    BY <1>0, <1>5 DEF Busy, TypeOK, SendResult, WorkerGoes
  <2> QED
    BY <1>0, <1>1, <2>1, <2>2, CountedSetsFinite, OneFewer
<1> QED
  BY <1>2, <1>3, <1>4, <1>5 DEF Work

\* A client whose job was accepted is uncounted until it counts the job.
LEMMA ClientCounts ==
    ASSUME ProcessorInv, CountersAgree, NEW c \in Clients, Client(c)
    PROVE  submitted' + Cardinality(Uncounted') = Cardinality(accepted')
<1>0. TypeOK /\ Numbered
  BY DEF ProcessorInv
<1>1. /\ submitted + Cardinality(Uncounted) = Cardinality(accepted)
      /\ submitted \in Nat /\ Cardinality(Uncounted) \in Nat
  BY <1>0, CountedSetsFinite, FS_CardinalityType DEF CountersAgree, Uncounted, TypeOK
<1>2. CASE CountSubmitted(c)
  <2>1. accepted' = accepted /\ submitted' = submitted + 1
    BY <1>2 DEF CountSubmitted
  <2>2. c \in Uncounted /\ Uncounted' = Uncounted \ {c}
    BY <1>0, <1>2 DEF Uncounted, TypeOK, CountSubmitted
  <2> QED
    BY <1>0, <1>1, <2>1, <2>2, CountedSetsFinite, OneFewer
<1>3. CASE Submit(c) \/ SubmitWithTimeout(c) \/ WaitEnds(c) \/ Timeout(c)
  <2>1. submitted' = submitted /\ c \notin Uncounted
    BY <1>3 DEF Submit, SubmitWithTimeout, WaitEnds, Timeout, Begin, stats, Uncounted
  <2>2. CASE accepted' = accepted /\ Uncounted' = Uncounted
    BY <1>1, <2>1, <2>2
  <2>3. ASSUME NEW j \in Jobs \ accepted, accepted' = accepted \cup {j},
               client' = [client EXCEPT ![c] = "accepted"]
        PROVE  submitted' + Cardinality(Uncounted') = Cardinality(accepted')
    <3>1. Uncounted' = Uncounted \cup {c}
      BY <1>0, <2>3 DEF Uncounted, TypeOK
    <3>2. Cardinality(Uncounted') = Cardinality(Uncounted) + 1
      BY <1>0, <2>1, <3>1, CountedSetsFinite, OneMore
    <3>3. Cardinality(accepted') = Cardinality(accepted) + 1
      BY <1>0, <2>3, CountedSetsFinite, OneMore
    <3> QED
      BY <1>1, <2>1, <3>2, <3>3
  <2>4. ASSUME NEW s \in {"idle", "waiting"}, client' = [client EXCEPT ![c] = s]
        PROVE  Uncounted' = Uncounted
    BY <1>0, <2>1, <2>4 DEF Uncounted, TypeOK
  <2> QED
    BY <1>0, <1>3, <2>2, <2>3, <2>4, ClientStep DEF Client
<1> QED
  BY <1>2, <1>3 DEF Client

LEMMA NextCounts ==
    ASSUME ProcessorInv, CountersAgree, [Next]_vars
    PROVE  CountersAgree'
<1>0. TypeOK
  BY DEF ProcessorInv
<1>1. ASSUME NEW w \in Workers, Work(w) PROVE CountersAgree'
  <2>1. UNCHANGED <<submitted, accepted, client>>
    BY <1>1, WorkKeepsClients
  <2> QED
    BY <1>1, <2>1, WorkCounts DEF CountersAgree, Busy
<1>2. ASSUME NEW c \in Clients, Client(c) PROVE CountersAgree'
  <2>1. UNCHANGED <<worker, executed>>
    BY <1>2, ClientStep DEF ProcessorInv, pool
  <2>2. UNCHANGED <<completed, failed, active>>
    BY <1>2 DEF Client, Submit, SubmitWithTimeout, WaitEnds, Timeout, CountSubmitted, stats
  <2> QED
    BY <1>2, <2>1, <2>2, ClientCounts DEF CountersAgree, Uncounted
<1>3. CASE ControlStep
  <2>1. UNCHANGED <<worker, executed, accepted>>
    BY <1>3, ControlKeepsJobs
  <2>2. UNCHANGED <<submitted, completed, failed, active>>
    BY <1>3 DEF ControlStep, CollectResult, Cancel, CloseQueue, CloseResults, Pause, Resume,
       vars, stats
  <2>3. Uncounted' = Uncounted
    BY <1>0, <1>3, ControlKeepsJobs DEF Uncounted, TypeOK
  <2> QED
    BY <2>1, <2>2, <2>3 DEF CountersAgree, Uncounted
<1> QED
  BY <1>1, <1>2, <1>3, StepCases

\* However clients, workers and Stop interleave, the counters of the statistics
\* agree with the jobs: each run is counted once, as completed or as failed,
\* active is the number of busy workers, and JobsSubmitted lags behind the
\* accepted jobs by those whose clients have not counted them yet.
THEOREM CountersAreRight == Spec => []CountersAgree
<1>1. ASSUME Init PROVE CountersAgree
  <2>1. Busy = {} /\ Uncounted = {} /\ executed = {} /\ accepted = {}
    BY <1>1 DEF Init, Busy, Uncounted
  <2>2. /\ Cardinality(Busy) = 0 /\ Cardinality(Uncounted) = 0
        /\ Cardinality(executed) = 0 /\ Cardinality(accepted) = 0
    BY <2>1, FS_EmptySet
  <2>3. completed + failed = 0 /\ active = 0 /\ submitted + 0 = 0
    BY <1>1 DEF Init
  <2> QED
    BY <2>2, <2>3 DEF CountersAgree, Busy, Uncounted
<1>2. ProcessorInv /\ CountersAgree /\ [Next]_vars => CountersAgree'
  BY NextCounts
<1> QED
  BY <1>1, <1>2, ProcessorIsSafe, PTL DEF Spec
-----------------------------------------------------------------------------
(* The processor implements JobService.                                    *)

stage  == IF panicked THEN "broken" ELSE phase
states == [j \in Jobs |-> StateOf(j)]

\* How far a job is that a worker has.
StageOf(s) ==
    IF s \in {"holding", "sleeping"} THEN "accepted"
    ELSE IF s = "running" THEN "running" ELSE "ran"

\* A job is new, queued, at one worker, or gone.
Staged(j) ==
    /\ j \notin accepted => StateOf(j) = "new"
    /\ j \in Queued => StateOf(j) = "accepted"
    /\ \A w \in Workers : job[w] = j => StateOf(j) = StageOf(worker[w])
    /\ j \in accepted \ (Queued \cup Held) =>
          StateOf(j) = IF j \in executed THEN "finished" ELSE "dropped"

LEMMA StationsOfHeld ==
    ASSUME ProcessorInv, NEW w \in Workers, job[w] # None
    PROVE  /\ Stations(job[w]) = {worker[w]}
           /\ worker[w] \in {"holding", "sleeping", "running", "sending"}
           /\ job[w] \in accepted /\ job[w] \notin Queued
<1>0. TypeOK /\ Accounted /\ OnePlace
  BY DEF ProcessorInv
<1>1. {v \in Workers : job[v] = job[w]} = {w}
  BY <1>0 DEF OnePlace
<1>2. worker[w] \in {"holding", "sleeping", "running", "sending"}
  BY <1>0 DEF TypeOK, Accounted
<1>3. job[w] \in Held
  BY DEF Held
<1> QED
  BY <1>0, <1>1, <1>2, <1>3 DEF Stations, Accounted, OnePlace

LEMMA EveryJobStaged == ProcessorInv => \A j \in Jobs : Staged(j)
<1> SUFFICES ASSUME ProcessorInv, NEW j \in Jobs PROVE Staged(j)
  OBVIOUS
<1>0. Accounted /\ OnePlace /\ j # None
  BY ProcessorAssumption DEF ProcessorInv, Jobs
<1>1. ASSUME NEW w \in Workers, job[w] = j PROVE StateOf(j) = StageOf(worker[w])
  BY <1>0, <1>1, StationsOfHeld DEF StateOf, StageOf
<1>2. j \notin Held => Stations(j) = {}
  BY <1>0 DEF Held, Stations
<1> QED
  BY <1>0, <1>1, <1>2 DEF Staged, StateOf, Accounted

LEMMA EveryJobStagedNext == ProcessorInv' => (\A j \in Jobs : Staged(j))'
BY EveryJobStaged, PTL

\* A step that one worker takes touches only the job it had or has then.
LEMMA OthersKept ==
    ASSUME ProcessorInv, NEW w \in Workers, NEW k \in Jobs, k # job[w], k # job'[w],
           job' \in [Workers -> Jobs \cup {None}],
           \A v \in Workers \ {w} : job'[v] = job[v] /\ worker'[v] = worker[v],
           k \in accepted' <=> k \in accepted, k \in Queued' <=> k \in Queued,
           k \in executed' <=> k \in executed
    PROVE  StateOf(k)' = StateOf(k)
<1>1. {v \in Workers : job'[v] = k} = {v \in Workers : job[v] = k} /\ w \notin {v \in Workers : job[v] = k}
  OBVIOUS
<1>2. Stations(k)' = Stations(k)
  BY <1>1 DEF Stations
<1> QED
  BY <1>2 DEF StateOf

LEMMA JobsKept ==
    ASSUME \A j \in Jobs : StateOf(j)' = StateOf(j)
    PROVE  states' = states
BY DEF states

LEMMA JobMoves ==
    ASSUME NEW j \in Jobs, NEW from, NEW to, from # to,
           StateOf(j) = from, StateOf(j)' = to,
           \A k \in Jobs \ {j} : StateOf(k)' = StateOf(k), UNCHANGED stage
    PROVE  /\ states'[j] # states[j] /\ states[j] = from
           /\ states' = [states EXCEPT ![j] = to] /\ UNCHANGED stage
<1>1. states[j] = from /\ states'[j] = to
  BY DEF states
<1>2. \A k \in Jobs : states'[k] = [states EXCEPT ![j] = to][k]
  BY <1>1 DEF states
<1>3. states' = [states EXCEPT ![j] = to]
  BY <1>2 DEF states
<1> QED
  BY <1>1, <1>3

\* What a worker does to the job it has.
LEMMA WorkServes ==
    ASSUME ProcessorInv, ProcessorInv', NEW w \in Workers, Work(w)
    PROVE  [Service!Next]_<<stage, states>>
<1>0. /\ TypeOK /\ TypeOK' /\ Accounted /\ OnePlace /\ NoSendOnClosedResults /\ Accounted' /\ OnePlace'
  BY DEF ProcessorInv
<1>1. ~panicked /\ UNCHANGED <<phase, panicked, accepted, stage>> /\ stage = phase
  BY WorkKeepsClients DEF stage, Work, WorkerGoes, TakeJob, ExitWorker, SleepPaused, WakePaused,
     AbandonJob, StartJob, ExecuteJob, SendResult
<1>2. (\A j \in Jobs : Staged(j)) /\ (\A j \in Jobs : Staged(j))'
  BY EveryJobStaged, EveryJobStagedNext
<1>3. None \notin Jobs
  BY ProcessorAssumption DEF Jobs
<1>4. worker[w] # "exited" => phase # "stopped"
  BY <1>0 DEF NoSendOnClosedResults, ResultsClosed
<1>5. \A v \in Workers \ {w} : job'[v] = job[v] /\ worker'[v] = worker[v]
  BY <1>0 DEF TypeOK, Work, WorkerGoes, TakeJob, ExitWorker, SleepPaused, WakePaused,
     AbandonJob, StartJob, ExecuteJob, SendResult
<1>6. job[w] \in Jobs \cup {None} /\ job' \in [Workers -> Jobs \cup {None}]
  BY <1>0 DEF TypeOK
<1>7. CASE TakeJob(w)
  <2>0. PICK j : j = Head(jobQueue)
    OBVIOUS
  <2>1. /\ j \in Queued /\ j \in Jobs /\ Queued' = Queued \ {j}
    BY <1>0, <1>7, <2>0, QueueShrinks DEF TakeJob, OnePlace
  <2>2. job'[w] = j /\ worker'[w] = "holding" /\ job[w] = None /\ executed' = executed
    BY <1>0, <1>7, <2>0 DEF TypeOK, TakeJob, WorkerGoes, Accounted
  <2>3. StateOf(j) = "accepted" /\ StateOf(j)' = "accepted"
    BY <1>2, <2>1, <2>2 DEF Staged, StageOf
  <2>4. \A k \in Jobs : StateOf(k)' = StateOf(k)
    BY <1>1, <1>3, <1>5, <1>6, <2>1, <2>2, <2>3, OthersKept
  <2> QED
    BY <1>1, <2>4, JobsKept
<1>8. CASE ExitWorker(w)
  <2>1. job'[w] = job[w] /\ job[w] = None /\ UNCHANGED <<executed, Queued>>
    BY <1>0, <1>8 DEF TypeOK, ExitWorker, WorkerGoes, Accounted, Queued
  <2>2. \A k \in Jobs : StateOf(k)' = StateOf(k)
    BY <1>1, <1>3, <1>5, <1>6, <2>1, OthersKept
  <2> QED
    BY <1>1, <2>2, JobsKept
<1>9. ASSUME NEW j, j = job[w],
             worker[w] \in {"holding", "sleeping", "running", "sending"},
             job' = job \/ job'[w] = None, UNCHANGED Queued,
             \A k \in Jobs : k # j => (k \in executed' <=> k \in executed)
      PROVE  /\ j \in Jobs /\ \A k \in Jobs \ {j} : StateOf(k)' = StateOf(k)
             /\ StateOf(j) = StageOf(worker[w])
             /\ job' = job => StateOf(j)' = StageOf(worker'[w])
             /\ job'[w] = None =>
                   StateOf(j)' = IF j \in executed' THEN "finished" ELSE "dropped"
  <2>1. j \in Jobs
    BY <1>0, <1>6, <1>9 DEF Accounted
  <2>2. \A k \in Jobs \ {j} : StateOf(k)' = StateOf(k)
    BY <1>1, <1>3, <1>5, <1>6, <1>9, OthersKept
  <2>3. StateOf(j) = StageOf(worker[w])
    BY <1>2, <1>9, <2>1 DEF Staged
  <2>4. job' = job => StateOf(j)' = StageOf(worker'[w])
    BY <1>2, <1>9, <2>1 DEF Staged
  <2>5. ASSUME job'[w] = None
        PROVE  StateOf(j)' = IF j \in executed' THEN "finished" ELSE "dropped"
    <3>1. j \in accepted' /\ j \notin Queued'
      BY <1>1, <1>3, <1>9, <2>1, StationsOfHeld
    <3>2. \A v \in Workers : job'[v] # j
      BY <1>0, <1>3, <1>5, <1>9, <2>1, <2>5 DEF OnePlace
    <3>3. j \notin Held'
      BY <3>2 DEF Held
    <3> QED
      BY <1>2, <2>1, <3>1, <3>3 DEF Staged
  <2> QED
    BY <2>1, <2>2, <2>3, <2>4, <2>5
<1>10. CASE SleepPaused(w) \/ WakePaused(w)
  <2>0. PICK j : j = job[w]
    OBVIOUS
  <2>1. /\ worker[w] \in {"holding", "sleeping"} /\ worker'[w] \in {"holding", "sleeping"}
        /\ job' = job /\ UNCHANGED <<executed, Queued>>
    BY <1>0, <1>10 DEF TypeOK, SleepPaused, WakePaused, WorkerGoes, Queued
  <2>2. \A k \in Jobs : StateOf(k)' = StateOf(k)
    BY <1>9, <2>0, <2>1 DEF StageOf
  <2> QED
    BY <1>1, <2>2, JobsKept
<1>11. CASE AbandonJob(w)
  <2>0. PICK j : j = job[w]
    OBVIOUS
  <2>1. /\ worker[w] = "sleeping" /\ job'[w] = None /\ UNCHANGED <<executed, Queued>>
        /\ j \notin executed /\ phase \in {"cancelled", "closed"}
    BY <1>0, <1>4, <1>11, <2>0 DEF TypeOK, AbandonJob, WorkerGoes, Queued, OnePlace, Cancelled
  <2>2. /\ j \in Jobs /\ StateOf(j) = "accepted" /\ StateOf(j)' = "dropped"
        /\ \A k \in Jobs \ {j} : StateOf(k)' = StateOf(k)
    BY <1>9, <2>0, <2>1 DEF StageOf
  <2>3. Service!Drop(j) /\ states'[j] # states[j]
    BY <1>1, <2>1, <2>2, JobMoves DEF Service!Drop, Service!Moves, states, stage
  <2> QED
    BY <2>2, <2>3 DEF Service!Next, Service!JobStep, states
<1>12. CASE StartJob(w)
  <2>0. PICK j : j = job[w]
    OBVIOUS
  <2>1. /\ worker[w] = "holding" /\ worker'[w] = "running" /\ job' = job
        /\ UNCHANGED <<executed, Queued>> /\ phase \in {"running", "cancelled", "closed"}
    BY <1>0, <1>4, <1>12 DEF TypeOK, StartJob, WorkerGoes, Queued
  <2>2. /\ j \in Jobs /\ StateOf(j) = "accepted" /\ StateOf(j)' = "running"
        /\ \A k \in Jobs \ {j} : StateOf(k)' = StateOf(k)
    BY <1>9, <2>0, <2>1 DEF StageOf
  <2>3. Service!Begin(j) /\ states'[j] # states[j]
    BY <1>1, <2>1, <2>2, JobMoves DEF Service!Begin, Service!Moves, states, stage
  <2> QED
    BY <2>2, <2>3 DEF Service!Next, Service!JobStep, states
<1>13. CASE ExecuteJob(w)
  <2>0. PICK j : j = job[w]
    OBVIOUS
  <2>1. /\ worker[w] = "running" /\ worker'[w] = "sending" /\ job' = job
        /\ executed' = executed \cup {j} /\ UNCHANGED Queued
    BY <1>0, <1>13, <2>0 DEF TypeOK, ExecuteJob, WorkerGoes, Queued
  <2>2. /\ j \in Jobs /\ StateOf(j) = "running" /\ StateOf(j)' = "ran"
        /\ \A k \in Jobs \ {j} : StateOf(k)' = StateOf(k)
    BY <1>9, <2>0, <2>1 DEF StageOf
  <2>3. Service!End(j) /\ states'[j] # states[j]
    BY <1>1, <2>1, <2>2, JobMoves DEF Service!End, Service!Moves, states, stage
  <2> QED
    BY <2>2, <2>3 DEF Service!Next, Service!JobStep, states
<1>14. CASE SendResult(w)
  <2>0. PICK j : j = job[w]
    OBVIOUS
  <2>1. /\ worker[w] = "sending" /\ job'[w] = None /\ UNCHANGED <<executed, Queued>>
        /\ j \in executed
    BY <1>0, <1>14, <2>0 DEF TypeOK, SendResult, WorkerGoes, Queued, Accounted
  <2>2. /\ j \in Jobs /\ StateOf(j) = "ran" /\ StateOf(j)' = "finished"
        /\ \A k \in Jobs \ {j} : StateOf(k)' = StateOf(k)
    BY <1>9, <2>0, <2>1 DEF StageOf
  <2>3. Service!Report(j) /\ states'[j] # states[j]
    BY <1>1, <2>1, <2>2, JobMoves DEF Service!Report, Service!Moves, states, stage
  <2> QED
    BY <2>2, <2>3 DEF Service!Next, Service!JobStep, states
<1> QED
  BY <1>7, <1>8, <1>10, <1>11, <1>12, <1>13, <1>14 DEF Work

\* A call of Submit is accepted, refused, or hits the closed queue.
LEMMA ClientOutcomes ==
    ASSUME TypeOK, Numbered, NEW c \in Clients, Client(c)
    PROVE  /\ ~panicked /\ UNCHANGED <<phase, pool>>
           /\ \/ UNCHANGED <<jobQueue, accepted, panicked>>
              \/ UNCHANGED <<jobQueue, accepted>> /\ QueueClosed /\ panicked' = TRUE
              \/ ~QueueClosed /\ UNCHANGED panicked /\ \E j \in Jobs \ accepted :
                    jobQueue' = Append(jobQueue, j) /\ accepted' = accepted \cup {j}
<1>1. client[c] = "idle" /\ made[c] < MaxJobs =>
          <<c, made[c] + 1>> \in Jobs \ accepted
  BY ProcessorAssumption DEF TypeOK, Numbered, Jobs
<1>2. client[c] = "waiting" => Current(c) \in Jobs \ accepted
  BY ProcessorAssumption DEF TypeOK, Numbered, Jobs, Current
<1>3. CASE Submit(c)
  BY <1>1, <1>3 DEF Submit, Begin, Accept, Panic, Reject
<1>4. CASE SubmitWithTimeout(c)
  BY <1>1, <1>4 DEF SubmitWithTimeout, Begin, Accept, Panic, Reject
<1>5. CASE WaitEnds(c)
  BY <1>2, <1>5 DEF WaitEnds, Accept
<1>6. CASE Timeout(c) \/ CountSubmitted(c)
  BY <1>6 DEF Timeout, CountSubmitted
<1> QED
  BY <1>3, <1>4, <1>5, <1>6 DEF Client

LEMMA ClientServes ==
    ASSUME ProcessorInv, ProcessorInv', NEW c \in Clients, Client(c)
    PROVE  [Service!Next]_<<stage, states>>
<1>0. TypeOK /\ Numbered /\ Accounted /\ OnePlace /\ TypeOK'
  BY DEF ProcessorInv
<1>1. ~panicked /\ UNCHANGED <<phase, worker, job, executed>>
  BY <1>0, ClientOutcomes DEF pool
<1>2. CASE UNCHANGED <<jobQueue, accepted, panicked>>
  <2>1. \A k \in Jobs : StateOf(k)' = StateOf(k)
    BY <1>1, <1>2 DEF StateOf, Stations, Queued
  <2> QED
    BY <1>1, <1>2, <2>1, JobsKept DEF stage
<1>3. CASE UNCHANGED <<jobQueue, accepted>> /\ QueueClosed /\ panicked' = TRUE
  <2>1. \A k \in Jobs : StateOf(k)' = StateOf(k)
    BY <1>1, <1>3 DEF StateOf, Stations, Queued
  <2>2. states' = states
    BY <2>1, JobsKept
  <2>3. stage = phase /\ stage' = "broken" /\ phase \in {"closed", "stopped"}
    BY <1>1, <1>3 DEF stage, QueueClosed
  <2>4. Service!Break
    BY <2>2, <2>3 DEF Service!Break, stage, states
  <2> QED
    BY <2>4 DEF Service!Next
<1>4. ASSUME ~QueueClosed, UNCHANGED panicked, NEW j \in Jobs \ accepted,
             jobQueue' = Append(jobQueue, j), accepted' = accepted \cup {j}
      PROVE  [Service!Next]_<<stage, states>>
  <2>1. Queued' = Queued \cup {j}
    BY <1>0, <1>4, QueueGrows
  <2>2. \A k \in Jobs \ {j} : StateOf(k)' = StateOf(k)
    <3> TAKE k \in Jobs \ {j}
    <3>1. (k \in Queued' <=> k \in Queued) /\ (k \in accepted' <=> k \in accepted)
      BY <1>4, <2>1
    <3>2. Stations(k)' = Stations(k)
      BY <1>1 DEF Stations
    <3> QED
      BY <1>1, <3>1, <3>2 DEF StateOf
  <2>3. StateOf(j) = "new" /\ StateOf(j)' = "accepted"
    BY <1>4, <2>1 DEF StateOf
  <2>4. stage = phase /\ stage' = stage /\ phase \in {"running", "cancelled"}
    BY <1>0, <1>1, <1>4 DEF stage, QueueClosed, TypeOK
  <2>5. /\ states'[j] # states[j] /\ states[j] = "new"
        /\ states' = [states EXCEPT ![j] = "accepted"] /\ UNCHANGED stage
    BY <2>2, <2>3, <2>4, JobMoves
  <2>6. Service!Accept(j)
    BY <2>4, <2>5 DEF Service!Accept, Service!Moves, stage, states
  <2> QED
    BY <2>5, <2>6 DEF Service!Next, Service!JobStep, states
<1> QED
  BY <1>0, <1>2, <1>3, <1>4, ClientOutcomes

\* Stop goes on once every worker has left, so no job is running or ran and
\* is not reported.
LEMMA ControlServes ==
    ASSUME ProcessorInv, ProcessorInv', ControlStep
    PROVE  [Service!Next]_<<stage, states>>
<1>0. TypeOK /\ Accounted
  BY DEF ProcessorInv
<1>1. \A k \in Jobs : StateOf(k)' = StateOf(k)
  BY ControlKeepsJobs DEF StateOf, Stations, Queued
<1>2. states' = states
  BY <1>1, JobsKept
<1>3. CASE UNCHANGED <<panicked, phase>>
  BY <1>2, <1>3 DEF stage
<1>4. CASE Cancel
  <2>1. Service!Cancel
    BY <1>2, <1>4 DEF Cancel, Service!Cancel, stage, states
  <2> QED
    BY <2>1 DEF Service!Next, Service!Stop
<1>5. CASE CloseQueue
  <2>1. Service!Close
    BY <1>2, <1>5 DEF CloseQueue, Service!Close, stage, states
  <2> QED
    BY <2>1 DEF Service!Next, Service!Stop
<1>6. CASE CloseResults
  <2>1. \A w \in Workers : job[w] = None
    BY <1>0, <1>6 DEF CloseResults, AllExited, Accounted
  <2>2. \A j \in Jobs : states[j] \notin {"running", "ran"}
    <3> TAKE j \in Jobs
    <3>1. Stations(j) = {}
      BY <2>1, ProcessorAssumption DEF Stations, Jobs
    <3> QED
      BY <3>1 DEF states, StateOf
  <2>3. Service!Finish
    BY <1>2, <1>6, <2>2 DEF CloseResults, Service!Finish, stage, states
  <2> QED
    BY <2>3 DEF Service!Next, Service!Stop
<1> QED
  BY <1>3, <1>4, <1>5, <1>6
     DEF ControlStep, CollectResult, Pause, Resume, vars

LEMMA InitServes == Init => Service!Init
BY DEF Init, Service!Init, StateOf

\* Every behaviour of the processor, seen through how far Stop and each job have
\* come, is a behaviour of JobService: for any number of workers, clients, jobs
\* and calls of Pause, and any size of the queues.
THEOREM ProcessorServesJobs == Spec => ImplementsJobService
<1>1. ProcessorInv /\ [Next]_vars => ProcessorInv'
  BY NextType, NextNumbered, NextOnePlace, NextNothingLost, NextResultsOpen DEF ProcessorInv
<1>2. ProcessorInv /\ [Next]_vars => [Service!Next]_Service!servicevars
  BY <1>1, StepCases, WorkServes, ClientServes, ControlServes
     DEF Service!servicevars, stage, states
<1>3. Spec => Service!Spec
  BY InitInv, InitServes, <1>1, <1>2, PTL DEF Spec, Service!Spec
<1> QED
  BY <1>3 DEF ImplementsJobService

-----------------------------------------------------------------------------
(* Nobody waits in a circle, and Stop comes to its end.                    *)

\* The guards of a worker's steps, without those that a pause repeats.
WorkerGoesOn(w) ==
    \/ worker[w] = "idle" /\ (jobQueue # <<>> \/ Cancelled)
    \/ worker[w] \in {"holding", "sleeping"} /\ (~paused \/ Cancelled)
    \/ worker[w] = "running"
    \/ worker[w] = "sending" /\ (ResultsHaveRoom \/ Cancelled)

ProcessorGoesOn ==
    \/ \E w \in Workers : WorkerGoesOn(w)
    \/ results > 0
    \/ phase = "cancelled" \/ (phase = "closed" /\ AllExited)

\* Workers stay until Stop begins.
WorkersStay == ~Cancelled => \A w \in Workers : worker[w] # "exited"

LEMMA WorkersStayKept ==
    ASSUME TypeOK, WorkersStay, [Next]_vars
    PROVE  WorkersStay'
<1> USE DEF WorkersStay, Cancelled
<1>1. ASSUME NEW w \in Workers, Work(w) PROVE WorkersStay'
  BY <1>1 DEF Work, TakeJob, ExitWorker, SleepPaused, WakePaused, AbandonJob, StartJob,
              ExecuteJob, SendResult, WorkerGoes, TypeOK
<1>2. ASSUME NEW c \in Clients, Client(c) PROVE WorkersStay'
  BY <1>2 DEF Client, Submit, SubmitWithTimeout, WaitEnds, Timeout, CountSubmitted, pool
<1>3. CASE CollectResult \/ Cancel \/ CloseQueue \/ CloseResults \/ Pause \/ Resume \/ UNCHANGED vars
  BY <1>3 DEF CollectResult, Cancel, CloseQueue, CloseResults, Pause, Resume, vars, pool
<1> QED
  BY <1>1, <1>2, <1>3 DEF Next

\* A processor with workers never blocks on its queues: until every accepted job
\* has run, Stop has returned or a call of Submit after it has panicked, somebody
\* can go on who is not waiting for Resume.  From the start of Stop a pause holds
\* nobody up either.
THEOREM ProcessorNeverStuck ==
    ASSUME Workers # {}
    PROVE  Spec =>
               [](\/ ProcessorGoesOn \/ panicked \/ phase = "stopped"
                  \/ phase = "running" /\ (paused \/ accepted \subseteq executed))
<1> DEFINE Through ==
               \/ ProcessorGoesOn \/ panicked \/ phase = "stopped"
               \/ phase = "running" /\ (paused \/ accepted \subseteq executed)
<1>0. PICK v \in Workers : TRUE
  OBVIOUS
<1>1. ASSUME ProcessorInv, WorkersStay, ~ProcessorGoesOn, phase # "stopped"
      PROVE  phase = "running" /\ (paused \/ accepted \subseteq executed)
  <2>0. /\ TypeOK /\ Accounted /\ NothingLost /\ QueueSize \in Nat \ {0}
        /\ \A w \in Workers : ~WorkerGoesOn(w)
    BY <1>1, ProcessorAssumption DEF ProcessorInv, ProcessorGoesOn
  <2>1. results = 0 /\ ResultsHaveRoom
    BY <1>1, <2>0 DEF ProcessorGoesOn, TypeOK, ResultsHaveRoom
  <2>2. ASSUME Cancelled PROVE FALSE
    <3>1. phase = "closed"
      BY <1>1, <2>0, <2>2 DEF ProcessorGoesOn, TypeOK, Cancelled
    <3>2. AllExited
      BY <2>0, <2>2 DEF WorkerGoesOn, TypeOK, AllExited
    <3> QED
      BY <1>1, <3>1, <3>2 DEF ProcessorGoesOn
  <2>3. ASSUME ~paused PROVE accepted \subseteq executed
    <3>1. \A w \in Workers : worker[w] = "idle" /\ jobQueue = <<>>
      BY <1>1, <2>0, <2>1, <2>2, <2>3 DEF WorkerGoesOn, TypeOK, WorkersStay
    <3>2. Held = {}
      BY <2>0, <3>1 DEF Held, Accounted
    <3>3. Queued = {}
      BY <1>0, <3>1 DEF Queued
    <3> QED
      BY <2>0, <2>2, <3>2, <3>3 DEF NothingLost
  <2> QED
    BY <2>2, <2>3 DEF Cancelled
<1>2. ProcessorInv /\ WorkersStay => Through
  BY <1>1
<1>3. Init => WorkersStay
  BY DEF Init, WorkersStay, Cancelled
<1>4. ProcessorInv /\ [Next]_vars => ProcessorInv'
  BY NextType, NextNumbered, NextOnePlace, NextNothingLost, NextResultsOpen DEF ProcessorInv
<1>5. ProcessorInv => TypeOK
  BY DEF ProcessorInv
<1>6. Spec => []Through
  BY <1>2, <1>3, <1>4, <1>5, InitInv, WorkersStayKept, PTL DEF Spec
<1> QED
  BY <1>6

\* How far a worker is from its end when no job comes any more.
Far(w) ==
    IF worker[w] = "holding" THEN 5 ELSE IF worker[w] = "sleeping" THEN 4
    ELSE IF worker[w] = "running" THEN 3 ELSE IF worker[w] = "sending" THEN 2
    ELSE IF worker[w] = "idle" THEN 1 ELSE 0

AtLeast(n) == {w \in Workers : Far(w) >= n}

\* The sum of these, and five for each job that is queued.
StopLeft ==
    Cardinality(AtLeast(1)) + Cardinality(AtLeast(2)) + Cardinality(AtLeast(3))
      + Cardinality(AtLeast(4)) + Cardinality(AtLeast(5)) + 5 * Len(jobQueue)

LEMMA AtLeastFinite ==
    ASSUME NEW n \in 1..5
    PROVE  IsFiniteSet(AtLeast(n)) /\ Cardinality(AtLeast(n)) \in Nat
<1>1. AtLeast(n) \in SUBSET Workers
  BY DEF AtLeast
<1> QED
  BY <1>1, ProcessorAssumption, FS_Subset, FS_CardinalityType

LEMMA FarChanges ==
    ASSUME NEW n \in 1..5, NEW w \in Workers, \A v \in Workers \ {w} : worker'[v] = worker[v]
    PROVE  /\ Far(w) >= n /\ ~(Far(w)' >= n) =>
                 Cardinality(AtLeast(n)') = Cardinality(AtLeast(n)) - 1
           /\ ~(Far(w) >= n) /\ Far(w)' >= n =>
                 Cardinality(AtLeast(n)') = Cardinality(AtLeast(n)) + 1
           /\ (Far(w) >= n <=> Far(w)' >= n) =>
                 Cardinality(AtLeast(n)') = Cardinality(AtLeast(n))
<1>1. \A v \in Workers \ {w} : Far(v)' = Far(v)
  BY DEF Far
<1>2. AtLeast(n)' = IF Far(w)' >= n THEN AtLeast(n) \cup {w} ELSE AtLeast(n) \ {w}
  BY <1>1 DEF AtLeast
<1>3. w \in AtLeast(n) <=> Far(w) >= n
  BY DEF AtLeast
<1>4. /\ w \notin AtLeast(n) => Cardinality(AtLeast(n) \cup {w}) = Cardinality(AtLeast(n)) + 1
      /\ w \in AtLeast(n) => Cardinality(AtLeast(n) \ {w}) = Cardinality(AtLeast(n)) - 1
  BY AtLeastFinite, FS_AddElement, FS_RemoveElement
<1>5. /\ w \in AtLeast(n) => AtLeast(n) \cup {w} = AtLeast(n)
      /\ w \notin AtLeast(n) => AtLeast(n) \ {w} = AtLeast(n)
  OBVIOUS
<1> QED
  BY <1>2, <1>3, <1>4, <1>5

\* A worker's step brings it nearer to its end, or takes a job from the queue.
LEMMA WorkerNearer ==
    ASSUME TypeOK, QueueClosed, NEW w \in Workers, Work(w)
    PROVE  StopLeft' < StopLeft
<1>0. /\ Len(jobQueue) \in Nat /\ \A n \in 1..5 : Cardinality(AtLeast(n)) \in Nat
      /\ Cancelled
  BY AtLeastFinite, SMTT(20) DEF TypeOK, QueueClosed, Cancelled
<1>1. \A v \in Workers \ {w} : worker'[v] = worker[v]
  BY DEF Work, TakeJob, ExitWorker, SleepPaused, WakePaused, AbandonJob, StartJob,
         ExecuteJob, SendResult, WorkerGoes, TypeOK
<1> DEFINE Card(n) == Cardinality(AtLeast(n))
           Less(n) == Cardinality(AtLeast(n)') = Cardinality(AtLeast(n)) - 1
           More(n) == Cardinality(AtLeast(n)') = Cardinality(AtLeast(n)) + 1
           Same(n) == Cardinality(AtLeast(n)') = Cardinality(AtLeast(n))
<1>2. \A n \in 1..5 : /\ Far(w) >= n /\ ~(Far(w)' >= n) => Less(n)
                      /\ ~(Far(w) >= n) /\ Far(w)' >= n => More(n)
                      /\ (Far(w) >= n <=> Far(w)' >= n) => Same(n)
  BY <1>1, FarChanges
<1>a. /\ StopLeft = Cardinality(AtLeast(1)) + Cardinality(AtLeast(2)) + Cardinality(AtLeast(3))
                     + Cardinality(AtLeast(4)) + Cardinality(AtLeast(5)) + 5 * Len(jobQueue)
      /\ StopLeft' = Cardinality(AtLeast(1)') + Cardinality(AtLeast(2)') + Cardinality(AtLeast(3)')
                      + Cardinality(AtLeast(4)') + Cardinality(AtLeast(5)') + 5 * Len(jobQueue')
  BY DEF StopLeft
<1>b. /\ Cardinality(AtLeast(1)) \in Nat /\ Cardinality(AtLeast(2)) \in Nat
      /\ Cardinality(AtLeast(3)) \in Nat /\ Cardinality(AtLeast(4)) \in Nat
      /\ Cardinality(AtLeast(5)) \in Nat
  BY <1>0
<1>3. CASE TakeJob(w)
  <2>1. Far(w) = 1 /\ Far(w)' = 5
    BY <1>3 DEF TakeJob, WorkerGoes, TypeOK, Far
  <2>2. Same(1) /\ More(2) /\ More(3) /\ More(4) /\ More(5)
    BY <1>2, <2>1
  <2>3. Len(jobQueue') = Len(jobQueue) - 1
    BY <1>3 DEF TakeJob, TypeOK
  <2> QED
    <3>1. PICK a \in Nat, b \in Nat, c \in Nat, d \in Nat, e \in Nat, q \in Nat :
              /\ a = Cardinality(AtLeast(1)) /\ b = Cardinality(AtLeast(2))
              /\ c = Cardinality(AtLeast(3)) /\ d = Cardinality(AtLeast(4))
              /\ e = Cardinality(AtLeast(5)) /\ q = Len(jobQueue)
      BY <1>0, <1>b
    <3>2. StopLeft = a + b + c + d + e + 5 * q
      BY <1>a, <3>1
    <3>3. StopLeft' = a + (b + 1) + (c + 1) + (d + 1) + (e + 1) + 5 * (q - 1)
      BY <1>a, <2>2, <2>3, <3>1
    <3> QED
      BY <3>2, <3>3
<1>4. CASE ~TakeJob(w)
  <2>1. Far(w)' < Far(w) /\ Far(w) \in 0..5 /\ Far(w)' \in 0..5
    <3>1. DOMAIN worker = Workers /\ ~WakePaused(w)
      BY <1>0 DEF TypeOK, WakePaused
    <3>2. \/ ExitWorker(w) \/ SleepPaused(w) \/ AbandonJob(w)
          \/ StartJob(w) \/ ExecuteJob(w) \/ SendResult(w)
      BY <1>4, <3>1 DEF Work
    <3>3. \/ WorkerGoes(w, "idle", "exited") \/ WorkerGoes(w, "holding", "sleeping")
          \/ WorkerGoes(w, "sleeping", "exited") \/ WorkerGoes(w, "holding", "running")
          \/ WorkerGoes(w, "running", "sending") \/ WorkerGoes(w, "sending", "idle")
      BY <3>2 DEF ExitWorker, SleepPaused, AbandonJob, StartJob, ExecuteJob, SendResult
    <3> QED
      BY <3>1, <3>3 DEF WorkerGoes, Far
  <2>2. \A n \in 1..5 : Less(n) \/ Same(n)
    BY <1>2, <2>1
  <2>3. \E n \in 1..5 : Less(n)
    <3>1. PICK n \in 1..5 : n = Far(w)
      BY <2>1
    <3> QED
      BY <1>2, <2>1, <3>1
  <2>4. Less(1) \/ Less(2) \/ Less(3) \/ Less(4) \/ Less(5)
    BY <2>3
  <2>5. jobQueue' = jobQueue
    BY <1>4 DEF Work, ExitWorker, SleepPaused, WakePaused, AbandonJob, StartJob,
                ExecuteJob, SendResult
  <2> QED
    <3>1. /\ Less(1) \/ Same(1)
          /\ Less(2) \/ Same(2)
          /\ Less(3) \/ Same(3)
          /\ Less(4) \/ Same(4)
          /\ Less(5) \/ Same(5)
      BY <2>2
    <3>2. PICK a \in Nat, b \in Nat, c \in Nat, d \in Nat, e \in Nat, q \in Nat :
              /\ a = Cardinality(AtLeast(1)) /\ b = Cardinality(AtLeast(2))
              /\ c = Cardinality(AtLeast(3)) /\ d = Cardinality(AtLeast(4))
              /\ e = Cardinality(AtLeast(5)) /\ q = Len(jobQueue)
      BY <1>0, <1>b
    <3>3. PICK a1 \in {a, a - 1}, b1 \in {b, b - 1}, c1 \in {c, c - 1}, d1 \in {d, d - 1},
              e1 \in {e, e - 1} :
              /\ a1 = Cardinality(AtLeast(1)') /\ b1 = Cardinality(AtLeast(2)')
              /\ c1 = Cardinality(AtLeast(3)') /\ d1 = Cardinality(AtLeast(4)')
              /\ e1 = Cardinality(AtLeast(5)')
      BY <3>1, <3>2
    <3>4. a1 = a - 1 \/ b1 = b - 1 \/ c1 = c - 1 \/ d1 = d - 1 \/ e1 = e - 1
      BY <2>4, <3>2, <3>3
    <3>5. StopLeft = a + b + c + d + e + 5 * q /\ StopLeft' = a1 + b1 + c1 + d1 + e1 + 5 * q
      BY <1>a, <2>5, <3>2, <3>3
    <3> HIDE DEF Card, Less, More, Same
    <3>6. a1 + b1 + c1 + d1 + e1 < a + b + c + d + e
      BY <3>4
    <3> QED
      BY <3>5, <3>6
<1> QED
  BY <1>3, <1>4

\* When Stop has closed the queue the workers come to their end in a bounded
\* number of steps, paused or not: each of their steps lowers StopLeft, which is
\* never negative, and nobody else's step raises it.
THEOREM StopEndsInSteps ==
    /\ Spec => [](StopLeft \in Nat)
    /\ Spec => [][QueueClosed =>
                    IF worker' = worker THEN StopLeft' = StopLeft ELSE StopLeft' < StopLeft]_vars
<1>1. TypeOK => StopLeft \in Nat
  <2> SUFFICES ASSUME TypeOK PROVE StopLeft \in Nat
    OBVIOUS
  <2>1. Len(jobQueue) \in Nat /\ \A n \in 1..5 : Cardinality(AtLeast(n)) \in Nat
    BY AtLeastFinite DEF TypeOK
  <2> QED
    BY <2>1, SMTT(20) DEF StopLeft
<1>2. ASSUME TypeOK, QueueClosed, Next
      PROVE  IF worker' = worker THEN StopLeft' = StopLeft ELSE StopLeft' < StopLeft
  <2>1. ASSUME NEW w \in Workers, Work(w) PROVE worker' # worker /\ StopLeft' < StopLeft
    <3>1. worker' # worker
      BY <1>2, <2>1 DEF Work, TakeJob, ExitWorker, SleepPaused, WakePaused, AbandonJob,
                        StartJob, ExecuteJob, SendResult, WorkerGoes, TypeOK
    <3> QED
      BY <1>2, <2>1, <3>1, WorkerNearer
  <2>2. ASSUME UNCHANGED <<worker, jobQueue>> PROVE worker' = worker /\ StopLeft' = StopLeft
    BY <2>2 DEF StopLeft, AtLeast, Far
  <2>3. ASSUME NEW c \in Clients, Client(c) PROVE UNCHANGED <<worker, jobQueue>>
    BY <1>2, <2>3 DEF Client, Submit, SubmitWithTimeout, WaitEnds, Timeout, CountSubmitted,
                      Accept, Panic, Reject, pool
  <2>4. CASE CollectResult \/ Cancel \/ CloseQueue \/ CloseResults \/ Pause \/ Resume
    <3>1. UNCHANGED <<worker, jobQueue>>
      BY <2>4 DEF CollectResult, Cancel, CloseQueue, CloseResults, Pause, Resume, pool
    <3> QED
      BY <2>2, <3>1
  <2> QED
    BY <1>2, <2>1, <2>2, <2>3, <2>4 DEF Next
<1>3. ProcessorInv /\ [Next]_vars => ProcessorInv'
  BY NextType, NextNumbered, NextOnePlace, NextNothingLost, NextResultsOpen DEF ProcessorInv
<1>4. ProcessorInv => TypeOK
  BY DEF ProcessorInv
<1>5. Spec => [](StopLeft \in Nat)
  BY <1>1, <1>3, <1>4, InitInv, PTL DEF Spec
<1>6. Spec => [][QueueClosed =>
                   IF worker' = worker THEN StopLeft' = StopLeft ELSE StopLeft' < StopLeft]_vars
  BY <1>2, <1>3, <1>4, InitInv, PTL DEF Spec
<1> QED
  BY <1>5, <1>6
=============================================================================
