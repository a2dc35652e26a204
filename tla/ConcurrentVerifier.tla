------------------------- MODULE ConcurrentVerifier -------------------------
(***************************************************************************)
(* ConcurrentVerifier of pkg/integrity/realtime.go: SubmitJob puts blocks  *)
(* on a channel, workers check them and put their verdicts on a second     *)
(* one, Stop closes the first, waits for the workers and closes the        *)
(* second, and GetResults reads the second until it is closed.  So the     *)
(* client calls GetResults after Stop, or in a goroutine beside it.        *)
(***************************************************************************)
EXTENDS Naturals, Sequences, FiniteSets

CONSTANTS
    MaxBlocks,      \* bound: blocks a client submits, numbered in their order
    BadBlocks,      \* those VerifyBlock refuses
    VerifyWorkers

ASSUME VerifierAssumption ==
    MaxBlocks \in Nat /\ BadBlocks \subseteq 1..MaxBlocks /\ IsFiniteSet(VerifyWorkers)

VARIABLES
    verifyClient,   \* "new", "submitting", "stopping", "stopped"
    getter,         \* GetResults: "after", "beside", "returned"; "unset" before
    blockCount,         \* blocks the client has
    submitted, begun,   \* blocks sent to and taken from jobQueue
    verifying,      \* verifying[w]: the worker's block, 0 if none
    verified,       \* verified[w]: it is checked and its verdict is to be sent
    verifyExited,   \* workers that have returned
    verdicts,       \* resultQueue, as a sequence of <<block, success>>
    got,            \* what GetResults has read
    verifyErrors    \* cv.errors: the blocks

verifierVars == <<verifyClient, getter, blockCount, submitted, begun, verifying, verified,
                  verifyExited, verdicts, got, verifyErrors>>

VerifySlots == 2 * Cardinality(VerifyWorkers)   \* capacity of both channels

VerifierInit ==
    /\ verifyClient = "new" /\ getter = "unset"
    /\ blockCount = 0 /\ submitted = 0 /\ begun = 0 /\ verifyErrors = {} /\ verifyExited = {}
    /\ verifying = [w \in VerifyWorkers |-> 0]
    /\ verified = [w \in VerifyWorkers |-> FALSE]
    /\ verdicts = <<>> /\ got = <<>>

\* Start; the client has some blocks and collects the results in either way.
StartVerifier ==
    /\ verifyClient = "new"
    /\ verifyClient' = "submitting"
    /\ getter' \in {"after", "beside"} /\ blockCount' \in 0..MaxBlocks
    /\ UNCHANGED <<submitted, begun, verifying, verified, verifyExited, verdicts, got,
                   verifyErrors>>

\* SubmitJob waits while the queue is full.
SubmitBlock ==
    /\ verifyClient = "submitting"
    /\ submitted < blockCount /\ submitted - begun < VerifySlots
    /\ submitted' = submitted + 1
    /\ UNCHANGED <<blockCount, verifyClient, getter, begun, verifying, verified,
                   verifyExited, verdicts, got, verifyErrors>>

CloseVerifier ==
    /\ verifyClient = "submitting" /\ submitted = blockCount
    /\ verifyClient' = "stopping"
    /\ UNCHANGED <<blockCount, getter, submitted, begun, verifying, verified, verifyExited,
                   verdicts, got, verifyErrors>>

VerifierWaitEnds_Idle == begun = submitted

\* wg.Wait, and the close of resultQueue.
VerifierWaitEnds == verifyExited = VerifyWorkers

FinishStopVerifier ==
    /\ verifyClient = "stopping" /\ VerifierWaitEnds
    /\ verifyClient' = "stopped"
    /\ UNCHANGED <<blockCount, getter, submitted, begun, verifying, verified, verifyExited,
                   verdicts, got, verifyErrors>>

TakeBlock(w) ==
    /\ verifyClient # "new" /\ w \notin verifyExited
    /\ verifying[w] = 0 /\ begun < submitted
    /\ begun' = begun + 1
    /\ verifying' = [verifying EXCEPT ![w] = begun + 1]
    /\ UNCHANGED <<blockCount, verifyClient, getter, submitted, verified, verifyExited,
                   verdicts, got, verifyErrors>>

VerifyBlock(w) ==
    /\ verifying[w] # 0 /\ ~verified[w]
    /\ verified' = [verified EXCEPT ![w] = TRUE]
    /\ verifyErrors' = verifyErrors \cup ({verifying[w]} \cap BadBlocks)
    /\ UNCHANGED <<blockCount, verifyClient, getter, submitted, begun, verifying,
                   verifyExited, verdicts, got>>

SendVerdict(w) ==
    /\ verified[w] /\ Len(verdicts) < VerifySlots
    /\ verdicts' = Append(verdicts, <<verifying[w], verifying[w] \notin BadBlocks>>)
    /\ verifying' = [verifying EXCEPT ![w] = 0]
    /\ verified' = [verified EXCEPT ![w] = FALSE]
    /\ UNCHANGED <<blockCount, verifyClient, getter, submitted, begun, verifyExited, got,
                   verifyErrors>>

ExitVerifyWorker(w) ==
    /\ verifyClient = "stopping" /\ verifying[w] = 0 /\ begun = submitted
    /\ w \notin verifyExited
    /\ verifyExited' = verifyExited \cup {w}
    /\ UNCHANGED <<blockCount, verifyClient, getter, submitted, begun, verifying, verified,
                   verdicts, got, verifyErrors>>

Reading == getter = "beside" \/ (getter = "after" /\ verifyClient = "stopped")

ReadVerdict ==
    /\ Reading /\ verdicts # <<>>
    /\ verdicts' = Tail(verdicts)
    /\ got' = Append(got, Head(verdicts))
    /\ UNCHANGED <<blockCount, verifyClient, getter, submitted, begun, verifying, verified,
                   verifyExited, verifyErrors>>

ReturnResults ==
    /\ Reading /\ verifyClient = "stopped" /\ verdicts = <<>>
    /\ getter' = "returned"
    /\ UNCHANGED <<blockCount, verifyClient, submitted, begun, verifying, verified,
                   verifyExited, verdicts, got, verifyErrors>>

VerifyClient == StartVerifier \/ SubmitBlock \/ CloseVerifier \/ FinishStopVerifier
VerifyWork(w) == TakeBlock(w) \/ VerifyBlock(w) \/ SendVerdict(w) \/ ExitVerifyWorker(w)
GetResults == ReadVerdict \/ ReturnResults

VerifierNext == VerifyClient \/ GetResults \/ \E w \in VerifyWorkers : VerifyWork(w)

\* The client calls Stop; Go schedules every goroutine that can run.
VerifierFairness ==
    /\ WF_verifierVars(VerifyClient) /\ WF_verifierVars(GetResults)
    /\ \A w \in VerifyWorkers : WF_verifierVars(VerifyWork(w))

VerifierSpec == VerifierInit /\ [][VerifierNext]_verifierVars /\ VerifierFairness

-----------------------------------------------------------------------------
(* Properties.                                                             *)

VerifierTypeOK ==
    /\ verifyClient \in {"new", "submitting", "stopping", "stopped"}
    /\ begun <= submitted /\ submitted - begun <= VerifySlots
    /\ Len(verdicts) <= VerifySlots

\* One verdict for every block, true exactly for the good ones, and the bad ones
\* as the errors.
VerdictsComplete ==
    /\ Len(got) = blockCount
    /\ {got[i] : i \in DOMAIN got} = {<<b, b \notin BadBlocks>> : b \in 1..blockCount}
    /\ verifyErrors = BadBlocks \cap 1..blockCount

\* So it is whenever GetResults has returned, however the results were collected.
VerdictsAtReturn == getter = "returned" => VerdictsComplete

\* With GetResults beside Stop, or with no more blocks than the result queue
\* holds, all calls return and the verdicts are complete; otherwise the workers,
\* Stop or SubmitJob may wait for ever for somebody to take results.
VerifierEnds ==
    (getter = "beside" \/ (getter = "after" /\ blockCount <= VerifySlots))
        ~> getter = "returned" /\ VerdictsComplete
=============================================================================
