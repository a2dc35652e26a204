------------------------------ MODULE Streaming ------------------------------
(***************************************************************************)
(* The chunk pipeline of pkg/performance/streaming.go: ProcessFiles runs   *)
(* one ProcessFile per path, a semaphore limiting how many; each call      *)
(* reads its file chunk by chunk, its workers hand the chunks to the       *)
(* client's function, and a collector counts the results.  The calls share *)
(* the LRU cache of pkg/performance/cache.go and one context.              *)
(*                                                                         *)
(* What the client's function returns for a chunk is cached and sent to    *)
(* the collector, which ignores it (updateStats): no step depends on it,   *)
(* so it is left out.                                                      *)
(***************************************************************************)
EXTENDS Naturals, Sequences, FiniteSets

CONSTANTS
    Inputs,         \* paths given to ProcessFiles
    Chunks,         \* Chunks[f]: the lengths of the chunks of file f
    ChunkSize,      \* StreamConfig.ChunkSize
    StreamWorkers,  \* numbers of the workers of one call
    CacheSize,      \* StreamConfig.CacheSize
    MaxConcurrency, \* capacity of the semaphore
    MaxReadFaults   \* bound: failed opens, reads and memory checks

ASSUME StreamAssumption ==
    /\ Chunks \in [Inputs -> Seq(1..ChunkSize)] /\ ChunkSize \in Nat
    /\ \A f \in Inputs : \A k \in 1..(Len(Chunks[f]) - 1) : Chunks[f][k] = ChunkSize
    /\ IsFiniteSet(StreamWorkers) /\ {CacheSize, MaxConcurrency, MaxReadFaults} \subseteq Nat

VARIABLES
    enableCache,  \* "on" or "off", "unset" before the processor is made
    cancelled,    \* Stop was called
    reader,       \* reader[f]: where the call for f stands in ProcessReader
    streamSent,   \* chunks sent to the call's jobs channel
    streamTaken,  \* chunks received from it
    chunk,        \* chunk[f][w]: the chunk worker w of the call has, 0 if none
    stage,        \* stage[f][w]: what it does with it
    results,      \* number of results in the call's channel
    streamCollector,  \* the call's resultCollector
    counted,      \* counted[f]: results of the call in stats.ChunksProcessed
    lru,          \* keys in the cache, most recently used first
    seen,         \* chunks <<f, k>> the client's function was called with
    readFaults

streamVars == <<enableCache, cancelled, reader, streamSent, streamTaken, chunk, stage, results,
                streamCollector, counted, lru, seen, readFaults>>

Slots == 2 * Cardinality(StreamWorkers)   \* capacity of jobs and results

\* The cache key has the chunk's offset and length, and not its file.
KeyOf(f, k) == <<k, Chunks[f][k]>>

JobsClosed(f)    == reader[f] \in {"draining", "aborting", "returned", "failed"}
\* Only the normal end closes the results; the early returns do not.
ResultsClosed(f) == reader[f] = "returned"

\* The call holds the semaphore.
Active(f) == reader[f] \notin {"queued", "returned", "failed"}

Has(s, key) == \E i \in DOMAIN s : s[i] = key

Without(s, key) ==
    LET i == CHOOSE i \in DOMAIN s : s[i] = key
    IN  IF Has(s, key) THEN SubSeq(s, 1, i - 1) \o SubSeq(s, i + 1, Len(s)) ELSE s

\* MoveToFront or PushFront.
Touch(s, key) == <<key>> \o Without(s, key)

\* LRUCache.Put, which evicts the oldest entry when the list is too long.
Stored(s, key) ==
    LET t == Touch(s, key) IN IF Len(t) > CacheSize THEN SubSeq(t, 1, Len(t) - 1) ELSE t

StreamInit ==
    /\ enableCache = "unset" /\ cancelled = FALSE
    /\ reader = [f \in Inputs |-> "queued"]
    /\ streamSent = [f \in Inputs |-> 0] /\ streamTaken = [f \in Inputs |-> 0]
    /\ chunk = [f \in Inputs |-> [w \in StreamWorkers |-> 0]]
    /\ stage = [f \in Inputs |-> [w \in StreamWorkers |-> "off"]]
    /\ results = [f \in Inputs |-> 0] /\ counted = [f \in Inputs |-> 0]
    /\ streamCollector = [f \in Inputs |-> "off"]
    /\ lru = <<>> /\ seen = {} /\ readFaults = 0

NewStreamProcessor ==
    /\ enableCache = "unset"
    /\ enableCache' \in {"on", "off"}
    /\ UNCHANGED <<cancelled, reader, streamSent, streamTaken, chunk, stage, results,
                   streamCollector, counted, lru, seen, readFaults>>

-----------------------------------------------------------------------------
(* The calls.                                                              *)

\* A slot of the semaphore, the file, and the goroutines of ProcessReader.
OpenInput(f) ==
    /\ enableCache # "unset"
    /\ reader[f] = "queued"
    /\ Cardinality({g \in Inputs : Active(g)}) < MaxConcurrency
    /\ reader' = [reader EXCEPT ![f] = "checking"]
    /\ stage' = [stage EXCEPT ![f] = [w \in StreamWorkers |-> "idle"]]
    /\ streamCollector' = [streamCollector EXCEPT ![f] = "running"]
    /\ UNCHANGED <<enableCache, cancelled, streamSent, streamTaken, chunk, results, counted,
                   lru, seen, readFaults>>

OpenFails(f) ==
    /\ enableCache # "unset"
    /\ reader[f] = "queued" /\ readFaults < MaxReadFaults
    /\ Cardinality({g \in Inputs : Active(g)}) < MaxConcurrency
    /\ reader' = [reader EXCEPT ![f] = "failed"]
    /\ readFaults' = readFaults + 1
    /\ UNCHANGED <<enableCache, cancelled, streamSent, streamTaken, chunk, stage, results,
                   streamCollector, counted, lru, seen>>

\* The context and the memory are checked and the next chunk is read.
ReadChunk(f) ==
    /\ reader[f] = "checking" /\ ~cancelled
    /\ reader' = [reader EXCEPT ![f] =
           IF streamSent[f] < Len(Chunks[f]) THEN "sending" ELSE "draining"]
    /\ UNCHANGED <<enableCache, cancelled, streamSent, streamTaken, chunk, stage, results,
                   streamCollector, counted, lru, seen, readFaults>>

ReadFails(f) ==
    /\ reader[f] = "checking" /\ ~cancelled /\ readFaults < MaxReadFaults
    /\ reader' = [reader EXCEPT ![f] = "aborting"]
    /\ readFaults' = readFaults + 1
    /\ UNCHANGED <<enableCache, cancelled, streamSent, streamTaken, chunk, stage, results,
                   streamCollector, counted, lru, seen>>

\* A short chunk was the last one; after a full one the loop looks again.
SendChunk(f) ==
    /\ reader[f] = "sending"
    /\ streamSent[f] - streamTaken[f] < Slots
    /\ streamSent' = [streamSent EXCEPT ![f] = @ + 1]
    /\ reader' = [reader EXCEPT ![f] =
           IF Chunks[f][streamSent[f] + 1] < ChunkSize THEN "draining" ELSE "checking"]
    /\ UNCHANGED <<enableCache, cancelled, streamTaken, chunk, stage, results,
                   streamCollector, counted, lru, seen, readFaults>>

\* ctx.Done, at the check or in the select of the send.
GiveUp(f) ==
    /\ reader[f] \in {"checking", "sending"} /\ cancelled
    /\ reader' = [reader EXCEPT ![f] = "aborting"]
    /\ UNCHANGED <<enableCache, cancelled, streamSent, streamTaken, chunk, stage, results,
                   streamCollector, counted, lru, seen, readFaults>>

WorkersDone_Idle(f) == streamTaken[f] = streamSent[f]

\* wg.Wait.
WorkersDone(f) == \A w \in StreamWorkers : stage[f][w] = "exited"

ReturnFrom(f) ==
    /\ reader[f] \in {"draining", "aborting"}
    /\ WorkersDone(f)
    /\ reader' = [reader EXCEPT ![f] = IF @ = "draining" THEN "returned" ELSE "failed"]
    /\ UNCHANGED <<enableCache, cancelled, streamSent, streamTaken, chunk, stage, results,
                   streamCollector, counted, lru, seen, readFaults>>

-----------------------------------------------------------------------------
(* The workers and the collector of a call.                                *)

TakeChunk(f, w) ==
    /\ stage[f][w] = "idle" /\ streamTaken[f] < streamSent[f]
    /\ stage' = [stage EXCEPT ![f][w] = IF enableCache = "on" THEN "looking" ELSE "processing"]
    /\ streamTaken' = [streamTaken EXCEPT ![f] = @ + 1]
    /\ chunk' = [chunk EXCEPT ![f][w] = streamTaken[f] + 1]
    /\ UNCHANGED <<enableCache, cancelled, reader, streamSent, results, streamCollector,
                   counted, lru, seen, readFaults>>

\* LRUCache.Get; a hit moves the key to the front and skips the client's function.
LookUp(f, w) ==
    LET key == KeyOf(f, chunk[f][w])
        hit == Has(lru, key)
    IN  /\ stage[f][w] = "looking"
        /\ stage' = [stage EXCEPT ![f][w] = IF hit THEN "sending" ELSE "processing"]
        /\ lru' = IF hit THEN Touch(lru, key) ELSE lru
        /\ UNCHANGED <<enableCache, cancelled, reader, streamSent, streamTaken, chunk,
                       results, streamCollector, counted, seen, readFaults>>

\* The client's function, and the cache filled with what it returned.
ProcessChunk(f, w) ==
    /\ stage[f][w] = "processing"
    /\ stage' = [stage EXCEPT ![f][w] = "sending"]
    /\ seen' = seen \cup {<<f, chunk[f][w]>>}
    /\ lru' = IF enableCache = "on" THEN Stored(lru, KeyOf(f, chunk[f][w])) ELSE lru
    /\ UNCHANGED <<enableCache, cancelled, reader, streamSent, streamTaken, chunk, results,
                   streamCollector, counted, readFaults>>

SendStreamResult(f, w) ==
    /\ stage[f][w] = "sending" /\ results[f] < Slots
    /\ results' = [results EXCEPT ![f] = @ + 1]
    /\ stage' = [stage EXCEPT ![f][w] = "idle"]
    /\ chunk' = [chunk EXCEPT ![f][w] = 0]
    /\ UNCHANGED <<enableCache, cancelled, reader, streamSent, streamTaken, streamCollector,
                   counted, lru, seen, readFaults>>

\* The end of the range over jobs, or ctx.Done instead of the send.
ExitStreamWorker(f, w) ==
    /\ \/ stage[f][w] = "idle" /\ JobsClosed(f) /\ streamTaken[f] = streamSent[f]
       \/ stage[f][w] = "sending" /\ cancelled
    /\ stage' = [stage EXCEPT ![f][w] = "exited"]
    /\ UNCHANGED <<enableCache, cancelled, reader, streamSent, streamTaken, chunk, results,
                   streamCollector, counted, lru, seen, readFaults>>

Collect(f) ==
    /\ streamCollector[f] = "running" /\ results[f] > 0
    /\ results' = [results EXCEPT ![f] = @ - 1]
    /\ counted' = [counted EXCEPT ![f] = @ + 1]
    /\ UNCHANGED <<enableCache, cancelled, reader, streamSent, streamTaken, chunk, stage,
                   streamCollector, lru, seen, readFaults>>

EndCollector_AtClose(f) ==
    /\ streamCollector[f] = "running" /\ ResultsClosed(f)
    /\ streamCollector' = [streamCollector EXCEPT ![f] = "exited"]
    /\ UNCHANGED <<enableCache, cancelled, reader, streamSent, streamTaken, chunk, stage,
                   results, counted, lru, seen, readFaults>>

EndCollector(f) ==
    /\ streamCollector[f] = "running" /\ ResultsClosed(f) /\ results[f] = 0
    /\ streamCollector' = [streamCollector EXCEPT ![f] = "exited"]
    /\ UNCHANGED <<enableCache, cancelled, reader, streamSent, streamTaken, chunk, stage,
                   results, counted, lru, seen, readFaults>>

StopStream ==
    /\ enableCache # "unset" /\ ~cancelled
    /\ cancelled' = TRUE
    /\ UNCHANGED <<enableCache, reader, streamSent, streamTaken, chunk, stage, results,
                   streamCollector, counted, lru, seen, readFaults>>

-----------------------------------------------------------------------------
Call(f)      == \/ OpenInput(f) \/ OpenFails(f) \/ ReadChunk(f) \/ ReadFails(f)
                \/ SendChunk(f) \/ GiveUp(f) \/ ReturnFrom(f)
StreamWorker(f, w) ==
    \/ TakeChunk(f, w) \/ LookUp(f, w) \/ ProcessChunk(f, w) \/ SendStreamResult(f, w)
    \/ ExitStreamWorker(f, w)
Collecting(f) == Collect(f) \/ EndCollector(f)

StreamNext ==
    \/ NewStreamProcessor \/ StopStream
    \/ \E f \in Inputs : \/ Call(f) \/ Collecting(f)
                         \/ \E w \in StreamWorkers : StreamWorker(f, w)

\* Go schedules every goroutine that can run; Stop need not be called.
StreamFairness ==
    \A f \in Inputs :
        /\ WF_streamVars(Call(f)) /\ WF_streamVars(Collecting(f))
        /\ \A w \in StreamWorkers : WF_streamVars(StreamWorker(f, w))

StreamSpec == StreamInit /\ [][StreamNext]_streamVars /\ StreamFairness

-----------------------------------------------------------------------------
(* Properties.                                                             *)

StreamTypeOK ==
    /\ enableCache \in {"unset", "on", "off"} /\ cancelled \in BOOLEAN
    /\ reader \in [Inputs -> {"queued", "checking", "sending", "draining", "aborting",
                              "returned", "failed"}]
    /\ \A f \in Inputs : streamTaken[f] <= streamSent[f] /\ streamSent[f] <= Len(Chunks[f])
                         /\ streamSent[f] - streamTaken[f] <= Slots /\ results[f] \in 0..Slots
    /\ Len(lru) <= CacheSize /\ \A i, j \in DOMAIN lru : lru[i] = lru[j] => i = j

\* When ProcessFile returns no error every chunk of the file went through the
\* client's function; with the cache on, a chunk of the same place and length
\* in another file of the processor may have gone in its stead.  The chunks
\* that Stop makes the workers drop are only missed in calls that end after it.
NilMeansProcessed ==
    \A f \in Inputs : reader[f] = "returned" /\ ~cancelled =>
        \A k \in DOMAIN Chunks[f] :
            \/ <<f, k>> \in seen
            \/ enableCache = "on" /\ KeyOf(f, k) \in {KeyOf(s[1], s[2]) : s \in seen}

\* Every call returns, whatever fails, and when Stop comes in between.  One
\* that returned no error leaves no goroutine behind, and the statistics come
\* to count all its chunks.
StreamEnds ==
    enableCache # "unset" ~>
        \A f \in Inputs :
            \/ reader[f] = "failed"
            \/ /\ reader[f] = "returned" /\ streamCollector[f] = "exited"
               /\ cancelled \/ counted[f] = Len(Chunks[f])
=============================================================================
