------------------------------ MODULE ReadAhead ------------------------------
(***************************************************************************)
(* The OptimizedReaders of one IOOptimizer of pkg/performance/             *)
(* io_optimizer.go that have no memory mapping and EnableReadAhead: Read   *)
(* looks its position up in the optimizer's read-ahead cache, else reads   *)
(* the file and starts a goroutine that reads the next block and caches    *)
(* it.  The goroutine takes the reader's position twice, for its read and  *)
(* for the cache key, with no lock.  The cache is one for all readers, and *)
(* its key is an offset without a file.                                    *)
(*                                                                         *)
(* A byte is the file it is in and the offset it has there.                *)
(***************************************************************************)
EXTENDS Integers, Sequences

CONSTANTS
    Readers,
    ReadFiles,
    FileOf,          \* FileOf[r]: the file of reader r
    FileSize,        \* FileSize[f]
    ReadAheadSize,   \* of a prefetch, and of the whole cache
    MaxReads         \* bound: calls of Read and Seek

ASSUME ReadAheadAssumption ==
    /\ Readers # {} /\ FileOf \in [Readers -> ReadFiles] /\ FileSize \in [ReadFiles -> Nat]
    /\ ReadAheadSize \in Nat \ {0} /\ MaxReads \in Nat

VARIABLES
    filePos,      \* filePos[r]
    readCalls,
    prefetch,     \* prefetch[i]: the goroutine of the i-th call: "none", "started", "done",
                  \* or "read" with the offset it read at in prefetchAt[i]
    prefetchBy,   \* prefetchBy[i]: the reader of the i-th call
    prefetchAt,
    cache,        \* the entries: a key, and the file and offset of the data
    lastRead,     \* [by, at, file, from, len]: the reader and position of the last Read, and
                  \* the file, offset and length of what it returned
    overtaken     \* a reader has moved between the two looks of its goroutine

readVars == <<filePos, readCalls, prefetch, prefetchBy, prefetchAt, cache, lastRead, overtaken>>

SizeFor(r) == FileSize[FileOf[r]]

ReadInit ==
    /\ filePos = [r \in Readers |-> 0] /\ readCalls = 0 /\ cache = {} /\ overtaken = FALSE
    /\ prefetch = [i \in 1..MaxReads |-> "none"] /\ prefetchAt = [i \in 1..MaxReads |-> 0]
    /\ LET r == CHOOSE r \in Readers : TRUE
       IN  /\ prefetchBy = [i \in 1..MaxReads |-> r]
           /\ lastRead = [by |-> r, at |-> 0, file |-> FileOf[r], from |-> 0, len |-> 0]

Overtakes(r) == \E i \in 1..MaxReads : prefetch[i] = "read" /\ prefetchBy[i] = r

CachedAt_Covering(at, n) == {c \in cache : c.key <= at /\ at + n <= c.key + ReadAheadSize}

\* ReadAheadCache.Get: an entry of exactly this offset that is long enough.
CachedAt(at, n) == {c \in cache : c.key = at /\ n <= ReadAheadSize}

\* Read of n bytes, from the cache or from the file.
ReadBytes(r, n) ==
    LET at  == filePos[r]
        hit == CachedAt(at, n)
        len == IF hit # {} \/ at + n <= SizeFor(r) THEN n
               ELSE IF at < SizeFor(r) THEN SizeFor(r) - at ELSE 0
    IN  /\ readCalls < MaxReads
        /\ readCalls' = readCalls + 1
        /\ filePos' = [filePos EXCEPT ![r] = at + len]
        /\ \E c \in IF hit # {} THEN hit ELSE {[key |-> at, file |-> FileOf[r], from |-> at]} :
               lastRead' = [by |-> r, at |-> at, file |-> c.file, from |-> c.from, len |-> len]
        /\ prefetch' = [prefetch EXCEPT ![readCalls + 1] =
                           IF hit = {} /\ len > 0 THEN "started" ELSE "none"]
        /\ prefetchBy' = [prefetchBy EXCEPT ![readCalls + 1] = r]
        /\ overtaken' = (overtaken \/ (len > 0 /\ Overtakes(r)))
        /\ UNCHANGED <<prefetchAt, cache>>

\* Seek, which clamps the position to the file.
SeekTo(r, pos) ==
    /\ readCalls < MaxReads /\ pos \in 0..SizeFor(r) /\ pos # filePos[r]
    /\ readCalls' = readCalls + 1
    /\ filePos' = [filePos EXCEPT ![r] = pos]
    /\ overtaken' = (overtaken \/ Overtakes(r))
    /\ UNCHANGED <<prefetch, prefetchBy, prefetchAt, cache, lastRead>>

\* The goroutine reads a block, which must be a full one.
PrefetchRead(i) ==
    LET r == prefetchBy[i]
    IN  /\ prefetch[i] = "started"
        /\ prefetch' = [prefetch EXCEPT ![i] =
                           IF filePos[r] + ReadAheadSize <= SizeFor(r) THEN "read" ELSE "done"]
        /\ prefetchAt' = [prefetchAt EXCEPT ![i] = filePos[r]]
        /\ UNCHANGED <<filePos, readCalls, prefetchBy, cache, lastRead, overtaken>>

\* The goroutine's read fails: a disk error, or the reader has been closed.
PrefetchFails(i) ==
    /\ prefetch[i] = "started"
    /\ prefetch' = [prefetch EXCEPT ![i] = "done"]
    /\ UNCHANGED <<filePos, readCalls, prefetchBy, prefetchAt, cache, lastRead, overtaken>>

\* ReadAheadCache.Put: a full block leaves no room for another entry.
PrefetchPut(i) ==
    LET r == prefetchBy[i]
    IN  /\ prefetch[i] = "read"
        /\ prefetch' = [prefetch EXCEPT ![i] = "done"]
        /\ cache' = {[key |-> filePos[r], file |-> FileOf[r], from |-> prefetchAt[i]]}
        /\ UNCHANGED <<filePos, readCalls, prefetchBy, prefetchAt, lastRead, overtaken>>

ReadNext ==
    \/ \E r \in Readers :
          \/ \E n \in 1..SizeFor(r) : ReadBytes(r, n)
          \/ \E pos \in 0..SizeFor(r) : SeekTo(r, pos)
    \/ \E i \in 1..MaxReads : PrefetchRead(i) \/ PrefetchFails(i) \/ PrefetchPut(i)

ReadSpec == ReadInit /\ [][ReadNext]_readVars

-----------------------------------------------------------------------------
(* Properties.                                                             *)

ReadTypeOK ==
    /\ filePos \in [Readers -> Nat] /\ readCalls \in 0..MaxReads
    /\ prefetch \in [1..MaxReads -> {"none", "started", "read", "done"}]
    /\ prefetchBy \in [1..MaxReads -> Readers]

\* The last Read returned the bytes of its own file at its position.
ReadsFile ==
    LET r == lastRead.by
    IN  /\ lastRead.file = FileOf[r] /\ lastRead.from = lastRead.at
        /\ lastRead.at + lastRead.len <= SizeFor(r)

\* No goroutine has been started for another file than f.
PrefetchedOnly(f) == \A i \in 1..MaxReads : prefetch[i] # "none" => FileOf[prefetchBy[i]] = f

\* Read returns its file's bytes at its position, cached or not, and the
\* position stays in the file, as long as no reader moves between the two
\* looks of its prefetch and the optimizer has prefetched no other file: the
\* cache cannot tell one file's blocks from another's.
ReadsFileUnlessOvertaken ==
    ~overtaken /\ PrefetchedOnly(FileOf[lastRead.by]) =>
        ReadsFile /\ filePos[lastRead.by] <= SizeFor(lastRead.by)
=============================================================================
