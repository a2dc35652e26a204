----------------------------- MODULE LibraryProofs -----------------------------
(***************************************************************************)
(* The parts of the library that do not act on each other, as in           *)
(* MCLibrary, each for any values of its constants: the write buffer and   *)
(* the read-ahead of the I/O optimizer, the metadata records, the batch    *)
(* processor, the commands, the streaming processor, the patch files, the  *)
(* verifier and the worker pool; and at the end the types of them all.     *)
(***************************************************************************)
EXTENDS MCLibrary, DirDiffProofs, DeltaOpsProofs, SequenceTheorems, FiniteSetTheorems

-----------------------------------------------------------------------------
(* What the writers of one optimizer leave in their files.                 *)

FileBytes == WriteFiles \X Nat

WriteTypes ==
    /\ writer \in [WriteFiles -> {"none", "open", "closed"}]
    /\ content \in [WriteFiles -> Seq(FileBytes)]
    /\ written \in [WriteFiles -> Nat]
    /\ writeBuffer \in Seq(FileBytes)
    /\ shared \in BOOLEAN
    /\ flushFaults \in Nat

\* The first n bytes that the client writes to f.
Prefix(f, n) == [k \in 1..n |-> <<f, k>>]

\* The buffer is the one open writer's, and empty when there is none; every
\* other file is complete.
BufferOwned ==
    /\ \A f, g \in WriteFiles : writer[f] = "open" /\ writer[g] = "open" => f = g
    /\ (\A f \in WriteFiles : writer[f] # "open") => writeBuffer = <<>>
    /\ \A f \in WriteFiles :
          /\ writer[f] = "open" => content[f] \o writeBuffer = Prefix(f, written[f])
          /\ writer[f] # "open" => content[f] = Prefix(f, written[f])

WriteInv == WriteTypes /\ (~shared /\ flushFaults = 0 => BufferOwned)

-----------------------------------------------------------------------------
(* Sequences of bytes.                                                     *)

LEMMA PrefixType ==
    ASSUME NEW f \in WriteFiles, NEW n \in Nat
    PROVE  Prefix(f, n) \in Seq(FileBytes) /\ Len(Prefix(f, n)) = n
BY DEF Prefix, FileBytes

LEMMA FreshType ==
    ASSUME WriteTypes, NEW f \in WriteFiles, NEW n \in Nat
    PROVE  Fresh(f, n) \in Seq(FileBytes) /\ Len(Fresh(f, n)) = n
BY DEF Fresh, FileBytes, WriteTypes

LEMMA BytesAssociate ==
    ASSUME NEW s \in Seq(FileBytes), NEW t \in Seq(FileBytes), NEW u \in Seq(FileBytes)
    PROVE  s \o (t \o u) = (s \o t) \o u
BY ConcatAssociative, SMTT(20)

\* What is written next continues what was written before.
LEMMA FreshExtends ==
    ASSUME WriteTypes, NEW f \in WriteFiles, NEW n \in Nat
    PROVE  Prefix(f, written[f]) \o Fresh(f, n) = Prefix(f, written[f] + n)
<1>1. written[f] \in Nat /\ written[f] + n \in Nat
  BY DEF WriteTypes
<1> DEFINE p == Prefix(f, written[f])
           q == Fresh(f, n)
           r == Prefix(f, written[f] + n)
<1>2. /\ p \in Seq(FileBytes) /\ Len(p) = written[f]
      /\ q \in Seq(FileBytes) /\ Len(q) = n
      /\ r \in Seq(FileBytes) /\ Len(r) = written[f] + n
  BY <1>1, PrefixType, FreshType
<1>3. p \o q \in Seq(FileBytes) /\ Len(p \o q) = Len(r)
  BY <1>2, ConcatProperties
<1>4. ASSUME NEW i \in 1..Len(r)
      PROVE  (p \o q)[i] = r[i]
  <2>1. r[i] = <<f, i>>
    BY <1>2 DEF Prefix
  <2>2. (p \o q)[i] = IF i <= Len(p) THEN p[i] ELSE q[i - Len(p)]
    <3>1. i \in 1..(Len(p) + Len(q))
      BY <1>2
    <3> HIDE DEF p, q
    <3> QED
      BY <1>2, <3>1, ConcatProperties, Zenon
  <2>3. i <= Len(p) => p[i] = <<f, i>>
    BY <1>1, <1>2 DEF Prefix
  <2>4. ~(i <= Len(p)) => q[i - Len(p)] = <<f, i>>
    <3>1. ASSUME NEW j \in 1..n
          PROVE  q[j] = <<f, written[f] + j>>
      BY DEF Fresh
    <3>2. ~(i <= Len(p)) => i - Len(p) \in 1..n /\ written[f] + (i - Len(p)) = i
      BY <1>1, <1>2
    <3> QED
      BY <3>1, <3>2
  <2> QED
    BY <2>1, <2>2, <2>3, <2>4
<1> HIDE DEF p, q, r
<1>5. p \o q = r
  BY <1>2, <1>3, <1>4, SeqEqual
<1> QED
  BY <1>5 DEF p, q, r

-----------------------------------------------------------------------------
(* The steps.                                                              *)

LEMMA InitWrite == WriteInit => WriteInv
<1> SUFFICES ASSUME WriteInit
             PROVE  WriteInv
  OBVIOUS
<1>1. WriteTypes
  <2>1. <<>> \in Seq(FileBytes)
    OBVIOUS
  <2>2. content \in [WriteFiles -> Seq(FileBytes)] /\ writeBuffer \in Seq(FileBytes)
    BY <2>1 DEF WriteInit
  <2>3. writer \in [WriteFiles -> {"none", "open", "closed"}] /\ written \in [WriteFiles -> Nat]
    BY DEF WriteInit
  <2> QED
    BY <2>2, <2>3 DEF WriteInit, WriteTypes
<1>2. \A f \in WriteFiles : Prefix(f, 0) = <<>>
  BY PrefixType
<1>3. BufferOwned
  BY <1>2 DEF WriteInit, BufferOwned
<1> QED
  BY <1>1, <1>3 DEF WriteInv

LEMMA OpenKeeps ==
    ASSUME WriteInv, NEW f \in WriteFiles, OpenWriter(f)
    PROVE  WriteInv'
<1> USE DEF OpenWriter
<1>1. WriteTypes'
  BY DEF WriteInv, WriteTypes
<1>2. ASSUME ~shared', flushFaults' = 0
      PROVE  BufferOwned'
  <2>1. ~shared /\ \A g \in WriteFiles : writer[g] # "open"
    <3>1. shared' = (shared \/ \E g \in WriteFiles : writer[g] = "open")
      OBVIOUS
    <3> QED
      BY <1>2, <3>1, Zenon
  <2>2. BufferOwned /\ writeBuffer = <<>>
    BY <1>2, <2>1 DEF WriteInv, BufferOwned
  <2>3. content[f] \o writeBuffer = content[f]
    BY <2>2, ConcatEmptySeq DEF WriteInv, WriteTypes
  <2> QED
    BY <2>1, <2>2, <2>3 DEF BufferOwned, WriteInv, WriteTypes
<1> QED
  BY <1>1, <1>2 DEF WriteInv

\* After a flush the file is what was written to it, and only what the buffer
\* holds next is still to come.
LEMMA FlushCompletes ==
    ASSUME WriteInv, ~shared, flushFaults = 0, NEW f \in WriteFiles, writer[f] = "open",
           NEW next \in Seq(FileBytes), FlushTo(f, next)
    PROVE  /\ content' \in [WriteFiles -> Seq(FileBytes)] /\ writeBuffer' = next
           /\ content'[f] = Prefix(f, written[f])
           /\ \A g \in WriteFiles \ {f} :
                 writer[g] # "open" /\ content'[g] = Prefix(g, written[g])
BY DEF FlushTo, WriteInv, WriteTypes, BufferOwned

LEMMA FlushTypes ==
    ASSUME WriteTypes, NEW f \in WriteFiles, NEW next \in Seq(FileBytes), FlushTo(f, next)
    PROVE  content' \in [WriteFiles -> Seq(FileBytes)] /\ writeBuffer' = next
BY DEF FlushTo, WriteTypes

\* A failed flush is a fault, after which nothing is claimed.
LEMMA FailureTypes ==
    ASSUME WriteTypes, NEW f \in WriteFiles, FlushFails(f)
    PROVE  /\ content' \in [WriteFiles -> Seq(FileBytes)] /\ writeBuffer' = writeBuffer
           /\ flushFaults' \in Nat /\ flushFaults' # 0
<1>1. PICK n \in 0..Len(writeBuffer) :
        content' = [content EXCEPT ![f] = @ \o SubSeq(writeBuffer, 1, n)]
  BY DEF FlushFails
<1>2. SubSeq(writeBuffer, 1, n) \in Seq(FileBytes)
  BY DEF WriteTypes
<1>3. content' \in [WriteFiles -> Seq(FileBytes)]
  BY <1>1, <1>2 DEF WriteTypes
<1> QED
  BY <1>3 DEF FlushFails, WriteTypes

LEMMA BufferWriteKeeps ==
    ASSUME WriteInv, NEW f \in WriteFiles, NEW n \in 1..(BufferMax + 1), BufferWrite(f, n)
    PROVE  WriteInv'
<1>0. n \in Nat
  BY WriteBufferAssumption
<1>1. Fresh(f, n) \in Seq(FileBytes)
  BY <1>0, FreshType DEF WriteInv
<1>2. /\ writer[f] = "open" /\ writer' = writer /\ shared' = shared
      /\ written' = [written EXCEPT ![f] = @ + n]
  BY DEF BufferWrite
<1>3. written' \in [WriteFiles -> Nat]
  BY <1>0, <1>2 DEF WriteInv, WriteTypes
<1>4. CASE /\ writeBuffer' = writeBuffer \o Fresh(f, n)
           /\ UNCHANGED <<content, flushFaults>>
  <2>1. WriteTypes'
    BY <1>1, <1>2, <1>3, <1>4 DEF WriteInv, WriteTypes
  <2>2. ASSUME ~shared', flushFaults' = 0
        PROVE  BufferOwned'
    <3>1. BufferOwned
      BY <1>2, <1>4, <2>2 DEF WriteInv
    <3>2. content[f] \o (writeBuffer \o Fresh(f, n)) = (content[f] \o writeBuffer) \o Fresh(f, n)
      <4>1. content[f] \in Seq(FileBytes) /\ writeBuffer \in Seq(FileBytes)
        BY DEF WriteInv, WriteTypes
      <4> QED
        BY <1>1, <4>1, BytesAssociate
    <3>3. content'[f] \o writeBuffer' = Prefix(f, written'[f])
      <4>1. content[f] \o writeBuffer = Prefix(f, written[f])
        BY <1>2, <3>1 DEF BufferOwned
      <4>2. Prefix(f, written[f]) \o Fresh(f, n) = Prefix(f, written[f] + n)
        BY <1>0, FreshExtends DEF WriteInv
      <4>3. written'[f] = written[f] + n
        BY <1>2 DEF WriteInv, WriteTypes
      <4> QED
        BY <1>4, <3>2, <4>1, <4>2, <4>3
    <3>4. \A g \in WriteFiles \ {f} : writer'[g] # "open" /\ content'[g] = Prefix(g, written'[g])
      BY <1>2, <1>4, <3>1 DEF WriteInv, WriteTypes, BufferOwned
    <3> QED
      BY <1>2, <3>3, <3>4 DEF BufferOwned
  <2> QED
    BY <2>1, <2>2 DEF WriteInv
<1>5. CASE FlushTo(f, Fresh(f, n))
  <2>1. WriteTypes'
    BY <1>1, <1>2, <1>3, <1>5, FlushTypes DEF WriteInv, WriteTypes, FlushTo
  <2>2. ASSUME ~shared', flushFaults' = 0
        PROVE  BufferOwned'
    <3>1. /\ content'[f] = Prefix(f, written[f]) /\ writeBuffer' = Fresh(f, n)
          /\ \A g \in WriteFiles \ {f} :
                writer[g] # "open" /\ content'[g] = Prefix(g, written[g])
      BY <1>1, <1>2, <1>5, <2>2, FlushCompletes DEF FlushTo
    <3>2. content'[f] \o writeBuffer' = Prefix(f, written'[f])
      <4>1. Prefix(f, written[f]) \o Fresh(f, n) = Prefix(f, written[f] + n)
        BY <1>0, FreshExtends DEF WriteInv
      <4>2. written'[f] = written[f] + n
        BY <1>2 DEF WriteInv, WriteTypes
      <4> QED
        BY <3>1, <4>1, <4>2
    <3>3. \A g \in WriteFiles \ {f} : writer'[g] # "open" /\ content'[g] = Prefix(g, written'[g])
      BY <1>2, <3>1 DEF WriteInv, WriteTypes
    <3> QED
      BY <1>2, <3>2, <3>3 DEF BufferOwned
  <2> QED
    BY <2>1, <2>2 DEF WriteInv
<1> QED
  BY <1>4, <1>5 DEF BufferWrite

LEMMA SyncKeeps ==
    ASSUME WriteInv, NEW f \in WriteFiles, SyncWriter(f)
    PROVE  WriteInv'
<1>1. <<>> \in Seq(FileBytes)
  OBVIOUS
<1>2. WriteTypes'
  BY <1>1, FlushTypes DEF SyncWriter, FlushTo, WriteInv, WriteTypes
<1>3. ASSUME ~shared', flushFaults' = 0
      PROVE  BufferOwned'
  <2>1. /\ content'[f] = Prefix(f, written[f]) /\ writeBuffer' = <<>>
        /\ \A g \in WriteFiles \ {f} :
              writer[g] # "open" /\ content'[g] = Prefix(g, written[g])
    BY <1>1, <1>3, FlushCompletes DEF SyncWriter, FlushTo
  <2>2. content'[f] \o writeBuffer' = content'[f]
    BY <1>2, <2>1, ConcatEmptySeq DEF WriteTypes
  <2> QED
    BY <2>1, <2>2 DEF SyncWriter, BufferOwned
<1> QED
  BY <1>2, <1>3 DEF WriteInv

LEMMA CloseKeeps ==
    ASSUME WriteInv, NEW f \in WriteFiles, CloseWriter(f)
    PROVE  WriteInv'
<1>1. <<>> \in Seq(FileBytes)
  OBVIOUS
<1>2. /\ writer[f] = "open" /\ writer' = [writer EXCEPT ![f] = "closed"]
      /\ written' = written /\ shared' = shared
  BY DEF CloseWriter
<1>3. CASE FlushTo(f, <<>>)
  <2>1. WriteTypes'
    BY <1>1, <1>2, <1>3, FlushTypes DEF FlushTo, WriteInv, WriteTypes
  <2>2. ASSUME ~shared', flushFaults' = 0
        PROVE  BufferOwned'
    <3>1. /\ content'[f] = Prefix(f, written[f]) /\ writeBuffer' = <<>>
          /\ \A g \in WriteFiles \ {f} :
                writer[g] # "open" /\ content'[g] = Prefix(g, written[g])
      BY <1>1, <1>2, <1>3, <2>2, FlushCompletes DEF FlushTo
    <3>2. \A g \in WriteFiles : writer'[g] # "open"
      BY <1>2, <3>1 DEF WriteInv, WriteTypes
    <3> QED
      BY <1>2, <3>1, <3>2 DEF BufferOwned
  <2> QED
    BY <2>1, <2>2 DEF WriteInv
<1>4. CASE FlushFails(f)
  BY <1>2, <1>4, FailureTypes DEF WriteInv, WriteTypes
<1> QED
  BY <1>3, <1>4 DEF CloseWriter

LEMMA WriteFailureKeeps ==
    ASSUME WriteInv, NEW f \in WriteFiles, BufferWriteFails(f)
    PROVE  WriteInv'
BY FailureTypes DEF BufferWriteFails, WriteInv, WriteTypes

LEMMA WriteIsInductive == WriteSpec => []WriteInv
<1>1. WriteInv /\ [WriteNext]_writeVars => WriteInv'
  <2> SUFFICES ASSUME WriteInv, [WriteNext]_writeVars
               PROVE  WriteInv'
    OBVIOUS
  <2>1. CASE WriteNext
    BY <2>1, OpenKeeps, BufferWriteKeeps, SyncKeeps, CloseKeeps, WriteFailureKeeps DEF WriteNext
  <2>2. CASE UNCHANGED writeVars
    BY <2>2 DEF writeVars, WriteInv, WriteTypes, BufferOwned
  <2> QED
    BY <2>1, <2>2
<1> QED
  BY <1>1, InitWrite, PTL DEF WriteSpec

\* Until two writers are open at once or a flush fails, a file and what is
\* buffered for it are what was written to it, in order and once.
THEOREM FilesAreWhole == WriteSpec => []WrittenWhole
<1>1. WriteInv => WrittenWhole
  <2> SUFFICES ASSUME WriteInv, ~shared, flushFaults = 0, NEW f \in WriteFiles
               PROVE  content[f] \o (IF writer[f] = "open" THEN writeBuffer ELSE <<>>)
                        = Prefix(f, written[f])
    BY DEF WrittenWhole, Prefix
  <2>1. content[f] \o <<>> = content[f]
    BY ConcatEmptySeq DEF WriteInv, WriteTypes
  <2> QED
    BY <2>1 DEF WriteInv, BufferOwned
<1> QED
  BY <1>1, WriteIsInductive, PTL

-----------------------------------------------------------------------------
(* What a reader with read-ahead returns.                                  *)

ReadTypes ==
    /\ filePos \in [Readers -> Nat] /\ readCalls \in 0..MaxReads
    /\ prefetch \in [1..MaxReads -> {"none", "started", "read", "done"}]
    /\ prefetchBy \in [1..MaxReads -> Readers]
    /\ prefetchAt \in [1..MaxReads -> Nat]
    /\ cache \subseteq [key : Nat, file : ReadFiles, from : Nat]
    /\ lastRead \in [by : Readers, at : Nat, file : ReadFiles, from : Nat, len : Nat]
    /\ overtaken \in BOOLEAN

\* No goroutine belongs to a call that is still to come.
CallsAhead == \A i \in 1..MaxReads : i > readCalls => prefetch[i] = "none"

\* What is cached is a full block of a file that has been prefetched, under the
\* offset it comes from.
CacheSound ==
    /\ \A c \in cache : c.from = c.key /\ c.key + ReadAheadSize <= FileSize[c.file]
    /\ \A f \in ReadFiles : PrefetchedOnly(f) => \A c \in cache : c.file = f

\* A prefetch between its two looks has read at the position that the second
\* look will find.
PrefetchSound ==
    \A i \in 1..MaxReads :
        prefetch[i] = "read" =>
            /\ prefetchAt[i] = filePos[prefetchBy[i]]
            /\ filePos[prefetchBy[i]] + ReadAheadSize <= SizeFor(prefetchBy[i])

\* A reader whose file alone has been prefetched is in its file.
PositionsSound ==
    \A r \in Readers : PrefetchedOnly(FileOf[r]) => filePos[r] <= SizeFor(r)

LastSound == PrefetchedOnly(FileOf[lastRead.by]) => ReadsFile

ReadAheadInv ==
    /\ ReadTypes /\ CallsAhead
    /\ ~overtaken => CacheSound /\ PrefetchSound /\ PositionsSound /\ LastSound

LEMMA InitReadAhead == ReadInit => ReadAheadInv
<1> SUFFICES ASSUME ReadInit
             PROVE  ReadAheadInv
  OBVIOUS
<1>1. PICK r \in Readers :
         /\ prefetchBy = [i \in 1..MaxReads |-> r]
         /\ lastRead = [by |-> r, at |-> 0, file |-> FileOf[r], from |-> 0, len |-> 0]
  <2>1. (CHOOSE r \in Readers : TRUE) \in Readers
    BY ReadAheadAssumption
  <2> QED
    BY <2>1 DEF ReadInit
<1>2. FileOf \in [Readers -> ReadFiles] /\ \A q \in Readers : SizeFor(q) \in Nat
  BY ReadAheadAssumption DEF SizeFor
<1>3. ReadTypes
  <2>1. lastRead \in [by : Readers, at : Nat, file : ReadFiles, from : Nat, len : Nat]
    BY <1>1, <1>2
  <2>2. filePos \in [Readers -> Nat] /\ readCalls \in 0..MaxReads /\ cache = {}
    BY ReadAheadAssumption DEF ReadInit
  <2>3. prefetch \in [1..MaxReads -> {"none", "started", "read", "done"}]
    BY DEF ReadInit
  <2>4. prefetchAt \in [1..MaxReads -> Nat] /\ overtaken \in BOOLEAN
    BY DEF ReadInit
  <2>5. prefetchBy \in [1..MaxReads -> Readers]
    BY <1>1
  <2> QED
    BY <2>1, <2>2, <2>3, <2>4, <2>5 DEF ReadTypes
<1>4. CallsAhead /\ PrefetchSound /\ CacheSound
  BY DEF ReadInit, CallsAhead, PrefetchSound, CacheSound
<1>5. PositionsSound
  BY <1>2 DEF ReadInit, PositionsSound
<1>6. LastSound
  BY <1>1, <1>2 DEF LastSound, ReadsFile
<1> QED
  BY <1>3, <1>4, <1>5, <1>6 DEF ReadAheadInv

\* A Read of r, from the cache or from the file, starts no goroutine for another
\* file, keeps the position in the file and, as no prefetch of r is between its
\* looks when it moves, spoils none.
LEMMA ReadKeeps ==
    ASSUME ReadAheadInv, NEW r \in Readers, NEW n \in 1..SizeFor(r), ReadBytes(r, n)
    PROVE  ReadAheadInv'
<1> DEFINE at  == filePos[r]
           hit == CachedAt(at, n)
           len == IF hit # {} \/ at + n <= SizeFor(r) THEN n
                  ELSE IF at < SizeFor(r) THEN SizeFor(r) - at ELSE 0
<1>0. /\ FileOf \in [Readers -> ReadFiles] /\ \A q \in Readers : SizeFor(q) = FileSize[FileOf[q]]
      /\ \A q \in Readers : SizeFor(q) \in Nat
      /\ ReadAheadSize \in Nat \ {0} /\ MaxReads \in Nat
  BY ReadAheadAssumption DEF SizeFor
<1>1. len \in Nat /\ n \in Nat /\ at \in Nat
  BY <1>0 DEF ReadAheadInv, ReadTypes
<1>2. PICK c \in IF hit # {} THEN hit ELSE {[key |-> at, file |-> FileOf[r], from |-> at]} :
        lastRead' = [by |-> r, at |-> at, file |-> c.file, from |-> c.from, len |-> len]
  BY DEF ReadBytes
<1>3. c.file \in ReadFiles /\ c.from \in Nat
  BY <1>0, <1>1, <1>2 DEF ReadAheadInv, ReadTypes, CachedAt
<1>4. /\ filePos' = [filePos EXCEPT ![r] = at + len]
      /\ readCalls < MaxReads /\ readCalls' = readCalls + 1
      /\ cache' = cache /\ prefetchAt' = prefetchAt
      /\ prefetchBy' = [prefetchBy EXCEPT ![readCalls + 1] = r]
      /\ \E s \in {"started", "none"} : prefetch' = [prefetch EXCEPT ![readCalls + 1] = s]
  BY DEF ReadBytes
<1>5. readCalls \in Nat /\ readCalls + 1 \in 1..MaxReads
  BY <1>0, <1>4 DEF ReadAheadInv, ReadTypes
<1>6. ReadTypes'
  <2>1. overtaken' \in BOOLEAN
    BY DEF ReadBytes
  <2>2. lastRead' \in [by : Readers, at : Nat, file : ReadFiles, from : Nat, len : Nat]
    BY <1>1, <1>2, <1>3
  <2>3. filePos' \in [Readers -> Nat]
    BY <1>1, <1>4 DEF ReadAheadInv, ReadTypes
  <2>4. prefetch' \in [1..MaxReads -> {"none", "started", "read", "done"}]
    BY <1>4 DEF ReadAheadInv, ReadTypes
  <2>5. prefetchBy' \in [1..MaxReads -> Readers]
    BY <1>4 DEF ReadAheadInv, ReadTypes
  <2>6. readCalls' \in 0..MaxReads
    BY <1>4, <1>5
  <2>7. /\ prefetchAt' \in [1..MaxReads -> Nat]
        /\ cache' \subseteq [key : Nat, file : ReadFiles, from : Nat]
    BY <1>4 DEF ReadAheadInv, ReadTypes
  <2> QED
    BY <2>1, <2>2, <2>3, <2>4, <2>5, <2>6, <2>7 DEF ReadTypes
<1>7. CallsAhead'
  BY <1>0, <1>4, <1>5 DEF ReadAheadInv, ReadTypes, CallsAhead
<1>8. \A f : PrefetchedOnly(f)' => PrefetchedOnly(f)
  <2>1. prefetch[readCalls + 1] = "none"
    BY <1>5 DEF ReadAheadInv, CallsAhead
  <2>2. \A i \in 1..MaxReads : i # readCalls + 1 => prefetch'[i] = prefetch[i] /\ prefetchBy'[i] = prefetchBy[i]
    BY <1>4 DEF ReadAheadInv, ReadTypes
  <2> QED
    BY <2>1, <2>2 DEF PrefetchedOnly
<1>9. ASSUME ~overtaken'
      PROVE  CacheSound' /\ PrefetchSound' /\ PositionsSound' /\ LastSound'
  <2>1. ~overtaken /\ (len = 0 \/ ~Overtakes(r))
    <3>1. overtaken' = (overtaken \/ (len > 0 /\ Overtakes(r)))
      BY DEF ReadBytes
    <3>2. ~overtaken /\ ~(len > 0 /\ Overtakes(r))
      BY <1>9, <3>1, Zenon
    <3> QED
      BY <1>1, <3>2
  <2>2. CacheSound /\ PrefetchSound /\ PositionsSound /\ LastSound
    BY <2>1 DEF ReadAheadInv
  <2>3. CacheSound'
    BY <1>4, <1>8, <2>2 DEF CacheSound
  <2>4. PrefetchSound'
    <3> SUFFICES ASSUME NEW i \in 1..MaxReads, prefetch'[i] = "read"
                 PROVE  /\ prefetchAt'[i] = filePos'[prefetchBy'[i]]
                        /\ filePos'[prefetchBy'[i]] + ReadAheadSize <= SizeFor(prefetchBy'[i])
      BY DEF PrefetchSound, SizeFor
    <3>1. prefetch[i] = "read" /\ prefetchBy'[i] = prefetchBy[i] /\ prefetchBy[i] \in Readers
      BY <1>4, <1>5 DEF ReadAheadInv, ReadTypes
    <3>2. len = 0 \/ prefetchBy[i] # r
      BY <2>1, <3>1 DEF Overtakes
    <3>3. filePos'[prefetchBy[i]] = filePos[prefetchBy[i]]
      BY <1>1, <1>4, <3>1, <3>2 DEF ReadAheadInv, ReadTypes
    <3> QED
      BY <1>4, <2>2, <3>1, <3>3 DEF PrefetchSound
  <2>5. ASSUME PrefetchedOnly(FileOf[r])
        PROVE  c.file = FileOf[r] /\ c.from = at /\ at + len <= SizeFor(r)
    <3>1. at <= SizeFor(r)
      BY <2>2, <2>5 DEF PositionsSound
    <3>2. CASE hit # {}
      <4>1. c \in cache /\ c.key = at /\ n <= ReadAheadSize /\ len = n
        BY <1>2, <3>2 DEF CachedAt
      <4>2. c.file = FileOf[r] /\ c.from = at /\ at + ReadAheadSize <= FileSize[FileOf[r]]
        BY <1>0, <2>2, <2>5, <4>1 DEF CacheSound
      <4> QED
        BY <1>0, <1>1, <4>1, <4>2
    <3>3. CASE hit = {}
      <4>1. c.file = FileOf[r] /\ c.from = at
        BY <1>2, <3>3
      <4> QED
        BY <1>0, <1>1, <3>1, <3>3, <4>1
    <3> QED
      BY <3>2, <3>3
  <2>6. PositionsSound'
    <3> SUFFICES ASSUME NEW q \in Readers, PrefetchedOnly(FileOf[q])'
                 PROVE  filePos'[q] <= SizeFor(q)
      BY DEF PositionsSound, SizeFor
    <3>1. PrefetchedOnly(FileOf[q])
      BY <1>8
    <3>2. CASE q = r
      BY <1>4, <2>5, <3>1, <3>2 DEF ReadAheadInv, ReadTypes
    <3>3. CASE q # r
      BY <1>4, <2>2, <3>1, <3>3 DEF ReadAheadInv, ReadTypes, PositionsSound
    <3> QED
      BY <3>2, <3>3
  <2>7. LastSound'
    <3>1. lastRead'.by = r /\ lastRead'.at = at /\ lastRead'.file = c.file
          /\ lastRead'.from = c.from /\ lastRead'.len = len
      BY <1>2
    <3>2. PrefetchedOnly(FileOf[r])' => PrefetchedOnly(FileOf[r])
      BY <1>8
    <3>3. ReadsFile' <=> /\ c.file = FileOf[r] /\ c.from = at
                         /\ at + len <= SizeFor(r)
      BY <3>1 DEF ReadsFile, SizeFor
    <3>4. LastSound' <=> (PrefetchedOnly(FileOf[r])' => ReadsFile')
      BY <3>1 DEF LastSound, PrefetchedOnly
    <3> QED
      BY <2>5, <3>2, <3>3, <3>4
  <2> QED
    BY <2>3, <2>4, <2>6, <2>7
<1> QED
  BY <1>6, <1>7, <1>9 DEF ReadAheadInv

LEMMA SeekKeeps ==
    ASSUME ReadAheadInv, NEW r \in Readers, NEW pos \in 0..SizeFor(r), SeekTo(r, pos)
    PROVE  ReadAheadInv'
<1>0. \A q \in Readers : SizeFor(q) \in Nat
  BY ReadAheadAssumption DEF SizeFor
<1>1. /\ filePos' = [filePos EXCEPT ![r] = pos]
      /\ readCalls < MaxReads /\ readCalls' = readCalls + 1
      /\ overtaken' = (overtaken \/ Overtakes(r))
      /\ UNCHANGED <<prefetch, prefetchBy, prefetchAt, cache, lastRead>>
  BY DEF SeekTo
<1>2. pos \in Nat /\ pos <= SizeFor(r) /\ MaxReads \in Nat
  BY <1>0, ReadAheadAssumption
<1>3. ReadTypes' /\ CallsAhead'
  BY <1>1, <1>2 DEF ReadAheadInv, ReadTypes, CallsAhead
<1>4. ASSUME ~overtaken'
      PROVE  CacheSound' /\ PrefetchSound' /\ PositionsSound' /\ LastSound'
  <2>1. ~overtaken /\ ~Overtakes(r)
    BY <1>1, <1>4, Zenon
  <2>2. \A f : PrefetchedOnly(f)' = PrefetchedOnly(f)
    BY <1>1 DEF PrefetchedOnly
  <2>3. CacheSound'
    BY <1>1, <2>1, <2>2 DEF ReadAheadInv, CacheSound
  <2>4. PrefetchSound'
    BY <1>1, <2>1 DEF ReadAheadInv, ReadTypes, Overtakes, PrefetchSound, SizeFor
  <2>5. PositionsSound'
    BY <1>1, <1>2, <2>1, <2>2 DEF ReadAheadInv, ReadTypes, PositionsSound, SizeFor
  <2>6. LastSound'
    BY <1>1, <2>1, <2>2 DEF ReadAheadInv, LastSound, ReadsFile, SizeFor
  <2> QED
    BY <2>3, <2>4, <2>5, <2>6
<1> QED
  BY <1>3, <1>4 DEF ReadAheadInv

\* A step of a goroutine.
LEMMA PrefetchKeeps ==
    ASSUME ReadAheadInv, NEW i \in 1..MaxReads,
           PrefetchRead(i) \/ PrefetchFails(i) \/ PrefetchPut(i)
    PROVE  ReadAheadInv'
<1> DEFINE r == prefetchBy[i]
<1>0. /\ r \in Readers /\ filePos[r] \in Nat /\ FileOf[r] \in ReadFiles
      /\ SizeFor(r) = FileSize[FileOf[r]]
  BY ReadAheadAssumption DEF ReadAheadInv, ReadTypes, SizeFor
<1>1. /\ prefetch[i] \in {"started", "read"}
      /\ \E s \in {"read", "done"} : prefetch' = [prefetch EXCEPT ![i] = s]
      /\ UNCHANGED <<filePos, readCalls, prefetchBy, lastRead, overtaken>>
  BY DEF PrefetchRead, PrefetchFails, PrefetchPut
<1>2. \A f : PrefetchedOnly(f)' = PrefetchedOnly(f)
  BY <1>1 DEF ReadAheadInv, ReadTypes, PrefetchedOnly
<1>3. \/ prefetchAt' = [prefetchAt EXCEPT ![i] = filePos[r]] /\ cache' = cache
         /\ prefetch' = [prefetch EXCEPT ![i] =
                            IF filePos[r] + ReadAheadSize <= SizeFor(r) THEN "read" ELSE "done"]
      \/ UNCHANGED <<prefetchAt, cache>> /\ prefetch' = [prefetch EXCEPT ![i] = "done"]
      \/ /\ prefetch[i] = "read" /\ prefetchAt' = prefetchAt
         /\ prefetch' = [prefetch EXCEPT ![i] = "done"]
         /\ cache' = {[key |-> filePos[r], file |-> FileOf[r], from |-> prefetchAt[i]]}
  BY DEF PrefetchRead, PrefetchFails, PrefetchPut
<1>4. ReadTypes' /\ CallsAhead'
  <2>1. ReadTypes'
    <3>1. prefetch' \in [1..MaxReads -> {"none", "started", "read", "done"}]
      BY <1>1 DEF ReadAheadInv, ReadTypes
    <3>2. prefetchAt' \in [1..MaxReads -> Nat]
      BY <1>0, <1>3 DEF ReadAheadInv, ReadTypes
    <3>3. cache' \subseteq [key : Nat, file : ReadFiles, from : Nat]
      <4>1. prefetchAt[i] \in Nat
        BY DEF ReadAheadInv, ReadTypes
      <4> QED
        BY <1>0, <1>3, <4>1 DEF ReadAheadInv, ReadTypes
    <3> QED
      BY <1>1, <3>1, <3>2, <3>3 DEF ReadAheadInv, ReadTypes
  <2>2. CallsAhead'
    BY <1>1 DEF ReadAheadInv, ReadTypes, CallsAhead
  <2> QED
    BY <2>1, <2>2
<1>5. ASSUME ~overtaken
      PROVE  CacheSound' /\ PrefetchSound' /\ PositionsSound' /\ LastSound'
  <2>1. CacheSound /\ PrefetchSound /\ PositionsSound /\ LastSound
    BY <1>5 DEF ReadAheadInv
  <2>2. CacheSound'
    <3>1. CASE cache' = cache
      BY <1>2, <2>1, <3>1 DEF CacheSound
    <3>2. CASE /\ prefetch[i] = "read"
               /\ cache' = {[key |-> filePos[r], file |-> FileOf[r], from |-> prefetchAt[i]]}
      <4>1. prefetchAt[i] = filePos[r] /\ filePos[r] + ReadAheadSize <= SizeFor(r)
        BY <2>1, <3>2 DEF PrefetchSound
      <4>2. \A f : PrefetchedOnly(f) => FileOf[r] = f
        BY <3>2 DEF PrefetchedOnly
      <4> QED
        BY <1>0, <1>2, <3>2, <4>1, <4>2 DEF CacheSound
    <3> QED
      BY <1>3, <3>1, <3>2
  <2>3. PrefetchSound'
    <3> SUFFICES ASSUME NEW j \in 1..MaxReads, prefetch'[j] = "read"
                 PROVE  /\ prefetchAt'[j] = filePos[prefetchBy[j]]
                        /\ filePos[prefetchBy[j]] + ReadAheadSize <= SizeFor(prefetchBy[j])
      BY <1>1 DEF PrefetchSound, SizeFor
    <3>1. CASE j = i
      BY <1>3, <3>1 DEF ReadAheadInv, ReadTypes
    <3>2. CASE j # i
      <4>1. prefetch[j] = "read" /\ prefetchAt'[j] = prefetchAt[j]
        BY <1>3, <3>2 DEF ReadAheadInv, ReadTypes
      <4> QED
        BY <2>1, <4>1 DEF PrefetchSound
    <3> QED
      BY <3>1, <3>2
  <2>4. PositionsSound' /\ LastSound'
    BY <1>1, <1>2, <2>1 DEF PositionsSound, LastSound, ReadsFile, SizeFor
  <2> QED
    BY <2>2, <2>3, <2>4
<1> QED
  BY <1>1, <1>4, <1>5 DEF ReadAheadInv

LEMMA ReadAheadIsInductive == ReadSpec => []ReadAheadInv
<1>1. ReadAheadInv /\ [ReadNext]_readVars => ReadAheadInv'
  <2> SUFFICES ASSUME ReadAheadInv, [ReadNext]_readVars
               PROVE  ReadAheadInv'
    OBVIOUS
  <2>1. CASE ReadNext
    BY <2>1, ReadKeeps, SeekKeeps, PrefetchKeeps DEF ReadNext
  <2>2. CASE UNCHANGED readVars
    <3>1. \A f : PrefetchedOnly(f)' = PrefetchedOnly(f)
      BY <2>2 DEF readVars, PrefetchedOnly
    <3> QED
      BY <2>2, <3>1 DEF readVars, ReadAheadInv, ReadTypes, CallsAhead, ReadsFile, CacheSound,
         PrefetchSound, PositionsSound, LastSound, SizeFor
  <2> QED
    BY <2>1, <2>2
<1> QED
  BY <1>1, InitReadAhead, PTL DEF ReadSpec

\* The types of the readers' state.
THEOREM ReaderTypes == ReadSpec => []ReadTypeOK
<1>1. ReadAheadInv => ReadTypeOK
  BY DEF ReadAheadInv, ReadTypes, ReadTypeOK
<1> QED
  BY <1>1, ReadAheadIsInductive, PTL

\* As long as no reader moves between a prefetch's two looks at its position
\* and only its own file has been prefetched, Read returns its file's bytes at
\* its position, from the cache or not.
THEOREM ReadsTheFile == ReadSpec => []ReadsFileUnlessOvertaken
<1>1. ReadAheadInv => ReadsFileUnlessOvertaken
  BY DEF ReadAheadInv, ReadTypes, PositionsSound, LastSound, ReadsFileUnlessOvertaken
<1> QED
  BY <1>1, ReadAheadIsInductive, PTL

-----------------------------------------------------------------------------
(* What a metadata record holds, whatever records patches share.           *)

MetadataTypes ==
    /\ MetadataTypeOK
    /\ loaded \in [Updates -> SUBSET Updates]
    /\ metadataFaults \in Nat

\* The updates of record r that have returned without error.
Saved(r) == {u \in Updates : RecordOf(u) = r /\ updateStep[u] = "ok"}

\* One update at a time has a record in its hands; it has read what was saved
\* before; and a file is empty only between that update's two writes.
RecordHeld(r) ==
    /\ stored[r] = Saved(r)
    /\ \A u, v \in Between(r) : u = v
    /\ \A u \in Between(r) : loaded[u] = Saved(r) \cup {u}
    /\ r \in torn => \E u \in Between(r) : updateStep[u] = "writing"

MetadataInv == MetadataTypes /\ \A r \in Records \ disturbed : RecordHeld(r)

LEMMA RecordsAreNamed == \A u \in Updates : RecordOf(u) \in Records
BY DEF RecordOf, Records, Patches

LEMMA InitMetadata == MetadataInit => MetadataInv
BY DEF MetadataInit, MetadataInv, MetadataTypes, MetadataTypeOK, RecordHeld, Saved, Between

LEMMA LoadKeeps ==
    ASSUME MetadataInv, NEW u \in Updates, LoadMetadata(u)
    PROVE  MetadataInv'
<1> USE DEF LoadMetadata, MetadataTypes, MetadataTypeOK
<1>1. LoadedFrom(RecordOf(u)) \subseteq Updates
  BY RecordsAreNamed DEF MetadataInv, LoadedFrom
<1>2. MetadataTypes'
  BY <1>1, RecordsAreNamed DEF MetadataInv
<1>3. ASSUME NEW r \in Records \ disturbed'
      PROVE  RecordHeld(r)'
  <2>1. RecordHeld(r) /\ Saved(r)' = Saved(r) /\ stored'[r] = stored[r]
    BY <1>3 DEF MetadataInv, Saved
  <2>2. CASE RecordOf(u) = r
    <3>1. Between(r) = {} /\ Between(r)' = {u}
      BY <1>3, <2>2 DEF MetadataInv, Between
    <3>2. LoadedFrom(r) = Saved(r) /\ r \notin torn
      BY <2>1, <3>1 DEF RecordHeld, LoadedFrom
    <3> QED
      BY <2>1, <2>2, <3>1, <3>2 DEF RecordHeld, MetadataInv
  <2>3. CASE RecordOf(u) # r
    <3>1. Between(r)' = Between(r) /\ u \notin Between(r)
      BY <2>3 DEF MetadataInv, Between
    <3>2. \A v \in Between(r) : loaded'[v] = loaded[v] /\ updateStep'[v] = updateStep[v]
      BY <3>1 DEF MetadataInv, Between
    <3> QED
      BY <2>1, <3>1, <3>2 DEF RecordHeld
  <2> QED
    BY <2>2, <2>3
<1> QED
  BY <1>2, <1>3 DEF MetadataInv

\* An update that does not read the record disturbs it, and no other.
LEMMA LoadFailureKeeps ==
    ASSUME MetadataInv, NEW u \in Updates, LoadFails(u)
    PROVE  MetadataInv'
<1> USE DEF LoadFails, MetadataTypes, MetadataTypeOK
<1>1. MetadataTypes'
  BY RecordsAreNamed DEF MetadataInv
<1>2. ASSUME NEW r \in Records \ disturbed'
      PROVE  RecordHeld(r)'
  <2>1. RecordHeld(r) /\ RecordOf(u) # r /\ Saved(r)' = Saved(r)
    BY <1>2 DEF MetadataInv, Saved
  <2>2. Between(r)' = Between(r) /\ u \notin Between(r)
    BY <2>1 DEF MetadataInv, Between
  <2>3. \A v \in Between(r) : loaded'[v] = loaded[v] /\ updateStep'[v] = updateStep[v]
    BY <2>2 DEF MetadataInv, Between
  <2> QED
    BY <2>1, <2>2, <2>3 DEF RecordHeld
<1> QED
  BY <1>1, <1>2 DEF MetadataInv

LEMMA EmptyKeeps ==
    ASSUME MetadataInv, NEW u \in Updates, EmptyRecord(u)
    PROVE  MetadataInv'
<1> USE DEF EmptyRecord, MetadataTypes, MetadataTypeOK
<1>1. MetadataTypes'
  BY RecordsAreNamed DEF MetadataInv
<1>2. ASSUME NEW r \in Records \ disturbed'
      PROVE  RecordHeld(r)'
  <2>1. RecordHeld(r) /\ Saved(r)' = Saved(r) /\ Between(r)' = Between(r)
    BY <1>2 DEF MetadataInv, Saved, Between
  <2>2. \A v \in Between(r) : updateStep[v] = "writing" => updateStep'[v] = "writing"
    BY DEF MetadataInv, Between
  <2>3. RecordOf(u) = r => u \in Between(r)' /\ updateStep'[u] = "writing"
    BY DEF MetadataInv, Between
  <2>4. r \in torn' => r \in torn \/ RecordOf(u) = r
    OBVIOUS
  <2> QED
    BY <2>1, <2>2, <2>3, <2>4 DEF RecordHeld
<1> QED
  BY <1>1, <1>2 DEF MetadataInv

\* The update that writes a record back is the only one that has it.
LEMMA SaveKeeps ==
    ASSUME MetadataInv, NEW u \in Updates, SaveMetadata(u)
    PROVE  MetadataInv'
<1> USE DEF SaveMetadata, MetadataTypes, MetadataTypeOK
<1>1. MetadataTypes'
  BY RecordsAreNamed DEF MetadataInv
<1>2. ASSUME NEW r \in Records \ disturbed'
      PROVE  RecordHeld(r)'
  <2>1. RecordHeld(r)
    BY <1>2 DEF MetadataInv
  <2>2. CASE RecordOf(u) = r
    <3>1. Between(r) = {u} /\ Between(r)' = {}
      BY <2>1, <2>2 DEF MetadataInv, RecordHeld, Between
    <3>2. Saved(r)' = Saved(r) \cup {u} /\ loaded[u] = Saved(r) \cup {u}
      BY <2>1, <2>2, <3>1 DEF MetadataInv, RecordHeld, Saved
    <3>3. stored'[r] = loaded[u] /\ r \notin torn'
      BY <1>2, <2>2 DEF MetadataInv
    <3> QED
      BY <3>1, <3>2, <3>3 DEF RecordHeld
  <2>3. CASE RecordOf(u) # r
    <3>1. Between(r)' = Between(r) /\ u \notin Between(r) /\ Saved(r)' = Saved(r)
      BY <2>3 DEF MetadataInv, Between, Saved
    <3>2. \A v \in Between(r) : updateStep'[v] = updateStep[v]
      BY <3>1 DEF MetadataInv, Between
    <3>3. stored'[r] = stored[r] /\ (r \in torn' => r \in torn)
      BY <1>2, <2>3 DEF MetadataInv
    <3> QED
      BY <2>1, <3>1, <3>2, <3>3 DEF RecordHeld
  <2> QED
    BY <2>2, <2>3
<1> QED
  BY <1>1, <1>2 DEF MetadataInv

LEMMA FaultKeeps ==
    ASSUME MetadataInv, NEW u \in Updates, SaveFails(u)
    PROVE  MetadataInv'
<1> USE DEF SaveFails, MetadataTypes, MetadataTypeOK
<1>1. MetadataTypes'
  BY RecordsAreNamed DEF MetadataInv
<1>2. ASSUME NEW r \in Records \ disturbed'
      PROVE  RecordHeld(r)'
  <2>1. RecordHeld(r) /\ Saved(r)' = Saved(r) /\ Between(r)' = Between(r) \ {u}
    BY <1>2 DEF MetadataInv, Saved, Between
  <2>2. RecordOf(u) = r => updateStep[u] = "loaded"
    BY <1>2 DEF MetadataInv
  <2>3. \A v \in Between(r)' : updateStep'[v] = updateStep[v]
    BY DEF MetadataInv, Between
  <2>4. u \in Between(r) => RecordOf(u) = r
    BY DEF Between
  <2> QED
    BY <2>1, <2>2, <2>3, <2>4 DEF RecordHeld
<1> QED
  BY <1>1, <1>2 DEF MetadataInv

LEMMA DeleteKeeps ==
    ASSUME MetadataInv, NEW r \in Records, DeleteMetadata(r)
    PROVE  MetadataInv'
<1> USE DEF DeleteMetadata, MetadataTypes, MetadataTypeOK
<1>1. MetadataTypes'
  BY DEF MetadataInv
<1>2. ASSUME NEW s \in Records \ disturbed'
      PROVE  RecordHeld(s)'
  <2>1. RecordHeld(s) /\ s # r
    BY <1>2 DEF MetadataInv
  <2>2. Saved(s)' = Saved(s) /\ Between(s)' = Between(s) /\ stored'[s] = stored[s]
    BY <1>2, <2>1 DEF MetadataInv, Saved, Between
  <2> QED
    BY <2>1, <2>2 DEF RecordHeld
<1> QED
  BY <1>1, <1>2 DEF MetadataInv

LEMMA MetadataIsInductive == MetadataSpec => []MetadataInv
<1>1. MetadataInv /\ [MetadataNext]_metadataVars => MetadataInv'
  <2> SUFFICES ASSUME MetadataInv, [MetadataNext]_metadataVars
               PROVE  MetadataInv'
    OBVIOUS
  <2>1. CASE MetadataNext
    BY <2>1, LoadKeeps, LoadFailureKeeps, EmptyKeeps, SaveKeeps, FaultKeeps, DeleteKeeps DEF MetadataNext
  <2>2. CASE UNCHANGED metadataVars
    BY <2>2 DEF metadataVars, MetadataInv, MetadataTypes, MetadataTypeOK, RecordHeld,
                Saved, Between
  <2> QED
    BY <2>1, <2>2
<1> QED
  BY <1>1, InitMetadata, PTL DEF MetadataSpec

\* A record that nobody deleted, cut off, failed to read or read between
\* another's read and write holds exactly the updates that returned without
\* error.
THEOREM RecordsKeepUpdates == MetadataSpec => []UpdatesKept
<1>1. MetadataInv => UpdatesKept
  BY DEF MetadataInv, RecordHeld, Saved, UpdatesKept
<1> QED
  BY <1>1, MetadataIsInductive, PTL

-----------------------------------------------------------------------------
(* Where the jobs of a batch processor are.                                *)

BatchTypes ==
    /\ batchBuffer \in Seq(BatchJobs)
    /\ accepted \in Seq(Seq(BatchJobs))
    /\ refused \subseteq Seq(BatchJobs)
    /\ answer \in [BatchJobs -> {"none", "nil", "error"}]

AcceptedAt(j) == {i \in DOMAIN accepted : InBatch(accepted[i], j)}
RefusedIn(j)  == {b \in refused : InBatch(b, j)}
BufferedAt(j) == {i \in DOMAIN batchBuffer : batchBuffer[i] = j}

\* One place in all, counted without cardinalities.
OnePlaceOf(A, R, B) ==
    \/ (\E x : A = {x}) /\ R = {} /\ B = {}
    \/ A = {} /\ (\E x : R = {x}) /\ B = {}
    \/ A = {} /\ R = {} /\ \E x : B = {x}

JobKept(j) ==
    /\ answer[j] = "none"  => AcceptedAt(j) = {} /\ RefusedIn(j) = {} /\ BufferedAt(j) = {}
    /\ answer[j] # "none"  => OnePlaceOf(AcceptedAt(j), RefusedIn(j), BufferedAt(j))
    /\ answer[j] = "error" => RefusedIn(j) # {}

BatchInv == BatchTypes /\ \A j \in BatchJobs : JobKept(j)

LEMMA InitBatch == BatchInit => BatchInv
<1> SUFFICES ASSUME BatchInit
             PROVE  BatchInv
  OBVIOUS
<1>1. BatchTypes
  BY DEF BatchInit, BatchTypes
<1>2. ASSUME NEW j \in BatchJobs
      PROVE  JobKept(j)
  BY DEF BatchInit, JobKept, AcceptedAt, RefusedIn, BufferedAt
<1> QED
  BY <1>1, <1>2 DEF BatchInv

\* The places of a job after its batch, s, has been handed to Submit.
LEMMA SubmitPlaces ==
    ASSUME BatchTypes, NEW s \in Seq(BatchJobs), SubmitBatch(s), NEW j \in BatchJobs
    PROVE  /\ BufferedAt(j)' = {}
           /\ ~InBatch(s, j) => AcceptedAt(j)' = AcceptedAt(j) /\ RefusedIn(j)' = RefusedIn(j)
           /\ InBatch(s, j) /\ BatchFits =>
                 /\ AcceptedAt(j)' = AcceptedAt(j) \cup {Len(accepted) + 1}
                 /\ RefusedIn(j)' = RefusedIn(j)
           /\ InBatch(s, j) /\ ~BatchFits =>
                 /\ AcceptedAt(j)' = AcceptedAt(j)
                 /\ RefusedIn(j)' = RefusedIn(j) \cup {s}
<1> USE DEF SubmitBatch
<1>1. BufferedAt(j)' = {}
  BY DEF KeptAfter, BufferedAt
<1>2. CASE BatchFits
  <2>1. accepted' = Append(accepted, s) /\ refused' = refused
    BY <1>2
  <2>2. /\ Len(accepted) \in Nat /\ DOMAIN accepted = 1..Len(accepted)
        /\ DOMAIN accepted' = 1..(Len(accepted) + 1)
        /\ \A i \in 1..Len(accepted) : accepted'[i] = accepted[i]
        /\ accepted'[Len(accepted) + 1] = s
    BY <2>1, LenProperties, AppendProperties DEF BatchTypes
  <2>3. RefusedIn(j)' = RefusedIn(j)
    BY <2>1 DEF RefusedIn
  <2>4. AcceptedAt(j)' = IF InBatch(s, j) THEN AcceptedAt(j) \cup {Len(accepted) + 1} ELSE AcceptedAt(j)
    BY <2>2 DEF AcceptedAt
  <2> QED
    BY <1>1, <1>2, <2>3, <2>4
<1>3. CASE ~BatchFits
  <2>1. accepted' = accepted /\ refused' = refused \cup {s}
    BY <1>3
  <2>2. AcceptedAt(j)' = AcceptedAt(j)
    BY <2>1 DEF AcceptedAt
  <2>3. RefusedIn(j)' = IF InBatch(s, j) THEN RefusedIn(j) \cup {s} ELSE RefusedIn(j)
    BY <2>1 DEF RefusedIn
  <2> QED
    BY <1>1, <1>3, <2>2, <2>3
<1> QED
  BY <1>2, <1>3

LEMMA SubmitTypes ==
    ASSUME BatchTypes, NEW s \in Seq(BatchJobs), SubmitBatch(s),
           answer' \in [BatchJobs -> {"none", "nil", "error"}]
    PROVE  BatchTypes'
<1>1. batchBuffer' \in Seq(BatchJobs)
  BY DEF SubmitBatch, KeptAfter
<1>2. accepted' \in Seq(Seq(BatchJobs))
  BY AppendProperties DEF SubmitBatch, BatchTypes
<1>3. refused' \subseteq Seq(BatchJobs)
  BY DEF SubmitBatch, BatchTypes
<1> QED
  BY <1>1, <1>2, <1>3 DEF BatchTypes

LEMMA FlushBatchKeeps ==
    ASSUME BatchInv, FlushBatch
    PROVE  BatchInv'
<1>1. BatchTypes /\ batchBuffer \in Seq(BatchJobs) /\ SubmitBatch(batchBuffer) /\ answer' = answer
  BY DEF BatchInv, BatchTypes, FlushBatch
<1>2. BatchTypes'
  BY <1>1, SubmitTypes DEF BatchTypes
<1>3. ASSUME NEW j \in BatchJobs
      PROVE  JobKept(j)'
  <2>1. JobKept(j)
    BY DEF BatchInv
  <2>2. InBatch(batchBuffer, j) <=> BufferedAt(j) # {}
    BY DEF InBatch, BufferedAt
  <2>3. CASE BufferedAt(j) = {}
    <3>1. /\ AcceptedAt(j)' = AcceptedAt(j) /\ RefusedIn(j)' = RefusedIn(j)
          /\ BufferedAt(j)' = BufferedAt(j)
      BY <1>1, <2>2, <2>3, SubmitPlaces
    <3> QED
      BY <1>1, <2>1, <3>1 DEF JobKept
  <2>4. CASE BufferedAt(j) # {}
    <3>1. answer[j] # "none" /\ answer[j] # "error" /\ AcceptedAt(j) = {} /\ RefusedIn(j) = {}
      BY <2>1, <2>4 DEF JobKept, OnePlaceOf
    <3>2. OnePlaceOf(AcceptedAt(j)', RefusedIn(j)', BufferedAt(j)')
      <4>1. CASE BatchFits
        BY <1>1, <2>2, <2>4, <3>1, <4>1, SubmitPlaces DEF OnePlaceOf
      <4>2. CASE ~BatchFits
        BY <1>1, <2>2, <2>4, <3>1, <4>2, SubmitPlaces, ZenonT(30) DEF OnePlaceOf
      <4> QED
        BY <4>1, <4>2
    <3>3. OnePlaceOf(AcceptedAt(j), RefusedIn(j), BufferedAt(j))'
      BY <3>2 DEF OnePlaceOf
    <3> QED
      BY <1>1, <3>1, <3>3 DEF JobKept
  <2> QED
    BY <2>3, <2>4
<1> QED
  BY <1>2, <1>3 DEF BatchInv

LEMMA AddJobKeeps ==
    ASSUME BatchInv, NEW j \in BatchJobs, AddJob(j)
    PROVE  BatchInv'
<1> DEFINE jobs == Append(batchBuffer, j)
<1>1. BatchTypes /\ answer[j] = "none"
  BY DEF BatchInv, AddJob
<1>2. /\ Len(batchBuffer) \in Nat /\ jobs \in Seq(BatchJobs)
      /\ DOMAIN batchBuffer = 1..Len(batchBuffer) /\ DOMAIN jobs = 1..(Len(batchBuffer) + 1)
      /\ \A i \in 1..Len(batchBuffer) : jobs[i] = batchBuffer[i]
      /\ jobs[Len(batchBuffer) + 1] = j
  BY <1>1, LenProperties, AppendProperties DEF BatchTypes
<1> HIDE DEF jobs
<1>3. AcceptedAt(j) = {} /\ RefusedIn(j) = {} /\ BufferedAt(j) = {}
  BY <1>1 DEF BatchInv, JobKept
<1>4. \A k \in BatchJobs : InBatch(jobs, k) <=> k = j \/ BufferedAt(k) # {}
  BY <1>2 DEF InBatch, BufferedAt
<1>5. \A k \in BatchJobs : JobKept(k)
  BY DEF BatchInv
<1>6. CASE Len(jobs) >= BatchSize
  <2>1. SubmitBatch(jobs) /\ answer' = [answer EXCEPT ![j] = IF BatchFits THEN "nil" ELSE "error"]
    BY <1>6 DEF AddJob, jobs
  <2>2. BatchTypes'
    BY <1>1, <1>2, <2>1, SubmitTypes DEF BatchTypes
  <2>3. ASSUME NEW k \in BatchJobs
        PROVE  JobKept(k)'
    <3>1. answer'[k] = IF k = j THEN (IF BatchFits THEN "nil" ELSE "error") ELSE answer[k]
      BY <1>1, <2>1 DEF BatchTypes
    <3>2. CASE ~InBatch(jobs, k)
      <4>1. k # j /\ BufferedAt(k) = {}
        BY <1>4, <3>2
      <4>2. /\ AcceptedAt(k)' = AcceptedAt(k) /\ RefusedIn(k)' = RefusedIn(k)
            /\ BufferedAt(k)' = BufferedAt(k)
        BY <1>1, <1>2, <2>1, <3>2, <4>1, SubmitPlaces
      <4> QED
        BY <1>5, <3>1, <4>1, <4>2 DEF JobKept
    <3>3. CASE InBatch(jobs, k)
      <4>1. AcceptedAt(k) = {} /\ RefusedIn(k) = {} /\ (k # j => answer[k] = "nil")
        BY <1>1, <1>3, <1>4, <1>5, <3>3 DEF JobKept, OnePlaceOf, BatchTypes
      <4>2. CASE BatchFits
        <5>1. AcceptedAt(k)' = {Len(accepted) + 1} /\ RefusedIn(k)' = {} /\ BufferedAt(k)' = {}
          BY <1>1, <1>2, <2>1, <3>3, <4>1, <4>2, SubmitPlaces
        <5>2. OnePlaceOf(AcceptedAt(k), RefusedIn(k), BufferedAt(k))'
          BY <5>1 DEF OnePlaceOf
        <5> QED
          BY <3>1, <4>1, <4>2, <5>2 DEF JobKept
      <4>3. CASE ~BatchFits
        <5>1. AcceptedAt(k)' = {} /\ RefusedIn(k)' = {jobs} /\ BufferedAt(k)' = {}
          BY <1>1, <1>2, <2>1, <3>3, <4>1, <4>3, SubmitPlaces
        <5>2. OnePlaceOf(AcceptedAt(k), RefusedIn(k), BufferedAt(k))'
          BY <5>1 DEF OnePlaceOf
        <5> QED
          BY <3>1, <4>1, <4>3, <5>1, <5>2 DEF JobKept
      <4> QED
        BY <4>2, <4>3
    <3> QED
      BY <3>2, <3>3
  <2> QED
    BY <2>2, <2>3 DEF BatchInv
<1>7. CASE ~(Len(jobs) >= BatchSize)
  <2>1. /\ batchBuffer' = jobs /\ answer' = [answer EXCEPT ![j] = "nil"]
        /\ UNCHANGED <<accepted, refused>>
    BY <1>7 DEF AddJob, jobs
  <2>2. BatchTypes'
    BY <1>1, <1>2, <2>1 DEF BatchTypes
  <2>3. ASSUME NEW k \in BatchJobs
        PROVE  JobKept(k)'
    <3>1. AcceptedAt(k)' = AcceptedAt(k) /\ RefusedIn(k)' = RefusedIn(k)
      BY <2>1 DEF AcceptedAt, RefusedIn
    <3>2. CASE k = j
      <4>1. BufferedAt(k)' = {Len(batchBuffer) + 1}
        BY <1>2, <1>3, <2>1, <3>2 DEF BufferedAt
      <4>2. OnePlaceOf(AcceptedAt(k), RefusedIn(k), BufferedAt(k))'
        BY <1>3, <3>1, <3>2, <4>1 DEF OnePlaceOf
      <4> QED
        BY <1>1, <2>1, <3>2, <4>2 DEF JobKept, BatchTypes
    <3>3. CASE k # j
      <4>1. BufferedAt(k)' = BufferedAt(k)
        BY <1>2, <2>1, <3>3 DEF BufferedAt
      <4>2. answer'[k] = answer[k]
        BY <1>1, <2>1, <3>3 DEF BatchTypes
      <4> QED
        BY <1>5, <3>1, <4>1, <4>2 DEF JobKept
    <3> QED
      BY <3>2, <3>3
  <2> QED
    BY <2>2, <2>3 DEF BatchInv
<1> QED
  BY <1>6, <1>7

LEMMA OnePlaceCounted ==
    ASSUME NEW A, NEW R, NEW B, OnePlaceOf(A, R, B)
    PROVE  Cardinality(A) + Cardinality(R) + Cardinality(B) = 1
<1>1. Cardinality({}) = 0 /\ \A x : Cardinality({x}) = 1
  BY FS_EmptySet, FS_Singleton
<1>2. \/ Cardinality(A) = 1 /\ Cardinality(R) = 0 /\ Cardinality(B) = 0
      \/ Cardinality(A) = 0 /\ Cardinality(R) = 1 /\ Cardinality(B) = 0
      \/ Cardinality(A) = 0 /\ Cardinality(R) = 0 /\ Cardinality(B) = 1
  BY <1>1, Zenon DEF OnePlaceOf
<1> QED
  BY <1>2

LEMMA BatchIsInductive == BatchSpec => []BatchInv
<1>1. BatchInv /\ [BatchNext]_batchVars => BatchInv'
  <2> SUFFICES ASSUME BatchInv, [BatchNext]_batchVars
               PROVE  BatchInv'
    OBVIOUS
  <2>1. CASE BatchNext
    BY <2>1, FlushBatchKeeps, AddJobKeeps DEF BatchNext
  <2>2. CASE UNCHANGED batchVars
    BY <2>2 DEF batchVars, BatchInv, BatchTypes, JobKept, AcceptedAt, RefusedIn, BufferedAt
  <2> QED
    BY <2>1, <2>2
<1> QED
  BY <1>1, InitBatch, PTL DEF BatchSpec

\* Whatever sizes the batch and the queue have: a job that was added is in one
\* place, and no job whose AddJob returned an error will be processed.
THEOREM BatchLosesOnlyRefused == BatchSpec => []BatchKept
<1>1. BatchInv => BatchKept
  <2> SUFFICES ASSUME BatchInv, NEW j \in BatchJobs
               PROVE  /\ Cardinality(AcceptedAt(j)) + Cardinality(RefusedIn(j))
                            + Cardinality(BufferedAt(j))
                          = IF answer[j] = "none" THEN 0 ELSE 1
                      /\ answer[j] = "error" => AcceptedAt(j) = {}
    BY DEF BatchKept, AcceptedAt, RefusedIn, BufferedAt
  <2>1. JobKept(j)
    BY DEF BatchInv
  <2>2. Cardinality({}) = 0 /\ \A x : Cardinality({x}) = 1
    BY FS_EmptySet, FS_Singleton
  <2>3. OnePlaceOf(AcceptedAt(j), RefusedIn(j), BufferedAt(j)) =>
          Cardinality(AcceptedAt(j)) + Cardinality(RefusedIn(j)) + Cardinality(BufferedAt(j)) = 1
    BY OnePlaceCounted
  <2>4. answer[j] = "error" => AcceptedAt(j) = {}
    BY <2>1 DEF JobKept, OnePlaceOf
  <2> QED
    BY <2>1, <2>2, <2>3, <2>4 DEF JobKept
<1> QED
  BY <1>1, BatchIsInductive, PTL

-----------------------------------------------------------------------------
(* What a command leaves on disk.                                          *)

\* What a step owes to the files, given its exit code.
KeepsFiles ==
    /\ lastRun'.exit \in {Exit.argument, Exit.notFound, Exit.read, Exit.validation} =>
           UNCHANGED <<disk, backups>>
    /\ lastRun'.exit \in {Exit.unknown, Exit.config} =>
           \A n \in Names : disk[n] # Nothing => disk'[n] = disk[n]

AllNamed == DOMAIN disk = Names

LEMMA LeftAlone ==
    ASSUME AllNamed, Leaves
    PROVE  KeepsFiles /\ AllNamed'
BY DEF Leaves, KeepsFiles, AllNamed

LEMMA RefusedLeaves ==
    ASSUME AllNamed, NEW command, NEW paths, NEW exit, Refused(command, paths, exit)
    PROVE  KeepsFiles /\ AllNamed'
BY LeftAlone DEF Refused

LEMMA RanExits ==
    ASSUME NEW command, NEW paths, NEW exit, Ran(command, paths, exit)
    PROVE  lastRun'.exit = exit
BY DEF Ran

\* A run that returns success or a failure of its work may write.
LEMMA WritingRuns ==
    ASSUME AllNamed, NEW command, NEW paths,
           NEW exit \in {Exit.ok, Exit.generation, Exit.application}, Ran(command, paths, exit),
           NEW n, NEW c, disk' = [disk EXCEPT ![n] = c]
    PROVE  KeepsFiles /\ AllNamed'
BY RanExits DEF KeepsFiles, AllNamed, Exit

\* One that returns an error of the configuration or without a code may make
\* a file where there was nothing.
LEMMA NewFiles ==
    ASSUME AllNamed, NEW command, NEW paths,
           NEW exit \in {Exit.unknown, Exit.config}, Ran(command, paths, exit),
           \/ UNCHANGED disk
           \/ \E n \in Names, c \in {Nothing, Stub, Mixed} :
                 disk[n] = Nothing /\ disk' = [disk EXCEPT ![n] = c]
    PROVE  KeepsFiles /\ AllNamed'
BY RanExits DEF KeepsFiles, AllNamed, Exit

\* For any files and directories at any paths: a command or call that returns
\* an argument, not-found, read or validation error has changed nothing, and
\* one that returns a configuration error or none of the codes has changed no
\* path that held something.
THEOREM RefusalsLeaveTheDisk == CommandSpec => RefusalsKeepFiles
<1> DEFINE Harmless == KeepsFiles /\ AllNamed'
<1>1. ASSUME AllNamed, NEW a \in Names, NEW b \in Names, NEW c \in Names,
             Diff(a, b, c) \/ DirDiff(a, b, c)
      PROVE  Harmless
  BY <1>1, RefusedLeaves, WritingRuns DEF Diff, DirDiff, Writes, WriteFails
<1>2. ASSUME AllNamed, NEW a \in Names, NEW b \in Names, NEW c \in Names, ApplyTo(a, b, c)
      PROVE  Harmless
  BY <1>2, RefusedLeaves, WritingRuns, NewFiles DEF ApplyTo
<1>3. ASSUME AllNamed, NEW a \in Names, NEW b \in Names, Apply(a, b)
      PROVE  Harmless
  BY <1>3, RefusedLeaves, WritingRuns DEF Apply, ApplyEntries, RejectPatch, Writes
<1>4. ASSUME AllNamed, NEW a \in Names, Validate(a) \/ Info(a) \/ Sign(a)
      PROVE  Harmless
  BY <1>4, RefusedLeaves DEF Validate, Info, Sign
<1>5. ASSUME AllNamed, InitConfig \/ GlobalOption \/ Shows
      PROVE  Harmless
  <2>1. CASE InitConfig
    BY <1>5, <2>1, RefusedLeaves, WritingRuns, NewFiles, CommandAssumption
       DEF InitConfig, Writes, WriteFails
  <2>2. CASE GlobalOption
    BY <1>5, <2>2, LeftAlone, NewFiles DEF GlobalOption, Writes
  <2>3. CASE Shows
    BY <1>5, <2>3, RefusedLeaves DEF Shows
  <2> QED
    BY <1>5, <2>1, <2>2, <2>3
<1>6. CommandInit => AllNamed
  BY DisksAssumption DEF CommandInit, AllNamed
<1>7. AllNamed /\ [CommandNext]_commandVars => AllNamed' /\ [KeepsFiles]_commandVars
  <2>1. ASSUME AllNamed, CommandNext PROVE Harmless
    BY <2>1, <1>1, <1>2, <1>3, <1>4, <1>5 DEF CommandNext
  <2>2. ASSUME AllNamed, UNCHANGED commandVars PROVE AllNamed'
    BY <2>2 DEF commandVars, AllNamed
  <2> QED
    BY <2>1, <2>2
<1>8. [][KeepsFiles]_commandVars => RefusalsKeepFiles
  BY DEF KeepsFiles, RefusalsKeepFiles
<1> QED
  BY <1>6, <1>7, <1>8, PTL DEF CommandSpec

-----------------------------------------------------------------------------
(* What a call of ProcessFile without an error has done, for any files,    *)
(* any numbers of workers and calls and any size of the cache.             *)

Stages == {"off", "idle", "looking", "processing", "sending", "exited"}
ReaderSteps == {"queued", "checking", "sending", "draining", "aborting", "returned", "failed"}

\* The keys of the chunks that the client's function was called with.
SeenKeys == {KeyOf(s[1], s[2]) : s \in seen}

Handled(f, k) == <<f, k>> \in seen \/ (enableCache = "on" /\ KeyOf(f, k) \in SeenKeys)

StreamTypes ==
    /\ enableCache \in {"unset", "on", "off"} /\ cancelled \in BOOLEAN
    /\ reader \in [Inputs -> ReaderSteps]
    /\ streamSent \in [Inputs -> Nat] /\ streamTaken \in [Inputs -> Nat]
    /\ chunk \in [Inputs -> [StreamWorkers -> Nat]]
    /\ stage \in [Inputs -> [StreamWorkers -> Stages]]

\* The chunks are sent and taken in order, and all are sent before the reader
\* ends normally.
Sending ==
    \A f \in Inputs :
        /\ streamTaken[f] <= streamSent[f] /\ streamSent[f] <= Len(Chunks[f])
        /\ StreamWorkers = {} => streamSent[f] = 0
        /\ reader[f] = "queued" => streamSent[f] = 0
        /\ reader[f] = "sending" => streamSent[f] < Len(Chunks[f])
        /\ reader[f] = "draining" => streamSent[f] = Len(Chunks[f])

\* What the cache has came from the client's function, and is only looked at
\* when the cache is on.
Caching ==
    /\ lru \in Seq(SeenKeys)
    /\ \A f \in Inputs, w \in StreamWorkers : stage[f][w] = "looking" => enableCache = "on"

\* A chunk that was taken is handled or a worker has it.
Taking ==
    \A f \in Inputs : \A k \in 1..streamTaken[f] :
        \/ Handled(f, k)
        \/ \E w \in StreamWorkers :
              stage[f][w] \in {"looking", "processing"} /\ chunk[f][w] = k

\* Before Stop a worker leaves only when nothing is left to take.
Leaving ==
    \A f \in Inputs, w \in StreamWorkers :
        stage[f][w] = "exited" /\ ~cancelled =>
            JobsClosed(f) /\ streamTaken[f] = streamSent[f]

StreamInv == StreamTypes /\ Sending /\ Caching /\ Taking /\ Leaving /\ NilMeansProcessed

LEMMA ChunksTyped ==
    \A f \in Inputs :
        /\ Chunks[f] \in Seq(1..ChunkSize) /\ Len(Chunks[f]) \in Nat
        /\ DOMAIN Chunks[f] = 1..Len(Chunks[f])
BY StreamAssumption

\* A chunk that is not full is the last one.
LEMMA ShortIsLast ==
    ASSUME NEW f \in Inputs, NEW k \in 1..Len(Chunks[f]), Chunks[f][k] < ChunkSize
    PROVE  k = Len(Chunks[f])
<1>1. Len(Chunks[f]) \in Nat
  BY ChunksTyped
<1>2. ASSUME k # Len(Chunks[f])
      PROVE  FALSE
  <2>1. k \in 1..(Len(Chunks[f]) - 1)
    BY <1>1, <1>2
  <2>2. Chunks[f][k] = ChunkSize /\ ChunkSize \in Nat
    BY <2>1, StreamAssumption
  <2> QED
    BY <2>2
<1> QED
  BY <1>2

LEMMA NoSlots == StreamWorkers = {} => Slots = 0
BY FS_EmptySet DEF Slots

LEMMA SlotsTyped == Slots \in Nat
BY StreamAssumption, FS_CardinalityType DEF Slots

\* The cache's list: a key moves to the front, and the oldest one leaves.
LEMMA TouchType ==
    ASSUME NEW S, NEW s \in Seq(S), NEW key \in S
    PROVE  Touch(s, key) \in Seq(S)
<1>1. Without(s, key) \in Seq(S)
  <2> DEFINE i == CHOOSE i \in DOMAIN s : s[i] = key
  <2>1. CASE Has(s, key)
    <3>1. i \in 1..Len(s)
      BY <2>1 DEF Has
    <3> HIDE DEF i
    <3>2. SubSeq(s, 1, i - 1) \in Seq(S) /\ SubSeq(s, i + 1, Len(s)) \in Seq(S)
      BY <3>1
    <3> QED
      BY <2>1, <3>2 DEF Without, i
  <2>2. CASE ~Has(s, key)
    BY <2>2 DEF Without
  <2> QED
    BY <2>1, <2>2
<1>2. <<key>> \in Seq(S)
  OBVIOUS
<1> QED
  BY <1>1, <1>2 DEF Touch

LEMMA StoredType ==
    ASSUME NEW S, NEW s \in Seq(S), NEW key \in S
    PROVE  Stored(s, key) \in Seq(S)
<1> DEFINE t == Touch(s, key)
<1>1. t \in Seq(S)
  BY TouchType
<1> HIDE DEF t
<1>2. SubSeq(t, 1, Len(t) - 1) \in Seq(S) \/ ~(Len(t) > CacheSize)
  BY <1>1, StreamAssumption
<1> QED
  BY <1>1, <1>2 DEF Stored, t

-----------------------------------------------------------------------------
LEMMA InitStream == StreamInit => StreamInv
<1> SUFFICES ASSUME StreamInit
             PROVE  StreamInv
  OBVIOUS
<1> USE DEF StreamInit
<1>1. StreamTypes
  BY DEF StreamTypes, Stages, ReaderSteps
<1>2. Sending
  BY ChunksTyped DEF Sending
<1>3. Caching /\ Taking /\ Leaving /\ NilMeansProcessed
  BY DEF Caching, Taking, Leaving, NilMeansProcessed
<1> QED
  BY <1>1, <1>2, <1>3 DEF StreamInv

\* Every step keeps the types.
LEMMA TypesKept ==
    ASSUME StreamInv, [StreamNext]_streamVars
    PROVE  StreamTypes'
<1> USE DEF StreamInv, StreamTypes, Stages, ReaderSteps
<1>1. CASE NewStreamProcessor
  BY <1>1 DEF NewStreamProcessor
<1>2. CASE StopStream
  BY <1>2 DEF StopStream
<1>3. ASSUME NEW f \in Inputs, OpenInput(f)
       PROVE  StreamTypes'
  BY <1>3 DEF OpenInput
<1>4. ASSUME NEW f \in Inputs, OpenFails(f)
       PROVE  StreamTypes'
  BY <1>4 DEF OpenFails
<1>5. ASSUME NEW f \in Inputs, ReadChunk(f)
       PROVE  StreamTypes'
  BY <1>5 DEF ReadChunk
<1>6. ASSUME NEW f \in Inputs, ReadFails(f)
       PROVE  StreamTypes'
  BY <1>6 DEF ReadFails
<1>7. ASSUME NEW f \in Inputs, SendChunk(f)
       PROVE  StreamTypes'
  BY <1>7 DEF SendChunk
<1>8. ASSUME NEW f \in Inputs, GiveUp(f)
       PROVE  StreamTypes'
  BY <1>8 DEF GiveUp
<1>9. ASSUME NEW f \in Inputs, ReturnFrom(f)
       PROVE  StreamTypes'
  BY <1>9 DEF ReturnFrom
<1>10. ASSUME NEW f \in Inputs, Collect(f)
       PROVE  StreamTypes'
  BY <1>10 DEF Collect
<1>11. ASSUME NEW f \in Inputs, EndCollector(f)
       PROVE  StreamTypes'
  BY <1>11 DEF EndCollector
<1>12. ASSUME NEW f \in Inputs, NEW w \in StreamWorkers, TakeChunk(f, w)
       PROVE  StreamTypes'
  BY <1>12 DEF TakeChunk
<1>13. ASSUME NEW f \in Inputs, NEW w \in StreamWorkers, LookUp(f, w)
       PROVE  StreamTypes'
  BY <1>13 DEF LookUp
<1>14. ASSUME NEW f \in Inputs, NEW w \in StreamWorkers, ProcessChunk(f, w)
       PROVE  StreamTypes'
  BY <1>14 DEF ProcessChunk
<1>15. ASSUME NEW f \in Inputs, NEW w \in StreamWorkers, SendStreamResult(f, w)
       PROVE  StreamTypes'
  BY <1>15 DEF SendStreamResult
<1>16. ASSUME NEW f \in Inputs, NEW w \in StreamWorkers, ExitStreamWorker(f, w)
       PROVE  StreamTypes'
  BY <1>16 DEF ExitStreamWorker
<1>17. CASE UNCHANGED streamVars
  BY <1>17 DEF streamVars
<1> QED
  BY <1>1, <1>2, <1>3, <1>4, <1>5, <1>6, <1>7, <1>8, <1>9,
     <1>10, <1>11, <1>12, <1>13, <1>14, <1>15, <1>16, <1>17
     DEF StreamNext, Call, Collecting, StreamWorker

\* Chunks are sent in order, and the reader only drains when all are sent.
LEMMA SendingKept ==
    ASSUME StreamInv, [StreamNext]_streamVars
    PROVE  Sending'
<1> USE ChunksTyped, StreamAssumption DEF StreamInv, StreamTypes, Sending
<1>1. CASE NewStreamProcessor
  BY <1>1 DEF NewStreamProcessor
<1>2. CASE StopStream
  BY <1>2 DEF StopStream
<1>3. ASSUME NEW f \in Inputs, OpenInput(f)
       PROVE  Sending'
  BY <1>3 DEF OpenInput
<1>4. ASSUME NEW f \in Inputs, OpenFails(f)
       PROVE  Sending'
  BY <1>4 DEF OpenFails
<1>5. ASSUME NEW f \in Inputs, ReadChunk(f)
       PROVE  Sending'
  BY <1>5 DEF ReadChunk
<1>6. ASSUME NEW f \in Inputs, ReadFails(f)
       PROVE  Sending'
  BY <1>6 DEF ReadFails
<1>7. ASSUME NEW f \in Inputs, SendChunk(f)
       PROVE  Sending'
  <2>1. StreamWorkers # {}
    BY <1>7, NoSlots DEF SendChunk
  <2>2. streamSent[f] < Len(Chunks[f]) /\ streamSent[f] + 1 \in 1..Len(Chunks[f])
    BY <1>7 DEF SendChunk
  <2>3. Chunks[f][streamSent[f] + 1] < ChunkSize => streamSent[f] + 1 = Len(Chunks[f])
    BY <2>2, ShortIsLast
  <2>4. /\ streamSent' = [streamSent EXCEPT ![f] = @ + 1] /\ streamTaken' = streamTaken
        /\ reader' = [reader EXCEPT ![f] =
               IF Chunks[f][streamSent[f] + 1] < ChunkSize THEN "draining" ELSE "checking"]
    BY <1>7 DEF SendChunk
  <2> QED
    BY <2>1, <2>2, <2>3, <2>4, SMTT(20)
<1>8. ASSUME NEW f \in Inputs, GiveUp(f)
       PROVE  Sending'
  BY <1>8 DEF GiveUp
<1>9. ASSUME NEW f \in Inputs, ReturnFrom(f)
       PROVE  Sending'
  BY <1>9 DEF ReturnFrom
<1>10. ASSUME NEW f \in Inputs, Collect(f)
       PROVE  Sending'
  BY <1>10 DEF Collect
<1>11. ASSUME NEW f \in Inputs, EndCollector(f)
       PROVE  Sending'
  BY <1>11 DEF EndCollector
<1>12. ASSUME NEW f \in Inputs, NEW w \in StreamWorkers, TakeChunk(f, w)
       PROVE  Sending'
  BY <1>12, SMTT(20) DEF TakeChunk
<1>13. ASSUME NEW f \in Inputs, NEW w \in StreamWorkers, LookUp(f, w)
       PROVE  Sending'
  BY <1>13 DEF LookUp
<1>14. ASSUME NEW f \in Inputs, NEW w \in StreamWorkers, ProcessChunk(f, w)
       PROVE  Sending'
  BY <1>14 DEF ProcessChunk
<1>15. ASSUME NEW f \in Inputs, NEW w \in StreamWorkers, SendStreamResult(f, w)
       PROVE  Sending'
  BY <1>15 DEF SendStreamResult
<1>16. ASSUME NEW f \in Inputs, NEW w \in StreamWorkers, ExitStreamWorker(f, w)
       PROVE  Sending'
  BY <1>16 DEF ExitStreamWorker
<1>17. CASE UNCHANGED streamVars
  BY <1>17 DEF streamVars
<1> QED
  BY <1>1, <1>2, <1>3, <1>4, <1>5, <1>6, <1>7, <1>8, <1>9,
     <1>10, <1>11, <1>12, <1>13, <1>14, <1>15, <1>16, <1>17
     DEF StreamNext, Call, Collecting, StreamWorker

\* Nothing that is seen is forgotten, and the cache stays on or off.
LEMMA SeenGrows ==
    ASSUME StreamInv, [StreamNext]_streamVars
    PROVE  seen \subseteq seen' /\ (enableCache = "on" => enableCache' = "on")
<1>1. CASE NewStreamProcessor
  BY <1>1 DEF NewStreamProcessor
<1>2. CASE StopStream
  BY <1>2 DEF StopStream
<1>3. ASSUME NEW f \in Inputs, OpenInput(f)
       PROVE  seen \subseteq seen' /\ (enableCache = "on" => enableCache' = "on")
  BY <1>3 DEF OpenInput
<1>4. ASSUME NEW f \in Inputs, OpenFails(f)
       PROVE  seen \subseteq seen' /\ (enableCache = "on" => enableCache' = "on")
  BY <1>4 DEF OpenFails
<1>5. ASSUME NEW f \in Inputs, ReadChunk(f)
       PROVE  seen \subseteq seen' /\ (enableCache = "on" => enableCache' = "on")
  BY <1>5 DEF ReadChunk
<1>6. ASSUME NEW f \in Inputs, ReadFails(f)
       PROVE  seen \subseteq seen' /\ (enableCache = "on" => enableCache' = "on")
  BY <1>6 DEF ReadFails
<1>7. ASSUME NEW f \in Inputs, SendChunk(f)
       PROVE  seen \subseteq seen' /\ (enableCache = "on" => enableCache' = "on")
  BY <1>7 DEF SendChunk
<1>8. ASSUME NEW f \in Inputs, GiveUp(f)
       PROVE  seen \subseteq seen' /\ (enableCache = "on" => enableCache' = "on")
  BY <1>8 DEF GiveUp
<1>9. ASSUME NEW f \in Inputs, ReturnFrom(f)
       PROVE  seen \subseteq seen' /\ (enableCache = "on" => enableCache' = "on")
  BY <1>9 DEF ReturnFrom
<1>10. ASSUME NEW f \in Inputs, Collect(f)
       PROVE  seen \subseteq seen' /\ (enableCache = "on" => enableCache' = "on")
  BY <1>10 DEF Collect
<1>11. ASSUME NEW f \in Inputs, EndCollector(f)
       PROVE  seen \subseteq seen' /\ (enableCache = "on" => enableCache' = "on")
  BY <1>11 DEF EndCollector
<1>12. ASSUME NEW f \in Inputs, NEW w \in StreamWorkers, TakeChunk(f, w)
       PROVE  seen \subseteq seen' /\ (enableCache = "on" => enableCache' = "on")
  BY <1>12 DEF TakeChunk
<1>13. ASSUME NEW f \in Inputs, NEW w \in StreamWorkers, LookUp(f, w)
       PROVE  seen \subseteq seen' /\ (enableCache = "on" => enableCache' = "on")
  BY <1>13 DEF LookUp
<1>14. ASSUME NEW f \in Inputs, NEW w \in StreamWorkers, ProcessChunk(f, w)
       PROVE  seen \subseteq seen' /\ (enableCache = "on" => enableCache' = "on")
  BY <1>14 DEF ProcessChunk
<1>15. ASSUME NEW f \in Inputs, NEW w \in StreamWorkers, SendStreamResult(f, w)
       PROVE  seen \subseteq seen' /\ (enableCache = "on" => enableCache' = "on")
  BY <1>15 DEF SendStreamResult
<1>16. ASSUME NEW f \in Inputs, NEW w \in StreamWorkers, ExitStreamWorker(f, w)
       PROVE  seen \subseteq seen' /\ (enableCache = "on" => enableCache' = "on")
  BY <1>16 DEF ExitStreamWorker
<1>17. CASE UNCHANGED streamVars
  BY <1>17 DEF streamVars
<1> QED
  BY <1>1, <1>2, <1>3, <1>4, <1>5, <1>6, <1>7, <1>8, <1>9,
     <1>10, <1>11, <1>12, <1>13, <1>14, <1>15, <1>16, <1>17
     DEF StreamNext, Call, Collecting, StreamWorker

\* So what is handled stays handled.
LEMMA HandledStays ==
    ASSUME StreamInv, [StreamNext]_streamVars
    PROVE  /\ SeenKeys \subseteq SeenKeys'
           /\ \A f \in Inputs, k \in Nat : Handled(f, k) => Handled(f, k)'
<1>1. SeenKeys \subseteq SeenKeys'
  BY SeenGrows DEF SeenKeys, KeyOf
<1> QED
  BY <1>1, SeenGrows DEF Handled, KeyOf

\* The cache holds only keys of chunks that were processed.
LEMMA CacheKept ==
    ASSUME StreamInv, [StreamNext]_streamVars
    PROVE  lru' \in Seq(SeenKeys')
<1>a. Seq(SeenKeys) \subseteq Seq(SeenKeys')
  BY HandledStays, SeqMonotonic
<1>b. lru \in Seq(SeenKeys)
  BY DEF StreamInv, Caching
<1>1. CASE NewStreamProcessor
  BY <1>1, <1>a, <1>b DEF NewStreamProcessor
<1>2. CASE StopStream
  BY <1>2, <1>a, <1>b DEF StopStream
<1>3. ASSUME NEW f \in Inputs, OpenInput(f)
       PROVE  lru' \in Seq(SeenKeys')
  BY <1>3, <1>a, <1>b DEF OpenInput
<1>4. ASSUME NEW f \in Inputs, OpenFails(f)
       PROVE  lru' \in Seq(SeenKeys')
  BY <1>4, <1>a, <1>b DEF OpenFails
<1>5. ASSUME NEW f \in Inputs, ReadChunk(f)
       PROVE  lru' \in Seq(SeenKeys')
  BY <1>5, <1>a, <1>b DEF ReadChunk
<1>6. ASSUME NEW f \in Inputs, ReadFails(f)
       PROVE  lru' \in Seq(SeenKeys')
  BY <1>6, <1>a, <1>b DEF ReadFails
<1>7. ASSUME NEW f \in Inputs, SendChunk(f)
       PROVE  lru' \in Seq(SeenKeys')
  BY <1>7, <1>a, <1>b DEF SendChunk
<1>8. ASSUME NEW f \in Inputs, GiveUp(f)
       PROVE  lru' \in Seq(SeenKeys')
  BY <1>8, <1>a, <1>b DEF GiveUp
<1>9. ASSUME NEW f \in Inputs, ReturnFrom(f)
       PROVE  lru' \in Seq(SeenKeys')
  BY <1>9, <1>a, <1>b DEF ReturnFrom
<1>10. ASSUME NEW f \in Inputs, Collect(f)
       PROVE  lru' \in Seq(SeenKeys')
  BY <1>10, <1>a, <1>b DEF Collect
<1>11. ASSUME NEW f \in Inputs, EndCollector(f)
       PROVE  lru' \in Seq(SeenKeys')
  BY <1>11, <1>a, <1>b DEF EndCollector
<1>12. ASSUME NEW f \in Inputs, NEW w \in StreamWorkers, TakeChunk(f, w)
       PROVE  lru' \in Seq(SeenKeys')
  BY <1>12, <1>a, <1>b DEF TakeChunk
<1>13. ASSUME NEW f \in Inputs, NEW w \in StreamWorkers, LookUp(f, w)
       PROVE  lru' \in Seq(SeenKeys')
  <2> DEFINE key == KeyOf(f, chunk[f][w])
  <2>1. Has(lru, key) => key \in SeenKeys
    BY <1>b DEF Has
  <2> HIDE DEF key
  <2>2. lru' = IF Has(lru, key) THEN Touch(lru, key) ELSE lru
    BY <1>13 DEF LookUp, key
  <2>3. Has(lru, key) => Touch(lru, key) \in Seq(SeenKeys)
    BY <1>b, <2>1, TouchType
  <2> QED
    BY <1>a, <1>b, <2>2, <2>3
<1>14. ASSUME NEW f \in Inputs, NEW w \in StreamWorkers, ProcessChunk(f, w)
       PROVE  lru' \in Seq(SeenKeys')
  <2> DEFINE key == KeyOf(f, chunk[f][w])
  <2>1. key \in SeenKeys'
    <3>1. <<f, chunk[f][w]>> \in seen'
      BY <1>14 DEF ProcessChunk
    <3> QED
      BY <3>1 DEF SeenKeys, KeyOf
  <2> HIDE DEF key
  <2>2. lru' = IF enableCache = "on" THEN Stored(lru, key) ELSE lru
    BY <1>14 DEF ProcessChunk, key
  <2>3. lru \in Seq(SeenKeys')
    BY <1>a, <1>b
  <2>4. Stored(lru, key) \in Seq(SeenKeys')
    BY <2>1, <2>3, StoredType
  <2> QED
    BY <2>2, <2>3, <2>4
<1>15. ASSUME NEW f \in Inputs, NEW w \in StreamWorkers, SendStreamResult(f, w)
       PROVE  lru' \in Seq(SeenKeys')
  BY <1>15, <1>a, <1>b DEF SendStreamResult
<1>16. ASSUME NEW f \in Inputs, NEW w \in StreamWorkers, ExitStreamWorker(f, w)
       PROVE  lru' \in Seq(SeenKeys')
  BY <1>16, <1>a, <1>b DEF ExitStreamWorker
<1>17. CASE UNCHANGED streamVars
  BY <1>17, <1>a, <1>b DEF streamVars
<1> QED
  BY <1>1, <1>2, <1>3, <1>4, <1>5, <1>6, <1>7, <1>8, <1>9,
     <1>10, <1>11, <1>12, <1>13, <1>14, <1>15, <1>16, <1>17
     DEF StreamNext, Call, Collecting, StreamWorker

\* A worker looks into the cache only when there is one.
LEMMA LookingCached ==
    ASSUME StreamInv, [StreamNext]_streamVars
    PROVE  \A g \in Inputs, v \in StreamWorkers : stage'[g][v] = "looking" => enableCache' = "on"
<1> USE DEF StreamInv, StreamTypes, Caching
<1>1. CASE NewStreamProcessor
  BY <1>1 DEF NewStreamProcessor
<1>2. CASE StopStream
  BY <1>2 DEF StopStream
<1>3. ASSUME NEW f \in Inputs, OpenInput(f)
       PROVE  \A g \in Inputs, v \in StreamWorkers : stage'[g][v] = "looking" => enableCache' = "on"
  BY <1>3 DEF OpenInput
<1>4. ASSUME NEW f \in Inputs, OpenFails(f)
       PROVE  \A g \in Inputs, v \in StreamWorkers : stage'[g][v] = "looking" => enableCache' = "on"
  BY <1>4 DEF OpenFails
<1>5. ASSUME NEW f \in Inputs, ReadChunk(f)
       PROVE  \A g \in Inputs, v \in StreamWorkers : stage'[g][v] = "looking" => enableCache' = "on"
  BY <1>5 DEF ReadChunk
<1>6. ASSUME NEW f \in Inputs, ReadFails(f)
       PROVE  \A g \in Inputs, v \in StreamWorkers : stage'[g][v] = "looking" => enableCache' = "on"
  BY <1>6 DEF ReadFails
<1>7. ASSUME NEW f \in Inputs, SendChunk(f)
       PROVE  \A g \in Inputs, v \in StreamWorkers : stage'[g][v] = "looking" => enableCache' = "on"
  BY <1>7 DEF SendChunk
<1>8. ASSUME NEW f \in Inputs, GiveUp(f)
       PROVE  \A g \in Inputs, v \in StreamWorkers : stage'[g][v] = "looking" => enableCache' = "on"
  BY <1>8 DEF GiveUp
<1>9. ASSUME NEW f \in Inputs, ReturnFrom(f)
       PROVE  \A g \in Inputs, v \in StreamWorkers : stage'[g][v] = "looking" => enableCache' = "on"
  BY <1>9 DEF ReturnFrom
<1>10. ASSUME NEW f \in Inputs, Collect(f)
       PROVE  \A g \in Inputs, v \in StreamWorkers : stage'[g][v] = "looking" => enableCache' = "on"
  BY <1>10 DEF Collect
<1>11. ASSUME NEW f \in Inputs, EndCollector(f)
       PROVE  \A g \in Inputs, v \in StreamWorkers : stage'[g][v] = "looking" => enableCache' = "on"
  BY <1>11 DEF EndCollector
<1>12. ASSUME NEW f \in Inputs, NEW w \in StreamWorkers, TakeChunk(f, w)
       PROVE  \A g \in Inputs, v \in StreamWorkers : stage'[g][v] = "looking" => enableCache' = "on"
  BY <1>12 DEF TakeChunk
<1>13. ASSUME NEW f \in Inputs, NEW w \in StreamWorkers, LookUp(f, w)
       PROVE  \A g \in Inputs, v \in StreamWorkers : stage'[g][v] = "looking" => enableCache' = "on"
  BY <1>13 DEF LookUp
<1>14. ASSUME NEW f \in Inputs, NEW w \in StreamWorkers, ProcessChunk(f, w)
       PROVE  \A g \in Inputs, v \in StreamWorkers : stage'[g][v] = "looking" => enableCache' = "on"
  BY <1>14 DEF ProcessChunk
<1>15. ASSUME NEW f \in Inputs, NEW w \in StreamWorkers, SendStreamResult(f, w)
       PROVE  \A g \in Inputs, v \in StreamWorkers : stage'[g][v] = "looking" => enableCache' = "on"
  BY <1>15 DEF SendStreamResult
<1>16. ASSUME NEW f \in Inputs, NEW w \in StreamWorkers, ExitStreamWorker(f, w)
       PROVE  \A g \in Inputs, v \in StreamWorkers : stage'[g][v] = "looking" => enableCache' = "on"
  BY <1>16 DEF ExitStreamWorker
<1>17. CASE UNCHANGED streamVars
  BY <1>17 DEF streamVars
<1> QED
  BY <1>1, <1>2, <1>3, <1>4, <1>5, <1>6, <1>7, <1>8, <1>9,
     <1>10, <1>11, <1>12, <1>13, <1>14, <1>15, <1>16, <1>17
     DEF StreamNext, Call, Collecting, StreamWorker

\* Until Stop a worker leaves when its call has no more chunks to take.
LEMMA LeavingKept ==
    ASSUME StreamInv, [StreamNext]_streamVars
    PROVE  Leaving'
<1> USE DEF StreamInv, StreamTypes, Sending, Leaving, JobsClosed
<1>1. CASE NewStreamProcessor
  BY <1>1 DEF NewStreamProcessor
<1>2. CASE StopStream
  BY <1>2 DEF StopStream
<1>3. ASSUME NEW f \in Inputs, OpenInput(f)
       PROVE  Leaving'
  BY <1>3 DEF OpenInput
<1>4. ASSUME NEW f \in Inputs, OpenFails(f)
       PROVE  Leaving'
  BY <1>4 DEF OpenFails
<1>5. ASSUME NEW f \in Inputs, ReadChunk(f)
       PROVE  Leaving'
  BY <1>5 DEF ReadChunk
<1>6. ASSUME NEW f \in Inputs, ReadFails(f)
       PROVE  Leaving'
  BY <1>6 DEF ReadFails
<1>7. ASSUME NEW f \in Inputs, SendChunk(f)
       PROVE  Leaving'
  BY <1>7 DEF SendChunk
<1>8. ASSUME NEW f \in Inputs, GiveUp(f)
       PROVE  Leaving'
  BY <1>8 DEF GiveUp
<1>9. ASSUME NEW f \in Inputs, ReturnFrom(f)
       PROVE  Leaving'
  BY <1>9 DEF ReturnFrom
<1>10. ASSUME NEW f \in Inputs, Collect(f)
       PROVE  Leaving'
  BY <1>10 DEF Collect
<1>11. ASSUME NEW f \in Inputs, EndCollector(f)
       PROVE  Leaving'
  BY <1>11 DEF EndCollector
<1>12. ASSUME NEW f \in Inputs, NEW w \in StreamWorkers, TakeChunk(f, w)
       PROVE  Leaving'
  BY <1>12 DEF TakeChunk
<1>13. ASSUME NEW f \in Inputs, NEW w \in StreamWorkers, LookUp(f, w)
       PROVE  Leaving'
  BY <1>13 DEF LookUp
<1>14. ASSUME NEW f \in Inputs, NEW w \in StreamWorkers, ProcessChunk(f, w)
       PROVE  Leaving'
  BY <1>14 DEF ProcessChunk
<1>15. ASSUME NEW f \in Inputs, NEW w \in StreamWorkers, SendStreamResult(f, w)
       PROVE  Leaving'
  BY <1>15 DEF SendStreamResult
<1>16. ASSUME NEW f \in Inputs, NEW w \in StreamWorkers, ExitStreamWorker(f, w)
       PROVE  Leaving'
  BY <1>16 DEF ExitStreamWorker
<1>17. CASE UNCHANGED streamVars
  BY <1>17 DEF streamVars
<1> QED
  BY <1>1, <1>2, <1>3, <1>4, <1>5, <1>6, <1>7, <1>8, <1>9,
     <1>10, <1>11, <1>12, <1>13, <1>14, <1>15, <1>16, <1>17
     DEF StreamNext, Call, Collecting, StreamWorker

\* A chunk that was taken stays in a worker's hands until it is handled.
LEMMA TakingKept ==
    ASSUME StreamInv, [StreamNext]_streamVars
    PROVE  Taking'
<1> USE DEF StreamInv, StreamTypes, Taking
<1>a. \A g \in Inputs, k \in Nat : Handled(g, k) => Handled(g, k)'
  BY HandledStays
<1>b. \A g \in Inputs : streamTaken[g] \in Nat
  OBVIOUS
<1>c. ASSUME UNCHANGED <<streamTaken, stage, chunk>>
      PROVE  Taking'
  BY <1>a, <1>b, <1>c
<1>1. CASE NewStreamProcessor
  BY <1>1, <1>c DEF NewStreamProcessor
<1>2. CASE StopStream
  BY <1>2, <1>c DEF StopStream
<1>3. ASSUME NEW f \in Inputs, OpenInput(f)
       PROVE  Taking'
  <2>1. streamTaken[f] = 0 /\ streamTaken' = streamTaken /\ chunk' = chunk
    BY <1>3, <1>b DEF OpenInput, Sending
  <2>2. \A g \in Inputs \ {f} : stage'[g] = stage[g]
    BY <1>3 DEF OpenInput
  <2> QED
    BY <1>a, <1>b, <2>1, <2>2, SMTT(20)
<1>4. ASSUME NEW f \in Inputs, OpenFails(f)
       PROVE  Taking'
  BY <1>4, <1>c DEF OpenFails
<1>5. ASSUME NEW f \in Inputs, ReadChunk(f)
       PROVE  Taking'
  BY <1>5, <1>c DEF ReadChunk
<1>6. ASSUME NEW f \in Inputs, ReadFails(f)
       PROVE  Taking'
  BY <1>6, <1>c DEF ReadFails
<1>7. ASSUME NEW f \in Inputs, SendChunk(f)
       PROVE  Taking'
  BY <1>7, <1>c DEF SendChunk
<1>8. ASSUME NEW f \in Inputs, GiveUp(f)
       PROVE  Taking'
  BY <1>8, <1>c DEF GiveUp
<1>9. ASSUME NEW f \in Inputs, ReturnFrom(f)
       PROVE  Taking'
  BY <1>9, <1>c DEF ReturnFrom
<1>10. ASSUME NEW f \in Inputs, Collect(f)
       PROVE  Taking'
  BY <1>10, <1>c DEF Collect
<1>11. ASSUME NEW f \in Inputs, EndCollector(f)
       PROVE  Taking'
  BY <1>11, <1>c DEF EndCollector
<1>12. ASSUME NEW f \in Inputs, NEW w \in StreamWorkers, TakeChunk(f, w)
       PROVE  Taking'
  <2>1. /\ stage'[f][w] \in {"looking", "processing"} /\ chunk'[f][w] = streamTaken[f] + 1
        /\ streamTaken'[f] = streamTaken[f] + 1
    BY <1>12 DEF TakeChunk
  <2>2. \A g \in Inputs, v \in StreamWorkers : g # f \/ v # w =>
          stage'[g][v] = stage[g][v] /\ chunk'[g][v] = chunk[g][v]
    BY <1>12 DEF TakeChunk
  <2>3. \A g \in Inputs \ {f} : streamTaken'[g] = streamTaken[g]
    BY <1>12 DEF TakeChunk
  <2>4. stage[f][w] = "idle"
    BY <1>12 DEF TakeChunk
  <2>5. ASSUME NEW g \in Inputs, NEW k \in 1..streamTaken'[g]
        PROVE  \/ Handled(g, k)'
               \/ \E v \in StreamWorkers :
                     stage'[g][v] \in {"looking", "processing"} /\ chunk'[g][v] = k
    <3>1. CASE k \in 1..streamTaken[g]
      <4>1. CASE Handled(g, k)
        BY <1>a, <1>b, <3>1, <4>1
      <4>2. CASE ~Handled(g, k)
        <5>1. PICK v \in StreamWorkers :
                stage[g][v] \in {"looking", "processing"} /\ chunk[g][v] = k
          BY <3>1, <4>2
        <5>2. g # f \/ v # w
          BY <2>4, <5>1
        <5> QED
          BY <2>2, <5>1, <5>2
      <4> QED
        BY <4>1, <4>2
    <3>2. CASE k \notin 1..streamTaken[g]
      <4>1. g = f /\ k = streamTaken[f] + 1
        <5>1. k \in Nat /\ k >= 1 /\ k <= streamTaken'[g] /\ k > streamTaken[g]
          BY <1>b, <2>1, <2>3, <3>2
        <5>2. g = f
          BY <1>b, <2>3, <5>1
        <5>3. k <= streamTaken[f] + 1 /\ k > streamTaken[f]
          BY <2>1, <5>1, <5>2
        <5> QED
          BY <1>b, <5>1, <5>2, <5>3
      <4> QED
        BY <2>1, <4>1
    <3> QED
      BY <3>1, <3>2
  <2> QED
    BY <2>5
<1>13. ASSUME NEW f \in Inputs, NEW w \in StreamWorkers, LookUp(f, w)
       PROVE  Taking'
  <2>1. Has(lru, KeyOf(f, chunk[f][w])) => Handled(f, chunk[f][w])
    BY <1>13 DEF LookUp, Has, Caching, Handled
  <2>2. /\ \A g \in Inputs, v \in StreamWorkers : g # f \/ v # w => stage'[g][v] = stage[g][v]
        /\ stage'[f][w] \in {"looking", "processing"} \/ Handled(f, chunk[f][w])
        /\ chunk' = chunk /\ streamTaken' = streamTaken
    BY <1>13, <2>1 DEF LookUp
  <2>3. ASSUME NEW g \in Inputs, NEW k \in 1..streamTaken[g]
        PROVE  \/ Handled(g, k)'
               \/ \E v \in StreamWorkers :
                     stage'[g][v] \in {"looking", "processing"} /\ chunk'[g][v] = k
    <3>1. CASE Handled(g, k)
      BY <1>a, <1>b, <3>1
    <3>2. CASE ~Handled(g, k)
      <4>1. PICK v \in StreamWorkers :
              stage[g][v] \in {"looking", "processing"} /\ chunk[g][v] = k
        BY <3>2
      <4>2. CASE g = f /\ v = w
        BY <2>2, <3>2, <4>1, <4>2
      <4>3. CASE g # f \/ v # w
        BY <2>2, <4>1, <4>3
      <4> QED
        BY <4>2, <4>3
    <3> QED
      BY <3>1, <3>2
  <2> QED
    BY <2>2, <2>3
<1>14. ASSUME NEW f \in Inputs, NEW w \in StreamWorkers, ProcessChunk(f, w)
       PROVE  Taking'
  <2>1. Handled(f, chunk[f][w])'
    BY <1>14 DEF ProcessChunk, Handled
  <2>2. /\ \A g \in Inputs, v \in StreamWorkers : g # f \/ v # w => stage'[g][v] = stage[g][v]
        /\ chunk' = chunk /\ streamTaken' = streamTaken
    BY <1>14 DEF ProcessChunk
  <2>3. ASSUME NEW g \in Inputs, NEW k \in 1..streamTaken[g]
        PROVE  \/ Handled(g, k)'
               \/ \E v \in StreamWorkers :
                     stage'[g][v] \in {"looking", "processing"} /\ chunk'[g][v] = k
    <3>1. CASE Handled(g, k)
      BY <1>a, <1>b, <3>1
    <3>2. CASE ~Handled(g, k)
      <4>1. PICK v \in StreamWorkers :
              stage[g][v] \in {"looking", "processing"} /\ chunk[g][v] = k
        BY <3>2
      <4>2. CASE g = f /\ v = w
        BY <2>1, <2>2, <4>1, <4>2
      <4>3. CASE g # f \/ v # w
        BY <2>2, <4>1, <4>3
      <4> QED
        BY <4>2, <4>3
    <3> QED
      BY <3>1, <3>2
  <2> QED
    BY <2>2, <2>3
<1>15. ASSUME NEW f \in Inputs, NEW w \in StreamWorkers, SendStreamResult(f, w)
       PROVE  Taking'
  <2>1. /\ \A g \in Inputs, v \in StreamWorkers :
              stage[g][v] \in {"looking", "processing"} =>
                  stage'[g][v] = stage[g][v] /\ chunk'[g][v] = chunk[g][v]
        /\ streamTaken' = streamTaken
    BY <1>15 DEF SendStreamResult
  <2>2. ASSUME NEW g \in Inputs, NEW k \in 1..streamTaken[g]
        PROVE  \/ Handled(g, k)'
               \/ \E v \in StreamWorkers :
                     stage'[g][v] \in {"looking", "processing"} /\ chunk'[g][v] = k
    <3>1. CASE Handled(g, k)
      BY <1>a, <1>b, <3>1
    <3>2. CASE ~Handled(g, k)
      <4>1. PICK v \in StreamWorkers :
              stage[g][v] \in {"looking", "processing"} /\ chunk[g][v] = k
        BY <3>2
      <4> QED
        BY <2>1, <4>1
    <3> QED
      BY <3>1, <3>2
  <2> QED
    BY <2>1, <2>2
<1>16. ASSUME NEW f \in Inputs, NEW w \in StreamWorkers, ExitStreamWorker(f, w)
       PROVE  Taking'
  <2>1. /\ \A g \in Inputs, v \in StreamWorkers :
              stage[g][v] \in {"looking", "processing"} =>
                  stage'[g][v] = stage[g][v] /\ chunk'[g][v] = chunk[g][v]
        /\ streamTaken' = streamTaken
    BY <1>16 DEF ExitStreamWorker
  <2>2. ASSUME NEW g \in Inputs, NEW k \in 1..streamTaken[g]
        PROVE  \/ Handled(g, k)'
               \/ \E v \in StreamWorkers :
                     stage'[g][v] \in {"looking", "processing"} /\ chunk'[g][v] = k
    <3>1. CASE Handled(g, k)
      BY <1>a, <1>b, <3>1
    <3>2. CASE ~Handled(g, k)
      <4>1. PICK v \in StreamWorkers :
              stage[g][v] \in {"looking", "processing"} /\ chunk[g][v] = k
        BY <3>2
      <4> QED
        BY <2>1, <4>1
    <3> QED
      BY <3>1, <3>2
  <2> QED
    BY <2>1, <2>2
<1>17. CASE UNCHANGED streamVars
  BY <1>17, <1>c DEF streamVars
<1> QED
  BY <1>1, <1>2, <1>3, <1>4, <1>5, <1>6, <1>7, <1>8, <1>9,
     <1>10, <1>11, <1>12, <1>13, <1>14, <1>15, <1>16, <1>17
     DEF StreamNext, Call, Collecting, StreamWorker

\* A call that ends without error has all its chunks taken, and no worker has one left.
LEMMA NilKept ==
    ASSUME StreamInv, [StreamNext]_streamVars
    PROVE  NilMeansProcessed'
<1> USE DEF StreamInv, StreamTypes, ReaderSteps
<1>a. \A g \in Inputs : Len(Chunks[g]) \in Nat /\ DOMAIN Chunks[g] = 1..Len(Chunks[g])
  BY ChunksTyped
<1>b. ASSUME \A g \in Inputs : reader'[g] = "returned" => reader[g] = "returned",
             ~cancelled' => ~cancelled
      PROVE  NilMeansProcessed'
  <2>1. \A g \in Inputs, k \in Nat : Handled(g, k) => Handled(g, k)'
    BY HandledStays
  <2> QED
    BY <1>a, <1>b, <2>1 DEF NilMeansProcessed, Handled, SeenKeys
<1>1. CASE NewStreamProcessor
  BY <1>1, <1>b DEF NewStreamProcessor
<1>2. CASE StopStream
  BY <1>2, <1>b DEF StopStream
<1>3. ASSUME NEW f \in Inputs, OpenInput(f)
       PROVE  NilMeansProcessed'
  BY <1>3, <1>b DEF OpenInput
<1>4. ASSUME NEW f \in Inputs, OpenFails(f)
       PROVE  NilMeansProcessed'
  BY <1>4, <1>b DEF OpenFails
<1>5. ASSUME NEW f \in Inputs, ReadChunk(f)
       PROVE  NilMeansProcessed'
  BY <1>5, <1>b DEF ReadChunk
<1>6. ASSUME NEW f \in Inputs, ReadFails(f)
       PROVE  NilMeansProcessed'
  BY <1>6, <1>b DEF ReadFails
<1>7. ASSUME NEW f \in Inputs, SendChunk(f)
       PROVE  NilMeansProcessed'
  BY <1>7, <1>b DEF SendChunk
<1>8. ASSUME NEW f \in Inputs, GiveUp(f)
       PROVE  NilMeansProcessed'
  BY <1>8, <1>b DEF GiveUp
<1>9. ASSUME NEW f \in Inputs, ReturnFrom(f)
       PROVE  NilMeansProcessed'
  <2>1. SUFFICES ASSUME NEW g \in Inputs, reader'[g] = "returned", ~cancelled', NEW k \in DOMAIN Chunks[g]
               PROVE  Handled(g, k)'
    BY DEF NilMeansProcessed, Handled, SeenKeys
  <2>2. UNCHANGED <<cancelled, seen, enableCache>>
    BY <1>9 DEF ReturnFrom
  <2>3. CASE g # f \/ reader[f] # "draining"
    <3>1. reader[g] = "returned"
      BY <1>9, <2>1, <2>3 DEF ReturnFrom
    <3>2. Handled(g, k)
      BY <2>1, <2>2, <3>1 DEF NilMeansProcessed, Handled, SeenKeys
    <3> QED
      BY <1>a, <2>1, <3>2, HandledStays
  <2>4. CASE g = f /\ reader[f] = "draining"
    <3>1. \A w \in StreamWorkers : stage[f][w] = "exited"
      BY <1>9 DEF ReturnFrom, WorkersDone
    <3>2. streamTaken[f] = Len(Chunks[f])
      <4>1. streamSent[f] = Len(Chunks[f]) /\ streamTaken[f] <= streamSent[f]
        BY <2>4 DEF Sending
      <4>2. CASE StreamWorkers = {}
        BY <1>a, <2>4, <4>1, <4>2 DEF Sending
      <4>3. CASE StreamWorkers # {}
        BY <2>1, <2>2, <3>1, <4>1, <4>3 DEF Leaving
      <4> QED
        BY <4>2, <4>3
    <3>3. Handled(f, k)
      BY <1>a, <2>1, <2>4, <3>1, <3>2 DEF Taking
    <3>4. Handled(g, k)
      BY <2>4, <3>3
    <3> QED
      BY <1>a, <2>1, <3>4, HandledStays
  <2> QED
    BY <2>3, <2>4
<1>10. ASSUME NEW f \in Inputs, Collect(f)
       PROVE  NilMeansProcessed'
  BY <1>10, <1>b DEF Collect
<1>11. ASSUME NEW f \in Inputs, EndCollector(f)
       PROVE  NilMeansProcessed'
  BY <1>11, <1>b DEF EndCollector
<1>12. ASSUME NEW f \in Inputs, NEW w \in StreamWorkers, TakeChunk(f, w)
       PROVE  NilMeansProcessed'
  BY <1>12, <1>b DEF TakeChunk
<1>13. ASSUME NEW f \in Inputs, NEW w \in StreamWorkers, LookUp(f, w)
       PROVE  NilMeansProcessed'
  BY <1>13, <1>b DEF LookUp
<1>14. ASSUME NEW f \in Inputs, NEW w \in StreamWorkers, ProcessChunk(f, w)
       PROVE  NilMeansProcessed'
  BY <1>14, <1>b DEF ProcessChunk
<1>15. ASSUME NEW f \in Inputs, NEW w \in StreamWorkers, SendStreamResult(f, w)
       PROVE  NilMeansProcessed'
  BY <1>15, <1>b DEF SendStreamResult
<1>16. ASSUME NEW f \in Inputs, NEW w \in StreamWorkers, ExitStreamWorker(f, w)
       PROVE  NilMeansProcessed'
  BY <1>16, <1>b DEF ExitStreamWorker
<1>17. CASE UNCHANGED streamVars
  BY <1>17, <1>b DEF streamVars
<1> QED
  BY <1>1, <1>2, <1>3, <1>4, <1>5, <1>6, <1>7, <1>8, <1>9,
     <1>10, <1>11, <1>12, <1>13, <1>14, <1>15, <1>16, <1>17
     DEF StreamNext, Call, Collecting, StreamWorker

LEMMA NextStream == StreamInv /\ [StreamNext]_streamVars => StreamInv'
<1> SUFFICES ASSUME StreamInv, [StreamNext]_streamVars
             PROVE  StreamInv'
  OBVIOUS
<1>1. Caching'
  BY CacheKept, LookingCached DEF Caching
<1> QED
  BY <1>1, TypesKept, SendingKept, TakingKept, LeavingKept, NilKept DEF StreamInv

LEMMA StreamIsInductive == StreamSpec => []StreamInv
BY InitStream, NextStream, PTL DEF StreamSpec

\* When a call of ProcessFile returns without an error and before Stop, every
\* chunk of its file went through the client's function or, with the cache on,
\* one of the same place and length did.
THEOREM EveryChunkIsProcessed == StreamSpec => []NilMeansProcessed
<1>1. StreamInv => NilMeansProcessed
  BY DEF StreamInv
<1> QED
  BY <1>1, StreamIsInductive, PTL

-----------------------------------------------------------------------------
(* Files written part by part.                                             *)

\* The recursion of Joined, spelt out.
JoinSteps(t, parts, B) ==
    /\ t \in [0..Len(parts) -> Seq(B)]
    /\ t[0] = <<>>
    /\ \A i \in 1..Len(parts) : t[i] = t[i - 1] \o parts[i]

LEMMA JoinedIsSteps ==
    ASSUME NEW B, NEW parts \in Seq(Seq(B))
    PROVE  JoinSteps(Joined(parts), parts, B)
<1> DEFINE V == Seq(B)
           n == Len(parts)
           Rec(t) == t = [i \in 0..n |-> IF i = 0 THEN <<>> ELSE t[i - 1] \o parts[i]]
           T == CHOOSE t : Rec(t)
<1>0. n \in Nat /\ <<>> \in V /\ \A i \in 1..n, d \in V : d \o parts[i] \in V
  <2>2. \A i \in 1..n : parts[i] \in V
    OBVIOUS
  <2>3. \A i \in 1..n, d \in V : d \o parts[i] \in V
    BY <2>2, ConcatProperties
  <2> QED
    BY <2>3
<1>1. \E t : Rec(t)
  <2> DEFINE step == [i \in 1..n |-> [d \in V |-> d \o parts[i]]]
  <2>1. step \in [1..n -> [V -> V]]
    BY <1>0
  <2>2. PICK t \in [0..n -> V] : Solves(t, n, <<>>, step)
    <3> HIDE DEF step, n, V
    <3> QED
      BY <1>0, <2>1, SolutionExists
  <2>3. ASSUME NEW i \in 0..n
        PROVE  t[i] = IF i = 0 THEN <<>> ELSE t[i - 1] \o parts[i]
    <3>1. t[i] = IF i = 0 THEN <<>> ELSE step[i][t[i - 1]]
      BY <2>2 DEF Solves
    <3>2. i # 0 => t[i] = t[i - 1] \o parts[i]
      <4> HAVE i # 0
      <4> HIDE DEF n, V
      <4>1. i \in 1..n /\ i - 1 \in 0..n
        <5>1. n \in Nat
          BY <1>0
        <5> QED
          BY <5>1
      <4>2. t[i - 1] \in V
        BY <2>2, <4>1
      <4>3. step[i][t[i - 1]] = t[i - 1] \o parts[i]
        BY <4>1, <4>2
      <4> QED
        BY <3>1, <4>3
    <3> QED
      BY <3>1, <3>2
  <2> QED
    BY <2>2, <2>3
<1>2. Rec(T)
  BY <1>1
<1>3. Joined(parts) = T
  BY DEF Joined
<1> HIDE DEF T
<1>4. T[0] = <<>> /\ \A i \in 1..n : T[i] = T[i - 1] \o parts[i]
  <2>1. \A i \in 0..n : T[i] = IF i = 0 THEN <<>> ELSE T[i - 1] \o parts[i]
    BY <1>2
  <2> HIDE DEF n
  <2>2. \A i \in 1..n : i \in 0..n /\ i # 0
    BY <1>0
  <2>3. 0 \in 0..n
    BY <1>0
  <2> QED
    BY <2>1, <2>2, <2>3, Zenon
<1>5. \A i \in 0..n : T[i] \in V
  <2> HIDE DEF n, V
  <2>1. \A i \in 1..n : T[i - 1] \in V => T[i] \in V
    BY <1>0, <1>4
  <2> QED
    BY <1>0, <1>4, <2>1, SolutionType
<1>6. T \in [0..n -> V]
  BY <1>2, <1>5
<1> QED
  BY <1>3, <1>4, <1>6 DEF JoinSteps

\* y starts with x.
Starts(x, y) == Len(x) <= Len(y) /\ \A k \in 1..Len(x) : y[k] = x[k]

LEMMA StartsWith ==
    ASSUME NEW B, NEW x \in Seq(B), NEW y \in Seq(B), NEW z \in Seq(B), Starts(x, y)
    PROVE  Starts(x, y \o z) /\ Starts(x, x)
<1>1. /\ Len(y \o z) = Len(y) + Len(z)
      /\ \A k \in 1..(Len(y) + Len(z)) : (y \o z)[k] = IF k <= Len(y) THEN y[k] ELSE z[k - Len(y)]
  BY ConcatProperties
<1>2. PICK lx \in Nat : lx = Len(x)
  OBVIOUS
<1>3. PICK ly \in Nat : ly = Len(y)
  OBVIOUS
<1>4. PICK lz \in Nat : lz = Len(z)
  OBVIOUS
<1>5. lx <= ly /\ \A k \in 1..lx : y[k] = x[k]
  BY <1>2, <1>3 DEF Starts
<1>6. \A k \in 1..lx : k \in 1..(ly + lz) /\ k <= ly
  BY <1>5
<1>7. \A k \in 1..lx : (y \o z)[k] = x[k]
  BY <1>1, <1>3, <1>4, <1>5, <1>6
<1>8. lx <= ly + lz
  BY <1>5
<1> QED
  BY <1>1, <1>2, <1>3, <1>4, <1>7, <1>8 DEF Starts

\* A file grows at its end.
LEMMA JoinedGrows ==
    ASSUME NEW B, NEW parts \in Seq(Seq(B)), NEW a, JoinSteps(a, parts, B),
           NEW i \in 0..Len(parts)
    PROVE  Starts(a[i], a[Len(parts)])
<1>0. PICK n \in Nat : n = Len(parts)
  OBVIOUS
<1>1. /\ a \in [0..n -> Seq(B)] /\ i \in 0..n
      /\ \A j \in 1..n : a[j] = a[j - 1] \o parts[j]
  BY <1>0 DEF JoinSteps
<1>2. \A j \in 1..n : parts[j] \in Seq(B)
  BY <1>0
<1> DEFINE S == {j \in 0..n : i <= j => Starts(a[i], a[j])}
<1>3. Starts(a[i], a[i])
  BY DEF Starts
<1>4. 0 \in S
  <2>1. i <= 0 => i = 0
    BY <1>1
  <2> QED
    BY <1>3, <2>1
<1>5. ASSUME NEW j \in 0..(n - 1), j \in S PROVE j + 1 \in S
  <2>1. j + 1 \in 1..n /\ (j + 1) - 1 = j /\ j + 1 \in 0..n /\ j \in 0..n
    OBVIOUS
  <2>2. CASE i <= j
    <3>1. Starts(a[i], a[j])
      BY <1>5, <2>2
    <3>2. PICK x \in Seq(B) : x = a[i]
      BY <1>1
    <3>3. PICK y \in Seq(B) : y = a[j]
      BY <1>1, <2>1
    <3>4. PICK z \in Seq(B) : z = parts[j + 1]
      BY <1>2, <2>1
    <3>5. Starts(x, y \o z)
      BY <3>1, <3>2, <3>3, StartsWith
    <3>6. a[j + 1] = y \o z
      BY <1>1, <2>1, <3>3, <3>4
    <3> QED
      BY <2>1, <3>2, <3>5, <3>6
  <2>3. CASE ~(i <= j)
    <3>1. i <= j + 1 => i = j + 1
      BY <1>1, <2>3
    <3> QED
      BY <1>3, <2>1, <3>1
  <2> QED
    BY <2>2, <2>3
<1> HIDE DEF S
<1>6. n \in S
  <2>1. 0..n \subseteq S
    BY <1>4, <1>5, UpTo
  <2> QED
    BY <2>1
<1> QED
  BY <1>0, <1>1, <1>6 DEF S

-----------------------------------------------------------------------------
(* The data area of a patch file.                                          *)

\* The recursion of Areas, spelt out.
AreaSteps(a, ops, B) ==
    /\ a \in [0..Len(ops) -> Seq(B)]
    /\ a[0] = <<>>
    /\ \A i \in 1..Len(ops) : a[i] = a[i - 1] \o ops[i].data

LEMMA AreasAreSteps ==
    ASSUME NEW B, NEW ops \in Seq(OpsOf(B))
    PROVE  /\ AreaSteps(Areas(ops), ops, B)
           /\ \A i \in 0..Len(ops) : Starts(Areas(ops)[i], Areas(ops)[Len(ops)])
<1>0. PICK n \in Nat : n = Len(ops)
  OBVIOUS
<1> DEFINE V == Seq(B)
<1>1. PICK parts \in Seq(V) :
         /\ parts = [i \in DOMAIN ops |-> ops[i].data] /\ Len(parts) = n
         /\ \A i \in 1..n : parts[i] = ops[i].data
  <2> DEFINE p == [i \in 1..n |-> ops[i].data]
  <2>1. DOMAIN ops = 1..n
    BY <1>0
  <2>2. p \in [1..n -> V]
    <3>1. \A i \in 1..n : ops[i] \in OpsOf(B)
      BY <1>0
    <3> QED
      BY <3>1 DEF OpsOf
  <2>3. p \in Seq(V) /\ Len(p) = n
    <3> HIDE DEF p, V
    <3> QED
      BY <2>2
  <2>4. p = [i \in DOMAIN ops |-> ops[i].data] /\ \A i \in 1..n : p[i] = ops[i].data
    BY <2>1
  <2> HIDE DEF p
  <2> QED
    BY <2>3, <2>4
<1>2. PICK a : a = Areas(ops) /\ JoinSteps(a, parts, B)
  BY <1>1, JoinedIsSteps DEF Areas
<1>3. AreaSteps(a, ops, B)
  BY <1>0, <1>1, <1>2 DEF JoinSteps, AreaSteps
<1>4. \A i \in 0..n : Starts(a[i], a[n])
  BY <1>1, <1>2, JoinedGrows
<1> QED
  BY <1>0, <1>2, <1>3, <1>4

\* The whole data area.
DataOf(ops) == Areas(ops)[Len(ops)]

\* The i-th operation's data in the data area.
Held(a, ops, i) ==
    /\ Len(a[i - 1]) + Len(ops[i].data) = Len(a[i])
    /\ Len(a[i]) <= Len(DataOf(ops))
    /\ SubSeq(DataOf(ops), Len(a[i - 1]) + 1, Len(a[i])) = ops[i].data

LEMMA AreasHold ==
    ASSUME NEW B, NEW ops \in Seq(OpsOf(B)), NEW i \in 1..Len(ops)
    PROVE  Held(Areas(ops), ops, i)
<1>0. PICK a : a = Areas(ops) /\ AreaSteps(a, ops, B)
  BY AreasAreSteps
<1>1. i \in 0..Len(ops) /\ i - 1 \in 0..Len(ops) /\ Len(ops) \in 0..Len(ops) /\ ops[i] \in OpsOf(B)
  OBVIOUS
<1>2. PICK x \in Seq(B) : x = a[i - 1]
  BY <1>0, <1>1 DEF AreaSteps
<1>3. PICK y \in Seq(B) : y = ops[i].data
  BY <1>1 DEF OpsOf
<1>4. PICK z \in Seq(B) : z = a[i]
  BY <1>0, <1>1 DEF AreaSteps
<1>5. PICK w \in Seq(B) : w = a[Len(ops)]
  BY <1>0, <1>1 DEF AreaSteps
<1>6. z = x \o y
  BY <1>0, <1>2, <1>3, <1>4 DEF AreaSteps
<1>7. Starts(z, w)
  BY <1>0, <1>1, <1>4, <1>5, AreasAreSteps
<1>8. PICK l \in Nat : l = Len(x)
  OBVIOUS
<1>9. PICK m \in Nat : m = Len(y)
  OBVIOUS
<1>10. PICK h \in Nat : h = Len(w)
  OBVIOUS
<1>11. Len(z) = l + m /\ \A k \in 1..(l + m) : z[k] = IF k <= l THEN x[k] ELSE y[k - l]
  BY <1>6, <1>8, <1>9, ConcatProperties
<1>12. l + m <= h /\ \A k \in 1..(l + m) : w[k] = z[k]
  BY <1>7, <1>10, <1>11 DEF Starts
<1>13. /\ Stretch(w, l, l + m) \in Seq(B) /\ Len(Stretch(w, l, l + m)) = m
       /\ \A k \in 1..m : Stretch(w, l, l + m)[k] = w[l + k]
  <2>1. PICK e \in Nat : e = l + m /\ l <= e /\ e <= Len(w) /\ e - l = m
    BY <1>10, <1>12
  <2>2. /\ Stretch(w, l, e) \in Seq(B) /\ Len(Stretch(w, l, e)) = e - l
        /\ \A k \in 1..(e - l) : Stretch(w, l, e)[k] = w[l + k]
    <3>1. w \in Seq(B) /\ l \in Nat /\ e \in Nat /\ l <= e /\ e <= Len(w)
      BY <2>1
    <3> QED
      BY ONLY <3>1, StretchProperties, ZenonT(30)
  <2> QED
    BY <2>1, <2>2
<1>14. \A k \in 1..m : w[l + k] = y[k]
  <2> TAKE k \in 1..m
  <2>1. l + k \in 1..(l + m) /\ ~(l + k <= l) /\ (l + k) - l = k
    OBVIOUS
  <2> QED
    BY <1>11, <1>12, <2>1
<1>15. Stretch(w, l, l + m) = y
  BY <1>9, <1>13, <1>14, SeqEqual
<1> QED
  BY <1>0, <1>2, <1>3, <1>4, <1>5, <1>8, <1>9, <1>10, <1>11, <1>12, <1>15 DEF Held, DataOf, Stretch

\* The last operation's data comes last.
LEMMA DataAppend ==
    ASSUME NEW B, NEW d \in Seq(OpsOf(B)), NEW op \in OpsOf(B)
    PROVE  DataOf(Append(d, op)) = DataOf(d) \o op.data
<1> DEFINE O == OpsOf(B)
<1>0. PICK n \in Nat : n = Len(d)
  OBVIOUS
<1>1. PICK all \in Seq(O) :
         /\ all = Append(d, op) /\ Len(all) = n + 1 /\ all[n + 1] = op
         /\ \A i \in 1..n : all[i] = d[i]
  <2> HIDE DEF O
  <2>1. d \in Seq(O) /\ op \in O
    BY DEF O
  <2>2. /\ Append(d, op) \in Seq(O) /\ Len(Append(d, op)) = Len(d) + 1
        /\ Append(d, op)[Len(d) + 1] = op
        /\ \A i \in 1..Len(d) : Append(d, op)[i] = d[i]
    BY <2>1, AppendProperties
  <2> QED
    BY <1>0, <2>2
<1>2. PICK a : a = Areas(d) /\ AreaSteps(a, d, B)
  BY AreasAreSteps
<1>3. PICK b : b = Areas(all) /\ AreaSteps(b, all, B)
  BY AreasAreSteps
<1> DEFINE S == {i \in 0..n : b[i] = a[i]}
<1>4. 0 \in S
  BY <1>2, <1>3 DEF AreaSteps
<1>5. ASSUME NEW i \in 0..(n - 1), i \in S PROVE i + 1 \in S
  <2>1. i + 1 \in 1..n /\ i + 1 \in 1..(n + 1) /\ (i + 1) - 1 = i /\ i + 1 \in 0..n
    OBVIOUS
  <2>2. a[i + 1] = a[i] \o d[i + 1].data
    BY <1>0, <1>2, <2>1 DEF AreaSteps
  <2>3. b[i + 1] = b[i] \o d[i + 1].data
    BY <1>1, <1>3, <2>1 DEF AreaSteps
  <2> QED
    BY <1>5, <2>1, <2>2, <2>3
<1> HIDE DEF S
<1>6. n \in S
  <2>1. 0..n \subseteq S
    BY <1>4, <1>5, UpTo
  <2> QED
    BY <2>1
<1>7. b[n + 1] = b[n] \o op.data
  <2>1. n + 1 \in 1..(n + 1) /\ (n + 1) - 1 = n
    OBVIOUS
  <2> QED
    BY <1>1, <1>3, <2>1 DEF AreaSteps
<1> QED
  BY <1>0, <1>1, <1>2, <1>3, <1>6, <1>7 DEF S, DataOf

\* Leaving out the empty operations leaves out no data.
LEMMA DataKept ==
    ASSUME NEW B, NEW ops \in Seq(SizedOps(B))
    PROVE  DataOf(RemoveEmpty(ops)) = DataOf(ops)
<1>0. PICK n \in Nat : n = Len(ops)
  OBVIOUS
<1> DEFINE V == SizedOps(B)
<1>1. PICK t \in [0..n -> Seq(V)] :
         /\ t[0] = <<>>
         /\ \A i \in 1..n : t[i] = (IF NonEmpty(ops[i]) THEN Append(t[i - 1], ops[i]) ELSE t[i - 1])
         /\ RemoveEmpty(ops) = t[n]
  <2> HIDE DEF V
  <2>1. ops \in Seq(V)
    BY DEF V
  <2> QED
    BY <1>0, <2>1, KeptSteps
<1>2. ops \in Seq(OpsOf(B)) /\ t \in [0..n -> Seq(OpsOf(B))]
  <2>1. Seq(V) \subseteq Seq(OpsOf(B))
    BY SizedLists
  <2> QED
    BY <2>1
<1>3. PICK a : a = Areas(ops) /\ AreaSteps(a, ops, B)
  BY <1>2, AreasAreSteps
<1> DEFINE S == {i \in 0..n : DataOf(t[i]) = a[i]}
<1>4. 0 \in S
  <2>1. AreaSteps(Areas(t[0]), t[0], B) /\ Len(t[0]) = 0
    <3>1. t[0] \in Seq(OpsOf(B)) /\ t[0] = <<>>
      BY <1>1, <1>2
    <3> QED
      BY <3>1, AreasAreSteps
  <2> QED
    BY <1>3, <2>1 DEF AreaSteps, DataOf
<1>5. ASSUME NEW i \in 0..(n - 1), i \in S PROVE i + 1 \in S
  <2>1. i + 1 \in 1..n /\ (i + 1) - 1 = i /\ i + 1 \in 0..n /\ i \in 0..n
    OBVIOUS
  <2>2. PICK op \in SizedOps(B) : op = ops[i + 1]
    BY <1>0, <2>1
  <2>3. PICK d \in Seq(OpsOf(B)) : d = t[i]
    BY <1>2, <2>1
  <2>4. a[i] \in Seq(B) /\ a[i + 1] = a[i] \o op.data /\ op \in OpsOf(B)
    <3>1. op \in OpsOf(B)
      BY SizedLists
    <3> QED
      BY <1>0, <1>3, <2>1, <2>2, <3>1 DEF AreaSteps
  <2>5. DataOf(d) = a[i]
    BY <1>5, <2>3
  <2>6. CASE NonEmpty(op)
    <3>1. t[i + 1] = Append(d, op)
      BY <1>1, <2>1, <2>2, <2>3, <2>6
    <3>2. DataOf(Append(d, op)) = DataOf(d) \o op.data
      BY <2>4, DataAppend
    <3> QED
      BY <2>1, <2>4, <2>5, <3>1, <3>2
  <2>7. CASE ~NonEmpty(op)
    <3>1. t[i + 1] = d
      BY <1>1, <2>1, <2>2, <2>3, <2>7
    <3>2. op.data = <<>>
      <4>1. op.size = 0 /\ op.data \in Seq(B)
        BY <2>7, SizedFields DEF NonEmpty
      <4>2. op.type = "insert" => Len(op.data) = 0
        BY <4>1, SizedFields
      <4>3. op.type # "insert" => op.data = <<>>
        BY SizedFields
      <4> QED
        BY <4>1, <4>2, <4>3
    <3>3. a[i] \o <<>> = a[i]
      BY <2>4, ConcatEmptySeq
    <3> QED
      BY <2>1, <2>4, <2>5, <3>1, <3>2, <3>3
  <2> QED
    BY <2>6, <2>7
<1> HIDE DEF S
<1>6. n \in S
  <2>1. 0..n \subseteq S
    BY <1>4, <1>5, UpTo
  <2> QED
    BY <2>1
<1> QED
  BY <1>0, <1>1, <1>3, <1>6 DEF S, DataOf

-----------------------------------------------------------------------------
(* What is read from a patch file.                                         *)

\* The fields hold the sizes of the operations and of their data.
FitFields(ops) ==
    /\ Len(DataOf(ops)) < FieldValues
    /\ \A i \in 1..Len(ops) : ops[i].size < FieldValues

LEMMA FieldKeeps ==
    ASSUME NEW n \in Nat, n < FieldValues
    PROVE  Field(n) = n
BY GeneratorAssumption DEF Field

\* p is the i-th operation as it lies in the file.
Laid(p, ops, i) ==
    /\ p.type = ops[i].type /\ p.offset = ops[i].offset /\ p.size = ops[i].size
    /\ p.src = ops[i].src
    /\ p.type = "insert" =>
          p.dataOffset = Len(Areas(ops)[i - 1]) /\ p.dataOffset + p.size = Len(Areas(ops)[i])

\* made is what is stored of ops.
Stores(made, ops) ==
    /\ Len(made.ops) = Len(ops) /\ DOMAIN made.ops = 1..Len(ops)
    /\ \A i \in 1..Len(ops) : Laid(made.ops[i], ops, i)
    /\ made.data = DataOf(ops)

LEMMA SizedElement ==
    ASSUME NEW B, NEW ops \in Seq(SizedOps(B)), NEW i \in 1..Len(ops)
    PROVE  ops[i] \in SizedOps(B) /\ ops \in Seq(OpsOf(B))
<1>1. ops \in Seq(OpsOf(B))
  BY SizedLists
<1>2. ops[i] \in SizedOps(B)
  <2> DEFINE V == SizedOps(B)
  <2> HIDE DEF V
  <2>1. ops \in Seq(V)
    BY DEF V
  <2> QED
    BY <2>1 DEF V
<1> QED
  BY <1>1, <1>2

LEMMA EncodedStores ==
    ASSUME NEW ops \in Seq(SizedOps(Byte)), FitFields(ops)
    PROVE  Stores(Encoded(ops, <<>>, 0), ops)
<1>0. PICK n \in Nat : n = Len(ops)
  OBVIOUS
<1> DEFINE a == Areas(ops)
           m == [i \in 1..n |-> Marshal(ops[i], 0 + Len(a[i - 1]))]
           M == {m[i] : i \in 1..n}
<1>1. m \in Seq(M) /\ Len(m) = n
  <2>1. m \in [1..n -> M]
    OBVIOUS
  <2> HIDE DEF m, M
  <2> QED
    BY <2>1
<1>2. <<>> \o m = m
  <2> HIDE DEF m, M
  <2> QED
    BY <1>1, ConcatEmptySeq
<1>3. Encoded(ops, <<>>, 0) = [ops |-> m, data |-> DataOf(ops)]
  <2>1. Encoded(ops, <<>>, 0) = [ops |-> <<>> \o m, data |-> DataOf(ops)]
    BY <1>0 DEF Encoded, DataOf
  <2> HIDE DEF m
  <2> QED
    BY <1>2, <2>1
<1>4. ASSUME NEW i \in 1..n PROVE Laid(m[i], ops, i)
  <2>1. PICK op \in SizedOps(Byte) : op = ops[i] /\ ops \in Seq(OpsOf(Byte))
    BY <1>0, SizedElement
  <2>2. /\ op.size \in Nat /\ op.data \in Seq(Byte)
        /\ op.type = "insert" => op.size = Len(op.data)
    BY SizedFields
  <2>3. op.size < FieldValues
    BY <1>0, <2>1 DEF FitFields
  <2>4. Field(op.size) = op.size
    BY <2>2, <2>3, FieldKeeps
  <2>5. Held(a, ops, i)
    BY <1>0, <2>1, AreasHold
  <2>6. PICK l \in Nat : l = Len(a[i - 1])
    <3>1. AreaSteps(a, ops, Byte) /\ i - 1 \in 0..n
      BY <2>1, AreasAreSteps
    <3>2. a[i - 1] \in Seq(Byte)
      BY <1>0, <3>1 DEF AreaSteps
    <3> QED
      BY <3>2
  <2>7. PICK h \in Nat : h = Len(DataOf(ops))
    <3>1. AreaSteps(a, ops, Byte) /\ n \in 0..n
      BY <2>1, AreasAreSteps
    <3>2. DataOf(ops) \in Seq(Byte)
      BY <1>0, <3>1 DEF AreaSteps, DataOf
    <3> QED
      BY <3>2
  <2>8. h < FieldValues
    BY <2>7 DEF FitFields
  <2>9. l + Len(op.data) = Len(a[i]) /\ Len(a[i]) <= h
    BY <2>1, <2>5, <2>6, <2>7 DEF Held
  <2>10. PICK k \in Nat : k = Len(op.data)
    BY <2>2
  <2>11. FieldValues \in Nat
    BY GeneratorAssumption
  <2>12. l < FieldValues
    <3>1. l + k <= h
      BY <2>9, <2>10
    <3> QED
      BY <2>8, <2>11, <3>1
  <2>13. Field(l) = l
    BY <2>12, FieldKeeps
  <2>14. m[i] = Marshal(op, l)
    BY <2>1, <2>6
  <2>15. /\ m[i].type = op.type /\ m[i].offset = op.offset /\ m[i].size = op.size /\ m[i].src = op.src
         /\ op.type = "insert" => m[i].dataOffset = l
    BY <2>4, <2>13, <2>14 DEF Marshal
  <2> HIDE DEF m, a
  <2>16. m[i].type = "insert" => m[i].dataOffset = l /\ m[i].dataOffset + m[i].size = Len(a[i])
    BY <2>2, <2>9, <2>15
  <2> QED
    BY <2>1, <2>6, <2>15, <2>16 DEF Laid, a
<1> HIDE DEF m
<1>5. DOMAIN m = 1..n
  BY <1>1
<1> QED
  BY <1>0, <1>1, <1>3, <1>4, <1>5 DEF Stores

\* The file has all of ops.
HoldsAll(f, ops) ==
    /\ f.head = TRUE /\ f.broken = FALSE /\ f.count = Len(f.ops)
    /\ Stores(f, ops)

\* What a stored insert takes out of the data area.
LEMMA InsertBounds ==
    ASSUME NEW ops \in Seq(SizedOps(Byte)), FitFields(ops), NEW p, NEW i \in 1..Len(ops),
           Laid(p, ops, i), p.type = "insert"
    PROVE  /\ p.dataOffset \in Nat /\ p.size = Len(ops[i].data)
           /\ p.dataOffset + p.size = Len(Areas(ops)[i])
           /\ p.dataOffset <= Len(Areas(ops)[i])
           /\ Field(p.dataOffset + p.size) = p.dataOffset + p.size
           /\ p.dataOffset + p.size <= Len(DataOf(ops))
           /\ SubSeq(DataOf(ops), p.dataOffset + 1, p.dataOffset + p.size) = ops[i].data
<1>1. PICK op \in SizedOps(Byte) : op = ops[i] /\ ops \in Seq(OpsOf(Byte))
  BY SizedElement
<1>2. PICK k \in Nat : k = Len(op.data) /\ p.size = k
  BY <1>1, SizedFields DEF Laid
<1>3. Held(Areas(ops), ops, i)
  BY <1>1, AreasHold
<1>4. AreaSteps(Areas(ops), ops, Byte)
  BY <1>1, AreasAreSteps
<1>5. PICK l \in Nat : l = Len(Areas(ops)[i - 1])
  <2>1. Areas(ops)[i - 1] \in Seq(Byte)
    <3>1. i - 1 \in 0..Len(ops)
      OBVIOUS
    <3> QED
      BY <1>4, <3>1 DEF AreaSteps
  <2> QED
    BY <2>1
<1>6. PICK h \in Nat : h = Len(DataOf(ops))
  <2>1. DataOf(ops) \in Seq(Byte)
    <3>1. Len(ops) \in 0..Len(ops)
      OBVIOUS
    <3> QED
      BY <1>4, <3>1 DEF AreaSteps, DataOf
  <2> QED
    BY <2>1
<1>7. /\ l + k = Len(Areas(ops)[i]) /\ l + k <= h
      /\ SubSeq(DataOf(ops), l + 1, l + k) = op.data
  BY <1>1, <1>2, <1>3, <1>5, <1>6 DEF Held
<1>8. p.dataOffset = l /\ p.size = k
  BY <1>2, <1>5 DEF Laid
<1>9. Field(l + k) = l + k
  <2>1. h < FieldValues /\ FieldValues \in Nat
    BY <1>6, GeneratorAssumption DEF FitFields
  <2>2. l + k \in Nat /\ l + k < FieldValues
    BY <1>7, <2>1
  <2> QED
    BY <2>2, FieldKeeps
<1>10. l <= l + k
  OBVIOUS
<1> QED
  BY <1>1, <1>2, <1>6, <1>7, <1>8, <1>9, <1>10

LEMMA ReadsBack ==
    ASSUME NEW ops \in Seq(SizedOps(Byte)), FitFields(ops), NEW f, HoldsAll(f, ops),
           NEW source \in Seq(Byte), f.source = source, f.target = Rebuild(source, ops)
    PROVE  Applied(f, source) = [ok |-> TRUE, file |-> f.target]
<1>0. PICK n \in Nat : n = Len(ops)
  OBVIOUS
<1>1. /\ DOMAIN f.ops = 1..n /\ Len(f.ops) = n /\ f.data = DataOf(ops)
      /\ \A i \in 1..n : Laid(f.ops[i], ops, i)
  BY <1>0 DEF HoldsAll, Stores
<1>2. PICK h \in Nat : h = Len(DataOf(ops)) /\ Field(h) = h
  <2>1. ops \in Seq(OpsOf(Byte))
    BY SizedLists
  <2>2. AreaSteps(Areas(ops), ops, Byte) /\ Len(ops) \in 0..Len(ops)
    BY <2>1, AreasAreSteps
  <2>3. DataOf(ops) \in Seq(Byte)
    BY <2>2 DEF AreaSteps, DataOf
  <2> QED
    BY <2>3, FieldKeeps DEF FitFields
<1>3. ASSUME NEW i \in 1..n
      PROVE  /\ Unmarshalled(f, f.ops[i]) = ops[i]
             /\ f.ops[i].type = "insert" => InBounds(f, f.ops[i]) /\ Slices(f.ops[i])
  <2>1. PICK p : p = f.ops[i]
    OBVIOUS
  <2>2. Laid(p, ops, i)
    BY <1>1, <2>1
  <2>3. PICK op \in SizedOps(Byte) : op = ops[i]
    BY <1>0, SizedElement
  <2>4. CASE p.type = "insert"
    <3>1. /\ p.dataOffset \in Nat /\ p.size = Len(op.data)
          /\ p.dataOffset <= p.dataOffset + p.size
          /\ Field(p.dataOffset + p.size) = p.dataOffset + p.size
          /\ p.dataOffset + p.size <= Len(DataOf(ops))
          /\ SubSeq(DataOf(ops), p.dataOffset + 1, p.dataOffset + p.size) = op.data
      <4>1. /\ p.dataOffset \in Nat /\ p.size = Len(ops[i].data)
            /\ p.dataOffset + p.size = Len(Areas(ops)[i])
            /\ p.dataOffset <= Len(Areas(ops)[i])
            /\ Field(p.dataOffset + p.size) = p.dataOffset + p.size
            /\ p.dataOffset + p.size <= Len(DataOf(ops))
            /\ SubSeq(DataOf(ops), p.dataOffset + 1, p.dataOffset + p.size) = ops[i].data
        BY <1>0, <2>2, <2>4, InsertBounds
      <4> QED
        BY <2>3, <4>1
    <3>2. InBounds(f, p)
      BY <1>1, <1>2, <3>1 DEF InBounds
    <3>3. Slices(p)
      BY <3>1 DEF Slices
    <3>4. Unmarshalled(f, p) = [type |-> op.type, offset |-> op.offset, size |-> op.size,
                                src |-> op.src, data |-> op.data]
      BY <1>1, <2>2, <2>3, <2>4, <3>1 DEF Unmarshalled, Laid
    <3>5. op = [type |-> op.type, offset |-> op.offset, size |-> op.size,
                src |-> op.src, data |-> op.data]
      BY DEF SizedOps, OpsOf
    <3> QED
      BY <2>1, <2>3, <3>2, <3>3, <3>4, <3>5
  <2>5. CASE p.type # "insert"
    <3>1. op.data = <<>>
      BY <2>2, <2>3, <2>5, SizedFields DEF Laid
    <3>2. Unmarshalled(f, p) = [type |-> op.type, offset |-> op.offset, size |-> op.size,
                                src |-> op.src, data |-> op.data]
      BY <2>2, <2>3, <2>5, <3>1 DEF Unmarshalled, Laid
    <3>3. op = [type |-> op.type, offset |-> op.offset, size |-> op.size,
                src |-> op.src, data |-> op.data]
      BY DEF SizedOps, OpsOf
    <3> QED
      BY <2>1, <2>3, <2>5, <3>2, <3>3
  <2> QED
    BY <2>4, <2>5
<1> DEFINE back == [i \in DOMAIN f.ops |-> Unmarshalled(f, f.ops[i])]
           ok == /\ Readable(f) /\ f.source = source
                 /\ \A i \in DOMAIN f.ops :
                       f.ops[i].type = "insert" => InBounds(f, f.ops[i]) /\ Slices(f.ops[i])
           out == IF ok THEN Rebuild(source, back) ELSE <<>>
<1>4. back = ops
  <2>1. back = [i \in 1..n |-> ops[i]]
    BY <1>1, <1>3
  <2>2. ops = [i \in 1..n |-> ops[i]]
    BY <1>0
  <2> QED
    BY <2>1, <2>2
<1>5. ok
  <2>1. Readable(f)
    BY DEF HoldsAll, Readable
  <2> QED
    BY <1>1, <1>3, <2>1
<1>6. Applied(f, source) = [ok |-> ok /\ out = f.target, file |-> out]
  BY DEF Applied
<1>7. out = f.target
  BY <1>4, <1>5
<1>8. (ok /\ out = f.target) = TRUE
  BY <1>5, <1>7
<1> HIDE DEF ok, out
<1> QED
  BY <1>6, <1>7, <1>8

\* A file that has lost the end of its data area is no valid one.
LEMMA CutIsInvalid ==
    ASSUME NEW ops \in Seq(SizedOps(Byte)), FitFields(ops), NEW made, Stores(made, ops),
           NEW n \in 0..(Len(made.data) - 1), NEW g, g.ops = made.ops, g.data = SubSeq(made.data, 1, n)
    PROVE  ~Valid(g)
<1> SUFFICES ASSUME Valid(g)
             PROVE  FALSE
  OBVIOUS
<1>1. PICK m \in Nat : m = Len(ops)
  OBVIOUS
<1>2. /\ DOMAIN g.ops = 1..m /\ made.data = DataOf(ops)
      /\ \A i \in 1..m : Laid(g.ops[i], ops, i)
  BY <1>1 DEF Stores
<1>3. \A i \in 1..m : ValidOperation(g, g.ops[i])
  BY <1>2 DEF Valid
<1>4. ops \in Seq(OpsOf(Byte))
  BY SizedLists
<1>5. PICK a : a = Areas(ops) /\ AreaSteps(a, ops, Byte)
  BY <1>4, AreasAreSteps
<1>6. PICK h \in Nat : h = Len(DataOf(ops)) /\ h = Len(a[m]) /\ DataOf(ops) \in Seq(Byte)
  <2>1. a[m] \in Seq(Byte) /\ DataOf(ops) = a[m]
    BY <1>1, <1>5 DEF AreaSteps, DataOf
  <2> QED
    BY <2>1
<1>7. n \in Nat /\ n < h
  BY <1>2, <1>6
<1>8. Len(g.data) = n
  <2>1. DataOf(ops) \in Seq(Byte) /\ 0 \in Nat /\ n \in Nat /\ 0 <= n /\ n <= Len(DataOf(ops))
    BY <1>6, <1>7
  <2>2. Len(Stretch(DataOf(ops), 0, n)) = n - 0
    BY ONLY <2>1, StretchProperties
  <2>3. g.data = Stretch(DataOf(ops), 0, n)
    BY <1>2 DEF Stretch
  <2> QED
    BY <1>7, <2>2, <2>3
<1>9. Field(n) = n
  <2>1. n < FieldValues
    BY <1>6, <1>7, GeneratorAssumption DEF FitFields
  <2> QED
    BY <1>7, <2>1, FieldKeeps
<1> DEFINE S == {i \in 0..m : Len(a[i]) = h}
<1>10. PICK i \in S : \A j \in S : i <= j
  <2>1. S \subseteq Nat /\ m \in S
    BY <1>6
  <2> HIDE DEF S
  <2> QED
    BY <2>1, LeastNumber
<1>11. i # 0
  BY <1>5, <1>7 DEF AreaSteps
<1>12. i \in 1..m /\ i - 1 \in 0..m /\ Len(a[i]) = h
  BY <1>10, <1>11
<1>13. Len(a[i - 1]) # h
  BY <1>10, <1>12
<1>14. PICK op \in SizedOps(Byte) : op = ops[i]
  BY <1>1, <1>12, SizedElement
<1>15. Laid(g.ops[i], ops, i) /\ ValidOperation(g, g.ops[i])
  BY <1>2, <1>3, <1>12
<1>16. op.type = "insert"
  <2> SUFFICES ASSUME op.type # "insert"
               PROVE  FALSE
    OBVIOUS
  <2>1. op.data = <<>>
    BY SizedFields
  <2>2. a[i] = a[i - 1] \o op.data /\ a[i - 1] \in Seq(Byte)
    BY <1>1, <1>5, <1>12, <1>14 DEF AreaSteps
  <2>3. a[i] = a[i - 1]
    BY <2>1, <2>2, ConcatEmptySeq
  <2> QED
    BY <1>12, <1>13, <2>3
<1>17. PICK p : p = g.ops[i] /\ p.type = "insert" /\ Laid(p, ops, i) /\ ValidOperation(g, p)
  BY <1>14, <1>15, <1>16 DEF Laid
<1>18. InBounds(g, p)
  BY <1>17 DEF ValidOperation
<1>19. Field(p.dataOffset + p.size) = p.dataOffset + p.size /\ p.dataOffset + p.size = Len(Areas(ops)[i])
  BY <1>1, <1>12, <1>17, InsertBounds
<1>20. h <= n
  BY <1>5, <1>8, <1>9, <1>12, <1>18, <1>19 DEF InBounds
<1> QED
  BY <1>7, <1>20

-----------------------------------------------------------------------------
(* What a patch file gives.                                                *)

\* The file that the call writes if nothing goes wrong and the generator's
\* fields are empty before it.
FirstContents == Encoded(IF generator.streaming THEN delta ELSE RemoveEmpty(delta), <<>>, 0)

FirstWhole ==
    [head |-> TRUE, broken |-> FALSE, count |-> Len(FirstContents.ops), source |-> sourceSum,
     target |-> target, ops |-> FirstContents.ops, data |-> FirstContents.data]

GeneratorTypes ==
    /\ generator \in {<<>>} \cup [streaming : BOOLEAN, gzip : BOOLEAN]
    /\ genStep \in {"idle", "delta", "summed"}
    /\ wrote \in {"none", "part", "all"}
    /\ generations \in Nat
    /\ oldFile \in Seq(Byte) /\ deltaSource \in Seq(Byte)
    /\ delta \in Seq(SizedOps(Byte))

\* No call has begun before there is a generator, and none has written before
\* its last step.
CallsInOrder ==
    /\ generator = <<>> => generations = 0
    /\ generations = 0 => genStep = "idle" /\ wrote = "none"
    /\ wrote # "none" => genStep = "idle"

\* The streaming generator's fields are as new until its first call has written.
FieldsNew ==
    generations = 0 \/ (generations = 1 /\ genStep # "idle") => spgOps = <<>> /\ spgOffset = 0

GeneratorInv ==
    /\ GeneratorTypes /\ CallsInOrder /\ FieldsNew
    /\ Rebuild(deltaSource, delta) = target
    /\ FirstUse => /\ wrote = "all" => patchFile = FirstWhole
                   /\ wrote = "part" => patchFile \in Cuts(FirstWhole) \cup {FirstWhole}

LEMMA FirstIsWhole ==
    ASSUME GeneratorInv, FirstUse, genStep = "summed"
    PROVE  Whole = FirstWhole
<1>1. generator.streaming => spgOps = <<>> /\ spgOffset = 0
  BY DEF GeneratorInv, FieldsNew, FirstUse
<1>2. Contents = FirstContents
  BY <1>1 DEF Contents, FirstContents
<1> QED
  BY <1>2 DEF Whole, FirstWhole

LEMMA InitGenerator == PatchInit => GeneratorInv
<1> SUFFICES ASSUME PatchInit
             PROVE  GeneratorInv
  OBVIOUS
<1>1. <<>> \in Seq(Byte) /\ <<>> \in Seq(SizedOps(Byte))
  BY EmptySeq
<1>2. GeneratorTypes
  BY <1>1 DEF PatchInit, GeneratorTypes
<1>3. CallsInOrder /\ FieldsNew
  BY DEF PatchInit, CallsInOrder, FieldsNew
<1>4. Rebuild(deltaSource, delta) = target
  <2>1. 0 \in Byte
    BY DEF Byte
  <2>2. Rebuild(<<>>, <<>>) = <<>>
    BY <1>1, <2>1, RebuildNothing
  <2> QED
    BY <2>2 DEF PatchInit
<1>5. wrote = "none"
  BY DEF PatchInit
<1> QED
  BY <1>2, <1>3, <1>4, <1>5 DEF GeneratorInv

\* A step before the call writes.
LEMMA GeneratorWaits ==
    ASSUME GeneratorInv,
           NewGenerator \/ SumSource \/ SumSourceShort \/ FailGeneration \/ DataWriteFails \/ EditOld
    PROVE  GeneratorInv'
<1>1. GeneratorTypes'
  <2>1. oldFile' \in Seq(Byte)
    BY GeneratorAssumption DEF GeneratorInv, GeneratorTypes, NewGenerator, SumSource, SumSourceShort,
              FailGeneration, DataWriteFails, EditOld
  <2> QED
    BY <2>1 DEF GeneratorInv, GeneratorTypes, NewGenerator, SumSource, SumSourceShort,
              FailGeneration, DataWriteFails, EditOld
<1>2. CallsInOrder' /\ FieldsNew'
  BY DEF GeneratorInv, GeneratorTypes, CallsInOrder, FieldsNew, NewGenerator, SumSource,
         SumSourceShort, FailGeneration, DataWriteFails, EditOld
<1>3. deltaSource' = deltaSource /\ delta' = delta /\ target' = target
  BY DEF NewGenerator, SumSource, SumSourceShort, FailGeneration, DataWriteFails, EditOld
<1>4. wrote' = "none"
  BY DEF GeneratorInv, GeneratorTypes, CallsInOrder, NewGenerator, SumSource, SumSourceShort,
         FailGeneration, DataWriteFails, EditOld
<1> QED
  BY <1>1, <1>2, <1>3, <1>4 DEF GeneratorInv

LEMMA GenerationBegins ==
    ASSUME GeneratorInv, generations < MaxGenerations,
           NEW list \in Lists[generations + 1], BeginGeneration(list)
    PROVE  GeneratorInv'
<1>1. list \in Seq(SizedOps(Byte)) /\ 0 \in Byte
  <2>1. generations + 1 \in 1..MaxGenerations
    BY GeneratorAssumption DEF GeneratorInv, GeneratorTypes
  <2> QED
    BY <2>1, GeneratorAssumption DEF Byte
<1>2. PICK passed : passed = OptimizeDelta(list) /\ Preserves(passed, Byte, list)
  BY <1>1, OptimizerPreserves
<1>3. /\ passed \in Seq(SizedOps(Byte)) /\ oldFile \in Seq(Byte)
      /\ Rebuild(oldFile, passed) = Rebuild(oldFile, list)
  BY <1>2 DEF Preserves, GeneratorInv, GeneratorTypes
<1>4. /\ generator' = generator /\ generator # <<>> /\ genStep' = "delta" /\ wrote' = "none"
      /\ generations' = generations + 1 /\ deltaSource' = oldFile /\ oldFile' = oldFile
      /\ delta' = passed /\ target' = Rebuild(oldFile, list)
      /\ spgOps' = spgOps /\ spgOffset' = spgOffset
  BY <1>2 DEF BeginGeneration
<1>5. GeneratorTypes'
  BY <1>3, <1>4 DEF GeneratorInv, GeneratorTypes
<1>6. CallsInOrder' /\ FieldsNew'
  <2>1. generations \in Nat
    BY DEF GeneratorInv, GeneratorTypes
  <2>2. generations' # 0 /\ (generations' = 1 => generations = 0)
    BY <1>4, <2>1
  <2> QED
    BY <1>4, <2>2 DEF GeneratorInv, CallsInOrder, FieldsNew
<1> QED
  BY <1>3, <1>4, <1>5, <1>6 DEF GeneratorInv

\* The step that writes, whole or in part.
LEMMA GenerationWrites ==
    ASSUME GeneratorInv, WritePatch \/ WriteCutShort \/ KillGenerator
    PROVE  GeneratorInv'
<1>1. /\ genStep = "summed" /\ genStep' = "idle"
      /\ UNCHANGED <<generator, oldFile, deltaSource, delta, target, sourceSum, generations>>
  BY DEF WritePatch, WriteCutShort, KillGenerator
<1>2. \/ wrote' = "all" /\ patchFile' = Whole
      \/ wrote' = "part" /\ patchFile' \in Cuts(Whole) \cup {Whole}
  BY DEF WritePatch, WriteCutShort, KillGenerator, Cuts
<1>3. GeneratorTypes'
  BY <1>1, <1>2 DEF GeneratorInv, GeneratorTypes
<1>4. CallsInOrder' /\ FieldsNew'
  BY <1>1 DEF GeneratorInv, CallsInOrder, FieldsNew
<1>5. FirstUse' => /\ wrote' = "all" => patchFile' = FirstWhole'
                   /\ wrote' = "part" => patchFile' \in Cuts(FirstWhole)' \cup {FirstWhole'}
  <2> SUFFICES ASSUME FirstUse'
               PROVE  /\ wrote' = "all" => patchFile' = FirstWhole'
                      /\ wrote' = "part" => patchFile' \in Cuts(FirstWhole)' \cup {FirstWhole'}
    OBVIOUS
  <2>1. FirstUse
    BY <1>1 DEF FirstUse
  <2>2. Whole = FirstWhole
    BY <1>1, <2>1, FirstIsWhole
  <2>3. FirstWhole' = FirstWhole
    BY <1>1 DEF FirstWhole, FirstContents
  <2>4. Cuts(FirstWhole)' = Cuts(FirstWhole)
    BY <1>1, <2>3 DEF Cuts, CutInOps, CutInData
  <2> QED
    BY <1>2, <2>2, <2>3, <2>4
<1> QED
  BY <1>1, <1>3, <1>4, <1>5 DEF GeneratorInv

LEMMA GeneratorIsInductive == PatchSpec => []GeneratorInv
<1>1. PatchInit => GeneratorInv
  BY InitGenerator
<1>2. GeneratorInv /\ [PatchNext]_patchVars => GeneratorInv'
  <2> SUFFICES ASSUME GeneratorInv, [PatchNext]_patchVars
               PROVE  GeneratorInv'
    OBVIOUS
  <2>1. CASE NewGenerator \/ SumSource \/ SumSourceShort \/ FailGeneration \/ DataWriteFails \/ EditOld
    BY <2>1, GeneratorWaits
  <2>2. CASE WritePatch \/ WriteCutShort \/ KillGenerator
    BY <2>2, GenerationWrites
  <2>3. ASSUME generations < MaxGenerations, NEW list \in Lists[generations + 1], BeginGeneration(list)
        PROVE  GeneratorInv'
    BY <2>3, GenerationBegins
  <2>4. CASE UNCHANGED patchVars
    <3>1. Cuts(FirstWhole)' = Cuts(FirstWhole) /\ FirstWhole' = FirstWhole
      BY <2>4 DEF patchVars, Cuts, CutInOps, CutInData, FirstWhole, FirstContents
    <3>2. /\ GeneratorTypes' = GeneratorTypes /\ CallsInOrder' = CallsInOrder /\ FieldsNew' = FieldsNew
          /\ FirstUse' = FirstUse
      BY <2>4 DEF patchVars, GeneratorTypes, CallsInOrder, FieldsNew, FirstUse
    <3> QED
      BY <2>4, <3>1, <3>2 DEF patchVars, GeneratorInv
  <2> QED
    BY <2>1, <2>2, <2>3, <2>4 DEF PatchNext
<1> QED
  BY <1>1, <1>2, PTL DEF PatchSpec

LEMMA GeneratorInvApplies == GeneratorInv => PatchApplies
<1> SUFFICES ASSUME GeneratorInv, FirstUse, sourceSum = deltaSource, Fits,
                    wrote = "all" \/ (wrote = "part" /\ Valid(patchFile))
             PROVE  Applied(patchFile, deltaSource) = [ok |-> TRUE, file |-> target]
  BY DEF PatchApplies
<1>1. delta \in Seq(SizedOps(Byte)) /\ deltaSource \in Seq(Byte) /\ 0 \in Byte
  BY DEF GeneratorInv, GeneratorTypes, Byte
<1>2. PICK ops \in Seq(SizedOps(Byte)) :
         /\ ops = IF generator.streaming THEN delta ELSE RemoveEmpty(delta)
         /\ Rebuild(deltaSource, ops) = Rebuild(deltaSource, delta)
         /\ DataOf(ops) = DataOf(delta)
         /\ FitFields(ops)
  <2>1. DataOf(delta) = Encoded(delta, <<>>, 0).data
    BY DEF Encoded, DataOf
  <2>2. FitFields(delta)
    <3>1. DOMAIN delta = 1..Len(delta)
      BY <1>1
    <3> QED
      BY <2>1, <3>1 DEF Fits, FitFields
  <2>3. CASE generator.streaming
    BY <1>1, <2>2, <2>3
  <2>4. CASE ~generator.streaming
    <3>1. Preserves(RemoveEmpty(delta), Byte, delta)
      BY <1>1, RemoveEmptyPreserves
    <3>2. PICK kept \in Seq(SizedOps(Byte)) :
             /\ kept = RemoveEmpty(delta)
             /\ Rebuild(deltaSource, kept) = Rebuild(deltaSource, delta)
      BY <1>1, <3>1 DEF Preserves
    <3>3. DataOf(kept) = DataOf(delta)
      BY <1>1, <3>2, DataKept
    <3>4. \A i \in 1..Len(kept) : kept[i].size < FieldValues
      <4> DEFINE S == {op \in SizedOps(Byte) : op.size < FieldValues}
      <4>1. delta \in Seq(S)
        <5>1. \A i \in 1..Len(delta) : delta[i] \in S
          BY <1>1, <2>2, SizedElement DEF FitFields
        <5>2. delta \in [1..Len(delta) -> S] /\ Len(delta) \in Nat
          <6> HIDE DEF S
          <6> QED
            BY <1>1, <5>1
        <5> HIDE DEF S
        <5> QED
          BY <5>2
      <4>2. kept \in Seq(S)
        <5> HIDE DEF S
        <5>1. PICK t \in [0..Len(delta) -> Seq(S)] : RemoveEmpty(delta) = t[Len(delta)]
          BY <4>1, KeptSteps
        <5>2. Len(delta) \in 0..Len(delta)
          BY <1>1
        <5> QED
          BY <3>2, <5>1, <5>2
      <4>3. \A i \in 1..Len(kept) : kept[i] \in S
        <5> HIDE DEF S
        <5> QED
          BY <4>2
      <4> QED
        BY <4>3
    <3>5. FitFields(kept)
      BY <2>2, <3>3, <3>4 DEF FitFields
    <3> QED
      BY <2>4, <3>2, <3>3, <3>5
  <2> QED
    BY <2>3, <2>4
<1>3. FirstContents = Encoded(ops, <<>>, 0) /\ Stores(FirstContents, ops)
  <2>1. FirstContents = Encoded(ops, <<>>, 0)
    BY <1>2 DEF FirstContents
  <2> QED
    BY <1>2, <2>1, EncodedStores
<1>4. PICK e : e = FirstContents /\ Stores(e, ops)
  BY <1>3
<1>5. FirstWhole = [head |-> TRUE, broken |-> FALSE, count |-> Len(e.ops), source |-> sourceSum,
                    target |-> target, ops |-> e.ops, data |-> e.data]
  BY <1>4 DEF FirstWhole
<1>6. CASE patchFile = FirstWhole
  <2>1. PICK f : f = patchFile /\ f = FirstWhole
    BY <1>6
  <2>2. /\ f.head = TRUE /\ f.broken = FALSE /\ f.count = Len(f.ops) /\ f.ops = e.ops /\ f.data = e.data
        /\ f.source = deltaSource /\ f.target = target
    BY <1>5, <2>1
  <2>3. HoldsAll(f, ops)
    BY <1>4, <2>2 DEF HoldsAll, Stores
  <2>4. f.target = Rebuild(deltaSource, ops)
    BY <1>2, <2>2 DEF GeneratorInv
  <2>5. Applied(f, deltaSource) = [ok |-> TRUE, file |-> f.target]
    BY <1>1, <1>2, <2>2, <2>3, <2>4, ReadsBack
  <2> QED
    BY <2>1, <2>2, <2>5
<1>7. CASE patchFile \in Cuts(FirstWhole) /\ Valid(patchFile)
  <2>1. PICK g : g = patchFile /\ g \in Cuts(FirstWhole) /\ Valid(g)
    BY <1>7
  <2>2. g.head /\ g.data # <<>>
    BY <2>1 DEF Valid, Readable
  <2>3. g # EmptyFile
    BY <2>2 DEF EmptyFile
  <2>4. ASSUME NEW n, g = CutInOps(FirstWhole, n)
        PROVE  FALSE
    BY <1>5, <2>2, <2>4 DEF CutInOps
  <2>5. PICK n \in 0..(Len(FirstWhole.data) - 1) : g = CutInData(FirstWhole, n)
    BY <2>1, <2>3, <2>4 DEF Cuts
  <2>6. n \in 0..(Len(e.data) - 1) /\ g.ops = e.ops /\ g.data = SubSeq(e.data, 1, n)
    BY <1>5, <2>5 DEF CutInData
  <2>7. ~Valid(g)
    BY <1>2, <1>4, <2>6, CutIsInvalid
  <2> QED
    BY <2>1, <2>7
<1> QED
  BY <1>6, <1>7 DEF GeneratorInv

\* Whatever list of operations a delta has, with overlaps, gaps and copies that
\* run past the end: the file that a generator's first call writes of it,
\* optimized and in the fields of the format, applies to the old file and gives
\* the new one, if the sizes fit the fields and the old file did not change
\* between the two reads.  So does what a failed or killed write has left of the
\* file, if the validator passes it: it passes no proper part.
THEOREM PatchGivesNewFile == PatchSpec => []PatchApplies
<1>1. GeneratorInv => PatchApplies
  BY GeneratorInvApplies
<1> QED
  BY <1>1, GeneratorIsInductive, PTL

-----------------------------------------------------------------------------
(* The file of a directory patch.                                          *)

Units == {<<"header", n>> : n \in Nat} \cup {<<"entry", n, m>> : n \in Nat, m \in Nat}
           \cup {<<"byte", v>> : v \in 0..255}

PatchEntries == [path : Seq(0..255), data : Seq(0..255)]

\* What the reader has between two entries.
ReadStates == [ok : BOOLEAN, rest : Seq(Units), files : Seq([path : Seq(Nat), data : Seq(Nat)])]

LEMMA UnitFields ==
    ASSUME NEW u \in Units
    PROVE  u[2] \in Nat /\ (u[1] = "entry" => u[3] \in Nat)
BY DEF Units

\* s is the stretch of f from a to b.
IsStretch(s, S, f, a, b) ==
    /\ s \in Seq(S) /\ Len(s) = b - a
    /\ \A i \in 1..(b - a) : s[i] = f[a + i]

LEMMA StretchIs ==
    ASSUME NEW S, NEW f \in Seq(S), NEW a \in Nat, NEW b \in Nat, a <= b, b <= Len(f)
    PROVE  IsStretch(Stretch(f, a, b), S, f, a, b)
BY StretchProperties DEF IsStretch

\* A stretch of a stretch.
LEMMA StretchWithin ==
    ASSUME NEW S, NEW f \in Seq(S), NEW a \in Nat, NEW b \in Nat, NEW x \in Nat, NEW y \in Nat,
           a <= b, b <= Len(f), x <= y, y <= b - a
    PROVE  Stretch(Stretch(f, a, b), x, y) = Stretch(f, a + x, a + y)
<1>1. PICK s \in Seq(S) : s = Stretch(f, a, b) /\ IsStretch(s, S, f, a, b)
  <2>1. IsStretch(Stretch(f, a, b), S, f, a, b)
    BY StretchIs
  <2> QED
    BY <2>1 DEF IsStretch
<1>2. Len(s) = b - a /\ \A i \in 1..(b - a) : s[i] = f[a + i]
  BY <1>1 DEF IsStretch
<1>3. PICK t \in Seq(S) : t = Stretch(s, x, y) /\ IsStretch(t, S, s, x, y)
  <2>1. IsStretch(Stretch(s, x, y), S, s, x, y)
    BY <1>2, StretchIs
  <2> QED
    BY <2>1 DEF IsStretch
<1>4. PICK u \in Seq(S) : u = Stretch(f, a + x, a + y) /\ IsStretch(u, S, f, a + x, a + y)
  <2>1. PICK c \in Nat : c = a + x
    OBVIOUS
  <2>2. PICK d \in Nat : d = a + y
    OBVIOUS
  <2>3. c <= d /\ d <= Len(f)
    BY <2>1, <2>2
  <2>4. IsStretch(Stretch(f, c, d), S, f, c, d)
    BY <2>3, StretchIs
  <2> QED
    BY <2>1, <2>2, <2>4 DEF IsStretch
<1>5. Len(t) = y - x /\ Len(u) = y - x
  <2>1. (a + y) - (a + x) = y - x
    OBVIOUS
  <2> QED
    BY <1>3, <1>4, <2>1 DEF IsStretch
<1>6. \A i \in 1..(y - x) : t[i] = u[i]
  <2> TAKE i \in 1..(y - x)
  <2>1. t[i] = s[x + i]
    BY <1>3 DEF IsStretch
  <2>2. x + i \in 1..(b - a) /\ a + (x + i) = (a + x) + i /\ (a + y) - (a + x) = y - x
    OBVIOUS
  <2>3. s[x + i] = f[a + (x + i)]
    BY <1>2, <2>2
  <2>4. u[i] = f[(a + x) + i]
    BY <1>4, <2>2 DEF IsStretch
  <2> QED
    BY <2>1, <2>2, <2>3, <2>4
<1>7. t = u
  BY <1>5, <1>6, SeqEqual
<1> QED
  BY <1>1, <1>3, <1>4, <1>7

LEMMA ValuesType ==
    ASSUME NEW s \in Seq(Units)
    PROVE  /\ Values(s) \in Seq(Nat) /\ Len(Values(s)) = Len(s)
           /\ \A i \in 1..Len(s) : Values(s)[i] = s[i][2]
<1>1. PICK n \in Nat : n = Len(s) /\ DOMAIN s = 1..n
  OBVIOUS
<1>2. \A i \in 1..n : s[i][2] \in Nat
  <2>1. \A i \in 1..n : s[i] \in Units
    BY <1>1
  <2> QED
    BY <2>1, UnitFields
<1> DEFINE v == [i \in 1..n |-> s[i][2]]
<1>3. Values(s) = v
  BY <1>1 DEF Values
<1>4. v \in [1..n -> Nat]
  BY <1>2
<1>5. \A i \in 1..n : v[i] = s[i][2]
  OBVIOUS
<1> HIDE DEF v
<1>6. v \in Seq(Nat) /\ Len(v) = n
  BY <1>4
<1> QED
  BY <1>1, <1>3, <1>5, <1>6

\* The reader finds a whole entry of p and d units.
FindsEntry(r, p, d) ==
    /\ r.ok = TRUE /\ r.rest # <<>> /\ Head(r.rest)[1] = "entry"
    /\ Head(r.rest)[2] = p /\ Head(r.rest)[3] = d /\ 1 + p + d <= Len(r.rest)

EntryOf(rest, p, d) ==
    [path |-> Values(Stretch(rest, 1, 1 + p)), data |-> Values(Stretch(rest, 1 + p, 1 + p + d))]

LEMMA ReadEntryFinds ==
    ASSUME NEW r \in ReadStates, NEW p \in Nat, NEW d \in Nat, FindsEntry(r, p, d)
    PROVE  /\ ReadEntry(r) = [ok    |-> TRUE,
                              rest  |-> Stretch(r.rest, 1 + p + d, Len(r.rest)),
                              files |-> Append(r.files, EntryOf(r.rest, p, d))]
           /\ ReadEntry(r) \in ReadStates
<1>1. PICK R \in Seq(Units) : R = r.rest
  BY DEF ReadStates
<1>2. PICK l \in Nat : l = Len(R)
  OBVIOUS
<1>3. 1 + p + d <= l
  BY <1>1, <1>2 DEF FindsEntry
<1>4. ReadEntry(r) = [ok    |-> TRUE,
                      rest  |-> SubSeq(R, 2 + p + d, l),
                      files |-> Append(r.files, [path |-> Values(SubSeq(R, 2, 1 + p)),
                                                 data |-> Values(SubSeq(R, 2 + p, 1 + p + d))])]
  <2>1. EntryComplete(Head(R), R)
    BY <1>1, <1>2, <1>3 DEF FindsEntry, EntryComplete
  <2> QED
    BY <1>1, <1>2, <2>1 DEF FindsEntry, ReadEntry
<1>5. 2 + p + d = (1 + p + d) + 1 /\ 2 + p = (1 + p) + 1 /\ 2 = 1 + 1
  OBVIOUS
<1>6. ReadEntry(r) = [ok    |-> TRUE,
                      rest  |-> Stretch(R, 1 + p + d, l),
                      files |-> Append(r.files, EntryOf(R, p, d))]
  BY <1>4, <1>5 DEF Stretch, EntryOf
<1>7. Stretch(R, 1 + p + d, l) \in Seq(Units)
  <2>1. PICK x \in Nat : x = 1 + p + d /\ x <= l
    BY <1>3
  <2>2. IsStretch(Stretch(R, x, l), Units, R, x, l)
    BY <1>2, <2>1, StretchIs
  <2> QED
    BY <2>1, <2>2 DEF IsStretch
<1>8. EntryOf(R, p, d) \in [path : Seq(Nat), data : Seq(Nat)]
  <2>1. PICK x \in Nat : x = 1 + p + d /\ x <= l
    BY <1>3
  <2>2. PICK y \in Nat : y = 1 + p /\ 1 <= y /\ y <= x
    BY <2>1
  <2>3. IsStretch(Stretch(R, 1, y), Units, R, 1, y)
    BY <1>2, <2>1, <2>2, StretchIs
  <2>4. IsStretch(Stretch(R, y, x), Units, R, y, x)
    BY <1>2, <2>1, <2>2, StretchIs
  <2>5. Values(Stretch(R, 1, y)) \in Seq(Nat) /\ Values(Stretch(R, y, x)) \in Seq(Nat)
    BY <2>3, <2>4, ValuesType DEF IsStretch
  <2> QED
    BY <2>1, <2>2, <2>5 DEF EntryOf
<1>9. Append(r.files, EntryOf(R, p, d)) \in Seq([path : Seq(Nat), data : Seq(Nat)])
  <2> DEFINE F == [path : Seq(Nat), data : Seq(Nat)]
  <2>1. r.files \in Seq(F) /\ EntryOf(R, p, d) \in F
    BY <1>8 DEF ReadStates
  <2> HIDE DEF F
  <2>2. Append(r.files, EntryOf(R, p, d)) \in Seq(F)
    BY <2>1, AppendProperties
  <2> QED
    BY <2>2 DEF F
<1> QED
  BY <1>1, <1>2, <1>6, <1>7, <1>9 DEF ReadStates

LEMMA ReadEntryFails ==
    ASSUME NEW r \in ReadStates,
           \A p \in Nat, d \in Nat : ~FindsEntry(r, p, d)
    PROVE  ReadEntry(r).ok = FALSE /\ ReadEntry(r) \in ReadStates
<1>1. PICK R \in Seq(Units) : R = r.rest
  BY DEF ReadStates
<1>2. ~(r.ok /\ R # <<>> /\ Head(R)[1] = "entry" /\ EntryComplete(Head(R), R))
  <2> SUFFICES ASSUME r.ok, R # <<>>, Head(R)[1] = "entry", EntryComplete(Head(R), R)
               PROVE  FALSE
    OBVIOUS
  <2>1. Head(R) \in Units
    BY HeadTailProperties
  <2>2. PICK p \in Nat, d \in Nat : p = Head(R)[2] /\ d = Head(R)[3]
    BY <2>1, UnitFields
  <2>3. FindsEntry(r, p, d)
    BY <1>1, <2>2 DEF FindsEntry, EntryComplete, ReadStates
  <2> QED
    BY <2>3
<1>3. ReadEntry(r) = [r EXCEPT !.ok = FALSE]
  BY <1>1, <1>2 DEF ReadEntry
<1> QED
  BY <1>3 DEF ReadStates

\* The recursion of ReadPatch, spelt out.
ReadSteps(t, file, n) ==
    /\ t \in [0..n -> ReadStates]
    /\ t[0] = [ok |-> TRUE, rest |-> Tail(file), files |-> <<>>]
    /\ \A i \in 1..n : t[i] = ReadEntry(t[i - 1])
    /\ ReadPatch(file) = [ok |-> t[n].ok, files |-> t[n].files]

LEMMA ReadPatchSteps ==
    ASSUME NEW file \in Seq(Units), file # <<>>, NEW n \in Nat, file[1][2] = n
    PROVE  \E t : ReadSteps(t, file, n)
<1> DEFINE V == ReadStates
           start == [ok |-> TRUE, rest |-> Tail(file), files |-> <<>>]
           Rec(t) == t = [i \in 0..n |-> IF i = 0 THEN start ELSE ReadEntry(t[i - 1])]
           T == CHOOSE t : Rec(t)
<1>0. start \in V /\ \A r \in V : ReadEntry(r) \in V
  <2>1. Tail(file) \in Seq(Units)
    BY HeadTailProperties
  <2>2. <<>> \in Seq([path : Seq(Nat), data : Seq(Nat)])
    OBVIOUS
  <2>3. start \in V
    BY <2>1, <2>2 DEF ReadStates
  <2>4. ASSUME NEW r \in V PROVE ReadEntry(r) \in V
    <3>1. CASE \E p \in Nat, d \in Nat : FindsEntry(r, p, d)
      BY <3>1, ReadEntryFinds
    <3>2. CASE \A p \in Nat, d \in Nat : ~FindsEntry(r, p, d)
      BY <3>2, ReadEntryFails
    <3> QED
      BY <3>1, <3>2
  <2> QED
    BY <2>3, <2>4
<1> HIDE DEF start, V
<1>1. \E t : Rec(t)
  <2> DEFINE step == [i \in 1..n |-> [d \in V |-> ReadEntry(d)]]
  <2>1. step \in [1..n -> [V -> V]]
    BY <1>0
  <2>2. PICK t \in [0..n -> V] : Solves(t, n, start, step)
    <3> HIDE DEF step
    <3> QED
      BY <1>0, <2>1, SolutionExists
  <2>3. ASSUME NEW i \in 0..n
        PROVE  t[i] = IF i = 0 THEN start ELSE ReadEntry(t[i - 1])
    <3>1. t[i] = IF i = 0 THEN start ELSE step[i][t[i - 1]]
      BY <2>2 DEF Solves
    <3>2. i # 0 => t[i] = ReadEntry(t[i - 1])
      <4> HAVE i # 0
      <4>1. i \in 1..n /\ i - 1 \in 0..n
        OBVIOUS
      <4>2. t[i - 1] \in V
        BY <2>2, <4>1
      <4>3. step[i][t[i - 1]] = ReadEntry(t[i - 1])
        BY <4>1, <4>2
      <4> QED
        BY <3>1, <4>3
    <3> QED
      BY <3>1, <3>2
  <2> QED
    BY <2>2, <2>3
<1>2. Rec(T)
  BY <1>1
<1>3. ReadPatch(file) = [ok |-> T[n].ok, files |-> T[n].files]
  BY DEF ReadPatch, start
<1> HIDE DEF T
<1>4. T[0] = start /\ \A i \in 1..n : T[i] = ReadEntry(T[i - 1])
  <2>1. \A i \in 0..n : T[i] = IF i = 0 THEN start ELSE ReadEntry(T[i - 1])
    BY <1>2
  <2>2. 0 \in 0..n /\ \A i \in 1..n : i \in 0..n /\ i # 0
    OBVIOUS
  <2> QED
    BY <2>1, <2>2, Zenon
<1>5. \A i \in 0..n : T[i] \in V
  <2>1. \A i \in 1..n : T[i - 1] \in V => T[i] \in V
    BY <1>0, <1>4
  <2> QED
    BY <1>0, <1>4, <2>1, SolutionType
<1>6. T \in [0..n -> V]
  BY <1>2, <1>5
<1> QED
  BY <1>3, <1>4, <1>6 DEF ReadSteps, V, start

\* The lengths of the entries fit their fields.
LengthsFit(es) ==
    \A i \in DOMAIN es : Len(es[i].path) < LengthValues /\ Len(es[i].data) < LengthValues

\* m is the entry e in p and d units behind the fixed one.
Marshals(m, e, p, d) ==
    /\ m \in Seq(Units) /\ Len(m) = 1 + p + d
    /\ p = Len(e.path) /\ d = Len(e.data)
    /\ m[1][1] = "entry" /\ m[1][2] = p /\ m[1][3] = d
    /\ \A i \in 1..p : m[1 + i][2] = e.path[i]
    /\ \A i \in 1..d : m[(1 + p) + i][2] = e.data[i]

LEMMA LengthKeeps ==
    ASSUME NEW n \in Nat, n < LengthValues
    PROVE  Length(n) = n
BY DirPatchFileAssumption DEF Length

LEMMA UnitsMade ==
    /\ \A v \in 0..255 : <<"byte", v>> \in Units
    /\ \A n, m \in Nat : <<"entry", n, m>> \in Units
    /\ \A n \in Nat : <<"header", n>> \in Units
<1> DEFINE H == {<<"header", n>> : n \in Nat}
           E == {<<"entry", n, m>> : n \in Nat, m \in Nat}
           V == {<<"byte", v>> : v \in 0..255}
<1>1. \A v \in 0..255 : <<"byte", v>> \in V
  OBVIOUS
<1>2. \A n, m \in Nat : <<"entry", n, m>> \in E
  OBVIOUS
<1>3. \A n \in Nat : <<"header", n>> \in H
  OBVIOUS
<1>4. Units = H \cup E \cup V
  BY DEF Units
<1> HIDE DEF H, E, V
<1> QED
  BY <1>1, <1>2, <1>3, <1>4

LEMMA OneUnit ==
    ASSUME NEW u \in Units
    PROVE  <<u>> \in Seq(Units) /\ Len(<<u>>) = 1 /\ <<u>>[1] = u
OBVIOUS

\* Two sequences put together, with the length of the first.
Follows(z, x, l, y, k) ==
    /\ z = x \o y /\ z \in Seq(Units) /\ Len(z) = l + k
    /\ \A i \in 1..l : z[i] = x[i]
    /\ \A i \in 1..k : z[l + i] = y[i]

LEMMA ConcatFollows ==
    ASSUME NEW x \in Seq(Units), NEW y \in Seq(Units), NEW l \in Nat, NEW k \in Nat,
           l = Len(x), k = Len(y)
    PROVE  Follows(x \o y, x, l, y, k)
<1>1. PICK z \in Seq(Units) :
         /\ z = x \o y /\ Len(z) = l + k
         /\ \A i \in 1..(l + k) : z[i] = IF i <= l THEN x[i] ELSE y[i - l]
  <2>1. /\ x \o y \in Seq(Units) /\ Len(x \o y) = Len(x) + Len(y)
        /\ \A i \in 1..(Len(x) + Len(y)) : (x \o y)[i] = IF i <= Len(x) THEN x[i] ELSE y[i - Len(x)]
    BY ConcatProperties
  <2> QED
    BY <2>1
<1>2. \A i \in 1..l : i \in 1..(l + k) /\ i <= l
  OBVIOUS
<1>3. \A i \in 1..k : l + i \in 1..(l + k) /\ ~(l + i <= l) /\ (l + i) - l = i
  OBVIOUS
<1>4. \A i \in 1..l : z[i] = x[i]
  BY <1>1, <1>2
<1>5. \A i \in 1..k : z[l + i] = y[i]
  BY <1>1, <1>3
<1> QED
  BY <1>1, <1>4, <1>5 DEF Follows

LEMMA BytesType ==
    ASSUME NEW s \in Seq(0..255)
    PROVE  /\ Bytes(s) \in Seq(Units) /\ Len(Bytes(s)) = Len(s)
           /\ \A i \in 1..Len(s) : Bytes(s)[i][2] = s[i]
<1>1. PICK n \in Nat : n = Len(s) /\ DOMAIN s = 1..n
  OBVIOUS
<1> DEFINE b == [i \in 1..n |-> <<"byte", s[i]>>]
<1>2. Bytes(s) = b
  BY <1>1 DEF Bytes
<1>3. b \in [1..n -> Units]
  <2>1. \A i \in 1..n : s[i] \in 0..255
    BY <1>1
  <2>2. \A i \in 1..n : <<"byte", s[i]>> \in Units
    BY <2>1, UnitsMade
  <2> QED
    BY <2>2
<1>4. \A i \in 1..n : b[i][2] = s[i]
  OBVIOUS
<1> HIDE DEF b
<1>5. b \in Seq(Units) /\ Len(b) = n
  BY <1>3
<1> QED
  BY <1>1, <1>2, <1>4, <1>5

LEMMA EntryMarshals ==
    ASSUME NEW e \in PatchEntries, Len(e.path) < LengthValues, Len(e.data) < LengthValues
    PROVE  \E p \in Nat, d \in Nat : Marshals(MarshalEntry(e), e, p, d)
<1>1. e.path \in Seq(0..255) /\ e.data \in Seq(0..255)
  BY DEF PatchEntries
<1>2. PICK p \in Nat : p = Len(e.path) /\ Length(p) = p
  BY <1>1, LengthKeeps
<1>3. PICK d \in Nat : d = Len(e.data) /\ Length(d) = d
  BY <1>1, LengthKeeps
<1>4. PICK x \in Seq(Units) :
         x = Bytes(e.path) /\ Len(x) = p /\ \A i \in 1..p : x[i][2] = e.path[i]
  BY <1>1, <1>2, BytesType
<1>5. PICK y \in Seq(Units) :
         y = Bytes(e.data) /\ Len(y) = d /\ \A i \in 1..d : y[i][2] = e.data[i]
  BY <1>1, <1>3, BytesType
<1>6. PICK u \in Units : u = <<"entry", p, d>>
  BY UnitsMade
<1>7. PICK f \in Seq(Units) : f = <<u>> /\ Len(f) = 1 /\ f[1] = u
  BY OneUnit
<1>8. MarshalEntry(e) = (f \o x) \o y
  BY <1>2, <1>3, <1>4, <1>5, <1>6, <1>7 DEF MarshalEntry
<1>9. PICK h \in Nat : h = 1 + p
  OBVIOUS
<1>10. PICK g \in Seq(Units) : g = f \o x /\ Follows(g, f, 1, x, p) /\ Len(g) = h
  <2>1. Follows(f \o x, f, 1, x, p)
    BY <1>4, <1>7, ConcatFollows
  <2> QED
    BY <1>9, <2>1 DEF Follows
<1>11. PICK m \in Seq(Units) : m = g \o y /\ Follows(m, g, h, y, d)
  <2>1. Follows(g \o y, g, h, y, d)
    BY <1>5, <1>10, ConcatFollows
  <2> QED
    BY <2>1 DEF Follows
<1>12. /\ m[1] = u
       /\ \A i \in 1..p : m[1 + i] = x[i]
       /\ \A i \in 1..d : m[h + i] = y[i]
  <2>1. 1 \in 1..h /\ 1 \in 1..1 /\ \A i \in 1..p : 1 + i \in 1..h
    BY <1>9
  <2>2. g[1] = f[1] /\ \A i \in 1..p : g[1 + i] = x[i]
    BY <1>10, <2>1 DEF Follows
  <2>3. /\ \A i \in 1..h : m[i] = g[i]
        /\ \A i \in 1..d : m[h + i] = y[i]
    BY <1>11 DEF Follows
  <2> QED
    BY <1>7, <2>1, <2>2, <2>3
<1>13. /\ \A i \in 1..p : m[1 + i][2] = e.path[i]
       /\ \A i \in 1..d : m[(1 + p) + i][2] = e.data[i]
  <2>1. \A i \in 1..p : m[1 + i][2] = e.path[i]
    BY <1>4, <1>12
  <2>2. \A i \in 1..d : m[h + i][2] = e.data[i]
    BY <1>5, <1>12
  <2> QED
    BY <1>9, <2>1, <2>2
<1>14. m[1][1] = "entry" /\ m[1][2] = p /\ m[1][3] = d
  BY <1>6, <1>12
<1>15. MarshalEntry(e) = m
  BY <1>8, <1>10, <1>11
<1>16. Marshals(m, e, p, d)
  <2>1. Len(m) = 1 + p + d
    BY <1>9, <1>11 DEF Follows
  <2> QED
    BY <1>2, <1>3, <1>13, <1>14, <2>1 DEF Marshals
<1> QED
  BY <1>15, <1>16

\* The entries of es, one behind the other: b[i] is what the first i of them take.
Body(b, es) ==
    /\ JoinSteps(b, [i \in DOMAIN es |-> MarshalEntry(es[i])], Units)
    /\ \A i \in 0..Len(es) : b[i] \in Seq(Units) /\ Starts(b[i], b[Len(es)])
    /\ \A i \in 1..Len(es) : \E p \in Nat, d \in Nat :
          /\ Marshals(MarshalEntry(es[i]), es[i], p, d)
          /\ Len(b[i]) = Len(b[i - 1]) + (1 + p + d)
          /\ \A k \in 1..(1 + p + d) : b[Len(es)][Len(b[i - 1]) + k] = MarshalEntry(es[i])[k]
    /\ b[0] = <<>>
    /\ MarshalPatch(es) = <<<<"header", Len(es)>>>> \o b[Len(es)]

LEMMA BodyExists ==
    ASSUME NEW es \in Seq(PatchEntries), LengthsFit(es)
    PROVE  \E b : Body(b, es)
<1>0. PICK n \in Nat : n = Len(es) /\ DOMAIN es = 1..n
  OBVIOUS
<1>1. \A i \in 1..n : \E p \in Nat, d \in Nat : Marshals(MarshalEntry(es[i]), es[i], p, d)
  <2> TAKE i \in 1..n
  <2>1. es[i] \in PatchEntries /\ Len(es[i].path) < LengthValues /\ Len(es[i].data) < LengthValues
    BY <1>0 DEF LengthsFit
  <2> QED
    BY <2>1, EntryMarshals
<1> DEFINE U == Seq(Units)
<1>2. PICK parts \in Seq(U) :
         /\ parts = [i \in DOMAIN es |-> MarshalEntry(es[i])] /\ Len(parts) = n
         /\ \A i \in 1..n : parts[i] = MarshalEntry(es[i]) /\ parts[i] \in U
  <2> DEFINE q == [i \in 1..n |-> MarshalEntry(es[i])]
  <2>1. q = [i \in DOMAIN es |-> MarshalEntry(es[i])] /\ \A i \in 1..n : q[i] = MarshalEntry(es[i])
    BY <1>0
  <2>2. \A i \in 1..n : MarshalEntry(es[i]) \in U
    BY <1>1 DEF Marshals
  <2>3. q \in [1..n -> U]
    BY <2>2
  <2> HIDE DEF q, U
  <2>4. q \in Seq(U) /\ Len(q) = n
    BY <2>3
  <2> QED
    BY <2>1, <2>2, <2>4
<1>3. PICK b : b = Joined(parts) /\ JoinSteps(b, parts, Units)
  BY <1>2, JoinedIsSteps
<1>4. b \in [0..n -> Seq(Units)] /\ b[0] = <<>> /\ \A i \in 1..n : b[i] = b[i - 1] \o parts[i]
  BY <1>2, <1>3 DEF JoinSteps
<1>5. \A i \in 0..n : Starts(b[i], b[n])
  BY <1>2, <1>3, JoinedGrows
<1>6. MarshalPatch(es) = <<<<"header", n>>>> \o b[n]
  BY <1>0, <1>2, <1>3 DEF MarshalPatch
<1>7. ASSUME NEW i \in 1..n
      PROVE  \E p \in Nat, d \in Nat :
                /\ Marshals(MarshalEntry(es[i]), es[i], p, d)
                /\ Len(b[i]) = Len(b[i - 1]) + (1 + p + d)
                /\ \A k \in 1..(1 + p + d) : b[n][Len(b[i - 1]) + k] = MarshalEntry(es[i])[k]
  <2>1. PICK p \in Nat, d \in Nat : Marshals(MarshalEntry(es[i]), es[i], p, d)
    BY <1>1
  <2>2. PICK m \in Seq(Units) : m = MarshalEntry(es[i]) /\ m = parts[i]
    BY <1>2
  <2>3. PICK s \in Nat : s = 1 + p + d /\ Len(m) = s
    <3>1. Len(m) = 1 + p + d
      BY <2>1, <2>2 DEF Marshals
    <3> QED
      BY <3>1
  <2>4. i - 1 \in 0..n /\ i \in 0..n
    OBVIOUS
  <2>5. PICK x \in Seq(Units) : x = b[i - 1]
    BY <1>4, <2>4
  <2>6. PICK z \in Seq(Units) : z = b[i]
    BY <1>4, <2>4
  <2>7. z = x \o m /\ Starts(z, b[n])
    BY <1>4, <1>5, <2>2, <2>4, <2>5, <2>6
  <2>8. PICK l \in Nat : l = Len(x)
    OBVIOUS
  <2>9. Follows(z, x, l, m, s)
    BY <2>3, <2>7, <2>8, ConcatFollows
  <2>10. \A k \in 1..s : b[n][l + k] = m[k]
    <3> TAKE k \in 1..s
    <3>1. l + k \in 1..(l + s)
      OBVIOUS
    <3>2. z[l + k] = m[k] /\ Len(z) = l + s
      BY <2>9 DEF Follows
    <3>3. b[n][l + k] = z[l + k]
      BY <2>7, <3>1, <3>2 DEF Starts
    <3> QED
      BY <3>2, <3>3
  <2>11. Len(b[i]) = Len(b[i - 1]) + (1 + p + d)
    BY <2>3, <2>5, <2>6, <2>8, <2>9 DEF Follows
  <2>12. \A k \in 1..(1 + p + d) : b[n][Len(b[i - 1]) + k] = MarshalEntry(es[i])[k]
    BY <2>2, <2>3, <2>5, <2>8, <2>10
  <2> QED
    BY <2>1, <2>11, <2>12
<1>8. JoinSteps(b, [i \in DOMAIN es |-> MarshalEntry(es[i])], Units)
  BY <1>2, <1>3
<1>9. \A i \in 0..n : b[i] \in Seq(Units)
  BY <1>4
<1> QED
  BY <1>0, <1>4, <1>5, <1>6, <1>7, <1>8, <1>9 DEF Body

\* Of a body that is cut after c units, the reader has found i entries.
FoundUpTo(r, es, b, c, i) ==
    IF Len(b[i]) <= c
    THEN r = [ok |-> TRUE, rest |-> Stretch(b[Len(es)], Len(b[i]), c), files |-> Stretch(es, 0, i)]
    ELSE r.ok = FALSE

LEMMA EntryFound ==
    ASSUME NEW es \in Seq(PatchEntries), NEW b, Body(b, es), NEW c \in Nat, c <= Len(b[Len(es)]),
           NEW i \in Nat, i < Len(es), NEW r \in ReadStates, FoundUpTo(r, es, b, c, i)
    PROVE  FoundUpTo(ReadEntry(r), es, b, c, i + 1)
<1>0. PICK n \in Nat : n = Len(es)
  OBVIOUS
<1>1. PICK X \in Seq(Units) : X = b[n] /\ c <= Len(X)
  <2>1. n \in 0..Len(es)
    BY <1>0
  <2> QED
    BY <1>0, <2>1 DEF Body
<1>2. PICK q \in Nat : q = Len(b[i])
  <2>1. b[i] \in Seq(Units)
    BY DEF Body
  <2> QED
    BY <2>1
<1>3. PICK j \in 1..n : j = i + 1 /\ j - 1 = i
  BY <1>0
<1>4. PICK e \in PatchEntries : e = es[j]
  BY <1>0, <1>3
<1>5. PICK m : m = MarshalEntry(e)
  OBVIOUS
<1>6. PICK p \in Nat, d \in Nat :
         /\ Marshals(m, e, p, d) /\ Len(b[j]) = q + (1 + p + d)
         /\ \A k \in 1..(1 + p + d) : X[q + k] = m[k]
  <2>1. j \in 1..Len(es)
    BY <1>0
  <2>2. \E p \in Nat, d \in Nat :
          /\ Marshals(MarshalEntry(es[j]), es[j], p, d)
          /\ Len(b[j]) = Len(b[j - 1]) + (1 + p + d)
          /\ \A k \in 1..(1 + p + d) : b[Len(es)][Len(b[j - 1]) + k] = MarshalEntry(es[j])[k]
    BY <2>1 DEF Body
  <2>3. /\ MarshalEntry(es[j]) = m /\ es[j] = e /\ Len(b[j - 1]) = q /\ b[Len(es)] = X
    BY <1>0, <1>1, <1>2, <1>3, <1>4, <1>5
  <2> QED
    BY <2>2, <2>3
<1>7. PICK s \in Nat : s = 1 + p + d /\ s >= 1
  OBVIOUS
<1>8. CASE ~(q <= c)
  <2>1. r.ok = FALSE
    BY <1>2, <1>8 DEF FoundUpTo
  <2>2. \A x \in Nat, y \in Nat : ~FindsEntry(r, x, y)
    BY <2>1 DEF FindsEntry
  <2>3. ReadEntry(r).ok = FALSE
    BY <2>2, ReadEntryFails
  <2>4. ~(Len(b[j]) <= c)
    BY <1>6, <1>7, <1>8
  <2> QED
    BY <1>3, <2>3, <2>4 DEF FoundUpTo
<1>9. CASE q <= c
  <2>1. PICK R \in Seq(Units) : R = Stretch(X, q, c) /\ IsStretch(R, Units, X, q, c)
    <3>1. IsStretch(Stretch(X, q, c), Units, X, q, c)
      BY <1>1, <1>9, StretchIs
    <3> QED
      BY <3>1 DEF IsStretch
  <2>2. r = [ok |-> TRUE, rest |-> R, files |-> Stretch(es, 0, i)]
    BY <1>0, <1>1, <1>2, <1>9, <2>1 DEF FoundUpTo
  <2>3. Len(R) = c - q /\ \A k \in 1..(c - q) : R[k] = X[q + k]
    BY <2>1 DEF IsStretch
  <2>4. CASE ~(s <= c - q)
    <3>1. ASSUME NEW x \in Nat, NEW y \in Nat, FindsEntry(r, x, y)
          PROVE  FALSE
      <4>1. R # <<>> /\ Head(R)[2] = x /\ Head(R)[3] = y /\ 1 + x + y <= c - q
        BY <2>2, <2>3, <3>1 DEF FindsEntry
      <4>2. 1 \in 1..(c - q)
        BY <1>9, <4>1
      <4>3. Head(R) = R[1] /\ R[1] = X[q + 1]
        BY <2>3, <4>1, <4>2
      <4>4. X[q + 1] = m[1]
        BY <1>6
      <4>5. x = p /\ y = d
        BY <1>6, <4>1, <4>3, <4>4 DEF Marshals
      <4> QED
        BY <1>7, <2>4, <4>1, <4>5
    <3>2. ReadEntry(r).ok = FALSE
      BY <3>1, ReadEntryFails
    <3>3. ~(Len(b[j]) <= c)
      BY <1>6, <1>7, <1>9, <2>4
    <3> QED
      BY <1>3, <3>2, <3>3 DEF FoundUpTo
  <2>5. CASE s <= c - q
    <3>1. FindsEntry(r, p, d)
      <4>1. 1 \in 1..(c - q) /\ R # <<>>
        BY <1>7, <1>9, <2>3, <2>5
      <4>2. Head(R) = R[1] /\ R[1] = X[q + 1]
        BY <2>3, <4>1
      <4>3. X[q + 1] = m[1]
        BY <1>6
      <4> QED
        BY <1>6, <1>7, <2>2, <2>3, <2>5, <4>1, <4>2, <4>3 DEF Marshals, FindsEntry
    <3>2. ReadEntry(r) = [ok    |-> TRUE,
                          rest  |-> Stretch(R, s, c - q),
                          files |-> Append(Stretch(es, 0, i), EntryOf(R, p, d))]
      <4>1. ReadEntry(r) = [ok    |-> TRUE,
                            rest  |-> Stretch(r.rest, 1 + p + d, Len(r.rest)),
                            files |-> Append(r.files, EntryOf(r.rest, p, d))]
        BY <3>1, ReadEntryFinds
      <4>2. r.rest = R /\ r.files = Stretch(es, 0, i) /\ Len(R) = c - q
        BY <2>2, <2>3
      <4> QED
        BY <1>7, <4>1, <4>2
    <3>3. Stretch(R, s, c - q) = Stretch(X, q + s, c)
      <4>1. PICK w \in Nat : w = c - q /\ s <= w /\ q + w = c
        BY <1>9, <2>5
      <4>2. Stretch(Stretch(X, q, c), s, w) = Stretch(X, q + s, q + w)
        BY <1>1, <1>9, <4>1, StretchWithin
      <4> QED
        BY <2>1, <4>1, <4>2
    <3>4. EntryOf(R, p, d) = e
      <4>1. PICK y \in Nat : y = 1 + p /\ 1 <= y /\ y <= s /\ s = y + d /\ s <= Len(R)
        BY <1>7, <2>3, <2>5
      <4>2. PICK P \in Seq(Units) : P = Stretch(R, 1, y) /\ IsStretch(P, Units, R, 1, y)
        <5>1. IsStretch(Stretch(R, 1, y), Units, R, 1, y)
          BY <4>1, StretchIs
        <5> QED
          BY <5>1 DEF IsStretch
      <4>3. PICK D \in Seq(Units) : D = Stretch(R, y, s) /\ IsStretch(D, Units, R, y, s)
        <5>1. IsStretch(Stretch(R, y, s), Units, R, y, s)
          BY <4>1, StretchIs
        <5> QED
          BY <5>1 DEF IsStretch
      <4>4. Len(P) = p /\ \A k \in 1..p : P[k] = R[1 + k]
        BY <4>1, <4>2 DEF IsStretch
      <4>5. Len(D) = d /\ \A k \in 1..d : D[k] = R[y + k]
        BY <4>1, <4>3 DEF IsStretch
      <4>6. \A k \in 1..s : R[k] = m[k]
        <5> TAKE k \in 1..s
        <5>1. k \in 1..(c - q)
          BY <2>5
        <5> QED
          BY <1>6, <1>7, <2>3, <5>1
      <4>7. \A k \in 1..p : P[k][2] = e.path[k]
        <5> TAKE k \in 1..p
        <5>1. 1 + k \in 1..s
          BY <1>7
        <5>2. m[1 + k][2] = e.path[k]
          BY <1>6 DEF Marshals
        <5> QED
          BY <4>4, <4>6, <5>1, <5>2
      <4>8. \A k \in 1..d : D[k][2] = e.data[k]
        <5> TAKE k \in 1..d
        <5>1. y + k \in 1..s
          BY <4>1
        <5>2. m[y + k][2] = e.data[k]
          BY <1>6, <4>1 DEF Marshals
        <5> QED
          BY <4>5, <4>6, <5>1, <5>2
      <4>9. e.path \in Seq(0..255) /\ e.data \in Seq(0..255) /\ Len(e.path) = p /\ Len(e.data) = d
        BY <1>6 DEF Marshals, PatchEntries
      <4>10. Values(P) = e.path
        <5>1. /\ Values(P) \in Seq(Nat) /\ Len(Values(P)) = p
              /\ \A k \in 1..p : Values(P)[k] = P[k][2]
          BY <4>4, ValuesType
        <5>2. \A k \in 1..p : Values(P)[k] = e.path[k]
          BY <4>7, <5>1
        <5>3. PICK v \in Seq(Nat) : v = Values(P)
          BY <5>1
        <5>4. PICK w \in Seq(0..255) : w = e.path
          BY <4>9
        <5>5. w \in Seq(Nat)
          <6> DEFINE V == 0..255
          <6>1. w \in Seq(V) /\ V \subseteq Nat
            OBVIOUS
          <6> HIDE DEF V
          <6> QED
            BY <6>1, SeqMonotonic
        <5>6. Len(v) = Len(w) /\ \A k \in 1..Len(v) : v[k] = w[k]
          BY <4>9, <5>1, <5>2, <5>3, <5>4
        <5>7. v = w
          BY <5>5, <5>6, SeqEqual
        <5> QED
          BY <5>3, <5>4, <5>7
      <4>11. Values(D) = e.data
        <5>1. /\ Values(D) \in Seq(Nat) /\ Len(Values(D)) = d
              /\ \A k \in 1..d : Values(D)[k] = D[k][2]
          BY <4>5, ValuesType
        <5>2. \A k \in 1..d : Values(D)[k] = e.data[k]
          BY <4>8, <5>1
        <5>3. PICK v \in Seq(Nat) : v = Values(D)
          BY <5>1
        <5>4. PICK w \in Seq(0..255) : w = e.data
          BY <4>9
        <5>5. w \in Seq(Nat)
          <6> DEFINE V == 0..255
          <6>1. w \in Seq(V) /\ V \subseteq Nat
            OBVIOUS
          <6> HIDE DEF V
          <6> QED
            BY <6>1, SeqMonotonic
        <5>6. Len(v) = Len(w) /\ \A k \in 1..Len(v) : v[k] = w[k]
          BY <4>9, <5>1, <5>2, <5>3, <5>4
        <5>7. v = w
          BY <5>5, <5>6, SeqEqual
        <5> QED
          BY <5>3, <5>4, <5>7
      <4>12. EntryOf(R, p, d) = [path |-> Values(P), data |-> Values(D)]
        BY <1>7, <4>1, <4>2, <4>3 DEF EntryOf
      <4>13. e = [path |-> e.path, data |-> e.data]
        BY DEF PatchEntries
      <4> QED
        BY <4>10, <4>11, <4>12, <4>13
    <3>5. Append(Stretch(es, 0, i), e) = Stretch(es, 0, j)
      <4> DEFINE E == PatchEntries
      <4> HIDE DEF E
      <4>1. es \in Seq(E)
        BY DEF E
      <4>2. Append(Stretch(es, 0, i), es[i + 1]) = Stretch(es, 0, i + 1)
        BY <4>1, StretchGrows
      <4> QED
        BY <1>3, <1>4, <4>2
    <3>6. Len(b[j]) <= c /\ Len(b[j]) = q + s
      BY <1>6, <1>7, <1>9, <2>5
    <3> QED
      BY <1>0, <1>1, <1>3, <3>2, <3>3, <3>4, <3>5, <3>6 DEF FoundUpTo
  <2> QED
    BY <2>4, <2>5
<1> QED
  BY <1>8, <1>9

\* The file is what is left of W, the body X of l units behind the header u,
\* when k units have been written.
CutFile(file, k, u, X, l, W) ==
    l = Len(X) /\ W = <<u>> \o X /\ k \in 1..(l + 1) /\ file = SubSeq(W, 1, k)

CutReads(file, k, u, X, l, W) ==
    /\ file \in Seq(Units) /\ file # <<>> /\ file[1] = u
    /\ Tail(file) = Stretch(X, 0, k - 1)
    /\ file = W <=> k = l + 1

LEMMA CutFileReads ==
    ASSUME NEW u \in Units, NEW X \in Seq(Units), NEW l \in Nat, NEW W \in Seq(Units),
           NEW k \in Nat, NEW file, CutFile(file, k, u, X, l, W)
    PROVE  CutReads(file, k, u, X, l, W)
<1>0. l = Len(X) /\ W = <<u>> \o X /\ k \in 1..(l + 1) /\ file = SubSeq(W, 1, k)
  BY DEF CutFile
<1>1. PICK f \in Seq(Units) : f = <<u>> /\ Len(f) = 1 /\ f[1] = u
  BY OneUnit
<1>2. Follows(W, f, 1, X, l)
  BY <1>0, <1>1, ConcatFollows
<1>3. Len(W) = l + 1 /\ W[1] = u /\ \A i \in 1..l : W[1 + i] = X[i]
  <2>1. Len(W) = 1 + l /\ (\A i \in 1..1 : W[i] = f[i]) /\ \A i \in 1..l : W[1 + i] = X[i]
    BY <1>2 DEF Follows
  <2>2. 1 \in 1..1 /\ 1 + l = l + 1
    OBVIOUS
  <2> QED
    BY <1>1, <2>1, <2>2
<1>4. PICK s \in Seq(Units) : s = file /\ Len(s) = k /\ \A i \in 1..k : s[i] = W[i]
  <2>1. k \in Nat /\ 0 <= k /\ k <= Len(W)
    BY <1>0, <1>3
  <2>2. IsStretch(Stretch(W, 0, k), Units, W, 0, k)
    BY <2>1, StretchIs
  <2>3. Stretch(W, 0, k) = file
    <3>1. 0 + 1 = 1
      OBVIOUS
    <3> QED
      BY <1>0, <3>1 DEF Stretch
  <2>4. k - 0 = k /\ \A i \in 1..k : 0 + i = i
    OBVIOUS
  <2>5. /\ Stretch(W, 0, k) \in Seq(Units) /\ Len(Stretch(W, 0, k)) = k
        /\ \A i \in 1..k : Stretch(W, 0, k)[i] = W[i]
    BY <2>2, <2>4 DEF IsStretch
  <2> QED
    BY <2>3, <2>5
<1>5. s # <<>> /\ s[1] = u
  <2>1. 1 \in 1..k /\ k # 0
    BY <1>0
  <2>2. s = <<>> => Len(s) = 0
    OBVIOUS
  <2>3. s # <<>>
    BY <1>4, <2>1, <2>2
  <2>4. s[1] = u
    BY <1>3, <1>4, <2>1
  <2> QED
    BY <2>3, <2>4
<1>6. Tail(s) = Stretch(X, 0, k - 1)
  <2>1. PICK c \in Nat : c = k - 1 /\ k = c + 1 /\ c <= l
    BY <1>0
  <2>2. PICK t \in Seq(Units) : t = Tail(s) /\ Len(t) = c /\ \A i \in 1..c : t[i] = s[i + 1]
    <3>1. /\ Tail(s) \in Seq(Units) /\ Len(Tail(s)) = Len(s) - 1
          /\ \A i \in 1..Len(Tail(s)) : Tail(s)[i] = s[i + 1]
      BY <1>5, HeadTailProperties
    <3>2. Len(s) - 1 = c
      BY <1>4, <2>1
    <3> QED
      BY <3>1, <3>2
  <2>3. PICK v \in Seq(Units) : v = Stretch(X, 0, c) /\ Len(v) = c /\ \A i \in 1..c : v[i] = X[i]
    <3>1. IsStretch(Stretch(X, 0, c), Units, X, 0, c)
      BY <1>0, <2>1, StretchIs
    <3>2. c - 0 = c /\ \A i \in 1..c : 0 + i = i
      OBVIOUS
    <3>3. /\ Stretch(X, 0, c) \in Seq(Units) /\ Len(Stretch(X, 0, c)) = c
          /\ \A i \in 1..c : Stretch(X, 0, c)[i] = X[i]
      BY <3>1, <3>2 DEF IsStretch
    <3> QED
      BY <3>3
  <2>4. \A i \in 1..c : t[i] = v[i]
    <3> TAKE i \in 1..c
    <3>1. i + 1 \in 1..k /\ i \in 1..l /\ i + 1 = 1 + i
      BY <2>1
    <3> QED
      BY <1>3, <1>4, <2>2, <2>3, <3>1
  <2>5. t = v
    BY <2>2, <2>3, <2>4, SeqEqual
  <2> QED
    BY <2>1, <2>2, <2>3, <2>5
<1>7. s = W <=> k = l + 1
  <2>1. ASSUME k = l + 1 PROVE s = W
    BY <1>3, <1>4, <2>1, SeqEqual
  <2>2. s = W => Len(s) = Len(W)
    OBVIOUS
  <2> QED
    BY <1>3, <1>4, <2>1, <2>2
<1> QED
  BY <1>4, <1>5, <1>6, <1>7 DEF CutReads

\* The reader accepts the whole file of es only, and gives es.
ReadsBackAs(file, es) ==
    /\ ReadPatch(file).ok = (file = MarshalPatch(es))
    /\ ReadPatch(file).ok => ReadPatch(file).files = es

\* So it refuses every proper part of the file.
LEMMA ReadsPatchBack ==
    ASSUME NEW es \in Seq(PatchEntries), LengthsFit(es),
           NEW k \in 0..Len(MarshalPatch(es)), NEW file, file = SubSeq(MarshalPatch(es), 1, k)
    PROVE  ReadsBackAs(file, es)
<1>1. PICK b : Body(b, es)
  BY BodyExists
<1>2. PICK n \in Nat : n = Len(es)
  OBVIOUS
<1>3. n \in 0..n /\ 0 \in 0..n
  OBVIOUS
<1>4. PICK X \in Seq(Units) : X = b[n]
  BY <1>1, <1>2, <1>3 DEF Body
<1>5. PICK l \in Nat : l = Len(X)
  OBVIOUS
<1>6. PICK u \in Units : u = <<"header", n>>
  BY UnitsMade
<1>7. PICK W \in Seq(Units) : W = MarshalPatch(es) /\ W = <<u>> \o X /\ Len(W) = l + 1
  <2>1. MarshalPatch(es) = <<u>> \o X
    BY <1>1, <1>2, <1>4, <1>6 DEF Body
  <2>2. PICK f \in Seq(Units) : f = <<u>> /\ Len(f) = 1
    BY OneUnit
  <2>3. Follows(f \o X, f, 1, X, l)
    BY <1>5, <2>2, ConcatFollows
  <2>4. f \o X \in Seq(Units) /\ Len(f \o X) = 1 + l /\ 1 + l = l + 1
    BY <2>3 DEF Follows
  <2> QED
    BY <2>1, <2>2, <2>4
<1>8. k \in 0..(l + 1) /\ file = SubSeq(W, 1, k)
  BY <1>7
<1>9. CASE k = 0
  <2>1. file = <<>>
    BY <1>8, <1>9, SubSeqEmpty
  <2>2. file # W
    <3>1. Len(file) = 0 /\ l + 1 # 0
      BY <2>1
    <3> QED
      BY <1>7, <3>1
  <2>3. ReadPatch(file).ok = FALSE
    BY <2>1 DEF ReadPatch
  <2> QED
    BY <1>7, <2>2, <2>3 DEF ReadsBackAs
<1>10. CASE k # 0
  <2>1. PICK c \in Nat : c = k - 1 /\ c <= l /\ k = c + 1 /\ k \in 1..(l + 1)
    BY <1>8, <1>10
  <2>2. /\ file \in Seq(Units) /\ file # <<>> /\ file[1] = u
        /\ Tail(file) = Stretch(X, 0, c) /\ (file = W <=> c = l)
    <3>1. CutFile(file, k, u, X, l, W) /\ k \in Nat
      BY <1>5, <1>7, <1>8, <2>1 DEF CutFile
    <3>2. CutReads(file, k, u, X, l, W)
      BY <3>1, CutFileReads
    <3>3. k = l + 1 <=> c = l
      BY <2>1
    <3> QED
      BY <2>1, <3>2, <3>3 DEF CutReads
  <2>3. PICK t : ReadSteps(t, file, n)
    <3>1. file[1][2] = n
      BY <1>6, <2>2
    <3> QED
      BY <2>2, <3>1, ReadPatchSteps
  <2>4. /\ t[0] = [ok |-> TRUE, rest |-> Stretch(X, 0, c), files |-> <<>>]
        /\ \A i \in 0..n : t[i] \in ReadStates
        /\ \A i \in 1..n : t[i] = ReadEntry(t[i - 1])
        /\ ReadPatch(file).ok = t[n].ok /\ ReadPatch(file).files = t[n].files
    <3>1. /\ t \in [0..n -> ReadStates]
          /\ t[0] = [ok |-> TRUE, rest |-> Tail(file), files |-> <<>>]
          /\ \A i \in 1..n : t[i] = ReadEntry(t[i - 1])
          /\ ReadPatch(file) = [ok |-> t[n].ok, files |-> t[n].files]
      BY <2>3 DEF ReadSteps
    <3>2. \A i \in 0..n : t[i] \in ReadStates
      BY <3>1
    <3>3. ReadPatch(file).ok = t[n].ok /\ ReadPatch(file).files = t[n].files
      BY <3>1
    <3>4. t[0] = [ok |-> TRUE, rest |-> Stretch(X, 0, c), files |-> <<>>]
      BY <2>2, <3>1
    <3> QED
      BY <3>1, <3>2, <3>3, <3>4
  <2> DEFINE S == {i \in 0..n : FoundUpTo(t[i], es, b, c, i)}
  <2>5. 0 \in S
    <3>1. b[0] = <<>> /\ Len(b[0]) = 0 /\ b[Len(es)] = X
      BY <1>1, <1>2, <1>4 DEF Body
    <3>2. Stretch(es, 0, 0) = <<>>
      <4>1. 0 \in Nat /\ 0 <= Len(es)
        BY <1>2
      <4> DEFINE E == PatchEntries
      <4>2. es \in Seq(E)
        OBVIOUS
      <4> HIDE DEF E
      <4> QED
        BY <4>1, <4>2, StretchEmpty
    <3>3. t[0] = [ok |-> TRUE, rest |-> Stretch(b[Len(es)], Len(b[0]), c), files |-> Stretch(es, 0, 0)]
      BY <2>4, <3>1, <3>2
    <3>4. Len(b[0]) <= c
      BY <3>1
    <3>5. FoundUpTo(t[0], es, b, c, 0)
      BY <3>3, <3>4, Zenon DEF FoundUpTo
    <3> QED
      BY <1>3, <3>5
  <2>6. ASSUME NEW i \in 0..(n - 1), i \in S PROVE i + 1 \in S
    <3>1. i \in Nat /\ i < Len(es) /\ i \in 0..n /\ i + 1 \in 1..n /\ i + 1 \in 0..n /\ (i + 1) - 1 = i
      BY <1>2
    <3>2. c <= Len(b[Len(es)])
      BY <1>2, <1>4, <1>5, <2>1
    <3>3. t[i] \in ReadStates /\ t[i + 1] = ReadEntry(t[i])
      BY <2>4, <3>1
    <3>4. FoundUpTo(t[i], es, b, c, i)
      BY <2>6
    <3>5. FoundUpTo(ReadEntry(t[i]), es, b, c, i + 1)
      BY <1>1, <3>1, <3>2, <3>3, <3>4, EntryFound
    <3> QED
      BY <3>1, <3>3, <3>5
  <2> HIDE DEF S
  <2>7. FoundUpTo(t[n], es, b, c, n)
    <3>1. 0..n \subseteq S
      BY <2>5, <2>6, UpTo
    <3> QED
      BY <1>3, <3>1 DEF S
  <2>8. Stretch(es, 0, n) = es
    <3> DEFINE E == PatchEntries
    <3>1. es \in Seq(E)
      OBVIOUS
    <3> HIDE DEF E
    <3> QED
      BY <1>2, <3>1, StretchAll
  <2>9. CASE c = l
    <3>1. t[n].ok = TRUE /\ t[n].files = es
      BY <1>2, <1>4, <1>5, <2>7, <2>8, <2>9 DEF FoundUpTo
    <3> QED
      BY <1>7, <2>2, <2>4, <2>9, <3>1 DEF ReadsBackAs
  <2>10. CASE c # l
    <3>1. ~(Len(b[n]) <= c)
      BY <1>4, <1>5, <2>1, <2>10
    <3>2. t[n].ok = FALSE
      BY <2>7, <3>1 DEF FoundUpTo
    <3> QED
      BY <1>7, <2>2, <2>4, <2>10, <3>2 DEF ReadsBackAs
  <2> QED
    BY <2>9, <2>10
<1> QED
  BY <1>9, <1>10

\* What is at outputPath is the file of the collected entries, up to where the
\* writing stopped, and the outcome is what the reader makes of it.
DirFileInv ==
    /\ dirStep \in {"new", "collected", "written", "read"}
    /\ dirStep # "new" => entries \in Seq(PatchEntries)
    /\ dirStep \in {"written", "read"} =>
         \E n \in 0..Len(MarshalPatch(entries)) : dirFile = SubSeq(MarshalPatch(entries), 1, n)
    /\ dirStep = "read" => outcome = ReadPatch(dirFile)

LEMMA DirFileInitInv == DirFileInit => DirFileInv
BY DEF DirFileInit, DirFileInv

LEMMA DirFileStepInv ==
    ASSUME DirFileInv, [DirFileNext]_dirFileVars
    PROVE  DirFileInv'
<1>1. CASE CollectEntries
  <2>1. PICK n \in 0..MaxEntries : entries' \in [1..n -> Entries]
    BY <1>1 DEF CollectEntries
  <2>2. n \in Nat /\ Entries \subseteq PatchEntries
    BY DirPatchFileAssumption DEF PatchEntries
  <2>3. entries' \in Seq(PatchEntries)
    <3> DEFINE E == PatchEntries
    <3>1. entries' \in [1..n -> E]
      BY <2>1, <2>2
    <3> HIDE DEF E
    <3>2. entries' \in Seq(E)
      BY <2>2, <3>1
    <3> QED
      BY <3>2 DEF E
  <2>4. dirStep' = "collected"
    BY <1>1 DEF CollectEntries
  <2> QED
    BY <2>3, <2>4 DEF DirFileInv
<1>2. CASE WriteDirPatch
  <2>1. /\ entries' = entries /\ dirStep = "collected" /\ dirStep' = "written"
        /\ \E n \in 0..Len(MarshalPatch(entries)) : dirFile' = SubSeq(MarshalPatch(entries), 1, n)
    BY <1>2 DEF WriteDirPatch
  <2>2. \E n \in 0..Len(MarshalPatch(entries')) : dirFile' = SubSeq(MarshalPatch(entries'), 1, n)
    BY <2>1
  <2>3. entries' \in Seq(PatchEntries)
    BY <2>1 DEF DirFileInv
  <2> QED
    BY <2>1, <2>2, <2>3 DEF DirFileInv
<1>3. CASE DeserializeDirPatch
  <2>1. /\ entries' = entries /\ dirFile' = dirFile /\ outcome' = ReadPatch(dirFile')
        /\ dirStep = "written" /\ dirStep' = "read"
    BY <1>3 DEF DeserializeDirPatch
  <2>2. \E n \in 0..Len(MarshalPatch(entries')) : dirFile' = SubSeq(MarshalPatch(entries'), 1, n)
    BY <2>1 DEF DirFileInv
  <2>3. entries' \in Seq(PatchEntries)
    BY <2>1 DEF DirFileInv
  <2> QED
    BY <2>1, <2>2, <2>3 DEF DirFileInv
<1>4. CASE UNCHANGED dirFileVars
  <2>1. entries' = entries /\ dirFile' = dirFile /\ dirStep' = dirStep /\ outcome' = outcome
    BY <1>4 DEF dirFileVars
  <2> QED
    BY <2>1 DEF DirFileInv
<1> QED
  BY <1>1, <1>2, <1>3, <1>4 DEF DirFileNext

LEMMA DirFileInvReads == DirFileInv => DirPatchReadsBack
<1> SUFFICES ASSUME DirFileInv, dirStep = "read",
                    \A i \in DOMAIN entries : Len(entries[i].path) < LengthValues
                                              /\ Len(entries[i].data) < LengthValues
             PROVE  /\ outcome.ok = (dirFile = MarshalPatch(entries))
                    /\ outcome.ok => outcome.files = entries
  BY DEF DirPatchReadsBack
<1>1. PICK es \in Seq(PatchEntries) : es = entries
  BY DEF DirFileInv
<1>2. LengthsFit(es)
  BY <1>1 DEF LengthsFit
<1>3. PICK k \in 0..Len(MarshalPatch(es)) : dirFile = SubSeq(MarshalPatch(es), 1, k)
  BY <1>1 DEF DirFileInv
<1>4. PICK file : file = dirFile /\ file = SubSeq(MarshalPatch(es), 1, k)
  BY <1>3
<1>5. ReadsBackAs(file, es)
  BY <1>2, <1>4, ReadsPatchBack
<1>6. outcome = ReadPatch(file)
  BY <1>4 DEF DirFileInv
<1> QED
  BY <1>1, <1>4, <1>5, <1>6 DEF ReadsBackAs

\* Wherever the writing of a directory patch stopped, and whatever number of
\* entries it has: the reader refuses the file unless it is whole, and of a whole
\* file gives each entry with its path and its data, if the lengths fit their
\* fields.
THEOREM DirPatchFileReadsBack == DirFileSpec => []DirPatchReadsBack
<1>1. DirFileInv /\ [DirFileNext]_dirFileVars => DirFileInv'
  BY DirFileStepInv
<1> QED
  BY <1>1, DirFileInitInv, DirFileInvReads, PTL DEF DirFileSpec

-----------------------------------------------------------------------------
(* The verifier.                                                           *)

VerdictOn(b) == <<b, b \notin BadBlocks>>
VerdictSet   == {VerdictOn(b) : b \in 1..MaxBlocks}

VerifierTypes ==
    /\ verifyClient \in {"new", "submitting", "stopping", "stopped"}
    /\ getter \in {"unset", "after", "beside", "returned"}
    /\ blockCount \in 0..MaxBlocks
    /\ begun \in Nat /\ submitted \in Nat
    /\ begun <= submitted /\ submitted <= blockCount
    /\ submitted - begun <= VerifySlots /\ Len(verdicts) <= VerifySlots
    /\ verifying \in [VerifyWorkers -> 0..begun]
    /\ verified \in [VerifyWorkers -> BOOLEAN]
    /\ verifyExited \subseteq VerifyWorkers
    /\ verdicts \in Seq(VerdictSet) /\ got \in Seq(VerdictSet)

\* How far the client, the workers and GetResults are relative to each other.
VerifierOrder ==
    /\ verifyClient = "new" => blockCount = 0 /\ getter = "unset"
    /\ verifyClient \in {"stopping", "stopped"} => submitted = blockCount
    /\ \A w \in verifyExited :
          /\ verifyClient \in {"stopping", "stopped"}
          /\ verifying[w] = 0 /\ begun = submitted
    /\ verifyClient = "stopped" => verifyExited = VerifyWorkers
    /\ getter = "returned" => verifyClient = "stopped" /\ verdicts = <<>>
    /\ \A w \in VerifyWorkers : verified[w] => verifying[w] # 0

\* Blocks with a verdict, and the workers that have one without.
Judged(s) == {s[i][1] : i \in DOMAIN s}
Judgements  == Judged(got) \cup Judged(verdicts)
WithWorkers == {w \in VerifyWorkers : verifying[w] # 0}

\* Each block that was taken is with a worker or has its verdict.
BlocksAccounted ==
    /\ 1..begun = Judgements \cup {verifying[w] : w \in WithWorkers}
    /\ begun = Len(got) + Len(verdicts) + Cardinality(WithWorkers)
    /\ verifyErrors = BadBlocks \cap (Judgements \cup {verifying[w] : w \in {v \in VerifyWorkers : verified[v]}})

VerifierInv == VerifierTypes /\ VerifierOrder /\ BlocksAccounted

LEMMA VerdictsJudge ==
    ASSUME NEW s \in Seq(VerdictSet)
    PROVE  /\ \A i \in DOMAIN s : s[i] = VerdictOn(s[i][1]) /\ s[i][1] \in 1..MaxBlocks
           /\ Len(s) \in Nat /\ DOMAIN s = 1..Len(s)
<1>1. \A i \in DOMAIN s : s[i] \in VerdictSet
  OBVIOUS
<1> QED
  BY <1>1 DEF VerdictSet, VerdictOn

LEMMA JudgedAppend ==
    ASSUME NEW s \in Seq(VerdictSet), NEW v \in VerdictSet
    PROVE  /\ Append(s, v) \in Seq(VerdictSet) /\ Len(Append(s, v)) = Len(s) + 1
           /\ Judged(Append(s, v)) = Judged(s) \cup {v[1]}
<1> DEFINE t == Append(s, v)
<1>1. /\ Len(s) \in Nat /\ DOMAIN s = 1..Len(s) /\ DOMAIN t = 1..(Len(s) + 1)
      /\ \A i \in 1..Len(s) : t[i] = s[i]
      /\ t[Len(s) + 1] = v
      /\ t \in Seq(VerdictSet) /\ Len(t) = Len(s) + 1
  OBVIOUS
<1>2. \A i \in DOMAIN t : i \in DOMAIN s \/ i = Len(s) + 1
  BY <1>1
<1>3. Len(s) + 1 \in DOMAIN t /\ DOMAIN s \subseteq DOMAIN t
  BY <1>1
<1> HIDE DEF t
<1>4. Judged(t) = Judged(s) \cup {v[1]}
  BY <1>1, <1>2, <1>3 DEF Judged
<1> QED
  BY <1>1, <1>4 DEF t

LEMMA JudgedTail ==
    ASSUME NEW s \in Seq(VerdictSet), s # <<>>
    PROVE  /\ Tail(s) \in Seq(VerdictSet) /\ Len(Tail(s)) = Len(s) - 1 /\ Len(s) > 0
           /\ Head(s) \in VerdictSet
           /\ Judged(s) = Judged(Tail(s)) \cup {Head(s)[1]}
<1> DEFINE t == Tail(s)
           n == Len(s)
<1>1. /\ n \in Nat /\ n > 0 /\ Head(s) = s[1] /\ Head(s) \in VerdictSet
      /\ t \in Seq(VerdictSet) /\ Len(t) = n - 1
      /\ DOMAIN s = 1..n /\ DOMAIN t = 1..(n - 1)
      /\ \A i \in 1..(n - 1) : t[i] = s[i + 1]
  OBVIOUS
<1> HIDE DEF t, n
<1>2. 1 \in 1..n /\ \A i \in 1..(n - 1) : i + 1 \in 1..n
  BY <1>1
<1>3. \A i \in 1..n : i # 1 => i - 1 \in 1..(n - 1) /\ (i - 1) + 1 = i
  BY <1>1
<1>4. \A i \in 1..n : i # 1 => i - 1 \in 1..(n - 1) /\ t[i - 1] = s[i]
  BY <1>1, <1>3
<1>5. Judged(t) \cup {Head(s)[1]} \subseteq Judged(s)
  BY <1>1, <1>2 DEF Judged
<1>6. Judged(s) \subseteq Judged(t) \cup {Head(s)[1]}
  <2> SUFFICES ASSUME NEW i \in 1..n, i # 1 PROVE s[i][1] \in Judged(t)
    BY <1>1 DEF Judged
  <2>1. i - 1 \in DOMAIN t /\ t[i - 1][1] = s[i][1]
    BY <1>1, <1>4
  <2> QED
    BY <2>1 DEF Judged
<1> QED
  BY <1>1, <1>5, <1>6 DEF t, n

LEMMA SlotsType == VerifySlots \in Nat
BY VerifierAssumption, FS_CardinalityType DEF VerifySlots

LEMMA ActiveFinite == IsFiniteSet(WithWorkers) /\ Cardinality(WithWorkers) \in Nat
<1>1. WithWorkers \in SUBSET VerifyWorkers
  BY DEF WithWorkers
<1>2. IsFiniteSet(WithWorkers)
  BY <1>1, VerifierAssumption, FS_Subset
<1> QED
  BY <1>2, FS_CardinalityType

LEMMA InitVerifier == VerifierInit => VerifierInv
<1> SUFFICES ASSUME VerifierInit PROVE VerifierInv
  OBVIOUS
<1>1. /\ verdicts = <<>> /\ got = <<>> /\ <<>> \in Seq(VerdictSet) /\ Len(<<>>) = 0
      /\ Judged(<<>>) = {} /\ WithWorkers = {} /\ Cardinality({}) = 0
  BY FS_EmptySet DEF VerifierInit, Judged, WithWorkers
<1>2. VerifierTypes
  BY <1>1, SlotsType, VerifierAssumption DEF VerifierTypes, VerifierInit
<1>3. VerifierOrder
  BY DEF VerifierOrder, VerifierInit
<1>4. BlocksAccounted
  <2>1. Judgements = {} /\ {verifying[w] : w \in {v \in VerifyWorkers : verified[v]}} = {}
    BY <1>1 DEF Judgements, VerifierInit
  <2>2. begun = 0 /\ verifyErrors = {} /\ 1..begun = {}
    BY DEF VerifierInit
  <2> QED
    BY <1>1, <2>1, <2>2, SMTT(20) DEF BlocksAccounted
<1> QED
  BY <1>2, <1>3, <1>4 DEF VerifierInv

\* The client's own steps.
LEMMA VerifyClientKeeps ==
    ASSUME VerifierInv, VerifyClient
    PROVE  VerifierInv'
<1>0. VerifierTypes /\ VerifierOrder /\ BlocksAccounted /\ VerifySlots \in Nat
  BY SlotsType DEF VerifierInv
<1>1. /\ UNCHANGED <<begun, verifying, verified, verifyExited, verdicts, got, verifyErrors>>
      /\ UNCHANGED <<Judgements, WithWorkers>>
  BY DEF VerifyClient, StartVerifier, SubmitBlock, CloseVerifier, FinishStopVerifier,
     Judgements, WithWorkers, Judged
<1>2. BlocksAccounted'
  BY <1>0, <1>1 DEF BlocksAccounted
<1>3. CASE StartVerifier
  <2>1. submitted' = submitted /\ submitted = 0 /\ verifyClient = "new" /\ begun = 0
    BY <1>0, <1>3 DEF StartVerifier, VerifierOrder, VerifierTypes
  <2>2. VerifierTypes'
    BY <1>0, <1>1, <1>3, <2>1, VerifierAssumption DEF StartVerifier, VerifierTypes
  <2>3. VerifierOrder'
    BY <1>0, <1>1, <1>3, <2>1 DEF StartVerifier, VerifierOrder
  <2> QED
    BY <1>2, <2>2, <2>3 DEF VerifierInv
<1>4. CASE SubmitBlock
  <2>1. VerifierTypes'
    BY <1>0, <1>1, <1>4 DEF SubmitBlock, VerifierTypes
  <2>2. VerifierOrder'
    BY <1>0, <1>1, <1>4 DEF SubmitBlock, VerifierOrder
  <2> QED
    BY <1>2, <2>1, <2>2 DEF VerifierInv
<1>5. CASE CloseVerifier
  <2>1. VerifierTypes'
    BY <1>0, <1>1, <1>5 DEF CloseVerifier, VerifierTypes
  <2>2. VerifierOrder'
    BY <1>0, <1>1, <1>5 DEF CloseVerifier, VerifierOrder
  <2> QED
    BY <1>2, <2>1, <2>2 DEF VerifierInv
<1>6. CASE FinishStopVerifier
  <2>1. VerifierTypes'
    BY <1>0, <1>1, <1>6 DEF FinishStopVerifier, VerifierTypes
  <2>2. VerifierOrder'
    BY <1>0, <1>1, <1>6 DEF FinishStopVerifier, VerifierOrder, VerifierWaitEnds
  <2> QED
    BY <1>2, <2>1, <2>2 DEF VerifierInv
<1> QED
  BY <1>3, <1>4, <1>5, <1>6 DEF VerifyClient

LEMMA TakeBlockKeeps ==
    ASSUME VerifierInv, NEW w \in VerifyWorkers, TakeBlock(w)
    PROVE  VerifierInv'
<1>0. VerifierTypes /\ VerifierOrder /\ BlocksAccounted /\ VerifySlots \in Nat
  BY SlotsType DEF VerifierInv
<1>1. /\ UNCHANGED <<blockCount, verifyClient, getter, submitted, verified, verifyExited,
                      verdicts, got, verifyErrors, Judgements>>
      /\ begun' = begun + 1 /\ verifying[w] = 0 /\ begun < submitted /\ w \notin verifyExited
      /\ verifyClient # "new"
      /\ \A v \in VerifyWorkers : verifying'[v] = IF v = w THEN begun + 1 ELSE verifying[v]
      /\ begun \in Nat
  BY <1>0 DEF TakeBlock, VerifierTypes, Judgements, Judged
<1>2. VerifierTypes'
  <2>1. verifying' \in [VerifyWorkers -> 0..(begun + 1)]
    BY <1>0, <1>1 DEF TakeBlock, VerifierTypes
  <2> QED
    BY <1>0, <1>1, <2>1 DEF VerifierTypes
<1>3. VerifierOrder'
  BY <1>0, <1>1 DEF VerifierOrder
<1>4. WithWorkers' = WithWorkers \cup {w} /\ w \notin WithWorkers
  BY <1>1 DEF WithWorkers
<1>5. Cardinality(WithWorkers') = Cardinality(WithWorkers) + 1
  BY <1>4, ActiveFinite, FS_AddElement
<1>6. {verifying'[v] : v \in WithWorkers'} = {verifying[v] : v \in WithWorkers} \cup {begun + 1}
  BY <1>1, <1>4 DEF WithWorkers
<1>7. 1..(begun + 1) = (1..begun) \cup {begun + 1}
  BY <1>1
<1>8. {verifying'[u] : u \in {v \in VerifyWorkers : verified'[v]}}
        = {verifying[u] : u \in {v \in VerifyWorkers : verified[v]}}
  BY <1>0, <1>1 DEF VerifierOrder
<1>9. BlocksAccounted'
  <2>1. 1..begun' = Judgements' \cup {verifying'[v] : v \in WithWorkers'}
    BY <1>0, <1>1, <1>6, <1>7 DEF BlocksAccounted
  <2>2. Len(got) \in Nat /\ Len(verdicts) \in Nat
    BY <1>0 DEF VerifierTypes
  <2>3. begun' = Len(got') + Len(verdicts') + Cardinality(WithWorkers')
    BY <1>0, <1>1, <1>5, <2>2, ActiveFinite DEF BlocksAccounted
  <2> QED
    BY <1>0, <1>1, <1>8, <2>1, <2>3 DEF BlocksAccounted
<1> QED
  BY <1>2, <1>3, <1>9 DEF VerifierInv

LEMMA VerifyBlockKeeps ==
    ASSUME VerifierInv, NEW w \in VerifyWorkers, VerifyBlock(w)
    PROVE  VerifierInv'
<1>0. VerifierTypes /\ VerifierOrder /\ BlocksAccounted
  BY DEF VerifierInv
<1>1. /\ UNCHANGED <<blockCount, verifyClient, getter, submitted, begun, verifying, verifyExited,
                      verdicts, got, Judgements, WithWorkers>>
      /\ \A v \in VerifyWorkers : verified'[v] = IF v = w THEN TRUE ELSE verified[v]
      /\ verifyErrors' = verifyErrors \cup ({verifying[w]} \cap BadBlocks)
      /\ verifying[w] # 0
  BY <1>0 DEF VerifyBlock, VerifierTypes, Judgements, Judged, WithWorkers
<1>2. VerifierTypes'
  BY <1>0, <1>1 DEF VerifyBlock, VerifierTypes
<1>3. VerifierOrder'
  BY <1>0, <1>1 DEF VerifierOrder
<1>4. {verifying'[u] : u \in {v \in VerifyWorkers : verified'[v]}}
        = {verifying[u] : u \in {v \in VerifyWorkers : verified[v]}} \cup {verifying[w]}
  BY <1>1
<1>5. BlocksAccounted'
  BY <1>0, <1>1, <1>4 DEF BlocksAccounted
<1> QED
  BY <1>2, <1>3, <1>5 DEF VerifierInv

LEMMA SendVerdictKeeps ==
    ASSUME VerifierInv, NEW w \in VerifyWorkers, SendVerdict(w)
    PROVE  VerifierInv'
<1>0. VerifierTypes /\ VerifierOrder /\ BlocksAccounted /\ VerifySlots \in Nat
  BY SlotsType DEF VerifierInv
<1>b. PICK b : b = verifying[w]
  OBVIOUS
<1>1. /\ UNCHANGED <<blockCount, verifyClient, getter, submitted, begun, verifyExited, got, verifyErrors>>
      /\ verdicts' = Append(verdicts, VerdictOn(b)) /\ Len(verdicts) < VerifySlots
      /\ \A v \in VerifyWorkers : verifying'[v] = IF v = w THEN 0 ELSE verifying[v]
      /\ \A v \in VerifyWorkers : verified'[v] = IF v = w THEN FALSE ELSE verified[v]
      /\ b # 0 /\ b \in 1..begun /\ verified[w]
      /\ verdicts \in Seq(VerdictSet)
  BY <1>0, <1>b DEF SendVerdict, VerifierTypes, VerifierOrder, VerdictOn
<1>2. VerdictOn(b) \in VerdictSet /\ VerdictOn(b)[1] = b
  <2>1. b \in 1..MaxBlocks
    BY <1>0, <1>1, VerifierAssumption DEF VerifierTypes
  <2> QED
    BY <2>1 DEF VerdictSet, VerdictOn
<1>3. /\ verdicts' \in Seq(VerdictSet) /\ Len(verdicts') = Len(verdicts) + 1
      /\ Judged(verdicts)' = Judged(verdicts) \cup {b}
  BY <1>1, <1>2, JudgedAppend DEF Judged
<1>4. VerifierTypes'
  BY <1>0, <1>1, <1>3 DEF SendVerdict, VerifierTypes
<1>5. getter # "returned"
  BY <1>0, <1>1 DEF VerifierOrder, VerifierTypes
<1>6. VerifierOrder'
  <2>1. w \notin verifyExited /\ verifyExited \subseteq VerifyWorkers
    BY <1>0, <1>1, <1>b DEF VerifierOrder, VerifierTypes
  <2> QED
    BY <1>0, <1>1, <1>5, <2>1 DEF VerifierOrder
<1>7. Judgements' = Judgements \cup {b}
  <2>1. Judged(got)' = Judged(got)
    BY <1>1 DEF Judged
  <2> QED
    BY <1>3, <2>1 DEF Judgements
<1>8. w \in WithWorkers /\ WithWorkers' = WithWorkers \ {w}
  BY <1>1, <1>b DEF WithWorkers
<1>9. Cardinality(WithWorkers') = Cardinality(WithWorkers) - 1
  BY <1>8, ActiveFinite, FS_RemoveElement
<1>10. {verifying[v] : v \in WithWorkers} = {verifying'[v] : v \in WithWorkers'} \cup {b}
  BY <1>1, <1>8, <1>b DEF WithWorkers
<1>11. {verifying[u] : u \in {v \in VerifyWorkers : verified[v]}}
         = {verifying'[u] : u \in {v \in VerifyWorkers : verified'[v]}} \cup {b}
  BY <1>1, <1>b
<1>12. BlocksAccounted'
  <2>1. 1..begun' = Judgements' \cup {verifying'[v] : v \in WithWorkers'}
    BY <1>0, <1>1, <1>7, <1>10 DEF BlocksAccounted
  <2>2. Len(got) \in Nat /\ Len(verdicts) \in Nat
    BY <1>0 DEF VerifierTypes
  <2>3. begun' = Len(got') + Len(verdicts') + Cardinality(WithWorkers')
    BY <1>0, <1>1, <1>3, <1>9, <2>2, ActiveFinite DEF BlocksAccounted
  <2>4. verifyErrors' = BadBlocks \cap (Judgements' \cup {verifying'[u] : u \in {v \in VerifyWorkers : verified'[v]}})
    BY <1>0, <1>1, <1>7, <1>11 DEF BlocksAccounted
  <2> QED
    BY <2>1, <2>3, <2>4 DEF BlocksAccounted
<1> QED
  BY <1>4, <1>6, <1>12 DEF VerifierInv

LEMMA ExitVerifierKeeps ==
    ASSUME VerifierInv, NEW w \in VerifyWorkers, ExitVerifyWorker(w)
    PROVE  VerifierInv'
<1>0. VerifierTypes /\ VerifierOrder /\ BlocksAccounted
  BY DEF VerifierInv
<1>1. /\ UNCHANGED <<blockCount, verifyClient, getter, submitted, begun, verifying, verified, verdicts,
                      got, verifyErrors, Judgements, WithWorkers>>
      /\ verifyExited' = verifyExited \cup {w}
      /\ verifyClient = "stopping" /\ verifying[w] = 0 /\ begun = submitted
  BY DEF ExitVerifyWorker, Judgements, Judged, WithWorkers
<1>2. VerifierTypes' /\ VerifierOrder' /\ BlocksAccounted'
  BY <1>0, <1>1 DEF VerifierTypes, VerifierOrder, BlocksAccounted
<1> QED
  BY <1>2 DEF VerifierInv

LEMMA GetResultsKeeps ==
    ASSUME VerifierInv, GetResults
    PROVE  VerifierInv'
<1>0. VerifierTypes /\ VerifierOrder /\ BlocksAccounted
  BY DEF VerifierInv
<1>1. CASE ReadVerdict
  <2>0. PICK h : h = Head(verdicts)
    OBVIOUS
  <2>1. /\ UNCHANGED <<blockCount, verifyClient, getter, submitted, begun, verifying, verified,
                        verifyExited, verifyErrors, WithWorkers>>
        /\ verdicts # <<>> /\ verdicts' = Tail(verdicts) /\ got' = Append(got, h)
        /\ verdicts \in Seq(VerdictSet) /\ got \in Seq(VerdictSet)
        /\ Len(got) \in Nat /\ Len(verdicts) \in Nat
        /\ getter # "returned"
    BY <1>0, <1>1, <2>0 DEF ReadVerdict, Reading, WithWorkers, VerifierTypes
  <2>2. /\ verdicts' \in Seq(VerdictSet) /\ Len(verdicts') = Len(verdicts) - 1
        /\ h \in VerdictSet /\ Judged(verdicts) = Judged(verdicts)' \cup {h[1]}
    BY <2>0, <2>1, JudgedTail DEF Judged
  <2>3. /\ got' \in Seq(VerdictSet) /\ Len(got') = Len(got) + 1
        /\ Judged(got)' = Judged(got) \cup {h[1]}
    <3>1. /\ Append(got, h) \in Seq(VerdictSet) /\ Len(Append(got, h)) = Len(got) + 1
          /\ Judged(Append(got, h)) = Judged(got) \cup {h[1]}
      BY <2>1, <2>2, JudgedAppend
    <3>2. Judged(got)' = Judged(Append(got, h))
      BY <2>1 DEF Judged
    <3> QED
      BY <2>1, <3>1, <3>2
  <2>4. Judgements' = Judgements
    BY <2>2, <2>3 DEF Judgements
  <2>5. VerifierTypes'
    BY <1>0, <2>1, <2>2, <2>3, SlotsType DEF VerifierTypes
  <2>6. VerifierOrder'
    BY <1>0, <2>1 DEF VerifierOrder
  <2>7. Len(got') + Len(verdicts') = Len(got) + Len(verdicts)
    BY <2>1, <2>2, <2>3
  <2>8. BlocksAccounted'
    BY <1>0, <2>1, <2>4, <2>7 DEF BlocksAccounted
  <2> QED
    BY <2>5, <2>6, <2>8 DEF VerifierInv
<1>2. CASE ReturnResults
  <2>1. /\ UNCHANGED <<blockCount, verifyClient, submitted, begun, verifying, verified, verifyExited,
                        verdicts, got, verifyErrors, Judgements, WithWorkers>>
        /\ getter' = "returned" /\ verifyClient = "stopped" /\ verdicts = <<>>
    BY <1>2 DEF ReturnResults, Judgements, Judged, WithWorkers
  <2>2. VerifierTypes' /\ VerifierOrder' /\ BlocksAccounted'
    BY <1>0, <2>1 DEF VerifierTypes, VerifierOrder, BlocksAccounted
  <2> QED
    BY <2>2 DEF VerifierInv
<1> QED
  BY <1>1, <1>2 DEF GetResults

LEMMA NextVerifier == VerifierInv /\ [VerifierNext]_verifierVars => VerifierInv'
<1>1. ASSUME VerifierInv, UNCHANGED verifierVars PROVE VerifierInv'
  <2>1. UNCHANGED <<Judgements, WithWorkers>>
    BY <1>1 DEF verifierVars, Judgements, Judged, WithWorkers
  <2>2. VerifierTypes' /\ VerifierOrder'
    BY <1>1 DEF verifierVars, VerifierInv, VerifierTypes, VerifierOrder
  <2>3. BlocksAccounted'
    BY <1>1, <2>1 DEF verifierVars, VerifierInv, BlocksAccounted
  <2> QED
    BY <2>2, <2>3 DEF VerifierInv
<1> QED
  BY <1>1, VerifyClientKeeps, TakeBlockKeeps, VerifyBlockKeeps, SendVerdictKeeps,
     ExitVerifierKeeps, GetResultsKeeps
     DEF VerifierNext, VerifyWork

\* When GetResults has returned, it has read one verdict for every block, true
\* exactly for the good ones, and the errors are the bad ones, for any number of
\* blocks and workers and whichever way the results are collected.
THEOREM VerdictsAreComplete == VerifierSpec => []VerdictsAtReturn
<1>1. ASSUME VerifierInv, getter = "returned" PROVE VerdictsComplete
  <2>0. VerifierTypes /\ VerifierOrder /\ BlocksAccounted
    BY <1>1 DEF VerifierInv
  <2>1. /\ verifyClient = "stopped" /\ verdicts = <<>> /\ submitted = blockCount
        /\ verifyExited = VerifyWorkers
    BY <1>1, <2>0 DEF VerifierOrder
  <2>2. begun = blockCount
    <3>1. CASE VerifyWorkers = {}
      <4>1. VerifySlots = 0
        BY <3>1, FS_EmptySet DEF VerifySlots
      <4> QED
        BY <2>0, <2>1, <4>1 DEF VerifierTypes
    <3>2. CASE VerifyWorkers # {}
      BY <2>0, <2>1, <3>2 DEF VerifierOrder
    <3> QED
      BY <3>1, <3>2
  <2>3. WithWorkers = {} /\ {v \in VerifyWorkers : verified[v]} = {}
    BY <2>0, <2>1 DEF WithWorkers, VerifierOrder, VerifierTypes
  <2>4. Len(got) = blockCount
    <3>1. Len(verdicts) = 0 /\ Cardinality(WithWorkers) = 0 /\ Len(got) \in Nat
      BY <2>0, <2>1, <2>3, FS_EmptySet DEF VerifierTypes
    <3> QED
      BY <2>0, <2>2, <3>1 DEF BlocksAccounted
  <2>5. Judgements = Judged(got) /\ 1..blockCount = Judgements
    BY <2>0, <2>1, <2>2, <2>3 DEF Judgements, Judged, BlocksAccounted
  <2>6. {got[i] : i \in DOMAIN got} = {<<b, b \notin BadBlocks>> : b \in 1..blockCount}
    <3>1. \A i \in DOMAIN got : got[i] = VerdictOn(got[i][1])
      BY <2>0, VerdictsJudge DEF VerifierTypes
    <3> QED
      BY <2>5, <3>1 DEF VerdictOn, Judged
  <2>7. verifyErrors = BadBlocks \cap 1..blockCount
    BY <2>0, <2>3, <2>5 DEF BlocksAccounted
  <2> QED
    BY <2>4, <2>6, <2>7 DEF VerdictsComplete
<1>2. VerifierInv => VerdictsAtReturn
  BY <1>1 DEF VerdictsAtReturn
<1> QED
  BY InitVerifier, NextVerifier, <1>2, PTL DEF VerifierSpec

-----------------------------------------------------------------------------
(* The pool.                                                               *)

PoolTypes ==
    /\ pool \in {"new", "running", "cancelled", "closed", "stopped"}
    /\ poolJob \in [PoolJobs -> {"unsubmitted", "queued", "running", "done", "dropped", "panicked"}]
    /\ poolQueue \in Seq(PoolJobs)
    /\ Len(poolQueue) <= 2 * Cardinality(PoolWorkers)
    /\ poolHolds \in [PoolWorkers -> SUBSET PoolJobs]
    /\ poolExited \subseteq PoolWorkers

PoolQueued == {poolQueue[i] : i \in DOMAIN poolQueue}

\* A function is queued once, or with one worker that has not left, or neither.
PoolPlaces ==
    /\ \A i, k \in DOMAIN poolQueue : i # k => poolQueue[i] # poolQueue[k]
    /\ \A j \in PoolJobs : poolJob[j] = "queued" <=> j \in PoolQueued
    /\ \A j \in PoolJobs : poolJob[j] = "running" <=> \E w \in PoolWorkers : j \in poolHolds[w]
    /\ \A v, w \in PoolWorkers : v # w => poolHolds[v] \cap poolHolds[w] = {}
    /\ \A w \in PoolWorkers : \A i, j \in poolHolds[w] : i = j
    /\ \A w \in poolExited : poolHolds[w] = {}
    /\ pool = "stopped" => poolExited = PoolWorkers

PoolInv == PoolTypes /\ PoolPlaces

LEMMA PoolAppends ==
    ASSUME PoolTypes, PoolPlaces, NEW j \in PoolJobs, poolQueue' = Append(poolQueue, j),
           j \notin PoolQueued
    PROVE  /\ poolQueue' \in Seq(PoolJobs) /\ Len(poolQueue') = Len(poolQueue) + 1
           /\ PoolQueued' = PoolQueued \cup {j}
           /\ \A i, k \in DOMAIN poolQueue' : i # k => poolQueue'[i] # poolQueue'[k]
<1>1. poolQueue \in Seq(PoolJobs) /\ Len(poolQueue) \in Nat
  BY DEF PoolTypes
<1>2. /\ DOMAIN poolQueue = 1..Len(poolQueue) /\ DOMAIN poolQueue' = 1..(Len(poolQueue) + 1)
      /\ \A i \in 1..Len(poolQueue) : poolQueue'[i] = poolQueue[i]
      /\ poolQueue'[Len(poolQueue) + 1] = j
      /\ poolQueue' \in Seq(PoolJobs) /\ Len(poolQueue') = Len(poolQueue) + 1
  BY <1>1
<1>3. \A i \in DOMAIN poolQueue' : i \in DOMAIN poolQueue \/ i = Len(poolQueue) + 1
  BY <1>1, <1>2
<1>4. Len(poolQueue) + 1 \in DOMAIN poolQueue' /\ DOMAIN poolQueue \subseteq DOMAIN poolQueue'
  BY <1>1, <1>2
<1> QED
  BY <1>2, <1>3, <1>4 DEF PoolQueued, PoolPlaces

LEMMA PoolTakes ==
    ASSUME PoolTypes, PoolPlaces, poolQueue # <<>>, poolQueue' = Tail(poolQueue)
    PROVE  /\ Head(poolQueue) \in PoolQueued /\ Head(poolQueue) \in PoolJobs
           /\ poolQueue' \in Seq(PoolJobs) /\ Len(poolQueue') = Len(poolQueue) - 1
           /\ PoolQueued' = PoolQueued \ {Head(poolQueue)}
           /\ \A i, k \in DOMAIN poolQueue' : i # k => poolQueue'[i] # poolQueue'[k]
<1> DEFINE n == Len(poolQueue)
<1>1. /\ n \in Nat /\ n > 0 /\ Head(poolQueue) = poolQueue[1] /\ Head(poolQueue) \in PoolJobs
      /\ poolQueue' \in Seq(PoolJobs) /\ Len(poolQueue') = n - 1
      /\ DOMAIN poolQueue = 1..n /\ DOMAIN poolQueue' = 1..(n - 1)
      /\ \A i \in 1..(n - 1) : poolQueue'[i] = poolQueue[i + 1]
  BY DEF PoolTypes
<1> HIDE DEF n
<1>2. \A i, k \in DOMAIN poolQueue : i # k => poolQueue[i] # poolQueue[k]
  BY DEF PoolPlaces
<1>3. 1 \in 1..n /\ \A i \in 1..(n - 1) : i + 1 \in 1..n /\ i + 1 # 1
  BY <1>1
<1>4. \A i \in 1..n : i # 1 => i - 1 \in 1..(n - 1) /\ (i - 1) + 1 = i
  BY <1>1
<1>5. \A i, k \in 1..(n - 1) : i # k => i + 1 # k + 1
  BY <1>1
<1>6. Head(poolQueue) \in PoolQueued
  BY <1>1, <1>3 DEF PoolQueued
<1>7. PoolQueued' \subseteq PoolQueued \ {Head(poolQueue)}
  BY <1>1, <1>2, <1>3 DEF PoolQueued
<1>8. PoolQueued \ {Head(poolQueue)} \subseteq PoolQueued'
  <2> SUFFICES ASSUME NEW i \in 1..n, poolQueue[i] # poolQueue[1]
               PROVE  poolQueue[i] \in PoolQueued'
    BY <1>1 DEF PoolQueued
  <2>1. i - 1 \in 1..(n - 1) /\ poolQueue'[i - 1] = poolQueue[i]
    BY <1>1, <1>4
  <2> QED
    BY <1>1, <2>1 DEF PoolQueued
<1>9. \A i, k \in DOMAIN poolQueue' : i # k => poolQueue'[i] # poolQueue'[k]
  BY <1>1, <1>2, <1>3, <1>5
<1> QED
  BY <1>1, <1>6, <1>7, <1>8, <1>9 DEF n

LEMMA InitPool == PoolInit => PoolInv
<1> SUFFICES ASSUME PoolInit PROVE PoolInv
  OBVIOUS
<1>1. poolQueue = <<>> /\ poolQueue \in Seq(PoolJobs) /\ Len(poolQueue) = 0 /\ DOMAIN poolQueue = {}
  BY DEF PoolInit
<1>2. Cardinality(PoolWorkers) \in Nat
  BY PoolAssumption, FS_CardinalityType
<1>3. PoolTypes
  BY <1>1, <1>2 DEF PoolTypes, PoolInit
<1> QED
  BY <1>1, <1>3 DEF PoolInv, PoolPlaces, PoolQueued, PoolInit

LEMMA PoolSubmitKeeps ==
    ASSUME PoolInv, NEW j \in PoolJobs, SubmitToPool(j)
    PROVE  PoolInv'
<1>0. /\ PoolTypes /\ PoolPlaces /\ j \notin PoolQueued /\ UNCHANGED <<pool, poolHolds, poolExited>>
      /\ poolJob[j] = "unsubmitted"
  BY DEF SubmitToPool, PoolInv, PoolPlaces
<1>1. CASE poolQueue' = Append(poolQueue, j) /\ Len(poolQueue) < 2 * Cardinality(PoolWorkers)
           /\ poolJob' = [poolJob EXCEPT ![j] = "queued"]
  <2>1. /\ poolQueue' \in Seq(PoolJobs) /\ Len(poolQueue') = Len(poolQueue) + 1
        /\ PoolQueued' = PoolQueued \cup {j}
        /\ \A i, k \in DOMAIN poolQueue' : i # k => poolQueue'[i] # poolQueue'[k]
    BY <1>0, <1>1, PoolAppends
  <2>2. Len(poolQueue) \in Nat /\ Cardinality(PoolWorkers) \in Nat
    BY <1>0, PoolAssumption, FS_CardinalityType DEF PoolTypes
  <2>3. PoolTypes'
    BY <1>0, <1>1, <2>1, <2>2 DEF PoolTypes
  <2> QED
    BY <1>0, <1>1, <2>1, <2>3 DEF PoolInv, PoolPlaces, PoolTypes
<1>2. CASE UNCHANGED poolQueue /\ \E s \in {"dropped", "panicked"} : poolJob' = [poolJob EXCEPT ![j] = s]
  <2>1. PoolTypes'
    BY <1>0, <1>2 DEF PoolTypes
  <2> QED
    BY <1>0, <1>2, <2>1 DEF PoolInv, PoolPlaces, PoolTypes, PoolQueued
<1> QED
  BY <1>1, <1>2 DEF SubmitToPool

LEMMA PoolWorkKeeps ==
    ASSUME PoolInv, NEW w \in PoolWorkers, TakeFromPool(w) \/ RunInPool(w) \/ ExitPoolWorker(w)
    PROVE  PoolInv'
<1>0. PoolTypes /\ PoolPlaces
  BY DEF PoolInv
<1>1. CASE TakeFromPool(w)
  <2>0. PICK j : j = Head(poolQueue)
    OBVIOUS
  <2>1. /\ poolHolds' = [poolHolds EXCEPT ![w] = {j}]
        /\ poolJob' = [poolJob EXCEPT ![j] = "running"]
        /\ UNCHANGED <<pool, poolExited>>
        /\ poolHolds[w] = {} /\ w \notin poolExited
        /\ poolQueue # <<>> /\ poolQueue' = Tail(poolQueue)
    BY <1>1, <2>0 DEF TakeFromPool, WorkerFree
  <2>2. /\ j \in PoolQueued /\ j \in PoolJobs
        /\ poolQueue' \in Seq(PoolJobs) /\ Len(poolQueue') = Len(poolQueue) - 1
        /\ PoolQueued' = PoolQueued \ {j}
        /\ \A i, k \in DOMAIN poolQueue' : i # k => poolQueue'[i] # poolQueue'[k]
    BY <1>0, <2>0, <2>1, PoolTakes
  <2>3. PoolTypes'
    <3>1. Len(poolQueue) \in Nat /\ Cardinality(PoolWorkers) \in Nat
      BY <1>0, PoolAssumption, FS_CardinalityType DEF PoolTypes
    <3> QED
      BY <1>0, <2>1, <2>2, <3>1 DEF PoolTypes
  <2>4. poolJob[j] = "queued" /\ \A v \in PoolWorkers : j \notin poolHolds[v]
    BY <1>0, <2>2 DEF PoolPlaces
  <2>5. \A v \in PoolWorkers : poolHolds'[v] = IF v = w THEN {j} ELSE poolHolds[v]
    BY <1>0, <2>1 DEF PoolTypes
  <2>6. \A k \in PoolJobs : poolJob'[k] = IF k = j THEN "running" ELSE poolJob[k]
    BY <1>0, <2>1, <2>2 DEF PoolTypes
  <2>7. \A k \in PoolJobs : poolJob'[k] = "queued" <=> k \in PoolQueued'
    BY <1>0, <2>2, <2>6 DEF PoolPlaces
  <2>8. \A k \in PoolJobs : poolJob'[k] = "running" <=> \E v \in PoolWorkers : k \in poolHolds'[v]
    <3> TAKE k \in PoolJobs
    <3>1. poolJob[k] = "running" <=> \E v \in PoolWorkers : k \in poolHolds[v]
      BY <1>0 DEF PoolPlaces
    <3>2. CASE k = j
      BY <2>5, <2>6, <3>2
    <3>3. CASE k # j
      BY <2>1, <2>5, <2>6, <3>1, <3>3
    <3> QED
      BY <3>2, <3>3
  <2> QED
    BY <1>0, <2>1, <2>2, <2>3, <2>4, <2>5, <2>7, <2>8 DEF PoolInv, PoolPlaces
<1>2. CASE RunInPool(w)
  <2>1. PICK j \in poolHolds[w] : poolJob' = [poolJob EXCEPT ![j] = "done"]
    BY <1>2 DEF RunInPool
  <2>2. /\ poolHolds' = [poolHolds EXCEPT ![w] = {}] /\ UNCHANGED <<pool, poolQueue, poolExited, PoolQueued>>
        /\ j \in PoolJobs /\ poolHolds[w] = {j} /\ poolJob[j] = "running" /\ w \notin poolExited
    BY <1>0, <1>2, <2>1 DEF RunInPool, PoolTypes, PoolPlaces, PoolQueued
  <2>3. PoolTypes'
    BY <1>0, <2>1, <2>2 DEF PoolTypes
  <2>4. \A v \in PoolWorkers : poolHolds'[v] = IF v = w THEN {} ELSE poolHolds[v]
    BY <1>0, <2>2 DEF PoolTypes
  <2>5. \A k \in PoolJobs : poolJob'[k] = IF k = j THEN "done" ELSE poolJob[k]
    BY <1>0, <2>1, <2>2 DEF PoolTypes
  <2>6. \A k \in PoolJobs : poolJob'[k] = "queued" <=> k \in PoolQueued'
    BY <1>0, <2>2, <2>5 DEF PoolPlaces
  <2>7. \A k \in PoolJobs : poolJob'[k] = "running" <=> \E v \in PoolWorkers : k \in poolHolds'[v]
    <3> TAKE k \in PoolJobs
    <3>1. poolJob[k] = "running" <=> \E v \in PoolWorkers : k \in poolHolds[v]
      BY <1>0 DEF PoolPlaces
    <3>2. \A v \in PoolWorkers : v # w => j \notin poolHolds[v]
      BY <1>0, <2>2 DEF PoolPlaces
    <3>3. CASE k = j
      BY <2>4, <2>5, <3>2, <3>3
    <3>4. CASE k # j
      BY <2>2, <2>4, <2>5, <3>1, <3>4
    <3> QED
      BY <3>3, <3>4
  <2> QED
    BY <1>0, <2>2, <2>3, <2>4, <2>6, <2>7 DEF PoolInv, PoolPlaces
<1>3. CASE ExitPoolWorker(w)
  <2>1. /\ UNCHANGED <<pool, poolJob, poolQueue, poolHolds, PoolQueued>> /\ poolHolds[w] = {}
        /\ poolExited' = poolExited \cup {w}
    BY <1>3 DEF ExitPoolWorker, WorkerFree, PoolQueued
  <2> QED
    BY <1>0, <2>1 DEF PoolInv, PoolTypes, PoolPlaces
<1> QED
  BY <1>1, <1>2, <1>3

LEMMA NextPool == PoolInv /\ [PoolNext]_poolVars => PoolInv'
<1> SUFFICES ASSUME PoolInv, [PoolNext]_poolVars PROVE PoolInv'
  OBVIOUS
<1>0. PoolTypes /\ PoolPlaces
  BY DEF PoolInv
<1>1. CASE StartPool \/ CancelPool \/ ClosePool
  <2>1. UNCHANGED <<poolJob, poolQueue, poolHolds, poolExited, PoolQueued>>
        /\ pool' \in {"running", "cancelled", "closed"}
    BY <1>1 DEF StartPool, CancelPool, ClosePool, PoolQueued
  <2> QED
    BY <1>0, <2>1 DEF PoolInv, PoolTypes, PoolPlaces
<1>2. CASE FinishStopPool
  <2>1. UNCHANGED <<poolJob, poolQueue, poolHolds, poolExited, PoolQueued>>
        /\ pool' = "stopped" /\ poolExited = PoolWorkers
    BY <1>2 DEF FinishStopPool, PoolWaitEnds, PoolQueued
  <2> QED
    BY <1>0, <2>1 DEF PoolInv, PoolTypes, PoolPlaces
<1>3. CASE UNCHANGED poolVars
  BY <1>0, <1>3 DEF PoolInv, PoolTypes, PoolPlaces, PoolQueued, poolVars
<1> QED
  BY <1>1, <1>2, <1>3, PoolSubmitKeeps, PoolWorkKeeps
     DEF PoolNext, PoolOwner, PoolSubmit, PoolWork

poolStage  == IF ~PoolAlive THEN "broken" ELSE IF pool = "new" THEN "running" ELSE pool
poolStates == [j \in PoolJobs |-> PoolStageOf(poolJob[j])]

LEMMA PoolStages ==
    /\ PoolStageOf("queued") = "accepted" /\ PoolStageOf("running") = "running"
    /\ PoolStageOf("done") = "finished" /\ PoolStageOf("unsubmitted") = "new"
    /\ PoolStageOf("dropped") = "new" /\ PoolStageOf("panicked") = "new"
BY DEF PoolStageOf

\* A step that changes how one function stands.
LEMMA PoolJobMoves ==
    ASSUME PoolTypes, NEW j \in PoolJobs, NEW s, poolJob' = [poolJob EXCEPT ![j] = s]
    PROVE  /\ poolStates' = [poolStates EXCEPT ![j] = PoolStageOf(s)]
           /\ poolStates[j] = PoolStageOf(poolJob[j]) /\ poolStates'[j] = PoolStageOf(s)
           /\ s # "panicked" /\ PoolAlive => PoolAlive'
           /\ PoolStageOf(s) = PoolStageOf(poolJob[j]) => poolStates' = poolStates
<1>1. \A k \in PoolJobs : poolJob'[k] = IF k = j THEN s ELSE poolJob[k]
  BY DEF PoolTypes
<1>2. \A k \in PoolJobs : poolStates'[k] = IF k = j THEN PoolStageOf(s) ELSE poolStates[k]
  BY <1>1 DEF poolStates
<1>3. poolStates' = [poolStates EXCEPT ![j] = PoolStageOf(s)]
  BY <1>2 DEF poolStates
<1>4. PoolStageOf(s) = PoolStageOf(poolJob[j]) => poolStates' = poolStates
  BY <1>2 DEF poolStates
<1> QED
  BY <1>1, <1>2, <1>3, <1>4 DEF poolStates, PoolAlive

LEMMA PoolServesSubmit ==
    ASSUME PoolInv, PoolAlive, NEW j \in PoolJobs, SubmitToPool(j)
    PROVE  [PoolService!Next]_<<poolStage, poolStates>>
<1>0. PoolTypes /\ poolJob[j] = "unsubmitted" /\ pool' = pool
  BY DEF PoolInv, SubmitToPool
<1>1. CASE ~PoolClosed /\ poolJob' = [poolJob EXCEPT ![j] = "queued"]
  <2>1. /\ poolStates' = [poolStates EXCEPT ![j] = "accepted"]
        /\ poolStates[j] = "new" /\ poolStates'[j] = "accepted" /\ PoolAlive'
    BY <1>0, <1>1, PoolJobMoves, PoolStages
  <2>2. poolStage' = poolStage /\ poolStage \in {"running", "cancelled"}
    BY <1>0, <1>1, <2>1 DEF poolStage, PoolClosed, PoolTypes
  <2>3. PoolService!Accept(j)
    BY <2>1, <2>2 DEF PoolService!Accept, PoolService!Moves, poolStage, poolStates
  <2> QED
    BY <2>1, <2>3 DEF PoolService!Next, PoolService!JobStep, poolStates
<1>2. CASE poolJob' = [poolJob EXCEPT ![j] = "dropped"]
  <2>0. PoolStageOf("dropped") = PoolStageOf(poolJob[j]) /\ "dropped" # "panicked"
    BY <1>0, PoolStages
  <2>1. poolStates' = poolStates /\ PoolAlive'
    BY <1>0, <1>2, <2>0, PoolJobMoves, Zenon
  <2> QED
    BY <1>0, <2>1 DEF poolStage
<1>3. CASE PoolClosed /\ poolJob' = [poolJob EXCEPT ![j] = "panicked"]
  <2>0. PoolStageOf("panicked") = PoolStageOf(poolJob[j])
    BY <1>0, PoolStages
  <2>1. poolStates' = poolStates
    BY <1>0, <1>3, <2>0, PoolJobMoves, Zenon
  <2>2. poolJob'[j] = "panicked"
    BY <1>0, <1>3 DEF PoolTypes
  <2>3. poolStage \in {"closed", "stopped"} /\ poolStage' = "broken"
    BY <1>3, <2>2 DEF poolStage, PoolClosed, PoolAlive
  <2>4. PoolService!Break
    BY <2>1, <2>3 DEF PoolService!Break, poolStage, poolStates
  <2> QED
    BY <2>4 DEF PoolService!Next
<1> QED
  BY <1>1, <1>2, <1>3 DEF SubmitToPool

LEMMA PoolServesWork ==
    ASSUME PoolInv, PoolAlive, NEW w \in PoolWorkers,
           TakeFromPool(w) \/ RunInPool(w) \/ ExitPoolWorker(w)
    PROVE  [PoolService!Next]_<<poolStage, poolStates>>
<1>0. PoolTypes /\ PoolPlaces /\ pool' = pool
  BY DEF PoolInv, TakeFromPool, RunInPool, ExitPoolWorker
<1>1. CASE TakeFromPool(w)
  <2>0. PICK j : j = Head(poolQueue)
    OBVIOUS
  <2>1. /\ j \in PoolJobs /\ poolJob[j] = "queued" /\ poolJob' = [poolJob EXCEPT ![j] = "running"]
        /\ w \notin poolExited /\ pool # "new"
    BY <1>0, <1>1, <2>0, PoolTakes DEF TakeFromPool, WorkerFree, PoolPlaces
  <2>2. /\ poolStates' = [poolStates EXCEPT ![j] = "running"]
        /\ poolStates[j] = "accepted" /\ poolStates'[j] = "running" /\ PoolAlive'
    BY <1>0, <2>1, PoolJobMoves, PoolStages
  <2>3. poolStage' = poolStage /\ poolStage \in {"running", "cancelled", "closed"}
    BY <1>0, <2>1, <2>2 DEF poolStage, PoolTypes, PoolPlaces
  <2>4. PoolService!Begin(j)
    BY <2>2, <2>3 DEF PoolService!Begin, PoolService!Moves, poolStage, poolStates
  <2> QED
    BY <2>1, <2>2, <2>4 DEF PoolService!Next, PoolService!JobStep, poolStates
<1>2. CASE RunInPool(w)
  <2>1. PICK j \in poolHolds[w] : poolJob' = [poolJob EXCEPT ![j] = "done"]
    BY <1>2 DEF RunInPool
  <2>2. j \in PoolJobs /\ poolJob[j] = "running"
    BY <1>0, <2>1 DEF PoolTypes, PoolPlaces
  <2>3. /\ poolStates' = [poolStates EXCEPT ![j] = "finished"]
        /\ poolStates[j] = "running" /\ poolStates'[j] = "finished" /\ PoolAlive'
    BY <1>0, <2>1, <2>2, PoolJobMoves, PoolStages
  <2>4. poolStage' = poolStage
    BY <1>0, <2>3 DEF poolStage
  <2>5. PoolService!End(j)
    BY <2>3, <2>4 DEF PoolService!End, PoolService!Moves, poolStage, poolStates
  <2> QED
    BY <2>2, <2>3, <2>5 DEF PoolService!Next, PoolService!JobStep, poolStates
<1>3. CASE ExitPoolWorker(w)
  BY <1>0, <1>3 DEF ExitPoolWorker, poolStates, poolStage, PoolAlive
<1> QED
  BY <1>1, <1>2, <1>3

\* Stop waits for the workers, and so for every function that has begun.
LEMMA PoolServesOwner ==
    ASSUME PoolInv, PoolAlive, StartPool \/ CancelPool \/ ClosePool \/ FinishStopPool
    PROVE  [PoolService!Next]_<<poolStage, poolStates>>
<1>0. /\ PoolTypes /\ PoolPlaces /\ UNCHANGED <<poolJob, poolStates>> /\ PoolAlive'
  BY DEF PoolInv, StartPool, CancelPool, ClosePool, FinishStopPool, poolStates, PoolAlive
<1>1. CASE StartPool
  BY <1>0, <1>1 DEF StartPool, poolStage
<1>2. CASE CancelPool
  <2>1. PoolService!Cancel
    BY <1>0, <1>2 DEF CancelPool, PoolService!Cancel, poolStage, poolStates
  <2> QED
    BY <2>1 DEF PoolService!Next, PoolService!Stop
<1>3. CASE ClosePool
  <2>1. PoolService!Close
    BY <1>0, <1>3 DEF ClosePool, PoolService!Close, poolStage, poolStates
  <2> QED
    BY <2>1 DEF PoolService!Next, PoolService!Stop
<1>4. CASE FinishStopPool
  <2>1. \A j \in PoolJobs : poolJob[j] # "running"
    BY <1>0, <1>4 DEF FinishStopPool, PoolWaitEnds, PoolPlaces
  <2>2. \A j \in PoolJobs : poolStates[j] \notin {"running", "ran"}
    BY <1>0, <2>1 DEF poolStates, PoolStageOf, PoolTypes
  <2>3. PoolService!Finish
    BY <1>0, <1>4, <2>2 DEF FinishStopPool, PoolService!Finish, poolStage, poolStates
  <2> QED
    BY <2>3 DEF PoolService!Next, PoolService!Stop
<1> QED
  BY <1>1, <1>2, <1>3, <1>4

LEMMA InitPoolServes == PoolInit => PoolService!Init
BY DEF PoolInit, PoolService!Init, PoolStageOf, PoolAlive

\* Every behaviour of the pool, seen through how far Stop and each function have
\* come, is a behaviour of JobService, for any number of workers and functions.
THEOREM PoolServesJobs == PoolSpec => PoolImplementsJobService
<1>1. PoolInv /\ [PoolNext]_poolVars => [PoolService!Next]_PoolService!servicevars
  <2> SUFFICES ASSUME PoolInv, [PoolNext]_poolVars
               PROVE  [PoolService!Next]_<<poolStage, poolStates>>
    BY DEF PoolService!servicevars, poolStage, poolStates
  <2>1. CASE UNCHANGED poolVars
    BY <2>1 DEF poolVars, poolStage, poolStates, PoolAlive
  <2> QED
    BY <2>1, PoolServesSubmit, PoolServesWork, PoolServesOwner
       DEF PoolNext, PoolOwner, PoolSubmit, PoolWork
<1>2. PoolSpec => PoolService!Spec
  BY InitPool, NextPool, InitPoolServes, <1>1, PTL DEF PoolSpec, PoolService!Spec
<1> QED
  BY <1>2 DEF PoolImplementsJobService

-----------------------------------------------------------------------------
(* The limits of the streaming processor.                                  *)

Distinct(s) == \A i, j \in DOMAIN s : s[i] = s[j] => i = j

StreamLimits ==
    /\ \A f \in Inputs : streamSent[f] - streamTaken[f] <= Slots
    /\ results \in [Inputs -> 0..Slots]
    /\ Len(lru) <= CacheSize /\ Distinct(lru)

LEMMA StretchOf ==
    ASSUME NEW S, NEW s \in Seq(S), NEW m \in Nat \ {0}, NEW n \in Nat, m <= n + 1, n <= Len(s),
           NEW u, u = SubSeq(s, m, n)
    PROVE  u \in Seq(S) /\ Len(u) = n - m + 1 /\ \A k \in 1..(n - m + 1) : u[k] = s[m + k - 1]
<1>1. m \in Int /\ n \in Int /\ \A k \in m..n : s[k] \in S
  OBVIOUS
<1>2. SubSeq(s, m, n) \in Seq(S)
  BY <1>1, SubSeqProperties
<1>3. Len(SubSeq(s, m, n)) = IF m <= n THEN n - m + 1 ELSE 0
  BY <1>1, SubSeqProperties
<1>4. \A k \in 1..(n - m + 1) : SubSeq(s, m, n)[k] = s[m + k - 1]
  BY <1>1, SubSeqProperties
<1> QED
  BY <1>2, <1>3, <1>4

\* The key at place i moves to the front, and those before it one place back.
LEMMA MovedToFront ==
    ASSUME NEW S, NEW s \in Seq(S), NEW i \in 1..Len(s)
    PROVE  LET t == <<s[i]>> \o (SubSeq(s, 1, i - 1) \o SubSeq(s, i + 1, Len(s))) IN
           /\ t \in Seq(S) /\ Len(t) = Len(s)
           /\ \A k \in 1..Len(s) : t[k] = s[IF k = 1 THEN i ELSE IF k <= i THEN k - 1 ELSE k]
<1>0. PICK n \in Nat : n = Len(s)
  OBVIOUS
<1>1. PICK u : u = SubSeq(s, 1, i - 1)
  OBVIOUS
<1>2. PICK v : v = SubSeq(s, i + 1, n)
  OBVIOUS
<1>3. PICK y : y = <<s[i]>>
  OBVIOUS
<1>4. i \in 1..n /\ s[i] \in S /\ i - 1 \in Nat /\ i + 1 \in Nat
  BY <1>0
<1>5. u \in Seq(S) /\ Len(u) = i - 1 /\ \A k \in 1..(i - 1) : u[k] = s[k]
  <2>1. u \in Seq(S) /\ Len(u) = (i - 1) - 1 + 1 /\ \A k \in 1..((i - 1) - 1 + 1) : u[k] = s[1 + k - 1]
    BY <1>0, <1>1, <1>4, StretchOf
  <2>2. (i - 1) - 1 + 1 = i - 1 /\ \A k \in 1..(i - 1) : 1 + k - 1 = k
    BY <1>4
  <2> QED
    BY <2>1, <2>2
<1>6. v \in Seq(S) /\ Len(v) = n - i /\ \A k \in 1..(n - i) : v[k] = s[i + k]
  <2>1. /\ v \in Seq(S) /\ Len(v) = n - (i + 1) + 1
        /\ \A k \in 1..(n - (i + 1) + 1) : v[k] = s[(i + 1) + k - 1]
    BY <1>0, <1>2, <1>4, StretchOf
  <2>2. n - (i + 1) + 1 = n - i /\ \A k \in 1..(n - i) : (i + 1) + k - 1 = i + k
    BY <1>4
  <2> QED
    BY <2>1, <2>2
<1>7. y \in Seq(S) /\ Len(y) = 1 /\ y[1] = s[i]
  BY <1>3, <1>4
<1>t. PICK t : t = y \o (u \o v)
  OBVIOUS
<1>8. t = <<s[i]>> \o (SubSeq(s, 1, i - 1) \o SubSeq(s, i + 1, Len(s)))
  BY <1>0, <1>1, <1>2, <1>3, <1>t
<1>9. /\ t \in Seq(S) /\ Len(t) = 1 + Len(u) + Len(v) /\ t[1] = y[1]
      /\ \A k \in 1..Len(u) : t[1 + k] = u[k]
      /\ \A k \in 1..Len(v) : t[1 + Len(u) + k] = v[k]
  <2>z. y \in Seq(S) /\ u \in Seq(S) /\ v \in Seq(S) /\ Len(y) = 1
    BY <1>5, <1>6, <1>7
  <2>0. Len(u) \in Nat /\ Len(v) \in Nat
    BY <2>z
  <2>1. PICK x : x = u \o v
    OBVIOUS
  <2>2. /\ x \in Seq(S) /\ Len(x) = Len(u) + Len(v)
        /\ \A k \in 1..(Len(u) + Len(v)) : x[k] = IF k <= Len(u) THEN u[k] ELSE v[k - Len(u)]
    BY <2>z, <2>1, ConcatProperties
  <2>3. /\ t \in Seq(S) /\ Len(t) = 1 + Len(x)
        /\ \A k \in 1..(1 + Len(x)) : t[k] = IF k <= 1 THEN y[k] ELSE x[k - 1]
    <3>1. /\ y \o x \in Seq(S) /\ Len(y \o x) = Len(y) + Len(x)
          /\ \A k \in 1..(Len(y) + Len(x)) : (y \o x)[k] = IF k <= Len(y) THEN y[k] ELSE x[k - Len(y)]
      <4>1. x \in Seq(S)
        BY <2>2
      <4> QED
        BY <2>z, <4>1, ConcatProperties
    <3>2. t = y \o x
      BY <2>1, <1>t
    <3> QED
      BY <2>z, <3>1, <3>2
  <2>4. t[1] = y[1]
    BY <2>0, <2>2, <2>3
  <2>5. ASSUME NEW k \in 1..Len(u) PROVE t[1 + k] = u[k]
    <3>1. k \in 1..(Len(u) + Len(v)) /\ 1 + k \in 1..(1 + Len(x)) /\ ~(1 + k <= 1) /\ (1 + k) - 1 = k
      BY <2>0, <2>2, <2>5
    <3>2. x[k] = u[k]
      BY <2>0, <2>2, <2>5, <3>1
    <3>3. t[1 + k] = x[k]
      BY <2>3, <3>1
    <3> QED
      BY <3>2, <3>3
  <2>6. ASSUME NEW k \in 1..Len(v) PROVE t[1 + Len(u) + k] = v[k]
    <3> DEFINE l == Len(u) + k
    <3>1. /\ l \in 1..(Len(u) + Len(v)) /\ 1 + l \in 1..(1 + Len(x)) /\ ~(1 + l <= 1) /\ (1 + l) - 1 = l
          /\ ~(l <= Len(u)) /\ l - Len(u) = k /\ 1 + Len(u) + k = 1 + l
      BY <2>0, <2>2, <2>6
    <3> HIDE DEF l
    <3>2. t[1 + l] = x[l] /\ x[l] = v[k]
      BY <2>2, <2>3, <3>1
    <3> QED
      BY <3>1, <3>2
  <2> QED
    BY <2>2, <2>3, <2>4, <2>5, <2>6, <2>0
<1>10. ASSUME NEW k \in 1..n PROVE t[k] = s[IF k = 1 THEN i ELSE IF k <= i THEN k - 1 ELSE k]
  <2>1. CASE k = 1
    BY <1>7, <1>9, <2>1
  <2>2. CASE k # 1 /\ k <= i
    <3>1. k - 1 \in 1..(i - 1) /\ 1 + (k - 1) = k
      BY <1>4, <1>10, <2>2
    <3> QED
      BY <1>5, <1>9, <2>2, <3>1
  <2>3. CASE k > i
    <3>1. k - i \in 1..(n - i) /\ 1 + (i - 1) + (k - i) = k /\ i + (k - i) = k /\ k # 1 /\ ~(k <= i)
      BY <1>4, <1>10, <2>3
    <3>2. t[1 + (i - 1) + (k - i)] = v[k - i] /\ v[k - i] = s[i + (k - i)]
      BY <1>5, <1>6, <1>9, <3>1
    <3> QED
      BY <3>1, <3>2
  <2> QED
    BY <1>4, <1>10, <2>1, <2>2, <2>3
<1>11. Len(t) = n
  BY <1>4, <1>5, <1>6, <1>9, SMTT(20)
<1> QED
  BY <1>0, <1>8, <1>9, <1>10, <1>11

LEMMA MovedIsDistinct ==
    ASSUME NEW S, NEW s \in Seq(S), NEW t \in Seq(S), Len(t) = Len(s), NEW i \in 1..Len(s), Distinct(s),
           \A k \in 1..Len(s) : t[k] = s[IF k = 1 THEN i ELSE IF k <= i THEN k - 1 ELSE k]
    PROVE  Distinct(t)
<1> DEFINE From(k) == IF k = 1 THEN i ELSE IF k <= i THEN k - 1 ELSE k
<1>1. Len(s) \in Nat /\ DOMAIN s = 1..Len(s) /\ DOMAIN t = 1..Len(s)
  OBVIOUS
<1>2. \A k \in 1..Len(s) : From(k) \in 1..Len(s) /\ t[k] = s[From(k)]
  BY <1>1
<1>3. \A k, l \in 1..Len(s) : From(k) = From(l) => k = l
  BY <1>1
<1> HIDE DEF From
<1> QED
  BY <1>1, <1>2, <1>3 DEF Distinct

LEMMA PushedToFront ==
    ASSUME NEW S, NEW s \in Seq(S), Distinct(s), NEW key \in S, ~Has(s, key),
           NEW t, t = <<key>> \o s
    PROVE  Distinct(t) /\ Len(t) = Len(s) + 1
<1>1. /\ Len(s) \in Nat /\ Len(t) = Len(s) + 1 /\ DOMAIN t = 1..(Len(s) + 1) /\ DOMAIN s = 1..Len(s)
      /\ \A k \in 1..(Len(s) + 1) : t[k] = IF k = 1 THEN key ELSE s[k - 1]
  OBVIOUS
<1>2. \A k \in 1..(Len(s) + 1) : k # 1 => k - 1 \in 1..Len(s)
  BY <1>1
<1>3. \A k \in 1..Len(s) : s[k] # key
  BY <1>1 DEF Has
<1> QED
  BY <1>1, <1>2, <1>3 DEF Distinct

LEMMA TouchDistinct ==
    ASSUME NEW S, NEW s \in Seq(S), Distinct(s), NEW key \in S
    PROVE  /\ Distinct(Touch(s, key))
           /\ Len(Touch(s, key)) = IF Has(s, key) THEN Len(s) ELSE Len(s) + 1
<1>1. CASE Has(s, key)
  <2>1. PICK i : i = CHOOSE k \in DOMAIN s : s[k] = key
    OBVIOUS
  <2>2. i \in DOMAIN s /\ s[i] = key
    BY <1>1, <2>1 DEF Has
  <2>3. Touch(s, key) = <<s[i]>> \o (SubSeq(s, 1, i - 1) \o SubSeq(s, i + 1, Len(s)))
    BY <1>1, <2>1, <2>2 DEF Touch, Without
  <2>4. PICK t : t = Touch(s, key)
    OBVIOUS
  <2>5. i \in 1..Len(s)
    BY <2>2
  <2>6. /\ t \in Seq(S) /\ Len(t) = Len(s)
        /\ \A k \in 1..Len(s) : t[k] = s[IF k = 1 THEN i ELSE IF k <= i THEN k - 1 ELSE k]
    <3>1. t = <<s[i]>> \o (SubSeq(s, 1, i - 1) \o SubSeq(s, i + 1, Len(s)))
      BY <2>3, <2>4
    <3> QED
      BY <2>5, <3>1, MovedToFront
  <2>7. Distinct(t)
    BY <2>5, <2>6, MovedIsDistinct
  <2> QED
    BY <1>1, <2>4, <2>6, <2>7
<1>2. CASE ~Has(s, key)
  <2>1. Touch(s, key) = <<key>> \o s
    BY <1>2 DEF Touch, Without
  <2> QED
    BY <1>2, <2>1, PushedToFront
<1> QED
  BY <1>1, <1>2

LEMMA StoredDistinct ==
    ASSUME NEW S, NEW s \in Seq(S), Distinct(s), NEW key \in S, Len(s) <= CacheSize
    PROVE  Distinct(Stored(s, key)) /\ Len(Stored(s, key)) <= CacheSize
<1>1. PICK t : t = Touch(s, key)
  OBVIOUS
<1>2. t \in Seq(S) /\ Distinct(t) /\ Len(t) <= Len(s) + 1 /\ Len(s) \in Nat /\ CacheSize \in Nat
  BY <1>1, TouchType, TouchDistinct, StreamAssumption
<1>3. Stored(s, key) = IF Len(t) > CacheSize THEN SubSeq(t, 1, Len(t) - 1) ELSE t
  BY <1>1 DEF Stored
<1>4. CASE Len(t) > CacheSize
  <2>1. PICK n \in Nat : n = Len(t) - 1
    BY <1>2, <1>4
  <2>2. PICK v : v = SubSeq(t, 1, n)
    OBVIOUS
  <2>3. v \in Seq(S) /\ Len(v) = n - 1 + 1 /\ \A k \in 1..(n - 1 + 1) : v[k] = t[1 + k - 1]
    BY <1>2, <2>1, <2>2, StretchOf
  <2>4. DOMAIN v = 1..n /\ DOMAIN t = 1..(n + 1) /\ Len(v) = n /\ \A k \in 1..n : v[k] = t[k]
    BY <1>2, <2>1, <2>3
  <2>5. Distinct(v) /\ Len(v) <= CacheSize
    BY <1>2, <2>1, <2>4 DEF Distinct
  <2> QED
    BY <1>3, <1>4, <2>1, <2>2, <2>5
<1>5. CASE ~(Len(t) > CacheSize)
  BY <1>2, <1>3, <1>5
<1> QED
  BY <1>4, <1>5

LEMMA StreamLimitsKept ==
    ASSUME StreamInv, StreamLimits, [StreamNext]_streamVars
    PROVE  StreamLimits'
<1>0. StreamTypes /\ Sending /\ Slots \in Nat /\ Slots' = Slots /\ lru \in Seq(SeenKeys)
  BY SlotsTyped DEF StreamInv, Caching, Slots
<1> DEFINE Sent  == \A f \in Inputs : streamSent[f] - streamTaken[f] <= Slots
           Found == results \in [Inputs -> 0..Slots]
           Short == Len(lru) <= CacheSize /\ Distinct(lru)
<1>1. CASE NewStreamProcessor \/ StopStream \/ UNCHANGED streamVars
  BY <1>0, <1>1 DEF NewStreamProcessor, StopStream, streamVars, StreamLimits, Distinct
<1>2. ASSUME NEW f \in Inputs, Call(f)
      PROVE  StreamLimits'
  <2>1. UNCHANGED <<streamTaken, results, lru>>
    BY <1>2 DEF Call, OpenInput, OpenFails, ReadChunk, ReadFails, SendChunk, GiveUp, ReturnFrom
  <2>2. Found' /\ Short'
    BY <1>0, <2>1 DEF StreamLimits, Distinct
  <2>3. CASE SendChunk(f)
    <3>1. /\ \A g \in Inputs : streamSent'[g] = IF g = f THEN streamSent[g] + 1 ELSE streamSent[g]
          /\ streamSent[f] - streamTaken[f] < Slots /\ streamSent[f] \in Nat /\ streamTaken[f] \in Nat
      BY <1>0, <2>3 DEF SendChunk, StreamTypes
    <3>2. Sent'
      BY <1>0, <2>1, <3>1 DEF StreamLimits
    <3> QED
      BY <2>2, <3>2 DEF StreamLimits
  <2>4. CASE UNCHANGED streamSent
    BY <1>0, <2>1, <2>2, <2>4 DEF StreamLimits
  <2> QED
    BY <1>2, <2>3, <2>4 DEF Call, OpenInput, OpenFails, ReadChunk, ReadFails, GiveUp, ReturnFrom
<1>3. ASSUME NEW f \in Inputs, Collecting(f)
      PROVE  StreamLimits'
  <2>1. UNCHANGED <<streamSent, streamTaken, lru>>
    BY <1>3 DEF Collecting, Collect, EndCollector
  <2>2. Found'
    BY <1>0, <1>3 DEF Collecting, Collect, EndCollector, StreamLimits
  <2> QED
    BY <1>0, <2>1, <2>2 DEF StreamLimits, Distinct
<1>4. ASSUME NEW f \in Inputs, NEW w \in StreamWorkers, StreamWorker(f, w)
      PROVE  StreamLimits'
  <2>1. CASE TakeChunk(f, w)
    <3>1. /\ \A g \in Inputs : streamTaken'[g] = IF g = f THEN streamTaken[g] + 1 ELSE streamTaken[g]
          /\ \A g \in Inputs : streamSent[g] \in Nat /\ streamTaken[g] \in Nat
          /\ UNCHANGED <<streamSent, results, lru>>
      BY <1>0, <2>1 DEF TakeChunk, StreamTypes
    <3>2. Sent'
      BY <1>0, <3>1 DEF StreamLimits
    <3> QED
      BY <1>0, <3>1, <3>2 DEF StreamLimits, Distinct
  <2>2. CASE SendStreamResult(f, w)
    <3>1. UNCHANGED <<streamSent, streamTaken, lru>> /\ Found'
      BY <1>0, <2>2 DEF SendStreamResult, StreamLimits
    <3> QED
      BY <1>0, <3>1 DEF StreamLimits, Distinct
  <2>3. CASE ExitStreamWorker(f, w)
    BY <1>0, <2>3 DEF ExitStreamWorker, StreamLimits, Distinct
  <2>4. CASE LookUp(f, w)
    <3>1. PICK key : key = KeyOf(f, chunk[f][w])
      OBVIOUS
    <3>2. /\ UNCHANGED <<streamSent, streamTaken, results>>
          /\ lru' = IF Has(lru, key) THEN Touch(lru, key) ELSE lru
      BY <2>4, <3>1 DEF LookUp
    <3>3. CASE Has(lru, key)
      <4>1. key \in SeenKeys
        BY <1>0, <3>3 DEF Has
      <4>2. Distinct(Touch(lru, key)) /\ Len(Touch(lru, key)) = Len(lru)
        BY <1>0, <3>3, <4>1, TouchDistinct DEF StreamLimits
      <4>3. Short'
        BY <3>2, <3>3, <4>2 DEF StreamLimits
      <4> QED
        BY <1>0, <3>2, <4>3 DEF StreamLimits
    <3>4. CASE ~Has(lru, key)
      BY <1>0, <3>2, <3>4 DEF StreamLimits, Distinct
    <3> QED
      BY <3>3, <3>4
  <2>5. CASE ProcessChunk(f, w)
    <3>1. PICK key : key = KeyOf(f, chunk[f][w])
      OBVIOUS
    <3>2. /\ UNCHANGED <<streamSent, streamTaken, results>>
          /\ lru' = lru \/ lru' = Stored(lru, key)
      BY <2>5, <3>1 DEF ProcessChunk
    <3>3. lru \in Seq(SeenKeys \cup {key}) /\ key \in SeenKeys \cup {key}
      <4>1. \A i \in DOMAIN lru : lru[i] \in SeenKeys \cup {key}
        BY <1>0
      <4> QED
        BY <1>0, <4>1, SeqEqual
    <3>4. Distinct(Stored(lru, key)) /\ Len(Stored(lru, key)) <= CacheSize
      BY <3>3, StoredDistinct DEF StreamLimits
    <3>5. Short'
      BY <3>2, <3>4 DEF StreamLimits, Distinct
    <3> QED
      BY <1>0, <3>2, <3>5 DEF StreamLimits
  <2> QED
    BY <1>4, <2>1, <2>2, <2>3, <2>4, <2>5 DEF StreamWorker
<1> QED
  BY <1>1, <1>2, <1>3, <1>4 DEF StreamNext

LEMMA StreamLimitsStart == StreamInit => StreamLimits
<1> SUFFICES ASSUME StreamInit PROVE StreamLimits
  OBVIOUS
<1>1. Slots \in Nat /\ CacheSize \in Nat /\ Len(<<>>) = 0 /\ DOMAIN <<>> = {}
  BY SlotsTyped, StreamAssumption
<1> QED
  BY <1>1 DEF StreamInit, StreamLimits, Distinct

-----------------------------------------------------------------------------
(* The types of every part.                                                *)

DisplayTypes ==
    /\ display \in {"processing", "total", "current", "finished"}
    /\ current \in Nat /\ total \in Nat
    /\ drawn \in Nat \X Nat

LEMMA PercentNatural ==
    ASSUME NEW bytes \in Nat, TotalBytes # 0
    PROVE  Percent(bytes) \in Nat
<1>1. TotalBytes \in Nat /\ TotalBytes > 0
  BY TotalType
<1>2. (100 * bytes) \div TotalBytes \in Nat
  BY <1>1
<1> QED
  BY <1>1, <1>2 DEF Percent

LEMMA DisplayStepTypes ==
    ASSUME PipelineInv, DisplayTypes, [DisplayNext]_displayVars
    PROVE  DisplayTypes'
<1>0. TotalBytes \in Nat
  BY TotalType
<1>1. CASE ReportProgress
  <2>1. processed' \in Nat
    BY <1>1, NextType DEF ReportProgress, Next, Collector, TypeOK
  <2>2. TotalBytes # 0 => Percent(processed') \in Nat
    BY <2>1, PercentNatural
  <2>3. current' \in Nat /\ total' \in Nat /\ display' = display
    <3>1. CASE TotalBytes = 0
      BY <1>1, <3>1 DEF ReportProgress, DisplayTypes
    <3>2. CASE TotalBytes # 0 /\ display = "finished"
      <4>1. UNCHANGED display /\ current' = Percent(processed') /\ UNCHANGED <<total, drawn>>
        BY <1>1, <3>2 DEF ReportProgress
      <4> QED
        BY <2>2, <3>2, <4>1 DEF DisplayTypes
    <3>3. CASE TotalBytes # 0 /\ display # "finished"
      <4>1. UNCHANGED display /\ Draw(Percent(processed'), total)
        BY <1>1, <3>3 DEF ReportProgress
      <4> QED
        BY <2>2, <3>3, <4>1 DEF Draw, DisplayTypes
    <3> QED
      BY <3>1, <3>2, <3>3
  <2>4. drawn' = drawn \/ drawn' = <<current', total'>>
    BY <1>1 DEF ReportProgress, Draw
  <2> QED
    BY <2>3, <2>4 DEF DisplayTypes
<1>2. CASE SetTotal
  BY <1>0, <1>2 DEF SetTotal, Draw, FinalTotal, DisplayTypes
<1>3. CASE SetCurrent
  BY <1>0, <1>3 DEF SetCurrent, Draw, FinalTotal, DisplayTypes
<1>4. CASE FinishDisplay
  BY <1>4 DEF FinishDisplay, DisplayTypes
<1>5. CASE UNCHANGED <<display, current, total, drawn>>
  BY <1>5 DEF DisplayTypes
<1> QED
  BY <1>1, <1>2, <1>3, <1>4, <1>5
     DEF DisplayNext, Command, Progress, Quiet, displayVars

LEMMA DisplayInitTypes == DisplayInit => PipelineInv /\ DisplayTypes
BY TotalType, InitPipeline DEF DisplayInit, DisplayTypes

\* The buffer and the queue never hold more than their sizes.
BatchLimits ==
    /\ Len(batchBuffer) <= BatchSize
    /\ batchBuffer = <<>> \/ Len(batchBuffer) < BatchSize
    /\ Len(accepted) <= BatchQueue

LEMMA BatchSubmits ==
    ASSUME BatchTypes, BatchLimits, NEW jobs \in Seq(BatchJobs), SubmitBatch(jobs)
    PROVE  BatchLimits'
<1>1. batchBuffer' = <<>> /\ Len(<<>>) = 0 /\ BatchSize \in Nat /\ BatchQueue \in Nat
  BY BatchAssumption DEF SubmitBatch, KeptAfter
<1>2. Len(Append(accepted, jobs)) = Len(accepted) + 1 /\ Len(accepted) \in Nat
  BY DEF BatchTypes
<1> QED
  BY <1>1, <1>2 DEF BatchLimits, SubmitBatch, BatchFits

LEMMA BatchLimitsKept ==
    ASSUME BatchInv, BatchLimits, [BatchNext]_batchVars
    PROVE  BatchLimits'
<1>0. BatchTypes /\ BatchSize \in Nat
  BY BatchAssumption DEF BatchInv
<1>1. CASE FlushBatch
  BY <1>0, <1>1, BatchSubmits DEF FlushBatch, BatchTypes
<1>2. ASSUME NEW j \in BatchJobs, AddJob(j) PROVE BatchLimits'
  <2>1. PICK jobs : jobs = Append(batchBuffer, j)
    OBVIOUS
  <2>2. jobs \in Seq(BatchJobs) /\ Len(jobs) \in Nat
    BY <1>0, <2>1 DEF BatchTypes
  <2>3. CASE Len(jobs) >= BatchSize
    BY <1>0, <1>2, <2>1, <2>2, <2>3, BatchSubmits DEF AddJob
  <2>4. CASE ~(Len(jobs) >= BatchSize)
    <3>1. batchBuffer' = jobs /\ accepted' = accepted
      BY <1>2, <2>1, <2>4 DEF AddJob
    <3> QED
      BY <1>0, <2>2, <2>4, <3>1 DEF BatchLimits
  <2> QED
    BY <2>3, <2>4
<1>3. CASE UNCHANGED batchVars
  BY <1>3 DEF batchVars, BatchLimits
<1> QED
  BY <1>1, <1>2, <1>3 DEF BatchNext

LEMMA BatchLimitsStart == BatchInit => BatchLimits
BY BatchAssumption DEF BatchInit, BatchLimits

\* The bounds of the write buffer's instance.
WriteLimits ==
    /\ written \in [WriteFiles -> 0..MaxWritten]
    /\ flushFaults \in 0..MaxFlushFaults

LEMMA WriteLimitsKept ==
    ASSUME WriteInv, WriteLimits, [WriteNext]_writeVars
    PROVE  WriteLimits'
<1>0. MaxWritten \in Nat /\ MaxFlushFaults \in Nat /\ BufferMax \in Nat
  BY WriteBufferAssumption
<1>1. ASSUME NEW f \in WriteFiles, FlushFails(f) PROVE flushFaults' \in 0..MaxFlushFaults
  BY <1>0, <1>1 DEF FlushFails, WriteLimits
<1>2. ASSUME NEW f \in WriteFiles, OpenWriter(f) \/ BufferWriteFails(f) \/ SyncWriter(f) \/ CloseWriter(f)
      PROVE  WriteLimits'
  BY <1>1, <1>2 DEF OpenWriter, BufferWriteFails, SyncWriter, CloseWriter, FlushTo, WriteLimits
<1>3. ASSUME NEW f \in WriteFiles, NEW n \in 1..(BufferMax + 1), BufferWrite(f, n)
      PROVE  WriteLimits'
  <2>1. written[f] + n \in 0..MaxWritten
    BY <1>0, <1>3 DEF BufferWrite, WriteLimits
  <2> QED
    BY <1>3, <2>1 DEF BufferWrite, FlushTo, WriteLimits
<1>4. CASE UNCHANGED writeVars
  BY <1>4 DEF writeVars, WriteLimits
<1> QED
  BY <1>2, <1>3, <1>4 DEF WriteNext

LEMMA WriteLimitsStart == WriteInit => WriteLimits
BY WriteBufferAssumption DEF WriteInit, WriteLimits

\* The bounds of the generator's instance, and its offset in a field.
GeneratorLimits ==
    /\ genResult \in {"none", "nil", "error", "killed"}
    /\ generations \in 0..MaxGenerations /\ patchFaults \in 0..MaxPatchFaults
    /\ spgOffset \in 0..(FieldValues - 1)

LEMMA KeptLength ==
    ASSUME GeneratorTypes, NEW n \in 0..Len(delta)
    PROVE  Len(Encoded(SubSeq(delta, 1, n), spgOps, spgOffset).data) \in Nat
<1>1. PICK ops : ops = SubSeq(delta, 1, n)
  OBVIOUS
<1>2. ops \in Seq(OpsOf(Byte))
  <2>1. SizedOps(Byte) \subseteq OpsOf(Byte)
    BY DEF SizedOps, OpsOf
  <2>2. delta \in Seq(OpsOf(Byte))
    BY <2>1 DEF GeneratorTypes
  <2> QED
    BY <1>1, <2>2
<1>3. Encoded(ops, spgOps, spgOffset).data = Areas(ops)[Len(ops)]
  BY DEF Encoded
<1>4. PICK a : a = Areas(ops) /\ AreaSteps(a, ops, Byte)
  BY <1>2, AreasAreSteps
<1>5. a[Len(ops)] \in Seq(Byte)
  BY <1>2, <1>4 DEF AreaSteps
<1> QED
  BY <1>1, <1>3, <1>4, <1>5

LEMMA GeneratorLimitsKept ==
    ASSUME GeneratorInv, GeneratorLimits, [PatchNext]_patchVars
    PROVE  GeneratorLimits'
<1>0. FieldValues \in Nat \ {0} /\ MaxGenerations \in Nat /\ MaxPatchFaults \in Nat
  BY GeneratorAssumption
<1>1. CASE NewGenerator \/ SumSource \/ EditOld \/ UNCHANGED patchVars
  BY <1>1 DEF NewGenerator, SumSource, EditOld, patchVars, GeneratorLimits
<1>2. CASE FailGeneration \/ SumSourceShort
  BY <1>0, <1>2 DEF FailGeneration, SumSourceShort, GeneratorLimits
<1>3. ASSUME NEW list \in Lists[generations + 1], generations < MaxGenerations, BeginGeneration(list)
      PROVE  GeneratorLimits'
  BY <1>0, <1>3 DEF BeginGeneration, GeneratorLimits
<1>4. ASSUME NEW n \in 0..Len(delta), KeepsFirst(n) PROVE spgOffset' \in 0..(FieldValues - 1)
  <2>1. \A m \in Nat : Field(m) \in 0..(FieldValues - 1)
    BY <1>0 DEF Field
  <2>2. PICK l \in Nat : l = Len(Encoded(SubSeq(delta, 1, n), spgOps, spgOffset).data)
    BY KeptLength DEF GeneratorInv
  <2>3. spgOffset + l \in Nat
    BY <1>0, <2>2 DEF GeneratorLimits
  <2>4. spgOffset' = Field(spgOffset + l)
    BY <1>4, <2>2 DEF KeepsFirst
  <2> QED
    BY <2>1, <2>3, <2>4
<1>5. ASSUME KeepsOperations PROVE spgOffset' \in 0..(FieldValues - 1)
  <2>1. Len(delta) \in 0..Len(delta)
    BY DEF GeneratorInv, GeneratorTypes
  <2>2. CASE generator.streaming
    BY <1>4, <1>5, <2>1, <2>2 DEF KeepsOperations
  <2>3. CASE ~generator.streaming
    BY <1>5, <2>3 DEF KeepsOperations, GeneratorLimits
  <2> QED
    BY <2>2, <2>3
<1>6. CASE WritePatch
  BY <1>5, <1>6 DEF WritePatch, GeneratorLimits
<1>7. CASE WriteCutShort
  <2>1. spgOffset' \in 0..(FieldValues - 1)
    BY <1>5, <1>7 DEF WriteCutShort
  <2> QED
    BY <1>0, <1>7, <2>1 DEF WriteCutShort, GeneratorLimits
<1>8. CASE KillGenerator
  BY <1>0, <1>8 DEF KillGenerator, GeneratorLimits
<1>9. CASE DataWriteFails
  <2>1. spgOffset' \in 0..(FieldValues - 1)
    BY <1>4, <1>9 DEF DataWriteFails
  <2> QED
    BY <1>0, <1>9, <2>1 DEF DataWriteFails, GeneratorLimits
<1> QED
  BY <1>1, <1>2, <1>3, <1>6, <1>7, <1>8, <1>9 DEF PatchNext

LEMMA GeneratorLimitsStart == PatchInit => GeneratorLimits
BY GeneratorAssumption DEF PatchInit, GeneratorLimits

\* Contents of paths such that what a patch among them was made from, and makes,
\* is among them too.
Kinded(c) == IsFile(c) \/ IsTree(c) \/ c = Nothing

Closed(C) ==
    \A c \in C : Kinded(c) /\ (c.kind = "patch" => c.from \in C /\ c.to \in C)

DisksHold(C) == DOMAIN disk = Names /\ \A n \in Names : disk[n] \in C

BackupsHold == DOMAIN backups = Names /\ \A n \in Names : IsFile(backups[n]) \/ backups[n] = Nothing

CommandInv ==
    /\ \E C : Closed(C) /\ DisksHold(C)
    /\ BackupsHold
    /\ \E e \in DOMAIN Exit : lastRun.exit = Exit[e]

LEMMA ExitCodes ==
    \A e \in {Exit.ok, Exit.unknown, Exit.argument, Exit.notFound, Exit.read, Exit.generation,
              Exit.application, Exit.validation, Exit.backup, Exit.config} :
        \E d \in DOMAIN Exit : e = Exit[d]
BY DEF Exit

\* A content that is written over another.
LEMMA DiskWritten ==
    ASSUME NEW C, Closed(C), DisksHold(C), NEW D, Closed(D), C \subseteq D,
           NEW n \in Names, NEW c \in D, disk' = [disk EXCEPT ![n] = c]
    PROVE  \E E : Closed(E) /\ DisksHold(E)'
<1>1. DisksHold(D)'
  BY DEF DisksHold
<1> QED
  BY <1>1

LEMMA CutAdded ==
    ASSUME NEW C, Closed(C)
    PROVE  Closed(C \cup {Cut, Stub, Mixed, Settings, Nothing})
BY DEF Closed, Kinded, IsFile, IsTree, Cut, Stub, Mixed, Settings, Nothing

LEMMA PatchAdded ==
    ASSUME NEW C, Closed(C), NEW version, NEW from \in C, NEW to \in C, NEW plain
    PROVE  Closed(C \cup {Patch(version, from, to, plain)})
BY DEF Closed, Kinded, IsFile, IsTree, Patch

LEMMA CommandStarts == CommandInit => CommandInv
<1> SUFFICES ASSUME CommandInit PROVE CommandInv
  OBVIOUS
<1> DEFINE C == {disk[n] : n \in Names}
<1>1. DOMAIN disk = Names /\ \A n \in Names : disk[n].kind \in {"text", "tree"} \/ disk[n] = Nothing
  BY DisksAssumption DEF CommandInit
<1>2. \A c \in C : Kinded(c) /\ c.kind # "patch"
  BY <1>1 DEF Kinded, IsFile, IsTree, Nothing
<1>3. Closed(C) /\ DisksHold(C)
  BY <1>1, <1>2 DEF Closed, DisksHold
<1>4. lastRun.exit = Exit.ok /\ BackupsHold
  BY DEF CommandInit, BackupsHold
<1> QED
  BY <1>3, <1>4, ExitCodes DEF CommandInv

LEMMA RanKeeps ==
    ASSUME NEW command, NEW paths, NEW exit, Ran(command, paths, exit),
           exit \in {Exit.ok, Exit.unknown, Exit.argument, Exit.notFound, Exit.read,
                     Exit.generation, Exit.application, Exit.validation, Exit.backup, Exit.config}
    PROVE  \E e \in DOMAIN Exit : lastRun'.exit = Exit[e]
<1>1. lastRun'.exit = exit
  BY RanExits
<1>2. \E d \in DOMAIN Exit : exit = Exit[d]
  BY ExitCodes
<1> QED
  BY <1>1, <1>2

LEMMA RefusedKeeps ==
    ASSUME CommandInv, NEW command, NEW paths, NEW exit, Refused(command, paths, exit),
           exit \in {Exit.ok, Exit.unknown, Exit.argument, Exit.notFound, Exit.read,
                     Exit.generation, Exit.application, Exit.validation, Exit.backup, Exit.config}
    PROVE  CommandInv'
<1>1. disk' = disk /\ backups' = backups /\ Ran(command, paths, exit)
  BY DEF Refused, Leaves
<1>2. \E e \in DOMAIN Exit : lastRun'.exit = Exit[e]
  BY <1>1, RanKeeps
<1> QED
  BY <1>1, <1>2 DEF CommandInv, DisksHold, BackupsHold

\* A run that writes something that was on disk, that a patch made there, or a
\* patch of two such contents.
LEMMA WrittenKeeps ==
    ASSUME CommandInv, NEW n \in Names, NEW c, disk' = [disk EXCEPT ![n] = c],
           \/ c \in {Cut, Stub, Mixed, Settings, Nothing}
           \/ \E m \in Names : c = disk[m] \/ (disk[m].kind = "patch" /\ c = disk[m].to)
           \/ \E a, b \in Names, version \in {1, 2}, plain \in BOOLEAN :
                 c = Patch(version, disk[a], disk[b], plain)
    PROVE  \E E : Closed(E) /\ DisksHold(E)'
<1>1. PICK C : Closed(C) /\ DisksHold(C)
  BY DEF CommandInv
<1>2. CASE c \in {Cut, Stub, Mixed, Settings, Nothing}
  <2>1. Closed(C \cup {Cut, Stub, Mixed, Settings, Nothing}) /\ c \in C \cup {Cut, Stub, Mixed, Settings, Nothing}
    BY <1>1, <1>2, CutAdded
  <2>2. PICK D : D = C \cup {Cut, Stub, Mixed, Settings, Nothing}
    OBVIOUS
  <2>3. Closed(D) /\ c \in D /\ C \subseteq D
    BY <2>1, <2>2
  <2> QED
    BY <1>1, <2>3, DiskWritten
<1>3. CASE \E m \in Names : c = disk[m] \/ (disk[m].kind = "patch" /\ c = disk[m].to)
  <2>1. c \in C
    BY <1>1, <1>3 DEF Closed, DisksHold
  <2> QED
    BY <1>1, <2>1, DiskWritten
<1>4. ASSUME NEW a \in Names, NEW b \in Names, NEW version, NEW plain,
             c = Patch(version, disk[a], disk[b], plain)
      PROVE  \E E : Closed(E) /\ DisksHold(E)'
  <2>1. disk[a] \in C /\ disk[b] \in C
    BY <1>1 DEF DisksHold
  <2>2. Closed(C \cup {c})
    BY <1>1, <1>4, <2>1, PatchAdded
  <2>3. PICK D : D = C \cup {c}
    OBVIOUS
  <2>4. Closed(D) /\ c \in D /\ C \subseteq D
    BY <2>2, <2>3
  <2> QED
    BY <1>1, <2>4, DiskWritten
<1> QED
  BY <1>2, <1>3, <1>4

\* A run that writes such a content and makes no backup.
LEMMA WritingKeeps ==
    ASSUME CommandInv, NEW command, NEW paths, NEW exit, Ran(command, paths, exit),
           exit \in {Exit.ok, Exit.unknown, Exit.generation, Exit.application, Exit.config},
           NEW n \in Names, NEW c, disk' = [disk EXCEPT ![n] = c], UNCHANGED backups,
           \/ c \in {Cut, Stub, Mixed, Settings, Nothing}
           \/ \E m \in Names : c = disk[m] \/ (disk[m].kind = "patch" /\ c = disk[m].to)
           \/ \E a, b \in Names, version \in {1, 2}, plain \in BOOLEAN :
                 c = Patch(version, disk[a], disk[b], plain)
    PROVE  CommandInv'
<1>1. \E e \in DOMAIN Exit : lastRun'.exit = Exit[e]
  BY RanKeeps
<1>2. \E E : Closed(E) /\ DisksHold(E)'
  BY WrittenKeeps
<1>3. BackupsHold'
  BY DEF CommandInv, BackupsHold
<1> QED
  BY <1>1, <1>2, <1>3 DEF CommandInv

LEMMA DiffTypes ==
    ASSUME CommandInv, NEW old \in Names, NEW new \in Names, NEW out \in Names,
           Diff(old, new, out) \/ DirDiff(old, new, out)
    PROVE  CommandInv'
<1>1. CASE Diff(old, new, out)
  <2>1. ASSUME NEW paths, Ran("diff", paths, Exit.ok), NEW plain \in BOOLEAN,
               Writes(out, Patch(1, disk[old], disk[new], plain))
        PROVE  CommandInv'
    BY <2>1, WritingKeeps DEF Writes
  <2>2. ASSUME NEW paths, NEW exit \in {Exit.ok, Exit.generation}, Ran("diff", paths, exit),
               NEW c \in {disk[out], Cut}, WriteFails(out, c)
        PROVE  CommandInv'
    BY <2>2, WritingKeeps DEF WriteFails
  <2> QED
    BY <1>1, <2>1, <2>2, RefusedKeeps DEF Diff
<1>2. CASE DirDiff(old, new, out)
  <2>1. ASSUME NEW paths, Ran("dir-diff", paths, Exit.ok),
               Writes(out, Patch(2, disk[old], disk[new], FALSE))
        PROVE  CommandInv'
    BY <2>1, WritingKeeps DEF Writes
  <2>2. ASSUME NEW paths, NEW exit \in {Exit.ok, Exit.generation}, Ran("dir-diff", paths, exit),
               NEW c \in {disk[out], Cut}, WriteFails(out, c)
        PROVE  CommandInv'
    BY <2>2, WritingKeeps DEF WriteFails
  <2> QED
    BY <1>2, <2>1, <2>2, RefusedKeeps DEF DirDiff
<1> QED
  BY <1>1, <1>2

\* A run of ApplyTo that changes the disk as given and makes a backup of a file.
LEMMA BackingUpKeeps ==
    ASSUME CommandInv, NEW paths, NEW exit \in {Exit.ok, Exit.unknown},
           Ran("ApplyTo", paths, exit),
           NEW out \in Names, NEW b, IsFile(b) \/ b = Nothing,
           backups' = [backups EXCEPT ![out] = b],
           \/ UNCHANGED disk
           \/ \E m \in Names : /\ disk[m].kind = "patch"
                               /\ disk' = [disk EXCEPT ![out] = disk[m].to]
    PROVE  CommandInv'
<1>1. \E e \in DOMAIN Exit : lastRun'.exit = Exit[e]
  BY RanKeeps
<1>2. \E E : Closed(E) /\ DisksHold(E)'
  <2>1. CASE UNCHANGED disk
    BY <2>1 DEF CommandInv, DisksHold
  <2>2. ASSUME NEW m \in Names, disk[m].kind = "patch", disk' = [disk EXCEPT ![out] = disk[m].to]
        PROVE  \E E : Closed(E) /\ DisksHold(E)'
    BY <2>2, WrittenKeeps
  <2> QED
    BY <2>1, <2>2
<1>3. BackupsHold'
  BY DEF CommandInv, BackupsHold
<1> QED
  BY <1>1, <1>2, <1>3 DEF CommandInv

LEMMA ApplyToTypes ==
    ASSUME CommandInv, NEW patch \in Names, NEW onto \in Names, NEW out \in Names,
           ApplyTo(patch, onto, out)
    PROVE  CommandInv'
<1> DEFINE paths == <<patch, onto, out>>
           fits  == FileHeaderValid(disk[patch]) /\ disk[onto] = disk[patch].from
<1>1. IsFile(Stub) /\ (IsFile(disk[out]) \/ IsTree(disk[out]) \/ disk[out] = Nothing)
  BY DEF CommandInv, Closed, DisksHold, Kinded, IsFile, Stub
<1>2. IsFile(backups[out]) \/ backups[out] = Nothing
  BY DEF CommandInv, BackupsHold
<1>3. fits => disk[patch].kind = "patch"
  BY DEF FileHeaderValid
<1>4. CASE ~fits /\ Refused("ApplyTo", paths, Exit.unknown)
  BY <1>4, RefusedKeeps
<1>5. CASE /\ fits /\ ~IsTree(disk[out]) /\ Ran("ApplyTo", paths, Exit.ok)
           /\ disk' = [disk EXCEPT ![out] = disk[patch].to]
           /\ backups' = [backups EXCEPT ![out] = IF disk[out] = Nothing THEN backups[out]
                                                                       ELSE disk[out]]
  <2> DEFINE b == IF disk[out] = Nothing THEN backups[out] ELSE disk[out]
  <2>1. IsFile(b) \/ b = Nothing
    BY <1>1, <1>2, <1>5
  <2>2. backups' = [backups EXCEPT ![out] = b]
    BY <1>5
  <2> HIDE DEF b
  <2> QED
    BY <1>3, <1>5, <2>1, <2>2, BackingUpKeeps
<1>6. CASE /\ Ran("ApplyTo", paths, Exit.unknown) /\ UNCHANGED disk
           /\ backups' = [backups EXCEPT ![out] = Stub]
  BY <1>1, <1>6, BackingUpKeeps
<1>7. ASSUME Ran("ApplyTo", paths, Exit.unknown), UNCHANGED disk,
             NEW b \in {backups[out]} \cup (IF IsFile(disk[out]) THEN {Stub, disk[out]} ELSE {}),
             backups' = [backups EXCEPT ![out] = b]
      PROVE  CommandInv'
  <2>1. IsFile(b) \/ b = Nothing
    BY <1>1, <1>2, <1>7
  <2> QED
    BY <1>7, <2>1, BackingUpKeeps
<1> QED
  BY <1>4, <1>5, <1>6, <1>7 DEF ApplyTo

LEMMA ApplyTypes ==
    ASSUME CommandInv, NEW patch \in Names, NEW onto \in Names, Apply(patch, onto)
    PROVE  CommandInv'
<1>1. ASSUME DirHeaderValid(disk[patch]), NEW paths,
             ApplyEntries("apply", paths, disk[patch], onto)
      PROVE  CommandInv'
  <2>1. disk[patch].kind = "patch"
    BY <1>1 DEF DirHeaderValid
  <2>2. ASSUME Ran("apply", paths, Exit.ok), Writes(onto, disk[patch].to)
        PROVE  CommandInv'
    BY <2>1, <2>2, WritingKeeps DEF Writes
  <2>3. ASSUME NEW exit \in {Exit.ok, Exit.application}, Ran("apply", paths, exit),
               Writes(onto, Mixed)
        PROVE  CommandInv'
    BY <2>3, WritingKeeps DEF Writes
  <2> QED
    BY <1>1, <2>2, <2>3, RefusedKeeps DEF ApplyEntries
<1> QED
  BY <1>1, RefusedKeeps DEF Apply, RejectPatch

LEMMA OtherTypes ==
    ASSUME CommandInv,
           \/ \E a \in Names : Validate(a) \/ Info(a) \/ Sign(a)
           \/ InitConfig \/ GlobalOption \/ Shows
    PROVE  CommandInv'
<1>1. ASSUME NEW a \in Names, Validate(a) \/ Info(a) \/ Sign(a)
      PROVE  CommandInv'
  BY <1>1, RefusedKeeps DEF Validate, Info, Sign, NoFile
<1>2. CASE InitConfig
  <2>1. Home \in Names
    BY CommandAssumption
  <2>2. ASSUME Ran("config", <<Home>>, Exit.ok), Writes(Home, Settings)
        PROVE  CommandInv'
    BY <2>1, <2>2, WritingKeeps DEF Writes
  <2>3. ASSUME Ran("config", <<Home>>, Exit.config), NEW c \in {Nothing, Stub}, WriteFails(Home, c)
        PROVE  CommandInv'
    BY <2>1, <2>3, WritingKeeps DEF WriteFails
  <2> QED
    BY <1>2, <2>2, <2>3, RefusedKeeps DEF InitConfig
<1>3. CASE GlobalOption
  <2>1. Ran("option", <<>>, Exit.unknown)
    BY <1>3 DEF GlobalOption
  <2>2. ASSUME Leaves PROVE CommandInv'
    BY <2>1, <2>2, RefusedKeeps DEF Refused
  <2>3. ASSUME NEW log \in Names, NEW c \in {Stub, Mixed}, Writes(log, c)
        PROVE  CommandInv'
    BY <2>1, <2>3, WritingKeeps DEF Writes
  <2> QED
    BY <1>3, <2>2, <2>3 DEF GlobalOption
<1>4. CASE Shows
  BY <1>4, RefusedKeeps DEF Shows
<1> QED
  BY <1>1, <1>2, <1>3, <1>4

LEMMA CommandKeeps ==
    ASSUME CommandInv, [CommandNext]_commandVars
    PROVE  CommandInv'
<1>1. CASE UNCHANGED commandVars
  BY <1>1 DEF commandVars, CommandInv, DisksHold, BackupsHold
<1> QED
  BY <1>1, DiffTypes, ApplyToTypes, ApplyTypes, OtherTypes DEF CommandNext

LEMMA CommandTyped == CommandInv => CommandTypeOK
BY DEF CommandInv, CommandTypeOK, Closed, DisksHold, BackupsHold, Kinded

-----------------------------------------------------------------------------
(* All parts beside each other, as in MCLibrary.                           *)

\* A behaviour of the library is one of each of its parts.
LEMMA LibraryRunsParts ==
    LibrarySpec =>
        /\ StreamInit /\ [][StreamNext]_streamVars
        /\ PoolInit /\ [][PoolNext]_poolVars
        /\ BatchInit /\ [][BatchNext]_batchVars
        /\ VerifierInit /\ [][VerifierNext]_verifierVars
        /\ WriteInit /\ [][WriteNext]_writeVars
        /\ ReadInit /\ [][ReadNext]_readVars
        /\ PatchInit /\ [][PatchNext]_patchVars
        /\ DirFileInit /\ [][DirFileNext]_dirFileVars
        /\ MetadataInit /\ [][MetadataNext]_metadataVars
        /\ CommandInit /\ [][CommandNext]_commandVars
        /\ DisplayInit /\ [][DisplayNext]_displayVars
<1>1. LibraryInit =>
        /\ StreamInit
        /\ PoolInit
        /\ BatchInit
        /\ VerifierInit
        /\ WriteInit
        /\ ReadInit
        /\ PatchInit
        /\ DirFileInit
        /\ MetadataInit
        /\ CommandInit
        /\ DisplayInit
  BY DEF LibraryInit
<1>2. [LibraryNext]_libraryVars => [StreamNext]_streamVars
  BY Zenon DEF LibraryNext, libraryVars
<1>3. [LibraryNext]_libraryVars => [PoolNext]_poolVars
  BY Zenon DEF LibraryNext, libraryVars
<1>4. [LibraryNext]_libraryVars => [BatchNext]_batchVars
  BY Zenon DEF LibraryNext, libraryVars
<1>5. [LibraryNext]_libraryVars => [VerifierNext]_verifierVars
  BY Zenon DEF LibraryNext, libraryVars
<1>6. [LibraryNext]_libraryVars => [WriteNext]_writeVars
  BY Zenon DEF LibraryNext, libraryVars
<1>7. [LibraryNext]_libraryVars => [ReadNext]_readVars
  BY Zenon DEF LibraryNext, libraryVars
<1>8. [LibraryNext]_libraryVars => [PatchNext]_patchVars
  BY Zenon DEF LibraryNext, libraryVars
<1>9. [LibraryNext]_libraryVars => [DirFileNext]_dirFileVars
  BY Zenon DEF LibraryNext, libraryVars
<1>10. [LibraryNext]_libraryVars => [MetadataNext]_metadataVars
  BY Zenon DEF LibraryNext, libraryVars
<1>11. [LibraryNext]_libraryVars => [CommandNext]_commandVars
  BY Zenon DEF LibraryNext, libraryVars
<1>12. [LibraryNext]_libraryVars => [DisplayNext]_displayVars
  BY Zenon DEF LibraryNext, libraryVars
<1> QED
  BY <1>1, <1>2, <1>3, <1>4, <1>5, <1>6, <1>7, <1>8, <1>9, <1>10, <1>11, <1>12, PTL DEF LibrarySpec

\* The inductive invariants of the parts.
LibraryInv ==
    /\ PipelineInv /\ DisplayTypes /\ StreamInv /\ StreamLimits /\ PoolInv
    /\ BatchInv /\ BatchLimits /\ VerifierInv /\ WriteInv /\ WriteLimits /\ ReadAheadInv
    /\ GeneratorInv /\ GeneratorLimits /\ DirFileInv /\ MetadataInv /\ CommandInv

LEMMA StreamTyped == StreamInv /\ StreamLimits => StreamTypeOK
BY DEF StreamInv, StreamLimits, StreamTypes, Sending, StreamTypeOK, Distinct, ReaderSteps

LEMMA LibraryTyped == LibraryInv => LibraryTypeOK
<1> SUFFICES ASSUME LibraryInv PROVE LibraryTypeOK
  OBVIOUS
<1>1. DisplayTypeOK
  BY DEF LibraryInv, PipelineInv, DisplayTypes, DisplayTypeOK
<1>2. StreamTypeOK
  BY StreamTyped DEF LibraryInv
<1>3. PoolTypeOK
  BY DEF LibraryInv, PoolInv, PoolTypes, PoolTypeOK
<1>4. BatchTypeOK
  BY DEF LibraryInv, BatchInv, BatchTypes, BatchLimits, BatchTypeOK
<1>5. VerifierTypeOK
  BY DEF LibraryInv, VerifierInv, VerifierTypes, VerifierTypeOK
<1>6. WriteTypeOK
  BY DEF LibraryInv, WriteInv, WriteTypes, WriteLimits, WriteTypeOK
<1>7. ReadTypeOK
  BY DEF LibraryInv, ReadAheadInv, ReadTypes, ReadTypeOK
<1>8. PatchTypeOK
  BY DEF LibraryInv, GeneratorInv, GeneratorTypes, GeneratorLimits, PatchTypeOK
<1>9. DirFileTypeOK
  BY DEF LibraryInv, DirFileInv, DirFileTypeOK
<1>10. MetadataTypeOK
  BY DEF LibraryInv, MetadataInv, MetadataTypes
<1>11. CommandTypeOK
  BY CommandTyped DEF LibraryInv
<1> QED
  BY <1>1, <1>2, <1>3, <1>4, <1>5, <1>6, <1>7, <1>8, <1>9, <1>10, <1>11 DEF LibraryTypeOK

\* Every part's state keeps its types and bounds, for any values of the
\* constants: no queue, buffer or cache is ever fuller than its capacity, and no
\* field counts past its width.
THEOREM LibraryTypes == LibrarySpec => []LibraryTypeOK
<1>1. LibrarySpec => [](PipelineInv /\ DisplayTypes)
  <2>1. DisplayInit => PipelineInv /\ DisplayTypes
    BY DisplayInitTypes
  <2>2. PipelineInv /\ DisplayTypes /\ [DisplayNext]_displayVars => (PipelineInv /\ DisplayTypes)'
    BY PipelineOfDisplay, DisplayStepTypes
  <2> QED
    BY LibraryRunsParts, <2>1, <2>2, PTL
<1>2. LibrarySpec => [](StreamInv /\ StreamLimits)
  BY LibraryRunsParts, InitStream, NextStream, StreamLimitsStart, StreamLimitsKept, PTL
<1>3. LibrarySpec => []PoolInv
  BY LibraryRunsParts, InitPool, NextPool, PTL
<1>4. LibrarySpec => [](BatchInv /\ BatchLimits)
  BY LibraryRunsParts, BatchIsInductive, BatchLimitsStart, BatchLimitsKept, PTL DEF BatchSpec
<1>5. LibrarySpec => []VerifierInv
  BY LibraryRunsParts, InitVerifier, NextVerifier, PTL
<1>6. LibrarySpec => [](WriteInv /\ WriteLimits)
  BY LibraryRunsParts, WriteIsInductive, WriteLimitsStart, WriteLimitsKept, PTL DEF WriteSpec
<1>7. LibrarySpec => []ReadAheadInv
  BY LibraryRunsParts, ReadAheadIsInductive, PTL DEF ReadSpec
<1>8. LibrarySpec => [](GeneratorInv /\ GeneratorLimits)
  BY LibraryRunsParts, GeneratorIsInductive, GeneratorLimitsStart, GeneratorLimitsKept, PTL DEF PatchSpec
<1>9. LibrarySpec => []DirFileInv
  BY LibraryRunsParts, DirFileInitInv, DirFileStepInv, PTL
<1>10. LibrarySpec => []MetadataInv
  BY LibraryRunsParts, MetadataIsInductive, PTL DEF MetadataSpec
<1>11. LibrarySpec => []CommandInv
  BY LibraryRunsParts, CommandStarts, CommandKeeps, PTL
<1>12. LibrarySpec => []LibraryInv
  BY <1>1, <1>2, <1>3, <1>4, <1>5, <1>6, <1>7, <1>8, <1>9, <1>10, <1>11, PTL DEF LibraryInv
<1> QED
  BY <1>12, LibraryTyped, PTL

-----------------------------------------------------------------------------
(* Nobody waits in a circle.                                               *)

\* The guards of the pool's steps: its owner's, a worker's, a submitter's.
OwnerCanStep ==
    pool \in {"new", "cancelled"} \/ (pool = "closed" /\ PoolWaitEnds)
PoolWorkerCanStep(w) ==
    poolHolds[w] # {} \/ (WorkerFree(w) /\ (poolQueue # <<>> \/ PoolDone))
SubmitterCanStep(j) ==
    /\ poolJob[j] = "unsubmitted"
    /\ PoolDone \/ Len(poolQueue) < 2 * Cardinality(PoolWorkers)

PoolCanStep ==
    \/ OwnerCanStep
    \/ \E w \in PoolWorkers : PoolWorkerCanStep(w)
    \/ \E j \in PoolJobs : SubmitterCanStep(j)

\* Before Stop the workers are there and no function is refused.
PoolOpen == ~PoolDone => poolExited = {} /\ \A j \in PoolJobs : poolJob[j] # "dropped"

LEMMA PoolOpenKept ==
    ASSUME PoolInv, PoolOpen, [PoolNext]_poolVars
    PROVE  PoolOpen'
<1>0. PoolTypes
  BY DEF PoolInv
<1> USE DEF PoolOpen, PoolDone
<1>1. CASE PoolOwner \/ CancelPool \/ UNCHANGED poolVars
  BY <1>1 DEF PoolOwner, StartPool, ClosePool, FinishStopPool, CancelPool, poolVars
<1>2. ASSUME NEW j \in PoolJobs, SubmitToPool(j) PROVE PoolOpen'
  BY <1>0, <1>2 DEF SubmitToPool, PoolTypes
<1>3. ASSUME NEW w \in PoolWorkers, TakeFromPool(w) \/ RunInPool(w) \/ ExitPoolWorker(w)
      PROVE  PoolOpen'
  BY <1>0, <1>3 DEF TakeFromPool, RunInPool, ExitPoolWorker, PoolWorkerMayExit, PoolTypes
<1> QED
  BY <1>1, <1>2, <1>3 DEF PoolNext, PoolSubmit, PoolWork

\* Of a pool with workers somebody can always go on, the owner, a worker or a
\* submitter, until every function has run, Stop has returned or a call of
\* Submit after it has panicked: a full queue and submitters that wait at it
\* hold nobody up, and a Stop that has begun waits for nobody who waits for it.
THEOREM PoolNeverStuck ==
    ASSUME PoolWorkers # {}
    PROVE  PoolSpec =>
               [](\/ PoolCanStep \/ ~PoolAlive \/ pool = "stopped"
                  \/ pool = "running" /\ \A j \in PoolJobs : poolJob[j] = "done")
<1> DEFINE Through ==
               \/ PoolCanStep \/ ~PoolAlive \/ pool = "stopped"
               \/ pool = "running" /\ \A j \in PoolJobs : poolJob[j] = "done"
<1>0. PICK v \in PoolWorkers : TRUE
  OBVIOUS
<1>1. ASSUME PoolInv, PoolOpen, ~PoolCanStep, PoolAlive, pool # "stopped"
      PROVE  pool = "running" /\ \A j \in PoolJobs : poolJob[j] = "done"
  <2>0. PoolTypes /\ PoolPlaces /\ \A w \in PoolWorkers : poolHolds[w] = {}
    BY <1>1 DEF PoolInv, PoolCanStep, PoolWorkerCanStep
  <2>1. pool \in {"running", "closed"}
    BY <1>1, <2>0 DEF PoolTypes, PoolCanStep, OwnerCanStep
  <2>2. pool = "running"
    <3>1. ASSUME pool = "closed" PROVE FALSE
      <4>1. PICK w \in PoolWorkers : w \notin poolExited
        BY <1>1, <2>0, <3>1 DEF PoolCanStep, OwnerCanStep, PoolWaitEnds, PoolTypes
      <4> QED
        BY <1>1, <2>0, <3>1, <4>1 DEF PoolCanStep, PoolWorkerCanStep, WorkerFree, PoolDone
    <3> QED
      BY <2>1, <3>1
  <2>3. poolQueue = <<>>
    BY <1>0, <1>1, <2>0, <2>2 DEF PoolCanStep, PoolWorkerCanStep, WorkerFree, PoolOpen, PoolDone
  <2>4. Len(poolQueue) < 2 * Cardinality(PoolWorkers)
    <3>1. Cardinality(PoolWorkers) \in Nat /\ Cardinality(PoolWorkers) # 0
      BY <1>0, PoolAssumption, FS_CardinalityType, FS_EmptySet
    <3> QED
      BY <2>3, <3>1
  <2>5. ASSUME NEW j \in PoolJobs PROVE poolJob[j] = "done"
    <3>1. poolJob[j] # "unsubmitted"
      BY <1>1, <2>4 DEF PoolCanStep, SubmitterCanStep
    <3>2. poolJob[j] \notin {"queued", "running"}
      BY <2>0, <2>3 DEF PoolPlaces, PoolQueued
    <3>3. poolJob[j] \notin {"dropped", "panicked"}
      BY <1>1, <2>2 DEF PoolOpen, PoolDone, PoolAlive
    <3> QED
      BY <2>0, <3>1, <3>2, <3>3 DEF PoolTypes
  <2> QED
    BY <2>2, <2>5
<1>2. PoolInv /\ PoolOpen => Through
  BY <1>1
<1>3. PoolInit => PoolOpen
  BY DEF PoolInit, PoolOpen
<1>4. PoolSpec => []Through
  BY <1>2, <1>3, InitPool, NextPool, PoolOpenKept, PTL DEF PoolSpec
<1> QED
  BY <1>4

\* The guards of the client's steps with the verifier, of GetResults and of a worker.
ClientCanStep ==
    \/ verifyClient = "new"
    \/ /\ verifyClient = "submitting"
       /\ submitted = blockCount \/ (submitted < blockCount /\ submitted - begun < VerifySlots)
    \/ verifyClient = "stopping" /\ VerifierWaitEnds
GetterCanStep == Reading /\ (verdicts # <<>> \/ verifyClient = "stopped")
VerifierCanStep(w) ==
    \/ /\ w \notin verifyExited /\ verifying[w] = 0
       /\ \/ verifyClient # "new" /\ begun < submitted
          \/ verifyClient = "stopping" /\ begun = submitted
    \/ verifying[w] # 0 /\ ~verified[w]
    \/ verified[w] /\ Len(verdicts) < VerifySlots

\* There are more blocks than the results have room for, and nobody takes any
\* before Stop returns.
NobodyReads ==
    /\ getter = "after" /\ verifyClient # "stopped"
    /\ Len(verdicts) = VerifySlots /\ blockCount > VerifySlots

GetterKnown == getter = "unset" => verifyClient = "new"

LEMMA GetterKnownKept ==
    ASSUME GetterKnown, [VerifierNext]_verifierVars
    PROVE  GetterKnown'
<1> USE DEF GetterKnown
<1>1. CASE VerifyClient
  BY <1>1 DEF VerifyClient, StartVerifier, SubmitBlock, CloseVerifier, FinishStopVerifier
<1>2. CASE GetResults \/ UNCHANGED verifierVars
  BY <1>2 DEF GetResults, ReadVerdict, ReturnResults, verifierVars
<1>3. ASSUME NEW w \in VerifyWorkers, VerifyWork(w) PROVE GetterKnown'
  BY <1>3 DEF VerifyWork, TakeBlock, VerifyBlock, SendVerdict, ExitVerifyWorker
<1> QED
  BY <1>1, <1>2, <1>3 DEF VerifierNext

\* Of a verifier with workers, its client and GetResults somebody can always go
\* on until GetResults has returned, except when GetResults is called after
\* Stop, the blocks outnumber the places for results and these are full.
THEOREM OnlyUnreadResultsBlock ==
    ASSUME VerifyWorkers # {}
    PROVE  VerifierSpec =>
               [](\/ ClientCanStep \/ GetterCanStep
                  \/ \E w \in VerifyWorkers : VerifierCanStep(w)
                  \/ getter = "returned" \/ NobodyReads)
<1> DEFINE Through ==
               \/ ClientCanStep \/ GetterCanStep
               \/ \E w \in VerifyWorkers : VerifierCanStep(w)
               \/ getter = "returned" \/ NobodyReads
<1>0. PICK v \in VerifyWorkers : TRUE
  OBVIOUS
<1>a. VerifySlots \in Nat /\ VerifySlots > 0
  <2>1. Cardinality(VerifyWorkers) \in Nat /\ Cardinality(VerifyWorkers) # 0
    BY <1>0, VerifierAssumption, FS_CardinalityType, FS_EmptySet
  <2> QED
    BY <2>1 DEF VerifySlots
<1>1. ASSUME VerifierInv, GetterKnown, ~ClientCanStep, ~GetterCanStep,
             \A w \in VerifyWorkers : ~VerifierCanStep(w), getter # "returned"
      PROVE  NobodyReads
  <2>0. VerifierTypes /\ VerifierOrder /\ BlocksAccounted
    BY <1>1 DEF VerifierInv
  <2>1. verifyClient \in {"submitting", "stopping", "stopped"} /\ getter \in {"after", "beside"}
    BY <1>1, <2>0 DEF VerifierTypes, ClientCanStep, GetterKnown
  <2>2. verifyClient # "stopped"
    BY <1>1, <2>1 DEF GetterCanStep, Reading
  <2>3. CASE \E w \in VerifyWorkers : verifying[w] # 0
    <3>1. PICK w \in VerifyWorkers : verifying[w] # 0
      BY <2>3
    <3>2. Len(verdicts) \in Nat /\ Len(verdicts) <= VerifySlots
      BY <2>0 DEF VerifierTypes
    <3>3. Len(verdicts) = VerifySlots
      BY <1>1, <1>a, <3>1, <3>2 DEF VerifierCanStep
    <3>4. getter = "after"
      BY <1>1, <1>a, <2>0, <2>1, <3>3 DEF GetterCanStep, Reading, VerifierTypes
    <3>5. Cardinality(WithWorkers) \in Nat /\ Cardinality(WithWorkers) # 0
      BY <3>1, ActiveFinite, FS_EmptySet DEF WithWorkers
    <3>6. begun > VerifySlots /\ begun <= blockCount
      BY <1>a, <2>0, <3>3, <3>5 DEF BlocksAccounted, VerifierTypes
    <3> QED
      BY <1>a, <2>0, <2>2, <3>3, <3>4, <3>6 DEF NobodyReads, VerifierTypes
  <2>4. CASE \A w \in VerifyWorkers : verifying[w] = 0
    <3>1. CASE verifyClient = "submitting"
      <4>1. v \notin verifyExited
        BY <2>0, <3>1 DEF VerifierOrder
      <4>2. begun >= submitted
        <5>1. ~VerifierCanStep(v) /\ verifying[v] = 0 /\ begun \in Nat /\ submitted \in Nat
          BY <1>1, <2>0, <2>4 DEF VerifierTypes
        <5> QED
          BY <3>1, <4>1, <5>1 DEF VerifierCanStep
      <4> QED
        BY <1>1, <1>a, <2>0, <3>1, <4>2 DEF ClientCanStep, VerifierTypes
    <3>2. CASE verifyClient = "stopping"
      <4>1. PICK w \in VerifyWorkers : w \notin verifyExited
        BY <1>1, <2>0, <3>2 DEF ClientCanStep, VerifierWaitEnds, VerifierTypes
      <4> QED
        BY <1>1, <2>0, <2>4, <3>2, <4>1 DEF VerifierCanStep, VerifierTypes
    <3> QED
      BY <2>1, <2>2, <3>1, <3>2
  <2> QED
    BY <2>3, <2>4
<1>2. VerifierInv /\ GetterKnown => Through
  BY <1>1
<1>3. VerifierInit => GetterKnown
  BY DEF VerifierInit, GetterKnown
<1>4. VerifierSpec => []Through
  BY <1>2, <1>3, InitVerifier, NextVerifier, GetterKnownKept, PTL DEF VerifierSpec
<1> QED
  BY <1>4

\* The guards of the steps of a call's reader, workers and collector.
ReaderCanStep(f) ==
    \/ /\ enableCache # "unset" /\ reader[f] = "queued"
       /\ Cardinality({g \in Inputs : Active(g)}) < MaxConcurrency
    \/ reader[f] = "checking"
    \/ reader[f] = "sending" /\ (cancelled \/ streamSent[f] - streamTaken[f] < Slots)
    \/ reader[f] \in {"draining", "aborting"} /\ WorkersDone(f)
StreamWorkerCanStep(f, w) ==
    \/ /\ stage[f][w] = "idle"
       /\ streamTaken[f] < streamSent[f] \/ (JobsClosed(f) /\ streamTaken[f] = streamSent[f])
    \/ stage[f][w] \in {"looking", "processing"}
    \/ stage[f][w] = "sending" /\ (cancelled \/ results[f] < Slots)
CollectorGoesOn(f) ==
    streamCollector[f] = "running" /\ (results[f] > 0 \/ ResultsClosed(f))

StreamCanStep ==
    \E f \in Inputs :
        \/ ReaderCanStep(f) \/ CollectorGoesOn(f)
        \/ \E w \in StreamWorkers : StreamWorkerCanStep(f, w)

\* The call has returned, and without an error only when its collector has too.
CallEnded(f) ==
    \/ reader[f] = "failed"
    \/ reader[f] = "returned" /\ streamCollector[f] = "exited"

\* While a call runs its goroutines are there, and the collector stays until
\* the results are closed.
CallsStaffed ==
    /\ streamCollector \in [Inputs -> {"off", "running", "exited"}]
    /\ \A f \in Inputs :
          /\ Active(f) => /\ streamCollector[f] = "running"
                          /\ \A w \in StreamWorkers : stage[f][w] # "off"
          /\ reader[f] = "returned" => streamCollector[f] # "off"

LEMMA CallsStaffedKept ==
    ASSUME StreamInv, CallsStaffed, [StreamNext]_streamVars
    PROVE  CallsStaffed'
<1>0. StreamTypes
  BY DEF StreamInv
<1> USE DEF CallsStaffed, Active
<1>1. CASE NewStreamProcessor \/ StopStream \/ UNCHANGED streamVars
  BY <1>1 DEF NewStreamProcessor, StopStream, streamVars
<1>2. ASSUME NEW f \in Inputs, Call(f) PROVE CallsStaffed'
  <2>1. CASE OpenInput(f)
    BY <1>0, <2>1 DEF OpenInput, StreamTypes
  <2>2. CASE ReturnFrom(f)
    BY <1>0, <2>2 DEF ReturnFrom, StreamTypes
  <2>3. CASE OpenFails(f) \/ ReadChunk(f) \/ ReadFails(f) \/ SendChunk(f) \/ GiveUp(f)
    <3>1. UNCHANGED <<streamCollector, stage>>
      BY <2>3 DEF OpenFails, ReadChunk, ReadFails, SendChunk, GiveUp
    <3>2. /\ \A g \in Inputs : g # f => reader'[g] = reader[g]
          /\ reader'[f] # "returned" /\ (reader'[f] = "failed" \/ Active(f))
      BY <1>0, <2>3 DEF OpenFails, ReadChunk, ReadFails, SendChunk, GiveUp, StreamTypes
    <3> QED
      BY <3>1, <3>2
  <2> QED
    BY <1>2, <2>1, <2>2, <2>3 DEF Call
<1>3. ASSUME NEW f \in Inputs, Collecting(f) PROVE CallsStaffed'
  BY <1>0, <1>3, SMTT(20) DEF Collecting, Collect, EndCollector, ResultsClosed, StreamTypes
<1>4. ASSUME NEW f \in Inputs, NEW w \in StreamWorkers, StreamWorker(f, w) PROVE CallsStaffed'
  <2>1. /\ UNCHANGED <<reader, streamCollector>>
        /\ \E s \in Stages \ {"off"} : stage' = [stage EXCEPT ![f][w] = s]
    BY <1>4 DEF StreamWorker, TakeChunk, LookUp, ProcessChunk, SendStreamResult,
                ExitStreamWorker, Stages
  <2>2. \A g \in Inputs, v \in StreamWorkers : stage[g][v] # "off" => stage'[g][v] # "off"
    BY <1>0, <2>1 DEF StreamTypes
  <2> QED
    BY <2>1, <2>2
<1> QED
  BY <1>1, <1>2, <1>3, <1>4 DEF StreamNext

\* Before Stop as after it, and whatever failed: until every call of ProcessFile
\* has returned and the collectors of those without an error are gone, the
\* reader, a worker or the collector of some call can go on.  No call waits for
\* the cache or for another call but one that can go on itself.
THEOREM StreamNeverStuck ==
    ASSUME StreamWorkers # {}, MaxConcurrency > 0
    PROVE  StreamSpec =>
               [](enableCache # "unset" =>
                     StreamCanStep \/ \A f \in Inputs : CallEnded(f))
<1> DEFINE Through == enableCache # "unset" => StreamCanStep \/ \A f \in Inputs : CallEnded(f)
<1>0. PICK v \in StreamWorkers : TRUE
  OBVIOUS
<1>a. Slots \in Nat /\ Slots > 0
  <2>1. Cardinality(StreamWorkers) \in Nat /\ Cardinality(StreamWorkers) # 0
    BY <1>0, StreamAssumption, FS_CardinalityType, FS_EmptySet
  <2> QED
    BY <2>1 DEF Slots
<1>1. ASSUME StreamInv, StreamLimits, CallsStaffed, enableCache # "unset", ~StreamCanStep,
             NEW f \in Inputs
      PROVE  CallEnded(f)
  <2>0. StreamTypes /\ Sending /\ Leaving
    BY <1>1 DEF StreamInv
  <2>1. ASSUME NEW g \in Inputs, Active(g) PROVE FALSE
    <3>0. /\ reader[g] \in {"checking", "sending", "draining", "aborting"}
          /\ streamSent[g] \in Nat /\ streamTaken[g] \in Nat /\ results[g] \in 0..Slots
          /\ streamTaken[g] <= streamSent[g]
          /\ streamCollector[g] = "running" /\ \A w \in StreamWorkers : stage[g][w] # "off"
      BY <1>1, <2>0, <2>1 DEF StreamTypes, StreamLimits, Sending, Active, ReaderSteps, CallsStaffed
    <3>1. ~ReaderCanStep(g) /\ ~CollectorGoesOn(g)
          /\ \A w \in StreamWorkers : ~StreamWorkerCanStep(g, w)
      BY <1>1 DEF StreamCanStep
    <3>2. results[g] = 0
      BY <3>0, <3>1 DEF CollectorGoesOn
    <3>3. \A w \in StreamWorkers : stage[g][w] \in {"idle", "exited"}
      BY <1>a, <2>0, <3>0, <3>1, <3>2 DEF StreamWorkerCanStep, StreamTypes, Stages
    <3>4. CASE reader[g] = "sending"
      <4>1. ~cancelled /\ streamTaken[g] < streamSent[g]
        BY <1>a, <3>0, <3>1, <3>4 DEF ReaderCanStep
      <4>2. stage[g][v] = "exited"
        BY <3>1, <3>3, <4>1 DEF StreamWorkerCanStep
      <4> QED
        BY <2>0, <3>0, <4>1, <4>2 DEF Leaving
    <3>5. CASE reader[g] \in {"draining", "aborting"}
      <4>1. PICK w \in StreamWorkers : stage[g][w] = "idle"
        BY <3>1, <3>3, <3>5 DEF ReaderCanStep, WorkersDone
      <4>2. ~StreamWorkerCanStep(g, w)
        BY <3>1
      <4> QED
        BY <3>0, <3>5, <4>1, <4>2 DEF StreamWorkerCanStep, JobsClosed
    <3>6. reader[g] # "checking"
      BY <3>1 DEF ReaderCanStep
    <3> QED
      BY <3>0, <3>4, <3>5, <3>6
  <2>2. reader[f] # "queued"
    <3>1. {g \in Inputs : Active(g)} = {}
      BY <2>1
    <3>2. Cardinality({g \in Inputs : Active(g)}) = 0
      BY <3>1, FS_EmptySet
    <3> QED
      BY <1>1, <3>2 DEF StreamCanStep, ReaderCanStep
  <2>3. reader[f] \in {"returned", "failed"}
    BY <2>0, <2>1, <2>2 DEF StreamTypes, ReaderSteps, Active
  <2>4. CASE reader[f] = "returned"
    <3>1. streamCollector[f] \in {"running", "exited"}
      BY <1>1, <2>4 DEF CallsStaffed
    <3>2. ~CollectorGoesOn(f)
      BY <1>1 DEF StreamCanStep
    <3> QED
      BY <2>4, <3>1, <3>2 DEF CollectorGoesOn, ResultsClosed, CallEnded
  <2> QED
    BY <2>3, <2>4 DEF CallEnded
<1>2. StreamInv /\ StreamLimits /\ CallsStaffed => Through
  BY <1>1
<1>3. StreamInit => CallsStaffed
  BY DEF StreamInit, CallsStaffed, Active
<1>4. StreamSpec => []Through
  BY <1>2, <1>3, InitStream, NextStream, StreamLimitsStart, StreamLimitsKept,
     CallsStaffedKept, PTL DEF StreamSpec
<1> QED
  BY <1>4

-----------------------------------------------------------------------------
(* The statistics of the stream.                                         *)

\* Workers that have a chunk.
InHands(f) == {w \in StreamWorkers : stage[f][w] \in {"looking", "processing", "sending"}}

\* Before Stop each chunk that was taken is with a worker, among the results or
\* counted, once; when a call has returned all its chunks were sent and its
\* workers are gone, and the collector leaves nothing behind.
ChunksCounted ==
    /\ counted \in [Inputs -> Nat]
    /\ \A f \in Inputs :
          /\ ~cancelled => streamTaken[f] = counted[f] + results[f] + Cardinality(InHands(f))
          /\ reader[f] = "returned" => streamSent[f] = Len(Chunks[f]) /\ WorkersDone(f)
          /\ streamCollector[f] = "exited" => reader[f] = "returned" /\ results[f] = 0

LEMMA HandsFinite == ASSUME NEW f \in Inputs PROVE IsFiniteSet(InHands(f)) /\ Cardinality(InHands(f)) \in Nat
<1>1. InHands(f) \in SUBSET StreamWorkers
  BY DEF InHands
<1> QED
  BY <1>1, StreamAssumption, FS_Subset, FS_CardinalityType

\* A worker takes a chunk into its hands, or out of them.
LEMMA HandsMove ==
    ASSUME StreamTypes, NEW f \in Inputs, NEW w \in StreamWorkers, NEW s \in Stages,
           stage' = [stage EXCEPT ![f][w] = s]
    PROVE  /\ \A g \in Inputs \ {f} : InHands(g)' = InHands(g)
           /\ w \notin InHands(f) /\ s \in {"looking", "processing", "sending"} =>
                 Cardinality(InHands(f)') = Cardinality(InHands(f)) + 1
           /\ w \in InHands(f) /\ s \notin {"looking", "processing", "sending"} =>
                 Cardinality(InHands(f)') = Cardinality(InHands(f)) - 1
           /\ w \in InHands(f) /\ s \in {"looking", "processing", "sending"} =>
                 Cardinality(InHands(f)') = Cardinality(InHands(f))
           /\ w \notin InHands(f) /\ s \notin {"looking", "processing", "sending"} =>
                 Cardinality(InHands(f)') = Cardinality(InHands(f))
<1>1. \A g \in Inputs, v \in StreamWorkers :
          stage'[g][v] = IF g = f /\ v = w THEN s ELSE stage[g][v]
  BY DEF StreamTypes
<1>2. InHands(f)' = IF s \in {"looking", "processing", "sending"}
                    THEN InHands(f) \cup {w} ELSE InHands(f) \ {w}
  BY <1>1 DEF InHands
<1>3. \A g \in Inputs \ {f} : InHands(g)' = InHands(g)
  BY <1>1 DEF InHands
<1>4. IsFiniteSet(InHands(f)) /\ Cardinality(InHands(f)) \in Nat
  BY HandsFinite
<1>5. /\ w \notin InHands(f) => Cardinality(InHands(f) \cup {w}) = Cardinality(InHands(f)) + 1
      /\ w \in InHands(f) => Cardinality(InHands(f) \ {w}) = Cardinality(InHands(f)) - 1
  BY <1>4, FS_AddElement, FS_RemoveElement
<1>6. w \in InHands(f) => InHands(f) \cup {w} = InHands(f)
  OBVIOUS
<1>7. w \notin InHands(f) => InHands(f) \ {w} = InHands(f)
  OBVIOUS
<1> QED
  BY <1>2, <1>3, <1>5, <1>6, <1>7

LEMMA ChunksCountedKept ==
    ASSUME StreamInv, StreamLimits, CallsStaffed, ChunksCounted, [StreamNext]_streamVars
    PROVE  ChunksCounted'
<1>0. /\ StreamTypes /\ Sending /\ streamCollector \in [Inputs -> {"off", "running", "exited"}]
      /\ Slots \in Nat /\ results \in [Inputs -> 0..Slots] /\ counted \in [Inputs -> Nat]
      /\ \A f \in Inputs : Cardinality(InHands(f)) \in Nat
  BY SlotsTyped, HandsFinite DEF StreamInv, StreamLimits, CallsStaffed, ChunksCounted
<1>1. CASE NewStreamProcessor \/ StopStream \/ UNCHANGED streamVars
  <2>1. /\ UNCHANGED <<reader, streamSent, streamTaken, stage, results, streamCollector, counted>>
        /\ cancelled => cancelled'
    BY <1>1 DEF NewStreamProcessor, StopStream, streamVars
  <2>2. \A f \in Inputs : InHands(f)' = InHands(f) /\ (WorkersDone(f) => WorkersDone(f)')
    BY <2>1 DEF InHands, WorkersDone
  <2> QED
    BY <2>1, <2>2 DEF ChunksCounted, StreamTypes
<1>2. ASSUME NEW f \in Inputs, Call(f) PROVE ChunksCounted'
  <2>1. CASE OpenInput(f)
    <3>1. /\ UNCHANGED <<cancelled, streamSent, streamTaken, results, counted>>
          /\ reader[f] = "queued" /\ reader'[f] = "checking" /\ streamCollector'[f] = "running"
          /\ \A g \in Inputs \ {f} : reader'[g] = reader[g] /\ stage'[g] = stage[g]
                                     /\ streamCollector'[g] = streamCollector[g]
          /\ \A w \in StreamWorkers : stage'[f][w] = "idle"
      BY <1>0, <2>1 DEF OpenInput, StreamTypes
    <3>2. \A g \in Inputs \ {f} : InHands(g)' = InHands(g) /\ (WorkersDone(g) => WorkersDone(g)')
      BY <3>1 DEF InHands, WorkersDone
    <3>3. InHands(f)' = {}
      BY <3>1 DEF InHands
    <3>4. streamTaken[f] = 0 /\ Cardinality(InHands(f)') = 0
      BY <1>0, <3>1, <3>3, FS_EmptySet DEF Sending, StreamTypes
    <3>5. ~cancelled => counted[f] + results[f] = 0
      BY <1>0, <3>4 DEF ChunksCounted
    <3>6. /\ ~cancelled' => streamTaken'[f] = counted'[f] + results'[f] + Cardinality(InHands(f)')
          /\ reader'[f] # "returned" /\ streamCollector'[f] # "exited"
      <4>1. counted[f] \in Nat /\ results[f] \in Nat
        BY <1>0
      <4> QED
        BY <3>1, <3>4, <3>5, <4>1
    <3>7. \A g \in Inputs \ {f} :
              /\ ~cancelled' => streamTaken'[g] = counted'[g] + results'[g] + Cardinality(InHands(g)')
              /\ reader'[g] = "returned" => streamSent'[g] = Len(Chunks[g]) /\ WorkersDone(g)'
              /\ streamCollector'[g] = "exited" => reader'[g] = "returned" /\ results'[g] = 0
      BY <3>1, <3>2 DEF ChunksCounted
    <3> QED
      BY <1>0, <3>1, <3>6, <3>7 DEF ChunksCounted
  <2>2. CASE ~OpenInput(f)
    <3>1. UNCHANGED <<cancelled, streamTaken, stage, results, streamCollector, counted>>
      BY <1>2, <2>2 DEF Call, OpenFails, ReadChunk, ReadFails, SendChunk, GiveUp, ReturnFrom
    <3>2. \A g \in Inputs : InHands(g)' = InHands(g) /\ (WorkersDone(g) => WorkersDone(g)')
      BY <3>1 DEF InHands, WorkersDone
    <3>3. \A g \in Inputs \ {f} : reader'[g] = reader[g] /\ streamSent'[g] = streamSent[g]
      BY <1>0, <1>2, <2>2 DEF Call, OpenFails, ReadChunk, ReadFails, SendChunk, GiveUp,
                              ReturnFrom, StreamTypes
    <3>4. reader[f] # "returned"
      BY <1>2 DEF Call, OpenInput, OpenFails, ReadChunk, ReadFails, SendChunk, GiveUp, ReturnFrom
    <3>5. reader'[f] = "returned" => streamSent'[f] = Len(Chunks[f]) /\ WorkersDone(f)
      BY <1>0, <1>2, <2>2 DEF Call, OpenFails, ReadChunk, ReadFails, SendChunk, GiveUp,
                              ReturnFrom, StreamTypes, Sending
    <3> QED
      BY <1>0, <3>1, <3>2, <3>3, <3>4, <3>5 DEF ChunksCounted
  <2> QED
    BY <2>1, <2>2
<1>3. ASSUME NEW f \in Inputs, Collecting(f) PROVE ChunksCounted'
  <2>1. UNCHANGED <<cancelled, reader, streamSent, streamTaken, stage>>
    BY <1>3 DEF Collecting, Collect, EndCollector
  <2>2. \A g \in Inputs : InHands(g)' = InHands(g) /\ (WorkersDone(g) => WorkersDone(g)')
    BY <2>1 DEF InHands, WorkersDone
  <2>3. /\ \A g \in Inputs \ {f} : /\ streamCollector'[g] = streamCollector[g]
                                   /\ results'[g] = results[g] /\ counted'[g] = counted[g]
        /\ counted' \in [Inputs -> Nat] /\ counted'[f] + results'[f] = counted[f] + results[f]
        /\ streamCollector[f] = "running"
        /\ streamCollector'[f] = "exited" => reader[f] = "returned" /\ results'[f] = 0
    BY <1>0, <1>3 DEF Collecting, Collect, EndCollector, ResultsClosed
  <2>4. \A g \in Inputs : results'[g] \in Nat
    BY <1>0, <1>3 DEF Collecting, Collect, EndCollector
  <2> QED
    BY <1>0, <2>1, <2>2, <2>3, <2>4 DEF ChunksCounted
<1>4. ASSUME NEW f \in Inputs, NEW w \in StreamWorkers, StreamWorker(f, w) PROVE ChunksCounted'
  <2>1. PICK s \in Stages : stage' = [stage EXCEPT ![f][w] = s]
    BY <1>4 DEF StreamWorker, TakeChunk, LookUp, ProcessChunk, SendStreamResult,
                ExitStreamWorker, Stages
  <2>2. /\ UNCHANGED <<cancelled, reader, streamSent, streamCollector, counted>>
        /\ stage[f][w] # "exited"
        /\ \A g \in Inputs \ {f} : streamTaken'[g] = streamTaken[g] /\ results'[g] = results[g]
    BY <1>0, <1>4 DEF StreamWorker, TakeChunk, LookUp, ProcessChunk, SendStreamResult,
                      ExitStreamWorker, StreamTypes
  <2>3. reader[f] # "returned" /\ streamCollector[f] # "exited"
    BY <2>2 DEF ChunksCounted, WorkersDone
  <2>4. \A g \in Inputs \ {f} : InHands(g)' = InHands(g) /\ (WorkersDone(g) => WorkersDone(g)')
    <3>1. \A g \in Inputs \ {f}, v \in StreamWorkers : stage'[g][v] = stage[g][v]
      BY <1>0, <2>1 DEF StreamTypes
    <3> QED
      BY <3>1 DEF InHands, WorkersDone
  <2>5. ~cancelled => streamTaken'[f] = counted[f] + results'[f] + Cardinality(InHands(f)')
    <3>a. /\ streamTaken[f] \in Nat /\ results[f] \in Nat /\ counted[f] \in Nat
          /\ Cardinality(InHands(f)) \in Nat
      BY <1>0 DEF StreamTypes
    <3>b. stage'[f][w] = s
      BY <1>0, <2>1 DEF StreamTypes
    <3>c. w \in InHands(f) <=> stage[f][w] \in {"looking", "processing", "sending"}
      BY DEF InHands
    <3>d. ~cancelled => streamTaken[f] = counted[f] + results[f] + Cardinality(InHands(f))
      BY DEF ChunksCounted
    <3>0. /\ stage'[f][w] = s /\ streamTaken[f] \in Nat /\ results[f] \in Nat /\ counted[f] \in Nat
          /\ Cardinality(InHands(f)) \in Nat
          /\ w \in InHands(f) <=> stage[f][w] \in {"looking", "processing", "sending"}
          /\ ~cancelled => streamTaken[f] = counted[f] + results[f] + Cardinality(InHands(f))
      BY <3>a, <3>b, <3>c, <3>d
    <3>1. CASE TakeChunk(f, w)
      <4>1. /\ stage[f][w] = "idle" /\ s \in {"looking", "processing"}
            /\ streamTaken'[f] = streamTaken[f] + 1 /\ results'[f] = results[f]
        BY <1>0, <3>0, <3>1 DEF TakeChunk, StreamTypes
      <4>2. Cardinality(InHands(f)') = Cardinality(InHands(f)) + 1
        BY <1>0, <2>1, <3>0, <4>1, HandsMove
      <4> QED
        BY <3>0, <4>1, <4>2
    <3>2. CASE LookUp(f, w) \/ ProcessChunk(f, w)
      <4>1. /\ w \in InHands(f) /\ s \in {"looking", "processing", "sending"}
            /\ streamTaken'[f] = streamTaken[f] /\ results'[f] = results[f]
        BY <1>0, <3>0, <3>2 DEF LookUp, ProcessChunk, StreamTypes
      <4>2. Cardinality(InHands(f)') = Cardinality(InHands(f))
        BY <1>0, <2>1, <4>1, HandsMove
      <4> QED
        BY <3>0, <4>1, <4>2
    <3>3. CASE SendStreamResult(f, w)
      <4>1. /\ w \in InHands(f) /\ s = "idle"
            /\ streamTaken'[f] = streamTaken[f] /\ results'[f] = results[f] + 1
        BY <1>0, <3>0, <3>3 DEF SendStreamResult, StreamTypes
      <4>2. Cardinality(InHands(f)') = Cardinality(InHands(f)) - 1
        BY <1>0, <2>1, <4>1, HandsMove
      <4> QED
        BY <3>0, <4>1, <4>2
    <3>4. ASSUME ExitStreamWorker(f, w), ~cancelled
          PROVE  streamTaken'[f] = counted[f] + results'[f] + Cardinality(InHands(f)')
      <4>1. /\ stage[f][w] = "idle" /\ s = "exited" /\ w \notin InHands(f)
            /\ streamTaken'[f] = streamTaken[f] /\ results'[f] = results[f]
        BY <1>0, <3>0, <3>4 DEF ExitStreamWorker, StreamTypes
      <4>2. Cardinality(InHands(f)') = Cardinality(InHands(f))
        BY <1>0, <2>1, <4>1, HandsMove
      <4> QED
        BY <3>0, <3>4, <4>1, <4>2
    <3> QED
      BY <1>4, <3>1, <3>2, <3>3, <3>4 DEF StreamWorker
  <2> QED
    BY <1>0, <2>2, <2>3, <2>4, <2>5 DEF ChunksCounted
<1> QED
  BY <1>1, <1>2, <1>3, <1>4 DEF StreamNext

\* The statistics: when a call has returned without an error and its collector
\* is gone, every chunk of its file was counted, and once, unless Stop came.
THEOREM EveryChunkIsCounted ==
    StreamSpec =>
        [](\A f \in Inputs :
              reader[f] = "returned" /\ streamCollector[f] = "exited" /\ ~cancelled =>
                  counted[f] = Len(Chunks[f]))
<1> DEFINE Counted ==
               \A f \in Inputs :
                   reader[f] = "returned" /\ streamCollector[f] = "exited" /\ ~cancelled =>
                       counted[f] = Len(Chunks[f])
<1>1. ASSUME StreamInv, ChunksCounted, NEW f \in Inputs, reader[f] = "returned",
             streamCollector[f] = "exited", ~cancelled
      PROVE  counted[f] = Len(Chunks[f])
  <2>0. /\ StreamTypes /\ Sending /\ Leaving /\ WorkersDone(f) /\ counted[f] \in Nat
        /\ streamSent[f] = Len(Chunks[f]) /\ results[f] = 0
    BY <1>1 DEF StreamInv, ChunksCounted
  <2>1. InHands(f) = {} /\ Cardinality(InHands(f)) = 0
    <3>1. InHands(f) = {}
      BY <2>0 DEF WorkersDone, InHands
    <3> QED
      BY <3>1, FS_EmptySet
  <2>2. streamTaken[f] = counted[f]
    <3>1. streamTaken[f] = counted[f] + results[f] + Cardinality(InHands(f))
      BY <1>1 DEF ChunksCounted
    <3> QED
      BY <2>0, <2>1, <3>1
  <2>3. streamTaken[f] = streamSent[f]
    <3>1. CASE StreamWorkers = {}
      BY <2>0, <3>1 DEF Sending, StreamTypes
    <3>2. CASE StreamWorkers # {}
      BY <1>1, <2>0, <3>2 DEF Leaving, WorkersDone
    <3> QED
      BY <3>1, <3>2
  <2> QED
    BY <2>0, <2>2, <2>3
<1>2. StreamInv /\ ChunksCounted => Counted
  BY <1>1
<1>3. ASSUME StreamInit PROVE ChunksCounted
  <2>1. \A f \in Inputs : InHands(f) = {}
    BY <1>3 DEF StreamInit, InHands
  <2>2. \A f \in Inputs : Cardinality(InHands(f)) = 0
    BY <2>1, FS_EmptySet
  <2> QED
    BY <1>3, <2>2 DEF StreamInit, ChunksCounted
<1>4. StreamInit => CallsStaffed
  BY DEF StreamInit, CallsStaffed, Active
<1>5. StreamSpec => []Counted
  BY <1>2, <1>3, <1>4, InitStream, NextStream, StreamLimitsStart, StreamLimitsKept,
     CallsStaffedKept, ChunksCountedKept, PTL DEF StreamSpec
<1> QED
  BY <1>5

-----------------------------------------------------------------------------
(* How many steps are left.                                                *)

\* The sum of a function to 0..3.
Ranks(S, f) ==
    Cardinality({x \in S : f[x] >= 1}) + Cardinality({x \in S : f[x] >= 2})
      + Cardinality({x \in S : f[x] >= 3})

LEMMA RankFalls ==
    ASSUME NEW S, IsFiniteSet(S), NEW f \in [S -> 0..3], NEW g \in [S -> 0..3],
           NEW j \in S, \A x \in S \ {j} : g[x] = f[x]
    PROVE  /\ Ranks(S, f) \in Nat /\ Ranks(S, g) \in Nat
           /\ g[j] < f[j] => Ranks(S, g) < Ranks(S, f)
<1> DEFINE A(n) == {x \in S : f[x] >= n}
           B(n) == {x \in S : g[x] >= n}
<1>1. ASSUME NEW n \in 1..3
      PROVE  /\ IsFiniteSet(A(n)) /\ Cardinality(A(n)) \in Nat /\ Cardinality(B(n)) \in Nat
             /\ g[j] >= n => f[j] >= n \/ f[j] < g[j]
             /\ g[j] <= f[j] => Cardinality(B(n)) <= Cardinality(A(n))
             /\ g[j] < n /\ n <= f[j] => Cardinality(B(n)) = Cardinality(A(n)) - 1
  <2>1. A(n) \in SUBSET S /\ B(n) \in SUBSET S
    OBVIOUS
  <2>2. IsFiniteSet(A(n)) /\ IsFiniteSet(B(n))
    BY <2>1, FS_Subset
  <2>3. Cardinality(A(n)) \in Nat /\ Cardinality(B(n)) \in Nat
    BY <2>2, FS_CardinalityType
  <2>4. f[j] \in 0..3 /\ g[j] \in 0..3
    OBVIOUS
  <2>5. g[j] <= f[j] => B(n) \subseteq A(n)
    BY <2>4
  <2>6. g[j] <= f[j] => Cardinality(B(n)) <= Cardinality(A(n))
    BY <2>2, <2>5, FS_Subset
  <2>7. g[j] < n /\ n <= f[j] => B(n) = A(n) \ {j} /\ j \in A(n)
    BY <2>4
  <2>8. g[j] < n /\ n <= f[j] => Cardinality(B(n)) = Cardinality(A(n)) - 1
    BY <2>2, <2>7, FS_RemoveElement
  <2> QED
    BY <2>2, <2>3, <2>4, <2>6, <2>8
<1>2. /\ Ranks(S, f) = Cardinality(A(1)) + Cardinality(A(2)) + Cardinality(A(3))
      /\ Ranks(S, g) = Cardinality(B(1)) + Cardinality(B(2)) + Cardinality(B(3))
  BY DEF Ranks
<1>3. f[j] \in 0..3 /\ g[j] \in 0..3
  OBVIOUS
<1> HIDE DEF A, B
<1>4. PICK a \in Nat, b \in Nat, c \in Nat :
          a = Cardinality(A(1)) /\ b = Cardinality(A(2)) /\ c = Cardinality(A(3))
  BY <1>1
<1>5. PICK k \in Nat, l \in Nat, m \in Nat :
          k = Cardinality(B(1)) /\ l = Cardinality(B(2)) /\ m = Cardinality(B(3))
  BY <1>1
<1>6. Ranks(S, f) \in Nat /\ Ranks(S, g) \in Nat
  BY <1>2, <1>4, <1>5
<1>7. ASSUME g[j] < f[j] PROVE Ranks(S, g) < Ranks(S, f)
  <2>1. k <= a /\ l <= b /\ m <= c
    BY <1>1, <1>3, <1>4, <1>5, <1>7
  <2>2. f[j] \in 1..3
    BY <1>3, <1>7
  <2>3. k = a - 1 \/ l = b - 1 \/ m = c - 1
    BY <1>1, <1>3, <1>4, <1>5, <1>7, <2>2
  <2>4. k + l + m < a + b + c
    BY <2>1, <2>3
  <2> QED
    BY <1>2, <1>4, <1>5, <2>4
<1> QED
  BY <1>6, <1>7

\* How far a function is from its end, and the pool from the end of Stop.
JobRank(s) == IF s = "unsubmitted" THEN 3 ELSE IF s = "queued" THEN 2
              ELSE IF s = "running" THEN 1 ELSE 0
JobRanks   == [j \in PoolJobs |-> JobRank(poolJob[j])]
OwnerRank  == IF pool = "new" THEN 4 ELSE IF pool = "running" THEN 3
              ELSE IF pool = "cancelled" THEN 2 ELSE IF pool = "closed" THEN 1 ELSE 0

PoolLeft == Ranks(PoolJobs, JobRanks) + Cardinality(PoolWorkers \ poolExited) + OwnerRank

PoolLeftTyped ==
    /\ JobRanks \in [PoolJobs -> 0..3] /\ Ranks(PoolJobs, JobRanks) \in Nat
    /\ IsFiniteSet(PoolWorkers \ poolExited)
    /\ Cardinality(PoolWorkers \ poolExited) \in Nat /\ OwnerRank \in 0..4

LEMMA PoolLeftType == PoolLeftTyped
<1>1. JobRanks \in [PoolJobs -> 0..3]
  BY DEF JobRanks, JobRank
<1>2. Ranks(PoolJobs, JobRanks) \in Nat
  <2>1. CASE PoolJobs = {}
    <3>1. \A n \in 1..3 : {x \in PoolJobs : JobRanks[x] >= n} = {}
      BY <2>1
    <3>2. /\ Cardinality({x \in PoolJobs : JobRanks[x] >= 1}) = 0
          /\ Cardinality({x \in PoolJobs : JobRanks[x] >= 2}) = 0
          /\ Cardinality({x \in PoolJobs : JobRanks[x] >= 3}) = 0
      BY <3>1, FS_EmptySet
    <3> QED
      BY <3>2 DEF Ranks
  <2>2. CASE PoolJobs # {}
    BY <1>1, <2>2, RankFalls, PoolAssumption
  <2> QED
    BY <2>1, <2>2
<1>3. IsFiniteSet(PoolWorkers \ poolExited)
  BY PoolAssumption, FS_Subset
<1> QED
  BY <1>1, <1>2, <1>3, FS_CardinalityType DEF OwnerRank, PoolLeftTyped

LEMMA PoolLeftTypeNext == PoolLeftTyped'
BY PoolLeftType, PTL

\* One function moves on.
LEMMA PoolJobMovesOn ==
    ASSUME PoolTypes, PoolTypes', NEW j \in PoolJobs, NEW s, poolJob' = [poolJob EXCEPT ![j] = s],
           JobRank(s) < JobRank(poolJob[j])
    PROVE  Ranks(PoolJobs, JobRanks)' < Ranks(PoolJobs, JobRanks)
<1>1. PICK f \in [PoolJobs -> 0..3] : f = JobRanks
  BY PoolLeftType DEF PoolLeftTyped
<1>2. PICK g \in [PoolJobs -> 0..3] : g = JobRanks'
  <2>1. JobRanks' \in [PoolJobs -> 0..3]
    BY DEF JobRanks, JobRank
  <2> QED
    BY <2>1
<1>3. g[j] < f[j] /\ \A x \in PoolJobs \ {j} : g[x] = f[x]
  BY <1>1, <1>2 DEF PoolTypes, JobRanks
<1>4. Ranks(PoolJobs, g) < Ranks(PoolJobs, f)
  BY <1>3, RankFalls, PoolAssumption
<1>5. Ranks(PoolJobs, JobRanks)' = Ranks(PoolJobs, g)
  BY <1>2 DEF Ranks
<1> QED
  BY <1>1, <1>4, <1>5

\* The steps of a pool are bounded: each lowers PoolLeft, which is never negative.
THEOREM PoolMovesOn ==
    /\ PoolSpec => [](PoolLeft \in Nat)
    /\ PoolSpec => [][PoolLeft' < PoolLeft]_poolVars
<1>1. ASSUME PoolInv PROVE PoolLeft \in Nat
  BY <1>1, PoolLeftType DEF PoolLeftTyped, PoolLeft
<1>2. ASSUME PoolInv, PoolInv', PoolNext PROVE PoolLeft' < PoolLeft
  <2>0. PoolTypes /\ PoolTypes' /\ PoolPlaces
    BY <1>2 DEF PoolInv
  <2>1. PICK r \in Nat, c \in Nat, o \in 0..4 :
            /\ r = Ranks(PoolJobs, JobRanks) /\ c = Cardinality(PoolWorkers \ poolExited)
            /\ o = OwnerRank /\ PoolLeft = r + c + o
    BY <2>0, PoolLeftType DEF PoolLeft, PoolLeftTyped
  <2>2. PICK r1 \in Nat, c1 \in Nat, o1 \in 0..4 :
            /\ r1 = Ranks(PoolJobs, JobRanks)' /\ c1 = Cardinality(PoolWorkers \ poolExited)'
            /\ o1 = OwnerRank' /\ PoolLeft' = r1 + c1 + o1
    BY PoolLeftTypeNext DEF PoolLeft, PoolLeftTyped
  <2>3. CASE StartPool \/ CancelPool \/ ClosePool \/ FinishStopPool
    <3>1. r1 = r /\ c1 = c
      BY <2>1, <2>2, <2>3 DEF StartPool, CancelPool, ClosePool, FinishStopPool, Ranks, JobRanks
    <3>2. o1 < o
      BY <2>1, <2>2, <2>3 DEF StartPool, CancelPool, ClosePool, FinishStopPool, OwnerRank
    <3> QED
      BY <2>1, <2>2, <3>1, <3>2
  <2>4. ASSUME NEW j \in PoolJobs, NEW s, poolJob' = [poolJob EXCEPT ![j] = s],
               JobRank(s) < JobRank(poolJob[j]), UNCHANGED <<pool, poolExited>>
        PROVE  PoolLeft' < PoolLeft
    <3>1. r1 < r
      BY <2>0, <2>1, <2>2, <2>4, PoolJobMovesOn
    <3>2. c1 = c /\ o1 = o
      BY <2>1, <2>2, <2>4 DEF OwnerRank
    <3> QED
      BY <2>1, <2>2, <3>1, <3>2
  <2>5. ASSUME NEW j \in PoolJobs, SubmitToPool(j) PROVE PoolLeft' < PoolLeft
    <3>1. PICK s \in {"queued", "dropped", "panicked"} : poolJob' = [poolJob EXCEPT ![j] = s]
      BY <2>5 DEF SubmitToPool
    <3>2. JobRank(s) < JobRank(poolJob[j]) /\ UNCHANGED <<pool, poolExited>>
      BY <2>5 DEF SubmitToPool, JobRank
    <3> QED
      BY <2>4, <3>1, <3>2
  <2>6. ASSUME NEW w \in PoolWorkers, TakeFromPool(w) PROVE PoolLeft' < PoolLeft
    <3>1. PICK j \in PoolJobs : j = Head(poolQueue) /\ poolJob[j] = "queued"
      <4>1. poolQueue \in Seq(PoolJobs) /\ poolQueue # <<>>
        BY <2>0, <2>6 DEF TakeFromPool, PoolTypes
      <4>2. Head(poolQueue) \in PoolJobs /\ Head(poolQueue) \in PoolQueued
        BY <4>1 DEF PoolQueued
      <4> QED
        BY <2>0, <4>2 DEF PoolPlaces
    <3>2. /\ poolJob' = [poolJob EXCEPT ![j] = "running"] /\ UNCHANGED <<pool, poolExited>>
          /\ JobRank("running") < JobRank(poolJob[j])
      BY <2>6, <3>1 DEF TakeFromPool, JobRank
    <3> QED
      BY <2>4, <3>2
  <2>7. ASSUME NEW w \in PoolWorkers, RunInPool(w) PROVE PoolLeft' < PoolLeft
    <3>1. PICK j \in poolHolds[w] : poolJob' = [poolJob EXCEPT ![j] = "done"]
      BY <2>7 DEF RunInPool
    <3>2. j \in PoolJobs /\ poolJob[j] = "running"
      BY <2>0, <3>1 DEF PoolPlaces, PoolTypes
    <3>3. JobRank("done") < JobRank(poolJob[j]) /\ UNCHANGED <<pool, poolExited>>
      BY <2>7, <3>2 DEF RunInPool, JobRank
    <3> QED
      BY <2>4, <3>1, <3>2, <3>3
  <2>8. ASSUME NEW w \in PoolWorkers, ExitPoolWorker(w) PROVE PoolLeft' < PoolLeft
    <3>1. w \in PoolWorkers \ poolExited /\ poolExited' = poolExited \cup {w} /\ UNCHANGED <<pool, poolJob>>
      BY <2>8 DEF ExitPoolWorker, WorkerFree
    <3>2. (PoolWorkers \ poolExited)' = (PoolWorkers \ poolExited) \ {w}
      BY <3>1
    <3>3. c1 = c - 1
      BY <2>0, <2>1, <2>2, <3>1, <3>2, PoolLeftType, FS_RemoveElement DEF PoolLeftTyped
    <3>4. r1 = r /\ o1 = o
      BY <2>1, <2>2, <3>1 DEF Ranks, JobRanks, OwnerRank
    <3> QED
      BY <2>1, <2>2, <3>3, <3>4
  <2> QED
    BY <1>2, <2>3, <2>5, <2>6, <2>7, <2>8 DEF PoolNext, PoolOwner, PoolSubmit, PoolWork
<1>3. PoolSpec => [](PoolLeft \in Nat)
  BY <1>1, InitPool, NextPool, PTL DEF PoolSpec
<1>4. PoolSpec => [][PoolLeft' < PoolLeft]_poolVars
  BY <1>2, InitPool, NextPool, PTL DEF PoolSpec
<1> QED
  BY <1>3, <1>4

\* Workers with a verdict in their hands.
Decided == {w \in VerifyWorkers : verified[w]}

CallRank == (IF verifyClient = "new" THEN 4 ELSE IF verifyClient = "submitting" THEN 3
             ELSE IF verifyClient = "stopping" THEN 2 ELSE 1)
            + (IF getter = "returned" THEN 0 ELSE 1)

\* Each block is submitted, begun, decided, sent and read.
BlockSteps == submitted + begun + Cardinality(Decided) + 2 * Len(verdicts) + 3 * Len(got)

VerifierLeft == CallRank + Cardinality(VerifyWorkers \ verifyExited) + (5 * MaxBlocks - BlockSteps)

LEMMA VerifierLeftType ==
    ASSUME VerifierInv
    PROVE  /\ IsFiniteSet(Decided) /\ Cardinality(Decided) \in Nat
           /\ IsFiniteSet(VerifyWorkers \ verifyExited)
           /\ Cardinality(VerifyWorkers \ verifyExited) \in Nat
           /\ BlockSteps \in 0..(5 * MaxBlocks) /\ VerifierLeft \in Nat
<1>0. VerifierTypes /\ VerifierOrder /\ BlocksAccounted /\ MaxBlocks \in Nat
  BY VerifierAssumption DEF VerifierInv
<1>1. IsFiniteSet(VerifyWorkers) /\ IsFiniteSet(WithWorkers)
  BY VerifierAssumption, ActiveFinite
<1>2. Decided \in SUBSET WithWorkers /\ VerifyWorkers \ verifyExited \in SUBSET VerifyWorkers
  BY <1>0 DEF Decided, WithWorkers, VerifierOrder
<1>3. /\ IsFiniteSet(Decided) /\ Cardinality(Decided) \in Nat
      /\ Cardinality(Decided) <= Cardinality(WithWorkers) /\ Cardinality(WithWorkers) \in Nat
  BY <1>1, <1>2, FS_Subset, FS_CardinalityType
<1>4. IsFiniteSet(VerifyWorkers \ verifyExited) /\ Cardinality(VerifyWorkers \ verifyExited) \in Nat
  BY <1>1, <1>2, FS_Subset, FS_CardinalityType
<1>5. BlockSteps \in 0..(5 * MaxBlocks)
  <2>1. PICK s \in Nat, b \in Nat, d \in Nat, v \in Nat, g \in Nat, m \in Nat, u \in Nat :
            /\ s = submitted /\ b = begun /\ d = Cardinality(Decided) /\ v = Len(verdicts)
            /\ g = Len(got) /\ m = MaxBlocks /\ u = Cardinality(WithWorkers)
    <3>1. /\ submitted \in Nat /\ begun \in Nat /\ Cardinality(Decided) \in Nat
          /\ Len(verdicts) \in Nat /\ Len(got) \in Nat /\ Cardinality(WithWorkers) \in Nat
      BY <1>0, <1>3 DEF VerifierTypes
    <3> QED
      BY <1>0, <3>1
  <2>2. s <= m /\ b <= s /\ b = g + v + u /\ d <= u
    BY <1>0, <1>3, <2>1 DEF VerifierTypes, BlocksAccounted
  <2>3. s + b + d + 2 * v + 3 * g <= 5 * m
    <3>1. d + 2 * v + 3 * g <= 3 * b
      BY <2>2
    <3> QED
      BY <2>2, <3>1
  <2> QED
    BY <2>1, <2>3, SMTT(20) DEF BlockSteps
<1>6. CallRank \in 0..5
  BY DEF CallRank
<1>7. VerifierLeft \in Nat
  BY <1>0, <1>4, <1>5, <1>6 DEF VerifierLeft
<1> QED
  BY <1>3, <1>4, <1>5, <1>7

\* The steps of verifier, client and GetResults are bounded: each lowers
\* VerifierLeft, which is never negative.
THEOREM VerifierMovesOn ==
    /\ VerifierSpec => [](VerifierLeft \in Nat)
    /\ VerifierSpec => [][VerifierLeft' < VerifierLeft]_verifierVars
<1>1. VerifierInv => VerifierLeft \in Nat
  BY VerifierLeftType
<1>2. ASSUME VerifierInv, VerifierNext PROVE VerifierLeft' < VerifierLeft
  <2>0. /\ VerifierTypes /\ VerifierOrder /\ MaxBlocks \in Nat
        /\ submitted \in Nat /\ begun \in Nat /\ Len(verdicts) \in Nat /\ Len(got) \in Nat
    BY <1>2, VerifierAssumption DEF VerifierInv, VerifierTypes
  <2>a. CallRank \in Int
    BY DEF CallRank
  <2>1. PICK r \in Int, c \in Nat, m \in Int, s \in Nat, b \in Nat, d \in Nat, v \in Nat, g \in Nat :
            /\ r = CallRank /\ c = Cardinality(VerifyWorkers \ verifyExited) /\ m = 5 * MaxBlocks
            /\ s = submitted /\ b = begun /\ d = Cardinality(Decided)
            /\ v = Len(verdicts) /\ g = Len(got)
    <3>1. /\ Cardinality(VerifyWorkers \ verifyExited) \in Nat /\ Cardinality(Decided) \in Nat
          /\ 5 * MaxBlocks \in Int
      BY <1>2, <2>0, VerifierLeftType
    <3> QED
      BY <2>0, <2>a, <3>1
  <2>b. VerifierLeft = r + c + (m - (s + b + d + 2 * v + 3 * g))
    BY <2>1 DEF VerifierLeft, BlockSteps
  <2>2. VerifierLeft' = CallRank' + Cardinality(VerifyWorkers \ verifyExited')
                          + (m - (submitted' + begun' + Cardinality(Decided')
                                   + 2 * Len(verdicts') + 3 * Len(got')))
    BY <2>1 DEF VerifierLeft, BlockSteps
  <2>3. CASE StartVerifier \/ CloseVerifier \/ FinishStopVerifier \/ ReturnResults
    <3>1. UNCHANGED <<submitted, begun, verdicts, got, verifyExited, verified>>
      BY <2>3 DEF StartVerifier, CloseVerifier, FinishStopVerifier, ReturnResults
    <3>2. Decided' = Decided
      BY <3>1 DEF Decided
    <3>3. CallRank' \in Int /\ CallRank' < r
      <4>1. CallRank' \in Int
        BY DEF CallRank
      <4>2. CASE ReturnResults
        <5>1. getter # "returned" /\ getter' = "returned" /\ verifyClient' = verifyClient
          BY <4>2 DEF ReturnResults, Reading
        <5> QED
          BY <2>1, <4>1, <5>1 DEF CallRank
      <4>3. CASE StartVerifier
        <5>1. verifyClient = "new" /\ verifyClient' = "submitting" /\ getter = "unset"
              /\ getter' # "returned"
          BY <2>0, <4>3 DEF StartVerifier, VerifierOrder
        <5> QED
          BY <2>1, <4>1, <5>1 DEF CallRank
      <4>4. CASE CloseVerifier \/ FinishStopVerifier
        <5>1. /\ getter' = getter
              /\ \/ verifyClient = "submitting" /\ verifyClient' = "stopping"
                 \/ verifyClient = "stopping" /\ verifyClient' = "stopped"
          BY <4>4 DEF CloseVerifier, FinishStopVerifier
        <5>2. CallRank' = CallRank - 1
          BY <5>1 DEF CallRank
        <5> QED
          BY <2>1, <4>1, <5>2
      <4> QED
        BY <2>3, <4>1, <4>2, <4>3, <4>4
    <3>4. PICK r1 \in Int : r1 = CallRank' /\ r1 < r
      BY <3>3
    <3>5. VerifierLeft' = r1 + c + (m - (s + b + d + 2 * v + 3 * g))
      BY <2>1, <2>2, <3>1, <3>2, <3>4
    <3>6. PICK x \in Int : x = m - (s + b + d + 2 * v + 3 * g)
      OBVIOUS
    <3>7. r1 < r
      BY <3>4
    <3>8. r1 + c + x < r + c + x
      BY <3>7
    <3> QED
      BY <2>b, <3>5, <3>6, <3>8
  <2>4. CASE SubmitBlock
    <3>1. /\ submitted' = submitted + 1 /\ CallRank' = CallRank
          /\ UNCHANGED <<begun, verdicts, got, verifyExited, Decided>>
      BY <2>4 DEF SubmitBlock, CallRank, Decided
    <3>5. VerifierLeft' = r + c + (m - ((s + 1) + b + d + 2 * v + 3 * g))
      BY <2>1, <2>2, <3>1
    <3>6. r + c + (m - ((s + 1) + b + d + 2 * v + 3 * g)) < r + c + (m - (s + b + d + 2 * v + 3 * g))
      OBVIOUS
    <3> QED
      BY <2>b, <3>5, <3>6
  <2>5. CASE ReadVerdict
    <3>1. /\ CallRank' = CallRank
          /\ UNCHANGED <<submitted, begun, verifyExited, Decided>>
      BY <2>5 DEF ReadVerdict, CallRank, Decided
    <3>2. Len(verdicts') = Len(verdicts) - 1 /\ Len(got') = Len(got) + 1
      BY <2>0, <2>5 DEF ReadVerdict, VerifierTypes
    <3>5. VerifierLeft' = r + c + (m - (s + b + d + 2 * (v - 1) + 3 * (g + 1)))
      BY <2>1, <2>2, <3>1, <3>2
    <3>6. r + c + (m - (s + b + d + 2 * (v - 1) + 3 * (g + 1))) < r + c + (m - (s + b + d + 2 * v + 3 * g))
      OBVIOUS
    <3> QED
      BY <2>b, <3>5, <3>6
  <2>6. ASSUME NEW w \in VerifyWorkers, TakeBlock(w) PROVE VerifierLeft' < VerifierLeft
    <3>1. /\ begun' = begun + 1 /\ CallRank' = CallRank
          /\ UNCHANGED <<submitted, verdicts, got, verifyExited, Decided>>
      BY <2>6 DEF TakeBlock, CallRank, Decided
    <3>5. VerifierLeft' = r + c + (m - (s + (b + 1) + d + 2 * v + 3 * g))
      BY <2>1, <2>2, <3>1
    <3>6. r + c + (m - (s + (b + 1) + d + 2 * v + 3 * g)) < r + c + (m - (s + b + d + 2 * v + 3 * g))
      OBVIOUS
    <3> QED
      BY <2>b, <3>5, <3>6
  <2>7. ASSUME NEW w \in VerifyWorkers, VerifyBlock(w) PROVE VerifierLeft' < VerifierLeft
    <3>1. /\ CallRank' = CallRank
          /\ UNCHANGED <<submitted, begun, verdicts, got, verifyExited>>
          /\ Decided' = Decided \cup {w} /\ w \notin Decided
      BY <2>0, <2>7 DEF VerifyBlock, CallRank, Decided, VerifierTypes
    <3>2. Cardinality(Decided') = d + 1
      BY <1>2, <2>1, <3>1, VerifierLeftType, FS_AddElement
    <3>5. VerifierLeft' = r + c + (m - (s + b + (d + 1) + 2 * v + 3 * g))
      BY <2>1, <2>2, <3>1, <3>2
    <3>6. r + c + (m - (s + b + (d + 1) + 2 * v + 3 * g)) < r + c + (m - (s + b + d + 2 * v + 3 * g))
      OBVIOUS
    <3> QED
      BY <2>b, <3>5, <3>6
  <2>8. ASSUME NEW w \in VerifyWorkers, SendVerdict(w) PROVE VerifierLeft' < VerifierLeft
    <3>1. /\ CallRank' = CallRank
          /\ UNCHANGED <<submitted, begun, got, verifyExited>>
          /\ Decided' = Decided \ {w} /\ w \in Decided
      BY <2>0, <2>8 DEF SendVerdict, CallRank, Decided, VerifierTypes
    <3>2. Cardinality(Decided') = d - 1
      BY <1>2, <2>1, <3>1, VerifierLeftType, FS_RemoveElement
    <3>3. Len(verdicts') = Len(verdicts) + 1
      BY <2>0, <2>8 DEF SendVerdict, VerifierTypes
    <3>5. VerifierLeft' = r + c + (m - (s + b + (d - 1) + 2 * (v + 1) + 3 * g))
      BY <2>1, <2>2, <3>1, <3>2, <3>3
    <3>6. r + c + (m - (s + b + (d - 1) + 2 * (v + 1) + 3 * g)) < r + c + (m - (s + b + d + 2 * v + 3 * g))
      OBVIOUS
    <3> QED
      BY <2>b, <3>5, <3>6
  <2>9. ASSUME NEW w \in VerifyWorkers, ExitVerifyWorker(w) PROVE VerifierLeft' < VerifierLeft
    <3>1. /\ CallRank' = CallRank
          /\ UNCHANGED <<submitted, begun, verdicts, got, Decided>>
          /\ VerifyWorkers \ verifyExited' = (VerifyWorkers \ verifyExited) \ {w}
          /\ w \in VerifyWorkers \ verifyExited
      BY <2>9 DEF ExitVerifyWorker, CallRank, Decided
    <3>2. Cardinality(VerifyWorkers \ verifyExited') = c - 1
      BY <1>2, <2>1, <3>1, VerifierLeftType, FS_RemoveElement, ZenonT(30)
    <3>5. VerifierLeft' = r + (c - 1) + (m - (s + b + d + 2 * v + 3 * g))
      BY <2>1, <2>2, <3>1, <3>2
    <3>6. r + (c - 1) + (m - (s + b + d + 2 * v + 3 * g)) < r + c + (m - (s + b + d + 2 * v + 3 * g))
      OBVIOUS
    <3> QED
      BY <2>b, <3>5, <3>6
  <2> QED
    BY <1>2, <2>3, <2>4, <2>5, <2>6, <2>7, <2>8, <2>9
       DEF VerifierNext, VerifyClient, VerifyWork, GetResults
<1>3. VerifierSpec => [](VerifierLeft \in Nat)
  BY <1>1, InitVerifier, NextVerifier, PTL DEF VerifierSpec
<1>4. VerifierSpec => [][VerifierLeft' < VerifierLeft]_verifierVars
  BY <1>2, InitVerifier, NextVerifier, PTL DEF VerifierSpec
<1> QED
  BY <1>3, <1>4
=============================================================================
