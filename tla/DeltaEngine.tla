----------------------------- MODULE DeltaEngine -----------------------------
(***************************************************************************)
(* Engine.GenerateDelta of pkg/diff/engine.go: cut the old file into       *)
(* blocks, slide a window of one block over the new file with a rolling    *)
(* hash, and turn every window that is an old block into a copy and every  *)
(* byte that is in none into part of an insert.  The window is a ring      *)
(* buffer that is read ahead of the bytes already turned into operations.  *)
(***************************************************************************)
EXTENDS DeltaOps

CONSTANTS
    Bytes,        \* the values of a byte
    MaxOld,       \* bound: length of the old file
    MaxNew,       \* bound: length of the new file
    BlockSize,    \* DiffConfig.BlockSize
    EnableCRC32,  \* DiffConfig.EnableCRC32
    Base, Mod,    \* RollingHashBase and RollingHashMod
    Crc(_)        \* crc32.ChecksumIEEE

ASSUME EngineAssumption ==
    /\ Bytes \subseteq Nat /\ MaxOld \in Nat /\ MaxNew \in Nat
    /\ BlockSize \in Nat \ {0} /\ EnableCRC32 \in BOOLEAN
    /\ Base \in Nat \ {0} /\ Mod \in Nat \ {0}

VARIABLES
    old, new,        \* the two files
    phase,           \* "sign", "open", "loop", "flush", "optimize", "done"
    blocks,          \* Signature.Blocks, in the order they were added
    window, windowIndex, windowHash, windowStart,
    unmatchedStart, unmatchedData,
    read,            \* position in the new file
    hashed,          \* what was written to the SHA-256 hasher
    ops              \* delta.Operations

vars == <<old, new, phase, blocks, window, windowIndex, windowHash, windowStart,
          unmatchedStart, unmatchedData, read, hashed, ops>>

-----------------------------------------------------------------------------
(* Hashes.                                                                 *)

FastHash(data) ==
    LET h[i \in 0..Len(data)] ==
          IF i = 0 THEN 0 ELSE (h[i - 1] * Base + data[i]) % Mod
    IN  h[Len(data)]

\* calculateBasePow: Base^(BlockSize - 1) % Mod.
BasePow ==
    LET p[i \in 0..(BlockSize - 1)] == IF i = 0 THEN 1 ELSE (p[i - 1] * Base) % Mod
    IN  p[BlockSize - 1]

RollHash_NoMod(current, oldByte, newByte) ==
    LET removed == oldByte * BasePow
        next    == IF current >= removed THEN current - removed ELSE 0
    IN  (next * Base + newByte) % Mod

\* rollBlockHash: take the oldest byte out of the hash, put the next one in.
RollHash(current, oldByte, newByte) ==
    LET removed == (oldByte * BasePow) % Mod
        next    == (current + Mod - removed) % Mod
    IN  (next * Base + newByte) % Mod

-----------------------------------------------------------------------------
(* The signature of the old file.                                          *)

Checksum(data) == IF EnableCRC32 THEN Crc(data) ELSE 0

\* GenerateSignature: one block per full or last read of the file.
Signature(f) ==
    [i \in 1..((Len(f) + BlockSize - 1) \div BlockSize) |->
        LET data == Slice(f, (i - 1) * BlockSize, BlockSize)
        IN  [offset |-> (i - 1) * BlockSize, size |-> Len(data),
             hash |-> FastHash(data), checksum |-> Checksum(data)]]

\* The test of FindBlock for one block.
Matches(block, hash, data) ==
    /\ block.hash = hash
    /\ block.size = Len(data)
    /\ block.checksum = Crc(data)

Found(hash, data) == {i \in DOMAIN blocks : Matches(blocks[i], hash, data)}

\* FindBlock returns the first match in the order of AddBlock.
FindBlock(hash, data) ==
    blocks[CHOOSE i \in Found(hash, data) : \A j \in Found(hash, data) : i <= j]

-----------------------------------------------------------------------------
(* The window.                                                             *)

OrderedWindow ==
    SubSeq(window, windowIndex + 1, Len(window)) \o SubSeq(window, 1, windowIndex)

RemainingWindow_Unrolled == SubSeq(window, windowIndex + 2, Len(window))

\* appendRemainingWindow: all of the window but its oldest byte.
RemainingWindow ==
    SubSeq(window, windowIndex + 2, Len(window)) \o SubSeq(window, 1, windowIndex)

\* Where the ring buffer's oldest byte is after a slide.
NextIndex == (windowIndex + 1) % BlockSize

AtEnd_PastIt == read > Len(new)

\* ReadByte returns io.EOF.
AtEnd == read >= Len(new)

\* flushInsert.
Flush(done, start, data) == IF data = <<>> THEN done ELSE Append(done, Insert(start, data))

InsertStart_Always(offset) == offset

\* Where a pending insert starts once a byte at offset joins it.
InsertStart(offset) == IF unmatchedData = <<>> THEN offset ELSE unmatchedStart

\* io.ReadFull of the next block.
NextBlock == Slice(new, read, BlockSize)

Consume(data) ==
    /\ read' = read + Len(data)
    /\ hashed' = hashed \o data

\* processTailData on the last, short read, with done = the operations before
\* it: a copy if the old file has the same short last block, else an insert.
TailData(data, done, offset) ==
    IF data # <<>> /\ Found(FastHash(data), data) # {}
    THEN LET block == FindBlock(FastHash(data), data)
         IN  /\ ops' = Append(done, Copy(offset, block.size, block.offset))
             /\ unmatchedData' = <<>>
             /\ UNCHANGED unmatchedStart
    ELSE /\ ops' = done
         /\ unmatchedData' = data
         /\ unmatchedStart' = IF data = <<>> THEN unmatchedStart ELSE offset

\* Load the window with the block just read, or finish with the short tail.
Refill(data, done, offset) ==
    IF Len(data) < BlockSize
    THEN /\ TailData(data, done, offset)
         /\ phase' = "flush"
         /\ UNCHANGED <<window, windowIndex, windowHash>>
    ELSE /\ ops' = done
         /\ unmatchedData' = <<>>
         /\ phase' = "loop"
         /\ window' = data
         /\ windowIndex' = 0
         /\ windowHash' = FastHash(data)
         /\ UNCHANGED unmatchedStart

-----------------------------------------------------------------------------
Init ==
    /\ old \in UNION {[1..n -> Bytes] : n \in 0..MaxOld}
    /\ new \in UNION {[1..n -> Bytes] : n \in 0..MaxNew}
    /\ phase = "sign"
    /\ blocks = <<>> /\ window = <<>> /\ windowIndex = 0 /\ windowHash = 0 /\ windowStart = 0
    /\ unmatchedStart = 0 /\ unmatchedData = <<>>
    /\ read = 0 /\ hashed = <<>> /\ ops = <<>>

GenerateSignature ==
    /\ phase = "sign"
    /\ phase' = "open"
    /\ blocks' = Signature(old)
    /\ UNCHANGED <<old, new, window, windowIndex, windowHash, windowStart,
                   unmatchedStart, unmatchedData, read, hashed, ops>>

\* The first read of the new file.
FirstWindow ==
    /\ phase = "open"
    /\ Refill(NextBlock, ops, 0)
    /\ Consume(NextBlock)
    /\ UNCHANGED <<old, new, blocks, windowStart>>

\* The window is an old block: copy it and read the next window.
CopyBlock ==
    /\ phase = "loop"
    /\ Found(windowHash, OrderedWindow) # {}
    /\ LET block == FindBlock(windowHash, OrderedWindow)
           done  == Append(Flush(ops, unmatchedStart, unmatchedData),
                           Copy(windowStart, block.size, block.offset))
       IN  /\ windowStart' = windowStart + block.size
           /\ Refill(NextBlock, done, windowStart + block.size)
    /\ Consume(NextBlock)
    /\ UNCHANGED <<old, new, blocks>>

\* It is not: its oldest byte joins the insert and the window moves on by one.
SlideWindow ==
    /\ phase = "loop"
    /\ Found(windowHash, OrderedWindow) = {}
    /\ read < Len(new)
    /\ LET oldByte == window[windowIndex + 1]
           newByte == new[read + 1]
       IN  /\ unmatchedStart' = InsertStart(windowStart)
           /\ unmatchedData' = Append(unmatchedData, oldByte)
           /\ windowHash' = RollHash(windowHash, oldByte, newByte)
           /\ window' = [window EXCEPT ![windowIndex + 1] = newByte]
           /\ windowIndex' = NextIndex
           /\ windowStart' = windowStart + 1
           /\ Consume(<<newByte>>)
    /\ UNCHANGED <<old, new, phase, blocks, ops>>

\* It is not, and the file has ended: the whole window joins the insert.
DrainWindow ==
    /\ phase = "loop"
    /\ Found(windowHash, OrderedWindow) = {}
    /\ AtEnd
    /\ unmatchedStart' = InsertStart(windowStart)
    /\ unmatchedData' = Append(unmatchedData, window[windowIndex + 1]) \o RemainingWindow
    /\ phase' = "flush"
    /\ UNCHANGED <<old, new, blocks, window, windowIndex, windowHash, windowStart,
                   read, hashed, ops>>

FlushInsert ==
    /\ phase = "flush"
    /\ phase' = "optimize"
    /\ ops' = Flush(ops, unmatchedStart, unmatchedData)
    /\ UNCHANGED <<old, new, blocks, window, windowIndex, windowHash, windowStart,
                   unmatchedStart, unmatchedData, read, hashed>>

Optimize ==
    /\ phase = "optimize"
    /\ phase' = "done"
    /\ ops' = OptimizeDelta(ops)
    /\ UNCHANGED <<old, new, blocks, window, windowIndex, windowHash, windowStart,
                   unmatchedStart, unmatchedData, read, hashed>>

Next ==
    \/ GenerateSignature \/ FirstWindow \/ CopyBlock \/ SlideWindow \/ DrainWindow
    \/ FlushInsert \/ Optimize

Spec == Init /\ [][Next]_vars

\* The engine is a loop of one goroutine.
FairSpec == Spec /\ WF_vars(Next)

-----------------------------------------------------------------------------
(* Properties.                                                             *)

TypeOK ==
    /\ phase \in {"sign", "open", "loop", "flush", "optimize", "done"}
    /\ old \in Seq(Bytes) /\ new \in Seq(Bytes)
    /\ window \in Seq(Bytes) /\ Len(window) \in {0, BlockSize}
    /\ windowIndex \in 0..(BlockSize - 1) /\ windowHash \in 0..(Mod - 1)
    /\ windowStart \in 0..Len(new) /\ read \in 0..Len(new)
    /\ unmatchedStart \in 0..Len(new) /\ unmatchedData \in Seq(Bytes)
    /\ hashed \in Seq(Bytes)

\* The ring buffer, read from windowIndex on, is the stretch of the new file
\* that starts where the operations end, however matches, refills and slides
\* alternate; the file has been read up to the end of the window.
WindowIsNext ==
    phase = "loop" =>
        /\ OrderedWindow = SubSeq(new, windowStart + 1, windowStart + BlockSize)
        /\ read = windowStart + BlockSize

\* The hash carried from window to window by rollBlockHash is the hash of the
\* window computed afresh, modular wrap included.
RollingHashIsFresh == phase = "loop" => windowHash = FastHash(OrderedWindow)

\* Operations with the pending insert appended, as flushInsert would.
AllOps == IF phase \in {"loop", "flush"} THEN Flush(ops, unmatchedStart, unmatchedData) ELSE ops

\* How far the operations have come in the new file.
Frontier == IF phase = "loop" THEN windowStart ELSE Len(new)

EndOf(s) == IF s = <<>> THEN 0 ELSE s[Len(s)].offset + s[Len(s)].size

\* The operations cover the new file from its start to the frontier without a
\* gap and without an overlap, even when hashes and checksums collide.
OpsTile ==
    phase \in {"loop", "flush", "optimize", "done"} =>
        /\ \A i \in DOMAIN AllOps :
              AllOps[i].offset = EndOf(SubSeq(AllOps, 1, i - 1)) /\ AllOps[i].size > 0
        /\ EndOf(AllOps) = Frontier

\* The bytes an operation writes into the target.
OpBytes(op) == IF op.type = "copy" THEN Slice(old, op.src, op.size) ELSE op.data

\* Every operation writes the bytes the new file has at that place: a copy
\* matched by rolling hash and CRC32 really is the old block.
OpsWriteNew ==
    \A i \in DOMAIN AllOps : OpBytes(AllOps[i]) = Slice(new, AllOps[i].offset, AllOps[i].size)

\* All of it together: at every step the window, its hash and the operations
\* agree with the place the scan has reached in the new file.
ScanInv == TypeOK /\ WindowIsNext /\ RollingHashIsFresh /\ OpsTile /\ OpsWriteNew

\* Applied to the old file, in order, the finished delta gives the new file,
\* and the checksum it carries is the new file's.
DeltaRebuildsNew ==
    phase = "done" => Rebuild(old, ops) = new /\ hashed = new

\* A delta never inserts what the old file has as a block: no full block of
\* the old file is left inside an insert, at any alignment (engine_test.go
\* expects every old byte to be copied after a shift).
BlocksReused ==
    phase = "done" =>
        \A i \in DOMAIN ops, b \in DOMAIN blocks :
            ops[i].type = "insert" /\ blocks[b].size = BlockSize =>
                \A p \in 0..(ops[i].size - BlockSize) :
                    Slice(ops[i].data, p, BlockSize) # Slice(old, blocks[b].offset, BlockSize)

\* The scan ends, whatever the files: every step consumes a byte of the new
\* file or leaves the loop.
Terminates == <>(phase = "done")
=============================================================================
