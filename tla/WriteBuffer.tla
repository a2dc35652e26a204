----------------------------- MODULE WriteBuffer -----------------------------
(***************************************************************************)
(* The writers of pkg/performance/io_optimizer.go with EnableWriteCache.   *)
(* All writers of an IOOptimizer share one WriteBuffer, which does not     *)
(* know whose bytes it holds: a flush writes them to the file of whoever   *)
(* asks for it, and a flush that fails leaves them for the next.           *)
(*                                                                         *)
(* The k-th byte the client writes to file f is the pair <<f, k>>.         *)
(***************************************************************************)
EXTENDS Naturals, Sequences, FiniteSets

CONSTANTS
    WriteFiles,      \* files, each opened once
    BufferMax,       \* IOConfig.WriteBufferSize
    MaxWritten,      \* bound: bytes written to a file
    MaxFlushFaults   \* bound: flushes that fail

ASSUME WriteBufferAssumption ==
    IsFiniteSet(WriteFiles) /\ {BufferMax, MaxWritten, MaxFlushFaults} \subseteq Nat

VARIABLES
    writer,       \* writer[f]: "none", "open" or "closed"
    content,      \* content[f]: the file
    written,      \* written[f]: bytes that Write has accepted
    writeBuffer,
    shared,       \* two writers were open at the same time
    flushFaults

writeVars == <<writer, content, written, writeBuffer, shared, flushFaults>>

WriteInit ==
    /\ writer = [f \in WriteFiles |-> "none"]
    /\ content = [f \in WriteFiles |-> <<>>] /\ written = [f \in WriteFiles |-> 0]
    /\ writeBuffer = <<>> /\ shared = FALSE /\ flushFaults = 0

\* The bytes written to f that are not accepted yet, n of them.
Fresh(f, n) == [i \in 1..n |-> <<f, written[f] + i>>]

\* os.OpenFile with O_TRUNC.
OpenWriter(f) ==
    /\ writer[f] = "none"
    /\ writer' = [writer EXCEPT ![f] = "open"]
    /\ shared' = (shared \/ \E g \in WriteFiles : writer[g] = "open")
    /\ UNCHANGED <<content, written, writeBuffer, flushFaults>>

\* flushLocked into the file f, with next as the buffer afterwards.
FlushTo_KeepsBuffer(f, next) ==
    /\ content' = [content EXCEPT ![f] = @ \o writeBuffer]
    /\ writeBuffer' = writeBuffer \o next
    /\ UNCHANGED flushFaults

FlushTo(f, next) ==
    /\ content' = [content EXCEPT ![f] = @ \o writeBuffer]
    /\ writeBuffer' = next
    /\ UNCHANGED flushFaults

\* file.Write fails after some of the bytes; the buffer keeps them all.
FlushFails(f) ==
    /\ writeBuffer # <<>> /\ flushFaults < MaxFlushFaults
    /\ \E n \in 0..Len(writeBuffer) :
          content' = [content EXCEPT ![f] = @ \o SubSeq(writeBuffer, 1, n)]
    /\ flushFaults' = flushFaults + 1
    /\ UNCHANGED writeBuffer

\* Write flushes first if the buffer would overflow or SyncInterval has passed.
BufferWrite(f, n) ==
    /\ writer[f] = "open" /\ written[f] + n <= MaxWritten
    /\ \/ /\ Len(writeBuffer) + n <= BufferMax
          /\ writeBuffer' = writeBuffer \o Fresh(f, n)
          /\ UNCHANGED <<content, flushFaults>>
       \/ FlushTo(f, Fresh(f, n))
    /\ written' = [written EXCEPT ![f] = @ + n]
    /\ UNCHANGED <<writer, shared>>

\* Write returns the error of the flush and takes nothing.
BufferWriteFails(f) ==
    /\ writer[f] = "open" /\ FlushFails(f)
    /\ UNCHANGED <<writer, written, shared>>

SyncWriter(f) ==
    /\ writer[f] = "open" /\ writeBuffer # <<>>
    /\ FlushTo(f, <<>>)
    /\ UNCHANGED <<writer, written, shared>>

CloseWriter(f) ==
    /\ writer[f] = "open"
    /\ FlushTo(f, <<>>) \/ FlushFails(f)
    /\ writer' = [writer EXCEPT ![f] = "closed"]
    /\ UNCHANGED <<written, shared>>

WriteNext ==
    \E f \in WriteFiles :
        \/ OpenWriter(f) \/ BufferWriteFails(f) \/ SyncWriter(f) \/ CloseWriter(f)
        \/ \E n \in 1..(BufferMax + 1) : BufferWrite(f, n)

WriteSpec == WriteInit /\ [][WriteNext]_writeVars

-----------------------------------------------------------------------------
(* Properties.                                                             *)

WriteTypeOK ==
    /\ writer \in [WriteFiles -> {"none", "open", "closed"}]
    /\ written \in [WriteFiles -> 0..MaxWritten]
    /\ flushFaults \in 0..MaxFlushFaults

\* Until two writers are open at once or a flush fails, a file and the
\* buffer after it are what was written to the file, in order, nothing twice
\* and nothing of another file; a closed file is all of it.
WrittenWhole ==
    ~shared /\ flushFaults = 0 =>
        \A f \in WriteFiles :
            content[f] \o (IF writer[f] = "open" THEN writeBuffer ELSE <<>>)
                = [k \in 1..written[f] |-> <<f, k>>]
=============================================================================
