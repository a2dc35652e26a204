------------------------------ MODULE DeltaOps ------------------------------
(***************************************************************************)
(* The operations a delta is made of (pkg/diff/types.go), what they do to  *)
(* a file when a patch is applied (pkg/patch/applier.go) and the pass that *)
(* merges them (pkg/diff/optimizer.go).  A file is a sequence of bytes;    *)
(* offsets count from 0, as in the code.                                   *)
(***************************************************************************)
EXTENDS Integers, Sequences, SequencesExt

Copy(offset, size, src) ==
    [type |-> "copy", offset |-> offset, size |-> size, src |-> src, data |-> <<>>]

Insert(offset, data) ==
    [type |-> "insert", offset |-> offset, size |-> Len(data), src |-> 0, data |-> data]

Delete(offset, size) ==
    [type |-> "delete", offset |-> offset, size |-> size, src |-> 0, data |-> <<>>]

\* Operation, with data of B.
OpsOf(B) ==
    [type : {"copy", "insert", "delete"}, offset : Nat, size : Nat, src : Nat, data : Seq(B)]

\* Operations as the program makes them: only an insert has data, and it is of
\* that size.
SizedOps(B) ==
    {op \in OpsOf(B) : IF op.type = "insert" THEN op.size = Len(op.data) ELSE op.data = <<>>}

-----------------------------------------------------------------------------
(* Applying operations.                                                    *)

\* At most n bytes of f from an offset on: a read stops at the end of file.
Slice(f, offset, n) == SubSeq(f, offset + 1, IF offset + n < Len(f) THEN offset + n ELSE Len(f))

\* Seek and Write: bytes after the end that are never written read as zero.
WriteAt(f, offset, data) ==
    IF data = <<>> THEN f
    ELSE [i \in 1..(IF offset + Len(data) > Len(f) THEN offset + Len(data) ELSE Len(f)) |->
            IF offset < i /\ i <= offset + Len(data) THEN data[i - offset]
            ELSE IF i <= Len(f) THEN f[i] ELSE 0]

\* applyOperation.  A copy that runs past the end of the source is short and
\* is not an error; a delete writes nothing.
ApplyOperation(f, source, op) ==
    CASE op.type = "copy"   -> WriteAt(f, op.offset, Slice(source, op.src, op.size))
      [] op.type = "insert" -> WriteAt(f, op.offset, op.data)
      [] op.type = "delete" -> f

Rebuild(source, ops) ==
    LET made[i \in 0..Len(ops)] ==
          IF i = 0 THEN <<>> ELSE ApplyOperation(made[i - 1], source, ops[i])
    IN  made[Len(ops)]

-----------------------------------------------------------------------------
(* The optimizer, with its default configuration: every merge enabled.     *)

NonEmpty(op) == op.size > 0

\* RemoveEmptyOperations.
RemoveEmpty(ops) ==
    LET kept[i \in 0..Len(ops)] ==
          IF i = 0 THEN <<>>
          ELSE IF NonEmpty(ops[i]) THEN Append(kept[i - 1], ops[i]) ELSE kept[i - 1]
    IN  kept[Len(ops)]

Continues_IgnoreSource(prev, op) ==
    /\ prev.type = op.type
    /\ prev.offset + prev.size = op.offset

\* The test of the merge loops: op continues the run that ends in prev, in
\* the target, and for copies in the source too.
Continues(prev, op) ==
    /\ prev.type = op.type
    /\ prev.offset + prev.size = op.offset
    /\ op.type = "copy" => prev.src + prev.size = op.src

Join(prev, op) == [prev EXCEPT !.size = @ + op.size, !.data = @ \o op.data]

\* The merged operations so far, once op has come.
Merge(done, op) ==
    IF done # <<>> /\ Continues(Last(done), op)
    THEN Append(Front(done), Join(Last(done), op))
    ELSE Append(done, op)

\* mergeCopyOperations, mergeInsertOperations and mergeDeleteOperations, and
\* the loop that calls them: runs of operations that continue each other
\* become one.
MergeRuns(ops) ==
    LET merged[i \in 0..Len(ops)] ==
          IF i = 0 THEN <<>> ELSE Merge(merged[i - 1], ops[i])
    IN  merged[Len(ops)]

\* optimizeRedundantDeletes: a delete right before a copy that starts at the
\* same place and is no shorter.
RedundantDelete(ops, i) ==
    /\ ops[i].type = "delete"
    /\ i < Len(ops)
    /\ ops[i + 1].type = "copy"
    /\ ops[i].offset = ops[i + 1].offset
    /\ ops[i].size <= ops[i + 1].size

DropRedundantDeletes(ops) ==
    LET kept[i \in 0..Len(ops)] ==
          IF i = 0 THEN <<>>
          ELSE IF RedundantDelete(ops, i) THEN kept[i - 1] ELSE Append(kept[i - 1], ops[i])
    IN  kept[Len(ops)]

OptimizeDelta(ops) == DropRedundantDeletes(MergeRuns(RemoveEmpty(ops)))
=============================================================================
