--------------------------- MODULE PatchGenerator ---------------------------
(***************************************************************************)
(* How a patch file comes about and what is read from it: Generator and    *)
(* StreamingPatchGenerator of pkg/patch, the optimizer that every delta    *)
(* goes through, the file format, and what ApplyPatch and Validator make   *)
(* of a file, also of one whose write failed or was killed half-way.       *)
(*                                                                         *)
(* A delta is any list of operations; DeltaEngine shows which the engine   *)
(* makes.  A checksum is the content it is taken of.  Sizes and data       *)
(* offsets are stored in fields that hold FieldValues numbers.             *)
(***************************************************************************)
EXTENDS DeltaOps, Parts

CONSTANTS
    Sources,         \* contents the old file may have
    Lists,           \* bound: Lists[n], the operation lists of the n-th call's delta
    FieldValues,     \* numbers that a field holds: 2 ^ 32 for a uint32
    MaxGenerations,  \* bound: calls
    MaxPatchFaults   \* bound: calls that fail or are killed

Byte == 0..255

ASSUME GeneratorAssumption ==
    /\ FieldValues \in Nat \ {0} /\ MaxGenerations \in Nat /\ MaxPatchFaults \in Nat
    /\ \A source \in Sources : source \in Seq(Byte)
    /\ \A n \in 1..MaxGenerations : \A list \in Lists[n] : list \in Seq(SizedOps(Byte))

VARIABLES
    generator,     \* [streaming, gzip]: the generator in use, <<>> before
    genStep,       \* "idle", "delta" or "summed"
    oldFile,       \* the old file now
    deltaSource,   \* the old file as the engine read it
    given, delta,  \* the operations before and after the optimizer
    target,        \* the new file
    patchFile,     \* the file at patchPath
    sourceSum,     \* the checksum of the old file
    wrote,         \* what the call has written of it: "none", "part" or "all"
    genResult,     \* what the last call returned
    generations, patchFaults,
    spgOps, spgOffset   \* fields of the streaming generator, never reset

patchVars == <<generator, genStep, oldFile, deltaSource, given, delta, target, patchFile,
               sourceSum, wrote, genResult, generations, patchFaults, spgOps, spgOffset>>

\* A file that holds nothing: os.Create.
EmptyFile == [head |-> FALSE, broken |-> FALSE, count |-> 0, source |-> <<>>,
              target |-> <<>>, ops |-> <<>>, data |-> <<>>]

Field(n) == n % FieldValues

\* PatchOperation.Marshal of op, its data at the given offset of the data area.
Marshal(op, dataOffset) ==
    [type |-> op.type, offset |-> op.offset, size |-> Field(op.size), src |-> op.src,
     dataOffset |-> IF op.type = "insert" THEN Field(dataOffset) ELSE 0]

\* The data area after each of the operations.
Areas(ops) == Joined([i \in DOMAIN ops |-> ops[i].data])

\* The operations and the data area for ops, after the operations done and
\* with offsets that count from start.
Encoded(ops, done, start) ==
    LET area == Areas(ops)
    IN  [ops  |-> done \o [i \in 1..Len(ops) |-> Marshal(ops[i], start + Len(area[i - 1]))],
         data |-> area[Len(ops)]]

\* SerializeDelta leaves empty operations out, the streaming generator keeps
\* them, and keeps what it has from the calls before.
Contents ==
    IF generator.streaming THEN Encoded(delta, spgOps, spgOffset)
    ELSE Encoded(RemoveEmpty(delta), <<>>, 0)

\* The file with only the first n operations, or all of them and n bytes of
\* data; a gzip stream that is cut cannot be read.
Whole ==
    [head |-> TRUE, broken |-> FALSE, count |-> Len(Contents.ops), source |-> sourceSum,
     target |-> target, ops |-> Contents.ops, data |-> Contents.data]
CutInOps(f, n)  == [f EXCEPT !.ops = SubSeq(@, 1, n), !.data = <<>>]
CutInData(f, n) == [f EXCEPT !.data = SubSeq(@, 1, n), !.broken = generator.gzip /\ n > 0]
Cuts(f) == {EmptyFile} \cup {CutInOps(f, n) : n \in 0..Len(f.ops)}
             \cup {CutInData(f, n) : n \in 0..(Len(f.data) - 1)}

-----------------------------------------------------------------------------
(* Reading a patch file.                                                   *)

\* DeserializePatch succeeds.
Readable(f) == f.head /\ Len(f.ops) = f.count /\ ~f.broken

\* The uint32 comparison of applyInsertOperation, and of the validator.
InBounds(f, op) == Field(op.dataOffset + op.size) <= Field(Len(f.data))

\* The operation with its data out of the data area; Go panics on a slice that
\* ends before it starts.
Unmarshalled(f, op) ==
    [type |-> op.type, offset |-> op.offset, size |-> op.size, src |-> op.src,
     data |-> IF op.type # "insert" THEN <<>>
              ELSE SubSeq(f.data, op.dataOffset + 1, Field(op.dataOffset + op.size))]
Slices(op) == op.dataOffset <= Field(op.dataOffset + op.size)

\* ApplyPatch on a source: whether it succeeds, and the file it makes.
Applied(f, source) ==
    LET ops == [i \in DOMAIN f.ops |-> Unmarshalled(f, f.ops[i])]
        ok  == /\ Readable(f) /\ f.source = source
               /\ \A i \in DOMAIN f.ops :
                     f.ops[i].type = "insert" => InBounds(f, f.ops[i]) /\ Slices(f.ops[i])
        out == IF ok THEN Rebuild(source, ops) ELSE <<>>
    IN  [ok |-> ok /\ out = f.target, file |-> out]

\* validateOperations: every copy is an issue.
ValidOperation(f, op) ==
    op.size > 0 /\ op.type # "copy" /\ (op.type = "insert" => InBounds(f, op))

\* Validator.Validate of the file.
Valid(f) ==
    /\ Readable(f) /\ f.count > 0 /\ f.data # <<>>
    /\ \A i \in DOMAIN f.ops : ValidOperation(f, f.ops[i])

-----------------------------------------------------------------------------
PatchInit ==
    /\ generator = <<>> /\ genStep = "idle" /\ genResult = "none"
    /\ oldFile = <<>> /\ deltaSource = <<>> /\ target = <<>>
    /\ given = <<>> /\ delta = <<>>
    /\ patchFile = EmptyFile /\ sourceSum = <<>> /\ wrote = "none"
    /\ generations = 0 /\ patchFaults = 0 /\ spgOps = <<>> /\ spgOffset = 0

\* NewGenerator or NewStreamingPatchGenerator; the old file is there.
NewGenerator ==
    /\ generator = <<>>
    /\ generator' \in [streaming : BOOLEAN, gzip : BOOLEAN]
    /\ oldFile' \in Sources
    /\ UNCHANGED <<genStep, deltaSource, given, delta, target, patchFile, sourceSum, wrote,
                   genResult, generations, patchFaults, spgOps, spgOffset>>

\* GenerateDelta, and before it the os.Create of the streaming generator.
BeginGeneration(list) ==
    /\ generator # <<>> /\ genStep = "idle"
    /\ genStep' = "delta" /\ genResult' = "none" /\ wrote' = "none"
    /\ generations' = generations + 1
    /\ deltaSource' = oldFile
    /\ given' = list /\ delta' = OptimizeDelta(list)
    /\ target' = Rebuild(oldFile, list)
    /\ patchFile' = IF generator.streaming THEN EmptyFile ELSE patchFile
    /\ UNCHANGED <<generator, oldFile, sourceSum, patchFaults, spgOps, spgOffset>>

\* calculateFileChecksum reads the old file again.
SumSource ==
    /\ genStep = "delta"
    /\ genStep' = "summed"
    /\ sourceSum' = oldFile
    /\ UNCHANGED <<generator, oldFile, deltaSource, given, delta, target, patchFile, wrote,
                   genResult, generations, patchFaults, spgOps, spgOffset>>

\* A read error ends its loop without a word: the checksum is of what it has
\* read so far.
SumSourceShort ==
    /\ genStep = "delta" /\ patchFaults < MaxPatchFaults
    /\ genStep' = "summed" /\ patchFaults' = patchFaults + 1
    /\ \E n \in 0..(Len(oldFile) - 1) : sourceSum' = SubSeq(oldFile, 1, n)
    /\ UNCHANGED <<generator, oldFile, deltaSource, given, delta, target, patchFile, wrote,
                   genResult, generations, spgOps, spgOffset>>

\* A file cannot be opened or read: the plain generator leaves the patch file
\* of an earlier call alone, which it creates last; the streaming one has
\* truncated it.
FailGeneration ==
    /\ genStep = "delta" \/ (genStep = "summed" /\ ~generator.streaming)
    /\ patchFaults < MaxPatchFaults
    /\ genStep' = "idle" /\ genResult' = "error" /\ patchFaults' = patchFaults + 1
    /\ UNCHANGED <<generator, oldFile, deltaSource, given, delta, target, patchFile,
                   sourceSum, wrote, generations, spgOps, spgOffset>>

\* The streaming generator's fields after it has gone through n operations.
KeepsFirst(n) ==
    LET kept == Encoded(SubSeq(delta, 1, n), spgOps, spgOffset)
    IN  /\ spgOps' = kept.ops
        /\ spgOffset' = Field(spgOffset + Len(kept.data))

KeepsOperations ==
    IF generator.streaming THEN KeepsFirst(Len(delta)) ELSE UNCHANGED <<spgOps, spgOffset>>

\* The streaming generator cannot write the data of an insert to its data file,
\* or cannot close it after the last operation.  The patch file is still empty.
DataWriteFails ==
    /\ genStep = "summed" /\ generator.streaming /\ patchFaults < MaxPatchFaults
    /\ \E n \in 0..Len(delta) :
          /\ n < Len(delta) => delta[n + 1].data # <<>>
          /\ KeepsFirst(n)
    /\ genStep' = "idle" /\ genResult' = "error" /\ patchFaults' = patchFaults + 1
    /\ UNCHANGED <<generator, oldFile, deltaSource, given, delta, target, patchFile, sourceSum,
                   wrote, generations>>

WritePatch ==
    /\ genStep = "summed"
    /\ genStep' = "idle" /\ genResult' = "nil" /\ wrote' = "all"
    /\ patchFile' = Whole
    /\ KeepsOperations
    /\ UNCHANGED <<generator, oldFile, deltaSource, given, delta, target, sourceSum,
                   generations, patchFaults>>

\* A write or flush of the patch file fails, or the look at the whole file for
\* the PatchInfo.  The serializer returns the error of a write that does not
\* fit its buffer any more, drops that of its deferred Flush, and then only a
\* file without a header is noticed; the streaming generator returns every
\* error.  Both leave the file.
WriteCutShort ==
    /\ genStep = "summed" /\ patchFaults < MaxPatchFaults
    /\ patchFile' \in Cuts(Whole) \cup {Whole}
    /\ genStep' = "idle" /\ patchFaults' = patchFaults + 1 /\ wrote' = "part"
    /\ genResult' \in {"error", "nil"}
    /\ genResult' = "nil" =>
          ~generator.streaming /\ patchFile'.head /\ patchFile' # Whole
    /\ KeepsOperations
    /\ UNCHANGED <<generator, oldFile, deltaSource, given, delta, target, sourceSum,
                   generations>>

\* Killed while it writes; the next call has a new generator.
KillGenerator ==
    /\ genStep = "summed" /\ patchFaults < MaxPatchFaults
    /\ patchFile' \in Cuts(Whole)
    /\ genStep' = "idle" /\ genResult' = "killed" /\ patchFaults' = patchFaults + 1
    /\ wrote' = "part"
    /\ spgOps' = <<>> /\ spgOffset' = 0
    /\ UNCHANGED <<generator, oldFile, deltaSource, given, delta, target, sourceSum,
                   generations>>

EditOld ==
    /\ genStep = "delta"
    /\ oldFile' \in Sources
    /\ UNCHANGED <<generator, genStep, deltaSource, given, delta, target, patchFile,
                   sourceSum, wrote, genResult, generations, patchFaults, spgOps,
                   spgOffset>>

PatchNext ==
    \/ NewGenerator \/ EditOld \/ SumSource \/ SumSourceShort \/ FailGeneration
    \/ WritePatch \/ DataWriteFails \/ WriteCutShort \/ KillGenerator
    \/ /\ generations < MaxGenerations
       /\ \E list \in Lists[generations + 1] : BeginGeneration(list)

PatchSpec == PatchInit /\ [][PatchNext]_patchVars

-----------------------------------------------------------------------------
(* Properties.                                                             *)

PatchTypeOK ==
    /\ genStep \in {"idle", "delta", "summed"}
    /\ genResult \in {"none", "nil", "error", "killed"}
    /\ generations \in 0..MaxGenerations /\ patchFaults \in 0..MaxPatchFaults
    /\ spgOffset \in 0..(FieldValues - 1)

\* The fields hold the delta, and the generator has no operations of an earlier
\* call (a second call of the streaming one writes those too).
Fits ==
    /\ Len(Encoded(delta, <<>>, 0).data) < FieldValues
    /\ \A i \in DOMAIN delta : delta[i].size < FieldValues
FirstUse == generator # <<>> /\ (generator.streaming => generations = 1)

\* A file that a call has written with no error on the way, or any that passes
\* the validator after a write that failed or was killed, applies to the old file
\* and gives the new one, if both reads of the old file saw all of the same
\* content (the second may also be cut short by an error, unnoticed).
\* So the optimizer never changes what a delta makes, whatever overlaps, gaps
\* and short copies it has.
PatchApplies ==
    genStep = "idle" /\ FirstUse /\ sourceSum = deltaSource /\ Fits
      /\ (wrote = "all" \/ (wrote = "part" /\ Valid(patchFile))) =>
        Applied(patchFile, deltaSource) = [ok |-> TRUE, file |-> target]
=============================================================================
