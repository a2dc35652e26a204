# HexDiff: specification and proofs

TLA+ modules for HexDiff, the binary differ in this repository: a rolling-hash
delta engine, a patch format and its applier, directory patches, backups, a library
of worker pools, streams and buffers, and the command line over it. TLC checks the modules on
small instances; TLAPS proves the most important properties for every value of the
constants. Paths below are relative to the repository root.

Contents: [the system](#the-system), [modules](#the-modules),
[runs](#the-runs), [fairness](#fairness-and-deadlock), [proofs](#the-proofs),
[divergences](#where-the-code-and-its-promises-part),
[not modelled](#what-is-not-modelled), [plan](#plan).

## The system

| component | source | state | operations |
|---|---|---|---|
| Delta engine | `pkg/diff/engine.go`, `types.go`, `pkg/hash` | block signature of the old file, ring-buffer window, rolling hash, pending insert, operation list | `GenerateSignature`, `GenerateDelta` |
| Delta optimizer | `pkg/diff/optimizer.go` | operation list | `OptimizeDelta` |
| Patch generator | `pkg/patch/generator.go`, `streaming_generator.go` | two checksums, delta, what an earlier call left | `GeneratePatch`, `GeneratePatchStreaming` |
| Patch file format | `pkg/patch/format.go`, `serializer.go`, `validator.go` | header, operation table, data section | serialise, deserialise, validate |
| Patch applier | `pkg/patch/applier.go` | source, target, backup and temporary file | `ApplyPatch`, `ApplyDelta` |
| Directory diff | `pkg/diff/walk.go`, `dir.go`, `dir_engine.go` | two listings, four channels, a WaitGroup | `WalkDirectory`, `CompareDirectories`, `ProcessDirDiff` |
| Directory patch | `pkg/cli/engine_adapter.go`, `pkg/patch/dir_serializer.go`, `dir_format.go` | target tree, staged `.tmp` file, patch file | `SerializeDirPatch`, `DeserializeDirPatch`, `ApplyDirPatch` |
| Concurrent processor | `pkg/performance/concurrent.go` | job and result queue, pause flag, context, counters | `Submit`, `SubmitWithTimeout`, `Pause`, `Resume`, `Stop`; `BatchProcessor`, `WorkerPool` |
| Streaming processor | `pkg/performance/streaming.go`, `cache.go` | per call: jobs and results; shared: LRU cache, context | `ProcessFiles`, `ProcessFile`, `Stop`, `Get`, `Put` |
| I/O optimizer | `pkg/performance/io_optimizer.go` | shared write buffer and read-ahead cache; each reader's position | `Write`, `Sync`, `Close`, `Read`, `Seek` |
| Recovery | `pkg/integrity/recovery.go`, `enhanced_applier.go` | backup directory | create, restore, clean up, `ApplyPatchWithIntegrity` |
| Integrity checks | `pkg/integrity/checker.go`, `realtime.go` | table of checksums, job and result queue | verify, `SubmitJob`, `Stop`, `GetResults` |
| Metadata | `pkg/metadata/manager.go` | one JSON record per patch | load, update, save, delete |
| Compression | `pkg/compression` | none that outlives a call | wrappers of libraries |
| Command line | `pkg/cli`, `cmd` | the files it is given, configuration, progress bar | commands |
| Library interface | `HexDiff.go` | as the command line | `DiffTo`, `ApplyTo`, `DiffDirTo`, `ApplyDirTo` and wrappers |

How they interact. The command line and the library interface call one `EngineAdapter`,
and that the generator or the directory engine. Both call `Engine.GenerateDelta`, which ends in
`OptimizeDelta`; the delta is stored in a patch file. `ApplyPatch` reads it and
replays its operations. `ProcessDirDiff` runs the engine for each modified file in
a worker goroutine, connected to its caller by channels, and reports its progress to a bar that the
command draws too; `ApplyDirPatch` replays the
serialised list, calling `ApplyDelta` for each modified file. `pkg/performance` and
`pkg/metadata` are libraries of their own, which the commands do not use.

What is hard. *Files*: everything is read by name more than once, so a checksum may
speak of another file than the bytes that were copied; a kill can come between any two
calls; retries find what an earlier try left; errors of buffered writes are dropped. *Concurrency*:
the pipelines depend on who closes which channel when, on WaitGroup counts and on buffers
of one place; several objects share a buffer, a cache or a position without a lock. *Data*: the ring
buffer, the rolling hash's modular arithmetic, the merges of the optimizer and the fields of
limited width each have off-by-one and wrap-around cases that only special
inputs reach. PROJECT.json lists these hazards line by line, with the properties that
guard them.

## The modules

A module is one component; `MC...` modules give the constants concrete values for
TLC, `...Proofs` modules hold the theorems. A definition named `X_Variant`, placed just
before `X`, is a plausible bug in the code of `X`: putting it in the place of `X` must
make a property fail, which is how each property is shown to say something. No
specification uses these variants.

| module | models | key definitions |
|---|---|---|
| `AtomicUpdate` | nothing of the code: the promise "all or nothing" | `Begin`, `Commit`, `Abort` |
| `PatchApply` | `Applier.ApplyPatch` with its environment | `Step`, `Crash`, `EditTarget`, `EditSource` |
| `DeltaOps` | operations, their replay, the optimizer: pure operators | `Rebuild`, `OptimizeDelta` |
| `DeltaEngine` | signature and scan of `GenerateDelta`, on top of `DeltaOps` | `SlideWindow`, `CopyBlock`, `DrainWindow` |
| `Parts` | files written part by part, for the two formats | `Joined` |
| `PatchGenerator` | both generators, the patch file, what the applier and the validator make of it | `SumSource`, `SumSourceShort`, `WritePatch`, `DataWriteFails`, `WriteCutShort`, `Applied`, `Valid` |
| `DirDiff` | the three goroutines of `ProcessDirDiff` | `Main`, `Worker`, `Collector` |
| `DirDiffDisplay` | the same with the progress task and the command that finishes it | `ReportProgress`, `SetTotal`, `SetCurrent` |
| `DirPatch` | compare, serialise and apply a directory | `Generate`, `Stage`, `Rename`, `Refuse` |
| `DirPatchFile` | the bytes of a directory patch, written whole or in part and read back | `MarshalPatch`, `ReadPatch` |
| `Recovery` | `ApplyPatchWithIntegrity` with its backups, checksum table and realtime verifier | `Write`, `CleanUp`, `CopyBlock`, `BeginRestore` |
| `ConcurrentProcessor` | `ConcurrentProcessor` and its workers | `Work`, `Client`, `Cancel` |
| `JobService` | nothing of the code: what a processor of jobs promises its clients | `Accept`, `Begin`, `Drop`, `Finish` |
| `WorkerPool` | `WorkerPool` | `SubmitToPool`, `RunInPool`, `ClosePool` |
| `BatchProcessor` | `BatchProcessor` over the processor's queue | `AddJob`, `FlushBatch`, `SubmitBatch` |
| `ConcurrentVerifier` | `ConcurrentVerifier` and its client | `SubmitBlock`, `SendVerdict`, `ReadVerdict` |
| `Streaming` | `ProcessFiles`, `ProcessReader`, its workers, the LRU cache | `ReadChunk`, `LookUp`, `ProcessChunk`, `Collect` |
| `WriteBuffer` | the optimized writers and the buffer they share | `BufferWrite`, `FlushTo`, `FlushFails` |
| `ReadAhead` | the readers of one optimizer, their prefetches and the cache they share | `ReadBytes`, `PrefetchRead`, `PrefetchPut` |
| `Metadata` | updates and deletions of the records | `LoadMetadata`, `LoadFails`, `EmptyRecord`, `SaveMetadata` |
| `CommandLine` | the commands and the library's calls on a disk, with exit codes | `Diff`, `Apply`, `ApplyTo`, `Validate` |
| `MCLibrary` | eleven independent parts, one at a time | `part`, `LibrarySpec` |
| `PatchApplyProofs`, `DeltaOpsProofs`, `DeltaEngineProofs`, `DirDiffProofs`, `DirPatchProofs`, `RecoveryProofs`, `ConcurrentProcessorProofs`, `LibraryProofs` | the theorems | see [proofs](#the-proofs) |

**PatchApply.** `pc[a]` is where call `a` stands in `ApplyPatch`; each value is named for
what is behind it (`verified`: the source checksum matched; `checked`: the temporary file's
did). A file holds one abstract content, `Torn` (partly written) or `Absent`. An
open handle matters because the source is opened a second time after the check
(`applier.go:98` and `:110`) and a rename leaves a handle on the replaced file: `view` is what the
handle shows, `live` whether it is still the named file, `pristine` whether everything read so far
was what the patch expects. `ApplyOperation` is one operation of the patch, so edits fall
between two reads. `Fail` is any error return (with the deferred `os.Remove`), `Crash` a kill
(without it). The backup (`copyFile`) is two steps, truncate and end of copy; the rename is one.
Two variables are history and no step depends on them: `owned` is what the target was when a user last had it, `late` the calls that
were between the start of their backup and the rename when a user last wrote it.
Abstracted: the bytes (two contents have one checksum only if they are equal), the
operation kinds (these are in `DeltaOps`), permissions.

**DeltaOps, DeltaEngine.** Files are sequences of bytes. `DeltaEngine` has one
action per turn of the scan loop: a match (`CopyBlock`, which refills the window), a slide by
one byte, the end of the file, the final flush and `Optimize`. The window is the ring buffer of the
code with its index. `Base` and `Mod` are the code's constants as parameters, and `Crc` is any function:
properties hold for a rolling hash that collides nearly always. `Rebuild`
replays operations as the applier does (short copies, gaps that read as zero).

**PatchGenerator.** A generator (of either kind, which decides whether a second call keeps the first
one's operations) is called several times; the old file is read for the delta and then for its
checksum, and may change in between. The delta is any list of operations, also lists the engine never makes, and goes
through `OptimizeDelta`. The patch file is a header, a number of operations, the operations and the data;
each field holds `FieldValues` numbers and wraps where the code converts to `uint32`. The checksum may silently be that of a
prefix (`SumSourceShort`, `generator.go:112`). A write may fail, with an error or, if it is the serializer's deferred flush, without one, or be killed; what is left is any prefix
or all of the file (`WriteCutShort`). A streaming generator that cannot write its data file (`DataWriteFails`) keeps the operations up to there. `Applied` and `Valid` are the reader's view.

**DirDiff, DirDiffDisplay.** Files are numbered in the order they are fed, so `fileChan` is the interval
`taken + 1 .. sent`. `errChan` holds one error (0: none), `progressChan` a sequence, both
with the capacity of the code; a goroutine whose send does not fit is not enabled. The one worker
really is one: `WorkerCount` only sizes the channels (`walk.go:217`, `:251`). `DirDiffDisplay` adds the task's
current value and total: the collector, which nobody waits for, still sets percentages when the command already
sets bytes.

**DirPatch, DirPatchFile.** A tree maps each path to a content, `Dir` or `Absent`. `Generate` makes the list of
changes in any order the Go map iteration may give, then added, deleted, modified as the
serialiser orders them. Each file operation of `ApplyDirPatch` is an action; `os.WriteFile` is two.
`Refuse` is the error return when the tree does not fit, with the directories
`MkdirAll` has made by then. `Interrupt` is a kill or an I/O error, after which a second call may follow.
`DirPatchFile` has the bytes below: lengths in fields of `LengthValues` numbers, a path and data one unit per byte, any prefix of it on disk.

**Recovery.** A file is a sequence of blocks of the size that the checker, the buffer and the verifier share (64 KB in the default
configuration); `Torn` is a block cut short. `table` is the checker's single map of checksums, which `SumSource`,
`VerifyTarget` and `BeginRestore` load with another file's; `offset` and `rest` are the realtime verifier's, which outlive a call when
the applier is used again. `pc` says which of the steps of `ApplyPatchWithIntegrity` comes next. A backup is known by its path and
second (`recovery.go:75`) and aged by `stamp`, its modification time; `Globs` says whose backups the pattern `p.*.backup` finds, which need not be
those of `p`: the code puts the name into the pattern as it is (`recovery.go:159`, `:245`). `Globs` is any function. A copy is
two steps, truncate and end, so that errors and kills fall between them. `before` is what the target held when the call began and `stale` how many blocks
earlier calls had left in the verifier; they are only there for the properties. The paths have different base names (backups are named by these), one call runs at a time,
and nobody else writes to the target during it.

**ConcurrentProcessor, WorkerPool, BatchProcessor.** `phase` (in the pool: `pool`) is how far `Stop` has come: context cancelled, queue
closed, workers gone. A Go `select` takes any of its ready cases, and a send on a closed
channel is ready and panics; `Submit` therefore has the disjuncts `Accept`, `Panic` and two rejections.
`SubmitWithTimeout` may wait, and may find its context done at any time. The counters are
changed where the code changes them, `submitted` in a step after the send. `BatchProcessor` submits to a processor that is
never started, so its queue only fills. `JobService` is what a client sees of processor or pool: how far the stop and each of its jobs are
(`StateOf`, `PoolStageOf`). A job that has begun is never dropped and its result, if it has one, is reported before the stop
is complete; an accepted job that has not begun may be dropped, but only by a stop.

**Streaming.** One reader per call, its workers and its collector, several calls under a semaphore. `stage[f][w]` says what a
worker does with its chunk. Only keys are in the cache: what the client's function returned is not used. A file is the list of its
chunk lengths. `readFaults` bounds failed opens, reads and memory checks; `cancelled` is `Stop`.

**ConcurrentVerifier.** The client submits its blocks, calls `Stop`, and reads the results `after` it or in a goroutine `beside` it,
since `GetResults` only ends when `Stop` has closed the results.

**WriteBuffer, ReadAhead.** A written byte is the pair of its file and its number, a byte read the pair of its file and its offset, so
every misplaced one shows. A flush that fails has written any part of the buffer and keeps all of it (`io_optimizer.go:449`). Any number of readers of any files
share the optimizer's cache, whose key is an offset without a file (`io_optimizer.go:102`, `:365`). A prefetch is two
steps, since it reads the position twice; its read may fail.

**Metadata.** A record is the set of updates in it; `os.WriteFile` is two steps. `BaseName` maps a patch to its record. `LoadFails` is a read error of a record that is
whole: `UpdateMetadata` takes any error for a missing record (`manager.go:154`).

**CommandLine.** `disk` maps a few paths to contents and `backups` to what is at `n.backup`; a patch is a value with its version and the contents it leads
from and to. Each command is one action with all its outcomes, failing writes included, and the exit code of `setDefaultExitCodes`. What happens inside a command is in the other modules.

**MCLibrary.** `part` picks one of eleven modules that share no variable with each other, and only that one moves. So one run explores the sum of
their state spaces, not the product, and each module's properties hold of the others trivially.

## The runs

A pass run explores its whole state space. A violation run states something the code or its
documentation says and that TLC refutes.

| run | instance | shows |
|---|---|---|
| `apply_race` | two calls, two patches for one target, separate source, two operations each, two edits by users; 48,500 states | the target is never torn or wrong, `ApplyPatch` implements `AtomicUpdate` |
| `apply_retry` | one call in place, three tries, three edits, also during the backup; 7,368 states | what the user last had survives in file or backup, except a write between the start of the backup and the rename; no stray temporary except after a kill |
| `engine_scan` | all binary files up to 6 and 7 bytes, blocks of 3, hash modulo 5; 268,685 states | window, hash and operations agree with the new file at every step; the delta rebuilds it; no reusable block is missed; the scan ends |
| `dirpatch_apply` | a file, a directory with a file, three contents of two sizes, any target tree, an interruption and a second call; 2,251,651 states | success means patched; bystanders untouched; modified files whole |
| `recovery_calls` | two calls on the files `x*` and `x[*]` (the pattern of the first finds the backups of both, that of the second those of the first but not its own), all contents of up to two blocks, two seconds, two errors or kills, an edit, one backup kept; 3,643,224 states | until a call succeeds the target's old content is in it or in a backup; a restore finds that backup if the pattern can; what is copied was checked, and against which block |
| `processor_work` | two workers, three clients with a job each, queues of one place, one pause; 184,281 states | no job lost or run twice, the processor implements `JobService`, counters agree, `Stop` returns, accepted jobs run |
| `library_parts` | eleven parts, see below; 192,104 states | one or two properties for each part |
| `dirdiff_two_bad` | 3 files, two unreadable | violation of `Returns` |
| `display_small` | a tree of 7 bytes | violation of `BarFits` |
| `dirpatch_swap` | a path turns from file to directory | violation of `CleanApplySucceeds` |
| `cli_apply` | `diff`, then `apply` | violation of `ApplyAcceptsDiffs` |
| `io_readahead` | one reader of a file of 4 bytes, blocks of 2, three reads or seeks | violation of `ReadsFile` |

The parts of `library_parts`:

| part | instance | shows |
|---|---|---|
| `display` | 5 files of 25 to 400 bytes, channels of 2, at most one unreadable | no send on a closed channel, the first error is returned, the call returns, the bar fits |
| `stream` | two files of two chunks whose first chunks share a key, one worker per call, a cache of 2, one read error, `Stop` at any time, cache on or off | success means processed; every call ends and its results are counted |
| `pool` | 4 jobs, one worker, a queue of 2, `Stop` at any time | jobs run unless stopped, `Stop` returns |
| `batch` | 5 jobs, batches of 2, a queue of one | each job is in one place, none whose `AddJob` failed is accepted |
| `verifier` | up to 5 blocks, 2 and 5 bad, two workers, queues of 4 | the calls end with one right verdict per block |
| `write` | two files of 2 bytes, a buffer of 2, one failing flush | files are whole and unmixed within the limits stated |
| `read` | two readers of a file of 4 bytes, one of a file of 2, blocks of 2, three reads or seeks | each reader is right unless overtaken or another file was prefetched |
| `patch` | all lists of up to two of 7 operations and two of three, fields of 4 values, two calls, one fault, an edit | a patch that is accepted rebuilds what it promises |
| `dirfile` | up to 2 entries with data of 0 to 4 bytes, length fields of 4 values, cut anywhere | read back as written, or refused |
| `metadata` | four updates of three patches, two with one base name, one failing read or write | no update is lost except in the cases stated |
| `command` | two runs on two files, a tree and a patch, one failing write | a refusal changes nothing, or nothing that was there |

Why the bounds are enough. *apply*: every property is about two files and one or two calls; two edits
let a user change a file and change it back (or change both files), and three tries let a retry follow a try
that itself followed a failure. In place there is an edit more, so that one can come before, during and after a backup. *engine*: blocks of three with a file of seven let the ring
buffer wrap, two matches follow each other at different distances, a match follow an insert,
and the tail be 0, 1 or 2 bytes; the small modulus makes most hash hits false. Byte values only matter
through equality and the hash, and two of them are enough for both. *dirpatch*: one file at the top and one in a
directory give each entry kind with and without `MkdirAll`, and all three kinds together. *recovery*: two
calls are the fewest in which a backup meets an older one, in the same second or not, of the same file or of one
the pattern confuses with it or finds instead of it, and in which the verifier is used again; two faults are a failed copy and a kill or an error
in the recovery from it. *processor*: one place in each queue makes every
send block; three clients make two wait at once for one place.
*display*: five files exceed each channel and the hands of the goroutines, so each
goroutine blocks on each channel. *stream*: the two calls compete for the cache, a short last chunk and a full one end the reader on its two paths. *pool*, *batch*, *verifier*: one more
than the queues and workers hold. *write*: `BufferWrite` with more than the buffer, an exact fit and less. *patch*: merges and redundant
deletes look at adjacent pairs, three operations are the shortest list in which one pair's merge makes the next; with fields of 4 values, offsets and sizes
of 4 wrap. *read*: two reads fill the cache and a third, by the same reader, another of the file or one of the other file, finds it. *metadata*: two patches under one name, one of them updated twice. *command*: an application needs a patch, so two runs.

Bounds that are not in the code: `MaxRuns`, `MaxEdits`, `Operations` (PatchApply), `MaxOld`, `MaxNew`
(DeltaEngine), `MaxFailures` (DirDiff), `MaxRuns`,
`MaxFaults` (DirPatch), `MaxBlocks`, `MaxCalls`, `MaxSeconds`, `MaxFaults`, `MaxEdits` (Recovery), `MaxJobs`, `MaxPauses` (ConcurrentProcessor),
`MaxReadFaults` (Streaming), `MaxBlocks` (ConcurrentVerifier), `MaxWritten`, `MaxFlushFaults` (WriteBuffer), `MaxReads` (ReadAhead),
`Lists`, `MaxGenerations`, `MaxPatchFaults` (PatchGenerator), `Entries`, `MaxEntries` (DirPatchFile), `MaxMetadataFaults` (Metadata),
`MaxCommands`, `MaxCommandFaults` (CommandLine). `FieldValues` and `LengthValues` are 2^32 in the code. The theorems hold for every value of the bounds.

Configuration switches describe the circumstances in which a property is claimed. `Stamped = TRUE` in `DirPatch`:
a changed file has another size or modification time, which is what `CompareDirectories` looks at.
`Swaps` is `FALSE` in `dirpatch_apply`: `dirpatch_swap` shows what it breaks. `TempNames` is `FALSE` in both: with it a tree may hold a
file `f.tmp` beside `f`, and the staging of `f` overwrites it, which refutes `RoundTrip`.

Several properties name the case in which the code gives no guarantee, so that they hold of everything else: `OriginalKept` (a user writes between the start of the backup and the rename),
`RestoresPrevious` (a name whose pattern does not find its own backups, no target before), `CopiedIsChecked` (a used verifier compares with the checksum of a later block), `NilMeansProcessed` (equal cache keys),
`WrittenWhole` (two open writers, a failed flush), `ReadsFileUnlessOvertaken` (another file in the same cache), `UpdatesKept` (overlapping updates, deletion, a cut write, a failed read),
`RefusalsKeepFiles` (new files and backups of some errors), `VerifierEnds`
(more blocks than the queues hold and nobody reading), `PatchApplies` (fields that wrap, an old file that changes, a streaming generator used twice).

## Fairness and deadlock

`DeltaEngine` is one goroutine in a loop: weak fairness of `Next`. `DirDiffDisplay`, `ConcurrentProcessor`, `Streaming`, `WorkerPool` and
`ConcurrentVerifier` assume weak fairness for each goroutine separately, which the
Go scheduler gives to every goroutine that can run; `LibraryFairness` repeats the formulas of the last four for the behaviours of their part.
In processor and pool, jobs are assumed to end (a job that
does not end is the client's) and a `Stop` that has begun is assumed to go on. There is no fairness for the processor's clients, `Pause`,
`Resume` or the first step of any `Stop`; `AcceptedRun` therefore excepts a processor that stays paused for ever, `StreamEnds` and `PoolServes` hold with and
without a `Stop`. The verifier's client is assumed to call `Stop`, without which `GetResults` never ends.
The other modules have safety properties only and need no fairness.

All configurations have `CHECK_DEADLOCK FALSE`: every one of these components is a call that returns,
or a server whose clients may have nothing more to ask, so a state without successor
is the normal end. Where a stop could be a real deadlock, a liveness property
looks for it: `Returns`, `StopReturns`, `AcceptedRun`, `Terminates`, `StreamEnds`, `PoolServes`, `VerifierEnds`.

## The proofs

Fifty-two theorems, in eight modules, checked by TLAPS to the last leaf. They are about every value of the constants, within the
assumptions named in the modules (`...Assumption`), which TLC evaluates in the runs, and the hypotheses stated with each theorem.

`PatchApplyProofs`:
- `TypeCorrect`: `Spec => []TypeOK`.
- `TargetIsNeverTorn`: with `VerifyEnabled`, `Spec => []TargetIntegrity`. `TargetIntegrity` is not inductive, since
  nothing in it restricts the temporary file that `Replace` moves over the target. `IntegrityInv` adds
  `CheckedTemp`: from the checksum on, the temporary file is the new content. Edits, races and kills do not touch it
  because its name is fresh.
- `ApplyIsAtomic`: with `VerifyEnabled`, `Spec => ImplementsAtomicUpdate`. Under the mapping (`file` is the target,
  `status` what the call has reported) every step is `Begin`, `Commit`, `Abort`, `UserWrite` or a stutter; `Replace` is
  `Commit`, which needs `CheckedTemp` again. `StatusStep` and `StatusSame` do the bookkeeping of the mapped status.
- `RetriesKeepTheOriginal`: `Spec => []OriginalKept` for a single caller, in place, with backups on and a patch made from a user's
  content. `OriginalKept` says that what the user last had is in the file or in the backup, unless the user wrote it between the start of the backup and the
  rename (`late`). `RetryInv` adds `UserContentHeld`: outside the calls the file is what the user had, or the patch's content with the user's in the backup; between the
  source check and the rename the file is the user's, and after the copy so is the backup if nobody wrote meanwhile. That is why the
  backup of a retry cannot be overwritten by an already patched file: such a file fails the
  source check.
- `TempsAreRemoved`: `Spec => []NoStrayTemp`, which is inductive with the types.

`DeltaEngineProofs`, with the lemmas of `DeltaOpsProofs`, for any two files, any block size, any base and modulus of the rolling hash
and any checksum function:
- `ScanTiles`: `Spec => [](TypeOK /\ WindowIsNext /\ RollingHashIsFresh /\ OpsTile)`, with no hypothesis: however hashes
  and checksums collide, the operations cover the new file with no gap and no overlap.
- `ScanIsRight` and `DeltaIsRight`: `ScanInv` and `DeltaRebuildsNew` hold in every behaviour whose two files satisfy `NoFalseMatch`: no block of the old file
  has the hash, size and CRC32 of other bytes that the scan may look up. The code compares nothing else (`types.go:90`), so the
  hypothesis cannot be dropped. In the instance of `engine_scan` all files satisfy it, because `MCCrc` is injective, although the hash collides.
- `ScanMovesOn`: every step lowers `ScanLeft`, which starts at `Len(new) + 5` and is 0 exactly when the delta is finished, so no collision makes the
  scan run on for ever.
- `BlocksAreReused`: `Spec => []BlocksReused` if `EnableCRC32`; without it no block is ever found (see below).

  `EngineInv` is inductive and does not mention `NoFalseMatch` or `EnableCRC32` except where a conjunct depends on them. Its conjuncts: the window is a
  stretch of the new file and its hash is that stretch's (`WindowInv`); what was hashed is what was read (`ReadInv`); the operations tile the file, copies write what
  the file has there and no insert contains a block (`OpsInv`, by `GoodOps`); the pending insert continues them up to the window, and no block starts in it up to the window's
  last byte but one (`PendingInv`). That last part is why an insert, closed by a match or by the end of the file, has no
  block that straddles the place where it is closed. `OpsInv` also says that the list ends in a copy while an insert is pending, so no
  two inserts are adjacent, and the optimizer does not make one of two that each were free of blocks.
  `RollHashIsHash` shows that taking a byte out of the hash and putting one in gives the hash of the window that is one further, from
  `HashesStayApart` and the congruences modulo `Mod`; `RingSlides` that overwriting the oldest byte and moving the index is a slide of the sequence.
  `OptimizedTiles`, `MergedWrites` and `MergedInserts` carry tiling, content and inserts through `OptimizeDelta`, and `RebuildGivesFile` says that operations that
  tile a file and each write what it has there rebuild it.

  The recursion of hashes, merges and replay is written as recursive functions on `0..n`. Their equations come from `SolutionExists`, which builds the
  function from the set of lengths for which there is one; induction over that set is `UpTo`, by its least counterexample.

`DeltaOpsProofs` also has a theorem about any list of operations, overlapping, with gaps, out of order or with copies that run past the end of the old file:
- `OptimizerKeepsResult`: the optimized list makes the same file of every old file. Operations are writes (`Wrote` says what `WriteAt` leaves at each place), and
  those of neither or of two adjoining pieces are one write (`WritesMeet`, `SlicesMeet`), which carries over to lists that differ in a merged pair (`RebuildMerge`) and
  so to each of the optimizer's passes (`StepsRebuild`, `Preserves`). It needs `SizedOps`, that an insert's size is that of its data: the engine makes no other (`engine.go:311`).

`DirDiffProofs`: `GroupIsBalanced`, `NeverSendsOnClosed` and `FirstErrorReturned`, for any number of files, failures
and any channel size. `PipelineInv` says that the WaitGroup's counter is the number of files on their way
(`GroupCountsFiles`), where the goroutines stand relative to each other (`Order`), that every file the worker is
through with was read or has failed (`FilesAccounted`), and where the first error is now (`ErrorHeld`). `LargeTreeBarFits`: for a tree of at least 100 bytes no draw is longer than
the bar. `DrawnWithin` bounds the current value by the number of bytes, whichever goroutine wrote last, and says that the total drawn is that number or not yet set.
What can be proved of `Returns` without fairness:
- `EveryStepGoesOn`: every step of any goroutine lowers `StepsLeft`, which starts at `8 * FileCount + 6` and is never negative. So a call cannot go on for ever;
  it can only stop, or be blocked.
- `OnlySecondErrorBlocks`: until all three goroutines have ended one of them can go on, except when the worker holds the error of a second file while that of the first is in `errChan`
  (`HoldsSecondError`). The guards of the steps are written out in `MainCanStep`, `WorkerCanStep` and `CollectorCanStep`, as the prover has no `ENABLED`. With at
  most one unreadable file the exception cannot arise; with two it does, in `dirdiff_two_bad`. The code has no other circle of waits.

`DirPatchProofs`, for any finite set of paths without staging names in use (`~TempNames`, see [runs](#the-runs)), any trees and contents, any order
of the entries, any calls and interruptions:
- `DonePatchIsNew` (`PatchedIsNew`): the entries before the current one are done and no later one undoes them (`EntriesApplied`).
- `DiffThenPatch` (`RoundTrip`), if every change shows in size or time (`Stamped`): the call adds to that what `CompareDirectories` lists, that it left the files the patch does not
  list alone, and that none appeared (`NoNewFiles`).
- `UnlistedFilesKept` (`BystandersKept`) and `NoHalfModifiedFile` (`ModifiedWhole`). `NoLitter` says what is under the staging names: what a call that did
  not get past a modified entry left there, and never a directory.
- `FirstCallSucceeds` (`CleanApplySucceeds`), without `Swaps`: `FirstCall` says of an uninterrupted first call that a directory or file of the target is one in
  the old or the new tree, and that the files still to be modified are old, so no entry meets something of another kind.

`RecoveryProofs`: `TypeCorrect`, `PreviousIsHeld`, `RestoreIsPrevious` and `CopyIsChecked`, for any files and contents, any number of backups kept, calls,
failures and kills. `PreviousHeld` alone is not inductive: nothing in it says that the cleanup spares the backup, or that `Latest` is
that one. `RestoreIsPrevious` is about a target that was there, with a name whose pattern finds its own backups. `RecoveryInv` adds that no two backups have the same age (`StampsUnique`), that from the end of its copy the call's own backup is the newest of
all (`Backed`), and that source, target and backup exist where the steps use them (`FilesThere`). `LargestNumber` gives the latest backup its existence.
`CopyIsChecked` says with which checksum each copied block was compared: block `stale + i` of the source, which is its own place for a new applier and a later one for a used one. It uses
`Copied`, which says where reader, verifier and target stand relative to each other.

`ConcurrentProcessorProofs`: `TypeCorrect`, `NoJobIsLost`, `NoJobRunsTwice`, `ResultsOutliveWorkers` and `CountersAreRight`, for any finite
sets of workers and clients and any queue size. `ProcessorInv` adds to the properties that what is queued, held or done was accepted and that a
worker has a job exactly between `TakeJob` and `SendResult` (`Accounted`), and that an accepted job has a number its client has
used (`Numbered`), so a new job is never one already there. `QueueGrows` and `QueueShrinks` say what `Append` and `Tail` do to
the set of queued jobs. `CountersAreRight` follows the cardinalities through each step. `ProcessorServesJobs`, `Spec => ImplementsJobService`, maps every step to one
of `JobService` or a stutter. A job's state there is computed from where it is (`Stations`: queued, or in the hands of which worker), so `Accounted` and `OnePlace` are
what makes a step of one job leave the others' states alone; that a stop is complete only when nothing runs is `NoSendOnClosedResults`. What lies behind `StopReturns` and `AcceptedRun` (see [below](#progress-without-fairness)) is
`ProcessorNeverStuck` and `StopEndsInSteps`.

`LibraryProofs`, one section for each of ten parts of `MCLibrary` (the eleventh is `DirDiffDisplay`), and one for all of them:
- `EveryChunkIsProcessed`, `StreamSpec => []NilMeansProcessed`, for any files, calls, numbers of workers (none included) and
  cache size. A chunk that was taken is handled or in a worker's hands (`Taking`), a worker leaves only when everything sent was taken, unless `Stop` was
  called (`Leaving`), the reader ends normally only when everything was sent (`Sending`), and the cache holds only keys of chunks that were
  processed (`Caching`), whatever is evicted. `ShortIsLast` is the reader's reason to stop at a short chunk.
- `FilesAreWhole`, `WriteSpec => []WrittenWhole`. `BufferOwned` adds that there is one open writer at most, and that the buffer is
  empty when there is none: a writer that opens finds nothing of another's. `FreshExtends` says that what comes next continues what was written.
- `ReadsTheFile`, `ReadSpec => []ReadsFileUnlessOvertaken`, and `ReaderTypes`, for any readers and files. The cache has only full blocks under their own offset (`CacheSound`),
  because a prefetch between its two looks has read where the second look will find its reader (`PrefetchSound`); of which file they are is known only as long as one file was prefetched.
- `RecordsKeepUpdates`, `MetadataSpec => []UpdatesKept`, with a failed read as one more disturbance (`LoadFailureKeeps`). Of a record that nothing disturbed, one update at most is between read and write; it has read
  everything saved before, and the file is empty only between its own two writes (`RecordHeld`).
- `BatchLosesOnlyRefused`, `BatchSpec => []BatchKept`, for any batch and queue size: a job that `AddJob` has answered is at exactly one place of buffer, accepted and refused batches, and in a refused one if the answer was an error (`JobKept`).
- `RefusalsLeaveTheDisk`, `CommandSpec => RefusalsKeepFiles`, for any files and directories: after an argument, not-found, read or validation error nothing has changed; after a configuration
  error or one without a code no path that held something has, though a piece of the configuration, a log file or a backup may be new. Failed writes are steps of the specification.
- `PatchGivesNewFile`, `PatchSpec => []PatchApplies`, for any old files, lists of operations, numbers of calls and faults, and values of a field. `GeneratorInv` adds that the optimized
  operations make the new file (`OptimizerKeepsResult`), that the fields of the streaming generator are empty until its first call has written, and that the file of a first call is the whole of it or a cut
  of it. `KeptLength` bounds what a streaming generator keeps after a failed write. `AreasHold` places the data of each operation in the data area, `EncodedStores` and `ReadsBack` show that the applier's bounds checks pass and that it gets the operations back, as long as
  sizes fit (`FitFields`), and `CutIsInvalid` that the validator passes no proper part.
- `DirPatchFileReadsBack`, `DirFileSpec => []DirPatchReadsBack`, for any entries and values of a length field. `FoundUpTo` says what the reader has after each entry of a file that was cut
  anywhere: the entries so far and the rest of the file, or an error as soon as the file ends before them. `EntryFound` is its step.

- `VerdictsAreComplete`, `VerifierSpec => []VerdictsAtReturn`: the part of `VerifierEnds` that is no liveness, for any number of blocks and workers. The blocks taken from the queue are those with a
  verdict and those in a worker's hands, counted once each (`BlocksAccounted`); a worker leaves only when all that was submitted was taken, and the results are closed only when all workers have left (`VerifierOrder`).
- `PoolServesJobs`, `PoolSpec => PoolImplementsJobService`: each function is in one place of the queue and of one worker (`PoolPlaces`), and nothing runs any more when `Stop` has returned.
- `PoolNeverStuck` and `PoolMovesOn`, `OnlyUnreadResultsBlock` and `VerifierMovesOn`, `StreamNeverStuck`: see [below](#progress-without-fairness).
- `EveryChunkIsCounted`: the statistics of the streaming processor. Before `Stop` each chunk that was taken is in a worker's hands, among the results or counted,
  once (`ChunksCounted`), and when a call has returned and its collector is gone the first two are empty.
- `LibraryTypes`, `LibrarySpec => []LibraryTypeOK`. Every part has its own invariant; `LibraryRunsParts` shows that a behaviour of the library is one of each part, by itself. Beyond
  plain types this bounds what the code must bound: no queue or result channel of a call is ever over its capacity and the cache holds no key twice and no more than its size
  (`StreamLimits`), `BatchLimits`, `WriteLimits` and `GeneratorLimits` (the generator's offset stays in its field). For the command line the contents of a disk are a set that is closed under taking what a patch was made
  from and makes (`Closed`), which a command extends but never leaves.

### Progress without fairness

Of a liveness property the prover reaches two parts: that a bounded number of steps is left (a measure which every step lowers), and that until the end somebody can go on.
With them only fairness is missing. The guards of the steps are written out (`MainCanStep`, `WorkerGoesOn`, `PoolCanStep`, `ClientCanStep`, `StreamCanStep` and so on), since `ENABLED` is out
of reach. The theorems that say that somebody can go on need at least one worker: without one what is queued stays there and a submitter at a full
queue waits for ever, in the code as in the model (a worker count of 0 is accepted everywhere). `StreamNeverStuck` also needs `MaxConcurrency > 0`, the size of the semaphore of `ParallelFileProcessor.ProcessFiles`.

| Property | Somebody can go on | Steps are bounded |
|---|---|---|
| `Returns` (ProcessDirDiff) | `OnlySecondErrorBlocks`, except in the deadlock of `dirdiff_two_bad` | `EveryStepGoesOn` |
| `StopReturns`, `AcceptedRun` (processor) | `ProcessorNeverStuck`: what waits waits for `Resume` | `StopEndsInSteps`; before `Stop` a job can be paused again and again |
| `PoolServes` | `PoolNeverStuck` | `PoolMovesOn` |
| `VerifierEnds` | `OnlyUnreadResultsBlock`: only a `GetResults` that comes after `Stop`, with more blocks than places for results, waits for ever (`NobodyReads`) | `VerifierMovesOn` |
| `StreamEnds` | `StreamNeverStuck`: no call waits for the cache, the queue or another call but one that can go on itself | not a theorem: a sum over all calls and workers |
| `Terminates` (delta engine) | not a theorem: one goroutine that waits for nobody | `ScanMovesOn` |

Only model-checked: all liveness (`Terminates`, `Returns`, `StopReturns`, `AcceptedRun`, `StreamEnds`, `PoolServes`, `VerifierEnds`), which is out of the
prover's reach. Every other property of the passing runs is a theorem.

## Where the code and its promises part

Shown by a violation run:
- `dirdiff_two_bad`: a second unreadable file blocks the worker, and with it the call, for ever (`walk.go:266`).
- `display_small`: for a tree of less than 100 bytes the total is set below the percentage that is still the current value, and drawing the bar panics (`engine_adapter.go:312`, `progress.go:163`).
- `dirpatch_swap`: additions precede deletions, so a file cannot become a directory (`dir_serializer.go:28`).
- `cli_apply`: both formats share their magic number; the test for a directory patch returns an error for a file patch, and `apply` (like `info`) refuses it (`command.go:321`).
- `io_readahead`: a prefetch caches a block at an offset it does not come from (`io_optimizer.go:219`).

Seen while modelling, without a run. Delta and patch file:
- With `EnableCRC32` off, block checksums are 0 but still compared with the real CRC (`types.go:90`); no block is ever reused.
- The validator has an issue with every copy operation, so `validate` accepts only patches that insert.
- `StreamingPatchGenerator` keeps the operations of its first call in the second patch.
- A read error while the source is summed ends the loop silently (`generator.go:112`): the patch then has the checksum of a prefix, and the applier refuses the true source.
- Data larger than a `uint32` wraps in the fields and in the bounds checks (`applier.go:306`).
- A truncated patch is reported as written (`serializer.go:79`), a truncated directory patch too (`dir_serializer.go:166`); the readers refuse what is cut, except after the last byte they need.
- The enhanced patch of `pkg/compression` always fails: `binary.Write` is given an `int`.

Directories:
- `ApplyDirPatch` keeps no backup and undoes nothing after an error, although `README.md:7` speaks of automatic backup and recovery.
- `ApplyDirPatch` stages a modified file as `p.tmp` and overwrites a file of that name (`engine_adapter.go:411`).
- A file that was only touched is listed as modified: contents are hashed only if the sizes differ (`walk.go:162-166`). For the same reason, a
  change that keeps size and modification time is not seen.
- A file whose hash cannot be computed is left out of the patch without an error (`walk.go:169`); `RoundTrip` excepts such files.
- The progress collector is not waited for and may draw a percentage after the final value.

Application and recovery:
- What a user writes to the target between the start of the backup and the rename (`applier.go:123-130`) is overwritten by the rename and in no or half in the backup; nothing checks
  for it. `OriginalKept` excepts such a write.
- Two calls that patch one file in place share one `.backup`, and the later can replace the original in it by
  the patched file (`applier.go:371`): `OriginalKept` is claimed for one caller.
- `AutoRecover` does not restore a target that was cut short at a block boundary, or one that cannot be read: `VerifyFile` checks
  the blocks it reads, not that all blocks are there (`checker.go:192-225`).
- If the target did not exist before the call, `AutoRecover` may put an older backup in its place, or one of the file `f.x` in the place of `f`, whose names match
  the same pattern (`recovery.go:159`). The file's name is in the pattern unescaped: for a name with `[`, `*` or `?` the restore may find no backup, or another file's, and the cleanup (`:245`) may
  remove another file's or leave all.
- A backup is checked against checksums made from itself a moment before (`recovery.go:118`), so a torn one passes. A second call after a kill
  backs up what the kill left, in the same second over the good backup: `PreviousHeld` is about the running call.
- The realtime verifier is not reset between calls (`realtime.go:173` is never called), so a second call with the same applier compares block `i` with the checksum of block
  `stale + i` and usually fails.
- `ApplyPatchWithIntegrity` with the source as target empties the file and reports success (`enhanced_applier.go:204-211`); it
  copies the source in any case and takes no patch into account.

`pkg/performance` and `pkg/metadata`:
- `Submit` during or after `Stop` may panic, in the processor (`concurrent.go:138`) and in the pool (`:497`). `Stop` called twice closes a closed channel (`:130`).
- `WorkersIdle` starts at 0 and falls with each busy worker (`concurrent.go:230`), so it is never the number its comment names (`:41`).
- The processor inside `BatchProcessor` is never started: batches fill its queue and are then refused, and a refused batch is lost (`concurrent.go:393`).
- An early return of `ProcessReader` leaves its collector waiting for ever (`streaming.go:140`); errors of the client's function are ignored.
- The chunk cache's key has no file, so a chunk of one file may be skipped for another's of the same place and length (`streaming.go:221`).
- All writers of an optimizer share one buffer and all its readers one read-ahead cache, whose key is an offset: a reader may get another file's bytes without any race (`io_optimizer.go:365`).
- `UpdateMetadata` makes a new record after any error of the load, though its comment is "如果不存在，创建新的" (if it does not exist, create a new one, `manager.go:156`): an intact record
  that could not be read is overwritten and the call returns nil.
- Two updates of one metadata record at the same time lose one, and patches of two directories with one base name share a record (`manager.go:154`); the statistics look for a file with the suffix twice.

Command line:
- A global option before the command is taken for an unknown command, after its log file has been made (`app.go:184`, `logger.go:63`).
- `config init` whose write fails leaves a new file, empty or cut short, and exits with 50 (`config.go:99`); the next `config init` refuses it. `ApplyTo` that fails in or after its backup leaves a
  new `out.backup`, or an old one cut short (`applier.go:124`, `:130`); with a directory as `out` always.
- `signature` computes a signature and writes nothing; `diff` ignores `-s` and `-c`; the flag for hidden files works the other way round; the library's options and the configuration do not reach the engine.
- A configuration file that does not parse keeps the values read before the error (`config.go:170`).
- `Spinner.Stop` sends with the mutex held that the ticker goroutine takes on every tick, and may wait for ever (`progress.go:307`).

## What is not modelled

- Compression and memory mapping: wrappers of libraries and of the operating system, with no state that outlives a call.
- Benchmarks, logging (but for the log file that is made), wording, `MultiProgress` and the spinner (see above for its deadlock).
- The enhanced patch, which always fails; `PriorityQueue`, `SortOperations` and the window types of `pkg/hash`, which nothing calls.
- `ProgressiveVerifier` and `StreamVerifier`: sequential loops over the checks that `Recovery` has.
- Listing, validation, search and statistics of metadata: they only read.
- Of the I/O optimizer memory-mapped reading, direct I/O and statistics; of `cache.go` the memory and buffer pools.
- Within the modelled components: the ignore patterns are a set of ignored paths, and the values of command options are left out.

## Plan

Done, in this order: 1 `PatchApply` with `AtomicUpdate`, 2 `DeltaOps`, `DeltaEngine`, 3 `DirDiff`, 4 `DirPatch`,
5 `ConcurrentProcessor`, 6 `Recovery`, 7 `Streaming`, `WorkerPool`, `BatchProcessor`, 8 `PatchGenerator`, `DirPatchFile`, 9 `ConcurrentVerifier`, `WriteBuffer`, `ReadAhead`, `Metadata`, 10 `DirDiffDisplay`, `CommandLine`,
and the proofs listed above.

Left: nothing that the prover can reach. Liveness stays with TLC.
