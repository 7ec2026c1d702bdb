# A TLA+ development for maxcso

maxcso compresses disc images (ISO, or CSO, ZSO and DAX files) into CSO, CSO v2,
ZSO or DAX files, and decompresses them. This directory models the part of it
that is hard to test: the pipeline of an input, a queue of blocks compressed by
worker threads, and an output that writes the blocks in order and the index
last, with failures of every read, write and decompression; the reader of
compressed sources; the trials of a block and the options behind them; and the
thread pool and callbacks that carry all of it.

## 1. The system

| Component | State | Operations | Talks to |
|---|---|---|---|
| `Compress()`, `CompressionTask` (`src/compress.cpp`) | the tasks, two files, the block size | `Enqueue`, `BeginProcessing` and the callbacks it installs, `Cleanup` | owns one Input and one Output; pauses and resumes the Input on behalf of the Output |
| `Input` (`src/input.cpp`) | `pos_`, `size_`, `paused_`, `resumeShouldRead_`, a cache, the index of a compressed source | `DetectFormat`, `ReadSector`, `EnqueueDecompressSector`, `Pause`, `Resume` | libuv reads and one worker; `begin_`, `callback_`, `finish_` |
| `Output` (`src/output.cpp`) | `freeSectors_`, `partialSectors_`, `pendingSectors_`, `srcPos_`, `dstPos_`, `index_`, `state_` | `SetFile`, `Enqueue`, `HandleReadySector`, `HandleWrittenSectors`, `Flush`, `CheckFinish` | 32 Sectors; libuv writes; `progress_`, `finish_` |
| `Sector` (`src/sector.cpp`) | the buffer of one block, the best trial so far, `busy_`, `enqueued_`, `readySize_` | `Process`, `Compress`, `FinalizeBest`, `SubmitTrial`, `Release` | a worker thread, the pool; its ready callback |
| `BufferPool` (`src/buffer_pool.cpp`) | `free_`, `allocations_`, `bufferSize` | `SetBufferSize`, `Alloc`, `Release` | everybody, on every thread |
| `UVHelper` (`src/uv_helper.h`) | callbacks by ticket | the libuv requests, `Dispatch` | every component, on the loop's thread and on workers |
| libuv's pool and loop (`libuv/src/threadpool.c`, `unix/async.c`, `unix/core.c`) | `wq`, `idle_threads`, `loop->wq`, `pending`, the eventfd, the count of active requests | `post`, `worker`, `uv_async_send`, `uv__async_io`, `uv__work_done`, `uv_run` | `UVHelper` |
| `ChecksumTask` (`src/checksum.cpp`) | `crc_`, `pos_`, `pendingBuffers_` | `HandleBuffer` | an Input |
| command line (`cli/cli.cpp`) | the arguments | `parse_args`, `validate_args`, progress text | `Compress()`, `Checksum()` |

Everything but the trials of a Sector, one decompression and the file system
runs on the event loop's thread. What makes the program hard nevertheless:

- **Re-entrancy.** `HandleWrittenSectors` calls `progress_`, which resumes the
  input, which may call `Enqueue` and, decompressing or measuring, a second
  `HandleReadySector` and `HandleWrittenSectors`, before the first one goes on.
- **Order.** Workers finish in any order. The data write, the index write and
  the compressions of later blocks overlap.
- **Bounds.** `Enqueue` takes a Sector without looking whether there is one;
  only the pause of the input protects it.
- **Failure.** Any read, decompression or write may fail or be short. The task
  goes on with whatever is still in flight, is destroyed when the loop runs dry,
  and the next task of the command uses the same pool.
- **Shared tables.** Closures wait in tables of the whole process, under tickets
  that workers and the loop look up; requests are used again from inside their own callbacks.
- **Ownership.** A buffer passes from Input to a Sector, each trial has one of its own, and
  the pool's size may change only when none is out.
- **Numbers.** Positions have 31 bits; large files shift them and align every
  block. The shift is chosen before the data is known.

What makes each part correct: *Output*: no Sector in two places or lost,
blocks in the file in order and with their own sectors, index and data that the
reader understands, success reported once, last, and only if it is true.
*CompressionTask*: no overrun of the queue, no pause without its resume, every
task reports something, buffers come back. *BufferPool*: one owner per buffer,
one size for all of them, unchanged while any is held. *Input*: what is delivered
is the source, from buffers large enough, all of which come back. *Sector*: the
result kept is intact and within the costs asked for, no buffer is lost. *Command
line*: methods and outputs are what the options say. *UVHelper and libuv*: each
closure is called once, for its request, and nothing sleeps while there is
work. `PROJECT.json` lists the hazards by source line with the properties that cover them.

## 2. Modules

| Module | Models | |
|---|---|---|
| `BufferPool` | `buffer_pool.cpp` | one action per operation; each holds the mutex from beginning to end |
| `Output` | `output.cpp`, the control of `sector.cpp` | the core |
| `BlockFile` | - | the promise of Output to its owner, as an abstract specification |
| `Pipeline` | `compress.cpp`, the control of `input.cpp`, joined with the actions of `Output` | |
| `ThreadPool` | libuv's thread pool and loop | one action per critical section |
| `UVHelper` | `uv_helper.h` over `ThreadPool` | |
| `Requests` | - | what Input, Output and Sector take the two for, as an abstract specification |
| `Input` | `input.cpp` in detail, with `checksum.cpp` and the part of `compress.cpp` that sets buffer sizes | |
| `Options` | `validate_args` of `cli.cpp` | operators only |
| `Trials` | the worker's part of `sector.cpp`, over `BufferPool` and `Options` | |
| `MCOutput`, `MCPipeline`, `MCInput`, `MCTrials` | - | tasks, files, command lines and symmetry for TLC |
| `BufferPoolProofs` | - | theorems about the pool |
| `OutputProofs`, `OutputVerdictProofs`, `OutputLayoutProofs` | - | about Output: its Sectors and the order of the blocks; its reports, the index and the refinement of `BlockFile`; where things are in the file and that they can be read back |
| `PipelineProofs` | - | about the pipeline, over those of Output |
| `UVHelperProofs` | - | about the thread pool, the tables and the refinement of `Requests` |
| `TrialsProofs` | - | about the trials and the names of outputs, over those of the pool |
| `InputProofs` | - | about the reader and the checksum |

Definitions whose comment begins with "Mutant of" are deliberately wrong
variants of the definition that follows them. The specifications do not use
them; replacing the definition by its mutant must make TLC refute the property
the mutant is listed with, which shows that the property can fail at all.

### Output

The variables are Output's members under their own names without the trailing
underscore. `work` and `after` are the Sectors on a worker thread and those whose
after-work callback is due; `writes` and `flushes` are the libuv requests in
flight; `file` is what is on the disk. Source positions are block numbers, output
positions are bytes. A buffer's content is the set of source sectors copied into
it, which is enough to tell whether a block holds what it should. The one
nondeterministic step is `Compress`: the trials yield any size of `TrialSizes` with any enabled
method, or nothing, and `FinalizeBest` decides what is kept.

A C++ call that calls out in its middle is split there and nowhere else. `ready`
holds the argument of a `HandleReadySector` that has been called and not yet run,
`progress` the stack of `HandleWrittenSectors` activations that are inside
`progress_`. `HandleReadySector` is three actions, one for each way it ends
(`HandleReadyWait`, `HandleReadyReject`, `HandleReadySubmit`).
`HandleReadySubmit` contains the index updates, `Flush` and the start of the write.
The write takes the bytes from the Sectors' buffers, and the index write takes
its entries from `index_`, when they complete; a change of either in between would
show in the file.

In `Output` alone the environment is as free as it may be: `Receive` delivers the
next sector whenever a Sector is free, between callbacks and from inside
`progress_`. `Pipeline` restricts that to what Input does.

### Pipeline

`reader` is Input's single chain of calls: where it stands, inside how many
unfinished `progress_` calls it runs, and the end of the block being delivered.
Whether data is in the cache, has to be read, is stored or compressed is a free
choice at each sector. `OutputStep` is an action of Output together with `Flow`,
what the callbacks of `BeginProcessing` do to the input and to the task's
reports. `Destroy` is the end of `uv_run` with the destructors; Sectors in no
container are not deleted, so their buffers stay out of the pool (`leaked`),
and the next task's `SetBufferSize` fails.

A block of the input may decompress to less than its index says (`damaged`). The
program does not terminate then (disagreement 3 below), so `Terminates` promises
an end only for inputs without such a block; the safety properties hold with it.

### ThreadPool, UVHelper and Requests

`ThreadPool` has what carries a request from `uv_queue_work` or `uv_fs_*` to its
callback. What is done under the pool's mutex is one step; `uv_async_send`, which
runs under the loop's `wq_mutex` but shares `pending` with the loop without it,
is three. A thread back from `uv_cond_wait` counts as idle until it has the
mutex, and may wake up for nothing. The loop's thread is a program counter
`loop` through `uv_run`, `uv__async_io` and `uv__work_done`. `UVHelper` adds the
tables: `Freeze` before the call of libuv, `ThawWork` on a worker, the other two in
the loop. A closure is named by its request and how often that had been used, so a
ticket mistaken for another is visible in `calls`. Users are as free as they may be: they
submit any request that is not in flight, before `uv_run` or from any callback.

`Requests` is what the other modules assume: submitted, executed once, called
back once, one callback at a time, with the fairness that each of these happens in the
end. `ImplementsRequests` is the refinement, liveness included. In `Output` the sets
`work`, `after` and `writes` are requests of these stages.

### Input

A byte of the file is its position, so `cache` maps offsets to the positions of
the bytes they hold, and a stale or foreign byte is visible. A source is a record
with its header, its index, what its writer stored where, and its length, which may
be less than the writer's. `Locate` is ReadSector's computation of where a block is;
`Decodes` is what a decompressor finds in the bytes: the block whose data they
are, or garbage, or an error. Both owners are there: `CompressionTask` may pause
the input at any callback and between them, and resizes the pool from `begin_`;
`ChecksumTask` computes its checksum, represented by the sectors that went into it.

Assumed of the files (`LaidOut`, `LayoutAssumption`): they are laid out as maxcso writes
them. The blocks are one behind the other and the index says where and how each is
stored; block sizes are multiples of a sector and powers of two, so that `ReadSector`'s shifts and masks
are the division and remainder of `Locate` (the code accepts others, and then they disagree); stored blocks
hold their sectors, with at most one block of padding; in CSO v2 compressed blocks
are shorter than a block after alignment. Nothing is assumed of files that `DetectFormat` refuses, nor
of where a file is cut off. The pool begins with buffers of at least
`MIN_SIZE`, as its constructor makes them. `FirstBlockAssumption`: data begins before the position
`size_`, since `SetupCache` marks an empty cache by `cachePos_ = size_`. A read is
short only at the end of the file. Garbage decompresses to a full block;
blocks that are too short are in `Pipeline`.

What the model makes plain about cut files: `cachePos_` and `cacheSize_` cover what
was asked for, so a block beyond the end of the file but inside the window of the
last read counts as "already read in" and is taken from whatever the cache held
before; a stored sector is then delivered wrong without an error, and the checksum of it
is reported with success (disagreement 5, run `cut_file`). `DeliveredIsSource` and `ChecksumComplete`
therefore exempt the sectors behind the end of a file (those that are not `Intact`); for a
file that is whole they exempt nothing.

### Options and Trials

`Options` is `validate_args`: `flags_final` is the set of methods switched off,
`Outputs` the list of outputs. `Trials` lets a command line through
`validate_args`, then uses one Sector for a few blocks: every trial that `flags_final`
leaves is run in its own buffer from `BufferPool`, fails or comes to any size, and
`SubmitTrial` and `FinalizeBest` decide. Another thread takes buffers, writes to
them and gives them back in between, and before the first block the starting task sets
the pool's size (`StartTask`), which a buffer still held makes fail. `content` says what was last written to a
buffer, so a result released too early is visible in `BestIsIntact`.

The trials for deflate all precede those for lz4, so the branch "Reverse of the above" of
`SubmitTrial` is never taken. `SubmitTrial` compares with the best result so far, not with the
smallest, and takes the original's cost between any two results of one format; `CostsCountOnce`
says that this does not add up over the trials: each cost counts once at most, lz4's not for a
deflated block. What the help says of the options is more, and not true (disagreement 7, run `costs`).

A name with nothing before its extension gets no output (`Derives`), and the command is refused.

### BlockFile

Blocks are stored in order, the index once, "success" is said once, only when
both are complete, and never beside an error. `Output!ImplementsBlockFile` is the
refinement, checked as a property. When only measuring, nothing is written, and what
has been accounted for takes the place of what is in the file.

## 3. Runs

| Run | Checks | Instance |
|---|---|---|
| `output` | seven invariants, `IndexFrozen`, the refinement | 3 Sectors, batches of at most 2, 13 tasks |
| `pipeline` | the queue's bound, reports, buffers, `StepsAreOutputs`, `Terminates` | 3 Sectors, 9 tasks and a list of two, inputs of 1- and 2-sector blocks, no symmetry |
| `uv` | wake-ups, closures, the return of `uv_run`, the refinement of `Requests` | 2 threads, 1 file request, 2 work requests, 4 submissions |
| `source` | the sectors delivered, buffer sizes and ownership, the checksum | 11 kinds of good files in every layout, some cut off, 6 that are refused or empty, 16 owners |
| `trials` | the pool's five properties; a sector's buffers, the kept result and its costs, DAX, the pairing of outputs | 4 buffers, a minimum of 16 and sizes of 12 and 20, blocks of 8 aligned to 2, results of 1 to 9, two blocks; 28 choices of methods, over 1,000 of files |
| `last_block`, `next_task`, `short_block`, `shrink`, `cut_file`, `costs`, `use_method` | one property each, violated | see section 5 |

**Bounds.** Three Sectors are the least with which one is being written, one is
pending and one is being filled, and sources of four or five blocks make all of them
be used again, so that the queue fills up and the input is paused. `MAX_BUFS` = 2
makes a batch reach its limit with a block still pending. Sectors have 4 bytes and
positions 4 or 5 bits, so that three to five blocks need an index shift of one or two
bits and the alignment of a block matters; the trial sizes 2, 3 and 7 are a good
result, one that alignment makes useless, and one larger than a block. Blocks of two and three
sectors over sources that they do not divide give padded last blocks of every length. The tasks of
`output` stay clear of the boundary of disagreement 1, which has a run of its own.
Sectors are interchangeable (`freeSectors_` is a stack, but which Sector it
yields cannot be observed), so `output` uses symmetry, and `trials` for the buffers; `pipeline`
and `uv` check liveness and use none.

In `uv`, two threads are enough for one to be inside `uv_async_send` while the other
inserts, for a signal to meet a thread already signalled, and for
the last thread to fall asleep as work is posted; four submissions of three
requests make each of them be used again, from its own callback and from another's. In
`source`, sectors have 2 bytes, the cache 4 or one block, and files 1 to 5 blocks:
blocks fill the cache exactly, straddle its end, and start again after a pause at every
sector. `MIN_SIZE` is 8, so a block of 16 needs a larger pool, as blocks over 8192
bytes do. In `trials`, results are below, at and above each limit: 7 aligns to a
block, 9 is larger than one, costs of 2 decide between neighbours; three
buffers for a Sector and one for the other thread are all there can be at once. The size asked
of the pool is below its minimum or above it, before and after buffers have been used, with one
out or none; that a pool in any callers' hands keeps its properties is a theorem. The second block is there for what the first left behind.

**Deadlock** is not checked in the runs of Output, Pipeline, UVHelper and Input: a task
that has finished, or failed, stops. `DrainedMeansReported`, `Terminates`, `RunsDry` and `BuffersReturned` say
what stopping must look like. `trials` checks for it.

**Fairness.** In `Pipeline` only weak fairness of the whole next-state relation: as long as
something can run, something runs. Nothing is assumed about which request finishes first. It is enough
because with whole blocks every step makes progress: a sector is delivered, a block
moves on, or a request ends. In `UVHelper`, weak fairness of the loop's thread and
of each worker: the operating system schedules every thread that can go on,
and compressions and system calls return. Nobody has to submit anything, and nothing is assumed about
spurious wake-ups.

## 4. Proofs

`tlapm` proves the theorems for every value of the constants that satisfies the `ASSUME`s
of the modules, where a run checks one instance: any number of
Sectors (at least two), threads, requests, buffers and files, any sizes, batches (of at
least two) and lists of tasks. All the invariants the passing runs check are theorems,
two of them, `SuccessMeansReadable` and `BufferHoldsBlock`, under a condition, since the code
does not keep them always (section 5); so are the action
properties and the refinement of `BlockFile`. TLC evaluates each assumption in the runs
that use its module.

**Assumptions.** `Output`: finitely many Sectors, at least two; tasks of their type
with at least one sector; `PositionAssumption`, that 32 bits of shift are
enough for header, index and source, which for 31-bit entries is the range of an
`int64_t`. `ThreadPool` and `UVHelper`: finitely many threads, at least one; `none` is
neither a request nor a closure. `Trials`: costs and sizes are numbers, the pool's buffers hold twice a
block, file names consist of strings. `Pipeline`: input blocks have at least one
sector. `Input`: what section 2 says of the files.

*BufferPoolProofs.* The conjunction of the four invariants is inductive: that a
buffer has one place makes `allocations = Len(free) + Cardinality(held)` survive
each operation; with it `SetBufferSize` resizes only when `held` is empty, so all buffers keep the announced size.
`PoolTypeCorrect`, `AllBuffersFit`, `BuffersAccountedFor` and `AllocationsExact` are the invariants,
`SizeIsStable` says that the size never changes while a buffer is held. They are about `BufferPool`'s
own specification, with any number of callers at any time; a caller releases only what it
holds. `TrialsProofs` shows that the callers of `Trials` do (`PoolUsedAsAllowed`).

*OutputProofs.* `TypeCorrect`, `SectorsArePlaced` (`NoSectorSharedOrLost`),
`BuffersAreNotRaced` (`NoBufferRace`) and `FileIsInOrder` (`FileInOrder`).
None of the last three is inductive by itself: that a Sector is in one place
depends on a block being in one Sector, or two Sectors would claim the same
entry of `pendingSectors_`; and that depends on what has been received, since a
block for which everything has been received must never be looked up again in
`partialSectors_`. The inductive invariant `IInv` adds to the type and the placement:

- `Keys`: the maps are keyed by the block of the Sector they hold;
- `FreeIdle`: a free Sector holds nothing;
- `Distinct`: no two busy Sectors hold the same block;
- `Reception`: a complete block has all its sectors, and the one being
  collected has exactly those received so far;
- `Ahead`: every busy Sector's block is at or beyond `srcPos_`, and the one data
  write in flight is for `srcPos_`;
- `Filed`: the blocks in the file are those below `srcPos_`, with their own sectors.

There is one lemma per action, and lemmas on block arithmetic (`BlockFacts`,
`NextBlock`, `PaddingFacts`), on the batch (`BatchFacts`) and on releasing
Sectors (`Released`, `Advance`).

*OutputVerdictProofs.* `VerdictIsOne` (`OneVerdict`), `IndexIsFrozen` (`IndexFrozen`) and
`PromiseIsKept` (`ImplementsBlockFile`: `Output` implements `BlockFile`). The code has no
flag for "failed", so why is an error never followed by success? Because a failed data
write or a refused block leaves a hole: `Stuck` says that the block at `srcPos_`
has been received and no Sector has it any more, so `srcPos_` never reaches the end.
`VInv` adds to `IInv` that (`Reported`), that the nested calls of `HandleWrittenSectors` are for positions
that grow inwards, the one for the end of the source coming once (`Calls`), and that the index
is written at most once, when the last block has been submitted (`IndexOnce`). For the
refinement, what is stored is the prefix of the blocks up to `srcPos_`, and every
action extends that, sets the index, adds one verdict, or leaves all three alone.

*OutputLayoutProofs.* `ExtentsAreApart` (`ExtentsApart`). `LInv` adds that `dstPos_` is behind
the last block written and that the blocks of a write in flight follow one another from there
(`Chain`). A batch has any length, so that takes an induction: the prover cannot use the
library's induction rules, whose parameter is an operator, but it can use `WFMin` from
`WellFoundedInduction`, which speaks of a set. `LeastNumber` derives from it that a set of numbers has a
least member, and the induction goes over the set of counterexamples.

The second half of the module is about reading the file back (`SuccessMeansReadable`).
`RInv` adds to `LInv` what a Sector can hold when it is ready (`Shaped`: the block itself,
or a result that is smaller once aligned, or DAX's), the shift (`Shifted`), and for every
block in the file or in a write in flight where it lies and what its entry says (`Traced`,
of `Lies` per block): the entry is `UpdateIndex`'s of that position and method, the position
is aligned, the next one begins right behind it, and no position is further back than if all
blocks before it had been as large as a block can be (`Settled`). `PositionsSettled` shows
that for a batch of any length, by the induction above. From there:

- `EntryReads`: an entry with room for a position gives it back, flag and shift undone.
  `NoneBeyond`: if the end of the file has room, so have all blocks before it. `BlockReads`:
  two neighbouring entries give the place and size of a block, and flag or size (CSO2) the
  method it was stored with.
- `SuccessIsReadable`: success means readable whenever the file ended within the entries'
  bits (`FitsIndex`). `UpdateIndex` does not check that; where it fails the file may be
  unreadable (disagreement 1).
- `EnoughBitsAreEnough`: the same from the task alone (`WorstCaseFits`): the header,
  aligned, and all blocks, the last one padded, each as large as a block can be, fit the
  bits with the shift that was chosen.
- `ChosenShiftIsEnough`: `SetFile`'s own estimate implies that for CSO and ZSO files of
  whole blocks whose header and block size are multiples of `1 << indexShift_` (`Unpadded`).
  The header with its index is a multiple of 4 and blocks are of 2048, so with sources of
  whole blocks that covers all files below 8 GiB.

Decompressing, there is no condition. All three conditions hold in runs of `MCOutput` that
end in success, with and without a shift. The arithmetic rests on `PowerOfTwo` and
`PowerSum`: the prover knows nothing about a power with a variable exponent, but `FS_SUBSET`
of `FiniteSetTheorems` gives 2^n as the number of subsets of a set of n elements, and adding
an element doubles them. (The library's own proof of `FS_SUBSET` in turn assumes that law of
powers.)

*PipelineProofs.* First Output once more: `WInv` says that it forgets nothing. Until something is
reported every block received and not yet written has its Sector (`Covered`), the next
block of the file waits only while a call that will look at it is due (`Awaited`),
and the last block leads to `CheckFinish` (`Ending`). `PInv` ties the input to it: the input is
parked only when paused, paused only when no Sector is free or an error has been
reported, and has a Sector wherever it can deliver (`Flowing`); the task has
notified what Output and Input have reported (`Noted`). From it follow
`PipelineTypeCorrect`, `RoomForEnqueue` (`EnqueueHasRoom`), `SuccessIsAlone` (`SuccessStandsAlone`),
`SectorsReturn` (`SectorsComeBack`) and `NoSilentEnd` (`DrainedMeansReported`): with nothing in flight,
the smallest block missing is in nobody's hands, so something has been reported.
`OutputIsDriven` (`StepsAreOutputs`): every step within a task is a
step of `Output`, so the theorems about Output speak about the pipeline.

*UVHelperProofs.* `UVTypeCorrect` (`UTypeOK`), `WakeupsArrive` (`NoLostWakeup`), `ClosuresMatch`
(`CallsMatch`), `ReturnsQuiet` (`QuietAtReturn`). `Handshake` is the heart of `NoLostWakeup`: from
the moment `pending` leaves 0 until the loop sets it back, exactly one of the worker about to
write, the readable eventfd and the spinning loop carries the message. `Counts` relates
`idle_threads` and the active requests to what they count, `OnePlace` puts each
request in one queue or one thread, and `FsTable` and `WorkTable` say what is in the tables
for it and which calls have been made. `RequestsImplemented` is the safety part of
`ImplementsRequests`: every step is one of `Requests`, or changes nothing a user sees.

*TrialsProofs.* `TrialsTypeCorrect` (`TTypeOK`), `BuffersAreOwn` (`OwnBuffers`), `BestStaysIntact`
(`BestIsIntact`), `CostsAreCountedOnce` (`CostsCountOnce`), `DaxIsDeflated` (`DaxKeepsDeflate`), over the
pool's invariant, and `PoolUsedAsAllowed`: `TSpec` implies `BufferPool!Spec`. `Costs` is what makes the fourth inductive: between two trials the best is within `origCost` of the
smallest result, and within both costs only if it is lz4, since
the trials for lz4 come last and each replaces what is larger. `EveryInputHasOutput` (`OutputsPaired`)
is about the loop of `validate_args` for any number of files: by induction, it
collects no more names than it has seen inputs, and as many only if they
are the inputs' own, in order.

*InputProofs.* `InputTypeCorrect` (`ITypeOK`), `SourceIsDelivered` (`DeliveredIsSource`), `InputReturnsBuffers`
(`BuffersReturned`) and `ChecksumIsComplete` (`ChecksumComplete`; success is for exactly the source's
sectors if the file is whole, and of a cut file it is claimed for what is left of it only). `InInv` says what the cache holds: either nothing has been read
(`Fresh`), or every byte is the file's at its position, as far as the file goes,
and the window does not begin behind what is needed next (`Mirrors`); that what `ReadSector`
decided still stands when its read or its work is done (`BlockOK`); and that what was decompressed is
the block `pos_` lies in (`OutOK`). `LocateFacts` relates the index arithmetic of `ReadSector`
to the layout of the file; `DoublingExists` and `DoubledSize` show that `SetupCache`'s recursion ends with a
cache of at least a block. `BuffersHoldBlocks` is `BufferHoldsBlock` for every file
and task for which `begin_` does not shrink the pool (`NoShrink`): where it does, the
property is false (disagreement 4).

**Only model-checked.** `Terminates`, `RunsDry` and the fairness in `ImplementsRequests`:
liveness is out of the prover's reach. `SuccessMeansReadable` and `BufferHoldsBlock` outside
the conditions of their theorems, where they fail in some states (disagreements 1 and 4) and
the passing runs show them for their tasks and files only.

## 5. Where code and comments disagree

1. `last_block`. `SetFile` takes "worst case (all blocks stored uncompressed.)" as
   header, index and source size, but the last block is stored padded to the
   block size. Close below a power of two the final index entry overflows its
   31 bits; success is reported and the last block cannot be read back. The
   alignment of the header is not in that worst case either (from a shift of 3 on, a header may need some).
2. `next_task`. If `UpdateIndex` refuses a block (LZ4 in CSO v1, enabled with
   `--use-lz4`), the batch is dropped with its buffers, and every
   following file of the command fails with "Unable to update buffer size".
3. `short_block`. A block of the input that decompresses to too little delivers
   nothing and is decompressed again and again, each time losing a buffer.
4. `shrink`. `DetectFormat` makes the pool's buffers twice as large as a block of the
   source; with the default block size and a source of 2 GB or more,
   `OnBegin` then sets them to twice `LARGE_BLOCK_SIZE`. Blocks of more than 32768 bytes no longer fit.
5. `cut_file`. `ReadSector` refuses a read that does not return "entire sector", and takes
   a block in the cache's window for "already read in". The result is compared with the
   one block asked for, and the window is `cacheSize_` long whatever was read: a stored block behind
   the end of a cut file is copied from what the cache held before. A checksum of that is reported with success,
   and `CompressionTask` compresses it.
6. `use_method`. `--use-lz4` and `--use-lz4brute` "enable trials with lz4hc", but `Compress`
   wants both of the flags they clear: `--use-lz4` alone never
   leads to such a trial, `--use-lz4brute` only where the format has `--use-lz4` by default.
7. `costs`. "Allow lz4 to increase block size by N% at most" and "Allow uncompressed to increase block
   size by N% at most" give each option a bound of its own. An lz4 result may replace a smaller
   deflate one by lz4's cost and then be dropped by `FinalizeBest`, because with its padding it is
   no shorter than the block: the block is stored uncompressed, with `--orig-cost` 0, although
   deflate had made it smaller.

Met in `output` and without a run of its own: decompressing, "we still track the index for code
simplicity, but throw it away" (`output.cpp:100-101`); with `--format=dax` `UpdateIndex` refuses the first
block all the same, and the task fails.

## 6. Not modelled, and the plan

Left out for good:

- zlib, zopfli, 7-zip's deflate, libdeflate and lz4: third-party code, pure functions
  of a buffer whose outcomes are choices here. They and libuv are all but a few thousand of the
  repository's 379,000 lines of C and C++; maxcso's own code is in `src/` and `cli/`,
  and every file of it with state is modelled.
- the rest of libuv: what maxcso does not call (networking, processes, timers, slow I/O, cancelling),
  the system calls, and the Windows implementation.
- parsing of arguments, usage and progress text, Windows arguments and wildcards.
- the wording of messages, magic numbers and header layouts, closing of files.
- branches that cannot be reached: `WriteDAXIndex`'s "larger than 16 bits" (frames have 8192
  bytes and buffers 16384); an after-work status below zero (nothing is cancelled);
  `Process`'s "Invalid buffer pos for this sector block" (`sector.cpp:102-108`: `Enqueue` finds a Sector that
  is collecting by the block of the sector it passes on, so the offset is below a block, and buffers have
  two); `ReadSector`'s "Unexpected input file type" (`DetectFormat` sets the type, or ends the task). `Process`'s
  "Sector already waiting for queued operation" is in the model, and `OneVerdict` says that it is not reached.

`ChecksumTask`'s queue for buffers out of order is modelled and never used: Input
delivers in order (`ChecksumComplete`). A source of size zero ends without a report in both tasks.

Nothing of the plan is open. What a proof could still add are the liveness properties, with a prover that handles
fairness and `ENABLED`.
