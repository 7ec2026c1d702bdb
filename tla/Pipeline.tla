------------------------------ MODULE Pipeline ------------------------------
(***************************************************************************)
(* CompressionTask (src/src/compress.cpp): an Input and an Output on one   *)
(* event loop, and Compress(), which runs the tasks one after the other.   *)
(*                                                                         *)
(* Input reads one sector, or one compressed block, at a time and passes   *)
(* its sectors to Output::Enqueue.  When that leaves no free Sector the    *)
(* input is paused; when Output has written something it resumes it, from  *)
(* inside HandleWrittenSectors.  Output's actions are those of the module  *)
(* Output; here they are joined with what the callbacks of                 *)
(* BeginProcessing do.                                                     *)
(*                                                                         *)
(* `reader` is where Input's one chain of calls stands.  While its pc is   *)
(* in OnStack it is a call on the loop's thread, made inside `depth`       *)
(* unfinished calls of progress_: calls it makes return before it goes on, *)
(* and the call that made it waits for it.                                 *)
(***************************************************************************)
EXTENDS Output

CONSTANTS
    TaskLists,      \* the argument of Compress(): sequences of tasks
    InputBlocks     \* sectors per block of the input file: 1 for an ISO

ASSUME TaskListsAssumption == \A l \in TaskLists : l \in Seq(Task) /\ l # <<>>
ASSUME InputBlocksAssumption == InputBlocks \subseteq Nat \ {0}

VARIABLES
    todo,           \* the tasks Compress() has yet to run, the current one first
    phase,          \* where the current task stands
    damaged,        \* blocks of the inputs may decompress to less than their size
    inBlock,        \* csoBlockSize_, in sectors
    pos,            \* pos_ of the Input, in sectors
    paused, resumeShouldRead,
    reader,         \* [pc, depth, upto]: upto is the end of the block being delivered
    notes,          \* what the task has notified, TASK_INPROGRESS left out
    leaked          \* some buffer will never come back to the pool

inputVars == <<inBlock, pos, paused, resumeShouldRead, reader>>
pvars == <<vars, todo, phase, damaged, inputVars, notes, leaked>>

OnStack == {"ReadSector", "deliver", "callback"}
Reading == reader.pc \in OnStack
Reader(pc, depth, upto) == [pc |-> pc, depth |-> depth, upto |-> upto]

(* The loop's thread is inside no call of Output or of Input.              *)
LoopIdle == AtLoop /\ ~Reading
Innermost == Reading /\ ready = {} /\ Len(progress) = reader.depth

Fresh ==
    /\ freeSectors' = Sector /\ sector' = [s \in Sector |-> Idle]
    /\ partialSectors' = EmptyMap /\ pendingSectors' = EmptyMap
    /\ work' = {} /\ after' = {} /\ writes' = {} /\ flushes' = 0
    /\ srcPos' = 0 /\ dstPos' = 0 /\ indexShift' = 0
    /\ index' = EmptyMap /\ state' = {} /\ finished' = <<>>
    /\ file' = [data |-> EmptyMap, index |-> EmptyMap]
    /\ ready' = {} /\ progress' = <<>> /\ received' = 0

PInit ==
    /\ Init
    /\ todo \in TaskLists /\ task = todo[1]
    /\ phase = "Enqueue" /\ inBlock \in InputBlocks
    /\ pos = 0 /\ paused = FALSE /\ resumeShouldRead = FALSE
    /\ reader = Reader("idle", 0, 0)
    /\ notes = <<>> /\ leaked = FALSE /\ damaged \in BOOLEAN

-----------------------------------------------------------------------------
(* CompressionTask::Enqueue: the block size option may be out of range or   *)
(* no power of two, and pool.SetBufferSize fails as long as any buffer is   *)
(* not back in the pool.  Later calls of SetBufferSize (DetectFormat's and  *)
(* OnBegin's) find no buffer in use if this one did not.                    *)
SetBufferSize == ~leaked

EnqueueTask ==
    /\ phase = "Enqueue"
    /\ \/ /\ SetBufferSize
          /\ phase' = "open input" /\ UNCHANGED notes
       \/ /\ phase' = "running"
          /\ \/ notes' = Append(notes, "INVALID_OPTION")
             \/ ~SetBufferSize /\ notes' = Append(notes, "BUFFERS_IN_USE")
    /\ UNCHANGED <<vars, todo, inputVars, leaked>>

(* The callbacks of the two uv_fs_open; measuring, there is no output file. *)
OpenInput(ok) ==
    /\ phase = "open input"
    /\ IF ok THEN /\ phase' = IF task.measure THEN "header" ELSE "open output"
                  /\ UNCHANGED notes
       ELSE phase' = "running" /\ notes' = Append(notes, "BAD_INPUT")
    /\ UNCHANGED <<vars, todo, inputVars, leaked>>

OpenOutput(ok) ==
    /\ phase = "open output"
    /\ IF ok THEN phase' = "header" /\ UNCHANGED notes
       ELSE phase' = "running" /\ notes' = Append(notes, "BAD_OUTPUT")
    /\ UNCHANGED <<vars, todo, inputVars, leaked>>

(* DetectFormat: the header's callback, then the index's (or fstat's).  Any *)
(* defect ends in finish_(false).                                           *)
ReadHeader(ok) ==
    /\ phase = "header"
    /\ IF ok THEN phase' = "index" /\ UNCHANGED notes
       ELSE phase' = "running" /\ notes' = Append(notes, "INVALID_DATA")
    /\ UNCHANGED <<vars, todo, inputVars, leaked>>

(* With the index read: begin_, which calls Output::SetFile, and ReadSector. *)
Begin ==
    /\ phase = "index" /\ phase' = "running"
    /\ SetFile
    /\ paused' = (finished' # <<>>)
    /\ notes' = IF finished' # <<>> THEN Append(notes, "CANNOT_WRITE") ELSE notes
    /\ reader' = Reader("ReadSector", 0, 0)
    /\ UNCHANGED <<todo, inBlock, pos, resumeShouldRead, leaked>>

NoIndex ==
    /\ phase = "index" /\ phase' = "running"
    /\ notes' = Append(notes, "INVALID_DATA")
    /\ UNCHANGED <<vars, todo, inputVars, leaked>>

-----------------------------------------------------------------------------
(* Input::ReadSector *)

(* Mutant of BlockEnd: the padding of the last block is delivered too.       *)
BlockEndPadded(p) == (p \div inBlock + 1) * inBlock

BlockEnd(p) ==
    LET e == (p \div inBlock + 1) * inBlock IN IF e < task.sectors THEN e ELSE task.sectors

ReadSectorStops ==
    /\ Innermost /\ reader.pc = "ReadSector"
    /\ \/ /\ pos >= task.sectors
          /\ reader' = Reader("end", 0, 0)
          /\ UNCHANGED resumeShouldRead
       \/ /\ pos < task.sectors /\ paused
          /\ resumeShouldRead' = TRUE
          /\ reader' = Reader("parked", 0, 0)
    /\ UNCHANGED <<vars, todo, phase, inBlock, pos, paused, notes, leaked>>

(* The data is in the cache, or has to be read into it first.  What is       *)
(* stored as it is goes to callback_ at once, sector by sector; a compressed *)
(* block goes to a worker thread.                                            *)
ReadSectorGoes ==
    /\ Innermost /\ reader.pc = "ReadSector"
    /\ pos < task.sectors /\ ~paused
    /\ \/ reader' = Reader("deliver", reader.depth, pos + 1)
       \/ reader' = Reader("decompress", 0, 0)
       \/ reader' = Reader("read", 0, 0)
    /\ UNCHANGED <<vars, todo, phase, inBlock, pos, paused, resumeShouldRead, notes, leaked>>

(* Mutant of ReadDone: a short read is tried again.                          *)
ReadDoneRetries ==
    /\ LoopIdle /\ reader.pc = "read"
    /\ \/ reader' = Reader("deliver", 0, pos + 1)
       \/ reader' = Reader("decompress", 0, 0)
       \/ reader' = Reader("ReadSector", 0, 0)
    /\ UNCHANGED <<vars, todo, phase, inBlock, pos, paused, resumeShouldRead, notes, leaked>>

(* The read's callback *)
ReadDone ==
    /\ LoopIdle /\ reader.pc = "read"
    /\ \/ reader' = Reader("deliver", 0, pos + 1) /\ UNCHANGED notes
       \/ reader' = Reader("decompress", 0, 0) /\ UNCHANGED notes
       \/ reader' = Reader("failed", 0, 0) /\ notes' = Append(notes, "INVALID_DATA")
    /\ UNCHANGED <<vars, todo, phase, inBlock, pos, paused, resumeShouldRead, leaked>>

(* EnqueueDecompressSector: the worker, then its after-work callback, which  *)
(* delivers the sectors from pos_ to the end of what came out of the block.  *)
(* Without any, ReadSector takes up the same block again, and the buffer it  *)
(* was decompressed into is not given back.                                  *)
Decompress ==
    /\ reader.pc = "decompress"
    /\ reader' = Reader("decompressed", 0, 0)
    /\ UNCHANGED <<vars, todo, phase, inBlock, pos, paused, resumeShouldRead, notes, leaked>>

ResultEnds == IF damaged THEN pos .. BlockEnd(pos) ELSE {BlockEnd(pos)}

Decompressed ==
    /\ LoopIdle /\ reader.pc = "decompressed"
    /\ \/ \E end \in ResultEnds :
             /\ reader' = Reader(IF end = pos THEN "ReadSector" ELSE "deliver", 0, end)
             /\ leaked' = (leaked \/ end = pos)
             /\ UNCHANGED notes
       \/ /\ reader' = Reader("failed", 0, 0) /\ notes' = Append(notes, "INVALID_DATA")
          /\ UNCHANGED leaked
    /\ UNCHANGED <<vars, todo, phase, inBlock, pos, paused, resumeShouldRead>>

(* callback_(pos_, buffer) calls Output::Enqueue ...                         *)
Deliver ==
    /\ Innermost /\ reader.pc = "deliver"
    /\ Enqueue(pos)
    /\ reader' = [reader EXCEPT !.pc = "callback"]
    /\ UNCHANGED <<todo, phase, inBlock, pos, paused, resumeShouldRead, notes, leaked>>

(* Mutant of QueueFull: the input is never paused.                           *)
QueueNeverFull == FALSE

QueueFull == freeSectors = {}

(* ... and when that has returned, pauses the input if no Sector is free.    *)
(* The rest of a decompressed block is given up, to be decompressed again.   *)
CallbackReturns ==
    /\ Innermost /\ reader.pc = "callback"
    /\ paused' = (paused \/ QueueFull)
    /\ pos' = pos + 1
    /\ reader' = [reader EXCEPT !.pc = IF pos' < reader.upto /\ ~paused'
                                       THEN "deliver" ELSE "ReadSector"]
    /\ UNCHANGED <<vars, todo, phase, inBlock, resumeShouldRead, notes, leaked>>

-----------------------------------------------------------------------------
(* What Output's callbacks do to the Input and to the task.                  *)

(* OnFinish: an error pauses the input.                                      *)
OnFinish ==
    LET new == SubSeq(finished', Len(finished) + 1, Len(finished')) IN
    notes' = notes \o [i \in DOMAIN new |-> IF new[i] = "success" THEN "SUCCESS" ELSE "CANNOT_WRITE"]

FinishedBadly == Len(finished') > Len(finished) /\ finished'[Len(finished')] # "success"

(* Mutants of Resume: ReadSector is not called; it is called every time.     *)
ResumeFlagOnly ==
    /\ paused' = FALSE /\ resumeShouldRead' = FALSE
    /\ UNCHANGED reader

ResumeAlwaysReads ==
    /\ paused' = FALSE /\ resumeShouldRead' = FALSE
    /\ reader' = Reader("ReadSector", Len(progress'), 0)

(* OnProgress: progress_ resumes the input, on top of its own call.          *)
Resume ==
    /\ paused' = FALSE /\ resumeShouldRead' = FALSE
    /\ reader' = IF resumeShouldRead THEN Reader("ReadSector", Len(progress'), 0) ELSE reader

(* srcPos_ is assigned only in the statement before that call.               *)
CallsProgress == srcPos' # srcPos

Flow ==
    /\ OnFinish
    /\ \/ CallsProgress /\ Resume
       \/ /\ ~CallsProgress /\ paused' = (paused \/ FinishedBadly)
          /\ UNCHANGED <<resumeShouldRead, reader>>
    /\ UNCHANGED <<todo, phase, inBlock, pos, leaked>>

OutputStep ==
    /\ \/ \E s \in Sector : Compress(s)
       \/ ~Reading /\ \E s \in Sector : AfterWork(s)
       \/ HandleReadyWait \/ HandleReadyReject \/ HandleReadySubmit
       \/ ~Reading /\ \E w \in writes, ok \in BOOLEAN : HandleWrittenSectors(w, ok)
       \/ ~Innermost /\ AfterProgress
       \/ ~Reading /\ \E ok \in BOOLEAN : WriteIndexDone(ok)
    /\ Flow

-----------------------------------------------------------------------------
(* Compress(): uv_run returns when nothing is left to run; the task is        *)
(* destroyed with the Sectors its containers hold, and the next one starts.   *)
Drained ==
    /\ phase = "running" /\ LoopIdle
    /\ work = {} /\ after = {} /\ writes = {} /\ flushes = 0
    /\ reader.pc \in {"idle", "parked", "end", "failed"}

(* Mutant of Abandoned: ~Output forgets partialSectors_.                     *)
AbandonedPartial == Sector \ (freeSectors \cup Values(pendingSectors))

Abandoned == Sector \ (freeSectors \cup Values(pendingSectors) \cup Values(partialSectors))

Destroy ==
    /\ Drained
    /\ leaked' = (leaked \/ Abandoned # {})
    /\ todo' = Tail(todo)
    /\ IF todo' = <<>>
       THEN phase' = "done" /\ UNCHANGED <<vars, inputVars, notes>>
       ELSE /\ Fresh /\ task' = todo'[1]
            /\ phase' = "Enqueue" /\ inBlock' \in InputBlocks
            /\ pos' = 0 /\ paused' = FALSE /\ resumeShouldRead' = FALSE
            /\ reader' = Reader("idle", 0, 0) /\ notes' = <<>>

InputStep == \/ ReadSectorStops \/ ReadSectorGoes \/ ReadDone \/ Decompress \/ Decompressed
             \/ Deliver \/ CallbackReturns

TaskStep == \/ EnqueueTask \/ Begin \/ NoIndex \/ Destroy
            \/ \E ok \in BOOLEAN : OpenInput(ok) \/ OpenOutput(ok) \/ ReadHeader(ok)

PNext == (TaskStep \/ InputStep \/ OutputStep) /\ UNCHANGED damaged

(* The loop's thread, the worker threads and the file system go on as long    *)
(* as they have something to do.                                              *)
PSpec == PInit /\ [][PNext]_pvars /\ WF_pvars(PNext)

-----------------------------------------------------------------------------
(* Properties *)

(* The reader's chain, its position and the flags of the Input have their      *)
(* types, and Input has passed on exactly the sectors before pos_.             *)
PTypeOK ==
    /\ pos \in Nat /\ paused \in BOOLEAN /\ resumeShouldRead \in BOOLEAN /\ leaked \in BOOLEAN
    /\ reader.pc \in OnStack \cup {"idle", "read", "decompress", "decompressed", "parked",
                                   "end", "failed"}
    /\ received = IF reader.pc = "callback" THEN pos + 1 ELSE pos

(* Output::Enqueue takes freeSectors_.back() without a look at the size of     *)
(* the vector: whenever the input delivers, a Sector is free (or the block's   *)
(* own is collecting), although a read may be in flight while the input is     *)
(* paused, and although the calls of Enqueue come from inside progress_ too.   *)
EnqueueHasRoom ==
    reader.pc = "deliver" =>
        /\ "HAS_FILE" \in state
        /\ freeSectors # {} \/ Block(pos) \in DOMAIN partialSectors

(* Every task ends with something reported: when nothing is left to run, the    *)
(* input has not been left paused with nobody to resume it, nor a block         *)
(* pending for ever.                                                            *)
DrainedMeansReported == Drained => notes # <<>>

(* A task that reports success reports nothing else: an error of the input, of  *)
(* a data write or of the index write is never followed or preceded by it.      *)
SuccessStandsAlone == (\E i \in DOMAIN notes : notes[i] = "SUCCESS") => notes = <<"SUCCESS">>

(* A task that meets no block its format cannot hold gives back every Sector,   *)
(* whatever else went wrong, so that the buffers are there for the next task.   *)
SectorsComeBack == Drained /\ ~Said("format") => Abandoned = {}


(* A block that was decompressed yields a sector or an error ("Expected to      *)
(* decompress into at least a full sector", "Prevents double decompression of   *)
(* input blocks").  Violated by a block shorter than it should be, see          *)
(* README.md.                                                                   *)
DecompressionDelivers ==
    [][reader.pc = "decompressed" => reader'.pc \in {"decompressed", "deliver", "failed"}]_pvars

(* The pipeline only does what the module Output allows, so what is proved of    *)
(* Output holds here: the input delivers in order, each sector once, and only    *)
(* while a Sector is free.                                                       *)
StepsAreOutputs == [][Next \/ phase' = "Enqueue"]_vars

(* Compress() returns: unless blocks of an input are shorter than they should    *)
(* be, whatever fails, no task is left waiting.                                  *)
Terminates == <>(phase = "done" \/ damaged)
=============================================================================
