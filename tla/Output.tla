------------------------------- MODULE Output -------------------------------
(***************************************************************************)
(* The Output object of one CompressionTask (src/src/output.cpp) with the  *)
(* control part of its Sector objects (src/src/sector.cpp).                *)
(*                                                                         *)
(* The event loop hands over the source sector by sector (Enqueue).  A     *)
(* Sector object collects the sectors of one block, a worker thread        *)
(* compresses it, the loop hands it back in any order, and Output writes   *)
(* the blocks in the order of the source, several per write, while it      *)
(* builds the index that is written last at the head of the file.          *)
(*                                                                         *)
(* Positions in the source are block numbers (Sector::Pos() and srcPos_    *)
(* are multiples of blockSize_); Enqueue's argument is a sector number.    *)
(* Positions in the output are bytes, in a unit the constants choose.  A   *)
(* Sector's buffer is the set `held` of the source sectors copied into it. *)
(*                                                                         *)
(* All of Output runs on the event loop's thread.  Output calls progress_  *)
(* from the middle of HandleWrittenSectors, and progress_ may resume the   *)
(* input, which calls Enqueue again before HandleWrittenSectors goes on:   *)
(* `progress` is the stack of those unfinished calls, and `ready` the call *)
(* of HandleReadySector under way, which is always the innermost.          *)
(***************************************************************************)
EXTENDS Integers, FiniteSets, Sequences

CONSTANTS
    Sector,         \* the Sector objects, QUEUE_SIZE = 32 of them
    nullptr,        \* the argument of HandleReadySector that is no Sector
    MAX_BUFS,       \* blocks in one write at most: 16
    SECTOR_SIZE,    \* bytes of a source sector: 2048
    CSO_HEADER, CSO_ENTRY,  \* bytes of CSOHeader and of one index entry: 24, 4
    DAX_HEADER, DAX_ENTRY,  \* bytes of DAXHeader and of position and size: 32, 6
    IndexBits,      \* bits of a position in an index entry: 31
    DAX_FRAME,      \* sectors of a DAX frame: 4
    TrialSizes,     \* sizes a compression trial may come to
    Task            \* the tasks to consider

ASSUME SectorAssumption ==
    /\ IsFiniteSet(Sector) /\ Cardinality(Sector) >= 2
    /\ nullptr \notin Sector

ASSUME MaxBufsAssumption == MAX_BUFS \in Nat /\ MAX_BUFS >= 2

Formats == {"CSO1", "CSO2", "ZSO", "DAX"}
Methods == {"DEFLATE", "LZ4"}

(* What Output takes from a Task: the source's size in sectors and the     *)
(* block's, the output format, the formats whose trials are enabled, and   *)
(* the TASKFLAG_DECOMPRESS and TASKFLAG_MEASURE flags.                     *)
TaskType == [sectors : Nat \ {0}, perBlock : Nat \ {0}, fmt : Formats,
             methods : SUBSET Methods, decompress : BOOLEAN, measure : BOOLEAN]

ASSUME TaskAssumption == Task \subseteq TaskType

ASSUME SizesAssumption == SECTOR_SIZE \in Nat /\ TrialSizes \subseteq Nat

(* The shifts SetFile may come to.  The largest is enough for any position:  *)
(* 32 bits and those of an entry make up an int64_t.                         *)
Shifts == 0 .. 32

ASSUME PositionAssumption ==
    /\ {CSO_HEADER, CSO_ENTRY, DAX_HEADER, DAX_ENTRY, IndexBits} \subseteq Nat
    /\ \A t \in Task : \E k \in Shifts :
          CSO_HEADER + DAX_HEADER + (t.sectors + 1) * (CSO_ENTRY + DAX_ENTRY)
             + t.sectors * SECTOR_SIZE < 2 ^ (IndexBits + k)

VARIABLES
    task,           \* the task being run
    freeSectors,    \* freeSectors_ (a stack; which Sector it yields is immaterial)
    sector,         \* the fields of each Sector
    partialSectors, \* partialSectors_: block -> Sector
    pendingSectors, \* pendingSectors_: block -> Sector
    work,           \* Sectors queued for or running on a worker thread
    after,          \* Sectors whose after-work callback the loop has yet to run
    writes,         \* data writes in flight
    flushes,        \* index writes in flight
    srcPos, dstPos, \* srcPos_ and dstPos_
    indexShift,     \* indexShift_
    index,          \* the entries of index_ assigned so far
    state,          \* state_, as the set of its bits
    finished,       \* the calls of finish_, in order
    file,           \* the output file: the blocks and the index it holds
    ready,          \* the argument of the HandleReadySector under way, if there is one
    progress,       \* nextPos of the HandleWrittenSectors inside progress_, innermost first
    received        \* sectors handed to Enqueue so far

vars == <<task, freeSectors, sector, partialSectors, pendingSectors, work, after,
          writes, flushes, srcPos, dstPos, indexShift, index, state, finished,
          file, ready, progress, received>>

-----------------------------------------------------------------------------
(* std::map and std::unordered_map *)

Insert(m, k, v) == [x \in DOMAIN m \cup {k} |-> IF x = k THEN v ELSE m[x]]
Erase(m, K) == [x \in DOMAIN m \ K |-> m[x]]
Values(m) == {m[x] : x \in DOMAIN m}
EmptyMap == [x \in {} |-> nullptr]

-----------------------------------------------------------------------------
(* Sizes *)

BlockSize == task.perBlock * SECTOR_SIZE
SrcSize == task.sectors * SECTOR_SIZE
Block(p) == p \div task.perBlock

(* SrcSizeAligned() >> blockShift_, the number of blocks: nextPos >= srcSize_ *)
(* holds in bytes exactly when it holds of block numbers with this bound.    *)
BlockCount == (task.sectors + task.perBlock - 1) \div task.perBlock

DstFirstSectorPos ==
    CASE task.decompress -> 0
      [] ~task.decompress /\ task.fmt = "DAX" -> DAX_HEADER + BlockCount * DAX_ENTRY
      [] ~task.decompress /\ task.fmt # "DAX" -> CSO_HEADER + (BlockCount + 1) * CSO_ENTRY

(* The least shift with which worstSize fits into the bits of an entry.      *)
(* SetFile searches from 62 bits down; decompressing never shifts.           *)
ShiftFor(worstSize) ==
    IF task.decompress THEN 0
    ELSE CHOOSE k \in Shifts :
            /\ worstSize < 2 ^ (IndexBits + k)
            /\ k = 0 \/ worstSize >= 2 ^ (IndexBits + k - 1)

(* Mutant of AlignUp: towards the block before.                              *)
AlignDown(pos, align) == pos - (pos % align)

AlignUp(pos, align) == IF pos % align = 0 THEN pos ELSE pos + align - (pos % align)
IndexAlign == 2 ^ indexShift

-----------------------------------------------------------------------------
(* The Sector object.  busy_ is readySize > 0.  A released Sector keeps      *)
(* nothing of its block: Process overwrites what Release leaves behind.      *)

Idle == [readySize |-> 0, enqueued |-> FALSE, pos |-> 0, held |-> {}, size |-> 0, fmt |-> "ORIG"]

(* Process, called for each sector of P, all of them of block b.  A sector   *)
(* outside of the buffer ("Invalid buffer pos for this sector block") does   *)
(* not occur: Enqueue finds the Sector by the block the sector belongs to.   *)
Process(s, b, P) ==
    LET old == sector[s] IN
    [readySize |-> old.readySize + Cardinality(P),
     enqueued  |-> old.enqueued,
     pos       |-> IF old.readySize = 0 THEN b ELSE old.pos,
     held      |-> IF old.readySize = 0 THEN P ELSE old.held \cup P,
     size      |-> IF old.readySize = 0 THEN BlockSize ELSE old.size,
     fmt       |-> IF old.readySize = 0 THEN "ORIG" ELSE old.fmt]

(* Mutant of FinalizeBest: the size before alignment is compared.            *)
FinalizeUnaligned(r) ==
    IF r.size >= BlockSize /\ task.fmt # "DAX"
    THEN [r EXCEPT !.size = BlockSize, !.fmt = "ORIG"]
    ELSE r

(* FinalizeBest: a result that is no smaller once aligned is dropped, but    *)
(* for DAX, whose blocks must all be deflated.                               *)
FinalizeBest(r) ==
    IF AlignUp(r.size, IndexAlign) >= BlockSize /\ task.fmt # "DAX"
    THEN [r EXCEPT !.size = BlockSize, !.fmt = "ORIG"]
    ELSE r

Release(S) == [s \in Sector |-> IF s \in S THEN Idle ELSE sector[s]]

-----------------------------------------------------------------------------
(* The index *)

(* UpdateIndex: the entry (an unsigned integer one bit wider than a          *)
(* position) and the formats that may hold a block stored with method m.     *)
HighBit(e) == e >= 2 ^ IndexBits
SetHighBit(e) == IF HighBit(e) THEN e ELSE e + 2 ^ IndexBits
IndexValue(pos) == (pos \div IndexAlign) % 2 ^ (IndexBits + 1)

IndexEntry(pos, m) ==
    IF \/ m = "ORIG" /\ task.fmt \notin {"CSO2", "DAX"}
       \/ m = "LZ4" /\ task.fmt = "CSO2"
    THEN SetHighBit(IndexValue(pos)) ELSE IndexValue(pos)

Storable(m) ==
    CASE task.fmt = "CSO1" -> m # "LZ4"
      [] task.fmt = "ZSO"  -> m # "DEFLATE"
      [] task.fmt = "CSO2" -> TRUE
      [] task.fmt = "DAX"  -> m = "DEFLATE"

(* Bytes of a block written at pos: decompressing, what the last block was   *)
(* padded with is cut off.                                                   *)
WriteSize(s, pos) ==
    IF task.decompress /\ pos + sector[s].size > SrcSize THEN SrcSize - pos
    ELSE sector[s].size

(* Where the blocks of a batch go, and behind them where the next one goes.  *)
Positions(batch) ==
    LET at[k \in 1 .. Len(batch) + 1] ==
            IF k = 1 THEN dstPos
            ELSE AlignUp(at[k-1] + WriteSize(batch[k-1], at[k-1]), IndexAlign)
    IN at

-----------------------------------------------------------------------------
(* Mutants of CheckFinish: either bit is enough; the index's is not asked.   *)
CheckFinishEither(bits) ==
    IF {"INDEX_WRITTEN", "DATA_WRITTEN"} \cap bits # {}
    THEN Append(finished, "success") ELSE finished

CheckFinishData(bits) ==
    IF "DATA_WRITTEN" \in bits THEN Append(finished, "success") ELSE finished

(* finish_(true) is called by whoever sets the second of the two bits.       *)
CheckFinish(bits) ==
    IF {"INDEX_WRITTEN", "DATA_WRITTEN"} \subseteq bits
    THEN Append(finished, "success") ELSE finished

(* The loop runs its callbacks when no call is under way; the input calls    *)
(* Enqueue from one of its own callbacks or from within progress_.           *)
AtLoop == ready = {} /\ progress = <<>>

Init ==
    /\ task \in Task
    /\ freeSectors = Sector
    /\ sector = [s \in Sector |-> Idle]
    /\ partialSectors = EmptyMap /\ pendingSectors = EmptyMap
    /\ work = {} /\ after = {} /\ writes = {} /\ flushes = 0
    /\ srcPos = 0 /\ dstPos = 0 /\ indexShift = 0
    /\ index = EmptyMap
    /\ state = {} /\ finished = <<>>
    /\ file = [data |-> EmptyMap, index |-> EmptyMap]
    /\ ready = {} /\ progress = <<>> /\ received = 0

(* SetFile: lays out the file, or refuses what a DAX file cannot hold.       *)
DaxRefused(shift) ==
    /\ task.fmt = "DAX"
    /\ shift # 0 \/ SrcSize >= 2 ^ (IndexBits + 1) \/ task.perBlock # DAX_FRAME

SetFile ==
    /\ AtLoop /\ state = {} /\ finished = <<>>
    /\ LET shift == ShiftFor(DstFirstSectorPos + SrcSize) IN
       /\ indexShift' = shift
       /\ \/ /\ DaxRefused(shift)
             /\ finished' = Append(finished, "dax")
             /\ dstPos' = DstFirstSectorPos
             /\ UNCHANGED state
          \/ /\ ~DaxRefused(shift)
             /\ dstPos' = AlignUp(DstFirstSectorPos, 2 ^ shift)
             /\ state' = {"HAS_FILE"}
             /\ UNCHANGED finished
    /\ UNCHANGED <<task, freeSectors, sector, partialSectors, pendingSectors, work,
                   after, writes, flushes, srcPos, index, file, ready, progress, received>>

(* Mutant of Padding: not only with the last sector of the source.           *)
PaddingEarly(p) ==
    IF task.perBlock # 1 THEN p + 1 .. (Block(p) + 1) * task.perBlock - 1 ELSE {}

(* The zeros that fill up the block of the last sector of the source.        *)
Padding(p) ==
    IF task.perBlock # 1 /\ p + 1 >= task.sectors
    THEN task.sectors .. BlockCount * task.perBlock - 1 ELSE {}

(* Mutant of Taker: partialSectors_ is not looked at.                        *)
TakerAlwaysFree(p) == freeSectors

(* The Sector collecting the block of p, or any free one.                    *)
Taker(p) == IF Block(p) \in DOMAIN partialSectors THEN {partialSectors[Block(p)]} ELSE freeSectors

(* Enqueue(p): the Sector collecting p's block, or a free one, takes the     *)
(* sector and, with the last sector of the source, the zeros that fill up    *)
(* its block.  A full Sector is queued for compression; decompressing        *)
(* (DisableCompress), its ready callback runs at once.                       *)
Enqueue(p) ==
    /\ ready = {} /\ "HAS_FILE" \in state
    /\ \E s \in Taker(p) :
       LET r == Process(s, Block(p), {p} \cup Padding(p))
           full == r.readySize >= task.perBlock
           held == IF task.perBlock = 1 THEN partialSectors ELSE Insert(partialSectors, Block(p), s)
       IN
       /\ freeSectors' = freeSectors \ {s}
       /\ \/ /\ full => r.enqueued
             /\ sector' = [sector EXCEPT ![s] = r]
             /\ partialSectors' = held
             /\ finished' = IF full THEN Append(finished, "busy") ELSE finished
             /\ UNCHANGED <<work, ready>>
          \/ /\ full /\ ~r.enqueued /\ ~task.decompress
             /\ sector' = [sector EXCEPT ![s] = [r EXCEPT !.enqueued = TRUE]]
             /\ partialSectors' = held
             /\ work' = work \cup {s}
             /\ UNCHANGED <<ready, finished>>
          \/ /\ full /\ ~r.enqueued /\ task.decompress
             /\ sector' = [sector EXCEPT ![s] = r]
             /\ partialSectors' = Erase(held, {Block(p)})
             /\ ready' = {s}
             /\ UNCHANGED <<work, finished>>
    /\ received' = received + 1
    /\ UNCHANGED <<task, pendingSectors, after, writes, flushes, srcPos, dstPos,
                   indexShift, index, state, file, progress>>

(* A worker thread: Compress keeps some trial's result or none, FinalizeBest *)
(* has the last word.                                                        *)
Compress(s) ==
    /\ s \in work
    /\ \/ sector' = [sector EXCEPT ![s] = FinalizeBest(@)]
       \/ \E n \in TrialSizes, m \in task.methods :
             sector' = [sector EXCEPT ![s] = FinalizeBest([@ EXCEPT !.size = n, !.fmt = m])]
    /\ work' = work \ {s}
    /\ after' = after \cup {s}
    /\ UNCHANGED <<task, freeSectors, partialSectors, pendingSectors, writes, flushes,
                   srcPos, dstPos, indexShift, index, state, finished, file, ready, progress, received>>

(* Mutant of AfterWork: ready_ is called on the worker's thread.             *)
AfterWorkOnWorker(s) ==
    /\ s \in after
    /\ after' = after \ {s}
    /\ partialSectors' = IF task.perBlock = 1 THEN partialSectors
                         ELSE Erase(partialSectors, {sector[s].pos})
    /\ ready' = ready \cup {s}
    /\ UNCHANGED <<task, freeSectors, sector, pendingSectors, work, writes, flushes,
                   srcPos, dstPos, indexShift, index, state, finished, file, progress, received>>

(* The loop's after-work callback: ready_(true).                             *)
AfterWork(s) ==
    /\ AtLoop /\ s \in after
    /\ after' = after \ {s}
    /\ partialSectors' = IF task.perBlock = 1 THEN partialSectors
                         ELSE Erase(partialSectors, {sector[s].pos})
    /\ ready' = {s}
    /\ UNCHANGED <<task, freeSectors, sector, pendingSectors, work, writes, flushes,
                   srcPos, dstPos, indexShift, index, state, finished, file, progress, received>>

(* HandleReadySector(s).  A Sector that is not the next of the file waits in *)
(* pendingSectors_; without one, the first of pendingSectors_ is taken if it *)
(* is the next.                                                              *)
FirstPending(b) == b \in DOMAIN pendingSectors /\ \A c \in DOMAIN pendingSectors : b <= c

HandleReadyWait ==
    /\ \/ \E s \in ready \ {nullptr} :
             /\ sector[s].pos # srcPos
             /\ pendingSectors' = Insert(pendingSectors, sector[s].pos, s)
       \/ /\ nullptr \in ready /\ ~FirstPending(srcPos)
          /\ UNCHANGED pendingSectors
    /\ ready' = {}
    /\ UNCHANGED <<task, freeSectors, sector, partialSectors, work, after, writes, flushes, srcPos,
                   dstPos, indexShift, index, state, finished, file, progress, received>>

(* Mutant of NextSector: a Sector called with is written wherever it is due. *)
NextSectorAny(s) ==
    \/ s \in ready
    \/ nullptr \in ready /\ FirstPending(srcPos) /\ s = pendingSectors[srcPos]

(* Otherwise the Sector at srcPos_ and up to MAX_BUFS - 1 that follow it     *)
(* without a gap make up a batch.                                            *)
NextSector(s) ==
    \/ s \in ready /\ sector[s].pos = srcPos
    \/ nullptr \in ready /\ FirstPending(srcPos) /\ s = pendingSectors[srcPos]

BatchSize(n) ==
    /\ \A k \in 1 .. n - 1 : srcPos + k \in DOMAIN pendingSectors
    /\ n = MAX_BUFS \/ srcPos + n \notin DOMAIN pendingSectors

Batch(s, n) == [k \in 1 .. n |-> IF k = 1 THEN s ELSE pendingSectors[srcPos + k - 1]]

Unstorable(batch) == {k \in 1 .. Len(batch) : ~Storable(sector[batch[k]].fmt)}

(* UpdateIndex for the first n blocks of the batch.                          *)
Indexed(batch, n) ==
    LET at == Positions(batch) IN
    [b \in DOMAIN index \cup (srcPos .. srcPos + n - 1) |->
        IF b \in srcPos .. srcPos + n - 1
        THEN IndexEntry(at[b - srcPos + 1], sector[batch[b - srcPos + 1]].fmt)
        ELSE index[b]]

(* UpdateIndex fails on a block the format cannot hold.  HandleReadySector   *)
(* returns: the batch is in none of Output's containers any more.            *)
HandleReadyReject ==
    /\ \E s \in Sector, n \in 1 .. MAX_BUFS :
       LET batch == Batch(s, n) IN
       /\ NextSector(s) /\ BatchSize(n)
       /\ \E k \in Unstorable(batch) :
             /\ \A j \in Unstorable(batch) : k <= j
             /\ index' = Indexed(batch, k)
       /\ pendingSectors' = Erase(pendingSectors, srcPos .. srcPos + Len(batch) - 1)
    /\ finished' = Append(finished, "format")
    /\ ready' = {}
    /\ UNCHANGED <<task, freeSectors, sector, partialSectors, work, after, writes, flushes,
                   srcPos, dstPos, indexShift, state, file, progress, received>>

(* The batch is submitted: UpdateIndex for each block and, with the last of  *)
(* the source, the final entry and Flush, which writes the index unless      *)
(* nothing is to be written.  Measuring, HandleWrittenSectors runs at once,  *)
(* up to its call of progress_; otherwise the data write is started.         *)
FinalEntry(batch) == IndexValue(Positions(batch)[Len(batch) + 1])

FlushBits == IF task.decompress \/ task.measure THEN {"INDEX_READY", "INDEX_WRITTEN"}
             ELSE {"INDEX_READY"}

(* Mutant of Flush: one block too early.                                     *)
FlushEarly(batch) ==
    IF srcPos + Len(batch) >= BlockCount - 1
    THEN /\ index' = Insert(Indexed(batch, Len(batch)), BlockCount, FinalEntry(batch))
         /\ state' = state \cup FlushBits
         /\ flushes' = IF "INDEX_WRITTEN" \in FlushBits THEN flushes ELSE flushes + 1
         /\ finished' = IF "INDEX_WRITTEN" \in FlushBits
                        THEN CheckFinish(state \cup FlushBits) ELSE finished
    ELSE /\ index' = Indexed(batch, Len(batch))
         /\ UNCHANGED <<state, flushes, finished>>

Flush(batch) ==
    IF srcPos + Len(batch) >= BlockCount
    THEN /\ index' = Insert(Indexed(batch, Len(batch)), BlockCount, FinalEntry(batch))
         /\ state' = state \cup FlushBits
         /\ flushes' = IF "INDEX_WRITTEN" \in FlushBits THEN flushes ELSE flushes + 1
         /\ finished' = IF "INDEX_WRITTEN" \in FlushBits
                        THEN CheckFinish(state \cup FlushBits) ELSE finished
    ELSE /\ index' = Indexed(batch, Len(batch))
         /\ UNCHANGED <<state, flushes, finished>>

HandleReadySubmit ==
    /\ \E s \in Sector, n \in 1 .. MAX_BUFS :
       LET batch == Batch(s, n)
           next == srcPos + Len(batch)
           at == Positions(batch)
           S == {batch[k] : k \in 1 .. Len(batch)}
       IN
       /\ NextSector(s) /\ BatchSize(n) /\ Unstorable(batch) = {}
       /\ pendingSectors' = Erase(pendingSectors, srcPos .. next - 1)
       /\ Flush(batch)
       /\ \/ /\ task.measure
             /\ sector' = Release(S)
             /\ freeSectors' = freeSectors \cup S
             /\ srcPos' = next
             /\ dstPos' = at[Len(batch) + 1]
             /\ progress' = <<next>> \o progress
             /\ UNCHANGED writes
          \/ /\ ~task.measure
             /\ writes' = writes \cup {[batch |-> batch, at |-> at, nextPos |-> next]}
             /\ UNCHANGED <<sector, freeSectors, srcPos, dstPos, progress>>
    /\ ready' = {}
    /\ UNCHANGED <<task, partialSectors, work, after, indexShift, file, received>>

(* The data write's callback: HandleWrittenSectors up to progress_.  The     *)
(* write took the bytes from the Sectors' buffers while it was in flight.    *)
(* A failed or short write frees the Sectors and ends in finish_(false).     *)
Extent(s, pos) == [pos |-> pos, size |-> WriteSize(s, pos), fmt |-> sector[s].fmt,
                   held |-> sector[s].held]

Stored(w) ==
    LET first == w.nextPos - Len(w.batch) IN
    [b \in DOMAIN file.data \cup (first .. w.nextPos - 1) |->
        IF b \in first .. w.nextPos - 1
        THEN Extent(w.batch[b - first + 1], w.at[b - first + 1])
        ELSE file.data[b]]

HandleWrittenSectors(w, success) ==
    LET S == {w.batch[k] : k \in 1 .. Len(w.batch)} IN
    /\ AtLoop /\ w \in writes
    /\ writes' = writes \ {w}
    /\ sector' = Release(S)
    /\ freeSectors' = freeSectors \cup S
    /\ \/ /\ success
          /\ file' = [file EXCEPT !.data = Stored(w)]
          /\ srcPos' = w.nextPos
          /\ dstPos' = dstPos + w.at[Len(w.batch) + 1] - w.at[1]
          /\ progress' = <<w.nextPos>>
          /\ UNCHANGED finished
       \/ /\ ~success
          /\ finished' = Append(finished, "data")
          /\ UNCHANGED <<file, srcPos, dstPos, progress>>
    /\ UNCHANGED <<task, partialSectors, pendingSectors, work, after, flushes,
                   indexShift, index, state, ready, received>>

(* HandleWrittenSectors after progress_ has returned.                        *)
AfterProgress ==
    /\ ready = {} /\ progress # <<>>
    /\ progress' = Tail(progress)
    /\ \/ /\ Head(progress) >= BlockCount
          /\ state' = state \cup {"DATA_WRITTEN"}
          /\ finished' = CheckFinish(state')
          /\ UNCHANGED ready
       \/ /\ Head(progress) < BlockCount
          /\ ready' = {nullptr}
          /\ UNCHANGED <<state, finished>>
    /\ UNCHANGED <<task, freeSectors, sector, partialSectors, pendingSectors, work, after,
                   writes, flushes, srcPos, dstPos, indexShift, index, file, received>>

(* The index write's callback.  The write took the entries from index_       *)
(* itself while it was in flight.  A DAX file holds in place of the final    *)
(* entry the size of each block, the difference of two entries, taken when   *)
(* the write was started.                                                    *)
WriteIndexDone(success) ==
    /\ AtLoop /\ flushes > 0
    /\ flushes' = flushes - 1
    /\ \/ /\ success
          /\ file' = [file EXCEPT !.index = index]
          /\ state' = state \cup {"INDEX_WRITTEN"}
          /\ finished' = CheckFinish(state')
       \/ /\ ~success
          /\ finished' = Append(finished, "header")
          /\ UNCHANGED <<file, state>>
    /\ UNCHANGED <<task, freeSectors, sector, partialSectors, pendingSectors, work, after,
                   writes, srcPos, dstPos, indexShift, index, ready, progress, received>>

(* The source comes in order, and CompressionTask does not go on while       *)
(* QueueFull().                                                              *)
Receive == received < task.sectors /\ freeSectors # {} /\ Enqueue(received)

Next ==
    \/ SetFile
    \/ Receive
    \/ \E s \in Sector : Compress(s) \/ AfterWork(s)
    \/ HandleReadyWait \/ HandleReadyReject \/ HandleReadySubmit
    \/ \E w \in writes, ok \in BOOLEAN : HandleWrittenSectors(w, ok)
    \/ AfterProgress
    \/ \E ok \in BOOLEAN : WriteIndexDone(ok)

Spec == Init /\ [][Next]_vars

-----------------------------------------------------------------------------
(* Properties *)

SectorRecord == [readySize : Nat, enqueued : BOOLEAN, pos : Nat, held : SUBSET Nat,
                 size : Int, fmt : {"ORIG"} \cup Methods]
Verdicts == {"success", "dax", "busy", "format", "data", "header"}

IsMap(m) == DOMAIN m \subseteq Nat /\ Values(m) \subseteq Sector

(* Every container of the Output object and every field of its Sectors holds *)
(* values of its type.                                                       *)
TypeOK ==
    /\ task \in Task
    /\ freeSectors \subseteq Sector /\ work \subseteq Sector /\ after \subseteq Sector
    /\ sector \in [Sector -> SectorRecord]
    /\ IsMap(partialSectors) /\ IsMap(pendingSectors)
    /\ \A w \in writes : w.batch \in Seq(Sector) /\ w.nextPos \in Nat
    /\ flushes \in Nat /\ srcPos \in Nat /\ received \in Nat
    /\ DOMAIN file = {"data", "index"}
    /\ state \subseteq {"HAS_FILE", "INDEX_READY", "INDEX_WRITTEN", "DATA_WRITTEN"}
    /\ finished \in Seq(Verdicts)
    /\ ready \subseteq Sector \cup {nullptr} /\ \A x, y \in ready : x = y
    /\ progress \in Seq(Nat)

Said(v) == \E i \in 1 .. Len(finished) : finished[i] = v

InBatch(w) == {w.batch[k] : k \in 1 .. Len(w.batch)}

(* Where a Sector can be *)
Filling == Values(partialSectors) \cup work \cup after
Called  == ready \ {nullptr}
Pending == Values(pendingSectors)
Writing == UNION {InBatch(w) : w \in writes}

(* A Sector is in one place only: free, collecting its block or with the     *)
(* workers, handed to HandleReadySector, pending, or in a data write.  None  *)
(* is dropped, but for the batch a format error gives up.                    *)
NoSectorSharedOrLost ==
    /\ freeSectors \cap (Filling \cup Called \cup Pending \cup Writing) = {}
    /\ Filling \cap (Called \cup Pending \cup Writing) = {}
    /\ Called \cap (Pending \cup Writing) = {}
    /\ Pending \cap Writing = {}
    /\ work \cap after = {}
    /\ ~Said("format") => Sector = freeSectors \cup Filling \cup Called \cup Pending \cup Writing

(* Enqueue never copies into a buffer that a worker thread is reading or has *)
(* compressed already: a block in partialSectors_ that is with the workers   *)
(* is complete, and nothing of it is still to come.                          *)
NoBufferRace ==
    received < task.sectors /\ Block(received) \in DOMAIN partialSectors =>
        partialSectors[Block(received)] \notin work \cup after

SectorsOf(b) == b * task.perBlock .. (b + 1) * task.perBlock - 1

(* One data write is in flight at most, it is for the blocks at srcPos_ and  *)
(* after, and the blocks below srcPos_ are in the file, each with the        *)
(* sectors of the source that are its own, however the workers' completions  *)
(* and the re-entrant calls of Enqueue interleave.                           *)
FileInOrder ==
    /\ \A v, w \in writes : v = w
    /\ \A w \in writes : \A k \in 1 .. Len(w.batch) :
          /\ sector[w.batch[k]].pos = srcPos + k - 1
          /\ sector[w.batch[k]].held = SectorsOf(srcPos + k - 1)
    /\ ~task.measure => DOMAIN file.data = 0 .. srcPos - 1
    /\ \A b \in DOMAIN file.data : file.data[b].held = SectorsOf(b)

(* No block overwrites another, or the header and index that are written     *)
(* over the head of the file while data writes are in flight.                *)
ExtentsApart ==
    \A b \in DOMAIN file.data :
        LET e == file.data[b] IN
        /\ e.pos >= DstFirstSectorPos
        /\ b + 1 \in DOMAIN file.data => e.pos + e.size <= file.data[b + 1].pos

(* Input::ReadSector on the finished file: where it looks for block b and    *)
(* what it takes the block for.                                              *)
ReadPos(e) == (IF task.fmt = "DAX" THEN e ELSE e % 2 ^ IndexBits) * IndexAlign

ReadBlock(b) ==
    LET e == file.index[b]
        pos == ReadPos(e)
        len == ReadPos(file.index[b + 1]) - pos
    IN [pos |-> pos, len |-> len,
        fmt |-> CASE task.fmt = "CSO1" -> IF HighBit(e) THEN "ORIG" ELSE "DEFLATE"
                  [] task.fmt = "ZSO"  -> IF HighBit(e) THEN "ORIG" ELSE "LZ4"
                  [] task.fmt = "DAX"  -> "DEFLATE"
                  [] task.fmt = "CSO2" -> IF len >= BlockSize THEN "ORIG"
                                          ELSE IF HighBit(e) THEN "LZ4" ELSE "DEFLATE"]

ReadsBack(b) ==
    LET r == ReadBlock(b)  e == file.data[b]
    IN r.pos = e.pos /\ r.fmt = e.fmt /\ r.len \in e.size .. e.size + IndexAlign - 1

(* Once success is reported, the file is complete: decompressing, it is      *)
(* exactly the source; compressing, the header and index in the file lead    *)
(* the reader to every block, with the method it was stored with.            *)
SuccessMeansReadable ==
    Said("success") /\ ~task.measure =>
        /\ DOMAIN file.data = 0 .. BlockCount - 1
        /\ \A b \in DOMAIN file.data :
              IF task.decompress
              THEN LET e == file.data[b] IN
                   /\ e.fmt = "ORIG" /\ e.pos = b * BlockSize
                   /\ e.size = IF b = BlockCount - 1 THEN SrcSize - b * BlockSize ELSE BlockSize
              ELSE DOMAIN file.index = 0 .. BlockCount /\ ReadsBack(b)

(* finish_ is never called again after finish_(true), and never reports what *)
(* the code takes for impossible ("Sector already waiting for queued         *)
(* operation").                                                              *)
OneVerdict == (Said("success") => finished = <<"success">>) /\ ~Said("busy")

(* The index write reads index_ while it is in flight: no entry changes      *)
(* after STATE_INDEX_READY, whatever is still to be written or compressed.   *)
IndexFrozen == [][ "INDEX_READY" \in state => index' = index ]_vars

(* Output implements BlockFile.  Measuring, what has been accounted for      *)
(* takes the place of what is in the file.                                   *)
StoredBlocks == [b \in 1 .. Cardinality(DOMAIN file.data) |->
                    IF b - 1 \in DOMAIN file.data THEN file.data[b - 1].held ELSE {}]

Promise == INSTANCE BlockFile WITH
    total    <- [b \in 1 .. BlockCount |-> SectorsOf(b - 1)],
    stored   <- IF task.measure THEN [b \in 1 .. srcPos |-> SectorsOf(b - 1)] ELSE StoredBlocks,
    indexed  <- "INDEX_WRITTEN" \in state /\ (task.measure => "DATA_WRITTEN" \in state),
    verdicts <- finished

ImplementsBlockFile == Promise!Spec
=============================================================================
