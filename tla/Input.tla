------------------------------- MODULE Input --------------------------------
(***************************************************************************)
(* Input (src/src/input.cpp) in detail: how it finds out what a source is, *)
(* where it finds a sector, what its cache holds, and which buffers it has *)
(* in its hands; with the two tasks that own an Input: CompressionTask     *)
(* (src/src/compress.cpp), which may pause it, and ChecksumTask            *)
(* (src/src/checksum.cpp), which never does.  What Output does with the    *)
(* sectors is in Pipeline, where all of this is a free choice.             *)
(*                                                                         *)
(* A byte of the file is named by its position, so the cache is a function *)
(* from offsets to positions.  A sector is named by its number in the      *)
(* source: what a callback gets is the number of the sector whose bytes    *)
(* are in the buffer, or Garbage.                                          *)
(*                                                                         *)
(* Input is one chain of calls, requests and callbacks; pc is where it     *)
(* stands.                                                                 *)
(***************************************************************************)
EXTENDS Integers, Sequences

CONSTANTS
    File,               \* the sources to consider
    Owner,              \* the tasks to consider
    SECTOR_SIZE,        \* 2048
    STANDARD_SIZE,      \* the least size of the cache: 32768
    MAX_BLOCK_SIZE,     \* 0x40000
    DAX_FRAME_SIZE,     \* 8192
    MIN_SIZE,           \* the least size of a buffer: 16384
    SMALL_BLOCK_SIZE, LARGE_BLOCK_SIZE,     \* 2048, 16384
    LARGE_BLOCK_SIZE_THRESH                 \* 2 GB

(* A source: its header, its index, what its writer stored where, and how   *)
(* much of it there is.  An entry of the index is a position, shifted, and  *)
(* the high bit; of a DAX file, a position and a size, and whether an NC    *)
(* area covers the frame.  Block sizes are powers of two: shifts and masks  *)
(* of the code are divisions here.                                          *)
FileType == [type : {"ISO", "CSO1", "CSO2", "ZSO", "DAX"}, version : Nat, size : Nat,
             blockSize : Nat, shift : Nat, index : Seq([pos : Nat, flag : BOOLEAN, size : Nat]),
             blocks : Seq([pos : Nat, size : Nat, raw : BOOLEAN]), length : Nat]

OwnerType == [task : {"CompressionTask", "ChecksumTask"}, blockSize : Nat, decompress : BOOLEAN,
              pool : Nat, busy : BOOLEAN]

ASSUME ConstantsAssumption ==
    /\ {SECTOR_SIZE, STANDARD_SIZE, MAX_BLOCK_SIZE, DAX_FRAME_SIZE, MIN_SIZE, SMALL_BLOCK_SIZE,
        LARGE_BLOCK_SIZE, LARGE_BLOCK_SIZE_THRESH} \subseteq Nat \ {0}
    /\ SECTOR_SIZE <= DAX_FRAME_SIZE /\ DAX_FRAME_SIZE <= MIN_SIZE
    /\ File \subseteq FileType /\ Owner \subseteq OwnerType
    /\ \A o \in Owner : o.pool >= MIN_SIZE

(* The data of a file begins before the position its size would have: an     *)
(* empty cache is one that begins there.                                     *)
ASSUME FirstBlockAssumption ==
    \A f \in File : f.size > 0 /\ f.blocks # <<>> => f.blocks[1].pos < f.size

VARIABLES
    file, owner,        \* the source and the task, which do not change
    pc,
    pos,                \* pos_
    paused, resumeShouldRead,
    cachePos, cache,    \* cachePos_; the positions of the bytes in cache_
    block,              \* what ReadSector decided about the block it wants
    out,                \* the block a worker decompressed, or an error
    bufferSize,         \* the pool's
    bufs,               \* buffers Input holds
    taken,              \* the calls of callback_: [pos, sector]
    crc,                \* crc_ of ChecksumTask: the sectors it has been computed of
    crcPos, pendingBuffers,     \* pos_ and pendingBuffers_ of ChecksumTask
    notes               \* what has been notified, TASK_INPROGRESS left out

fixed == <<file, owner>>
flow == <<paused, resumeShouldRead>>
cacheVars == <<cachePos, cache>>
ownerVars == <<taken, crc, crcPos, pendingBuffers, notes>>
vars == <<fixed, pc, pos, flow, cacheVars, block, out, bufferSize, bufs, ownerVars>>

None == -1
Garbage == -1
Error == -2
Larger(a, b) == IF a > b THEN a ELSE b
Smaller(a, b) == IF a < b THEN a ELSE b
Notify(n) == notes' = Append(notes, n)
Compressing == owner.task = "CompressionTask"

(* csoBlockSize_; for an ISO only the cache asks for it.                     *)
BlockSizeOf(f) == CASE f.type = "ISO" -> SECTOR_SIZE
                    [] f.type = "DAX" -> DAX_FRAME_SIZE
                    [] OTHER -> f.blockSize

BlockSize == BlockSizeOf(file)

(* Files are as their writers lay them out, and may be cut off or have a     *)
(* header that is refused: as many blocks as the size asks for, one behind   *)
(* the other, and an index that says where they are and which are stored.    *)
(* Padding between blocks is less than a block, a DAX frame no larger.       *)
LaidOut(f) ==
    LET n == BlockSizeOf(f)
        At(i) == f.index[i].pos * 2 ^ f.shift
        Blocks == 1 .. Len(f.blocks)
    IN  /\ n % SECTOR_SIZE = 0 /\ f.size <= n * Len(f.blocks)
        /\ \A b \in Blocks :
              /\ f.blocks[b].size > 0
              /\ f.blocks[b].raw => f.blocks[b].size >= Smaller(n, f.size - (b - 1) * n)
              /\ \A c \in Blocks : b < c => f.blocks[b].pos + f.blocks[b].size <= f.blocks[c].pos
        /\ f.type = "DAX" =>
              /\ Len(f.index) >= Len(f.blocks)
              /\ \A b \in Blocks :
                    /\ f.blocks[b].raw => f.blocks[b].size <= n
                    /\ f.index[b] = [pos |-> f.blocks[b].pos, flag |-> f.blocks[b].raw,
                                     size |-> f.blocks[b].size]
        /\ f.type # "DAX" =>
              /\ Len(f.index) >= Len(f.blocks) + 1
              /\ \A b \in Blocks :
                    /\ At(b) = f.blocks[b].pos /\ At(b + 1) >= f.blocks[b].pos + f.blocks[b].size
                    /\ f.blocks[b].raw => At(b + 1) - At(b) <= 2 * n
                    /\ f.blocks[b].raw = IF f.type = "CSO2" THEN At(b + 1) - At(b) >= n
                                         ELSE f.index[b].flag

ASSUME LayoutAssumption ==
    \A f \in File : f.type # "ISO" /\ BlockSizeOf(f) >= SECTOR_SIZE => LaidOut(f)

Init ==
    /\ file \in File /\ owner \in Owner
    /\ pc = IF Compressing THEN "Enqueue" ELSE "DetectFormat"
    /\ pos = 0 /\ paused = FALSE /\ resumeShouldRead = FALSE
    /\ cachePos = None /\ cache = <<>> /\ block = None /\ out = None
    /\ bufferSize = owner.pool /\ bufs = 0
    /\ taken = <<>> /\ crc = <<>> /\ crcPos = 0 /\ pendingBuffers = <<>> /\ notes = <<>>

-----------------------------------------------------------------------------
(* The pool, by what BufferPool promises: SetBufferSize succeeds if no       *)
(* buffer is out.  owner.busy says that an earlier task left one out.        *)

CanResize(n) == ~owner.busy /\ n = 0
PoolSize(n) == Larger(n, MIN_SIZE)

(* CompressionTask::Enqueue, with a block size that passed its checks (see   *)
(* Pipeline).  A DAX output has frames of DAX_FRAME_SIZE instead of small    *)
(* blocks; the pool's minimum makes no difference of it.                     *)
TaskBlockSize == IF owner.blockSize = 0 THEN SMALL_BLOCK_SIZE ELSE owner.blockSize

Enqueue ==
    /\ pc = "Enqueue"
    /\ IF CanResize(bufs)
       THEN /\ bufferSize' = PoolSize(2 * TaskBlockSize)
            /\ pc' = "DetectFormat" /\ UNCHANGED notes
       ELSE /\ Notify("INVALID_OPTION")
            /\ pc' = "failed" /\ UNCHANGED bufferSize
    /\ UNCHANGED <<fixed, pos, flow, cacheVars, block, out, bufs, taken, crc, crcPos,
                   pendingBuffers>>

(* finish_(false): both owners notify TASK_INVALID_DATA.                     *)
Finish == pc' = "failed" /\ Notify("INVALID_DATA")

DetectFormat ==
    /\ pc = "DetectFormat"
    /\ pc' = "header" /\ bufs' = bufs + 1
    /\ UNCHANGED <<fixed, pos, flow, cacheVars, block, out, bufferSize, ownerVars>>

HeaderOK ==
    CASE file.type = "ISO" -> TRUE
      [] file.type = "DAX" -> file.version <= 1 /\ file.size % SECTOR_SIZE = 0
      [] OTHER -> /\ file.version <= 2
                  /\ file.blockSize >= SECTOR_SIZE /\ file.blockSize <= MAX_BLOCK_SIZE
                  /\ file.size % SECTOR_SIZE = 0

(* Mutant of Grow: the pool is left as it is.                                *)
GrowNever == bufferSize

(* Over-allocate a bit in case of inefficient padding between blocks.  The   *)
(* blocks of a DAX file fit into any buffer.                                 *)
Grow == IF file.type \in {"CSO1", "CSO2", "ZSO"} THEN Larger(bufferSize, 2 * BlockSize)
        ELSE bufferSize

(* The header's callback.  headerBuf is released on every path, and before   *)
(* the pool is resized.  For an ISO the file's size is asked for instead of  *)
(* an index.                                                                 *)
HeaderDone ==
    /\ pc = "header" /\ bufs' = bufs - 1
    /\ \/ Finish /\ UNCHANGED bufferSize
       \/ /\ HeaderOK /\ (Grow = bufferSize \/ CanResize(bufs'))
          /\ bufferSize' = IF Grow = bufferSize THEN bufferSize ELSE PoolSize(Grow)
          /\ pc' = "index" /\ UNCHANGED notes
    /\ UNCHANGED <<fixed, pos, flow, cacheVars, block, out, taken, crc, crcPos, pendingBuffers>>

(* SetupCache: a block doubled until it reaches STANDARD_SIZE.                *)
Doubled[n \in Nat \ {0}] == IF n >= STANDARD_SIZE THEN n ELSE Doubled[2 * n]

CacheSize == Doubled[BlockSize]

(* begin_ of CompressionTask: with the default block size a large source is  *)
(* compressed in larger blocks, and the pool resized for those.              *)
Resizes == /\ Compressing /\ ~owner.decompress
           /\ owner.blockSize = 0 /\ file.size >= LARGE_BLOCK_SIZE_THRESH

BeginFails == Resizes /\ ~CanResize(bufs)

BeginSize == IF Resizes /\ ~BeginFails THEN PoolSize(2 * LARGE_BLOCK_SIZE) ELSE bufferSize

(* The callback of the index's read, or of fstat, with begin_ and the call   *)
(* of ReadSector to come.  SetFile may refuse the source and pause Input.    *)
IndexDone ==
    /\ pc = "index"
    /\ \/ Finish /\ UNCHANGED <<cacheVars, bufferSize, paused>>
       \/ /\ file.type = "ISO" => file.size % SECTOR_SIZE = 0
          /\ cachePos' = file.size
          /\ cache' = [i \in 0 .. CacheSize - 1 |-> None]
          /\ bufferSize' = BeginSize
          /\ paused' \in IF BeginFails THEN {TRUE} ELSE IF Compressing THEN BOOLEAN ELSE {FALSE}
          /\ notes' = IF BeginFails THEN Append(notes, "INVALID_OPTION") ELSE notes
          /\ pc' = "ReadSector"
    /\ UNCHANGED <<fixed, pos, resumeShouldRead, block, out, bufs, taken, crc, crcPos,
                   pendingBuffers>>

-----------------------------------------------------------------------------
(* ReadSector: where the sector at pos_ is, how much to read there, how far  *)
(* into the block the sector lies, and how the block is compressed.          *)

Raw(at, len, offset) == [pos |-> at + offset, len |-> len - offset, offset |-> 0, method |-> "none"]

Packed(at, len, offset, m) == [pos |-> at, len |-> len, offset |-> offset, method |-> m]

Located(at, len, offset, m) ==
    IF m = "none" THEN Raw(at, len, offset) ELSE Packed(at, len, offset, m)

Entry == file.index[pos \div BlockSize + 1]
NextEntry == file.index[pos \div BlockSize + 2]
Position(e) == e.pos * 2 ^ file.shift

(* In version 2 only what is smaller than a block is compressed, and the     *)
(* high bit says how.                                                        *)
Method(len) ==
    CASE file.type = "CSO1" -> IF Entry.flag THEN "none" ELSE "deflate"
      [] file.type = "ZSO"  -> IF Entry.flag THEN "none" ELSE "lz4"
      [] file.type = "DAX"  -> IF Entry.flag THEN "none" ELSE "deflate"
      [] file.type = "CSO2" -> IF len >= BlockSize THEN "none"
                               ELSE IF Entry.flag THEN "lz4" ELSE "deflate"

Locate ==
    CASE file.type = "ISO" -> Raw(pos, SECTOR_SIZE, 0)
      [] file.type = "DAX" ->
            Located(Entry.pos, Entry.size, pos % BlockSize, Method(Entry.size))
      [] OTHER ->
            LET len == Position(NextEntry) - Position(Entry)
            IN  Located(Position(Entry), len, pos % BlockSize, Method(len))

-----------------------------------------------------------------------------
(* What is in the bytes of the cache from offset o on.                       *)

Bytes(c, o, n) == [i \in 1 .. n |-> IF o + i - 1 \in DOMAIN c THEN c[o + i - 1] ELSE None]

Extent(at, n) == [i \in 1 .. n |-> at + i - 1]

Sectors == 0 .. file.size \div SECTOR_SIZE - 1
BlockOf(s) == file.blocks[(s * SECTOR_SIZE) \div BlockSize + 1]

StoredAt(s) == IF file.type = "ISO" THEN s * SECTOR_SIZE
               ELSE BlockOf(s).pos + ((s * SECTOR_SIZE) % BlockSize)
IsStored(s) == file.type = "ISO" \/ BlockOf(s).raw

SectorIn(c, o) ==
    LET S == {s \in Sectors : IsStored(s) /\ Bytes(c, o, SECTOR_SIZE) = Extent(StoredAt(s), SECTOR_SIZE)}
    IN  IF S = {} THEN Garbage ELSE CHOOSE s \in S : TRUE

(* inflate and LZ4_decompress_safe_partial: padding behind the data does no  *)
(* harm; what is not the data of a block ends in an error or in garbage.     *)
Decodes(c, o, len) ==
    LET B == {b \in DOMAIN file.blocks :
                 /\ ~file.blocks[b].raw /\ len >= file.blocks[b].size
                 /\ Bytes(c, o, file.blocks[b].size) = Extent(file.blocks[b].pos, file.blocks[b].size)}
    IN  IF B = {} THEN {Error, Garbage} ELSE {Error} \cup B

-----------------------------------------------------------------------------
(* callback_: CompressionTask passes the sector to Output, and the input may *)
(* or may not be paused when that returns.                                   *)

(* Mutant of Complete: one sector early.                                     *)
CompleteEarly(p) == p + SECTOR_SIZE >= file.size

Complete(p) == p = file.size

(* ChecksumTask::HandleBuffer, with the buffers that came too early: here    *)
(* sectors by position.                                                      *)
Ready(p, pend) ==
    {q \in DOMAIN pend : \A x \in p .. q : x % SECTOR_SIZE = p % SECTOR_SIZE => x \in DOMAIN pend}

HandleBuffer(s) ==
    LET next == crcPos + SECTOR_SIZE
        R == Ready(next, pendingBuffers)
        n == IF R = {} THEN 0 ELSE (CHOOSE q \in R : \A x \in R : x <= q) - crcPos
    IN  /\ crc' = (Append(crc, s)) \o [i \in 1 .. n \div SECTOR_SIZE |->
                                          pendingBuffers[crcPos + i * SECTOR_SIZE]]
        /\ crcPos' = next + (n \div SECTOR_SIZE) * SECTOR_SIZE
        /\ pendingBuffers' = [q \in DOMAIN pendingBuffers \ R |-> pendingBuffers[q]]
        /\ IF Complete(crcPos') THEN Notify("SUCCESS") ELSE UNCHANGED notes

Callback(s) ==
    /\ taken' = Append(taken, [pos |-> pos, sector |-> s])
    /\ \/ /\ Compressing /\ paused' \in BOOLEAN
          /\ UNCHANGED <<crc, crcPos, pendingBuffers, notes>>
       \/ /\ ~Compressing /\ UNCHANGED paused
          /\ IF crcPos = pos THEN HandleBuffer(s)
             ELSE /\ pendingBuffers' = [q \in DOMAIN pendingBuffers \cup {pos} |->
                                           IF q = pos THEN s ELSE pendingBuffers[q]]
                  /\ UNCHANGED <<crc, crcPos, notes>>

(* A stored sector is copied to a new buffer, which the callback gets.       *)
DeliverStored(c, o) ==
    /\ Callback(SectorIn(c, o))
    /\ pos' = pos + SECTOR_SIZE
    /\ pc' = "ReadSector"
    /\ UNCHANGED bufs

(* EnqueueDecompressSector: a buffer for the result, and work for a thread.  *)
Decompress(b, o) ==
    /\ pc' = "work" /\ bufs' = bufs + 1
    /\ block' = [b EXCEPT !.pos = o]

-----------------------------------------------------------------------------
ReadSectorEnds ==
    /\ pc = "ReadSector" /\ pos >= file.size
    /\ pc' = "end"
    /\ UNCHANGED <<fixed, pos, flow, cacheVars, block, out, bufferSize, bufs, ownerVars>>

ReadSectorParks ==
    /\ pc = "ReadSector" /\ pos < file.size /\ paused
    /\ resumeShouldRead' = TRUE /\ pc' = "parked"
    /\ UNCHANGED <<fixed, pos, paused, cacheVars, block, out, bufferSize, bufs, ownerVars>>

(* Mutant of Cached: only the first byte is looked for.                      *)
CachedFirst(b) == b.pos >= cachePos /\ b.pos < cachePos + CacheSize

Cached(b) == b.pos >= cachePos /\ b.pos + b.len <= cachePos + CacheSize

ReadSectorHits ==
    /\ pc = "ReadSector" /\ pos < file.size /\ ~paused /\ Cached(Locate)
    /\ \/ /\ Locate.method # "none" /\ Decompress(Locate, Locate.pos - cachePos)
          /\ UNCHANGED <<pos, paused, ownerVars>>
       \/ /\ Locate.method = "none" /\ DeliverStored(cache, Locate.pos - cachePos)
          /\ UNCHANGED block
    /\ UNCHANGED <<fixed, resumeShouldRead, cacheVars, out, bufferSize>>

ReadSectorMisses ==
    /\ pc = "ReadSector" /\ pos < file.size /\ ~paused /\ ~Cached(Locate)
    /\ cachePos' = Locate.pos /\ block' = Locate
    /\ pc' = "read"
    /\ UNCHANGED <<fixed, pos, flow, cache, out, bufferSize, bufs, ownerVars>>

(* The read returns what there is, up to the size of the cache; the rest of  *)
(* the cache keeps what it held.                                             *)
ReadResult == Smaller(CacheSize, Larger(file.length - cachePos, 0))

Filled == [i \in DOMAIN cache |-> IF i < ReadResult THEN cachePos + i ELSE cache[i]]

ReadFails ==
    /\ pc = "read" /\ Finish
    /\ UNCHANGED <<fixed, pos, flow, cacheVars, block, out, bufferSize, bufs, taken, crc, crcPos,
                   pendingBuffers>>

ReadDone ==
    /\ pc = "read" /\ ReadResult >= block.len
    /\ cache' = Filled
    /\ \/ /\ block.method # "none" /\ Decompress(block, 0)
          /\ UNCHANGED <<pos, paused, ownerVars>>
       \/ /\ block.method = "none" /\ DeliverStored(Filled, 0)
          /\ UNCHANGED block
    /\ UNCHANGED <<fixed, resumeShouldRead, cachePos, out, bufferSize>>

(* The worker reads the cache while the loop's thread goes on.               *)
Work ==
    /\ pc = "work"
    /\ out' \in Decodes(cache, block.pos, block.len)
    /\ pc' = "after"
    /\ UNCHANGED <<fixed, pos, flow, cacheVars, block, bufferSize, bufs, ownerVars>>

AfterWorkFails ==
    /\ pc = "after" /\ out = Error
    /\ Finish /\ bufs' = bufs - 1
    /\ UNCHANGED <<fixed, pos, flow, cacheVars, block, out, bufferSize, taken, crc, crcPos,
                   pendingBuffers>>

(* The sector of the decompressed block that lies where pos_ lies in its own. *)
Decompressed ==
    IF out = Garbage THEN Garbage
    ELSE ((out - 1) * BlockSize + (pos % BlockSize)) \div SECTOR_SIZE

BlockEnd == Smaller((pos \div BlockSize + 1) * BlockSize, file.size)

(* Mutants of AfterWork: the buffer is kept when the input was paused; it is *)
(* given back although its last sector has been handed over in it.           *)
AfterWorkKeeps ==
    /\ pc \in {"after", "deliver"} /\ out # Error
    /\ Callback(Decompressed)
    /\ pos' = pos + SECTOR_SIZE
    /\ pc' = IF pos' >= BlockEnd \/ paused' THEN "ReadSector" ELSE "deliver"
    /\ bufs' = IF pos' >= BlockEnd THEN bufs - 1 ELSE bufs
    /\ UNCHANGED <<fixed, resumeShouldRead, cacheVars, block, out, bufferSize>>

AfterWorkReleases ==
    /\ pc \in {"after", "deliver"} /\ out # Error
    /\ Callback(Decompressed)
    /\ pos' = pos + SECTOR_SIZE
    /\ pc' = IF pos' >= BlockEnd \/ paused' THEN "ReadSector" ELSE "deliver"
    /\ bufs' = (IF pos' >= BlockEnd THEN bufs - 1 ELSE bufs) - (IF paused' THEN 1 ELSE 0)
    /\ UNCHANGED <<fixed, resumeShouldRead, cacheVars, block, out, bufferSize>>

(* The after-work callback passes on one sector after the other, the last in *)
(* the block's own buffer, and gives up the rest of the block if paused.     *)
AfterWork ==
    /\ pc \in {"after", "deliver"} /\ out # Error
    /\ Callback(Decompressed)
    /\ pos' = pos + SECTOR_SIZE
    /\ pc' = IF pos' >= BlockEnd \/ paused' THEN "ReadSector" ELSE "deliver"
    /\ bufs' = IF pos' >= BlockEnd \/ paused' THEN bufs - 1 ELSE bufs
    /\ UNCHANGED <<fixed, resumeShouldRead, cacheVars, block, out, bufferSize>>

-----------------------------------------------------------------------------
(* Pause and Resume from Output's callbacks, while Input has no call on the  *)
(* stack.                                                                    *)

Waits == pc \in {"read", "work", "after", "parked"}

Pause ==
    /\ Compressing /\ Waits /\ ~paused
    /\ paused' = TRUE
    /\ UNCHANGED <<fixed, pc, pos, resumeShouldRead, cacheVars, block, out, bufferSize, bufs,
                   ownerVars>>

Resume ==
    /\ Compressing /\ Waits /\ paused
    /\ paused' = FALSE /\ resumeShouldRead' = FALSE
    /\ pc' = IF resumeShouldRead THEN "ReadSector" ELSE pc
    /\ UNCHANGED <<fixed, pos, cacheVars, block, out, bufferSize, bufs, ownerVars>>

Next ==
    \/ Enqueue \/ DetectFormat \/ HeaderDone \/ IndexDone
    \/ ReadSectorEnds \/ ReadSectorParks \/ ReadSectorHits \/ ReadSectorMisses
    \/ ReadDone \/ ReadFails \/ Work \/ AfterWork \/ AfterWorkFails
    \/ Pause \/ Resume

Spec == Init /\ [][Next]_vars

-----------------------------------------------------------------------------
(* Properties *)

(* The fields have their types, and Input releases no buffer twice.            *)
ITypeOK ==
    /\ pc \in {"Enqueue", "DetectFormat", "header", "index", "ReadSector", "read", "work", "after",
               "deliver", "parked", "end", "failed"}
    /\ pos \in Nat /\ pos % SECTOR_SIZE = 0
    /\ paused \in BOOLEAN /\ resumeShouldRead \in BOOLEAN
    /\ bufferSize \in Nat /\ bufs \in Nat
    /\ \A i \in DOMAIN taken : taken[i].sector \in Sectors \cup {Garbage}

(* Whether the bytes come from the cache or from the file, stored or           *)
(* compressed, at the start of a block or after a pause in its middle: every   *)
(* sector passed on is the source's sector at the position it is passed on     *)
(* for, in order and none twice.  Of a file that has been cut off this holds   *)
(* for what is still there; behind its end the cache is taken to hold what     *)
(* the last read did not return (see README.md).                               *)
Intact(s) == IF IsStored(s) THEN StoredAt(s) + SECTOR_SIZE <= file.length
             ELSE BlockOf(s).pos + BlockOf(s).size <= file.length

DeliveredIsSource ==
    \A i \in DOMAIN taken :
        /\ taken[i].pos = (i - 1) * SECTOR_SIZE
        /\ Intact(i - 1) => taken[i].sector = i - 1

(* A buffer that a block is decompressed into, or that stored data is copied   *)
(* to, is large enough for it: neither the pool's minimum, nor the output's    *)
(* block size, nor a resize after the header was read make it too small.       *)
(* Violated if begin_ shrinks the pool, see README.md.                         *)
BufferHoldsBlock ==
    /\ pc = "work" => bufferSize >= BlockSize
    /\ pc = "ReadSector" /\ pos < file.size /\ Locate.method = "none" => bufferSize >= Locate.len

(* Input has a buffer exactly while it reads the header or has a block         *)
(* decompressed; whichever way it stops, and whenever it is paused, it has     *)
(* given every buffer back or handed it on.                                    *)
BuffersReturned == bufs > 0 => bufs = 1 /\ pc \in {"header", "work", "after", "deliver"}

(* ChecksumTask reports success at the end of every source that is not empty,  *)
(* and nothing beside it, when it has summed up as many sectors as the source  *)
(* has: those that are in the file, each at its place, and for a file that is  *)
(* whole exactly the source.  Its queue for buffers out of order is never      *)
(* needed.  Of a file that has been cut off the sectors behind its end are     *)
(* exempt here, and success is reported for some such files all the same: see  *)
(* SuccessIsOfSource.                                                          *)
Succeeded == notes # <<>> /\ notes[1] = "SUCCESS"
Whole == \A s \in Sectors : Intact(s)
SumsSource == \A i \in DOMAIN crc : crc[i] = i - 1

ChecksumComplete ==
    ~Compressing =>
        /\ pendingBuffers = <<>>
        /\ pc = "end" => (notes = <<"SUCCESS">>) = (file.size > 0)
        /\ Succeeded => Len(notes) = 1 /\ Len(crc) * SECTOR_SIZE = file.size
        /\ Succeeded /\ Whole => SumsSource
        /\ \A i \in DOMAIN crc : Intact(i - 1) => crc[i] = i - 1

(* "Unable to read entire sector" is what a read that returns too little is    *)
(* answered with, and a block in the cache's window is "Already read in": a    *)
(* checksum reported with success is the source's, whatever the file's length. *)
(* Violated, see README.md: the length is compared with the block asked for    *)
(* only, and the blocks behind it are then taken from the cache, read or not.  *)
SuccessIsOfSource == ~Compressing /\ Succeeded => SumsSource
=============================================================================
