------------------------ MODULE OutputVerdictProofs -------------------------
(***************************************************************************)
(* What Output reports, for any number of Sectors, any task and any        *)
(* interleaving: one verdict at most if that is success, an index that     *)
(* does not change once it is complete, and the promise of BlockFile.      *)
(***************************************************************************)
EXTENDS OutputProofs

-----------------------------------------------------------------------------
(* The inductive invariant: IInv and what relates the bits of state_, the    *)
(* writes in flight, the unfinished calls of HandleWrittenSectors and what   *)
(* has been reported.  The reason why an error is never followed by success  *)
(* is that it leaves a gap at srcPos_ that nothing can fill.                 *)

Placed == Filling \cup Called \cup Pending \cup Writing

(* HandleReadySector finds nothing to submit any more: the block at srcPos_  *)
(* has been received, and no Sector that could bring it is left.             *)
Stuck ==
    /\ srcPos < Done
    /\ \A s \in Placed : sector[s].pos # srcPos

(* Before SetFile has accepted the task nothing happens.                     *)
Unopened ==
    "HAS_FILE" \notin state =>
        /\ state = {} /\ freeSectors = Sector /\ received = 0 /\ srcPos = 0
        /\ flushes = 0 /\ ready = {} /\ progress = <<>>

(* The calls under way are for positions that grow from the outermost to the *)
(* innermost, none beyond srcPos_; the one for the end of the source comes   *)
(* once.                                                                     *)
Calls ==
    /\ \A i \in 1 .. Len(progress) : progress[i] <= srcPos
    /\ \A i, j \in 1 .. Len(progress) : i < j => progress[j] < progress[i]
    /\ "DATA_WRITTEN" \in state =>
          srcPos = BlockCount /\ \A i \in 1 .. Len(progress) : progress[i] < BlockCount

(* With the last block the index is complete, and its one write is started.  *)
IndexOnce ==
    /\ "INDEX_READY" \in state =>
          srcPos = BlockCount \/ Stuck \/ \E w \in writes : w.nextPos = BlockCount
    /\ "INDEX_WRITTEN" \in state => "INDEX_READY" \in state
    /\ flushes > 0 => /\ flushes = 1 /\ ~task.measure
                      /\ "INDEX_READY" \in state /\ "INDEX_WRITTEN" \notin state

(* What each report leaves behind.                                           *)
Reported ==
    /\ ~Said("busy")
    /\ Said("dax") => state = {}
    /\ Said("header") => "INDEX_READY" \in state /\ "INDEX_WRITTEN" \notin state /\ flushes = 0
    /\ Said("data") \/ Said("format") => Stuck
    /\ Said("success") =>
          finished = <<"success">> /\ {"INDEX_WRITTEN", "DATA_WRITTEN"} \subseteq state

VInv == IInv /\ Unopened /\ Calls /\ IndexOnce /\ Reported

-----------------------------------------------------------------------------
(* Facts *)

(* What has been reported after one more report.                             *)
LEMMA SaidAppend ==
    ASSUME finished \in Seq(Verdicts), NEW v \in Verdicts, finished' = Append(finished, v)
    PROVE  \A x : Said(x)' <=> Said(x) \/ x = v
<1>1. /\ Len(finished') = Len(finished) + 1 /\ Len(finished) \in Nat
      /\ \A i \in 1 .. Len(finished) : finished'[i] = finished[i]
      /\ finished'[Len(finished) + 1] = v
    BY AppendProperties, LenProperties
<1>2. 1 .. Len(finished') = (1 .. Len(finished)) \cup {Len(finished) + 1}
    BY <1>1
<1> QED BY <1>1, <1>2 DEF Said

(* Nothing reported means just that.                                         *)
LEMMA NothingSaid ==
    ASSUME finished \in Seq(Verdicts), \A x \in Verdicts : ~Said(x)
    PROVE  finished = <<>>
<1>1. Len(finished) \in Nat /\ \A i \in 1 .. Len(finished) : finished[i] \in Verdicts
    BY LenProperties, ElementOfSeq
<1>2. Len(finished) = 0
    <2> SUFFICES ASSUME Len(finished) # 0 PROVE FALSE
        OBVIOUS
    <2>1. 1 \in 1 .. Len(finished)
        BY <1>1
    <2> QED BY <1>1, <2>1 DEF Said
<1> QED BY <1>2, EmptySeq

(* Blocks are in the order of the source.                                    *)
LEMMA BlockMonotone ==
    ASSUME task \in Task, NEW p \in Nat, NEW q \in Nat, p <= q
    PROVE  Block(p) <= Block(q)
<1>1. task.perBlock \in Nat \ {0}
    BY TaskFacts
<1>2. /\ Block(p) \in Nat /\ Block(q) \in Nat
      /\ Block(p) * task.perBlock <= p
      /\ q < Block(q) * task.perBlock + task.perBlock
    BY BlockFacts
<1> DEFINE k == task.perBlock
           a == Block(p)
           b == Block(q)
<1> HIDE DEF k, a, b
<1>3. k \in Nat \ {0} /\ a \in Nat /\ b \in Nat /\ a * k < b * k + k
    BY <1>1, <1>2 DEF k, a, b
<1>4. a <= b
    <2> SUFFICES ASSUME a >= b + 1 PROVE FALSE
        BY <1>3
    <2>1. a * k >= (b + 1) * k /\ (b + 1) * k = b * k + k
        BY <1>3
    <2> QED BY <1>3, <2>1
<1> QED BY <1>4 DEF a, b

(* Nothing in use is for a block behind the source's end.                    *)
LEMMA WithinSource ==
    ASSUME IInv
    PROVE  /\ BlockCount \in Nat /\ Done \in Nat /\ Done <= BlockCount
           /\ srcPos \in Nat /\ srcPos <= BlockCount
           /\ \A s \in Used : sector[s].pos \in Nat /\ sector[s].pos < BlockCount
<1> USE DEF IInv
<1>1. /\ task \in Task /\ received \in Nat /\ srcPos \in Nat
      /\ task.sectors \in Nat \ {0} /\ task.sectors - 1 \in Nat
    BY TaskFacts DEF TypeOK
<1>2. BlockCount \in Nat /\ BlockCount = Block(task.sectors - 1) + 1
    BY <1>1, BlockCountFacts
<1>3. /\ Block(received) \in Nat /\ Block(task.sectors - 1) \in Nat
      /\ received < task.sectors => Block(received) < BlockCount
    <2>1. Block(received) \in Nat /\ Block(task.sectors - 1) \in Nat
        BY <1>1, BlockFacts
    <2>2. received < task.sectors => Block(received) <= Block(task.sectors - 1)
        BY <1>1, BlockMonotone
    <2> QED BY <1>2, <2>1, <2>2
<1>4. Done \in Nat /\ Done <= BlockCount
    BY <1>1, <1>2, <1>3 DEF Done, Reception
<1>5. ASSUME NEW s \in Used
      PROVE  sector[s].pos \in Nat /\ sector[s].pos < BlockCount
    <2>1. sector[s].pos \in Nat
        BY DEF Used, TypeOK, SectorRecord
    <2>2. Holds(s)
        BY DEF Reception
    <2>3. \/ received < task.sectors /\ sector[s].pos = Block(received)
          \/ sector[s].pos < Done
        BY <2>2 DEF Holds
    <2> QED BY <1>2, <1>3, <1>4, <2>1, <2>3
<1>6. srcPos <= Done
    BY DEF Ahead
<1> QED BY <1>1, <1>2, <1>4, <1>5, <1>6

(* A Sector in one of Output's places is in use.                             *)
LEMMA PlacedUsed == ASSUME IInv PROVE Placed \subseteq Used
<1> USE DEF IInv
<1>1. Filling \subseteq Sector /\ Called \subseteq Sector /\ Pending \subseteq Sector
    BY DEF Filling, Called, Pending, TypeOK, IsMap
<1>2. Writing \subseteq Sector
    <2> SUFFICES ASSUME NEW w \in writes, NEW k \in 1 .. Len(w.batch) PROVE w.batch[k] \in Sector
        BY DEF Writing, InBatch
    <2> QED BY ElementOfSeq DEF TypeOK
<1> QED BY <1>1, <1>2 DEF Placed, Used, NoSectorSharedOrLost

(* HandleReadySector with a batch: then no error has been reported, nor the  *)
(* end been reached, and the batch is part of the source.                    *)
LEMMA BatchMeans ==
    ASSUME VInv, NEW s \in Sector, NEW n \in 1 .. MAX_BUFS, NextSector(s), BatchSize(n)
    PROVE  /\ n \in Nat \ {0} /\ Batch(s, n) \in Seq(Sector) /\ Len(Batch(s, n)) = n
           /\ ~Stuck /\ writes = {} /\ srcPos + n <= Done /\ srcPos + n <= BlockCount
           /\ state \cap {"INDEX_READY", "INDEX_WRITTEN", "DATA_WRITTEN"} = {}
           /\ "HAS_FILE" \in state /\ flushes = 0 /\ finished = <<>>
<1> USE DEF VInv, IInv
<1> DEFINE B == Batch(s, n)
<1>0. n \in Nat \ {0} /\ srcPos \in Nat
    BY MaxBufsAssumption DEF TypeOK
<1>1. /\ B \in Seq(Sector) /\ Len(B) = n /\ writes = {}
      /\ \A k \in 1 .. n : B[k] \in (Called \cup Pending) \cap Used /\ sector[B[k]].pos = srcPos + k - 1
    BY BatchFacts
<1> HIDE DEF B
<1>2. 1 \in 1 .. n /\ srcPos + 1 - 1 = srcPos
    BY <1>0
<1>3. B[1] \in Placed /\ B[1] \in Used /\ sector[B[1]].pos = srcPos
    BY <1>1, <1>2 DEF Placed
<1>4. ~Stuck
    BY <1>3 DEF Stuck
<1>5. srcPos < BlockCount /\ BlockCount \in Nat /\ Done \in Nat /\ Done <= BlockCount
    BY <1>3, WithinSource
<1>6. srcPos + n <= Done
    <2>1. \A k \in 1 .. n : B[k] \in Used \ Filling /\ sector[B[k]].pos = srcPos + k - 1
        BY <1>1 DEF NoSectorSharedOrLost
    <2> QED BY <1>0, <1>1, <2>1, Advance
<1>7. state \cap {"INDEX_READY", "INDEX_WRITTEN", "DATA_WRITTEN"} = {}
    BY <1>1, <1>4, <1>5 DEF IndexOnce, Calls
<1>8. "HAS_FILE" \in state
    BY <1>3 DEF Unopened, Used
<1>9. flushes = 0
    BY <1>7 DEF IndexOnce, TypeOK
<1>10. finished = <<>>
    <2>1. \A x \in Verdicts : ~Said(x)
        BY <1>4, <1>7, <1>8 DEF Reported, Verdicts
    <2> QED BY <2>1, NothingSaid DEF TypeOK
<1> QED BY <1>0, <1>1, <1>4, <1>5, <1>6, <1>7, <1>8, <1>9, <1>10 DEF B

(* What keeps the gap open.                                                  *)
LEMMA StuckStays ==
    ASSUME IInv, Stuck, srcPos' = srcPos, srcPos < Done',
           \A t \in Placed' : sector'[t].pos # srcPos \/ (t \in Placed /\ sector'[t].pos = sector[t].pos)
    PROVE  Stuck'
BY DEF Stuck

-----------------------------------------------------------------------------
(* The steps *)

LEMMA InitVInv == Init => VInv
<1> SUFFICES ASSUME Init PROVE VInv
    OBVIOUS
<1>1. IInv
    BY InitIInv
<1>2. /\ state = {} /\ finished = <<>> /\ flushes = 0 /\ progress = <<>> /\ writes = {}
      /\ srcPos = 0 /\ received = 0 /\ ready = {} /\ freeSectors = Sector
    BY DEF Init
<1>3. \A x : ~Said(x)
    BY <1>2 DEF Said
<1>4. Unopened /\ IndexOnce /\ Reported
    BY <1>2, <1>3 DEF Unopened, IndexOnce, Reported
<1>5. Calls
    BY <1>2 DEF Calls
<1> QED BY <1>1, <1>4, <1>5 DEF VInv

LEMMA SetFileVInv == ASSUME VInv, SetFile PROVE VInv'
<1> USE DEF VInv
<1>1. IInv'
    BY SetFileIInv
<1>2. /\ state = {} /\ finished = <<>> /\ progress = <<>> /\ ready = {}
      /\ flushes = 0 /\ srcPos = 0 /\ received = 0 /\ freeSectors = Sector
      /\ UNCHANGED <<flushes, srcPos, received, freeSectors, ready, progress>>
    BY DEF SetFile, AtLoop, Unopened
<1>3. \/ state' = {} /\ finished' = Append(finished, "dax")
      \/ state' = {"HAS_FILE"} /\ UNCHANGED finished
    BY <1>2 DEF SetFile
<1>4. \A x : Said(x)' => x = "dax" /\ state' = {}
    <2>1. \A x : ~Said(x)
        BY <1>2 DEF Said
    <2>2. CASE state' = {} /\ finished' = Append(finished, "dax")
        BY <2>1, <2>2, SaidAppend DEF IInv, TypeOK, Verdicts
    <2>3. CASE state' = {"HAS_FILE"} /\ UNCHANGED finished
        BY <2>1, <2>3 DEF Said
    <2> QED BY <1>3, <2>2, <2>3
<1>5. Unopened' /\ IndexOnce' /\ Reported'
    BY <1>2, <1>3, <1>4 DEF Unopened, IndexOnce, Reported
<1>6. Calls'
    BY <1>2, <1>3 DEF Calls
<1> QED BY <1>1, <1>5, <1>6

(* A step that reports nothing, moves no bit and no position, and does not   *)
(* touch the writes.                                                         *)
LEMMA Quiet ==
    ASSUME VInv, IInv',
           UNCHANGED <<task, writes, flushes, srcPos, state, finished, progress>>,
           "HAS_FILE" \in state, Stuck => Stuck'
    PROVE  VInv'
<1> USE DEF VInv
<1>1. BlockCount' = BlockCount /\ \A x : Said(x)' = Said(x)
    BY DEF BlockCount, Said
<1>2. Unopened' /\ Calls'
    BY <1>1 DEF Unopened, Calls
<1>3. IndexOnce'
    BY <1>1 DEF IndexOnce
<1>4. Reported'
    BY <1>1 DEF Reported
<1> QED BY <1>2, <1>3, <1>4

(* Something in use, or a call under way, means that the file is open.       *)
LEMMA Opened ==
    ASSUME VInv, Placed # {} \/ ready # {} \/ progress # <<>>
    PROVE  "HAS_FILE" \in state
<1> USE DEF VInv
<1>1. Placed \subseteq Used
    BY PlacedUsed
<1> QED BY <1>1 DEF Unopened, Used

LEMMA CompressVInv == ASSUME VInv, NEW s \in Sector, Compress(s) PROVE VInv'
<1> USE DEF VInv
<1>1. IInv'
    BY CompressIInv
<1>u. /\ s \in work /\ work' = work \ {s} /\ after' = after \cup {s}
      /\ UNCHANGED <<task, freeSectors, partialSectors, pendingSectors, writes, flushes,
                     srcPos, state, finished, ready, progress, received>>
    BY DEF Compress
<1>2. \A t \in Sector : sector'[t].pos = sector[t].pos
    BY CompressKeeps DEF IInv
<1>3. Placed' = Placed
    <2>1. Filling' = Filling
        BY <1>u DEF Filling, Values
    <2> QED BY <1>u, <2>1, Places DEF Placed
<1>4. "HAS_FILE" \in state
    BY <1>u, Opened DEF Placed, Filling
<1>5. Stuck => Stuck'
    <2>1. Done' = Done
        BY <1>u DEF Done, BlockCount, Block
    <2>2. Placed \subseteq Sector
        BY PlacedUsed DEF Used
    <2> QED BY <1>u, <1>2, <1>3, <2>1, <2>2 DEF Stuck
<1> QED BY <1>1, <1>u, <1>4, <1>5, Quiet

LEMMA AfterWorkVInv == ASSUME VInv, NEW s \in Sector, AfterWork(s) PROVE VInv'
<1> USE DEF VInv
<1>1. IInv'
    BY AfterWorkIInv
<1>u. /\ s \in after /\ ready' = {s} /\ after' = after \ {s}
      /\ UNCHANGED <<task, freeSectors, sector, pendingSectors, work, writes, flushes,
                     srcPos, state, finished, progress, received>>
    BY DEF AfterWork
<1>2. Placed' \subseteq Placed
    <2>1. Values(partialSectors') \subseteq Values(partialSectors)
        BY DEF AfterWork, Erase, Values
    <2>2. Filling' \subseteq Filling /\ s \in Filling
        BY <1>u, <2>1 DEF Filling
    <2>3. Called' \subseteq {s}
        BY <1>u DEF Called
    <2> QED BY <1>u, <2>2, <2>3, Places DEF Placed
<1>3. "HAS_FILE" \in state
    BY <1>u, Opened DEF Placed, Filling
<1>4. Stuck => Stuck'
    <2>1. Done' = Done
        BY <1>u DEF Done, BlockCount, Block
    <2> QED BY <1>u, <1>2, <2>1 DEF Stuck
<1> QED BY <1>1, <1>u, <1>3, <1>4, Quiet

LEMMA HandleReadyWaitVInv == ASSUME VInv, HandleReadyWait PROVE VInv'
<1> USE DEF VInv
<1>1. IInv'
    BY HandleReadyWaitIInv
<1>u. /\ ready' = {} /\ ready # {}
      /\ UNCHANGED <<task, freeSectors, sector, partialSectors, work, after, writes, flushes,
                     srcPos, state, finished, progress, received>>
    BY DEF HandleReadyWait
<1>2. Placed' \subseteq Placed
    <2>1. Pending' \subseteq Pending \cup Called
        <3>1. CASE UNCHANGED pendingSectors
            BY <3>1, Places
        <3>2. ASSUME NEW s \in ready \ {nullptr},
                     pendingSectors' = Insert(pendingSectors, sector[s].pos, s)
              PROVE  Pending' \subseteq Pending \cup Called
            BY <3>2 DEF Pending, Called, Values, Insert
        <3> QED BY <3>1, <3>2 DEF HandleReadyWait
    <2>2. Called' = {}
        BY <1>u DEF Called
    <2> QED BY <1>u, <2>1, <2>2, Places DEF Placed
<1>3. "HAS_FILE" \in state
    BY <1>u, Opened
<1>4. Stuck => Stuck'
    <2>1. Done' = Done
        BY <1>u DEF Done, BlockCount, Block
    <2> QED BY <1>u, <1>2, <2>1 DEF Stuck
<1> QED BY <1>1, <1>u, <1>3, <1>4, Quiet

(* A sector received is of no block before Done, so it fills no gap.         *)
LEMMA ReceiveVInv == ASSUME VInv, Receive PROVE VInv'
<1> USE DEF VInv
<1>1. IInv'
    BY ReceiveIInv
<1> DEFINE b == Block(received)
<1>u. /\ ready = {} /\ received < task.sectors /\ received' = received + 1 /\ "HAS_FILE" \in state
      /\ UNCHANGED <<task, pendingSectors, after, writes, flushes, srcPos, state, progress>>
    BY DEF Receive, Enqueue
<1>2. PICK s \in Taker(received), q \in SectorRecord :
        /\ sector' = [sector EXCEPT ![s] = q] /\ q.pos = b
        /\ \/ /\ UNCHANGED <<work, ready>>
              /\ partialSectors' = Insert(partialSectors, b, s)
           \/ /\ work' = work \cup {s} /\ UNCHANGED ready
              /\ partialSectors' = IF task.perBlock = 1 THEN partialSectors
                                   ELSE Insert(partialSectors, b, s)
           \/ /\ ready' = {s} /\ UNCHANGED work
              /\ partialSectors' = IF task.perBlock = 1 THEN Erase(partialSectors, {b})
                                   ELSE Erase(Insert(partialSectors, b, s), {b})
        /\ UNCHANGED finished
    BY EnqueueCases
<1>3. Placed' \subseteq Placed \cup {s}
    <2>1. Values(partialSectors') \subseteq Values(partialSectors) \cup {s}
        BY <1>2 DEF Values, Insert, Erase
    <2>2. Filling' \subseteq Filling \cup {s} /\ Called' \subseteq Called \cup {s}
        BY <1>2, <1>u, <2>1 DEF Filling, Called
    <2> QED BY <1>u, <2>2, Places DEF Placed
<1>4. Stuck => Stuck'
    <2> SUFFICES ASSUME Stuck PROVE Stuck'
        OBVIOUS
    <2>1. task \in Task /\ received \in Nat /\ srcPos \in Nat /\ b \in Nat
        BY BlockFacts DEF IInv, TypeOK
    <2>2. Done = b /\ srcPos < b
        BY <1>u, <2>1, DoneGrows DEF Stuck
    <2>3. srcPos < Done'
        <3>1. Lo \in Nat /\ Hi \in Nat /\ Hi <= Lo + task.perBlock - 1 /\ task.perBlock \in Nat
            BY <1>u, <2>1, PaddingFacts, TaskFacts
        <3>2. Done' = b + 1 \/ Done' = b
            BY <1>u, <2>1, <3>1, DoneGrows
        <3> HIDE DEF b
        <3> QED BY <2>1, <2>2, <3>2
    <2>4. \A t \in Placed' : sector'[t].pos # srcPos \/ (t \in Placed /\ sector'[t].pos = sector[t].pos)
        <3>1. sector \in [Sector -> SectorRecord] /\ s \in Sector
            BY <1>2 DEF IInv, TypeOK, Taker, IsMap, Values
        <3>2. sector'[s].pos = b /\ \A t : t # s => sector'[t] = sector[t]
            BY <1>2, <3>1
        <3> HIDE DEF b
        <3>3. b # srcPos
            BY <2>1, <2>2
        <3> QED BY <1>3, <3>2, <3>3
    <2> QED BY <1>u, <2>3, <2>4, StuckStays
<1> QED BY <1>1, <1>u, <1>2, <1>4, Quiet

(* The batch that is given up leaves the gap.                                *)
LEMMA HandleReadyRejectVInv == ASSUME VInv, HandleReadyReject PROVE VInv'
<1> USE DEF VInv
<1>1. IInv'
    BY HandleReadyRejectIInv
<1>u. /\ ready' = {} /\ finished' = Append(finished, "format")
      /\ UNCHANGED <<task, freeSectors, sector, partialSectors, work, after, writes, flushes,
                     srcPos, state, progress, received>>
    BY DEF HandleReadyReject
<1>2. PICK s \in Sector, n \in 1 .. MAX_BUFS :
        /\ NextSector(s) /\ BatchSize(n)
        /\ pendingSectors' = Erase(pendingSectors, srcPos .. srcPos + Len(Batch(s, n)) - 1)
    BY DEF HandleReadyReject
<1> DEFINE B == Batch(s, n)
<1>3. /\ n \in Nat \ {0} /\ Len(B) = n /\ writes = {} /\ srcPos + n <= Done
      /\ state \cap {"INDEX_READY", "INDEX_WRITTEN", "DATA_WRITTEN"} = {}
      /\ "HAS_FILE" \in state /\ flushes = 0 /\ finished = <<>>
    BY <1>2, BatchMeans
<1>4. \A x : Said(x)' <=> x = "format"
    <2>1. \A x : ~Said(x)
        BY <1>3 DEF Said
    <2>2. \A x : Said(x)' <=> Said(x) \/ x = "format"
        BY <1>u, SaidAppend DEF IInv, TypeOK, Verdicts
    <2> QED BY <2>1, <2>2
<1>5. /\ srcPos \in Nat /\ Done \in Nat /\ srcPos < Done /\ Done' = Done
      /\ BlockCount' = BlockCount
    <2>1. Done' = Done /\ BlockCount' = BlockCount
        BY <1>u DEF Done, BlockCount, Block
    <2>2. srcPos \in Nat /\ Done \in Nat
        BY WithinSource
    <2> QED BY <1>3, <2>1, <2>2
<1>6. B[1] \in Called \cup Pending /\ B[1] \in Used /\ sector[B[1]].pos = srcPos
    <2>1. 1 \in 1 .. n /\ srcPos + 1 - 1 = srcPos
        BY <1>3, <1>5
    <2> QED BY <1>2, <2>1, BatchFacts
<1> HIDE DEF B
<1>7. \A t \in Filling : sector[t].pos # srcPos
    <2>1. \A t \in Filling : t # B[1] /\ t \in Used
        BY <1>6, PlacedUsed DEF Placed, IInv, NoSectorSharedOrLost
    <2> QED BY <1>6, <2>1 DEF IInv, Distinct
<1>8. \A t \in Pending' : sector[t].pos # srcPos
    <2>1. srcPos \in srcPos .. srcPos + Len(Batch(s, n)) - 1
        BY <1>3, <1>5 DEF B
    <2>2. ASSUME NEW b \in DOMAIN pendingSectors'
          PROVE  b # srcPos /\ pendingSectors'[b] = pendingSectors[b] /\ b \in DOMAIN pendingSectors
        BY <1>2, <2>1 DEF Erase
    <2> QED BY <2>2 DEF Pending, Values, IInv, Keys
<1>9. Stuck'
    <2>1. Placed' = Filling \cup Pending'
        <3>1. Called' = {} /\ Writing' = {} /\ Filling' = Filling
            BY <1>u, <1>3, Places DEF Called, Writing
        <3> QED BY <3>1 DEF Placed
    <2> QED BY <1>u, <1>5, <1>7, <1>8, <2>1 DEF Stuck
<1>10. Unopened' /\ Reported'
    BY <1>u, <1>3, <1>4, <1>9 DEF Unopened, Reported
<1>11. Calls' /\ IndexOnce'
    BY <1>u, <1>3, <1>5 DEF Calls, IndexOnce
<1> QED BY <1>1, <1>10, <1>11

(* What Flush does to the bits, once for all: at the end of the source and   *)
(* only there.  It never is what completes the output.                       *)
LEMMA FlushMeans ==
    ASSUME VInv, NEW s \in Sector, NEW n \in 1 .. MAX_BUFS, NextSector(s), BatchSize(n),
           Flush(Batch(s, n))
    PROVE  /\ finished' = <<>>
           /\ \/ srcPos + n < BlockCount /\ UNCHANGED <<state, flushes>>
              \/ /\ srcPos + n = BlockCount
                 /\ state' = state \cup {"INDEX_READY"}
                 /\ flushes' = 1 /\ ~task.measure /\ ~task.decompress
              \/ /\ srcPos + n = BlockCount
                 /\ state' = state \cup {"INDEX_READY", "INDEX_WRITTEN"}
                 /\ flushes' = 0 /\ (task.measure \/ task.decompress)
<1> DEFINE B == Batch(s, n)
<1>1. /\ n \in Nat \ {0} /\ Len(B) = n /\ srcPos + n <= BlockCount
      /\ state \cap {"INDEX_READY", "INDEX_WRITTEN", "DATA_WRITTEN"} = {}
      /\ flushes = 0 /\ finished = <<>>
    BY BatchMeans
<1>2. srcPos \in Nat /\ BlockCount \in Nat
    BY WithinSource DEF VInv
<1> HIDE DEF B
<1>3. CASE srcPos + Len(B) >= BlockCount
    <2>1. srcPos + n = BlockCount
        BY <1>1, <1>2, <1>3
    <2>2. /\ state' = state \cup FlushBits
          /\ flushes' = IF "INDEX_WRITTEN" \in FlushBits THEN flushes ELSE flushes + 1
          /\ finished' = IF "INDEX_WRITTEN" \in FlushBits
                         THEN CheckFinish(state \cup FlushBits) ELSE finished
        BY <1>3 DEF Flush, B
    <2>3. "DATA_WRITTEN" \notin state \cup FlushBits
        BY <1>1 DEF FlushBits
    <2>4. finished' = <<>>
        BY <1>1, <2>2, <2>3 DEF CheckFinish
    <2> QED BY <1>1, <2>1, <2>2, <2>4 DEF FlushBits
<1>4. CASE srcPos + Len(B) < BlockCount
    BY <1>1, <1>2, <1>4 DEF Flush, B
<1> QED BY <1>1, <1>2, <1>3, <1>4

LEMMA HandleReadySubmitVInv == ASSUME VInv, HandleReadySubmit PROVE VInv'
<1> USE DEF VInv
<1>1. IInv'
    BY HandleReadySubmitIInv
<1>u. ready' = {} /\ task' = task
    BY DEF HandleReadySubmit
<1>2. PICK s \in Sector, n \in 1 .. MAX_BUFS :
        /\ NextSector(s) /\ BatchSize(n) /\ Flush(Batch(s, n))
        /\ \/ /\ task.measure /\ srcPos' = srcPos + Len(Batch(s, n))
              /\ progress' = <<srcPos + Len(Batch(s, n))>> \o progress
           \/ /\ ~task.measure /\ UNCHANGED <<srcPos, progress>>
              /\ \E w : writes' = writes \cup {w} /\ w.nextPos = srcPos + Len(Batch(s, n))
    <2>1. PICK s \in Sector, n \in 1 .. MAX_BUFS :
        /\ NextSector(s) /\ BatchSize(n) /\ Flush(Batch(s, n))
        /\ \/ /\ task.measure /\ srcPos' = srcPos + Len(Batch(s, n))
              /\ progress' = <<srcPos + Len(Batch(s, n))>> \o progress
           \/ /\ ~task.measure /\ UNCHANGED <<srcPos, progress>>
              /\ writes' = writes \cup {[batch |-> Batch(s, n), at |-> Positions(Batch(s, n)),
                                         nextPos |-> srcPos + Len(Batch(s, n))]}
        BY DEF HandleReadySubmit
    <2>2. [batch |-> Batch(s, n), at |-> Positions(Batch(s, n)),
           nextPos |-> srcPos + Len(Batch(s, n))].nextPos = srcPos + Len(Batch(s, n))
        OBVIOUS
    <2> QED BY <2>1, <2>2
<1>3. /\ n \in Nat \ {0} /\ Len(Batch(s, n)) = n /\ writes = {}
      /\ state \cap {"INDEX_READY", "INDEX_WRITTEN", "DATA_WRITTEN"} = {}
      /\ "HAS_FILE" \in state
    BY <1>2, BatchMeans
<1>4. /\ srcPos \in Nat /\ BlockCount \in Nat /\ BlockCount' = BlockCount
      /\ progress \in Seq(Nat)
    BY <1>u, WithinSource DEF BlockCount, IInv, TypeOK
<1>5. /\ finished' = <<>>
      /\ \/ srcPos + n < BlockCount /\ UNCHANGED <<state, flushes>>
         \/ /\ srcPos + n = BlockCount
            /\ state' = state \cup {"INDEX_READY"}
            /\ flushes' = 1 /\ ~task.measure
         \/ /\ srcPos + n = BlockCount
            /\ state' = state \cup {"INDEX_READY", "INDEX_WRITTEN"}
            /\ flushes' = 0
    BY <1>2, FlushMeans
<1>6. Reported' /\ Unopened'
    <2>1. \A x : ~Said(x)'
        BY <1>5 DEF Said
    <2>2. "HAS_FILE" \in state'
        BY <1>3, <1>5
    <2> QED BY <2>1, <2>2 DEF Reported, Unopened
<1>7. "DATA_WRITTEN" \notin state' /\ flushes \in Nat
    BY <1>3, <1>5 DEF IInv, TypeOK
<1>8. IndexOnce'
    <2>1. "INDEX_READY" \in state' => srcPos' = BlockCount' \/ \E w \in writes' : w.nextPos = BlockCount'
        BY <1>2, <1>3, <1>4, <1>5
    <2>2. flushes' > 0 => flushes' = 1 /\ ~task'.measure /\ "INDEX_READY" \in state' /\ "INDEX_WRITTEN" \notin state'
        BY <1>u, <1>3, <1>5 DEF IndexOnce
    <2>3. "INDEX_WRITTEN" \in state' => "INDEX_READY" \in state'
        BY <1>3, <1>5
    <2> QED BY <2>1, <2>2, <2>3 DEF IndexOnce
<1>9. Calls'
    <2>1. CASE ~task.measure
        BY <1>2, <1>7, <2>1 DEF Calls
    <2>2. CASE task.measure
        <3> DEFINE next == srcPos + n
        <3>1. srcPos' = next /\ progress' = <<next>> \o progress /\ next \in Nat /\ srcPos < next
            BY <1>2, <1>3, <1>4, <2>2
        <3> HIDE DEF next
        <3>2. /\ Len(progress) \in Nat /\ Len(progress') = Len(progress) + 1 /\ progress'[1] = next
              /\ \A i \in 1 .. Len(progress') : i # 1 => /\ i - 1 \in 1 .. Len(progress)
                                                         /\ progress'[i] = progress[i - 1]
            BY <1>4, <3>1
        <3>3. \A i \in 1 .. Len(progress) : progress[i] \in Nat /\ progress[i] < next
            BY <1>4, <3>1 DEF Calls
        <3>4. \A i \in 1 .. Len(progress') : progress'[i] <= srcPos'
            BY <3>1, <3>2, <3>3
        <3>5. ASSUME NEW i \in 1 .. Len(progress'), NEW j \in 1 .. Len(progress'), i < j
              PROVE  progress'[j] < progress'[i]
            <4>1. j # 1 /\ j - 1 \in 1 .. Len(progress) /\ progress'[j] = progress[j - 1]
                BY <3>2, <3>5
            <4>2. CASE i = 1
                BY <3>2, <3>3, <4>1, <4>2
            <4>3. CASE i # 1
                <5>1. i - 1 \in 1 .. Len(progress) /\ progress'[i] = progress[i - 1] /\ i - 1 < j - 1
                    BY <3>2, <3>5, <4>3
                <5> QED BY <4>1, <5>1 DEF Calls
            <4> QED BY <4>2, <4>3
        <3> QED BY <1>7, <3>4, <3>5 DEF Calls
    <2> QED BY <2>1, <2>2
<1> QED BY <1>1, <1>6, <1>8, <1>9

(* A write in flight means that no error of the data has been reported.      *)
LEMMA WriteMeans ==
    ASSUME VInv, NEW w \in writes
    PROVE  /\ w.batch \in Seq(Sector) /\ Len(w.batch) \in Nat \ {0}
           /\ w.nextPos = srcPos + Len(w.batch) /\ writes = {w} /\ w.nextPos <= Done
           /\ ~Stuck /\ "DATA_WRITTEN" \notin state /\ "HAS_FILE" \in state
           /\ \A x \in Verdicts \ {"header"} : ~Said(x)
<1> USE DEF VInv
<1> DEFINE n == Len(w.batch)
<1>1. w.batch \in Seq(Sector) /\ n \in Nat \ {0} /\ w.nextPos = srcPos + n /\ writes = {w}
    BY LenProperties DEF IInv, TypeOK, Ahead
<1>2. srcPos \in Nat /\ BlockCount \in Nat
    BY WithinSource
<1>3. \A k \in 1 .. n : w.batch[k] \in Writing /\ sector[w.batch[k]].pos = srcPos + k - 1
    BY DEF Writing, InBatch, IInv, Ahead
<1>4. w.batch[1] \in Placed /\ w.batch[1] \in Used /\ sector[w.batch[1]].pos = srcPos
    <2>1. 1 \in 1 .. n /\ srcPos + 1 - 1 = srcPos
        BY <1>1, <1>2
    <2>2. w.batch[1] \in Placed
        BY <1>3, <2>1 DEF Placed
    <2> QED BY <1>3, <2>1, <2>2, PlacedUsed
<1>5. ~Stuck
    BY <1>4 DEF Stuck
<1>6. srcPos < BlockCount
    BY <1>4, WithinSource
<1>7. "DATA_WRITTEN" \notin state
    BY <1>2, <1>6 DEF Calls
<1>8. "HAS_FILE" \in state
    BY <1>4, Opened
<1>9. srcPos + n <= Done
    <2>1. \A k \in 1 .. n : w.batch[k] \in Used \ Filling
        BY <1>3, PlacedUsed DEF Placed, IInv, NoSectorSharedOrLost
    <2> QED BY <1>1, <1>3, <2>1, Advance
<1>10. \A x \in Verdicts \ {"header"} : ~Said(x)
    BY <1>5, <1>7, <1>8 DEF Reported, Verdicts
<1> QED BY <1>1, <1>5, <1>7, <1>8, <1>9, <1>10

(* The write's callback: written, its blocks are behind srcPos_; failed,     *)
(* nothing will ever write them.                                             *)
LEMMA HandleWrittenSectorsVInv ==
    ASSUME VInv, NEW w \in writes, NEW ok \in BOOLEAN, HandleWrittenSectors(w, ok)
    PROVE  VInv'
<1> USE DEF VInv
<1>1. IInv'
    BY HandleWrittenSectorsIInv
<1> DEFINE n == Len(w.batch)
           S == {w.batch[k] : k \in 1 .. n}
<1>u. /\ writes' = writes \ {w} /\ sector' = Release(S) /\ progress = <<>>
      /\ UNCHANGED <<task, partialSectors, pendingSectors, work, after, flushes,
                     state, ready, received>>
    BY DEF HandleWrittenSectors, AtLoop
<1>2. /\ w.batch \in Seq(Sector) /\ n \in Nat \ {0} /\ w.nextPos = srcPos + n /\ writes = {w}
      /\ w.nextPos <= Done /\ ~Stuck /\ "DATA_WRITTEN" \notin state /\ "HAS_FILE" \in state
      /\ \A x \in Verdicts \ {"header"} : ~Said(x)
    BY WriteMeans
<1>3. /\ srcPos \in Nat /\ Done \in Nat /\ BlockCount \in Nat
      /\ Done' = Done /\ BlockCount' = BlockCount
    <2>1. Done' = Done /\ BlockCount' = BlockCount
        BY <1>u DEF Done, BlockCount, Block
    <2> QED BY <2>1, WithinSource
<1>4. Unopened'
    BY <1>u, <1>2 DEF Unopened
<1>5. writes' = {}
    BY <1>u, <1>2
<1>6. CASE ok
    <2>1. srcPos' = w.nextPos /\ progress' = <<w.nextPos>> /\ UNCHANGED finished
        BY <1>6 DEF HandleWrittenSectors
    <2>2. Calls'
        <3>1. Len(progress') = 1 /\ progress'[1] = srcPos' /\ srcPos' \in Nat
            BY <1>2, <1>3, <2>1
        <3> QED BY <1>u, <1>2, <3>1 DEF Calls
    <2>3. IndexOnce'
        <3>1. srcPos # BlockCount
            BY <1>2, <1>3, WithinSource
        <3>2. "INDEX_READY" \in state => w.nextPos = BlockCount
            BY <1>2, <3>1 DEF IndexOnce
        <3>3. "INDEX_READY" \in state' => srcPos' = BlockCount'
            BY <1>u, <1>3, <2>1, <3>2
        <3>4. /\ "INDEX_WRITTEN" \in state' => "INDEX_READY" \in state'
              /\ flushes' > 0 => /\ flushes' = 1 /\ ~task'.measure
                                 /\ "INDEX_READY" \in state' /\ "INDEX_WRITTEN" \notin state'
            BY <1>u DEF IndexOnce
        <3> QED BY <3>3, <3>4 DEF IndexOnce
    <2>4. Reported'
        <3>1. \A x : Said(x)' = Said(x)
            BY <2>1 DEF Said
        <3>2. {"busy", "dax", "data", "format", "success"} \subseteq Verdicts \ {"header"}
            BY DEF Verdicts
        <3>3. Said("header") => "INDEX_READY" \in state /\ "INDEX_WRITTEN" \notin state /\ flushes = 0
            BY DEF Reported
        <3> QED BY <1>u, <1>2, <3>1, <3>2, <3>3 DEF Reported
    <2> QED BY <1>1, <1>4, <2>2, <2>3, <2>4
<1>7. CASE ~ok
    <2>1. finished' = Append(finished, "data") /\ UNCHANGED <<srcPos, progress>>
        BY <1>7 DEF HandleWrittenSectors
    <2>2. Stuck'
        <3>1. srcPos < Done
            BY <1>2, <1>3
        <3>2. \A t \in Filling \cup Called \cup Pending : t \notin S /\ t \in Used
            BY <1>2, PlacedUsed DEF Placed, Writing, InBatch, IInv, NoSectorSharedOrLost
        <3>3. \A t \in Filling \cup Called \cup Pending : sector'[t] = sector[t]
            BY <1>u, <3>2 DEF Release, Used
        <3>4. Placed' = Filling \cup Called \cup Pending
            <4>1. Writing' = {}
                BY <1>5 DEF Writing
            <4> QED BY <1>u, <4>1, Places DEF Placed
        <3>5. w.batch[1] \in S /\ sector[w.batch[1]].pos = srcPos /\ w.batch[1] \in Used
            <4>1. 1 \in 1 .. n /\ srcPos + 1 - 1 = srcPos
                BY <1>2, <1>3
            <4>2. sector[w.batch[1]].pos = srcPos
                BY <4>1 DEF IInv, Ahead
            <4>3. w.batch[1] \in Writing
                BY <4>1 DEF Writing, InBatch
            <4> QED BY <4>1, <4>2, <4>3, PlacedUsed DEF Placed
        <3>6. \A t \in Filling \cup Called \cup Pending : sector[t].pos # srcPos
            BY <3>2, <3>5 DEF IInv, Distinct
        <3> QED BY <1>3, <2>1, <3>1, <3>3, <3>4, <3>6 DEF Stuck
    <2>3. Calls'
        BY <1>u, <1>2, <2>1 DEF Calls
    <2>4. IndexOnce'
        BY <1>u, <2>2 DEF IndexOnce
    <2>5. Reported'
        <3>1. \A x : Said(x)' <=> Said(x) \/ x = "data"
            BY <2>1, SaidAppend DEF IInv, TypeOK, Verdicts
        <3>2. {"busy", "dax", "data", "format", "success"} \subseteq Verdicts \ {"header"}
            BY DEF Verdicts
        <3>3. Said("header") => "INDEX_READY" \in state /\ "INDEX_WRITTEN" \notin state /\ flushes = 0
            BY DEF Reported
        <3> QED BY <1>u, <1>2, <2>2, <3>1, <3>2, <3>3 DEF Reported
    <2> QED BY <1>1, <1>4, <2>3, <2>4, <2>5
<1> QED BY <1>6, <1>7

(* Success is what CheckFinish adds, and only when nothing was reported.     *)
LEMMA CheckFinishMeans ==
    ASSUME VInv, NEW bits, finished' = CheckFinish(bits),
           {"INDEX_WRITTEN", "DATA_WRITTEN"} \subseteq bits => finished = <<>>
    PROVE  /\ {"INDEX_WRITTEN", "DATA_WRITTEN"} \subseteq bits =>
                 finished' = <<"success">> /\ \A x : Said(x)' <=> x = "success"
           /\ ~({"INDEX_WRITTEN", "DATA_WRITTEN"} \subseteq bits) =>
                 finished' = finished /\ \A x : Said(x)' = Said(x)
<1>1. CASE {"INDEX_WRITTEN", "DATA_WRITTEN"} \subseteq bits
    <2>1. finished' = <<"success">>
        BY <1>1 DEF CheckFinish
    <2> QED BY <1>1, <2>1 DEF Said
<1>2. CASE ~({"INDEX_WRITTEN", "DATA_WRITTEN"} \subseteq bits)
    <2>1. finished' = finished
        BY <1>2 DEF CheckFinish
    <2> QED BY <1>2, <2>1 DEF Said
<1> QED BY <1>1, <1>2

LEMMA AfterProgressVInv == ASSUME VInv, AfterProgress PROVE VInv'
<1> USE DEF VInv
<1>1. IInv'
    BY AfterProgressIInv
<1>u. /\ progress # <<>> /\ progress' = Tail(progress)
      /\ UNCHANGED <<task, freeSectors, sector, partialSectors, pendingSectors, work, after,
                     writes, flushes, srcPos, received>>
    BY DEF AfterProgress
<1>2. /\ srcPos \in Nat /\ BlockCount \in Nat /\ srcPos <= BlockCount /\ Done <= BlockCount
      /\ Done \in Nat /\ BlockCount' = BlockCount /\ Done' = Done
    <2>1. BlockCount' = BlockCount /\ Done' = Done
        BY <1>u DEF Done, BlockCount, Block
    <2> QED BY <2>1, WithinSource
<1>3. /\ progress \in Seq(Nat) /\ Len(progress) \in Nat \ {0} /\ Head(progress) = progress[1]
      /\ Len(progress') = Len(progress) - 1
      /\ \A i \in 1 .. Len(progress') : progress'[i] = progress[i + 1] /\ i + 1 \in 2 .. Len(progress)
    <2>1. progress \in Seq(Nat)
        BY DEF IInv, TypeOK
    <2>2. Len(progress) \in Nat \ {0}
        BY <1>u, <2>1, EmptySeq, LenProperties
    <2> QED BY <1>u, <2>1, <2>2
<1>4. /\ progress[1] \in Nat /\ progress[1] <= srcPos
      /\ \A i \in 1 .. Len(progress') :
            progress'[i] <= srcPos /\ progress'[i] < progress[1] /\ progress'[i] \in Nat
    <2>1. 1 \in 1 .. Len(progress) /\ \A i \in 1 .. Len(progress') : i + 1 \in 1 .. Len(progress) /\ 1 < i + 1
        BY <1>3
    <2> QED BY <1>3, <2>1 DEF Calls
<1>5. \A i, j \in 1 .. Len(progress') : i < j => progress'[j] < progress'[i]
    <2> SUFFICES ASSUME NEW i \in 1 .. Len(progress'), NEW j \in 1 .. Len(progress'), i < j
                 PROVE  progress'[j] < progress'[i]
        OBVIOUS
    <2>1. /\ i + 1 \in 1 .. Len(progress) /\ j + 1 \in 1 .. Len(progress) /\ i + 1 < j + 1
          /\ progress'[i] = progress[i + 1] /\ progress'[j] = progress[j + 1]
        BY <1>3
    <2> QED BY <2>1 DEF Calls
<1>6. "HAS_FILE" \in state
    BY <1>u, Opened
<1>7. CASE Head(progress) < BlockCount
    <2>1. ready' = {nullptr} /\ UNCHANGED <<state, finished>>
        BY <1>2, <1>3, <1>4, <1>7 DEF AfterProgress
    <2>2. Stuck => Stuck'
        <3>1. Called' \subseteq Called
            BY <2>1 DEF Called
        <3>2. Placed' \subseteq Placed
            BY <1>u, <3>1, Places DEF Placed
        <3> QED BY <1>u, <1>2, <3>2 DEF Stuck
    <2>3. Calls'
        BY <1>u, <1>2, <1>3, <1>4, <1>5, <1>7, <2>1 DEF Calls
    <2>4. \A x : Said(x)' = Said(x)
        BY <2>1 DEF Said
    <2>5. Unopened' /\ IndexOnce' /\ Reported'
        BY <1>u, <1>2, <1>6, <2>1, <2>2, <2>4 DEF Unopened, IndexOnce, Reported
    <2> QED BY <1>1, <2>3, <2>5
<1>8. CASE Head(progress) >= BlockCount
    <2>1. /\ state' = state \cup {"DATA_WRITTEN"} /\ finished' = CheckFinish(state')
          /\ UNCHANGED ready
        BY <1>2, <1>3, <1>4, <1>8 DEF AfterProgress
    <2>2. srcPos = BlockCount /\ progress[1] = BlockCount
        BY <1>2, <1>3, <1>4, <1>8
    <2>3. "DATA_WRITTEN" \notin state /\ ~Stuck
        <3>1. 1 \in 1 .. Len(progress)
            BY <1>3
        <3> QED BY <1>2, <2>2, <3>1 DEF Calls, Stuck
    <2>4. "INDEX_WRITTEN" \in state => finished = <<>>
        <3>1. "INDEX_WRITTEN" \in state => \A x \in Verdicts : ~Said(x)
            BY <1>6, <2>3 DEF Reported, Verdicts
        <3> QED BY <3>1, NothingSaid DEF IInv, TypeOK
    <2>5. /\ {"INDEX_WRITTEN", "DATA_WRITTEN"} \subseteq state' =>
                finished' = <<"success">> /\ \A x : Said(x)' <=> x = "success"
          /\ ~({"INDEX_WRITTEN", "DATA_WRITTEN"} \subseteq state') =>
                finished' = finished /\ \A x : Said(x)' = Said(x)
        BY <2>1, <2>4, CheckFinishMeans
    <2>6. Calls'
        BY <1>u, <1>2, <1>3, <1>4, <1>5, <2>2 DEF Calls
    <2>7. Unopened' /\ IndexOnce'
        BY <1>u, <1>2, <1>6, <2>1, <2>2 DEF Unopened, IndexOnce
    <2>8. Reported'
        <3>1. CASE {"INDEX_WRITTEN", "DATA_WRITTEN"} \subseteq state'
            BY <2>5, <3>1 DEF Reported
        <3>2. CASE ~({"INDEX_WRITTEN", "DATA_WRITTEN"} \subseteq state')
            BY <1>u, <1>6, <2>1, <2>3, <2>5, <3>2 DEF Reported
        <3> QED BY <3>1, <3>2
    <2> QED BY <1>1, <2>6, <2>7, <2>8
<1> QED BY <1>2, <1>3, <1>4, <1>7, <1>8

LEMMA WriteIndexDoneVInv == ASSUME VInv, NEW ok \in BOOLEAN, WriteIndexDone(ok) PROVE VInv'
<1> USE DEF VInv
<1>1. IInv'
    BY WriteIndexDoneIInv
<1>u. /\ flushes > 0 /\ flushes' = flushes - 1
      /\ UNCHANGED <<task, freeSectors, sector, partialSectors, pendingSectors, work, after,
                     writes, srcPos, ready, progress, received>>
    BY DEF WriteIndexDone
<1>2. /\ flushes = 1 /\ flushes' = 0 /\ ~task.measure
      /\ "INDEX_READY" \in state /\ "INDEX_WRITTEN" \notin state
    BY <1>u DEF IndexOnce
<1>3. "HAS_FILE" \in state
    BY <1>2 DEF Unopened
<1>4. /\ srcPos \in Nat /\ BlockCount \in Nat /\ Done <= BlockCount /\ Done \in Nat
      /\ BlockCount' = BlockCount /\ Done' = Done
    <2>1. BlockCount' = BlockCount /\ Done' = Done
        BY <1>u DEF Done, BlockCount, Block
    <2> QED BY <2>1, WithinSource
<1>5. Stuck => Stuck'
    <2>1. Placed' = Placed
        BY <1>u, Places DEF Placed
    <2> QED BY <1>u, <1>4, <2>1 DEF Stuck
<1>6. "DATA_WRITTEN" \in state => ~Stuck
    BY <1>4 DEF Stuck, Calls
<1>7. CASE ok
    <2>1. state' = state \cup {"INDEX_WRITTEN"} /\ finished' = CheckFinish(state')
        BY <1>7 DEF WriteIndexDone
    <2>2. "DATA_WRITTEN" \in state => finished = <<>>
        <3>1. "DATA_WRITTEN" \in state => \A x \in Verdicts : ~Said(x)
            BY <1>2, <1>3, <1>6 DEF Reported, Verdicts
        <3> QED BY <3>1, NothingSaid DEF IInv, TypeOK
    <2>3. /\ {"INDEX_WRITTEN", "DATA_WRITTEN"} \subseteq state' =>
                finished' = <<"success">> /\ \A x : Said(x)' <=> x = "success"
          /\ ~({"INDEX_WRITTEN", "DATA_WRITTEN"} \subseteq state') =>
                finished' = finished /\ \A x : Said(x)' = Said(x)
        BY <2>1, <2>2, CheckFinishMeans
    <2>4. Unopened' /\ Calls'
        BY <1>u, <1>3, <1>4, <2>1 DEF Unopened, Calls
    <2>5. IndexOnce'
        BY <1>u, <1>2, <1>4, <1>5, <2>1 DEF IndexOnce
    <2>6. Reported'
        <3>1. CASE {"INDEX_WRITTEN", "DATA_WRITTEN"} \subseteq state'
            BY <2>3, <3>1 DEF Reported
        <3>2. CASE ~({"INDEX_WRITTEN", "DATA_WRITTEN"} \subseteq state')
            <4>1. ~Said("header")
                BY <1>2 DEF Reported
            <4> QED BY <1>2, <1>3, <1>5, <2>1, <2>3, <3>2, <4>1 DEF Reported
        <3> QED BY <3>1, <3>2
    <2> QED BY <1>1, <2>4, <2>5, <2>6
<1>8. CASE ~ok
    <2>1. finished' = Append(finished, "header") /\ UNCHANGED state
        BY <1>8 DEF WriteIndexDone
    <2>2. \A x : Said(x)' <=> Said(x) \/ x = "header"
        BY <2>1, SaidAppend DEF IInv, TypeOK, Verdicts
    <2>3. Unopened' /\ Calls'
        BY <1>u, <1>3, <1>4, <2>1 DEF Unopened, Calls
    <2>4. IndexOnce'
        BY <1>u, <1>2, <1>4, <1>5, <2>1 DEF IndexOnce
    <2>5. Reported'
        <3>1. ~Said("success") /\ ~Said("dax")
            BY <1>2, <1>3 DEF Reported
        <3> QED BY <1>2, <1>5, <2>1, <2>2, <3>1 DEF Reported
    <2> QED BY <1>1, <2>3, <2>4, <2>5
<1> QED BY <1>7, <1>8

-----------------------------------------------------------------------------
(* Every step keeps the invariant.                                           *)
LEMMA NextVInv == VInv /\ [Next]_vars => VInv'
<1> SUFFICES ASSUME VInv, [Next]_vars PROVE VInv'
    OBVIOUS
<1>1. CASE SetFile
    BY <1>1, SetFileVInv
<1>2. CASE Receive
    BY <1>2, ReceiveVInv
<1>3. CASE \E s \in Sector : Compress(s) \/ AfterWork(s)
    BY <1>3, CompressVInv, AfterWorkVInv
<1>4. CASE HandleReadyWait \/ HandleReadyReject \/ HandleReadySubmit
    BY <1>4, HandleReadyWaitVInv, HandleReadyRejectVInv, HandleReadySubmitVInv
<1>5. CASE \E w \in writes, ok \in BOOLEAN : HandleWrittenSectors(w, ok)
    BY <1>5, HandleWrittenSectorsVInv
<1>6. CASE AfterProgress
    BY <1>6, AfterProgressVInv
<1>7. CASE \E ok \in BOOLEAN : WriteIndexDone(ok)
    BY <1>7, WriteIndexDoneVInv
<1>8. CASE UNCHANGED vars
    <2>1. IInv'
        BY <1>8, NextIInv DEF VInv
    <2>2. Filling' = Filling /\ Called' = Called /\ Pending' = Pending /\ Writing' = Writing
        BY <1>8, Places DEF vars
    <2>3. Done' = Done /\ BlockCount' = BlockCount /\ Placed' = Placed
        BY <1>8, <2>2 DEF vars, Done, BlockCount, Block, Placed
    <2>4. Stuck' = Stuck /\ \A x : Said(x)' = Said(x)
        BY <1>8, <2>3 DEF vars, Stuck, Said
    <2>5. Unopened' /\ Calls' /\ IndexOnce' /\ Reported'
        BY <1>8, <2>3, <2>4 DEF VInv, vars, Unopened, Calls, IndexOnce, Reported
    <2> QED BY <2>1, <2>5 DEF VInv
<1> QED BY <1>1, <1>2, <1>3, <1>4, <1>5, <1>6, <1>7, <1>8 DEF Next

LEMMA VInvHolds == Spec => []VInv
BY InitVInv, NextVInv, PTL DEF Spec

(* finish_(true) is the only call of finish_ if it is made at all, and       *)
(* Enqueue never finds a full Sector waiting, for every task, any number of  *)
(* Sectors and any interleaving of workers, writes and re-entrant calls.     *)
THEOREM VerdictIsOne == Spec => []OneVerdict
<1>1. VInv => OneVerdict
    BY DEF VInv, Reported, OneVerdict
<1> QED BY <1>1, VInvHolds, PTL

(* No entry of index_ changes once STATE_INDEX_READY is set, so the index    *)
(* write in flight reads what it was started with.                           *)
THEOREM IndexIsFrozen == Spec => IndexFrozen
<1>1. ASSUME VInv, [Next]_vars, "INDEX_READY" \in state PROVE index' = index
    <2> USE <1>1
    <2>1. ~HandleReadyReject
        <3> SUFFICES ASSUME HandleReadyReject PROVE FALSE
            OBVIOUS
        <3>1. PICK s \in Sector, n \in 1 .. MAX_BUFS : NextSector(s) /\ BatchSize(n)
            BY DEF HandleReadyReject
        <3> QED BY <3>1, BatchMeans
    <2>2. ~HandleReadySubmit
        <3> SUFFICES ASSUME HandleReadySubmit PROVE FALSE
            OBVIOUS
        <3>1. PICK s \in Sector, n \in 1 .. MAX_BUFS : NextSector(s) /\ BatchSize(n)
            BY DEF HandleReadySubmit
        <3> QED BY <3>1, BatchMeans
    <2>3. CASE SetFile
        BY <2>3 DEF SetFile
    <2>4. CASE Receive
        BY <2>4 DEF Receive, Enqueue
    <2>5. CASE \E s \in Sector : Compress(s) \/ AfterWork(s)
        BY <2>5 DEF Compress, AfterWork
    <2>6. CASE HandleReadyWait
        BY <2>6 DEF HandleReadyWait
    <2>7. CASE \E w \in writes, ok \in BOOLEAN : HandleWrittenSectors(w, ok)
        BY <2>7 DEF HandleWrittenSectors
    <2>8. CASE AfterProgress
        BY <2>8 DEF AfterProgress
    <2>9. CASE \E ok \in BOOLEAN : WriteIndexDone(ok)
        BY <2>9 DEF WriteIndexDone
    <2>10. CASE UNCHANGED vars
        BY <2>10 DEF vars
    <2> QED BY <2>1, <2>2, <2>3, <2>4, <2>5, <2>6, <2>7, <2>8, <2>9, <2>10 DEF Next
<1>2. VInv /\ [Next]_vars => ["INDEX_READY" \in state => index' = index]_vars
    BY <1>1
<1> QED BY <1>2, VInvHolds, PTL DEF Spec, IndexFrozen

-----------------------------------------------------------------------------
(* The refinement of BlockFile *)

(* The blocks up to srcPos_, each a set of sectors.                          *)
Prefix == [b \in 1 .. srcPos |-> SectorsOf(b - 1)]
AllBlocks == [b \in 1 .. BlockCount |-> SectorsOf(b - 1)]
InFile == IF task.measure THEN Prefix ELSE StoredBlocks
IndexInFile == "INDEX_WRITTEN" \in state /\ (task.measure => "DATA_WRITTEN" \in state)

(* Written or only measured, that is what counts as stored.                  *)
LEMMA InFileIsPrefix == VInv => InFile = Prefix
<1> SUFFICES ASSUME VInv, ~task.measure PROVE StoredBlocks = Prefix
    BY DEF InFile
<1>1. /\ DOMAIN file.data = 0 .. srcPos - 1 /\ srcPos \in Nat
      /\ \A b \in DOMAIN file.data : file.data[b].held = SectorsOf(b)
    BY DEF VInv, IInv, Filed, TypeOK
<1>2. Cardinality(DOMAIN file.data) = srcPos
    <2>1. Cardinality(0 .. srcPos - 1) = srcPos
        <3>1. CASE srcPos = 0
            <4>1. 0 .. srcPos - 1 = {}
                BY <3>1
            <4> QED BY <3>1, <4>1, FS_EmptySet
        <3>2. CASE srcPos # 0
            BY <1>1, <3>2, FS_Interval
        <3> QED BY <3>1, <3>2
    <2> QED BY <1>1, <2>1
<1>3. \A b \in 1 .. srcPos : b - 1 \in DOMAIN file.data
    BY <1>1
<1>4. StoredBlocks = [b \in 1 .. srcPos |-> IF b - 1 \in DOMAIN file.data
                                              THEN file.data[b - 1].held ELSE {}]
    BY <1>2 DEF StoredBlocks
<1> QED BY <1>1, <1>3, <1>4 DEF Prefix

(* A prefix of the blocks is what SubSeq makes of them.                      *)
LEMMA PrefixOfAll ==
    ASSUME IInv, NEW n \in Nat, n <= BlockCount
    PROVE  SubSeq(AllBlocks, 1, n) = [b \in 1 .. n |-> SectorsOf(b - 1)]
<1>1. BlockCount \in Nat
    BY WithinSource
<1> DEFINE S == {SectorsOf(b - 1) : b \in 1 .. BlockCount}
<1>2. AllBlocks \in Seq(S) /\ Len(AllBlocks) = BlockCount
    <2>1. AllBlocks \in [1 .. BlockCount -> S]
        BY DEF AllBlocks
    <2> HIDE DEF S
    <2> QED BY <1>1, <2>1
<1>3. /\ SubSeq(AllBlocks, 1, n) = [b \in 1 .. n |-> AllBlocks[b]]
    BY <1>1, <1>2
<1>4. \A b \in 1 .. n : AllBlocks[b] = SectorsOf(b - 1)
    BY <1>1 DEF AllBlocks
<1> QED BY <1>3, <1>4

(* The kinds of steps, as BlockFile sees them: what is stored grows, the     *)
(* index becomes stored, success is reported, an error is, or nothing        *)
(* happens.                                                                  *)
LEMMA StepKinds ==
    ASSUME VInv, [Next]_vars
    PROVE  /\ task' = task
           /\ \/ /\ srcPos' \in srcPos + 1 .. BlockCount
                 /\ IndexInFile' = IndexInFile /\ UNCHANGED finished
              \/ /\ UNCHANGED srcPos /\ ~IndexInFile /\ IndexInFile'
                 /\ \/ UNCHANGED finished
                    \/ srcPos = BlockCount /\ finished = <<>> /\ finished' = <<"success">>
              \/ /\ UNCHANGED srcPos /\ IndexInFile /\ IndexInFile'
                 /\ srcPos = BlockCount /\ finished = <<>> /\ finished' = <<"success">>
              \/ /\ UNCHANGED srcPos /\ IndexInFile' = IndexInFile /\ ~Said("success")
                 /\ \E e \in {"dax", "format", "data", "header"} : finished' = Append(finished, e)
              \/ /\ UNCHANGED srcPos /\ IndexInFile' = IndexInFile /\ UNCHANGED finished
<1>0. srcPos \in Nat /\ BlockCount \in Nat /\ finished \in Seq(Verdicts)
    BY WithinSource DEF VInv, IInv, TypeOK
<1>1. CASE SetFile
    <2>1. ~Said("success") /\ ~IndexInFile
        BY <1>1 DEF SetFile, Said, IndexInFile
    <2>2. UNCHANGED <<task, srcPos>> /\ "INDEX_WRITTEN" \notin state'
        BY <1>1 DEF SetFile
    <2>3. IndexInFile' = IndexInFile
        BY <1>1, <2>2 DEF SetFile, IndexInFile
    <2>4. finished' = Append(finished, "dax") \/ UNCHANGED finished
        BY <1>1 DEF SetFile
    <2> QED BY <2>1, <2>2, <2>3, <2>4
<1>2. CASE \/ Receive \/ (\E s \in Sector : Compress(s) \/ AfterWork(s))
           \/ HandleReadyWait \/ UNCHANGED vars
    <2>1. UNCHANGED <<task, srcPos, state>>
        BY <1>2 DEF Receive, Enqueue, Compress, AfterWork, HandleReadyWait, vars
    <2>2. UNCHANGED finished
        <3>1. CASE Receive
            <4>1. IInv
                BY DEF VInv
            <4> QED BY <3>1, <4>1, EnqueueCases
        <3>2. CASE ~Receive
            BY <1>2, <3>2 DEF Compress, AfterWork, HandleReadyWait, vars
        <3> QED BY <3>1, <3>2
    <2> QED BY <2>1, <2>2 DEF IndexInFile
<1>3. CASE HandleReadyReject
    <2>1. UNCHANGED <<task, srcPos, state>> /\ finished' = Append(finished, "format")
        BY <1>3 DEF HandleReadyReject
    <2>2. PICK s \in Sector, n \in 1 .. MAX_BUFS : NextSector(s) /\ BatchSize(n)
        BY <1>3 DEF HandleReadyReject
    <2>3. finished = <<>>
        BY <2>2, BatchMeans
    <2> QED BY <2>1, <2>3 DEF IndexInFile, Said
<1>4. CASE HandleReadySubmit
    <2>1. PICK s \in Sector, n \in 1 .. MAX_BUFS :
            /\ NextSector(s) /\ BatchSize(n) /\ Flush(Batch(s, n))
            /\ \/ task.measure /\ srcPos' = srcPos + Len(Batch(s, n))
               \/ ~task.measure /\ UNCHANGED srcPos
        BY <1>4 DEF HandleReadySubmit
    <2>2. /\ n \in Nat \ {0} /\ Len(Batch(s, n)) = n /\ srcPos + n <= BlockCount
          /\ state \cap {"INDEX_READY", "INDEX_WRITTEN", "DATA_WRITTEN"} = {}
          /\ finished = <<>>
        BY <2>1, BatchMeans
    <2>3. /\ finished' = <<>>
          /\ \/ UNCHANGED state
             \/ state' = state \cup {"INDEX_READY"}
             \/ state' = state \cup {"INDEX_READY", "INDEX_WRITTEN"}
        BY <2>1, FlushMeans
    <2>4. task' = task
        BY <1>4 DEF HandleReadySubmit
    <2>5. CASE task.measure
        <3>1. srcPos' \in srcPos + 1 .. BlockCount
            BY <1>0, <2>1, <2>2, <2>5
        <3>2. IndexInFile' = IndexInFile
            BY <2>2, <2>3, <2>4, <2>5 DEF IndexInFile
        <3> QED BY <2>2, <2>3, <2>4, <3>1, <3>2
    <2>6. CASE ~task.measure
        <3>1. ~IndexInFile /\ UNCHANGED <<srcPos, finished>>
            BY <2>1, <2>2, <2>3, <2>6 DEF IndexInFile
        <3>2. IndexInFile' \/ IndexInFile' = IndexInFile
            BY <3>1 DEF IndexInFile
        <3> QED BY <2>4, <3>1, <3>2
    <2> QED BY <2>5, <2>6
<1>5. ASSUME NEW w \in writes, NEW ok \in BOOLEAN, HandleWrittenSectors(w, ok)
      PROVE  /\ task' = task
             /\ \/ /\ srcPos' \in srcPos + 1 .. BlockCount
                   /\ IndexInFile' = IndexInFile /\ UNCHANGED finished
                \/ /\ UNCHANGED srcPos /\ IndexInFile' = IndexInFile /\ ~Said("success")
                   /\ finished' = Append(finished, "data")
    <2>1. /\ Len(w.batch) \in Nat \ {0} /\ w.nextPos = srcPos + Len(w.batch) /\ w.nextPos <= Done
          /\ ~Said("success")
        BY WriteMeans DEF Verdicts
    <2>2. UNCHANGED <<task, state>>
        BY <1>5 DEF HandleWrittenSectors
    <2>3. IndexInFile' = IndexInFile
        BY <2>2 DEF IndexInFile
    <2>4. \/ srcPos' = w.nextPos /\ UNCHANGED finished
          \/ UNCHANGED srcPos /\ finished' = Append(finished, "data")
        BY <1>5 DEF HandleWrittenSectors
    <2>5. w.nextPos \in srcPos + 1 .. BlockCount
        <3>1. Done \in Nat /\ Done <= BlockCount
            BY WithinSource DEF VInv
        <3> QED BY <1>0, <2>1, <3>1
    <2> QED BY <2>1, <2>2, <2>3, <2>4, <2>5
<1>6. CASE AfterProgress
    <2>0. UNCHANGED <<task, srcPos>>
        BY <1>6 DEF AfterProgress
    <2>1. CASE UNCHANGED <<state, finished>>
        BY <2>0, <2>1 DEF IndexInFile
    <2>2. CASE /\ Head(progress) >= BlockCount
               /\ state' = state \cup {"DATA_WRITTEN"} /\ finished' = CheckFinish(state')
        <3>1. progress \in Seq(Nat) /\ progress # <<>> /\ 1 \in 1 .. Len(progress)
            <4>1. progress \in Seq(Nat) /\ progress # <<>>
                BY <1>6 DEF AfterProgress, VInv, IInv, TypeOK
            <4> QED BY <4>1, EmptySeq, LenProperties
        <3>2. progress[1] <= srcPos /\ progress[1] \in Nat /\ progress[1] >= BlockCount
            BY <2>2, <3>1 DEF VInv, Calls
        <3>3. srcPos = BlockCount /\ "DATA_WRITTEN" \notin state
            BY <1>0, <3>1, <3>2, WithinSource DEF VInv, Calls
        <3>4. CASE "INDEX_WRITTEN" \in state
            <4>1. finished' = Append(finished, "success") /\ IndexInFile'
                BY <2>2, <3>4 DEF CheckFinish, IndexInFile
            <4>2. finished = <<>>
                <5>1. ~Stuck
                    BY <1>0, <3>3, WithinSource DEF Stuck, VInv
                <5>2. \A x \in Verdicts : ~Said(x)
                    BY <3>3, <3>4, <5>1 DEF VInv, Reported, Verdicts
                <5> QED BY <1>0, <5>2, NothingSaid
            <4>3. finished' = <<"success">>
                BY <4>1, <4>2
            <4>4. IndexInFile \in BOOLEAN
                BY DEF IndexInFile
            <4> QED BY <2>0, <3>3, <4>1, <4>2, <4>3, <4>4
        <3>5. CASE "INDEX_WRITTEN" \notin state
            <4>1. UNCHANGED finished /\ IndexInFile' = IndexInFile
                BY <2>2, <3>5 DEF CheckFinish, IndexInFile
            <4> QED BY <2>0, <4>1
        <3> QED BY <3>4, <3>5
    <2> QED BY <1>6, <2>1, <2>2 DEF AfterProgress
<1>7. ASSUME NEW ok \in BOOLEAN, WriteIndexDone(ok)
      PROVE  /\ UNCHANGED <<task, srcPos>>
             /\ \/ /\ ~IndexInFile /\ IndexInFile'
                   /\ \/ UNCHANGED finished
                      \/ srcPos = BlockCount /\ finished = <<>> /\ finished' = <<"success">>
                \/ /\ IndexInFile' = IndexInFile /\ ~Said("success")
                   /\ finished' = Append(finished, "header")
    <2>0. UNCHANGED <<task, srcPos>> /\ flushes > 0
        BY <1>7 DEF WriteIndexDone
    <2>1. ~task.measure /\ "INDEX_WRITTEN" \notin state /\ "INDEX_READY" \in state
        BY <2>0 DEF VInv, IndexOnce
    <2>2. ~Said("success") /\ ~IndexInFile
        BY <2>1 DEF VInv, Reported, IndexInFile
    <2>3. CASE ok
        <3>1. state' = state \cup {"INDEX_WRITTEN"} /\ finished' = CheckFinish(state')
            BY <1>7, <2>3 DEF WriteIndexDone
        <3>2. IndexInFile'
            BY <2>0, <2>1, <3>1 DEF IndexInFile
        <3>3. CASE "DATA_WRITTEN" \in state
            <4>1. srcPos = BlockCount /\ ~Stuck
                BY <1>0, <3>3, WithinSource DEF VInv, Calls, Stuck
            <4>2. ~Said("header")
                <5>1. flushes # 0
                    BY <2>0
                <5> QED BY <5>1 DEF VInv, Reported
            <4>3. \A x \in Verdicts : ~Said(x)
                BY <2>1, <2>2, <4>1, <4>2 DEF VInv, Reported, Verdicts
            <4>4. finished = <<>>
                BY <1>0, <4>3, NothingSaid
            <4>5. finished' = <<"success">>
                BY <3>1, <3>3, <4>4 DEF CheckFinish
            <4> QED BY <2>0, <2>2, <3>2, <4>1, <4>4, <4>5
        <3>4. CASE "DATA_WRITTEN" \notin state
            BY <2>0, <2>2, <3>1, <3>2, <3>4 DEF CheckFinish
        <3> QED BY <3>3, <3>4
    <2>4. CASE ~ok
        BY <1>7, <2>0, <2>2, <2>4 DEF WriteIndexDone, IndexInFile
    <2> QED BY <2>3, <2>4
<1> QED BY <1>1, <1>2, <1>3, <1>4, <1>5, <1>6, <1>7 DEF Next

(* Output keeps BlockFile's promise, whatever the number of Sectors, the     *)
(* task and the interleaving: blocks reach the file (or are measured) in     *)
(* order and once, the index reaches it once, success is reported when both  *)
(* are there and nothing else was, errors only without it.                   *)
THEOREM PromiseIsKept == Spec => ImplementsBlockFile
<1>1. Init => Promise!Init
    <2> SUFFICES ASSUME Init PROVE Promise!Init
        OBVIOUS
    <2>1. srcPos = 0 /\ state = {} /\ finished = <<>>
        BY DEF Init
    <2>2. InFile = Prefix
        BY InitVInv, InFileIsPrefix
    <2>3. Prefix = <<>>
        BY <2>1 DEF Prefix
    <2> QED BY <2>1, <2>2, <2>3 DEF Promise!Init, InFile, Prefix
<1>2. VInv /\ VInv' /\ [Next]_vars => [Promise!Next]_(Promise!bvars)
    <2> SUFFICES ASSUME VInv, VInv', [Next]_vars PROVE [Promise!Next]_(Promise!bvars)
        OBVIOUS
    <2>1. InFile = Prefix /\ InFile' = Prefix'
        <3>1. VInv' => (InFile = Prefix)'
            BY InFileIsPrefix, PTL
        <3> QED BY <3>1, InFileIsPrefix
    <2>2. task' = task
        BY StepKinds
    <2>3. AllBlocks' = AllBlocks /\ BlockCount' = BlockCount
        BY <2>2 DEF AllBlocks, BlockCount, SectorsOf
    <2>4. srcPos \in Nat /\ BlockCount \in Nat /\ srcPos <= BlockCount
        BY WithinSource DEF VInv
    <2>5. /\ srcPos' = srcPos => Prefix' = Prefix
          /\ srcPos = BlockCount => Prefix = AllBlocks
          /\ Len(Prefix) = srcPos /\ Len(AllBlocks) = BlockCount
        BY <2>2, <2>4 DEF Prefix, AllBlocks, SectorsOf
    <2>6. ASSUME srcPos' \in srcPos + 1 .. BlockCount
          PROVE  \E n \in Len(InFile) + 1 .. Len(AllBlocks) : InFile' = SubSeq(AllBlocks, 1, n)
        <3>1. srcPos' \in Nat /\ srcPos' <= BlockCount
            BY <2>4, <2>6
        <3>2. SubSeq(AllBlocks, 1, srcPos') = [b \in 1 .. srcPos' |-> SectorsOf(b - 1)]
            BY <3>1, PrefixOfAll DEF VInv
        <3>3. Prefix' = [b \in 1 .. srcPos' |-> SectorsOf(b - 1)]
            BY <2>2 DEF Prefix, SectorsOf
        <3> QED BY <2>1, <2>5, <2>6, <3>2, <3>3
    <2> DEFINE Facts == 
              \/ /\ \E n \in Len(InFile) + 1 .. Len(AllBlocks) : InFile' = SubSeq(AllBlocks, 1, n)
                 /\ IndexInFile' = IndexInFile /\ UNCHANGED finished
              \/ /\ InFile' = InFile /\ ~IndexInFile /\ IndexInFile' = TRUE
                 /\ \/ UNCHANGED finished
                    \/ InFile = AllBlocks /\ finished = <<>> /\ finished' = <<"success">>
              \/ /\ InFile' = InFile /\ IndexInFile /\ IndexInFile' = IndexInFile
                 /\ InFile = AllBlocks /\ finished = <<>> /\ finished' = <<"success">>
              \/ /\ InFile' = InFile /\ IndexInFile' = IndexInFile /\ ~Said("success")
                 /\ \E e \in {"dax", "format", "data", "header"} : finished' = Append(finished, e)
              \/ /\ InFile' = InFile /\ IndexInFile' = IndexInFile /\ UNCHANGED finished
    <2>7. IndexInFile \in BOOLEAN /\ IndexInFile' \in BOOLEAN
        BY DEF IndexInFile
    <2>8. Facts
        <3> HIDE DEF Facts
        <3> QED BY <2>1, <2>5, <2>6, <2>7, StepKinds DEF Facts
    <2> QED BY <2>3, <2>8 DEF Promise!Next, Promise!Store, Promise!StoreIndex, Promise!Succeed,
            Promise!Fail, Promise!Complete, Promise!Verdict, Promise!bvars, Said, AllBlocks,
            InFile, IndexInFile, Prefix
<1>3. VInv /\ [Next]_vars => VInv'
    BY NextVInv
<1> QED BY <1>1, <1>2, <1>3, VInvHolds, PTL DEF Spec, ImplementsBlockFile, Promise!Spec
=============================================================================
