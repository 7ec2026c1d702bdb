--------------------------- MODULE PipelineProofs ---------------------------
(***************************************************************************)
(* CompressionTask and Compress() for any list of tasks, any number of     *)
(* Sectors, any block sizes and any interleaving of the input, the worker  *)
(* threads and the writes.                                                 *)
(***************************************************************************)
EXTENDS Pipeline, OutputVerdictProofs

-----------------------------------------------------------------------------
(* Output forgets nothing: the part of the inductive invariant that says     *)
(* that there is always somebody left to go on until something is reported.  *)

(* Every block received and not yet in the file has its Sector.                *)
Covered ==
    finished = <<>> =>
        \A b \in srcPos .. Done - 1 : \E s \in Used : sector[s].pos = b

(* The next block of the file does not wait in pendingSectors_ unless a write  *)
(* is in flight or HandleReadySector is called again.                          *)
Awaited ==
    finished = <<>> /\ writes = {} /\ srcPos \in DOMAIN pendingSectors =>
        progress # <<>> \/ nullptr \in ready

(* With the last block the bits of state_ are on their way to CheckFinish.     *)
Ending ==
    /\ \A w \in writes : w.nextPos = BlockCount => "INDEX_READY" \in state
    /\ srcPos = BlockCount =>
          /\ "INDEX_READY" \in state
          /\ "DATA_WRITTEN" \in state \/ \E i \in 1 .. Len(progress) : progress[i] = BlockCount
    /\ "INDEX_READY" \in state /\ finished = <<>> => flushes > 0 \/ "INDEX_WRITTEN" \in state
    /\ {"INDEX_WRITTEN", "DATA_WRITTEN"} \subseteq state => finished # <<>>

WInv == VInv /\ Covered /\ Awaited /\ Ending

-----------------------------------------------------------------------------
(* The steps of Output *)

LEMMA InitWInv == Init => WInv
<1> SUFFICES ASSUME Init PROVE WInv
    OBVIOUS
<1>1. VInv
    BY InitVInv
<1>2. /\ state = {} /\ writes = {} /\ srcPos = 0 /\ received = 0 /\ task \in Task
      /\ pendingSectors = EmptyMap
    BY DEF Init
<1>3. BlockCount \in Nat \ {0} /\ Done = 0
    <2>1. /\ task.sectors - 1 \in Nat /\ task.sectors # 0 /\ task.perBlock \in Nat \ {0}
          /\ task.sectors \in Nat
        BY <1>2, TaskFacts
    <2>2. BlockCount \in Nat \ {0}
        BY <1>2, <2>1, BlockCountFacts, BlockFacts
    <2>3. Block(0) = 0
        BY <2>1 DEF Block
    <2> QED BY <1>2, <2>1, <2>2, <2>3 DEF Done
<1>4. Covered
    BY <1>2, <1>3 DEF Covered
<1>5. Awaited
    BY <1>2 DEF Awaited, EmptyMap
<1>6. Ending
    BY <1>2, <1>3 DEF Ending
<1> QED BY <1>1, <1>4, <1>5, <1>6 DEF WInv

(* A step that gives no Sector a block nor takes one away.                   *)
LEMMA CoveredStays ==
    ASSUME WInv, UNCHANGED <<task, received, srcPos, freeSectors>>,
           \A t \in Sector : sector'[t].pos = sector[t].pos,
           finished' = <<>> => finished = <<>>
    PROVE  Covered'
<1>1. Done' = Done /\ Used' = Used /\ Used \subseteq Sector
    BY DEF Done, BlockCount, Block, Used
<1> QED BY <1>1 DEF WInv, Covered

(* A step that moves neither bits nor positions.                             *)
LEMMA EndingStays ==
    ASSUME WInv, UNCHANGED <<task, writes, srcPos, progress, state, flushes>>,
           finished = <<>> \/ finished' # <<>>
    PROVE  Ending'
<1>1. BlockCount' = BlockCount
    BY DEF BlockCount
<1> QED BY <1>1 DEF WInv, Ending

LEMMA SetFileWInv == ASSUME WInv, SetFile PROVE WInv'
<1>1. VInv'
    BY SetFileVInv DEF WInv
<1>2. /\ state = {} /\ state' \subseteq {"HAS_FILE"} /\ finished = <<>>
      /\ UNCHANGED <<task, freeSectors, sector, pendingSectors, writes, flushes, srcPos, ready,
                     progress, received>>
    BY DEF SetFile
<1>3. Covered'
    BY <1>2, CoveredStays
<1>4. Awaited'
    BY <1>2 DEF WInv, Awaited
<1>5. BlockCount' = BlockCount
    BY <1>2 DEF BlockCount
<1>6. Ending'
    BY <1>2, <1>5 DEF WInv, Ending
<1> QED BY <1>1, <1>3, <1>4, <1>6 DEF WInv

LEMMA CompressWInv == ASSUME WInv, NEW s \in Sector, Compress(s) PROVE WInv'
<1>0. VInv /\ TypeOK
    BY DEF WInv, VInv, IInv
<1>1. VInv'
    BY <1>0, CompressVInv
<1>2. UNCHANGED <<task, freeSectors, pendingSectors, writes, flushes, srcPos, state, finished,
                  ready, progress, received>>
    BY DEF Compress
<1>3. Covered'
    BY <1>0, <1>2, CompressKeeps, CoveredStays
<1>4. Awaited'
    BY <1>2 DEF WInv, Awaited
<1>5. Ending'
    BY <1>2, EndingStays
<1> QED BY <1>1, <1>3, <1>4, <1>5 DEF WInv

LEMMA AfterWorkWInv == ASSUME WInv, NEW s \in Sector, AfterWork(s) PROVE WInv'
<1>1. VInv'
    BY AfterWorkVInv DEF WInv
<1>2. /\ ready = {} /\ progress = <<>>
      /\ UNCHANGED <<task, freeSectors, sector, pendingSectors, writes, flushes, srcPos, state,
                     finished, progress, received>>
    BY DEF AfterWork, AtLoop
<1>3. Covered'
    BY <1>2, CoveredStays
<1>4. Awaited'
    BY <1>2 DEF WInv, Awaited
<1>5. Ending'
    BY <1>2, EndingStays
<1> QED BY <1>1, <1>3, <1>4, <1>5 DEF WInv

(* The key of what is pending is the position of a Sector in use.            *)
LEMMA PendingMeans ==
    ASSUME VInv, NEW b \in DOMAIN pendingSectors
    PROVE  /\ pendingSectors[b] \in Used /\ sector[pendingSectors[b]].pos = b
           /\ b \in Nat /\ b < BlockCount /\ srcPos <= b
<1>0. IInv
    BY DEF VInv
<1>1. pendingSectors[b] \in Used
    BY <1>0, PlacedUsed DEF Placed, Pending, Values
<1>2. sector[pendingSectors[b]].pos = b
    BY <1>0 DEF IInv, Keys
<1> QED BY <1>0, <1>1, <1>2, WithinSource DEF IInv, Ahead

LEMMA HandleReadyWaitWInv == ASSUME WInv, HandleReadyWait PROVE WInv'
<1>1. VInv'
    BY HandleReadyWaitVInv DEF WInv
<1>2. /\ ready' = {}
      /\ UNCHANGED <<task, freeSectors, sector, writes, flushes, srcPos, state,
                     finished, progress, received>>
    BY DEF HandleReadyWait
<1>3. Covered'
    BY <1>2, CoveredStays
<1>4. Awaited'
    <2>1. CASE nullptr \in ready /\ ~FirstPending(srcPos) /\ UNCHANGED pendingSectors
        <3>1. srcPos \notin DOMAIN pendingSectors
            BY <2>1, PendingMeans DEF WInv, FirstPending
        <3> QED BY <1>2, <2>1, <3>1 DEF Awaited
    <2>2. ASSUME NEW s \in ready \ {nullptr}, sector[s].pos # srcPos,
                 pendingSectors' = Insert(pendingSectors, sector[s].pos, s)
          PROVE  Awaited'
        <3>1. nullptr \notin ready
            BY DEF WInv, VInv, IInv, TypeOK
        <3>2. srcPos \in DOMAIN pendingSectors' => srcPos \in DOMAIN pendingSectors
            BY <2>2 DEF Insert
        <3> QED BY <1>2, <3>1, <3>2 DEF WInv, Awaited
    <2> QED BY <2>1, <2>2 DEF HandleReadyWait
<1>5. Ending'
    BY <1>2, EndingStays
<1> QED BY <1>1, <1>3, <1>4, <1>5 DEF WInv

LEMMA HandleReadyRejectWInv == ASSUME WInv, HandleReadyReject PROVE WInv'
<1>1. VInv'
    BY HandleReadyRejectVInv DEF WInv
<1>2. /\ finished' = Append(finished, "format") /\ finished \in Seq(Verdicts)
      /\ UNCHANGED <<task, writes, flushes, srcPos, state, progress>>
    BY DEF HandleReadyReject, WInv, VInv, IInv, TypeOK
<1>3. finished' # <<>>
    BY <1>2, AppendProperties DEF Verdicts
<1>4. Covered' /\ Awaited'
    BY <1>3 DEF Covered, Awaited
<1>5. Ending'
    BY <1>2, <1>3, EndingStays
<1> QED BY <1>1, <1>4, <1>5 DEF WInv


(* The Sector that takes the last sector of a block has that block.          *)
LEMMA ReceiveWInv == ASSUME WInv, Receive PROVE WInv'
<1>0. VInv /\ IInv /\ task \in Task /\ received \in Nat /\ sector \in [Sector -> SectorRecord]
    BY DEF WInv, VInv, IInv, TypeOK
<1>1. VInv'
    BY <1>0, ReceiveVInv
<1> DEFINE b == Block(received)
<1>2. /\ ready = {} /\ received < task.sectors /\ received' = received + 1
      /\ UNCHANGED <<task, pendingSectors, writes, flushes, srcPos, state, progress>>
    BY DEF Receive, Enqueue
<1>3. PICK s \in Taker(received), q \in SectorRecord :
        /\ freeSectors' = freeSectors \ {s} /\ sector' = [sector EXCEPT ![s] = q] /\ q.pos = b
        /\ UNCHANGED finished
    BY <1>0, EnqueueCases
<1>4. s \in Sector
    BY <1>0, <1>2, TakerFacts
<1>5. /\ s \in Used' /\ sector'[s].pos = b
      /\ \A t \in Used : t \in Used' /\ (t # s => sector'[t] = sector[t])
    BY <1>0, <1>3, <1>4 DEF Used
<1>6. b \in Nat /\ Done = b /\ (Done' = b \/ Done' = b + 1)
    <2>1. Lo \in Nat /\ Hi \in Nat /\ Hi <= Lo + task.perBlock - 1 /\ task.perBlock \in Nat
        BY <1>0, <1>2, PaddingFacts, TaskFacts
    <2>2. b \in Nat
        BY <1>0, BlockFacts
    <2> QED BY <1>0, <1>2, <2>1, <2>2, DoneGrows
<1>7. Covered'
    <2> SUFFICES ASSUME finished' = <<>>, NEW c \in srcPos' .. Done' - 1
                 PROVE  \E t \in Used' : sector'[t].pos = c
        BY DEF Covered
    <2> HIDE DEF b
    <2>0. srcPos \in Nat /\ srcPos' = srcPos
        BY <1>0, <1>2 DEF IInv, TypeOK
    <2>1. c = b \/ c \in srcPos .. Done - 1
        BY <1>6, <2>0
    <2>2. CASE c \in srcPos .. Done - 1
        <3>1. PICK t \in Used : sector[t].pos = c
            BY <1>3, <2>2 DEF WInv, Covered
        <3>2. c # b
            BY <1>6, <2>0, <2>2
        <3>3. s \in Used => sector[s].pos = b
            BY <1>0, <1>2, TakerFacts DEF Used, IInv, Keys, b
        <3> QED BY <1>5, <3>1, <3>2, <3>3
    <2> QED BY <1>5, <2>1, <2>2
<1>8. Awaited'
    <2>1. progress = <<>> => ~(finished = <<>> /\ writes = {} /\ srcPos \in DOMAIN pendingSectors)
        BY <1>2 DEF WInv, Awaited
    <2> QED BY <1>2, <1>3, <2>1 DEF Awaited
<1>9. Ending'
    BY <1>2, <1>3, EndingStays
<1> QED BY <1>1, <1>7, <1>8, <1>9 DEF WInv

(* The blocks behind srcPos_ are no longer asked for.                        *)
LEMMA CoveredAdvances ==
    ASSUME WInv, NEW n \in Nat, NEW S, S \subseteq Sector, UNCHANGED <<task, received, finished>>,
           srcPos' = srcPos + n, freeSectors' = freeSectors \cup S, sector' = Release(S),
           \A t \in S : sector[t].pos < srcPos + n
    PROVE  Covered'
<1>1. Done' = Done
    BY DEF Done, BlockCount, Block
<1>2. srcPos \in Nat /\ Done \in Nat
    BY WithinSource DEF WInv, VInv
<1> SUFFICES ASSUME finished' = <<>>, NEW c \in srcPos' .. Done' - 1
             PROVE  \E t \in Used' : sector'[t].pos = c
    BY DEF Covered
<1>3. c \in srcPos .. Done - 1 /\ c >= srcPos + n
    BY <1>1, <1>2
<1>4. PICK t \in Used : sector[t].pos = c
    BY <1>3 DEF WInv, Covered
<1>5. t \notin S
    BY <1>2, <1>3, <1>4
<1> QED BY <1>4, <1>5 DEF Used, Release

LEMMA HandleReadySubmitWInv == ASSUME WInv, HandleReadySubmit PROVE WInv'
<1>0. VInv /\ IInv /\ srcPos \in Nat /\ BlockCount \in Nat /\ progress \in Seq(Nat)
    BY WithinSource DEF WInv, VInv, IInv, TypeOK
<1>1. VInv'
    BY <1>0, HandleReadySubmitVInv
<1>2. ready' = {} /\ UNCHANGED <<task, received>>
    BY DEF HandleReadySubmit
<1>3. PICK s \in Sector, n \in 1 .. MAX_BUFS :
        /\ NextSector(s) /\ BatchSize(n) /\ Flush(Batch(s, n))
        /\ \/ /\ task.measure /\ srcPos' = srcPos + Len(Batch(s, n))
              /\ sector' = Release({Batch(s, n)[k] : k \in 1 .. Len(Batch(s, n))})
              /\ freeSectors' = freeSectors \cup {Batch(s, n)[k] : k \in 1 .. Len(Batch(s, n))}
              /\ progress' = <<srcPos + Len(Batch(s, n))>> \o progress
              /\ UNCHANGED writes
           \/ /\ ~task.measure /\ UNCHANGED <<sector, freeSectors, srcPos, progress>>
              /\ writes' = writes \cup {[batch |-> Batch(s, n), at |-> Positions(Batch(s, n)),
                                         nextPos |-> srcPos + Len(Batch(s, n))]}
    BY DEF HandleReadySubmit
<1> DEFINE B == Batch(s, n)
           S == {B[k] : k \in 1 .. Len(B)}
<1>4. /\ n \in Nat \ {0} /\ B \in Seq(Sector) /\ Len(B) = n /\ writes = {} /\ finished = <<>>
      /\ state \cap {"INDEX_READY", "INDEX_WRITTEN", "DATA_WRITTEN"} = {}
    BY <1>0, <1>3, BatchMeans
<1>5. \A k \in 1 .. n : B[k] \in Sector /\ sector[B[k]].pos = srcPos + k - 1
    BY <1>0, <1>3, BatchFacts DEF Used
<1>6. /\ finished' = <<>> /\ BlockCount' = BlockCount
      /\ \/ srcPos + n < BlockCount /\ UNCHANGED <<state, flushes>>
         \/ /\ srcPos + n = BlockCount
            /\ state' = state \cup {"INDEX_READY"} /\ flushes' = 1
         \/ /\ srcPos + n = BlockCount
            /\ state' = state \cup {"INDEX_READY", "INDEX_WRITTEN"}
    BY <1>0, <1>2, <1>3, FlushMeans DEF BlockCount
<1>7. {"INDEX_WRITTEN", "DATA_WRITTEN"} \subseteq state' => finished' # <<>>
    BY <1>4, <1>6
<1>8. "INDEX_READY" \in state' => flushes' > 0 \/ "INDEX_WRITTEN" \in state'
    BY <1>4, <1>6
<1>9. srcPos + n = BlockCount => "INDEX_READY" \in state'
    BY <1>0, <1>4, <1>6
<1>10. CASE task.measure
    <2>1. /\ srcPos' = srcPos + n /\ sector' = Release(S) /\ freeSectors' = freeSectors \cup S
          /\ progress' = <<srcPos + n>> \o progress /\ writes' = {}
        BY <1>3, <1>4, <1>10
    <2>2. S \subseteq Sector /\ \A t \in S : sector[t].pos < srcPos + n
        BY <1>0, <1>4, <1>5
    <2> HIDE DEF S, B
    <2>3. Covered'
        BY <1>2, <1>4, <1>6, <2>1, <2>2, CoveredAdvances
    <2>4. Len(progress') >= 1 /\ progress'[1] = srcPos' /\ 1 \in 1 .. Len(progress')
        BY <1>0, <1>4, <2>1
    <2>5. Awaited'
        BY <2>4 DEF Awaited
    <2>6. srcPos' = BlockCount' => \E i \in 1 .. Len(progress') : progress'[i] = BlockCount'
        BY <2>4
    <2>7. Ending'
        BY <1>6, <1>7, <1>8, <1>9, <2>1, <2>6 DEF Ending
    <2> QED BY <1>1, <2>3, <2>5, <2>7 DEF WInv
<1>11. CASE ~task.measure
    <2>1. \E w : writes' = {w} /\ w.nextPos = srcPos + n
        <3> DEFINE v == [batch |-> B, at |-> Positions(B), nextPos |-> srcPos + Len(B)]
        <3>1. v.nextPos = srcPos + n
            BY <1>4
        <3>2. writes' = {v}
            BY <1>3, <1>4, <1>11
        <3> HIDE DEF v
        <3> QED BY <3>1, <3>2
    <2>2. UNCHANGED <<sector, freeSectors, srcPos, progress>>
        BY <1>3, <1>11
    <2>3. Covered'
        BY <1>2, <1>4, <2>2, CoveredStays
    <2>4. Awaited'
        BY <2>1 DEF Awaited
    <2>5. srcPos # BlockCount
        BY <1>0, <1>4, <1>6
    <2>6. Ending'
        BY <1>6, <1>7, <1>8, <1>9, <2>1, <2>2, <2>5 DEF Ending
    <2> QED BY <1>1, <2>3, <2>4, <2>6 DEF WInv
<1> QED BY <1>3, <1>10, <1>11

LEMMA HandleWrittenSectorsWInv ==
    ASSUME WInv, NEW w \in writes, NEW ok \in BOOLEAN, HandleWrittenSectors(w, ok)
    PROVE  WInv'
<1>0. VInv /\ IInv /\ srcPos \in Nat /\ BlockCount \in Nat /\ finished \in Seq(Verdicts)
    BY WithinSource DEF WInv, VInv, IInv, TypeOK
<1>1. VInv'
    BY <1>0, HandleWrittenSectorsVInv
<1> DEFINE n == Len(w.batch)
           S == {w.batch[k] : k \in 1 .. n}
<1>2. /\ writes' = writes \ {w} /\ sector' = Release(S) /\ freeSectors' = freeSectors \cup S
      /\ UNCHANGED <<task, pendingSectors, flushes, state, ready, received>>
    BY DEF HandleWrittenSectors
<1>3. /\ w.batch \in Seq(Sector) /\ n \in Nat \ {0} /\ w.nextPos = srcPos + n /\ writes = {w}
      /\ "DATA_WRITTEN" \notin state /\ w.nextPos <= Done /\ Done <= BlockCount /\ Done \in Nat
    BY <1>0, WriteMeans, WithinSource
<1>4. S \subseteq Sector /\ \A t \in S : sector[t].pos < srcPos + n
    <2>1. \A k \in 1 .. n : w.batch[k] \in Sector /\ sector[w.batch[k]].pos = srcPos + k - 1
        BY <1>0, <1>3, ElementOfSeq DEF IInv, Ahead
    <2> QED BY <1>0, <1>3, <2>1
<1>5. BlockCount' = BlockCount /\ writes' = {}
    BY <1>2, <1>3 DEF BlockCount
<1> HIDE DEF S, n
<1>6. CASE ok
    <2>1. srcPos' = srcPos + n /\ progress' = <<srcPos + n>> /\ UNCHANGED finished
        BY <1>3, <1>6 DEF HandleWrittenSectors
    <2>2. Covered'
        BY <1>2, <1>3, <1>4, <2>1, CoveredAdvances
    <2>3. progress' # <<>> /\ Len(progress') = 1 /\ progress'[1] = srcPos'
        BY <2>1
    <2>4. Awaited'
        BY <2>3 DEF Awaited
    <2>5. Ending'
        BY <1>2, <1>3, <1>5, <2>1, <2>3 DEF WInv, Ending
    <2> QED BY <1>1, <2>2, <2>4, <2>5 DEF WInv
<1>7. CASE ~ok
    <2>1. finished' = Append(finished, "data") /\ UNCHANGED <<srcPos, progress>>
        BY <1>7 DEF HandleWrittenSectors
    <2>2. finished' # <<>>
        BY <1>0, <2>1, AppendProperties DEF Verdicts
    <2>3. Covered' /\ Awaited'
        BY <2>2 DEF Covered, Awaited
    <2>4. Ending'
        BY <1>2, <1>5, <2>1, <2>2 DEF WInv, Ending
    <2> QED BY <1>1, <2>3, <2>4 DEF WInv
<1> QED BY <1>6, <1>7

LEMMA AfterProgressWInv == ASSUME WInv, AfterProgress PROVE WInv'
<1>0. VInv /\ IInv /\ srcPos \in Nat /\ BlockCount \in Nat /\ srcPos <= BlockCount
    BY WithinSource DEF WInv, VInv
<1>1. VInv'
    BY <1>0, AfterProgressVInv
<1>2. /\ progress # <<>> /\ progress' = Tail(progress)
      /\ UNCHANGED <<task, freeSectors, sector, pendingSectors, writes, flushes, srcPos, received>>
    BY DEF AfterProgress
<1>3. /\ progress \in Seq(Nat) /\ Len(progress) \in Nat \ {0} /\ Head(progress) = progress[1]
      /\ Len(progress') = Len(progress) - 1 /\ progress[1] \in Nat
      /\ \A i \in 1 .. Len(progress') : progress'[i] = progress[i + 1]
    <2>1. progress \in Seq(Nat)
        BY <1>0 DEF IInv, TypeOK
    <2>2. Len(progress) \in Nat \ {0}
        BY <1>2, <2>1, EmptySeq, LenProperties
    <2> QED BY <1>2, <2>1, <2>2
<1>4. BlockCount' = BlockCount
    BY <1>2 DEF BlockCount
<1>5. CASE Head(progress) < BlockCount
    <2>1. ready' = {nullptr} /\ UNCHANGED <<state, finished>>
        BY <1>0, <1>3, <1>5 DEF AfterProgress
    <2>2. Covered'
        BY <1>2, <2>1, CoveredStays
    <2>3. Awaited'
        BY <2>1 DEF Awaited
    <2>4. (\E i \in 1 .. Len(progress) : progress[i] = BlockCount) =>
              \E i \in 1 .. Len(progress') : progress'[i] = BlockCount
        <3> SUFFICES ASSUME NEW i \in 1 .. Len(progress), progress[i] = BlockCount
                     PROVE  \E j \in 1 .. Len(progress') : progress'[j] = BlockCount
            OBVIOUS
        <3>1. i # 1
            BY <1>0, <1>3, <1>5
        <3>2. i - 1 \in 1 .. Len(progress') /\ progress'[i - 1] = progress[i]
            BY <1>3, <3>1
        <3> QED BY <3>2
    <2>5. Ending'
        BY <1>2, <1>4, <2>1, <2>4 DEF WInv, Ending
    <2> QED BY <1>1, <2>2, <2>3, <2>5 DEF WInv
<1>6. CASE Head(progress) >= BlockCount
    <2>1. /\ state' = state \cup {"DATA_WRITTEN"} /\ finished' = CheckFinish(state')
          /\ UNCHANGED ready
        BY <1>0, <1>3, <1>6 DEF AfterProgress
    <2>2. srcPos = BlockCount
        <3>1. 1 \in 1 .. Len(progress)
            BY <1>3
        <3>2. progress[1] <= srcPos
            BY <1>0, <3>1 DEF VInv, Calls
        <3> QED BY <1>0, <1>3, <1>6, <3>2
    <2>3. finished' = finished \/ finished' = Append(finished, "success")
        BY <2>1, CheckFinishIs
    <2>4. finished \in Seq(Verdicts)
        BY <1>0 DEF IInv, TypeOK
    <2>5. /\ finished' = <<>> => finished = <<>>
          /\ {"INDEX_WRITTEN", "DATA_WRITTEN"} \subseteq state' => finished' # <<>>
        <3>1. Append(finished, "success") # <<>>
            BY <2>4, AppendProperties DEF Verdicts
        <3> QED BY <2>1, <2>3, <3>1 DEF CheckFinish
    <2>6. Covered'
        BY <1>2, <2>5, CoveredStays
    <2>7. srcPos \notin DOMAIN pendingSectors
        BY <1>0, <2>2, PendingMeans
    <2>8. Awaited'
        BY <1>2, <2>7 DEF Awaited
    <2>9. Ending'
        BY <1>2, <1>4, <2>1, <2>2, <2>5 DEF WInv, Ending
    <2> QED BY <1>1, <2>6, <2>8, <2>9 DEF WInv
<1> QED BY <1>0, <1>3, <1>5, <1>6

LEMMA WriteIndexDoneWInv == ASSUME WInv, NEW ok \in BOOLEAN, WriteIndexDone(ok) PROVE WInv'
<1>0. VInv /\ finished \in Seq(Verdicts)
    BY DEF WInv, VInv, IInv, TypeOK
<1>1. VInv'
    BY <1>0, WriteIndexDoneVInv
<1>2. UNCHANGED <<task, freeSectors, sector, pendingSectors, writes, srcPos, ready, progress, received>>
    BY DEF WriteIndexDone
<1>3. \/ state' = state \cup {"INDEX_WRITTEN"} /\ finished' = CheckFinish(state')
      \/ state' = state /\ finished' = Append(finished, "header")
    BY DEF WriteIndexDone
<1>4. /\ finished' = <<>> => finished = <<>>
      /\ {"INDEX_WRITTEN", "DATA_WRITTEN"} \subseteq state' => finished' # <<>>
      /\ finished' = <<>> => "INDEX_WRITTEN" \in state'
    <2>1. Append(finished, "success") # <<>> /\ Append(finished, "header") # <<>>
        BY <1>0, AppendProperties DEF Verdicts
    <2> QED BY <1>3, <2>1 DEF CheckFinish
<1>5. Covered'
    BY <1>2, <1>4, CoveredStays
<1>6. Awaited'
    BY <1>2, <1>4 DEF WInv, Awaited
<1>7. BlockCount' = BlockCount
    BY <1>2 DEF BlockCount
<1>8. Ending'
    BY <1>2, <1>3, <1>4, <1>7 DEF WInv, Ending
<1> QED BY <1>1, <1>5, <1>6, <1>8 DEF WInv

LEMMA NextWInv == WInv /\ [Next]_vars => WInv'
<1> SUFFICES ASSUME WInv, [Next]_vars PROVE WInv'
    OBVIOUS
<1>1. CASE SetFile \/ Receive \/ \E s \in Sector : Compress(s) \/ AfterWork(s)
    BY <1>1, SetFileWInv, ReceiveWInv, CompressWInv, AfterWorkWInv
<1>2. CASE HandleReadyWait \/ HandleReadyReject \/ HandleReadySubmit
    BY <1>2, HandleReadyWaitWInv, HandleReadyRejectWInv, HandleReadySubmitWInv
<1>3. CASE \E w \in writes, ok \in BOOLEAN : HandleWrittenSectors(w, ok)
    BY <1>3, HandleWrittenSectorsWInv
<1>4. CASE AfterProgress \/ \E ok \in BOOLEAN : WriteIndexDone(ok)
    BY <1>4, AfterProgressWInv, WriteIndexDoneWInv
<1>5. CASE UNCHANGED vars
    <2>1. VInv'
        BY <1>5, NextVInv DEF WInv
    <2>2. UNCHANGED <<task, freeSectors, sector, pendingSectors, writes, srcPos, ready, progress,
                      received, state, flushes, finished>>
        BY <1>5 DEF vars
    <2>3. Covered' /\ Ending'
        BY <2>2, CoveredStays, EndingStays
    <2>4. Awaited'
        BY <2>2 DEF WInv, Awaited
    <2> QED BY <2>1, <2>3, <2>4 DEF WInv
<1> QED BY <1>1, <1>2, <1>3, <1>4, <1>5 DEF Next


-----------------------------------------------------------------------------
(* The inductive invariant of the pipeline: what ties the chain of calls of   *)
(* the Input, the flags Output's callbacks set and the task's notifications    *)
(* to the state of Output.                                                     *)

Pcs == OnStack \cup {"idle", "read", "decompress", "decompressed", "parked", "end", "failed"}
NoteKinds == {"INVALID_OPTION", "BUFFERS_IN_USE", "BAD_INPUT", "BAD_OUTPUT", "INVALID_DATA",
              "CANNOT_WRITE", "SUCCESS"}
Before == {"Enqueue", "open input", "open output", "header", "index"}

(* The task: until SetFile is called nothing has been read nor reported, and   *)
(* whatever ends it before that has been reported.                             *)
Started ==
    /\ phase \in Before \cup {"running", "done"}
    /\ todo \in Seq(Task) /\ (phase # "done" => todo # <<>>)
    /\ phase \in Before => reader.pc = "idle" /\ notes = <<>>
    /\ reader.pc = "idle" =>
          /\ state = {} /\ finished = <<>> /\ received = 0
          /\ phase \in Before \/ notes # <<>>

(* The chain of calls of Input and how far it has come.                        *)
Chained ==
    /\ reader \in [pc : Pcs, depth : Nat, upto : Nat]
    /\ inBlock \in Nat \ {0}
    /\ reader.pc \in {"read", "decompress", "decompressed", "parked", "failed"} =>
          pos < task.sectors
    /\ reader.pc \in {"deliver", "callback"} => pos < reader.upto /\ reader.upto <= task.sectors
    /\ reader.pc = "end" => pos >= task.sectors

(* The input goes on only with a free Sector, and is paused only when there    *)
(* is none or an error has been reported.                                      *)
Flowing ==
    /\ resumeShouldRead <=> reader.pc = "parked"
    /\ reader.pc = "parked" => paused
    /\ paused => freeSectors = {} \/ finished # <<>>
    /\ \/ reader.pc \in {"read", "decompress", "decompressed", "deliver"}
       \/ reader.pc = "ReadSector" /\ ~paused
       => freeSectors # {} /\ "HAS_FILE" \in state

(* What the task has notified, next to what Output and Input have reported.    *)
Noted ==
    /\ notes \in Seq(NoteKinds)
    /\ finished # <<>> => notes # <<>>
    /\ reader.pc = "failed" => notes # <<>>
    /\ notes # <<>> => finished # <<>> \/ reader.pc \in {"idle", "failed"}
    /\ (\E i \in DOMAIN notes : notes[i] = "SUCCESS") =>
          notes = <<"SUCCESS">> /\ finished = <<"success">>

PInv == WInv /\ PTypeOK /\ Started /\ Chained /\ Flowing /\ Noted

-----------------------------------------------------------------------------
(* Facts *)

(* Success is reported only after the whole source has been received.        *)
LEMMA SuccessMeansAll == ASSUME VInv, Said("success") PROVE received = task.sectors
<1>1. /\ srcPos = BlockCount /\ srcPos <= Done /\ Done <= BlockCount
      /\ BlockCount \in Nat /\ Done \in Nat
    BY WithinSource DEF VInv, Reported, Calls, IInv, Ahead
<1>2. /\ task \in Task /\ received \in Nat /\ received <= task.sectors
      /\ task.sectors \in Nat \ {0} /\ task.sectors - 1 \in Nat
    BY TaskFacts DEF VInv, IInv, TypeOK, Reception
<1>3. Done = BlockCount
    BY <1>1
<1>4. CASE received < task.sectors
    <2>1. Done = Block(received)
        BY <1>2, <1>4 DEF Done
    <2>2. Block(received) <= Block(task.sectors - 1)
        BY <1>2, <1>4, BlockMonotone
    <2>3. BlockCount = Block(task.sectors - 1) + 1 /\ Block(task.sectors - 1) \in Nat
        BY <1>2, BlockCountFacts, BlockFacts
    <2>4. BlockCount <= Block(task.sectors - 1)
        BY <1>3, <2>1, <2>2
    <2>5. FALSE
        BY <2>3, <2>4
    <2> QED BY <2>5
<1> QED BY <1>2, <1>4

(* The block of the input at p ends behind p and not behind the source.      *)
LEMMA BlockEndFacts ==
    ASSUME task \in Task, inBlock \in Nat \ {0}, NEW p \in Nat, p < task.sectors
    PROVE  BlockEnd(p) \in Nat /\ p < BlockEnd(p) /\ BlockEnd(p) <= task.sectors
<1> DEFINE q == p \div inBlock
<1>1. q \in Nat /\ p < q * inBlock + inBlock /\ task.sectors \in Nat
    BY DivBounds, TaskFacts
<1>2. BlockEnd(p) = IF (q + 1) * inBlock < task.sectors THEN (q + 1) * inBlock ELSE task.sectors
    BY DEF BlockEnd
<1> HIDE DEF q
<1>3. (q + 1) * inBlock = q * inBlock + inBlock /\ q * inBlock \in Nat
    BY <1>1
<1> QED BY <1>1, <1>2, <1>3

(* A record of the reader's chain.                                           *)
LEMMA ReaderFacts ==
    ASSUME NEW c \in Pcs, NEW d \in Nat, NEW u \in Nat
    PROVE  /\ Reader(c, d, u) \in [pc : Pcs, depth : Nat, upto : Nat]
           /\ Reader(c, d, u).pc = c /\ Reader(c, d, u).upto = u
BY DEF Reader

(* One more note.                                                            *)
LEMMA NoteAppend ==
    ASSUME notes \in Seq(NoteKinds), NEW n \in NoteKinds, notes' = Append(notes, n)
    PROVE  /\ notes' \in Seq(NoteKinds) /\ notes' # <<>>
           /\ (\E i \in DOMAIN notes' : notes'[i] = "SUCCESS") <=>
                 n = "SUCCESS" \/ \E i \in DOMAIN notes : notes[i] = "SUCCESS"
<1>1. /\ Len(notes) \in Nat /\ Len(notes') = Len(notes) + 1 /\ notes'[Len(notes) + 1] = n
      /\ \A i \in 1 .. Len(notes) : notes'[i] = notes[i]
      /\ notes' \in Seq(NoteKinds) /\ notes' # <<>>
      /\ DOMAIN notes = 1 .. Len(notes) /\ DOMAIN notes' = 1 .. Len(notes')
    BY AppendProperties, LenProperties
<1>2. 1 .. Len(notes') = (1 .. Len(notes)) \cup {Len(notes) + 1}
    BY <1>1
<1> QED BY <1>1, <1>2

(* What OnFinish makes of nothing and of one call of finish_.                *)
LEMMA OnFinishNothing ==
    ASSUME notes \in Seq(NoteKinds), finished \in Seq(Verdicts), OnFinish, finished' = finished
    PROVE  notes' = notes
<1> DEFINE new == SubSeq(finished', Len(finished) + 1, Len(finished'))
           said == [i \in DOMAIN new |-> IF new[i] = "success" THEN "SUCCESS" ELSE "CANNOT_WRITE"]
<1>1. Len(finished) \in Nat
    BY LenProperties
<1>2. new = <<>>
    BY <1>1
<1>3. said = <<>>
    BY <1>2
<1> QED BY <1>3 DEF OnFinish

LEMMA OnFinishOne ==
    ASSUME notes \in Seq(NoteKinds), finished \in Seq(Verdicts), OnFinish, NEW v \in Verdicts,
           finished' = Append(finished, v)
    PROVE  notes' = Append(notes, IF v = "success" THEN "SUCCESS" ELSE "CANNOT_WRITE")
<1> DEFINE new == SubSeq(finished', Len(finished) + 1, Len(finished'))
           x == IF v = "success" THEN "SUCCESS" ELSE "CANNOT_WRITE"
           said == [i \in DOMAIN new |-> IF new[i] = "success" THEN "SUCCESS" ELSE "CANNOT_WRITE"]
<1>1. /\ Len(finished) \in Nat /\ Len(finished') = Len(finished) + 1
      /\ finished'[Len(finished) + 1] = v /\ finished' \in Seq(Verdicts)
    BY AppendProperties, LenProperties
<1>2. Len(new) = 1 /\ new[1] = v /\ new \in Seq(Verdicts)
    BY <1>1
<1>3. DOMAIN new = 1 .. 1
    BY <1>2, LenProperties
<1>4. DOMAIN said = 1 .. 1 /\ said[1] = x
    BY <1>2, <1>3
<1>5. said \in Seq(NoteKinds) /\ Len(said) = 1
    <2>1. said \in [1 .. 1 -> NoteKinds]
        BY <1>3 DEF NoteKinds
    <2> HIDE DEF said
    <2>2. 1 \in Nat
        OBVIOUS
    <2>3. said \in Seq(NoteKinds)
        BY <2>1, <2>2, SeqDef
    <2>4. Len(said) \in Nat /\ DOMAIN said = 1 .. Len(said)
        BY <2>3, LenProperties
    <2>5. 1 .. Len(said) = 1 .. 1
        BY <1>4, <2>4
    <2> QED BY <2>3, <2>4, <2>5
<1>6. notes' = notes \o said
    BY DEF OnFinish
<1> HIDE DEF said, x, new
<1>7. notes \o said = Append(notes, x)
    <2>1. x \in NoteKinds
        BY DEF x, NoteKinds
    <2>2. said = <<x>>
        BY <1>4, <1>5, <2>1, SeqEqual
    <2> QED BY <2>1, <2>2, AppendIsConcat
<1> QED BY <1>6, <1>7 DEF x


(* The Output's part of OutputStep.                                          *)
OutputActs ==
    \/ \E s \in Sector : Compress(s)
    \/ \E s \in Sector : AfterWork(s)
    \/ HandleReadyWait \/ HandleReadyReject \/ HandleReadySubmit
    \/ \E w \in writes, ok \in BOOLEAN : HandleWrittenSectors(w, ok)
    \/ AfterProgress
    \/ \E ok \in BOOLEAN : WriteIndexDone(ok)

(* What Output does on its own, as the input sees it: Sectors become free    *)
(* only with a call of progress_ or of finish_.                              *)
LEMMA OutputMoves ==
    ASSUME WInv, OutputActs
    PROVE  /\ Next /\ UNCHANGED <<task, received>>
           /\ "HAS_FILE" \in state /\ "HAS_FILE" \in state'
           /\ finished' = finished \/ \E v \in Verdicts : finished' = Append(finished, v)
           /\ freeSectors \subseteq freeSectors'
           /\ srcPos' # srcPos => freeSectors' # {} /\ finished' = finished
           /\ srcPos' = srcPos => freeSectors' = freeSectors \/ finished' # <<>>
<1>0. VInv /\ IInv /\ finished \in Seq(Verdicts) /\ srcPos \in Nat
    BY DEF WInv, VInv, IInv, TypeOK
<1>1. Next
    BY DEF OutputActs, Next
<1>2. /\ task' = task
      /\ finished' = finished \/ \E v \in Verdicts : finished' = Append(finished, v)
      /\ srcPos' # srcPos => finished' = finished
    <2>1. [Next]_vars
        BY <1>1
    <2>2. <<"success">> = Append(<<>>, "success")
        OBVIOUS
    <2>3. {"success", "dax", "format", "data", "header"} \subseteq Verdicts
        BY DEF Verdicts
    <2>4. \/ finished' = finished
          \/ srcPos' = srcPos /\ finished = <<>> /\ finished' = <<"success">>
          \/ srcPos' = srcPos /\ \E e \in {"dax", "format", "data", "header"} : finished' = Append(finished, e)
        BY <1>0, <2>1, StepKinds
    <2>5. task' = task
        BY <1>0, <2>1, StepKinds
    <2> QED BY <2>2, <2>3, <2>4, <2>5
<1>3. received' = received
    BY DEF OutputActs, Compress, AfterWork, HandleReadyWait, HandleReadyReject, HandleReadySubmit,
           HandleWrittenSectors, AfterProgress, WriteIndexDone
<1>4. ASSUME \E s \in Sector : Compress(s) \/ AfterWork(s)
      PROVE  UNCHANGED <<freeSectors, srcPos, state>> /\ "HAS_FILE" \in state
    <2>1. PICK s \in Sector : s \in work \cup after /\ UNCHANGED <<freeSectors, srcPos, state>>
        BY <1>4 DEF Compress, AfterWork
    <2> QED BY <1>0, <2>1, Opened DEF Placed, Filling
<1>5. ASSUME HandleReadyWait \/ HandleReadyReject
      PROVE  UNCHANGED <<freeSectors, srcPos, state>> /\ "HAS_FILE" \in state
    <2>1. CASE HandleReadyWait
        BY <1>0, <2>1, Opened DEF HandleReadyWait
    <2>2. CASE HandleReadyReject
        <3>1. \E s \in Sector, n \in 1 .. MAX_BUFS : NextSector(s) /\ BatchSize(n)
            BY <2>2 DEF HandleReadyReject
        <3>2. "HAS_FILE" \in state
            BY <1>0, <3>1, BatchMeans
        <3> QED BY <2>2, <3>2 DEF HandleReadyReject
    <2> QED BY <1>5, <2>1, <2>2
<1>6. ASSUME HandleReadySubmit
      PROVE  /\ "HAS_FILE" \in state /\ "HAS_FILE" \in state' /\ freeSectors \subseteq freeSectors'
             /\ \/ srcPos' = srcPos /\ freeSectors' = freeSectors
                \/ srcPos' # srcPos /\ freeSectors' # {}
    <2>1. PICK s \in Sector, n \in 1 .. MAX_BUFS :
            /\ NextSector(s) /\ BatchSize(n) /\ Flush(Batch(s, n))
            /\ \/ /\ srcPos' = srcPos + Len(Batch(s, n))
                  /\ freeSectors' = freeSectors \cup {Batch(s, n)[k] : k \in 1 .. Len(Batch(s, n))}
               \/ UNCHANGED <<freeSectors, srcPos>>
        BY <1>6 DEF HandleReadySubmit
    <2>2. n \in Nat \ {0} /\ Len(Batch(s, n)) = n /\ "HAS_FILE" \in state
        BY <1>0, <2>1, BatchMeans
    <2>3. "HAS_FILE" \in state'
        BY <2>2, <2>1 DEF Flush
    <2>4. srcPos + n # srcPos /\ 1 \in 1 .. n
        BY <1>0, <2>2
    <2> QED BY <2>1, <2>2, <2>3, <2>4
<1>7. ASSUME NEW w \in writes, NEW ok \in BOOLEAN, HandleWrittenSectors(w, ok)
      PROVE  /\ "HAS_FILE" \in state /\ "HAS_FILE" \in state' /\ freeSectors \subseteq freeSectors'
             /\ \/ srcPos' = srcPos /\ finished' # <<>>
                \/ srcPos' # srcPos /\ freeSectors' # {}
    <2>1. /\ freeSectors' = freeSectors \cup {w.batch[k] : k \in 1 .. Len(w.batch)}
          /\ state' = state
          /\ \/ srcPos' = w.nextPos
             \/ srcPos' = srcPos /\ finished' = Append(finished, "data")
        BY <1>7 DEF HandleWrittenSectors
    <2>2. Len(w.batch) \in Nat \ {0} /\ "HAS_FILE" \in state /\ w.nextPos = srcPos + Len(w.batch)
        BY <1>0, WriteMeans
    <2>3. w.nextPos # srcPos /\ 1 \in 1 .. Len(w.batch)
        BY <1>0, <2>2
    <2>4. Append(finished, "data") # <<>>
        BY <1>0, AppendProperties DEF Verdicts
    <2> QED BY <2>1, <2>2, <2>3, <2>4
<1>8. ASSUME AfterProgress \/ \E ok \in BOOLEAN : WriteIndexDone(ok)
      PROVE  /\ "HAS_FILE" \in state /\ "HAS_FILE" \in state' /\ UNCHANGED <<freeSectors, srcPos>>
    <2>1. UNCHANGED <<freeSectors, srcPos>> /\ state \subseteq state'
        <3>1. CASE AfterProgress
            BY <3>1 DEF AfterProgress
        <3>2. CASE \E ok \in BOOLEAN : WriteIndexDone(ok)
            BY <3>2 DEF WriteIndexDone
        <3> QED BY <1>8, <3>1, <3>2
    <2>2. progress # <<>> \/ flushes > 0
        BY <1>8 DEF AfterProgress, WriteIndexDone
    <2>3. "HAS_FILE" \in state
        BY <1>0, <2>2, Opened DEF VInv, Unopened
    <2> QED BY <2>1, <2>3
<1>9. /\ "HAS_FILE" \in state /\ "HAS_FILE" \in state' /\ freeSectors \subseteq freeSectors'
      /\ srcPos' # srcPos => freeSectors' # {}
      /\ srcPos' = srcPos => freeSectors' = freeSectors \/ finished' # <<>>
    <2>1. CASE \E s \in Sector : Compress(s) \/ AfterWork(s)
        BY <1>4, <2>1
    <2>2. CASE HandleReadyWait \/ HandleReadyReject
        BY <1>5, <2>2
    <2>3. CASE HandleReadySubmit
        BY <1>6, <2>3
    <2>4. CASE \E w \in writes, ok \in BOOLEAN : HandleWrittenSectors(w, ok)
        BY <1>7, <2>4
    <2>5. CASE AfterProgress \/ \E ok \in BOOLEAN : WriteIndexDone(ok)
        BY <1>8, <2>5
    <2> QED BY <2>1, <2>2, <2>3, <2>4, <2>5 DEF OutputActs
<1> QED BY <1>1, <1>2, <1>3, <1>9

-----------------------------------------------------------------------------
(* The steps of the pipeline *)

LEMMA InitPInv == PInit => PInv
<1> SUFFICES ASSUME PInit PROVE PInv
    OBVIOUS
<1>1. WInv
    BY InitWInv DEF PInit
<1>2. /\ todo \in TaskLists /\ phase = "Enqueue" /\ inBlock \in InputBlocks /\ pos = 0
      /\ paused = FALSE /\ resumeShouldRead = FALSE /\ reader = Reader("idle", 0, 0)
      /\ notes = <<>> /\ leaked = FALSE /\ state = {} /\ finished = <<>> /\ received = 0
    BY DEF PInit, Init
<1>3. reader \in [pc : Pcs, depth : Nat, upto : Nat] /\ reader.pc = "idle"
    <2>1. "idle" \in Pcs
        BY DEF Pcs
    <2> QED BY <1>2, <2>1, ReaderFacts
<1>4. PTypeOK
    BY <1>2, <1>3 DEF PTypeOK
<1>5. Started
    BY <1>2, <1>3, TaskListsAssumption DEF Started, Before
<1>6. Chained
    BY <1>2, <1>3, InputBlocksAssumption DEF Chained
<1>7. Flowing
    BY <1>2, <1>3 DEF Flowing
<1>8. Noted
    BY <1>2, <1>3 DEF Noted
<1> QED BY <1>1, <1>4, <1>5, <1>6, <1>7, <1>8 DEF PInv

(* Before SetFile: a step to the next phase, or an error.                    *)
LEMMA EarlyPInv ==
    ASSUME PInv, phase \in Before, UNCHANGED <<vars, todo, inputVars, leaked>>,
           \/ phase' \in Before /\ UNCHANGED notes
           \/ phase' = "running" /\ \E n \in NoteKinds \ {"SUCCESS"} : notes' = Append(notes, n)
    PROVE  PInv'
<1>1. WInv'
    BY NextWInv DEF PInv
<1>2. UNCHANGED <<task, freeSectors, state, finished, received, inBlock, pos, paused,
                  resumeShouldRead, reader, todo, leaked>>
    BY DEF vars, inputVars
<1>3. reader.pc = "idle" /\ notes = <<>> /\ state = {} /\ finished = <<>> /\ received = 0
    BY DEF PInv, Started
<1>4. PTypeOK' /\ Chained' /\ Flowing'
    BY <1>2 DEF PInv, PTypeOK, Chained, Flowing
<1>5. /\ notes' \in Seq(NoteKinds) /\ ~\E i \in DOMAIN notes' : notes'[i] = "SUCCESS"
      /\ \/ phase' \in Before /\ notes' = <<>>
         \/ phase' = "running" /\ notes' # <<>>
    <2>1. notes \in Seq(NoteKinds) /\ ~\E i \in DOMAIN notes : notes[i] = "SUCCESS"
        BY <1>3
    <2>2. CASE phase' \in Before /\ UNCHANGED notes
        <3>1. notes' = <<>>
            BY <1>3, <2>2
        <3> QED BY <2>2, <3>1
    <2>3. ASSUME phase' = "running", NEW n \in NoteKinds \ {"SUCCESS"}, notes' = Append(notes, n)
          PROVE  /\ notes' \in Seq(NoteKinds) /\ notes' # <<>>
                 /\ ~\E i \in DOMAIN notes' : notes'[i] = "SUCCESS"
        BY <2>1, <2>3, NoteAppend
    <2> QED BY <2>2, <2>3
<1>6. Started'
    BY <1>2, <1>3, <1>5 DEF PInv, Started, Before
<1>7. Noted'
    BY <1>2, <1>3, <1>5 DEF Noted
<1> QED BY <1>1, <1>4, <1>6, <1>7 DEF PInv


LEMMA BeginPInv == ASSUME PInv, Begin PROVE PInv'
<1>1. WInv /\ VInv /\ SetFile /\ phase = "index" /\ phase' = "running"
    BY DEF PInv, WInv, Begin
<1>2. WInv'
    BY <1>1, SetFileWInv
<1>3. /\ reader.pc = "idle" /\ notes = <<>> /\ received = 0 /\ todo \in Seq(Task) /\ todo # <<>>
    BY <1>1 DEF PInv, Started, Before
<1>4. /\ finished = <<>> /\ state = {} /\ UNCHANGED <<task, freeSectors, received>>
      /\ \/ finished' = Append(finished, "dax")
         \/ finished' = finished /\ state' = {"HAS_FILE"}
    BY <1>1 DEF SetFile
<1>5. /\ paused' = (finished' # <<>>) /\ reader' = Reader("ReadSector", 0, 0)
      /\ notes' = IF finished' # <<>> THEN Append(notes, "CANNOT_WRITE") ELSE notes
      /\ UNCHANGED <<todo, inBlock, pos, resumeShouldRead, leaked>>
    BY DEF Begin
<1>6. reader' \in [pc : Pcs, depth : Nat, upto : Nat] /\ reader'.pc = "ReadSector"
    <2>1. "ReadSector" \in Pcs
        BY DEF Pcs, OnStack
    <2> QED BY <1>5, <2>1, ReaderFacts
<1>7. freeSectors # {}
    <2>1. freeSectors = Sector
        BY <1>1, <1>4 DEF VInv, Unopened
    <2>2. Sector # {}
        <3>1. Cardinality({}) = 0
            BY FS_EmptySet
        <3> QED BY <3>1, SectorAssumption
    <2> QED BY <2>1, <2>2
<1>8. PTypeOK'
    BY <1>3, <1>4, <1>5, <1>6 DEF PInv, PTypeOK, OnStack
<1>9. Started'
    BY <1>1, <1>3, <1>5, <1>6 DEF Started, Before
<1>10. Chained'
    BY <1>5, <1>6 DEF PInv, Chained
<1>11. Flowing'
    <2>1. resumeShouldRead = FALSE
        BY <1>3 DEF PInv, Flowing, PTypeOK
    <2>2. ~paused' => state' = {"HAS_FILE"}
        <3>1. Append(<<>>, "dax") # <<>>
            OBVIOUS
        <3> QED BY <1>4, <1>5, <3>1
    <2> QED BY <1>4, <1>5, <1>6, <1>7, <2>1, <2>2 DEF Flowing
<1>12. Noted'
    <2>1. \/ notes' = <<>> /\ finished' = <<>>
          \/ notes' = <<"CANNOT_WRITE">> /\ finished' # <<>>
        <3>1. Append(<<>>, "CANNOT_WRITE") = <<"CANNOT_WRITE">>
            OBVIOUS
        <3> QED BY <1>3, <1>5, <3>1
    <2>2. CASE notes' = <<>> /\ finished' = <<>>
        BY <1>6, <2>2 DEF Noted
    <2>3. CASE notes' = <<"CANNOT_WRITE">> /\ finished' # <<>>
        <3>1. /\ notes' \in Seq(NoteKinds) /\ notes' # <<>>
              /\ ~\E i \in DOMAIN notes' : notes'[i] = "SUCCESS"
            BY <2>3 DEF NoteKinds
        <3> QED BY <1>6, <2>3, <3>1 DEF Noted
    <2> QED BY <2>1, <2>2, <2>3
<1> QED BY <1>2, <1>8, <1>9, <1>10, <1>11, <1>12 DEF PInv

(* A step of the input that leaves Output alone and reports nothing.         *)
LEMMA QuietInput ==
    ASSUME PInv, UNCHANGED <<vars, todo, phase, inBlock, notes>>,
           reader.pc \notin {"idle", "failed", "parked"},
           reader'.pc \notin {"idle", "failed"},
           PTypeOK', Chained', Flowing'
    PROVE  PInv'
<1>1. WInv'
    BY NextWInv DEF PInv
<1>2. UNCHANGED <<finished, received, state>>
    BY DEF vars
<1>3. Started'
    BY <1>2 DEF PInv, Started
<1>4. Noted'
    BY <1>2 DEF PInv, Noted
<1> QED BY <1>1, <1>3, <1>4 DEF PInv

LEMMA ReadSectorPInv == ASSUME PInv, ReadSectorStops \/ ReadSectorGoes PROVE PInv'
<1>1. /\ reader.pc = "ReadSector" /\ reader.depth \in Nat /\ pos \in Nat /\ task.sectors \in Nat
      /\ UNCHANGED <<vars, todo, phase, inBlock, pos, paused, notes, leaked>>
      /\ reader \in [pc : Pcs, depth : Nat, upto : Nat]
    <2>1. task \in Task
        BY DEF PInv, WInv, VInv, IInv, TypeOK
    <2> QED BY <2>1, TaskFacts DEF PInv, PTypeOK, Chained, ReadSectorStops, ReadSectorGoes
<1>2. UNCHANGED <<task, freeSectors, finished, received, state>>
    BY <1>1 DEF vars
<1>3. {"end", "parked", "deliver", "decompress", "read"} \subseteq Pcs /\ 0 \in Nat /\ pos + 1 \in Nat
    BY <1>1 DEF Pcs, OnStack
<1>4. \/ /\ pos >= task.sectors /\ reader' = Reader("end", 0, 0) /\ UNCHANGED resumeShouldRead
      \/ /\ pos < task.sectors /\ paused /\ resumeShouldRead' = TRUE
         /\ reader' = Reader("parked", 0, 0)
      \/ /\ pos < task.sectors /\ ~paused /\ UNCHANGED resumeShouldRead
         /\ \/ reader' = Reader("deliver", reader.depth, pos + 1)
            \/ reader' = Reader("decompress", 0, 0)
            \/ reader' = Reader("read", 0, 0)
    BY DEF ReadSectorStops, ReadSectorGoes
<1>5. /\ reader' \in [pc : Pcs, depth : Nat, upto : Nat]
      /\ \/ /\ pos >= task.sectors /\ reader'.pc = "end" /\ UNCHANGED resumeShouldRead
         \/ /\ pos < task.sectors /\ paused /\ resumeShouldRead' = TRUE /\ reader'.pc = "parked"
         \/ /\ pos < task.sectors /\ ~paused /\ UNCHANGED resumeShouldRead
            /\ \/ reader'.pc = "deliver" /\ reader'.upto = pos + 1
               \/ reader'.pc \in {"decompress", "read"}
    <2>1. \A c \in {"end", "parked", "decompress", "read"} :
            Reader(c, 0, 0) \in [pc : Pcs, depth : Nat, upto : Nat] /\ Reader(c, 0, 0).pc = c
        BY <1>3 DEF Reader
    <2>2. /\ Reader("deliver", reader.depth, pos + 1) \in [pc : Pcs, depth : Nat, upto : Nat]
          /\ Reader("deliver", reader.depth, pos + 1).pc = "deliver"
          /\ Reader("deliver", reader.depth, pos + 1).upto = pos + 1
        BY <1>1, <1>3 DEF Reader
    <2> QED BY <1>4, <2>1, <2>2
<1>6. PTypeOK'
    BY <1>1, <1>2, <1>5 DEF PInv, PTypeOK, OnStack
<1>7. Chained'
    BY <1>1, <1>2, <1>5 DEF PInv, Chained
<1>8. Flowing'
    <2>1. resumeShouldRead = FALSE
        BY <1>1 DEF PInv, Flowing, PTypeOK
    <2> QED BY <1>1, <1>2, <1>5, <2>1 DEF PInv, Flowing
<1>9. reader'.pc \notin {"idle", "failed"}
    BY <1>5
<1> QED BY <1>1, <1>6, <1>7, <1>8, <1>9, QuietInput

(* The chain ends with an error: then the source has not been received, and  *)
(* success neither has been nor will be reported.                            *)
LEMMA FailPInv ==
    ASSUME PInv, reader.pc \in {"read", "decompressed"}, reader' = Reader("failed", 0, 0),
           notes' = Append(notes, "INVALID_DATA"),
           UNCHANGED <<vars, todo, phase, inBlock, pos, paused, resumeShouldRead, leaked>>
    PROVE  PInv'
<1>1. WInv'
    BY NextWInv DEF PInv
<1>2. UNCHANGED <<task, freeSectors, finished, received, state>>
    BY DEF vars
<1>3. reader' \in [pc : Pcs, depth : Nat, upto : Nat] /\ reader'.pc = "failed"
    <2>1. "failed" \in Pcs
        BY DEF Pcs
    <2> QED BY <2>1, ReaderFacts
<1>4. PTypeOK' /\ Started'
    BY <1>2, <1>3 DEF PInv, PTypeOK, Started, Before
<1>5. Chained'
    BY <1>2, <1>3 DEF PInv, Chained
<1>6. Flowing'
    BY <1>2, <1>3 DEF PInv, Flowing
<1>7. ~\E i \in DOMAIN notes : notes[i] = "SUCCESS"
    <2> SUFFICES ASSUME \E i \in DOMAIN notes : notes[i] = "SUCCESS" PROVE FALSE
        OBVIOUS
    <2>1. finished = <<"success">>
        BY DEF PInv, Noted
    <2>2. Said("success")
        BY <2>1 DEF Said
    <2>3. received = task.sectors /\ received = pos
        BY <2>2, SuccessMeansAll DEF PInv, WInv, PTypeOK
    <2>4. pos < task.sectors /\ pos \in Nat
        BY DEF PInv, Chained, PTypeOK
    <2> QED BY <2>3, <2>4
<1>8. Noted'
    <2>1. notes \in Seq(NoteKinds) /\ "INVALID_DATA" \in NoteKinds
        BY DEF PInv, Noted, NoteKinds
    <2>2. /\ notes' \in Seq(NoteKinds) /\ notes' # <<>>
          /\ ~\E i \in DOMAIN notes' : notes'[i] = "SUCCESS"
        BY <1>7, <2>1, NoteAppend
    <2> QED BY <1>3, <2>2 DEF Noted
<1> QED BY <1>1, <1>4, <1>5, <1>6, <1>8 DEF PInv

LEMMA ReadPInv == ASSUME PInv, ReadDone \/ Decompress \/ Decompressed PROVE PInv'
<1>1. /\ reader.pc \in {"read", "decompress", "decompressed"} /\ pos \in Nat
      /\ pos < task.sectors /\ task.sectors \in Nat
      /\ freeSectors # {} /\ "HAS_FILE" \in state /\ received = pos /\ inBlock \in Nat \ {0}
      /\ task \in Task /\ resumeShouldRead = FALSE
    <2>1. reader.pc \in {"read", "decompress", "decompressed"}
        BY DEF ReadDone, Decompress, Decompressed
    <2>2. task \in Task
        BY DEF PInv, WInv, VInv, IInv, TypeOK
    <2>3. task.sectors \in Nat
        BY <2>2, TaskFacts
    <2>4. pos < task.sectors /\ pos \in Nat /\ received = pos /\ inBlock \in Nat \ {0}
        BY <2>1 DEF PInv, Chained, PTypeOK
    <2>5. freeSectors # {} /\ "HAS_FILE" \in state /\ resumeShouldRead = FALSE
        BY <2>1 DEF PInv, Flowing, PTypeOK
    <2> QED BY <2>1, <2>2, <2>3, <2>4, <2>5
<1>2. UNCHANGED <<vars, todo, phase, inBlock, pos, paused, resumeShouldRead>>
    BY DEF ReadDone, Decompress, Decompressed
<1>3. UNCHANGED <<task, freeSectors, finished, received, state>>
    BY <1>2 DEF vars
<1>4. CASE reader' = Reader("failed", 0, 0)
    <2>1. "failed" \in Pcs /\ {"decompressed", "ReadSector", "deliver", "decompress"} \subseteq Pcs
        BY DEF Pcs, OnStack
    <2>2. reader'.pc = "failed"
        BY <1>4, <2>1, ReaderFacts
    <2>3. Reader("decompressed", 0, 0).pc = "decompressed"
        BY <2>1, ReaderFacts
    <2>4. ~Decompress
        BY <2>2, <2>3 DEF Decompress
    <2>5. CASE ReadDone
        <3>1. Reader("deliver", 0, pos + 1).pc = "deliver" /\ Reader("decompress", 0, 0).pc = "decompress"
            BY <1>1, <2>1, ReaderFacts
        <3>2. /\ reader.pc = "read" /\ notes' = Append(notes, "INVALID_DATA") /\ UNCHANGED leaked
            BY <2>2, <2>5, <3>1 DEF ReadDone
        <3> QED BY <1>2, <1>4, <3>2, FailPInv
    <2>6. CASE Decompressed
        <3>1. \A end : Reader(IF end = pos THEN "ReadSector" ELSE "deliver", 0, end).pc # "failed"
            BY DEF Reader
        <3>2. /\ reader.pc = "decompressed" /\ notes' = Append(notes, "INVALID_DATA") /\ UNCHANGED leaked
            BY <2>2, <2>6, <3>1 DEF Decompressed
        <3> QED BY <1>2, <1>4, <3>2, FailPInv
    <2> QED BY <2>4, <2>5, <2>6
<1>5. CASE reader' # Reader("failed", 0, 0)
    <2>1. /\ notes' = notes /\ leaked' \in BOOLEAN
          /\ reader' \in [pc : Pcs, depth : Nat, upto : Nat]
          /\ \/ reader'.pc = "deliver" /\ pos < reader'.upto /\ reader'.upto <= task.sectors
             \/ reader'.pc \in {"decompress", "decompressed", "ReadSector"}
        <3>0. {"decompressed", "ReadSector", "deliver", "decompress"} \subseteq Pcs /\ 0 \in Nat
            BY DEF Pcs, OnStack
        <3>1. leaked \in BOOLEAN
            BY DEF PInv, PTypeOK
        <3>2. CASE ReadDone
            <4>1. /\ notes' = notes /\ leaked' = leaked
                  /\ reader' = Reader("deliver", 0, pos + 1) \/ reader' = Reader("decompress", 0, 0)
                BY <1>5, <3>2 DEF ReadDone
            <4>2. pos + 1 \in Nat /\ pos < pos + 1 /\ pos + 1 <= task.sectors
                BY <1>1
            <4>3. /\ Reader("deliver", 0, pos + 1) \in [pc : Pcs, depth : Nat, upto : Nat]
                  /\ Reader("deliver", 0, pos + 1).pc = "deliver"
                  /\ Reader("deliver", 0, pos + 1).upto = pos + 1
                BY <3>0, <4>2, ReaderFacts
            <4>4. /\ Reader("decompress", 0, 0) \in [pc : Pcs, depth : Nat, upto : Nat]
                  /\ Reader("decompress", 0, 0).pc = "decompress"
                BY <3>0, ReaderFacts
            <4> QED BY <3>1, <4>1, <4>2, <4>3, <4>4
        <3>3. CASE Decompress
            <4>1. /\ notes' = notes /\ leaked' = leaked /\ reader' = Reader("decompressed", 0, 0)
                BY <3>3 DEF Decompress
            <4> QED BY <3>0, <3>1, <4>1, ReaderFacts
        <3>4. CASE Decompressed
            <4>1. PICK end \in ResultEnds :
                    /\ reader' = Reader(IF end = pos THEN "ReadSector" ELSE "deliver", 0, end)
                    /\ leaked' = (leaked \/ end = pos) /\ notes' = notes
                BY <1>5, <3>4 DEF Decompressed
            <4>2. BlockEnd(pos) \in Nat /\ pos < BlockEnd(pos) /\ BlockEnd(pos) <= task.sectors
                BY <1>1, BlockEndFacts
            <4>3. end \in Nat /\ pos <= end /\ end <= task.sectors
                BY <1>1, <4>1, <4>2 DEF ResultEnds
            <4>4. leaked' \in BOOLEAN
                BY <3>1, <4>1
            <4>5. CASE end = pos
                BY <3>0, <4>1, <4>3, <4>4, <4>5, ReaderFacts
            <4>6. CASE end # pos
                <5>1. pos < end
                    BY <1>1, <4>3, <4>6
                <5>2. /\ Reader("deliver", 0, end) \in [pc : Pcs, depth : Nat, upto : Nat]
                      /\ Reader("deliver", 0, end).pc = "deliver" /\ Reader("deliver", 0, end).upto = end
                    BY <3>0, <4>3, ReaderFacts
                <5> QED BY <4>1, <4>3, <4>4, <4>6, <5>1, <5>2
            <4> QED BY <4>5, <4>6
        <3> QED BY <3>2, <3>3, <3>4
    <2>2. PTypeOK'
        BY <1>1, <1>2, <1>3, <2>1 DEF PInv, PTypeOK, OnStack
    <2>3. Chained'
        BY <1>1, <1>2, <1>3, <2>1 DEF Chained
    <2>4. Flowing'
        BY <1>1, <1>2, <1>3, <2>1 DEF PInv, Flowing
    <2>5. reader'.pc \notin {"idle", "failed"}
        BY <2>1
    <2>6. reader.pc \notin {"idle", "failed", "parked"}
        BY <1>1
    <2> QED BY <1>2, <2>1, <2>2, <2>3, <2>4, <2>5, <2>6, QuietInput
<1> QED BY <1>4, <1>5


(* The input delivers in order and with a Sector free: this is Receive.      *)
LEMMA DeliverReceives ==
    ASSUME PInv, Deliver
    PROVE  Receive /\ UNCHANGED <<finished, state, task>> /\ received' = received + 1
<1>1. /\ reader.pc = "deliver" /\ Enqueue(pos)
      /\ UNCHANGED <<state, task>> /\ received' = received + 1
    BY DEF Deliver, Enqueue
<1>2. received = pos /\ freeSectors # {}
    BY <1>1 DEF PInv, PTypeOK, Flowing
<1>3. pos < reader.upto /\ reader.upto <= task.sectors /\ pos \in Nat /\ reader.upto \in Nat
    BY <1>1 DEF PInv, Chained, PTypeOK
<1>4. task.sectors \in Nat
    BY TaskFacts DEF PInv, WInv, VInv, IInv, TypeOK
<1>5. Receive
    BY <1>1, <1>2, <1>3, <1>4 DEF Receive
<1>6. IInv
    BY DEF PInv, WInv, VInv
<1>7. UNCHANGED finished
    BY <1>5, <1>6, EnqueueCases
<1> QED BY <1>1, <1>5, <1>7

LEMMA DeliverPInv == ASSUME PInv, Deliver PROVE PInv'
<1>1. Receive /\ UNCHANGED <<finished, state, task>> /\ received' = received + 1
    BY DeliverReceives
<1>2. WInv'
    BY <1>1, ReceiveWInv DEF PInv
<1>3. /\ reader.pc = "deliver" /\ reader' = [reader EXCEPT !.pc = "callback"]
      /\ UNCHANGED <<todo, phase, inBlock, pos, paused, resumeShouldRead, notes, leaked>>
    BY DEF Deliver
<1>4. reader \in [pc : Pcs, depth : Nat, upto : Nat]
    BY DEF PInv, Chained
<1>5. /\ reader' \in [pc : Pcs, depth : Nat, upto : Nat] /\ reader'.pc = "callback"
      /\ reader'.upto = reader.upto
    <2>1. "callback" \in Pcs
        BY DEF Pcs, OnStack
    <2> QED BY <1>3, <1>4, <2>1
<1>6. PTypeOK'
    BY <1>1, <1>3, <1>5 DEF PInv, PTypeOK, OnStack
<1>7. Started'
    BY <1>1, <1>3, <1>5 DEF PInv, Started, Before
<1>8. Chained'
    BY <1>1, <1>3, <1>5 DEF PInv, Chained
<1>9. Flowing'
    <2>1. paused => finished # <<>>
        BY <1>3 DEF PInv, Flowing
    <2> QED BY <1>1, <1>3, <1>5, <2>1 DEF PInv, Flowing
<1>10. Noted'
    BY <1>1, <1>3, <1>5 DEF PInv, Noted
<1> QED BY <1>2, <1>6, <1>7, <1>8, <1>9, <1>10 DEF PInv

LEMMA CallbackReturnsPInv == ASSUME PInv, CallbackReturns PROVE PInv'
<1>1. /\ reader.pc = "callback" /\ paused' = (paused \/ QueueFull) /\ pos' = pos + 1
      /\ UNCHANGED <<vars, todo, phase, inBlock, resumeShouldRead, notes, leaked>>
      /\ reader' = [reader EXCEPT !.pc = IF pos' < reader.upto /\ ~paused'
                                         THEN "deliver" ELSE "ReadSector"]
    BY DEF CallbackReturns
<1>2. UNCHANGED <<task, freeSectors, finished, received, state>>
    BY <1>1 DEF vars
<1>3. /\ reader \in [pc : Pcs, depth : Nat, upto : Nat] /\ pos \in Nat /\ received = pos + 1
      /\ reader.upto <= task.sectors /\ paused \in BOOLEAN /\ resumeShouldRead = FALSE
    BY <1>1 DEF PInv, Chained, PTypeOK, Flowing
<1>4. /\ reader' \in [pc : Pcs, depth : Nat, upto : Nat] /\ reader'.upto = reader.upto
      /\ \/ reader'.pc = "deliver" /\ pos' < reader.upto /\ ~paused'
         \/ reader'.pc = "ReadSector"
    <2>1. {"deliver", "ReadSector"} \subseteq Pcs
        BY DEF Pcs, OnStack
    <2>2. CASE pos' < reader.upto /\ ~paused'
        BY <1>1, <1>3, <2>1, <2>2
    <2>3. CASE ~(pos' < reader.upto /\ ~paused')
        BY <1>1, <1>3, <2>1, <2>3
    <2> QED BY <2>2, <2>3
<1>5. "HAS_FILE" \in state
    <2>1. received # 0
        BY <1>3
    <2> QED BY <2>1 DEF PInv, WInv, VInv, Unopened
<1>6. paused' \in BOOLEAN /\ (~paused' => freeSectors # {}) /\ (paused' => paused \/ freeSectors = {})
    BY <1>1, <1>3 DEF QueueFull
<1>7. PTypeOK'
    BY <1>1, <1>2, <1>3, <1>4, <1>6 DEF PInv, PTypeOK, OnStack
<1>8. Chained'
    BY <1>1, <1>2, <1>3, <1>4 DEF PInv, Chained
<1>9. Flowing'
    BY <1>1, <1>2, <1>3, <1>4, <1>5, <1>6 DEF PInv, Flowing
<1>10. reader'.pc \notin {"idle", "failed"}
    BY <1>4
<1> QED BY <1>1, <1>7, <1>8, <1>9, <1>10, QuietInput

(* A step of Output, with what its callbacks do to the input.                *)
LEMMA OutputStepPInv == ASSUME PInv, OutputStep PROVE PInv'
<1>0. OutputActs /\ Flow /\ WInv /\ finished \in Seq(Verdicts) /\ notes \in Seq(NoteKinds)
    BY DEF OutputStep, OutputActs, PInv, WInv, VInv, IInv, TypeOK, Noted
<1>1. /\ Next /\ UNCHANGED <<task, received>>
      /\ "HAS_FILE" \in state /\ "HAS_FILE" \in state'
      /\ finished' = finished \/ \E v \in Verdicts : finished' = Append(finished, v)
      /\ freeSectors \subseteq freeSectors'
      /\ srcPos' # srcPos => freeSectors' # {} /\ finished' = finished
      /\ srcPos' = srcPos => freeSectors' = freeSectors \/ finished' # <<>>
    BY <1>0, OutputMoves
<1>2. WInv'
    BY <1>0, <1>1, NextWInv
<1>3. UNCHANGED <<todo, phase, inBlock, pos, leaked>> /\ OnFinish
    BY <1>0 DEF Flow
<1>4. reader.pc # "idle" /\ phase \notin Before
    BY <1>1 DEF PInv, Started
<1>5. finished # <<>> => finished' # <<>>
    BY <1>0, <1>1, AppendProperties
<1>6. reader \in [pc : Pcs, depth : Nat, upto : Nat]
    BY DEF PInv, Chained
<1>7. /\ reader' \in [pc : Pcs, depth : Nat, upto : Nat]
      /\ paused' \in BOOLEAN /\ resumeShouldRead' \in BOOLEAN
      /\ \/ /\ srcPos' # srcPos /\ ~paused' /\ ~resumeShouldRead'
            /\ \/ reader.pc = "parked" /\ reader'.pc = "ReadSector"
               \/ reader.pc # "parked" /\ reader' = reader
         \/ /\ srcPos' = srcPos /\ UNCHANGED <<resumeShouldRead, reader>>
            /\ paused' = (paused \/ FinishedBadly)
    <2>0. paused \in BOOLEAN /\ resumeShouldRead \in BOOLEAN /\ (resumeShouldRead <=> reader.pc = "parked")
        BY DEF PInv, PTypeOK, Flowing
    <2>1. CASE CallsProgress /\ Resume
        <3>1. Len(progress') \in Nat
            BY <1>2, LenProperties DEF WInv, VInv, IInv, TypeOK
        <3>2. /\ Reader("ReadSector", Len(progress'), 0) \in [pc : Pcs, depth : Nat, upto : Nat]
              /\ Reader("ReadSector", Len(progress'), 0).pc = "ReadSector"
            BY <3>1 DEF Reader, Pcs, OnStack
        <3>3. srcPos' # srcPos /\ paused' = FALSE /\ resumeShouldRead' = FALSE
            BY <2>1 DEF CallsProgress, Resume
        <3>4. reader' = IF resumeShouldRead THEN Reader("ReadSector", Len(progress'), 0) ELSE reader
            BY <2>1 DEF Resume
        <3> QED BY <1>6, <2>0, <3>2, <3>3, <3>4
    <2>2. CASE ~CallsProgress /\ paused' = (paused \/ FinishedBadly) /\ UNCHANGED <<resumeShouldRead, reader>>
        BY <1>6, <2>0, <2>2 DEF CallsProgress
    <2> QED BY <1>0, <2>1, <2>2 DEF Flow
<1>8. FinishedBadly => finished' # <<>>
    <2>1. Len(finished) \in Nat /\ Len(<<>>) = 0
        BY <1>0, LenProperties
    <2> QED BY <2>1 DEF FinishedBadly
<1>9. PTypeOK'
    BY <1>1, <1>3, <1>7 DEF PInv, PTypeOK, OnStack
<1>10. Started'
    BY <1>3, <1>4, <1>7 DEF PInv, Started
<1>11. Chained'
    BY <1>1, <1>3, <1>7 DEF PInv, Chained
<1>12. Flowing'
    <2>1. CASE srcPos' # srcPos
        BY <1>1, <1>7, <2>1 DEF Flowing
    <2>2. CASE srcPos' = srcPos
        <3>1. UNCHANGED <<resumeShouldRead, reader>> /\ paused' = (paused \/ FinishedBadly)
            BY <1>7, <2>2
        <3>2. paused' => freeSectors' = {} \/ finished' # <<>>
            BY <1>1, <1>5, <1>8, <2>2, <3>1 DEF PInv, Flowing
        <3> QED BY <1>1, <3>1, <3>2 DEF PInv, Flowing
    <2> QED BY <2>1, <2>2
<1>13. Noted'
    <2>1. CASE finished' = finished
        <3>1. notes' = notes
            BY <1>0, <1>3, <2>1, OnFinishNothing
        <3> QED BY <1>4, <1>7, <2>1, <3>1 DEF PInv, Noted
    <2>2. ASSUME NEW v \in Verdicts, finished' = Append(finished, v)
          PROVE  Noted'
        <3> DEFINE x == IF v = "success" THEN "SUCCESS" ELSE "CANNOT_WRITE"
        <3>1. notes' = Append(notes, x) /\ x \in NoteKinds
            BY <1>0, <1>3, <2>2, OnFinishOne DEF NoteKinds
        <3>2. /\ notes' \in Seq(NoteKinds) /\ notes' # <<>>
              /\ (\E i \in DOMAIN notes' : notes'[i] = "SUCCESS") <=>
                    x = "SUCCESS" \/ \E i \in DOMAIN notes : notes[i] = "SUCCESS"
            BY <1>0, <3>1, NoteAppend
        <3>3. finished' # <<>>
            BY <1>0, <2>2, AppendProperties
        <3>4. ASSUME \E i \in DOMAIN notes' : notes'[i] = "SUCCESS"
              PROVE  notes' = <<"SUCCESS">> /\ finished' = <<"success">>
            <4>1. Said("success")'
                <5>1. v = "success" \/ \E i \in DOMAIN notes : notes[i] = "SUCCESS"
                    BY <3>2, <3>4
                <5>2. v = "success" \/ Said("success")
                    <6>1. finished = <<"success">> => Said("success")
                        BY DEF Said
                    <6> QED BY <5>1, <6>1 DEF PInv, Noted
                <5> QED BY <1>0, <2>2, <5>2, SaidAppend
            <4>2. finished' = <<"success">>
                BY <1>2, <4>1 DEF WInv, VInv, Reported
            <4>3. finished = <<>> /\ v = "success"
                <5>1. /\ Len(finished) \in Nat /\ Len(finished') = Len(finished) + 1
                      /\ finished'[Len(finished) + 1] = v
                    BY <1>0, <2>2, AppendProperties, LenProperties
                <5>2. Len(finished') = 1 /\ finished'[1] = "success"
                    BY <4>2
                <5>3. Len(finished) = 0
                    <6>1. Len(finished) + 1 = 1
                        BY <5>1, <5>2
                    <6>2. Len(finished) \in Nat
                        BY <5>1
                    <6> QED BY <6>1, <6>2
                <5> QED BY <1>0, <5>1, <5>2, <5>3, EmptySeq
            <4>4. notes = <<>>
                <5>1. (received = task.sectors)'
                    BY <1>2, <4>1, SuccessMeansAll, PTL DEF WInv
                <5>2. received = task.sectors
                    BY <1>1, <5>1
                <5>3. reader.pc = "failed" => pos < task.sectors /\ received = pos /\ pos \in Nat
                    BY DEF PInv, Chained, PTypeOK
                <5>4. reader.pc # "failed"
                    BY <5>2, <5>3
                <5> QED BY <1>4, <4>3, <5>4 DEF PInv, Noted
            <4>5. Append(<<>>, "SUCCESS") = <<"SUCCESS">>
                OBVIOUS
            <4> QED BY <3>1, <4>2, <4>3, <4>4, <4>5
        <3> QED BY <3>2, <3>3, <3>4 DEF Noted
    <2> QED BY <1>1, <2>1, <2>2
<1> QED BY <1>2, <1>9, <1>10, <1>11, <1>12, <1>13 DEF PInv

(* The next task starts from the initial state.                              *)
LEMMA DestroyPInv == ASSUME PInv, Destroy PROVE PInv'
<1>1. /\ phase = "running" /\ todo' = Tail(todo) /\ todo \in Seq(Task) /\ todo # <<>>
      /\ leaked' \in BOOLEAN
    BY DEF Destroy, Drained, PInv, Started, PTypeOK
<1>2. todo' \in Seq(Task)
    BY <1>1, HeadTailProperties
<1>3. CASE todo' = <<>>
    <2>1. phase' = "done" /\ UNCHANGED <<vars, inputVars, notes>>
        BY <1>3 DEF Destroy
    <2>2. WInv'
        BY <2>1, NextWInv DEF PInv
    <2>3. UNCHANGED <<task, freeSectors, state, finished, received, inBlock, pos, paused,
                      resumeShouldRead, reader, notes>>
        BY <2>1 DEF vars, inputVars
    <2>4. PTypeOK' /\ Chained' /\ Flowing' /\ Noted'
        BY <1>1, <2>3 DEF PInv, PTypeOK, Chained, Flowing, Noted
    <2>5. Started'
        BY <1>1, <1>2, <2>1, <2>3 DEF PInv, Started, Before
    <2> QED BY <2>2, <2>4, <2>5 DEF PInv
<1>4. CASE todo' # <<>>
    <2>1. /\ Fresh /\ task' = todo'[1] /\ phase' = "Enqueue" /\ inBlock' \in InputBlocks
          /\ pos' = 0 /\ paused' = FALSE /\ resumeShouldRead' = FALSE
          /\ reader' = Reader("idle", 0, 0) /\ notes' = <<>>
        BY <1>4 DEF Destroy
    <2>2. task' \in Task
        <3>1. 1 \in 1 .. Len(todo')
            BY <1>2, <1>4, EmptySeq, LenProperties
        <3> QED BY <1>2, <2>1, <3>1, ElementOfSeq
    <2>3. Init'
        BY <2>1, <2>2 DEF Fresh, Init, EmptyMap, Idle
    <2>4. WInv'
        BY <2>3, InitWInv, PTL
    <2>5. state' = {} /\ finished' = <<>> /\ received' = 0
        BY <2>1 DEF Fresh
    <2>6. reader' \in [pc : Pcs, depth : Nat, upto : Nat] /\ reader'.pc = "idle"
        BY <2>1 DEF Reader, Pcs
    <2>7. PTypeOK'
        BY <1>1, <2>1, <2>5, <2>6 DEF PTypeOK
    <2>8. Started'
        BY <1>2, <1>4, <2>1, <2>5, <2>6 DEF Started, Before
    <2>9. Chained'
        BY <2>1, <2>6, InputBlocksAssumption DEF Chained
    <2>10. Flowing'
        BY <2>1, <2>6 DEF Flowing
    <2>11. Noted'
        BY <2>1, <2>5, <2>6 DEF Noted
    <2> QED BY <2>4, <2>7, <2>8, <2>9, <2>10, <2>11 DEF PInv
<1> QED BY <1>3, <1>4

LEMMA TaskStepPInv == ASSUME PInv, TaskStep PROVE PInv'
<1>1. CASE Begin \/ Destroy
    BY <1>1, BeginPInv, DestroyPInv
<1>2. CASE EnqueueTask \/ NoIndex \/ \E ok \in BOOLEAN : OpenInput(ok) \/ OpenOutput(ok) \/ ReadHeader(ok)
    <2>1. /\ phase \in Before /\ UNCHANGED <<vars, todo, inputVars, leaked>>
          /\ \/ phase' \in Before /\ UNCHANGED notes
             \/ phase' = "running" /\ \E n \in NoteKinds \ {"SUCCESS"} : notes' = Append(notes, n)
        BY <1>2 DEF EnqueueTask, NoIndex, OpenInput, OpenOutput, ReadHeader, Before, NoteKinds
    <2> QED BY <2>1, EarlyPInv
<1> QED BY <1>1, <1>2 DEF TaskStep

LEMMA NextPInv == PInv /\ [PNext]_pvars => PInv'
<1> SUFFICES ASSUME PInv, [PNext]_pvars PROVE PInv'
    OBVIOUS
<1>1. CASE TaskStep
    BY <1>1, TaskStepPInv
<1>2. CASE InputStep
    BY <1>2, ReadSectorPInv, ReadPInv, DeliverPInv, CallbackReturnsPInv DEF InputStep
<1>3. CASE OutputStep
    BY <1>3, OutputStepPInv
<1>4. CASE UNCHANGED pvars
    <2>1. UNCHANGED <<vars, todo, phase, inBlock, pos, paused, resumeShouldRead, reader, notes, leaked>>
        BY <1>4 DEF pvars, inputVars
    <2>2. WInv'
        BY <2>1, NextWInv DEF PInv
    <2>3. UNCHANGED <<task, freeSectors, state, finished, received>>
        BY <2>1 DEF vars
    <2>4. PTypeOK' /\ Chained' /\ Flowing' /\ Noted' /\ Started'
        BY <2>1, <2>3 DEF PInv, PTypeOK, Chained, Flowing, Noted, Started
    <2> QED BY <2>2, <2>4 DEF PInv
<1> QED BY <1>1, <1>2, <1>3, <1>4 DEF PNext


LEMMA PInvHolds == PSpec => []PInv
BY InitPInv, NextPInv, PTL DEF PSpec

-----------------------------------------------------------------------------
(* What follows from the invariant *)

(* The type invariant: in particular Input has passed on exactly the         *)
(* sectors before pos_.                                                      *)
THEOREM PipelineTypeCorrect == PSpec => []PTypeOK
<1>1. PInv => PTypeOK
    BY DEF PInv
<1> QED BY <1>1, PInvHolds, PTL

(* Output::Enqueue is never called without a free Sector, for every number   *)
(* of Sectors, every block size of input and output, and however the reads   *)
(* in flight, the pauses and the nested calls of progress_ interleave.       *)
THEOREM RoomForEnqueue == PSpec => []EnqueueHasRoom
<1>1. PInv => EnqueueHasRoom
    BY DEF PInv, Flowing, EnqueueHasRoom
<1> QED BY <1>1, PInvHolds, PTL

(* A task that reports success reports nothing else, before or after.        *)
THEOREM SuccessIsAlone == PSpec => []SuccessStandsAlone
<1>1. PInv => SuccessStandsAlone
    BY DEF PInv, Noted, SuccessStandsAlone
<1> QED BY <1>1, PInvHolds, PTL

(* Unless a block could not be stored in the format, ~Output finds every     *)
(* Sector in one of its containers.                                          *)
THEOREM SectorsReturn == PSpec => []SectorsComeBack
<1>1. ASSUME PInv, Drained, ~Said("format") PROVE Abandoned = {}
    <2>1. NoSectorSharedOrLost
        BY <1>1 DEF PInv, WInv, VInv, IInv
    <2>2. Filling = Values(partialSectors) /\ Called = {} /\ Writing = {}
        BY <1>1 DEF Drained, LoopIdle, AtLoop, Filling, Called, Writing
    <2> QED BY <1>1, <2>1, <2>2 DEF NoSectorSharedOrLost, Pending, Abandoned
<1>2. PInv => SectorsComeBack
    BY <1>1 DEF SectorsComeBack
<1> QED BY <1>2, PInvHolds, PTL

(* Somebody is left to go on: nothing in flight and nothing reported means   *)
(* that Sectors are free and the source is not at its end.                   *)
LEMMA NobodyWaits ==
    ASSUME WInv, finished = <<>>, AtLoop, work = {}, after = {}, writes = {}, flushes = 0
    PROVE  freeSectors # {} /\ received # task.sectors
<1>0. VInv /\ IInv
    BY DEF WInv, VInv
<1>1. /\ srcPos \in Nat /\ Done \in Nat /\ srcPos <= Done /\ BlockCount \in Nat
    BY <1>0, WithinSource DEF IInv, Ahead
<1>2. Used = Values(partialSectors) \cup Pending
    <2>1. ~Said("format")
        BY DEF Said
    <2>2. Filling = Values(partialSectors) /\ Called = {} /\ Writing = {}
        BY DEF AtLoop, Filling, Called, Writing
    <2> QED BY <1>0, <2>1, <2>2 DEF IInv, NoSectorSharedOrLost, Used
<1>3. \A s \in Values(partialSectors) :
        s \in Used /\ received < task.sectors /\ sector[s].pos = Done
    <2> SUFFICES ASSUME NEW s \in Values(partialSectors)
                 PROVE  s \in Used /\ received < task.sectors /\ sector[s].pos = Done
        OBVIOUS
    <2>1. s \in Used /\ s \in Collecting
        BY <1>2 DEF Collecting
    <2>2. received < task.sectors /\ sector[s].pos = Block(received)
        BY <1>0, <2>1 DEF IInv, Reception, Holds
    <2>3. received \in Nat /\ task.sectors \in Nat
        BY <1>0, TaskFacts DEF IInv, TypeOK
    <2> QED BY <2>1, <2>2, <2>3 DEF Done
<1>4. srcPos = Done
    <2> SUFFICES ASSUME srcPos # Done PROVE FALSE
        OBVIOUS
    <2>1. srcPos \in srcPos .. Done - 1
        BY <1>1
    <2>2. PICK s \in Used : sector[s].pos = srcPos
        BY <2>1 DEF WInv, Covered
    <2>3. s \in Pending
        BY <1>2, <1>3, <2>2
    <2>4. srcPos \in DOMAIN pendingSectors
        BY <1>0, <2>2, <2>3 DEF Pending, Values, IInv, Keys
    <2> QED BY <2>4 DEF WInv, Awaited, AtLoop
<1>5. received # task.sectors
    <2> SUFFICES ASSUME received = task.sectors PROVE FALSE
        OBVIOUS
    <2>1. srcPos = BlockCount
        BY <1>4 DEF Done
    <2>2. progress = <<>> /\ 1 .. Len(progress) = {}
        BY DEF AtLoop
    <2>3. {"INDEX_WRITTEN", "DATA_WRITTEN"} \subseteq state
        BY <2>1, <2>2 DEF WInv, Ending
    <2> QED BY <2>3 DEF WInv, Ending
<1>6. \A s \in Used : sector[s].pos = Done
    <2> SUFFICES ASSUME NEW s \in Pending PROVE sector[s].pos = Done
        BY <1>2, <1>3
    <2>1. s \in Used /\ s \notin Filling
        BY <1>0, <1>2 DEF IInv, NoSectorSharedOrLost
    <2>2. sector[s].pos < Done /\ srcPos <= sector[s].pos /\ sector[s].pos \in Nat
        BY <1>0, <2>1, WithinSource DEF IInv, Reception, Holds, Collecting, Filling, Ahead
    <2> QED BY <1>1, <1>4, <2>2
<1>7. freeSectors # {}
    <2> SUFFICES ASSUME freeSectors = {} PROVE FALSE
        OBVIOUS
    <2>1. \A s, t \in Sector : s = t
        BY <1>0, <1>6 DEF Used, IInv, Distinct
    <2>2. Cardinality(Sector) >= 2 /\ IsFiniteSet(Sector)
        BY SectorAssumption
    <2>3. Sector # {}
        BY <2>2, FS_EmptySet
    <2>4. PICK s \in Sector : Sector = {s}
        BY <2>1, <2>3
    <2>5. Cardinality(Sector) = 1
        BY <2>4, FS_Singleton
    <2> QED BY <2>2, <2>5
<1> QED BY <1>5, <1>7

(* When nothing is left to run, something has been reported: no order of     *)
(* completions, pauses and nested calls leaves the input paused with nobody  *)
(* to resume it, or a block pending with nobody to write it.                 *)
THEOREM NoSilentEnd == PSpec => []DrainedMeansReported
<1>1. ASSUME PInv, Drained, notes = <<>> PROVE FALSE
    <2>1. finished = <<>> /\ reader.pc \notin {"idle", "failed"}
        <3>1. phase \notin Before
            BY <1>1 DEF Drained, Before
        <3> QED BY <1>1, <3>1 DEF PInv, Noted, Started
    <2>2. reader.pc \in {"parked", "end"}
        BY <1>1, <2>1 DEF Drained
    <2>3. freeSectors # {} /\ received # task.sectors
        BY <1>1, <2>1, NobodyWaits DEF PInv, Drained, LoopIdle
    <2>4. reader.pc # "parked"
        BY <2>1, <2>3, <1>1 DEF PInv, Flowing
    <2>5. pos >= task.sectors /\ received = pos /\ pos \in Nat
        BY <1>1, <2>2, <2>4 DEF PInv, Chained, PTypeOK
    <2>6. received <= task.sectors /\ task.sectors \in Nat
        BY <1>1, TaskFacts DEF PInv, WInv, VInv, IInv, Reception, TypeOK
    <2> QED BY <2>3, <2>5, <2>6
<1>2. PInv => DrainedMeansReported
    BY <1>1 DEF DrainedMeansReported
<1> QED BY <1>2, PInvHolds, PTL

(* The pipeline's steps are steps of Output or the start of the next task.   *)
THEOREM OutputIsDriven == PSpec => StepsAreOutputs
<1>1. ASSUME PInv, [PNext]_pvars PROVE [Next \/ phase' = "Enqueue"]_vars
    <2>1. CASE TaskStep
        <3>1. CASE Begin
            BY <3>1 DEF Begin, Next
        <3>2. CASE Destroy
            <4>1. CASE todo' = <<>>
                BY <3>2, <4>1 DEF Destroy
            <4>2. CASE todo' # <<>>
                BY <3>2, <4>2 DEF Destroy
            <4> QED BY <4>1, <4>2
        <3>3. CASE EnqueueTask \/ NoIndex \/ \E ok \in BOOLEAN : OpenInput(ok) \/ OpenOutput(ok) \/ ReadHeader(ok)
            BY <3>3 DEF EnqueueTask, NoIndex, OpenInput, OpenOutput, ReadHeader
        <3> QED BY <2>1, <3>1, <3>2, <3>3 DEF TaskStep
    <2>2. CASE InputStep
        <3>1. CASE Deliver
            BY <1>1, <3>1, DeliverReceives DEF Next
        <3>2. CASE ~Deliver
            BY <2>2, <3>2 DEF InputStep, ReadSectorStops, ReadSectorGoes, ReadDone, Decompress,
                              Decompressed, CallbackReturns
        <3> QED BY <3>1, <3>2
    <2>3. CASE OutputStep
        BY <2>3 DEF OutputStep, Next
    <2>4. CASE UNCHANGED pvars
        BY <2>4 DEF pvars
    <2> QED BY <1>1, <2>1, <2>2, <2>3, <2>4 DEF PNext
<1> QED BY <1>1, PInvHolds, PTL DEF PSpec, StepsAreOutputs
=============================================================================
