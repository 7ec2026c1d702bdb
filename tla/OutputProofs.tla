---------------------------- MODULE OutputProofs ----------------------------
(***************************************************************************)
(* Output for any number of Sectors, any source size, block size, format   *)
(* and any interleaving of workers, writes and re-entrant calls.           *)
(***************************************************************************)
EXTENDS Output, FiniteSetTheorems, SequenceTheorems, TLAPS

-----------------------------------------------------------------------------
(* The inductive invariant.  What makes the placement of Sectors inductive   *)
(* is that no two of them ever work on the same block, and that follows from *)
(* what has been received: the blocks below Done are complete, and the only  *)
(* other one, if any, is the one block still being collected.                *)

Used == Sector \ freeSectors
Collecting == Values(partialSectors) \ (work \cup after)

(* The blocks received completely *)
Done == IF received = task.sectors THEN BlockCount ELSE Block(received)

(* A key of either map is the position of the Sector it leads to.            *)
Keys ==
    /\ \A b \in DOMAIN partialSectors : sector[partialSectors[b]].pos = b
    /\ \A b \in DOMAIN pendingSectors : sector[pendingSectors[b]].pos = b
    /\ task.perBlock = 1 => partialSectors = EmptyMap
    /\ task.perBlock # 1 => \A s \in work \cup after : s \in Values(partialSectors)

FreeIdle == \A s \in freeSectors : sector[s] = Idle

Distinct == \A s, t \in Used : sector[s].pos = sector[t].pos => s = t

(* A Sector in use holds its whole block, or what has been received of it.   *)
Holds(s) ==
    IF s \in Collecting
    THEN /\ received < task.sectors /\ sector[s].pos = Block(received)
         /\ sector[s].readySize = received - sector[s].pos * task.perBlock
         /\ sector[s].readySize > 0 /\ ~sector[s].enqueued
         /\ sector[s].held = sector[s].pos * task.perBlock .. received - 1
    ELSE sector[s].pos < Done /\ sector[s].held = SectorsOf(sector[s].pos)

Reception ==
    /\ received <= task.sectors
    /\ \A s \in Used : Holds(s)
    /\ received < task.sectors /\ received # Block(received) * task.perBlock =>
          Block(received) \in DOMAIN partialSectors

(* Nothing in use is behind the file, and a write in flight is right ahead.  *)
Ahead ==
    /\ srcPos <= Done
    /\ \A s \in Used : srcPos <= sector[s].pos
    /\ \A v, w \in writes : v = w
    /\ \A w \in writes :
          /\ Len(w.batch) > 0 /\ w.nextPos = srcPos + Len(w.batch)
          /\ \A k \in 1 .. Len(w.batch) : sector[w.batch[k]].pos = srcPos + k - 1

Filed ==
    /\ ~task.measure => DOMAIN file.data = 0 .. srcPos - 1
    /\ task.measure => DOMAIN file.data = {} /\ writes = {}
    /\ \A b \in DOMAIN file.data : file.data[b].held = SectorsOf(b)

IInv == /\ TypeOK /\ NoSectorSharedOrLost /\ Keys /\ FreeIdle /\ Distinct
        /\ Reception /\ Ahead /\ Filed

-----------------------------------------------------------------------------
(* Arithmetic of blocks *)

(* Division with remainder, as two bounds ...                                *)
LEMMA DivBounds ==
    ASSUME NEW p \in Nat, NEW k \in Nat \ {0}
    PROVE  /\ p \div k \in Nat
           /\ (p \div k) * k <= p
           /\ p < (p \div k) * k + k
OBVIOUS

(* ... which determine the quotient.                                         *)
LEMMA DivUnique ==
    ASSUME NEW p \in Nat, NEW k \in Nat \ {0}, NEW c \in Nat, c * k <= p, p < c * k + k
    PROVE  p \div k = c
OBVIOUS

(* The types of what the definitions take from the task.                     *)
LEMMA TaskFacts ==
    ASSUME task \in Task
    PROVE  /\ task.sectors \in Nat \ {0} /\ task.perBlock \in Nat \ {0}
           /\ task.fmt \in Formats /\ task.methods \subseteq Methods
           /\ task.decompress \in BOOLEAN /\ task.measure \in BOOLEAN
BY TaskAssumption DEF TaskType

(* A sector lies in its block.                                               *)
LEMMA BlockFacts ==
    ASSUME task \in Task, NEW p \in Nat
    PROVE  /\ Block(p) \in Nat
           /\ Block(p) * task.perBlock \in Nat
           /\ Block(p) * task.perBlock <= p
           /\ p < Block(p) * task.perBlock + task.perBlock
<1>1. task.perBlock \in Nat \ {0}
    BY TaskFacts
<1>2. /\ Block(p) \in Nat
      /\ Block(p) * task.perBlock <= p
      /\ p < Block(p) * task.perBlock + task.perBlock
    BY <1>1, DivBounds DEF Block
<1>3. Block(p) * task.perBlock \in Nat
    BY <1>1, <1>2
<1> QED BY <1>2, <1>3

(* The block after the block of the last sector is none of the source's.     *)
LEMMA BlockCountFacts ==
    ASSUME task \in Task
    PROVE  BlockCount = Block(task.sectors - 1) + 1 /\ BlockCount \in Nat
<1> DEFINE k == task.perBlock
           n == task.sectors
           q == Block(n - 1)
<1>1. k \in Nat \ {0} /\ n \in Nat \ {0} /\ n - 1 \in Nat /\ n + k - 1 \in Nat
    BY TaskFacts
<1>2. q \in Nat /\ q * k \in Nat /\ q * k <= n - 1 /\ n - 1 < q * k + k
    BY <1>1, BlockFacts
<1>3. (q + 1) * k = q * k + k /\ q + 1 \in Nat
    <2> HIDE DEF k, q
    <2> QED BY <1>1, <1>2
<1>4. (q + 1) * k <= n + k - 1 /\ n + k - 1 < (q + 1) * k + k
    <2> HIDE DEF k, n, q
    <2> QED BY <1>1, <1>2, <1>3
<1>5. (n + k - 1) \div k = q + 1
    <2> HIDE DEF k, n, q
    <2> QED BY <1>1, <1>3, <1>4, DivUnique
<1> QED BY <1>3, <1>5 DEF BlockCount

(* What one more sector makes of the block being received.                   *)
LEMMA NextBlock ==
    ASSUME task \in Task, NEW p \in Nat, p < task.sectors,
           NEW lo \in Nat, lo = Block(p) * task.perBlock
    PROVE  /\ (Block(p) + 1) * task.perBlock = lo + task.perBlock
           /\ p + 1 = lo + task.perBlock => Block(p + 1) = Block(p) + 1
           /\ p + 1 < lo + task.perBlock => Block(p + 1) = Block(p)
           /\ p + 1 = task.sectors => BlockCount = Block(p) + 1
<1>1. task.perBlock \in Nat \ {0} /\ task.sectors \in Nat
    BY TaskFacts
<1>2. Block(p) \in Nat /\ lo <= p /\ p < lo + task.perBlock
    BY BlockFacts
<1>3. (Block(p) + 1) * task.perBlock = lo + task.perBlock
    BY <1>1, <1>2
<1>4. ASSUME p + 1 = lo + task.perBlock PROVE Block(p + 1) = Block(p) + 1
    BY <1>1, <1>2, <1>3, <1>4, DivUnique DEF Block
<1>5. ASSUME p + 1 < lo + task.perBlock PROVE Block(p + 1) = Block(p)
    <2>1. /\ p + 1 \in Nat /\ Block(p) * task.perBlock <= p + 1
          /\ p + 1 < Block(p) * task.perBlock + task.perBlock
        BY <1>1, <1>2, <1>5
    <2>2. (p + 1) \div task.perBlock = Block(p)
        BY <1>1, <1>2, <2>1, DivUnique
    <2> QED BY <2>2 DEF Block
<1>6. ASSUME p + 1 = task.sectors PROVE BlockCount = Block(p) + 1
    BY <1>1, <1>6, BlockCountFacts
<1> QED BY <1>3, <1>4, <1>5, <1>6

-----------------------------------------------------------------------------
(* finish_ *)

(* CheckFinish reports success or nothing.                                   *)
LEMMA CheckFinishIs ==
    ASSUME NEW bits
    PROVE  CheckFinish(bits) = finished \/ CheckFinish(bits) = Append(finished, "success")
BY DEF CheckFinish

(* What has been reported stays reported.                                    *)
LEMMA SaidGrows ==
    ASSUME finished \in Seq(Verdicts), NEW v \in Verdicts,
           finished' = finished \/ finished' = Append(finished, v)
    PROVE  /\ finished' \in Seq(Verdicts)
           /\ \A x : Said(x) => Said(x)'
<1>1. CASE finished' = finished
    BY <1>1 DEF Said
<1>2. CASE finished' = Append(finished, v)
    BY <1>2, AppendProperties DEF Said
<1> QED BY <1>1, <1>2

-----------------------------------------------------------------------------
(* The steps *)

(* The Output as constructed.                                                *)
LEMMA InitIInv == Init => IInv
<1> SUFFICES ASSUME Init PROVE IInv
    OBVIOUS
<1>1. /\ freeSectors = Sector /\ Values(partialSectors) = {} /\ Values(pendingSectors) = {}
      /\ DOMAIN partialSectors = {} /\ DOMAIN pendingSectors = {} /\ partialSectors = EmptyMap
    BY DEF Init, EmptyMap, Values
<1>2. task \in Task /\ sector = [s \in Sector |-> Idle] /\ srcPos = 0 /\ received = 0
    BY DEF Init
<1>3. TypeOK
    BY <1>1 DEF Init, TypeOK, IsMap, Idle, SectorRecord, Methods
<1>4. NoSectorSharedOrLost
    BY <1>1 DEF Init, NoSectorSharedOrLost, Filling, Called, Pending, Writing, InBatch
<1>5. Keys /\ FreeIdle /\ Distinct
    BY <1>1 DEF Init, Keys, FreeIdle, Distinct, Used
<1>6. Block(0) = 0
    BY <1>2, TaskFacts, DivUnique DEF Block
<1>7. Reception
    BY <1>1, <1>2, <1>6, TaskFacts DEF Reception, Used
<1>8. Ahead
    BY <1>1, <1>2, <1>6, TaskFacts DEF Init, Ahead, Used, Done
<1>9. Filed
    BY DEF Init, Filed, EmptyMap
<1> QED BY <1>3, <1>4, <1>5, <1>7, <1>8, <1>9 DEF IInv

(* What the parts other than TypeOK and NoSectorSharedOrLost depend on.      *)
LEMMA Frame ==
    ASSUME IInv,
           UNCHANGED <<task, freeSectors, sector, partialSectors, work, after, received>>
    PROVE  /\ pendingSectors' = pendingSectors => Keys'
           /\ FreeIdle' /\ Distinct' /\ Reception'
           /\ UNCHANGED <<srcPos, writes>> => Ahead'
           /\ UNCHANGED <<srcPos, writes, file>> => Filed'
<1> USE DEF IInv
<1>1. Used' = Used /\ Collecting' = Collecting /\ Done' = Done /\ BlockCount' = BlockCount
    BY DEF Used, Collecting, Done, BlockCount, Block
<1>2. pendingSectors' = pendingSectors => Keys'
    BY DEF Keys, Values
<1>3. FreeIdle' /\ Distinct'
    BY <1>1 DEF FreeIdle, Distinct
<1>4. \A s : Holds(s)' = Holds(s)
    BY <1>1 DEF Holds, Block, SectorsOf
<1>5. Reception'
    BY <1>1, <1>4 DEF Reception, Block
<1>6. UNCHANGED <<srcPos, writes>> => Ahead'
    BY <1>1 DEF Ahead
<1>7. UNCHANGED <<srcPos, writes, file>> => Filed'
    BY DEF Filed, SectorsOf
<1> QED BY <1>2, <1>3, <1>5, <1>6, <1>7

(* Where the Sectors are depends on the containers only.                     *)
LEMMA Places ==
    /\ UNCHANGED <<partialSectors, work, after>> => Filling' = Filling
    /\ UNCHANGED ready => Called' = Called
    /\ UNCHANGED pendingSectors => Pending' = Pending
    /\ UNCHANGED writes => Writing' = Writing
BY DEF Filling, Called, Pending, Writing, Values

(* A step that only reports something.                                       *)
LEMMA SetFileIInv == ASSUME IInv, SetFile PROVE IInv'
<1> USE DEF IInv
<1>1. finished' = finished \/ finished' = Append(finished, "dax")
    BY DEF SetFile
<1>2. finished' \in Seq(Verdicts) /\ \A x : Said(x) => Said(x)'
    BY <1>1, SaidGrows DEF TypeOK, Verdicts
<1>3. TypeOK'
    BY <1>2 DEF SetFile, TypeOK, IsMap, Values
<1>4. NoSectorSharedOrLost'
    BY <1>2, Places DEF SetFile, NoSectorSharedOrLost
<1> QED BY <1>3, <1>4, Frame DEF SetFile

LEMMA WriteIndexDoneIInv == ASSUME IInv, NEW ok \in BOOLEAN, WriteIndexDone(ok) PROVE IInv'
<1> USE DEF IInv
<1>1. \E v \in Verdicts : finished' = finished \/ finished' = Append(finished, v)
    BY CheckFinishIs DEF WriteIndexDone, Verdicts
<1>2. finished' \in Seq(Verdicts) /\ \A x : Said(x) => Said(x)'
    BY <1>1, SaidGrows DEF TypeOK
<1>3. TypeOK'
    BY <1>2 DEF WriteIndexDone, TypeOK, IsMap, Values
<1>4. NoSectorSharedOrLost'
    BY <1>2, Places DEF WriteIndexDone, NoSectorSharedOrLost
<1>5. file'.data = file.data
    BY DEF WriteIndexDone, TypeOK
<1>6. Filed'
    BY <1>5 DEF WriteIndexDone, Filed, SectorsOf
<1> QED BY <1>3, <1>4, <1>6, Frame DEF WriteIndexDone

LEMMA AfterProgressIInv == ASSUME IInv, AfterProgress PROVE IInv'
<1> USE DEF IInv
<1>1. finished' = finished \/ finished' = Append(finished, "success")
    BY CheckFinishIs DEF AfterProgress
<1>2. finished' \in Seq(Verdicts) /\ \A x : Said(x) => Said(x)'
    BY <1>1, SaidGrows DEF TypeOK, Verdicts
<1>3. Tail(progress) \in Seq(Nat)
    BY HeadTailProperties DEF AfterProgress, TypeOK
<1>4. TypeOK'
    BY <1>2, <1>3 DEF AfterProgress, TypeOK, IsMap, Values
<1>5. Called' = {} /\ Called = {}
    BY DEF AfterProgress, Called
<1>6. NoSectorSharedOrLost'
    BY <1>2, <1>5, Places DEF AfterProgress, NoSectorSharedOrLost
<1> QED BY <1>4, <1>6, Frame DEF AfterProgress

(* A worker changes nothing but the size and format of its Sector.           *)
LEMMA CompressKeeps ==
    ASSUME TypeOK, NEW s \in Sector, Compress(s)
    PROVE  /\ sector' \in [Sector -> SectorRecord]
           /\ \A t \in Sector \ {s} : sector'[t] = sector[t]
           /\ \A t \in Sector :
                 /\ sector'[t].pos = sector[t].pos /\ sector'[t].held = sector[t].held
                 /\ sector'[t].readySize = sector[t].readySize
                 /\ sector'[t].enqueued = sector[t].enqueued
<1>1. sector[s] \in SectorRecord /\ BlockSize \in Int
    BY TaskFacts, SizesAssumption DEF TypeOK, BlockSize
<1>2. PICK r : /\ sector' = [sector EXCEPT ![s] = FinalizeBest(r)]
               /\ \/ r = sector[s]
                  \/ \E n \in TrialSizes, m \in task.methods :
                        r = [sector[s] EXCEPT !.size = n, !.fmt = m]
    BY DEF Compress, TypeOK
<1>3. /\ r \in SectorRecord
      /\ r.pos = sector[s].pos /\ r.held = sector[s].held
      /\ r.readySize = sector[s].readySize /\ r.enqueued = sector[s].enqueued
    <2>1. CASE r = sector[s]
        BY <1>1, <2>1
    <2>2. CASE \E n \in TrialSizes, m \in task.methods :
                  r = [sector[s] EXCEPT !.size = n, !.fmt = m]
        <3>1. PICK n \in TrialSizes, m \in task.methods :
                  r = [sector[s] EXCEPT !.size = n, !.fmt = m]
            BY <2>2
        <3>2. n \in Int /\ m \in {"ORIG"} \cup Methods
            BY TaskFacts, SizesAssumption DEF TypeOK
        <3> QED BY <1>1, <3>1, <3>2 DEF SectorRecord
    <2> QED BY <1>2, <2>1, <2>2
<1> DEFINE f == FinalizeBest(r)
<1>4. /\ f \in SectorRecord
      /\ f.pos = sector[s].pos /\ f.held = sector[s].held
      /\ f.readySize = sector[s].readySize /\ f.enqueued = sector[s].enqueued
    BY <1>1, <1>3 DEF FinalizeBest, SectorRecord
<1> HIDE DEF f
<1> QED BY <1>2, <1>4 DEF TypeOK, f

LEMMA CompressIInv == ASSUME IInv, NEW s \in Sector, Compress(s) PROVE IInv'
<1> USE DEF IInv
<1>5. /\ sector' \in [Sector -> SectorRecord]
      /\ \A t \in Sector \ {s} : sector'[t] = sector[t]
      /\ \A t \in Sector :
            /\ sector'[t].pos = sector[t].pos /\ sector'[t].held = sector[t].held
            /\ sector'[t].readySize = sector[t].readySize
            /\ sector'[t].enqueued = sector[t].enqueued
    BY CompressKeeps
<1>u. UNCHANGED <<task, freeSectors, partialSectors, pendingSectors, writes, flushes,
                  srcPos, state, finished, file, ready, progress, received>>
    BY DEF Compress
<1>6. s \in work /\ work' = work \ {s} /\ after' = after \cup {s} /\ s \notin freeSectors
    BY DEF Compress, NoSectorSharedOrLost, Filling
<1>7. TypeOK'
    BY <1>u, <1>5, <1>6 DEF TypeOK, IsMap, Values
<1>8. Filling' = Filling /\ Collecting' = Collecting /\ Used' = Used /\ Done' = Done
    BY <1>u, <1>6 DEF Filling, Collecting, Used, Done, BlockCount, Block, Values
<1>9. NoSectorSharedOrLost'
    BY <1>u, <1>6, <1>8, Places DEF NoSectorSharedOrLost, Said
<1>10. /\ \A b \in DOMAIN partialSectors : partialSectors[b] \in Sector
       /\ \A b \in DOMAIN pendingSectors : pendingSectors[b] \in Sector
    BY DEF TypeOK, IsMap, Values
<1>11. Keys'
    BY <1>u, <1>5, <1>6, <1>10 DEF Keys, Values
<1>12. FreeIdle'
    BY <1>u, <1>5, <1>6 DEF FreeIdle, TypeOK
<1>13. Distinct'
    BY <1>u, <1>5, <1>8 DEF Distinct, Used
<1>14. \A t \in Used : Holds(t)'
    BY <1>u, <1>5, <1>8 DEF Reception, Holds, Block, SectorsOf, Used
<1>15. Reception'
    BY <1>u, <1>8, <1>14 DEF Reception, Block
<1>16. Ahead'
    <2>1. \A w \in writes : \A k \in 1 .. Len(w.batch) : w.batch[k] \in Sector
        BY DEF TypeOK
    <2> QED BY <1>u, <1>5, <1>8, <2>1 DEF Ahead, Used
<1>17. Filed'
    BY <1>u DEF Filed, SectorsOf
<1> QED BY <1>7, <1>9, <1>11, <1>12, <1>13, <1>15, <1>16, <1>17

(* The after-work callback moves a Sector from partialSectors_ to            *)
(* HandleReadySector.                                                        *)
LEMMA AfterWorkIInv == ASSUME IInv, NEW s \in Sector, AfterWork(s) PROVE IInv'
<1> USE DEF IInv
<1>1. s \in after /\ s \notin work /\ s \notin freeSectors /\ s # nullptr
    BY SectorAssumption DEF AfterWork, NoSectorSharedOrLost, Filling
<1>2. \A b \in DOMAIN partialSectors : partialSectors[b] \in Sector /\ sector[partialSectors[b]].pos = b
    BY DEF TypeOK, IsMap, Values, Keys
<1>3. /\ Values(partialSectors') = Values(partialSectors) \ {s}
      /\ DOMAIN partialSectors' \subseteq DOMAIN partialSectors
      /\ \A b \in DOMAIN partialSectors' : partialSectors'[b] = partialSectors[b]
      /\ \A b \in DOMAIN partialSectors : partialSectors[b] # s => b \in DOMAIN partialSectors'
    <2>1. CASE task.perBlock = 1
        BY <2>1 DEF AfterWork, Keys, EmptyMap, Values
    <2>2. CASE task.perBlock # 1
        <3>1. PICK c \in DOMAIN partialSectors : partialSectors[c] = s
            BY <1>1, <2>2 DEF Keys, Values
        <3>2. sector[s].pos = c
            BY <1>2, <3>1
        <3>3. partialSectors' = Erase(partialSectors, {c})
            BY <2>2, <3>2 DEF AfterWork
        <3> QED BY <1>2, <3>1, <3>2, <3>3 DEF Erase, Values
    <2> QED BY <2>1, <2>2
<1>4. Filling' = Filling \ {s} /\ Called' = {s} /\ Called = {}
    BY <1>1, <1>3 DEF AfterWork, AtLoop, Filling, Called
<1>5. Collecting' = Collecting /\ Used' = Used /\ Done' = Done
    BY <1>1, <1>3 DEF AfterWork, Collecting, Used, Done, BlockCount, Block
<1>6. TypeOK'
    BY <1>3 DEF AfterWork, TypeOK, IsMap, Values
<1>7. NoSectorSharedOrLost'
    <2>1. s \in Filling /\ after' = after \ {s} /\ UNCHANGED <<freeSectors, work, finished>>
        BY <1>1 DEF AfterWork, Filling
    <2>2. Pending' = Pending /\ Writing' = Writing
        BY Places DEF AfterWork
    <2> QED BY <1>4, <2>1, <2>2 DEF NoSectorSharedOrLost, Said
<1>8. Keys'
    BY <1>1, <1>3 DEF AfterWork, Keys, EmptyMap, NoSectorSharedOrLost
<1>9. FreeIdle' /\ Distinct'
    BY <1>5 DEF AfterWork, FreeIdle, Distinct
<1>10. \A t \in Used : Holds(t)'
    BY <1>5 DEF AfterWork, Reception, Holds, Block, SectorsOf
<1>11. Reception'
    <2>1. ASSUME received < task.sectors, received # Block(received) * task.perBlock
          PROVE  Block(received) \in DOMAIN partialSectors'
        <3>1. Block(received) \in DOMAIN partialSectors
            BY <2>1 DEF Reception
        <3>2. CASE partialSectors[Block(received)] # s
            BY <1>3, <3>1, <3>2
        <3>3. CASE partialSectors[Block(received)] = s
            <4>1. s \in Used /\ s \notin Collecting /\ sector[s].pos = Block(received)
                BY <1>1, <1>2, <3>1, <3>3 DEF Used, Collecting
            <4>2. sector[s].pos < Done /\ Done = Block(received)
                BY <2>1, <4>1, TaskFacts DEF Reception, Holds, Done, TypeOK
            <4> QED BY <4>1, <4>2, BlockFacts DEF TypeOK
        <3> QED BY <3>2, <3>3
    <2> QED BY <1>5, <1>10, <2>1 DEF AfterWork, Reception, Block
<1>12. Ahead'
    BY <1>5 DEF AfterWork, Ahead
<1>13. Filed'
    BY DEF AfterWork, Filed, SectorsOf
<1> QED BY <1>6, <1>7, <1>8, <1>9, <1>11, <1>12, <1>13

(* A Sector that has to wait moves to pendingSectors_, where its block has   *)
(* no Sector yet.                                                            *)
LEMMA HandleReadyWaitIInv == ASSUME IInv, HandleReadyWait PROVE IInv'
<1> USE DEF IInv
<1>u. /\ ready' = {}
      /\ UNCHANGED <<task, freeSectors, sector, partialSectors, work, after, writes, flushes,
                     srcPos, state, finished, file, progress, received>>
    BY DEF HandleReadyWait
<1>1. ASSUME NEW s \in ready \ {nullptr}, pendingSectors' = Insert(pendingSectors, sector[s].pos, s)
      PROVE  IInv'
    <2>1. s \in Called /\ s \in Used /\ Called = {s} /\ s \in Sector
        BY <1>1 DEF Called, Used, NoSectorSharedOrLost, TypeOK
    <2>2. sector[s].pos \notin DOMAIN pendingSectors
        <3> SUFFICES ASSUME sector[s].pos \in DOMAIN pendingSectors PROVE FALSE
            OBVIOUS
        <3> DEFINE t == pendingSectors[sector[s].pos]
        <3>1. t \in Pending /\ sector[t].pos = sector[s].pos /\ t \in Sector
            BY DEF Pending, Values, Keys, TypeOK, IsMap
        <3>2. t \in Used /\ t # s
            BY <2>1, <3>1 DEF NoSectorSharedOrLost, Used
        <3> QED BY <2>1, <3>1, <3>2 DEF Distinct
    <2>3. /\ DOMAIN pendingSectors' = DOMAIN pendingSectors \cup {sector[s].pos}
          /\ pendingSectors'[sector[s].pos] = s
          /\ \A x \in DOMAIN pendingSectors : pendingSectors'[x] = pendingSectors[x]
          /\ Values(pendingSectors') = Values(pendingSectors) \cup {s}
        BY <1>1, <2>2 DEF Insert, Values
    <2>4. Called' = {} /\ Pending' = Pending \cup {s} /\ Filling' = Filling /\ Writing' = Writing
        BY <1>u, <2>3, Places DEF Called, Pending
    <2>5. sector[s].pos \in Nat
        BY <2>1 DEF TypeOK, SectorRecord
    <2>6. TypeOK'
        BY <1>u, <2>1, <2>3, <2>5 DEF TypeOK, IsMap, Values
    <2>7. NoSectorSharedOrLost'
        BY <1>u, <2>1, <2>4 DEF NoSectorSharedOrLost, Said
    <2>8. Keys'
        BY <1>u, <2>3 DEF Keys, Values
    <2> QED BY <1>u, <2>6, <2>7, <2>8, Frame
<1>2. ASSUME nullptr \in ready, UNCHANGED pendingSectors PROVE IInv'
    <2>1. Called = {} /\ Called' = {}
        BY <1>u, <1>2 DEF Called, TypeOK
    <2>2. TypeOK'
        BY <1>u, <1>2 DEF TypeOK, IsMap, Values
    <2>3. NoSectorSharedOrLost'
        BY <1>u, <1>2, <2>1, Places DEF NoSectorSharedOrLost, Said
    <2> QED BY <1>u, <1>2, <2>2, <2>3, Frame
<1> QED BY <1>1, <1>2 DEF HandleReadyWait

(* A batch is made of the Sector called and of pending ones, of the blocks   *)
(* from srcPos_ on.                                                          *)
LEMMA BatchFacts ==
    ASSUME IInv, NEW s \in Sector, NEW n \in 1 .. MAX_BUFS, NextSector(s), BatchSize(n)
    PROVE  /\ Batch(s, n) \in Seq(Sector) /\ Len(Batch(s, n)) = n
           /\ \A k \in 1 .. n : /\ Batch(s, n)[k] \in (Called \cup Pending) \cap Used
                                /\ sector[Batch(s, n)[k]].pos = srcPos + k - 1
           /\ \A b \in DOMAIN pendingSectors :
                 IF b \in srcPos .. srcPos + n - 1
                 THEN \E k \in 1 .. n : pendingSectors[b] = Batch(s, n)[k]
                 ELSE \A k \in 1 .. n : pendingSectors[b] # Batch(s, n)[k]
           /\ Called \subseteq {Batch(s, n)[k] : k \in 1 .. n}
           /\ writes = {}
<1> USE DEF IInv
<1> DEFINE B == Batch(s, n)
<1>0. n \in Nat /\ n >= 1 /\ srcPos \in Nat
    BY MaxBufsAssumption DEF TypeOK
<1>1. s \in Called \cup Pending /\ sector[s].pos = srcPos
    BY SectorAssumption DEF NextSector, Called, Pending, Values, Keys, FirstPending
<1>2. \A k \in 2 .. n : /\ srcPos + k - 1 \in DOMAIN pendingSectors
                        /\ B[k] = pendingSectors[srcPos + k - 1]
    <2> TAKE k \in 2 .. n
    <2>1. k - 1 \in 1 .. n - 1 /\ srcPos + (k - 1) = srcPos + k - 1 /\ k # 1 /\ k \in 1 .. n
        BY <1>0
    <2> QED BY <2>1 DEF BatchSize, Batch
<1>3. B[1] = s
    BY <1>0 DEF Batch
<1>4. \A k \in 1 .. n : B[k] \in Called \cup Pending /\ sector[B[k]].pos = srcPos + k - 1
    <2> TAKE k \in 1 .. n
    <2>1. CASE k = 1
        BY <1>0, <1>1, <1>3, <2>1
    <2>2. CASE k # 1
        BY <1>0, <1>2, <2>2 DEF Pending, Values, Keys
    <2> QED BY <2>1, <2>2
<1>5. Called \cup Pending \subseteq Used
    BY DEF NoSectorSharedOrLost, Used, Called, Pending, TypeOK, IsMap
<1>6. B \in Seq(Sector) /\ Len(B) = n
    <2>1. \A k \in 1 .. n : B[k] \in Sector
        BY <1>4, <1>5 DEF Used
    <2>2. B = [k \in 1 .. n |-> B[k]]
        BY DEF Batch
    <2> HIDE DEF B
    <2>3. B \in [1 .. n -> Sector]
        BY <2>1, <2>2
    <2> QED BY <1>0, <2>3, SeqDef, LenProperties
<1>7. ASSUME NEW b \in DOMAIN pendingSectors
      PROVE  IF b \in srcPos .. srcPos + n - 1
             THEN \E k \in 1 .. n : pendingSectors[b] = B[k]
             ELSE \A k \in 1 .. n : pendingSectors[b] # B[k]
    <2>1. b \in Nat /\ sector[pendingSectors[b]].pos = b
          /\ pendingSectors[b] \in Pending /\ pendingSectors[b] \in Used
        BY <1>5 DEF Keys, TypeOK, IsMap, Pending, Values
    <2>2. ASSUME b \in srcPos .. srcPos + n - 1
          PROVE  \E k \in 1 .. n : pendingSectors[b] = B[k]
        <3> DEFINE k == b - srcPos + 1
        <3>1. k \in 1 .. n /\ srcPos + k - 1 = b
            BY <1>0, <2>1, <2>2
        <3>2. sector[B[k]].pos = b /\ B[k] \in Used
            BY <1>4, <1>5, <3>1
        <3>3. pendingSectors[b] = B[k]
            BY <2>1, <3>2 DEF Distinct
        <3> QED BY <3>1, <3>3
    <2>3. ASSUME b \notin srcPos .. srcPos + n - 1, NEW k \in 1 .. n
          PROVE  pendingSectors[b] # B[k]
        BY <1>0, <1>4, <2>1, <2>3
    <2> QED BY <2>2, <2>3
<1>8. Called \subseteq {B[k] : k \in 1 .. n}
    BY <1>0, <1>3 DEF Called, NextSector, TypeOK
<1>9. writes = {}
    <2> SUFFICES ASSUME NEW w \in writes PROVE FALSE
        OBVIOUS
    <2>1. 1 \in 1 .. Len(w.batch) /\ sector[w.batch[1]].pos = srcPos /\ w.batch[1] \in Sector
        BY <1>0 DEF Ahead, TypeOK
    <2>2. w.batch[1] \in Writing
        BY <2>1 DEF Writing, InBatch
    <2>3. w.batch[1] \in Used /\ w.batch[1] # s
        BY <1>1, <2>1, <2>2 DEF NoSectorSharedOrLost, Used
    <2> QED BY <1>1, <1>5, <2>1, <2>3 DEF Distinct
<1> QED BY <1>4, <1>5, <1>6, <1>7, <1>8, <1>9

(* A batch the format cannot hold is left in no container; that is said.     *)
LEMMA HandleReadyRejectIInv == ASSUME IInv, HandleReadyReject PROVE IInv'
<1> USE DEF IInv
<1>u. /\ ready' = {} /\ finished' = Append(finished, "format")
      /\ UNCHANGED <<task, freeSectors, sector, partialSectors, work, after, writes, flushes,
                     srcPos, state, file, progress, received>>
    BY DEF HandleReadyReject
<1>1. PICK K : pendingSectors' = Erase(pendingSectors, K)
    BY DEF HandleReadyReject
<1>2. /\ DOMAIN pendingSectors' \subseteq DOMAIN pendingSectors
      /\ \A x \in DOMAIN pendingSectors' : pendingSectors'[x] = pendingSectors[x]
    BY <1>1 DEF Erase
<1>3. finished' \in Seq(Verdicts) /\ Said("format")'
    <2>1. finished \in Seq(Verdicts) /\ "format" \in Verdicts
        BY DEF TypeOK, Verdicts
    <2>2. /\ finished' \in Seq(Verdicts) /\ Len(finished') = Len(finished) + 1
          /\ finished'[Len(finished) + 1] = "format" /\ Len(finished) \in Nat
        BY <1>u, <2>1, AppendProperties, LenProperties
    <2> QED BY <2>2 DEF Said
<1>4. Called' = {} /\ Pending' \subseteq Pending /\ Filling' = Filling /\ Writing' = Writing
    BY <1>u, <1>2, Places DEF Called, Pending, Values
<1>5. TypeOK'
    BY <1>u, <1>2, <1>3 DEF TypeOK, IsMap, Values
<1>6. NoSectorSharedOrLost'
    BY <1>u, <1>3, <1>4 DEF NoSectorSharedOrLost
<1>7. Keys'
    BY <1>u, <1>2 DEF Keys, Values
<1> QED BY <1>u, <1>5, <1>6, <1>7, Frame

(* Sectors that are in use and are released.                                 *)
LEMMA Released ==
    ASSUME IInv, NEW S, S \subseteq Used, S \cap Filling = {},
           sector' = Release(S), freeSectors' = freeSectors \cup S,
           UNCHANGED <<task, partialSectors, work, after, received>>,
           DOMAIN pendingSectors' \subseteq DOMAIN pendingSectors,
           \A b \in DOMAIN pendingSectors' :
              pendingSectors'[b] = pendingSectors[b] /\ pendingSectors[b] \notin S
    PROVE  /\ sector' \in [Sector -> SectorRecord] /\ freeSectors' \subseteq Sector
           /\ Used' = Used \ S
           /\ \A t \in Used' : sector'[t] = sector[t]
           /\ Done' = Done
           /\ Keys' /\ FreeIdle' /\ Distinct' /\ Reception'
<1> USE DEF IInv
<1>1. sector' \in [Sector -> SectorRecord]
    BY DEF Release, TypeOK, Idle, SectorRecord
<1>2. Used' = Used \ S /\ freeSectors' \subseteq Sector
    BY DEF Used, TypeOK
<1>3. \A t \in Sector : sector'[t] = IF t \in S THEN Idle ELSE sector[t]
    BY DEF Release
<1>4. \A t \in Used' : sector'[t] = sector[t]
    BY <1>2, <1>3 DEF Used
<1>5. Done' = Done /\ Collecting' = Collecting
    BY DEF Done, BlockCount, Block, Collecting
<1>6. Keys'
    <2>1. \A b \in DOMAIN partialSectors :
             partialSectors[b] \in Sector /\ partialSectors[b] \notin S
        BY DEF TypeOK, IsMap, Values, Filling
    <2>2. \A b \in DOMAIN pendingSectors : pendingSectors[b] \in Sector
        BY DEF TypeOK, IsMap, Values
    <2> QED BY <1>3, <2>1, <2>2 DEF Keys, Values
<1>7. FreeIdle'
    BY <1>3 DEF FreeIdle, TypeOK, Used
<1>8. Distinct'
    BY <1>2, <1>4 DEF Distinct
<1>9. \A t \in Used' : Holds(t)'
    BY <1>2, <1>4, <1>5 DEF Reception, Holds, Block, SectorsOf
<1>10. Reception'
    BY <1>9 DEF Reception, Block
<1> QED BY <1>1, <1>2, <1>4, <1>5, <1>6, <1>7, <1>8, <1>10

(* What srcPos_ may become: everything behind the blocks released is ahead,  *)
(* and what was released had been received.                                  *)
LEMMA Advance ==
    ASSUME IInv, NEW n \in Nat \ {0}, NEW B \in Seq(Sector), Len(B) = n,
           \A k \in 1 .. n : B[k] \in Used \ Filling /\ sector[B[k]].pos = srcPos + k - 1
    PROVE  /\ srcPos + n <= Done
           /\ \A t \in Used : t \notin {B[k] : k \in 1 .. n} => srcPos + n <= sector[t].pos
           /\ \A k \in 1 .. n : sector[B[k]].held = SectorsOf(srcPos + k - 1)
<1> USE DEF IInv
<1>0. srcPos \in Nat
    BY DEF TypeOK
<1>1. \A k \in 1 .. n : /\ sector[B[k]].pos < Done
                        /\ sector[B[k]].held = SectorsOf(sector[B[k]].pos)
    BY DEF Reception, Holds, Collecting, Filling
<1>2. n \in 1 .. n /\ srcPos + n - 1 < Done
    BY <1>1
<1>3. Done \in Nat
    BY TaskFacts, BlockFacts, BlockCountFacts DEF Done, TypeOK
<1>4. srcPos + n <= Done
    BY <1>0, <1>2, <1>3
<1>5. ASSUME NEW t \in Used, t \notin {B[k] : k \in 1 .. n}
      PROVE  srcPos + n <= sector[t].pos
    <2>1. sector[t].pos \in Nat /\ srcPos <= sector[t].pos
        BY DEF Ahead, Used, TypeOK, SectorRecord
    <2>2. SUFFICES ASSUME sector[t].pos < srcPos + n PROVE FALSE
        BY <1>0, <2>1
    <2>3. PICK k \in 1 .. n : srcPos + k - 1 = sector[t].pos
        <3>1. \A a, b \in Nat : a <= b /\ b < a + n => \E k \in 1 .. n : a + k - 1 = b
            <4> TAKE a, b \in Nat
            <4>1. HAVE a <= b /\ b < a + n
            <4>2. b - a + 1 \in 1 .. n /\ a + (b - a + 1) - 1 = b
                BY <4>1
            <4> QED BY <4>2
        <3> QED BY <1>0, <2>1, <2>2, <3>1
    <2>4. sector[B[k]].pos = sector[t].pos /\ B[k] \in Used
        BY <2>3
    <2>5. t = B[k]
        BY <2>4 DEF Distinct
    <2> QED BY <1>5, <2>3, <2>5
<1> QED BY <1>1, <1>4, <1>5

(* Flush reports nothing but success.                                        *)
LEMMA FlushFacts ==
    ASSUME TypeOK, NEW batch, Flush(batch)
    PROVE  /\ flushes' \in Nat /\ finished' \in Seq(Verdicts)
           /\ state' \subseteq {"HAS_FILE", "INDEX_READY", "INDEX_WRITTEN", "DATA_WRITTEN"}
           /\ \A x : Said(x) => Said(x)'
<1>1. finished' = finished \/ finished' = Append(finished, "success")
    BY CheckFinishIs DEF Flush
<1>2. finished' \in Seq(Verdicts) /\ \A x : Said(x) => Said(x)'
    BY <1>1, SaidGrows DEF TypeOK, Verdicts
<1>3. /\ flushes' \in Nat
      /\ state' \subseteq {"HAS_FILE", "INDEX_READY", "INDEX_WRITTEN", "DATA_WRITTEN"}
    <2>1. flushes' \in {flushes, flushes + 1} /\ state' \in {state, state \cup FlushBits}
        BY DEF Flush
    <2>2. FlushBits \subseteq {"INDEX_READY", "INDEX_WRITTEN"}
        BY DEF FlushBits
    <2> QED BY <2>1, <2>2 DEF TypeOK
<1> QED BY <1>2, <1>3

(* A batch moves from HandleReadySector and pendingSectors_ to the one write *)
(* in flight or, measuring, to freeSectors_.                                 *)
LEMMA HandleReadySubmitIInv == ASSUME IInv, HandleReadySubmit PROVE IInv'
<1> USE DEF IInv
<1>u. ready' = {} /\ UNCHANGED <<task, partialSectors, work, after, file, received>>
    BY DEF HandleReadySubmit
<1> DEFINE Members(b) == {b[k] : k \in 1 .. Len(b)}
           nextOf(b) == srcPos + Len(b)
           Measured(b) ==
              /\ task.measure
              /\ sector' = Release(Members(b)) /\ freeSectors' = freeSectors \cup Members(b)
              /\ srcPos' = nextOf(b) /\ progress' = <<nextOf(b)>> \o progress
              /\ UNCHANGED writes
           Written(b) ==
              /\ ~task.measure
              /\ \E at : writes' = writes \cup {[batch |-> b, at |-> at, nextPos |-> nextOf(b)]}
              /\ UNCHANGED <<sector, freeSectors, srcPos, progress>>
<1>1. PICK s \in Sector, n \in 1 .. MAX_BUFS :
        /\ NextSector(s) /\ BatchSize(n)
        /\ pendingSectors' = Erase(pendingSectors, srcPos .. nextOf(Batch(s, n)) - 1)
        /\ Flush(Batch(s, n))
        /\ Measured(Batch(s, n)) \/ Written(Batch(s, n))
    BY DEF HandleReadySubmit
<1> HIDE DEF Measured, Written
<1> DEFINE B == Batch(s, n)
           S == {B[k] : k \in 1 .. n}
<1>0. n \in Nat \ {0} /\ srcPos \in Nat /\ srcPos + n \in Nat
    BY MaxBufsAssumption DEF TypeOK
<1>2. /\ B \in Seq(Sector) /\ Len(B) = n
      /\ \A k \in 1 .. n : /\ B[k] \in (Called \cup Pending) \cap Used
                           /\ sector[B[k]].pos = srcPos + k - 1
      /\ \A b \in DOMAIN pendingSectors :
            IF b \in srcPos .. srcPos + n - 1
            THEN \E k \in 1 .. n : pendingSectors[b] = B[k]
            ELSE \A k \in 1 .. n : pendingSectors[b] # B[k]
      /\ Called \subseteq S /\ writes = {}
    BY <1>1, BatchFacts
<1> HIDE DEF B
<1>3. /\ DOMAIN pendingSectors' = DOMAIN pendingSectors \ (srcPos .. srcPos + n - 1)
      /\ \A b \in DOMAIN pendingSectors' :
            pendingSectors'[b] = pendingSectors[b] /\ pendingSectors[b] \notin S
    <2>1. Len(Batch(s, n)) = n
        BY <1>2 DEF B
    <2>2. /\ DOMAIN pendingSectors' = DOMAIN pendingSectors \ (srcPos .. srcPos + n - 1)
          /\ \A b \in DOMAIN pendingSectors' : pendingSectors'[b] = pendingSectors[b]
        BY <1>0, <1>1, <2>1 DEF Erase
    <2> QED BY <1>2, <2>2
<1>4. Pending' = Pending \ S
    BY <1>2, <1>3 DEF Pending, Values
<1>5. Called' = {} /\ Filling' = Filling
    BY <1>u, Places DEF Called
<1>6. S \subseteq Used /\ S \subseteq Called \cup Pending /\ S \cap Filling = {}
    BY <1>2 DEF NoSectorSharedOrLost
<1>7. /\ flushes' \in Nat /\ finished' \in Seq(Verdicts)
      /\ state' \subseteq {"HAS_FILE", "INDEX_READY", "INDEX_WRITTEN", "DATA_WRITTEN"}
      /\ \A x : Said(x) => Said(x)'
    BY <1>1, FlushFacts
<1>8. IsMap(pendingSectors)' /\ IsMap(partialSectors)'
    BY <1>u, <1>3 DEF IsMap, Values, TypeOK
<1>9. /\ srcPos + n <= Done
      /\ \A t \in Used : t \notin S => srcPos + n <= sector[t].pos
    <2>1. \A k \in 1 .. n : B[k] \in Used \ Filling /\ sector[B[k]].pos = srcPos + k - 1
        BY <1>2, <1>6
    <2> QED BY <1>0, <1>2, <2>1, Advance
<1>10. CASE task.measure
    <2>1. /\ sector' = Release(S) /\ freeSectors' = freeSectors \cup S
          /\ srcPos' = srcPos + n /\ progress' = <<srcPos + n>> \o progress
          /\ UNCHANGED writes
        BY <1>1, <1>2, <1>10 DEF B, Measured, Written
    <2> HIDE DEF S
    <2>2. /\ sector' \in [Sector -> SectorRecord] /\ freeSectors' \subseteq Sector
          /\ Used' = Used \ S /\ Done' = Done
          /\ \A t \in Used' : sector'[t] = sector[t]
          /\ Keys' /\ FreeIdle' /\ Distinct' /\ Reception'
        BY <1>u, <1>3, <1>6, <2>1, Released
    <2>3. progress' \in Seq(Nat)
        <3>1. <<srcPos + n>> \in Seq(Nat) /\ progress \in Seq(Nat)
            BY <1>0 DEF TypeOK
        <3> QED BY <2>1, <3>1, ConcatProperties
    <2>4. TypeOK'
        BY <1>0, <1>u, <1>7, <1>8, <2>1, <2>2, <2>3 DEF TypeOK
    <2>5. Writing' = Writing
        BY <2>1, Places
    <2>6. NoSectorSharedOrLost'
        BY <1>u, <1>2, <1>4, <1>5, <1>6, <1>7, <2>1, <2>5 DEF NoSectorSharedOrLost
    <2>7. Ahead'
        BY <1>2, <1>9, <2>1, <2>2 DEF Ahead
    <2>8. Filed'
        BY <1>u, <1>10, <2>1 DEF Filed, SectorsOf
    <2> QED BY <2>2, <2>4, <2>6, <2>7, <2>8
<1>11. CASE ~task.measure
    <2>1. PICK at : writes' = {[batch |-> B, at |-> at, nextPos |-> srcPos + n]}
        BY <1>1, <1>2, <1>11 DEF B, Measured, Written
    <2>2. UNCHANGED <<sector, freeSectors, srcPos, progress>>
        BY <1>1, <1>11 DEF Measured, Written
    <2>3. TypeOK'
        BY <1>0, <1>u, <1>2, <1>7, <1>8, <2>1, <2>2 DEF TypeOK
    <2>4. Writing' = S /\ Writing = {}
        BY <1>2, <2>1 DEF Writing, InBatch
    <2>5. NoSectorSharedOrLost'
        BY <1>u, <1>2, <1>4, <1>5, <1>6, <1>7, <2>2, <2>4 DEF NoSectorSharedOrLost
    <2>6. Keys'
        BY <1>u, <1>3, <2>2 DEF Keys, Values
    <2>7. FreeIdle' /\ Distinct' /\ Reception'
        BY <1>u, <2>2, Frame
    <2>8. Used' = Used /\ Done' = Done
        BY <1>u, <2>2 DEF Used, Done, BlockCount, Block
    <2>9. Ahead'
        <3>1. /\ \A v, w \in writes' : v = w
              /\ \A w \in writes' : w.batch = B /\ w.nextPos = srcPos + n
            BY <2>1
        <3>2. /\ srcPos' <= Done' /\ \A t \in Used' : srcPos' <= sector'[t].pos
            BY <2>2, <2>8 DEF Ahead
        <3>3. ASSUME NEW w \in writes'
              PROVE  /\ Len(w.batch) > 0 /\ w.nextPos = srcPos' + Len(w.batch)
                     /\ \A k \in 1 .. Len(w.batch) : sector'[w.batch[k]].pos = srcPos' + k - 1
            <4>1. w.batch = B /\ w.nextPos = srcPos + n /\ Len(w.batch) = n
                BY <1>2, <3>1
            <4> QED BY <1>0, <1>2, <2>2, <4>1
        <3> QED BY <3>1, <3>2, <3>3 DEF Ahead
    <2>10. Filed'
        BY <1>u, <1>11, <2>2 DEF Filed, SectorsOf
    <2> QED BY <2>3, <2>5, <2>6, <2>7, <2>9, <2>10
<1> QED BY <1>10, <1>11

(* The batch written moves to freeSectors_ and, on success, to the file.     *)
LEMMA HandleWrittenSectorsIInv ==
    ASSUME IInv, NEW w \in writes, NEW ok \in BOOLEAN, HandleWrittenSectors(w, ok)
    PROVE  IInv'
<1> USE DEF IInv
<1> DEFINE B == w.batch
           n == Len(B)
           S == {B[k] : k \in 1 .. n}
<1>u. /\ writes' = writes \ {w} /\ sector' = Release(S) /\ freeSectors' = freeSectors \cup S
      /\ UNCHANGED <<task, partialSectors, pendingSectors, work, after, flushes,
                     state, ready, received>>
    BY DEF HandleWrittenSectors
<1>0. B \in Seq(Sector) /\ n \in Nat \ {0} /\ srcPos \in Nat /\ w.nextPos = srcPos + n
    BY LenProperties DEF TypeOK, Ahead
<1>1. writes = {w} /\ writes' = {}
    BY <1>u DEF Ahead
<1>2. Writing = S /\ Writing' = {}
    BY <1>1 DEF Writing, InBatch
<1>3. \A k \in 1 .. n : B[k] \in S /\ B[k] \in Sector /\ sector[B[k]].pos = srcPos + k - 1
    BY <1>0 DEF Ahead
<1> HIDE DEF S
<1>4. S \subseteq Used /\ S \cap Filling = {}
    BY <1>2, <1>3 DEF NoSectorSharedOrLost, Used, S
<1>5. \A b \in DOMAIN pendingSectors : pendingSectors[b] \notin S
    BY <1>2 DEF NoSectorSharedOrLost, Pending, Values
<1>6. /\ sector' \in [Sector -> SectorRecord] /\ freeSectors' \subseteq Sector
      /\ Used' = Used \ S /\ Done' = Done
      /\ \A t \in Used' : sector'[t] = sector[t]
      /\ Keys' /\ FreeIdle' /\ Distinct' /\ Reception'
    BY <1>u, <1>4, <1>5, Released
<1>7. /\ srcPos + n <= Done
      /\ \A t \in Used : t \notin S => srcPos + n <= sector[t].pos
      /\ \A k \in 1 .. n : sector[B[k]].held = SectorsOf(srcPos + k - 1)
    <2>1. \A k \in 1 .. n : B[k] \in Used \ Filling /\ sector[B[k]].pos = srcPos + k - 1
        BY <1>3, <1>4
    <2> QED BY <1>0, <2>1, Advance DEF S
<1>8. Filling' = Filling /\ Called' = Called /\ Pending' = Pending
    BY <1>u, Places
<1>9. IsMap(pendingSectors)' /\ IsMap(partialSectors)'
    BY <1>u DEF IsMap, Values, TypeOK
<1>10. CASE ok
    <2>1. /\ file' = [file EXCEPT !.data = Stored(w)]
          /\ srcPos' = srcPos + n /\ progress' = <<srcPos + n>> /\ UNCHANGED finished
        BY <1>0, <1>10 DEF HandleWrittenSectors
    <2>2. TypeOK'
        <3>1. <<srcPos + n>> \in Seq(Nat) /\ srcPos + n \in Nat
            BY <1>0
        <3> QED BY <1>u, <1>1, <1>6, <1>9, <2>1, <3>1 DEF TypeOK
    <2>3. NoSectorSharedOrLost'
        BY <1>u, <1>2, <1>8, <2>1 DEF NoSectorSharedOrLost, Said
    <2>4. Ahead'
        BY <1>1, <1>6, <1>7, <2>1 DEF Ahead
    <2>5. Filed'
        <3>1. ~task.measure /\ DOMAIN file.data = 0 .. srcPos - 1 /\ task' = task
            BY <1>u DEF Filed
        <3>2. file'.data = Stored(w)
            BY <2>1 DEF TypeOK
        <3>3. w.nextPos - Len(w.batch) = srcPos
            BY <1>0
        <3>4. DOMAIN file'.data = (0 .. srcPos - 1) \cup (srcPos .. srcPos + n - 1)
            BY <1>0, <3>1, <3>2, <3>3 DEF Stored
        <3>5. DOMAIN file'.data = 0 .. srcPos' - 1
            BY <1>0, <2>1, <3>4
        <3>6. ASSUME NEW b \in srcPos .. srcPos + n - 1
              PROVE  file'.data[b].held = SectorsOf(b)
            <4>1. b - srcPos + 1 \in 1 .. n /\ srcPos + (b - srcPos + 1) - 1 = b
                BY <1>0
            <4>2. file'.data[b] = Extent(B[b - srcPos + 1], w.at[b - srcPos + 1])
                BY <1>0, <3>2, <3>3, <3>4 DEF Stored
            <4> QED BY <1>7, <4>1, <4>2 DEF Extent
        <3>7. ASSUME NEW b \in 0 .. srcPos - 1
              PROVE  file'.data[b].held = SectorsOf(b)
            <4>1. b \notin srcPos .. srcPos + n - 1 /\ b \in DOMAIN file.data
                BY <1>0, <3>1
            <4>2. file'.data[b] = file.data[b]
                BY <1>0, <3>2, <3>3, <4>1 DEF Stored
            <4> QED BY <4>1, <4>2 DEF Filed
        <3>8. \A b \in DOMAIN file'.data : file'.data[b].held = SectorsOf(b)
            BY <3>4, <3>6, <3>7
        <3> QED BY <3>1, <3>5, <3>8 DEF Filed, SectorsOf
    <2> QED BY <1>6, <2>2, <2>3, <2>4, <2>5
<1>11. CASE ~ok
    <2>1. finished' = Append(finished, "data") /\ UNCHANGED <<file, srcPos, progress>>
        BY <1>11 DEF HandleWrittenSectors
    <2>2. finished' \in Seq(Verdicts) /\ \A x : Said(x) => Said(x)'
        BY <2>1, SaidGrows DEF TypeOK, Verdicts
    <2>3. TypeOK'
        BY <1>u, <1>1, <1>6, <1>9, <2>1, <2>2 DEF TypeOK
    <2>4. NoSectorSharedOrLost'
        BY <1>u, <1>2, <1>8, <2>2 DEF NoSectorSharedOrLost
    <2>5. Ahead'
        BY <1>1, <1>6, <2>1 DEF Ahead
    <2>6. Filed'
        BY <1>u, <1>1, <2>1 DEF Filed, SectorsOf
    <2> QED BY <1>6, <2>3, <2>4, <2>5, <2>6
<1> QED BY <1>10, <1>11

-----------------------------------------------------------------------------
(* Enqueue *)

Lo == Block(received) * task.perBlock
Hi == IF received + 1 = task.sectors THEN Lo + task.perBlock - 1 ELSE received

(* The sector and its padding, the last of its block or the sector alone.    *)
LEMMA PaddingFacts ==
    ASSUME task \in Task, received \in Nat, received < task.sectors
    PROVE  /\ Lo \in Nat /\ Hi \in Nat /\ Lo <= received /\ received <= Hi
           /\ Hi <= Lo + task.perBlock - 1
           /\ {received} \cup Padding(received) = received .. Hi
           /\ Cardinality({received} \cup Padding(received)) = Hi - received + 1
<1>1. task.perBlock \in Nat \ {0} /\ task.sectors \in Nat
    BY TaskFacts
<1>2. Lo \in Nat /\ Lo <= received /\ received < Lo + task.perBlock
    BY BlockFacts DEF Lo
<1>3. Hi \in Nat /\ received <= Hi /\ Hi <= Lo + task.perBlock - 1
    BY <1>1, <1>2 DEF Hi
<1>4. {received} \cup Padding(received) = received .. Hi
    <2>1. CASE received + 1 = task.sectors
        <3>1. BlockCount * task.perBlock = Lo + task.perBlock
            BY <1>2, <2>1, NextBlock DEF Lo
        <3>2. task.perBlock # 1 => Padding(received) = received + 1 .. Lo + task.perBlock - 1
            <4>1. received + 1 >= task.sectors
                BY <1>1, <2>1
            <4>2. task.perBlock # 1 => Padding(received) = task.sectors .. BlockCount * task.perBlock - 1
                BY <4>1 DEF Padding
            <4> DEFINE top == BlockCount * task.perBlock
            <4> HIDE DEF top
            <4>3. top = Lo + task.perBlock /\ (task.perBlock # 1 => Padding(received) = task.sectors .. top - 1)
                BY <3>1, <4>2 DEF top
            <4> QED BY <1>1, <1>2, <2>1, <4>3
        <3>3. task.perBlock = 1 => Padding(received) = {} /\ Lo = received
            BY <1>1, <1>2 DEF Padding
        <3> QED BY <1>1, <1>2, <2>1, <3>2, <3>3 DEF Hi
    <2>2. CASE received + 1 # task.sectors
        BY <1>1, <2>2 DEF Padding, Hi
    <2> QED BY <2>1, <2>2
<1>5. Cardinality(received .. Hi) = Hi - received + 1
    BY <1>3, FS_Interval
<1> QED BY <1>2, <1>3, <1>4, <1>5

(* What is received completely, before and after.                            *)
LEMMA DoneGrows ==
    ASSUME task \in Task, received \in Nat, received < task.sectors,
           received' = received + 1, task' = task
    PROVE  /\ Done = Block(received)
           /\ Hi = Lo + task.perBlock - 1 =>
                 /\ Done' = Block(received) + 1
                 /\ received' < task.sectors => received' = Block(received') * task.perBlock
           /\ Hi < Lo + task.perBlock - 1 =>
                 /\ received' < task.sectors /\ Hi = received
                 /\ Block(received') = Block(received) /\ Done' = Block(received)
<1>1. task.perBlock \in Nat \ {0} /\ task.sectors \in Nat
    BY TaskFacts
<1>2. /\ Lo \in Nat /\ Lo <= received /\ received < Lo + task.perBlock
      /\ Block(received) \in Nat
    BY BlockFacts DEF Lo
<1>3. /\ (Block(received) + 1) * task.perBlock = Lo + task.perBlock
      /\ received + 1 = Lo + task.perBlock => Block(received + 1) = Block(received) + 1
      /\ received + 1 < Lo + task.perBlock => Block(received + 1) = Block(received)
      /\ received + 1 = task.sectors => BlockCount = Block(received) + 1
    BY <1>2, NextBlock DEF Lo
<1>4. Done = Block(received)
    BY <1>1 DEF Done
<1>5. /\ BlockCount' = BlockCount
      /\ Done' = IF received + 1 = task.sectors THEN BlockCount ELSE Block(received + 1)
    BY DEF Done, BlockCount, Block
<1>6. ASSUME Hi = Lo + task.perBlock - 1
      PROVE  /\ Done' = Block(received) + 1
             /\ received' < task.sectors => received' = Block(received') * task.perBlock
    <2>1. received + 1 = task.sectors \/ received + 1 = Lo + task.perBlock
        BY <1>1, <1>2, <1>6 DEF Hi
    <2>2. CASE received + 1 = task.sectors
        BY <1>1, <1>3, <1>5, <2>2
    <2>3. CASE received + 1 # task.sectors /\ received + 1 = Lo + task.perBlock
        BY <1>3, <1>5, <2>3
    <2> QED BY <2>1, <2>2, <2>3
<1>7. ASSUME Hi < Lo + task.perBlock - 1
      PROVE  /\ received' < task.sectors /\ Hi = received
             /\ Block(received') = Block(received) /\ Done' = Block(received)
    <2>1. received + 1 # task.sectors /\ Hi = received
        BY <1>1, <1>2, <1>7 DEF Hi
    <2>2. received + 1 < task.sectors /\ received + 1 < Lo + task.perBlock
        BY <1>1, <1>2, <1>7, <2>1
    <2> QED BY <1>3, <1>5, <2>1, <2>2
<1> QED BY <1>4, <1>6, <1>7

(* The Sector Enqueue takes is the one collecting the block, or it is free   *)
(* and the sector is the first of its block; and no other Sector has to do   *)
(* with that block.                                                          *)
LEMMA TakerFacts ==
    ASSUME IInv, received < task.sectors, NEW s \in Taker(received)
    PROVE  LET b == Block(received) IN
           /\ s \in Sector
           /\ \A t \in Used : t # s => sector[t].pos < b /\ t \notin Collecting
           /\ \/ /\ s \in freeSectors /\ b \notin DOMAIN partialSectors
                 /\ sector[s] = Idle /\ Lo = received
              \/ /\ b \in DOMAIN partialSectors /\ partialSectors[b] = s
                 /\ s \in Collecting /\ task.perBlock # 1 /\ s \in Used
                 /\ sector[s].pos = b /\ ~sector[s].enqueued
                 /\ sector[s].readySize = received - Lo /\ sector[s].readySize > 0
                 /\ sector[s].held = Lo .. received - 1
<1> USE DEF IInv
<1> DEFINE b == Block(received)
<1>1. Done = b /\ b \in Nat
    <2>1. received \in Nat /\ task.sectors \in Nat /\ received # task.sectors /\ task \in Task
        BY TaskFacts DEF TypeOK
    <2> QED BY <2>1, BlockFacts DEF Done
<1>2. \A t \in Used : t \notin Collecting => sector[t].pos < b
    BY <1>1 DEF Reception, Holds
<1>3. \A t \in Collecting : /\ b \in DOMAIN partialSectors /\ partialSectors[b] = t
                            /\ t \in Sector /\ t \in Used
    <2> TAKE t \in Collecting
    <2>1. PICK c \in DOMAIN partialSectors : partialSectors[c] = t
        BY DEF Collecting, Values
    <2>2. t \in Sector /\ t \in Used
        BY <2>1 DEF Collecting, Used, NoSectorSharedOrLost, Filling, TypeOK, IsMap
    <2>3. sector[t].pos = c /\ sector[t].pos = b
        BY <2>1, <2>2 DEF Keys, Reception, Holds
    <2> QED BY <2>1, <2>2, <2>3
<1>4. CASE b \in DOMAIN partialSectors
    <2>1. s = partialSectors[b] /\ s \in Values(partialSectors) /\ sector[s].pos = b
        BY <1>4 DEF Taker, Values, Keys
    <2>2. s \in Sector /\ s \in Used
        BY <2>1 DEF Used, NoSectorSharedOrLost, Filling, TypeOK, IsMap
    <2>3. s \in Collecting
        BY <1>1, <1>2, <2>1, <2>2
    <2>4. task.perBlock # 1
        BY <1>4 DEF Keys, EmptyMap
    <2>5. Holds(s)
        BY <2>2 DEF Reception
    <2> QED BY <1>2, <1>3, <1>4, <2>1, <2>2, <2>3, <2>4, <2>5 DEF Holds, Lo
<1>5. CASE b \notin DOMAIN partialSectors
    <2>1. s \in freeSectors /\ s \in Sector /\ sector[s] = Idle
        BY <1>5 DEF Taker, FreeIdle, TypeOK
    <2>2. Lo = received
        BY <1>5 DEF Reception, Lo
    <2> QED BY <1>2, <1>3, <1>5, <2>1, <2>2
<1> QED BY <1>4, <1>5

(* A Sector's fields, put together.                                          *)
LEMMA SectorTyped ==
    ASSUME NEW a \in Nat, NEW e \in BOOLEAN, NEW p \in Nat, NEW h \in SUBSET Nat,
           NEW z \in Int, NEW f \in {"ORIG"} \cup Methods
    PROVE  [readySize |-> a, enqueued |-> e, pos |-> p, held |-> h, size |-> z, fmt |-> f]
              \in SectorRecord
BY DEF SectorRecord

(* What it holds then.                                                       *)
LEMMA ProcessFacts ==
    ASSUME IInv, received < task.sectors, NEW s \in Taker(received), NEW r,
           r = Process(s, Block(received), {received} \cup Padding(received))
    PROVE  /\ r \in SectorRecord /\ r.pos = Block(received) /\ ~r.enqueued
           /\ r.held = Lo .. Hi /\ r.readySize = Hi - Lo + 1
<1> USE DEF IInv
<1> DEFINE b == Block(received)
           P == {received} \cup Padding(received)
           old == sector[s]
<1>1. /\ Lo \in Nat /\ Hi \in Nat /\ Lo <= received /\ received <= Hi
      /\ P = received .. Hi /\ Cardinality(P) = Hi - received + 1
    BY PaddingFacts DEF TypeOK
<1>2. received \in Nat /\ b \in Nat /\ BlockSize \in Int
    BY TaskFacts, BlockFacts, SizesAssumption DEF TypeOK, BlockSize
<1> HIDE DEF b, P
<1>3. CASE sector[s] = Idle /\ Lo = received
    <2>1. old.readySize = 0 /\ old.enqueued = FALSE
        BY <1>3 DEF Idle
    <2>2. r = [readySize |-> 0 + Cardinality(P), enqueued |-> FALSE, pos |-> b, held |-> P,
               size |-> BlockSize, fmt |-> "ORIG"]
        BY <2>1 DEF Process, b, P
    <2>3. /\ 0 + Cardinality(P) = Hi - Lo + 1 /\ Hi - Lo + 1 \in Nat
          /\ P = Lo .. Hi /\ P \in SUBSET Nat
        BY <1>1, <1>2, <1>3
    <2>4. r = [readySize |-> Hi - Lo + 1, enqueued |-> FALSE, pos |-> b, held |-> P,
               size |-> BlockSize, fmt |-> "ORIG"]
        BY <2>2, <2>3
    <2>5. r \in SectorRecord
        BY <1>2, <2>3, <2>4, SectorTyped
    <2> QED BY <2>3, <2>4, <2>5 DEF b
<1>4. CASE /\ s \in Sector /\ sector[s].pos = b /\ ~sector[s].enqueued
           /\ sector[s].readySize = received - Lo /\ sector[s].readySize > 0
           /\ sector[s].held = Lo .. received - 1
    <2>1. old \in SectorRecord
        BY <1>4 DEF TypeOK
    <2>2. r = [readySize |-> old.readySize + Cardinality(P), enqueued |-> old.enqueued,
               pos |-> old.pos, held |-> old.held \cup P, size |-> old.size, fmt |-> old.fmt]
        <3>1. old.readySize # 0
            BY <1>1, <1>2, <1>4
        <3> QED BY <3>1 DEF Process, b, P
    <2>3. old.held \cup P = Lo .. Hi
        BY <1>1, <1>2, <1>4
    <2>4. old.readySize + Cardinality(P) = Hi - Lo + 1 /\ Hi - Lo + 1 \in Nat
        BY <1>1, <1>2, <1>4
    <2>5. old.size \in Int /\ old.fmt \in {"ORIG"} \cup Methods /\ old.enqueued = FALSE
        BY <1>4, <2>1 DEF SectorRecord
    <2>6. (Lo .. Hi) \in SUBSET Nat
        BY <1>1
    <2> HIDE DEF old
    <2>7. r = [readySize |-> Hi - Lo + 1, enqueued |-> FALSE, pos |-> b, held |-> Lo .. Hi,
               size |-> old.size, fmt |-> old.fmt]
        BY <1>4, <2>2, <2>3, <2>4, <2>5 DEF old
    <2>8. r \in SectorRecord
        BY <1>2, <2>4, <2>5, <2>6, <2>7, SectorTyped
    <2> QED BY <2>7, <2>8 DEF b
<1> QED BY <1>3, <1>4, TakerFacts DEF b

(* Enqueue's step, whichever Sector takes the sector: q is what the Sector   *)
(* holds, and what it does next depends on whether its block is complete.    *)
LEMMA EnqueueCases ==
    ASSUME IInv, Receive
    PROVE  \E s \in Taker(received), q \in SectorRecord :
           LET b == Block(received)
               full == Hi = Lo + task.perBlock - 1
           IN
           /\ freeSectors' = freeSectors \ {s} /\ sector' = [sector EXCEPT ![s] = q]
           /\ q.pos = b /\ q.held = Lo .. Hi /\ q.readySize = Hi - Lo + 1
           /\ \/ /\ ~full /\ ~q.enqueued /\ UNCHANGED <<work, ready>>
                 /\ partialSectors' = Insert(partialSectors, b, s)
              \/ /\ full /\ work' = work \cup {s} /\ UNCHANGED ready
                 /\ partialSectors' = IF task.perBlock = 1 THEN partialSectors
                                      ELSE Insert(partialSectors, b, s)
              \/ /\ full /\ ready' = {s} /\ UNCHANGED work
                 /\ partialSectors' = IF task.perBlock = 1 THEN Erase(partialSectors, {b})
                                      ELSE Erase(Insert(partialSectors, b, s), {b})
           /\ UNCHANGED finished
<1> USE DEF IInv
<1>0. received < task.sectors
    BY DEF Receive
<1> DEFINE b == Block(received)
           R(s) == Process(s, b, {received} \cup Padding(received))
           held(s) == IF task.perBlock = 1 THEN partialSectors ELSE Insert(partialSectors, b, s)
           full(r) == r.readySize >= task.perBlock
<1>1. PICK s \in Taker(received) :
        /\ freeSectors' = freeSectors \ {s}
        /\ \/ /\ full(R(s)) => R(s).enqueued
              /\ sector' = [sector EXCEPT ![s] = R(s)]
              /\ partialSectors' = held(s)
              /\ finished' = IF full(R(s)) THEN Append(finished, "busy") ELSE finished
              /\ UNCHANGED <<work, ready>>
           \/ /\ full(R(s))
              /\ sector' = [sector EXCEPT ![s] = [R(s) EXCEPT !.enqueued = TRUE]]
              /\ partialSectors' = held(s)
              /\ work' = work \cup {s}
              /\ UNCHANGED <<ready, finished>>
           \/ /\ full(R(s))
              /\ sector' = [sector EXCEPT ![s] = R(s)]
              /\ partialSectors' = Erase(held(s), {b})
              /\ ready' = {s}
              /\ UNCHANGED <<work, finished>>
    BY DEF Receive, Enqueue
<1> DEFINE r == R(s)
<1>2. /\ r \in SectorRecord /\ r.pos = b /\ ~r.enqueued
      /\ r.held = Lo .. Hi /\ r.readySize = Hi - Lo + 1
    BY <1>0, ProcessFacts
<1> HIDE DEF R
<1>3. /\ Lo \in Nat /\ Hi \in Nat /\ Lo <= received /\ received <= Hi
      /\ Hi <= Lo + task.perBlock - 1 /\ task.perBlock \in Nat \ {0} /\ received \in Nat
    BY <1>0, PaddingFacts, TaskFacts DEF TypeOK
<1>4. full(r) <=> Hi = Lo + task.perBlock - 1
    BY <1>2, <1>3
<1>5. ~full(r) => task.perBlock # 1
    BY <1>2, <1>3
<1> DEFINE q == [r EXCEPT !.enqueued = TRUE]
<1>6. /\ q \in SectorRecord /\ q.pos = b
      /\ q.held = Lo .. Hi /\ q.readySize = Hi - Lo + 1
    BY <1>2 DEF SectorRecord
<1> HIDE DEF r, q, b
<1>7. CASE ~full(r)
    <2>1. /\ sector' = [sector EXCEPT ![s] = r] /\ UNCHANGED <<work, ready, finished>>
          /\ partialSectors' = Insert(partialSectors, b, s)
        BY <1>1, <1>5, <1>7 DEF r
    <2> QED BY <1>1, <1>2, <1>4, <1>7, <2>1 DEF b
<1>8. CASE full(r) /\ ready' = ready
    <2>1. \/ /\ sector' = [sector EXCEPT ![s] = q] /\ partialSectors' = held(s)
             /\ work' = work \cup {s} /\ UNCHANGED finished
          \/ /\ sector' = [sector EXCEPT ![s] = r] /\ partialSectors' = Erase(held(s), {b})
             /\ ready' = {s} /\ UNCHANGED <<work, finished>>
        BY <1>1, <1>2, <1>8 DEF r, q
    <2>2. ready = {}
        BY DEF Receive, Enqueue
    <2>3. /\ sector' = [sector EXCEPT ![s] = q] /\ partialSectors' = held(s)
          /\ work' = work \cup {s} /\ UNCHANGED finished
        BY <1>8, <2>1, <2>2
    <2> QED BY <1>1, <1>4, <1>6, <1>8, <2>3 DEF b
<1>9. CASE full(r) /\ ready' # ready
    <2>1. /\ sector' = [sector EXCEPT ![s] = r] /\ partialSectors' = Erase(held(s), {b})
          /\ ready' = {s} /\ UNCHANGED <<work, finished>>
        BY <1>1, <1>2, <1>9 DEF r
    <2> QED BY <1>1, <1>2, <1>4, <1>9, <2>1 DEF b
<1> QED BY <1>7, <1>8, <1>9

(* Enqueue keeps the invariant.                                              *)
LEMMA ReceiveIInv == ASSUME IInv, Receive PROVE IInv'
<1> USE DEF IInv
<1> DEFINE b == Block(received)
           full == Hi = Lo + task.perBlock - 1
<1>u. /\ ready = {} /\ received < task.sectors /\ received' = received + 1
      /\ UNCHANGED <<task, pendingSectors, after, writes, flushes, srcPos, state, file, progress>>
    BY DEF Receive, Enqueue
<1>0. /\ task \in Task /\ received \in Nat /\ srcPos \in Nat
      /\ task.perBlock \in Nat \ {0} /\ task.sectors \in Nat
    BY TaskFacts DEF TypeOK
<1>1. /\ Lo \in Nat /\ Hi \in Nat /\ Lo <= received /\ received <= Hi
      /\ Hi <= Lo + task.perBlock - 1 /\ b \in Nat /\ b + 1 \in Nat
    <2>1. b \in Nat
        BY <1>0, BlockFacts
    <2> HIDE DEF b
    <2> QED BY <1>0, <1>u, <2>1, PaddingFacts
<1>2. PICK s \in Taker(received), q \in SectorRecord :
           /\ freeSectors' = freeSectors \ {s} /\ sector' = [sector EXCEPT ![s] = q]
           /\ q.pos = b /\ q.held = Lo .. Hi /\ q.readySize = Hi - Lo + 1
           /\ \/ /\ ~full /\ ~q.enqueued /\ UNCHANGED <<work, ready>>
                 /\ partialSectors' = Insert(partialSectors, b, s)
              \/ /\ full /\ work' = work \cup {s} /\ UNCHANGED ready
                 /\ partialSectors' = IF task.perBlock = 1 THEN partialSectors
                                      ELSE Insert(partialSectors, b, s)
              \/ /\ full /\ ready' = {s} /\ UNCHANGED work
                 /\ partialSectors' = IF task.perBlock = 1 THEN Erase(partialSectors, {b})
                                      ELSE Erase(Insert(partialSectors, b, s), {b})
           /\ UNCHANGED finished
    BY EnqueueCases
<1>3. /\ s \in Sector
      /\ \A t \in Used : t # s => sector[t].pos < b /\ t \notin Collecting
      /\ \/ s \in freeSectors /\ b \notin DOMAIN partialSectors
         \/ /\ b \in DOMAIN partialSectors /\ partialSectors[b] = s /\ s \in Used
            /\ s \in Collecting /\ task.perBlock # 1
    BY <1>u, TakerFacts
<1>4. /\ Done = b
      /\ full => /\ Done' = b + 1
                 /\ received' < task.sectors => received' = Block(received') * task.perBlock
      /\ ~full => /\ received' < task.sectors /\ Hi = received
                  /\ Block(received') = b /\ Done' = b
    BY <1>0, <1>1, <1>u, DoneGrows
<1>5. task.perBlock = 1 => full /\ partialSectors = EmptyMap /\ partialSectors' = EmptyMap
    <2>1. task.perBlock = 1 => full /\ partialSectors = EmptyMap
        BY <1>0, <1>1 DEF Keys
    <2>2. Erase(EmptyMap, {b}) = EmptyMap
        BY DEF Erase, EmptyMap
    <2> QED BY <1>2, <2>1, <2>2
<1> HIDE DEF b, full
<1>6. /\ sector'[s] = q /\ \A t \in Sector \ {s} : sector'[t] = sector[t]
      /\ sector' \in [Sector -> SectorRecord]
    BY <1>2, <1>3 DEF TypeOK
(* partialSectors_ changes at b only, and what is there then is s            *)
<1>7. /\ DOMAIN partialSectors' \subseteq DOMAIN partialSectors \cup {b}
      /\ DOMAIN partialSectors \subseteq DOMAIN partialSectors' \cup {b}
      /\ \A c \in DOMAIN partialSectors' : c # b => partialSectors'[c] = partialSectors[c]
      /\ b \in DOMAIN partialSectors' => partialSectors'[b] = s
      /\ task.perBlock # 1 /\ ready' = ready => b \in DOMAIN partialSectors'
      /\ ready' # ready => b \notin DOMAIN partialSectors'
    <2>1. CASE task.perBlock = 1
        BY <1>5, <2>1 DEF EmptyMap
    <2>2. CASE task.perBlock # 1 /\ ready' = ready
        <3>1. partialSectors' = Insert(partialSectors, b, s)
            BY <1>2, <1>u, <2>2
        <3> QED BY <2>2, <3>1 DEF Insert
    <2>3. CASE task.perBlock # 1 /\ ready' # ready
        <3>1. partialSectors' = Erase(Insert(partialSectors, b, s), {b})
            BY <1>2, <2>3
        <3> QED BY <2>3, <3>1 DEF Insert, Erase
    <2> QED BY <2>1, <2>2, <2>3
<1>8. \A c \in DOMAIN partialSectors :
        /\ c \in Nat /\ partialSectors[c] \in Sector /\ sector[partialSectors[c]].pos = c
        /\ c # b => partialSectors[c] # s
    <2>1. \A c \in DOMAIN partialSectors :
        c \in Nat /\ partialSectors[c] \in Sector /\ sector[partialSectors[c]].pos = c
        /\ partialSectors[c] \in Filling
        BY DEF TypeOK, IsMap, Values, Keys, Filling
    <2> QED BY <1>3, <2>1 DEF NoSectorSharedOrLost
<1>9. s \notin Pending /\ s \notin Writing /\ s \notin Called
    BY <1>3 DEF NoSectorSharedOrLost, Collecting, Filling
<1>10. s \notin work /\ s \notin after
    BY <1>3 DEF NoSectorSharedOrLost, Collecting, Filling
<1>11. Used' = Used \cup {s}
    BY <1>2, <1>3 DEF Used, TypeOK
<1>12. Values(partialSectors') = IF b \in DOMAIN partialSectors'
                                THEN Values(partialSectors) \cup {s}
                                ELSE Values(partialSectors) \ {s}
    BY <1>3, <1>7, <1>8 DEF Values
<1>13. Pending' = Pending /\ Writing' = Writing
    BY <1>u, Places
<1>14. /\ Filling' = IF ready' = ready THEN Filling \cup {s} ELSE Filling \ {s}
       /\ Called = {} /\ Called' = IF ready' = ready THEN {} ELSE {s}
       /\ work' \cap after' = {}
    <2>1. s # nullptr
        BY <1>3, SectorAssumption
    <2>2. ready' = ready \/ ready' = {s}
        BY <1>2
    <2>3. CASE ready' = ready
        <3>1. work' = work \/ work' = work \cup {s}
            BY <1>2
        <3>2. s \in Values(partialSectors') \/ s \in work'
            BY <1>2, <1>5, <1>7, <1>12, <1>u, <2>3
        <3>3. b \notin DOMAIN partialSectors' => s \notin Values(partialSectors)
            <4>1. Values(EmptyMap) = {}
                BY DEF Values, EmptyMap
            <4> QED BY <1>5, <1>7, <2>3, <4>1
        <3>4. /\ Filling' = Filling \cup {s}
            BY <1>u, <1>12, <3>1, <3>2, <3>3 DEF Filling
        <3> QED BY <1>u, <1>10, <2>3, <3>1, <3>4 DEF Called, NoSectorSharedOrLost
    <2>4. CASE ready' # ready
        <3>1. work' = work /\ ready' = {s} /\ b \notin DOMAIN partialSectors'
            BY <1>2, <1>7, <2>4
        <3> QED BY <1>u, <1>10, <1>12, <2>1, <2>4, <3>1 DEF Filling, Called, NoSectorSharedOrLost
    <2> QED BY <2>3, <2>4
<1>15. TypeOK'
    <2>1. IsMap(partialSectors)'
        BY <1>1, <1>3, <1>7, <1>8 DEF IsMap, Values, b
    <2>2. IsMap(pendingSectors)'
        BY <1>u DEF TypeOK, IsMap, Values
    <2>3. ready' \subseteq Sector \cup {nullptr} /\ \A x, y \in ready' : x = y
        BY <1>2, <1>3, <1>u
    <2>4. freeSectors' \subseteq Sector /\ work' \subseteq Sector /\ finished' = finished
        BY <1>2, <1>3 DEF TypeOK
    <2> QED BY <1>0, <1>u, <1>6, <2>1, <2>2, <2>3, <2>4 DEF TypeOK
<1>16. NoSectorSharedOrLost'
    <2>1. freeSectors' = freeSectors \ {s} /\ Said("format")' = Said("format")
        BY <1>2 DEF Said
    <2>2. s \in freeSectors \/ s \in Filling
        BY <1>3 DEF Collecting, Filling
    <2>3. CASE ready' = ready
        BY <1>9, <1>13, <1>14, <2>1, <2>2, <2>3 DEF NoSectorSharedOrLost
    <2>4. CASE ready' # ready
        BY <1>9, <1>13, <1>14, <2>1, <2>2, <2>4 DEF NoSectorSharedOrLost
    <2> QED BY <2>3, <2>4
<1>17. Keys'
    <2>1. \A c \in DOMAIN partialSectors' : sector'[partialSectors'[c]].pos = c
        BY <1>2, <1>6, <1>7, <1>8
    <2>2. \A c \in DOMAIN pendingSectors : /\ pendingSectors[c] \in Sector \ {s}
                                            /\ sector[pendingSectors[c]].pos = c
        BY <1>9 DEF Pending, Values, Keys, TypeOK, IsMap
    <2>3. task.perBlock # 1 => \A t \in work' \cup after' : t \in Values(partialSectors')
        <3>1. ready' = ready => work' \subseteq work \cup {s}
            BY <1>2
        <3>2. ready' # ready => work' = work
            BY <1>2
        <3> QED BY <1>u, <1>7, <1>10, <1>12, <3>1, <3>2 DEF Keys
    <2> QED BY <1>u, <1>5, <1>6, <2>1, <2>2, <2>3 DEF Keys
<1>18. FreeIdle'
    BY <1>2, <1>6 DEF FreeIdle, TypeOK
<1>19. \A t \in Used : t # s => t \in Sector /\ sector'[t] = sector[t] /\ sector[t].pos < b
                                /\ sector[t].pos \in Nat
    BY <1>3, <1>6 DEF Used, TypeOK, SectorRecord
<1>20. Distinct'
    BY <1>1, <1>2, <1>6, <1>11, <1>19 DEF Distinct, b
<1>21. \A t : t \in Collecting' <=> ~full /\ t = s
    <2>1. Collecting' = Values(partialSectors') \ (work' \cup after)
        BY <1>u DEF Collecting
    <2>2. \A t \in Values(partialSectors) : t # s => t \in work \cup after
        <3>1. \A t \in Values(partialSectors) : t \in Used
            BY <1>8 DEF NoSectorSharedOrLost, Filling, Used, Values
        <3> QED BY <1>3, <3>1 DEF Collecting
    <2>3. work \subseteq work'
        BY <1>2
    <2>4. CASE full
        <3>1. s \in work' \/ b \notin DOMAIN partialSectors'
            BY <1>2, <1>7, <1>u, <2>4
        <3> QED BY <1>12, <2>1, <2>2, <2>3, <2>4, <3>1
    <2>5. CASE ~full
        <3>1. work' = work /\ b \in DOMAIN partialSectors'
            BY <1>2, <1>5, <1>7, <2>5
        <3> QED BY <1>10, <1>12, <2>1, <2>2, <2>5, <3>1
    <2> QED BY <2>4, <2>5
<1>22. Done' \in Nat /\ Done <= Done'
    BY <1>1, <1>4 DEF b
<1>23. ASSUME NEW t \in Used' PROVE Holds(t)'
    <2>1. CASE t # s
        <3>1. /\ t \in Used /\ t \notin Collecting /\ t \notin Collecting'
              /\ sector'[t] = sector[t] /\ sector[t].pos \in Nat
            BY <1>3, <1>11, <1>19, <1>21, <2>1
        <3>2. sector[t].pos < Done /\ sector[t].held = SectorsOf(sector[t].pos)
            BY <3>1 DEF Reception, Holds
        <3>3. sector[t].pos < Done'
            BY <1>1, <1>4, <1>22, <3>1, <3>2
        <3> QED BY <1>u, <3>1, <3>2, <3>3 DEF Holds, SectorsOf
    <2>2. CASE t = s /\ full
        <3>1. t \notin Collecting' /\ sector'[t] = q /\ q.pos = b /\ b < Done' /\ q.held = Lo .. Hi
            BY <1>1, <1>2, <1>4, <1>6, <1>21, <2>2
        <3>2. Lo .. Hi = SectorsOf(b)
            <4>1. (b + 1) * task.perBlock = Lo + task.perBlock
                BY <1>0, <1>1, <1>u, NextBlock DEF b, Lo
            <4>2. b * task.perBlock = Lo
                BY DEF b, Lo
            <4>3. Hi = Lo + task.perBlock - 1
                BY <2>2 DEF full
            <4> DEFINE x == (b + 1) * task.perBlock
            <4>4. SectorsOf(b) = Lo .. x - 1
                BY <4>2 DEF SectorsOf
            <4> HIDE DEF x
            <4>5. x = Lo + task.perBlock
                BY <4>1 DEF x
            <4> QED BY <1>0, <1>1, <4>3, <4>4, <4>5
        <3> QED BY <1>u, <3>1, <3>2 DEF Holds, SectorsOf
    <2>3. CASE t = s /\ ~full
        <3>1. /\ t \in Collecting' /\ sector'[t] = q /\ q.pos = b /\ ~q.enqueued
              /\ q.held = Lo .. Hi /\ q.readySize = Hi - Lo + 1
            BY <1>2, <1>6, <1>21, <2>3
        <3>2. Hi = received /\ received' < task.sectors /\ Block(received') = b
            BY <1>4, <2>3
        <3>3. Block(received)' = b /\ b * task.perBlock = Lo
            BY <1>u, <3>2 DEF Block, b, Lo
        <3>4. Hi - Lo + 1 = received' - Lo /\ received' - Lo > 0 /\ Lo .. Hi = Lo .. received' - 1
            BY <1>0, <1>1, <1>u, <3>2
        <3> QED BY <1>u, <3>1, <3>2, <3>3, <3>4 DEF Holds
    <2> QED BY <2>1, <2>2, <2>3
<1>24. Reception'
    <2>1. received' <= task.sectors
        BY <1>0, <1>u
    <2>2. ASSUME received' < task.sectors, received' # Block(received') * task.perBlock
          PROVE  Block(received') \in DOMAIN partialSectors'
        <3>1. ~full /\ Block(received') = b
            BY <1>4, <2>2
        <3> QED BY <1>2, <1>5, <1>7, <3>1
    <2>3. Block(received)' = Block(received')
        BY <1>u DEF Block
    <2> QED BY <1>u, <1>23, <2>1, <2>2, <2>3 DEF Reception
<1>25. Ahead'
    <2>1. srcPos <= Done'
        BY <1>0, <1>1, <1>4, <1>22 DEF Ahead
    <2>2. \A t \in Used' : srcPos <= sector'[t].pos
        BY <1>2, <1>4, <1>6, <1>11, <1>19 DEF Ahead
    <2>3. \A w \in writes : \A k \in 1 .. Len(w.batch) : w.batch[k] \in Sector \ {s}
        BY <1>9 DEF TypeOK, Writing, InBatch
    <2> QED BY <1>u, <1>6, <2>1, <2>2, <2>3 DEF Ahead
<1>26. Filed'
    BY <1>u DEF Filed, SectorsOf
<1> QED BY <1>15, <1>16, <1>17, <1>18, <1>20, <1>24, <1>25, <1>26

-----------------------------------------------------------------------------
(* The theorems *)

(* The invariant is inductive.                                               *)
LEMMA NextIInv == IInv /\ [Next]_vars => IInv'
<1> SUFFICES ASSUME IInv, [Next]_vars PROVE IInv'
    OBVIOUS
<1>1. CASE SetFile
    BY <1>1, SetFileIInv
<1>2. CASE Receive
    BY <1>2, ReceiveIInv
<1>3. CASE \E s \in Sector : Compress(s) \/ AfterWork(s)
    BY <1>3, CompressIInv, AfterWorkIInv
<1>4. CASE HandleReadyWait \/ HandleReadyReject \/ HandleReadySubmit
    BY <1>4, HandleReadyWaitIInv, HandleReadyRejectIInv, HandleReadySubmitIInv
<1>5. CASE \E w \in writes, ok \in BOOLEAN : HandleWrittenSectors(w, ok)
    BY <1>5, HandleWrittenSectorsIInv
<1>6. CASE AfterProgress
    BY <1>6, AfterProgressIInv
<1>7. CASE \E ok \in BOOLEAN : WriteIndexDone(ok)
    BY <1>7, WriteIndexDoneIInv
<1>8. CASE UNCHANGED vars
    <2>1. UNCHANGED <<task, freeSectors, sector, partialSectors, pendingSectors, work, after,
                      writes, flushes, srcPos, state, finished, file, ready, progress, received>>
        BY <1>8 DEF vars
    <2>2. TypeOK'
        BY <2>1 DEF IInv, TypeOK, IsMap, Values
    <2>3. NoSectorSharedOrLost'
        BY <2>1, Places DEF IInv, NoSectorSharedOrLost, Said
    <2> QED BY <2>1, <2>2, <2>3, Frame DEF IInv
<1> QED BY <1>1, <1>2, <1>3, <1>4, <1>5, <1>6, <1>7, <1>8 DEF Next

(* IInv holds of every state Output can be in.                               *)
LEMMA IInvHolds == Spec => []IInv
BY InitIInv, NextIInv, PTL DEF Spec

(* The type invariant.                                                       *)
THEOREM TypeCorrect == Spec => []TypeOK
<1>1. IInv => TypeOK
    BY DEF IInv
<1> QED BY <1>1, IInvHolds, PTL

(* No Sector is in two containers of Output (freeSectors_, partialSectors_   *)
(* or the workers, pendingSectors_, a write), and unless a format error was  *)
(* reported every Sector is in one of them.                                  *)
THEOREM SectorsArePlaced == Spec => []NoSectorSharedOrLost
<1>1. IInv => NoSectorSharedOrLost
    BY DEF IInv
<1> QED BY <1>1, IInvHolds, PTL

(* Enqueue never writes into the buffer of a Sector that is with a worker.   *)
THEOREM BuffersAreNotRaced == Spec => []NoBufferRace
<1>1. ASSUME IInv PROVE NoBufferRace
    <2> USE <1>1 DEF IInv
    <2> SUFFICES ASSUME received < task.sectors, Block(received) \in DOMAIN partialSectors
                 PROVE  partialSectors[Block(received)] \notin work \cup after
        BY DEF NoBufferRace
    <2> DEFINE s == partialSectors[Block(received)]
    <2>1. s \in Taker(received)
        BY DEF Taker
    <2>2. s \in Values(partialSectors) /\ s \in Filling
        BY DEF Values, Filling
    <2>3. s \in Collecting
        BY <2>1, <2>2, TakerFacts DEF NoSectorSharedOrLost
    <2> QED BY <2>3 DEF Collecting
<1> QED BY <1>1, IInvHolds, PTL

(* The file grows block by block in the order of the source, whatever order  *)
(* the workers finish in.                                                    *)
THEOREM FileIsInOrder == Spec => []FileInOrder
<1>1. ASSUME IInv PROVE FileInOrder
    <2> USE <1>1 DEF IInv
    <2>1. ASSUME NEW w \in writes, NEW k \in 1 .. Len(w.batch)
          PROVE  /\ sector[w.batch[k]].pos = srcPos + k - 1
                 /\ sector[w.batch[k]].held = SectorsOf(srcPos + k - 1)
        <3>1. w.batch[k] \in Sector /\ w.batch[k] \in Writing
            BY DEF TypeOK, Writing, InBatch
        <3>2. w.batch[k] \in Used /\ w.batch[k] \notin Collecting
            BY <3>1 DEF NoSectorSharedOrLost, Used, Collecting, Filling
        <3>3. sector[w.batch[k]].pos = srcPos + k - 1
            BY DEF Ahead
        <3> QED BY <3>2, <3>3 DEF Reception, Holds
    <2> QED BY <2>1 DEF FileInOrder, Ahead, Filed
<1> QED BY <1>1, IInvHolds, PTL
=============================================================================
