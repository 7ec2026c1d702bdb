---------------------------- MODULE TrialsProofs ----------------------------
(***************************************************************************)
(* A sector's trials, for any number of buffers, sizes of the results,     *)
(* blocks, and command lines: the buffers, what is in them, what the cost  *)
(* options allow, and the names of the outputs.                            *)
(***************************************************************************)
EXTENDS Trials, BufferPoolProofs, WellFoundedInduction

TrialName == LZ4HC \cup {"zlib", "filtered", "huffman", "rle", "zopfli", "7zip", "libdeflate", "lz4"}
WithLZ4 == Tries(LZ4HC \cup {"lz4"})

(* The rest of the types, and where the sector can be with what.             *)
Shape ==
    /\ args \in Args /\ trials \in Seq(TrialName) /\ smallest \in Nat
    /\ content \in [Buffer -> [fmt : {"OTHER", "ORIG", "DEFLATE", "LZ4"}, size : Nat]]
    /\ pc = "validate_args" => next = 1
    /\ pc \in {"Compress", "ready", "Release"} => buffer # None
    /\ pc \in {"validate_args", "refused", "free"} => Owned = {}
    /\ pc = "Release" => best = None
    /\ result # None => Running
    /\ \A x, y \in other : x = y

(* While its own buffers are its own, what has been written to them stays.   *)
Intact ==
    pc \in {"Compress", "ready"} =>
        /\ content[buffer] = Data("ORIG", blockSize)
        /\ IF best = None THEN bestSize = blockSize ELSE content[best] = Data(bestFmt, bestSize)

(* Between two trials: no result was smaller than the best by more than the  *)
(* cost of the original format, or of both if the best is lz4.               *)
Costs ==
    /\ pc = "Compress" /\ smallest # 0 =>
          bestSize <= smallest + args.origCost + (IF bestFmt = "LZ4" THEN args.lz4Cost ELSE 0)
    /\ pc \in {"Compress", "ready"} =>
          /\ bestFmt = "LZ4" => WithLZ4
          /\ Dax /\ bestFmt = "ORIG" => smallest = 0

Deflates ==
    Dax /\ pc \notin {"validate_args", "refused"} => \E i \in DOMAIN trials : FmtOf(trials[i]) = "DEFLATE"

TInv ==
    /\ IInv /\ TTypeOK /\ OwnBuffers /\ Shape /\ Intact
    /\ Costs /\ CostsCountOnce /\ Deflates

-----------------------------------------------------------------------------
(* The operators *)

(* What Alloc returns was nobody's; what is released is nobody's.            *)
LEMMA AllocIsFacts ==
    ASSUME IInv, NEW p \in Buffer, AllocIs(p)
    PROVE  IInv' /\ p \notin held /\ held' = held \cup {p}
<1>1. CASE free # <<>> /\ p = free[Len(free)] /\ Reuse
    <2>1. free \in Seq(Buffer) /\ Len(free) \in Nat /\ Len(free) > 0
        BY <1>1, EmptySeq, LenProperties DEF IInv, TypeOK
    <2>2. p \in InPool
        BY <1>1, <2>1 DEF InPool
    <2>3. p \notin held
        BY <2>2 DEF IInv, NoBufferShared
    <2> QED BY <1>1, <2>3, ReuseIInv DEF Reuse
<1>2. CASE Malloc(p)
    BY <1>2, MallocIInv DEF Malloc, Allocated
<1> QED BY <1>1, <1>2 DEF AllocIs

LEMMA ReleaseFacts ==
    ASSUME IInv, NEW p, Release(p)
    PROVE  IInv' /\ p \in Buffer /\ p \in held /\ held' = held \ {p}
BY ReleaseIInv DEF Release, IInv, TypeOK

(* Division with remainder, as two bounds.                                   *)
LEMMA DivBounds ==
    ASSUME NEW p \in Nat, NEW k \in Nat \ {0}
    PROVE  /\ p \div k \in Nat
           /\ (p \div k) * k <= p
           /\ p < (p \div k) * k + k
OBVIOUS

(* Aligned rounds up to the next multiple: it is monotonic, and what fits    *)
(* under something aligned fits there aligned.                               *)
LEMMA AlignedFacts ==
    ASSUME NEW x \in Nat, NEW y \in Nat
    PROVE  /\ Aligned(x) \in Nat /\ Aligned(x) >= x
           /\ x <= Aligned(y) => Aligned(x) <= Aligned(y)
<1> DEFINE q(n) == (n + align - 1) \div align
<1>1. align \in Nat \ {0}
    BY TrialsAssumption
<1>2. \A n \in Nat : /\ q(n) \in Nat /\ q(n) * align <= n + align - 1
                     /\ n + align - 1 < q(n) * align + align
    <2> TAKE n \in Nat
    <2>1. n + align - 1 \in Nat
        BY <1>1
    <2> QED BY <1>1, <2>1, DivBounds
<1>3. Aligned(x) = q(x) * align /\ Aligned(y) = q(y) * align
    BY DEF Aligned
<1> HIDE DEF q
<1>4. q(x) * align \in Nat /\ q(y) * align \in Nat /\ q(x) \in Nat /\ q(y) \in Nat
    BY <1>1, <1>2
<1>5. ASSUME x <= q(y) * align PROVE q(x) * align <= q(y) * align
    <2>1. q(x) * align < q(y) * align + align
        BY <1>1, <1>2, <1>4, <1>5
    <2>2. q(x) < q(y) + 1
        <3> SUFFICES ASSUME q(x) >= q(y) + 1 PROVE FALSE
            BY <1>4
        <3>1. q(x) * align >= (q(y) + 1) * align
            BY <1>1, <1>4
        <3>2. (q(y) + 1) * align = q(y) * align + align
            BY <1>1, <1>4
        <3> QED BY <1>1, <1>4, <2>1, <3>1, <3>2
    <2>3. q(x) <= q(y)
        BY <1>4, <2>2
    <2> QED BY <1>1, <1>4, <2>3
<1>6. x <= q(x) * align
    BY <1>1, <1>2, <1>4
<1> QED BY <1>3, <1>4, <1>5, <1>6

LEMMA AlignedMonotonic ==
    ASSUME NEW x \in Nat, NEW y \in Nat, x <= y
    PROVE  Aligned(x) <= Aligned(y)
BY AlignedFacts

(* The trials that Compress comes to.                                        *)
LEMMA CompressFacts ==
    ASSUME NEW flags
    PROVE  /\ Compress(flags) \in Seq(TrialName)
           /\ ~(deflateFlags \subseteq flags) =>
                  \E i \in DOMAIN Compress(flags) : FmtOf(Compress(flags)[i]) = "DEFLATE"
<1> DEFINE If(c, s) == IF c THEN s ELSE <<>>
           a == If("ZLIB_DEFAULT" \notin flags, <<"zlib">>)
           b == If("ZLIB_BRUTE" \notin flags, <<"filtered", "huffman", "rle">>)
           c == If("ZOPFLI" \notin flags, <<"zopfli">>)
           d == If("7ZIP" \notin flags, <<"7zip">>)
           e == If("LIBDEFLATE" \notin flags, <<"libdeflate">>)
           f == If(flags \cap {"LZ4_HC", "LZ4_HC_BRUTE"} = {}, <<"hc4", "hc7", "hc10", "hc13", "hc16">>)
           g == If("LZ4_DEFAULT" \notin flags, <<"lz4">>)
           S == TrialName
           Hits(q) == \E i \in 1 .. Len(q) : FmtOf(q[i]) = "DEFLATE"
<1>1. Compress(flags) = a \o b \o c \o d \o e \o f \o g
    BY DEF Compress
<1>2. a \in Seq(S) /\ b \in Seq(S) /\ c \in Seq(S) /\ d \in Seq(S) /\ e \in Seq(S)
      /\ f \in Seq(S) /\ g \in Seq(S)
    <2>1. <<>> \in Seq(S) /\ <<"zlib">> \in Seq(S) /\ <<"zopfli">> \in Seq(S) /\ <<"7zip">> \in Seq(S)
          /\ <<"libdeflate">> \in Seq(S) /\ <<"lz4">> \in Seq(S)
        BY DEF TrialName
    <2>2. <<"filtered", "huffman", "rle">> \in Seq(S)
        BY DEF TrialName
    <2>3. <<"hc4", "hc7", "hc10", "hc13", "hc16">> \in Seq(S)
        BY DEF TrialName, LZ4HC
    <2> QED BY <2>1, <2>2, <2>3
<1>3. ~(deflateFlags \subseteq flags) => Hits(a) \/ Hits(b) \/ Hits(c) \/ Hits(d) \/ Hits(e)
    <2>1. deflateFlags = {"ZLIB_DEFAULT", "ZLIB_BRUTE", "ZOPFLI", "7ZIP", "LIBDEFLATE"}
        BY DEF deflateFlags, NO_ALL, NO_ZLIB, NO_LZ4
    <2>2. FmtOf("zlib") = "DEFLATE" /\ FmtOf("filtered") = "DEFLATE" /\ FmtOf("zopfli") = "DEFLATE"
          /\ FmtOf("7zip") = "DEFLATE" /\ FmtOf("libdeflate") = "DEFLATE"
        BY DEF FmtOf, LZ4HC
    <2>3. "ZLIB_DEFAULT" \notin flags => Hits(a)
        BY <2>2
    <2>4. "ZLIB_BRUTE" \notin flags => Hits(b)
        <3> SUFFICES ASSUME "ZLIB_BRUTE" \notin flags PROVE Hits(b)
            OBVIOUS
        <3>1. Len(b) = 3 /\ b[1] = "filtered"
            OBVIOUS
        <3> QED BY <2>2, <3>1
    <2>5. "ZOPFLI" \notin flags => Hits(c)
        BY <2>2
    <2>6. "7ZIP" \notin flags => Hits(d)
        BY <2>2
    <2>7. "LIBDEFLATE" \notin flags => Hits(e)
        BY <2>2
    <2> QED BY <2>1, <2>3, <2>4, <2>5, <2>6, <2>7
<1>4. ASSUME NEW s \in Seq(S), NEW t \in Seq(S)
      PROVE  s \o t \in Seq(S) /\ (Hits(s) \/ Hits(t) => Hits(s \o t))
    <2>1. /\ s \o t \in Seq(S) /\ Len(s \o t) = Len(s) + Len(t) /\ Len(s) \in Nat /\ Len(t) \in Nat
          /\ \A i \in 1 .. Len(s) + Len(t) :
                (s \o t)[i] = IF i <= Len(s) THEN s[i] ELSE t[i - Len(s)]
        BY ConcatProperties, LenProperties
    <2>2. ASSUME Hits(s) PROVE Hits(s \o t)
        BY <2>1, <2>2
    <2>3. ASSUME Hits(t) PROVE Hits(s \o t)
        <3>1. PICK i \in 1 .. Len(t) : FmtOf(t[i]) = "DEFLATE"
            BY <2>3
        <3>2. Len(s) + i \in 1 .. Len(s \o t) /\ (s \o t)[Len(s) + i] = t[i]
            BY <2>1
        <3> QED BY <3>1, <3>2
    <2> QED BY <2>1, <2>2, <2>3
<1> HIDE DEF a, b, c, d, e, f, g, S, Hits
<1>5. a \o b \in Seq(S) /\ (Hits(a) \/ Hits(b) => Hits(a \o b))
    BY <1>2, <1>4
<1>6. (a \o b) \o c \in Seq(S) /\ (Hits(a \o b) \/ Hits(c) => Hits((a \o b) \o c))
    BY <1>2, <1>4, <1>5
<1>7. ((a \o b) \o c) \o d \in Seq(S) /\ (Hits((a \o b) \o c) \/ Hits(d) => Hits(((a \o b) \o c) \o d))
    BY <1>2, <1>4, <1>6
<1> DEFINE h == ((a \o b) \o c) \o d
<1> HIDE DEF h
<1>8. h \in Seq(S) /\ h \o e \in Seq(S) /\ (Hits(h) \/ Hits(e) => Hits(h \o e))
    BY <1>2, <1>4, <1>7 DEF h
<1>9. (h \o e) \o f \in Seq(S) /\ (Hits(h \o e) => Hits((h \o e) \o f))
    BY <1>2, <1>4, <1>8
<1>10. ((h \o e) \o f) \o g \in Seq(S) /\ (Hits((h \o e) \o f) => Hits(((h \o e) \o f) \o g))
    BY <1>2, <1>4, <1>9
<1>11. Compress(flags) = ((h \o e) \o f) \o g
    BY <1>1 DEF h
<1>12. Compress(flags) \in Seq(S) /\ (~(deflateFlags \subseteq flags) => Hits(Compress(flags)))
    BY <1>3, <1>5, <1>6, <1>7, <1>8, <1>9, <1>10, <1>11 DEF h
<1>13. DOMAIN Compress(flags) = 1 .. Len(Compress(flags))
    BY <1>12, LenProperties
<1> QED BY <1>12, <1>13 DEF Hits, S

-----------------------------------------------------------------------------
(* The steps *)

LEMMA InitTInv == TInit => TInv
<1> SUFFICES ASSUME TInit PROVE TInv
    OBVIOUS
<1> USE DEF TInit, None
<1>1. IInv
    BY InitIInv
<1>2. trials \in Seq(TrialName) /\ Len(trials) = 0
    BY EmptySeq
<1>3. TTypeOK
    BY <1>1, <1>2 DEF TTypeOK, IInv
<1>4. Owned = {} /\ held = {}
    BY DEF Owned, Init
<1>5. OwnBuffers
    BY <1>4 DEF OwnBuffers
<1>6. Shape
    BY <1>2, <1>4 DEF Shape, Data
<1>7. Intact /\ Costs /\ CostsCountOnce /\ Deflates
    BY DEF Intact, Costs, CostsCountOnce, Deflates
<1> QED BY <1>1, <1>3, <1>5, <1>6, <1>7 DEF TInv

(* validate_args: a command line for DAX without deflate is not accepted.    *)
LEMMA ValidateTInv ==
    ASSUME TInv, validate_args
    PROVE  TInv'
<1> USE DEF TInv
<1>1. /\ UNCHANGED <<pool, args, next, sector, result, smallest, content, other, blocks>>
      /\ pc = "validate_args" /\ pc' = IF Refused(args) THEN "refused" ELSE "free"
      /\ trials' = Compress(flags_final(args))
    BY DEF validate_args
<1>2. /\ trials' \in Seq(TrialName) /\ Len(trials') \in Nat
      /\ ~(deflateFlags \subseteq flags_final(args)) =>
             \E i \in DOMAIN trials' : FmtOf(trials'[i]) = "DEFLATE"
    BY <1>1, CompressFacts, LenProperties
<1>3. IInv'
    BY <1>1 DEF IInv, pool, TypeOK, BuffersFit, NoBufferShared, AllBuffersCounted, Allocated, InPool
<1>4. Owned' = Owned /\ Owned = {} /\ next = 1
    BY <1>1 DEF Owned, Shape, sector
<1>5. pc' \in {"refused", "free"}
    BY <1>1
<1>6. TTypeOK'
    BY <1>1, <1>2, <1>3, <1>4, <1>5 DEF TTypeOK, sector, IInv
<1>7. OwnBuffers'
    BY <1>1, <1>4 DEF OwnBuffers, sector, pool
<1>8. Shape'
    BY <1>1, <1>2, <1>4, <1>5 DEF Shape, Owned, Running
<1>9. Intact' /\ Costs' /\ CostsCountOnce'
    BY <1>5 DEF Intact, Costs, CostsCountOnce
<1>10. Deflates'
    <2>1. Dax' /\ pc' = "free" => ~(deflateFlags \subseteq flags_final(args))
        BY <1>1 DEF Dax, Refused, DaxRefused
    <2> QED BY <1>2, <1>5, <2>1 DEF Deflates
<1> QED BY <1>3, <1>6, <1>7, <1>8, <1>9, <1>10

(* SetBufferSize leaves the sector alone.                                    *)
LEMMA StartTaskTInv ==
    ASSUME TInv, NEW n \in Sizes, StartTask(n)
    PROVE  TInv'
<1> USE DEF TInv
<1>1. /\ UNCHANGED <<fixed, pc, next, sector, result, smallest, content, other, blocks>>
      /\ SetBufferSize(n)
    BY DEF StartTask
<1>2. IInv' /\ held' = held
    BY <1>1, SetBufferSizeIInv DEF SetBufferSize
<1>3. TTypeOK'
    BY <1>1 DEF TTypeOK, fixed, sector
<1>4. OwnBuffers'
    BY <1>1, <1>2 DEF OwnBuffers, Owned, sector
<1>5. Shape'
    BY <1>1 DEF Shape, Running, fixed, sector, Owned
<1>6. Intact' /\ Costs' /\ CostsCountOnce' /\ Deflates'
    BY <1>1 DEF Intact, Costs, CostsCountOnce, Deflates, Dax, WithLZ4, Tries, fixed, sector
<1> QED BY <1>2, <1>3, <1>4, <1>5, <1>6

(* Process: the block in a buffer of its own.                                *)
LEMMA ProcessTInv ==
    ASSUME TInv, NEW p \in Buffer, NEW c \in BOOLEAN, Process(p, c)
    PROVE  TInv'
<1> USE DEF TInv
<1>1. /\ UNCHANGED <<fixed, best, result, other>> /\ pc = "free" /\ AllocIs(p) /\ buffer' = p
      /\ content' = [content EXCEPT ![p] = Data("ORIG", blockSize)]
      /\ bestSize' = blockSize /\ bestFmt' = "ORIG" /\ next' = 1 /\ smallest' = 0
      /\ pc' \in {"Compress", "ready"}
    BY DEF Process
<1>2. IInv' /\ p \notin held /\ held' = held \cup {p}
    BY <1>1, AllocIsFacts
<1>3. buffer = None /\ best = None /\ result = None
    BY <1>1 DEF Shape, Owned
<1>4. p # None
    BY TrialsAssumption
<1>5. blockSize \in Nat
    BY TrialsAssumption
<1>6. Len(trials) \in Nat /\ trials' = trials /\ args' = args
    BY <1>1, LenProperties DEF fixed, Shape
<1>7. TTypeOK'
    BY <1>1, <1>2, <1>3, <1>5, <1>6 DEF TTypeOK, IInv
<1>8. OwnBuffers'
    BY <1>1, <1>2, <1>3, <1>4 DEF OwnBuffers, Owned
<1>9. content' \in [Buffer -> [fmt : {"OTHER", "ORIG", "DEFLATE", "LZ4"}, size : Nat]]
      /\ content'[p] = Data("ORIG", blockSize)
    BY <1>1, <1>5 DEF Shape, Data
<1>10. Shape'
    BY <1>1, <1>3, <1>4, <1>6, <1>9 DEF Shape, Running
<1>11. Intact'
    BY <1>1, <1>3, <1>9 DEF Intact
<1>12. Costs' /\ CostsCountOnce'
    BY <1>1, <1>3 DEF Costs, CostsCountOnce
<1>13. Deflates'
    BY <1>1, <1>6 DEF Deflates, Dax
<1> QED BY <1>2, <1>7, <1>8, <1>10, <1>11, <1>12, <1>13

(* The buffer for a trial is a third one.                                    *)
LEMMA TrialAllocsTInv ==
    ASSUME TInv, NEW p \in Buffer, TrialAllocs(p)
    PROVE  TInv'
<1> USE DEF TInv
<1>1. /\ UNCHANGED <<fixed, pc, next, sector, smallest, content, other, blocks>>
      /\ Running /\ result = None /\ AllocIs(p) /\ result' = p
    BY DEF TrialAllocs
<1>2. IInv' /\ p \notin held /\ held' = held \cup {p} /\ p # None
    BY <1>1, AllocIsFacts, TrialsAssumption
<1>3. pc = "Compress"
    BY <1>1 DEF Running
<1>4. TTypeOK'
    BY <1>1, <1>2 DEF TTypeOK, IInv, fixed, sector
<1>5. OwnBuffers'
    BY <1>1, <1>2, <1>3 DEF OwnBuffers, Owned, sector
<1>6. Shape'
    BY <1>1, <1>2, <1>3 DEF Shape, Running, fixed, sector
<1>7. Intact' /\ Costs' /\ CostsCountOnce' /\ Deflates'
    BY <1>1 DEF Intact, Costs, CostsCountOnce, Deflates, Dax, WithLZ4, Tries, fixed, sector
<1> QED BY <1>2, <1>4, <1>5, <1>6, <1>7

(* A trial that comes to nothing leaves everything as it was.                *)
LEMMA TrialEndsTInv ==
    ASSUME TInv, TrialSkipped \/ TrialFails
    PROVE  TInv'
<1> USE DEF TInv
<1>1. /\ UNCHANGED <<fixed, pc, sector, smallest, content, other, blocks>>
      /\ Running /\ next' = next + 1 /\ result' = None
    BY DEF TrialSkipped, TrialFails
<1>2. pc = "Compress" /\ next \in Nat /\ next' \in 1 .. Len(trials) + 1
    <2>1. Len(trials) \in Nat
        BY LenProperties DEF Shape
    <2> QED BY <1>1, <2>1 DEF Running, TTypeOK
<1>3. IInv' /\ held' = held \ ({result} \ {None})
    <2>1. CASE TrialSkipped
        BY <2>1 DEF TrialSkipped, pool, IInv, TypeOK, BuffersFit, NoBufferShared, AllBuffersCounted,
           Allocated, InPool
    <2>2. CASE TrialFails
        BY <2>2, ReleaseFacts DEF TrialFails
    <2> QED BY <2>1, <2>2
<1>4. TTypeOK'
    BY <1>1, <1>2, <1>3 DEF TTypeOK, IInv, fixed, sector
<1>5. OwnBuffers'
    BY <1>1, <1>2, <1>3 DEF OwnBuffers, Owned, sector
<1>6. Shape'
    BY <1>1, <1>2 DEF Shape, Running, fixed, sector
<1>7. Intact' /\ Costs' /\ CostsCountOnce' /\ Deflates'
    BY <1>1 DEF Intact, Costs, CostsCountOnce, Deflates, Dax, WithLZ4, Tries, fixed, sector
<1> QED BY <1>3, <1>4, <1>5, <1>6, <1>7

(* Release, in two steps.                                                    *)
LEMMA ReleaseBestTInv ==
    ASSUME TInv, ReleaseBest
    PROVE  TInv'
<1> USE DEF TInv
<1>1. /\ UNCHANGED <<fixed, next, buffer, bestSize, bestFmt, result, smallest, content, other, blocks>>
      /\ pc = "ready" /\ best # None /\ Release(best) /\ best' = None /\ pc' = "Release"
    BY DEF ReleaseBest
<1>2. IInv' /\ best \in held /\ held' = held \ {best}
    BY <1>1, ReleaseFacts
<1>3. result = None /\ buffer # None
    BY <1>1 DEF Shape, Running
<1>4. TTypeOK'
    BY <1>1, <1>2 DEF TTypeOK, IInv, fixed
<1>5. OwnBuffers'
    BY <1>1, <1>2, <1>3 DEF OwnBuffers, Owned
<1>6. Shape'
    BY <1>1, <1>3 DEF Shape, Running, fixed
<1>7. Intact' /\ Costs' /\ CostsCountOnce' /\ Deflates'
    BY <1>1 DEF Intact, Costs, CostsCountOnce, Deflates, Dax, fixed
<1> QED BY <1>2, <1>4, <1>5, <1>6, <1>7

LEMMA ReleaseBufferTInv ==
    ASSUME TInv, ReleaseBuffer
    PROVE  TInv'
<1> USE DEF TInv
<1>1. /\ UNCHANGED <<fixed, next, best, bestSize, bestFmt, result, smallest, content, other, blocks>>
      /\ pc = "Release" \/ (pc = "ready" /\ best = None)
      /\ Release(buffer) /\ buffer' = None /\ pc' = "free"
    BY DEF ReleaseBuffer
<1>2. IInv' /\ buffer \in held /\ held' = held \ {buffer}
    BY <1>1, ReleaseFacts
<1>3. result = None /\ best = None /\ buffer # None
    BY <1>1 DEF Shape, Running
<1>4. TTypeOK'
    BY <1>1, <1>2 DEF TTypeOK, IInv, fixed
<1>5. OwnBuffers'
    BY <1>1, <1>2, <1>3 DEF OwnBuffers, Owned
<1>6. Shape'
    BY <1>1, <1>3 DEF Shape, Running, fixed, Owned
<1>7. Intact' /\ Costs' /\ CostsCountOnce' /\ Deflates'
    BY <1>1 DEF Intact, Costs, CostsCountOnce, Deflates, Dax, fixed
<1> QED BY <1>2, <1>4, <1>5, <1>6, <1>7

(* Another thread writes only to what nobody held.                           *)
LEMMA OtherAllocsTInv ==
    ASSUME TInv, NEW p \in Buffer, OtherAllocs(p)
    PROVE  TInv'
<1> USE DEF TInv
<1>1. /\ UNCHANGED <<fixed, pc, next, sector, result, smallest, blocks>>
      /\ other = {} /\ AllocIs(p) /\ other' = {p}
      /\ content' = [content EXCEPT ![p] = Data("OTHER", 0)]
    BY DEF OtherAllocs
<1>2. IInv' /\ p \notin held /\ held' = held \cup {p} /\ p # None
    BY <1>1, AllocIsFacts, TrialsAssumption
<1>3. p # buffer /\ p # best /\ p \notin Owned
    BY <1>2 DEF OwnBuffers, Owned
<1>4. /\ content' \in [Buffer -> [fmt : {"OTHER", "ORIG", "DEFLATE", "LZ4"}, size : Nat]]
      /\ \A x \in Buffer \ {p} : content'[x] = content[x]
    BY <1>1 DEF Shape, Data
<1>5. TTypeOK'
    BY <1>1, <1>2 DEF TTypeOK, IInv, fixed, sector
<1>6. OwnBuffers'
    BY <1>1, <1>2, <1>3 DEF OwnBuffers, Owned, sector
<1>7. Shape'
    BY <1>1, <1>4 DEF Shape, Running, fixed, sector, Owned
<1>8. Intact'
    BY <1>1, <1>3, <1>4 DEF Intact, sector, Shape, TTypeOK
<1>9. Costs' /\ CostsCountOnce' /\ Deflates'
    BY <1>1 DEF Costs, CostsCountOnce, Deflates, Dax, WithLZ4, Tries, fixed, sector
<1> QED BY <1>2, <1>5, <1>6, <1>7, <1>8, <1>9

LEMMA OtherReleasesTInv ==
    ASSUME TInv, NEW p \in Buffer, OtherReleases(p)
    PROVE  TInv'
<1> USE DEF TInv
<1>1. /\ UNCHANGED <<fixed, pc, next, sector, result, smallest, content, blocks>>
      /\ p \in other /\ Release(p) /\ other' = {}
    BY DEF OtherReleases
<1>2. IInv' /\ held' = held \ {p}
    BY <1>1, ReleaseFacts
<1>3. TTypeOK'
    BY <1>1, <1>2 DEF TTypeOK, IInv, fixed, sector
<1>4. other = {p}
    BY <1>1 DEF Shape
<1>5. OwnBuffers'
    BY <1>1, <1>2, <1>4 DEF OwnBuffers, Owned, sector
<1>6. Shape'
    BY <1>1 DEF Shape, Running, fixed, sector, Owned
<1>7. Intact' /\ Costs' /\ CostsCountOnce' /\ Deflates'
    BY <1>1 DEF Intact, Costs, CostsCountOnce, Deflates, Dax, WithLZ4, Tries, fixed, sector
<1> QED BY <1>2, <1>3, <1>5, <1>6, <1>7

(* The rules of SubmitTrial: whatever the order of the results, the best one *)
(* is within the costs of each.                                              *)
LEMMA SubmitTrialCosts ==
    ASSUME TInv, NEW n \in TrialSizes, Running,
           NEW size1 \in Nat, NEW fmt1,
           \/ Better(n, FmtOf(Trial)) /\ size1 = n /\ fmt1 = FmtOf(Trial)
           \/ ~Better(n, FmtOf(Trial)) /\ size1 = bestSize /\ fmt1 = bestFmt,
           NEW small1, small1 = IF smallest = 0 \/ n < smallest THEN n ELSE smallest
    PROVE  /\ small1 \in Nat /\ small1 # 0
           /\ size1 <= small1 + args.origCost + (IF fmt1 = "LZ4" THEN args.lz4Cost ELSE 0)
           /\ fmt1 = "LZ4" => WithLZ4
           /\ Dax => fmt1 # "ORIG"
<1> USE DEF TInv
<1> DEFINE o == args.origCost
           l == args.lz4Cost
           f == FmtOf(Trial)
<1>1. n \in Nat /\ n # 0 /\ o \in Nat /\ l \in Nat /\ bestSize \in Nat /\ smallest \in Nat
    BY TrialsAssumption, CostAssumption DEF Shape, TTypeOK
<1>2. f \in {"DEFLATE", "LZ4"} /\ bestFmt \in {"ORIG", "DEFLATE", "LZ4"}
    BY DEF FmtOf, TTypeOK
<1>3. f = "LZ4" => WithLZ4
    <2>1. next \in DOMAIN trials
        <3>1. DOMAIN trials = 1 .. Len(trials) /\ Len(trials) \in Nat
            BY LenProperties DEF Shape
        <3> QED BY <3>1 DEF Running, TTypeOK
    <2> QED BY <2>1 DEF FmtOf, WithLZ4, Tries, Trial
<1>4. /\ smallest # 0 => bestSize <= smallest + o + (IF bestFmt = "LZ4" THEN l ELSE 0)
      /\ bestFmt = "LZ4" => WithLZ4
      /\ Dax /\ bestFmt = "ORIG" => smallest = 0
    BY DEF Running, Costs
<1>5. Better(n, f) <=>
          IF f = "LZ4" /\ bestFmt = "DEFLATE" THEN n <= bestSize + l
          ELSE IF f = "DEFLATE" /\ bestFmt = "LZ4" THEN n + l < bestSize
          ELSE n + o < bestSize \/ (Dax /\ bestFmt = "ORIG")
    BY DEF Better
<1>6. /\ small1 \in Nat /\ small1 # 0 /\ (smallest = 0 => small1 = n)
      /\ small1 <= n /\ (smallest # 0 => small1 <= smallest) /\ small1 \in {n, smallest}
    BY <1>1
<1> HIDE DEF f, o, l
<1>7. CASE Better(n, f)
    <2>1. size1 = n /\ fmt1 = f
        BY <1>7 DEF f
    <2>2. n <= small1 + o + (IF f = "LZ4" THEN l ELSE 0)
        <3>1. CASE small1 = n
            BY <1>1, <3>1
        <3>2. CASE small1 = smallest /\ smallest # 0
            BY <1>1, <1>2, <1>4, <1>5, <1>7, <3>2
        <3> QED BY <1>6, <3>1, <3>2
    <2> QED BY <1>2, <1>3, <1>6, <2>1, <2>2 DEF o, l
<1>8. CASE ~Better(n, f)
    <2>1. size1 = bestSize /\ fmt1 = bestFmt
        BY <1>8 DEF f
    <2>2. bestSize <= small1 + o + (IF bestFmt = "LZ4" THEN l ELSE 0)
        <3>1. CASE small1 = n
            BY <1>1, <1>2, <1>5, <1>8, <3>1
        <3>2. CASE small1 = smallest /\ smallest # 0
            BY <1>1, <1>4, <3>2
        <3> QED BY <1>6, <3>1, <3>2
    <2>3. Dax => bestFmt # "ORIG"
        BY <1>2, <1>5, <1>8
    <2> QED BY <1>4, <1>6, <2>1, <2>2, <2>3 DEF o, l
<1> QED BY <1>7, <1>8

(* SubmitTrial: one of the two buffers goes back to the pool.                *)
LEMMA SubmitTrialTInv ==
    ASSUME TInv, NEW n \in TrialSizes, SubmitTrial(n)
    PROVE  TInv'
<1> USE DEF TInv
<1> DEFINE f == FmtOf(Trial)
<1>1. /\ UNCHANGED <<fixed, pc, buffer, other, blocks>>
      /\ Running /\ result # None /\ result' = None /\ next' = next + 1
      /\ content' = [content EXCEPT ![result] = Data(f, n)]
      /\ smallest' = IF smallest = 0 \/ n < smallest THEN n ELSE smallest
    BY DEF SubmitTrial
<1>2. \/ Better(n, f) /\ Keep(n, f)
      \/ ~Better(n, f) /\ Release(result) /\ UNCHANGED <<best, bestSize, bestFmt>>
    BY DEF SubmitTrial
<1>3. /\ pc = "Compress" /\ next' \in 1 .. Len(trials) + 1 /\ n \in Nat
      /\ result \in Buffer /\ buffer \in Buffer /\ buffer # None
      /\ buffer # result /\ buffer # best /\ best # result
      /\ trials' = trials /\ args' = args
    <2>1. Len(trials) \in Nat
        BY LenProperties DEF Shape
    <2> QED BY <1>1, <2>1, TrialsAssumption DEF Running, TTypeOK, Shape, OwnBuffers, fixed
<1>4. f \in {"DEFLATE", "LZ4"}
    BY DEF FmtOf
<1> HIDE DEF f
<1>5. \/ /\ Better(n, f) /\ best' = result /\ bestSize' = n /\ bestFmt' = f
         /\ IInv' /\ held' = held \ ({best} \ {None})
      \/ /\ ~Better(n, f) /\ UNCHANGED <<best, bestSize, bestFmt>>
         /\ IInv' /\ held' = held \ {result}
    <2>1. CASE Better(n, f) /\ Keep(n, f)
        <3>1. CASE best # None
            BY <2>1, <3>1, ReleaseFacts DEF Keep
        <3>2. CASE best = None
            BY <2>1, <3>2 DEF Keep, pool, IInv, TypeOK, BuffersFit, NoBufferShared,
               AllBuffersCounted, Allocated, InPool
        <3> QED BY <2>1, <3>1, <3>2 DEF Keep
    <2>2. CASE ~Better(n, f) /\ Release(result) /\ UNCHANGED <<best, bestSize, bestFmt>>
        BY <2>2, ReleaseFacts
    <2> QED BY <1>2, <2>1, <2>2
<1>6. /\ content' \in [Buffer -> [fmt : {"OTHER", "ORIG", "DEFLATE", "LZ4"}, size : Nat]]
      /\ content'[result] = Data(f, n)
      /\ \A x \in Buffer \ {result} : content'[x] = content[x]
    BY <1>1, <1>3, <1>4 DEF Shape, Data
<1>7. /\ smallest' \in Nat /\ smallest' # 0
      /\ bestSize' <= smallest' + args.origCost + (IF bestFmt' = "LZ4" THEN args.lz4Cost ELSE 0)
      /\ bestFmt' = "LZ4" => WithLZ4
      /\ Dax => bestFmt' # "ORIG"
    <2>1. bestSize' \in Nat
        BY <1>3, <1>5 DEF TTypeOK
    <2> QED BY <1>1, <1>5, <2>1, SubmitTrialCosts DEF f
<1>8. TTypeOK'
    BY <1>1, <1>3, <1>4, <1>5 DEF TTypeOK, IInv, fixed
<1>9. OwnBuffers'
    <2>1. held = Owned \cup other /\ Owned \cap other = {} /\ Owned = {buffer, best, result} \ {None}
        BY DEF OwnBuffers, Owned
    <2>2. held' = Owned' \cup other' /\ Owned' \cap other' = {}
        BY <1>1, <1>3, <1>5, <2>1 DEF Owned
    <2> QED BY <1>1, <1>3, <1>5, <2>2 DEF OwnBuffers
<1>10. Shape'
    BY <1>1, <1>3, <1>6, <1>7 DEF Shape
<1>11. Intact'
    <2>1. best # None => best \in Buffer \ {result}
        BY <1>3 DEF TTypeOK
    <2> QED BY <1>1, <1>3, <1>5, <1>6, <2>1 DEF Intact
<1>12. Costs'
    <2>1. WithLZ4' = WithLZ4 /\ Dax' = Dax /\ pc' = pc
        BY <1>1, <1>3 DEF WithLZ4, Tries, Dax
    <2> QED BY <1>3, <1>7, <2>1 DEF Costs
<1>13. CostsCountOnce' /\ Deflates'
    BY <1>1, <1>3 DEF CostsCountOnce, Deflates, Dax
<1> QED BY <1>5, <1>8, <1>9, <1>10, <1>11, <1>12, <1>13

(* FinalizeBest: what does not pay with its padding is stored as it is.      *)
LEMMA FinalizeBestTInv ==
    ASSUME TInv, FinalizeBest
    PROVE  TInv'
<1> USE DEF TInv
<1> DEFINE Drop == Aligned(bestSize) >= blockSize /\ best # None /\ ~Dax
           o == args.origCost
           l == args.lz4Cost
<1>1. /\ UNCHANGED <<fixed, next, buffer, result, smallest, content, other, blocks>>
      /\ pc = "Compress" /\ next > Len(trials) /\ pc' = "ready"
    BY DEF FinalizeBest
<1>2. \/ Drop /\ Release(best) /\ best' = None /\ bestSize' = blockSize /\ bestFmt' = "ORIG"
      \/ ~Drop /\ UNCHANGED <<pool, best, bestSize, bestFmt>>
    BY DEF FinalizeBest
<1>3. result = None
    <2>1. Len(trials) \in Nat /\ next \in Nat
        BY LenProperties DEF Shape, TTypeOK
    <2> QED BY <1>1, <2>1 DEF Shape, Running
<1>4. IInv' /\ (Drop => held' = held \ {best}) /\ (~Drop => held' = held)
    <2>1. CASE Drop
        BY <1>2, <2>1, ReleaseFacts
    <2>2. CASE ~Drop
        BY <1>2, <2>2 DEF pool, IInv, TypeOK, BuffersFit, NoBufferShared, AllBuffersCounted,
           Allocated, InPool
    <2> QED BY <2>1, <2>2
<1>5. /\ bestSize \in Nat /\ bestSize' \in Nat /\ o \in Nat /\ l \in Nat /\ smallest \in Nat
      /\ blockSize \in Nat /\ args' = args /\ trials' = trials
    BY <1>1, <1>2, TrialsAssumption, CostAssumption DEF TTypeOK, Shape, fixed
<1>6. bestFmt \in {"ORIG", "DEFLATE", "LZ4"} /\ (bestFmt = "ORIG") = (best = None)
    BY <1>1 DEF TTypeOK
<1>7. TTypeOK'
    BY <1>1, <1>2, <1>4, <1>5, <1>6 DEF TTypeOK, IInv, fixed
<1>8. OwnBuffers'
    <2>1. CASE Drop
        BY <1>1, <1>2, <1>3, <1>4, <2>1 DEF OwnBuffers, Owned
    <2>2. CASE ~Drop
        BY <1>1, <1>2, <1>3, <1>4, <2>2 DEF OwnBuffers, Owned
    <2> QED BY <2>1, <2>2
<1>9. Shape'
    BY <1>1, <1>3, <1>5 DEF Shape
<1>10. Intact'
    BY <1>1, <1>2 DEF Intact
<1>11. Costs'
    <2>1. WithLZ4' = WithLZ4 /\ Dax' = Dax
        BY <1>5 DEF WithLZ4, Tries, Dax
    <2> QED BY <1>1, <1>2, <2>1 DEF Costs
<1>12. CostsCountOnce'
    <2>1. ASSUME smallest # 0, NEW c \in Nat, bestSize <= smallest + o + c
          PROVE  Aligned(bestSize') <= Aligned(smallest + o + c)
        <3>1. smallest + o + c \in Nat
            BY <1>5
        <3>2. Aligned(bestSize) <= Aligned(smallest + o + c)
            BY <1>5, <2>1, <3>1, AlignedMonotonic
        <3>3. CASE bestSize' = bestSize
            BY <3>2, <3>3
        <3>4. CASE bestSize' = blockSize /\ Aligned(bestSize) >= blockSize
            <4>1. Aligned(bestSize) \in Nat /\ Aligned(smallest + o + c) \in Nat
                BY <1>5, <3>1, AlignedFacts
            <4>2. blockSize <= Aligned(smallest + o + c)
                BY <1>5, <3>2, <3>4, <4>1
            <4> QED BY <1>5, <3>1, <3>4, <4>2, AlignedFacts
        <3> QED BY <1>2, <3>3, <3>4
    <2>2. smallest # 0 => bestSize <= smallest + o + (IF bestFmt = "LZ4" THEN l ELSE 0)
        BY <1>1 DEF Costs
    <2>3. bestFmt = "LZ4" => WithLZ4
        BY <1>1 DEF Costs
    <2>4. smallest # 0 => Aligned(bestSize') <= Aligned(smallest + o + l)
        <3> SUFFICES ASSUME smallest # 0 PROVE Aligned(bestSize') <= Aligned(smallest + o + l)
            OBVIOUS
        <3>1. bestSize <= smallest + o + l
            BY <1>5, <2>2
        <3> QED BY <1>5, <2>1, <3>1
    <2>5. ASSUME smallest # 0, bestFmt' = "DEFLATE" \/ ~WithLZ4
          PROVE  Aligned(bestSize') <= Aligned(smallest + o)
        <3>1. bestSize <= smallest + o + 0
            BY <1>2, <1>5, <2>2, <2>3, <2>5
        <3>2. Aligned(bestSize') <= Aligned(smallest + o + 0)
            BY <2>1, <2>5, <3>1
        <3>3. smallest + o + 0 = smallest + o
            BY <1>5
        <3> QED BY <3>2, <3>3
    <2>6. best' # None /\ ~Dax => Aligned(bestSize') < blockSize
        <3>1. Aligned(bestSize) \in Nat
            BY <1>5, AlignedFacts
        <3> QED BY <1>2, <1>5, <3>1
    <2>7. /\ smallest' = smallest /\ args' = args /\ Dax' = Dax
          /\ Tries(LZ4HC \cup {"lz4"})' = WithLZ4
          /\ Aligned(bestSize)' = Aligned(bestSize') /\ Aligned(smallest + o)' = Aligned(smallest + o)
          /\ Aligned(smallest + o + l)' = Aligned(smallest + o + l)
        BY <1>1, <1>5 DEF Dax, Tries, WithLZ4, Aligned
    <2> QED BY <2>4, <2>5, <2>6, <2>7 DEF CostsCountOnce
<1>13. Deflates'
    BY <1>1, <1>5 DEF Deflates, Dax
<1> QED BY <1>4, <1>7, <1>8, <1>9, <1>10, <1>11, <1>12, <1>13

LEMMA NextTInv ==
    ASSUME TInv, [TNext]_tvars
    PROVE  TInv'
<1>1. CASE TNext
    BY <1>1, ValidateTInv, StartTaskTInv, ProcessTInv, TrialAllocsTInv, TrialEndsTInv, SubmitTrialTInv,
       FinalizeBestTInv, ReleaseBestTInv, ReleaseBufferTInv, OtherAllocsTInv, OtherReleasesTInv
       DEF TNext
<1>2. CASE UNCHANGED tvars
    <2>1. UNCHANGED <<bufferSize, allocations, free, held, size, args, trials, pc, next, buffer, best,
                      bestSize, bestFmt, result, smallest, content, other, blocks>>
        BY <1>2 DEF tvars, pool, fixed, sector
    <2>2. IInv'
        BY <2>1 DEF TInv, IInv, TypeOK, BuffersFit, NoBufferShared, AllBuffersCounted,
           Allocated, InPool
    <2>3. TTypeOK' /\ OwnBuffers' /\ Shape' /\ Intact'
        BY <2>1, <2>2 DEF TInv, IInv, TTypeOK, OwnBuffers, Owned, Shape, Running, Intact
    <2>4. Costs' /\ CostsCountOnce' /\ Deflates'
        BY <2>1 DEF TInv, Costs, CostsCountOnce, Deflates, Dax, Tries, WithLZ4
    <2> QED BY <2>2, <2>3, <2>4 DEF TInv
<1> QED BY <1>1, <1>2

LEMMA TInvHolds == TSpec => []TInv
BY InitTInv, NextTInv, PTL DEF TSpec

-----------------------------------------------------------------------------
(* The names of the outputs: validate_args' loop, by induction over inputs.  *)

Name == [dir : STRING, base : STRING, ext : STRING]

LEMMA LeastName ==
    ASSUME NEW T \in SUBSET Nat, T # {}
    PROVE  \E n \in T : \A m \in T : n <= m
<1> DEFINE R == OpToRel(<, Nat)
<1>1. IsWellFoundedOn(R, Nat)
    BY NatLessThanWellFounded
<1>2. \A x, y \in Nat : x < y => <<x, y>> \in R
    BY DEF OpToRel
<1> HIDE DEF R
<1>3. PICK x \in T : \A y \in T : ~(<<y, x>> \in R)
    BY <1>1, WFMin
<1>4. ASSUME NEW y \in T PROVE x <= y
    <2>1. x \in Nat /\ y \in Nat
        OBVIOUS
    <2>2. ~(y < x)
        BY <1>2, <1>3, <2>1
    <2> QED BY <2>1, <2>2
<1> QED BY <1>4

(* What the loop has collected after each of the first n inputs.             *)
Collects(g, a, n) ==
    g = [i \in 0 .. n |->
            IF i <= Len(a.outputs) THEN <<>>
            ELSE IF Derives(a, a.inputs[i]) THEN Append(g[i - 1], a.inputs[i]) ELSE g[i - 1]]

LEMMA CollectsNext ==
    ASSUME NEW a, Len(a.outputs) \in Nat, NEW n \in Nat, NEW g, Collects(g, a, n)
    PROVE  \E h : Collects(h, a, n + 1)
<1> DEFINE Body(f, i) ==
               IF i <= Len(a.outputs) THEN <<>>
               ELSE IF Derives(a, a.inputs[i]) THEN Append(f[i - 1], a.inputs[i]) ELSE f[i - 1]
           h == [i \in 0 .. n + 1 |-> IF i <= n THEN g[i] ELSE Body(g, i)]
<1>1. \A i \in 0 .. n : g[i] = Body(g, i)
    BY DEF Collects
<1>2. \A i \in 0 .. n : i \in 0 .. n + 1 /\ h[i] = g[i]
    OBVIOUS
<1>3. ASSUME NEW i \in 0 .. n + 1 PROVE h[i] = Body(h, i)
    <2>1. h[i] = Body(g, i)
        BY <1>1
    <2>2. CASE i <= Len(a.outputs)
        BY <2>1, <2>2
    <2>3. CASE ~(i <= Len(a.outputs))
        <3>1. i - 1 \in 0 .. n
            BY <2>3
        <3>2. h[i - 1] = g[i - 1]
            BY <1>2, <3>1
        <3> HIDE DEF h
        <3> QED BY <2>1, <2>3, <3>2
    <2> QED BY <2>2, <2>3
<1>4. h = [i \in 0 .. n + 1 |-> h[i]]
    OBVIOUS
<1> HIDE DEF h
<1>5. [i \in 0 .. n + 1 |-> h[i]] = [i \in 0 .. n + 1 |-> Body(h, i)]
    BY <1>3
<1>6. Collects(h, a, n + 1)
    BY <1>4, <1>5 DEF Collects
<1> QED BY <1>6

LEMMA CollectsExists ==
    ASSUME NEW a, Len(a.outputs) \in Nat, NEW n \in Nat
    PROVE  \E g : Collects(g, a, n)
<1> DEFINE U == {k \in Nat : ~\E g : Collects(g, a, k)}
<1>1. 0 \notin U
    <2> DEFINE g == [i \in 0 .. 0 |-> <<>>]
    <2>1. \A i \in 0 .. 0 : i <= Len(a.outputs)
        OBVIOUS
    <2>2. Collects(g, a, 0)
        BY <2>1 DEF Collects
    <2> QED BY <2>2
<1>2. ASSUME NEW k \in Nat, k \notin U PROVE k + 1 \notin U
    BY <1>2, CollectsNext
<1>3. U \in SUBSET Nat
    OBVIOUS
<1> SUFFICES U = {}
    OBVIOUS
<1> HIDE DEF U
<1>4. SUFFICES ASSUME U # {} PROVE FALSE
    OBVIOUS
<1>5. PICK k \in U : \A j \in U : k <= j
    BY <1>3, <1>4, LeastName
<1>6. k \in Nat /\ k # 0
    BY <1>1, <1>3, <1>5
<1>7. k - 1 \in Nat /\ ~(k <= k - 1) /\ (k - 1) + 1 = k
    BY <1>6
<1>8. k - 1 \notin U
    BY <1>5, <1>7
<1> QED BY <1>2, <1>5, <1>7, <1>8

LEMMA UnnamedCollects ==
    ASSUME NEW a, Len(a.outputs) \in Nat, Len(a.inputs) \in Nat
    PROVE  \E g : Collects(g, a, Len(a.inputs)) /\ Unnamed(a) = g[Len(a.inputs)]
<1> DEFINE Q(g) == Collects(g, a, Len(a.inputs))
<1>1. \E g : Q(g)
    BY CollectsExists
<1> HIDE DEF Q
<1>2. PICK h : h = CHOOSE g : Q(g)
    OBVIOUS
<1>3. Q(h)
    BY <1>1, <1>2
<1>4. Unnamed(a) = h[Len(a.inputs)]
    BY <1>2 DEF Unnamed, Collects, Q
<1> QED BY <1>3, <1>4 DEF Q

LEMMA OneMore == \A l, i, j \in Int : l <= i - j => l + 1 <= (i + 1) - j
OBVIOUS

(* No input has more than one name, and if none is without, then the names   *)
(* are in the order of the inputs.                                           *)
LEMMA CollectsInOrder ==
    ASSUME NEW a, NEW g, a.inputs \in Seq(Name), Collects(g, a, Len(a.inputs)),
           NEW k \in Nat, k = Len(a.outputs), k <= Len(a.inputs)
    PROVE  \A i \in k .. Len(a.inputs) :
               /\ g[i] \in Seq(Name) /\ Len(g[i]) <= i - k
               /\ Len(g[i]) = i - k =>
                     \A j \in 1 .. i - k : g[i][j] = a.inputs[k + j] /\ Derives(a, a.inputs[k + j])
<1>1. PICK n \in Nat : n = Len(a.inputs)
    BY LenProperties
<1> DEFINE G(i) ==
               /\ g[i] \in Seq(Name) /\ Len(g[i]) <= i - k
               /\ Len(g[i]) = i - k =>
                     \A j \in 1 .. i - k : g[i][j] = a.inputs[k + j] /\ Derives(a, a.inputs[k + j])
           U == {i \in k .. n : ~G(i)}
<1>2. k \notin U
    <2>1. g[k] = <<>>
        BY <1>1 DEF Collects
    <2>2. <<>> \in Seq(Name) /\ Len(<<>>) = 0 /\ 0 <= k - k
        OBVIOUS
    <2>3. \A j \in 1 .. k - k : FALSE
        OBVIOUS
    <2>4. g[k] \in Seq(Name) /\ Len(g[k]) <= k - k
        BY <2>1, <2>2, Zenon
    <2>5. G(k)
        BY <2>3, <2>4
    <2> QED BY <2>5
<1>3. ASSUME NEW i \in k .. n, i + 1 <= n, i \notin U PROVE i + 1 \notin U
    <2>1. PICK s : s = g[i]
        OBVIOUS
    <2>2. PICK x : x = a.inputs[i + 1]
        OBVIOUS
    <2>3. /\ s \in Seq(Name) /\ Len(s) \in Nat /\ Len(s) <= i - k
          /\ Len(s) = i - k => \A j \in 1 .. i - k : s[j] = a.inputs[k + j] /\ Derives(a, a.inputs[k + j])
        BY <1>3, <2>1, LenProperties
    <2>4. x \in Name
        BY <1>1, <1>3, <2>2, ElementOfSeq
    <2>5. g[i + 1] = IF Derives(a, x) THEN Append(s, x) ELSE s
        <3>1. i + 1 \in 0 .. n /\ ~(i + 1 <= k) /\ (i + 1) - 1 = i
            BY <1>3
        <3> QED BY <1>1, <2>1, <2>2, <3>1 DEF Collects
    <2>6. CASE ~Derives(a, x)
        <3>1. g[i + 1] = s
            BY <2>5, <2>6
        <3>2. ~(Len(s) = (i + 1) - k) /\ Len(s) <= (i + 1) - k
            BY <2>3
        <3> QED BY <2>3, <3>1, <3>2
    <2>7. CASE Derives(a, x)
        <3>1. PICK t : t = Append(s, x)
            OBVIOUS
        <3>2. /\ t \in Seq(Name) /\ Len(t) = Len(s) + 1 /\ t[Len(s) + 1] = x
              /\ \A j \in 1 .. Len(s) : t[j] = s[j]
            BY <2>3, <2>4, <3>1, AppendProperties
        <3>3. g[i + 1] = t
            BY <2>5, <2>7, <3>1
        <3>4. ASSUME Len(t) = (i + 1) - k, NEW j \in 1 .. (i + 1) - k
              PROVE  t[j] = a.inputs[k + j] /\ Derives(a, a.inputs[k + j])
            <4>1. Len(s) = i - k
                BY <2>3, <3>2, <3>4
            <4>2. CASE j = (i + 1) - k
                <5>1. k + j = i + 1 /\ j = Len(s) + 1
                    BY <4>1, <4>2
                <5> QED BY <2>2, <2>7, <3>2, <5>1
            <4>3. CASE j # (i + 1) - k
                <5>1. j \in 1 .. i - k /\ j \in 1 .. Len(s)
                    BY <4>1, <4>3
                <5> QED BY <2>3, <3>2, <4>1, <5>1
            <4> QED BY <4>2, <4>3
        <3>5. Len(t) <= (i + 1) - k
            <4> HIDE DEF G, U
            <4>1. PICK l \in Nat : l = Len(s) /\ l <= i - k
                BY <2>3
            <4>2. Len(t) = l + 1
                BY <3>2, <4>1
            <4>3. l \in Int /\ i \in Int /\ k \in Int
                OBVIOUS
            <4>4. l + 1 <= (i + 1) - k
                BY <4>1, <4>3, OneMore, Zenon
            <4> QED BY <4>2, <4>4
        <3>6. t \in Seq(Name)
            BY <3>2
        <3> QED BY <3>3, <3>4, <3>5, <3>6
    <2> QED BY <2>6, <2>7
<1> SUFFICES U = {}
    BY <1>1
<1> HIDE DEF G
<1>4. U \in SUBSET Nat /\ U \subseteq k .. n
    OBVIOUS
<1> HIDE DEF U
<1>5. SUFFICES ASSUME U # {} PROVE FALSE
    OBVIOUS
<1>6. PICK m \in U : \A j \in U : m <= j
    BY <1>4, <1>5, LeastName
<1>7. m \in k .. n /\ m # k
    BY <1>2, <1>4, <1>6
<1>8. m - 1 \in k .. n /\ ~(m <= m - 1) /\ (m - 1) + 1 = m /\ (m - 1) + 1 <= n
    BY <1>7
<1>9. m - 1 \notin U
    BY <1>6, <1>8
<1> QED BY <1>3, <1>6, <1>8, <1>9

(* So a command line that is not refused for its files names every output.   *)
LEMMA FilesPaired ==
    ASSUME NEW a \in Args, ~FilesRefused(a), ~a.crc, ~a.measure
    PROVE  /\ Len(Outputs(a)) = Len(a.inputs)
           /\ \A i \in DOMAIN a.inputs :
                 IF i <= Len(a.outputs) THEN Outputs(a)[i] = a.outputs[i]
                 ELSE /\ Outputs(a)[i] = Derived(a, a.inputs[i])
                      /\ Outputs(a)[i].ext # a.inputs[i].ext
<1>1. a.inputs \in Seq(Name) /\ a.outputs \in Seq(Name)
    BY NamesAssumption DEF Name
<1>2. PICK n, k \in Nat : n = Len(a.inputs) /\ k = Len(a.outputs)
    BY <1>1, LenProperties
<1>3. PICK g : Collects(g, a, Len(a.inputs)) /\ Unnamed(a) = g[Len(a.inputs)]
    BY <1>2, UnnamedCollects
<1>4. Len(a.inputs) = Len(Outputs(a)) /\ k <= n
    BY <1>2 DEF FilesRefused
<1>5. PICK r : r = Unnamed(a)
    OBVIOUS
<1>6. /\ r \in Seq(Name) /\ Len(r) \in Nat
      /\ Len(r) = n - k =>
            \A j \in 1 .. n - k : r[j] = a.inputs[k + j] /\ Derives(a, a.inputs[k + j])
    <2>1. n \in k .. n
        BY <1>4
    <2>2. k = Len(a.outputs) /\ k <= Len(a.inputs)
        BY <1>2, <1>4
    <2>3. \A i \in k .. Len(a.inputs) :
              /\ g[i] \in Seq(Name) /\ Len(g[i]) <= i - k
              /\ Len(g[i]) = i - k =>
                    \A j \in 1 .. i - k : g[i][j] = a.inputs[k + j] /\ Derives(a, a.inputs[k + j])
        BY <1>1, <1>2, <1>3, <2>2, CollectsInOrder, Zenon
    <2>4. r = g[n]
        BY <1>2, <1>3, <1>5
    <2> QED BY <1>2, <2>1, <2>3, <2>4, LenProperties
<1>7. PICK d : d = [i \in DOMAIN r |-> Derived(a, r[i])]
    OBVIOUS
<1>8. Outputs(a) = a.outputs \o d
    BY <1>5, <1>7 DEF Outputs
<1>9. DOMAIN r = 1 .. Len(r) /\ DOMAIN a.inputs = 1 .. n
    BY <1>1, <1>2, <1>6, LenProperties
<1>10. d \in Seq({Derived(a, f) : f \in Name}) /\ Len(d) = Len(r)
    BY <1>6, <1>7, <1>9
<1>11. /\ Len(Outputs(a)) = k + Len(r)
       /\ \A i \in 1 .. k + Len(r) :
             Outputs(a)[i] = IF i <= k THEN a.outputs[i] ELSE d[i - k]
    <2>1. PICK S : a.outputs \in Seq(S) /\ d \in Seq(S)
        <3> DEFINE S == Name \cup {Derived(a, f) : f \in Name}
        <3>1. a.outputs \in Seq(S) /\ d \in Seq(S)
            BY <1>1, <1>10
        <3> QED BY <3>1
    <2>2. /\ Len(a.outputs \o d) = Len(a.outputs) + Len(d)
          /\ \A i \in 1 .. Len(a.outputs) + Len(d) :
                (a.outputs \o d)[i] = IF i <= Len(a.outputs) THEN a.outputs[i]
                                      ELSE d[i - Len(a.outputs)]
        BY <2>1, ConcatProperties, Zenon
    <2>3. Len(a.outputs) = k /\ Len(d) = Len(r)
        BY <1>2, <1>10
    <2> QED BY <1>8, <2>2, <2>3, Zenon
<1>12. Len(r) = n - k
    BY <1>2, <1>4, <1>6, <1>11
<1>13. ASSUME NEW i \in 1 .. n, ~(i <= k)
       PROVE  Outputs(a)[i] = Derived(a, a.inputs[i]) /\ Derives(a, a.inputs[i])
    <2>1. i - k \in 1 .. n - k /\ k + (i - k) = i /\ i \in 1 .. k + Len(r)
        BY <1>12, <1>13
    <2>2. Outputs(a)[i] = d[i - k]
        BY <1>11, <1>13, <2>1
    <2>3. d[i - k] = Derived(a, r[i - k])
        BY <1>7, <1>9, <1>12, <2>1
    <2> QED BY <1>6, <1>12, <2>1, <2>2, <2>3
<1>14. ASSUME NEW f, Derives(a, f) PROVE Derived(a, f).ext # f.ext
    BY <1>14 DEF Derives, Derived, Compressed
<1>15. \A i \in 1 .. n : i <= k => Outputs(a)[i] = a.outputs[i]
    BY <1>11, <1>12
<1> QED BY <1>2, <1>4, <1>9, <1>13, <1>14, <1>15

-----------------------------------------------------------------------------
(* The theorems *)

(* A sector, a task that starts and another thread use the pool as           *)
(* BufferPool lets its callers: they release only what they hold, so what is *)
(* proved of SetBufferSize, Alloc and Release for any callers holds for      *)
(* these.                                                                    *)
THEOREM PoolUsedAsAllowed == TSpec => Spec
<1>1. TInit => Init
    BY DEF TInit
<1>2. ASSUME TInv, [TNext]_tvars PROVE [Next]_vars
    <2>1. ASSUME NEW p, Release(p) PROVE Next
        BY <1>2, <2>1, ReleaseFacts DEF Next, TInv
    <2>2. ASSUME NEW p \in Buffer, AllocIs(p) PROVE Next
        BY <2>2 DEF AllocIs, Next, Alloc
    <2>3. ASSUME UNCHANGED pool PROVE UNCHANGED vars
        BY <2>3 DEF pool, vars
    <2>4. CASE \E n \in Sizes : StartTask(n)
        BY <2>4 DEF StartTask, Next
    <2>5. CASE \E p \in Buffer : TrialAllocs(p) \/ OtherAllocs(p) \/ \E c \in BOOLEAN : Process(p, c)
        BY <2>2, <2>5 DEF TrialAllocs, OtherAllocs, Process
    <2>6. CASE \/ TrialFails \/ ReleaseBest \/ ReleaseBuffer
               \/ \E p \in Buffer : OtherReleases(p)
        BY <2>1, <2>6 DEF TrialFails, ReleaseBest, ReleaseBuffer, OtherReleases
    <2>7. CASE FinalizeBest \/ \E n \in TrialSizes : SubmitTrial(n)
        BY <2>1, <2>3, <2>7 DEF FinalizeBest, SubmitTrial, Keep
    <2>8. CASE validate_args \/ TrialSkipped \/ UNCHANGED tvars
        BY <2>3, <2>8 DEF validate_args, TrialSkipped, tvars
    <2> QED BY <1>2, <2>4, <2>5, <2>6, <2>7, <2>8 DEF TNext
<1> QED BY <1>1, <1>2, TInvHolds, PTL DEF TSpec, Spec

(* The sector's fields keep their types; BestBuffer, Compressed and Format   *)
(* agree on whether there is a compressed result.                            *)
THEOREM TrialsTypeCorrect == TSpec => []TTypeOK
<1>1. TInv => TTypeOK
    BY DEF TInv
<1> QED BY <1>1, TInvHolds, PTL

(* No trial, kept, beaten or failed, shares or loses a buffer.               *)
THEOREM BuffersAreOwn == TSpec => []OwnBuffers
<1>1. TInv => OwnBuffers
    BY DEF TInv
<1> QED BY <1>1, TInvHolds, PTL

(* What BestBuffer, BestSize and Format give Output to write is what a trial *)
(* has made of this block, or the block.                                     *)
THEOREM BestStaysIntact == TSpec => []BestIsIntact
<1>1. TInv => BestIsIntact
    BY DEF TInv, BestIsIntact, BestBuffer, Intact, TTypeOK
<1> QED BY <1>1, TInvHolds, PTL

(* Over any number of trials each cost option makes a block larger once at   *)
(* most: SubmitTrial's comparisons do not add up.  That a block is within    *)
(* the one option for its format is not true (run costs).                    *)
THEOREM CostsAreCountedOnce == TSpec => []CostsCountOnce
<1>1. TInv => CostsCountOnce
    BY DEF TInv
<1> QED BY <1>1, TInvHolds, PTL

(* A DAX file is made of deflate, whatever the order of the results.         *)
THEOREM DaxIsDeflated == TSpec => []DaxKeepsDeflate
<1>1. TInv => DaxKeepsDeflate
    BY DEF TInv, DaxKeepsDeflate, Deflates, Costs, TTypeOK, WithLZ4
<1> QED BY <1>1, TInvHolds, PTL

(* A sector exists only if the files of the command line were accepted: that *)
(* is all its steps have to do with them.                                    *)
FilesAccepted ==
    args \in Args /\ (pc \notin {"validate_args", "refused"} => ~FilesRefused(args))

LEMMA FilesAcceptedStep ==
    ASSUME FilesAccepted, [TNext]_tvars
    PROVE  FilesAccepted'
<1>1. args' = args
    BY DEF TNext, tvars, fixed, validate_args, StartTask, Process, TrialAllocs, TrialSkipped, TrialFails,
       SubmitTrial, FinalizeBest, ReleaseBest, ReleaseBuffer, OtherAllocs, OtherReleases
<1>2. CASE validate_args
    BY <1>1, <1>2 DEF validate_args, Refused, FilesAccepted
<1>3. CASE ~validate_args
    <2>1. pc' = pc \/ pc \notin {"validate_args", "refused"}
        BY <1>3 DEF TNext, tvars, StartTask, Process, TrialAllocs, TrialSkipped, TrialFails, SubmitTrial,
           FinalizeBest, ReleaseBest, ReleaseBuffer, OtherAllocs, OtherReleases
    <2> QED BY <1>1, <2>1 DEF FilesAccepted
<1> QED BY <1>2, <1>3

(* validate_args lets a task begin only with an output for every input, its  *)
(* own, in the order given, for any number of files: the inputs without an   *)
(* extension it knows leave too few, and so do those already in the format.  *)
THEOREM EveryInputHasOutput == TSpec => []OutputsPaired
<1>1. TInit => FilesAccepted
    BY DEF TInit, FilesAccepted
<1>2. FilesAccepted => OutputsPaired
    BY FilesPaired DEF FilesAccepted, OutputsPaired
<1> QED BY <1>1, <1>2, FilesAcceptedStep, PTL DEF TSpec
=============================================================================
