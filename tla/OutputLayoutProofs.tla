------------------------ MODULE OutputLayoutProofs --------------------------
(***************************************************************************)
(* Where Output writes: for any task whose positions are 64-bit integers,  *)
(* any sizes the trials come to and any interleaving, no block overlaps    *)
(* another, nor the header and index.  And what the reader finds: after a  *)
(* success the header and index lead to every block, as long as the file   *)
(* fits into the bits of an index entry.                                   *)
(***************************************************************************)
EXTENDS OutputVerdictProofs, WellFoundedInduction

-----------------------------------------------------------------------------
(* The inductive invariant: VInv, the place of each block that is written or *)
(* being written, and dstPos_ behind the last of them.                       *)

(* The bytes of a write in flight, block after block.                        *)
Chain(w) ==
    LET n == Len(w.batch) IN
    /\ w.at[1] = dstPos
    /\ \A k \in 1 .. n + 1 : w.at[k] \in Int /\ w.at[k] >= DstFirstSectorPos
    /\ \A k \in 1 .. n : w.at[k] + WriteSize(w.batch[k], w.at[k]) <= w.at[k + 1]

Layout ==
    /\ \A s \in Sector : sector[s].size \in Nat
    /\ "HAS_FILE" \in state =>
          IndexAlign \in Nat \ {0} /\ dstPos \in Int /\ dstPos >= DstFirstSectorPos
    /\ srcPos - 1 \in DOMAIN file.data =>
          file.data[srcPos - 1].pos + file.data[srcPos - 1].size <= dstPos
    /\ \A b \in DOMAIN file.data : file.data[b].pos \in Int /\ file.data[b].size \in Int
    /\ \A w \in writes : Chain(w)

LInv == VInv /\ Layout /\ ExtentsApart

-----------------------------------------------------------------------------
(* Induction: a set of natural numbers that is not empty has a least member. *)
LEMMA LeastNumber ==
    ASSUME NEW T \in SUBSET Nat, T # {}
    PROVE  \E n \in T : \A m \in T : n <= m
<1> DEFINE R == OpToRel(<, Nat)
<1>1. IsWellFoundedOn(R, Nat)
    BY NatLessThanWellFounded
<1>2. \A x, y \in Nat : x < y => <<x, y>> \in R
    BY DEF OpToRel
<1> HIDE DEF R
<1>3. PICK x \in T : \A y \in T : ~(<<y, x>> \in R)
    BY <1>1, WFMin
<1>4. ASSUME NEW y \in T PROVE x <= y
    <2>1. x \in Nat /\ y \in Nat
        OBVIOUS
    <2>2. ~(<<y, x>> \in R)
        BY <1>3
    <2>3. ~(y < x)
        BY <1>2, <2>1, <2>2
    <2> QED BY <2>1, <2>3
<1> QED BY <1>4

(* ... so a set that holds 1 and with a number the next one, up to n, holds  *)
(* all numbers up to n.                                                      *)
LEMMA UpTo ==
    ASSUME NEW n \in Nat, NEW T, 1 \in T, \A k \in 1 .. n - 1 : k \in T => k + 1 \in T
    PROVE  \A k \in 1 .. n : k \in T
<1> DEFINE U == {k \in 1 .. n : k \notin T}
<1> SUFFICES ASSUME U # {} PROVE FALSE
    OBVIOUS
<1>1. U \in SUBSET Nat
    OBVIOUS
<1> HIDE DEF U
<1>2. PICK m \in U : \A k \in U : m <= k
    BY <1>1, LeastNumber
<1>3. m \in 1 .. n /\ m \notin T /\ m # 1
    BY <1>2 DEF U
<1>4. m - 1 \in 1 .. n - 1 /\ ~(m <= m - 1) /\ (m - 1) + 1 = m
    BY <1>3
<1>5. m - 1 \notin U
    BY <1>2, <1>4
<1>6. m - 1 \in T
    BY <1>3, <1>4, <1>5 DEF U
<1> QED BY <1>3, <1>4, <1>6

(* Powers of two count subsets, and so double.                               *)
LEMMA PowerOfTwo ==
    ASSUME NEW n \in Nat
    PROVE  2 ^ n \in Nat \ {0} /\ 2 ^ (n + 1) = 2 ^ n + 2 ^ n
<1> DEFINE S == 1 .. n
           x == n + 1
           P == SUBSET S
           Q == SUBSET (1 .. x)
           R == {A \in Q : x \in A}
           f == [A \in P |-> A \cup {x}]
<1>1. /\ IsFiniteSet(S) /\ Cardinality(S) = n
      /\ IsFiniteSet(1 .. x) /\ Cardinality(1 .. x) = n + 1
    BY FS_Interval
<1>2. /\ IsFiniteSet(P) /\ Cardinality(P) = 2 ^ n
      /\ IsFiniteSet(Q) /\ Cardinality(Q) = 2 ^ (n + 1)
    BY <1>1, FS_SUBSET
<1>3. 1 .. x = S \cup {x} /\ x \notin S
    OBVIOUS
<1> HIDE DEF S, x
<1>4. Q = P \cup R /\ P \cap R = {}
    BY <1>3
<1>5. f \in Bijection(P, R)
    <2>1. f \in [P -> R]
        BY <1>3
    <2>2. \A A, B \in P : f[A] = f[B] => A = B
        <3> SUFFICES ASSUME NEW A \in P, NEW B \in P, A \cup {x} = B \cup {x} PROVE A = B
            OBVIOUS
        <3>1. x \notin A /\ x \notin B
            BY <1>3
        <3> QED BY <3>1
    <2>3. \A C \in R : \E A \in P : f[A] = C
        <3> TAKE C \in R
        <3>1. C \ {x} \in P /\ (C \ {x}) \cup {x} = C
            BY <1>3
        <3>2. f[C \ {x}] = C
            BY <3>1
        <3> QED BY <3>1, <3>2
    <2> HIDE DEF f, P, R
    <2> QED BY <2>1, <2>2, <2>3 DEF Bijection, Injection, Surjection, IsInjective
<1> HIDE DEF P, Q, R, f
<1>6. IsFiniteSet(R) /\ Cardinality(R) = Cardinality(P)
    BY <1>2, <1>5, FS_Bijection DEF ExistsBijection
<1>7. Cardinality(Q) = Cardinality(P) + Cardinality(R) - Cardinality(P \cap R)
    BY <1>2, <1>4, <1>6, FS_Union
<1>8. Cardinality(P \cap R) = 0 /\ Cardinality(P) \in Nat
    BY <1>2, <1>4, FS_EmptySet, FS_CardinalityType
<1>9. P # {}
    BY DEF P
<1>10. Cardinality(P) # 0
    BY <1>2, <1>9, FS_EmptySet
<1>11. Cardinality(Q) = Cardinality(P) + Cardinality(P)
    BY <1>6, <1>7, <1>8
<1> QED BY <1>2, <1>8, <1>10, <1>11

(* A shift multiplies.                                                       *)
LEMMA PowerSum ==
    ASSUME NEW m \in Nat, NEW n \in Nat
    PROVE  2 ^ (m + n) = 2 ^ m * 2 ^ n
<1> DEFINE T == {k \in Nat : 2 ^ (m + (k - 1)) = 2 ^ m * 2 ^ (k - 1)}
<1>1. 1 \in T
    <2>1. 2 ^ (1 - 1) = 1 /\ m + (1 - 1) = m
        OBVIOUS
    <2>2. 2 ^ m \in Nat
        BY PowerOfTwo
    <2>3. 2 ^ m * 1 = 2 ^ m
        BY <2>2
    <2> QED BY <2>1, <2>3
<1>2. ASSUME NEW k \in 1 .. (n + 1) - 1, k \in T PROVE k + 1 \in T
    <2>1. PICK j \in Nat : j = k - 1 /\ j + 1 = (k + 1) - 1 /\ k + 1 \in Nat
        BY <1>2
    <2>2. 2 ^ (m + j) = 2 ^ m * 2 ^ j
        BY <1>2, <2>1
    <2>3. 2 ^ (m + j + 1) = 2 ^ (m + j) + 2 ^ (m + j) /\ m + j + 1 = m + (j + 1)
        BY PowerOfTwo
    <2>4. 2 ^ (j + 1) = 2 ^ j + 2 ^ j
        BY PowerOfTwo
    <2>5. PICK x \in Nat, y \in Nat : x = 2 ^ m /\ y = 2 ^ j
        BY PowerOfTwo
    <2>6. x * (y + y) = x * y + x * y
        OBVIOUS
    <2>7. 2 ^ (m + (j + 1)) = 2 ^ m * 2 ^ (j + 1)
        BY <2>2, <2>3, <2>4, <2>5, <2>6
    <2> QED BY <2>1, <2>7
<1> HIDE DEF T
<1>3. n + 1 \in Nat /\ n + 1 \in 1 .. n + 1 /\ (n + 1) - 1 = n
    OBVIOUS
<1>4. \A k \in 1 .. n + 1 : k \in T
    BY <1>1, <1>2, <1>3, UpTo
<1> QED BY <1>3, <1>4 DEF T

(* Aligning never goes back.                                                 *)
LEMMA AlignUpFacts ==
    ASSUME NEW p \in Int, NEW a \in Nat \ {0}
    PROVE  AlignUp(p, a) \in Int /\ AlignUp(p, a) >= p
<1>1. p % a \in Int /\ 0 <= p % a /\ p % a < a
    OBVIOUS
<1> DEFINE r == p % a
<1> HIDE DEF r
<1>2. r \in Int /\ 0 <= r /\ r < a
    BY <1>1 DEF r
<1>3. AlignUp(p, a) = IF r = 0 THEN p ELSE p + a - r
    BY DEF AlignUp, r
<1> QED BY <1>2, <1>3

(* The sizes the task leads to.                                              *)
LEMMA SizeFacts ==
    ASSUME task \in Task
    PROVE  /\ BlockSize \in Nat /\ SrcSize \in Nat /\ DstFirstSectorPos \in Nat
           /\ task.decompress => DstFirstSectorPos = 0
<1>1. /\ task.sectors \in Nat /\ task.perBlock \in Nat /\ task.decompress \in BOOLEAN
      /\ task.fmt \in Formats /\ BlockCount \in Nat
    BY TaskFacts, BlockCountFacts
<1>2. BlockSize \in Nat /\ SrcSize \in Nat
    BY <1>1, SizesAssumption DEF BlockSize, SrcSize
<1>3. BlockCount * DAX_ENTRY \in Nat /\ (BlockCount + 1) * CSO_ENTRY \in Nat
    BY <1>1, PositionAssumption
<1>4. DstFirstSectorPos = IF task.decompress THEN 0
                          ELSE IF task.fmt = "DAX" THEN DAX_HEADER + BlockCount * DAX_ENTRY
                          ELSE CSO_HEADER + (BlockCount + 1) * CSO_ENTRY
    BY <1>1 DEF DstFirstSectorPos
<1> QED BY <1>1, <1>2, <1>3, <1>4, PositionAssumption

(* SetFile finds a shift for the largest position.                           *)
LEMMA ShiftFacts ==
    ASSUME task \in Task
    PROVE  /\ ShiftFor(DstFirstSectorPos + SrcSize) \in Shifts
           /\ ~task.decompress =>
                 DstFirstSectorPos + SrcSize < 2 ^ (IndexBits + ShiftFor(DstFirstSectorPos + SrcSize))
<1> DEFINE n == task.sectors
           c == BlockCount
           worst == DstFirstSectorPos + SrcSize
           bound == CSO_HEADER + DAX_HEADER + (n + 1) * (CSO_ENTRY + DAX_ENTRY) + n * SECTOR_SIZE
<1>1. CASE task.decompress
    BY <1>1 DEF ShiftFor, Shifts
<1>2. CASE ~task.decompress
    <2>1. /\ n \in Nat \ {0} /\ c \in Nat /\ c <= n
          /\ CSO_HEADER \in Nat /\ CSO_ENTRY \in Nat /\ DAX_HEADER \in Nat /\ DAX_ENTRY \in Nat
          /\ SECTOR_SIZE \in Nat /\ IndexBits \in Nat
        <3>1. n \in Nat \ {0} /\ task.perBlock \in Nat \ {0} /\ n - 1 \in Nat
            BY TaskFacts
        <3>2. c \in Nat /\ c = Block(n - 1) + 1
            BY BlockCountFacts
        <3>3. Block(n - 1) \in Nat /\ Block(n - 1) * task.perBlock <= n - 1
            BY <3>1, BlockFacts
        <3>4. Block(n - 1) <= n - 1
            <4> DEFINE b == Block(n - 1)
                       k == task.perBlock
            <4>1. b \in Nat /\ k \in Nat \ {0} /\ b * k <= n - 1
                BY <3>1, <3>3
            <4> HIDE DEF b, k, n
            <4>2. b <= b * k
                BY <4>1
            <4>3. b * k \in Nat
                BY <4>1
            <4>4. b <= n - 1
                BY <3>1, <4>1, <4>2, <4>3
            <4> QED BY <4>4 DEF b
        <3> HIDE DEF n, c
        <3>5. c <= n
            BY <3>1, <3>2, <3>3, <3>4
        <3> QED BY <3>1, <3>2, <3>5, SizesAssumption, PositionAssumption
    <2>2. worst \in Nat /\ DstFirstSectorPos \in Nat /\ SrcSize = n * SECTOR_SIZE
        BY SizeFacts DEF SrcSize
    <2>3. DstFirstSectorPos <= CSO_HEADER + DAX_HEADER + (n + 1) * (CSO_ENTRY + DAX_ENTRY)
        <3>1. \/ DstFirstSectorPos = DAX_HEADER + c * DAX_ENTRY
              \/ DstFirstSectorPos = CSO_HEADER + (c + 1) * CSO_ENTRY
            BY <1>2 DEF DstFirstSectorPos
        <3> HIDE DEF n, c
        <3>2. /\ c * DAX_ENTRY <= (n + 1) * DAX_ENTRY /\ (c + 1) * CSO_ENTRY <= (n + 1) * CSO_ENTRY
              /\ (n + 1) * (CSO_ENTRY + DAX_ENTRY) = (n + 1) * CSO_ENTRY + (n + 1) * DAX_ENTRY
            BY <2>1
        <3>3. /\ c * DAX_ENTRY \in Nat /\ (c + 1) * CSO_ENTRY \in Nat
              /\ (n + 1) * DAX_ENTRY \in Nat /\ (n + 1) * CSO_ENTRY \in Nat
            BY <2>1
        <3> QED BY <2>1, <3>1, <3>2, <3>3
    <2>4. n * SECTOR_SIZE \in Nat /\ (n + 1) * (CSO_ENTRY + DAX_ENTRY) \in Nat
        BY <2>1
    <2>5. bound \in Nat /\ worst <= bound
        BY <2>1, <2>2, <2>3, <2>4
    <2>6. PICK j \in Shifts : bound < 2 ^ (IndexBits + j)
        BY PositionAssumption
    <2> HIDE DEF worst, bound
    <2> DEFINE T == {k \in Shifts : worst < 2 ^ (IndexBits + k)}
    <2>7. T \in SUBSET Nat /\ j \in T
        <3> DEFINE p == 2 ^ (IndexBits + j)
        <3>1. p \in Int
            BY <2>1 DEF Shifts
        <3>2. bound < p
            BY <2>6
        <3> HIDE DEF p
        <3>3. worst < p
            BY <2>2, <2>5, <3>1, <3>2 DEF worst
        <3> QED BY <3>3 DEF p, Shifts
    <2> HIDE DEF T
    <2>8. PICK k \in T : \A m \in T : k <= m
        BY <2>7, LeastNumber
    <2>9. k \in Shifts /\ worst < 2 ^ (IndexBits + k)
        BY <2>8 DEF T
    <2>10. k = 0 \/ worst >= 2 ^ (IndexBits + k - 1)
        <3> SUFFICES ASSUME k # 0 PROVE worst >= 2 ^ (IndexBits + k - 1)
            OBVIOUS
        <3> DEFINE p == 2 ^ (IndexBits + (k - 1))
        <3>1. k - 1 \in Shifts /\ ~(k <= k - 1) /\ IndexBits + (k - 1) = IndexBits + k - 1
            BY <2>1, <2>9 DEF Shifts
        <3>2. p \in Int /\ worst \in Nat
            BY <2>1, <2>2, <3>1 DEF Shifts, worst
        <3>3. ~(worst < p)
            BY <2>8, <3>1 DEF T
        <3>4. worst >= p
            <4> HIDE DEF p
            <4> QED BY <3>2, <3>3
        <3> QED BY <3>1, <3>4
    <2>11. \E m \in Shifts : /\ worst < 2 ^ (IndexBits + m)
                             /\ m = 0 \/ worst >= 2 ^ (IndexBits + m - 1)
        BY <2>9, <2>10
    <2> QED BY <1>2, <2>11 DEF ShiftFor, worst
<1> QED BY <1>1, <1>2, TaskFacts

(* Positions is the function its recursive definition asks for: one exists.  *)
LEMMA PositionsDef ==
    ASSUME NEW B, Len(B) \in Nat
    PROVE  Positions(B) =
              [k \in 1 .. Len(B) + 1 |->
                  IF k = 1 THEN dstPos
                  ELSE AlignUp(Positions(B)[k-1] + WriteSize(B[k-1], Positions(B)[k-1]), IndexAlign)]
<1> DEFINE N == Len(B) + 1
           F(g, k) == IF k = 1 THEN dstPos
                      ELSE AlignUp(g[k-1] + WriteSize(B[k-1], g[k-1]), IndexAlign)
           T == {m \in 1 .. N : \E g : g = [k \in 1 .. m |-> F(g, k)]}
<1>0. N \in Nat /\ N >= 1
    OBVIOUS
<1> HIDE DEF N
<1>1. 1 \in T
    <2> DEFINE g == [k \in 1 .. 1 |-> dstPos]
    <2>1. \A k \in 1 .. 1 : F(g, k) = dstPos
        OBVIOUS
    <2> HIDE DEF F
    <2>2. g = [k \in 1 .. 1 |-> F(g, k)]
        BY <2>1
    <2>3. \E h : h = [k \in 1 .. 1 |-> F(h, k)]
        BY <2>2
    <2> QED BY <1>0, <2>3
<1>2. ASSUME NEW m \in 1 .. N - 1, m \in T PROVE m + 1 \in T
    <2>1. m \in Nat /\ m + 1 \in 1 .. N /\ m >= 1
        BY <1>0
    <2>2. PICK g : g = [k \in 1 .. m |-> F(g, k)]
        BY <1>2
    <2> DEFINE h == [k \in 1 .. m + 1 |-> IF k \in 1 .. m THEN g[k] ELSE F(g, m + 1)]
    <2>3. \A k \in 1 .. m : h[k] = g[k]
        BY <2>1
    <2>4. ASSUME NEW k \in 1 .. m + 1 PROVE F(h, k) = F(g, k)
        <3>1. CASE k = 1
            BY <3>1
        <3>2. CASE k # 1
            <4>1. k - 1 \in 1 .. m
                BY <2>1, <3>2
            <4>2. h[k-1] = g[k-1]
                BY <2>3, <4>1
            <4> HIDE DEF h
            <4> QED BY <3>2, <4>2
        <3> QED BY <3>1, <3>2
    <2> HIDE DEF F
    <2>5. ASSUME NEW k \in 1 .. m + 1 PROVE h[k] = F(g, k)
        <3>1. CASE k \in 1 .. m
            <4>1. g[k] = F(g, k)
                BY <2>2, <3>1
            <4> QED BY <2>3, <3>1, <4>1
        <3>2. CASE k \notin 1 .. m
            <4>1. k = m + 1
                BY <2>1, <3>2
            <4> QED BY <3>2, <4>1
        <3> QED BY <3>1, <3>2
    <2>6. \A k \in 1 .. m + 1 : h[k] = F(h, k)
        BY <2>4, <2>5
    <2>7. h = [k \in 1 .. m + 1 |-> h[k]]
        OBVIOUS
    <2> HIDE DEF h
    <2>8. h = [k \in 1 .. m + 1 |-> F(h, k)]
        BY <2>6, <2>7
    <2>9. \E f : f = [k \in 1 .. m + 1 |-> F(f, k)]
        BY <2>8
    <2> QED BY <2>1, <2>9
<1> HIDE DEF T
<1>3. N \in T
    <2>1. \A k \in 1 .. N : k \in T
        BY <1>0, <1>1, <1>2, UpTo
    <2> QED BY <1>0, <2>1
<1>4. \E g : g = [k \in 1 .. N |-> F(g, k)]
    BY <1>3 DEF T
<1>5. Positions(B) = CHOOSE g : g = [k \in 1 .. N |-> F(g, k)]
    BY DEF Positions, N
<1> HIDE DEF F
<1>6. Positions(B) = [k \in 1 .. N |-> F(Positions(B), k)]
    BY <1>4, <1>5
<1> QED BY <1>6 DEF F, N

(* A block ends behind the header and index if it starts there.              *)
LEMMA WriteSizeFacts ==
    ASSUME task \in Task, NEW s \in Sector, sector[s].size \in Nat, NEW p \in Int,
           p >= DstFirstSectorPos
    PROVE  WriteSize(s, p) \in Int /\ p + WriteSize(s, p) >= DstFirstSectorPos
<1>1. /\ SrcSize \in Nat /\ DstFirstSectorPos \in Nat
      /\ task.decompress => DstFirstSectorPos = 0
    BY SizeFacts
<1> DEFINE z == sector[s].size
           d == DstFirstSectorPos
           e == SrcSize
<1>2. WriteSize(s, p) = IF task.decompress /\ p + z > e THEN e - p ELSE z
    BY DEF WriteSize
<1> HIDE DEF z, d, e
<1>3. z \in Nat /\ d \in Nat /\ e \in Nat /\ p >= d /\ (task.decompress => d = 0)
    BY <1>1 DEF z, d, e
<1>4. CASE task.decompress /\ p + z > e
    <2>1. WriteSize(s, p) = e - p
        BY <1>2, <1>4
    <2> QED BY <1>3, <1>4, <2>1 DEF d
<1>5. CASE ~(task.decompress /\ p + z > e)
    <2>1. WriteSize(s, p) = z
        BY <1>2, <1>5
    <2> QED BY <1>3, <2>1 DEF d
<1> QED BY <1>4, <1>5

(* The blocks of a batch come one behind the other, the first at dstPos_.    *)
LEMMA PositionsChain ==
    ASSUME VInv, Layout, "HAS_FILE" \in state, NEW B \in Seq(Sector), Len(B) \in Nat
    PROVE  /\ Positions(B)[1] = dstPos
           /\ \A k \in 1 .. Len(B) + 1 : /\ Positions(B)[k] \in Int
                                         /\ Positions(B)[k] >= DstFirstSectorPos
           /\ \A k \in 1 .. Len(B) :
                 Positions(B)[k] + WriteSize(B[k], Positions(B)[k]) <= Positions(B)[k + 1]
<1> DEFINE n == Len(B)
           at == Positions(B)
           d == DstFirstSectorPos
           T == {k \in 1 .. n + 1 : at[k] \in Int /\ at[k] >= d}
<1>0. n \in Nat /\ n + 1 \in Nat /\ task \in Task /\ d \in Nat
    BY SizeFacts DEF VInv, IInv, TypeOK
<1>1. \A k \in 1 .. n : B[k] \in Sector /\ sector[B[k]].size \in Nat
    BY ElementOfSeq DEF Layout
<1>2. IndexAlign \in Nat \ {0} /\ dstPos \in Int /\ dstPos >= d
    BY DEF Layout
<1>3. at = [k \in 1 .. n + 1 |-> IF k = 1 THEN dstPos
                                 ELSE AlignUp(at[k-1] + WriteSize(B[k-1], at[k-1]), IndexAlign)]
    BY PositionsDef
<1> HIDE DEF n, at, d
<1>4. at[1] = dstPos
    BY <1>0, <1>3
<1>5. ASSUME NEW k \in 1 .. n
      PROVE  at[k + 1] = AlignUp(at[k] + WriteSize(B[k], at[k]), IndexAlign)
    <2>1. k + 1 \in 1 .. n + 1 /\ k + 1 # 1 /\ (k + 1) - 1 = k
        BY <1>0
    <2> QED BY <1>3, <2>1
<1>6. ASSUME NEW k \in 1 .. n, at[k] \in Int, at[k] >= d
      PROVE  /\ at[k + 1] \in Int /\ at[k + 1] >= d
             /\ at[k] + WriteSize(B[k], at[k]) <= at[k + 1]
    <2> DEFINE z == WriteSize(B[k], at[k])
    <2>1. z \in Int /\ at[k] + z >= d
        BY <1>0, <1>1, <1>6, WriteSizeFacts DEF d
    <2>2. at[k + 1] = AlignUp(at[k] + z, IndexAlign)
        BY <1>5
    <2> HIDE DEF z
    <2>3. at[k] + z \in Int
        BY <1>6, <2>1
    <2>4. AlignUp(at[k] + z, IndexAlign) \in Int /\ AlignUp(at[k] + z, IndexAlign) >= at[k] + z
        BY <1>2, <2>3, AlignUpFacts
    <2>5. at[k + 1] \in Int /\ at[k + 1] >= at[k] + z
        BY <2>2, <2>4
    <2>6. at[k + 1] >= d
        BY <1>0, <2>1, <2>3, <2>5
    <2> QED BY <2>3, <2>5, <2>6 DEF z
<1>7. 1 \in T
    BY <1>0, <1>2, <1>4
<1>8. \A k \in 1 .. (n + 1) - 1 : k \in T => k + 1 \in T
    <2> SUFFICES ASSUME NEW k \in 1 .. n, k \in T PROVE k + 1 \in T
        BY <1>0
    <2>1. k + 1 \in 1 .. n + 1
        BY <1>0
    <2> QED BY <1>6, <2>1
<1> HIDE DEF T
<1>9. \A k \in 1 .. n + 1 : k \in T
    BY <1>0, <1>7, <1>8, UpTo
<1>10. \A k \in 1 .. n + 1 : at[k] \in Int /\ at[k] >= d
    BY <1>9 DEF T
<1>11. \A k \in 1 .. n : k \in 1 .. n + 1
    BY <1>0
<1>12. \A k \in 1 .. n : at[k] + WriteSize(B[k], at[k]) <= at[k + 1]
    BY <1>6, <1>10, <1>11
<1> QED BY <1>4, <1>10, <1>12 DEF n, at, d

(* A write in flight stays as it is while its Sectors and dstPos_ do.        *)
LEMMA ChainStays ==
    ASSUME LInv, NEW w \in writes, UNCHANGED <<task, dstPos>>,
           \A t \in Writing : sector'[t] = sector[t]
    PROVE  Chain(w)'
<1>1. DstFirstSectorPos' = DstFirstSectorPos /\ SrcSize' = SrcSize
    BY DEF DstFirstSectorPos, SrcSize, BlockCount
<1>2. \A k \in 1 .. Len(w.batch) : sector'[w.batch[k]] = sector[w.batch[k]]
    BY DEF Writing, InBatch
<1>3. \A k \in 1 .. Len(w.batch) : WriteSize(w.batch[k], w.at[k])' = WriteSize(w.batch[k], w.at[k])
    BY <1>1, <1>2 DEF WriteSize
<1>4. Chain(w)
    BY DEF LInv, Layout
<1> QED BY <1>1, <1>3, <1>4 DEF Chain

(* A step that leaves the file's blocks and the positions alone.             *)
LEMMA LayoutFrame ==
    ASSUME LInv, UNCHANGED <<task, dstPos, indexShift, srcPos>>, file'.data = file.data,
           "HAS_FILE" \in state' => "HAS_FILE" \in state, \A s \in Sector : sector'[s].size \in Nat,
           \A w \in writes' : Chain(w)'
    PROVE  Layout' /\ ExtentsApart'
<1>1. DstFirstSectorPos' = DstFirstSectorPos /\ IndexAlign' = IndexAlign
    BY DEF DstFirstSectorPos, BlockCount, IndexAlign
<1>2. Layout'
    BY <1>1 DEF LInv, Layout
<1>3. ExtentsApart'
    BY <1>1 DEF LInv, ExtentsApart
<1> QED BY <1>2, <1>3

-----------------------------------------------------------------------------
(* The steps *)

LEMMA InitLInv == Init => LInv
<1> SUFFICES ASSUME Init PROVE LInv
    OBVIOUS
<1>1. VInv
    BY InitVInv
<1>2. /\ sector = [s \in Sector |-> Idle] /\ state = {} /\ writes = {}
      /\ file = [data |-> EmptyMap, index |-> EmptyMap]
    BY DEF Init
<1>3. DOMAIN file.data = {}
    BY <1>2 DEF EmptyMap
<1>4. \A s \in Sector : sector[s].size \in Nat
    BY <1>2 DEF Idle
<1> QED BY <1>1, <1>2, <1>3, <1>4 DEF LInv, Layout, ExtentsApart

(* SetFile lays out an empty file behind the header and index.               *)
LEMMA SetFileLInv == ASSUME LInv, SetFile PROVE Layout' /\ ExtentsApart'
<1>0. task \in Task /\ VInv
    BY DEF LInv, VInv, IInv, TypeOK
<1>1. /\ state = {} /\ UNCHANGED <<task, sector, writes, file, srcPos>>
      /\ indexShift' = ShiftFor(DstFirstSectorPos + SrcSize)
      /\ "HAS_FILE" \in state' => dstPos' = AlignUp(DstFirstSectorPos, 2 ^ indexShift')
    BY DEF SetFile
<1>2. srcPos = 0 /\ freeSectors = Sector
    BY <1>0, <1>1 DEF VInv, Unopened
<1>3. writes = {}
    <2> SUFFICES ASSUME NEW w \in writes PROVE FALSE
        OBVIOUS
    <2> QED BY <1>0, <1>1, WriteMeans
<1>4. DOMAIN file.data = {}
    BY <1>0, <1>2 DEF VInv, IInv, Filed
<1>5. indexShift' \in Shifts
    BY <1>0, <1>1, ShiftFacts
<1>6. IndexAlign' \in Nat \ {0}
    <2>1. indexShift' \in Nat
        BY <1>5 DEF Shifts
    <2> QED BY <2>1, PowerOfTwo DEF IndexAlign
<1>7. DstFirstSectorPos \in Nat /\ DstFirstSectorPos' = DstFirstSectorPos
    BY <1>0, <1>1, SizeFacts DEF DstFirstSectorPos, BlockCount
<1>8. "HAS_FILE" \in state' => dstPos' \in Int /\ dstPos' >= DstFirstSectorPos'
    <2>1. AlignUp(DstFirstSectorPos, IndexAlign') \in Int
          /\ AlignUp(DstFirstSectorPos, IndexAlign') >= DstFirstSectorPos
        BY <1>6, <1>7, AlignUpFacts
    <2>2. "HAS_FILE" \in state' => dstPos' = AlignUp(DstFirstSectorPos, IndexAlign')
        BY <1>1 DEF IndexAlign
    <2> QED BY <1>7, <2>1, <2>2
<1>9. \A s \in Sector : sector[s].size \in Nat
    BY DEF LInv, Layout
<1>10. Layout'
    BY <1>1, <1>3, <1>4, <1>6, <1>8, <1>9 DEF Layout
<1>11. ExtentsApart'
    BY <1>1, <1>4 DEF ExtentsApart
<1> QED BY <1>10, <1>11

(* A sector received goes to a Sector that is in no write.                   *)
LEMMA ReceiveLInv == ASSUME LInv, Receive PROVE Layout' /\ ExtentsApart'
<1>0. IInv /\ task \in Task /\ sector \in [Sector -> SectorRecord] /\ received < task.sectors
    BY DEF LInv, VInv, IInv, TypeOK, Receive
<1>1. UNCHANGED <<task, writes, srcPos, dstPos, indexShift, state, file>>
    BY DEF Receive, Enqueue
<1> DEFINE R(s) == Process(s, Block(received), {received} \cup Padding(received))
<1>2. PICK s \in Taker(received) :
        \/ sector' = [sector EXCEPT ![s] = R(s)]
        \/ sector' = [sector EXCEPT ![s] = [R(s) EXCEPT !.enqueued = TRUE]]
    BY DEF Receive, Enqueue
<1>3. s \in Sector /\ s \in freeSectors \cup Filling
    <2>1. s \in freeSectors \cup Values(partialSectors)
        BY DEF Taker, Values
    <2> QED BY <1>0, <2>1, TakerFacts DEF Filling
<1>4. s \notin Writing
    BY <1>0, <1>3 DEF IInv, NoSectorSharedOrLost
<1>5. \A t \in Sector \ {s} : sector'[t] = sector[t]
    BY <1>0, <1>2
<1>6. R(s) \in SectorRecord /\ R(s).size \in Nat
    <2>1. R(s) \in SectorRecord
        BY <1>0, ProcessFacts
    <2>2. R(s).size = IF sector[s].readySize = 0 THEN BlockSize ELSE sector[s].size
        BY DEF Process
    <2>3. BlockSize \in Nat /\ sector[s].size \in Nat
        BY <1>0, <1>3, SizeFacts DEF LInv, Layout
    <2> QED BY <2>1, <2>2, <2>3
<1>7. sector'[s].size \in Nat
    <2> HIDE DEF R
    <2>1. [R(s) EXCEPT !.enqueued = TRUE].size = R(s).size
        BY <1>6 DEF SectorRecord
    <2> QED BY <1>0, <1>2, <1>3, <1>6, <2>1
<1>8. \A t \in Sector : sector'[t].size \in Nat
    BY <1>5, <1>7 DEF LInv, Layout
<1>9. Writing \subseteq Sector
    BY <1>0, PlacedUsed DEF Placed, Used
<1>10. \A w \in writes' : Chain(w)'
    BY <1>1, <1>4, <1>5, <1>9, ChainStays
<1> QED BY <1>1, <1>8, <1>10, LayoutFrame

LEMMA CompressLInv == ASSUME LInv, NEW s \in Sector, Compress(s) PROVE Layout' /\ ExtentsApart'
<1>0. IInv /\ TypeOK /\ task \in Task /\ sector \in [Sector -> SectorRecord]
    BY DEF LInv, VInv, IInv, TypeOK
<1>1. UNCHANGED <<task, writes, srcPos, dstPos, indexShift, state, file>> /\ s \in work
    BY DEF Compress
<1>2. \A t \in Sector \ {s} : sector'[t] = sector[t]
    BY <1>0, CompressKeeps
<1>3. BlockSize \in Nat /\ \A t \in Sector : sector[t].size \in Nat
    BY <1>0, SizeFacts DEF LInv, Layout
<1>4. sector'[s].size \in Nat
    <2>1. PICK r : /\ sector' = [sector EXCEPT ![s] = FinalizeBest(r)]
                   /\ \/ r = sector[s]
                      \/ \E z \in TrialSizes, m \in task.methods :
                            r = [sector[s] EXCEPT !.size = z, !.fmt = m]
        BY <1>0 DEF Compress
    <2>2. sector[s] \in SectorRecord
        BY <1>0
    <2>3. r.size \in Nat /\ DOMAIN r = DOMAIN sector[s]
        <3>1. CASE r = sector[s]
            BY <1>3, <3>1
        <3>2. ASSUME NEW z \in TrialSizes, NEW m, r = [sector[s] EXCEPT !.size = z, !.fmt = m]
              PROVE  r.size \in Nat /\ DOMAIN r = DOMAIN sector[s]
            BY <2>2, <3>2, SizesAssumption DEF SectorRecord
        <3> QED BY <2>1, <3>1, <3>2
    <2>4. "size" \in DOMAIN r
        BY <2>2, <2>3 DEF SectorRecord
    <2>5. FinalizeBest(r) = r \/ FinalizeBest(r) = [r EXCEPT !.size = BlockSize, !.fmt = "ORIG"]
        BY DEF FinalizeBest
    <2>6. FinalizeBest(r).size \in Nat
        BY <1>3, <2>3, <2>4, <2>5
    <2> QED BY <1>0, <2>1, <2>6
<1>5. \A t \in Sector : sector'[t].size \in Nat
    BY <1>2, <1>3, <1>4
<1>6. s \notin Writing /\ Writing \subseteq Sector
    BY <1>0, <1>1, PlacedUsed DEF Placed, Used, Filling, IInv, NoSectorSharedOrLost
<1>7. \A w \in writes' : Chain(w)'
    BY <1>1, <1>2, <1>6, ChainStays
<1> QED BY <1>1, <1>5, <1>7, LayoutFrame

(* The steps that touch neither a Sector nor a position.                     *)
LEMMA OtherLInv ==
    ASSUME LInv, \/ \E s \in Sector : AfterWork(s)
                 \/ HandleReadyWait \/ HandleReadyReject \/ AfterProgress
                 \/ \E ok \in BOOLEAN : WriteIndexDone(ok)
                 \/ UNCHANGED vars
    PROVE  Layout' /\ ExtentsApart'
<1>1. UNCHANGED <<task, sector, writes, srcPos, dstPos, indexShift>>
    BY DEF AfterWork, HandleReadyWait, HandleReadyReject, AfterProgress, WriteIndexDone, vars
<1>2. "HAS_FILE" \in state' => "HAS_FILE" \in state
    <2>1. \/ state' = state \/ state' = state \cup {"DATA_WRITTEN"}
          \/ state' = state \cup {"INDEX_WRITTEN"}
        <3>1. CASE AfterProgress
            BY <3>1 DEF AfterProgress
        <3>2. CASE \E ok \in BOOLEAN : WriteIndexDone(ok)
            BY <3>2 DEF WriteIndexDone
        <3>3. CASE ~AfterProgress /\ ~\E ok \in BOOLEAN : WriteIndexDone(ok)
            BY <3>3 DEF AfterWork, HandleReadyWait, HandleReadyReject, vars
        <3> QED BY <3>1, <3>2, <3>3
    <2> QED BY <2>1
<1>3. file'.data = file.data
    <2>1. CASE \E ok \in BOOLEAN : WriteIndexDone(ok)
        <3>1. file' = file \/ file' = [file EXCEPT !.index = index]
            BY <2>1 DEF WriteIndexDone
        <3>2. DOMAIN file = {"data", "index"}
            BY DEF LInv, VInv, IInv, TypeOK
        <3> QED BY <3>1, <3>2
    <2>2. CASE ~\E ok \in BOOLEAN : WriteIndexDone(ok)
        BY <2>2 DEF AfterWork, HandleReadyWait, HandleReadyReject, AfterProgress, vars
    <2> QED BY <2>1, <2>2
<1>4. \A s \in Sector : sector'[s].size \in Nat
    BY <1>1 DEF LInv, Layout
<1>5. \A w \in writes' : Chain(w)'
    BY <1>1, ChainStays
<1> QED BY <1>1, <1>2, <1>3, <1>4, <1>5, LayoutFrame

(* A batch is laid out from dstPos_ on, for a write or, measuring, for the   *)
(* account only.                                                             *)
LEMMA HandleReadySubmitLInv == ASSUME LInv, HandleReadySubmit PROVE Layout' /\ ExtentsApart'
<1>0. VInv /\ Layout /\ IInv
    BY DEF LInv, VInv
<1>1. UNCHANGED <<task, indexShift, file>>
    BY DEF HandleReadySubmit
<1>2. PICK s \in Sector, n \in 1 .. MAX_BUFS :
        /\ NextSector(s) /\ BatchSize(n)
        /\ \/ /\ task.measure
              /\ sector' = Release({Batch(s, n)[k] : k \in 1 .. Len(Batch(s, n))})
              /\ dstPos' = Positions(Batch(s, n))[Len(Batch(s, n)) + 1]
              /\ UNCHANGED writes
           \/ /\ ~task.measure
              /\ writes' = writes \cup {[batch |-> Batch(s, n), at |-> Positions(Batch(s, n)),
                                         nextPos |-> srcPos + Len(Batch(s, n))]}
              /\ UNCHANGED <<sector, srcPos, dstPos>>
    BY DEF HandleReadySubmit
<1> DEFINE B == Batch(s, n)
           at == Positions(B)
           d == DstFirstSectorPos
<1>3. /\ n \in Nat \ {0} /\ B \in Seq(Sector) /\ Len(B) = n /\ writes = {}
      /\ "HAS_FILE" \in state
    BY <1>0, <1>2, BatchMeans
<1>4. /\ at[1] = dstPos
      /\ \A k \in 1 .. n + 1 : at[k] \in Int /\ at[k] >= d
      /\ \A k \in 1 .. n : at[k] + WriteSize(B[k], at[k]) <= at[k + 1]
    BY <1>0, <1>3, PositionsChain
<1>5. d' = d /\ IndexAlign' = IndexAlign /\ SrcSize' = SrcSize
    BY <1>1 DEF DstFirstSectorPos, BlockCount, IndexAlign, SrcSize
<1>6. IndexAlign \in Nat \ {0} /\ \A t \in Sector : sector[t].size \in Nat
    BY <1>0, <1>3 DEF Layout
<1>7. n + 1 \in 1 .. n + 1
    BY <1>3
<1>8. CASE task.measure
    <2>1. DOMAIN file.data = {}
        BY <1>0, <1>8 DEF IInv, Filed
    <2>2. writes' = {} /\ dstPos' = at[n + 1]
        BY <1>2, <1>3, <1>8
    <2>3. dstPos' \in Int /\ dstPos' >= d'
        BY <1>4, <1>5, <1>7, <2>2
    <2>4. \A t \in Sector : sector'[t].size \in Nat
        BY <1>2, <1>6, <1>8 DEF Release, Idle
    <2>5. Layout'
        BY <1>1, <1>5, <1>6, <2>1, <2>2, <2>3, <2>4 DEF Layout
    <2>6. ExtentsApart'
        BY <1>1, <2>1 DEF ExtentsApart
    <2> QED BY <2>5, <2>6
<1>9. CASE ~task.measure
    <2>1. \E w : writes' = {w} /\ w.batch = B /\ w.at = at
        <3> DEFINE v == [batch |-> B, at |-> at, nextPos |-> srcPos + Len(B)]
        <3>1. v.batch = B /\ v.at = at
            OBVIOUS
        <3>2. writes' = {v}
            BY <1>2, <1>3, <1>9
        <3> HIDE DEF v
        <3> QED BY <3>1, <3>2
    <2>2. PICK w : writes' = {w} /\ w.batch = B /\ w.at = at
        BY <2>1
    <2>3. UNCHANGED <<sector, srcPos, dstPos>>
        BY <1>2, <1>9
    <2>4. w.batch \in Seq(Sector) /\ Len(w.batch) = n
        BY <1>3, <2>2
    <2>5. /\ w.at[1] = dstPos
          /\ \A k \in 1 .. n + 1 : w.at[k] \in Int /\ w.at[k] >= d
          /\ \A k \in 1 .. n : w.at[k] + WriteSize(w.batch[k], w.at[k]) <= w.at[k + 1]
        BY <1>4, <2>2
    <2> HIDE DEF B, at
    <2>6. Chain(w)
        BY <2>4, <2>5 DEF Chain
    <2>7. Chain(w)'
        <3>1. \A k \in 1 .. n : WriteSize(w.batch[k], w.at[k])' = WriteSize(w.batch[k], w.at[k])
            BY <1>1, <1>5, <2>3 DEF WriteSize
        <3> QED BY <1>5, <2>3, <2>4, <2>6, <3>1 DEF Chain
    <2>8. \A v \in writes' : Chain(v)'
        BY <2>2, <2>7
    <2>9. "HAS_FILE" \in state' => "HAS_FILE" \in state
        BY <1>3
    <2>10. \A t \in Sector : sector'[t].size \in Nat
        BY <1>6, <2>3
    <2> QED BY <1>1, <2>3, <2>8, <2>9, <2>10, LayoutFrame
<1> QED BY <1>2, <1>8, <1>9

(* What a write that went through makes of the file.                         *)
LEMMA WrittenBlocks ==
    ASSUME VInv, NEW w \in writes, HandleWrittenSectors(w, TRUE)
    PROVE  LET n == Len(w.batch) IN
           /\ DOMAIN file'.data = 0 .. srcPos + n - 1
           /\ \A b \in 0 .. srcPos - 1 : file'.data[b] = file.data[b]
           /\ \A k \in 1 .. n : file'.data[srcPos + k - 1] = Extent(w.batch[k], w.at[k])
           /\ file'.index = file.index
<1> DEFINE B == w.batch
           n == Len(B)
           at == w.at
<1>1. n \in Nat \ {0} /\ w.nextPos = srcPos + n /\ DOMAIN file = {"data", "index"}
    BY WriteMeans DEF VInv, IInv, TypeOK
<1>2. srcPos \in Nat /\ DOMAIN file.data = 0 .. srcPos - 1
    BY DEF VInv, IInv, Filed, TypeOK
<1>3. file'.data = Stored(w) /\ file'.index = file.index
    BY <1>1 DEF HandleWrittenSectors
<1>4. w.nextPos - Len(w.batch) = srcPos /\ w.nextPos - 1 = srcPos + n - 1
    BY <1>1, <1>2
<1>5. Stored(w) = [b \in DOMAIN file.data \cup (srcPos .. srcPos + n - 1) |->
                      IF b \in srcPos .. srcPos + n - 1
                      THEN Extent(B[b - srcPos + 1], at[b - srcPos + 1]) ELSE file.data[b]]
    BY <1>4 DEF Stored
<1>6. (0 .. srcPos - 1) \cup (srcPos .. srcPos + n - 1) = 0 .. srcPos + n - 1
    BY <1>1, <1>2
<1>7. \A b \in 0 .. srcPos - 1 : b \notin srcPos .. srcPos + n - 1
    BY <1>2
<1> HIDE DEF B, n, at
<1>8. ASSUME NEW k \in 1 .. n PROVE file'.data[srcPos + k - 1] = Extent(B[k], at[k])
    <2>1. srcPos + k - 1 \in srcPos .. srcPos + n - 1 /\ (srcPos + k - 1) - srcPos + 1 = k
        BY <1>1, <1>2
    <2> QED BY <1>3, <1>5, <2>1
<1> QED BY <1>2, <1>3, <1>5, <1>6, <1>7, <1>8 DEF B, n, at

(* The blocks of the write take their places behind those in the file.       *)
LEMMA HandleWrittenSectorsLInv ==
    ASSUME LInv, NEW w \in writes, NEW ok \in BOOLEAN, HandleWrittenSectors(w, ok)
    PROVE  Layout' /\ ExtentsApart'
<1>0. VInv /\ Layout /\ ExtentsApart /\ IInv /\ DOMAIN file = {"data", "index"}
    BY DEF LInv, VInv, IInv, TypeOK
<1> DEFINE B == w.batch
           n == Len(B)
           at == w.at
           d == DstFirstSectorPos
<1>1. /\ writes' = writes \ {w} /\ UNCHANGED <<task, indexShift, state>>
      /\ sector' = Release({B[k] : k \in 1 .. n})
    BY DEF HandleWrittenSectors
<1>2. /\ n \in Nat \ {0} /\ w.nextPos = srcPos + n /\ writes = {w} /\ "HAS_FILE" \in state
    BY <1>0, WriteMeans
<1>3. writes' = {}
    BY <1>1, <1>2
<1>4. /\ at[1] = dstPos
      /\ \A k \in 1 .. n + 1 : at[k] \in Int /\ at[k] >= d
      /\ \A k \in 1 .. n : at[k] + WriteSize(B[k], at[k]) <= at[k + 1]
    BY <1>0 DEF Layout, Chain
<1>5. d' = d /\ IndexAlign' = IndexAlign /\ d \in Nat /\ task \in Task
    BY <1>0, <1>1, SizeFacts DEF DstFirstSectorPos, BlockCount, IndexAlign, IInv, TypeOK
<1>6. \A t \in Sector : sector'[t].size \in Nat
    BY <1>0, <1>1 DEF Release, Idle, Layout
<1>7. IndexAlign \in Nat \ {0} /\ dstPos \in Int /\ dstPos >= d
    BY <1>0, <1>2 DEF Layout
<1>8. CASE ~ok
    <2>1. UNCHANGED <<file, srcPos, dstPos>>
        BY <1>8 DEF HandleWrittenSectors
    <2> QED BY <1>1, <1>3, <1>6, <2>1, LayoutFrame
<1>9. CASE ok
    <2>1. srcPos' = srcPos + n /\ dstPos' = dstPos + at[n + 1] - at[1]
        BY <1>2, <1>9 DEF HandleWrittenSectors
    <2>2. srcPos \in Nat /\ DOMAIN file.data = 0 .. srcPos - 1
        BY <1>0 DEF IInv, Filed, TypeOK
    <2>3. HandleWrittenSectors(w, TRUE)
        BY <1>9
    <2>4. dstPos' = at[n + 1]
        <3>1. n + 1 \in 1 .. n + 1
            BY <1>2
        <3> HIDE DEF at, n
        <3> QED BY <1>4, <1>7, <2>1, <3>1
    <2>5. /\ DOMAIN file'.data = 0 .. srcPos + n - 1
          /\ \A b \in 0 .. srcPos - 1 : file'.data[b] = file.data[b]
          /\ \A k \in 1 .. n : file'.data[srcPos + k - 1] = Extent(B[k], at[k])
        BY <1>0, <2>3, WrittenBlocks
    <2> DEFINE E(b) == file'.data[b]
    <2>6. ASSUME NEW k \in 1 .. n
          PROVE  /\ srcPos + k - 1 \in srcPos .. srcPos + n - 1
                 /\ E(srcPos + k - 1).pos = at[k] /\ at[k] \in Int /\ at[k] >= d
                 /\ E(srcPos + k - 1).size = WriteSize(B[k], at[k])
                 /\ E(srcPos + k - 1).size \in Int
                 /\ at[k] + E(srcPos + k - 1).size <= at[k + 1]
        <3>1. /\ srcPos + k - 1 \in srcPos .. srcPos + n - 1
              /\ (srcPos + k - 1) - srcPos + 1 = k /\ k \in 1 .. n + 1
            BY <1>2, <2>2
        <3>2. E(srcPos + k - 1) = Extent(B[k], at[k])
            BY <2>5, <3>1
        <3>3. B[k] \in Sector /\ sector[B[k]].size \in Nat
            BY <1>0, ElementOfSeq DEF IInv, TypeOK, Layout
        <3>4. at[k] \in Int /\ at[k] >= d
            BY <1>4, <3>1
        <3>5. WriteSize(B[k], at[k]) \in Int
            BY <1>5, <3>3, <3>4, WriteSizeFacts
        <3>6. Extent(B[k], at[k]).pos = at[k] /\ Extent(B[k], at[k]).size = WriteSize(B[k], at[k])
            BY DEF Extent
        <3> HIDE DEF E
        <3> QED BY <1>4, <3>1, <3>2, <3>4, <3>5, <3>6
    <2>7. ASSUME NEW b \in 0 .. srcPos - 1
          PROVE  /\ E(b) = file.data[b] /\ E(b).pos \in Int /\ E(b).size \in Int
                 /\ E(b).pos >= d
        BY <1>0, <2>2, <2>5 DEF Layout, ExtentsApart
    <2>8. \A b \in 0 .. srcPos + n - 1 :
             b \in 0 .. srcPos - 1 \/ (b - srcPos + 1 \in 1 .. n /\ srcPos + (b - srcPos + 1) - 1 = b)
        BY <1>2, <2>2
    <2> HIDE DEF E, B, n, at, d
    <2>9. \A b \in 0 .. srcPos + n - 1 : E(b).pos \in Int /\ E(b).size \in Int /\ E(b).pos >= d
        <3> TAKE b \in 0 .. srcPos + n - 1
        <3>1. CASE b \in 0 .. srcPos - 1
            BY <2>7, <3>1
        <3>2. CASE b - srcPos + 1 \in 1 .. n /\ srcPos + (b - srcPos + 1) - 1 = b
            <4> DEFINE k == b - srcPos + 1
            <4>1. k \in 1 .. n /\ srcPos + k - 1 = b
                BY <3>2
            <4> HIDE DEF k
            <4>2. E(srcPos + k - 1).pos \in Int /\ E(srcPos + k - 1).size \in Int /\ E(srcPos + k - 1).pos >= d
                BY <2>6, <4>1
            <4> QED BY <4>1, <4>2
        <3> QED BY <2>8, <3>1, <3>2
    <2>10. ASSUME NEW b \in 0 .. srcPos + n - 1, b + 1 \in 0 .. srcPos + n - 1
           PROVE  E(b).pos + E(b).size <= E(b + 1).pos
        <3>1. CASE b + 1 \in 0 .. srcPos - 1
            <4>1. b \in DOMAIN file.data /\ b + 1 \in DOMAIN file.data /\ b \in 0 .. srcPos - 1
                BY <2>2, <3>1
            <4>2. file.data[b].pos + file.data[b].size <= file.data[b + 1].pos
                BY <1>0, <4>1 DEF ExtentsApart
            <4> QED BY <2>7, <3>1, <4>1, <4>2
        <3>2. CASE b + 1 = srcPos
            <4>1. b = srcPos - 1 /\ b \in 0 .. srcPos - 1 /\ 1 \in 1 .. n /\ srcPos + 1 - 1 = srcPos
                BY <1>2, <2>2, <3>2 DEF n
            <4>2. file.data[b].pos + file.data[b].size <= dstPos
                BY <1>0, <2>2, <4>1 DEF Layout
            <4>3. E(b + 1).pos = dstPos
                BY <1>4, <2>6, <3>2, <4>1
            <4> QED BY <2>7, <4>1, <4>2, <4>3
        <3>3. CASE b + 1 > srcPos
            <4> DEFINE k == b - srcPos + 1
            <4>1. k \in 1 .. n /\ k + 1 \in 1 .. n /\ srcPos + k - 1 = b /\ srcPos + (k + 1) - 1 = b + 1
                BY <1>2, <2>2, <2>10, <3>3 DEF n
            <4> HIDE DEF k
            <4>2. at[k] + E(b).size <= at[k + 1] /\ E(b).pos = at[k]
                BY <2>6, <4>1
            <4>3. E(b + 1).pos = at[k + 1]
                BY <2>6, <4>1
            <4> QED BY <4>2, <4>3
        <3> QED BY <2>2, <2>10, <3>1, <3>2, <3>3
    <2>11. ExtentsApart'
        BY <1>5, <2>5, <2>9, <2>10 DEF ExtentsApart, E, d
    <2>12. E(srcPos' - 1).pos + E(srcPos' - 1).size <= dstPos'
        <3>1. n \in 1 .. n /\ srcPos + n - 1 = srcPos' - 1
            BY <1>2, <2>1, <2>2 DEF n
        <3> QED BY <2>4, <2>6, <3>1
    <2>13. dstPos' \in Int /\ dstPos' >= d
        <3>1. n + 1 \in 1 .. n + 1
            BY <1>2 DEF n
        <3> QED BY <1>4, <2>4, <3>1
    <2>14. Layout'
        BY <1>3, <1>5, <1>6, <1>7, <2>5, <2>9, <2>12, <2>13 DEF Layout, E, d
    <2> QED BY <2>11, <2>14
<1> QED BY <1>8, <1>9

LEMMA NextLInv == LInv /\ [Next]_vars => LInv'
<1> SUFFICES ASSUME LInv, [Next]_vars PROVE LInv'
    OBVIOUS
<1>1. VInv'
    BY NextVInv DEF LInv
<1>2. Layout' /\ ExtentsApart'
    BY SetFileLInv, ReceiveLInv, CompressLInv, OtherLInv, HandleReadySubmitLInv,
       HandleWrittenSectorsLInv DEF Next
<1> QED BY <1>1, <1>2 DEF LInv

LEMMA LInvHolds == Spec => []LInv
BY InitLInv, NextLInv, PTL DEF Spec

(* No block in the file overlaps the next one, or the header and index that  *)
(* are written over the head of the file, whatever sizes the trials come to, *)
(* wherever the index shift puts the blocks and however the writes are cut.  *)
THEOREM ExtentsAreApart == Spec => []ExtentsApart
<1>1. LInv => ExtentsApart
    BY DEF LInv
<1> QED BY <1>1, LInvHolds, PTL

-----------------------------------------------------------------------------
(* Reading back.  The invariant goes on with what the blocks in the file and *)
(* in flight look like, and with what the index says of each of them.        *)

(* What Sector::Process and FinalizeBest leave in a Sector.                  *)
Fitting(z, f) ==
    IF f = "ORIG" THEN z = BlockSize
    ELSE /\ f \in Methods /\ ~task.decompress
         /\ IF task.fmt = "DAX" THEN z \in TrialSizes ELSE AlignUp(z, IndexAlign) < BlockSize

Shaped ==
    /\ \A s \in Used : Fitting(sector[s].size, sector[s].fmt)
    /\ task.decompress => work = {}

(* SetFile's choice; the formats without a shift have none.                  *)
Shifted ==
    "HAS_FILE" \in state =>
        /\ indexShift = ShiftFor(DstFirstSectorPos + SrcSize)
        /\ task.decompress \/ task.fmt = "DAX" => indexShift = 0

(* Where block b starts in the source, and behind the last one its end.      *)
Start(b) == IF b < BlockCount THEN b * BlockSize ELSE SrcSize

(* No block takes up more than M bytes.                                      *)
LargestBlock(M) ==
    /\ AlignUp(BlockSize, IndexAlign) <= M
    /\ task.fmt = "DAX" => \A n \in TrialSizes : n <= M

(* A place p for block b that an index entry can tell exactly.               *)
Settled(b, p) ==
    /\ p \in Nat /\ p % IndexAlign = 0
    /\ IF task.decompress THEN p = Start(b)
       ELSE \A M \in Nat : LargestBlock(M) => p <= AlignUp(DstFirstSectorPos, IndexAlign) + b * M

(* Block b is at p, has z bytes stored with method f, and an entry says so.  *)
Lies(b, p, z, f) ==
    /\ Settled(b, p) /\ z \in Nat /\ Storable(f)
    /\ b \in DOMAIN index /\ index[b] = IndexEntry(p, f)
    /\ IF task.decompress THEN f = "ORIG" /\ p + z = Start(b + 1) ELSE Fitting(z, f)

(* The final entry leads behind the last block.                              *)
Final(p) == BlockCount \in DOMAIN index /\ index[BlockCount] = IndexValue(p)

(* The blocks in the file, up to dstPos_.                                    *)
Behind(b) == IF b + 1 \in DOMAIN file.data THEN file.data[b + 1].pos ELSE dstPos

InPlace ==
    /\ "HAS_FILE" \in state => Settled(srcPos, dstPos)
    /\ \A b \in DOMAIN file.data :
          LET e == file.data[b] IN
          Lies(b, e.pos, e.size, e.fmt) /\ Behind(b) = AlignUp(e.pos + e.size, IndexAlign)
    /\ srcPos = BlockCount => Final(dstPos)

(* The blocks of a write in flight.                                          *)
OnTheWay(w) ==
    LET n == Len(w.batch) IN
    /\ \A k \in 1 .. n :
          /\ Lies(srcPos + k - 1, w.at[k], WriteSize(w.batch[k], w.at[k]), sector[w.batch[k]].fmt)
          /\ w.at[k + 1] = AlignUp(w.at[k] + WriteSize(w.batch[k], w.at[k]), IndexAlign)
    /\ Settled(srcPos + n, w.at[n + 1])
    /\ w.nextPos = BlockCount => Final(w.at[n + 1])

IndexTells ==
    /\ DOMAIN index \subseteq 0 .. BlockCount
    /\ "INDEX_WRITTEN" \in state /\ ~task.decompress => file.index = index

Traced == ~task.measure => InPlace /\ IndexTells /\ \A w \in writes : OnTheWay(w)

RInv == LInv /\ Shaped /\ Shifted /\ Traced

(* The positions of the file fit into the bits of an index entry.            *)
Room == IF task.fmt = "DAX" THEN 2 ^ (IndexBits + 1) ELSE 2 ^ IndexBits
FitsIndex == task.decompress \/ dstPos < Room * IndexAlign

(* ... however the trials turn out.                                          *)
WorstCaseFits ==
    \/ task.decompress
    \/ \E M \in Nat : /\ LargestBlock(M)
                      /\ AlignUp(DstFirstSectorPos, IndexAlign) + BlockCount * M < Room * IndexAlign

(* SetFile's worstSize, the header and the source, leaves nothing out: all   *)
(* blocks are whole, and aligning adds nothing to them or to the header.     *)
Unpadded ==
    /\ task.fmt # "DAX" /\ task.sectors % task.perBlock = 0
    /\ BlockSize % IndexAlign = 0 /\ DstFirstSectorPos % IndexAlign = 0

-----------------------------------------------------------------------------
(* Arithmetic of positions *)

(* Quotient and remainder are what makes up the number.                      *)
LEMMA Division ==
    ASSUME NEW a \in Nat \ {0}, NEW c \in Nat, NEW r \in Nat, r < a
    PROVE  (c * a + r) % a = r /\ (c * a + r) \div a = c
OBVIOUS

LEMMA Multiple ==
    ASSUME NEW a \in Nat \ {0}, NEW p \in Nat
    PROVE  \E c \in Nat, r \in Nat : r < a /\ p = c * a + r /\ p % a = r /\ p \div a = c
OBVIOUS

LEMMA Whole ==
    ASSUME NEW a \in Nat \ {0}, NEW p \in Nat, p % a = 0
    PROVE  \E c \in Nat : p = c * a
<1>1. PICK c \in Nat, r \in Nat : r < a /\ p = c * a + r /\ p % a = r
    BY Multiple
<1> QED BY <1>1

(* Aligning goes to the next multiple.                                       *)
LEMMA AlignUpIs ==
    ASSUME NEW z \in Nat, NEW a \in Nat \ {0}
    PROVE  /\ AlignUp(z, a) \in Nat /\ AlignUp(z, a) % a = 0
           /\ AlignUp(z, a) \in z .. z + a - 1
<1>1. PICK c \in Nat, r \in Nat : r < a /\ z = c * a + r /\ z % a = r
    BY Multiple
<1>2. c * a \in Nat /\ (c + 1) * a = c * a + a /\ c + 1 \in Nat
    BY <1>1
<1>3. CASE r = 0
    <2>1. AlignUp(z, a) = z
        BY <1>1, <1>3 DEF AlignUp
    <2> QED BY <1>1, <1>3, <2>1
<1>4. CASE r # 0
    <2>1. AlignUp(z, a) = z + a - r
        BY <1>1, <1>4 DEF AlignUp
    <2> DEFINE m == c * a
    <2>2. m \in Nat /\ z = m + r /\ r < a /\ r \in Nat
        BY <1>1, <1>2
    <2>3. ((c + 1) * a + 0) % a = 0
        BY <1>2, Division
    <2>4. (c + 1) * a + 0 = m + a
        BY <1>2
    <2> HIDE DEF m
    <2>5. z + a - r = m + a
        BY <2>2
    <2>6. (m + a) % a = 0
        BY <2>3, <2>4
    <2>7. m + a \in Nat /\ m + a \in z .. z + a - 1
        BY <1>4, <2>2
    <2> QED BY <2>1, <2>5, <2>6, <2>7
<1> QED BY <1>3, <1>4

(* ... of a position behind an aligned one, by the size between them alone.  *)
LEMMA AlignUpFrom ==
    ASSUME NEW a \in Nat \ {0}, NEW p \in Nat, p % a = 0, NEW z \in Nat
    PROVE  /\ AlignUp(p + z, a) = p + AlignUp(z, a)
           /\ AlignUp(p + z, a) \in Nat /\ AlignUp(p + z, a) % a = 0
<1>1. PICK d \in Nat : p = d * a
    BY Whole
<1>2. PICK c \in Nat, r \in Nat : r < a /\ z = c * a + r /\ z % a = r
    BY Multiple
<1>3. (d + c) * a = d * a + c * a /\ d + c \in Nat /\ d * a \in Nat /\ c * a \in Nat
    BY <1>1, <1>2
<1>4. ((d + c) * a + r) % a = r
    BY <1>2, <1>3, Division
<1>5. p + z = (d + c) * a + r
    <2> DEFINE x == d * a
               y == c * a
               v == (d + c) * a
    <2>1. x \in Nat /\ y \in Nat /\ v = x + y /\ p = x /\ z = y + r
        BY <1>1, <1>2, <1>3
    <2> HIDE DEF x, y, v
    <2>2. p + z = v + r
        BY <1>2, <2>1
    <2> QED BY <2>2 DEF v
<1>6. (p + z) % a = z % a
    BY <1>2, <1>4, <1>5
<1>7. AlignUp(p + z, a) = p + AlignUp(z, a)
    <2>1. CASE r = 0
        BY <1>2, <1>6, <2>1 DEF AlignUp
    <2>2. CASE r # 0
        <3>1. AlignUp(p + z, a) = p + z + a - r /\ AlignUp(z, a) = z + a - r
            BY <1>2, <1>6, <2>2 DEF AlignUp
        <3>2. p + z + a - r = p + (z + a - r)
            OBVIOUS
        <3> QED BY <3>1, <3>2
    <2> QED BY <2>1, <2>2
<1>8. p + z \in Nat
    OBVIOUS
<1>9. AlignUp(p + z, a) \in Nat /\ AlignUp(p + z, a) % a = 0
    BY <1>8, AlignUpIs, Zenon
<1> QED BY <1>7, <1>9, Zenon

(* Without a shift there is nothing to align.                                *)
LEMMA AlignUpOne == ASSUME NEW p \in Nat PROVE AlignUp(p, 1) = p
BY DEF AlignUp

(* An entry with enough bits tells an aligned position exactly.              *)
LEMMA Quotient ==
    ASSUME NEW a \in Nat \ {0}, NEW p \in Nat, p % a = 0, NEW c \in Nat, p < c * a
    PROVE  p \div a \in Nat /\ p \div a < c /\ (p \div a) * a = p
<1>1. PICK d \in Nat : p = d * a /\ p \div a = d
    BY Multiple
<1>2. d < c
    <2> SUFFICES ASSUME d >= c PROVE FALSE
        BY <1>1
    <2>1. d * a >= c * a /\ d * a \in Nat /\ c * a \in Nat
        BY <1>1
    <2> QED BY <1>1, <2>1
<1> QED BY <1>1, <1>2

(* The blocks of the source, in bytes.                                       *)
LEMMA StartFacts ==
    ASSUME task \in Task
    PROVE  /\ BlockCount \in Nat \ {0} /\ \A b \in Nat : Start(b) \in Nat
           /\ \A b \in Nat : b + 1 < BlockCount => (b + 1) * BlockSize <= SrcSize
           /\ BlockCount * BlockSize >= SrcSize
<1> DEFINE k == task.perBlock
           n == task.sectors
           c == BlockCount
           z == SECTOR_SIZE
<1>1. k \in Nat \ {0} /\ n \in Nat \ {0} /\ n - 1 \in Nat /\ z \in Nat
    BY TaskFacts, SizesAssumption
<1>2. c \in Nat /\ c = Block(n - 1) + 1 /\ Block(n - 1) \in Nat
    BY <1>1, BlockCountFacts, BlockFacts
<1>3. /\ Block(n - 1) * k \in Nat /\ Block(n - 1) * k <= n - 1
      /\ n - 1 < Block(n - 1) * k + k
    BY <1>1, BlockFacts
<1>4. PICK q \in Nat : q = Block(n - 1) /\ c = q + 1 /\ q * k <= n - 1 /\ n - 1 < q * k + k
    BY <1>2, <1>3
<1>5. BlockSize = k * z /\ SrcSize = n * z /\ BlockSize \in Nat /\ SrcSize \in Nat
    BY SizeFacts DEF BlockSize, SrcSize
<1> HIDE DEF k, n, c, z
<1>6. c \in Nat \ {0}
    BY <1>4
<1>7. n <= c * k
    <2>1. (q + 1) * k = q * k + k /\ q * k \in Nat
        BY <1>1, <1>4
    <2>2. n <= q * k + k
        BY <1>1, <1>4, <2>1
    <2> QED BY <1>4, <2>1, <2>2
<1>8. c * (k * z) >= n * z
    <2>1. c * k \in Nat /\ (c * k) * z = c * (k * z)
        BY <1>1, <1>6
    <2>2. \A x, y \in Nat : x <= y => x * z <= y * z
        BY <1>1
    <2> QED BY <1>1, <1>7, <2>1, <2>2
<1>9. ASSUME NEW b \in Nat, b + 1 < c PROVE (b + 1) * (k * z) <= n * z
    <2>1. b + 1 <= q
        BY <1>4, <1>9
    <2>2. (b + 1) * k <= q * k /\ (b + 1) * k \in Nat /\ q * k \in Nat
        <3>1. \A x, y \in Nat : x <= y => x * k <= y * k
            BY <1>1
        <3> QED BY <1>1, <1>4, <2>1, <3>1
    <2>3. (b + 1) * k <= n
        BY <1>1, <1>4, <2>2
    <2>4. \A x, y \in Nat : x <= y => x * z <= y * z
        BY <1>1
    <2>5. ((b + 1) * k) * z = (b + 1) * (k * z)
        BY <1>1
    <2> QED BY <1>1, <2>2, <2>3, <2>4, <2>5
<1>10. ASSUME NEW b \in Nat PROVE Start(b) \in Nat
    <2>1. b * BlockSize \in Nat
        BY <1>5
    <2> QED BY <1>5, <2>1 DEF Start
<1> QED BY <1>5, <1>6, <1>8, <1>9, <1>10 DEF c

(* Decompressing, a block written at its place ends where the next starts.   *)
LEMMA CutOff ==
    ASSUME task \in Task, task.decompress, NEW b \in Nat, b < BlockCount, NEW s \in Sector,
           sector[s].size = BlockSize
    PROVE  WriteSize(s, Start(b)) \in Nat /\ Start(b) + WriteSize(s, Start(b)) = Start(b + 1)
<1> DEFINE p == b * BlockSize
           e == SrcSize
           y == BlockSize
           c == BlockCount
           v == (b + 1) * BlockSize
<1>1. y \in Nat /\ e \in Nat /\ c \in Nat
    BY SizeFacts, StartFacts
<1>2. p \in Nat /\ v = p + y
    <2> HIDE DEF y
    <2> QED BY <1>1 DEF y
<1>3. Start(b) = p /\ Start(b + 1) = IF b + 1 < c THEN v ELSE e
    BY DEF Start
<1>4. (b + 1 < c => v <= e) /\ (b + 1 = c => v >= e)
    BY StartFacts
<1>5. b + 1 < c \/ b + 1 = c
    <2> HIDE DEF c
    <2>1. b < c
        BY DEF c
    <2> QED BY <1>1, <2>1
<1>6. p <= e
    <2>1. CASE b = 0
        <3>1. p = 0
            <4> HIDE DEF y
            <4> QED BY <1>1, <2>1 DEF y
        <3> HIDE DEF p, e
        <3> QED BY <1>1, <3>1
    <2>2. CASE b # 0
        <3>1. (b - 1) + 1 = b /\ b - 1 \in Nat
            BY <2>2
        <3>2. ((b - 1) + 1) * BlockSize <= SrcSize
            BY <3>1, StartFacts
        <3> QED BY <3>1, <3>2
    <2> QED BY <2>1, <2>2
<1>7. WriteSize(s, p) = IF p + y > e THEN e - p ELSE y
    BY DEF WriteSize
<1> HIDE DEF p, e, y, c, v
<1>8. WriteSize(s, p) \in Nat /\ p + WriteSize(s, p) = IF b + 1 < c THEN v ELSE e
    <2>1. CASE p + y > e
        <3>1. WriteSize(s, p) = e - p
            BY <1>7, <2>1
        <3>2. ~(b + 1 < c)
            BY <1>1, <1>2, <1>4, <2>1
        <3> QED BY <1>1, <1>2, <1>6, <3>1, <3>2
    <2>2. CASE ~(p + y > e)
        <3>1. WriteSize(s, p) = y
            BY <1>7, <2>2
        <3>2. b + 1 < c \/ v = e
            BY <1>1, <1>2, <1>4, <1>5, <2>2
        <3> QED BY <1>1, <1>2, <3>1, <3>2
    <2> QED BY <2>1, <2>2
<1> QED BY <1>3, <1>8

(* What holds once the file is open, of the shift and the sizes.             *)
LEMMA OpenFacts ==
    ASSUME RInv, "HAS_FILE" \in state
    PROVE  /\ task \in Task /\ IndexAlign \in Nat \ {0} /\ BlockSize \in Nat
           /\ task.decompress \/ task.fmt = "DAX" => IndexAlign = 1
           /\ DstFirstSectorPos \in Nat
<1>1. task \in Task /\ IndexAlign \in Nat \ {0}
    BY DEF RInv, LInv, VInv, IInv, TypeOK, Layout
<1>2. BlockSize \in Nat /\ DstFirstSectorPos \in Nat
    BY <1>1, SizeFacts
<1>3. 2 ^ 0 = 1
    OBVIOUS
<1>4. task.decompress \/ task.fmt = "DAX" => IndexAlign = 1
    BY <1>3 DEF RInv, Shifted, IndexAlign
<1> QED BY <1>1, <1>2, <1>4

(* A block takes up no more than the largest.                                *)
LEMMA FittingBound ==
    ASSUME IndexAlign \in Nat \ {0}, BlockSize \in Nat, task.fmt = "DAX" => IndexAlign = 1,
           NEW z \in Nat, NEW f, Fitting(z, f), NEW M \in Nat, LargestBlock(M)
    PROVE  AlignUp(z, IndexAlign) <= M
<1>1. AlignUp(BlockSize, IndexAlign) \in Nat /\ AlignUp(BlockSize, IndexAlign) >= BlockSize
    BY AlignUpIs
<1>2. AlignUp(BlockSize, IndexAlign) <= M /\ (task.fmt = "DAX" => \A n \in TrialSizes : n <= M)
    BY DEF LargestBlock
<1>3. CASE f = "ORIG"
    BY <1>2, <1>3 DEF Fitting
<1>4. CASE f # "ORIG" /\ task.fmt = "DAX"
    <2>1. AlignUp(z, IndexAlign) = z
        BY <1>4, AlignUpOne
    <2>2. z \in TrialSizes
        BY <1>4 DEF Fitting
    <2> QED BY <1>2, <1>4, <2>1, <2>2
<1>5. CASE f # "ORIG" /\ task.fmt # "DAX"
    <2>1. AlignUp(z, IndexAlign) < BlockSize /\ AlignUp(z, IndexAlign) \in Nat
        BY <1>5, AlignUpIs DEF Fitting
    <2> QED BY <1>1, <1>2, <2>1
<1> QED BY <1>3, <1>4, <1>5

(* Behind a block in its place is the place of the next.                     *)
LEMMA SettledNext ==
    ASSUME RInv, "HAS_FILE" \in state, NEW s \in Used, NEW b \in Nat, b < BlockCount,
           NEW p, Settled(b, p)
    PROVE  /\ WriteSize(s, p) \in Nat
           /\ Settled(b + 1, AlignUp(p + WriteSize(s, p), IndexAlign))
           /\ IF task.decompress
              THEN sector[s].fmt = "ORIG" /\ p + WriteSize(s, p) = Start(b + 1)
              ELSE Fitting(WriteSize(s, p), sector[s].fmt)
<1> DEFINE a == IndexAlign
           z == WriteSize(s, p)
           g == sector[s].fmt
           d == AlignUp(DstFirstSectorPos, IndexAlign)
<1>1. /\ task \in Task /\ a \in Nat \ {0} /\ BlockSize \in Nat /\ d \in Nat
      /\ task.decompress \/ task.fmt = "DAX" => a = 1
    <2>1. /\ task \in Task /\ a \in Nat \ {0} /\ BlockSize \in Nat
          /\ task.decompress \/ task.fmt = "DAX" => a = 1
          /\ DstFirstSectorPos \in Nat
        BY OpenFacts
    <2> QED BY <2>1, AlignUpIs
<1>2. s \in Sector /\ sector[s].size \in Nat /\ Fitting(sector[s].size, g)
    BY DEF RInv, Shaped, Used, LInv, Layout
<1>3. p \in Nat /\ p % a = 0
    BY DEF Settled
<1>4. CASE task.decompress
    <2>1. g = "ORIG" /\ sector[s].size = BlockSize
        BY <1>2, <1>4 DEF Fitting
    <2>2. p = Start(b)
        BY <1>4 DEF Settled
    <2>3. z \in Nat /\ p + z = Start(b + 1)
        BY <1>1, <1>2, <1>4, <2>1, <2>2, CutOff
    <2>4. p + z \in Nat
        BY <1>3, <2>3
    <2>5. AlignUp(p + z, a) = p + z
        BY <1>1, <1>4, <2>4, AlignUpOne
    <2>6. (p + z) % a = 0
        BY <1>1, <1>4, <2>4
    <2> QED BY <1>4, <2>1, <2>3, <2>4, <2>5, <2>6 DEF Settled
<1>5. CASE ~task.decompress
    <2>1. z = sector[s].size
        BY <1>5 DEF WriteSize
    <2>2. z \in Nat /\ Fitting(z, g)
        BY <1>2, <2>1
    <2> HIDE DEF z, a, d, g
    <2>3. /\ AlignUp(p + z, a) = p + AlignUp(z, a)
          /\ AlignUp(p + z, a) \in Nat /\ AlignUp(p + z, a) % a = 0
        BY <1>1, <1>3, <2>2, AlignUpFrom
    <2>4. AlignUp(z, a) \in Nat
        BY <1>1, <2>2, AlignUpIs
    <2>5. ASSUME NEW M \in Nat, LargestBlock(M) PROVE AlignUp(p + z, a) <= d + (b + 1) * M
        <3>1. AlignUp(z, a) <= M
            BY <1>1, <2>2, <2>5, FittingBound DEF a
        <3>2. p <= d + b * M
            BY <1>5, <2>5 DEF Settled, a, d
        <3>3. (b + 1) * M = b * M + M /\ b * M \in Nat
            OBVIOUS
        <3>4. p + AlignUp(z, a) <= d + (b + 1) * M
            <4> DEFINE x == AlignUp(z, a)
                       u == b * M
                       v == (b + 1) * M
            <4>1. x \in Nat /\ u \in Nat /\ v = u + M /\ x <= M /\ p <= d + u
                BY <2>4, <3>1, <3>2, <3>3
            <4> HIDE DEF x, u, v
            <4>2. p + x <= d + v
                BY <1>1, <1>3, <4>1
            <4> QED BY <4>2 DEF x, v
        <3> QED BY <2>3, <3>4
    <2>6. Settled(b + 1, AlignUp(p + z, a))
        BY <1>5, <2>3, <2>5 DEF Settled, a, d
    <2> QED BY <1>5, <2>2, <2>6 DEF z, g, a
<1> QED BY <1>4, <1>5

(* The blocks of a batch, from dstPos_ on.                                   *)
LEMMA PositionsSettled ==
    ASSUME RInv, "HAS_FILE" \in state, Settled(srcPos, dstPos), NEW B \in Seq(Sector),
           Len(B) \in Nat, srcPos + Len(B) <= BlockCount, \A k \in 1 .. Len(B) : B[k] \in Used
    PROVE  /\ \A k \in 1 .. Len(B) + 1 : Settled(srcPos + k - 1, Positions(B)[k])
           /\ \A k \in 1 .. Len(B) :
                 /\ WriteSize(B[k], Positions(B)[k]) \in Nat
                 /\ Positions(B)[k + 1]
                       = AlignUp(Positions(B)[k] + WriteSize(B[k], Positions(B)[k]), IndexAlign)
                 /\ IF task.decompress
                    THEN /\ sector[B[k]].fmt = "ORIG"
                         /\ Positions(B)[k] + WriteSize(B[k], Positions(B)[k]) = Start(srcPos + k)
                    ELSE Fitting(WriteSize(B[k], Positions(B)[k]), sector[B[k]].fmt)
<1> DEFINE n == Len(B)
           at == Positions(B)
           T == {k \in 1 .. n + 1 : Settled(srcPos + k - 1, at[k])}
<1>0. n \in Nat /\ n + 1 \in Nat /\ srcPos \in Nat /\ BlockCount \in Nat /\ srcPos + n <= BlockCount
    BY WithinSource DEF RInv, LInv, VInv
<1>1. at = [k \in 1 .. n + 1 |-> IF k = 1 THEN dstPos
                                 ELSE AlignUp(at[k-1] + WriteSize(B[k-1], at[k-1]), IndexAlign)]
    BY PositionsDef
<1> HIDE DEF n, at
<1>2. at[1] = dstPos
    BY <1>0, <1>1
<1>3. ASSUME NEW k \in 1 .. n
      PROVE  at[k + 1] = AlignUp(at[k] + WriteSize(B[k], at[k]), IndexAlign)
    <2>1. k + 1 \in 1 .. n + 1 /\ k + 1 # 1 /\ (k + 1) - 1 = k
        BY <1>0
    <2> QED BY <1>1, <2>1
<1>4. ASSUME NEW k \in 1 .. n, Settled(srcPos + k - 1, at[k])
      PROVE  /\ WriteSize(B[k], at[k]) \in Nat
             /\ Settled(srcPos + k, at[k + 1])
             /\ IF task.decompress
                THEN sector[B[k]].fmt = "ORIG" /\ at[k] + WriteSize(B[k], at[k]) = Start(srcPos + k)
                ELSE Fitting(WriteSize(B[k], at[k]), sector[B[k]].fmt)
    <2>1. PICK b \in Nat : b = srcPos + k - 1 /\ b + 1 = srcPos + k /\ b < BlockCount
        BY <1>0
    <2>2. Settled(b, at[k]) /\ B[k] \in Used
        BY <1>4, <2>1 DEF n
    <2>3. /\ WriteSize(B[k], at[k]) \in Nat
          /\ Settled(b + 1, AlignUp(at[k] + WriteSize(B[k], at[k]), IndexAlign))
          /\ IF task.decompress
             THEN sector[B[k]].fmt = "ORIG" /\ at[k] + WriteSize(B[k], at[k]) = Start(b + 1)
             ELSE Fitting(WriteSize(B[k], at[k]), sector[B[k]].fmt)
        BY <2>1, <2>2, SettledNext
    <2> QED BY <1>3, <2>1, <2>3
<1>5. 1 \in T
    <2>1. srcPos + 1 - 1 = srcPos /\ 1 \in 1 .. n + 1
        BY <1>0
    <2> QED BY <1>2, <2>1
<1>6. \A k \in 1 .. (n + 1) - 1 : k \in T => k + 1 \in T
    <2> SUFFICES ASSUME NEW k \in 1 .. n, k \in T PROVE k + 1 \in T
        BY <1>0
    <2>1. k + 1 \in 1 .. n + 1 /\ srcPos + (k + 1) - 1 = srcPos + k
        BY <1>0
    <2>2. Settled(srcPos + k, at[k + 1])
        BY <1>4
    <2> QED BY <2>1, <2>2
<1> HIDE DEF T
<1>7. \A k \in 1 .. n + 1 : k \in T
    BY <1>0, <1>5, <1>6, UpTo
<1>8. \A k \in 1 .. n + 1 : Settled(srcPos + k - 1, at[k])
    BY <1>7 DEF T
<1>9. \A k \in 1 .. n : k \in 1 .. n + 1
    BY <1>0
<1> QED BY <1>3, <1>4, <1>8, <1>9 DEF n, at

(* The definitions that depend on the task and the shift only.               *)
LEMMA SameTask ==
    ASSUME UNCHANGED <<task, indexShift>>
    PROVE  /\ BlockCount' = BlockCount /\ BlockSize' = BlockSize /\ SrcSize' = SrcSize
           /\ IndexAlign' = IndexAlign /\ DstFirstSectorPos' = DstFirstSectorPos
           /\ \A z, f : Fitting(z, f)' = Fitting(z, f)
           /\ \A f : Storable(f)' = Storable(f)
           /\ \A b, p : Settled(b, p)' = Settled(b, p)
           /\ \A b : Start(b)' = Start(b)
           /\ \A p : IndexValue(p)' = IndexValue(p)
           /\ \A p, f : IndexEntry(p, f)' = IndexEntry(p, f)
<1>1. /\ BlockCount' = BlockCount /\ BlockSize' = BlockSize /\ SrcSize' = SrcSize
      /\ IndexAlign' = IndexAlign /\ DstFirstSectorPos' = DstFirstSectorPos
    BY DEF BlockCount, BlockSize, SrcSize, IndexAlign, DstFirstSectorPos
<1>2. /\ \A z, f : Fitting(z, f)' = Fitting(z, f)
      /\ \A f : Storable(f)' = Storable(f)
    BY <1>1 DEF Fitting, Storable
<1>3. \A b : Start(b)' = Start(b)
    BY <1>1 DEF Start
<1>4. \A b, p : Settled(b, p)' = Settled(b, p)
    BY <1>1, <1>3 DEF Settled, LargestBlock
<1>5. \A p : IndexValue(p)' = IndexValue(p)
    BY <1>1 DEF IndexValue
<1>6. \A p, f : IndexEntry(p, f)' = IndexEntry(p, f)
    BY <1>5 DEF IndexEntry
<1> QED BY <1>1, <1>2, <1>3, <1>4, <1>5, <1>6

(* What is said of a block stays true while its entry does.                  *)
LEMMA LiesStays ==
    ASSUME UNCHANGED <<task, indexShift>>, NEW b, NEW p, NEW z, NEW f, Lies(b, p, z, f),
           b \in DOMAIN index', index'[b] = index[b]
    PROVE  Lies(b, p, z, f)'
<1>1. /\ Settled(b, p) /\ z \in Nat /\ Storable(f) /\ index[b] = IndexEntry(p, f)
      /\ IF task.decompress THEN f = "ORIG" /\ p + z = Start(b + 1) ELSE Fitting(z, f)
    BY DEF Lies
<1>2. /\ Settled(b, p)' /\ Storable(f)' /\ index'[b] = IndexEntry(p, f)'
      /\ Start(b + 1)' = Start(b + 1) /\ Fitting(z, f)' = Fitting(z, f)
    BY <1>1, SameTask
<1> QED BY <1>1, <1>2 DEF Lies

(* The blocks in the file stay in place while nothing is written ...         *)
LEMMA InPlaceStays ==
    ASSUME InPlace, UNCHANGED <<task, indexShift, dstPos, srcPos>>, file'.data = file.data,
           "HAS_FILE" \in state' => "HAS_FILE" \in state,
           \A b \in DOMAIN file.data : b \in DOMAIN index => b \in DOMAIN index' /\ index'[b] = index[b],
           srcPos = BlockCount => index' = index
    PROVE  InPlace'
<1>1. /\ BlockCount' = BlockCount /\ IndexAlign' = IndexAlign
      /\ \A b, p : Settled(b, p)' = Settled(b, p)
      /\ \A p : IndexValue(p)' = IndexValue(p)
    BY SameTask
<1>2. "HAS_FILE" \in state' => Settled(srcPos, dstPos)'
    BY <1>1 DEF InPlace
<1>3. ASSUME NEW b \in DOMAIN file.data
      PROVE  LET e == file.data[b] IN
             Lies(b, e.pos, e.size, e.fmt)' /\ (Behind(b) = AlignUp(e.pos + e.size, IndexAlign))'
    <2> DEFINE e == file.data[b]
    <2>1. Lies(b, e.pos, e.size, e.fmt) /\ Behind(b) = AlignUp(e.pos + e.size, IndexAlign)
        BY DEF InPlace
    <2>2. b \in DOMAIN index' /\ index'[b] = index[b]
        BY <2>1 DEF Lies
    <2>3. e' = e /\ Behind(b)' = Behind(b)
        BY DEF Behind
    <2>4. LET g == e IN Lies(b, g.pos, g.size, g.fmt)'
        BY <2>1, <2>2, <2>3, LiesStays
    <2>5. AlignUp(e.pos + e.size, IndexAlign)' = AlignUp(e.pos + e.size, IndexAlign)
        BY <1>1, <2>3 DEF AlignUp
    <2> QED BY <2>1, <2>3, <2>4, <2>5
<1>4. (srcPos = BlockCount)' => Final(dstPos)'
    BY <1>1 DEF InPlace, Final
<1> QED BY <1>2, <1>3, <1>4 DEF InPlace

(* ... and those of a write on their way while it is in flight.              *)
LEMMA OnTheWayStays ==
    ASSUME NEW w \in writes, OnTheWay(w), UNCHANGED <<task, indexShift, srcPos, index>>,
           \A t \in Writing : sector'[t] = sector[t]
    PROVE  OnTheWay(w)'
<1> DEFINE n == Len(w.batch)
           z(k) == WriteSize(w.batch[k], w.at[k])
<1>1. /\ BlockCount' = BlockCount /\ IndexAlign' = IndexAlign /\ SrcSize' = SrcSize
      /\ \A b, p : Settled(b, p)' = Settled(b, p)
      /\ \A p : IndexValue(p)' = IndexValue(p)
    BY SameTask
<1>2. ASSUME NEW k \in 1 .. n
      PROVE  /\ Lies(srcPos + k - 1, w.at[k], WriteSize(w.batch[k], w.at[k]), sector[w.batch[k]].fmt)'
             /\ (w.at[k + 1] = AlignUp(w.at[k] + WriteSize(w.batch[k], w.at[k]), IndexAlign))'
    <2>1. sector'[w.batch[k]] = sector[w.batch[k]]
        BY DEF Writing, InBatch
    <2>2. z(k)' = z(k)
        BY <1>1, <2>1 DEF WriteSize
    <2>3. /\ Lies(srcPos + k - 1, w.at[k], z(k), sector[w.batch[k]].fmt)
          /\ w.at[k + 1] = AlignUp(w.at[k] + z(k), IndexAlign)
        BY DEF OnTheWay
    <2>4. LET b == srcPos + k - 1
              y == z(k)
              f == sector[w.batch[k]].fmt
          IN  Lies(b, w.at[k], y, f)'
        <3>1. srcPos + k - 1 \in DOMAIN index' /\ index' = index
            BY <2>3 DEF Lies
        <3> QED BY <2>1, <2>2, <2>3, <3>1, LiesStays
    <2>5. AlignUp(w.at[k] + z(k), IndexAlign)' = AlignUp(w.at[k] + z(k), IndexAlign)
        BY <1>1, <2>2 DEF AlignUp
    <2> QED BY <2>1, <2>2, <2>3, <2>4, <2>5
<1>3. Settled(srcPos + n, w.at[n + 1])'
    BY <1>1 DEF OnTheWay
<1>4. (w.nextPos = BlockCount)' => Final(w.at[n + 1])'
    BY <1>1 DEF OnTheWay, Final
<1> QED BY <1>2, <1>3, <1>4 DEF OnTheWay

(* A step that neither writes nor moves, and changes no Sector in a write.   *)
LEMMA TracedFrame ==
    ASSUME RInv, UNCHANGED <<task, indexShift, dstPos, srcPos, index, file, writes>>,
           "HAS_FILE" \in state' => "HAS_FILE" \in state,
           "INDEX_WRITTEN" \in state' => "INDEX_WRITTEN" \in state,
           \A t \in Writing : sector'[t] = sector[t]
    PROVE  Traced'
<1> SUFFICES ASSUME ~task.measure PROVE (InPlace /\ IndexTells /\ \A w \in writes : OnTheWay(w))'
    BY DEF Traced
<1>1. InPlace /\ IndexTells /\ \A w \in writes : OnTheWay(w)
    BY DEF RInv, Traced
<1>2. BlockCount' = BlockCount
    BY SameTask
<1>3. InPlace'
    BY <1>1, InPlaceStays
<1>4. IndexTells'
    BY <1>1, <1>2 DEF IndexTells
<1>5. \A w \in writes' : OnTheWay(w)'
    BY <1>1, OnTheWayStays
<1> QED BY <1>3, <1>4, <1>5

LEMMA ShiftedFrame ==
    ASSUME RInv, UNCHANGED <<task, indexShift>>, "HAS_FILE" \in state' => "HAS_FILE" \in state
    PROVE  Shifted'
<1>1. DstFirstSectorPos' = DstFirstSectorPos /\ SrcSize' = SrcSize
    BY SameTask
<1>2. ShiftFor(DstFirstSectorPos + SrcSize)' = ShiftFor(DstFirstSectorPos + SrcSize)
    BY <1>1 DEF ShiftFor
<1> QED BY <1>2 DEF RInv, Shifted

(* Sectors that are released are not in use any more.                        *)
LEMMA ShapedFrame ==
    ASSUME RInv, UNCHANGED <<task, indexShift, work>>, freeSectors \subseteq freeSectors',
           \A t \in Sector \ freeSectors' : sector'[t] = sector[t]
    PROVE  Shaped'
<1>1. \A z, f : Fitting(z, f)' = Fitting(z, f)
    BY SameTask
<1>2. ASSUME NEW t \in Used' PROVE Fitting(sector[t].size, sector[t].fmt)'
    <2>1. t \in Used /\ sector'[t] = sector[t]
        BY DEF Used
    <2>2. LET z == sector[t].size
              f == sector[t].fmt
          IN  Fitting(z, f) /\ Fitting(z, f)' = Fitting(z, f)
        BY <1>1, <2>1 DEF RInv, Shaped
    <2> QED BY <1>1, <2>1, <2>2
<1> QED BY <1>2 DEF RInv, Shaped

-----------------------------------------------------------------------------
(* The steps *)

LEMMA InitRInv == Init => RInv
<1> SUFFICES ASSUME Init PROVE RInv
    OBVIOUS
<1>1. LInv
    BY InitLInv
<1>2. /\ freeSectors = Sector /\ state = {} /\ writes = {} /\ work = {} /\ srcPos = 0
      /\ index = EmptyMap /\ file = [data |-> EmptyMap, index |-> EmptyMap] /\ task \in Task
    BY DEF Init
<1>3. DOMAIN file.data = {} /\ DOMAIN index = {}
    BY <1>2 DEF EmptyMap
<1>4. Shaped /\ Shifted
    BY <1>2 DEF Shaped, Shifted, Used
<1>5. BlockCount # 0
    BY <1>2, StartFacts
<1> QED BY <1>1, <1>2, <1>3, <1>4, <1>5 DEF RInv, Traced, InPlace, IndexTells

(* SetFile puts the first block behind the header and index.                 *)
LEMMA SetFileRInv == ASSUME RInv, SetFile PROVE Shaped' /\ Shifted' /\ Traced'
<1>0. task \in Task /\ VInv /\ LInv
    BY DEF RInv, LInv, VInv, IInv, TypeOK
<1> DEFINE shift == ShiftFor(DstFirstSectorPos + SrcSize)
<1>1. /\ state = {} /\ UNCHANGED <<task, freeSectors, sector, work, writes, file, srcPos, index>>
      /\ indexShift' = shift
      /\ \/ state' = {}
         \/ /\ ~DaxRefused(shift) /\ state' = {"HAS_FILE"}
            /\ dstPos' = AlignUp(DstFirstSectorPos, 2 ^ indexShift')
    BY DEF SetFile
<1>2. srcPos = 0 /\ freeSectors = Sector
    BY <1>0, <1>1 DEF VInv, Unopened
<1>3. writes = {}
    <2> SUFFICES ASSUME NEW w \in writes PROVE FALSE
        OBVIOUS
    <2> QED BY <1>0, <1>1, WriteMeans
<1>4. DOMAIN file.data = {}
    BY <1>0, <1>2 DEF VInv, IInv, Filed
<1>5. Shaped'
    BY <1>1, <1>2 DEF RInv, Shaped, Used
<1>6. /\ BlockCount' = BlockCount /\ DstFirstSectorPos' = DstFirstSectorPos /\ SrcSize' = SrcSize
      /\ BlockSize' = BlockSize
    BY <1>1 DEF BlockCount, DstFirstSectorPos, SrcSize, BlockSize
<1>7. shift' = shift /\ (task.decompress => shift = 0)
    BY <1>1, <1>6 DEF ShiftFor
<1>8. Shifted'
    <2>1. state' = {"HAS_FILE"} => (task.decompress \/ task.fmt = "DAX" => shift = 0)
        BY <1>1, <1>7 DEF DaxRefused
    <2> HIDE DEF shift
    <2> QED BY <1>1, <1>7, <2>1 DEF Shifted, shift
<1>9. ASSUME ~task.measure PROVE (InPlace /\ IndexTells /\ \A w \in writes : OnTheWay(w))'
    <2>1. IndexTells'
        BY <1>1, <1>6, <1>9 DEF RInv, Traced, IndexTells
    <2>2. BlockCount \in Nat \ {0}
        BY <1>0, StartFacts
    <2>3. ASSUME "HAS_FILE" \in state' PROVE Settled(srcPos, dstPos)'
        <3> DEFINE a == IndexAlign'
                   d == DstFirstSectorPos
        <3>1. a \in Nat \ {0}
            <4>1. shift \in Shifts
                BY <1>0, ShiftFacts
            <4> HIDE DEF shift
            <4> QED BY <1>1, <4>1, PowerOfTwo DEF IndexAlign, Shifts
        <3>2. d \in Nat /\ BlockSize \in Nat /\ (task.decompress => d = 0)
            BY <1>0, SizeFacts
        <3>3. dstPos' = AlignUp(d, a)
            BY <1>1, <2>3 DEF IndexAlign
        <3>4. AlignUp(d, a) \in Nat /\ AlignUp(d, a) % a = 0
            BY <3>1, <3>2, AlignUpIs
        <3>5. task.decompress => AlignUp(d, a) = 0
            <4>1. 0 % a = 0
                <5> HIDE DEF a
                <5>1. (0 * a + 0) % a = 0 /\ 0 * a + 0 = 0
                    BY <3>1, Division
                <5> QED BY <5>1
            <4> QED BY <3>2, <4>1 DEF AlignUp
        <3>6. Start(0)' = 0
            <4>1. 0 * BlockSize = 0
                BY <3>2
            <4> QED BY <1>6, <2>2, <4>1 DEF Start
        <3>7. \A M \in Nat : AlignUp(d, a) <= AlignUp(d, a) + 0 * M
            BY <3>4
        <3>8. AlignUp(DstFirstSectorPos, IndexAlign)' = AlignUp(d, a)
            BY <1>6 DEF AlignUp
        <3> HIDE DEF a, d, shift
        <3>9. (srcPos = 0)' /\ (task.decompress = task.decompress')
            BY <1>1, <1>2
        <3> QED BY <3>3, <3>4, <3>5, <3>6, <3>7, <3>8, <3>9 DEF Settled, a
    <2>4. InPlace'
        BY <1>1, <1>2, <1>4, <1>6, <2>2, <2>3 DEF InPlace
    <2> QED BY <1>1, <1>3, <2>1, <2>4
<1> QED BY <1>1, <1>5, <1>8, <1>9 DEF Traced

(* A sector received starts a block uncompressed, or adds to one.            *)
LEMMA ReceiveRInv == ASSUME RInv, Receive PROVE Shaped' /\ Shifted' /\ Traced'
<1>0. IInv /\ task \in Task /\ sector \in [Sector -> SectorRecord] /\ received < task.sectors
    BY DEF RInv, LInv, VInv, IInv, TypeOK, Receive
<1>1. UNCHANGED <<task, writes, srcPos, dstPos, indexShift, index, state, file>>
    BY DEF Receive, Enqueue
<1> DEFINE R(s) == Process(s, Block(received), {received} \cup Padding(received))
<1>2. PICK s \in Taker(received) :
        /\ freeSectors' = freeSectors \ {s}
        /\ \/ sector' = [sector EXCEPT ![s] = R(s)]
           \/ sector' = [sector EXCEPT ![s] = [R(s) EXCEPT !.enqueued = TRUE]]
        /\ task.decompress => work' = work
    BY DEF Receive, Enqueue
<1>3. /\ s \in Sector
      /\ \/ s \in freeSectors /\ sector[s] = Idle
         \/ s \in Used /\ s \in Collecting /\ sector[s].readySize > 0
    BY <1>0, TakerFacts
<1>4. s \notin Writing
    <2>1. s \in freeSectors \cup Filling
        BY <1>3 DEF Collecting, Filling
    <2> QED BY <1>0, <2>1 DEF IInv, NoSectorSharedOrLost
<1>5. \A t \in Sector \ {s} : sector'[t] = sector[t]
    BY <1>0, <1>2
<1>6. Writing \subseteq Sector
    BY <1>0, PlacedUsed DEF Placed, Used
<1>7. Shifted' /\ Traced'
    BY <1>1, <1>4, <1>5, <1>6, ShiftedFrame, TracedFrame
<1>8. Fitting(R(s).size, R(s).fmt)
    <2>1. CASE sector[s].readySize = 0
        <3>1. R(s).size = BlockSize /\ R(s).fmt = "ORIG"
            BY <2>1 DEF Process
        <3> QED BY <3>1 DEF Fitting
    <2>2. CASE sector[s].readySize # 0
        <3>1. R(s).size = sector[s].size /\ R(s).fmt = sector[s].fmt
            BY <2>2 DEF Process
        <3>2. s \in Used
            BY <1>3, <2>2 DEF Idle
        <3> QED BY <3>1, <3>2 DEF RInv, Shaped
    <2> QED BY <2>1, <2>2
<1>9. sector'[s].size = R(s).size /\ sector'[s].fmt = R(s).fmt
    <2>1. R(s) \in SectorRecord
        BY <1>0, ProcessFacts
    <2> HIDE DEF R
    <2>2. [R(s) EXCEPT !.enqueued = TRUE].size = R(s).size
          /\ [R(s) EXCEPT !.enqueued = TRUE].fmt = R(s).fmt
        BY <2>1 DEF SectorRecord
    <2> QED BY <1>0, <1>2, <1>3, <2>2
<1>10. Shaped'
    <2>1. \A z, f : Fitting(z, f)' = Fitting(z, f)
        BY <1>1, SameTask
    <2>2. ASSUME NEW t \in Used' PROVE Fitting(sector[t].size, sector[t].fmt)'
        <3>1. LET z == sector'[t].size
                  f == sector'[t].fmt
              IN  Fitting(z, f)
            <4>1. CASE t = s
                <5> HIDE DEF R
                <5> QED BY <1>8, <1>9, <4>1
            <4>2. CASE t # s
                <5>1. t \in Used /\ sector'[t] = sector[t]
                    BY <1>2, <1>5, <4>2 DEF Used
                <5> QED BY <5>1 DEF RInv, Shaped
            <4> QED BY <4>1, <4>2
        <3> QED BY <2>1, <3>1
    <2>3. task'.decompress => work' = {}
        BY <1>1, <1>2 DEF RInv, Shaped
    <2> QED BY <2>2, <2>3 DEF Shaped
<1> QED BY <1>7, <1>10

(* A trial's result is kept only if it is smaller once aligned.              *)
LEMMA CompressRInv == ASSUME RInv, NEW s \in Sector, Compress(s) PROVE Shaped' /\ Shifted' /\ Traced'
<1>0. IInv /\ TypeOK /\ task \in Task /\ sector \in [Sector -> SectorRecord]
    BY DEF RInv, LInv, VInv, IInv, TypeOK
<1>1. /\ UNCHANGED <<task, freeSectors, writes, srcPos, dstPos, indexShift, index, state, file>>
      /\ s \in work /\ work' = work \ {s}
    BY DEF Compress
<1>2. \A t \in Sector \ {s} : sector'[t] = sector[t]
    BY <1>0, CompressKeeps
<1>3. s \in Used /\ s \notin Writing /\ Writing \subseteq Sector
    BY <1>0, <1>1, PlacedUsed DEF Placed, Used, Filling, IInv, NoSectorSharedOrLost
<1>4. Shifted' /\ Traced'
    BY <1>1, <1>2, <1>3, ShiftedFrame, TracedFrame
<1>5. ~task.decompress /\ Fitting(sector[s].size, sector[s].fmt)
    BY <1>1, <1>3 DEF RInv, Shaped
<1>6. Fitting(sector'[s].size, sector'[s].fmt)
    <2>1. PICK r : /\ sector' = [sector EXCEPT ![s] = FinalizeBest(r)]
                   /\ \/ r = sector[s]
                      \/ \E z \in TrialSizes, m \in task.methods :
                            r = [sector[s] EXCEPT !.size = z, !.fmt = m]
        BY <1>0 DEF Compress
    <2>2. sector[s] \in SectorRecord /\ task.methods \subseteq Methods
        BY <1>0, TaskFacts
    <2>3. /\ DOMAIN r = DOMAIN sector[s]
          /\ Fitting(r.size, r.fmt) \/ (r.size \in TrialSizes /\ r.fmt \in Methods)
        <3>1. CASE r = sector[s]
            BY <1>5, <3>1
        <3>2. ASSUME NEW z \in TrialSizes, NEW m \in task.methods,
                     r = [sector[s] EXCEPT !.size = z, !.fmt = m]
              PROVE  DOMAIN r = DOMAIN sector[s] /\ r.size \in TrialSizes /\ r.fmt \in Methods
            BY <2>2, <3>2 DEF SectorRecord
        <3> QED BY <2>1, <3>1, <3>2
    <2>4. "size" \in DOMAIN r /\ "fmt" \in DOMAIN r
        BY <2>2, <2>3 DEF SectorRecord
    <2>5. sector'[s] = FinalizeBest(r)
        BY <1>0, <2>1
    <2>6. CASE AlignUp(r.size, IndexAlign) >= BlockSize /\ task.fmt # "DAX"
        <3>1. sector'[s] = [r EXCEPT !.size = BlockSize, !.fmt = "ORIG"]
            BY <2>5, <2>6 DEF FinalizeBest
        <3>2. sector'[s].size = BlockSize /\ sector'[s].fmt = "ORIG"
            BY <2>4, <3>1
        <3> QED BY <3>2 DEF Fitting
    <2>7. CASE ~(AlignUp(r.size, IndexAlign) >= BlockSize /\ task.fmt # "DAX")
        <3>1. sector'[s] = r
            BY <2>5, <2>7 DEF FinalizeBest
        <3>2. CASE Fitting(r.size, r.fmt)
            BY <3>1, <3>2
        <3>3. CASE r.size \in TrialSizes /\ r.fmt \in Methods
            <4>1. r.fmt # "ORIG"
                BY <3>3 DEF Methods
            <4>2. CASE task.fmt = "DAX"
                BY <1>5, <3>1, <3>3, <4>1, <4>2 DEF Fitting
            <4>3. CASE task.fmt # "DAX"
                <5>1. r.size \in Nat /\ BlockSize \in Nat /\ "HAS_FILE" \in state
                    <6>1. Placed # {}
                        BY <1>1 DEF Placed, Filling
                    <6> QED BY <1>0, <3>3, <6>1, Opened, SizeFacts, SizesAssumption DEF RInv, LInv
                <5>2. IndexAlign \in Nat \ {0}
                    BY <5>1, OpenFacts
                <5>3. AlignUp(r.size, IndexAlign) \in Nat
                    BY <5>1, <5>2, AlignUpIs
                <5>4. AlignUp(r.size, IndexAlign) < BlockSize
                    BY <2>7, <4>3, <5>1, <5>3
                <5> QED BY <1>5, <3>1, <3>3, <4>1, <4>3, <5>4 DEF Fitting
            <4> QED BY <4>2, <4>3
        <3> QED BY <2>3, <3>2, <3>3
    <2> QED BY <2>6, <2>7
<1>7. Shaped'
    <2>1. \A z, f : Fitting(z, f)' = Fitting(z, f)
        BY <1>1, SameTask
    <2>2. ASSUME NEW t \in Used' PROVE Fitting(sector[t].size, sector[t].fmt)'
        <3>1. LET z == sector'[t].size
                  f == sector'[t].fmt
              IN  Fitting(z, f)
            <4>1. CASE t = s
                BY <1>6, <4>1
            <4>2. CASE t # s
                <5>1. t \in Used /\ sector'[t] = sector[t]
                    BY <1>1, <1>2, <4>2 DEF Used
                <5> QED BY <5>1 DEF RInv, Shaped
            <4> QED BY <4>1, <4>2
        <3> QED BY <2>1, <3>1
    <2>3. task'.decompress => work' = {}
        BY <1>1, <1>5
    <2> QED BY <2>2, <2>3 DEF Shaped
<1> QED BY <1>4, <1>7

(* The steps that touch neither a Sector, a position nor the index.          *)
LEMMA OtherRInv ==
    ASSUME RInv, \/ \E s \in Sector : AfterWork(s)
                 \/ HandleReadyWait \/ AfterProgress \/ UNCHANGED vars
    PROVE  Shaped' /\ Shifted' /\ Traced'
<1>1. UNCHANGED <<task, freeSectors, sector, work, writes, srcPos, dstPos, indexShift, index, file>>
    BY DEF AfterWork, HandleReadyWait, AfterProgress, vars
<1>2. state' = state \/ state' = state \cup {"DATA_WRITTEN"}
    BY DEF AfterWork, HandleReadyWait, AfterProgress, vars
<1>3. /\ "HAS_FILE" \in state' => "HAS_FILE" \in state
      /\ "INDEX_WRITTEN" \in state' => "INDEX_WRITTEN" \in state
    BY <1>2
<1> QED BY <1>1, <1>3, ShapedFrame, ShiftedFrame, TracedFrame

(* The index in the file is index_, which is complete by then.               *)
LEMMA WriteIndexDoneRInv ==
    ASSUME RInv, NEW ok \in BOOLEAN, WriteIndexDone(ok) PROVE Shaped' /\ Shifted' /\ Traced'
<1>1. /\ UNCHANGED <<task, freeSectors, sector, work, writes, srcPos, dstPos, indexShift, index>>
      /\ \/ file' = [file EXCEPT !.index = index] /\ state' = state \cup {"INDEX_WRITTEN"}
         \/ UNCHANGED <<file, state>>
    BY DEF WriteIndexDone
<1>2. "HAS_FILE" \in state' => "HAS_FILE" \in state
    BY <1>1
<1>3. Shaped' /\ Shifted'
    BY <1>1, <1>2, ShapedFrame, ShiftedFrame
<1>4. CASE UNCHANGED <<file, state>>
    BY <1>1, <1>3, <1>4, TracedFrame
<1>5. CASE file' = [file EXCEPT !.index = index]
    <2>1. DOMAIN file = {"data", "index"}
        BY DEF RInv, LInv, VInv, IInv, TypeOK
    <2>2. file'.data = file.data /\ file'.index = index
        BY <1>5, <2>1
    <2>3. ASSUME ~task.measure PROVE (InPlace /\ IndexTells /\ \A w \in writes : OnTheWay(w))'
        <3>1. InPlace /\ IndexTells /\ \A w \in writes : OnTheWay(w)
            BY <2>3 DEF RInv, Traced
        <3>2. BlockCount' = BlockCount
            BY <1>1, SameTask
        <3>3. InPlace'
            BY <1>1, <1>2, <2>2, <3>1, InPlaceStays
        <3>4. IndexTells'
            BY <1>1, <2>2, <3>1, <3>2 DEF IndexTells
        <3>5. \A w \in writes' : OnTheWay(w)'
            BY <1>1, <3>1, OnTheWayStays
        <3> QED BY <3>3, <3>4, <3>5
    <2> QED BY <1>1, <1>3, <2>3 DEF Traced
<1> QED BY <1>1, <1>4, <1>5

(* A batch rejected has entries of its own only.                             *)
LEMMA HandleReadyRejectRInv == ASSUME RInv, HandleReadyReject PROVE Shaped' /\ Shifted' /\ Traced'
<1>0. VInv /\ IInv
    BY DEF RInv, LInv, VInv
<1>1. UNCHANGED <<task, freeSectors, sector, work, writes, srcPos, dstPos, indexShift, state, file>>
    BY DEF HandleReadyReject
<1>2. Shaped' /\ Shifted'
    BY <1>1, ShapedFrame, ShiftedFrame
<1>3. PICK s \in Sector, n \in 1 .. MAX_BUFS :
        /\ NextSector(s) /\ BatchSize(n)
        /\ \E k \in Unstorable(Batch(s, n)) : index' = Indexed(Batch(s, n), k)
    BY DEF HandleReadyReject
<1>k. PICK k \in Unstorable(Batch(s, n)) : index' = Indexed(Batch(s, n), k)
    BY <1>3
<1>4. /\ n \in Nat \ {0} /\ Len(Batch(s, n)) = n /\ writes = {} /\ srcPos + n <= BlockCount
      /\ "INDEX_WRITTEN" \notin state
    BY <1>0, <1>3, BatchMeans
<1>5. k \in 1 .. n /\ srcPos \in Nat /\ BlockCount \in Nat
    BY <1>0, <1>3, <1>4, WithinSource DEF Unstorable
<1>6. /\ DOMAIN index' = DOMAIN index \cup (srcPos .. srcPos + k - 1)
      /\ \A b \in DOMAIN index : b \notin srcPos .. srcPos + k - 1 => index'[b] = index[b]
    BY <1>k DEF Indexed
<1>7. ASSUME ~task.measure PROVE (InPlace /\ IndexTells /\ \A w \in writes : OnTheWay(w))'
    <2>1. InPlace /\ IndexTells
        BY <1>7 DEF RInv, Traced
    <2>2. DOMAIN file.data = 0 .. srcPos - 1
        BY <1>0, <1>7 DEF IInv, Filed
    <2>3. \A b \in DOMAIN file.data : b \notin srcPos .. srcPos + k - 1
        BY <1>5, <2>2
    <2>4. srcPos # BlockCount
        BY <1>4, <1>5
    <2>5. InPlace'
        BY <1>1, <1>6, <2>1, <2>3, <2>4, InPlaceStays
    <2>6. BlockCount' = BlockCount
        BY <1>1, SameTask
    <2>7. srcPos .. srcPos + k - 1 \subseteq 0 .. BlockCount
        BY <1>4, <1>5
    <2>8. IndexTells'
        BY <1>1, <1>4, <1>6, <2>1, <2>6, <2>7 DEF IndexTells
    <2> QED BY <1>1, <1>4, <2>5, <2>8
<1> QED BY <1>1, <1>2, <1>7 DEF Traced

(* UpdateIndex for the blocks of a batch: one entry each, and with the last  *)
(* block of the source the final one.                                        *)
LEMMA FlushIndex ==
    ASSUME VInv, DOMAIN index \subseteq 0 .. BlockCount, NEW B, NEW n \in Nat \ {0}, Len(B) = n,
           srcPos + n <= BlockCount, Flush(B)
    PROVE  /\ DOMAIN index' \subseteq 0 .. BlockCount
           /\ \A b \in DOMAIN index : b < srcPos => b \in DOMAIN index' /\ index'[b] = index[b]
           /\ \A k \in 1 .. n : /\ srcPos + k - 1 \in DOMAIN index'
                                /\ index'[srcPos + k - 1] = IndexEntry(Positions(B)[k], sector[B[k]].fmt)
           /\ srcPos + n = BlockCount =>
                 BlockCount \in DOMAIN index' /\ index'[BlockCount] = IndexValue(Positions(B)[n + 1])
<1> DEFINE at == Positions(B)
           X == Indexed(B, n)
           c == BlockCount
<1>0. srcPos \in Nat /\ c \in Nat /\ srcPos + n <= c
    BY WithinSource DEF VInv
<1>1. \/ srcPos + n >= c /\ index' = Insert(X, c, IndexValue(at[n + 1]))
      \/ ~(srcPos + n >= c) /\ index' = X
    BY DEF Flush, FinalEntry
<1>2. X = [b \in DOMAIN index \cup (srcPos .. srcPos + n - 1) |->
              IF b \in srcPos .. srcPos + n - 1
              THEN IndexEntry(at[b - srcPos + 1], sector[B[b - srcPos + 1]].fmt) ELSE index[b]]
    BY DEF Indexed
<1> HIDE DEF at, X, c
<1>3. /\ DOMAIN index' = DOMAIN X \cup (IF srcPos + n >= c THEN {c} ELSE {})
      /\ \A b \in DOMAIN X : b # c \/ srcPos + n < c => index'[b] = X[b]
      /\ srcPos + n >= c => index'[c] = IndexValue(at[n + 1])
    <2>1. CASE srcPos + n >= c
        <3>1. index' = [x \in DOMAIN X \cup {c} |-> IF x = c THEN IndexValue(at[n + 1]) ELSE X[x]]
            BY <1>1, <2>1 DEF Insert
        <3>2. ~(srcPos + n < c)
            BY <1>0, <2>1
        <3> QED BY <2>1, <3>1, <3>2
    <2>2. CASE ~(srcPos + n >= c)
        BY <1>1, <2>2
    <2> QED BY <2>1, <2>2
<1>4. DOMAIN X = DOMAIN index \cup (srcPos .. srcPos + n - 1)
    BY <1>2
<1>5. srcPos .. srcPos + n - 1 \subseteq 0 .. c /\ c \in 0 .. c
    BY <1>0
<1>6. DOMAIN index' \subseteq 0 .. c
    BY <1>3, <1>4, <1>5 DEF c
<1>7. ASSUME NEW b \in DOMAIN index, b < srcPos PROVE b \in DOMAIN index' /\ index'[b] = index[b]
    <2>1. b \in 0 .. c
        BY DEF c
    <2>2. b \notin srcPos .. srcPos + n - 1 /\ b # c
        BY <1>0, <1>7, <2>1
    <2> QED BY <1>2, <1>3, <1>4, <2>2
<1>8. ASSUME NEW k \in 1 .. n
      PROVE  /\ srcPos + k - 1 \in DOMAIN index'
             /\ index'[srcPos + k - 1] = IndexEntry(at[k], sector[B[k]].fmt)
    <2>1. PICK b \in srcPos .. srcPos + n - 1 : b = srcPos + k - 1 /\ b - srcPos + 1 = k /\ b # c
        BY <1>0
    <2>2. X[b] = IndexEntry(at[k], sector[B[k]].fmt)
        BY <1>2, <2>1
    <2>3. b \in DOMAIN index' /\ index'[b] = X[b]
        BY <1>3, <1>4, <2>1
    <2> QED BY <2>1, <2>2, <2>3
<1>9. srcPos + n = c => c \in DOMAIN index' /\ index'[c] = IndexValue(at[n + 1])
    BY <1>0, <1>3
<1> QED BY <1>6, <1>7, <1>8, <1>9 DEF at, c

(* A batch submitted has its entries, and its blocks their places.           *)
LEMMA HandleReadySubmitRInv == ASSUME RInv, HandleReadySubmit PROVE Shaped' /\ Shifted' /\ Traced'
<1>0. VInv /\ IInv /\ TypeOK /\ LInv
    BY DEF RInv, LInv, VInv, IInv
<1>1. UNCHANGED <<task, work, indexShift, file>>
    BY DEF HandleReadySubmit
<1>2. PICK s \in Sector, n \in 1 .. MAX_BUFS :
        /\ NextSector(s) /\ BatchSize(n) /\ Unstorable(Batch(s, n)) = {} /\ Flush(Batch(s, n))
        /\ \/ /\ task.measure
              /\ sector' = Release({Batch(s, n)[k] : k \in 1 .. Len(Batch(s, n))})
              /\ freeSectors' = freeSectors \cup {Batch(s, n)[k] : k \in 1 .. Len(Batch(s, n))}
           \/ /\ ~task.measure
              /\ writes' = writes \cup {[batch |-> Batch(s, n), at |-> Positions(Batch(s, n)),
                                         nextPos |-> srcPos + Len(Batch(s, n))]}
              /\ UNCHANGED <<sector, freeSectors, srcPos, dstPos>>
    BY DEF HandleReadySubmit
<1> DEFINE B == Batch(s, n)
           at == Positions(B)
<1>3. /\ n \in Nat \ {0} /\ B \in Seq(Sector) /\ Len(B) = n /\ writes = {}
      /\ srcPos + n <= BlockCount /\ "HAS_FILE" \in state /\ "INDEX_WRITTEN" \notin state
    BY <1>0, <1>2, BatchMeans
<1>4. \A k \in 1 .. n : B[k] \in Used
    BY <1>0, <1>2, BatchFacts
<1>5. "HAS_FILE" \in state' => "HAS_FILE" \in state
    BY <1>3
<1>6. Shifted'
    BY <1>1, <1>5, ShiftedFrame
<1>7. Shaped'
    <2>1. CASE task.measure
        <3>1. /\ sector' = Release({B[k] : k \in 1 .. n})
              /\ freeSectors' = freeSectors \cup {B[k] : k \in 1 .. n}
            BY <1>2, <1>3, <2>1
        <3> HIDE DEF B
        <3>2. \A t \in Sector \ freeSectors' : sector'[t] = sector[t]
            BY <3>1 DEF Release
        <3> QED BY <1>1, <3>1, <3>2, ShapedFrame
    <2>2. CASE ~task.measure
        BY <1>1, <1>2, <2>2, ShapedFrame
    <2> QED BY <2>1, <2>2
<1>8. ASSUME ~task.measure PROVE (InPlace /\ IndexTells /\ \A w \in writes : OnTheWay(w))'
    <2>1. InPlace /\ IndexTells
        BY <1>8 DEF RInv, Traced
    <2>2. /\ UNCHANGED <<sector, srcPos, dstPos>>
          /\ writes' = {[batch |-> B, at |-> at, nextPos |-> srcPos + n]}
        BY <1>2, <1>3, <1>8
    <2>3. /\ DOMAIN index' \subseteq 0 .. BlockCount
          /\ \A b \in DOMAIN index : b < srcPos => b \in DOMAIN index' /\ index'[b] = index[b]
          /\ \A k \in 1 .. n : /\ srcPos + k - 1 \in DOMAIN index'
                               /\ index'[srcPos + k - 1] = IndexEntry(at[k], sector[B[k]].fmt)
          /\ srcPos + n = BlockCount =>
                BlockCount \in DOMAIN index' /\ index'[BlockCount] = IndexValue(at[n + 1])
        BY <1>0, <1>2, <1>3, <2>1, FlushIndex DEF IndexTells
    <2>4. Settled(srcPos, dstPos)
        BY <1>3, <2>1 DEF InPlace
    <2>5. /\ \A k \in 1 .. n + 1 : Settled(srcPos + k - 1, at[k])
          /\ \A k \in 1 .. n :
                /\ WriteSize(B[k], at[k]) \in Nat
                /\ at[k + 1] = AlignUp(at[k] + WriteSize(B[k], at[k]), IndexAlign)
                /\ IF task.decompress
                   THEN /\ sector[B[k]].fmt = "ORIG"
                        /\ at[k] + WriteSize(B[k], at[k]) = Start(srcPos + k)
                   ELSE Fitting(WriteSize(B[k], at[k]), sector[B[k]].fmt)
        BY <1>3, <1>4, <2>4, PositionsSettled
    <2>6. \A k \in 1 .. n : Storable(sector[B[k]].fmt)
        BY <1>2, <1>3 DEF Unstorable
    <2>7. srcPos \in Nat /\ BlockCount \in Nat /\ DOMAIN file.data = 0 .. srcPos - 1
        BY <1>0, <1>8, WithinSource DEF IInv, Filed
    <2>8. InPlace'
        <3>1. srcPos # BlockCount /\ \A b \in DOMAIN file.data : b < srcPos
            BY <1>3, <2>7
        <3> QED BY <1>1, <1>5, <2>1, <2>2, <2>3, <3>1, InPlaceStays
    <2>9. IndexTells'
        <3>1. BlockCount' = BlockCount
            BY <1>1, SameTask
        <3>2. "INDEX_WRITTEN" \in state' => task.decompress
            BY <1>0, <1>2, <1>3, <1>8, FlushMeans
        <3> QED BY <1>1, <2>3, <3>1, <3>2 DEF IndexTells
    <2>10. PICK w : writes' = {w} /\ w.batch = B /\ w.at = at /\ w.nextPos = srcPos + n
        <3> DEFINE v == [batch |-> B, at |-> at, nextPos |-> srcPos + n]
        <3>1. v.batch = B /\ v.at = at /\ v.nextPos = srcPos + n
            OBVIOUS
        <3>2. writes' = {v}
            BY <2>2
        <3> HIDE DEF v
        <3> QED BY <3>1, <3>2
    <2>11. Len(w.batch) = n
        BY <1>3, <2>10
    <2> HIDE DEF B, at
    <2>s. /\ BlockCount' = BlockCount /\ IndexAlign' = IndexAlign /\ SrcSize' = SrcSize
          /\ \A z, f : Fitting(z, f)' = Fitting(z, f)
          /\ \A f : Storable(f)' = Storable(f)
          /\ \A b, p : Settled(b, p)' = Settled(b, p)
          /\ \A b : Start(b)' = Start(b)
          /\ \A p : IndexValue(p)' = IndexValue(p)
          /\ \A p, f : IndexEntry(p, f)' = IndexEntry(p, f)
        BY <1>1, SameTask
    <2>12. ASSUME NEW k \in 1 .. n
           PROVE  /\ Lies(srcPos + k - 1, w.at[k], WriteSize(w.batch[k], w.at[k]), sector[w.batch[k]].fmt)'
                  /\ (w.at[k + 1] = AlignUp(w.at[k] + WriteSize(w.batch[k], w.at[k]), IndexAlign))'
        <3> DEFINE b == srcPos + k - 1
                   p == w.at[k]
                   z == WriteSize(w.batch[k], w.at[k])
                   f == sector[w.batch[k]].fmt
        <3>1. k \in 1 .. n + 1 /\ b + 1 = srcPos + k
            BY <1>3, <2>7
        <3>2. z' = z /\ f' = f /\ b' = b
            BY <1>1, <2>2, <2>s DEF WriteSize
        <3>3. /\ Settled(b, p) /\ z \in Nat /\ Storable(f) /\ b \in DOMAIN index'
              /\ index'[b] = IndexEntry(p, f) /\ w.at[k + 1] = AlignUp(p + z, IndexAlign)
              /\ IF task.decompress THEN f = "ORIG" /\ p + z = Start(b + 1) ELSE Fitting(z, f)
            BY <2>3, <2>5, <2>6, <2>10, <3>1
        <3> HIDE DEF b, p, z, f
        <3>4. /\ Settled(b, p)' /\ Storable(f)' /\ index'[b] = IndexEntry(p, f)'
              /\ Fitting(z, f)' = Fitting(z, f) /\ Start(b + 1)' = Start(b + 1)
            BY <2>s, <3>2, <3>3 DEF p
        <3>5. Lies(b, p, z, f)'
            BY <1>1, <3>2, <3>3, <3>4 DEF Lies, p
        <3>6. (w.at[k + 1] = AlignUp(p + z, IndexAlign))'
            BY <2>s, <3>2, <3>3 DEF AlignUp, p
        <3> QED BY <3>5, <3>6 DEF b, p, z, f
    <2>13. Settled(srcPos + n, w.at[n + 1])'
        <3>1. n + 1 \in 1 .. n + 1 /\ srcPos + (n + 1) - 1 = srcPos + n
            BY <1>3, <2>7
        <3>2. Settled(srcPos + n, w.at[n + 1])
            BY <2>5, <2>10, <3>1
        <3> QED BY <2>2, <2>s, <3>2
    <2>14. (w.nextPos = BlockCount)' => Final(w.at[n + 1])'
        BY <2>3, <2>10, <2>s DEF Final
    <2>15. OnTheWay(w)'
        BY <2>11, <2>12, <2>13, <2>14 DEF OnTheWay
    <2> QED BY <2>8, <2>9, <2>10, <2>15
<1> QED BY <1>1, <1>6, <1>7, <1>8 DEF Traced

(* The blocks of the write are in the file where their entries say.          *)
LEMMA HandleWrittenSectorsRInv ==
    ASSUME RInv, NEW w \in writes, NEW ok \in BOOLEAN, HandleWrittenSectors(w, ok)
    PROVE  Shaped' /\ Shifted' /\ Traced'
<1>0. VInv /\ IInv /\ TypeOK /\ LInv
    BY DEF RInv, LInv, VInv, IInv
<1> DEFINE B == w.batch
           n == Len(B)
           at == w.at
<1>1. /\ writes' = writes \ {w} /\ UNCHANGED <<task, work, indexShift, index, state>>
      /\ sector' = Release({B[k] : k \in 1 .. n})
      /\ freeSectors' = freeSectors \cup {B[k] : k \in 1 .. n}
    BY DEF HandleWrittenSectors
<1>2. n \in Nat \ {0} /\ w.nextPos = srcPos + n /\ writes = {w} /\ "HAS_FILE" \in state
    BY <1>0, WriteMeans
<1>3. writes' = {}
    BY <1>1, <1>2
<1>4. Shifted'
    BY <1>1, ShiftedFrame
<1>5. Shaped'
    <2>1. \A t \in Sector \ freeSectors' : sector'[t] = sector[t]
        BY <1>1 DEF Release
    <2> QED BY <1>1, <2>1, ShapedFrame
<1>6. ASSUME ~task.measure PROVE (InPlace /\ IndexTells /\ \A v \in writes : OnTheWay(v))'
    <2>1. InPlace /\ IndexTells /\ OnTheWay(w)
        BY <1>6 DEF RInv, Traced
    <2>2. BlockCount' = BlockCount /\ IndexAlign' = IndexAlign
        BY <1>1, SameTask
    <2>3. CASE ~ok
        <3>1. UNCHANGED <<file, srcPos, dstPos>>
            BY <2>3 DEF HandleWrittenSectors
        <3>2. InPlace'
            BY <1>1, <2>1, <3>1, InPlaceStays
        <3>3. IndexTells'
            BY <1>1, <2>1, <2>2, <3>1 DEF IndexTells
        <3> QED BY <1>3, <3>2, <3>3
    <2>4. CASE ok
        <3>1. /\ HandleWrittenSectors(w, TRUE) /\ srcPos' = srcPos + n
              /\ dstPos' = dstPos + at[n + 1] - at[1]
            BY <1>2, <2>4 DEF HandleWrittenSectors
        <3>2. srcPos \in Nat /\ DOMAIN file.data = 0 .. srcPos - 1
            BY <1>0, <1>6 DEF IInv, Filed, TypeOK
        <3>3. /\ DOMAIN file'.data = 0 .. srcPos + n - 1
              /\ \A b \in 0 .. srcPos - 1 : file'.data[b] = file.data[b]
              /\ \A k \in 1 .. n : file'.data[srcPos + k - 1] = Extent(B[k], at[k])
              /\ file'.index = file.index
            BY <1>0, <3>1, WrittenBlocks
        <3>4. /\ at[1] = dstPos
              /\ \A k \in 1 .. n + 1 : at[k] \in Int
            BY <1>0 DEF LInv, Layout, Chain
        <3>5. dstPos' = at[n + 1]
            <4>1. n + 1 \in 1 .. n + 1 /\ 1 \in 1 .. n + 1
                BY <1>2
            <4>2. at[n + 1] \in Int /\ at[1] \in Int
                BY <3>4, <4>1
            <4> HIDE DEF at, n
            <4> QED BY <3>1, <3>4, <4>2
        <3>6. ASSUME NEW k \in 1 .. n
              PROVE  /\ Lies(srcPos + k - 1, at[k], WriteSize(B[k], at[k]), sector[B[k]].fmt)
                     /\ at[k + 1] = AlignUp(at[k] + WriteSize(B[k], at[k]), IndexAlign)
            BY <2>1 DEF OnTheWay
        <3>7. /\ Settled(srcPos + n, at[n + 1])
              /\ w.nextPos = BlockCount => Final(at[n + 1])
            BY <2>1 DEF OnTheWay
        <3> HIDE DEF B, n, at
        <3>8. ASSUME NEW k \in 1 .. n
              PROVE  LET e == file'.data[srcPos + k - 1] IN
                     e.pos = at[k] /\ e.size = WriteSize(B[k], at[k]) /\ e.fmt = sector[B[k]].fmt
            <4>1. PICK x : x = Extent(B[k], at[k])
                OBVIOUS
            <4>2. x.pos = at[k] /\ x.size = WriteSize(B[k], at[k]) /\ x.fmt = sector[B[k]].fmt
                BY <4>1 DEF Extent
            <4>3. file'.data[srcPos + k - 1] = x
                BY <3>3, <4>1
            <4> QED BY <4>2, <4>3
        <3>9. ASSUME NEW b \in 0 .. srcPos + n - 1
              PROVE  LET e == file'.data[b] IN
                     /\ Lies(b, e.pos, e.size, e.fmt)
                     /\ Behind(b)' = AlignUp(e.pos + e.size, IndexAlign)
            <4> DEFINE e == file'.data[b]
            <4>1. CASE b \in 0 .. srcPos - 1
                <5>1. e = file.data[b] /\ b \in DOMAIN file.data
                    BY <3>2, <3>3, <4>1
                <5>2. Lies(b, e.pos, e.size, e.fmt) /\ Behind(b) = AlignUp(e.pos + e.size, IndexAlign)
                    BY <2>1, <5>1 DEF InPlace
                <5>3. Behind(b)' = Behind(b)
                    <6>1. CASE b + 1 \in 0 .. srcPos - 1
                        <7>1. b + 1 \in 0 .. srcPos + n - 1
                            BY <1>2, <3>2, <6>1
                        <7> QED BY <3>2, <3>3, <6>1, <7>1 DEF Behind
                    <6>2. CASE b + 1 \notin 0 .. srcPos - 1
                        <7>1. b + 1 = srcPos + 1 - 1 /\ b + 1 \in 0 .. srcPos + n - 1 /\ 1 \in 1 .. n
                            BY <1>2, <3>2, <4>1, <6>2
                        <7>2. Behind(b) = dstPos
                            BY <3>2, <6>2 DEF Behind
                        <7>3. Behind(b)' = file'.data[b + 1].pos
                            BY <3>3, <7>1 DEF Behind
                        <7>4. file'.data[b + 1].pos = at[1]
                            BY <3>8, <7>1
                        <7> QED BY <3>4, <7>2, <7>3, <7>4
                    <6> QED BY <6>1, <6>2
                <5> QED BY <5>2, <5>3
            <4>2. CASE b \notin 0 .. srcPos - 1
                <5>1. PICK k \in 1 .. n : b = srcPos + k - 1
                    <6>1. b - srcPos + 1 \in 1 .. n /\ b = srcPos + (b - srcPos + 1) - 1
                        BY <1>2, <3>2, <4>2
                    <6> QED BY <6>1
                <5>2. e.pos = at[k] /\ e.size = WriteSize(B[k], at[k]) /\ e.fmt = sector[B[k]].fmt
                    BY <3>8, <5>1
                <5>3. Lies(b, e.pos, e.size, e.fmt) /\ at[k + 1] = AlignUp(e.pos + e.size, IndexAlign)
                    BY <3>6, <5>1, <5>2
                <5>4. Behind(b)' = at[k + 1]
                    <6>1. CASE k = n
                        <7>1. b + 1 \notin 0 .. srcPos + n - 1
                            BY <1>2, <3>2, <5>1, <6>1
                        <7> QED BY <3>3, <3>5, <6>1, <7>1 DEF Behind
                    <6>2. CASE k # n
                        <7>1. b + 1 \in 0 .. srcPos + n - 1 /\ k + 1 \in 1 .. n /\ b + 1 = srcPos + (k + 1) - 1
                            BY <1>2, <3>2, <5>1, <6>2
                        <7>2. file'.data[b + 1].pos = at[k + 1]
                            BY <3>8, <7>1
                        <7> QED BY <3>3, <7>1, <7>2 DEF Behind
                    <6> QED BY <6>1, <6>2
                <5> QED BY <5>3, <5>4
            <4> QED BY <4>1, <4>2
        <3>10. ASSUME NEW b \in DOMAIN file'.data
               PROVE  (LET e == file.data[b] IN
                       Lies(b, e.pos, e.size, e.fmt) /\ Behind(b) = AlignUp(e.pos + e.size, IndexAlign))'
            <4>1. PICK e : e = file'.data[b]
                OBVIOUS
            <4>2. /\ Lies(b, e.pos, e.size, e.fmt)
                  /\ Behind(b)' = AlignUp(e.pos + e.size, IndexAlign)
                BY <3>3, <3>9, <4>1
            <4>3. b \in DOMAIN index' /\ index'[b] = index[b]
                BY <1>1, <4>2 DEF Lies
            <4>4. PICK p, z, f : p = e.pos /\ z = e.size /\ f = e.fmt
                OBVIOUS
            <4>5. Lies(b, p, z, f)'
                BY <1>1, <4>2, <4>3, <4>4, LiesStays
            <4>6. AlignUp(p + z, IndexAlign)' = AlignUp(p + z, IndexAlign)
                BY <2>2 DEF AlignUp
            <4> QED BY <4>1, <4>2, <4>4, <4>5, <4>6
        <3>11. Settled(srcPos, dstPos)'
            <4>1. PICK b, p : b = srcPos + n /\ p = at[n + 1]
                OBVIOUS
            <4>2. Settled(b, p)'
                BY <1>1, <3>7, <4>1, SameTask
            <4> QED BY <3>1, <3>5, <4>1, <4>2
        <3>12. (srcPos = BlockCount)' => Final(dstPos)'
            <4>1. \A p : IndexValue(p)' = IndexValue(p)
                BY <1>1, SameTask
            <4> QED BY <1>1, <1>2, <2>2, <3>1, <3>5, <3>7, <4>1 DEF Final, n, B
        <3>13. InPlace'
            BY <3>10, <3>11, <3>12 DEF InPlace
        <3>14. IndexTells'
            BY <1>1, <2>1, <2>2, <3>3 DEF IndexTells
        <3> QED BY <1>3, <3>13, <3>14
    <2> QED BY <2>3, <2>4
<1> QED BY <1>1, <1>4, <1>5, <1>6 DEF Traced

LEMMA NextRInv == RInv /\ [Next]_vars => RInv'
<1> SUFFICES ASSUME RInv, [Next]_vars PROVE RInv'
    OBVIOUS
<1>1. LInv'
    BY NextLInv DEF RInv
<1>2. Shaped' /\ Shifted' /\ Traced'
    BY SetFileRInv, ReceiveRInv, CompressRInv, OtherRInv, HandleReadyRejectRInv,
       HandleReadySubmitRInv, HandleWrittenSectorsRInv, WriteIndexDoneRInv DEF Next
<1> QED BY <1>1, <1>2 DEF RInv

LEMMA RInvHolds == Spec => []RInv
BY InitRInv, NextRInv, PTL DEF Spec

-----------------------------------------------------------------------------
(* From the index back to the blocks *)

(* The methods whose entries have the high bit set.                          *)
Flagged(f) == IF task.fmt = "CSO2" THEN f = "LZ4" ELSE f = "ORIG"

(* What an entry that has room for it says of a position.                    *)
LEMMA EntryReads ==
    ASSUME RInv, "HAS_FILE" \in state, ~task.decompress,
           NEW p \in Nat, p % IndexAlign = 0, p < Room * IndexAlign, NEW f
    PROVE  /\ ReadPos(IndexValue(p)) = p /\ ReadPos(IndexEntry(p, f)) = p
           /\ task.fmt # "DAX" =>
                 (HighBit(IndexEntry(p, f)) <=> Flagged(f))
<1> DEFINE a == IndexAlign
           H == 2 ^ IndexBits
           q == p \div a
           D == 2 ^ (IndexBits + 1)
<1>1. a \in Nat \ {0} /\ H \in Nat \ {0} /\ D = H + H
    BY OpenFacts, PowerOfTwo, PositionAssumption
<1>2. Room \in Nat /\ Room = IF task.fmt = "DAX" THEN D ELSE H
    BY <1>1 DEF Room
<1>3. q \in Nat /\ q < Room /\ q * a = p
    BY <1>1, <1>2, Quotient
<1>4. IndexValue(p) = q % D
    BY DEF IndexValue
<1> HIDE DEF a, H, q, D
<1>5. q < D /\ D \in Nat \ {0}
    BY <1>1, <1>2, <1>3
<1>6. IndexValue(p) = q
    <2>1. (0 * D + q) % D = q /\ 0 * D + q = q
        BY <1>3, <1>5, Division
    <2> QED BY <1>4, <2>1
<1>7. CASE task.fmt = "DAX"
    <2>1. IndexEntry(p, f) = q
        BY <1>6, <1>7 DEF IndexEntry
    <2>2. ReadPos(q) = q * a
        BY <1>7 DEF ReadPos, a
    <2> QED BY <1>3, <1>6, <1>7, <2>1, <2>2
<1>8. CASE task.fmt # "DAX"
    <2>1. q < H
        BY <1>2, <1>3, <1>8
    <2>2. ~HighBit(q) /\ SetHighBit(q) = q + H /\ HighBit(q + H)
        <3>1. ~(q >= H) /\ q + H >= H
            BY <1>1, <1>3, <2>1
        <3> QED BY <3>1 DEF HighBit, SetHighBit, H
    <2>3. q % H = q /\ (q + H) % H = q
        <3>1. (0 * H + q) % H = q /\ 0 * H + q = q
            BY <1>1, <1>3, <2>1, Division
        <3>2. (1 * H + q) % H = q /\ 1 * H + q = q + H
            BY <1>1, <1>3, <2>1, Division
        <3> QED BY <3>1, <3>2
    <2>4. ReadPos(q) = q * a /\ ReadPos(q + H) = q * a
        BY <1>8, <2>3 DEF ReadPos, a, H
    <2>5. IndexEntry(p, f) = IF Flagged(f) THEN q + H ELSE q
        BY <1>6, <1>8, <2>2 DEF IndexEntry, Flagged
    <2>6. CASE Flagged(f)
        BY <1>3, <1>6, <1>8, <2>2, <2>4, <2>5, <2>6
    <2>7. CASE ~Flagged(f)
        BY <1>3, <1>6, <1>8, <2>2, <2>4, <2>5, <2>7
    <2> QED BY <2>6, <2>7
<1> QED BY <1>7, <1>8

(* No block in the file starts behind dstPos_.                               *)
LEMMA NoneBeyond ==
    ASSUME RInv, "HAS_FILE" \in state, ~task.measure
    PROVE  \A b \in DOMAIN file.data : file.data[b].pos <= dstPos
<1> DEFINE T == {k \in 1 .. srcPos : file.data[srcPos - k].pos <= dstPos}
<1>0. /\ srcPos \in Nat /\ DOMAIN file.data = 0 .. srcPos - 1 /\ IndexAlign \in Nat \ {0}
      /\ InPlace /\ dstPos \in Nat
    BY OpenFacts DEF RInv, LInv, VInv, IInv, TypeOK, Filed, Traced, InPlace, Settled
<1>1. ASSUME NEW b \in DOMAIN file.data
      PROVE  file.data[b].pos \in Nat /\ Behind(b) \in Nat /\ file.data[b].pos <= Behind(b)
    <2>1. PICK p, z : p = file.data[b].pos /\ z = file.data[b].size
        OBVIOUS
    <2>2. p \in Nat /\ z \in Nat /\ p % IndexAlign = 0 /\ Behind(b) = AlignUp(p + z, IndexAlign)
        BY <1>0, <2>1 DEF InPlace, Lies, Settled
    <2>3. AlignUp(p + z, IndexAlign) = p + AlignUp(z, IndexAlign) /\ AlignUp(z, IndexAlign) \in Nat
        BY <1>0, <2>2, AlignUpFrom, AlignUpIs
    <2> QED BY <2>1, <2>2, <2>3
<1>2. CASE srcPos = 0
    BY <1>0, <1>2
<1>3. CASE srcPos # 0
    <2>1. 1 \in T
        <3>1. srcPos - 1 \in DOMAIN file.data /\ (srcPos - 1) + 1 \notin DOMAIN file.data /\ 1 \in 1 .. srcPos
            BY <1>0, <1>3
        <3>2. Behind(srcPos - 1) = dstPos
            BY <3>1 DEF Behind
        <3> QED BY <1>1, <3>1, <3>2
    <2>2. ASSUME NEW k \in 1 .. srcPos - 1, k \in T PROVE k + 1 \in T
        <3>1. PICK b \in DOMAIN file.data : /\ b = srcPos - (k + 1) /\ b + 1 = srcPos - k
                                            /\ b + 1 \in DOMAIN file.data
            <4>1. /\ srcPos - (k + 1) \in 0 .. srcPos - 1 /\ (srcPos - (k + 1)) + 1 = srcPos - k
                  /\ srcPos - k \in 0 .. srcPos - 1
                BY <1>0
            <4> QED BY <1>0, <4>1
        <3>2. Behind(b) = file.data[b + 1].pos
            BY <3>1 DEF Behind
        <3>3. file.data[b + 1].pos <= dstPos
            BY <2>2, <3>1
        <3>4. file.data[b].pos <= dstPos
            BY <1>0, <1>1, <3>2, <3>3
        <3>5. k + 1 \in 1 .. srcPos
            BY <1>0
        <3> QED BY <3>1, <3>4, <3>5
    <2> HIDE DEF T
    <2>3. \A k \in 1 .. srcPos : k \in T
        BY <1>0, <2>1, <2>2, UpTo
    <2>4. ASSUME NEW b \in DOMAIN file.data PROVE file.data[b].pos <= dstPos
        <3>1. srcPos - b \in 1 .. srcPos /\ srcPos - (srcPos - b) = b
            BY <1>0
        <3>2. srcPos - b \in T
            BY <2>3, <3>1
        <3> QED BY <3>1, <3>2 DEF T
    <2> QED BY <2>4
<1> QED BY <1>2, <1>3

(* A block of the finished file is found, and taken for what it is.          *)
LEMMA BlockReads ==
    ASSUME RInv, "HAS_FILE" \in state, ~task.measure, ~task.decompress, srcPos = BlockCount,
           file.index = index, dstPos < Room * IndexAlign, NEW b \in DOMAIN file.data
    PROVE  ReadsBack(b)
<1> DEFINE a == IndexAlign
           d == file.data[b]
           y == BlockSize
<1>1. /\ task \in Task /\ a \in Nat \ {0} /\ y \in Nat /\ task.fmt \in Formats
      /\ srcPos \in Nat /\ DOMAIN file.data = 0 .. srcPos - 1 /\ InPlace
    BY OpenFacts, TaskFacts DEF RInv, LInv, VInv, IInv, TypeOK, Filed, Traced
<1>2. PICK p, z, f : p = d.pos /\ z = d.size /\ f = d.fmt
    OBVIOUS
<1>3. Lies(b, p, z, f) /\ Behind(b) = AlignUp(p + z, a)
    BY <1>1, <1>2 DEF InPlace
<1>4. /\ p \in Nat /\ p % a = 0 /\ z \in Nat /\ Storable(f) /\ index[b] = IndexEntry(p, f)
      /\ Fitting(z, f)
    BY <1>3 DEF Lies, Settled
<1>5. dstPos \in Nat /\ dstPos % a = 0
    BY <1>1 DEF InPlace, Settled
<1>6. p <= dstPos
    BY <1>2, NoneBeyond
<1>7. Room * a \in Int /\ p < Room * a
    <2>1. Room \in Int
        BY PowerOfTwo, PositionAssumption DEF Room
    <2>2. PICK c \in Int : c = Room * a
        BY <1>1, <2>1
    <2> HIDE DEF a
    <2>3. dstPos < c
        BY <2>2 DEF a
    <2>4. p < c
        BY <1>4, <1>5, <1>6, <2>3
    <2> QED BY <2>2, <2>4
<1>8. /\ ReadPos(index[b]) = p
      /\ task.fmt # "DAX" => (HighBit(index[b]) <=> Flagged(f))
    BY <1>4, <1>7, EntryReads
<1>9. ReadPos(index[b + 1]) = AlignUp(p + z, a)
    <2>1. CASE b + 1 \in DOMAIN file.data
        <3>1. PICK q, g : q = file.data[b + 1].pos /\ g = file.data[b + 1].fmt
            OBVIOUS
        <3>2. q \in Nat /\ q % a = 0 /\ index[b + 1] = IndexEntry(q, g)
            BY <1>1, <2>1, <3>1 DEF InPlace, Lies, Settled
        <3>3. q <= dstPos
            BY <2>1, <3>1, NoneBeyond
        <3>4. q < Room * a
            <4>1. PICK c \in Int : c = Room * a
                BY <1>7
            <4> HIDE DEF a
            <4>2. dstPos < c
                BY <4>1 DEF a
            <4>3. q < c
                BY <1>5, <3>2, <3>3, <4>2
            <4> QED BY <4>1, <4>3
        <3>5. ReadPos(index[b + 1]) = q
            BY <3>2, <3>4, EntryReads
        <3>6. Behind(b) = q
            BY <2>1, <3>1 DEF Behind
        <3> QED BY <1>3, <3>5, <3>6
    <2>2. CASE b + 1 \notin DOMAIN file.data
        <3>1. b + 1 = BlockCount
            BY <1>1, <2>2
        <3>2. index[b + 1] = IndexValue(dstPos)
            BY <1>1, <3>1 DEF InPlace, Final
        <3>3. ReadPos(index[b + 1]) = dstPos
            BY <1>5, <3>2, EntryReads
        <3>4. Behind(b) = dstPos
            BY <2>2 DEF Behind
        <3> QED BY <1>3, <3>3, <3>4
    <2> QED BY <2>1, <2>2
<1>10. /\ AlignUp(p + z, a) = p + AlignUp(z, a) /\ AlignUp(z, a) \in Nat
       /\ AlignUp(z, a) \in z .. z + a - 1
    BY <1>1, <1>4, AlignUpFrom, AlignUpIs
<1> DEFINE r == ReadBlock(b)
           len == ReadPos(index[b + 1]) - ReadPos(index[b])
<1>11. len = AlignUp(z, a)
    <2> HIDE DEF a
    <2> QED BY <1>4, <1>8, <1>9, <1>10
<1>12. /\ r.pos = ReadPos(index[b]) /\ r.len = len
       /\ r.fmt = CASE task.fmt = "CSO1" -> IF HighBit(index[b]) THEN "ORIG" ELSE "DEFLATE"
                    [] task.fmt = "ZSO"  -> IF HighBit(index[b]) THEN "ORIG" ELSE "LZ4"
                    [] task.fmt = "DAX"  -> "DEFLATE"
                    [] task.fmt = "CSO2" -> IF len >= y THEN "ORIG"
                                            ELSE IF HighBit(index[b]) THEN "LZ4" ELSE "DEFLATE"
    BY DEF ReadBlock
<1>13. f \in {"ORIG", "DEFLATE", "LZ4"}
    BY <1>4 DEF Fitting, Methods
<1>14. task.fmt = "CSO2" => (len >= y <=> f = "ORIG")
    <2>1. AlignUp(y, a) >= y
        BY <1>1, AlignUpIs
    <2>2. CASE f = "ORIG"
        <3>1. z = y
            BY <1>4, <2>2 DEF Fitting
        <3> HIDE DEF len, y, a
        <3> QED BY <1>11, <2>1, <2>2, <3>1
    <2>3. CASE f # "ORIG"
        <3>1. task.fmt = "CSO2" => AlignUp(z, a) < y
            BY <1>4, <2>3 DEF Fitting
        <3> HIDE DEF len, y, a
        <3>2. task.fmt = "CSO2" => ~(len >= y)
            BY <1>1, <1>10, <1>11, <3>1
        <3> QED BY <2>3, <3>2
    <2> QED BY <2>2, <2>3
<1> HIDE DEF r, len, a, y, d
<1>15. r.fmt = f
    <2>1. CASE task.fmt = "CSO1"
        <3>1. f # "LZ4" /\ (HighBit(index[b]) <=> f = "ORIG")
            BY <1>4, <1>8, <2>1 DEF Storable, Flagged
        <3>2. r.fmt = IF HighBit(index[b]) THEN "ORIG" ELSE "DEFLATE"
            BY <1>12, <2>1
        <3> QED BY <1>13, <3>1, <3>2
    <2>2. CASE task.fmt = "ZSO"
        <3>1. f # "DEFLATE" /\ (HighBit(index[b]) <=> f = "ORIG")
            BY <1>4, <1>8, <2>2 DEF Storable, Flagged
        <3>2. r.fmt = IF HighBit(index[b]) THEN "ORIG" ELSE "LZ4"
            BY <1>12, <2>2
        <3> QED BY <1>13, <3>1, <3>2
    <2>3. CASE task.fmt = "DAX"
        <3>1. f = "DEFLATE"
            BY <1>4, <2>3 DEF Storable
        <3>2. r.fmt = "DEFLATE"
            BY <1>12, <2>3
        <3> QED BY <3>1, <3>2
    <2>4. CASE task.fmt = "CSO2"
        <3>1. HighBit(index[b]) <=> f = "LZ4"
            BY <1>8, <2>4 DEF Flagged
        <3>2. r.fmt = IF len >= y THEN "ORIG" ELSE IF HighBit(index[b]) THEN "LZ4" ELSE "DEFLATE"
            BY <1>12, <2>4
        <3> QED BY <1>13, <1>14, <2>4, <3>1, <3>2
    <2> QED BY <1>1, <2>1, <2>2, <2>3, <2>4 DEF Formats
<1>16. r.pos = p /\ r.len \in z .. z + a - 1
    BY <1>8, <1>10, <1>11, <1>12
<1> QED BY <1>2, <1>15, <1>16 DEF ReadsBack, r, a, d

(* Success, whatever led to it, is of a file whose index is the one built.   *)
LEMMA Readable == RInv /\ FitsIndex => SuccessMeansReadable
<1> SUFFICES ASSUME RInv, FitsIndex, Said("success"), ~task.measure
             PROVE  /\ DOMAIN file.data = 0 .. BlockCount - 1
                    /\ \A b \in DOMAIN file.data :
                          IF task.decompress
                          THEN LET e == file.data[b] IN
                               /\ e.fmt = "ORIG" /\ e.pos = b * BlockSize
                               /\ e.size = IF b = BlockCount - 1 THEN SrcSize - b * BlockSize
                                           ELSE BlockSize
                          ELSE DOMAIN file.index = 0 .. BlockCount /\ ReadsBack(b)
    BY DEF SuccessMeansReadable
<1>1. /\ {"INDEX_WRITTEN", "DATA_WRITTEN"} \subseteq state /\ srcPos = BlockCount
      /\ DOMAIN file.data = 0 .. BlockCount - 1 /\ task \in Task
    BY DEF RInv, LInv, VInv, IInv, TypeOK, Reported, Calls, Filed
<1>2. "HAS_FILE" \in state
    BY <1>1 DEF RInv, LInv, VInv, Unopened
<1>3. InPlace /\ IndexTells
    BY DEF RInv, Traced
<1>4. BlockCount \in Nat \ {0} /\ BlockSize \in Nat /\ SrcSize \in Nat
    BY <1>1, StartFacts, SizeFacts
<1>5. ASSUME task.decompress, NEW b \in DOMAIN file.data
      PROVE  LET e == file.data[b] IN
             /\ e.fmt = "ORIG" /\ e.pos = b * BlockSize
             /\ e.size = IF b = BlockCount - 1 THEN SrcSize - b * BlockSize ELSE BlockSize
    <2>1. PICK p, z, f : p = file.data[b].pos /\ z = file.data[b].size /\ f = file.data[b].fmt
        OBVIOUS
    <2>2. p = Start(b) /\ z \in Nat /\ f = "ORIG" /\ p + z = Start(b + 1) /\ p \in Nat
        BY <1>3, <1>5, <2>1 DEF InPlace, Lies, Settled
    <2>3. PICK c \in Nat, y \in Nat, e \in Nat : c = BlockCount /\ y = BlockSize /\ e = SrcSize
        BY <1>4
    <2>4. b \in Nat /\ b < c
        BY <1>1, <2>3
    <2>5. p = b * y /\ p + z = IF b + 1 < c THEN (b + 1) * y ELSE e
        BY <2>2, <2>3, <2>4 DEF Start
    <2>6. (b + 1) * y = b * y + y /\ b * y \in Nat
        BY <2>3, <2>4
    <2>7. z = IF b = c - 1 THEN e - b * y ELSE y
        <3>1. CASE b = c - 1
            <4>1. p + z = e
                BY <2>3, <2>4, <2>5, <3>1
            <4>2. z = e - p
                BY <2>2, <2>3, <4>1
            <4> QED BY <2>5, <3>1, <4>2
        <3>2. CASE b # c - 1
            <4>1. p + z = (b + 1) * y
                BY <2>3, <2>4, <2>5, <3>2
            <4>2. p + z = p + y
                BY <2>5, <2>6, <4>1
            <4>3. z = y
                BY <2>2, <2>3, <4>2
            <4> QED BY <3>2, <4>3
        <3> QED BY <3>1, <3>2
    <2> QED BY <2>1, <2>2, <2>3, <2>5, <2>7
<1>6. ASSUME ~task.decompress, NEW b \in DOMAIN file.data
      PROVE  DOMAIN file.index = 0 .. BlockCount /\ ReadsBack(b)
    <2>1. file.index = index /\ DOMAIN index \subseteq 0 .. BlockCount
        BY <1>1, <1>3, <1>6 DEF IndexTells
    <2>2. BlockCount \in DOMAIN index
        BY <1>1, <1>3 DEF InPlace, Final
    <2>3. \A c \in 0 .. BlockCount - 1 : c \in DOMAIN index
        BY <1>1, <1>3 DEF InPlace, Lies
    <2>4. \A c \in 0 .. BlockCount : c \in 0 .. BlockCount - 1 \/ c = BlockCount
        BY <1>4
    <2>5. DOMAIN index = 0 .. BlockCount
        BY <2>1, <2>2, <2>3, <2>4
    <2>6. dstPos < Room * IndexAlign
        BY <1>6 DEF FitsIndex
    <2> QED BY <1>1, <1>2, <1>6, <2>1, <2>5, <2>6, BlockReads
<1> QED BY <1>1, <1>5, <1>6

(* Where the last block ends at worst.                                       *)
LEMMA WorstCaseBounds ==
    ASSUME RInv, WorstCaseFits, Said("success"), ~task.measure
    PROVE  FitsIndex
<1>1. /\ {"INDEX_WRITTEN", "DATA_WRITTEN"} \subseteq state /\ srcPos = BlockCount /\ BlockCount \in Nat
    BY BlockCountFacts DEF RInv, LInv, VInv, IInv, TypeOK, Reported, Calls
<1>2. "HAS_FILE" \in state
    BY <1>1 DEF RInv, LInv, VInv, Unopened
<1>3. CASE task.decompress
    BY <1>3 DEF FitsIndex
<1>4. CASE ~task.decompress
    <2>1. PICK M \in Nat :
            /\ LargestBlock(M)
            /\ AlignUp(DstFirstSectorPos, IndexAlign) + BlockCount * M < Room * IndexAlign
        BY <1>4 DEF WorstCaseFits
    <2>2. dstPos \in Nat /\ dstPos <= AlignUp(DstFirstSectorPos, IndexAlign) + BlockCount * M
        BY <1>1, <1>2, <1>4, <2>1 DEF RInv, Traced, InPlace, Settled
    <2>3. /\ AlignUp(DstFirstSectorPos, IndexAlign) \in Nat /\ BlockCount * M \in Nat
          /\ Room * IndexAlign \in Int
        <3>1. IndexAlign \in Nat \ {0} /\ DstFirstSectorPos \in Nat
            BY <1>2, OpenFacts
        <3>2. Room \in Int
            BY PowerOfTwo, PositionAssumption DEF Room
        <3> QED BY <1>1, <3>1, <3>2, AlignUpIs
    <2>4. PICK x \in Nat, y \in Nat, c \in Int :
            /\ x = AlignUp(DstFirstSectorPos, IndexAlign) /\ y = BlockCount * M
            /\ c = Room * IndexAlign
        BY <2>3
    <2>5. dstPos < c
        <3>1. dstPos <= x + y /\ x + y < c
            BY <2>1, <2>2, <2>4
        <3> QED BY <2>2, <2>4, <3>1
    <2> QED BY <2>4, <2>5 DEF FitsIndex
<1> QED BY <1>3, <1>4

(* SetFile's worst case is the worst case if nothing is padded.              *)
LEMMA UnpaddedFits ==
    ASSUME RInv, "HAS_FILE" \in state, Unpadded
    PROVE  WorstCaseFits
<1> SUFFICES ASSUME ~task.decompress PROVE WorstCaseFits
    BY DEF WorstCaseFits
<1> DEFINE a == IndexAlign
           h == DstFirstSectorPos
           y == BlockSize
<1>1. task \in Task /\ a \in Nat \ {0} /\ y \in Nat /\ h \in Nat
    BY OpenFacts
<1>2. AlignUp(y, a) = y /\ AlignUp(h, a) = h
    BY DEF Unpadded, AlignUp
<1>3. BlockCount * BlockSize = SrcSize
    <2>1. /\ task.sectors \in Nat \ {0} /\ task.perBlock \in Nat \ {0} /\ SECTOR_SIZE \in Nat
          /\ task.sectors % task.perBlock = 0
        BY <1>1, TaskFacts, SizesAssumption DEF Unpadded
    <2>2. PICK k \in Nat \ {0}, n \in Nat, z \in Nat :
            k = task.perBlock /\ n = task.sectors /\ z = SECTOR_SIZE /\ n % k = 0
        BY <2>1
    <2>3. PICK c \in Nat : n = c * k
        BY <2>2, Whole
    <2>4. BlockCount = c
        <3>1. (c * k + (k - 1)) \div k = c
            <4>1. k - 1 \in Nat /\ k - 1 < k
                BY <2>2
            <4> QED BY <2>2, <2>3, <4>1, Division
        <3>2. c * k + (k - 1) = n + k - 1
            <4>1. PICK m \in Nat : m = c * k
                BY <2>2, <2>3
            <4> QED BY <2>2, <2>3, <4>1
        <3> QED BY <2>2, <3>1, <3>2 DEF BlockCount
    <2>5. c * (k * z) = (c * k) * z
        BY <2>2, <2>3
    <2> QED BY <2>2, <2>3, <2>4, <2>5 DEF BlockSize, SrcSize
<1>4. h + SrcSize < 2 ^ (IndexBits + indexShift) /\ indexShift \in Nat
    <2>1. indexShift = ShiftFor(DstFirstSectorPos + SrcSize)
        BY DEF RInv, Shifted
    <2>2. ShiftFor(DstFirstSectorPos + SrcSize) \in Shifts
        BY <1>1, ShiftFacts
    <2>3. DstFirstSectorPos + SrcSize < 2 ^ (IndexBits + ShiftFor(DstFirstSectorPos + SrcSize))
        BY <1>1, ShiftFacts
    <2>4. indexShift \in Nat
        BY <2>1, <2>2 DEF Shifts
    <2> QED BY <2>1, <2>3, <2>4
<1>5. 2 ^ (IndexBits + indexShift) = Room * a
    <2>1. 2 ^ (IndexBits + indexShift) = 2 ^ IndexBits * 2 ^ indexShift
        BY <1>4, PowerSum, PositionAssumption
    <2> QED BY <2>1 DEF Room, Unpadded, IndexAlign
<1>6. LargestBlock(y)
    BY <1>1, <1>2 DEF LargestBlock, Unpadded
<1>7. AlignUp(DstFirstSectorPos, IndexAlign) + BlockCount * y < Room * IndexAlign
    BY <1>2, <1>3, <1>4, <1>5
<1> QED BY <1>1, <1>6, <1>7 DEF WorstCaseFits

(* Success means that the header and index lead the reader to every block,   *)
(* with the method it was stored with, whenever the file came out short      *)
(* enough for the bits of an entry (Output::UpdateIndex); decompressing,     *)
(* that the file is the source, always.                                      *)
THEOREM SuccessIsReadable == Spec => [](FitsIndex => SuccessMeansReadable)
BY Readable, RInvHolds, PTL

(* So it does if the bits are enough for the header, rounded up, and for     *)
(* every block, the padded last one included, at its largest, whatever the   *)
(* trials come to: what SetFile's worstSize would have to be.                *)
THEOREM EnoughBitsAreEnough == Spec => [](WorstCaseFits => SuccessMeansReadable)
<1>1. RInv => (WorstCaseFits => SuccessMeansReadable)
    <2> SUFFICES ASSUME RInv, WorstCaseFits PROVE SuccessMeansReadable
        OBVIOUS
    <2>1. CASE Said("success") /\ ~task.measure
        BY <2>1, WorstCaseBounds, Readable
    <2>2. CASE ~(Said("success") /\ ~task.measure)
        BY <2>2 DEF SuccessMeansReadable
    <2> QED BY <2>1, <2>2
<1> QED BY <1>1, RInvHolds, PTL

(* And SetFile's own choice of the shift is enough for a CSO or ZSO file of  *)
(* whole blocks if the shift leaves header and blocks aligned.               *)
THEOREM ChosenShiftIsEnough == Spec => [](Unpadded => SuccessMeansReadable)
<1>1. RInv => (Unpadded => SuccessMeansReadable)
    <2> SUFFICES ASSUME RInv, Unpadded PROVE SuccessMeansReadable
        OBVIOUS
    <2>1. CASE Said("success") /\ ~task.measure
        <3>1. "HAS_FILE" \in state
            BY <2>1 DEF RInv, LInv, VInv, Unopened, Reported
        <3>2. FitsIndex
            BY <2>1, <3>1, UnpaddedFits, WorstCaseBounds
        <3> QED BY <3>2, Readable
    <2>2. CASE ~(Said("success") /\ ~task.measure)
        BY <2>2 DEF SuccessMeansReadable
    <2> QED BY <2>1, <2>2
<1> QED BY <1>1, RInvHolds, PTL
=============================================================================
