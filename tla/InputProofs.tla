---------------------------- MODULE InputProofs -----------------------------
(***************************************************************************)
(* What Input passes on: for any set of sources as their writers lay them  *)
(* out, cut off anywhere, any owner, any pauses and any failures.          *)
(***************************************************************************)
EXTENDS Input, SequenceTheorems, WellFoundedInduction, TLAPS

-----------------------------------------------------------------------------
(* The inductive invariant. *)

Opening == {"Enqueue", "DetectFormat", "header", "index"}
Reading == {"ReadSector", "read", "work", "after", "deliver", "parked", "end"}
Holding == {"header", "work", "after", "deliver"}

(* The block pos_ lies in, and where Input looks for what lies at p.         *)
BlockAt(p) == file.blocks[p \div BlockSize + 1]

Plain(p) == file.type = "ISO" \/ BlockAt(p).raw

Lead(p) == IF file.type = "ISO" THEN p
           ELSE IF BlockAt(p).raw THEN BlockAt(p).pos + (p % BlockSize) ELSE BlockAt(p).pos

(* What control knows: where in the source Input is, what it holds, whether  *)
(* somebody has to wake it up.                                               *)
Control ==
    /\ pc \in Opening \cup Reading \cup {"failed"}
    /\ file \in File /\ owner \in Owner
    /\ paused \in BOOLEAN /\ bufferSize \in Nat /\ cachePos \in Int /\ out \in Int
    /\ bufs = IF pc \in Holding THEN 1 ELSE 0
    /\ resumeShouldRead = (pc = "parked") /\ (pc = "Enqueue" => Compressing)
    /\ taken \in Seq([pos : Nat, sector : Int]) /\ pos = Len(taken) * SECTOR_SIZE
    /\ pc \in Opening => taken = <<>> /\ block = None
    /\ pc \in Opening \ {"Enqueue", "DetectFormat", "header"} => HeaderOK
    /\ pc \in Reading => HeaderOK /\ file.size % SECTOR_SIZE = 0 /\ pos <= file.size
    /\ pc \in {"read", "work", "after", "deliver", "parked"} => pos < file.size
    /\ pc = "end" => pos = file.size

(* Every byte of the cache is the file's at its position, as far as there is *)
(* a file, and never one from further behind; or nothing has been read yet.  *)
Fresh == cachePos = file.size /\ pos = 0 /\ \A i \in DOMAIN cache : cache[i] = None

Mirrors ==
    /\ cachePos \in Nat
    /\ pos < file.size => cachePos <= Lead(pos)
    /\ \A i \in DOMAIN cache : cachePos + i < file.length => cache[i] = cachePos + i

CacheOK ==
    pc \in Reading =>
        /\ cache \in [0 .. CacheSize - 1 -> Int]
        /\ \A i \in DOMAIN cache : cache[i] <= cachePos + i
        /\ IF pc = "read" THEN cachePos = Lead(pos)
           ELSE \/ Fresh /\ pc \in {"ReadSector", "parked", "end"}
                \/ Mirrors

(* What ReadSector decided still stands when the read or the work is done.   *)
BlockOK ==
    /\ pc = "read" => block = Locate
    /\ pc = "work" => /\ Locate.method # "none" /\ Cached(Locate)
                      /\ block = [Locate EXCEPT !.pos = Locate.pos - cachePos]

(* The block that has been decompressed is the one pos_ lies in, if that is  *)
(* there, and none from further behind.                                      *)
OutOK ==
    pc \in {"after", "deliver"} =>
        /\ ~Plain(pos)
        /\ out \in {Error, Garbage} \cup 1 .. pos \div BlockSize + 1
        /\ BlockAt(pos).pos + BlockAt(pos).size <= file.length =>
              out \in {Error, pos \div BlockSize + 1}

(* What the owner has got.                                                   *)
Delivered ==
    \A i \in DOMAIN taken :
        /\ taken[i].pos = (i - 1) * SECTOR_SIZE
        /\ taken[i].sector \in Sectors \cup {Garbage}
        /\ Intact(i - 1) => taken[i].sector = i - 1

Summed ==
    ~Compressing =>
        /\ pendingBuffers = <<>> /\ crcPos = pos
        /\ crc \in Seq(Int) /\ Len(crc) = Len(taken)
        /\ \A i \in DOMAIN crc : crc[i] = taken[i].sector
        /\ notes = IF pc = "failed" THEN <<"INVALID_DATA">>
                   ELSE IF pos = file.size /\ file.size > 0 THEN <<"SUCCESS">> ELSE <<>>

InInv == Control /\ CacheOK /\ BlockOK /\ OutOK /\ Delivered /\ Summed

-----------------------------------------------------------------------------
(* Arithmetic of sectors and blocks. *)

(* Division with remainder ...                                               *)
LEMMA Division ==
    ASSUME NEW a \in Nat, NEW d \in Nat \ {0}
    PROVE  \E q, r \in Nat : q = a \div d /\ r = a % d /\ r < d /\ a = q * d + r
<1>1. a % d \in Nat /\ a % d < d
    OBVIOUS
<1>2. a \div d \in Nat
    OBVIOUS
<1>3. a % d = a - d * (a \div d)
    OBVIOUS
<1>4. PICK q \in Nat, r \in Nat : q = a \div d /\ r = a % d
    BY <1>1, <1>2
<1>5. r = a - d * q
    BY <1>3, <1>4
<1>6. a = q * d + r /\ r < d
    BY <1>1, <1>4, <1>5
<1> QED BY <1>4, <1>6

(* ... is unique.                                                            *)
LEMMA DivisionUnique ==
    ASSUME NEW a \in Nat, NEW d \in Nat \ {0}, NEW q \in Nat, NEW r \in Nat,
           r < d, a = q * d + r
    PROVE  a \div d = q /\ a % d = r
<1>1. a \div d = q
    OBVIOUS
<1>2. PICK x, y \in Nat : x = a \div d /\ y = a % d /\ a = x * d + y
    BY Division
<1> QED BY <1>1, <1>2

(* One multiple of d below another is at least d below it.                   *)
LEMMA MultiplesApart ==
    ASSUME NEW x \in Nat, NEW y \in Nat, NEW d \in Nat \ {0}, x * d < y * d
    PROVE  x < y /\ x * d + d <= y * d
<1>1. x < y
    <2> SUFFICES ASSUME y <= x PROVE FALSE
        OBVIOUS
    <2>1. PICK k \in Nat : x = y + k
        <3> x - y \in Nat /\ x = y + (x - y)
            OBVIOUS
        <3> QED OBVIOUS
    <2>2. x * d = y * d + k * d /\ k * d \in Nat
        BY <2>1
    <2> QED BY <2>2
<1>2. PICK k \in Nat : y = x + 1 + k
    <2> y - x - 1 \in Nat /\ y = x + 1 + (y - x - 1)
        BY <1>1
    <2> QED OBVIOUS
<1>3. y * d = x * d + d + k * d /\ k * d \in Nat
    BY <1>2
<1> QED BY <1>1, <1>3

(* What is left of a multiple of d by a multiple of d is a multiple of d.    *)
LEMMA MultipleOf ==
    ASSUME NEW a \in Nat, NEW d \in Nat \ {0}, a % d = 0
    PROVE  \E k \in Nat : a = k * d
<1>1. PICK q, r \in Nat : r = a % d /\ a = q * d + r
    BY Division
<1> QED BY <1>1

LEMMA RemainderMultiple ==
    ASSUME NEW p \in Nat, NEW d \in Nat \ {0}, NEW n \in Nat \ {0}, n % d = 0, p % d = 0
    PROVE  \E k \in Nat : p % n = k * d
<1>3. PICK q, r \in Nat : r = p % n /\ r < n /\ p = q * n + r
    BY Division
<1>1. PICK m \in Nat : n = m * d
    BY MultipleOf
<1>2. PICK j \in Nat : p = j * d
    BY MultipleOf
<1>4. q * n = (q * m) * d
    BY <1>1, <1>3
<1> DEFINE u == q * m
<1>5. u \in Nat
    BY <1>3
<1>6. j * d = u * d + r
    BY <1>2, <1>3, <1>4
<1> HIDE DEF u
<1>7. u <= j
    <2> SUFFICES ASSUME j < u PROVE FALSE
        BY <1>5
    <2>1. PICK k \in Nat : u = j + 1 + k
        <3> u - j - 1 \in Nat /\ u = j + 1 + (u - j - 1)
            BY <1>5
        <3> QED OBVIOUS
    <2>2. u * d = j * d + d + k * d /\ k * d \in Nat /\ j * d \in Nat
        BY <2>1
    <2> QED BY <2>2, <1>6, <1>3
<1>8. j - u \in Nat /\ (j - u) * d = j * d - u * d
    BY <1>5, <1>7
<1>9. r = (j - u) * d
    BY <1>3, <1>5, <1>6, <1>8
<1> QED BY <1>3, <1>8, <1>9

-----------------------------------------------------------------------------
(* Where the source's sectors are. *)

(* The types the constants have.                                             *)
LEMMA FileFacts ==
    ASSUME NEW f \in File
    PROVE  /\ f.size \in Nat /\ f.blockSize \in Nat /\ f.shift \in Nat /\ f.length \in Nat
           /\ f.type \in {"ISO", "CSO1", "CSO2", "ZSO", "DAX"}
           /\ f.index \in Seq([pos : Nat, flag : BOOLEAN, size : Nat])
           /\ f.blocks \in Seq([pos : Nat, size : Nat, raw : BOOLEAN])
<1>1. f \in FileType
    BY ConstantsAssumption
<1> QED BY <1>1 DEF FileType

LEMMA SizeFacts ==
    /\ SECTOR_SIZE \in Nat \ {0} /\ STANDARD_SIZE \in Nat \ {0} /\ DAX_FRAME_SIZE \in Nat \ {0}
    /\ DAX_FRAME_SIZE >= SECTOR_SIZE /\ DAX_FRAME_SIZE <= MIN_SIZE
    /\ MIN_SIZE \in Nat /\ SMALL_BLOCK_SIZE \in Nat /\ LARGE_BLOCK_SIZE \in Nat
BY ConstantsAssumption

(* A source whose header has been accepted.                                  *)
LEMMA Accepted ==
    ASSUME file \in File, HeaderOK
    PROVE  /\ BlockSize \in Nat \ {0} /\ BlockSize >= SECTOR_SIZE
           /\ file.type # "ISO" => LaidOut(file)
<1>1. file.type \in {"ISO", "CSO1", "CSO2", "ZSO", "DAX"} /\ file.blockSize \in Nat
    BY FileFacts
<1>2. BlockSize \in Nat \ {0} /\ BlockSize >= SECTOR_SIZE
    <2>1. CASE file.type = "ISO"
        BY <2>1, SizeFacts DEF BlockSize, BlockSizeOf
    <2>2. CASE file.type = "DAX"
        BY <2>2, SizeFacts DEF BlockSize, BlockSizeOf
    <2>3. CASE file.type \notin {"ISO", "DAX"}
        <3>1. file.blockSize >= SECTOR_SIZE
            BY <2>3 DEF HeaderOK
        <3>2. BlockSize = file.blockSize
            BY <2>3 DEF BlockSize, BlockSizeOf
        <3> QED BY <1>1, <3>1, <3>2, SizeFacts
    <2> QED BY <2>1, <2>2, <2>3
<1> QED BY <1>2, LayoutAssumption DEF BlockSize

-----------------------------------------------------------------------------
(* The size of the cache. *)

(* Induction: a set of natural numbers that is not empty has a least member. *)
LEMMA LeastOf ==
    ASSUME NEW T \in SUBSET Nat, T # {}
    PROVE  \E n \in T : \A m \in T : n <= m
<1> DEFINE R == OpToRel(<, Nat)
<1>1. IsWellFoundedOn(R, Nat)
    BY NatLessThanWellFounded
<1>2. \A x, y \in Nat : x < y => <<x, y>> \in R
    BY DEF OpToRel
<1> HIDE DEF R
<1>3. PICK x \in T : \A y \in T : ~(<<y, x>> \in R)
    BY <1>1, WFMin
<1>4. ASSUME NEW y \in T PROVE x <= y
    <2>1. x \in Nat /\ y \in Nat
        OBVIOUS
    <2>2. ~(y < x)
        BY <1>2, <1>3, <2>1
    <2> QED BY <2>1, <2>2
<1> QED BY <1>4

(* A function doubles from m on if it does what SetupCache does.             *)
Doubles(g, m) ==
    LET D == {n \in Nat \ {0} : n >= m} IN
    g = [n \in D |-> IF n >= STANDARD_SIZE THEN n ELSE g[2 * n]]

(* There is such a function from every number on: the numbers it is not      *)
(* defined from would have a greatest.                                       *)
LEMMA DoublingStep ==
    ASSUME NEW m \in Nat, m < STANDARD_SIZE, NEW g, Doubles(g, m + 1)
    PROVE  \E h : Doubles(h, m)
<1> DEFINE D == {n \in Nat \ {0} : n >= m + 1}
           E == {n \in Nat \ {0} : n >= m}
           h == [n \in E |-> IF n >= STANDARD_SIZE THEN n ELSE g[2 * n]]
<1>1. \A n \in D : g[n] = IF n >= STANDARD_SIZE THEN n ELSE g[2 * n]
    BY DEF Doubles
<1>2. \A n \in E : 2 * n \in D /\ 2 * n \in E
    OBVIOUS
<1>3. \A n \in D : n \in E /\ h[n] = g[n]
    BY <1>1
<1>4. \A n \in E : h[2 * n] = g[2 * n]
    BY <1>2, <1>3
<1>5. h = [n \in E |-> IF n >= STANDARD_SIZE THEN n ELSE h[2 * n]]
    BY <1>4
<1> QED BY <1>5 DEF Doubles

LEMMA DoublingExists == \E g : Doubles(g, 0)
<1> USE SizeFacts
<1> DEFINE T == {k \in Nat : \E g : k <= STANDARD_SIZE /\ Doubles(g, STANDARD_SIZE - k)}
           U == {k \in 0 .. STANDARD_SIZE : k \notin T}
<1>1. 0 \in T
    <2> DEFINE D == {n \in Nat \ {0} : n >= STANDARD_SIZE}
               g == [n \in D |-> n]
    <2>1. g = [n \in D |-> IF n >= STANDARD_SIZE THEN n ELSE g[2 * n]]
        OBVIOUS
    <2>2. Doubles(g, STANDARD_SIZE)
        BY <2>1 DEF Doubles
    <2>3. STANDARD_SIZE - 0 = STANDARD_SIZE
        OBVIOUS
    <2> QED BY <2>2, <2>3
<1>2. ASSUME NEW k \in 0 .. STANDARD_SIZE - 1, k \in T PROVE k + 1 \in T
    <2>1. PICK g : Doubles(g, STANDARD_SIZE - k)
        BY <1>2
    <2> DEFINE m == STANDARD_SIZE - (k + 1)
    <2>2. m \in Nat /\ m < STANDARD_SIZE /\ m + 1 = STANDARD_SIZE - k
        OBVIOUS
    <2> HIDE DEF m
    <2>3. Doubles(g, m + 1)
        BY <2>1, <2>2
    <2>4. \E h : Doubles(h, m)
        BY <2>2, <2>3, DoublingStep
    <2> QED BY <2>4 DEF m
<1> HIDE DEF T
<1>3. U = {}
    <2> SUFFICES ASSUME U # {} PROVE FALSE
        OBVIOUS
    <2>1. U \in SUBSET Nat
        OBVIOUS
    <2> HIDE DEF U
    <2>2. PICK k \in U : \A j \in U : k <= j
        BY <2>1, LeastOf
    <2>3. k \in 0 .. STANDARD_SIZE /\ k \notin T /\ k # 0
        BY <1>1, <2>2 DEF U
    <2>4. k - 1 \in 0 .. STANDARD_SIZE - 1 /\ ~(k <= k - 1) /\ (k - 1) + 1 = k
        BY <2>3
    <2>5. k - 1 \in T
        BY <2>2, <2>4 DEF U
    <2> QED BY <1>2, <2>3, <2>4, <2>5
<1>4. STANDARD_SIZE \in T
    BY <1>3
<1>5. STANDARD_SIZE - STANDARD_SIZE = 0
    OBVIOUS
<1> QED BY <1>4, <1>5 DEF T

(* So the recursion of SetupCache has a result, which is a size.             *)
LEMMA DoubledStep ==
    \A n \in Nat \ {0} : Doubled[n] = IF n >= STANDARD_SIZE THEN n ELSE Doubled[2 * n]
<1> DEFINE Q(g) == g = [n \in Nat \ {0} |-> IF n >= STANDARD_SIZE THEN n ELSE g[2 * n]]
<1>1. {n \in Nat \ {0} : n >= 0} = Nat \ {0}
    OBVIOUS
<1>2. \E g : Q(g)
    BY <1>1, DoublingExists DEF Doubles
<1>3. Doubled = CHOOSE g : Q(g)
    BY DEF Doubled
<1>4. Q(Doubled)
    <2> HIDE DEF Q
    <2> QED BY <1>2, <1>3
<1> QED BY <1>4

LEMMA DoubledSize == \A n \in Nat \ {0} : Doubled[n] \in Nat /\ Doubled[n] >= n
<1> USE SizeFacts
<1> DEFINE G(n) == Doubled[n] \in Nat /\ Doubled[n] >= n
           U == {k \in Nat : \E n \in Nat \ {0} : k = STANDARD_SIZE - n /\ ~G(n)}
<1>1. ASSUME NEW n \in Nat \ {0}, n >= STANDARD_SIZE PROVE G(n)
    BY <1>1, DoubledStep
<1>2. ASSUME NEW n \in Nat \ {0}, G(2 * n) PROVE G(n)
    <2>1. CASE n >= STANDARD_SIZE
        BY <1>1, <2>1
    <2>2. CASE ~(n >= STANDARD_SIZE)
        <3>1. Doubled[n] = Doubled[2 * n]
            BY <2>2, DoubledStep
        <3>2. 2 * n >= n
            OBVIOUS
        <3> DEFINE x == Doubled[2 * n]
        <3>3. x \in Nat /\ x >= 2 * n
            BY <1>2
        <3> HIDE DEF x
        <3>4. x \in Nat /\ x >= n
            BY <3>3
        <3> QED BY <3>1, <3>4 DEF x
    <2> QED BY <2>1, <2>2
<1> HIDE DEF G
<1>3. U = {}
    <2> SUFFICES ASSUME U # {} PROVE FALSE
        OBVIOUS
    <2>1. U \in SUBSET Nat
        OBVIOUS
    <2>2. \E k \in U : \A j \in U : k <= j
        <3> HIDE DEF U
        <3> QED BY <2>1, LeastOf
    <2>3. PICK k \in U : \A j \in U : k <= j
        BY <2>2
    <2>4. PICK n \in Nat \ {0} : k = STANDARD_SIZE - n /\ ~G(n)
        BY <2>3
    <2>5. ~G(2 * n) /\ 2 * n \in Nat \ {0}
        BY <1>2, <2>4
    <2>6. 2 * n < STANDARD_SIZE
        BY <1>1, <2>5
    <2>7. STANDARD_SIZE - 2 * n \in U
        BY <2>5, <2>6
    <2>8. STANDARD_SIZE - 2 * n < k
        BY <2>4
    <2> QED BY <2>1, <2>3, <2>7, <2>8
<1>4. ASSUME NEW n \in Nat \ {0} PROVE G(n)
    <2> SUFFICES ASSUME ~G(n) PROVE FALSE
        OBVIOUS
    <2>1. n < STANDARD_SIZE
        BY <1>1
    <2>2. STANDARD_SIZE - n \in U
        BY <2>1
    <2> QED BY <1>3, <2>2
<1> QED BY <1>4 DEF G

-----------------------------------------------------------------------------
(* Where a sector lies in its block. *)

Valid == file \in File /\ HeaderOK /\ file.size % SECTOR_SIZE = 0

LEMMA NextSector ==
    ASSUME Valid, NEW p \in Nat, p % SECTOR_SIZE = 0, p < file.size
    PROVE  p + SECTOR_SIZE <= file.size
<1>1. file.size \in Nat /\ SECTOR_SIZE \in Nat \ {0} /\ file.size % SECTOR_SIZE = 0
    BY FileFacts, SizeFacts DEF Valid
<1>2. PICK z \in Nat : file.size = z * SECTOR_SIZE
    BY <1>1, MultipleOf
<1>3. PICK j \in Nat : p = j * SECTOR_SIZE
    BY <1>1, MultipleOf
<1> QED BY <1>1, <1>2, <1>3, MultiplesApart

LEMMA InBlock ==
    ASSUME Valid, file.type # "ISO", NEW p \in Nat, p % SECTOR_SIZE = 0, p < file.size
    PROVE  \E q, r \in Nat :
              /\ q = p \div BlockSize /\ r = p % BlockSize /\ p = q * BlockSize + r
              /\ r + SECTOR_SIZE <= BlockSize /\ q + 1 \in 1 .. Len(file.blocks)
              /\ BlockAt(p) = file.blocks[q + 1]
              /\ file.blocks[q + 1] \in [pos : Nat, size : Nat, raw : BOOLEAN]
              /\ file.blocks[q + 1].size > 0
              /\ file.blocks[q + 1].raw => r + SECTOR_SIZE <= file.blocks[q + 1].size
<1> DEFINE S == SECTOR_SIZE
           n == BlockSize
           N == Len(file.blocks)
<1>1. S \in Nat \ {0} /\ file.size \in Nat /\ n \in Nat \ {0} /\ LaidOut(file)
    BY FileFacts, SizeFacts, Accepted DEF Valid
<1>2. file.blocks \in Seq([pos : Nat, size : Nat, raw : BOOLEAN]) /\ N \in Nat
    BY FileFacts DEF Valid
<1>3. n % S = 0 /\ file.size <= n * N
    BY <1>1 DEF LaidOut, BlockSize
<1>4. PICK q, r \in Nat : q = p \div n /\ r = p % n /\ r < n /\ p = q * n + r
    <2> HIDE DEF n
    <2> QED BY <1>1, Division
<1>5. r + S <= n
    <2>1. PICK m \in Nat : n = m * S
        <3> HIDE DEF n, S
        <3> QED BY <1>1, <1>3, MultipleOf
    <2>2. PICK k \in Nat : r = k * S
        <3> HIDE DEF n
        <3>1. \E k \in Nat : p % n = k * S
            BY <1>1, <1>3, RemainderMultiple
        <3> QED BY <1>4, <3>1
    <2> HIDE DEF n, S
    <2> QED BY <1>1, <1>4, <2>1, <2>2, MultiplesApart
<1>6. p + S <= file.size
    BY NextSector
<1>7. q + 1 \in 1 .. N
    <2> HIDE DEF n, N
    <2>1. q * n \in Nat /\ q * n <= p
        BY <1>1, <1>4
    <2>2. n * N = N * n
        BY <1>1, <1>2
    <2>3. q * n < N * n
        <3>1. PICK x \in Nat, y \in Nat : x = q * n /\ y = N * n
            BY <1>1, <1>2, <2>1
        <3>2. file.size <= y
            BY <1>3, <2>2, <3>1
        <3>3. x < y
            BY <1>1, <2>1, <3>1, <3>2
        <3> QED BY <3>1, <3>3
    <2>4. q < N
        BY <1>1, <1>2, <2>3, MultiplesApart
    <2> QED BY <1>2, <2>4
<1>8. file.blocks[q + 1] \in [pos : Nat, size : Nat, raw : BOOLEAN]
    BY <1>2, <1>7, ElementOfSeq
<1>9. /\ file.blocks[q + 1].size > 0
      /\ file.blocks[q + 1].raw =>
            file.blocks[q + 1].size >= Smaller(n, file.size - ((q + 1) - 1) * n)
    BY <1>1, <1>7 DEF LaidOut, BlockSize
<1>10. ((q + 1) - 1) * n = q * n
    BY <1>1
<1>11. Smaller(n, file.size - q * n) >= r + S
    <2> HIDE DEF n
    <2>1. PICK x \in Nat : x = q * n
        BY <1>1
    <2>2. p = x + r
        BY <1>4, <2>1
    <2>3. n >= r + S /\ file.size - x >= r + S
        BY <1>1, <1>5, <1>6, <2>2
    <2> QED BY <1>1, <2>1, <2>3 DEF Smaller
<1>12. file.blocks[q + 1].raw => r + S <= file.blocks[q + 1].size
    <2> HIDE DEF n
    <2>1. file.blocks[q + 1].size \in Nat
        BY <1>8
    <2>2. Smaller(n, file.size - q * n) \in Int
        BY <1>1 DEF Smaller
    <2> QED BY <1>1, <1>9, <1>10, <1>11, <2>1, <2>2
<1>13. BlockAt(p) = file.blocks[q + 1]
    BY <1>4 DEF BlockAt
<1> QED BY <1>4, <1>5, <1>7, <1>8, <1>9, <1>12, <1>13

(* What Input looks for moves forward with pos_, and is somewhere else for   *)
(* every stored sector.                                                      *)
LEMMA LeadForward ==
    ASSUME Valid, NEW p \in Nat, NEW s \in Nat,
           p % SECTOR_SIZE = 0, s % SECTOR_SIZE = 0, p <= s, s < file.size
    PROVE  /\ Lead(p) \in Nat /\ Lead(s) \in Nat
           /\ Lead(p) <= Lead(s)
           /\ Plain(p) /\ Plain(s) /\ Lead(p) = Lead(s) => p = s
<1>1. file.size \in Nat /\ SECTOR_SIZE \in Nat \ {0}
    BY FileFacts, SizeFacts DEF Valid
<1>2. CASE file.type = "ISO"
    BY <1>2 DEF Lead
<1>3. CASE file.type # "ISO"
    <2>1. PICK q, r \in Nat :
              /\ r = p % BlockSize /\ p = q * BlockSize + r
              /\ r + SECTOR_SIZE <= BlockSize /\ q + 1 \in 1 .. Len(file.blocks)
              /\ BlockAt(p) = file.blocks[q + 1]
              /\ file.blocks[q + 1] \in [pos : Nat, size : Nat, raw : BOOLEAN]
              /\ file.blocks[q + 1].size > 0
              /\ file.blocks[q + 1].raw => r + SECTOR_SIZE <= file.blocks[q + 1].size
        <3> p < file.size
            BY <1>1
        <3> QED BY <1>3, InBlock
    <2>2. PICK u, v \in Nat :
              /\ v = s % BlockSize /\ s = u * BlockSize + v
              /\ v + SECTOR_SIZE <= BlockSize /\ u + 1 \in 1 .. Len(file.blocks)
              /\ BlockAt(s) = file.blocks[u + 1]
              /\ file.blocks[u + 1] \in [pos : Nat, size : Nat, raw : BOOLEAN]
              /\ file.blocks[u + 1].size > 0
              /\ file.blocks[u + 1].raw => v + SECTOR_SIZE <= file.blocks[u + 1].size
        BY <1>3, InBlock
    <2>3. Lead(p) = IF file.blocks[q + 1].raw THEN file.blocks[q + 1].pos + r ELSE file.blocks[q + 1].pos
        BY <1>3, <2>1 DEF Lead
    <2>4. Lead(s) = IF file.blocks[u + 1].raw THEN file.blocks[u + 1].pos + v ELSE file.blocks[u + 1].pos
        BY <1>3, <2>2 DEF Lead
    <2>5. Plain(p) = file.blocks[q + 1].raw /\ Plain(s) = file.blocks[u + 1].raw
        BY <1>3, <2>1, <2>2 DEF Plain
    <2>6. BlockSize \in Nat \ {0}
        BY Accepted DEF Valid
    <2>7. q <= u
        <3> SUFFICES ASSUME u < q PROVE FALSE
            OBVIOUS
        <3>1. PICK d \in Nat : q = u + 1 + d
            <4> q - u - 1 \in Nat /\ q = u + 1 + (q - u - 1)
                OBVIOUS
            <4> QED OBVIOUS
        <3>2. q * BlockSize = u * BlockSize + BlockSize + d * BlockSize /\ d * BlockSize \in Nat
            BY <2>6, <3>1
        <3>3. u * BlockSize \in Nat
            BY <2>6
        <3>4. PICK x \in Nat, y \in Nat : x = u * BlockSize /\ y = d * BlockSize
            BY <3>2, <3>3
        <3>5. p = x + BlockSize + y + r /\ s = x + v
            BY <2>1, <2>2, <3>2, <3>4
        <3>6. v < BlockSize
            BY <1>1, <2>2, <2>6
        <3>7. s < p
            BY <2>6, <3>5, <3>6
        <3> QED BY <3>7
    <2>8. CASE q = u
        <3>1. r <= v
            <4>1. PICK x \in Nat : x = q * BlockSize
                BY <2>6
            <4> QED BY <2>1, <2>2, <2>8, <4>1
        <3>2. r = v => p = s
            BY <2>1, <2>2, <2>8
        <3>3. file.blocks[q + 1].pos \in Nat /\ file.blocks[q + 1].raw \in BOOLEAN
            BY <2>1
        <3> QED BY <2>3, <2>4, <2>5, <2>8, <3>1, <3>2, <3>3
    <2>9. CASE q < u
        <3>1. file.blocks[q + 1].pos + file.blocks[q + 1].size <= file.blocks[u + 1].pos
            <4>1. LaidOut(file)
                BY <1>3, Accepted DEF Valid
            <4>2. q + 1 < u + 1
                BY <2>9
            <4> QED BY <2>1, <2>2, <4>1, <4>2 DEF LaidOut
        <3>2. PICK a, b, c \in Nat : /\ a = file.blocks[q + 1].pos /\ b = file.blocks[q + 1].size
                                     /\ c = file.blocks[u + 1].pos
            BY <2>1, <2>2
        <3>6. a + b <= c
            BY <3>1, <3>2
        <3>7. b > 0
            BY <2>1, <3>2
        <3>8. file.blocks[q + 1].raw => r + SECTOR_SIZE <= b
            BY <2>1, <3>2
        <3>3. a + b <= c /\ b > 0 /\ (file.blocks[q + 1].raw => r < b)
            BY <1>1, <3>6, <3>7, <3>8
        <3>4. Lead(p) \in Nat /\ Lead(p) < a + b
            BY <2>3, <3>2, <3>3
        <3>5. Lead(s) \in Nat /\ c <= Lead(s)
            BY <2>4, <3>2
        <3> QED BY <3>3, <3>4, <3>5
    <2> QED BY <2>7, <2>8, <2>9
<1> QED BY <1>2, <1>3

(* ReadSector finds it: where it is, whether it is stored, and that what is  *)
(* read holds the sector or the whole block.                                 *)
LEMMA LocateFacts ==
    ASSUME Valid, pos \in Nat, pos % SECTOR_SIZE = 0, pos < file.size
    PROVE  /\ Locate = [pos |-> Locate.pos, len |-> Locate.len, offset |-> Locate.offset,
                        method |-> Locate.method]
           /\ Locate.pos = Lead(pos) /\ Locate.len \in Int
           /\ Locate.method = "none" <=> Plain(pos)
           /\ Plain(pos) => Locate.len >= SECTOR_SIZE
           /\ ~Plain(pos) => Locate.len >= BlockAt(pos).size
<1>1. /\ SECTOR_SIZE \in Nat \ {0} /\ BlockSize \in Nat \ {0}
      /\ file.type \in {"ISO", "CSO1", "CSO2", "ZSO", "DAX"}
    BY FileFacts, SizeFacts, Accepted DEF Valid
<1>2. CASE file.type = "ISO"
    <2>1. Locate = [pos |-> pos + 0, len |-> SECTOR_SIZE - 0, offset |-> 0, method |-> "none"]
        BY <1>2 DEF Locate, Raw
    <2>2. Plain(pos) /\ Lead(pos) = pos
        BY <1>2 DEF Plain, Lead
    <2> QED BY <1>1, <2>1, <2>2
<1>3. CASE file.type # "ISO"
    <2>1. PICK q, r \in Nat :
              /\ q = pos \div BlockSize /\ r = pos % BlockSize
              /\ q + 1 \in 1 .. Len(file.blocks)
              /\ BlockAt(pos) = file.blocks[q + 1]
              /\ file.blocks[q + 1] \in [pos : Nat, size : Nat, raw : BOOLEAN]
              /\ file.blocks[q + 1].raw => r + SECTOR_SIZE <= file.blocks[q + 1].size
        BY <1>3, InBlock
    <2>2. PICK b : b = file.blocks[q + 1]
        OBVIOUS
    <2>3. /\ b.pos \in Nat /\ b.size \in Nat /\ b.raw \in BOOLEAN
          /\ b.raw => r + SECTOR_SIZE <= b.size
        BY <2>1, <2>2
    <2>4. /\ Plain(pos) = b.raw /\ BlockAt(pos) = b
          /\ Lead(pos) = IF b.raw THEN b.pos + r ELSE b.pos
        BY <1>3, <2>1, <2>2 DEF Plain, Lead
    <2>5. LaidOut(file)
        BY <1>3, Accepted DEF Valid
    <2>6. Entry = file.index[q + 1] /\ NextEntry = file.index[q + 2]
        BY <2>1 DEF Entry, NextEntry
    <2>7. ASSUME NEW len \in Int, NEW m, Locate = Located(b.pos, len, r, m),
                 len >= b.size, (m = "none") = b.raw
          PROVE  /\ Locate = [pos |-> Locate.pos, len |-> Locate.len, offset |-> Locate.offset,
                              method |-> Locate.method]
                 /\ Locate.pos = Lead(pos) /\ Locate.len \in Int
                 /\ Locate.method = "none" <=> Plain(pos)
                 /\ Plain(pos) => Locate.len >= SECTOR_SIZE
                 /\ ~Plain(pos) => Locate.len >= BlockAt(pos).size
        <3>1. CASE m = "none"
            <4>1. Locate = [pos |-> b.pos + r, len |-> len - r, offset |-> 0, method |-> m]
                BY <2>3, <2>7, <3>1 DEF Located, Raw
            <4>2. len - r >= SECTOR_SIZE /\ len - r \in Int
                BY <1>1, <2>3, <2>7, <3>1
            <4> QED BY <2>3, <2>4, <2>7, <3>1, <4>1, <4>2
        <3>2. CASE m # "none"
            <4>1. Locate = [pos |-> b.pos, len |-> len, offset |-> r, method |-> m]
                BY <2>3, <2>7, <3>2 DEF Located, Packed
            <4> QED BY <2>3, <2>4, <2>7, <3>2, <4>1
        <3> QED BY <3>1, <3>2
    <2>8. CASE file.type = "DAX"
        <3>1. file.index[q + 1] = [pos |-> b.pos, flag |-> b.raw, size |-> b.size]
            BY <2>1, <2>2, <2>5, <2>8 DEF LaidOut
        <3>2. Entry.pos = b.pos /\ Entry.flag = b.raw /\ Entry.size = b.size
            BY <2>6, <3>1
        <3> DEFINE m == Method(Entry.size)
        <3>3. (m = "none") = b.raw
            BY <2>3, <2>8, <3>2 DEF Method
        <3>4. Locate = Located(Entry.pos, Entry.size, pos % BlockSize, m)
            BY <2>8 DEF Locate
        <3> HIDE DEF m
        <3>5. Locate = Located(b.pos, b.size, r, m)
            BY <2>1, <3>2, <3>4
        <3> QED BY <2>3, <2>7, <3>3, <3>5
    <2>9. CASE file.type # "DAX"
        <3>1. q + 2 = (q + 1) + 1
            OBVIOUS
        <3>2. /\ Position(Entry) = b.pos /\ Position(NextEntry) >= b.pos + b.size
              /\ b.raw = IF file.type = "CSO2" THEN Position(NextEntry) - Position(Entry) >= BlockSize
                         ELSE Entry.flag
            BY <2>1, <2>2, <2>5, <2>6, <2>9, <3>1 DEF LaidOut, Position, BlockSize
        <3>3. Position(NextEntry) \in Int
            <4>1. q + 2 \in 1 .. Len(file.index)
                <5>1. Len(file.index) >= Len(file.blocks) + 1
                    BY <2>5, <2>9 DEF LaidOut
                <5>2. Len(file.index) \in Nat /\ Len(file.blocks) \in Nat
                    BY FileFacts DEF Valid
                <5> QED BY <2>1, <5>1, <5>2
            <4>2. file.index \in Seq([pos : Nat, flag : BOOLEAN, size : Nat]) /\ file.shift \in Nat
                BY FileFacts DEF Valid
            <4>3. file.index[q + 2] \in [pos : Nat, flag : BOOLEAN, size : Nat]
                BY <4>1, <4>2, ElementOfSeq
            <4>4. PICK x \in Nat : x = NextEntry.pos
                BY <2>6, <4>3
            <4>5. PICK y \in Int : y = 2 ^ file.shift
                BY <4>2
            <4>6. x * y \in Int
                OBVIOUS
            <4> QED BY <4>4, <4>5, <4>6 DEF Position
        <3> DEFINE len == Position(NextEntry) - Position(Entry)
                   m == Method(len)
        <3>4. len \in Int /\ len >= b.size
            BY <2>3, <3>2, <3>3
        <3>5. b.raw = IF file.type = "CSO2" THEN len >= BlockSize ELSE Entry.flag
            BY <3>2
        <3>6. Locate = Located(Position(Entry), len, pos % BlockSize, m)
            BY <1>3, <2>9 DEF Locate
        <3> HIDE DEF len
        <3>7. (m = "none") = b.raw
            <4>1. CASE file.type = "CSO2"
                BY <1>1, <3>4, <3>5, <4>1 DEF Method
            <4>2. CASE file.type # "CSO2"
                <5>1. b.raw = Entry.flag
                    BY <3>5, <4>2
                <5> QED BY <1>1, <1>3, <2>3, <2>9, <4>2, <5>1 DEF Method
            <4> QED BY <4>1, <4>2
        <3> HIDE DEF m
        <3>8. Locate = Located(b.pos, len, r, m)
            BY <2>1, <3>2, <3>6
        <3> QED BY <2>7, <3>4, <3>7, <3>8
    <2> QED BY <2>8, <2>9
<1> QED BY <1>2, <1>3

-----------------------------------------------------------------------------
(* What is in the cache. *)

LEMMA Multiple ==
    ASSUME NEW j \in Nat
    PROVE  \E p \in Nat : /\ p = j * SECTOR_SIZE
                          /\ p % SECTOR_SIZE = 0 /\ p \div SECTOR_SIZE = j
<1>1. SECTOR_SIZE \in Nat \ {0}
    BY SizeFacts
<1>2. PICK p \in Nat : p = j * SECTOR_SIZE
    BY <1>1
<1>3. p = j * SECTOR_SIZE + 0 /\ 0 < SECTOR_SIZE
    BY <1>1, <1>2
<1>4. p \div SECTOR_SIZE = j /\ p % SECTOR_SIZE = 0
    BY <1>1, <1>3, DivisionUnique
<1> QED BY <1>2, <1>4

LEMMA SectorsAre ==
    ASSUME Valid, NEW j \in Int
    PROVE  j \in Sectors <=> j \in Nat /\ j * SECTOR_SIZE < file.size
<1>1. SECTOR_SIZE \in Nat \ {0} /\ file.size \in Nat /\ file.size % SECTOR_SIZE = 0
    BY FileFacts, SizeFacts DEF Valid
<1>2. PICK z, r \in Nat : z = file.size \div SECTOR_SIZE /\ r = file.size % SECTOR_SIZE
                          /\ file.size = z * SECTOR_SIZE + r
    BY <1>1, Division
<1>3. file.size = z * SECTOR_SIZE
    BY <1>1, <1>2
<1>4. Sectors = 0 .. z - 1
    BY <1>2 DEF Sectors
<1>5. ASSUME j \in Nat, j < z PROVE j * SECTOR_SIZE < z * SECTOR_SIZE
    <2>1. PICK k \in Nat : z = j + 1 + k
        <3> z - j - 1 \in Nat /\ z = j + 1 + (z - j - 1)
            BY <1>5
        <3> QED OBVIOUS
    <2>2. z * SECTOR_SIZE = j * SECTOR_SIZE + SECTOR_SIZE + k * SECTOR_SIZE /\ k * SECTOR_SIZE \in Nat
        BY <1>1, <1>5, <2>1
    <2>3. j * SECTOR_SIZE \in Nat
        BY <1>1, <1>5
    <2> QED BY <1>1, <2>2, <2>3
<1>6. ASSUME j \in Nat, j * SECTOR_SIZE < z * SECTOR_SIZE PROVE j < z
    BY <1>1, <1>6, MultiplesApart
<1> QED BY <1>3, <1>4, <1>5, <1>6

(* The sector at p, by its number.                                           *)
LEMMA ByNumber ==
    ASSUME Valid, NEW j \in Nat, NEW p \in Nat, p = j * SECTOR_SIZE
    PROVE  /\ IsStored(j) <=> Plain(p)
           /\ Plain(p) => StoredAt(j) = Lead(p)
           /\ file.type # "ISO" => BlockOf(j) = BlockAt(p)
<1>1. file.type # "ISO" => BlockOf(j) = BlockAt(p)
    BY DEF BlockOf, BlockAt
<1> QED BY <1>1 DEF IsStored, Plain, StoredAt, Lead

LEMMA SectorInRange ==
    ASSUME NEW c, NEW o
    PROVE  SectorIn(c, o) \in Sectors \cup {Garbage}
<1> DEFINE X == {s \in Sectors : IsStored(s) /\ Bytes(c, o, SECTOR_SIZE) = Extent(StoredAt(s), SECTOR_SIZE)}
<1>1. SectorIn(c, o) = IF X = {} THEN Garbage ELSE CHOOSE s \in X : TRUE
    BY DEF SectorIn
<1>2. X \subseteq Sectors
    OBVIOUS
<1> HIDE DEF X
<1>3. X # {} => (CHOOSE s \in X : TRUE) \in X
    OBVIOUS
<1> QED BY <1>1, <1>2, <1>3

LEMMA SectorInRight ==
    ASSUME Valid, NEW j \in Sectors, IsStored(j), NEW c, NEW o \in Nat,
           \A i \in 0 .. SECTOR_SIZE - 1 : o + i \in DOMAIN c /\ c[o + i] = StoredAt(j) + i
    PROVE  SectorIn(c, o) = j
<1> DEFINE X == {s \in Sectors : IsStored(s) /\ Bytes(c, o, SECTOR_SIZE) = Extent(StoredAt(s), SECTOR_SIZE)}
<1>1. SECTOR_SIZE \in Nat \ {0} /\ file.size \in Nat
    BY FileFacts, SizeFacts DEF Valid
<1>10. j \in Nat /\ j * SECTOR_SIZE < file.size
    <2>1. j \in Int
        BY <1>1 DEF Sectors
    <2> QED BY <2>1, SectorsAre
<1>11. PICK p \in Nat : p = j * SECTOR_SIZE /\ p % SECTOR_SIZE = 0 /\ p \div SECTOR_SIZE = j
    BY <1>10, Multiple
<1>12. p < file.size
    BY <1>10, <1>11
<1>2. Plain(p) /\ StoredAt(j) = Lead(p)
    BY <1>10, <1>11, ByNumber
<1>3. Lead(p) \in Nat
    BY <1>11, <1>12, LeadForward
<1>5. Bytes(c, o, SECTOR_SIZE) = Extent(StoredAt(j), SECTOR_SIZE)
    <2>1. ASSUME NEW i \in 1 .. SECTOR_SIZE
          PROVE  (IF o + i - 1 \in DOMAIN c THEN c[o + i - 1] ELSE None) = StoredAt(j) + i - 1
        <3>1. i - 1 \in 0 .. SECTOR_SIZE - 1 /\ o + i - 1 = o + (i - 1)
            BY <1>1
        <3>2. o + i - 1 \in DOMAIN c /\ c[o + i - 1] = Lead(p) + (i - 1)
            BY <1>2, <3>1
        <3> QED BY <1>2, <1>3, <3>2
    <2> QED BY <2>1 DEF Bytes, Extent
<1>6. j \in X
    BY <1>5
<1>7. ASSUME NEW s \in X PROVE s = j
    <2>1. s \in Int /\ s \in Sectors
        BY <1>1 DEF Sectors
    <2>2. s \in Nat /\ s * SECTOR_SIZE < file.size
        BY <2>1, SectorsAre
    <2>3. PICK t \in Nat : t = s * SECTOR_SIZE /\ t % SECTOR_SIZE = 0 /\ t \div SECTOR_SIZE = s
        BY <2>2, Multiple
    <2>4. IsStored(s) /\ Extent(StoredAt(s), SECTOR_SIZE) = Extent(StoredAt(j), SECTOR_SIZE)
        BY <1>5, <1>7
    <2>5. Plain(t) /\ StoredAt(s) = Lead(t)
        BY <2>2, <2>3, <2>4, ByNumber
    <2>6. t < file.size
        BY <2>2, <2>3
    <2>7. Lead(t) \in Nat
        BY <2>3, <2>6, LeadForward
    <2>8. Extent(Lead(t), SECTOR_SIZE)[1] = Lead(t) + 1 - 1 /\ Extent(Lead(p), SECTOR_SIZE)[1] = Lead(p) + 1 - 1
        BY <1>1 DEF Extent
    <2>9. Lead(t) = Lead(p)
        BY <1>2, <1>3, <2>4, <2>5, <2>7, <2>8
    <2>10. t = p
        <3>1. CASE t <= p
            BY <1>2, <1>11, <1>12, <2>3, <2>5, <2>6, <2>9, <3>1, LeadForward
        <3>2. CASE p <= t
            BY <1>2, <1>11, <1>12, <2>3, <2>5, <2>6, <2>9, <3>2, LeadForward
        <3> QED BY <3>1, <3>2
    <2>11. t \div SECTOR_SIZE = s
        BY <2>3
    <2> QED BY <1>11, <2>10, <2>11
<1>8. SectorIn(c, o) = IF X = {} THEN Garbage ELSE CHOOSE s \in X : TRUE
    BY DEF SectorIn
<1> HIDE DEF X
<1>9. X = {j}
    BY <1>6, <1>7
<1> QED BY <1>8, <1>9

(* A worker never decompresses a block from further behind, and the right    *)
(* one if all of it is there.                                                *)
LEMMA DecodesFacts ==
    ASSUME Valid, NEW p \in Nat, p % SECTOR_SIZE = 0, p < file.size, ~Plain(p),
           NEW c, NEW o \in Nat, NEW len \in Int, len >= BlockAt(p).size,
           o \in DOMAIN c => c[o] \in Int /\ c[o] <= Lead(p),
           NEW out1 \in Decodes(c, o, len)
    PROVE  /\ out1 \in {Error, Garbage} \cup 1 .. p \div BlockSize + 1
           /\ out1 \in Int
           /\ (\A i \in 0 .. BlockAt(p).size - 1 : o + i \in DOMAIN c /\ c[o + i] = Lead(p) + i)
              => out1 \in {Error, p \div BlockSize + 1}
<1> DEFINE B == {b \in DOMAIN file.blocks :
                   /\ ~file.blocks[b].raw /\ len >= file.blocks[b].size
                   /\ Bytes(c, o, file.blocks[b].size) = Extent(file.blocks[b].pos, file.blocks[b].size)}
<1>1. file.type # "ISO" /\ LaidOut(file)
    <2>1. file.type # "ISO"
        BY DEF Plain
    <2> QED BY <2>1, Accepted DEF Valid
<1>2. PICK q, r \in Nat :
          /\ q = p \div BlockSize /\ q + 1 \in 1 .. Len(file.blocks)
          /\ BlockAt(p) = file.blocks[q + 1]
          /\ file.blocks[q + 1] \in [pos : Nat, size : Nat, raw : BOOLEAN]
          /\ file.blocks[q + 1].size > 0
    BY <1>1, InBlock
<1>3. ~file.blocks[q + 1].raw /\ Lead(p) = file.blocks[q + 1].pos
    BY <1>1, <1>2 DEF Plain, Lead
<1>4. file.blocks \in Seq([pos : Nat, size : Nat, raw : BOOLEAN]) /\ DOMAIN file.blocks = 1 .. Len(file.blocks)
    BY FileFacts DEF Valid
<1>5. out1 \in IF B = {} THEN {Error, Garbage} ELSE {Error} \cup B
    BY DEF Decodes
<1>6. ASSUME NEW b \in B
      PROVE  /\ b \in 1 .. Len(file.blocks) /\ o \in DOMAIN c /\ c[o] = file.blocks[b].pos
             /\ b <= q + 1
    <2>1. b \in 1 .. Len(file.blocks)
        BY <1>4
    <2>2. file.blocks[b] \in [pos : Nat, size : Nat, raw : BOOLEAN]
        BY <1>4, <2>1, ElementOfSeq
    <2>3. file.blocks[b].size \in Nat /\ file.blocks[b].pos \in Nat /\ file.blocks[b].size > 0
        BY <1>1, <2>1, <2>2 DEF LaidOut
    <2>4. Bytes(c, o, file.blocks[b].size) = Extent(file.blocks[b].pos, file.blocks[b].size)
        OBVIOUS
    <2>5. 1 \in 1 .. file.blocks[b].size /\ o + 1 - 1 = o
        BY <2>3
    <2>6. /\ Bytes(c, o, file.blocks[b].size)[1] = IF o \in DOMAIN c THEN c[o] ELSE None
          /\ Extent(file.blocks[b].pos, file.blocks[b].size)[1] = file.blocks[b].pos + 1 - 1
        BY <2>5 DEF Bytes, Extent
    <2>7. o \in DOMAIN c /\ c[o] = file.blocks[b].pos
        BY <2>3, <2>4, <2>6 DEF None
    <2>8. b <= q + 1
        <3> SUFFICES ASSUME q + 1 < b PROVE FALSE
            BY <2>1
        <3>1. file.blocks[q + 1].pos + file.blocks[q + 1].size <= file.blocks[b].pos
            BY <1>1, <1>2, <2>1 DEF LaidOut
        <3>2. file.blocks[b].pos <= file.blocks[q + 1].pos
            BY <1>3, <2>7
        <3>3. file.blocks[q + 1].pos \in Nat /\ file.blocks[q + 1].size \in Nat /\ file.blocks[q + 1].size > 0
            BY <1>2
        <3> QED BY <2>3, <3>1, <3>2, <3>3
    <2> QED BY <2>1, <2>7, <2>8
<1>7. ASSUME \A i \in 0 .. BlockAt(p).size - 1 : o + i \in DOMAIN c /\ c[o + i] = Lead(p) + i
      PROVE  B = {q + 1}
    <2>1. PICK a \in Nat, z \in Nat : a = file.blocks[q + 1].pos /\ z = file.blocks[q + 1].size /\ z > 0
        BY <1>2
    <2>2. q + 1 \in B
        <3>1. ASSUME NEW i \in 1 .. z
              PROVE  (IF o + i - 1 \in DOMAIN c THEN c[o + i - 1] ELSE None) = a + i - 1
            <4>1. i - 1 \in 0 .. BlockAt(p).size - 1 /\ o + i - 1 = o + (i - 1)
                BY <1>2, <2>1
            <4>2. o + i - 1 \in DOMAIN c /\ c[o + i - 1] = a + (i - 1)
                BY <1>3, <1>7, <2>1, <4>1
            <4> QED BY <4>2
        <3>2. Bytes(c, o, z) = Extent(a, z)
            BY <3>1 DEF Bytes, Extent
        <3>3. len >= z
            BY <1>2, <2>1
        <3> QED BY <1>2, <1>3, <1>4, <2>1, <3>2, <3>3
    <2>3. ASSUME NEW b \in B PROVE b = q + 1
        <3>1. b \in 1 .. Len(file.blocks) /\ c[o] = file.blocks[b].pos /\ b <= q + 1
            BY <1>6
        <3>2. c[o] = a
            <4>1. 0 \in 0 .. BlockAt(p).size - 1 /\ o + 0 = o
                BY <1>2, <2>1
            <4>2. c[o] = a + 0
                BY <1>3, <1>7, <2>1, <4>1
            <4> QED BY <4>2
        <3> SUFFICES ASSUME b < q + 1 PROVE FALSE
            BY <3>1
        <3>3. file.blocks[b].pos + file.blocks[b].size <= a /\ file.blocks[b].size > 0
            BY <1>1, <1>2, <2>1, <3>1 DEF LaidOut
        <3>4. file.blocks[b] \in [pos : Nat, size : Nat, raw : BOOLEAN]
            BY <1>4, <3>1, ElementOfSeq
        <3>5. PICK y \in Nat : y = file.blocks[b].size
            BY <3>4
        <3> QED BY <2>1, <3>1, <3>2, <3>3, <3>5
    <2> HIDE DEF B
    <2> QED BY <2>2, <2>3
<1> HIDE DEF B
<1>8. out1 \in {Error, Garbage} \cup 1 .. q + 1
    <2>1. CASE out1 \in B
        <3>1. out1 \in 1 .. Len(file.blocks) /\ out1 <= q + 1
            BY <1>6, <2>1
        <3> QED BY <3>1
    <2>2. CASE out1 \in {Error, Garbage}
        BY <2>2
    <2> QED BY <1>5, <2>1, <2>2
<1>9. out1 \in Int
    BY <1>8 DEF Error, Garbage
<1>10. ASSUME \A i \in 0 .. BlockAt(p).size - 1 : o + i \in DOMAIN c /\ c[o + i] = Lead(p) + i
       PROVE  out1 \in {Error, q + 1}
    <2>1. B = {q + 1}
        BY <1>7, <1>10
    <2> QED BY <1>5, <2>1
<1> QED BY <1>2, <1>8, <1>9, <1>10

-----------------------------------------------------------------------------
(* The invariant holds initially ... *)

LEMMA InInit == Init => InInv
<1> SUFFICES ASSUME Init PROVE InInv
    OBVIOUS
<1> USE DEF Init
<1>1. pc \in Opening /\ pc \notin Reading /\ pc \notin Holding /\ pc # "failed" /\ pc # "parked"
    BY DEF Opening, Reading, Holding, Compressing
<1>2. owner.pool \in Nat
    <2> owner \in OwnerType
        BY ConstantsAssumption
    <2> QED BY DEF OwnerType
<1>3. taken \in Seq([pos : Nat, sector : Int]) /\ pos = Len(taken) * SECTOR_SIZE
    <2>1. taken \in Seq([pos : Nat, sector : Int]) /\ Len(taken) = 0
        OBVIOUS
    <2>2. 0 * SECTOR_SIZE = 0
        BY SizeFacts
    <2> QED BY <2>1, <2>2
<1>8. resumeShouldRead = (pc = "parked") /\ (pc = "Enqueue" => Compressing)
    BY <1>1 DEF Compressing
<1>9. cachePos \in Int /\ out \in Int
    BY DEF None
<1>10. HeaderOK \/ pc # "index"
    BY DEF Compressing
<1>4. Control
    BY <1>1, <1>2, <1>3, <1>8, <1>9, <1>10 DEF Control, Opening, Reading
<1>5. CacheOK /\ BlockOK /\ OutOK
    BY <1>1 DEF CacheOK, BlockOK, OutOK, Reading
<1>6. Delivered
    BY DEF Delivered
<1>7. Summed
    BY <1>1 DEF Summed
<1> QED BY <1>4, <1>5, <1>6, <1>7 DEF InInv

-----------------------------------------------------------------------------
(* ... and every step keeps it.  What only depends on the file stays.        *)
LEMMA Frame ==
    ASSUME UNCHANGED fixed
    PROVE  /\ BlockSize' = BlockSize /\ CacheSize' = CacheSize /\ Sectors' = Sectors
           /\ HeaderOK' <=> HeaderOK
           /\ Compressing' <=> Compressing
           /\ \A p : BlockAt(p)' = BlockAt(p)
           /\ \A p : Lead(p)' = Lead(p)
           /\ \A p : Plain(p)' <=> Plain(p)
           /\ \A j : Intact(j)' <=> Intact(j)
<1>1. file' = file /\ owner' = owner
    BY DEF fixed
<1>2. BlockSize' = BlockSize
    BY <1>1 DEF BlockSize
<1>3. CacheSize' = CacheSize /\ Sectors' = Sectors
    BY <1>1, <1>2 DEF CacheSize, Sectors
<1>4. HeaderOK' <=> HeaderOK
    BY <1>1 DEF HeaderOK
<1>5. Compressing' <=> Compressing
    BY <1>1 DEF Compressing
<1>6. \A p : BlockAt(p)' = BlockAt(p)
    BY <1>1, <1>2 DEF BlockAt
<1>7. \A p : Lead(p)' = Lead(p)
    BY <1>1, <1>2 DEF Lead, BlockAt
<1>8. \A p : Plain(p)' <=> Plain(p)
    BY <1>1, <1>2 DEF Plain, BlockAt
<1>9. \A j : Intact(j)' <=> Intact(j)
    BY <1>1, <1>2 DEF Intact, IsStored, StoredAt, BlockOf
<1> QED BY <1>2, <1>3, <1>4, <1>5, <1>6, <1>7, <1>8, <1>9

LEMMA DeliveredStays ==
    ASSUME Delivered, UNCHANGED <<fixed, taken>>
    PROVE  Delivered'
<1>1. file' = file /\ taken' = taken
    BY DEF fixed
<1> QED BY <1>1 DEF Delivered, Intact, Sectors, IsStored, StoredAt, BlockOf, BlockSize

LEMMA SummedStays ==
    ASSUME Summed, UNCHANGED <<fixed, pos, taken, crc, crcPos, pendingBuffers, notes>>,
           pc' = "failed" <=> pc = "failed"
    PROVE  Summed'
<1>1. file' = file /\ owner' = owner
    BY DEF fixed
<1> QED BY <1>1 DEF Summed, Compressing

LEMMA SummedFails ==
    ASSUME Summed, UNCHANGED <<fixed, pos, taken, crc, crcPos, pendingBuffers>>, file.size \in Nat,
           pc # "failed", pos = 0 \/ pos < file.size, Finish
    PROVE  Summed'
<1>1. file' = file /\ owner' = owner /\ pc' = "failed" /\ notes' = Append(notes, "INVALID_DATA")
    BY DEF fixed, Finish, Notify
<1>2. ~Compressing => notes = <<>>
    BY DEF Summed
<1>3. ~Compressing => notes' = <<"INVALID_DATA">>
    BY <1>1, <1>2
<1> QED BY <1>1, <1>3 DEF Summed, Compressing

(* What the invariant says of the file and of pos_.                          *)
LEMMA ReadingFacts ==
    ASSUME Control, pc \in Reading
    PROVE  /\ Valid /\ pos \in Nat /\ pos % SECTOR_SIZE = 0 /\ pos \div SECTOR_SIZE = Len(taken)
           /\ file.size \in Nat /\ file.length \in Nat /\ SECTOR_SIZE \in Nat \ {0} /\ Len(taken) \in Nat
           /\ BlockSize \in Nat \ {0} /\ CacheSize \in Nat
<1>1. Valid
    BY DEF Control, Valid
<1>2. file.size \in Nat /\ file.length \in Nat /\ SECTOR_SIZE \in Nat \ {0} /\ Len(taken) \in Nat
    BY FileFacts, SizeFacts DEF Control
<1>3. BlockSize \in Nat \ {0}
    BY <1>1, Accepted DEF Valid
<1>4. CacheSize \in Nat
    BY <1>3, DoubledSize DEF CacheSize
<1>5. pos \in Nat /\ pos % SECTOR_SIZE = 0 /\ pos \div SECTOR_SIZE = Len(taken)
    <2>1. PICK p \in Nat : /\ p = Len(taken) * SECTOR_SIZE
                           /\ p % SECTOR_SIZE = 0 /\ p \div SECTOR_SIZE = Len(taken)
        BY <1>2, Multiple
    <2>2. pos = p
        BY <2>1 DEF Control
    <2> QED BY <2>1, <2>2
<1> QED BY <1>1, <1>2, <1>3, <1>4, <1>5

-----------------------------------------------------------------------------
(* Opening the source. *)

LEMMA OpeningFacts ==
    ASSUME Control, pc \in Opening
    PROVE  /\ taken = <<>> /\ pos = 0 /\ resumeShouldRead = FALSE
           /\ file.size \in Nat
<1>1. taken = <<>> /\ Len(taken) = 0
    BY DEF Control
<1>2. 0 * SECTOR_SIZE = 0
    BY SizeFacts
<1> QED BY <1>1, <1>2, FileFacts DEF Control, Opening

LEMMA EnqueueKeeps == InInv /\ Enqueue => InInv'
<1> SUFFICES ASSUME InInv, Enqueue PROVE InInv'
    OBVIOUS
<1>1. pc = "Enqueue" /\ pc' \in {"DetectFormat", "failed"} /\ Compressing
    BY DEF Enqueue, InInv, Control
<1>2. file' = file /\ owner' = owner
    BY DEF Enqueue, fixed
<1>3. bufferSize' \in Nat
    <2>1. owner \in OwnerType
        BY ConstantsAssumption DEF InInv, Control
    <2>2. TaskBlockSize \in Nat
        BY <2>1, SizeFacts DEF TaskBlockSize, OwnerType
    <2>3. PoolSize(2 * TaskBlockSize) \in Nat
        BY <2>2, SizeFacts DEF PoolSize, Larger
    <2> QED BY <2>3 DEF Enqueue, InInv, Control
<1>8. pc \notin Holding /\ pc' \notin Holding /\ pc' \notin Reading
    BY <1>1 DEF Holding, Reading
<1>4. Control'
    BY <1>1, <1>2, <1>3, <1>8 DEF Enqueue, InInv, Control, Opening, flow, cacheVars
<1>5. (CacheOK /\ BlockOK /\ OutOK)'
    BY <1>1 DEF CacheOK, BlockOK, OutOK, Reading
<1>6. Delivered'
    BY DeliveredStays DEF Enqueue, InInv
<1>7. Summed'
    BY <1>1, <1>2 DEF Summed, Compressing
<1> QED BY <1>4, <1>5, <1>6, <1>7 DEF InInv

LEMMA DetectFormatKeeps == InInv /\ DetectFormat => InInv'
<1> SUFFICES ASSUME InInv, DetectFormat PROVE InInv'
    OBVIOUS
<1>1. pc = "DetectFormat" /\ pc' = "header"
    BY DEF DetectFormat
<1>2. file' = file /\ owner' = owner
    BY DEF DetectFormat, fixed
<1>4. Control'
    BY <1>1, <1>2 DEF DetectFormat, InInv, Control, Opening, Reading, Holding, flow, cacheVars, ownerVars, Compressing
<1>5. (CacheOK /\ BlockOK /\ OutOK)'
    BY <1>1 DEF CacheOK, BlockOK, OutOK, Reading
<1>6. Delivered'
    BY DeliveredStays DEF DetectFormat, InInv, ownerVars
<1>7. Summed'
    BY <1>1, SummedStays DEF DetectFormat, InInv, ownerVars
<1> QED BY <1>4, <1>5, <1>6, <1>7 DEF InInv

LEMMA HeaderDoneKeeps == InInv /\ HeaderDone => InInv'
<1> SUFFICES ASSUME InInv, HeaderDone PROVE InInv'
    OBVIOUS
<1>1. pc = "header" /\ pc' \in {"failed", "index"} /\ (pc' = "index" => HeaderOK)
    BY DEF HeaderDone, Finish
<1>9. UNCHANGED fixed
    BY DEF HeaderDone
<1>2. file' = file /\ owner' = owner /\ (HeaderOK' <=> HeaderOK)
    BY <1>9, Frame DEF fixed
<1>3. bufferSize' \in Nat
    <2>1. bufferSize \in Nat /\ file.blockSize \in Nat /\ BlockSize \in Nat
        <3>1. file.blockSize \in Nat /\ bufferSize \in Nat
            BY FileFacts DEF InInv, Control
        <3> QED BY <3>1, SizeFacts DEF BlockSize, BlockSizeOf
    <2>2. Grow \in Nat
        BY <2>1 DEF Grow, Larger
    <2>3. PoolSize(Grow) \in Nat
        BY <2>2, SizeFacts DEF PoolSize, Larger
    <2> QED BY <2>1, <2>3 DEF HeaderDone
<1>4. bufs' = 0
    BY <1>1 DEF HeaderDone, InInv, Control, Holding
<1>5. Control'
    BY <1>1, <1>2, <1>3, <1>4 DEF HeaderDone, InInv, Control, Opening, Reading, Holding, flow, cacheVars, Compressing
<1>6. (CacheOK /\ BlockOK /\ OutOK)'
    BY <1>1 DEF CacheOK, BlockOK, OutOK, Reading
<1>7. Delivered'
    BY DeliveredStays DEF HeaderDone, InInv
<1>8. Summed'
    <2>1. pos = 0 /\ file.size \in Nat
        BY <1>1, OpeningFacts DEF InInv, Opening
    <2>2. CASE Finish
        BY <1>1, <2>1, <2>2, SummedFails DEF HeaderDone, InInv
    <2>3. CASE pc' = "index" /\ UNCHANGED notes
        BY <1>1, <2>3, SummedStays DEF HeaderDone, InInv
    <2> QED BY <2>2, <2>3 DEF HeaderDone
<1> QED BY <1>5, <1>6, <1>7, <1>8 DEF InInv

LEMMA IndexDoneKeeps == InInv /\ IndexDone => InInv'
<1> SUFFICES ASSUME InInv, IndexDone PROVE InInv'
    OBVIOUS
<1>1. pc = "index" /\ pc' \in {"failed", "ReadSector"}
    BY DEF IndexDone, Finish
<1>2. UNCHANGED fixed /\ UNCHANGED <<pos, resumeShouldRead, block, out, bufs, taken, crc, crcPos, pendingBuffers>>
    BY DEF IndexDone
<1>3. file' = file /\ owner' = owner /\ (HeaderOK' <=> HeaderOK) /\ CacheSize' = CacheSize
    BY <1>2, Frame DEF fixed
<1>4. taken = <<>> /\ pos = 0 /\ resumeShouldRead = FALSE /\ file.size \in Nat
    BY <1>1, OpeningFacts DEF InInv, Opening
<1>5. HeaderOK /\ bufs = 0 /\ bufferSize \in Nat /\ cachePos \in Int /\ out \in Int /\ paused \in BOOLEAN
    BY <1>1 DEF InInv, Control, Opening, Holding
<1>6. CASE Finish /\ UNCHANGED <<cacheVars, bufferSize, paused>>
    <2>1. pc' = "failed"
        BY <1>6 DEF Finish
    <2>2. Control'
        BY <1>1, <1>2, <1>3, <1>5, <1>6, <2>1 DEF InInv, Control, Opening, Reading, Holding, cacheVars, Compressing
    <2>3. (CacheOK /\ BlockOK /\ OutOK)'
        BY <2>1 DEF CacheOK, BlockOK, OutOK, Reading
    <2>4. Delivered'
        BY <1>2, DeliveredStays DEF InInv
    <2>5. Summed'
        BY <1>1, <1>2, <1>4, <1>6, SummedFails DEF InInv
    <2> QED BY <2>2, <2>3, <2>4, <2>5 DEF InInv
<1>7. CASE /\ file.type = "ISO" => file.size % SECTOR_SIZE = 0
           /\ cachePos' = file.size
           /\ cache' = [i \in 0 .. CacheSize - 1 |-> None]
           /\ bufferSize' = BeginSize
           /\ paused' \in IF BeginFails THEN {TRUE} ELSE IF Compressing THEN BOOLEAN ELSE {FALSE}
           /\ notes' = IF BeginFails THEN Append(notes, "INVALID_OPTION") ELSE notes
           /\ pc' = "ReadSector"
    <2>1. file.size % SECTOR_SIZE = 0
        BY <1>5, <1>7 DEF HeaderOK
    <2>2. bufferSize' \in Nat
        <3>1. PoolSize(2 * LARGE_BLOCK_SIZE) \in Nat
            BY SizeFacts DEF PoolSize, Larger
        <3> QED BY <1>5, <1>7, <3>1 DEF BeginSize
    <2>3. paused' \in BOOLEAN
        BY <1>7
    <2>4. pos' <= file'.size /\ cachePos' \in Int
        BY <1>2, <1>3, <1>4, <1>7
    <2>5. Control'
        BY <1>1, <1>2, <1>3, <1>4, <1>5, <1>7, <2>1, <2>2, <2>3, <2>4
        DEF InInv, Control, Opening, Reading, Holding
    <2>6. CacheOK'
        <3>1. CacheSize \in Nat
            <4>1. BlockSize \in Nat \ {0}
                BY <1>5, Accepted DEF InInv, Control
            <4> QED BY <4>1, DoubledSize DEF CacheSize
        <3>2. cache' \in [0 .. CacheSize - 1 -> Int] /\ \A i \in DOMAIN cache' : cache'[i] = None
            BY <1>7 DEF None
        <3>3. \A i \in DOMAIN cache' : cache'[i] <= cachePos' + i
            BY <1>4, <1>7, <3>1, <3>2 DEF None
        <3>4. Fresh'
            BY <1>2, <1>3, <1>4, <1>7, <3>2 DEF Fresh
        <3> QED BY <1>3, <1>7, <3>2, <3>3, <3>4 DEF CacheOK
    <2>7. (BlockOK /\ OutOK)'
        BY <1>7 DEF BlockOK, OutOK
    <2>8. Delivered'
        BY <1>2, DeliveredStays DEF InInv
    <2>9. Summed'
        <3>1. CASE Compressing
            <4> Compressing'
                BY <1>3, <3>1 DEF Compressing
            <4> QED BY DEF Summed
        <3>2. CASE ~Compressing
            <4>1. notes' = notes
                BY <1>7, <3>2 DEF BeginFails, Resizes
            <4> QED BY <1>1, <1>2, <1>7, <4>1, SummedStays DEF InInv
        <3> QED BY <3>1, <3>2
    <2> QED BY <2>5, <2>6, <2>7, <2>8, <2>9 DEF InInv
<1> QED BY <1>6, <1>7 DEF IndexDone

-----------------------------------------------------------------------------
(* Reading. *)

LEMMA ReadSectorEndsKeeps == InInv /\ ReadSectorEnds => InInv'
<1> SUFFICES ASSUME InInv, ReadSectorEnds PROVE InInv'
    OBVIOUS
<1>7. pos = file.size
    <2>1. pos <= file.size /\ pos \in Nat /\ file.size \in Nat /\ pos >= file.size
        BY ReadingFacts DEF ReadSectorEnds, InInv, Control, Reading
    <2> QED BY <2>1
<1>1. pc = "ReadSector" /\ pc' = "end" /\ UNCHANGED fixed
      /\ UNCHANGED <<pos, paused, resumeShouldRead, cachePos, cache, block, out, bufferSize, bufs, taken, crc,
                     crcPos, pendingBuffers, notes>>
    BY DEF ReadSectorEnds, flow, cacheVars, ownerVars
<1>2. /\ file' = file /\ owner' = owner /\ (HeaderOK' <=> HeaderOK) /\ CacheSize' = CacheSize
      /\ Lead(pos)' = Lead(pos)
    <2>1. \A p : Lead(p)' = Lead(p)
        BY <1>1, Frame
    <2> QED BY <1>1, <2>1, Frame DEF fixed, Lead, BlockAt
<1>3. Control'
    BY <1>1, <1>2, <1>7 DEF InInv, Control, Opening, Reading, Holding
<1>4. CacheOK'
    BY <1>1, <1>2 DEF InInv, CacheOK, Fresh, Mirrors, Reading
<1>5. (BlockOK /\ OutOK)'
    BY <1>1 DEF BlockOK, OutOK
<1>6. Delivered' /\ Summed'
    BY <1>1, DeliveredStays, SummedStays DEF InInv
<1> QED BY <1>3, <1>4, <1>5, <1>6 DEF InInv

LEMMA ReadSectorParksKeeps == InInv /\ ReadSectorParks => InInv'
<1> SUFFICES ASSUME InInv, ReadSectorParks PROVE InInv'
    OBVIOUS
<1>1. pc = "ReadSector" /\ pc' = "parked" /\ resumeShouldRead' = TRUE /\ pos < file.size /\ UNCHANGED fixed
      /\ UNCHANGED <<pos, paused, cachePos, cache, block, out, bufferSize, bufs, taken, crc,
                     crcPos, pendingBuffers, notes>>
    BY DEF ReadSectorParks, flow, cacheVars, ownerVars
<1>2. /\ file' = file /\ owner' = owner /\ (HeaderOK' <=> HeaderOK) /\ CacheSize' = CacheSize
      /\ Lead(pos)' = Lead(pos)
    BY <1>1, Frame DEF fixed, Lead, BlockAt
<1>3. Control'
    BY <1>1, <1>2 DEF InInv, Control, Opening, Reading, Holding
<1>4. CacheOK'
    BY <1>1, <1>2 DEF InInv, CacheOK, Fresh, Mirrors, Reading
<1>5. (BlockOK /\ OutOK)'
    BY <1>1 DEF BlockOK, OutOK
<1>6. Delivered' /\ Summed'
    BY <1>1, DeliveredStays, SummedStays DEF InInv
<1> QED BY <1>3, <1>4, <1>5, <1>6 DEF InInv

LEMMA ReadSectorMissesKeeps == InInv /\ ReadSectorMisses => InInv'
<1> SUFFICES ASSUME InInv, ReadSectorMisses PROVE InInv'
    OBVIOUS
<1>1. pc = "ReadSector" /\ pc' = "read" /\ pos < file.size /\ UNCHANGED fixed
      /\ cachePos' = Locate.pos /\ block' = Locate
      /\ UNCHANGED <<pos, paused, resumeShouldRead, cache, out, bufferSize, bufs, taken, crc,
                     crcPos, pendingBuffers, notes>>
    BY DEF ReadSectorMisses, flow, ownerVars
<1>2. /\ file' = file /\ owner' = owner /\ (HeaderOK' <=> HeaderOK) /\ CacheSize' = CacheSize
      /\ Lead(pos)' = Lead(pos)
    BY <1>1, Frame DEF fixed, Lead, BlockAt
<1>3. /\ Valid /\ pos \in Nat /\ pos % SECTOR_SIZE = 0 /\ file.size \in Nat /\ CacheSize \in Nat
    BY <1>1, ReadingFacts DEF InInv, Reading
<1>4. Locate.pos = Lead(pos)
    BY <1>1, <1>3, LocateFacts
<1>5. Lead(pos) \in Nat
    BY <1>1, <1>3, LeadForward
<1>6. cachePos' = Lead(pos) /\ cachePos' \in Int
    BY <1>1, <1>4, <1>5
<1>7. Control'
    BY <1>1, <1>2, <1>6 DEF InInv, Control, Opening, Reading, Holding
<1>8. CacheOK'
    <2>1. cache \in [0 .. CacheSize - 1 -> Int] /\ (\A i \in DOMAIN cache : cache[i] <= cachePos + i)
          /\ (Fresh \/ Mirrors)
        BY <1>1 DEF InInv, CacheOK, Reading
    <2>2. \A i \in DOMAIN cache : cache[i] <= Lead(pos) + i
        <3> SUFFICES ASSUME NEW i \in DOMAIN cache PROVE cache[i] <= Lead(pos) + i
            OBVIOUS
        <3>1. i \in Nat /\ cache[i] \in Int /\ cache[i] <= cachePos + i
            BY <1>3, <2>1
        <3>2. CASE Fresh
            BY <1>5, <3>1, <3>2 DEF Fresh, None
        <3>3. CASE Mirrors
            <4>1. cachePos \in Nat /\ cachePos <= Lead(pos)
                BY <1>1, <3>3 DEF Mirrors
            <4> QED BY <1>5, <3>1, <4>1
        <3> QED BY <2>1, <3>2, <3>3
    <2> QED BY <1>1, <1>2, <1>6, <2>1, <2>2 DEF CacheOK
<1>9. BlockOK'
    <2> Locate' = Locate
        BY <1>1, <1>2 DEF Locate, Entry, NextEntry, Method, Position, BlockSize
    <2> QED BY <1>1 DEF BlockOK
<1>10. OutOK'
    BY <1>1 DEF OutOK
<1>11. Delivered' /\ Summed'
    BY <1>1, DeliveredStays, SummedStays DEF InInv
<1> QED BY <1>7, <1>8, <1>9, <1>10, <1>11 DEF InInv

LEMMA Fails ==
    ASSUME InInv, pc \in {"read", "after"}, Finish, UNCHANGED fixed, bufs' = 0,
           UNCHANGED <<pos, paused, resumeShouldRead, cachePos, cache, block, out, bufferSize, taken, crc,
                       crcPos, pendingBuffers>>
    PROVE  InInv'
<1>1. pc' = "failed" /\ pc # "parked"
    BY DEF Finish
<1>2. file' = file /\ owner' = owner
    BY DEF fixed
<1>3. Control'
    BY <1>1, <1>2 DEF InInv, Control, Opening, Reading, Holding
<1>4. (CacheOK /\ BlockOK /\ OutOK)'
    BY <1>1 DEF CacheOK, BlockOK, OutOK, Reading
<1>5. pos < file.size /\ file.size \in Nat
    BY FileFacts DEF InInv, Control
<1>6. Delivered' /\ Summed'
    BY <1>5, DeliveredStays, SummedFails DEF InInv
<1> QED BY <1>3, <1>4, <1>6 DEF InInv

LEMMA ReadFailsKeeps == InInv /\ ReadFails => InInv'
<1> SUFFICES ASSUME InInv, ReadFails PROVE InInv'
    OBVIOUS
<1>1. pc = "read" /\ bufs = 0
    BY DEF ReadFails, InInv, Control, Holding
<1> QED BY <1>1, Fails DEF ReadFails, flow, cacheVars

LEMMA AfterWorkFailsKeeps == InInv /\ AfterWorkFails => InInv'
<1> SUFFICES ASSUME InInv, AfterWorkFails PROVE InInv'
    OBVIOUS
<1>1. pc = "after" /\ bufs' = 0
    BY DEF AfterWorkFails, InInv, Control, Holding
<1> QED BY <1>1, Fails DEF AfterWorkFails, flow, cacheVars

(* A pause, or its end, changes nothing of what Input is doing.              *)
LEMMA Undisturbed ==
    ASSUME InInv, pc \in {"read", "work", "after", "parked"}, UNCHANGED fixed, paused' \in BOOLEAN,
           pc' = pc \/ (pc = "parked" /\ pc' = "ReadSector"), resumeShouldRead' = (pc' = "parked"),
           UNCHANGED <<pos, cachePos, cache, block, out, bufferSize, bufs, taken, crc, crcPos,
                       pendingBuffers, notes>>
    PROVE  InInv'
<1>1. pc' # "failed" /\ pc # "failed"
    OBVIOUS
<1>2. /\ file' = file /\ owner' = owner /\ (HeaderOK' <=> HeaderOK) /\ CacheSize' = CacheSize
      /\ Lead(pos)' = Lead(pos) /\ BlockAt(pos)' = BlockAt(pos) /\ (Plain(pos)' <=> Plain(pos))
      /\ BlockSize' = BlockSize
    BY Frame DEF fixed, Lead, BlockAt, Plain
<1>3. Locate' = Locate
    BY <1>2 DEF Locate, Entry, NextEntry, Method, Position
<1>4. Control'
    BY <1>1, <1>2 DEF InInv, Control, Opening, Reading, Holding
<1>5. CacheOK'
    BY <1>2 DEF InInv, CacheOK, Fresh, Mirrors, Reading
<1>6. BlockOK'
    BY <1>2, <1>3 DEF InInv, BlockOK, Cached
<1>7. OutOK'
    BY <1>2 DEF InInv, OutOK
<1>8. Delivered' /\ Summed'
    BY <1>1, DeliveredStays, SummedStays DEF InInv
<1> QED BY <1>4, <1>5, <1>6, <1>7, <1>8 DEF InInv

LEMMA PauseKeeps == InInv /\ Pause => InInv'
<1> SUFFICES ASSUME InInv, Pause PROVE InInv'
    OBVIOUS
<1>1. resumeShouldRead' = (pc' = "parked")
    BY DEF Pause, InInv, Control
<1> QED BY <1>1, Undisturbed DEF Pause, Waits, cacheVars, ownerVars

LEMMA ResumeKeeps == InInv /\ Resume => InInv'
<1> SUFFICES ASSUME InInv, Resume PROVE InInv'
    OBVIOUS
<1>1. resumeShouldRead = (pc = "parked")
    BY DEF InInv, Control
<1>2. pc' = pc \/ (pc = "parked" /\ pc' = "ReadSector")
    BY <1>1 DEF Resume
<1>3. resumeShouldRead' = (pc' = "parked")
    BY <1>1 DEF Resume, Waits
<1> QED BY <1>2, <1>3, Undisturbed DEF Resume, Waits, cacheVars, ownerVars

(* The worker.                                                               *)
LEMMA WorkKeeps == InInv /\ Work => InInv'
<1> SUFFICES ASSUME InInv, Work PROVE InInv'
    OBVIOUS
<1>1. pc = "work" /\ pc' = "after" /\ UNCHANGED fixed /\ out' \in Decodes(cache, block.pos, block.len)
      /\ UNCHANGED <<pos, paused, resumeShouldRead, cachePos, cache, block, bufferSize, bufs, taken, crc,
                     crcPos, pendingBuffers, notes>>
    BY DEF Work, flow, cacheVars, ownerVars
<1>2. /\ file' = file /\ owner' = owner /\ (HeaderOK' <=> HeaderOK) /\ CacheSize' = CacheSize
      /\ Lead(pos)' = Lead(pos) /\ BlockAt(pos)' = BlockAt(pos) /\ (Plain(pos)' <=> Plain(pos))
      /\ BlockSize' = BlockSize
    BY <1>1, Frame DEF fixed, Lead, BlockAt, Plain
<1>3. /\ Valid /\ pos \in Nat /\ pos % SECTOR_SIZE = 0 /\ file.size \in Nat /\ CacheSize \in Nat
      /\ file.length \in Nat
    BY <1>1, ReadingFacts DEF InInv, Reading
<1>4. pos < file.size
    BY <1>1 DEF InInv, Control
<1>5. /\ Locate = [pos |-> Locate.pos, len |-> Locate.len, offset |-> Locate.offset,
                   method |-> Locate.method]
      /\ Locate.pos = Lead(pos) /\ Locate.len \in Int
      /\ Locate.method = "none" <=> Plain(pos)
      /\ ~Plain(pos) => Locate.len >= BlockAt(pos).size
    BY <1>3, <1>4, LocateFacts
<1>6. Lead(pos) \in Nat
    BY <1>3, <1>4, LeadForward
<1>7. /\ Locate.method # "none" /\ Cached(Locate)
      /\ block = [Locate EXCEPT !.pos = Locate.pos - cachePos]
    BY <1>1 DEF InInv, BlockOK
<1>8. ~Plain(pos) /\ Locate.len >= BlockAt(pos).size
    BY <1>5, <1>7
<1>9. block.pos = Lead(pos) - cachePos /\ block.len = Locate.len
    BY <1>5, <1>7
<1>10. /\ cache \in [0 .. CacheSize - 1 -> Int] /\ cachePos \in Nat
       /\ \A i \in DOMAIN cache : cache[i] <= cachePos + i
       /\ \A i \in DOMAIN cache : cachePos + i < file.length => cache[i] = cachePos + i
    BY <1>1 DEF InInv, CacheOK, Mirrors, Reading
<1>11. Lead(pos) >= cachePos /\ Lead(pos) + Locate.len <= cachePos + CacheSize
    BY <1>5, <1>7 DEF Cached
<1>12. PICK o \in Nat : o = block.pos /\ cachePos + o = Lead(pos)
    BY <1>6, <1>9, <1>10, <1>11
<1>13. o \in DOMAIN cache => cache[o] \in Int /\ cache[o] <= Lead(pos)
    BY <1>10, <1>12
<1>14. out' \in Decodes(cache, o, Locate.len)
    BY <1>1, <1>9, <1>12
<1>15. /\ out' \in {Error, Garbage} \cup 1 .. pos \div BlockSize + 1
       /\ out' \in Int
       /\ (\A i \in 0 .. BlockAt(pos).size - 1 : o + i \in DOMAIN cache /\ cache[o + i] = Lead(pos) + i)
              => out' \in {Error, pos \div BlockSize + 1}
    BY <1>3, <1>4, <1>5, <1>8, <1>13, <1>14, DecodesFacts
<1>16. ASSUME BlockAt(pos).pos + BlockAt(pos).size <= file.length
       PROVE  out' \in {Error, pos \div BlockSize + 1}
    <2>1. file.type # "ISO" /\ Lead(pos) = BlockAt(pos).pos
        BY <1>8 DEF Plain, Lead
    <2>2. BlockAt(pos).size \in Nat
        <3>1. \E q, r \in Nat : BlockAt(pos) = file.blocks[q + 1]
                  /\ file.blocks[q + 1] \in [pos : Nat, size : Nat, raw : BOOLEAN]
            BY <1>3, <1>4, <2>1, InBlock
        <3> QED BY <3>1
    <2>3. PICK z \in Nat : z = BlockAt(pos).size
        BY <2>2
    <2>4. ASSUME NEW i \in 0 .. z - 1
          PROVE  o + i \in DOMAIN cache /\ cache[o + i] = Lead(pos) + i
        <3>3. PICK x \in Nat, l \in Int, c \in Nat, n \in Nat :
                  x = Lead(pos) /\ l = Locate.len /\ c = cachePos /\ n = CacheSize
            BY <1>3, <1>5, <1>6, <1>10
        <3>4. c + o = x /\ x + l <= c + n /\ l >= z /\ x + z <= file.length
            BY <1>8, <1>11, <1>12, <1>16, <2>1, <2>3, <3>3
        <3>5. o + i \in 0 .. n - 1 /\ c + (o + i) < file.length /\ c + (o + i) = x + i
            BY <1>3, <3>4
        <3>1. o + i \in 0 .. CacheSize - 1
            BY <3>3, <3>5
        <3>2. cachePos + (o + i) < file.length /\ cachePos + (o + i) = Lead(pos) + i
            BY <3>3, <3>5
        <3> QED BY <1>10, <3>1, <3>2
    <2> QED BY <1>15, <2>3, <2>4
<1>17. Control'
    BY <1>1, <1>2, <1>15 DEF InInv, Control, Opening, Reading, Holding
<1>18. CacheOK'
    BY <1>1, <1>2 DEF InInv, CacheOK, Fresh, Mirrors, Reading
<1>19. BlockOK'
    BY <1>1 DEF BlockOK
<1>20. OutOK'
    BY <1>1, <1>2, <1>8, <1>15, <1>16 DEF OutOK
<1>21. Delivered' /\ Summed'
    BY <1>1, DeliveredStays, SummedStays DEF InInv
<1> QED BY <1>17, <1>18, <1>19, <1>20, <1>21 DEF InInv

-----------------------------------------------------------------------------
(* Passing a sector on. *)

(* As long as no sector came too early, HandleBuffer takes the one it gets.  *)
LEMMA HandleFirst ==
    ASSUME NEW s \in Int, pendingBuffers = <<>>, crcPos \in Nat, crc \in Seq(Int), HandleBuffer(s)
    PROVE  /\ crc' = Append(crc, s) /\ crcPos' = crcPos + SECTOR_SIZE /\ pendingBuffers' = <<>>
           /\ notes' = IF crcPos' = file.size THEN Append(notes, "SUCCESS") ELSE notes
<1>1. SECTOR_SIZE \in Nat \ {0}
    BY SizeFacts
<1> DEFINE next == crcPos + SECTOR_SIZE
           R == Ready(next, pendingBuffers)
           n == IF R = {} THEN 0 ELSE (CHOOSE q \in R : \A x \in R : x <= q) - crcPos
           rest == [i \in 1 .. n \div SECTOR_SIZE |-> pendingBuffers[crcPos + i * SECTOR_SIZE]]
<1>2. DOMAIN pendingBuffers = {}
    OBVIOUS
<1>3. R = {}
    BY <1>2 DEF Ready
<1>4. n = 0
    BY <1>3
<1>5. n \div SECTOR_SIZE = 0
    <2>1. 0 \div SECTOR_SIZE = 0
        <3>1. 0 = 0 * SECTOR_SIZE + 0 /\ 0 < SECTOR_SIZE
            BY <1>1
        <3> QED BY <1>1, <3>1, DivisionUnique
    <2> HIDE DEF n
    <2> QED BY <1>4, <2>1
<1>6. rest = <<>>
    <2> HIDE DEF n
    <2>1. 1 .. n \div SECTOR_SIZE = {}
        <3>1. 1 .. 0 = {}
            OBVIOUS
        <3> QED BY <1>5, <3>1
    <2>2. rest = [i \in {} |-> pendingBuffers[crcPos + i * SECTOR_SIZE]]
        BY <2>1
    <2> QED BY <2>2
<1>7. /\ crc' = (Append(crc, s)) \o rest
      /\ crcPos' = next + (n \div SECTOR_SIZE) * SECTOR_SIZE
      /\ pendingBuffers' = [q \in DOMAIN pendingBuffers \ R |-> pendingBuffers[q]]
      /\ IF Complete(crcPos') THEN Notify("SUCCESS") ELSE UNCHANGED notes
    BY DEF HandleBuffer
<1> HIDE DEF rest, n
<1>8. crc' = Append(crc, s)
    <2>1. Append(crc, s) \in Seq(Int)
        OBVIOUS
    <2> DEFINE a == Append(crc, s)
    <2> HIDE DEF a
    <2>2. a \o <<>> = a
        BY <2>1, ConcatEmptySeq DEF a
    <2> QED BY <1>6, <1>7, <2>2 DEF a
<1>9. crcPos' = crcPos + SECTOR_SIZE
    BY <1>1, <1>5, <1>7
<1>10. pendingBuffers' = <<>>
    <2>1. DOMAIN pendingBuffers \ R = {}
        BY <1>2
    <2>2. pendingBuffers' = [q \in {} |-> pendingBuffers[q]]
        BY <1>7, <2>1
    <2> QED BY <2>2
<1>11. notes' = IF crcPos' = file.size THEN Append(notes, "SUCCESS") ELSE notes
    BY <1>7 DEF Complete, Notify
<1> QED BY <1>8, <1>9, <1>10, <1>11

LEMMA CallbackKeeps ==
    ASSUME Control, pc \in Reading, Delivered, Summed, pos < file.size, UNCHANGED fixed,
           NEW s \in Sectors \cup {Garbage}, Intact(Len(taken)) => s = Len(taken),
           Callback(s), pos' = pos + SECTOR_SIZE, pc' \in Reading
    PROVE  /\ Delivered' /\ Summed'
           /\ taken' \in Seq([pos : Nat, sector : Int]) /\ pos' = Len(taken') * SECTOR_SIZE
           /\ pos' <= file.size /\ paused' \in BOOLEAN
<1>1. /\ Valid /\ pos \in Nat /\ pos % SECTOR_SIZE = 0 /\ file.size \in Nat /\ SECTOR_SIZE \in Nat \ {0}
      /\ Len(taken) \in Nat
    BY ReadingFacts
<1>2. file' = file /\ owner' = owner
    BY DEF fixed
<1>3. s \in Int
    <2>1. file.size \div SECTOR_SIZE \in Int
        BY <1>1
    <2> QED BY <2>1 DEF Sectors, Garbage
<1>4. taken \in Seq([pos : Nat, sector : Int]) /\ pos = Len(taken) * SECTOR_SIZE /\ paused \in BOOLEAN
    BY DEF Control
<1>5. taken' = Append(taken, [pos |-> pos, sector |-> s])
    BY DEF Callback
<1>6. taken' \in Seq([pos : Nat, sector : Int]) /\ Len(taken') = Len(taken) + 1
    <2>1. [pos |-> pos, sector |-> s] \in [pos : Nat, sector : Int]
        BY <1>1, <1>3
    <2> QED BY <1>4, <1>5, <2>1
<1>7. pos' = Len(taken') * SECTOR_SIZE
    <2>1. (Len(taken) + 1) * SECTOR_SIZE = Len(taken) * SECTOR_SIZE + SECTOR_SIZE
        BY <1>1
    <2> QED BY <1>4, <1>6, <2>1
<1>8. pos' <= file.size
    BY <1>1, NextSector
<1>9. paused' \in BOOLEAN
    BY <1>4 DEF Callback
<1>10. Delivered'
    <2> SUFFICES ASSUME NEW i \in 1 .. Len(taken) + 1
                 PROVE  /\ taken'[i].pos = (i - 1) * SECTOR_SIZE
                        /\ taken'[i].sector \in Sectors \cup {Garbage}
                        /\ Intact(i - 1) => taken'[i].sector = i - 1
        <3>1. DOMAIN taken' = 1 .. Len(taken) + 1
            BY <1>6
        <3>2. Sectors' = Sectors /\ \A j : Intact(j)' <=> Intact(j)
            BY Frame
        <3> QED BY <3>1, <3>2 DEF Delivered
    <2>1. CASE i \in 1 .. Len(taken)
        <3>1. taken'[i] = taken[i]
            BY <1>4, <1>5, <2>1
        <3>2. i \in DOMAIN taken
            BY <1>4, <2>1
        <3> QED BY <3>1, <3>2 DEF Delivered
    <2>2. CASE i = Len(taken) + 1
        <3>1. taken'[i] = [pos |-> pos, sector |-> s]
            BY <1>4, <1>5, <2>2
        <3>2. i - 1 = Len(taken)
            BY <1>1, <2>2
        <3> QED BY <1>4, <3>1, <3>2
    <2> QED BY <1>1, <2>1, <2>2
<1>11. Summed'
    <2> SUFFICES ASSUME ~Compressing PROVE Summed'
        BY <1>2 DEF Summed, Compressing
    <2>1. /\ pendingBuffers = <<>> /\ crcPos = pos
          /\ crc \in Seq(Int) /\ Len(crc) = Len(taken)
          /\ \A i \in DOMAIN crc : crc[i] = taken[i].sector
        BY DEF Summed
    <2>2. pc # "failed" /\ pc' # "failed"
        BY DEF Reading
    <2>3. notes = <<>>
        BY <1>1, <2>2 DEF Summed
    <2>4. HandleBuffer(s)
        BY <2>1 DEF Callback
    <2>5. /\ crc' = Append(crc, s) /\ crcPos' = crcPos + SECTOR_SIZE /\ pendingBuffers' = <<>>
          /\ notes' = IF crcPos' = file.size THEN Append(notes, "SUCCESS") ELSE notes
        BY <1>1, <1>3, <2>1, <2>4, HandleFirst
    <2>6. crcPos' = pos'
        BY <2>1, <2>5
    <2>7. crc' \in Seq(Int) /\ Len(crc') = Len(taken')
        BY <1>3, <1>6, <2>1, <2>5
    <2>8. ASSUME NEW i \in DOMAIN crc' PROVE crc'[i] = taken'[i].sector
        <3>1. i \in 1 .. Len(taken) + 1
            BY <1>1, <2>1, <2>5
        <3>2. CASE i \in 1 .. Len(taken)
            <4>1. crc'[i] = crc[i] /\ i \in DOMAIN crc
                BY <2>1, <2>5, <3>2
            <4>2. taken'[i] = taken[i]
                BY <1>4, <1>5, <3>2
            <4> QED BY <2>1, <4>1, <4>2
        <3>3. CASE i = Len(taken) + 1
            <4>1. crc'[i] = s
                BY <1>3, <2>1, <2>5, <3>3
            <4>2. taken'[i] = [pos |-> pos, sector |-> s]
                BY <1>4, <1>5, <3>3
            <4> QED BY <4>1, <4>2
        <3> QED BY <1>1, <3>1, <3>2, <3>3
    <2>9. notes' = IF pos' = file.size /\ file.size > 0 THEN <<"SUCCESS">> ELSE <<>>
        <3>1. file.size > 0
            BY <1>1
        <3>2. Append(<<>>, "SUCCESS") = <<"SUCCESS">>
            OBVIOUS
        <3> QED BY <2>3, <2>5, <2>6, <3>1, <3>2
    <2> QED BY <1>2, <2>2, <2>5, <2>6, <2>7, <2>8, <2>9 DEF Summed
<1> QED BY <1>6, <1>7, <1>8, <1>9, <1>10, <1>11

(* A stored sector comes out of the cache as it is in the file.              *)
LEMMA StoredSector ==
    ASSUME Control, pc \in Reading, pos < file.size, Plain(pos), NEW c, NEW o \in Nat,
           \A i \in 0 .. SECTOR_SIZE - 1 :
              o + i \in DOMAIN c /\ (Lead(pos) + i < file.length => c[o + i] = Lead(pos) + i)
    PROVE  /\ SectorIn(c, o) \in Sectors \cup {Garbage}
           /\ Intact(Len(taken)) => SectorIn(c, o) = Len(taken)
<1>1. /\ Valid /\ pos \in Nat /\ pos % SECTOR_SIZE = 0 /\ file.size \in Nat /\ SECTOR_SIZE \in Nat \ {0}
      /\ Len(taken) \in Nat /\ file.length \in Nat
    BY ReadingFacts
<1>2. pos = Len(taken) * SECTOR_SIZE
    BY DEF Control
<1>3. Lead(pos) \in Nat
    BY <1>1, LeadForward
<1>4. ASSUME Intact(Len(taken)) PROVE SectorIn(c, o) = Len(taken)
    <2>1. IsStored(Len(taken)) /\ StoredAt(Len(taken)) = Lead(pos)
        BY <1>1, <1>2, ByNumber
    <2>2. Lead(pos) + SECTOR_SIZE <= file.length
        BY <1>4, <2>1 DEF Intact
    <2>3. \A i \in 0 .. SECTOR_SIZE - 1 : Lead(pos) + i < file.length
        BY <1>1, <1>3, <2>2
    <2>4. \A i \in 0 .. SECTOR_SIZE - 1 : o + i \in DOMAIN c /\ c[o + i] = Lead(pos) + i
        BY <2>3
    <2>5. \A i \in 0 .. SECTOR_SIZE - 1 : o + i \in DOMAIN c /\ c[o + i] = StoredAt(Len(taken)) + i
        BY <2>1, <2>4
    <2>6. Len(taken) \in Sectors
        <3>1. Len(taken) \in Int /\ Len(taken) * SECTOR_SIZE < file.size
            BY <1>1, <1>2
        <3> QED BY <1>1, <3>1, SectorsAre
    <2> QED BY <1>1, <2>1, <2>5, <2>6, SectorInRight
<1> QED BY <1>4, SectorInRange

(* The cache is still the file's when pos_ has moved on.                     *)
LEMMA CacheMoves ==
    ASSUME Control, pc \in Reading, pos < file.size, UNCHANGED fixed,
           pos' = pos \/ pos' = pos + SECTOR_SIZE, pc' # "read",
           cache' \in [0 .. CacheSize - 1 -> Int], cachePos' \in Nat, cachePos' <= Lead(pos),
           \A i \in DOMAIN cache' : cache'[i] <= cachePos' + i,
           \A i \in DOMAIN cache' : cachePos' + i < file.length => cache'[i] = cachePos' + i
    PROVE  CacheOK'
<1>1. /\ Valid /\ pos \in Nat /\ pos % SECTOR_SIZE = 0 /\ file.size \in Nat /\ SECTOR_SIZE \in Nat \ {0}
      /\ Len(taken) \in Nat
    BY ReadingFacts
<1>2. file' = file /\ CacheSize' = CacheSize
    BY Frame DEF fixed
<1>3. ASSUME pos' < file.size PROVE cachePos' <= Lead(pos')
    <2>1. CASE pos' = pos
        BY <2>1
    <2>2. CASE pos' = pos + SECTOR_SIZE
        <3>8. PICK k \in Nat : k = Len(taken) + 1
            BY <1>1
        <3>9. PICK p \in Nat : p = k * SECTOR_SIZE /\ p % SECTOR_SIZE = 0
            BY Multiple
        <3>1. p = (Len(taken) + 1) * SECTOR_SIZE /\ p % SECTOR_SIZE = 0
            BY <3>8, <3>9
        <3>2. (Len(taken) + 1) * SECTOR_SIZE = Len(taken) * SECTOR_SIZE + SECTOR_SIZE
            BY <1>1
        <3>3. pos' = p
            BY <2>2, <3>1, <3>2 DEF Control
        <3>4. PICK a \in Nat : a = pos
            BY <1>1
        <3>5. a <= p /\ p < file.size /\ a % SECTOR_SIZE = 0
            BY <1>1, <1>3, <2>2, <3>3, <3>4
        <3>6. Lead(a) <= Lead(p) /\ Lead(a) \in Nat /\ Lead(p) \in Nat
            BY <1>1, <3>1, <3>5, LeadForward
        <3>7. cachePos' <= Lead(a)
            BY <3>4
        <3> QED BY <3>3, <3>6, <3>7
    <2> QED BY <2>1, <2>2
<1>4. pos' < file'.size => cachePos' <= Lead(pos)'
    <2>1. Lead(pos)' = Lead(pos')
        BY <1>2 DEF Lead, BlockAt, BlockSize
    <2> QED BY <1>2, <1>3, <2>1
<1>5. Mirrors'
    BY <1>2, <1>4 DEF Mirrors
<1> QED BY <1>2, <1>5 DEF CacheOK

(* Passing on a stored sector keeps the invariant.                           *)
LEMMA DeliverStoredKeeps ==
    ASSUME InInv, pc \in {"ReadSector", "read"}, pos < file.size, Plain(pos), UNCHANGED fixed,
           NEW o \in Nat, DeliverStored(cache', o),
           UNCHANGED <<resumeShouldRead, block, out, bufferSize>>,
           cache' \in [0 .. CacheSize - 1 -> Int], cachePos' \in Nat, Lead(pos) = cachePos' + o,
           o + SECTOR_SIZE <= CacheSize,
           \A i \in DOMAIN cache' : cache'[i] <= cachePos' + i,
           \A i \in DOMAIN cache' : cachePos' + i < file.length => cache'[i] = cachePos' + i
    PROVE  InInv'
<1>1. /\ pc \in Reading /\ Control /\ Delivered /\ Summed
    BY DEF InInv, Reading
<1>2. /\ Valid /\ pos \in Nat /\ file.size \in Nat /\ SECTOR_SIZE \in Nat \ {0} /\ CacheSize \in Nat
      /\ file.length \in Nat
    BY <1>1, ReadingFacts
<1>3. /\ Callback(SectorIn(cache', o)) /\ pos' = pos + SECTOR_SIZE /\ pc' = "ReadSector" /\ bufs' = bufs
    BY DEF DeliverStored
<1>4. ASSUME NEW i \in 0 .. SECTOR_SIZE - 1
      PROVE  o + i \in DOMAIN cache' /\ (Lead(pos) + i < file.length => cache'[o + i] = Lead(pos) + i)
    <2>1. o + i \in 0 .. CacheSize - 1 /\ Lead(pos) + i = cachePos' + (o + i)
        BY <1>2
    <2> QED BY <2>1
<1>5. /\ SectorIn(cache', o) \in Sectors \cup {Garbage}
      /\ Intact(Len(taken)) => SectorIn(cache', o) = Len(taken)
    <2>1. PICK c : c = cache'
        OBVIOUS
    <2>2. \A i \in 0 .. SECTOR_SIZE - 1 :
              o + i \in DOMAIN c /\ (Lead(pos) + i < file.length => c[o + i] = Lead(pos) + i)
        BY <1>4, <2>1
    <2>3. /\ SectorIn(c, o) \in Sectors \cup {Garbage}
          /\ Intact(Len(taken)) => SectorIn(c, o) = Len(taken)
        BY <1>1, <2>2, StoredSector
    <2> QED BY <2>1, <2>3
<1>6. /\ Delivered' /\ Summed'
      /\ taken' \in Seq([pos : Nat, sector : Int]) /\ pos' = Len(taken') * SECTOR_SIZE
      /\ pos' <= file.size /\ paused' \in BOOLEAN
    <2>1. pc' \in Reading
        BY <1>3 DEF Reading
    <2>2. PICK s : s = SectorIn(cache', o)
        OBVIOUS
    <2>3. s \in Sectors \cup {Garbage} /\ (Intact(Len(taken)) => s = Len(taken)) /\ Callback(s)
        BY <1>3, <1>5, <2>2
    <2> QED BY <1>1, <1>3, <2>1, <2>3, CallbackKeeps
<1>7. file' = file /\ owner' = owner /\ (HeaderOK' <=> HeaderOK)
    BY Frame DEF fixed
<1>8. Control'
    BY <1>1, <1>3, <1>6, <1>7 DEF Control, Opening, Reading, Holding
<1>9. CacheOK'
    <2>1. pc' # "read"
        BY <1>3
    <2>2. PICK x \in Nat : x = cachePos'
        OBVIOUS
    <2>3. x <= x + o
        OBVIOUS
    <2>4. cachePos' <= Lead(pos)
        BY <2>2, <2>3
    <2> QED BY <1>1, <1>3, <2>1, <2>4, CacheMoves
<1>10. (BlockOK /\ OutOK)'
    BY <1>3 DEF BlockOK, OutOK
<1> QED BY <1>6, <1>8, <1>9, <1>10 DEF InInv

LEMMA DecompressKeeps ==
    ASSUME InInv, pc \in {"ReadSector", "read"}, pos < file.size, Locate.method # "none", UNCHANGED fixed,
           pc' = "work", bufs' = bufs + 1, block' = [Locate EXCEPT !.pos = Locate.pos - cachePos'],
           UNCHANGED <<pos, paused, resumeShouldRead, out, bufferSize, taken, crc, crcPos, pendingBuffers,
                       notes>>,
           cache' \in [0 .. CacheSize - 1 -> Int], cachePos' \in Nat, Locate.pos >= cachePos',
           Locate.pos + Locate.len <= cachePos' + CacheSize,
           \A i \in DOMAIN cache' : cache'[i] <= cachePos' + i,
           \A i \in DOMAIN cache' : cachePos' + i < file.length => cache'[i] = cachePos' + i
    PROVE  InInv'
<1>1. /\ pc \in Reading /\ Control /\ Delivered /\ Summed /\ pc # "failed"
    BY DEF InInv, Reading
<1>2. Valid /\ pos \in Nat /\ pos % SECTOR_SIZE = 0
    BY <1>1, ReadingFacts
<1>3. file' = file /\ owner' = owner /\ (HeaderOK' <=> HeaderOK) /\ CacheSize' = CacheSize /\ BlockSize' = BlockSize
    BY Frame DEF fixed
<1>4. Locate.pos = Lead(pos)
    BY <1>2, LocateFacts
<1>5. Locate' = Locate
    BY <1>3 DEF Locate, Entry, NextEntry, Method, Position
<1>6. Control'
    BY <1>1, <1>3 DEF Control, Opening, Reading, Holding
<1>7. CacheOK'
    <2>1. cachePos' <= Lead(pos)
        BY <1>4
    <2>2. pc' # "read"
        OBVIOUS
    <2> QED BY <1>1, <2>1, <2>2, CacheMoves
<1>8. BlockOK'
    <2>1. Cached(Locate)'
        BY <1>3, <1>5 DEF Cached
    <2> QED BY <1>5, <2>1 DEF BlockOK
<1>9. OutOK'
    BY DEF OutOK
<1>10. Delivered' /\ Summed'
    BY <1>1, DeliveredStays, SummedStays
<1> QED BY <1>6, <1>7, <1>8, <1>9, <1>10 DEF InInv

LEMMA ReadSectorHitsKeeps == InInv /\ ReadSectorHits => InInv'
<1> SUFFICES ASSUME InInv, ReadSectorHits PROVE InInv'
    OBVIOUS
<1>1. pc = "ReadSector" /\ pos < file.size /\ Cached(Locate) /\ UNCHANGED fixed
      /\ UNCHANGED <<resumeShouldRead, cachePos, cache, out, bufferSize>>
    BY DEF ReadSectorHits, cacheVars
<1>2. /\ Valid /\ pos \in Nat /\ pos % SECTOR_SIZE = 0 /\ file.size \in Nat /\ CacheSize \in Nat
      /\ SECTOR_SIZE \in Nat \ {0}
    BY <1>1, ReadingFacts DEF InInv, Reading
<1>3. /\ Locate.pos = Lead(pos) /\ Locate.len \in Int
      /\ Locate.method = "none" <=> Plain(pos)
      /\ Plain(pos) => Locate.len >= SECTOR_SIZE
    BY <1>1, <1>2, LocateFacts
<1>4. Lead(pos) \in Nat
    BY <1>1, <1>2, LeadForward
<1>5. Lead(pos) >= cachePos /\ Lead(pos) + Locate.len <= cachePos + CacheSize
    BY <1>1, <1>3 DEF Cached
<1>6. /\ cache \in [0 .. CacheSize - 1 -> Int]
      /\ \A i \in DOMAIN cache : cache[i] <= cachePos + i
      /\ Fresh \/ Mirrors
    BY <1>1 DEF InInv, CacheOK, Reading
<1>7. ~Fresh
    <2> SUFFICES ASSUME Fresh PROVE FALSE
        OBVIOUS
    <2>1. cachePos = file.size /\ pos = 0
        BY DEF Fresh
    <2>2. Lead(pos) < file.size
        <3>1. CASE file.type = "ISO"
            BY <1>1, <3>1 DEF Lead
        <3>2. CASE file.type # "ISO"
            <4>1. PICK q, r \in Nat :
                      /\ pos = q * BlockSize + r /\ r = pos % BlockSize
                      /\ q + 1 \in 1 .. Len(file.blocks)
                      /\ BlockAt(pos) = file.blocks[q + 1]
                BY <1>1, <1>2, <3>2, InBlock
            <4>2. BlockSize \in Nat \ {0}
                BY <1>2, Accepted DEF Valid
            <4>3. q = 0 /\ r = 0
                <5>1. PICK x \in Nat : x = q * BlockSize
                    BY <4>2
                <5>2. x = 0 /\ r = 0
                    BY <2>1, <4>1, <5>1
                <5>3. q = 0
                    <6> SUFFICES ASSUME q >= 1 PROVE FALSE
                        OBVIOUS
                    <6>1. PICK k \in Nat : q = 1 + k
                        <7> q - 1 \in Nat /\ q = 1 + (q - 1)
                            OBVIOUS
                        <7> QED OBVIOUS
                    <6>2. q * BlockSize = BlockSize + k * BlockSize /\ k * BlockSize \in Nat
                        BY <4>2, <6>1
                    <6> QED BY <4>2, <5>1, <5>2, <6>2
                <5> QED BY <5>2, <5>3
            <4>4. Lead(pos) = file.blocks[1].pos
                <5>3. q + 1 = 1
                    BY <4>3
                <5>4. BlockAt(pos) = file.blocks[1]
                    BY <4>1, <5>3, Zenon
                <5>1. BlockAt(pos) = file.blocks[1] /\ pos % BlockSize = 0
                    BY <4>1, <4>3, <5>4, Zenon
                <5>2. file.blocks[1].pos \in Nat
                    <6>1. file.blocks \in Seq([pos : Nat, size : Nat, raw : BOOLEAN]) /\ 1 \in 1 .. Len(file.blocks)
                        BY <1>2, <4>1, <4>3, FileFacts DEF Valid
                    <6>2. file.blocks[1] \in [pos : Nat, size : Nat, raw : BOOLEAN]
                        BY <6>1, ElementOfSeq
                    <6> QED BY <6>2
                <5> QED BY <3>2, <5>1, <5>2 DEF Lead
            <4>5. file.blocks # <<>>
                BY <4>1, <4>3
            <4>6. file.size > 0
                BY <1>1, <1>2, <2>1
            <4> QED BY <1>2, <4>4, <4>5, <4>6, FirstBlockAssumption DEF Valid
        <3> QED BY <3>1, <3>2
    <2> QED BY <1>2, <1>4, <1>5, <2>1, <2>2
<1>8. /\ cachePos \in Nat
      /\ \A i \in DOMAIN cache : cachePos + i < file.length => cache[i] = cachePos + i
    BY <1>6, <1>7 DEF Mirrors
<1>9. CASE /\ Locate.method # "none" /\ Decompress(Locate, Locate.pos - cachePos)
           /\ UNCHANGED <<pos, paused, ownerVars>>
    <2>1. /\ pc' = "work" /\ bufs' = bufs + 1
          /\ block' = [Locate EXCEPT !.pos = Locate.pos - cachePos']
        BY <1>1, <1>9 DEF Decompress
    <2> QED BY <1>1, <1>3, <1>5, <1>6, <1>8, <1>9, <2>1, DecompressKeeps DEF ownerVars
<1>10. CASE /\ Locate.method = "none" /\ DeliverStored(cache, Locate.pos - cachePos)
            /\ UNCHANGED block
    <2>1. PICK o \in Nat : o = Locate.pos - cachePos
        BY <1>3, <1>4, <1>5, <1>8
    <2>2. Plain(pos) /\ DeliverStored(cache', o)
        BY <1>1, <1>3, <1>10, <2>1
    <2>3. Lead(pos) = cachePos' + o
        BY <1>1, <1>3, <1>4, <1>8, <2>1
    <2>4. o + SECTOR_SIZE <= CacheSize
        BY <1>2, <1>3, <1>4, <1>5, <1>8, <2>1, <2>2
    <2> QED BY <1>1, <1>6, <1>8, <1>10, <2>2, <2>3, <2>4, DeliverStoredKeeps
<1> QED BY <1>9, <1>10 DEF ReadSectorHits

LEMMA ReadDoneKeeps == InInv /\ ReadDone => InInv'
<1> SUFFICES ASSUME InInv, ReadDone PROVE InInv'
    OBVIOUS
<1>1. pc = "read" /\ ReadResult >= block.len /\ cache' = Filled /\ UNCHANGED fixed
      /\ UNCHANGED <<resumeShouldRead, cachePos, out, bufferSize>>
    BY DEF ReadDone
<1>2. /\ Valid /\ pos \in Nat /\ pos % SECTOR_SIZE = 0 /\ file.size \in Nat /\ CacheSize \in Nat
      /\ SECTOR_SIZE \in Nat \ {0} /\ file.length \in Nat
    BY <1>1, ReadingFacts DEF InInv, Reading
<1>3. pos < file.size /\ block = Locate
    BY <1>1 DEF InInv, Control, BlockOK
<1>4. /\ Locate.pos = Lead(pos) /\ Locate.len \in Int
      /\ Locate.method = "none" <=> Plain(pos)
      /\ Plain(pos) => Locate.len >= SECTOR_SIZE
    BY <1>2, <1>3, LocateFacts
<1>5. Lead(pos) \in Nat
    BY <1>2, <1>3, LeadForward
<1>6. /\ cache \in [0 .. CacheSize - 1 -> Int]
      /\ \A i \in DOMAIN cache : cache[i] <= cachePos + i
      /\ cachePos = Lead(pos)
    BY <1>1 DEF InInv, CacheOK, Reading
<1>7. ReadResult \in Nat /\ ReadResult <= CacheSize
    BY <1>2, <1>5, <1>6 DEF ReadResult, Smaller, Larger
<1>8. \A i \in 0 .. CacheSize - 1 : cachePos + i < file.length => i < ReadResult
    BY <1>2, <1>5, <1>6 DEF ReadResult, Smaller, Larger
<1>9. DOMAIN cache = 0 .. CacheSize - 1 /\ \A i \in 0 .. CacheSize - 1 : i \in Nat /\ cache[i] \in Int
    BY <1>2, <1>6
<1>10. \A i \in 0 .. CacheSize - 1 : cache'[i] = IF i < ReadResult THEN cachePos + i ELSE cache[i]
    BY <1>1, <1>9 DEF Filled
<1>11. cache' \in [0 .. CacheSize - 1 -> Int]
    <2>1. cache' = [i \in 0 .. CacheSize - 1 |-> IF i < ReadResult THEN cachePos + i ELSE cache[i]]
        BY <1>1, <1>9 DEF Filled
    <2>2. \A i \in 0 .. CacheSize - 1 : (IF i < ReadResult THEN cachePos + i ELSE cache[i]) \in Int
        BY <1>5, <1>6, <1>9
    <2> QED BY <2>1, <2>2
<1>12. \A i \in DOMAIN cache' : cache'[i] <= cachePos' + i
    <2> SUFFICES ASSUME NEW i \in 0 .. CacheSize - 1 PROVE cache'[i] <= cachePos + i
        BY <1>1, <1>11
    <2> QED BY <1>5, <1>6, <1>9, <1>10
<1>13. \A i \in DOMAIN cache' : cachePos' + i < file.length => cache'[i] = cachePos' + i
    <2> SUFFICES ASSUME NEW i \in 0 .. CacheSize - 1, cachePos + i < file.length PROVE cache'[i] = cachePos + i
        BY <1>1, <1>11
    <2> QED BY <1>8, <1>10
<1>14. Locate.len <= CacheSize
    BY <1>1, <1>2, <1>3, <1>4, <1>7
<1>15. cachePos' \in Nat /\ cachePos' = Lead(pos)
    BY <1>1, <1>5, <1>6
<1>16. CASE /\ block.method # "none" /\ Decompress(block, 0)
            /\ UNCHANGED <<pos, paused, ownerVars>>
    <2>1. Locate.pos - cachePos' = 0
        BY <1>4, <1>5, <1>15
    <2>2. /\ pc' = "work" /\ bufs' = bufs + 1
          /\ block' = [Locate EXCEPT !.pos = Locate.pos - cachePos']
        BY <1>3, <1>16, <2>1 DEF Decompress
    <2>3. Locate.pos >= cachePos' /\ Locate.pos + Locate.len <= cachePos' + CacheSize /\ Locate.method # "none"
        BY <1>2, <1>3, <1>4, <1>5, <1>14, <1>15, <1>16
    <2> QED BY <1>1, <1>3, <1>11, <1>12, <1>13, <1>15, <1>16, <2>2, <2>3, DecompressKeeps DEF ownerVars
<1>17. CASE /\ block.method = "none" /\ DeliverStored(Filled, 0)
            /\ UNCHANGED block
    <2>1. Plain(pos) /\ DeliverStored(cache', 0)
        BY <1>1, <1>3, <1>4, <1>17
    <2>2. Lead(pos) = cachePos' + 0
        BY <1>15
    <2>3. 0 + SECTOR_SIZE <= CacheSize
        BY <1>2, <1>4, <1>14, <2>1
    <2>4. 0 \in Nat
        OBVIOUS
    <2> QED BY <1>1, <1>3, <1>11, <1>12, <1>13, <1>15, <1>17, <2>1, <2>2, <2>3, <2>4, DeliverStoredKeeps
<1> QED BY <1>16, <1>17 DEF ReadDone

(* The sector taken out of a decompressed block.                             *)
LEMMA DecompressedSector ==
    ASSUME Control, OutOK, pc \in {"after", "deliver"}, out # Error
    PROVE  /\ Decompressed \in Sectors \cup {Garbage}
           /\ Intact(Len(taken)) => Decompressed = Len(taken)
<1>1. pc \in Reading /\ pos < file.size
    BY DEF Reading, Control
<1>2. /\ Valid /\ pos \in Nat /\ pos % SECTOR_SIZE = 0 /\ pos \div SECTOR_SIZE = Len(taken)
      /\ file.size \in Nat /\ SECTOR_SIZE \in Nat \ {0}
      /\ BlockSize \in Nat \ {0} /\ Len(taken) \in Nat
    BY <1>1, ReadingFacts
<1>3. /\ ~Plain(pos) /\ out \in {Garbage} \cup 1 .. pos \div BlockSize + 1
      /\ BlockAt(pos).pos + BlockAt(pos).size <= file.length => out = pos \div BlockSize + 1
    BY DEF OutOK
<1>7. pos \in Nat /\ BlockSize \in Nat \ {0} /\ SECTOR_SIZE \in Nat \ {0}
    BY <1>2
<1>4. PICK q, r \in Nat : q = pos \div BlockSize /\ r = pos % BlockSize /\ pos = q * BlockSize + r
    BY <1>7, Division
<1>5. CASE out = Garbage
    <2>1. Decompressed = Garbage
        BY <1>5 DEF Decompressed
    <2>2. out # pos \div BlockSize + 1
        BY <1>4, <1>5 DEF Garbage
    <2>3. ~Intact(Len(taken))
        <3>1. pos = Len(taken) * SECTOR_SIZE
            BY DEF Control
        <3>2. file.type # "ISO"
            BY <1>3 DEF Plain
        <3>3. ~IsStored(Len(taken)) /\ BlockOf(Len(taken)) = BlockAt(pos)
            BY <1>2, <1>3, <3>1, <3>2, ByNumber
        <3> QED BY <1>3, <2>2, <3>3 DEF Intact
    <2> QED BY <2>1, <2>3
<1>6. CASE out \in 1 .. q + 1 /\ out # Garbage
    <2>1. PICK k \in Nat : out = k + 1
        <3>1. out - 1 \in Nat /\ out = (out - 1) + 1
            BY <1>6
        <3> QED BY <3>1
    <2>2. k <= q /\ out - 1 = k
        BY <1>6, <2>1
    <2>3. PICK m \in Nat : q = k + m
        <3>1. q - k \in Nat /\ q = k + (q - k)
            BY <2>2
        <3> QED BY <3>1
    <2>4. q * BlockSize = k * BlockSize + m * BlockSize /\ m * BlockSize \in Nat /\ k * BlockSize \in Nat
        BY <1>2, <2>3
    <2>5. PICK v \in Nat : v = k * BlockSize + r
        BY <2>4
    <2>6. v <= pos
        <3>1. PICK x \in Nat, y \in Nat : x = k * BlockSize /\ y = m * BlockSize
            BY <2>4
        <3>2. pos = x + y + r /\ v = x + r
            BY <1>4, <2>4, <2>5, <3>1
        <3> QED BY <3>2
    <2>7. Decompressed = v \div SECTOR_SIZE
        BY <1>4, <1>6, <2>2, <2>5 DEF Decompressed
    <2>8. Decompressed \in Sectors
        <3>1. PICK a, b \in Nat : a = v \div SECTOR_SIZE /\ v = a * SECTOR_SIZE + b
            BY <1>7, Division
        <3>2. a * SECTOR_SIZE < file.size
            <4>1. PICK x \in Nat : x = a * SECTOR_SIZE
                BY <1>2
            <4> QED BY <1>1, <1>2, <2>6, <3>1, <4>1
        <3>3. a \in Sectors
            BY <1>2, <3>2, SectorsAre
        <3> QED BY <2>7, <3>1, <3>3
    <2>9. ASSUME Intact(Len(taken)) PROVE Decompressed = Len(taken)
        <3>1. pos = Len(taken) * SECTOR_SIZE
            BY DEF Control
        <3>2. file.type # "ISO"
            BY <1>3 DEF Plain
        <3>3. ~IsStored(Len(taken)) /\ BlockOf(Len(taken)) = BlockAt(pos)
            BY <1>2, <1>3, <3>1, <3>2, ByNumber
        <3>4. out = q + 1
            BY <1>3, <1>4, <2>9, <3>3 DEF Intact
        <3>5. k = q
            BY <2>1, <3>4
        <3>6. v = pos
            BY <1>4, <2>5, <3>5
        <3> QED BY <1>2, <2>7, <3>6
    <2> QED BY <2>8, <2>9
<1> QED BY <1>3, <1>4, <1>5, <1>6

LEMMA AfterWorkStep == InInv /\ AfterWork => InInv'
<1> SUFFICES ASSUME InInv, AfterWork PROVE InInv'
    OBVIOUS
<1>1. pc \in {"after", "deliver"} /\ out # Error /\ UNCHANGED fixed /\ Callback(Decompressed)
      /\ pos' = pos + SECTOR_SIZE /\ UNCHANGED <<resumeShouldRead, cachePos, cache, block, out, bufferSize>>
      /\ pc' = (IF pos' >= BlockEnd \/ paused' THEN "ReadSector" ELSE "deliver")
      /\ bufs' = (IF pos' >= BlockEnd \/ paused' THEN bufs - 1 ELSE bufs)
    BY DEF AfterWork, cacheVars
<1>2. pc \in Reading /\ pos < file.size /\ Control /\ Delivered /\ Summed /\ OutOK
    BY <1>1 DEF InInv, Reading, Control
<1>3. /\ Valid /\ pos \in Nat /\ file.size \in Nat /\ SECTOR_SIZE \in Nat \ {0}
      /\ BlockSize \in Nat \ {0}
    BY <1>2, ReadingFacts
<1>4. /\ Decompressed \in Sectors \cup {Garbage}
      /\ Intact(Len(taken)) => Decompressed = Len(taken)
    BY <1>1, <1>2, DecompressedSector
<1>5. pc' \in {"ReadSector", "deliver"} /\ pc' \in Reading
    BY <1>1 DEF Reading
<1>6. /\ Delivered' /\ Summed'
      /\ taken' \in Seq([pos : Nat, sector : Int]) /\ pos' = Len(taken') * SECTOR_SIZE
      /\ pos' <= file.size /\ paused' \in BOOLEAN
    BY <1>1, <1>2, <1>4, <1>5, CallbackKeeps
<1>7. /\ file' = file /\ owner' = owner /\ (HeaderOK' <=> HeaderOK) /\ BlockSize' = BlockSize
    BY <1>1, Frame DEF fixed
<1>8. bufs' = IF pc' \in Holding THEN 1 ELSE 0
    <2>1. bufs = 1
        BY <1>1, <1>2 DEF Control, Holding
    <2> QED BY <1>1, <2>1 DEF Holding
<1>9. PICK q, r \in Nat : q = pos \div BlockSize /\ r = pos % BlockSize /\ pos = q * BlockSize + r
    BY <1>3, Division
<1>10. ASSUME pc' = "deliver" PROVE pos' < file.size /\ pos' \div BlockSize = q
    <2>1. ~(pos' >= BlockEnd)
        BY <1>1, <1>10
    <2>2. PICK x \in Nat : x = q * BlockSize
        BY <1>3
    <2>3. (q + 1) * BlockSize = x + BlockSize
        BY <1>3, <2>2
    <2>4. BlockEnd = Smaller(x + BlockSize, file.size)
        BY <1>9, <2>3 DEF BlockEnd
    <2>5. pos' < file.size /\ pos' < x + BlockSize /\ pos' \in Nat
        BY <1>1, <1>3, <2>1, <2>4 DEF Smaller
    <2>6. PICK y \in Nat : y = pos'
        BY <2>5
    <2>7. y - x \in Nat /\ y - x < BlockSize /\ y = x + (y - x)
        <3>1. pos = x + r
            BY <1>9, <2>2
        <3> QED BY <1>1, <1>3, <2>5, <2>6, <3>1
    <2>8. PICK d \in Nat : d = y - x
        BY <2>7
    <2>9. y = q * BlockSize + d /\ d < BlockSize
        BY <2>2, <2>7, <2>8
    <2>10. y \div BlockSize = q
        BY <1>3, <2>9, DivisionUnique
    <2> QED BY <2>5, <2>6, <2>10
<1>11. Control'
    BY <1>1, <1>2, <1>5, <1>6, <1>7, <1>8, <1>10 DEF Control, Opening, Reading
<1>12. CacheOK'
    <2>1. /\ cache \in [0 .. CacheSize - 1 -> Int] /\ Mirrors
          /\ \A i \in DOMAIN cache : cache[i] <= cachePos + i
        BY <1>1, <1>2 DEF InInv, CacheOK
    <2>2. pc' # "read"
        BY <1>5
    <2>3. cachePos \in Nat /\ cachePos <= Lead(pos)
        BY <1>2, <2>1 DEF Mirrors
    <2>4. \A i \in DOMAIN cache : cachePos + i < file.length => cache[i] = cachePos + i
        BY <2>1 DEF Mirrors
    <2> QED BY <1>1, <1>2, <2>1, <2>2, <2>3, <2>4, CacheMoves
<1>13. BlockOK'
    BY <1>5 DEF BlockOK
<1>14. OutOK'
    <2> SUFFICES ASSUME pc' = "deliver" PROVE OutOK'
        BY <1>5 DEF OutOK
    <2>1. pos' \div BlockSize = pos \div BlockSize
        BY <1>9, <1>10
    <2>2. (pos \div BlockSize)' = pos \div BlockSize
        BY <1>7, <2>1
    <2>3. BlockAt(pos)' = BlockAt(pos)
        BY <1>7, <2>2 DEF BlockAt
    <2>4. Plain(pos)' <=> Plain(pos)
        BY <1>7, <2>3 DEF Plain
    <2> QED BY <1>1, <1>2, <1>7, <2>2, <2>3, <2>4 DEF OutOK
<1> QED BY <1>6, <1>11, <1>12, <1>13, <1>14 DEF InInv

-----------------------------------------------------------------------------
(* The theorems. *)

LEMMA InStep == InInv /\ [Next]_vars => InInv'
<1> SUFFICES ASSUME InInv, [Next]_vars PROVE InInv'
    OBVIOUS
<1>1. CASE UNCHANGED vars
    <2>1. UNCHANGED fixed /\ pc' = pc /\ UNCHANGED <<pos, paused, resumeShouldRead, cachePos, cache, block, out,
              bufferSize, bufs, taken, crc, crcPos, pendingBuffers, notes>>
        BY <1>1 DEF vars, flow, cacheVars, ownerVars
    <2>2. file' = file /\ owner' = owner
        BY <2>1 DEF fixed
    <2>3. Control'
        BY <2>1, <2>2 DEF InInv, Control, HeaderOK, Compressing
    <2>4. CacheOK'
        BY <2>1, <2>2 DEF InInv, CacheOK, Fresh, Mirrors, Lead, BlockAt, BlockSize, CacheSize
    <2>5. BlockOK'
        BY <2>1, <2>2 DEF InInv, BlockOK, Cached, Locate, Entry, NextEntry, Method, Position, BlockSize, CacheSize
    <2>6. OutOK'
        BY <2>1, <2>2 DEF InInv, OutOK, Plain, BlockAt, BlockSize
    <2>7. Delivered' /\ Summed'
        BY <2>1, DeliveredStays, SummedStays DEF InInv
    <2> QED BY <2>3, <2>4, <2>5, <2>6, <2>7 DEF InInv
<1>2. CASE Enqueue
    BY <1>2, EnqueueKeeps
<1>3. CASE DetectFormat
    BY <1>3, DetectFormatKeeps
<1>4. CASE HeaderDone
    BY <1>4, HeaderDoneKeeps
<1>5. CASE IndexDone
    BY <1>5, IndexDoneKeeps
<1>6. CASE ReadSectorEnds
    BY <1>6, ReadSectorEndsKeeps
<1>7. CASE ReadSectorParks
    BY <1>7, ReadSectorParksKeeps
<1>8. CASE ReadSectorHits
    BY <1>8, ReadSectorHitsKeeps
<1>9. CASE ReadSectorMisses
    BY <1>9, ReadSectorMissesKeeps
<1>10. CASE ReadDone
    BY <1>10, ReadDoneKeeps
<1>11. CASE ReadFails
    BY <1>11, ReadFailsKeeps
<1>12. CASE Work
    BY <1>12, WorkKeeps
<1>13. CASE AfterWork
    BY <1>13, AfterWorkStep
<1>14. CASE AfterWorkFails
    BY <1>14, AfterWorkFailsKeeps
<1>15. CASE Pause
    BY <1>15, PauseKeeps
<1>16. CASE Resume
    BY <1>16, ResumeKeeps
<1> QED BY <1>1, <1>2, <1>3, <1>4, <1>5, <1>6, <1>7, <1>8, <1>9, <1>10, <1>11, <1>12, <1>13, <1>14,
           <1>15, <1>16 DEF Next

LEMMA InInvariant == Spec => []InInv
BY InInit, InStep, PTL DEF Spec

(* Input's fields keep their types, pos_ stays on a sector, and no sector    *)
(* passed on is one the source does not have: whatever the cache of a file   *)
(* that has been cut off still holds.                                        *)
THEOREM InputTypeCorrect == Spec => []ITypeOK
<1>1. InInv => ITypeOK
    <2> SUFFICES ASSUME InInv PROVE ITypeOK
        OBVIOUS
    <2>1. Control /\ Delivered
        BY DEF InInv
    <2>2. Len(taken) \in Nat /\ pos = Len(taken) * SECTOR_SIZE
        BY <2>1 DEF Control
    <2>3. PICK p \in Nat : p = Len(taken) * SECTOR_SIZE /\ p % SECTOR_SIZE = 0
        BY <2>2, Multiple
    <2>4. pos \in Nat /\ pos % SECTOR_SIZE = 0
        <3>1. pos = p
            BY <2>2, <2>3
        <3>2. p \in Nat /\ p % SECTOR_SIZE = 0
            BY <2>3
        <3> QED BY <3>1, <3>2, Zenon
    <2>5. pc \in {"Enqueue", "DetectFormat", "header", "index", "ReadSector", "read", "work", "after",
                  "deliver", "parked", "end", "failed"}
        BY <2>1 DEF Control, Opening, Reading
    <2>6. paused \in BOOLEAN /\ bufferSize \in Nat /\ resumeShouldRead \in BOOLEAN
        BY <2>1 DEF Control
    <2>7. bufs \in Nat
        BY <2>1 DEF Control
    <2>8. \A i \in DOMAIN taken : taken[i].sector \in Sectors \cup {Garbage}
        BY <2>1 DEF Delivered
    <2> QED BY <2>4, <2>5, <2>6, <2>7, <2>8 DEF ITypeOK
<1> QED BY <1>1, InInvariant, PTL

(* Every sector that ReadSector and the after-work callback pass on is the   *)
(* source's sector at its position, in order and none twice: from the cache  *)
(* or from the file, stored or compressed, after any pauses.  Of a file cut  *)
(* off it holds for every sector that is still there.                        *)
THEOREM SourceIsDelivered == Spec => []DeliveredIsSource
<1>1. InInv => DeliveredIsSource
    BY DEF InInv, Delivered, DeliveredIsSource
<1> QED BY <1>1, InInvariant, PTL

(* DetectFormat and EnqueueDecompressSector give their buffer back on every  *)
(* path, of success, failure and pause, and never twice.                     *)
THEOREM InputReturnsBuffers == Spec => []BuffersReturned
<1>1. InInv => BuffersReturned
    BY DEF InInv, Control, BuffersReturned, Holding
<1> QED BY <1>1, InInvariant, PTL

(* ChecksumTask reports success at the end of any source that is not empty,  *)
(* once and with as many sectors in crc_ as the source has.  For a file that *)
(* is whole they are exactly the source's, in order; of a file cut off, only *)
(* those that are still there, and there the checksum may be of anything     *)
(* (run cut_file).  pendingBuffers_ stays empty.                             *)
THEOREM ChecksumIsComplete == Spec => []ChecksumComplete
<1>1. InInv => ChecksumComplete
    <2> SUFFICES ASSUME InInv, ~Compressing PROVE ChecksumComplete
        BY DEF ChecksumComplete
    <2>1. Control /\ Delivered /\ Summed
        BY DEF InInv
    <2>2. /\ pendingBuffers = <<>> /\ Len(crc) = Len(taken) /\ crc \in Seq(Int)
          /\ \A i \in DOMAIN crc : crc[i] = taken[i].sector
          /\ notes = IF pc = "failed" THEN <<"INVALID_DATA">>
                     ELSE IF pos = file.size /\ file.size > 0 THEN <<"SUCCESS">> ELSE <<>>
        BY <2>1 DEF Summed
    <2>3. ASSUME Succeeded
          PROVE  Len(notes) = 1 /\ Len(crc) * SECTOR_SIZE = file.size
        <3>1. notes = <<"SUCCESS">> /\ pos = file.size
            <4>1. <<"INVALID_DATA">>[1] # "SUCCESS"
                OBVIOUS
            <4> QED BY <2>2, <2>3, <4>1 DEF Succeeded
        <3>2. Len(notes) = 1
            BY <3>1
        <3>3. pos = Len(taken) * SECTOR_SIZE
            BY <2>1 DEF Control
        <3> QED BY <2>2, <3>1, <3>2, <3>3
    <2>4. ASSUME NEW i \in DOMAIN crc, Intact(i - 1) PROVE crc[i] = i - 1
        <3>1. taken \in Seq([pos : Nat, sector : Int])
            BY <2>1 DEF Control
        <3>2. i \in DOMAIN taken
            BY <2>2, <3>1
        <3> QED BY <2>1, <2>2, <2>4, <3>2 DEF Delivered
    <2>5. pc = "end" => (notes = <<"SUCCESS">>) = (file.size > 0)
        <3>1. pc = "end" => pos = file.size
            BY <2>1 DEF Control
        <3>2. <<>> # <<"SUCCESS">>
            OBVIOUS
        <3> QED BY <2>2, <3>1, <3>2
    <2>6. ASSUME Succeeded, Whole, NEW i \in DOMAIN crc PROVE crc[i] = i - 1
        <3>1. PICK p \in Nat : p = Len(crc) * SECTOR_SIZE /\ p \div SECTOR_SIZE = Len(crc)
            BY <2>2, Multiple
        <3>2. Sectors = 0 .. Len(crc) - 1
            BY <2>3, <2>6, <3>1 DEF Sectors
        <3>3. i - 1 \in Sectors
            BY <2>2, <3>2
        <3> QED BY <2>4, <2>6, <3>3 DEF Whole
    <2> QED BY <2>2, <2>3, <2>4, <2>5, <2>6 DEF ChecksumComplete, SumsSource
<1> QED BY <1>1, InInvariant, PTL

-----------------------------------------------------------------------------
(* The size of the buffers, in itself an invariant over InInv. *)

(* begin_ leaves the pool's buffers large enough for the source's blocks; if *)
(* not, the next theorem's property is violated (run shrink).                *)
NoShrink == Resizes => PoolSize(2 * LARGE_BLOCK_SIZE) >= 2 * BlockSize

Need == IF file.type \in {"CSO1", "CSO2", "ZSO"} THEN 2 * BlockSize ELSE BlockSize

Sized ==
    /\ bufferSize >= MIN_SIZE
    /\ pc = "index" => bufferSize >= Need
    /\ pc \in Reading /\ NoShrink => bufferSize >= Need

LEMMA PoolSizes ==
    ASSUME NEW n \in Nat
    PROVE  PoolSize(n) \in Nat /\ PoolSize(n) >= n /\ PoolSize(n) >= MIN_SIZE
BY SizeFacts DEF PoolSize, Larger

LEMMA NeedFacts ==
    ASSUME file \in File, HeaderOK
    PROVE  /\ BlockSize \in Nat /\ Need \in Nat /\ Need >= BlockSize /\ Need <= 2 * BlockSize
           /\ file.type \in {"CSO1", "CSO2", "ZSO"} => Need = 2 * BlockSize
           /\ file.type \notin {"CSO1", "CSO2", "ZSO"} => Need <= MIN_SIZE
<1>1. BlockSize \in Nat
    BY Accepted
<1>2. file.type \in {"ISO", "CSO1", "CSO2", "ZSO", "DAX"}
    BY FileFacts
<1>3. file.type \notin {"CSO1", "CSO2", "ZSO"} => BlockSize <= MIN_SIZE
    BY <1>2, SizeFacts DEF BlockSize, BlockSizeOf
<1> QED BY <1>1, <1>3 DEF Need

LEMMA SizedStep == InInv /\ Sized /\ [Next]_vars => Sized'
<1> SUFFICES ASSUME InInv, Sized, [Next]_vars PROVE Sized'
    OBVIOUS
<1>1. Control /\ bufferSize \in Nat /\ file \in File
    BY DEF InInv, Control
<1>2. UNCHANGED fixed
    BY DEF Next, vars, Enqueue, DetectFormat, HeaderDone, IndexDone, ReadSectorEnds, ReadSectorParks,
           ReadSectorHits, ReadSectorMisses, ReadDone, ReadFails, Work, AfterWork, AfterWorkFails, Pause, Resume
<1>3. Need' = Need /\ (NoShrink' <=> NoShrink) /\ MIN_SIZE \in Nat
    BY <1>2, SizeFacts DEF Need, NoShrink, Resizes, Compressing, BlockSize, fixed
<1>4. ASSUME bufferSize' = bufferSize, pc \in Reading, pc' # "index" PROVE Sized'
    BY <1>3, <1>4 DEF Sized
<1>5. ASSUME bufferSize' = bufferSize, pc' \notin Reading, pc' # "index" PROVE Sized'
    BY <1>3, <1>5 DEF Sized
<1>6. CASE UNCHANGED vars
    BY <1>3, <1>6 DEF Sized, vars
<1>7. CASE Enqueue
    <2>1. owner \in OwnerType
        BY <1>1, ConstantsAssumption DEF Control
    <2>2. TaskBlockSize \in Nat
        BY <2>1, SizeFacts DEF TaskBlockSize, OwnerType
    <2>3. PoolSize(2 * TaskBlockSize) >= MIN_SIZE
        BY <2>2, PoolSizes
    <2>4. pc' \notin Reading /\ pc' # "index"
        BY <1>7 DEF Enqueue, Notify, Reading
    <2> QED BY <1>7, <2>3, <2>4 DEF Enqueue, Sized
<1>8. CASE DetectFormat
    BY <1>5, <1>8 DEF DetectFormat, Reading
<1>9. CASE HeaderDone
    <2>1. CASE Finish /\ UNCHANGED bufferSize
        BY <1>5, <2>1 DEF Finish, Reading
    <2>2. CASE /\ HeaderOK /\ (Grow = bufferSize \/ CanResize(bufs'))
               /\ bufferSize' = (IF Grow = bufferSize THEN bufferSize ELSE PoolSize(Grow))
               /\ pc' = "index" /\ UNCHANGED notes
        <3>1. Grow \in Nat /\ Grow >= bufferSize
            <4>1. BlockSize \in Nat
                BY <1>1, <2>2, NeedFacts
            <4> QED BY <1>1, <4>1 DEF Grow, Larger
        <3>2. bufferSize' \in Nat /\ bufferSize' >= Grow /\ bufferSize' >= MIN_SIZE
            BY <1>1, <1>3, <2>2, <3>1, PoolSizes DEF Sized
        <3>3. bufferSize' >= Need
            <4>1. CASE file.type \in {"CSO1", "CSO2", "ZSO"}
                <5>1. Grow >= 2 * BlockSize /\ Need = 2 * BlockSize /\ BlockSize \in Nat
                    BY <1>1, <2>2, <4>1, NeedFacts DEF Grow, Larger
                <5> QED BY <3>1, <3>2, <5>1
            <4>2. CASE file.type \notin {"CSO1", "CSO2", "ZSO"}
                <5>1. Need <= MIN_SIZE /\ Need \in Nat
                    BY <1>1, <2>2, <4>2, NeedFacts
                <5> QED BY <1>3, <3>2, <5>1
            <4> QED BY <4>1, <4>2
        <3>4. pc' \notin Reading
            BY <2>2 DEF Reading
        <3> QED BY <1>3, <3>2, <3>3, <3>4 DEF Sized
    <2> QED BY <1>9, <2>1, <2>2 DEF HeaderDone
<1>10. CASE IndexDone
    <2>1. CASE Finish /\ UNCHANGED <<cacheVars, bufferSize, paused>>
        BY <1>5, <2>1 DEF Finish, Reading
    <2>2. CASE bufferSize' = BeginSize /\ pc' = "ReadSector"
        <3>1. HeaderOK /\ bufferSize >= Need /\ Need \in Nat /\ BlockSize \in Nat /\ Need <= 2 * BlockSize
            <4>1. pc = "index"
                BY <1>10 DEF IndexDone
            <4>2. HeaderOK
                BY <1>1, <4>1 DEF Control, Opening
            <4> QED BY <1>1, <4>1, <4>2, NeedFacts DEF Sized
        <3>2. PoolSize(2 * LARGE_BLOCK_SIZE) \in Nat /\ PoolSize(2 * LARGE_BLOCK_SIZE) >= MIN_SIZE
            BY SizeFacts, PoolSizes
        <3>3. BeginSize >= MIN_SIZE
            BY <3>2 DEF BeginSize, Sized
        <3>4. ASSUME NoShrink PROVE BeginSize >= Need
            <4>1. CASE Resizes /\ ~BeginFails
                <5>1. BeginSize = PoolSize(2 * LARGE_BLOCK_SIZE) /\ PoolSize(2 * LARGE_BLOCK_SIZE) >= 2 * BlockSize
                    BY <3>4, <4>1 DEF BeginSize, NoShrink
                <5> QED BY <3>1, <3>2, <5>1
            <4>2. CASE ~(Resizes /\ ~BeginFails)
                BY <3>1, <4>2 DEF BeginSize
            <4> QED BY <4>1, <4>2
        <3> QED BY <1>3, <2>2, <3>3, <3>4 DEF Sized
    <2> QED BY <1>10, <2>1, <2>2 DEF IndexDone
<1>11. CASE ReadSectorEnds \/ ReadSectorParks \/ ReadSectorHits \/ ReadSectorMisses
    <2>1. pc = "ReadSector" /\ bufferSize' = bufferSize /\ pc' # "index"
        BY <1>11 DEF ReadSectorEnds, ReadSectorParks, ReadSectorHits, ReadSectorMisses, Decompress, DeliverStored
    <2> QED BY <1>4, <2>1 DEF Reading
<1>12. CASE ReadDone \/ ReadFails \/ Work \/ AfterWorkFails
    <2>1. pc \in {"read", "work", "after"} /\ bufferSize' = bufferSize /\ pc' # "index"
        BY <1>12 DEF ReadDone, ReadFails, Work, AfterWorkFails, Decompress, DeliverStored, Finish
    <2> QED BY <1>4, <2>1 DEF Reading
<1>13. CASE AfterWork
    <2>1. pc \in {"after", "deliver"} /\ bufferSize' = bufferSize /\ pc' # "index"
        BY <1>13 DEF AfterWork
    <2> QED BY <1>4, <2>1 DEF Reading
<1>14. CASE Pause \/ Resume
    <2>1. pc \in {"read", "work", "after", "parked"} /\ bufferSize' = bufferSize /\ pc' # "index"
        BY <1>14 DEF Pause, Resume, Waits
    <2> QED BY <1>4, <2>1 DEF Reading
<1> QED BY <1>6, <1>7, <1>8, <1>9, <1>10, <1>11, <1>12, <1>13, <1>14 DEF Next

(* What is stored, with its padding, is no longer than what Grow allows for. *)
LEMMA StoredFits ==
    ASSUME Valid, pos \in Nat, pos % SECTOR_SIZE = 0, pos < file.size, Locate.method = "none"
    PROVE  Locate.len \in Int /\ Locate.len <= Need
<1>1. /\ SECTOR_SIZE \in Nat \ {0} /\ BlockSize \in Nat \ {0}
      /\ file.type \in {"ISO", "CSO1", "CSO2", "ZSO", "DAX"} /\ Locate.len \in Int
    BY FileFacts, SizeFacts, Accepted, LocateFacts DEF Valid
<1>2. CASE file.type = "ISO"
    <2>1. Locate.len = SECTOR_SIZE - 0
        BY <1>2 DEF Locate, Raw
    <2>2. Need = SECTOR_SIZE
        BY <1>2 DEF Need, BlockSize, BlockSizeOf
    <2> QED BY <1>1, <2>1, <2>2
<1>3. CASE file.type # "ISO"
    <2>1. PICK q, r \in Nat :
              /\ q = pos \div BlockSize /\ r = pos % BlockSize
              /\ q + 1 \in 1 .. Len(file.blocks)
              /\ BlockAt(pos) = file.blocks[q + 1]
              /\ file.blocks[q + 1] \in [pos : Nat, size : Nat, raw : BOOLEAN]
        BY <1>3, InBlock
    <2>2. file.blocks[q + 1].raw
        <3>1. Plain(pos)
            BY LocateFacts
        <3> QED BY <1>3, <2>1, <3>1 DEF Plain
    <2>3. LaidOut(file)
        BY <1>3, Accepted DEF Valid
    <2>4. Entry = file.index[q + 1] /\ NextEntry = file.index[q + 2] /\ q + 2 = (q + 1) + 1
        BY <2>1 DEF Entry, NextEntry
    <2>5. CASE file.type = "DAX"
        <3>1. Entry.size = file.blocks[q + 1].size /\ file.blocks[q + 1].size <= BlockSize
            <4>1. file.index[q + 1] = [pos |-> file.blocks[q + 1].pos,
                                       flag |-> file.blocks[q + 1].raw,
                                       size |-> file.blocks[q + 1].size]
                BY <2>1, <2>3, <2>5 DEF LaidOut
            <4>2. file.blocks[q + 1].size <= BlockSizeOf(file)
                BY <2>1, <2>2, <2>3, <2>5 DEF LaidOut
            <4>3. file.index[q + 1].size = file.blocks[q + 1].size
                BY <4>1
            <4> QED BY <2>4, <4>2, <4>3 DEF BlockSize
        <3>2. PICK z \in Nat : z = Entry.size
            BY <2>1, <3>1
        <3>3. Locate = Located(Entry.pos, z, r, Method(z))
            BY <2>1, <2>5, <3>2 DEF Locate
        <3>4. Locate.len = z - r \/ Locate.len = z
            BY <3>3 DEF Located, Raw, Packed
        <3>5. Need = BlockSize
            BY <2>5 DEF Need
        <3> QED BY <1>1, <3>1, <3>2, <3>4, <3>5
    <2>6. CASE file.type # "DAX"
        <3> DEFINE len == Position(NextEntry) - Position(Entry)
        <3>1. len <= 2 * BlockSize
            BY <2>1, <2>2, <2>3, <2>4, <2>6 DEF LaidOut, Position, BlockSize
        <3>2. Locate = Located(Position(Entry), len, r, Method(len))
            BY <1>3, <2>1, <2>6 DEF Locate
        <3> HIDE DEF len
        <3>3. Locate.len = len - r
            <4>1. Method(len) = "none"
                BY <3>2 DEF Located, Packed
            <4> QED BY <3>2, <4>1 DEF Located, Raw
        <3>4. Need = 2 * BlockSize
            BY <1>1, <1>3, <2>6 DEF Need
        <3>5. len \in Int
            <4>1. Position(Entry) \in Int /\ Position(NextEntry) \in Int
                <5>1. q + 2 \in 1 .. Len(file.index) /\ q + 1 \in 1 .. Len(file.index)
                    <6>1. Len(file.index) >= Len(file.blocks) + 1
                        BY <2>3, <2>6 DEF LaidOut
                    <6>2. Len(file.index) \in Nat /\ Len(file.blocks) \in Nat
                        BY FileFacts DEF Valid
                    <6> QED BY <2>1, <6>1, <6>2
                <5>2. file.index \in Seq([pos : Nat, flag : BOOLEAN, size : Nat]) /\ file.shift \in Nat
                    BY FileFacts DEF Valid
                <5>3. /\ file.index[q + 1] \in [pos : Nat, flag : BOOLEAN, size : Nat]
                      /\ file.index[q + 2] \in [pos : Nat, flag : BOOLEAN, size : Nat]
                    BY <5>1, <5>2, ElementOfSeq
                <5>4. PICK x, y \in Nat : x = Entry.pos /\ y = NextEntry.pos
                    BY <2>4, <5>3
                <5>5. PICK w \in Int : w = 2 ^ file.shift
                    BY <5>2
                <5>6. x * w \in Int /\ y * w \in Int
                    OBVIOUS
                <5> QED BY <5>4, <5>5, <5>6 DEF Position
            <4> QED BY <4>1 DEF len
        <3> QED BY <1>1, <3>1, <3>3, <3>4, <3>5
    <2> QED BY <2>5, <2>6
<1> QED BY <1>2, <1>3

(* Unless begin_ shrinks the pool below twice the source's block size, every *)
(* block is decompressed, and all stored data copied, into a buffer that     *)
(* holds it, for any sizes of the pool, the source and the task.             *)
THEOREM BuffersHoldBlocks == Spec => [](NoShrink => BufferHoldsBlock)
<1>1. Init => Sized
    <2> SUFFICES ASSUME Init PROVE Sized
        OBVIOUS
    <2>1. bufferSize >= MIN_SIZE
        BY ConstantsAssumption DEF Init
    <2>2. pc \notin Reading /\ pc # "index"
        BY DEF Init, Reading
    <2> QED BY <2>1, <2>2 DEF Sized
<1>2. InInv /\ Sized => (NoShrink => BufferHoldsBlock)
    <2> SUFFICES ASSUME InInv, Sized, NoShrink PROVE BufferHoldsBlock
        OBVIOUS
    <2>1. Control /\ bufferSize \in Nat
        BY DEF InInv, Control
    <2>2. ASSUME pc \in Reading
          PROVE  bufferSize >= Need /\ Need \in Nat /\ BlockSize \in Nat /\ Need >= BlockSize
        BY <2>1, <2>2, NeedFacts DEF Sized, Control
    <2>3. pc = "work" => bufferSize >= BlockSize
        BY <2>1, <2>2 DEF Reading
    <2>4. ASSUME pc = "ReadSector", pos < file.size, Locate.method = "none"
          PROVE  bufferSize >= Locate.len
        <3>1. pc \in Reading
            BY <2>4 DEF Reading
        <3>2. Valid /\ pos \in Nat /\ pos % SECTOR_SIZE = 0
            BY <2>1, <3>1, ReadingFacts
        <3>3. Locate.len \in Int /\ Locate.len <= Need
            BY <2>4, <3>2, StoredFits
        <3> QED BY <2>1, <2>2, <3>1, <3>3
    <2> QED BY <2>3, <2>4 DEF BufferHoldsBlock
<1> QED BY <1>1, <1>2, SizedStep, InInvariant, PTL DEF Spec
=============================================================================
