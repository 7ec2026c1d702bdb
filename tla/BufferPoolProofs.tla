-------------------------- MODULE BufferPoolProofs --------------------------
(* BufferPool for any number of buffers, any sizes and any callers.          *)
EXTENDS BufferPool, FiniteSetTheorems, SequenceTheorems, TLAPS

(* What makes the parts inductive: the pool may change bufferSize only       *)
(* because the count, exact for distinct buffers, has told it that none is   *)
(* held.                                                                     *)
IInv == TypeOK /\ BuffersFit /\ NoBufferShared /\ AllBuffersCounted

(* A set of held buffers is finite, so that its cardinality counts it.       *)
LEMMA HeldFinite ==
    ASSUME held \subseteq Buffer
    PROVE  IsFiniteSet(held) /\ Cardinality(held) \in Nat
BY BufferAssumption, FS_Subset, FS_CardinalityType

(* The pool as constructed satisfies the invariant.                          *)
LEMMA InitIInv == Init => IInv
<1> SUFFICES ASSUME Init PROVE IInv
    OBVIOUS
<1>1. TypeOK
    BY SizeAssumption DEF Init, TypeOK
<1>2. Allocated = {}
    BY DEF Init, Allocated, InPool
<1>3. BuffersFit /\ NoBufferShared
    BY <1>2 DEF Init, BuffersFit, NoBufferShared, InPool
<1>4. AllBuffersCounted
    BY FS_EmptySet DEF Init, AllBuffersCounted
<1> QED BY <1>1, <1>3, <1>4 DEF IInv

(* SetBufferSize: if anything is held, the count is not zero.                *)
LEMMA SetBufferSizeIInv ==
    ASSUME IInv, NEW n \in Sizes, SetBufferSize(n)
    PROVE  IInv' /\ (held # {} => bufferSize' = bufferSize)
<1> USE DEF IInv
<1>1. allocations' = Cardinality(held) /\ Cardinality(held) \in Nat /\ IsFiniteSet(held)
    BY HeldFinite DEF SetBufferSize, AllBuffersCounted, TypeOK
<1>2. held # {} => bufferSize' = bufferSize
    BY <1>1, FS_EmptySet DEF SetBufferSize
<1>3. TypeOK'
    BY <1>1, SizeAssumption DEF SetBufferSize, FreeMemory, TypeOK
<1>4. InPool' = {} /\ Allocated' = held
    BY DEF SetBufferSize, InPool, Allocated
<1>5. BuffersFit'
    BY <1>2, <1>4 DEF SetBufferSize, FreeMemory, BuffersFit, Allocated, TypeOK
<1>6. NoBufferShared'
    BY <1>4 DEF SetBufferSize, NoBufferShared
<1>7. AllBuffersCounted'
    BY <1>1 DEF SetBufferSize, AllBuffersCounted, TypeOK
<1> QED BY <1>2, <1>3, <1>5, <1>6, <1>7

(* Malloc: the new buffer has the current size and is counted.               *)
LEMMA MallocIInv ==
    ASSUME IInv, NEW p \in Buffer, Malloc(p)
    PROVE  IInv' /\ bufferSize' = bufferSize
<1> USE DEF IInv
<1>1. p \notin held /\ p \notin InPool /\ free' = free /\ InPool' = InPool
    BY DEF Malloc, Allocated, InPool
<1>2. TypeOK'
    BY DEF Malloc, TypeOK
<1>3. BuffersFit'
    BY <1>1 DEF Malloc, BuffersFit, Allocated, TypeOK
<1>4. NoBufferShared'
    BY <1>1 DEF Malloc, NoBufferShared, InPool
<1>5. Cardinality(held') = Cardinality(held) + 1
    BY <1>1, HeldFinite, FS_AddElement DEF Malloc, TypeOK
<1>6. AllBuffersCounted'
    BY <1>1, <1>5, HeldFinite DEF Malloc, AllBuffersCounted, TypeOK
<1> QED BY <1>2, <1>3, <1>4, <1>6 DEF Malloc

(* Reuse: the buffer on top of the stack changes hands.                      *)
LEMMA ReuseIInv ==
    ASSUME IInv, Reuse
    PROVE  IInv' /\ bufferSize' = bufferSize
<1> USE DEF IInv
<1> DEFINE m == Len(free)
           p == free[m]
<1>1. m \in Nat /\ m >= 1 /\ p \in Buffer /\ free \in Seq(Buffer)
    BY EmptySeq DEF Reuse, TypeOK
<1>2. /\ free' \in Seq(Buffer) /\ Len(free') = m - 1
      /\ \A i \in 1 .. m - 1 : free'[i] = free[i]
    <2>1. free' = SubSeq(free, 1, m - 1) /\ \A i \in 1 .. m - 1 : free[i] \in Buffer
        BY <1>1 DEF Reuse
    <2>2. 1 \in Int /\ m - 1 \in Int
        BY <1>1
    <2> HIDE DEF m
    <2>3. /\ SubSeq(free, 1, m - 1) \in Seq(Buffer)
          /\ Len(SubSeq(free, 1, m - 1)) = IF 1 <= m - 1 THEN m - 1 - 1 + 1 ELSE 0
          /\ \A i \in 1 .. m - 1 - 1 + 1 : SubSeq(free, 1, m - 1)[i] = free[1 + i - 1]
        BY <2>1, <2>2, SubSeqProperties
    <2> QED BY <1>1, <2>1, <2>3
<1>3. p \in InPool /\ p \notin held
    BY <1>1 DEF InPool, NoBufferShared
<1>4. InPool' = InPool \ {p}
    BY <1>1, <1>2 DEF InPool, NoBufferShared
<1>5. TypeOK'
    BY <1>1, <1>2 DEF Reuse, TypeOK
<1>6. Allocated' = Allocated
    BY <1>3, <1>4 DEF Allocated, Reuse
<1>7. BuffersFit'
    BY <1>6 DEF BuffersFit, Reuse
<1>8. NoBufferShared'
    <2>1. InPool' \cap held' = {}
        BY <1>4 DEF Reuse, NoBufferShared
    <2>2. \A i, j \in 1 .. Len(free') : free'[i] = free'[j] => i = j
        BY <1>1, <1>2 DEF NoBufferShared
    <2> QED BY <2>1, <2>2 DEF NoBufferShared
<1>9. Cardinality(held') = Cardinality(held) + 1
    BY <1>3, HeldFinite, FS_AddElement DEF Reuse, TypeOK
<1>10. AllBuffersCounted'
    BY <1>1, <1>2, <1>9, HeldFinite DEF Reuse, AllBuffersCounted, TypeOK
<1> QED BY <1>5, <1>7, <1>8, <1>10 DEF Reuse

(* Release: the buffer goes back on top of the stack.                        *)
LEMMA ReleaseIInv ==
    ASSUME IInv, NEW p \in Buffer, Release(p)
    PROVE  IInv' /\ bufferSize' = bufferSize
<1> USE DEF IInv
<1> DEFINE m == Len(free)
<1>1. m \in Nat /\ free \in Seq(Buffer)
    BY DEF TypeOK
<1>2. /\ free' \in Seq(Buffer) /\ Len(free') = m + 1 /\ free'[m + 1] = p
      /\ \A i \in 1 .. m : free'[i] = free[i]
    BY <1>1 DEF Release
<1>3. p \in held /\ p \notin InPool
    BY DEF Release, NoBufferShared
<1>4. InPool' = InPool \cup {p}
    BY <1>1, <1>2 DEF InPool
<1>5. TypeOK'
    BY <1>2 DEF Release, TypeOK
<1>6. Allocated' = Allocated
    BY <1>3, <1>4 DEF Allocated, Release
<1>7. BuffersFit'
    BY <1>6 DEF BuffersFit, Release
<1>8. NoBufferShared'
    <2>1. InPool' \cap held' = {}
        BY <1>4 DEF Release, NoBufferShared
    <2>2. \A i \in 1 .. m : free[i] # p
        BY <1>3 DEF InPool
    <2>3. \A i, j \in 1 .. Len(free') : free'[i] = free'[j] => i = j
        BY <1>1, <1>2, <2>2 DEF NoBufferShared
    <2> QED BY <2>1, <2>3 DEF NoBufferShared
<1>9. Cardinality(held') = Cardinality(held) - 1
    BY <1>3, HeldFinite, FS_RemoveElement DEF Release, TypeOK
<1>10. AllBuffersCounted'
    BY <1>1, <1>2, <1>9, HeldFinite DEF Release, AllBuffersCounted, TypeOK
<1> QED BY <1>5, <1>7, <1>8, <1>10 DEF Release

(* The step: one case per operation.                                         *)
LEMMA NextIInv ==
    ASSUME IInv, [Next]_vars
    PROVE  IInv' /\ (held # {} => bufferSize' = bufferSize)
<1>1. CASE \E n \in Sizes : SetBufferSize(n)
    BY <1>1, SetBufferSizeIInv
<1>2. CASE Alloc
    BY <1>2, ReuseIInv, MallocIInv DEF Alloc
<1>3. CASE \E p \in Buffer : Release(p)
    BY <1>3, ReleaseIInv
<1>4. CASE UNCHANGED vars
    BY <1>4 DEF vars, IInv, TypeOK, BuffersFit, NoBufferShared, AllBuffersCounted, Allocated, InPool
<1> QED BY <1>1, <1>2, <1>3, <1>4 DEF Next

(* The pool's fields keep their types, allocations_ never wraps below zero.  *)
THEOREM PoolTypeCorrect == Spec => []TypeOK
<1>1. IInv => TypeOK
    BY DEF IInv
<1> QED BY InitIInv, NextIInv, <1>1, PTL DEF Spec

(* "All buffers are the same size": what buffer_pool.h says of the pool holds *)
(* for every sequence of operations of any number of threads.                *)
THEOREM AllBuffersFit == Spec => []BuffersFit
<1>1. IInv => BuffersFit
    BY DEF IInv
<1> QED BY InitIInv, NextIInv, <1>1, PTL DEF Spec

(* A buffer has one owner: Alloc hands out none that is free twice or held.  *)
THEOREM BuffersAccountedFor == Spec => []NoBufferShared
<1>1. IInv => NoBufferShared
    BY DEF IInv
<1> QED BY InitIInv, NextIInv, <1>1, PTL DEF Spec

(* SetBufferSize's test of allocations_ against the free buffers is exact: it *)
(* refuses if and only if some thread holds a buffer.                        *)
THEOREM AllocationsExact == Spec => []AllBuffersCounted
<1>1. IInv => AllBuffersCounted
    BY DEF IInv
<1> QED BY InitIInv, NextIInv, <1>1, PTL DEF Spec

(* bufferSize does not change while a thread holds a buffer, so the threads   *)
(* that read it without the mutex read the size of the buffer they hold.     *)
THEOREM SizeIsStable == Spec => SizeKeptWhileHeld
<1>1. IInv /\ [Next]_vars => [held # {} => bufferSize' = bufferSize]_vars
    BY NextIInv
<1> QED BY InitIInv, NextIInv, <1>1, PTL DEF Spec, SizeKeptWhileHeld
=============================================================================
