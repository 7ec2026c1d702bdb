----------------------------- MODULE BufferPool -----------------------------
(***************************************************************************)
(* The process-wide pool of buffers (src/src/buffer_pool.cpp), shared by   *)
(* the event loop's thread and the worker threads.  Every operation holds  *)
(* the pool's mutex, so each is one step.  bufferSize is read without it,  *)
(* by threads that hold a buffer and must not be told a size larger than   *)
(* the buffer they hold.                                                   *)
(***************************************************************************)
EXTENDS Integers, FiniteSets, Sequences

CONSTANTS
    Buffer,         \* the addresses malloc returns
    MIN_SIZE,       \* 16384
    Sizes           \* the sizes SetBufferSize is called with

ASSUME BufferAssumption == IsFiniteSet(Buffer)
ASSUME SizeAssumption == MIN_SIZE \in Nat /\ Sizes \subseteq Nat

VARIABLES
    bufferSize,     \* the size of a buffer, by what the pool says
    allocations,    \* allocations_
    free,           \* free_, the last element on top
    held,           \* buffers handed out by Alloc and not yet released
    size            \* size of each allocated buffer, as malloc was asked for it

vars == <<bufferSize, allocations, free, held, size>>

InPool == {free[i] : i \in 1 .. Len(free)}
Allocated == InPool \cup held

Init ==
    /\ bufferSize = MIN_SIZE /\ allocations = 0
    /\ free = <<>> /\ held = {}
    /\ size = [p \in Buffer |-> 0]

(* Clear gives what is in the pool back to the allocator.                    *)
FreeMemory == size' = [p \in Buffer |-> IF p \in held THEN size[p] ELSE 0]

(* Mutants of SetBufferSize: it does not look whether buffers are in use; it *)
(* resizes without freeing what is in the pool; Clear forgets to count.      *)
ResizeInUse(n) ==
    /\ free' = <<>>
    /\ allocations' = allocations - Len(free)
    /\ bufferSize' = IF n < MIN_SIZE THEN MIN_SIZE ELSE n
    /\ FreeMemory /\ UNCHANGED held

ResizeOnly(n) ==
    /\ bufferSize' = IF allocations # Len(free) THEN bufferSize
                     ELSE IF n < MIN_SIZE THEN MIN_SIZE ELSE n
    /\ UNCHANGED <<free, allocations, held, size>>

ClearUncounted(n) ==
    /\ free' = <<>>
    /\ bufferSize' = IF allocations # 0 THEN bufferSize
                     ELSE IF n < MIN_SIZE THEN MIN_SIZE ELSE n
    /\ FreeMemory /\ UNCHANGED <<allocations, held>>

(* SetBufferSize frees what is in the pool, whether or not it then succeeds. *)
SetBufferSize(n) ==
    /\ free' = <<>>
    /\ allocations' = allocations - Len(free)
    /\ bufferSize' = IF allocations' # 0 THEN bufferSize
                     ELSE IF n < MIN_SIZE THEN MIN_SIZE ELSE n
    /\ FreeMemory /\ UNCHANGED held

(* Mutant of Malloc: the allocation is not counted.                         *)
MallocUncounted(p) ==
    /\ free = <<>> /\ p \in Buffer \ Allocated
    /\ held' = held \cup {p}
    /\ size' = [size EXCEPT ![p] = bufferSize]
    /\ UNCHANGED <<bufferSize, allocations, free>>

Malloc(p) ==
    /\ free = <<>> /\ p \in Buffer \ Allocated
    /\ allocations' = allocations + 1
    /\ held' = held \cup {p}
    /\ size' = [size EXCEPT ![p] = bufferSize]
    /\ UNCHANGED <<bufferSize, free>>

(* Mutant of Reuse: no pop_back.                                            *)
ReuseWithoutPop ==
    /\ free # <<>>
    /\ held' = held \cup {free[Len(free)]}
    /\ UNCHANGED <<bufferSize, allocations, free, size>>

Reuse ==
    /\ free # <<>>
    /\ held' = held \cup {free[Len(free)]}
    /\ free' = SubSeq(free, 1, Len(free) - 1)
    /\ UNCHANGED <<bufferSize, allocations, size>>

Alloc == Reuse \/ \E p \in Buffer : Malloc(p)

(* The holder of a buffer gives it back, once.                             *)
Release(p) ==
    /\ p \in held
    /\ free' = Append(free, p)
    /\ held' = held \ {p}
    /\ UNCHANGED <<bufferSize, allocations, size>>

Next ==
    \/ \E n \in Sizes : SetBufferSize(n)
    \/ Alloc
    \/ \E p \in Buffer : Release(p)

Spec == Init /\ [][Next]_vars

-----------------------------------------------------------------------------
(* The pool's fields have their types; in particular allocations_, which is  *)
(* unsigned, is never decremented below zero.                                *)
TypeOK ==
    /\ bufferSize \in Nat /\ allocations \in Nat
    /\ free \in Seq(Buffer) /\ held \subseteq Buffer
    /\ size \in [Buffer -> Nat]

(* "All buffers are the same size": every buffer, in the pool or in some      *)
(* thread's hands, is as large as bufferSize says at any moment.              *)
BuffersFit == \A p \in Allocated : size[p] = bufferSize

(* No buffer is given to two owners or is both free and in use.               *)
NoBufferShared ==
    /\ InPool \cap held = {}
    /\ \A i, j \in 1 .. Len(free) : free[i] = free[j] => i = j

(* allocations_ counts the buffers there are, so that SetBufferSize succeeds  *)
(* exactly when no thread holds one.                                          *)
AllBuffersCounted == allocations = Len(free) + Cardinality(held)

(* The size never changes under a thread that holds a buffer.                 *)
SizeKeptWhileHeld == [][held # {} => bufferSize' = bufferSize]_vars
=============================================================================
