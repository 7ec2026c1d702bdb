--------------------------- MODULE UVHelperProofs ---------------------------
(***************************************************************************)
(* The thread pool, the loop and UVHelper for any number of threads and of *)
(* requests: types, NoLostWakeup, CallsMatch, QuietAtReturn, and the steps *)
(* of Requests that their steps are.                                       *)
(***************************************************************************)
EXTENDS UVHelper, FiniteSetTheorems, SequenceTheorems, TLAPS

Busy == {t \in Thread : worker[t].req # none}
Idle == {t \in Thread : worker[t].pc \in {"wait", "woken"}}
Once(q) == \A i, j \in 1 .. Len(q) : q[i] = q[j] => i = j

(* The requests that have not been executed, those of them whose closure has *)
(* not been moved out, and those executed and not yet called back.           *)
Unrun == {r \in Req : \/ r \in Elements(wq) \/ r = submitting
                      \/ \E t \in Thread : worker[t].pc = "work" /\ worker[t].req = r}
Unthawed == {r \in Req : \/ r \in Elements(wq) \/ r = submitting
                         \/ \E t \in Thread : /\ worker[t].pc = "work" /\ worker[t].req = r
                                              /\ fn[t] = none}
Ran == {r \in Req : \/ r \in Elements(loopWq) \/ r \in Elements(doneWq)
                    \/ \E t \in Thread : worker[t].pc = "insert" /\ worker[t].req = r}

Closure == (Req \cup {none}) \X Nat

(* The types, of the history variables too.                                  *)
Types ==
    /\ UTypeOK
    /\ \A k \in DOMAIN workFuncs : workFuncs[k] \in [work : Closure, after : Closure]
    /\ submitting \in Req \cup {none} /\ fn \in [Thread -> Closure \cup {none}]
    /\ uses \in [Req -> Nat] /\ calls \in [Req -> Seq(Closure \X {"fs", "work", "after"})]
    /\ inside \in Req \cup {none}

(* Which fields mean something where a thread is.                            *)
Threads ==
    /\ \A t \in Thread : (worker[t].req # none) = (worker[t].pc \in {"work", "insert"})
    /\ \A t \in Thread : fn[t] # none =>
           worker[t].pc = "work" /\ worker[t].req \notin FsReq
           /\ fn[t] = <<worker[t].req, uses[worker[t].req]>>
    /\ (inside # none) = (loop = "callback")
    /\ submitting # none => loop \in {"out", "callback"}
    /\ doneWq # <<>> => loop \in {"done", "callback"}

(* The counters count.                                                       *)
Counts ==
    /\ idleThreads = Cardinality(Idle)
    /\ activeReqs = Len(wq) + Cardinality(Busy) + Len(loopWq) + Len(doneWq)

(* The protocol of uv_async_send and uv__async_spin: from the moment pending *)
(* leaves 0 until the loop sets it back, exactly one of the worker about to  *)
(* write, the readable eventfd and the spinning loop carries the message.    *)
Handshake ==
    /\ \A s, t \in Thread :
          worker[s].pc \in {"write", "sent"} /\ worker[t].pc \in {"write", "sent"} => s = t
    /\ \A t \in Thread : worker[t].pc \in {"write", "sent"} => pending = 1
    /\ \A t \in Thread : worker[t].pc = "write" => ~eventfd /\ loop # "spin"
    /\ pending = 1 => WqLocked
    /\ (\E t \in Thread : worker[t].pc = "sent") \/ pending = 2 => eventfd \/ loop = "spin"
    /\ eventfd \/ loop = "spin" => pending # 0
    /\ loop = "spin" => ~eventfd
    /\ loopWq # <<>> /\ pending = 0 => loop = "take"

(* A request is in one place.                                                *)
OnePlace ==
    /\ Once(wq) /\ Once(loopWq) /\ Once(doneWq)
    /\ \A r \in Elements(wq) : r \notin Elements(loopWq) /\ r \notin Elements(doneWq)
    /\ \A r \in Elements(loopWq) : r \notin Elements(doneWq)
    /\ \A s, t \in Busy : worker[s].req = worker[t].req => s = t
    /\ \A t \in Busy : /\ worker[t].req \notin Elements(wq) /\ worker[t].req # submitting
                       /\ worker[t].req \notin Elements(loopWq)
                       /\ worker[t].req \notin Elements(doneWq)
    /\ /\ submitting \notin Elements(wq) /\ submitting \notin Elements(loopWq)
       /\ submitting \notin Elements(doneWq)

(* The closure of a request in flight is under its ticket, nothing else is   *)
(* in the tables, and the calls made so far are those of its finished uses   *)
(* and of what has been done of this one.                                    *)
FsTable ==
    /\ \A k \in DOMAIN fsFuncs : \E r \in FsReq : r \in Unrun \cup Ran /\ data[r] = k
    /\ \A r \in FsReq :
          IF r \in Unrun \cup Ran
          THEN /\ data[r] \in DOMAIN fsFuncs /\ fsFuncs[data[r]] = <<r, uses[r]>>
               /\ Len(calls[r]) = uses[r] - 1
          ELSE Len(calls[r]) = uses[r]

WorkTable ==
    /\ \A k \in DOMAIN workFuncs : \E r \in Req \ FsReq : r \in Unrun \cup Ran /\ data[r] = k
    /\ \A r \in Req \ FsReq :
          /\ r \in Unrun \cup Ran =>
                data[r] \in DOMAIN workFuncs /\ workFuncs[data[r]].after = <<r, uses[r]>>
          /\ r \in Unthawed => workFuncs[data[r]].work = <<r, uses[r]>>
          /\ Len(calls[r]) = 2 * uses[r] - (IF r \in Unrun THEN 2 ELSE IF r \in Ran THEN 1 ELSE 0)

IInv ==
    /\ Types /\ Threads /\ Counts /\ Handshake /\ OnePlace
    /\ FsTable /\ WorkTable /\ CallsMatch

-----------------------------------------------------------------------------
(* Queues *)

(* Append to a queue that does not hold the element yet.                     *)
LEMMA AppendFacts ==
    ASSUME NEW S, NEW q \in Seq(S), NEW x \in S
    PROVE  /\ Append(q, x) \in Seq(S) /\ Append(q, x) # <<>>
           /\ Len(Append(q, x)) = Len(q) + 1
           /\ Elements(Append(q, x)) = Elements(q) \cup {x}
           /\ Once(q) /\ x \notin Elements(q) => Once(Append(q, x))
<1> DEFINE a == Append(q, x)
<1>1. /\ a \in Seq(S) /\ a # <<>> /\ Len(a) = Len(q) + 1 /\ Len(q) \in Nat
      /\ \A i \in 1 .. Len(q) : a[i] = q[i]
      /\ a[Len(q) + 1] = x /\ DOMAIN q = 1 .. Len(q) /\ DOMAIN a = 1 .. Len(q) + 1
    BY AppendProperties, LenProperties
<1> HIDE DEF a
<1>2. Elements(a) \subseteq Elements(q) \cup {x}
    BY <1>1 DEF Elements
<1>3. Elements(q) \cup {x} \subseteq Elements(a)
    <2>1. x \in Elements(a)
        BY <1>1 DEF Elements
    <2>2. \A i \in 1 .. Len(q) : q[i] \in Elements(a)
        BY <1>1 DEF Elements
    <2> QED BY <1>1, <2>1, <2>2 DEF Elements
<1>4. ASSUME Once(q), x \notin Elements(q) PROVE Once(a)
    BY <1>1, <1>4 DEF Elements, Once
<1> QED BY <1>1, <1>2, <1>3, <1>4 DEF a

(* The head of a queue leaves it.                                            *)
LEMMA TailFacts ==
    ASSUME NEW S, NEW q \in Seq(S), q # <<>>, Once(q)
    PROVE  /\ Head(q) \in S /\ Head(q) = q[1] /\ Head(q) \in Elements(q)
           /\ Tail(q) \in Seq(S) /\ Len(Tail(q)) = Len(q) - 1 /\ Len(q) > 0
           /\ Elements(Tail(q)) = Elements(q) \ {Head(q)}
           /\ Once(Tail(q))
<1> DEFINE b == Tail(q)
           n == Len(q)
<1>1. /\ n \in Nat /\ n > 0 /\ b \in Seq(S) /\ Len(b) = n - 1 /\ Head(q) = q[1]
      /\ Head(q) \in S /\ DOMAIN q = 1 .. n /\ DOMAIN b = 1 .. n - 1
      /\ \A i \in 1 .. n - 1 : b[i] = q[i + 1]
    BY HeadTailProperties, EmptySeq, LenProperties
<1> HIDE DEF b, n
<1>2. Once(b)
    BY <1>1 DEF Once, n
<1>3. Elements(b) \subseteq Elements(q) \ {Head(q)}
    BY <1>1 DEF Elements, Once, n
<1>4. Elements(q) \ {Head(q)} \subseteq Elements(b)
    <2> SUFFICES ASSUME NEW i \in 1 .. n, i # 1 PROVE q[i] \in Elements(b)
        BY <1>1 DEF Elements
    <2>1. i - 1 \in 1 .. n - 1 /\ b[i - 1] = q[i]
        BY <1>1
    <2> QED BY <1>1, <2>1 DEF Elements
<1>5. Head(q) \in Elements(q)
    BY <1>1 DEF Elements
<1> QED BY <1>1, <1>2, <1>3, <1>4, <1>5 DEF b, n

(* The empty queue, and what the elements of a queue are.                    *)
LEMMA QueueFacts ==
    ASSUME NEW S
    PROVE  /\ <<>> \in Seq(S) /\ Len(<<>>) = 0 /\ Elements(<<>>) = {} /\ Once(<<>>)
           /\ \A q \in Seq(S) : Elements(q) \subseteq S /\ Len(q) \in Nat
           /\ \A q \in Seq(S) : Len(q) = 0 => q = <<>>
BY EmptySeq, LenProperties, ElementOfSeq DEF Elements, Once

(* Sets of threads are finite.                                               *)
LEMMA ThreadSets ==
    ASSUME NEW A \in SUBSET Thread
    PROVE  /\ IsFiniteSet(A) /\ Cardinality(A) \in Nat
           /\ Cardinality(A) = 0 <=> A = {}
           /\ \A t \in A : Cardinality(A \ {t}) = Cardinality(A) - 1
           /\ \A t \in Thread \ A : Cardinality(A \cup {t}) = Cardinality(A) + 1
<1>1. IsFiniteSet(A)
    BY PoolAssumption, FS_Subset
<1> QED BY <1>1, FS_CardinalityType, FS_EmptySet, FS_AddElement, FS_RemoveElement

-----------------------------------------------------------------------------
(* Frames *)

Pc == {"lock", "wait", "woken", "work", "insert", "write", "sent"}

(* A step of one thread: only its fields change.                             *)
LEMMA SetPcFacts ==
    ASSUME Types, NEW t \in Thread, NEW pc \in Pc, SetPc(t, pc)
    PROVE  /\ worker' \in [Thread -> [pc : Pc, req : Req \cup {none}]]
           /\ worker'[t].pc = pc /\ worker'[t].req = worker[t].req
           /\ \A s \in Thread \ {t} : worker'[s] = worker[s]
BY DEF Types, UTypeOK, PoolTypeOK, SetPc, Pc

LEMMA SetWorkerFacts ==
    ASSUME Types, NEW t \in Thread, NEW pc \in Pc, NEW r \in Req \cup {none},
           worker' = [worker EXCEPT ![t] = [pc |-> pc, req |-> r]]
    PROVE  /\ worker' \in [Thread -> [pc : Pc, req : Req \cup {none}]]
           /\ worker'[t].pc = pc /\ worker'[t].req = r
           /\ \A s \in Thread \ {t} : worker'[s] = worker[s]
BY DEF Types, UTypeOK, PoolTypeOK, Pc

(* The helper's part of the invariant, if the helper is not concerned.       *)
LEMMA HelperKept ==
    ASSUME IInv, UNCHANGED <<helperVars, uses, calls, inside>>,
           Unrun' = Unrun, Ran' = Ran, Unthawed' = Unthawed
    PROVE  FsTable' /\ WorkTable' /\ CallsMatch'
BY DEF IInv, helperVars, FsTable, WorkTable, CallsMatch

LEMMA TypesKept ==
    ASSUME IInv, UNCHANGED <<helperVars, uses, calls, inside>>, PoolTypeOK'
    PROVE  Types'
BY DEF IInv, Types, UTypeOK, helperVars

LEMMA Lengths ==
    ASSUME Types
    PROVE  /\ Len(wq) \in Nat /\ Len(loopWq) \in Nat /\ Len(doneWq) \in Nat
           /\ activeReqs \in Nat /\ idleThreads \in Nat
BY QueueFacts DEF Types, UTypeOK, PoolTypeOK

(* The counters, if no thread starts or stops being idle or busy.            *)
LEMMA SameSets ==
    ASSUME \A t \in Thread : (worker'[t].req # none) = (worker[t].req # none),
           \A t \in Thread : (worker'[t].pc \in {"wait", "woken"})
                                = (worker[t].pc \in {"wait", "woken"})
    PROVE  Busy' = Busy /\ Idle' = Idle
BY DEF Busy, Idle

(* The places, if no request moves.                                          *)
LEMMA NothingMoves ==
    ASSUME IInv, UNCHANGED <<wq, loopWq, doneWq, submitting, fn>>,
           \A t \in Thread : worker'[t].req = worker[t].req,
           \A t \in Thread : /\ (worker'[t].pc = "work") = (worker[t].pc = "work")
                             /\ (worker'[t].pc = "insert") = (worker[t].pc = "insert")
    PROVE  /\ Unrun' = Unrun /\ Ran' = Ran /\ Unthawed' = Unthawed
           /\ Busy' = Busy /\ OnePlace'
<1>1. Unrun' = Unrun /\ Ran' = Ran /\ Unthawed' = Unthawed
    BY DEF Unrun, Ran, Unthawed
<1>2. Busy' = Busy
    BY DEF Busy
<1> QED BY <1>1, <1>2 DEF IInv, OnePlace, Busy

(* Nothing is in flight at first.                                            *)
LEMMA InitIInv == Init => IInv
<1> SUFFICES ASSUME Init PROVE IInv
    OBVIOUS
<1> USE DEF Init, PoolInit
<1>1. DOMAIN fsFuncs = {} /\ DOMAIN workFuncs = {} /\ \A r \in Req : Len(calls[r]) = 0
    OBVIOUS
<1>2. \A r \in Req : calls[r] = <<>> /\ DOMAIN calls[r] = {} /\ uses[r] = 0
    OBVIOUS
<1>3. Types
    <2>1. calls \in [Req -> Seq(Closure \X {"fs", "work", "after"})]
        BY EmptySeq
    <2>2. PoolTypeOK
        <3>1. worker \in [Thread -> [pc : Pc, req : Req \cup {none}]]
            BY DEF Pc
        <3>2. wq \in Seq(Req) /\ loopWq \in Seq(Req) /\ doneWq \in Seq(Req)
            BY EmptySeq
        <3>3. idleThreads \in Nat /\ activeReqs \in Nat /\ pending \in 0 .. 2
            OBVIOUS
        <3>4. eventfd \in BOOLEAN /\ loop \in {"out", "poll", "spin", "take", "done", "callback"}
            BY Zenon
        <3> QED BY <3>1, <3>2, <3>3, <3>4, Zenon DEF PoolTypeOK, Pc
    <2> QED BY <1>1, <2>1, <2>2, ReqAssumption DEF Types, UTypeOK
<1>4. Unrun = {} /\ Ran = {} /\ Unthawed = {} /\ Busy = {} /\ Idle = {}
    BY PoolAssumption DEF Unrun, Ran, Unthawed, Busy, Idle, Elements
<1>5. Threads /\ Handshake
    BY DEF Threads, Handshake
<1>6. Counts
    BY <1>4, FS_EmptySet DEF Counts
<1>7. OnePlace
    BY <1>4, QueueFacts DEF OnePlace
<1>8. FsTable /\ WorkTable /\ CallsMatch
    BY <1>1, <1>2, <1>4, ReqAssumption DEF FsTable, WorkTable, CallsMatch
<1> QED BY <1>3, <1>5, <1>6, <1>7, <1>8 DEF IInv

-----------------------------------------------------------------------------
(* The workers *)

(* A thread waits, or is woken without a signal: it has no request.          *)
LEMMA WorkerWaitsIInv ==
    ASSUME IInv, NEW t \in Thread, WorkerWaits(t), UNCHANGED <<helperVars, uses, calls, inside>>
    PROVE  IInv' /\ Unrun' = Unrun /\ Ran' = Ran
<1> USE DEF IInv
<1>1. /\ worker' \in [Thread -> [pc : Pc, req : Req \cup {none}]]
      /\ worker'[t].pc = "wait" /\ worker'[t].req = worker[t].req
      /\ worker[t].pc \in {"lock", "woken"} /\ worker[t].req = none
      /\ \A s \in Thread \ {t} : worker'[s] = worker[s]
    <2>1. "wait" \in Pc
        BY DEF Pc
    <2> QED BY <2>1, SetPcFacts DEF WorkerWaits, Threads
<1>2. UNCHANGED <<wq, loopWq, pending, eventfd, loop, doneWq, activeReqs>>
    BY DEF WorkerWaits
<1>3. Busy' = Busy
    BY <1>1 DEF Busy
<1>4. idleThreads' = Cardinality(Idle') /\ idleThreads' \in Nat
    <2>1. CASE worker[t].pc = "woken"
        <3>1. Idle' = Idle
            BY <1>1, <2>1 DEF Idle
        <3> QED BY <2>1, <3>1, ThreadSets DEF WorkerWaits, Counts, Types, UTypeOK, PoolTypeOK
    <2>2. CASE worker[t].pc = "lock"
        <3>1. Idle' = Idle \cup {t} /\ t \in Thread \ Idle /\ Idle \in SUBSET Thread
            BY <1>1, <2>2 DEF Idle
        <3>2. Cardinality(Idle') = Cardinality(Idle) + 1
            BY <3>1, ThreadSets
        <3> QED BY <2>2, <3>2 DEF WorkerWaits, Counts, Types, UTypeOK, PoolTypeOK
    <2> QED BY <1>1, <2>1, <2>2
<1>5. Unrun' = Unrun /\ Ran' = Ran /\ Unthawed' = Unthawed
    BY <1>1, <1>2 DEF Unrun, Ran, Unthawed, helperVars
<1>6. Types'
    BY <1>1, <1>2, <1>4, TypesKept DEF PoolTypeOK, Pc, Types, UTypeOK
<1>7. Threads'
    BY <1>1, <1>2 DEF Threads, helperVars
<1>8. Counts'
    BY <1>2, <1>3, <1>4 DEF Counts
<1>9. Handshake'
    BY <1>1, <1>2 DEF Handshake, WqLocked
<1>10. OnePlace'
    BY <1>1, <1>2, <1>3 DEF OnePlace, helperVars, Busy
<1> QED BY <1>5, <1>6, <1>7, <1>8, <1>9, <1>10, HelperKept

LEMMA SpuriousWakeupIInv ==
    ASSUME IInv, NEW t \in Thread, SpuriousWakeup(t), UNCHANGED <<helperVars, uses, calls, inside>>
    PROVE  IInv' /\ Unrun' = Unrun /\ Ran' = Ran
<1> USE DEF IInv
<1>1. /\ worker' \in [Thread -> [pc : Pc, req : Req \cup {none}]]
      /\ worker'[t].pc = "woken" /\ worker'[t].req = worker[t].req /\ worker[t].pc = "wait"
      /\ \A s \in Thread \ {t} : worker'[s] = worker[s]
    <2>1. "woken" \in Pc
        BY DEF Pc
    <2> QED BY <2>1, SetPcFacts DEF SpuriousWakeup
<1>2. UNCHANGED <<wq, idleThreads, loopWq, pending, eventfd, loop, doneWq, activeReqs>>
    BY DEF SpuriousWakeup
<1>3. Busy' = Busy /\ Idle' = Idle
    BY <1>1, SameSets
<1>4. Unrun' = Unrun /\ Ran' = Ran /\ Unthawed' = Unthawed /\ OnePlace'
    BY <1>1, <1>2, NothingMoves DEF helperVars
<1>5. Types'
    BY <1>1, <1>2, TypesKept DEF PoolTypeOK, Pc, Types, UTypeOK
<1>6. Threads'
    BY <1>1, <1>2 DEF Threads, helperVars
<1>7. Counts'
    BY <1>2, <1>3 DEF Counts
<1>8. Handshake'
    BY <1>1, <1>2 DEF Handshake, WqLocked
<1> QED BY <1>4, <1>5, <1>6, <1>7, <1>8, HelperKept

(* A thread takes the first request of the queue, and is idle no more.       *)
LEMMA WorkerTakesIInv ==
    ASSUME IInv, NEW t \in Thread, WorkerTakes(t), UNCHANGED <<helperVars, uses, calls, inside>>
    PROVE  IInv' /\ Unrun' = Unrun /\ Ran' = Ran
<1> USE DEF IInv
<1> DEFINE r == Head(wq)
<1>1. /\ r \in Req /\ r \in Elements(wq) /\ Once(wq') /\ wq' \in Seq(Req)
      /\ Len(wq') = Len(wq) - 1 /\ Elements(wq') = Elements(wq) \ {r}
    BY TailFacts DEF WorkerTakes, OnePlace, Types, UTypeOK, PoolTypeOK
<1>2. /\ worker' \in [Thread -> [pc : Pc, req : Req \cup {none}]]
      /\ worker'[t].pc = "work" /\ worker'[t].req = r
      /\ worker[t].pc \in {"lock", "woken"} /\ worker[t].req = none /\ fn[t] = none
      /\ \A s \in Thread \ {t} : worker'[s] = worker[s]
    <2>1. "work" \in Pc
        BY DEF Pc
    <2>2. worker' = [worker EXCEPT ![t] = [pc |-> "work", req |-> r]]
        BY DEF WorkerTakes
    <2>3. worker[t].pc \in {"lock", "woken"} /\ worker[t].req = none /\ fn[t] = none
        BY DEF WorkerTakes, Threads
    <2> HIDE DEF r
    <2> QED BY <1>1, <2>1, <2>2, <2>3, SetWorkerFacts
<1>3. UNCHANGED <<loopWq, pending, eventfd, loop, doneWq, activeReqs>>
    BY DEF WorkerTakes
<1> HIDE DEF r
<1>4. r # none
    BY <1>1, PoolAssumption
<1>5. /\ Busy' = Busy \cup {t} /\ t \in Thread \ Busy /\ Busy \in SUBSET Thread
      /\ Cardinality(Busy') = Cardinality(Busy) + 1 /\ Cardinality(Busy) \in Nat
    <2>1. Busy' = Busy \cup {t} /\ t \in Thread \ Busy /\ Busy \in SUBSET Thread
        BY <1>2, <1>4 DEF Busy
    <2> QED BY <2>1, ThreadSets
<1>6. idleThreads' = Cardinality(Idle') /\ idleThreads' \in Nat
    <2>1. CASE worker[t].pc = "woken"
        <3>1. Idle' = Idle \ {t} /\ t \in Idle /\ Idle' \in SUBSET Thread /\ Idle \in SUBSET Thread
            BY <1>2, <2>1 DEF Idle
        <3>2. Cardinality(Idle') = Cardinality(Idle) - 1 /\ Cardinality(Idle') \in Nat
            BY <3>1, ThreadSets
        <3> QED BY <2>1, <3>2 DEF WorkerTakes, Counts
    <2>2. CASE worker[t].pc = "lock"
        <3>1. Idle' = Idle
            BY <1>2, <2>2 DEF Idle
        <3> QED BY <2>2, <3>1 DEF WorkerTakes, Counts, Types, UTypeOK, PoolTypeOK
    <2> QED BY <1>2, <2>1, <2>2
<1>7. Unrun' = Unrun /\ Ran' = Ran /\ Unthawed' = Unthawed
    BY <1>1, <1>2, <1>3, <1>4 DEF Unrun, Ran, Unthawed, helperVars
<1>8. Types'
    BY <1>1, <1>2, <1>3, <1>6, TypesKept DEF PoolTypeOK, Pc, Types, UTypeOK
<1>9. Threads'
    BY <1>2, <1>3, <1>4 DEF Threads, helperVars
<1>10. Counts'
    BY <1>1, <1>3, <1>5, <1>6, Lengths DEF Counts
<1>11. Handshake'
    BY <1>2, <1>3 DEF Handshake, WqLocked
<1>12. OnePlace'
    <2>1. /\ r \notin Elements(wq') /\ r \notin Elements(loopWq) /\ r \notin Elements(doneWq)
          /\ r # submitting /\ \A s \in Busy : worker[s].req # r
        BY <1>1 DEF OnePlace
    <2> QED BY <1>1, <1>2, <1>3, <1>5, <2>1 DEF OnePlace, helperVars
<1> QED BY <1>7, <1>8, <1>9, <1>10, <1>11, <1>12, HelperKept

(* The message is written: it is now the eventfd that carries it.            *)
LEMMA WriteEventfdIInv ==
    ASSUME IInv, NEW t \in Thread, WriteEventfd(t), UNCHANGED <<helperVars, uses, calls, inside>>
    PROVE  IInv' /\ Unrun' = Unrun /\ Ran' = Ran
<1> USE DEF IInv
<1>1. /\ worker' \in [Thread -> [pc : Pc, req : Req \cup {none}]]
      /\ worker'[t].pc = "sent" /\ worker'[t].req = worker[t].req /\ worker[t].pc = "write"
      /\ \A s \in Thread \ {t} : worker'[s] = worker[s]
    <2>1. "sent" \in Pc
        BY DEF Pc
    <2> QED BY <2>1, SetPcFacts DEF WriteEventfd
<1>2. UNCHANGED <<wq, idleThreads, loopWq, pending, loop, doneWq, activeReqs>> /\ eventfd' = TRUE
    BY DEF WriteEventfd
<1>3. Busy' = Busy /\ Idle' = Idle
    BY <1>1, SameSets
<1>4. Unrun' = Unrun /\ Ran' = Ran /\ Unthawed' = Unthawed /\ OnePlace'
    BY <1>1, <1>2, NothingMoves DEF helperVars
<1>5. Types'
    BY <1>1, <1>2, TypesKept DEF PoolTypeOK, Pc, Types, UTypeOK
<1>6. Threads'
    BY <1>1, <1>2 DEF Threads, helperVars
<1>7. Counts'
    BY <1>2, <1>3 DEF Counts
<1>8. Handshake'
    BY <1>1, <1>2 DEF Handshake, WqLocked
<1> QED BY <1>4, <1>5, <1>6, <1>7, <1>8, HelperKept

(* The sender is done with the handle: pending is 2 and the lock is free.    *)
LEMMA SentIInv ==
    ASSUME IInv, NEW t \in Thread, Sent(t), UNCHANGED <<helperVars, uses, calls, inside>>
    PROVE  IInv' /\ Unrun' = Unrun /\ Ran' = Ran
<1> USE DEF IInv
<1>1. /\ worker' \in [Thread -> [pc : Pc, req : Req \cup {none}]]
      /\ worker'[t].pc = "lock" /\ worker'[t].req = worker[t].req /\ worker[t].pc = "sent"
      /\ \A s \in Thread \ {t} : worker'[s] = worker[s]
    <2>1. "lock" \in Pc
        BY DEF Pc
    <2> QED BY <2>1, SetPcFacts DEF Sent
<1>2. UNCHANGED <<wq, idleThreads, loopWq, eventfd, loop, doneWq, activeReqs>> /\ pending' = 2
    BY DEF Sent
<1>3. Busy' = Busy /\ Idle' = Idle
    BY <1>1, SameSets
<1>4. Unrun' = Unrun /\ Ran' = Ran /\ Unthawed' = Unthawed /\ OnePlace'
    BY <1>1, <1>2, NothingMoves DEF helperVars
<1>5. Types'
    BY <1>1, <1>2, TypesKept DEF PoolTypeOK, Pc, Types, UTypeOK
<1>6. Threads'
    BY <1>1, <1>2 DEF Threads, helperVars
<1>7. Counts'
    BY <1>2, <1>3 DEF Counts
<1>8. Handshake'
    BY <1>1, <1>2 DEF Handshake, WqLocked
<1> QED BY <1>4, <1>5, <1>6, <1>7, <1>8, HelperKept

(* The request goes to the loop's queue; if pending was 0 the worker has to  *)
(* carry the message, and nobody else did.                                   *)
LEMMA InsertIInv ==
    ASSUME IInv, NEW t \in Thread, Insert(t), UNCHANGED <<helperVars, uses, calls, inside>>
    PROVE  IInv' /\ Unrun' = Unrun /\ Ran' = Ran
<1> USE DEF IInv
<1> DEFINE r == worker[t].req
           next == IF pending = 0 THEN "write" ELSE "lock"
<1>1. /\ r # none /\ r \in Req /\ t \in Busy /\ fn[t] = none
      /\ r \notin Elements(wq) /\ r # submitting
      /\ r \notin Elements(loopWq) /\ r \notin Elements(doneWq)
    BY DEF Insert, Threads, Busy, OnePlace, Types, UTypeOK, PoolTypeOK
<1>2. /\ loopWq' \in Seq(Req) /\ Len(loopWq') = Len(loopWq) + 1 /\ Once(loopWq')
      /\ Elements(loopWq') = Elements(loopWq) \cup {r} /\ loopWq' # <<>>
    <2>1. loopWq' = Append(loopWq, r) /\ loopWq \in Seq(Req) /\ Once(loopWq)
        BY DEF Insert, OnePlace, Types, UTypeOK, PoolTypeOK
    <2> HIDE DEF r
    <2> QED BY <1>1, <2>1, AppendFacts
<1>3. /\ worker' \in [Thread -> [pc : Pc, req : Req \cup {none}]]
      /\ worker'[t].pc = next /\ worker'[t].req = none /\ worker[t].pc = "insert"
      /\ \A s \in Thread \ {t} : worker'[s] = worker[s]
    <2>1. next \in Pc /\ none \in Req \cup {none}
        BY DEF Pc
    <2>2. worker' = [worker EXCEPT ![t] = [pc |-> next, req |-> none]]
        BY DEF Insert
    <2>3. worker[t].pc = "insert"
        BY DEF Insert
    <2> HIDE DEF next
    <2> QED BY <2>1, <2>2, <2>3, SetWorkerFacts
<1>4. /\ UNCHANGED <<wq, idleThreads, eventfd, loop, doneWq, activeReqs>> /\ ~WqLocked
      /\ pending' = IF pending = 0 THEN 1 ELSE pending
    BY DEF Insert
<1>5. Busy' = Busy \ {t} /\ Busy \in SUBSET Thread /\ Idle' = Idle
    BY <1>3 DEF Busy, Idle
<1>6. Cardinality(Busy') = Cardinality(Busy) - 1 /\ Cardinality(Busy) \in Nat
    BY <1>1, <1>5, ThreadSets
<1>7. Unrun' = Unrun /\ Ran' = Ran /\ Unthawed' = Unthawed
    <2>1. Unrun' = Unrun /\ Unthawed' = Unthawed
        BY <1>3, <1>4 DEF Unrun, Unthawed, helperVars
    <2>2. Ran' = Ran
        BY <1>1, <1>2, <1>3, <1>4 DEF Ran
    <2> QED BY <2>1, <2>2
<1>8. Types'
    <2>1. pending' \in 0 .. 2
        BY <1>4 DEF Types, UTypeOK, PoolTypeOK
    <2> QED BY <1>2, <1>3, <1>4, <2>1, TypesKept DEF PoolTypeOK, Pc, Types, UTypeOK
<1>9. Threads'
    BY <1>1, <1>3, <1>4 DEF Threads, helperVars
<1>10. Counts'
    <2>1. Len(loopWq') = Len(loopWq) + 1
        BY <1>2
    <2>2. UNCHANGED <<wq, idleThreads, doneWq, activeReqs>> /\ Idle' = Idle
        BY <1>4, <1>5
    <2>3. Cardinality(Busy') = Cardinality(Busy) - 1 /\ Cardinality(Busy) \in Nat
        BY <1>6
    <2>4. Len(wq) \in Nat /\ Len(loopWq) \in Nat /\ Len(doneWq) \in Nat
        BY Lengths
    <2>5. activeReqs' = Len(wq') + Cardinality(Busy') + Len(loopWq') + Len(doneWq')
        BY <2>1, <2>2, <2>3, <2>4 DEF Counts
    <2> QED BY <2>2, <2>5 DEF Counts
<1>11. Handshake'
    <2>1. pending # 1
        BY <1>4 DEF Handshake
    <2>2. CASE pending = 0
        <3>1. worker'[t].pc = "write" /\ pending' = 1
            BY <1>3, <1>4, <2>2
        <3>2. \A s \in Thread \ {t} : worker'[s].pc \notin {"write", "sent"}
            BY <1>3, <1>4 DEF WqLocked
        <3>3. ~eventfd /\ loop # "spin"
            BY <2>2 DEF Handshake
        <3> QED BY <1>4, <3>1, <3>2, <3>3 DEF Handshake, WqLocked
    <2>3. CASE pending # 0
        <3>1. \A s \in Thread : worker'[s].pc \notin {"write", "sent"}
            BY <1>3, <1>4, <2>3 DEF WqLocked
        <3>2. pending' = 2 /\ pending = 2
            BY <1>4, <2>1, <2>3 DEF Types, UTypeOK, PoolTypeOK
        <3> QED BY <1>4, <3>1, <3>2 DEF Handshake
    <2> QED BY <2>2, <2>3
<1>12. OnePlace'
    BY <1>1, <1>2, <1>3, <1>4, <1>5 DEF OnePlace, helperVars
<1> QED BY <1>7, <1>8, <1>9, <1>10, <1>11, <1>12, HelperKept

-----------------------------------------------------------------------------
(* The tables *)

(* Two requests in flight have two tickets.                                  *)
LEMMA TicketsApart ==
    ASSUME FsTable, WorkTable, NEW r \in Req, NEW s \in Req,
           r \in Unrun \cup Ran, s \in Unrun \cup Ran,
           (r \in FsReq) = (s \in FsReq), data[r] = data[s]
    PROVE  r = s
BY DEF FsTable, WorkTable

(* How a use of work counts its calls.                                       *)
LEMMA HalfFacts ==
    ASSUME NEW u \in Nat \ {0}
    PROVE  /\ (2 * u - 1 + 1) \div 2 = u /\ (2 * u - 1) % 2 = 1
           /\ (2 * u + 1) \div 2 = u /\ (2 * u) % 2 = 0
OBVIOUS

(* The next call with a request, if it is the one that is due.               *)
LEMMA CalledFacts ==
    ASSUME Types, CallsMatch, NEW r \in Req, NEW closure \in Closure,
           NEW role \in {"fs", "work", "after"}, Called(r, closure, role),
           LET n == Len(calls[r]) + 1
           IN  <<closure, role>> =
                   IF r \in FsReq THEN <<<<r, n>>, "fs">>
                   ELSE <<<<r, (n + 1) \div 2>>, IF n % 2 = 1 THEN "work" ELSE "after">>
    PROVE  /\ CallsMatch'
           /\ calls' \in [Req -> Seq(Closure \X {"fs", "work", "after"})]
           /\ Len(calls'[r]) = Len(calls[r]) + 1 /\ Len(calls[r]) \in Nat
           /\ \A s \in Req \ {r} : calls'[s] = calls[s]
<1> DEFINE S == Closure \X {"fs", "work", "after"}
           e == <<closure, role>>
           q == calls[r]
<1>1. e \in S /\ q \in Seq(S) /\ calls \in [Req -> Seq(S)]
    BY DEF Types
<1>2. calls' = [calls EXCEPT ![r] = Append(q, e)]
    BY DEF Called
<1> HIDE DEF S, e
<1>3. /\ Append(q, e) \in Seq(S) /\ Len(Append(q, e)) = Len(q) + 1 /\ Len(q) \in Nat
      /\ \A i \in 1 .. Len(q) : Append(q, e)[i] = q[i]
      /\ Append(q, e)[Len(q) + 1] = e
      /\ DOMAIN q = 1 .. Len(q) /\ DOMAIN Append(q, e) = 1 .. Len(q) + 1
    BY <1>1, AppendProperties, LenProperties
<1>4. calls' \in [Req -> Seq(S)] /\ calls'[r] = Append(q, e) /\ \A s \in Req \ {r} : calls'[s] = calls[s]
    BY <1>1, <1>2, <1>3
<1>5. \A i \in DOMAIN calls'[r] :
        calls'[r][i] = IF r \in FsReq THEN <<<<r, i>>, "fs">>
                       ELSE <<<<r, (i + 1) \div 2>>, IF i % 2 = 1 THEN "work" ELSE "after">>
    <2> SUFFICES ASSUME NEW i \in 1 .. Len(q) + 1
                 PROVE  Append(q, e)[i] =
                            IF r \in FsReq THEN <<<<r, i>>, "fs">>
                            ELSE <<<<r, (i + 1) \div 2>>, IF i % 2 = 1 THEN "work" ELSE "after">>
        BY <1>3, <1>4
    <2>1. CASE i = Len(q) + 1
        BY <1>3, <2>1 DEF e
    <2>2. CASE i \in 1 .. Len(q)
        BY <1>3, <2>2 DEF CallsMatch
    <2> QED BY <1>3, <2>1, <2>2
<1>6. CallsMatch'
    BY <1>4, <1>5 DEF CallsMatch
<1> QED BY <1>3, <1>4, <1>6 DEF S

(* A worker moves its closure out of the table.                              *)
LEMMA ThawWorkIInv ==
    ASSUME IInv, NEW t \in Thread, ThawWork(t)
    PROVE  IInv' /\ Unrun' = Unrun /\ Ran' = Ran
<1> USE DEF IInv
<1> DEFINE r == worker[t].req
           k == data[r]
           c == <<r, uses[r]>>
<1>1. worker[t].pc = "work" /\ fn[t] = none /\ r \notin FsReq /\ r # none /\ r \in Req /\ t \in Busy
    BY DEF ThawWork, Threads, Types, UTypeOK, PoolTypeOK, Busy
<1>2. r \in Unrun /\ r \in Unthawed /\ \A s \in Busy : worker[s].req = r => s = t
    BY <1>1 DEF Unrun, Unthawed, OnePlace
<1>3. k \in DOMAIN workFuncs /\ workFuncs[k].work = c /\ workFuncs[k].after = c
    BY <1>1, <1>2 DEF WorkTable
<1>4. c \in Closure /\ c # none
    BY <1>1, ReqAssumption DEF Closure, Types
<1>5. /\ fn' = [fn EXCEPT ![t] = c]
      /\ workFuncs' = [workFuncs EXCEPT ![k].work = Thrown]
    BY <1>3 DEF ThawWork
<1>6. UNCHANGED <<poolVars, nextTicket, fsFuncs, data, submitting, uses, calls, inside>>
    BY DEF ThawWork
<1>7. workFuncs[k] \in [work : Closure, after : Closure] /\ Thrown \in Closure
    BY <1>3 DEF Types, Thrown, Closure
<1> HIDE DEF r, k, c
<1>8. /\ DOMAIN workFuncs' = DOMAIN workFuncs
      /\ \A x \in DOMAIN workFuncs \ {k} : workFuncs'[x] = workFuncs[x]
      /\ workFuncs'[k] \in [work : Closure, after : Closure] /\ workFuncs'[k].after = c
    BY <1>3, <1>5, <1>7
<1>9. Types'
    <2>1. \A x \in DOMAIN workFuncs' : workFuncs'[x] \in [work : Closure, after : Closure]
        BY <1>8 DEF Types
    <2>2. fn' \in [Thread -> Closure \cup {none}]
        BY <1>4, <1>5 DEF Types
    <2> QED BY <1>6, <1>8, <2>1, <2>2 DEF Types, UTypeOK, PoolTypeOK, poolVars
<1>10. Threads'
    BY <1>1, <1>5, <1>6 DEF Threads, poolVars, Types, r, c
<1>11. Counts' /\ Handshake' /\ OnePlace'
    BY <1>6 DEF Counts, Handshake, OnePlace, poolVars, Busy, Idle, WqLocked
<1>12. Unrun' = Unrun /\ Ran' = Ran
    BY <1>6 DEF Unrun, Ran, poolVars
<1>13. Unthawed' = Unthawed \ {r}
    <2>1. fn'[t] # none /\ \A s \in Thread \ {t} : fn'[s] = fn[s]
        BY <1>4, <1>5 DEF Types
    <2>2. r \notin Elements(wq) /\ r # submitting
        BY <1>1 DEF OnePlace, r
    <2>3. \A s \in Thread : worker[s].pc = "work" /\ worker[s].req = r => s = t
        BY <1>1, <1>2 DEF Busy
    <2> QED BY <1>1, <1>6, <2>1, <2>2, <2>3 DEF Unthawed, poolVars, r
<1>14. FsTable' /\ CallsMatch'
    BY <1>6, <1>12 DEF FsTable, CallsMatch
<1>15. WorkTable'
    <2>1. \A s \in Req \ FsReq : s \in Unrun \cup Ran /\ s # r => data[s] # k
        BY <1>1, <1>2, TicketsApart DEF k
    <2>2. Unthawed \subseteq Unrun
        BY DEF Unthawed, Unrun
    <2>3. ASSUME NEW s \in Req \ FsReq
          PROVE  /\ s \in Unrun \cup Ran =>
                      data[s] \in DOMAIN workFuncs' /\ workFuncs'[data[s]].after = <<s, uses[s]>>
                 /\ s \in Unthawed \ {r} => workFuncs'[data[s]].work = <<s, uses[s]>>
        BY <1>3, <1>8, <2>1, <2>2, <2>3 DEF WorkTable, k, c
    <2> QED BY <1>6, <1>8, <1>12, <1>13, <2>3 DEF WorkTable
<1> QED BY <1>9, <1>10, <1>11, <1>12, <1>14, <1>15

(* A request has been executed, whatever its kind.                           *)
LEMMA ExecutedFacts ==
    ASSUME IInv, NEW t \in Thread, Executed(t), UNCHANGED submitting
    PROVE  /\ worker[t].pc = "work" /\ worker[t].req \in Req
           /\ worker[t].req \in Unrun /\ worker[t].req \notin Ran
           /\ \A s \in Thread : worker[s].req = worker[t].req => s = t
           /\ worker[t].req \notin Elements(wq) /\ worker[t].req # submitting
           /\ worker'[t].pc = "insert" /\ worker'[t].req = worker[t].req
           /\ \A s \in Thread \ {t} : worker'[s] = worker[s]
           /\ Unrun' = Unrun \ {worker[t].req} /\ Ran' = Ran \cup {worker[t].req}
           /\ PoolTypeOK' /\ Counts' /\ Handshake' /\ OnePlace'
           /\ UNCHANGED <<wq, loopWq, pending, eventfd, loop, doneWq>>
<1> USE DEF IInv
<1> DEFINE r == worker[t].req
<1>1. worker[t].pc = "work" /\ r # none /\ r \in Req /\ t \in Busy
    BY DEF Executed, Threads, Types, UTypeOK, PoolTypeOK, Busy
<1>2. /\ worker' \in [Thread -> [pc : Pc, req : Req \cup {none}]]
      /\ worker'[t].pc = "insert" /\ worker'[t].req = r
      /\ \A s \in Thread \ {t} : worker'[s] = worker[s]
    <2>1. "insert" \in Pc
        BY DEF Pc
    <2> QED BY <2>1, SetPcFacts DEF Executed
<1>3. UNCHANGED <<wq, idleThreads, loopWq, pending, eventfd, loop, doneWq, activeReqs>>
    BY DEF Executed
<1>4. /\ r \notin Elements(wq) /\ r # submitting
      /\ r \notin Elements(loopWq) /\ r \notin Elements(doneWq)
      /\ \A s \in Busy : worker[s].req = r => s = t
    BY <1>1 DEF OnePlace
<1>5. \A s \in Thread : worker[s].req = r => s = t
    BY <1>1, <1>4 DEF Busy
<1>6. r \in Unrun /\ r \notin Ran
    BY <1>1, <1>4, <1>5 DEF Unrun, Ran
<1>7. Unrun' = Unrun \ {r}
    BY <1>1, <1>2, <1>3, <1>4, <1>5 DEF Unrun
<1>8. Ran' = Ran \cup {r}
    BY <1>1, <1>2, <1>3 DEF Ran
<1>9. Busy' = Busy /\ Idle' = Idle
    BY <1>1, <1>2, SameSets
<1>10. PoolTypeOK' /\ Handshake'
    BY <1>1, <1>2, <1>3 DEF PoolTypeOK, Types, UTypeOK, Pc, Handshake, WqLocked
<1>11. Counts'
    BY <1>3, <1>9 DEF Counts
<1>12. OnePlace'
    BY <1>2, <1>3, <1>9 DEF OnePlace, Busy
<1> QED BY <1>1, <1>2, <1>3, <1>4, <1>5, <1>6, <1>7, <1>8, <1>10, <1>11, <1>12

(* The work closure is called, and is the one given with this use.           *)
LEMMA RunWorkIInv ==
    ASSUME IInv, NEW t \in Thread, RunWork(t)
    PROVE  IInv'
<1> USE DEF IInv
<1> DEFINE r == worker[t].req
           u == uses[r]
<1>1. Executed(t) /\ UNCHANGED <<nextTicket, fsFuncs, workFuncs, data, submitting, uses, inside>>
    BY DEF RunWork
<1>2. /\ r \in Req \ FsReq /\ fn[t] = <<r, u>> /\ fn[t] # none /\ fn[t] \in Closure
      /\ r \in Unrun /\ r \notin Ran /\ Len(calls[r]) = 2 * u - 2 /\ u \in Nat
    <2>1. fn[t] # none /\ fn[t] = <<r, u>> /\ r \notin FsReq
        BY DEF RunWork, Threads
    <2>2. r \in Req /\ r \in Unrun /\ r \notin Ran
        BY <1>1, ExecutedFacts
    <2> HIDE DEF r
    <2> QED BY <2>1, <2>2 DEF Types, WorkTable
<1>3. u >= 1
    <2>1. Len(calls[r]) \in Nat
        BY <1>2, LenProperties DEF Types
    <2> QED BY <1>2, <2>1
<1>4. /\ CallsMatch'
      /\ calls' \in [Req -> Seq(Closure \X {"fs", "work", "after"})]
      /\ Len(calls'[r]) = Len(calls[r]) + 1
      /\ \A s \in Req \ {r} : calls'[s] = calls[s]
    <2>1. Called(r, fn[t], "work")
        BY DEF RunWork
    <2>2. Len(calls[r]) + 1 = 2 * u - 1
        BY <1>2
    <2>3. u \in Nat \ {0}
        BY <1>2, <1>3
    <2> HIDE DEF r, u
    <2>5. (2 * u - 1 + 1) \div 2 = u /\ (2 * u - 1) % 2 = 1
        BY <2>3, HalfFacts
    <2>4. <<fn[t], "work">> = <<<<r, (Len(calls[r]) + 1 + 1) \div 2>>,
                                IF (Len(calls[r]) + 1) % 2 = 1 THEN "work" ELSE "after">>
        BY <1>2, <2>2, <2>5
    <2> QED BY <1>2, <2>1, <2>4, CalledFacts
<1>5. /\ Unrun' = Unrun \ {r} /\ Ran' = Ran \cup {r}
      /\ PoolTypeOK' /\ Counts' /\ Handshake' /\ OnePlace'
      /\ \A s \in Thread : worker[s].req = r => s = t
      /\ worker[t].pc = "work" /\ worker'[t].pc = "insert" /\ worker'[t].req = r
      /\ \A s \in Thread \ {t} : worker'[s] = worker[s]
      /\ r \notin Elements(wq) /\ r # submitting
      /\ UNCHANGED <<wq, loop, doneWq>>
    BY <1>1, ExecutedFacts
<1>6. fn' = [fn EXCEPT ![t] = none]
    BY DEF RunWork
<1> HIDE DEF r, u
<1>7. Types'
    BY <1>1, <1>4, <1>5, <1>6 DEF Types, UTypeOK
<1>8. Threads'
    <2>1. fn'[t] = none /\ \A s \in Thread \ {t} : fn'[s] = fn[s]
        BY <1>6 DEF Types
    <2>2. r # none
        BY <1>2, PoolAssumption
    <2> QED BY <1>1, <1>5, <2>1, <2>2 DEF Threads
<1>9. Unthawed' = Unthawed /\ r \notin Unthawed
    <2>1. r \notin Unthawed
        BY <1>2, <1>5 DEF Unthawed
    <2> QED BY <1>1, <1>5, <1>6, <2>1 DEF Unthawed, Types, r
<1>10. FsTable'
    BY <1>1, <1>2, <1>4, <1>5, ReqAssumption DEF FsTable
<1>11. WorkTable'
    <2>1. Unrun' \cup Ran' = Unrun \cup Ran
        BY <1>2, <1>5
    <2>2. Len(calls'[r]) = 2 * uses[r] - 1
        BY <1>2, <1>4 DEF u
    <2>3. ASSUME NEW s \in Req \ FsReq
          PROVE  Len(calls'[s]) = 2 * uses[s] - (IF s \in Unrun' THEN 2 ELSE IF s \in Ran' THEN 1 ELSE 0)
        <3>1. CASE s = r
            BY <1>5, <2>2, <3>1
        <3>2. CASE s # r
            <4>1. (s \in Unrun' <=> s \in Unrun) /\ (s \in Ran' <=> s \in Ran) /\ calls'[s] = calls[s]
                BY <1>4, <1>5, <3>2
            <4> QED BY <4>1 DEF WorkTable
        <3> QED BY <3>1, <3>2
    <2> QED BY <1>1, <1>9, <2>1, <2>3 DEF WorkTable
<1> QED BY <1>4, <1>5, <1>7, <1>8, <1>10, <1>11

(* A uv_fs_t is executed without a closure.                                  *)
LEMMA FsWorkIInv ==
    ASSUME IInv, NEW t \in Thread, FsWork(t)
    PROVE  IInv'
<1> USE DEF IInv
<1> DEFINE r == worker[t].req
<1>1. Executed(t) /\ UNCHANGED <<helperVars, uses, calls, inside>> /\ r \in FsReq
    BY DEF FsWork
<1>2. /\ Unrun' = Unrun \ {r} /\ Ran' = Ran \cup {r} /\ r \in Unrun /\ r \in Req
      /\ PoolTypeOK' /\ Counts' /\ Handshake' /\ OnePlace'
      /\ \A s \in Thread : worker[s].req = r => s = t
      /\ worker[t].pc = "work" /\ worker'[t].pc = "insert" /\ worker'[t].req = r
      /\ \A s \in Thread \ {t} : worker'[s] = worker[s]
      /\ r \notin Elements(wq) /\ r # submitting
      /\ UNCHANGED <<wq, loop, doneWq>>
    BY <1>1, ExecutedFacts DEF helperVars
<1> HIDE DEF r
<1>3. Types'
    BY <1>1, <1>2, TypesKept
<1>4. Threads'
    BY <1>1, <1>2, PoolAssumption DEF Threads, helperVars, r
<1>5. Unthawed' \subseteq Unthawed
    BY <1>1, <1>2 DEF Unthawed, helperVars
<1>6. FsTable' /\ WorkTable' /\ CallsMatch'
    <2>1. Unrun' \cup Ran' = Unrun \cup Ran
        BY <1>2
    <2>2. \A s \in Req \ FsReq : (s \in Unrun' <=> s \in Unrun) /\ (s \in Ran' <=> s \in Ran)
        BY <1>1, <1>2
    <2>3. FsTable' /\ CallsMatch'
        BY <1>1, <2>1 DEF FsTable, CallsMatch, helperVars
    <2>4. WorkTable'
        BY <1>1, <1>5, <2>1, <2>2 DEF WorkTable, helperVars
    <2> QED BY <2>3, <2>4
<1> QED BY <1>2, <1>3, <1>4, <1>6

-----------------------------------------------------------------------------
(* The loop *)

(* The loop goes on without touching a queue.                                *)
LEMMA LoopGoesOnIInv ==
    ASSUME IInv, submitting = none, RunLoop \/ RunReturns \/ Poll \/ Spin \/ AllDone,
           UNCHANGED <<helperVars, uses, calls, inside>>
    PROVE  IInv' /\ Unrun' = Unrun /\ Ran' = Ran
<1> USE DEF IInv
<1>1. UNCHANGED <<wq, worker, idleThreads, loopWq, doneWq, activeReqs>>
    BY DEF RunLoop, RunReturns, Poll, Spin, AllDone
<1>2. Types'
    <2>1. pending' \in 0 .. 2 /\ loop' \in {"out", "poll", "spin", "take", "done", "callback"}
        BY DEF RunLoop, RunReturns, Poll, Spin, AllDone, Types, UTypeOK, PoolTypeOK
    <2>2. eventfd' \in BOOLEAN
        BY DEF RunLoop, RunReturns, Poll, Spin, AllDone, Types, UTypeOK, PoolTypeOK
    <2> QED BY <1>1, <2>1, <2>2, TypesKept DEF PoolTypeOK, Types, UTypeOK
<1>3. Threads'
    <2>1. loop # "callback" /\ loop' # "callback" /\ submitting' = none
        BY DEF RunLoop, RunReturns, Poll, Spin, AllDone, helperVars
    <2>2. doneWq # <<>> => loop' = "done"
        BY <2>1 DEF RunLoop, RunReturns, Poll, Spin, AllDone, Threads
    <2> QED BY <1>1, <2>1, <2>2 DEF Threads, helperVars
<1>4. Counts' /\ OnePlace'
    BY <1>1 DEF Counts, Busy, Idle, OnePlace, helperVars
<1>5. Handshake'
    <2>1. CASE RunLoop \/ RunReturns \/ AllDone
        <3>1. UNCHANGED <<pending, eventfd>> /\ loop \notin {"spin", "take"} /\ loop' \notin {"spin", "take"}
            BY <2>1 DEF RunLoop, RunReturns, AllDone
        <3> QED BY <1>1, <3>1 DEF Handshake, WqLocked
    <2>2. CASE Poll
        BY <1>1, <2>2 DEF Poll, Handshake, WqLocked
    <2>3. CASE Spin
        <3>1. pending = 2 /\ ~eventfd /\ pending' = 0 /\ loop' = "take" /\ eventfd' = eventfd
            BY <2>3 DEF Spin, Handshake, Types, UTypeOK, PoolTypeOK
        <3>2. \A t \in Thread : worker[t].pc \notin {"write", "sent"}
            BY <3>1 DEF Handshake
        <3> QED BY <1>1, <3>1, <3>2 DEF Handshake
    <2> QED BY <2>1, <2>2, <2>3
<1>6. Unrun' = Unrun /\ Ran' = Ran /\ Unthawed' = Unthawed
    BY <1>1, NothingMoves DEF helperVars
<1> QED BY <1>2, <1>3, <1>4, <1>5, <1>6, HelperKept

(* uv__work_done takes over all that is done.                                *)
LEMMA TakeDoneIInv ==
    ASSUME IInv, submitting = none, TakeDone, UNCHANGED <<helperVars, uses, calls, inside>>
    PROVE  IInv' /\ Unrun' = Unrun /\ Ran' = Ran
<1> USE DEF IInv
<1>1. /\ UNCHANGED <<wq, worker, idleThreads, pending, eventfd, activeReqs>>
      /\ doneWq' = loopWq /\ loopWq' = <<>> /\ loop = "take" /\ loop' = "done" /\ ~WqLocked
    BY DEF TakeDone
<1>2. doneWq = <<>>
    BY <1>1 DEF Threads
<1>3. Elements(doneWq) = {} /\ Elements(loopWq') = {} /\ Once(loopWq') /\ Len(loopWq') = 0
    /\ loopWq' \in Seq(Req) /\ Len(doneWq) = 0
    BY <1>1, <1>2, QueueFacts
<1>4. Types'
    BY <1>1, <1>3, TypesKept DEF PoolTypeOK, Types, UTypeOK
<1>5. Threads'
    BY <1>1 DEF Threads, helperVars
<1>6. Counts'
    <2>1. Busy' = Busy /\ Idle' = Idle
        BY <1>1 DEF Busy, Idle
    <2>2. Cardinality(Busy) \in Nat
        BY ThreadSets DEF Busy
    <2>3. activeReqs' = Len(wq') + Cardinality(Busy') + Len(loopWq') + Len(doneWq')
        BY <1>1, <1>3, <2>1, <2>2, Lengths DEF Counts
    <2> QED BY <1>1, <2>1, <2>3 DEF Counts
<1>7. Handshake'
    BY <1>1 DEF Handshake, WqLocked
<1>8. OnePlace'
    BY <1>1, <1>3 DEF OnePlace, Busy, helperVars
<1>9. Unrun' = Unrun /\ Ran' = Ran /\ Unthawed' = Unthawed
    BY <1>1, <1>3 DEF Unrun, Ran, Unthawed, helperVars
<1> QED BY <1>4, <1>5, <1>6, <1>7, <1>8, <1>9, HelperKept

(* A callback returns.                                                       *)
LEMMA CallbackReturnsIInv ==
    ASSUME IInv, CallbackReturns
    PROVE  IInv' /\ Unrun' = Unrun /\ Ran' = Ran
<1> USE DEF IInv
<1>1. /\ UNCHANGED <<wq, worker, idleThreads, loopWq, pending, eventfd, doneWq, activeReqs>>
      /\ UNCHANGED <<helperVars, uses, calls>>
      /\ loop = "callback" /\ loop' = "done" /\ submitting = none /\ inside' = none
    BY DEF CallbackReturns, CallReturns
<1>2. Types'
    BY <1>1 DEF PoolTypeOK, Types, UTypeOK, helperVars
<1>3. Threads'
    BY <1>1 DEF Threads, helperVars
<1>4. Counts' /\ Handshake' /\ OnePlace'
    BY <1>1 DEF Counts, Busy, Idle, OnePlace, Handshake, WqLocked, helperVars
<1>5. Unrun' = Unrun /\ Ran' = Ran /\ Unthawed' = Unthawed
    BY <1>1, NothingMoves DEF helperVars
<1>6. FsTable' /\ WorkTable' /\ CallsMatch'
    BY <1>1, <1>5 DEF FsTable, WorkTable, CallsMatch, helperVars
<1> QED BY <1>2, <1>3, <1>4, <1>5, <1>6

(* The request is posted; the thread that is signalled stays idle.           *)
LEMMA SubmitIInv ==
    ASSUME IInv, Submit
    PROVE  IInv' /\ Unrun' = Unrun /\ Ran' = Ran
<1> USE DEF IInv
<1> DEFINE r == submitting
<1>1. /\ r \in Req /\ r # none /\ loop \in {"out", "callback"}
      /\ r \notin Elements(wq) /\ r \notin Elements(loopWq) /\ r \notin Elements(doneWq)
    BY DEF Submit, Types, Threads, OnePlace
<1>2. /\ UNCHANGED <<idleThreads, loopWq, pending, eventfd, loop, doneWq>>
      /\ UNCHANGED <<nextTicket, fsFuncs, workFuncs, data, fn, uses, calls, inside>>
      /\ activeReqs' = activeReqs + 1 /\ wq' = Append(wq, r) /\ submitting' = none
    BY DEF Submit, Post
<1>3. /\ wq' \in Seq(Req) /\ Len(wq') = Len(wq) + 1 /\ Once(wq')
      /\ Elements(wq') = Elements(wq) \cup {r}
    BY <1>1, <1>2, AppendFacts DEF OnePlace, Types, UTypeOK, PoolTypeOK
<1>4. /\ worker' \in [Thread -> [pc : Pc, req : Req \cup {none}]]
      /\ \A s \in Thread : worker'[s].req = worker[s].req
      /\ \A s \in Thread : \/ worker'[s].pc = worker[s].pc
                           \/ worker[s].pc = "wait" /\ worker'[s].pc = "woken"
    <2>1. worker \in [Thread -> [pc : Pc, req : Req \cup {none}]]
        BY DEF Types, UTypeOK, PoolTypeOK, Pc
    <2>2. CASE worker' = worker
        BY <2>1, <2>2
    <2>3. CASE \E t \in Waiting : SetPc(t, "woken")
        <3>1. PICK t \in Waiting : SetPc(t, "woken")
            BY <2>3
        <3>2. "woken" \in Pc /\ t \in Thread /\ worker[t].pc = "wait"
            BY DEF Pc, Waiting
        <3> QED BY <3>1, <3>2, SetPcFacts
    <2>4. Post(submitting)
        BY DEF Submit
    <2> QED BY <2>2, <2>3, <2>4 DEF Post
<1> HIDE DEF r
<1>5. Busy' = Busy /\ Idle' = Idle
    BY <1>4, SameSets
<1>6. Types'
    <2>1. PoolTypeOK'
        BY <1>2, <1>3, <1>4, Lengths DEF Types, UTypeOK, PoolTypeOK, Pc
    <2> QED BY <1>2, <2>1 DEF Types, UTypeOK
<1>7. Threads'
    BY <1>1, <1>2, <1>4 DEF Threads
<1>8. Counts'
    <2>1. Cardinality(Busy) \in Nat
        BY ThreadSets DEF Busy
    <2>2. activeReqs' = Len(wq') + Cardinality(Busy') + Len(loopWq') + Len(doneWq')
        BY <1>2, <1>3, <1>5, <2>1, Lengths DEF Counts
    <2> QED BY <1>2, <1>5, <2>2 DEF Counts
<1>9. Handshake'
    BY <1>2, <1>4 DEF Handshake, WqLocked
<1>10. OnePlace'
    <2>1. none \notin Elements(wq') /\ none \notin Elements(loopWq) /\ none \notin Elements(doneWq)
        BY <1>3, PoolAssumption, QueueFacts DEF Types, UTypeOK, PoolTypeOK
    <2>2. \A t \in Busy : worker[t].req \notin Elements(wq')
        BY <1>3 DEF OnePlace, r
    <2>3. \A t \in Busy : worker'[t].req # none
        BY <1>4 DEF Busy
    <2>4. \A x \in Elements(wq') : x \notin Elements(loopWq) /\ x \notin Elements(doneWq)
        BY <1>1, <1>3 DEF OnePlace
    <2>5. \A s, t \in Busy : worker'[s].req = worker'[t].req => s = t
        BY <1>4 DEF OnePlace, Busy
    <2>6. \A t \in Busy : /\ worker'[t].req \notin Elements(loopWq)
                           /\ worker'[t].req \notin Elements(doneWq)
                           /\ worker'[t].req \notin Elements(wq')
        BY <1>4, <2>2 DEF OnePlace, Busy
    <2> QED BY <1>2, <1>3, <1>5, <2>1, <2>3, <2>4, <2>5, <2>6 DEF OnePlace
<1>11. Unrun' = Unrun /\ Ran' = Ran /\ Unthawed' = Unthawed
    BY <1>1, <1>2, <1>3, <1>4, PoolAssumption DEF Unrun, Ran, Unthawed, r
<1>12. FsTable' /\ WorkTable' /\ CallsMatch'
    BY <1>2, <1>11 DEF FsTable, WorkTable, CallsMatch
<1> QED BY <1>6, <1>7, <1>8, <1>9, <1>10, <1>11, <1>12

-----------------------------------------------------------------------------
(* Tickets *)

(* A table without one of its entries.                                       *)
LEMMA EraseFacts ==
    ASSUME NEW f, NEW k
    PROVE  /\ DOMAIN Erase(f, k) = DOMAIN f \ {k}
           /\ \A x \in DOMAIN f \ {k} : Erase(f, k)[x] = f[x]
BY DEF Erase

(* Freeze: the closure is under a ticket that no other request has.          *)
LEMMA FreezeIInv ==
    ASSUME IInv, NEW r \in Req, Freeze(r)
    PROVE  IInv' /\ Unrun' = Unrun \cup {r} /\ Ran' = Ran
<1> USE DEF IInv
<1> DEFINE k == nextTicket + 1
           cb == <<r, uses[r] + 1>>
<1>1. /\ submitting = none /\ loop \in {"out", "callback"} /\ submitting' = r
      /\ nextTicket' = k /\ nextTicket < MaxTickets /\ nextTicket \in Nat
      /\ uses' = [uses EXCEPT ![r] = @ + 1] /\ data' = [data EXCEPT ![r] = k]
      /\ UNCHANGED <<poolVars, fn, calls, inside>>
    BY DEF Freeze, Types, UTypeOK
<1>2. /\ r \notin Elements(wq) /\ r \notin Elements(loopWq) /\ r \notin Elements(doneWq)
      /\ \A t \in Thread : worker[t].req # r
    BY DEF Freeze, InFlight
<1>3. r # none /\ r \notin Unrun /\ r \notin Ran /\ r \notin Unthawed
    BY <1>1, <1>2, PoolAssumption DEF Unrun, Ran, Unthawed
<1>4. Unrun' = Unrun \cup {r} /\ Ran' = Ran /\ Unthawed' = Unthawed \cup {r}
    <2>1. \A x \in Req : x # none
        BY PoolAssumption
    <2> QED BY <1>1, <2>1 DEF Unrun, Ran, Unthawed, poolVars
<1>5. /\ uses' \in [Req -> Nat] /\ uses'[r] = uses[r] + 1 /\ uses[r] \in Nat
      /\ \A s \in Req \ {r} : uses'[s] = uses[s]
    BY <1>1 DEF Types
<1>6. /\ data' \in [Req -> 0 .. k] /\ data'[r] = k
      /\ \A s \in Req \ {r} : data'[s] = data[s]
    BY <1>1 DEF Types, UTypeOK
<1>7. k \notin DOMAIN fsFuncs /\ k \notin DOMAIN workFuncs
    BY <1>1 DEF Types, UTypeOK
<1>8. \/ r \in FsReq /\ fsFuncs' = Put(fsFuncs, k, cb) /\ workFuncs' = workFuncs
      \/ r \notin FsReq /\ workFuncs' = Put(workFuncs, k, [work |-> cb, after |-> cb])
         /\ fsFuncs' = fsFuncs
    BY <1>1, <1>5 DEF Freeze
<1>9. cb \in Closure /\ cb = <<r, uses'[r]>>
    BY <1>5 DEF Closure
<1> HIDE DEF k, cb
<1>10. FsTable'
    <2>1. CASE r \in FsReq
        <3>1. /\ DOMAIN fsFuncs' = DOMAIN fsFuncs \cup {k} /\ fsFuncs'[k] = cb
              /\ \A x \in DOMAIN fsFuncs : fsFuncs'[x] = fsFuncs[x]
            <4>1. fsFuncs' = Put(fsFuncs, k, cb)
                BY <1>8, <2>1
            <4> QED BY <1>7, <4>1 DEF Put
        <3>2. \A x \in DOMAIN fsFuncs' : \E s \in FsReq : s \in Unrun' \cup Ran' /\ data'[s] = x
            <4>1. \A x \in DOMAIN fsFuncs : \E s \in FsReq : s \in Unrun' \cup Ran' /\ data'[s] = x
                BY <1>3, <1>4, <1>6, ReqAssumption DEF FsTable
            <4> QED BY <1>4, <1>6, <2>1, <3>1, <4>1
        <3>3. ASSUME NEW s \in FsReq
              PROVE  IF s \in Unrun' \cup Ran'
                     THEN /\ data'[s] \in DOMAIN fsFuncs' /\ fsFuncs'[data'[s]] = <<s, uses'[s]>>
                          /\ Len(calls'[s]) = uses'[s] - 1
                     ELSE Len(calls'[s]) = uses'[s]
            <4>1. CASE s = r
                BY <1>1, <1>3, <1>4, <1>5, <1>6, <1>9, <2>1, <3>1, <4>1 DEF FsTable
            <4>2. CASE s # r
                BY <1>1, <1>4, <1>5, <1>6, <3>1, <4>2, ReqAssumption DEF FsTable
            <4> QED BY <4>1, <4>2
        <3> QED BY <3>2, <3>3 DEF FsTable
    <2>2. CASE r \notin FsReq
        <3>1. \A s \in FsReq : /\ uses'[s] = uses[s] /\ data'[s] = data[s]
                               /\ s \in Unrun' \cup Ran' <=> s \in Unrun \cup Ran
            BY <1>4, <1>5, <1>6, <2>2, ReqAssumption
        <3> QED BY <1>1, <1>8, <2>2, <3>1 DEF FsTable
    <2> QED BY <2>1, <2>2
<1>11. WorkTable'
    <2>1. CASE r \notin FsReq
        <3> DEFINE v == [work |-> cb, after |-> cb]
        <3>1. /\ DOMAIN workFuncs' = DOMAIN workFuncs \cup {k} /\ workFuncs'[k] = v
              /\ \A x \in DOMAIN workFuncs : workFuncs'[x] = workFuncs[x]
            <4>1. workFuncs' = Put(workFuncs, k, v)
                BY <1>8, <2>1
            <4> HIDE DEF v
            <4> QED BY <1>7, <4>1 DEF Put
        <3>2. \A x \in DOMAIN workFuncs' : \E s \in Req \ FsReq : s \in Unrun' \cup Ran' /\ data'[s] = x
            <4>1. \A x \in DOMAIN workFuncs :
                      \E s \in Req \ FsReq : s \in Unrun' \cup Ran' /\ data'[s] = x
                BY <1>3, <1>4, <1>6 DEF WorkTable
            <4> QED BY <1>4, <1>6, <2>1, <3>1, <4>1
        <3>3. ASSUME NEW s \in Req \ FsReq
              PROVE  /\ s \in Unrun' \cup Ran' => data'[s] \in DOMAIN workFuncs'
                            /\ workFuncs'[data'[s]].after = <<s, uses'[s]>>
                     /\ s \in Unthawed' => workFuncs'[data'[s]].work = <<s, uses'[s]>>
                     /\ Len(calls'[s]) = 2 * uses'[s] -
                            (IF s \in Unrun' THEN 2 ELSE IF s \in Ran' THEN 1 ELSE 0)
            <4>1. CASE s = r
                <5>1. Len(calls'[r]) = 2 * uses[r]
                    BY <1>1, <1>3, <1>5, <2>1 DEF WorkTable
                <5> QED BY <1>3, <1>4, <1>5, <1>6, <1>9, <3>1, <4>1, <5>1
            <4>2. CASE s # r
                <5>1. /\ s \in Unrun' <=> s \in Unrun
                      /\ s \in Ran' <=> s \in Ran
                      /\ s \in Unthawed' <=> s \in Unthawed
                      /\ s \in Unthawed => s \in Unrun
                      /\ uses'[s] = uses[s] /\ data'[s] = data[s] /\ calls' = calls
                    BY <1>1, <1>4, <1>5, <1>6, <4>2 DEF Unthawed, Unrun
                <5> QED BY <3>1, <5>1 DEF WorkTable
            <4> QED BY <4>1, <4>2
        <3> QED BY <3>2, <3>3 DEF WorkTable
    <2>2. CASE r \in FsReq
        <3>1. \A s \in Req \ FsReq :
                  /\ uses'[s] = uses[s] /\ data'[s] = data[s]
                  /\ s \in Unrun' <=> s \in Unrun
                  /\ s \in Ran' <=> s \in Ran
                  /\ s \in Unthawed' <=> s \in Unthawed
            BY <1>4, <1>5, <1>6, <2>2
        <3>2. workFuncs' = workFuncs /\ calls' = calls
            BY <1>1, <1>8, <2>2
        <3> QED BY <3>1, <3>2 DEF WorkTable
    <2> QED BY <2>1, <2>2
<1>12. Types'
    <2>1. nextTicket' \in 0 .. MaxTickets
        BY <1>1, ReqAssumption DEF k
    <2>2. DOMAIN fsFuncs' \subseteq 1 .. nextTicket' /\ DOMAIN workFuncs' \subseteq 1 .. nextTicket'
        <3>1. DOMAIN fsFuncs \cup {k} \subseteq 1 .. k /\ DOMAIN workFuncs \cup {k} \subseteq 1 .. k
            BY <1>1 DEF Types, UTypeOK, k
        <3>2. /\ DOMAIN Put(fsFuncs, k, cb) = DOMAIN fsFuncs \cup {k}
              /\ DOMAIN Put(workFuncs, k, [work |-> cb, after |-> cb]) = DOMAIN workFuncs \cup {k}
            BY DEF Put
        <3> QED BY <1>1, <1>8, <3>1, <3>2
    <2>3. \A x \in DOMAIN workFuncs' : workFuncs'[x] \in [work : Closure, after : Closure]
        <3>1. [work |-> cb, after |-> cb] \in [work : Closure, after : Closure]
            BY <1>9
        <3> DEFINE v == [work |-> cb, after |-> cb]
        <3> HIDE DEF v
        <3>2. CASE r \in FsReq
            BY <1>8, <3>2 DEF Types
        <3>3. CASE r \notin FsReq
            <4>1. workFuncs' = Put(workFuncs, k, v)
                BY <1>8, <3>3 DEF v
            <4>2. /\ DOMAIN workFuncs' = DOMAIN workFuncs \cup {k} /\ workFuncs'[k] = v
                  /\ \A x \in DOMAIN workFuncs : workFuncs'[x] = workFuncs[x]
                BY <1>7, <4>1 DEF Put
            <4> QED BY <3>1, <4>2 DEF Types, v
        <3> QED BY <3>2, <3>3
    <2>4. PoolTypeOK'
        BY <1>1 DEF Types, UTypeOK, PoolTypeOK, poolVars
    <2> QED BY <1>1, <1>5, <1>6, <2>1, <2>2, <2>3, <2>4 DEF Types, UTypeOK
<1>13. Threads'
    <2>1. \A t \in Thread : fn[t] # none => worker[t].req \in Req \ {r}
        BY <1>2 DEF Threads, Types, UTypeOK, PoolTypeOK
    <2> QED BY <1>1, <1>3, <1>5, <2>1 DEF Threads, poolVars
<1>14. Counts' /\ Handshake'
    BY <1>1 DEF Counts, Handshake, poolVars, Busy, Idle, WqLocked
<1>15. OnePlace'
    BY <1>1, <1>2 DEF OnePlace, poolVars, Busy
<1>16. CallsMatch'
    BY <1>1 DEF CallsMatch
<1> QED BY <1>4, <1>10, <1>11, <1>12, <1>13, <1>14, <1>15, <1>16

(* A finished request leaves the loop's hands.                               *)
LEMMA CallDoneFacts ==
    ASSUME IInv, CallDone, UNCHANGED <<submitting, fn>>
    PROVE  LET r == doneWq[1] IN
           /\ r \in Req /\ r \in Ran /\ r \notin Unrun
           /\ Unrun' = Unrun /\ Unthawed' = Unthawed /\ Ran' = Ran \ {r}
           /\ PoolTypeOK' /\ Counts' /\ Handshake' /\ OnePlace'
           /\ worker' = worker /\ loop = "done" /\ loop' = "callback" /\ submitting = none
<1> USE DEF IInv
<1> DEFINE r == Head(doneWq)
<1>1. /\ UNCHANGED <<wq, worker, idleThreads, loopWq, pending, eventfd>>
      /\ doneWq # <<>> /\ doneWq' = Tail(doneWq) /\ activeReqs' = activeReqs - 1
      /\ loop = "done" /\ loop' = "callback"
    BY DEF CallDone
<1>2. /\ r \in Req /\ r = doneWq[1] /\ r \in Elements(doneWq)
      /\ doneWq' \in Seq(Req) /\ Len(doneWq') = Len(doneWq) - 1 /\ Len(doneWq) > 0
      /\ Elements(doneWq') = Elements(doneWq) \ {r} /\ Once(doneWq')
    BY <1>1, TailFacts DEF OnePlace, Types, UTypeOK, PoolTypeOK
<1> HIDE DEF r
<1>3. /\ r \notin Elements(wq) /\ r \notin Elements(loopWq) /\ r # submitting
      /\ \A t \in Busy : worker[t].req # r
    BY <1>2 DEF OnePlace
<1>4. \A t \in Thread : worker[t].req # r
    BY <1>2, <1>3, PoolAssumption DEF Busy
<1>5. r \in Ran /\ r \notin Unrun
    BY <1>2, <1>3, <1>4 DEF Ran, Unrun
<1>6. Unrun' = Unrun /\ Unthawed' = Unthawed
    BY <1>1 DEF Unrun, Unthawed
<1>7. Ran' = Ran \ {r}
    BY <1>1, <1>2, <1>3, <1>4 DEF Ran
<1>8. Busy' = Busy /\ Idle' = Idle /\ Cardinality(Busy) \in Nat
    <2>1. Busy \in SUBSET Thread
        BY DEF Busy
    <2> QED BY <1>1, <2>1, ThreadSets DEF Busy, Idle
<1>9. activeReqs' = Len(wq') + Cardinality(Busy') + Len(loopWq') + Len(doneWq') /\ activeReqs' \in Nat
    <2>1. Len(wq) \in Nat /\ Len(loopWq) \in Nat /\ Len(doneWq) \in Nat /\ wq' = wq /\ loopWq' = loopWq
        BY <1>1, Lengths
    <2>2. activeReqs = Len(wq) + Cardinality(Busy) + Len(loopWq) + Len(doneWq)
        BY DEF Counts
    <2> QED BY <1>1, <1>2, <1>8, <2>1, <2>2
<1>10. PoolTypeOK'
    BY <1>1, <1>2, <1>9 DEF Types, UTypeOK, PoolTypeOK
<1>11. Counts'
    BY <1>1, <1>8, <1>9 DEF Counts
<1>12. Handshake'
    BY <1>1 DEF Handshake, WqLocked
<1>13. OnePlace'
    BY <1>1, <1>2, <1>8 DEF OnePlace, Busy
<1>14. submitting = none
    BY <1>1 DEF Threads
<1> QED BY <1>1, <1>2, <1>5, <1>6, <1>7, <1>10, <1>11, <1>12, <1>13, <1>14

(* The callback of a uv_fs_t, with the closure of this use.                  *)
LEMMA DispatchFSIInv ==
    ASSUME IInv, DispatchFS
    PROVE  IInv'
<1> USE DEF IInv
<1> DEFINE r == doneWq[1]
           k == data[r]
<1>1. /\ CallDone /\ r \in FsReq /\ inside' = r /\ fsFuncs' = Erase(fsFuncs, k)
      /\ Called(r, At(fsFuncs, k), "fs")
      /\ UNCHANGED <<nextTicket, workFuncs, data, submitting, fn, uses>>
    BY DEF DispatchFS
<1>2. /\ r \in Req /\ r \in Ran /\ r \notin Unrun
      /\ Unrun' = Unrun /\ Unthawed' = Unthawed /\ Ran' = Ran \ {r}
      /\ PoolTypeOK' /\ Counts' /\ Handshake' /\ OnePlace'
      /\ worker' = worker /\ loop = "done" /\ loop' = "callback" /\ submitting = none
    BY <1>1, CallDoneFacts
<1> HIDE DEF r
<1>3. /\ k \in DOMAIN fsFuncs /\ At(fsFuncs, k) = <<r, uses[r]>>
      /\ Len(calls[r]) = uses[r] - 1 /\ uses[r] \in Nat
    BY <1>1, <1>2 DEF FsTable, At, Types
<1>4. /\ CallsMatch'
      /\ calls' \in [Req -> Seq(Closure \X {"fs", "work", "after"})]
      /\ Len(calls'[r]) = Len(calls[r]) + 1
      /\ \A s \in Req \ {r} : calls'[s] = calls[s]
    <2>1. At(fsFuncs, k) \in Closure
        BY <1>2, <1>3 DEF Closure
    <2>2. <<At(fsFuncs, k), "fs">> = <<<<r, Len(calls[r]) + 1>>, "fs">>
        BY <1>3
    <2> HIDE DEF k
    <2> QED BY <1>1, <1>2, <2>1, <2>2, CalledFacts
<1>5. /\ DOMAIN fsFuncs' = DOMAIN fsFuncs \ {k}
      /\ \A x \in DOMAIN fsFuncs \ {k} : fsFuncs'[x] = fsFuncs[x]
    BY <1>1, EraseFacts
<1>6. \A s \in FsReq : s \in Unrun \cup Ran /\ s # r => data[s] # k
    BY <1>1, <1>2, TicketsApart, ReqAssumption
<1>7. FsTable'
    <2>1. \A x \in DOMAIN fsFuncs' : \E s \in FsReq : s \in Unrun' \cup Ran' /\ data'[s] = x
        BY <1>1, <1>2, <1>5 DEF FsTable
    <2>2. ASSUME NEW s \in FsReq
          PROVE  IF s \in Unrun' \cup Ran'
                 THEN /\ data'[s] \in DOMAIN fsFuncs' /\ fsFuncs'[data'[s]] = <<s, uses'[s]>>
                      /\ Len(calls'[s]) = uses'[s] - 1
                 ELSE Len(calls'[s]) = uses'[s]
        <3>1. CASE s = r
            BY <1>1, <1>2, <1>3, <1>4, <3>1
        <3>2. CASE s # r
            <4>1. s \in Unrun' \cup Ran' <=> s \in Unrun \cup Ran
                BY <1>2, <3>2
            <4>2. calls'[s] = calls[s] /\ data' = data /\ uses' = uses
                BY <1>1, <1>4, <3>2, ReqAssumption
            <4> QED BY <1>5, <1>6, <3>2, <4>1, <4>2 DEF FsTable
        <3> QED BY <3>1, <3>2
    <2> QED BY <2>1, <2>2 DEF FsTable
<1>8. WorkTable'
    <2>1. \A s \in Req \ FsReq : (s \in Ran' <=> s \in Ran) /\ calls'[s] = calls[s]
        BY <1>1, <1>2, <1>4
    <2> QED BY <1>1, <1>2, <2>1 DEF WorkTable
<1>9. Types'
    BY <1>1, <1>2, <1>4, <1>5 DEF Types, UTypeOK
<1>10. Threads'
    BY <1>1, <1>2, PoolAssumption DEF Threads
<1> QED BY <1>2, <1>4, <1>7, <1>8, <1>9, <1>10

(* The callback after work.                                                  *)
LEMMA DispatchAfterIInv ==
    ASSUME IInv, DispatchAfter
    PROVE  IInv'
<1> USE DEF IInv
<1> DEFINE r == doneWq[1]
           k == data[r]
           c == IF k \in DOMAIN workFuncs THEN workFuncs[k].after ELSE Thrown
           u == uses[r]
<1>1. /\ CallDone /\ r \notin FsReq /\ inside' = r /\ workFuncs' = Erase(workFuncs, k)
      /\ Called(r, c, "after")
      /\ UNCHANGED <<nextTicket, fsFuncs, data, submitting, fn, uses>>
    BY DEF DispatchAfter
<1>2. /\ r \in Req /\ r \in Ran /\ r \notin Unrun
      /\ Unrun' = Unrun /\ Unthawed' = Unthawed /\ Ran' = Ran \ {r}
      /\ PoolTypeOK' /\ Counts' /\ Handshake' /\ OnePlace'
      /\ worker' = worker /\ loop = "done" /\ loop' = "callback" /\ submitting = none
    BY <1>1, CallDoneFacts
<1> HIDE DEF r
<1>3. /\ k \in DOMAIN workFuncs /\ c = <<r, u>>
      /\ Len(calls[r]) = 2 * u - 1 /\ u \in Nat
    BY <1>1, <1>2 DEF WorkTable, Types
<1>4. /\ CallsMatch'
      /\ calls' \in [Req -> Seq(Closure \X {"fs", "work", "after"})]
      /\ Len(calls'[r]) = Len(calls[r]) + 1
      /\ \A s \in Req \ {r} : calls'[s] = calls[s]
    <2>1. c \in Closure
        <3> HIDE DEF c
        <3> QED BY <1>2, <1>3 DEF Closure
    <2>2. Len(calls[r]) \in Nat
        BY <1>2, LenProperties DEF Types
    <2>3. u \in Nat \ {0} /\ Len(calls[r]) + 1 = 2 * u
        BY <1>3, <2>2
    <2> HIDE DEF k, c, u
    <2>4. (2 * u + 1) \div 2 = u /\ (2 * u) % 2 = 0
        BY <2>3, HalfFacts
    <2>5. <<c, "after">> = <<<<r, (Len(calls[r]) + 1 + 1) \div 2>>,
                             IF (Len(calls[r]) + 1) % 2 = 1 THEN "work" ELSE "after">>
        BY <1>3, <2>3, <2>4
    <2> QED BY <1>1, <1>2, <2>1, <2>5, CalledFacts
<1>5. /\ DOMAIN workFuncs' = DOMAIN workFuncs \ {k}
      /\ \A x \in DOMAIN workFuncs \ {k} : workFuncs'[x] = workFuncs[x]
    BY <1>1, EraseFacts
<1>6. \A s \in Req \ FsReq : s \in Unrun \cup Ran /\ s # r => data[s] # k
    BY <1>1, <1>2, TicketsApart
<1> HIDE DEF c
<1>7. WorkTable'
    <2>1. \A x \in DOMAIN workFuncs' : \E s \in Req \ FsReq : s \in Unrun' \cup Ran' /\ data'[s] = x
        BY <1>1, <1>2, <1>5 DEF WorkTable
    <2>2. ASSUME NEW s \in Req \ FsReq
          PROVE  /\ s \in Unrun' \cup Ran' => data'[s] \in DOMAIN workFuncs'
                        /\ workFuncs'[data'[s]].after = <<s, uses'[s]>>
                 /\ s \in Unthawed' => workFuncs'[data'[s]].work = <<s, uses'[s]>>
                 /\ Len(calls'[s]) = 2 * uses'[s] -
                        (IF s \in Unrun' THEN 2 ELSE IF s \in Ran' THEN 1 ELSE 0)
        <3>1. Unthawed \subseteq Unrun
            BY DEF Unthawed, Unrun
        <3>2. CASE s = r
            BY <1>1, <1>2, <1>3, <1>4, <3>1, <3>2
        <3>3. CASE s # r
            <4>1. (s \in Unrun' <=> s \in Unrun) /\ (s \in Ran' <=> s \in Ran)
                BY <1>2, <3>3
            <4>2. calls'[s] = calls[s] /\ data' = data /\ uses' = uses /\ Unthawed' = Unthawed
                BY <1>1, <1>2, <1>4, <3>3
            <4> QED BY <1>5, <1>6, <3>1, <3>3, <4>1, <4>2 DEF WorkTable
        <3> QED BY <3>2, <3>3
    <2> QED BY <2>1, <2>2 DEF WorkTable
<1>8. FsTable'
    <2>1. \A s \in FsReq : (s \in Ran' <=> s \in Ran) /\ calls'[s] = calls[s]
        BY <1>1, <1>2, <1>4, ReqAssumption
    <2> QED BY <1>1, <1>2, <2>1 DEF FsTable
<1>9. Types'
    BY <1>1, <1>2, <1>4, <1>5 DEF Types, UTypeOK
<1>10. Threads'
    BY <1>1, <1>2, PoolAssumption DEF Threads
<1> QED BY <1>2, <1>4, <1>7, <1>8, <1>9, <1>10

-----------------------------------------------------------------------------
(* The theorems *)

LEMMA NextIInv ==
    ASSUME IInv, [Next]_vars
    PROVE  IInv'
<1>1. CASE Submit \/ DispatchFS \/ DispatchAfter \/ CallbackReturns
    BY <1>1, SubmitIInv, DispatchFSIInv, DispatchAfterIInv, CallbackReturnsIInv
<1>2. CASE /\ submitting = none
           /\ RunLoop \/ RunReturns \/ Poll \/ Spin \/ TakeDone \/ AllDone
           /\ UNCHANGED <<helperVars, uses, calls, inside>>
    BY <1>2, LoopGoesOnIInv, TakeDoneIInv
<1>3. ASSUME NEW r \in Req, Freeze(r) PROVE IInv'
    BY <1>3, FreezeIInv
<1>4. ASSUME NEW t \in Thread, ThawWork(t) \/ RunWork(t) \/ FsWork(t) PROVE IInv'
    BY <1>4, ThawWorkIInv, RunWorkIInv, FsWorkIInv
<1>5. ASSUME NEW t \in Thread, UNCHANGED <<helperVars, uses, calls, inside>>,
             \/ WorkerWaits(t) \/ WorkerTakes(t) \/ Insert(t) \/ WriteEventfd(t) \/ Sent(t)
             \/ SpuriousWakeup(t)
      PROVE  IInv'
    BY <1>5, WorkerWaitsIInv, WorkerTakesIInv, InsertIInv, WriteEventfdIInv, SentIInv,
       SpuriousWakeupIInv
<1>6. CASE UNCHANGED vars
    <2>1. UNCHANGED <<wq, worker, idleThreads, loopWq, pending, eventfd, loop, doneWq, activeReqs>>
          /\ UNCHANGED <<helperVars, uses, calls, inside>>
        BY <1>6 DEF vars, poolVars
    <2>2. Types' /\ Threads' /\ Counts' /\ Handshake' /\ OnePlace'
        BY <2>1, TypesKept DEF IInv, Types, UTypeOK, PoolTypeOK, Threads, Counts, Busy, Idle,
           Handshake, WqLocked, OnePlace, helperVars
    <2>3. Unrun' = Unrun /\ Ran' = Ran /\ Unthawed' = Unthawed
        BY <2>1 DEF Unrun, Ran, Unthawed, helperVars
    <2> QED BY <2>1, <2>2, <2>3, HelperKept DEF IInv
<1> QED BY <1>1, <1>2, <1>3, <1>4, <1>5, <1>6 DEF Next, LoopStep, WorkerStep

(* The invariant holds throughout: of libuv's pool and loop as maxcso uses   *)
(* them and of UVHelper's tables, with any number of threads and requests.   *)
LEMMA IInvHolds == Spec => []IInv
BY InitIInv, NextIInv, PTL DEF Spec

(* The types: idle_threads and active_reqs.count never pass zero, and no     *)
(* ticket is used that has not been drawn.                                   *)
THEOREM UVTypeCorrect == Spec => []UTypeOK
<1>1. IInv => UTypeOK
    BY DEF IInv, Types
<1> QED BY <1>1, IInvHolds, PTL

(* Neither the condition variable of the pool (post, worker) nor the eventfd *)
(* of the loop (uv_async_send, uv__async_io) loses a wakeup.                 *)
THEOREM WakeupsArrive == Spec => []NoLostWakeup
<1>1. ASSUME IInv, loopWq # <<>>
      PROVE  \/ loop \in {"spin", "take"} \/ eventfd
             \/ \E t \in Thread : worker[t].pc = "write"
    <2>1. CASE pending = 0
        BY <1>1, <2>1 DEF IInv, Handshake
    <2>2. CASE pending = 1
        BY <1>1, <2>2 DEF IInv, Handshake, WqLocked
    <2>3. CASE pending = 2
        BY <1>1, <2>3 DEF IInv, Handshake
    <2>4. pending \in 0 .. 2
        BY <1>1 DEF IInv, Types, UTypeOK, PoolTypeOK
    <2> QED BY <2>1, <2>2, <2>3, <2>4
<1> DEFINE Awake == wq # <<>> => \E t \in Thread : worker[t].pc # "wait"
<1>2. Init => Awake
    BY DEF Init, PoolInit
<1>3. ASSUME IInv, Awake, [Next]_vars PROVE Awake'
    <2>1. CASE Submit
        <3>1. PICK t \in Thread : TRUE
            BY PoolAssumption
        <3>2. CASE \E s \in Waiting : SetPc(s, "woken")
            <4>1. PICK s \in Waiting : SetPc(s, "woken")
                BY <3>2
            <4>2. "woken" \in Pc /\ s \in Thread
                BY DEF Pc, Waiting
            <4>3. worker'[s].pc = "woken"
                BY <1>3, <4>1, <4>2, SetPcFacts DEF IInv
            <4> QED BY <4>2, <4>3
        <3>3. CASE (idleThreads = 0 \/ Waiting = {}) /\ worker' = worker
            <4>1. Waiting \subseteq Idle /\ Idle \in SUBSET Thread
                BY DEF Waiting, Idle
            <4>2. Waiting = {}
                BY <1>3, <3>3, <4>1, ThreadSets DEF IInv, Counts
            <4> QED BY <3>1, <3>3, <4>2 DEF Waiting
        <3> QED BY <2>1, <3>2, <3>3 DEF Submit, Post
    <2>2. ASSUME NEW t \in Thread,
                 \/ ThawWork(t) \/ RunWork(t) \/ FsWork(t) \/ SpuriousWakeup(t)
                 \/ WorkerTakes(t) \/ Insert(t) \/ WriteEventfd(t) \/ Sent(t)
          PROVE  Awake'
        <3>1. worker'[t].pc # "wait"
            BY <1>3, <2>2 DEF ThawWork, RunWork, FsWork, Executed, SpuriousWakeup, WorkerTakes, Insert,
               WriteEventfd, Sent, SetPc, IInv, Types, UTypeOK, PoolTypeOK, poolVars
        <3> QED BY <3>1
    <2>3. ASSUME NEW t \in Thread, WorkerWaits(t) PROVE Awake'
        BY <2>3 DEF WorkerWaits
    <2>4. CASE worker' = worker /\ wq' = wq
        BY <1>3, <2>4
    <2>5. CASE DispatchFS \/ DispatchAfter \/ CallbackReturns
        BY <2>4, <2>5 DEF DispatchFS, DispatchAfter, CallbackReturns, CallDone, CallReturns
    <2>6. CASE RunLoop \/ RunReturns \/ Poll \/ Spin \/ TakeDone \/ AllDone
        BY <2>4, <2>6 DEF RunLoop, RunReturns, Poll, Spin, TakeDone, AllDone
    <2>7. ASSUME NEW r \in Req, Freeze(r) PROVE Awake'
        BY <2>4, <2>7 DEF Freeze, poolVars
    <2>8. CASE UNCHANGED vars
        BY <2>4, <2>8 DEF vars, poolVars
    <2> HIDE DEF Awake
    <2> QED BY <1>3, <2>1, <2>2, <2>3, <2>5, <2>6, <2>7, <2>8 DEF Next, LoopStep, WorkerStep
<1>4. IInv /\ Awake => NoLostWakeup
    BY <1>1 DEF NoLostWakeup
<1> HIDE DEF Awake
<1> QED BY <1>2, <1>3, <1>4, IInvHolds, PTL DEF Spec

(* Dispatch calls the closures that were given with the requests, each once  *)
(* and in order, whatever is done to the tables in between.                  *)
THEOREM ClosuresMatch == Spec => []CallsMatch
<1>1. IInv => CallsMatch
    BY DEF IInv
<1> QED BY <1>1, IInvHolds, PTL

(* When uv_run returns, nothing is in flight and the tables are empty.       *)
THEOREM ReturnsQuiet == Spec => []QuietAtReturn
<1>1. ASSUME IInv, activeReqs = 0, submitting = none
      PROVE  InFlight \subseteq {none} /\ DOMAIN fsFuncs = {} /\ DOMAIN workFuncs = {}
    <2>1. Busy \in SUBSET Thread
        BY DEF Busy
    <2>2. Cardinality(Busy) \in Nat /\ (Cardinality(Busy) = 0 <=> Busy = {})
        BY <2>1, ThreadSets
    <2>3. Len(wq) \in Nat /\ Len(loopWq) \in Nat /\ Len(doneWq) \in Nat
        BY <1>1, Lengths DEF IInv
    <2>4. activeReqs = Len(wq) + Cardinality(Busy) + Len(loopWq) + Len(doneWq)
        BY <1>1 DEF IInv, Counts
    <2>5. Len(wq) = 0 /\ Len(loopWq) = 0 /\ Len(doneWq) = 0 /\ Cardinality(Busy) = 0
        BY <1>1, <2>2, <2>3, <2>4
    <2>6. wq = <<>> /\ loopWq = <<>> /\ doneWq = <<>> /\ Busy = {}
        BY <1>1, <2>2, <2>5, QueueFacts DEF IInv, Types, UTypeOK, PoolTypeOK
    <2>7. Elements(wq) = {} /\ Elements(loopWq) = {} /\ Elements(doneWq) = {}
        BY <2>6, QueueFacts
    <2>8. \A t \in Thread : worker[t].req = none
        BY <2>6 DEF Busy
    <2>9. InFlight \subseteq {none}
        BY <1>1, <2>7, <2>8 DEF InFlight
    <2>10. Unrun = {} /\ Ran = {}
        BY <1>1, <2>7, <2>8, PoolAssumption DEF Unrun, Ran
    <2> QED BY <1>1, <2>9, <2>10 DEF IInv, FsTable, WorkTable
<1>2. IInv => QuietAtReturn
    BY <1>1 DEF QuietAtReturn
<1> QED BY <1>2, IInvHolds, PTL

-----------------------------------------------------------------------------
(* Requests, step by step *)

(* The stage of a request is its place.                                      *)
Posted == Unrun \ {submitting}

Staged ==
    \A r \in Req :
        /\ Stage(r) = IF r \in Posted THEN "submitted" ELSE IF r \in Ran THEN "executed" ELSE "free"
        /\ r \in Unrun => r \notin Ran

LEMMA StageIs == IInv => Staged
<1> USE DEF IInv
<1> SUFFICES ASSUME IInv, NEW r \in Req
             PROVE  /\ Stage(r) = IF r \in Posted THEN "submitted"
                                  ELSE IF r \in Ran THEN "executed" ELSE "free"
                    /\ r \in Unrun => r \notin Ran
    BY DEF Staged
<1>1. \A t \in Thread : worker[t].req = r => t \in Busy
    BY PoolAssumption DEF Busy
<1>2. r \in Unrun => r \notin Ran
    BY <1>1 DEF Unrun, Ran, OnePlace
<1>3. \A t \in Thread : /\ worker[t] = [pc |-> "work", req |-> r] <=>
                               worker[t].pc = "work" /\ worker[t].req = r
                        /\ worker[t] = [pc |-> "insert", req |-> r] <=>
                               worker[t].pc = "insert" /\ worker[t].req = r
    BY DEF Types, UTypeOK, PoolTypeOK
<1>4. r \in Posted <=> \/ r \in Elements(wq)
                       \/ \E t \in Thread : worker[t] = [pc |-> "work", req |-> r]
    BY <1>1, <1>3 DEF Posted, Unrun, OnePlace
<1>5. r \in Ran <=> \/ r \in Elements(loopWq) \cup Elements(doneWq)
                    \/ \E t \in Thread : worker[t] = [pc |-> "insert", req |-> r]
    BY <1>3 DEF Ran
<1>6. r \in Posted => r \in Unrun
    BY DEF Posted
<1> QED BY <1>2, <1>4, <1>5, <1>6 DEF Stage

(* Every step of the pool, the loop and the helper is one of Requests, or    *)
(* none: a request that is being frozen, waits for a thread, is handed to    *)
(* the loop or is taken over by it does not change its stage.                *)
LEMMA StepOfRequests ==
    ASSUME IInv, [Next]_vars
    PROVE  [Abstract!Next]_(Abstract!rvars)
<1> DEFINE stage == [r \in Req |-> Stage(r)]
<1>1. IInv'
    BY NextIInv
<1>2. Staged /\ Staged'
    <2>1. IInv' => Staged'
        BY StageIs, PTL
    <2> QED BY <1>1, <2>1, StageIs
<1>3. ASSUME NEW r \in Req, Posted' = Posted \cup {r}, Ran' = Ran, r \notin Unrun \/ r = submitting,
             r \notin Ran, inside' = inside
      PROVE  Abstract!Submit(r)
    <2>1. stage[r] = "free" /\ stage' = [stage EXCEPT ![r] = "submitted"]
        BY <1>2, <1>3 DEF Staged, Posted
    <2> QED BY <1>3, <2>1 DEF Abstract!Submit, Abstract!Move
<1>4. ASSUME NEW r \in Req, Posted' = Posted \ {r}, Ran' = Ran \cup {r}, r \in Posted, inside' = inside
      PROVE  Abstract!Execute(r)
    <2>1. stage[r] = "submitted" /\ stage' = [stage EXCEPT ![r] = "executed"]
        BY <1>2, <1>4 DEF Staged
    <2> QED BY <1>4, <2>1 DEF Abstract!Execute, Abstract!Move
<1>5. ASSUME NEW r \in Req, Posted' = Posted, Ran' = Ran \ {r}, r \in Ran,
             inside = none, inside' = r
      PROVE  Abstract!Call(r)
    <2>1. stage[r] = "executed" /\ stage' = [stage EXCEPT ![r] = "free"]
        BY <1>2, <1>5 DEF Staged, Posted
    <2> QED BY <1>5, <2>1 DEF Abstract!Call, Abstract!Move
<1>6. ASSUME Posted' = Posted, Ran' = Ran PROVE stage' = stage
    BY <1>2, <1>6 DEF Staged
<1>7. ASSUME Posted' = Posted, Ran' = Ran, inside' = inside PROVE UNCHANGED Abstract!rvars
    BY <1>6, <1>7 DEF Abstract!rvars
<1>8. CASE Submit
    <2>1. /\ Unrun' = Unrun /\ Ran' = Ran /\ submitting' = none /\ inside' = inside
          /\ submitting \in Req
        BY <1>8, SubmitIInv DEF Submit, IInv, Types
    <2>2. submitting \in Unrun /\ none \notin Unrun
        BY <2>1, PoolAssumption DEF Unrun
    <2>3. Posted' = Posted \cup {submitting} /\ submitting \notin Ran
        BY <1>2, <2>1, <2>2 DEF Posted, Staged
    <2>4. Abstract!Submit(submitting)
        BY <1>3, <2>1, <2>3
    <2> QED BY <2>1, <2>4 DEF Abstract!Next
<1>9. CASE DispatchFS \/ DispatchAfter
    <2> DEFINE r == doneWq[1]
    <2>1. CallDone /\ UNCHANGED <<submitting, fn>> /\ inside' = r
        BY <1>9 DEF DispatchFS, DispatchAfter
    <2>2. r \in Req /\ r \in Ran /\ Unrun' = Unrun /\ Ran' = Ran \ {r} /\ loop = "done"
        BY <2>1, CallDoneFacts
    <2>3. inside = none
        BY <2>2 DEF IInv, Threads
    <2>4. Posted' = Posted
        BY <2>1, <2>2 DEF Posted
    <2> HIDE DEF r
    <2>5. Abstract!Call(r)
        BY <1>5, <2>1, <2>2, <2>3, <2>4
    <2> QED BY <2>2, <2>5 DEF Abstract!Next
<1>10. CASE CallbackReturns
    <2>1. Unrun' = Unrun /\ Ran' = Ran /\ submitting' = submitting
        BY <1>10, CallbackReturnsIInv DEF CallbackReturns, helperVars
    <2>2. stage' = stage
        BY <1>6, <2>1 DEF Posted
    <2>3. inside # none /\ inside' = none
        BY <1>10 DEF CallbackReturns, CallReturns, IInv, Threads
    <2> QED BY <2>2, <2>3 DEF Abstract!Next, Abstract!Return
<1>11. ASSUME NEW t \in Thread, RunWork(t) \/ FsWork(t) PROVE Abstract!Next
    <2> DEFINE r == worker[t].req
    <2>1. Executed(t) /\ UNCHANGED <<submitting, inside>>
        BY <1>11 DEF RunWork, FsWork, helperVars
    <2>2. r \in Req /\ r \in Unrun /\ Unrun' = Unrun \ {r} /\ Ran' = Ran \cup {r} /\ r # submitting
        BY <2>1, ExecutedFacts
    <2> HIDE DEF r
    <2>3. Posted' = Posted \ {r} /\ r \in Posted
        BY <2>1, <2>2 DEF Posted
    <2>4. Abstract!Execute(r)
        BY <1>4, <2>1, <2>2, <2>3
    <2> QED BY <2>2, <2>4 DEF Abstract!Next
<1>12. ASSUME NEW r \in Req, Freeze(r) PROVE UNCHANGED Abstract!rvars
    <2>1. /\ Unrun' = Unrun \cup {r} /\ Ran' = Ran /\ submitting' = r /\ inside' = inside
          /\ submitting = none /\ r \notin InFlight
        BY <1>12, FreezeIInv DEF Freeze
    <2>2. r \notin Unrun /\ none \notin Unrun
        BY <2>1, PoolAssumption DEF Unrun, InFlight
    <2>3. Posted' = Posted
        BY <2>1, <2>2 DEF Posted
    <2> QED BY <1>7, <2>1, <2>3
<1>13. ASSUME NEW t \in Thread, ThawWork(t) PROVE UNCHANGED Abstract!rvars
    <2>1. Unrun' = Unrun /\ Ran' = Ran /\ submitting' = submitting /\ inside' = inside
        BY <1>13, ThawWorkIInv DEF ThawWork
    <2> QED BY <1>7, <2>1 DEF Posted
<1>14. ASSUME NEW t \in Thread, UNCHANGED <<helperVars, uses, calls, inside>>,
              \/ WorkerWaits(t) \/ WorkerTakes(t) \/ Insert(t) \/ WriteEventfd(t) \/ Sent(t)
              \/ SpuriousWakeup(t)
       PROVE  UNCHANGED Abstract!rvars
    <2>1. Unrun' = Unrun /\ Ran' = Ran
        BY <1>14, WorkerWaitsIInv, WorkerTakesIInv, InsertIInv, WriteEventfdIInv, SentIInv,
           SpuriousWakeupIInv
    <2>2. Posted' = Posted /\ inside' = inside
        BY <1>14, <2>1 DEF Posted, helperVars
    <2> QED BY <1>7, <2>1, <2>2
<1>15. CASE /\ submitting = none
            /\ RunLoop \/ RunReturns \/ Poll \/ Spin \/ TakeDone \/ AllDone
            /\ UNCHANGED <<helperVars, uses, calls, inside>>
    <2>1. Unrun' = Unrun /\ Ran' = Ran
        BY <1>15, LoopGoesOnIInv, TakeDoneIInv
    <2>2. Posted' = Posted /\ inside' = inside
        BY <1>15, <2>1 DEF Posted, helperVars
    <2> QED BY <1>7, <2>1, <2>2
<1>16. CASE UNCHANGED vars
    <2>1. Posted' = Posted /\ Ran' = Ran /\ inside' = inside
        BY <1>16 DEF vars, poolVars, helperVars, Posted, Unrun, Ran
    <2> QED BY <1>7, <2>1
<1> QED BY <1>8, <1>9, <1>10, <1>11, <1>12, <1>13, <1>14, <1>15, <1>16
        DEF Next, LoopStep, WorkerStep

(* What Input, Output and Sector rely on: every request that is submitted is *)
(* executed at most once, then called back at most once, one callback at a   *)
(* time.  (That it happens in the end is left to the run.)                   *)
THEOREM RequestsImplemented == Spec => Abstract!Init /\ [][Abstract!Next]_(Abstract!rvars)
<1>1. Init => Abstract!Init
    <2> SUFFICES ASSUME Init PROVE Abstract!Init
        OBVIOUS
    <2>1. Staged /\ inside = none
        BY InitIInv, StageIs DEF Init
    <2>2. Unrun = {} /\ Ran = {}
        BY PoolAssumption DEF Init, PoolInit, Unrun, Ran, Elements
    <2>3. \A r \in Req : Stage(r) = "free"
        BY <2>1, <2>2 DEF Staged, Posted
    <2> QED BY <2>1, <2>3 DEF Abstract!Init
<1> QED BY <1>1, StepOfRequests, IInvHolds, PTL DEF Spec
=============================================================================
