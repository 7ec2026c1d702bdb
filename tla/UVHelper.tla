------------------------------ MODULE UVHelper ------------------------------
(***************************************************************************)
(* UVHelper (src/src/uv_helper.h), which lets maxcso's components pass     *)
(* closures as callbacks of libuv's requests: a closure is kept in a table *)
(* under a ticket, the ticket travels in the request's data field, and     *)
(* Dispatch moves the closure out again.  The tables belong to the whole   *)
(* process and are guarded by one mutex; the work callbacks are moved out  *)
(* by the worker threads.                                                  *)
(*                                                                         *)
(* A closure is named by the request it was given with and by how often    *)
(* that request had been used.  Requests are used as Input, Output and     *)
(* Sector use theirs: again and again, from the request's own callback on, *)
(* but never while it is in flight.                                        *)
(***************************************************************************)
EXTENDS ThreadPool

CONSTANTS
    FsReq,          \* the requests that are uv_fs_t; the others are uv_work_t
    MaxTickets      \* bound: the requests submitted in a behaviour

ASSUME ReqAssumption ==
    FsReq \subseteq Req /\ MaxTickets \in Nat /\ none \notin (Req \cup {none}) \X Nat

VARIABLES
    nextTicket,     \* nextTicket_
    fsFuncs,        \* fs_funcs_: ticket -> closure
    workFuncs,      \* work_funcs_: ticket -> the pair of closures
    data,           \* the data field of each request
    submitting,     \* the request between Freeze and the call of libuv
    fn,             \* the work closure on each worker's stack
    uses,           \* history: how often each request has been submitted
    calls,          \* history: the closures called with each request
    inside          \* history: the request whose callback is being run

helperVars == <<nextTicket, fsFuncs, workFuncs, data, submitting, fn>>
vars == <<poolVars, helperVars, uses, calls, inside>>

Put(table, k, v) == [x \in DOMAIN table \cup {k} |-> IF x = k THEN v ELSE table[x]]
Erase(table, k) == [x \in DOMAIN table \ {k} |-> table[x]]

(* unordered_map::at throws if nothing is under the key, and so does the   *)
(* call of a closure that has been moved out.                              *)
Thrown == <<none, 0>>
At(table, k) == IF k \in DOMAIN table THEN table[k] ELSE Thrown

Init ==
    /\ PoolInit
    /\ nextTicket = 0 /\ fsFuncs = <<>> /\ workFuncs = <<>>
    /\ data = [r \in Req |-> 0] /\ submitting = none
    /\ fn = [t \in Thread |-> none]
    /\ uses = [r \in Req |-> 0] /\ calls = [r \in Req |-> <<>>] /\ inside = none

InFlight == Elements(wq) \cup Elements(loopWq) \cup Elements(doneWq)
            \cup {worker[t].req : t \in Thread} \cup {submitting}

Called(r, closure, role) == calls' = [calls EXCEPT ![r] = Append(@, <<closure, role>>)]

-----------------------------------------------------------------------------
(* fs_open, fs_read, fs_write, fs_fstat and queue_work: Freeze, then libuv.  *)
(* All are called on the loop's thread, from a callback or before uv_run.    *)

Freeze(r) ==
    /\ loop \in {"out", "callback"} /\ submitting = none
    /\ r \in Req \ InFlight /\ nextTicket < MaxTickets
    /\ nextTicket' = nextTicket + 1
    /\ uses' = [uses EXCEPT ![r] = @ + 1]
    /\ LET cb == <<r, uses'[r]>> IN
       \/ /\ r \in FsReq /\ fsFuncs' = Put(fsFuncs, nextTicket', cb)
          /\ UNCHANGED workFuncs
       \/ /\ r \notin FsReq
          /\ workFuncs' = Put(workFuncs, nextTicket', [work |-> cb, after |-> cb])
          /\ UNCHANGED fsFuncs
    /\ data' = [data EXCEPT ![r] = nextTicket']
    /\ submitting' = r
    /\ UNCHANGED <<poolVars, fn, calls, inside>>

Submit ==
    /\ submitting # none /\ Post(submitting)
    /\ submitting' = none
    /\ UNCHANGED <<nextTicket, fsFuncs, workFuncs, data, fn, uses, calls, inside>>

-----------------------------------------------------------------------------
(* Mutant of ThawWork: it erases the pair, as ThawFS does its closure.       *)
ThawWorkErases(t) ==
    /\ worker[t].pc = "work" /\ worker[t].req \notin FsReq /\ fn[t] = none
    /\ LET ticket == data[worker[t].req] IN
       /\ fn' = [fn EXCEPT ![t] = workFuncs[ticket].work]
       /\ workFuncs' = Erase(workFuncs, ticket)
    /\ UNCHANGED <<poolVars, nextTicket, fsFuncs, data, submitting, uses, calls, inside>>

(* Dispatch of a uv_work_t, on a worker: ThawWork moves the closure out of   *)
(* the table, in which the pair stays, and it is called without the mutex.   *)
ThawWork(t) ==
    /\ worker[t].pc = "work" /\ worker[t].req \notin FsReq /\ fn[t] = none
    /\ LET ticket == data[worker[t].req] IN
       IF ticket \in DOMAIN workFuncs
       THEN /\ fn' = [fn EXCEPT ![t] = workFuncs[ticket].work]
            /\ workFuncs' = [workFuncs EXCEPT ![ticket].work = Thrown]
       ELSE fn' = [fn EXCEPT ![t] = Thrown] /\ UNCHANGED workFuncs
    /\ UNCHANGED <<poolVars, nextTicket, fsFuncs, data, submitting, uses, calls, inside>>

RunWork(t) ==
    /\ worker[t].pc = "work" /\ fn[t] # none
    /\ Executed(t)
    /\ Called(worker[t].req, fn[t], "work")
    /\ fn' = [fn EXCEPT ![t] = none]
    /\ UNCHANGED <<nextTicket, fsFuncs, workFuncs, data, submitting, uses, inside>>

(* uv__fs_work: the system call, and no closure.                             *)
FsWork(t) ==
    /\ worker[t].req \in FsReq
    /\ Executed(t)
    /\ UNCHANGED <<helperVars, uses, calls, inside>>

(* Dispatch of a uv_fs_t and of finished work, on the loop's thread:         *)
(* the closure leaves the table before it is called, so that the callback    *)
(* may use the request, and its data field, again.                           *)
DispatchFS ==
    /\ CallDone
    /\ LET r == doneWq[1] IN
       /\ r \in FsReq
       /\ Called(r, At(fsFuncs, data[r]), "fs")
       /\ fsFuncs' = Erase(fsFuncs, data[r])
       /\ inside' = r
    /\ UNCHANGED <<nextTicket, workFuncs, data, submitting, fn, uses>>

DispatchAfter ==
    /\ CallDone
    /\ LET r == doneWq[1] IN
       /\ r \notin FsReq
       /\ Called(r, IF data[r] \in DOMAIN workFuncs THEN workFuncs[data[r]].after ELSE Thrown,
                 "after")
       /\ workFuncs' = Erase(workFuncs, data[r])
       /\ inside' = r
    /\ UNCHANGED <<nextTicket, fsFuncs, data, submitting, fn, uses>>

CallbackReturns ==
    /\ submitting = none /\ CallReturns
    /\ inside' = none
    /\ UNCHANGED <<helperVars, uses, calls>>

-----------------------------------------------------------------------------
(* What one worker does by itself, and the loop's thread.  Nobody is bound   *)
(* to submit anything; once Freeze has returned, libuv is called.            *)

WorkerStep(t) ==
    \/ ThawWork(t) \/ RunWork(t) \/ FsWork(t)
    \/ /\ WorkerWaits(t) \/ WorkerTakes(t) \/ Insert(t) \/ WriteEventfd(t) \/ Sent(t)
       /\ UNCHANGED <<helperVars, uses, calls, inside>>

LoopStep ==
    \/ Submit \/ DispatchFS \/ DispatchAfter \/ CallbackReturns
    \/ /\ submitting = none
       /\ RunLoop \/ RunReturns \/ Poll \/ Spin \/ TakeDone \/ AllDone
       /\ UNCHANGED <<helperVars, uses, calls, inside>>

Next ==
    \/ LoopStep
    \/ \E r \in Req : Freeze(r)
    \/ \E t \in Thread : WorkerStep(t)
    \/ \E t \in Thread : SpuriousWakeup(t) /\ UNCHANGED <<helperVars, uses, calls, inside>>

(* The loop's thread and every worker go on whenever they can.               *)
Spec == Init /\ [][Next]_vars /\ WF_vars(LoopStep) /\ \A t \in Thread : WF_vars(WorkerStep(t))

-----------------------------------------------------------------------------
(* Properties *)

(* The pool's and the helper's fields have their types; in particular          *)
(* idle_threads and active_reqs.count, which are unsigned, never pass zero.    *)
UTypeOK ==
    /\ PoolTypeOK
    /\ nextTicket \in 0 .. MaxTickets
    /\ DOMAIN fsFuncs \subseteq 1 .. nextTicket /\ DOMAIN workFuncs \subseteq 1 .. nextTicket
    /\ data \in [Req -> 0 .. nextTicket]

(* Whatever the threads and the loop do to the tables in between, the calls    *)
(* made with a request are the closures given with it, each once and in the    *)
(* order of its uses, a work callback before its after-work callback; no       *)
(* ticket is looked up in vain and no closure called that has been moved out.  *)
CallsMatch ==
    \A r \in Req : \A i \in DOMAIN calls[r] :
        calls[r][i] = IF r \in FsReq THEN <<<<r, i>>, "fs">>
                      ELSE <<<<r, (i + 1) \div 2>>, IF i % 2 = 1 THEN "work" ELSE "after">>

(* When uv_run returns nothing is queued, executed or waiting for its          *)
(* callback, and no closure is left in the tables: the task may be destroyed   *)
(* although closures capture its `this`.                                       *)
QuietAtReturn ==
    loop = "out" /\ activeReqs = 0 /\ submitting = none =>
        /\ InFlight \subseteq {none}
        /\ DOMAIN fsFuncs = {} /\ DOMAIN workFuncs = {}

(* Every request that is submitted gets its last callback and uv_run returns.  *)
RunsDry == <>[](loop = "out" /\ InFlight \subseteq {none})

(* The pool, the loop and the helper together are what their users take them   *)
(* for, including that every request is executed and called back in the end.   *)
Stage(r) ==
    CASE r \in Elements(wq) \/ \E t \in Thread : worker[t] = [pc |-> "work", req |-> r]
            -> "submitted"
      [] \/ r \in Elements(loopWq) \cup Elements(doneWq)
         \/ \E t \in Thread : worker[t] = [pc |-> "insert", req |-> r] -> "executed"
      [] OTHER -> "free"

Abstract == INSTANCE Requests WITH stage <- [r \in Req |-> Stage(r)]

ImplementsRequests == Abstract!Spec
=============================================================================
