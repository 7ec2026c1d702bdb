----------------------------- MODULE ThreadPool -----------------------------
(***************************************************************************)
(* libuv's thread pool and the event loop it reports to, as far as maxcso  *)
(* uses them (src/libuv/src/threadpool.c, src/libuv/src/unix/async.c,      *)
(* src/libuv/src/unix/core.c).                                             *)
(*                                                                         *)
(* A request is posted to the queue wq under the pool's mutex; a worker    *)
(* takes it, executes it, appends it to the loop's queue under the loop's  *)
(* wq_mutex and wakes the loop through an eventfd.  maxcso's requests are  *)
(* of the kinds CPU and FAST_IO, so the queue for slow I/O stays empty;    *)
(* none is cancelled, and the threads run until the process ends.          *)
(*                                                                         *)
(* What is done under the pool's mutex is one step.  wq_mutex is held      *)
(* across the three steps of uv_async_send, whose field `pending` the loop *)
(* reads without it.                                                       *)
(***************************************************************************)
EXTENDS Integers, FiniteSets, Sequences

CONSTANTS
    Req,            \* the uv_fs_t and uv_work_t structures
    Thread,         \* the threads of the pool
    none

ASSUME PoolAssumption == none \notin Req /\ IsFiniteSet(Thread) /\ Thread # {}

VARIABLES
    wq,             \* the pool's queue
    worker,         \* [pc, req] of each thread
    idleThreads,    \* idle_threads
    loopWq,         \* loop->wq
    pending,        \* loop->wq_async.pending
    eventfd,        \* the loop's eventfd is readable
    loop,           \* where the loop's thread is
    doneWq,         \* the queue uv__work_done has taken over
    activeReqs      \* loop->active_reqs.count

poolVars == <<wq, worker, idleThreads, loopWq, pending, eventfd, loop, doneWq, activeReqs>>

Elements(q) == {q[i] : i \in DOMAIN q}
Waiting == {t \in Thread : worker[t].pc = "wait"}
SetPc(t, pc) == worker' = [worker EXCEPT ![t].pc = pc]

(* A worker is inside uv_async_send, and holds the loop's wq_mutex.        *)
WqLocked == \E t \in Thread : worker[t].pc \in {"write", "sent"}

PoolInit ==
    /\ wq = <<>> /\ worker = [t \in Thread |-> [pc |-> "lock", req |-> none]]
    /\ idleThreads = 0
    /\ loopWq = <<>> /\ pending = 0 /\ eventfd = FALSE
    /\ loop = "out" /\ doneWq = <<>> /\ activeReqs = 0

-----------------------------------------------------------------------------
(* Mutant of Post: no thread is signalled.                                   *)
PostUnsignalled(r) ==
    /\ activeReqs' = activeReqs + 1
    /\ wq' = Append(wq, r)
    /\ UNCHANGED <<worker, idleThreads, loopWq, pending, eventfd, loop, doneWq>>

(* Mutant of Post: the request is not registered.                            *)
PostUnregistered(r) ==
    /\ wq' = Append(wq, r)
    /\ \/ /\ idleThreads > 0
          /\ \E t \in Waiting : SetPc(t, "woken")
       \/ (idleThreads = 0 \/ Waiting = {}) /\ UNCHANGED worker
    /\ UNCHANGED <<idleThreads, loopWq, pending, eventfd, loop, doneWq, activeReqs>>

(* uv_queue_work or uv_fs_*: the request is registered with the loop and     *)
(* posted.  A thread that was signalled counts as idle until it holds the    *)
(* mutex again, so a signal may find nobody waiting.                         *)
Post(r) ==
    /\ activeReqs' = activeReqs + 1
    /\ wq' = Append(wq, r)
    /\ \/ /\ idleThreads > 0
          /\ \E t \in Waiting : SetPc(t, "woken")
       \/ (idleThreads = 0 \/ Waiting = {}) /\ UNCHANGED worker
    /\ UNCHANGED <<idleThreads, loopWq, pending, eventfd, loop, doneWq>>

-----------------------------------------------------------------------------
(* worker(): with the mutex, at the head of its loop or back from            *)
(* uv_cond_wait.                                                             *)

WorkerWaits(t) ==
    /\ worker[t].pc \in {"lock", "woken"} /\ wq = <<>>
    /\ SetPc(t, "wait")
    /\ idleThreads' = IF worker[t].pc = "woken" THEN idleThreads ELSE idleThreads + 1
    /\ UNCHANGED <<wq, loopWq, pending, eventfd, loop, doneWq, activeReqs>>

(* Mutant of WorkerTakes: idle_threads is decremented by a thread that never *)
(* waited.                                                                   *)
WorkerTakesUncounted(t) ==
    /\ worker[t].pc \in {"lock", "woken"} /\ wq # <<>>
    /\ worker' = [worker EXCEPT ![t] = [pc |-> "work", req |-> Head(wq)]]
    /\ wq' = Tail(wq)
    /\ idleThreads' = idleThreads - 1
    /\ UNCHANGED <<loopWq, pending, eventfd, loop, doneWq, activeReqs>>

WorkerTakes(t) ==
    /\ worker[t].pc \in {"lock", "woken"} /\ wq # <<>>
    /\ worker' = [worker EXCEPT ![t] = [pc |-> "work", req |-> Head(wq)]]
    /\ wq' = Tail(wq)
    /\ idleThreads' = IF worker[t].pc = "woken" THEN idleThreads - 1 ELSE idleThreads
    /\ UNCHANGED <<loopWq, pending, eventfd, loop, doneWq, activeReqs>>

(* uv_cond_wait may return without a signal.                                 *)
SpuriousWakeup(t) ==
    /\ worker[t].pc = "wait" /\ SetPc(t, "woken")
    /\ UNCHANGED <<wq, idleThreads, loopWq, pending, eventfd, loop, doneWq, activeReqs>>

(* The return of w->work(w)                                                  *)
Executed(t) ==
    /\ worker[t].pc = "work" /\ SetPc(t, "insert")
    /\ UNCHANGED <<wq, idleThreads, loopWq, pending, eventfd, loop, doneWq, activeReqs>>

(* Under wq_mutex: the request is appended, then uv_async_send.  If pending  *)
(* is not 0 the loop is about to run and nothing more is done.               *)
Insert(t) ==
    /\ worker[t].pc = "insert" /\ ~WqLocked
    /\ loopWq' = Append(loopWq, worker[t].req)
    /\ pending' = IF pending = 0 THEN 1 ELSE pending
    /\ worker' = [worker EXCEPT ![t] = [pc |-> IF pending = 0 THEN "write" ELSE "lock",
                                        req |-> none]]
    /\ UNCHANGED <<wq, idleThreads, eventfd, loop, doneWq, activeReqs>>

WriteEventfd(t) ==
    /\ worker[t].pc = "write" /\ SetPc(t, "sent")
    /\ eventfd' = TRUE
    /\ UNCHANGED <<wq, idleThreads, loopWq, pending, loop, doneWq, activeReqs>>

Sent(t) ==
    /\ worker[t].pc = "sent" /\ SetPc(t, "lock")
    /\ pending' = 2
    /\ UNCHANGED <<wq, idleThreads, loopWq, eventfd, loop, doneWq, activeReqs>>

-----------------------------------------------------------------------------
(* uv_run: it returns when no request is active.                             *)

RunLoop ==
    /\ loop = "out" /\ activeReqs > 0
    /\ loop' = "poll"
    /\ UNCHANGED <<wq, worker, idleThreads, loopWq, pending, eventfd, doneWq, activeReqs>>

RunReturns ==
    /\ loop = "poll" /\ activeReqs = 0
    /\ loop' = "out"
    /\ UNCHANGED <<wq, worker, idleThreads, loopWq, pending, eventfd, doneWq, activeReqs>>

(* uv__io_poll finds the eventfd readable; uv__async_io empties it ...       *)
Poll ==
    /\ loop = "poll" /\ activeReqs > 0 /\ eventfd
    /\ eventfd' = FALSE /\ loop' = "spin"
    /\ UNCHANGED <<wq, worker, idleThreads, loopWq, pending, doneWq, activeReqs>>

(* Mutant of Spin: the handle is cleared after its callback has run.         *)
SpinKeepsPending ==
    /\ loop = "spin" /\ pending # 1
    /\ loop' = "take"
    /\ UNCHANGED <<wq, worker, idleThreads, loopWq, pending, eventfd, doneWq, activeReqs>>

(* ... and waits for the sender, if there still is one, to be done with the  *)
(* handle.                                                                   *)
Spin ==
    /\ loop = "spin" /\ pending # 1
    /\ pending' = 0
    /\ loop' = IF pending = 2 THEN "take" ELSE "poll"
    /\ UNCHANGED <<wq, worker, idleThreads, loopWq, eventfd, doneWq, activeReqs>>

(* Mutant of TakeDone: loop->wq is copied and not emptied.                   *)
TakeDoneCopies ==
    /\ loop = "take" /\ ~WqLocked
    /\ doneWq' = loopWq /\ UNCHANGED loopWq
    /\ loop' = "done"
    /\ UNCHANGED <<wq, worker, idleThreads, pending, eventfd, activeReqs>>

(* uv__work_done: everything that is done is taken over under wq_mutex ...   *)
TakeDone ==
    /\ loop = "take" /\ ~WqLocked
    /\ doneWq' = loopWq /\ loopWq' = <<>>
    /\ loop' = "done"
    /\ UNCHANGED <<wq, worker, idleThreads, pending, eventfd, activeReqs>>

(* ... and w->done called for each, which unregisters the request first.     *)
CallDone ==
    /\ loop = "done" /\ doneWq # <<>>
    /\ doneWq' = Tail(doneWq)
    /\ activeReqs' = activeReqs - 1
    /\ loop' = "callback"
    /\ UNCHANGED <<wq, worker, idleThreads, loopWq, pending, eventfd>>

CallReturns ==
    /\ loop = "callback" /\ loop' = "done"
    /\ UNCHANGED <<wq, worker, idleThreads, loopWq, pending, eventfd, doneWq, activeReqs>>

AllDone ==
    /\ loop = "done" /\ doneWq = <<>>
    /\ loop' = "poll"
    /\ UNCHANGED <<wq, worker, idleThreads, loopWq, pending, eventfd, doneWq, activeReqs>>

-----------------------------------------------------------------------------
(* Properties *)

PoolTypeOK ==
    /\ wq \in Seq(Req) /\ loopWq \in Seq(Req) /\ doneWq \in Seq(Req)
    /\ worker \in [Thread -> [pc : {"lock", "wait", "woken", "work", "insert", "write", "sent"},
                              req : Req \cup {none}]]
    /\ idleThreads \in Nat /\ activeReqs \in Nat
    /\ pending \in 0 .. 2 /\ eventfd \in BOOLEAN
    /\ loop \in {"out", "poll", "spin", "take", "done", "callback"}

(* Work never waits for a thread that sleeps, although the signal is given     *)
(* only if idle_threads says someone waits, and that count lags behind; and    *)
(* what a worker has handed to the loop is never left lying: as long as the    *)
(* loop's queue holds something, the loop is on its way to it, the eventfd is  *)
(* readable, or a worker is about to make it so.                               *)
NoLostWakeup ==
    /\ wq # <<>> => \E t \in Thread : worker[t].pc # "wait"
    /\ loopWq # <<>> =>
          \/ loop \in {"spin", "take"} \/ eventfd
          \/ \E t \in Thread : worker[t].pc = "write"
=============================================================================
