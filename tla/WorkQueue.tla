------------------------------ MODULE WorkQueue ------------------------------
(***************************************************************************)
(* WorkQueue<WorkItem> and the WorkerPool that owns it: the mutex/condvar   *)
(* queue between the threads of umap (fill workers, evict workers and the   *)
(* evict manager are WorkerPools).                                          *)
(*                                                                         *)
(* Every critical section of m_mutex is one step.  A thread asleep in       *)
(* pthread_cond_wait is "asleep"; a signal moves one such thread to         *)
(* "woken", from where it competes for the mutex like everyone else.        *)
(* A work item is abstracted to "WORK", or "LATE" when it was sent after    *)
(* stop_thread_pool was called, or "EXIT".                                  *)
(***************************************************************************)
EXTENDS Naturals, Sequences, FiniteSets

CONSTANTS Workers,   \* the threads of the pool
          Callers,   \* threads that call wait_for_idle
          MaxSends   \* bound: work items sent during a behaviour

ASSUME PoolAssumption ==
  /\ IsFiniteSet(Workers) /\ Workers # {}
  /\ IsFiniteSet(Callers)
  /\ MaxSends \in Nat

VARIABLES m_queue,            \* the list of work items, front first
          m_waiting_workers,  \* workers inside dequeue
          m_idle_waiters,     \* callers inside wait_for_idle
          worker,             \* where each pool thread is
          caller,             \* where each wait_for_idle caller is
          sends,              \* work items sent so far (bounded)
          exits,              \* EXIT items sent by the current stop_thread_pool
          stops               \* completed calls of stop_thread_pool

vars == <<m_queue, m_waiting_workers, m_idle_waiters, worker, caller,
          sends, exits, stops>>

m_max_waiting == Cardinality(Workers)

ItemType == {"WORK", "LATE", "EXIT"}

TypeOK ==
  /\ m_queue \in Seq(ItemType)
  /\ m_waiting_workers \in Nat
  /\ m_idle_waiters \in Nat
  /\ worker \in [Workers -> {"top", "asleep", "woken", "work", "exited"}]
  /\ caller \in [Callers -> {"out", "asleep", "woken"}]
  /\ sends \in 0..MaxSends
  /\ exits \in 0..m_max_waiting
  /\ stops \in 0..2

Init ==
  /\ m_queue = <<>>
  /\ m_waiting_workers = 0
  /\ m_idle_waiters = 0
  /\ worker = [w \in Workers |-> "top"]
  /\ caller = [c \in Callers |-> "out"]
  /\ sends = 0
  /\ exits = 0
  /\ stops = 0

-----------------------------------------------------------------------------
\* Mutant: the signal is forgotten.
NotSignalled(thread, thread1) == thread1 = thread

\* pthread_cond_signal on a condition variable: one sleeper, if there is one,
\* is woken.
Signalled(thread, thread1) ==
  LET asleep == {t \in DOMAIN thread : thread[t] = "asleep"} IN
  IF asleep = {}
  THEN thread1 = thread
  ELSE \E t \in asleep : thread1 = [thread EXCEPT ![t] = "woken"]

\* Mutant: new items go to the front of the list.
EnqueueFront(item) ==
  /\ m_queue' = <<item>> \o m_queue
  /\ Signalled(worker, worker')

enqueue(item) ==
  /\ m_queue' = Append(m_queue, item)
  /\ Signalled(worker, worker')

\* Mutant: a worker is not counted when it enters dequeue.
NotCounted(w) == m_waiting_workers

\* The counter as worker w sees it in the loop of dequeue: it counts itself once.
CountedIn(w) ==
  IF worker[w] = "top" THEN m_waiting_workers + 1 ELSE m_waiting_workers

\* Mutant: the front of the list is copied and left in place.
NotPopped(q) == q

pop_front(q) == Tail(q)

\* Worker w is in dequeue, holds the mutex and finds the queue empty: it tells
\* the idle waiter when it is the last one in, and goes to sleep.
DequeueSleep(w) ==
  /\ worker[w] \in {"top", "woken"}
  /\ m_queue = <<>>
  /\ m_waiting_workers' = CountedIn(w)
  /\ worker' = [worker EXCEPT ![w] = "asleep"]
  /\ IF m_waiting_workers' = m_max_waiting /\ m_idle_waiters # 0
     THEN Signalled(caller, caller')
     ELSE UNCHANGED caller
  /\ UNCHANGED <<m_queue, m_idle_waiters, sends, exits, stops>>

\* Worker w is in dequeue and finds work.  EXIT ends the thread: the
\* loops of FillWorker, EvictWorker and EvictMgr break on it.
DequeueTake(w) ==
  /\ worker[w] \in {"top", "woken"}
  /\ m_queue # <<>>
  /\ m_waiting_workers' = CountedIn(w) - 1
  /\ m_queue' = pop_front(m_queue)
  /\ worker' = [worker EXCEPT ![w] = IF Head(m_queue) = "EXIT" THEN "exited"
                                                               ELSE "work"]
  /\ UNCHANGED <<m_idle_waiters, caller, sends, exits, stops>>

\* The worker has dealt with its item and goes back to the top of its loop.
WorkDone(w) ==
  /\ worker[w] = "work"
  /\ worker' = [worker EXCEPT ![w] = "top"]
  /\ UNCHANGED <<m_queue, m_waiting_workers, m_idle_waiters, caller, sends,
                 exits, stops>>

\* POSIX lets a condition wait return without a signal; the loops re-test.
SpuriousWake ==
  /\ \/ /\ \E w \in Workers : worker[w] = "asleep"
                              /\ worker' = [worker EXCEPT ![w] = "woken"]
        /\ UNCHANGED caller
     \/ /\ \E c \in Callers : caller[c] = "asleep"
                              /\ caller' = [caller EXCEPT ![c] = "woken"]
        /\ UNCHANGED worker
  /\ UNCHANGED <<m_queue, m_waiting_workers, m_idle_waiters, sends, exits, stops>>

\* A client of the pool sends work, until the queue is deleted.
send_work ==
  /\ stops < 2
  /\ sends < MaxSends
  /\ enqueue(IF exits = 0 /\ stops = 0 THEN "WORK" ELSE "LATE")
  /\ sends' = sends + 1
  /\ UNCHANGED <<m_waiting_workers, m_idle_waiters, caller, exits, stops>>

-----------------------------------------------------------------------------
\* Mutant: callers of wait_for_idle are not serialised.
OnlyNotStopped == exits = 0 /\ stops = 0

\* wait_for_idle and stop_thread_pool are only called under the mutex of the
\* RegionManager (flush_buffer, removeRegion), so one caller at a time is in
\* wait_for_idle and none while the pool is being stopped.
RegionManagerMutexFree ==
  /\ \A c \in Callers : caller[c] = "out"
  /\ exits = 0 /\ stops = 0

IsIdle == m_queue = <<>> /\ m_waiting_workers = m_max_waiting

\* wait_for_idle finds the pool busy and sleeps: on its first test, when it
\* also counts itself, or after having been woken.
WaitForIdleSleep(c) ==
  /\ \/ /\ caller[c] = "out"
        /\ RegionManagerMutexFree
        /\ m_idle_waiters' = m_idle_waiters + 1
     \/ /\ caller[c] = "woken"
        /\ UNCHANGED m_idle_waiters
  /\ ~IsIdle
  /\ caller' = [caller EXCEPT ![c] = "asleep"]
  /\ UNCHANGED <<m_queue, m_waiting_workers, worker, sends, exits, stops>>

\* wait_for_idle returns after having slept.  (When the pool is idle on the
\* first test it returns at once and changes nothing.)
WaitForIdleReturn(c) ==
  /\ caller[c] = "woken"
  /\ IsIdle
  /\ caller' = [caller EXCEPT ![c] = "out"]
  /\ m_idle_waiters' = m_idle_waiters - 1
  /\ UNCHANGED <<m_queue, m_waiting_workers, worker, sends, exits, stops>>

\* One turn of the first loop of stop_thread_pool.  The destructor of the
\* pool's subclass calls stop_thread_pool, and ~WorkerPool calls it again.
StopSend ==
  /\ \A c \in Callers : caller[c] = "out"
  /\ stops < 2
  /\ exits < m_max_waiting
  /\ enqueue("EXIT")
  /\ exits' = exits + 1
  /\ UNCHANGED <<m_waiting_workers, m_idle_waiters, caller, sends, stops>>

\* All threads joined.  On the second call m_threads is empty.  The pool
\* deletes its queue after that.
StopJoin ==
  /\ stops < 2
  /\ exits = m_max_waiting
  /\ stops = 0 => \A w \in Workers : worker[w] = "exited"
  /\ stops' = stops + 1
  /\ exits' = 0
  /\ UNCHANGED <<m_queue, m_waiting_workers, m_idle_waiters, worker, caller,
                 sends>>

\* The pool is gone.
Deleted == stops = 2 /\ UNCHANGED vars

Next ==
  \/ \E w \in Workers : DequeueSleep(w) \/ DequeueTake(w) \/ WorkDone(w)
  \/ \E c \in Callers : WaitForIdleSleep(c) \/ WaitForIdleReturn(c)
  \/ SpuriousWake
  \/ send_work
  \/ StopSend
  \/ StopJoin
  \/ Deleted

Spec == Init /\ [][Next]_vars

\* The operating system schedules every runnable thread, the handling of an
\* item ends, and a caller that was woken gets the mutex.  Nobody has to send
\* work, call wait_for_idle or stop the pool; but a stop that was begun is
\* carried on.
Fairness ==
  /\ \A w \in Workers : WF_vars(DequeueSleep(w) \/ DequeueTake(w) \/ WorkDone(w))
  /\ \A c \in Callers : WF_vars(caller[c] = "woken"
                                /\ (WaitForIdleSleep(c) \/ WaitForIdleReturn(c)))
  /\ WF_vars((exits > 0 \/ stops = 1) /\ (StopSend \/ StopJoin))

FairSpec == Spec /\ Fairness

-----------------------------------------------------------------------------
InDequeue(w) == worker[w] \in {"asleep", "woken"}

\* m_waiting_workers is the number of workers inside dequeue, and
\* m_idle_waiters the number of callers inside wait_for_idle, whatever the
\* order in which workers enter, sleep, are woken and leave (lines 50, 59, 70
\* and 75 of WorkQueue.hpp).
CountersExact ==
  /\ m_waiting_workers = Cardinality({w \in Workers : InDequeue(w)})
  /\ m_idle_waiters = Cardinality({c \in Callers : caller[c] # "out"})

\* enqueue wakes one worker only (line 43).  That is enough: while a worker
\* sleeps, there are at least as many woken workers as items in the queue.
NoLostSignal ==
  (\E w \in Workers : worker[w] = "asleep")
    => Len(m_queue) <= Cardinality({w \in Workers : worker[w] = "woken"})

\* dequeue tells the idle waiter from a single place (lines 53-54).  That is
\* enough: no caller of wait_for_idle sleeps while the pool is idle.
NoMissedIdle ==
  IsIdle => \A c \in Callers : caller[c] # "asleep"

\* When stop_thread_pool has joined the threads, all work that was sent before
\* it was called has been dealt with.
StopDrains ==
  (\A w \in Workers : worker[w] = "exited")
    => \A i \in 1..Len(m_queue) : m_queue[i] # "WORK"

\* A caller of wait_for_idle returns only when no item is queued and no worker
\* is busy with one.
IdleSound ==
  [][\A c \in Callers :
       caller[c] # "out" /\ caller'[c] = "out"
         => m_queue = <<>> /\ \A w \in Workers : worker[w] # "work"]_vars

\* A call of wait_for_idle returns: the number of sends is bounded here, so the
\* pool runs out of work.
IdleReturns ==
  \A c \in Callers : caller[c] # "out" ~> caller[c] = "out"

\* A call of stop_thread_pool returns: every thread finds an EXIT.
PoolStops == exits > 0 ~> stops = 2

Pool == INSTANCE FifoPool WITH
  Items   <- ItemType,
  Exit    <- "EXIT",
  queue   <- m_queue,
  busy    <- {w \in Workers : worker[w] = "work"},
  gone    <- {w \in Workers : worker[w] = "exited"},
  waiting <- {c \in Callers : caller[c] # "out"}

\* The mutex, the two condition variables and the counters implement the
\* first-in first-out pool that the rest of umap relies on: each item is handed
\* to one worker, in the order of the sends, and wait_for_idle waits for all.
ImplementsFifoPool == Pool!PoolSpec
=============================================================================
