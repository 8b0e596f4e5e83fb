--------------------------- MODULE WorkQueueProofs ---------------------------
(***************************************************************************)
(* WorkQueue keeps its promises for any number of workers, callers and      *)
(* items.  The inductive invariant adds two facts to the checked ones: the  *)
(* users of wait_for_idle and stop_thread_pool exclude each other, and in   *)
(* the queue no work sent before stop_thread_pool is behind an EXIT.        *)
(***************************************************************************)
EXTENDS WorkQueue, FiniteSetTheorems, SequenceTheorems, TLAPS

Inside == {w \in Workers : InDequeue(w)}
Woken == {w \in Workers : worker[w] = "woken"}
Waiting == {c \in Callers : caller[c] # "out"}

StopBegun == exits > 0 \/ stops > 0

Serialised ==
  /\ \A c, d \in Callers : caller[c] # "out" /\ caller[d] # "out" => c = d
  /\ StopBegun => \A c \in Callers : caller[c] = "out"

WorkBeforeExit ==
  /\ \A i, j \in 1..Len(m_queue) : i < j /\ m_queue[i] = "EXIT" => m_queue[j] # "WORK"
  /\ (\E i \in 1..Len(m_queue) : m_queue[i] = "EXIT") => StopBegun
  /\ (\E w \in Workers : worker[w] = "exited")
       => StopBegun /\ \A i \in 1..Len(m_queue) : m_queue[i] # "WORK"

IInv ==
  /\ TypeOK
  /\ CountersExact
  /\ NoLostSignal
  /\ NoMissedIdle
  /\ Serialised
  /\ WorkBeforeExit

-----------------------------------------------------------------------------
\* Sets of workers and sets of callers are finite, and their size says whether
\* they are full or empty.
LEMMA WorkerCount ==
  ASSUME NEW S \in SUBSET Workers
  PROVE  /\ IsFiniteSet(S) /\ Cardinality(S) \in Nat
         /\ m_max_waiting \in Nat
         /\ Cardinality(S) = m_max_waiting => S = Workers
BY PoolAssumption, FS_Subset, FS_CardinalityType DEF m_max_waiting

LEMMA CallerCount ==
  ASSUME NEW S \in SUBSET Callers
  PROVE  /\ IsFiniteSet(S) /\ Cardinality(S) \in Nat
         /\ Cardinality(S) = 0 => S = {}
BY PoolAssumption, FS_Subset, FS_CardinalityType, FS_EmptySet

\* The counted sets, in any state and in the next one.
LEMMA CountedSets ==
  /\ Inside \in SUBSET Workers /\ Inside' \in SUBSET Workers
  /\ Woken \in SUBSET Workers /\ Woken' \in SUBSET Workers
  /\ Waiting \in SUBSET Callers /\ Waiting' \in SUBSET Callers
BY DEF Inside, Woken, Waiting

\* An item that is put into the queue signals a worker: the workers inside
\* dequeue stay the same and, if one was asleep, one more of them is awake.
LEMMA EnqueueEffect ==
  ASSUME TypeOK, NEW item \in ItemType, enqueue(item)
  PROVE  /\ m_queue' \in Seq(ItemType) /\ Len(m_queue') = Len(m_queue) + 1
         /\ m_queue'[Len(m_queue) + 1] = item
         /\ \A i \in 1..Len(m_queue) : m_queue'[i] = m_queue[i]
         /\ worker' \in [Workers -> {"top", "asleep", "woken", "work", "exited"}]
         /\ Inside' = Inside
         /\ \A w \in Workers : /\ worker'[w] = "work" <=> worker[w] = "work"
                               /\ worker'[w] = "exited" <=> worker[w] = "exited"
         /\ \/ worker' = worker /\ \A w \in Workers : worker[w] # "asleep"
            \/ Cardinality(Woken') = Cardinality(Woken) + 1
<1>1. m_queue \in Seq(ItemType) /\ m_queue' = Append(m_queue, item)
  BY DEF TypeOK, enqueue
<1>2. /\ m_queue' \in Seq(ItemType) /\ Len(m_queue') = Len(m_queue) + 1
      /\ m_queue'[Len(m_queue) + 1] = item
      /\ \A i \in 1..Len(m_queue) : m_queue'[i] = m_queue[i]
  BY <1>1, AppendProperties
<1>3. worker \in [Workers -> {"top", "asleep", "woken", "work", "exited"}]
  BY DEF TypeOK
<1>4. Signalled(worker, worker')
  BY DEF enqueue
<1>5. CASE worker' = worker /\ \A w \in Workers : worker[w] # "asleep"
  BY <1>2, <1>3, <1>5 DEF Inside, InDequeue
<1>6. CASE \E t \in Workers : worker[t] = "asleep" /\ worker' = [worker EXCEPT ![t] = "woken"]
  <2> PICK t \in Workers : worker[t] = "asleep" /\ worker' = [worker EXCEPT ![t] = "woken"]
    BY <1>6
  <2>1. Inside' = Inside
    BY <1>3 DEF Inside, InDequeue
  <2>2. Woken' = Woken \cup {t} /\ t \notin Woken
    BY <1>3 DEF Woken
  <2>3. Cardinality(Woken') = Cardinality(Woken) + 1
    BY <2>2, CountedSets, WorkerCount, FS_AddElement
  <2>4. worker' \in [Workers -> {"top", "asleep", "woken", "work", "exited"}]
    BY <1>3
  <2>5. \A w \in Workers : /\ worker'[w] = "work" <=> worker[w] = "work"
                           /\ worker'[w] = "exited" <=> worker[w] = "exited"
    BY <1>3
  <2> QED
    BY <1>2, <2>1, <2>3, <2>4, <2>5
<1>7. \/ worker' = worker /\ \A w \in Workers : worker[w] # "asleep"
      \/ \E t \in Workers : worker[t] = "asleep" /\ worker' = [worker EXCEPT ![t] = "woken"]
  BY <1>3, <1>4 DEF Signalled
<1> QED
  BY <1>5, <1>6, <1>7

-----------------------------------------------------------------------------
LEMMA InitIInv == Init => IInv
<1> SUFFICES ASSUME Init PROVE IInv
  OBVIOUS
<1>1. TypeOK
  BY PoolAssumption, FS_CardinalityType DEF Init, TypeOK, m_max_waiting
<1>2. Inside = {} /\ Waiting = {}
  BY DEF Init, Inside, InDequeue, Waiting
<1>3. CountersExact
  BY <1>2, FS_EmptySet DEF Init, CountersExact, Inside, Waiting
<1>4. NoLostSignal /\ NoMissedIdle /\ Serialised /\ WorkBeforeExit
  BY DEF Init, NoLostSignal, NoMissedIdle, Serialised, StopBegun, WorkBeforeExit
<1> QED
  BY <1>1, <1>3, <1>4 DEF IInv

\* dequeue finds the queue empty.
LEMMA DequeueSleepIInv ==
  ASSUME IInv, NEW w \in Workers, DequeueSleep(w)
  PROVE  IInv'
<1> USE DEF IInv, DequeueSleep
<1>1. worker \in [Workers -> {"top", "asleep", "woken", "work", "exited"}]
  BY DEF TypeOK
<1>2. /\ Inside' = Inside \cup {w}
      /\ w \in Inside <=> worker[w] = "woken"
      /\ Woken' \subseteq Woken
  BY <1>1 DEF Inside, Woken, InDequeue
<1>3. m_waiting_workers' = Cardinality(Inside')
  <2>1. m_waiting_workers = Cardinality(Inside)
    BY DEF CountersExact, Inside
  <2>2. Cardinality(Inside \cup {w}) = IF w \in Inside THEN Cardinality(Inside)
                                                      ELSE Cardinality(Inside) + 1
    BY CountedSets, WorkerCount, FS_AddElement
  <2> QED
    BY <1>2, <2>1, <2>2 DEF CountedIn
<1>4. \/ caller' = caller /\ (m_waiting_workers' = m_max_waiting /\ m_idle_waiters # 0
                              => \A c \in Callers : caller[c] # "asleep")
      \/ \E c \in Callers : caller[c] = "asleep" /\ caller' = [caller EXCEPT ![c] = "woken"]
  BY DEF Signalled, TypeOK
<1>5. caller' \in [Callers -> {"out", "asleep", "woken"}]
  BY <1>4 DEF TypeOK
<1>6. \A c \in Callers : caller'[c] = "out" <=> caller[c] = "out"
  BY <1>4 DEF TypeOK
<1>7. TypeOK'
  <2>1. m_waiting_workers' \in Nat
    BY <1>1 DEF TypeOK, CountedIn
  <2>2. worker' \in [Workers -> {"top", "asleep", "woken", "work", "exited"}]
    BY <1>1
  <2> QED
    BY <2>1, <2>2, <1>5 DEF TypeOK, m_max_waiting
<1>8. CountersExact'
  <2>1. Waiting' = Waiting
    BY <1>6 DEF Waiting
  <2> QED
    BY <1>3, <2>1 DEF CountersExact, Inside, Waiting
<1>9. NoLostSignal'
  <2>1. IsFiniteSet(Woken') /\ Cardinality(Woken') \in Nat
    BY CountedSets, WorkerCount
  <2>2. Len(m_queue') = 0
    OBVIOUS
  <2> QED
    BY <2>1, <2>2 DEF NoLostSignal, Woken
<1>10. NoMissedIdle'
  <2> SUFFICES ASSUME m_waiting_workers' = m_max_waiting, NEW c \in Callers,
                      caller'[c] = "asleep"
               PROVE  FALSE
    BY DEF NoMissedIdle, IsIdle, m_max_waiting
  <2>1. caller[c] = "asleep" /\ m_idle_waiters # 0
    <3>1. caller[c] = "asleep"
      BY <1>4 DEF TypeOK
    <3>2. c \in Waiting
      BY <3>1 DEF Waiting
    <3> QED
      BY <3>1, <3>2, CountedSets, CallerCount DEF CountersExact, Waiting
  <2>2. PICK d \in Callers : caller[d] = "asleep" /\ caller' = [caller EXCEPT ![d] = "woken"]
    BY <2>1, <1>4
  <2>3. d = c
    BY <2>1, <2>2 DEF Serialised
  <2> QED
    BY <2>2, <2>3 DEF TypeOK
<1>11. Serialised'
  BY <1>6 DEF Serialised, StopBegun
<1>12. WorkBeforeExit'
  BY <1>1 DEF WorkBeforeExit, StopBegun
<1> QED
  BY <1>7, <1>8, <1>9, <1>10, <1>11, <1>12

\* dequeue takes the item at the front.
LEMMA DequeueTakeIInv ==
  ASSUME IInv, NEW w \in Workers, DequeueTake(w)
  PROVE  IInv'
<1> USE DEF IInv, DequeueTake, pop_front
<1>1. worker \in [Workers -> {"top", "asleep", "woken", "work", "exited"}]
  BY DEF TypeOK
<1>2. /\ m_queue' \in Seq(ItemType) /\ Len(m_queue') = Len(m_queue) - 1 /\ Len(m_queue) > 0
      /\ \A i \in 1..Len(m_queue') : m_queue'[i] = m_queue[i + 1]
      /\ Head(m_queue) = m_queue[1] /\ m_queue[1] \in ItemType
  BY HeadTailProperties, EmptySeq, ElementOfSeq, LenProperties DEF TypeOK
<1>3. /\ Inside' = Inside \ {w} /\ w \notin Inside'
      /\ w \in Inside <=> worker[w] = "woken"
      /\ Woken' = Woken \ {w}
      /\ w \in Woken <=> worker[w] = "woken"
  BY <1>1 DEF Inside, Woken, InDequeue
<1>4. m_waiting_workers' = Cardinality(Inside') /\ m_waiting_workers' \in Nat
  <2>1. m_waiting_workers = Cardinality(Inside)
    BY DEF CountersExact, Inside
  <2>2. Cardinality(Inside \ {w}) = IF w \in Inside THEN Cardinality(Inside) - 1
                                                    ELSE Cardinality(Inside)
    BY CountedSets, WorkerCount, FS_RemoveElement
  <2>3. Cardinality(Inside) \in Nat /\ Cardinality(Inside') \in Nat
    BY CountedSets, WorkerCount
  <2> QED
    BY <1>3, <2>1, <2>2, <2>3 DEF CountedIn
<1>5. TypeOK'
  BY <1>1, <1>2, <1>4 DEF TypeOK, m_max_waiting
<1>6. CountersExact'
  BY <1>4 DEF CountersExact, Inside
<1>7. NoLostSignal'
  <2>1. Cardinality(Woken') >= Cardinality(Woken) - 1
    BY <1>3, CountedSets, WorkerCount, FS_RemoveElement
  <2>2. \A u \in Workers : worker'[u] = "asleep" => worker[u] = "asleep"
    BY <1>1
  <2>3. (\E u \in Workers : worker'[u] = "asleep") => Len(m_queue) <= Cardinality(Woken)
    BY <2>2 DEF NoLostSignal, Woken
  <2>4. Cardinality(Woken) \in Nat /\ Cardinality(Woken') \in Nat /\ Len(m_queue) \in Nat
    BY CountedSets, WorkerCount DEF TypeOK
  <2>5. (\E u \in Workers : worker'[u] = "asleep") => Len(m_queue') <= Cardinality(Woken')
    BY <1>2, <2>1, <2>3, <2>4
  <2> QED
    BY <2>5 DEF NoLostSignal, Woken
<1>8. NoMissedIdle'
  <2>1. m_waiting_workers' # m_max_waiting
    <3>1. Inside' # Workers
      BY <1>3
    <3> QED
      BY <3>1, <1>4, CountedSets, WorkerCount
  <2> QED
    BY <2>1 DEF NoMissedIdle, IsIdle, m_max_waiting
<1>9. Serialised'
  BY DEF Serialised, StopBegun
<1>10. WorkBeforeExit'
  <2>1. \A i \in 1..Len(m_queue') : i + 1 \in 1..Len(m_queue) /\ m_queue'[i] = m_queue[i + 1]
    BY <1>2 DEF TypeOK
  <2>2. \A i, j \in 1..Len(m_queue') : i < j /\ m_queue'[i] = "EXIT" => m_queue'[j] # "WORK"
    BY <2>1 DEF WorkBeforeExit
  <2>3. (\E i \in 1..Len(m_queue') : m_queue'[i] = "EXIT") => StopBegun'
    BY <2>1 DEF WorkBeforeExit, StopBegun
  <2>4. CASE Head(m_queue) = "EXIT"
    <3>1. 1 \in 1..Len(m_queue)
      BY <1>2 DEF TypeOK
    <3>2. \A i \in 1..Len(m_queue') : 1 < i + 1
      OBVIOUS
    <3>3. \A i \in 1..Len(m_queue') : m_queue'[i] # "WORK"
      BY <3>1, <3>2, <1>2, <2>1, <2>4 DEF WorkBeforeExit
    <3>4. StopBegun'
      BY <3>1, <1>2, <2>4 DEF WorkBeforeExit, StopBegun
    <3> QED
      BY <2>2, <2>3, <3>3, <3>4 DEF WorkBeforeExit
  <2>5. CASE Head(m_queue) # "EXIT"
    <3>1. \A u \in Workers : worker'[u] = "exited" => worker[u] = "exited"
      BY <1>1, <2>5
    <3>2. (\E u \in Workers : worker'[u] = "exited")
            => StopBegun' /\ \A i \in 1..Len(m_queue') : m_queue'[i] # "WORK"
      BY <3>1, <2>1 DEF WorkBeforeExit, StopBegun
    <3> QED
      BY <2>2, <2>3, <3>2 DEF WorkBeforeExit
  <2> QED
    BY <2>4, <2>5
<1> QED
  BY <1>5, <1>6, <1>7, <1>8, <1>9, <1>10

\* A worker has dealt with its item.
LEMMA WorkDoneIInv ==
  ASSUME IInv, NEW w \in Workers, WorkDone(w)
  PROVE  IInv'
<1> USE DEF IInv, WorkDone
<1>1. worker \in [Workers -> {"top", "asleep", "woken", "work", "exited"}]
  BY DEF TypeOK
<1>2. Inside' = Inside /\ Woken' = Woken
  BY <1>1 DEF Inside, Woken, InDequeue
<1>3. TypeOK'
  BY <1>1 DEF TypeOK, m_max_waiting
<1>4. CountersExact'
  BY <1>2 DEF CountersExact, Inside
<1>5. NoLostSignal'
  BY <1>1, <1>2 DEF NoLostSignal, Woken
<1>6. NoMissedIdle' /\ Serialised' /\ WorkBeforeExit'
  BY <1>1 DEF NoMissedIdle, IsIdle, m_max_waiting, Serialised, StopBegun, WorkBeforeExit
<1> QED
  BY <1>3, <1>4, <1>5, <1>6

\* A wait returns without a signal.
LEMMA SpuriousWakeIInv ==
  ASSUME IInv, SpuriousWake
  PROVE  IInv'
<1> USE DEF IInv
<1>1. worker \in [Workers -> {"top", "asleep", "woken", "work", "exited"}]
  BY DEF TypeOK
<1>2. caller \in [Callers -> {"out", "asleep", "woken"}]
  BY DEF TypeOK
<1>3. UNCHANGED <<m_queue, m_waiting_workers, m_idle_waiters, sends, exits, stops>>
  BY DEF SpuriousWake
<1>4. CASE UNCHANGED caller /\ \E w \in Workers : worker[w] = "asleep"
                                                  /\ worker' = [worker EXCEPT ![w] = "woken"]
  <2> PICK w \in Workers : worker[w] = "asleep" /\ worker' = [worker EXCEPT ![w] = "woken"]
    BY <1>4
  <2>1. Inside' = Inside /\ Woken' = Woken \cup {w} /\ w \notin Woken
    BY <1>1 DEF Inside, Woken, InDequeue
  <2>2. TypeOK'
    BY <1>1, <1>3, <1>4 DEF TypeOK, m_max_waiting
  <2>3. CountersExact'
    BY <1>3, <1>4, <2>1 DEF CountersExact, Inside
  <2>4. NoLostSignal'
    <3>1. Cardinality(Woken') = Cardinality(Woken) + 1 /\ Cardinality(Woken) \in Nat
      BY <2>1, CountedSets, WorkerCount, FS_AddElement
    <3>2. Len(m_queue) <= Cardinality(Woken)
      BY DEF NoLostSignal, Woken
    <3>3. Len(m_queue') <= Cardinality(Woken')
      BY <1>3, <3>1, <3>2 DEF TypeOK
    <3> QED
      BY <3>3 DEF NoLostSignal, Woken
  <2>5. NoMissedIdle' /\ Serialised' /\ WorkBeforeExit'
    BY <1>1, <1>3, <1>4
       DEF NoMissedIdle, IsIdle, m_max_waiting, Serialised, StopBegun, WorkBeforeExit
  <2> QED
    BY <2>2, <2>3, <2>4, <2>5
<1>5. CASE UNCHANGED worker /\ \E c \in Callers : caller[c] = "asleep"
                                                  /\ caller' = [caller EXCEPT ![c] = "woken"]
  <2>1. Waiting' = Waiting
    BY <1>2, <1>5 DEF Waiting
  <2>2. CountersExact'
    BY <1>3, <1>5, <2>1 DEF CountersExact, InDequeue, Waiting
  <2>3. TypeOK' /\ NoLostSignal' /\ NoMissedIdle' /\ Serialised' /\ WorkBeforeExit'
    BY <1>2, <1>3, <1>5 DEF TypeOK, NoLostSignal, NoMissedIdle, IsIdle, m_max_waiting,
                            Serialised, StopBegun, WorkBeforeExit
  <2> QED
    BY <2>2, <2>3
<1> QED
  BY <1>4, <1>5 DEF SpuriousWake

\* An item is put into the queue, by send_work or by stop_thread_pool.
LEMMA EnqueueIInv ==
  ASSUME IInv, send_work \/ StopSend
  PROVE  IInv'
<1> USE DEF IInv
<1>1. PICK item \in ItemType : /\ enqueue(item)
                               /\ item = "WORK" => ~StopBegun
                               /\ item = "EXIT" => StopBegun'
  BY DEF send_work, StopSend, ItemType, TypeOK, StopBegun
<1>2. UNCHANGED <<m_waiting_workers, m_idle_waiters, caller, stops>>
  BY DEF send_work, StopSend
<1>3. /\ sends' \in 0..MaxSends /\ exits' \in 0..m_max_waiting
      /\ StopBegun => StopBegun'
      /\ StopBegun' => \A c \in Callers : caller[c] = "out"
  <2>1. sends' \in 0..MaxSends
    BY PoolAssumption DEF send_work, StopSend, TypeOK
  <2>2. exits' \in 0..m_max_waiting
    BY WorkerCount, PoolAssumption DEF send_work, StopSend, TypeOK
  <2>3. StopBegun => StopBegun'
    BY DEF send_work, StopSend, TypeOK, StopBegun
  <2>4. StopBegun' => \A c \in Callers : caller[c] = "out"
    BY DEF send_work, StopSend, StopBegun, Serialised
  <2> QED
    BY <2>1, <2>2, <2>3, <2>4
<1>4. m_queue' \in Seq(ItemType) /\ Len(m_queue') = Len(m_queue) + 1
  BY <1>1, EnqueueEffect
<1>5. TypeOK'
  BY <1>1, <1>2, <1>3, EnqueueEffect DEF TypeOK, m_max_waiting
<1>6. CountersExact'
  BY <1>1, <1>2, EnqueueEffect DEF CountersExact, Inside
<1>7. NoLostSignal'
  <2>1. CASE worker' = worker /\ \A w \in Workers : worker[w] # "asleep"
    BY <2>1 DEF NoLostSignal
  <2>2. CASE Cardinality(Woken') = Cardinality(Woken) + 1
                /\ ~(\A w \in Workers : worker[w] # "asleep")
    <3>1. Len(m_queue) <= Cardinality(Woken)
      BY <2>2 DEF NoLostSignal, Woken
    <3>2. Len(m_queue') <= Cardinality(Woken')
      BY <1>4, <2>2, <3>1, CountedSets, WorkerCount DEF TypeOK
    <3> QED
      BY <3>2 DEF NoLostSignal, Woken
  <2>3. CASE /\ Cardinality(Woken') = Cardinality(Woken) + 1
             /\ \A w \in Workers : worker[w] # "asleep"
    BY <1>1, <2>3 DEF enqueue, Signalled, NoLostSignal, TypeOK
  <2> QED
    BY <1>1, <2>1, <2>2, <2>3, EnqueueEffect
<1>8. NoMissedIdle'
  BY <1>4 DEF NoMissedIdle, IsIdle, TypeOK
<1>9. Serialised'
  BY <1>2, <1>3 DEF Serialised
<1>10. WorkBeforeExit'
  <2>1. /\ m_queue'[Len(m_queue) + 1] = item /\ Len(m_queue) \in Nat
        /\ \A i \in 1..Len(m_queue) : m_queue'[i] = m_queue[i]
        /\ \A w \in Workers : worker'[w] = "exited" <=> worker[w] = "exited"
    BY <1>1, EnqueueEffect DEF TypeOK
  <2>2. \A i \in 1..Len(m_queue') : i \in 1..Len(m_queue) \/ i = Len(m_queue) + 1
    BY <1>4, <2>1
  <2>3. \A i, j \in 1..Len(m_queue') : i < j => i \in 1..Len(m_queue)
    BY <1>4, <2>1
  <2>4. \A i, j \in 1..Len(m_queue') : i < j /\ m_queue'[i] = "EXIT" => m_queue'[j] # "WORK"
    BY <1>1, <2>1, <2>2, <2>3 DEF WorkBeforeExit
  <2>5. (\E i \in 1..Len(m_queue') : m_queue'[i] = "EXIT") => StopBegun'
    <3> SUFFICES ASSUME NEW i \in 1..Len(m_queue'), m_queue'[i] = "EXIT" PROVE StopBegun'
      OBVIOUS
    <3>1. CASE i \in 1..Len(m_queue)
      BY <1>3, <2>1, <3>1 DEF WorkBeforeExit
    <3>2. CASE i = Len(m_queue) + 1
      BY <1>1, <2>1, <3>2
    <3> QED
      BY <2>2, <3>1, <3>2
  <2>6. (\E w \in Workers : worker'[w] = "exited")
          => StopBegun' /\ \A i \in 1..Len(m_queue') : m_queue'[i] # "WORK"
    BY <1>1, <1>3, <2>1, <2>2 DEF WorkBeforeExit
  <2> QED
    BY <2>4, <2>5, <2>6 DEF WorkBeforeExit
<1> QED
  BY <1>5, <1>6, <1>7, <1>8, <1>9, <1>10

\* A caller of wait_for_idle goes to sleep, or returns.
LEMMA WaitForIdleIInv ==
  ASSUME IInv, NEW c \in Callers, WaitForIdleSleep(c) \/ WaitForIdleReturn(c)
  PROVE  IInv'
<1> USE DEF IInv
<1>1. caller \in [Callers -> {"out", "asleep", "woken"}]
  BY DEF TypeOK
<1>2. UNCHANGED <<m_queue, m_waiting_workers, worker, sends, exits, stops>>
  BY DEF WaitForIdleSleep, WaitForIdleReturn
<1>3. NoLostSignal' /\ WorkBeforeExit'
  BY <1>2 DEF NoLostSignal, WorkBeforeExit, StopBegun
<1>4. m_waiting_workers' = Cardinality({w \in Workers : InDequeue(w)})'
  BY <1>2 DEF CountersExact, InDequeue
<1>5. m_idle_waiters = Cardinality(Waiting)
  BY DEF CountersExact, Waiting
<1>6. CASE WaitForIdleSleep(c)
  <2>1. caller' \in [Callers -> {"out", "asleep", "woken"}]
    BY <1>1, <1>6 DEF WaitForIdleSleep
  <2>2. Serialised'
    BY <1>1, <1>2, <1>6
       DEF WaitForIdleSleep, RegionManagerMutexFree, Serialised, StopBegun, TypeOK
  <2>3. Waiting' = Waiting \cup {c} /\ (c \in Waiting <=> caller[c] = "woken")
    BY <1>1, <1>6 DEF WaitForIdleSleep, Waiting
  <2>4. Cardinality(Waiting \cup {c}) = IF c \in Waiting THEN Cardinality(Waiting)
                                                         ELSE Cardinality(Waiting) + 1
    BY CountedSets, CallerCount, FS_AddElement
  <2>5. m_idle_waiters' = Cardinality(Waiting') /\ m_idle_waiters' \in Nat
    BY <1>5, <1>6, <2>3, <2>4, CountedSets, CallerCount DEF WaitForIdleSleep
  <2>6. TypeOK'
    BY <1>2, <2>1, <2>5 DEF TypeOK, m_max_waiting
  <2>7. NoMissedIdle'
    BY <1>2, <1>6 DEF WaitForIdleSleep, NoMissedIdle, IsIdle, m_max_waiting
  <2> QED
    BY <1>3, <1>4, <2>2, <2>5, <2>6, <2>7 DEF CountersExact, Waiting
<1>7. CASE WaitForIdleReturn(c)
  <2>1. caller' \in [Callers -> {"out", "asleep", "woken"}]
    BY <1>1, <1>7 DEF WaitForIdleReturn
  <2>2. Serialised' /\ NoMissedIdle'
    BY <1>1, <1>2, <1>7
       DEF WaitForIdleReturn, Serialised, StopBegun, NoMissedIdle, IsIdle, m_max_waiting
  <2>3. Waiting' = Waiting \ {c} /\ c \in Waiting
    BY <1>1, <1>7 DEF WaitForIdleReturn, Waiting
  <2>4. Cardinality(Waiting \ {c}) = Cardinality(Waiting) - 1
    BY <2>3, CountedSets, CallerCount, FS_RemoveElement
  <2>5. m_idle_waiters' = Cardinality(Waiting') /\ m_idle_waiters' \in Nat
    BY <1>5, <1>7, <2>3, <2>4, CountedSets, CallerCount DEF WaitForIdleReturn
  <2>6. TypeOK'
    BY <1>2, <2>1, <2>5 DEF TypeOK, m_max_waiting
  <2> QED
    BY <1>3, <1>4, <2>2, <2>5, <2>6 DEF CountersExact, Waiting
<1> QED
  BY <1>6, <1>7

\* stop_thread_pool has joined the threads.
LEMMA StopJoinIInv ==
  ASSUME IInv, StopJoin
  PROVE  IInv'
<1> USE DEF IInv, StopJoin
<1>1. m_max_waiting > 0 /\ m_max_waiting \in Nat
  BY PoolAssumption, WorkerCount, FS_EmptySet DEF m_max_waiting
<1>2. StopBegun /\ StopBegun'
  BY <1>1 DEF StopBegun, TypeOK
<1>3. TypeOK'
  BY <1>1 DEF TypeOK, m_max_waiting
<1>4. CountersExact' /\ NoLostSignal' /\ NoMissedIdle'
  BY DEF CountersExact, InDequeue, NoLostSignal, NoMissedIdle, IsIdle, m_max_waiting
<1>5. Serialised' /\ WorkBeforeExit'
  BY <1>2 DEF Serialised, WorkBeforeExit
<1> QED
  BY <1>3, <1>4, <1>5

LEMMA NextIInv == IInv /\ [Next]_vars => IInv'
<1> SUFFICES ASSUME IInv, [Next]_vars PROVE IInv'
  OBVIOUS
<1>1. CASE UNCHANGED vars
  BY <1>1 DEF vars, IInv, TypeOK, m_max_waiting, CountersExact, InDequeue, NoLostSignal,
              NoMissedIdle, IsIdle, Serialised, StopBegun, WorkBeforeExit
<1> QED
  BY <1>1, DequeueSleepIInv, DequeueTakeIInv, WorkDoneIInv, SpuriousWakeIInv, EnqueueIInv,
     WaitForIdleIInv, StopJoinIInv
     DEF Next, Deleted

-----------------------------------------------------------------------------
\* The inductive invariant holds in every reachable state of the pool.
THEOREM WorkQueueInvariant == Spec => []IInv
BY InitIInv, NextIInv, PTL DEF Spec

\* The counters of WorkQueue.hpp always say how many threads are in dequeue and
\* in wait_for_idle.
THEOREM WorkQueueCounters == Spec => [](TypeOK /\ CountersExact)
<1>1. IInv => TypeOK /\ CountersExact
  BY DEF IInv
<1> QED
  BY <1>1, WorkQueueInvariant, PTL

\* One signal per enqueue is enough: no worker sleeps through an item.
THEOREM WorkQueueNoLostSignal == Spec => []NoLostSignal
<1>1. IInv => NoLostSignal
  BY DEF IInv
<1> QED
  BY <1>1, WorkQueueInvariant, PTL

\* No caller of wait_for_idle sleeps while the pool is idle.
THEOREM WorkQueueNoMissedIdle == Spec => []NoMissedIdle
<1>1. IInv => NoMissedIdle
  BY DEF IInv
<1> QED
  BY <1>1, WorkQueueInvariant, PTL

\* stop_thread_pool leaves no work behind that was sent before it.
THEOREM WorkQueueStopDrains == Spec => []StopDrains
<1>1. IInv => StopDrains
  BY PoolAssumption DEF IInv, WorkBeforeExit, StopDrains
<1> QED
  BY <1>1, WorkQueueInvariant, PTL

\* A pool whose counter is full has no busy worker.
LEMMA IdleMeansIdle ==
  ASSUME IInv, IsIdle
  PROVE  \A w \in Workers : worker[w] # "work"
<1>1. Cardinality(Inside) = m_max_waiting
  BY DEF IInv, CountersExact, IsIdle, Inside
<1>2. Inside = Workers
  BY <1>1, CountedSets, WorkerCount
<1> QED
  BY <1>2 DEF Inside, InDequeue

\* A call of wait_for_idle that returns has waited for all queued work.
THEOREM WorkQueueIdleSound == Spec => IdleSound
<1> DEFINE Sound == \A c \in Callers :
                      caller[c] # "out" /\ caller'[c] = "out"
                        => m_queue = <<>> /\ \A w \in Workers : worker[w] # "work"
<1>1. IInv /\ [Next]_vars => [Sound]_vars
  <2> SUFFICES ASSUME IInv, Next, NEW c \in Callers, caller[c] # "out", caller'[c] = "out"
               PROVE  m_queue = <<>> /\ \A w \in Workers : worker[w] # "work"
    BY DEF vars
  <2>1. caller \in [Callers -> {"out", "asleep", "woken"}]
    BY DEF IInv, TypeOK
  <2>2. \E d \in Callers : WaitForIdleReturn(d)
    BY <2>1 DEF Next, DequeueSleep, Signalled, DequeueTake, WorkDone, WaitForIdleSleep,
                SpuriousWake, send_work, StopSend, StopJoin, Deleted, vars
  <2> QED
    BY <2>2, IdleMeansIdle DEF WaitForIdleReturn, IsIdle
<1> QED
  BY <1>1, WorkQueueInvariant, PTL DEF Spec, IdleSound

\* The queue with its mutex, condition variables and counters implements the
\* first-in first-out pool.
THEOREM WorkQueueImplementsFifoPool == Spec => ImplementsFifoPool
<1> DEFINE busy == {w \in Workers : worker[w] = "work"}
           gone == {w \in Workers : worker[w] = "exited"}
<1>1. Init => Pool!PoolInit
  BY DEF Init, Pool!PoolInit
<1>2. IInv /\ [Next]_vars => [Pool!PoolNext]_(Pool!poolVars)
  <2> SUFFICES ASSUME IInv, [Next]_vars PROVE [Pool!PoolNext]_(Pool!poolVars)
    OBVIOUS
  <2> USE DEF Pool!poolVars
  <2>1. worker \in [Workers -> {"top", "asleep", "woken", "work", "exited"}]
    BY DEF IInv, TypeOK
  <2>2. caller \in [Callers -> {"out", "asleep", "woken"}]
    BY DEF IInv, TypeOK
  <2>3. ASSUME NEW w \in Workers, DequeueSleep(w)
        PROVE  UNCHANGED Pool!poolVars
    <3>1. busy' = busy /\ gone' = gone
      BY <2>1, <2>3 DEF DequeueSleep
    <3>2. Waiting' = Waiting
      BY <2>2, <2>3 DEF DequeueSleep, Signalled, Waiting
    <3> QED
      BY <2>3, <3>1, <3>2 DEF DequeueSleep, Waiting
  <2>4. ASSUME NEW w \in Workers, DequeueTake(w)
        PROVE  Pool!Take(w)
    <3>1. w \notin busy \cup gone
      BY <2>1, <2>4 DEF DequeueTake
    <3>2. IF Head(m_queue) = "EXIT" THEN gone' = gone \cup {w} /\ busy' = busy
                                    ELSE busy' = busy \cup {w} /\ gone' = gone
      BY <2>1, <2>4 DEF DequeueTake
    <3> QED
      BY <2>4, <3>1, <3>2 DEF DequeueTake, pop_front, Pool!Take
  <2>5. ASSUME NEW w \in Workers, WorkDone(w)
        PROVE  Pool!Finish(w)
    <3>1. w \in busy /\ busy' = busy \ {w} /\ gone' = gone
      BY <2>1, <2>5 DEF WorkDone
    <3> QED
      BY <2>5, <3>1 DEF WorkDone, Pool!Finish
  <2>6. ASSUME NEW c \in Callers, WaitForIdleSleep(c)
        PROVE  Pool!WaitForIdle(c)
    <3>1. Waiting' = Waiting \cup {c}
      BY <2>2, <2>6 DEF WaitForIdleSleep, Waiting
    <3> QED
      BY <2>6, <3>1 DEF WaitForIdleSleep, Pool!WaitForIdle, Waiting
  <2>7. ASSUME NEW c \in Callers, WaitForIdleReturn(c)
        PROVE  Pool!ReturnIdle(c)
    <3>1. c \in Waiting /\ Waiting' = Waiting \ {c}
      BY <2>2, <2>7 DEF WaitForIdleReturn, Waiting
    <3>2. m_queue = <<>> /\ busy = {}
      BY <2>7, IdleMeansIdle DEF WaitForIdleReturn, IsIdle
    <3> QED
      BY <2>7, <3>1, <3>2 DEF WaitForIdleReturn, Pool!ReturnIdle, Waiting
  <2>8. ASSUME SpuriousWake PROVE UNCHANGED Pool!poolVars
    <3>1. busy' = busy /\ gone' = gone
      BY <2>1, <2>8 DEF SpuriousWake
    <3>2. Waiting' = Waiting
      BY <2>2, <2>8 DEF SpuriousWake, Waiting
    <3> QED
      BY <2>8, <3>1, <3>2 DEF SpuriousWake, Waiting
  <2>9. ASSUME send_work \/ StopSend
        PROVE  \E item \in ItemType : Pool!Put(item)
    <3>1. PICK item \in ItemType : enqueue(item)
      BY <2>9 DEF send_work, StopSend, ItemType
    <3>2. busy' = busy /\ gone' = gone
      BY <3>1, EnqueueEffect DEF IInv
    <3>3. UNCHANGED caller
      BY <2>9 DEF send_work, StopSend
    <3> QED
      BY <3>1, <3>2, <3>3 DEF enqueue, Pool!Put
  <2>10. ASSUME StopJoin \/ UNCHANGED vars PROVE UNCHANGED Pool!poolVars
    BY <2>10 DEF StopJoin, vars
  <2> QED
    BY <2>3, <2>4, <2>5, <2>6, <2>7, <2>8, <2>9, <2>10, Zenon DEF Next, Deleted, Pool!PoolNext
<1> QED
  BY <1>1, <1>2, WorkQueueInvariant, PTL DEF Spec, ImplementsFifoPool, Pool!PoolSpec
=============================================================================
