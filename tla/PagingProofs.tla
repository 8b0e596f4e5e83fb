---------------------------- MODULE PagingProofs ----------------------------
(***************************************************************************)
(* The paging engine is safe, for any number of pages, descriptors and     *)
(* threads: the steps of each thread put together, and the theorems.       *)
(***************************************************************************)
EXTENDS PagingSteps, FiniteSetTheorems

\* Most leaves are first-order reasoning; those that need more name SMT.
USE Zenon

(* Init *)

LEMMA InitIInv == Init => IInv
<1> SUFFICES ASSUME Init PROVE IInv
  OBVIOUS
<1> USE BufferAssumption DEF Init
<1>1. Cardinality(PDs) \in Nat
  BY FS_CardinalityType
<1>2. /\ m_free_pages \in [1..Cardinality(PDs) -> PDs] /\ IsInjective(m_free_pages)
      /\ \A d \in PDs : \E i \in 1..Cardinality(PDs) : m_free_pages[i] = d
  BY DEF Bijection, Injection, Surjection, IsInjective
<1>3. m_free_pages \in Seq(PDs)
  BY <1>1, <1>2, FunctionIsSeq
<1>4. TypeOK
  <2>1. KernelTypeOK
    BY DEF KernelTypeOK
  <2>2. BufferTypeOK
    BY <1>3, SMT DEF BufferTypeOK
  <2>3. DescriptorTypeOK /\ WorkerTypeOK
    BY SMT DEF DescriptorTypeOK, WorkerTypeOK
  <2> QED
    BY <2>1, <2>2, <2>3 DEF TypeOK
<1>5. /\ InState({"FREE"}) = PDs /\ InState({"FILLING", "PRESENT", "UPDATING"}) = {}
      /\ InState({"FILLING", "UPDATING"}) = {} /\ InState({"LEAVING"}) = {}
  BY DEF InState
<1>6. FreeOwned
  BY <1>2, <1>5, SMT DEF FreeOwned, Range
<1>7. /\ Range(m_busy_pages) = {} /\ Range(fill_queue) = {} /\ Range(mgr_list) = {}
      /\ Range(evict_queue) = {} /\ FillerHas = {} /\ EvictorHas = {}
  BY SMT DEF Range, FillerHas, EvictorHas
<1>8. IsInjective(<<>>)
  BY SMT DEF IsInjective
<1>9. BusyOwned
  BY <1>5, <1>7, <1>8 DEF BusyOwned
<1>10. FillOwned
  BY <1>5, <1>7, <1>8 DEF FillOwned
<1>11. LeavingOwned
  <2>1. EvictQueued = {}
    BY <1>7 DEF EvictQueued
  <2> QED
    BY <1>5, <1>7, <1>8, <2>1 DEF LeavingOwned
<1>12. MgrHolds /\ PageKnown /\ OnlyEvictions
  BY <1>7 DEF MgrHolds, PageKnown, OnlyEvictions
<1> QED
  BY <1>4, <1>6, <1>9, <1>10, <1>11, <1>12 DEF IInv, OneOwner

-----------------------------------------------------------------------------
(* evict_oldest_pages *)

LEMMA PickedFacts ==
  ASSUME NEW S, NEW s \in Seq(S), IsInjective(s),
         NEW I \in SUBSET (1..Len(s)), NEW f \in BackToFront(I)
  PROVE  /\ At(s, f) \in Seq(S) /\ IsInjective(At(s, f))
         /\ Range(At(s, f)) = Members(s, I)
<1> DEFINE m == Cardinality(I)
           t == At(s, f)
<1>1. m \in Nat
  <2>1. IsFiniteSet(1..Len(s))
    BY ListLen, FS_Interval, SMT
  <2>2. IsFiniteSet(I)
    BY <2>1, FS_Subset
  <2> QED
    BY <2>2, FS_CardinalityType
<1>2. /\ f \in [1..m -> I] /\ Range(f) = I
      /\ \A i, j \in 1..m : i < j => f[i] > f[j]
      /\ t = [i \in DOMAIN f |-> s[f[i]]]
  BY DEF BackToFront, At
<1> HIDE DEF m, t
<1>3. Len(s) \in Nat /\ DOMAIN s = 1..Len(s) /\ \A i \in 1..Len(s) : s[i] \in S
  BY ListLen, ListMember
<1>4. \A i \in 1..m : f[i] \in 1..Len(s) /\ f[i] \in I
  BY <1>2
<1>5. t \in [1..m -> S] /\ \A i \in 1..m : t[i] = s[f[i]]
  BY <1>3, <1>4, <1>2
<1>6. t \in Seq(S) /\ Len(t) = m
  BY <1>1, <1>5, FunctionIsSeq
<1>7. IsInjective(t)
  <2> SUFFICES ASSUME NEW i \in 1..m, NEW j \in 1..m, t[i] = t[j] PROVE i = j
    BY <1>5 DEF IsInjective
  <2>1. f[i] = f[j]
    BY <1>3, <1>4, <1>5, SMT DEF IsInjective
  <2>2. f[i] \in Nat /\ f[j] \in Nat
    BY <1>3, <1>4, SMT
  <2> QED
    BY <1>1, <1>2, <2>1, <2>2, SMT
<1>8. Range(t) = Members(s, I)
  BY <1>4, <1>5, <1>2, SMT DEF Range, Members
<1> QED
  BY <1>6, <1>7, <1>8 DEF t

LEMMA MgrEvictIInv ==
  ASSUME IInv, MgrEvict
  PROVE  IInv'
<1> DEFINE N == 1..Len(m_busy_pages)
           Out(k) == {i \in N : i >= k /\ Evictable(i)}
           Stay(k) == {i \in N : i >= k /\ ~Evictable(i)}
<1>1. /\ mgr_pc = "evict" /\ evict_oldest_pages
      /\ mgr_pc' = IF mgr_list' = <<>> THEN "check" ELSE "send"
      /\ UNCHANGED <<m_free_pages, fill_queue, filler_pc, filler_pd, evict_queue, evictor_pc,
                     evictor_work, page, deferred>>
  BY DEF MgrEvict, fillVars, evictVars
<1>2. mgr_list = <<>>
  BY <1>1 DEF IInv, MgrHolds
<1>3. /\ m_busy_pages \in Seq(PDs) /\ IsInjective(m_busy_pages) /\ Len(m_busy_pages) \in Nat
      /\ DOMAIN m_busy_pages = N
  BY ListsInjective, ListLen
<1>4. MgrHolds'
  BY <1>1 DEF MgrHolds
<1>5. ASSUME UNCHANGED <<m_busy_pages, state, mgr_list>>, aborted' \subseteq Fatal
      PROVE  OneOwner' /\ PageKnown' /\ mgr_list' \in Seq(PDs) /\ m_busy_pages' \in Seq(PDs)
             /\ DescriptorTypeOK' /\ aborted' \subseteq Fatal
  <2>1. UNCHANGED ownerVars
    BY <1>1, <1>5 DEF ownerVars
  <2>2. OneOwner'
    BY <2>1, OwnerFrame DEF IInv
  <2>3. PageKnown' /\ mgr_list' \in Seq(PDs) /\ m_busy_pages' \in Seq(PDs)
    BY <1>1, <1>5, ListsInjective DEF IInv, PageKnown
  <2>4. DescriptorTypeOK'
    BY <1>5 DEF MgrEvict, IInv, TypeOK, DescriptorTypeOK
  <2> QED
    BY <1>5, <2>2, <2>3, <2>4
<1>6. ASSUME NEW k \in N, Evictable(k), Cardinality(Out(k)) = MaxEvict,
             NEW f \in BackToFront(Out(k)), NEW g \in BackToFront(Stay(k)),
             mgr_list' = Picked(f), m_busy_pages' = SubSeq(m_busy_pages, 1, k - 1) \o Picked(g),
             state' = [d \in PDs |-> IF d \in {m_busy_pages[i] : i \in Out(k)}
                                     THEN "LEAVING" ELSE state[d]],
             UNCHANGED aborted
      PROVE  OneOwner' /\ PageKnown' /\ mgr_list' \in Seq(PDs) /\ m_busy_pages' \in Seq(PDs)
             /\ DescriptorTypeOK' /\ aborted' \subseteq Fatal
  <2> DEFINE O == Out(k)
             R == Stay(k)
             D == {m_busy_pages[i] : i \in O}
  <2>1. f \in BackToFront(O) /\ g \in BackToFront(R)
    BY <1>6
  <2>2. /\ O \in SUBSET (1..Len(m_busy_pages)) /\ R \in SUBSET (1..Len(m_busy_pages))
        /\ R \in SUBSET (k..Len(m_busy_pages))
        /\ N = ((1..(k - 1)) \cup R) \cup O /\ ((1..(k - 1)) \cup R) \cap O = {}
    BY <1>3, SMT
  <2>3. \A i \in O : Evictable(i)
    OBVIOUS
  <2> HIDE DEF N, O, R
  <2>4. mgr_list' = At(m_busy_pages, f) /\ Picked(g) = At(m_busy_pages, g)
    BY <1>6 DEF Picked, At
  <2>5. mgr_list' \in Seq(PDs) /\ IsInjective(mgr_list') /\ Range(mgr_list') = D
    <3>1. /\ At(m_busy_pages, f) \in Seq(PDs) /\ IsInjective(At(m_busy_pages, f))
          /\ Range(At(m_busy_pages, f)) = Members(m_busy_pages, O)
      BY <1>3, <2>1, <2>2, PickedFacts
    <3>2. D = Members(m_busy_pages, O)
      BY DEF Members
    <3> QED
      BY <2>4, <3>1, <3>2
  <2>6. /\ Picked(g) \in Seq(PDs) /\ IsInjective(Picked(g))
        /\ Range(Picked(g)) = Members(m_busy_pages, R)
    <3>1. /\ At(m_busy_pages, g) \in Seq(PDs) /\ IsInjective(At(m_busy_pages, g))
          /\ Range(At(m_busy_pages, g)) = Members(m_busy_pages, R)
      BY <1>3, <2>1, <2>2, PickedFacts
    <3> QED
      BY <2>4, <3>1
  <2>7. /\ m_busy_pages' \in Seq(PDs) /\ IsInjective(m_busy_pages')
        /\ Range(m_busy_pages') = Members(m_busy_pages, (1..(k - 1)) \cup R)
    <3>1. k \in 1..Len(m_busy_pages) /\ m_busy_pages' = Cut(m_busy_pages, k, Picked(g))
      BY <1>6 DEF N, Cut
    <3>2. m_busy_pages \in Seq(PDs) /\ IsInjective(m_busy_pages) /\ R \in SUBSET (k..Len(m_busy_pages))
      BY <1>3, <2>2
    <3> HIDE DEF Out, Stay, D
    <3>3. Cut(m_busy_pages, k, Picked(g)) \in Seq(PDs)
      BY <2>6, <3>1, <3>2, CutFacts
    <3>4. IsInjective(Cut(m_busy_pages, k, Picked(g)))
      BY <2>6, <3>1, <3>2, CutFacts
    <3>5. Range(Cut(m_busy_pages, k, Picked(g))) = Members(m_busy_pages, (1..(k - 1)) \cup R)
      BY <2>6, <3>1, <3>2, CutFacts, SMT
    <3> QED
      BY <3>1, <3>3, <3>4, <3>5
  <2>8. Range(m_busy_pages') = Range(m_busy_pages) \ D
    <3>1. Range(m_busy_pages) = {m_busy_pages[i] : i \in ((1..(k - 1)) \cup R) \cup O}
      BY <1>3, <2>2 DEF Range
    <3>2. \A i \in (1..(k - 1)) \cup R, j \in O : m_busy_pages[i] # m_busy_pages[j]
      BY <1>3, <2>2 DEF IsInjective
    <3> QED
      BY <2>7, <3>1, <3>2 DEF Members
  <2>9. \A d \in D : d \in PDs /\ state[d] = "PRESENT"
    BY <1>3, <2>2, <2>3, ListMember, SMT DEF Evictable
  <2>10. state' = [d \in PDs |-> IF d \in D THEN "LEAVING" ELSE state[d]]
    BY <1>6 DEF O, N
  <2> HIDE DEF D, Out, Stay
  <2>11. DescriptorTypeOK'
    BY <2>10 DEF MgrEvict, IInv, TypeOK, DescriptorTypeOK
  <2>12. /\ InState({"FREE"})' = InState({"FREE"})
         /\ InState({"FILLING", "PRESENT", "UPDATING"})' =
              InState({"FILLING", "PRESENT", "UPDATING"}) \ D
         /\ InState({"FILLING", "UPDATING"})' = InState({"FILLING", "UPDATING"})
         /\ InState({"LEAVING"})' = InState({"LEAVING"}) \cup D
         /\ D \cap InState({"LEAVING"}) = {}
    BY <2>9, <2>10 DEF InState, IInv, TypeOK, DescriptorTypeOK
  <2>13. FreeOwned' /\ FillOwned'
    BY <1>1, <2>12, FreeFrame, FillFrame DEF IInv, OneOwner
  <2>14. BusyOwned'
    BY <2>7, <2>8, <2>12 DEF IInv, OneOwner, BusyOwned
  <2>15. LeavingOwned'
    <3>1. EvictQueued' = EvictQueued /\ EvictorHas' = EvictorHas
      BY <1>1 DEF EvictQueued, EvictorHas
    <3>2. Range(mgr_list) = {}
      BY <1>2, SMT DEF Range
    <3> QED
      BY <1>1, <2>5, <2>12, <3>1, <3>2 DEF IInv, OneOwner, LeavingOwned
  <2>16. PageKnown'
    BY <1>1, <2>9, <2>10 DEF IInv, PageKnown
  <2> QED
    BY <1>6, <2>5, <2>7, <2>11, <2>13, <2>14, <2>15, <2>16 DEF OneOwner, IInv, TypeOK
<1>7. OneOwner' /\ PageKnown' /\ mgr_list' \in Seq(PDs) /\ m_busy_pages' \in Seq(PDs)
      /\ DescriptorTypeOK' /\ aborted' \subseteq Fatal
  <2>1. CASE m_busy_pages = <<>> /\ mgr_list' = <<>> /\ UNCHANGED <<m_busy_pages, state, aborted>>
    BY <1>2, <1>5, <2>1 DEF IInv, TypeOK
  <2>2. CASE DieUnless(FALSE, "evict_oldest_pages") /\ UNCHANGED <<m_busy_pages, state, mgr_list>>
    BY <1>5, <2>2 DEF DieUnless, Fatal, IInv, TypeOK
  <2> QED
    BY <1>1, <1>6, <2>1, <2>2 DEF evict_oldest_pages
<1>8. KernelTypeOK' /\ BufferTypeOK'
  BY <1>7 DEF MgrEvict, IInv, TypeOK, KernelTypeOK, BufferTypeOK, kernelVars, waitVars, handlerVars
<1>9. WorkerTypeOK'
  BY <1>7 DEF MgrEvict, IInv, TypeOK, WorkerTypeOK, fillVars, evictVars
<1>10. OnlyEvictions'
  BY <1>1 DEF IInv, OnlyEvictions
<1> QED
  BY <1>4, <1>7, <1>8, <1>9, <1>10 DEF IInv, TypeOK

-----------------------------------------------------------------------------
(* The theorems *)

LEMMA NextIInv == IInv /\ [Next]_vars => IInv'
<1> SUFFICES ASSUME IInv, [Next]_vars PROVE IInv'
  OBVIOUS
<1>1. CASE UNCHANGED vars
  <2>1. /\ UNCHANGED ownerVars /\ UNCHANGED <<mgr_pc, page, deferred>>
        /\ UNCHANGED <<kernelVars, listVars, waitVars, pdVars, handlerVars, fillVars, mgr_work,
                       mgrVars, evictVars, aborted>>
    BY <1>1 DEF vars, ownerVars, listVars, pdVars, fillVars, mgrVars, evictVars
  <2>2. KernelTypeOK' /\ BufferTypeOK' /\ DescriptorTypeOK' /\ WorkerTypeOK'
    BY <2>1, SMT DEF IInv, TypeOK, KernelTypeOK, BufferTypeOK, DescriptorTypeOK, WorkerTypeOK,
                kernelVars, listVars, waitVars, pdVars, handlerVars, fillVars, mgrVars, evictVars
  <2> QED
    BY <2>1, <2>2, QuietFrame DEF IInv, TypeOK
<1>2. CASE Step
  <2>1. CASE \E t \in Apps : AppStep(t)
    BY <2>1, AppStepIInv
  <2>2. CASE UffdRead
    BY <2>2, UffdReadIInv
  <2>3. CASE \E h \in Prefetchers, p \in Pages : Prefetch(h, p)
    BY <2>3, PrefetchIInv
  <2>4. ASSUME NEW h \in Handlers, ProcessPageEvent(h) PROVE IInv'
    <3>1. PICK e \in Event : \/ WaitForState(h, e) \/ SpuriousEvent(h, e) \/ UpdatePage(h, e)
                            \/ WaitForDescriptor(h, e) \/ BringIn(h, e)
      BY <2>4 DEF ProcessPageEvent
    <3>2. e \in batch[h]
      BY <3>1 DEF WaitForState, SpuriousEvent, UpdatePage, WaitForDescriptor, BringIn,
                  Looking, WantsDescriptor, FirstEvent
    <3> QED
      BY <3>1, <3>2, HandlerWaitsIInv, UpdatePageIInv, BringInIInv
  <2>5. CASE \E h \in Handlers : SpuriousWake(h)
    BY <2>5, SpuriousWakeIInv
  <2>6. ASSUME NEW f \in Fillers, FillWorker(f) PROVE IInv'
    BY <2>6, FillGetIInv, FillCopyIInv, FillMarkPresentIInv DEF FillWorker
  <2>7. CASE EvictMgr
    BY <2>7, MgrTakesIInv, MgrEvictIInv, MgrSendIInv DEF EvictMgr
  <2>8. ASSUME NEW v \in Evictors, EvictWorker(v) PROVE IInv'
    BY <2>8, EvictGetIInv, EvictWriteIInv, EvictMarkFreeIInv DEF EvictWorker
  <2> QED
    BY <1>2, <2>1, <2>2, <2>3, <2>4, <2>5, <2>6, <2>7, <2>8 DEF Step
<1> QED
  BY <1>1, <1>2 DEF Next, Dead

-----------------------------------------------------------------------------
(* What needs a count of descriptors *)

\* With a descriptor for every page, a page without one finds a free one.
LEMMA RoomForAll ==
  ASSUME IInv, OneDescriptorPerPage, Cardinality(Pages) <= Cardinality(PDs),
         NEW p \in Pages, m_present_pages[p] = NoPD
  PROVE  m_free_pages # <<>>
<1> SUFFICES ASSUME m_free_pages = <<>> PROVE FALSE
  OBVIOUS
<1>1. \A d \in PDs : state[d] # "FREE"
  <2>1. Range(m_free_pages) = {}
    BY SMT DEF Range
  <2> QED
    BY <2>1 DEF IInv, OneOwner, FreeOwned, InState
<1>2. \A d \in PDs : page[d] \in Pages \ {p}
  BY <1>1, OnePage, BufferAssumption, SMT
<1>3. page \in [PDs -> Pages \ {p}]
  BY <1>2 DEF IInv, TypeOK, DescriptorTypeOK
<1>4. page \in Injection(PDs, Pages \ {p})
  BY <1>1, <1>3, OnePage, SMT DEF Injection, IsInjective
<1>5. /\ IsFiniteSet(Pages \ {p}) /\ Cardinality(Pages \ {p}) = Cardinality(Pages) - 1
      /\ Cardinality(Pages) \in Nat /\ Cardinality(PDs) \in Nat
  BY FS_RemoveElement, FS_CardinalityType, BufferAssumption
<1>6. Cardinality(PDs) <= Cardinality(Pages \ {p})
  BY <1>4, <1>5, FS_Injection
<1> QED
  BY <1>5, <1>6, SMT

LEMMA WaitForDescriptorHandler ==
  ASSUME IInv, OneDescriptorPerPage, HandlerInv, NoMissedBroadcast, NoRace,
         NEW h \in Handlers, NEW e \in batch[h], WaitForDescriptor(h, e)
  PROVE  HandlerInv' /\ NoMissedBroadcast'
<1> USE DEF WaitForDescriptor, listVars, pdVars
<1>1. m_present_pages[e.page] = NoPD /\ FirstEvent(h, e) /\ e.page \in Pages
  BY WantedIsAbsent, FirstPage
<1>2. Prefetchers = {}
  BY <1>1, RoomForAll DEF NoRace
<1>3. /\ pc'[h] = "wait_avail" /\ batch' = batch
      /\ \A g \in Handlers \ {h} : pc'[g] = pc[g]
  BY DEF IInv, TypeOK, BufferTypeOK
<1>4. h \notin asleep_state
  BY DEF WantsDescriptor, Looking, HandlerInv
<1>5. \A g \in Handlers : \A e2 \in batch[g] : FirstEvent(g, e2)' <=> FirstEvent(g, e2)
  BY <1>3 DEF FirstEvent
<1>6. HandlerInv'
  BY <1>1, <1>2, <1>3, <1>4, <1>5 DEF HandlerInv
<1>7. asleep_state \subseteq Handlers
  BY DEF IInv, TypeOK, BufferTypeOK
<1> QED
  BY <1>3, <1>5, <1>6, <1>7 DEF NoMissedBroadcast

-----------------------------------------------------------------------------
(* One step of each thread *)

\* Descriptors keep their pages when no state changes.
LEMMA PageMapQuiet ==
  ASSUME OneDescriptorPerPage, UNCHANGED <<active_pages, page, m_present_pages, state>>
  PROVE  OneDescriptorPerPage'
<1>1. InState({"FREE"})' = InState({"FREE"})
  BY DEF InState
<1> QED
  BY <1>1, PageMapFrame

LEMMA AppStepJInv ==
  ASSUME IInv, JInv, NEW t \in Apps, AppStep(t)
  PROVE  JInv'
<1> USE DEF JInv
<1>1. UNCHANGED <<listVars, waitVars, pdVars, handlerVars, aborted>>
  BY DEF AppStep, AppWrite, AppFault, AppRetry
<1>2. OneDescriptorPerPage'
  BY <1>1, PageMapQuiet DEF listVars, pdVars
<1>3. HandlerInv' /\ NoMissedBroadcast'
  BY <1>1, HandlerQuiet DEF listVars, pdVars, handlerVars
<1>4. NoImpossibleState'
  BY <1>1 DEF NoImpossibleState
<1> QED
  BY <1>2, <1>3, <1>4, AppStepMem, AppStepFault

LEMMA EventsJInv ==
  ASSUME IInv, JInv, UffdRead \/ \E h \in Prefetchers, p \in Pages : Prefetch(h, p)
  PROVE  JInv'
<1> USE DEF JInv
<1>1. UNCHANGED <<mem, wp, store_fresh, listVars, waitVars, pdVars, fillVars, mgrVars, evictVars,
                  aborted>>
  BY DEF UffdRead, Prefetch, kernelVars
<1>2. OneDescriptorPerPage'
  BY <1>1, PageMapQuiet DEF listVars, pdVars
<1>3. MemInv'
  BY <1>1, MemFrame DEF listVars, pdVars, mgrVars
<1>4. HandlerInv' /\ NoMissedBroadcast'
  <2>1. CASE UffdRead
    <3>1. PICK msgs \in SUBSET unread :
            batch' = [batch EXCEPT ![UffdThread] = OnePerPage({fault[t] : t \in msgs})]
      BY <2>1 DEF UffdRead
    <3>2. OnePerPage({fault[t] : t \in msgs}) \in SUBSET Event
      BY DEF OnePerPage, IInv, TypeOK, KernelTypeOK
    <3>3. UffdThread \in Handlers
      BY DEF Handlers
    <3> QED
      BY <1>1, <2>1, <3>1, <3>2, <3>3, TakeBatchHandler DEF UffdRead, listVars, pdVars
  <2>2. ASSUME NEW h \in Prefetchers, NEW p \in Pages, Prefetch(h, p)
        PROVE  HandlerInv' /\ NoMissedBroadcast'
    <3>1. h \in Handlers /\ {[page |-> p, write |-> FALSE]} \in SUBSET Event
      BY SMT DEF Handlers, Event
    <3> QED
      BY <1>1, <2>2, <3>1, TakeBatchHandler DEF Prefetch, listVars, pdVars
  <2> QED
    BY <2>1, <2>2
<1>5. FaultInv' /\ NoImpossibleState'
  BY <1>1, UffdReadFault, PrefetchFault DEF NoImpossibleState
<1> QED
  BY <1>2, <1>3, <1>4, <1>5

LEMMA HandlerJInv ==
  ASSUME IInv, JInv, NoRace, NEW h \in Handlers, ProcessPageEvent(h) \/ SpuriousWake(h)
  PROVE  JInv'
<1> USE DEF JInv
<1>1. ASSUME UNCHANGED <<kernelVars, listVars, pdVars, fillVars, mgrVars, evictVars, aborted>>
      PROVE  OneDescriptorPerPage' /\ MemInv' /\ NoImpossibleState'
  BY <1>1, PageMapQuiet, MemFrame DEF kernelVars, listVars, pdVars, mgrVars, NoImpossibleState
<1>2. CASE SpuriousWake(h)
  BY <1>1, <1>2, SpuriousWakeHandler, FaultQuiet
     DEF SpuriousWake, kernelVars, pdVars, handlerVars, fillVars
<1>3. ASSUME NEW e \in batch[h], WaitForState(h, e) PROVE JInv'
  <2>1. FaultInv'
    BY <1>3, FaultQuiet DEF WaitForState, kernelVars, pdVars, fillVars
  <2> QED
    BY <1>1, <1>3, <2>1, WaitForStateHandler DEF WaitForState
<1>4. ASSUME NEW e \in batch[h], SpuriousEvent(h, e) PROVE JInv'
  <2>1. HandlerInv' /\ NoMissedBroadcast'
    BY <1>4, EventDoneHandler DEF SpuriousEvent, listVars, pdVars
  <2>2. FaultInv'
    BY <1>4, SpuriousEventFault DEF MemInv
  <2> QED
    BY <1>1, <1>4, <2>1, <2>2 DEF SpuriousEvent
<1>5. ASSUME NEW e \in batch[h], WaitForDescriptor(h, e) PROVE JInv'
  <2>1. FaultInv'
    BY <1>5, FaultQuiet DEF WaitForDescriptor, kernelVars, pdVars, fillVars
  <2> QED
    BY <1>1, <1>5, <2>1, WaitForDescriptorHandler DEF WaitForDescriptor
<1>6. ASSUME NEW e \in batch[h], UpdatePage(h, e) PROVE JInv'
  <2>1. PICK pd \in PDs : /\ state[pd] = "PRESENT" /\ state' = [state EXCEPT ![pd] = "UPDATING"]
                          /\ aborted' = aborted
    BY <1>6 DEF UpdatePage, set_state_updating, DieUnless
  <2>2. \A d \in PDs : state'[d] = state[d] \/ (state[d] = "PRESENT" /\ state'[d] = "UPDATING")
    BY <2>1 DEF IInv, TypeOK, DescriptorTypeOK
  <2>3. InState({"FREE"})' = InState({"FREE"})
    BY <2>2 DEF InState
  <2>4. OneDescriptorPerPage'
    BY <1>6, <2>3, PageMapFrame DEF UpdatePage, listVars
  <2>5. HandlerInv' /\ NoMissedBroadcast'
    BY <1>6, <2>2, EventDoneHandler DEF UpdatePage, listVars
  <2>6. MemInv' /\ FaultInv'
    BY <1>6, UpdatePageMem, UpdatePageFault
  <2> QED
    BY <2>1, <2>4, <2>5, <2>6 DEF NoImpossibleState
<1>7. ASSUME NEW e \in batch[h], BringIn(h, e) PROVE JInv'
  <2>1. state[m_free_pages[Len(m_free_pages)]] = "FREE"
    <3>1. m_free_pages[Len(m_free_pages)] \in Range(m_free_pages)
      BY <1>7, ListsInjective, FrontFacts DEF BringIn
    <3> QED
      BY <3>1 DEF IInv, OneOwner, FreeOwned, InState
  <2>2. UNCHANGED aborted
    BY <1>7, <2>1 DEF BringIn, set_state_filling, DieUnless
  <2> QED
    BY <1>7, <2>2, BringInPageMap, BringInHandler, BringInMem, BringInFault DEF NoImpossibleState
<1>8. CASE ProcessPageEvent(h)
  <2>1. PICK e \in Event : \/ WaitForState(h, e) \/ SpuriousEvent(h, e) \/ UpdatePage(h, e)
                           \/ WaitForDescriptor(h, e) \/ BringIn(h, e)
    BY <1>8 DEF ProcessPageEvent
  <2>2. e \in batch[h]
    BY <2>1 DEF WaitForState, SpuriousEvent, UpdatePage, WaitForDescriptor, BringIn,
                Looking, WantsDescriptor, FirstEvent
  <2> QED
    BY <1>3, <1>4, <1>5, <1>6, <1>7, <2>1, <2>2
<1> QED
  BY <1>2, <1>8

LEMMA FillWorkerJInv ==
  ASSUME IInv, JInv, NEW f \in Fillers, FillWorker(f)
  PROVE  JInv'
<1> USE DEF JInv
<1>1. ASSUME UNCHANGED <<listVars, waitVars, page, state, handlerVars, aborted>>
      PROVE  OneDescriptorPerPage' /\ HandlerInv' /\ NoMissedBroadcast' /\ NoImpossibleState'
  BY <1>1, PageMapQuiet, HandlerQuiet DEF listVars, handlerVars, NoImpossibleState
<1>2. CASE FillUnprotect(f)
  BY <1>1, <1>2, FillUnprotectMem, FillUnprotectFault DEF FillUnprotect, pdVars
<1>3. CASE FillRead(f)
  BY <1>1, <1>3, FillReadMem, FillReadFault DEF FillRead, pdVars
<1>4. CASE FillCopy(f)
  BY <1>1, <1>4, FillCopyMem, FillCopyFault DEF FillCopy
<1>5. CASE FillMarkPresent(f)
  <2>1. PICK pd \in PDs : pd = filler_pd[f] /\ state[pd] \in {"FILLING", "UPDATING"}
    BY <1>5, InHand DEF FillMarkPresent
  <2>2. state' = [state EXCEPT ![pd] = "PRESENT"] /\ aborted' = aborted
    BY <1>5, <2>1 DEF FillMarkPresent, mark_page_as_present, set_state_present, DieUnless
  <2>3. InState({"FREE"})' = InState({"FREE"})
    <3>1. \A d \in PDs : state'[d] = "FREE" <=> state[d] = "FREE"
      BY <2>1, <2>2 DEF IInv, TypeOK, DescriptorTypeOK
    <3> QED
      BY <3>1 DEF InState
  <2>4. OneDescriptorPerPage'
    BY <1>5, <2>3, PageMapFrame DEF FillMarkPresent, listVars
  <2>5. NoImpossibleState'
    BY <2>2 DEF NoImpossibleState
  <2> QED
    BY <1>5, <2>4, <2>5, FillMarkPresentHandler, FillMarkPresentMem, FillMarkPresentFault
<1> QED
  BY <1>2, <1>3, <1>4, <1>5 DEF FillWorker

LEMMA EvictMgrJInv ==
  ASSUME IInv, IInv', JInv, EvictMgr
  PROVE  JInv'
<1> USE DEF JInv
<1>1. FaultInv'
  <2>1. UNCHANGED <<mem, wp, fault, blocked, unread, batch, page, fill_queue, filler_pc, filler_pd>>
    BY DEF EvictMgr, MgrGet, MgrCheck, MgrEvict, MgrSend, kernelVars, pdVars, handlerVars, fillVars
  <2> QED
    BY <2>1, FaultQuiet
<1>2. ASSUME UNCHANGED <<listVars, waitVars, pdVars, handlerVars, aborted>>
      PROVE  OneDescriptorPerPage' /\ HandlerInv' /\ NoMissedBroadcast' /\ NoImpossibleState'
  BY <1>2, PageMapQuiet, HandlerQuiet DEF listVars, pdVars, handlerVars, NoImpossibleState
<1>3. CASE MgrGet \/ MgrCheck
  <2>1. UNCHANGED <<mem, wp, store_fresh, m_present_pages, page, state, dirty, data_present,
                    fillVars, mgr_list, evictVars>>
    BY <1>3 DEF MgrGet, MgrCheck, kernelVars, listVars, pdVars
  <2> QED
    BY <1>1, <1>2, <1>3, <2>1, MemFrame DEF MgrGet, MgrCheck
<1>4. CASE MgrEvict
  <2>1. \A d \in PDs : state'[d] # state[d] => state[d] = "PRESENT" /\ state'[d] = "LEAVING"
    BY <1>4, MgrEvictMoves
  <2>2. aborted' \subseteq aborted \cup {"evict_oldest_pages"}
    BY <1>4, MgrEvictMoves
  <2>3. InState({"FREE"})' = InState({"FREE"})
    BY <2>1 DEF InState
  <2>4. OneDescriptorPerPage'
    BY <1>4, <2>3, PageMapFrame DEF MgrEvict
  <2>5. HandlerInv' /\ NoMissedBroadcast'
    BY <1>4, <2>1, HandlerQuiet DEF MgrEvict, handlerVars
  <2>6. NoImpossibleState'
    BY <2>2 DEF NoImpossibleState
  <2> QED
    BY <1>1, <1>4, <2>4, <2>5, <2>6, MgrEvictMem
<1>5. CASE MgrSend
  BY <1>1, <1>2, <1>5, MgrSendMem DEF MgrSend
<1> QED
  BY <1>3, <1>4, <1>5 DEF EvictMgr

LEMMA EvictWorkerJInv ==
  ASSUME IInv, JInv, NEW v \in Evictors, EvictWorker(v)
  PROVE  JInv'
<1> USE DEF JInv
<1>1. ASSUME UNCHANGED <<listVars, waitVars, page, state, handlerVars, aborted>>
      PROVE  OneDescriptorPerPage' /\ HandlerInv' /\ NoMissedBroadcast' /\ NoImpossibleState'
  BY <1>1, PageMapQuiet, HandlerQuiet DEF listVars, handlerVars, NoImpossibleState
<1>2. CASE EvictGet(v)
  BY <1>1, <1>2, EvictGetMem, EvictGetFault DEF EvictGet, pdVars
<1>3. CASE EvictWrite(v)
  <2>1. FaultInv'
    BY <1>3, FaultQuiet DEF EvictWrite, handlerVars, fillVars
  <2> QED
    BY <1>1, <1>3, <2>1, EvictWriteMem DEF EvictWrite
<1>4. CASE EvictMadvise(v)
  BY <1>1, <1>4, EvictMadviseMem, EvictGetFault DEF EvictMadvise, pdVars
<1>5. CASE EvictMarkFree(v)
  <2>1. state[evictor_work[v].page_desc] = "LEAVING"
    BY <1>5, InHand DEF EvictMarkFree
  <2>2. UNCHANGED aborted
    BY <1>5, <2>1 DEF EvictMarkFree, mark_page_as_free, set_state_free, DieUnless
  <2>3. NoImpossibleState'
    BY <2>2 DEF NoImpossibleState
  <2> QED
    BY <1>5, <2>3, MarkFreePageMap, EvictMarkFreeHandler, EvictMarkFreeMem, EvictMarkFreeFault
<1> QED
  BY <1>2, <1>3, <1>4, <1>5 DEF EvictWorker

LEMMA InitJInv == Init => JInv
<1> SUFFICES ASSUME Init PROVE JInv
  OBVIOUS
<1> USE BufferAssumption DEF Init
<1>1. OneDescriptorPerPage
  BY DEF OneDescriptorPerPage, InState
<1>2. HandlerInv /\ NoMissedBroadcast
  BY DEF HandlerInv, NoMissedBroadcast
<1>3. Range(fill_queue) = {} /\ Range(mgr_list) = {} /\ EvictQueued = {}
  BY SMT DEF Range, EvictQueued
<1>4. BusyInv /\ FillerInv /\ LeavingInv /\ CleanInv
  BY <1>3 DEF BusyInv, FillerInv, LeavingInv, CleanInv
<1>5. AbsentInv /\ Coherent
  BY DEF AbsentInv, Coherent
<1>6. FaultInv /\ NoImpossibleState
  BY DEF FaultInv, BlockedInv, NoForgottenFault, NoImpossibleState
<1> QED
  BY <1>1, <1>2, <1>4, <1>5, <1>6 DEF JInv, MemInv

LEMMA NextJInv ==
  ASSUME NoRace
  PROVE  IInv /\ IInv' /\ JInv /\ [Next]_vars => JInv'
<1> SUFFICES ASSUME IInv, IInv', JInv, [Next]_vars PROVE JInv'
  OBVIOUS
<1>1. CASE UNCHANGED vars
  <2>1. UNCHANGED <<kernelVars, listVars, waitVars, pdVars, handlerVars, fillVars, mgrVars,
                    evictVars, aborted>>
    BY <1>1 DEF vars
  <2>2. OneDescriptorPerPage'
    BY <2>1, PageMapQuiet DEF JInv, listVars, pdVars
  <2>3. HandlerInv' /\ NoMissedBroadcast'
    BY <2>1, HandlerQuiet DEF JInv, listVars, pdVars, handlerVars
  <2>4. MemInv'
    BY <2>1, MemFrame DEF JInv, kernelVars, listVars, pdVars, mgrVars
  <2>5. FaultInv'
    BY <2>1, FaultQuiet DEF JInv, kernelVars, pdVars, handlerVars, fillVars
  <2> QED
    BY <2>1, <2>2, <2>3, <2>4, <2>5 DEF JInv, NoImpossibleState
<1>2. CASE Step
  BY <1>2, AppStepJInv, EventsJInv, HandlerJInv, FillWorkerJInv, EvictMgrJInv, EvictWorkerJInv
     DEF Step
<1> QED
  BY <1>1, <1>2 DEF Next, Dead

-----------------------------------------------------------------------------
(* The theorems *)

\* The inductive invariant holds in every reachable state of the engine.
THEOREM PagingInvariant == Spec => []IInv
<1>1. Init => IInv
  BY InitIInv
<1>2. IInv /\ [Next]_vars => IInv'
  BY NextIInv
<1> QED
  BY <1>1, <1>2, PTL DEF Spec

\* Every variable of the engine keeps its type: the manager only ever counts, the
\* lists and queues only hold descriptors, and a blocked thread has a fault.
THEOREM PagingTypeOK == Spec => []TypeOK
<1>1. IInv => TypeOK
  BY DEF IInv
<1> QED
  BY <1>1, PagingInvariant, PTL

\* Every descriptor is in exactly one place and that place goes with its state,
\* whatever the interleaving of handlers, fill workers, manager and evict workers.
THEOREM PagingOneOwner == Spec => []OneOwner
<1>1. IInv => OneOwner
  BY DEF IInv
<1> QED
  BY <1>1, PagingInvariant, PTL

\* The invariant about pages and threads holds too, unless prefetching threads compete
\* with the fault handler for too few descriptors.
THEOREM PagingInductive == ASSUME NoRace PROVE Spec => [](IInv /\ JInv)
<1>1. Init => IInv /\ JInv
  BY InitIInv, InitJInv
<1>2. IInv /\ JInv /\ [Next]_vars => (IInv /\ JInv)'
  BY NextIInv, NextJInv
<1> QED
  BY <1>1, <1>2, PTL DEF Spec

\* m_present_pages, the page fields of the descriptors and the region's active
\* descriptors always agree, so that no page is ever brought in twice.
THEOREM PagingOneDescriptorPerPage == ASSUME NoRace PROVE Spec => []OneDescriptorPerPage
<1>1. IInv /\ JInv => OneDescriptorPerPage
  BY DEF JInv
<1> QED
  BY <1>1, PagingInductive, PTL

\* What the application wrote last is never lost and never hidden, however faults,
\* fills, write-backs and evictions of its pages interleave.
THEOREM PagingCoherent == ASSUME NoRace PROVE Spec => []Coherent
<1>1. IInv /\ JInv => Coherent
  BY DEF JInv, MemInv
<1> QED
  BY <1>1, PagingInductive, PTL

\* No set_state_* call and no UFFDIO_COPY ever meets a state that makes it throw.
THEOREM PagingNoImpossibleState == ASSUME NoRace PROVE Spec => []NoImpossibleState
<1>1. IInv /\ JInv => NoImpossibleState
  BY DEF JInv
<1> QED
  BY <1>1, PagingInductive, PTL

\* No handler sleeps on a condition variable after what it waits for has happened,
\* although the broadcasts are skipped when nobody is counted as waiting.
THEOREM PagingNoMissedBroadcast == ASSUME NoRace PROVE Spec => []NoMissedBroadcast
<1>1. IInv /\ JInv => NoMissedBroadcast
  BY DEF JInv
<1> QED
  BY <1>1, PagingInductive, PTL

\* No fault whose message was read is dropped as a duplicate or as spurious while its
\* thread still needs it.
THEOREM PagingNoForgottenFault == ASSUME NoRace PROVE Spec => []NoForgottenFault
<1>1. IInv /\ JInv => NoForgottenFault
  BY DEF JInv, FaultInv
<1> QED
  BY <1>1, PagingInductive, PTL

\* All of it together: the engine loses no descriptor, page, event or waiting thread.
THEOREM PagingIsSafe == ASSUME NoRace PROVE Spec => []PagingSafe
<1>1. IInv /\ JInv => PagingSafe
  BY DEF IInv, JInv, MemInv, FaultInv, PagingSafe
<1> QED
  BY <1>1, PagingInductive, PTL
=============================================================================
