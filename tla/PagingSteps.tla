---------------------------- MODULE PagingSteps -----------------------------
(***************************************************************************)
(* What the steps of the paging engine do to its invariant, for any number *)
(* of pages, descriptors, application threads, prefetching threads and     *)
(* workers: they keep every descriptor in exactly one place, give no page  *)
(* two descriptors, lose and hide nothing the application wrote, and leave *)
(* nobody waiting for what has happened.                                   *)
(***************************************************************************)
EXTENDS PagingInvariant

\* Most leaves are first-order reasoning; those that need more name SMT.
USE Zenon

(* Steps that move no descriptor *)

\* The parts of the invariant that go with the owners.
LEMMA QuietFrame ==
  ASSUME IInv, UNCHANGED ownerVars, UNCHANGED <<mgr_pc, page, deferred>>, TypeOK'
  PROVE  IInv'
<1>1. OneOwner'
  BY OwnerFrame DEF IInv
<1>2. MgrHolds' /\ PageKnown' /\ OnlyEvictions'
  BY DEF IInv, MgrHolds, PageKnown, OnlyEvictions, ownerVars
<1> QED
  BY <1>1, <1>2 DEF IInv

LEMMA AppStepIInv ==
  ASSUME IInv, NEW t \in Apps, AppStep(t)
  PROVE  IInv'
<1> USE BufferAssumption
<1>1. UNCHANGED ownerVars /\ UNCHANGED <<mgr_pc, page, deferred>>
  BY DEF AppStep, AppWrite, AppFault, AppRetry, ownerVars, listVars, pdVars, mgrVars, fillVars,
         evictVars
<1>2. /\ UNCHANGED <<listVars, waitVars, handlerVars, pdVars, mgr_work, mgrVars, evictVars, aborted>>
      /\ UNCHANGED <<fill_queue, filler_pc, filler_pd>>
  BY DEF AppStep, AppWrite, AppFault, AppRetry, fillVars
<1>3. BufferTypeOK' /\ DescriptorTypeOK'
  BY <1>2 DEF IInv, TypeOK, BufferTypeOK, DescriptorTypeOK, listVars, waitVars, handlerVars, pdVars
<1>4. filler_buf' \in [Fillers -> {"fresh", "stale"}] /\ KernelTypeOK'
  <2>1. ASSUME NEW p \in Pages, AppWrites(p)
        PROVE  /\ filler_buf' \in [Fillers -> {"fresh", "stale"}]
               /\ mem' \in [Pages -> {"none", "fresh", "stale"}]
               /\ store_fresh' \subseteq Pages
    BY <2>1 DEF AppWrites, IInv, TypeOK, WorkerTypeOK, KernelTypeOK
  <2>2. ASSUME NEW p \in {e.page : e \in {a \in Accesses : a.write}}, AppWrite(t, p)
        PROVE  filler_buf' \in [Fillers -> {"fresh", "stale"}] /\ KernelTypeOK'
    <3>1. p \in Pages
      OBVIOUS
    <3> QED
      BY <2>1, <2>2, <3>1 DEF AppWrite, IInv, TypeOK, KernelTypeOK
  <2>3. ASSUME NEW e \in Accesses, AppFault(t, e)
        PROVE  filler_buf' \in [Fillers -> {"fresh", "stale"}] /\ KernelTypeOK'
    <3>1. e \in Event
      BY DEF Event
    <3> QED
      BY <2>3, <3>1, SMT DEF AppFault, fillVars, IInv, TypeOK, WorkerTypeOK, KernelTypeOK
  <2>4. CASE AppRetry(t)
    <3>1. fault[t] \in Event
      BY <2>4 DEF AppRetry, IInv, TypeOK, KernelTypeOK
    <3>2. fault[t].page \in Pages
      BY <3>1 DEF Event
    <3>3. fault' \in [Apps -> Event \cup {NoFault}]
      BY <2>4 DEF AppRetry, IInv, TypeOK, KernelTypeOK
    <3>4. /\ filler_buf' \in [Fillers -> {"fresh", "stale"}]
          /\ mem' \in [Pages -> {"none", "fresh", "stale"}]
          /\ store_fresh' \subseteq Pages
      BY <2>1, <2>4, <3>2 DEF AppRetry, IInv, TypeOK, WorkerTypeOK, KernelTypeOK
    <3> QED
      BY <2>4, <3>3, <3>4 DEF AppRetry, IInv, TypeOK, KernelTypeOK
  <2> QED
    BY <2>2, <2>3, <2>4 DEF AppStep
<1>5. WorkerTypeOK'
  BY <1>2, <1>4 DEF IInv, TypeOK, WorkerTypeOK, mgrVars, evictVars
<1>6. TypeOK'
  BY <1>2, <1>3, <1>4, <1>5 DEF IInv, TypeOK
<1> QED
  BY <1>1, <1>6, QuietFrame

LEMMA UffdReadIInv ==
  ASSUME IInv, UffdRead
  PROVE  IInv'
<1> USE DEF UffdRead
<1>1. UNCHANGED ownerVars /\ UNCHANGED <<mgr_pc, page, deferred>>
  BY DEF ownerVars, listVars, pdVars, mgrVars, fillVars, evictVars
<1>2. KernelTypeOK'
  BY DEF IInv, TypeOK, KernelTypeOK
<1>3. BufferTypeOK'
  <2>1. ASSUME NEW msgs \in SUBSET unread PROVE OnePerPage({fault[t] : t \in msgs}) \subseteq Event
    BY DEF OnePerPage, IInv, TypeOK, KernelTypeOK
  <2>2. batch' \in [Handlers -> SUBSET Event]
    <3>1. PICK msgs \in SUBSET unread :
            batch' = [batch EXCEPT ![UffdThread] = OnePerPage({fault[t] : t \in msgs})]
      OBVIOUS
    <3>2. OnePerPage({fault[t] : t \in msgs}) \in SUBSET Event /\ batch \in [Handlers -> SUBSET Event]
      BY <2>1 DEF IInv, TypeOK, BufferTypeOK
    <3> QED
      BY <3>1, <3>2
  <2>3. pc' \in [Handlers -> {"idle", "event", "wait_state", "wait_avail"}]
    BY DEF IInv, TypeOK, BufferTypeOK
  <2>4. UNCHANGED <<listVars, waitVars>>
    OBVIOUS
  <2> QED
    BY <2>2, <2>3, <2>4 DEF IInv, TypeOK, BufferTypeOK, listVars, waitVars
<1>4. DescriptorTypeOK' /\ WorkerTypeOK' /\ UNCHANGED aborted
  BY DEF IInv, TypeOK, DescriptorTypeOK, WorkerTypeOK, pdVars, fillVars, mgrVars, evictVars
<1> QED
  BY <1>1, <1>2, <1>3, <1>4, QuietFrame DEF IInv, TypeOK

LEMMA PrefetchIInv ==
  ASSUME IInv, NEW h \in Prefetchers, NEW p \in Pages, Prefetch(h, p)
  PROVE  IInv'
<1> USE DEF Prefetch
<1>1. UNCHANGED ownerVars /\ UNCHANGED <<mgr_pc, page, deferred>>
  BY DEF ownerVars, listVars, pdVars, mgrVars, fillVars, evictVars
<1>2. BufferTypeOK'
  BY SMT DEF IInv, TypeOK, BufferTypeOK, listVars, waitVars, Handlers, Event
<1>3. KernelTypeOK' /\ DescriptorTypeOK' /\ WorkerTypeOK' /\ UNCHANGED aborted
  BY DEF IInv, TypeOK, KernelTypeOK, DescriptorTypeOK, WorkerTypeOK, kernelVars, pdVars, fillVars,
         mgrVars, evictVars
<1> QED
  BY <1>1, <1>2, <1>3, QuietFrame DEF IInv, TypeOK

LEMMA EventDoneType ==
  ASSUME BufferTypeOK, NEW h \in Handlers, NEW e \in batch[h], EventDone(h, e), EndStateWait(h)
  PROVE  /\ e \in Event /\ e.page \in Pages /\ e.write \in BOOLEAN
         /\ pc' \in [Handlers -> {"idle", "event", "wait_state", "wait_avail"}]
         /\ batch' \in [Handlers -> SUBSET Event]
         /\ m_waits_for_state_change' \subseteq Handlers \cup {Leaked}
BY SMT DEF BufferTypeOK, EventDone, EndStateWait, Event

LEMMA HandlerWaitsIInv ==
  ASSUME IInv, NEW h \in Handlers, NEW e \in batch[h],
         WaitForState(h, e) \/ SpuriousEvent(h, e) \/ WaitForDescriptor(h, e)
  PROVE  IInv'
<1>1. UNCHANGED ownerVars /\ UNCHANGED <<mgr_pc, page, deferred>>
  BY DEF WaitForState, SpuriousEvent, WaitForDescriptor,
         ownerVars, listVars, pdVars, mgrVars, fillVars, evictVars
<1>2. BufferTypeOK'
  <2>1. CASE WaitForState(h, e)
    BY <2>1 DEF WaitForState, BeginStateWait, IInv, TypeOK, BufferTypeOK, listVars
  <2>2. CASE SpuriousEvent(h, e)
    BY <2>2, EventDoneType DEF SpuriousEvent, IInv, TypeOK, BufferTypeOK, listVars
  <2>3. CASE WaitForDescriptor(h, e)
    BY <2>3 DEF WaitForDescriptor, IInv, TypeOK, BufferTypeOK, listVars
  <2> QED
    BY <2>1, <2>2, <2>3
<1>3. UNCHANGED <<kernelVars, pdVars, fillVars, mgr_work, mgrVars, evictVars, aborted>>
  BY ZenonT(30) DEF WaitForState, SpuriousEvent, WaitForDescriptor
<1>4. KernelTypeOK' /\ DescriptorTypeOK' /\ WorkerTypeOK'
  BY <1>3 DEF IInv, TypeOK, KernelTypeOK, DescriptorTypeOK, WorkerTypeOK, kernelVars, pdVars,
              fillVars, mgrVars, evictVars
<1> QED
  BY <1>1, <1>2, <1>3, <1>4, QuietFrame, ZenonT(30) DEF IInv, TypeOK

LEMMA SpuriousWakeIInv ==
  ASSUME IInv, NEW h \in Handlers, SpuriousWake(h)
  PROVE  IInv'
<1> USE DEF SpuriousWake
<1>1. UNCHANGED ownerVars /\ UNCHANGED <<mgr_pc, page, deferred>>
  BY DEF ownerVars, listVars, pdVars, mgrVars, fillVars, evictVars
<1>2. BufferTypeOK'
  BY DEF IInv, TypeOK, BufferTypeOK, listVars, handlerVars
<1>3. KernelTypeOK' /\ DescriptorTypeOK' /\ WorkerTypeOK' /\ UNCHANGED aborted
  BY DEF IInv, TypeOK, KernelTypeOK, DescriptorTypeOK, WorkerTypeOK, kernelVars, pdVars,
         fillVars, mgrVars, evictVars
<1> QED
  BY <1>1, <1>2, <1>3, QuietFrame DEF IInv, TypeOK

-----------------------------------------------------------------------------
(* Steps of process_page_event that hand a descriptor to the fill workers *)

LEMMA KickType ==
  ASSUME IInv, NEW n \in Nat, Kick(n)
  PROVE  mgr_work' \in 0..MaxKicks
BY BufferAssumption, SMT DEF IInv, TypeOK, WorkerTypeOK, Kick

LEMMA UpdatePageIInv ==
  ASSUME IInv, NEW h \in Handlers, NEW e \in batch[h], UpdatePage(h, e)
  PROVE  IInv'
<1> USE DEF UpdatePage
<1>1. PICK pd \in PDs : /\ state[pd] = "PRESENT"
                        /\ dirty' = [dirty EXCEPT ![pd] = TRUE]
                        /\ state' = [state EXCEPT ![pd] = "UPDATING"]
                        /\ fill_queue' = Append(fill_queue, pd)
                        /\ aborted' = aborted
  BY DEF set_state_updating, DieUnless
<1>2. /\ InState({"FREE"})' = InState({"FREE"}) /\ InState({"LEAVING"})' = InState({"LEAVING"})
      /\ InState({"FILLING", "PRESENT", "UPDATING"})' = InState({"FILLING", "PRESENT", "UPDATING"})
      /\ InState({"FILLING", "UPDATING"})' = InState({"FILLING", "UPDATING"}) \cup {pd}
      /\ pd \notin InState({"FILLING", "UPDATING"})
  BY <1>1, SMT DEF InState, IInv, TypeOK, DescriptorTypeOK
<1>3. FreeOwned' /\ BusyOwned' /\ LeavingOwned'
  BY <1>2, FreeFrame, BusyFrame, LeavingFrame DEF IInv, OneOwner, listVars, mgrVars, evictVars
<1>4. FillOwned'
  <2>1. pd \notin Range(fill_queue) /\ pd \notin FillerHas /\ FillerHas' = FillerHas
    BY <1>2, SMT DEF IInv, OneOwner, FillOwned, FillerHas
  <2>2. /\ IsInjective(fill_queue') /\ Range(fill_queue') = Range(fill_queue) \cup {pd}
        /\ fill_queue' \in Seq(PDs)
    <3>1. /\ fill_queue' = Append(fill_queue, pd) /\ pd \in PDs
          /\ fill_queue \in Seq(PDs) /\ IsInjective(fill_queue)
      BY <1>1, ListsInjective
    <3> QED
      BY <2>1, <3>1, AppendFacts, SMT
  <2> QED
    BY <1>2, <2>1, <2>2, SMT DEF IInv, OneOwner, FillOwned
<1>5. TypeOK'
  <2>1. KernelTypeOK' /\ DescriptorTypeOK' /\ UNCHANGED aborted
    BY <1>1 DEF IInv, TypeOK, KernelTypeOK, DescriptorTypeOK, kernelVars
  <2>2. BufferTypeOK'
    BY EventDoneType DEF IInv, TypeOK, BufferTypeOK, listVars
  <2>3. Len(m_busy_pages) \in Nat
    BY ListLen DEF IInv, TypeOK, BufferTypeOK
  <2>4. WorkerTypeOK'
    BY <1>1, <2>3, KickType, SMT DEF IInv, TypeOK, WorkerTypeOK, mgrVars, evictVars
  <2> QED
    BY <2>1, <2>2, <2>4 DEF IInv, TypeOK
<1>6. MgrHolds' /\ PageKnown' /\ OnlyEvictions'
  BY <1>1 DEF IInv, TypeOK, DescriptorTypeOK, MgrHolds, PageKnown, OnlyEvictions, mgrVars, evictVars
<1> QED
  BY <1>3, <1>4, <1>5, <1>6 DEF IInv, OneOwner

LEMMA BringInIInv ==
  ASSUME IInv, NEW h \in Handlers, NEW e \in batch[h], BringIn(h, e)
  PROVE  IInv'
<1> DEFINE pd == m_free_pages[Len(m_free_pages)]
<1>1. /\ m_free_pages' = SubSeq(m_free_pages, 1, Len(m_free_pages) - 1)
      /\ m_busy_pages' = <<pd>> \o m_busy_pages
      /\ page' = [page EXCEPT ![pd] = e.page]
      /\ dirty' = [dirty EXCEPT ![pd] = e.write]
      /\ deferred' = [deferred EXCEPT ![pd] = FALSE]
      /\ state' = [state EXCEPT ![pd] = "FILLING"]
      /\ data_present' = [data_present EXCEPT ![pd] = FALSE]
      /\ active_pages' = active_pages \cup {pd}
      /\ m_present_pages' = [m_present_pages EXCEPT ![e.page] = pd]
      /\ fill_queue' = Append(fill_queue, pd)
      /\ aborted' \in {aborted, aborted \cup {"set_state_filling"}}
      /\ m_free_pages # <<>>
      /\ Kick(Len(m_busy_pages) + 1) /\ EndStateWait(h) /\ EventDone(h, e)
      /\ m_waits_for_avail_pd' = m_waits_for_avail_pd \ {h}
      /\ UNCHANGED <<kernelVars, asleep_avail, asleep_state, filler_pc, filler_pd, filler_buf,
                     mgrVars, evictVars>>
  BY DEF BringIn, set_state_filling, insert_page_descriptor, DieUnless
<1>2. /\ pd \in PDs /\ pd \in Range(m_free_pages)
      /\ m_free_pages' \in Seq(PDs) /\ IsInjective(m_free_pages')
      /\ Range(m_free_pages') = Range(m_free_pages) \ {pd}
  BY <1>1, FrontFacts, ListsInjective
<1> HIDE DEF pd
<1>3. pd \in InState({"FREE"})
  BY <1>2 DEF IInv, OneOwner, FreeOwned
<1>4. /\ InState({"FREE"})' = InState({"FREE"}) \ {pd}
      /\ InState({"LEAVING"})' = InState({"LEAVING"})
      /\ InState({"FILLING", "PRESENT", "UPDATING"})' =
           InState({"FILLING", "PRESENT", "UPDATING"}) \cup {pd}
      /\ InState({"FILLING", "UPDATING"})' = InState({"FILLING", "UPDATING"}) \cup {pd}
      /\ pd \notin InState({"FILLING", "UPDATING"})
      /\ pd \notin InState({"FILLING", "PRESENT", "UPDATING"})
  BY <1>1, <1>3 DEF InState, IInv, TypeOK, DescriptorTypeOK
<1>5. FreeOwned'
  BY <1>2, <1>4 DEF IInv, OneOwner, FreeOwned
<1>6. LeavingOwned'
  BY <1>1, <1>4, LeavingFrame DEF IInv, OneOwner, mgrVars, evictVars
<1>7. BusyOwned' /\ m_busy_pages' \in Seq(PDs)
  <2>1. pd \notin Range(m_busy_pages)
    BY <1>4 DEF IInv, OneOwner, BusyOwned
  <2>2. /\ IsInjective(m_busy_pages') /\ Range(m_busy_pages') = Range(m_busy_pages) \cup {pd}
        /\ m_busy_pages' \in Seq(PDs)
    <3>1. /\ m_busy_pages' = <<pd>> \o m_busy_pages /\ pd \in PDs
          /\ m_busy_pages \in Seq(PDs) /\ IsInjective(m_busy_pages)
      BY <1>1, <1>2, ListsInjective
    <3> QED
      BY <2>1, <3>1, ConsFacts, SMT
  <2> QED
    BY <1>4, <2>2 DEF IInv, OneOwner, BusyOwned
<1>8. FillOwned' /\ fill_queue' \in Seq(PDs)
  <2>1. pd \notin Range(fill_queue) /\ pd \notin FillerHas /\ FillerHas' = FillerHas
    BY <1>1, <1>4, SMT DEF IInv, OneOwner, FillOwned, FillerHas
  <2>2. /\ IsInjective(fill_queue') /\ Range(fill_queue') = Range(fill_queue) \cup {pd}
        /\ fill_queue' \in Seq(PDs)
    <3>1. /\ fill_queue' = Append(fill_queue, pd) /\ pd \in PDs
          /\ fill_queue \in Seq(PDs) /\ IsInjective(fill_queue)
      BY <1>1, <1>2, ListsInjective
    <3> QED
      BY <2>1, <3>1, AppendFacts, SMT
  <2>3. /\ Range(fill_queue') \cap FillerHas' = {}
        /\ Range(fill_queue') \cup FillerHas' = InState({"FILLING", "UPDATING"})'
    BY <1>4, <2>1, <2>2 DEF IInv, OneOwner, FillOwned
  <2>4. UNCHANGED <<filler_pc, filler_pd>>
    BY <1>1
  <2> QED
    BY <2>2, <2>3, <2>4 DEF IInv, OneOwner, FillOwned
<1>9. TypeOK'
  <2>1. /\ e \in Event /\ e.page \in Pages /\ e.write \in BOOLEAN
        /\ pc' \in [Handlers -> {"idle", "event", "wait_state", "wait_avail"}]
        /\ batch' \in [Handlers -> SUBSET Event]
        /\ m_waits_for_state_change' \subseteq Handlers \cup {Leaked}
    BY <1>1, EventDoneType DEF IInv, TypeOK
  <2>2. KernelTypeOK' /\ aborted' \subseteq Fatal
    BY <1>1 DEF Fatal, IInv, TypeOK, KernelTypeOK, kernelVars
  <2>3. DescriptorTypeOK'
    BY <1>1, <1>2, <2>1 DEF IInv, TypeOK, DescriptorTypeOK
  <2>4. BufferTypeOK'
    BY <1>1, <1>2, <1>7, <2>1 DEF IInv, TypeOK, BufferTypeOK
  <2>5. Len(m_busy_pages) + 1 \in Nat
    BY ListLen, SMT DEF IInv, TypeOK, BufferTypeOK
  <2>6. WorkerTypeOK'
    BY <1>1, <1>8, <2>5, KickType DEF IInv, TypeOK, WorkerTypeOK, mgrVars, evictVars
  <2> QED
    BY <2>2, <2>3, <2>4, <2>6 DEF TypeOK
<1>10. PageKnown'
  <2>1. e.page \in Pages
    BY <1>1, EventDoneType DEF IInv, TypeOK
  <2> QED
    BY <1>1, <1>2, <2>1 DEF IInv, TypeOK, DescriptorTypeOK, PageKnown
<1>11. MgrHolds' /\ OnlyEvictions'
  BY <1>1 DEF IInv, MgrHolds, OnlyEvictions, mgrVars, evictVars
<1> QED
  BY <1>5, <1>6, <1>7, <1>8, <1>9, <1>10, <1>11 DEF IInv, OneOwner

-----------------------------------------------------------------------------
(* Fill workers *)

\* A fill worker takes the head of the queue.
LEMMA FillTakes ==
  ASSUME IInv, NEW f \in Fillers, filler_pc[f] = "get", fill_queue # <<>>,
         NEW next \in {"copy", "mark"},
         fill_queue' = Tail(fill_queue), filler_pc' = [filler_pc EXCEPT ![f] = next],
         filler_pd' = [filler_pd EXCEPT ![f] = Head(fill_queue)],
         UNCHANGED state
  PROVE  /\ FillOwned' /\ Head(fill_queue) \in PDs /\ page[Head(fill_queue)] \in Pages
         /\ fill_queue' \in Seq(PDs)
<1> DEFINE pd == Head(fill_queue)
<1>1. /\ pd \in PDs /\ pd \in Range(fill_queue)
      /\ fill_queue' \in Seq(PDs) /\ IsInjective(fill_queue')
      /\ Range(fill_queue') = Range(fill_queue) \ {pd}
  BY TailFacts, ListsInjective
<1> HIDE DEF pd
<1>2. pd \in InState({"FILLING", "UPDATING"})
  BY <1>1 DEF IInv, OneOwner, FillOwned
<1>3. page[pd] \in Pages
  BY <1>2 DEF InState, IInv, PageKnown
<1>4. pd \notin FillerHas /\ FillerHas' = FillerHas \cup {pd}
  BY <1>1, SMT DEF pd, FillerHas, IInv, OneOwner, FillOwned, TypeOK, WorkerTypeOK
<1>5. \A g \in Fillers : filler_pc[g] # "get" => filler_pd[g] # pd
  BY <1>4 DEF FillerHas
<1>6. InState({"FILLING", "UPDATING"})' = InState({"FILLING", "UPDATING"})
  BY DEF InState
<1>7. \A g1, g2 \in Fillers :
        filler_pc'[g1] # "get" /\ filler_pc'[g2] # "get" /\ filler_pd'[g1] = filler_pd'[g2] => g1 = g2
  <2>1. /\ filler_pd'[f] = pd
        /\ \A g \in Fillers \ {f} : filler_pc'[g] = filler_pc[g] /\ filler_pd'[g] = filler_pd[g]
    BY DEF pd, IInv, TypeOK, WorkerTypeOK
  <2>2. \A g1, g2 \in Fillers :
          filler_pc[g1] # "get" /\ filler_pc[g2] # "get" /\ filler_pd[g1] = filler_pd[g2] => g1 = g2
    BY DEF IInv, OneOwner, FillOwned
  <2> QED
    BY <1>5, <2>1, <2>2, SMT
<1>8. /\ Range(fill_queue') \cap FillerHas' = {}
      /\ Range(fill_queue') \cup FillerHas' = InState({"FILLING", "UPDATING"})'
  BY <1>1, <1>4, <1>6 DEF IInv, OneOwner, FillOwned
<1> QED
  BY <1>1, <1>3, <1>7, <1>8 DEF pd, FillOwned

LEMMA FillGetIInv ==
  ASSUME IInv, NEW f \in Fillers, FillUnprotect(f) \/ FillRead(f)
  PROVE  IInv'
<1>1. PICK next \in {"copy", "mark"} : filler_pc' = [filler_pc EXCEPT ![f] = next]
  BY DEF FillUnprotect, FillRead
<1>2. /\ filler_pc[f] = "get" /\ fill_queue # <<>> /\ fill_queue' = Tail(fill_queue)
      /\ filler_pd' = [filler_pd EXCEPT ![f] = Head(fill_queue)]
      /\ UNCHANGED <<listVars, waitVars, pdVars, handlerVars, mgr_work, mgrVars, evictVars, aborted>>
  BY DEF FillUnprotect, FillRead
<1>3. /\ FillOwned' /\ Head(fill_queue) \in PDs /\ page[Head(fill_queue)] \in Pages
      /\ fill_queue' \in Seq(PDs)
  BY <1>1, <1>2, FillTakes, ZenonT(30) DEF pdVars
<1>4. \A S : InState(S)' = InState(S)
  BY <1>2 DEF InState, pdVars
<1>5. FreeOwned' /\ BusyOwned' /\ LeavingOwned'
  BY <1>2, <1>4, FreeFrame, BusyFrame, LeavingFrame DEF IInv, OneOwner, listVars, mgrVars, evictVars
<1>6. KernelTypeOK'
  <2>1. CASE FillUnprotect(f)
    BY <2>1 DEF FillUnprotect, disable_write_protect, WakeThreads, IInv, TypeOK, KernelTypeOK
  <2>2. CASE FillRead(f)
    BY <2>2 DEF FillRead, kernelVars, IInv, TypeOK, KernelTypeOK
  <2> QED
    BY <2>1, <2>2
<1>7. BufferTypeOK' /\ DescriptorTypeOK' /\ UNCHANGED aborted
  BY <1>2 DEF IInv, TypeOK, BufferTypeOK, DescriptorTypeOK, listVars, waitVars, pdVars, handlerVars
<1>8. filler_buf' \in [Fillers -> {"fresh", "stale"}]
  BY DEF FillUnprotect, FillRead, read_from_store, IInv, TypeOK, WorkerTypeOK
<1>9. WorkerTypeOK'
  BY <1>1, <1>2, <1>3, <1>8 DEF IInv, TypeOK, WorkerTypeOK, mgrVars, evictVars
<1>10. MgrHolds' /\ PageKnown' /\ OnlyEvictions'
  BY <1>2 DEF IInv, MgrHolds, PageKnown, OnlyEvictions, pdVars, mgrVars, evictVars
<1> QED
  BY <1>3, <1>5, <1>6, <1>7, <1>9, <1>10 DEF IInv, TypeOK, OneOwner

LEMMA FillCopyIInv ==
  ASSUME IInv, NEW f \in Fillers, FillCopy(f)
  PROVE  IInv'
<1> DEFINE pd == filler_pd[f]
           p == page[pd]
<1>1. /\ filler_pc[f] = "copy"
      /\ mem' = [mem EXCEPT ![p] = IF mem[p] = "none" THEN filler_buf[f] ELSE mem[p]]
      /\ wp' \in {wp \ {p}, wp \cup {p}} /\ WakeThreads(p)
      /\ aborted' \in {aborted, aborted \cup {"UFFDIO_COPY"}}
      /\ data_present' = [data_present EXCEPT ![pd] = TRUE]
      /\ filler_buf' = [filler_buf EXCEPT ![f] = "stale"]
      /\ filler_pc' = [filler_pc EXCEPT ![f] = "mark"]
  BY DEF FillCopy, copy_in_page, copy_in_page_and_write_protect, UffdioCopy, DieUnless
<1>2. UNCHANGED <<store_fresh, fault, listVars, waitVars, page, state, dirty, deferred,
                  handlerVars, fill_queue, filler_pd, mgr_work, mgrVars, evictVars>>
  BY DEF FillCopy
<1>3. pd \in PDs /\ p \in Pages
  BY <1>1, InHand
<1> HIDE DEF pd, p
<1>4. \A S : InState(S)' = InState(S)
  BY <1>2 DEF InState
<1>5. FreeOwned' /\ BusyOwned' /\ LeavingOwned'
  BY <1>2, <1>4, FreeFrame, BusyFrame, LeavingFrame DEF IInv, OneOwner, listVars, mgrVars, evictVars
<1>6. FillOwned'
  <2>1. \A g \in Fillers : filler_pc'[g] # "get" <=> filler_pc[g] # "get"
    BY <1>1 DEF IInv, TypeOK, WorkerTypeOK
  <2>2. FillerHas' = FillerHas
    BY <1>2, <2>1 DEF FillerHas
  <2> QED
    BY <1>2, <1>4, <2>1, <2>2 DEF IInv, OneOwner, FillOwned
<1>7. KernelTypeOK'
  BY <1>1, <1>2, <1>3 DEF WakeThreads, IInv, TypeOK, KernelTypeOK, WorkerTypeOK
<1>8. DescriptorTypeOK'
  BY <1>1, <1>2, <1>3 DEF IInv, TypeOK, DescriptorTypeOK
<1>9. BufferTypeOK' /\ aborted' \subseteq Fatal
  <2>1. BufferTypeOK'
    BY <1>2 DEF IInv, TypeOK, BufferTypeOK, listVars, waitVars, handlerVars
  <2>2. aborted' \subseteq Fatal
    BY <1>1 DEF Fatal, IInv, TypeOK
  <2> QED
    BY <2>1, <2>2
<1>10. WorkerTypeOK'
  BY <1>1, <1>2 DEF IInv, TypeOK, WorkerTypeOK, mgrVars, evictVars
<1>11. MgrHolds' /\ PageKnown' /\ OnlyEvictions'
  BY <1>2 DEF IInv, MgrHolds, PageKnown, OnlyEvictions, mgrVars, evictVars
<1> QED
  BY <1>5, <1>6, <1>7, <1>8, <1>9, <1>10, <1>11 DEF IInv, TypeOK, OneOwner

LEMMA FillMarkPresentIInv ==
  ASSUME IInv, NEW f \in Fillers, FillMarkPresent(f)
  PROVE  IInv'
<1> USE DEF FillMarkPresent, mark_page_as_present, set_state_present
<1> DEFINE pd == filler_pd[f]
<1>1. /\ pd \in PDs /\ pd \in InState({"FILLING", "UPDATING"})
      /\ filler_pc[f] = "mark"
      /\ state' = [state EXCEPT ![pd] = "PRESENT"]
      /\ filler_pd' = [filler_pd EXCEPT ![f] = NoPD]
      /\ filler_pc' = [filler_pc EXCEPT ![f] = "get"]
      /\ UNCHANGED fill_queue
  BY InHand DEF InState
<1>2. /\ InState({"FREE"})' = InState({"FREE"}) /\ InState({"LEAVING"})' = InState({"LEAVING"})
      /\ InState({"FILLING", "PRESENT", "UPDATING"})' = InState({"FILLING", "PRESENT", "UPDATING"})
      /\ InState({"FILLING", "UPDATING"})' = InState({"FILLING", "UPDATING"}) \ {pd}
  BY <1>1, SMT DEF InState, IInv, TypeOK, DescriptorTypeOK
<1>3. FreeOwned' /\ BusyOwned' /\ LeavingOwned'
  BY <1>2, FreeFrame, BusyFrame, LeavingFrame DEF IInv, OneOwner, listVars, mgrVars, evictVars
<1>4. FillOwned'
  <2> HIDE DEF FillMarkPresent, mark_page_as_present, set_state_present
  <2>1. pd \in FillerHas
    BY <1>1 DEF FillerHas
  <2>2. pd \notin Range(fill_queue)
    BY <2>1 DEF IInv, OneOwner, FillOwned
  <2>3. \A g \in Fillers \ {f} : filler_pc'[g] = filler_pc[g] /\ filler_pd'[g] = filler_pd[g]
    BY <1>1 DEF IInv, TypeOK, WorkerTypeOK
  <2>4. filler_pc'[f] = "get"
    BY <1>1 DEF IInv, TypeOK, WorkerTypeOK
  <2>5. \A g \in Fillers \ {f} : filler_pc[g] # "get" => filler_pd[g] # pd
    BY <1>1 DEF IInv, OneOwner, FillOwned
  <2>6. FillerHas' = FillerHas \ {pd}
    BY <1>1, <2>3, <2>4, <2>5, SMT DEF FillerHas
  <2>7. \A g1, g2 \in Fillers :
          filler_pc'[g1] # "get" /\ filler_pc'[g2] # "get" /\ filler_pd'[g1] = filler_pd'[g2]
          => g1 = g2
    BY <2>3, <2>4 DEF IInv, OneOwner, FillOwned
  <2>8. /\ Range(fill_queue') \cap FillerHas' = {}
        /\ Range(fill_queue') \cup FillerHas' = InState({"FILLING", "UPDATING"})'
        /\ IsInjective(fill_queue')
    BY <1>1, <1>2, <2>2, <2>6 DEF IInv, OneOwner, FillOwned
  <2> QED
    BY <2>7, <2>8 DEF FillOwned
<1>5. TypeOK'
  <2>1. KernelTypeOK' /\ DescriptorTypeOK' /\ aborted' \subseteq Fatal
    BY <1>1 DEF DieUnless, Fatal, IInv, TypeOK, KernelTypeOK, DescriptorTypeOK, kernelVars
  <2>2. BufferTypeOK'
    BY DEF BroadcastState, IInv, TypeOK, BufferTypeOK, listVars, handlerVars
  <2>3. WorkerTypeOK'
    BY <1>1 DEF IInv, TypeOK, WorkerTypeOK, mgrVars, evictVars
  <2> QED
    BY <2>1, <2>2, <2>3 DEF TypeOK
<1>6. MgrHolds' /\ PageKnown' /\ OnlyEvictions'
  <2>1. MgrHolds' /\ OnlyEvictions'
    BY DEF IInv, MgrHolds, OnlyEvictions, mgrVars, evictVars
  <2>2. \A d \in PDs : state'[d] # "FREE" => state[d] # "FREE"
    BY <1>1 DEF InState, IInv, TypeOK, DescriptorTypeOK
  <2> QED
    BY <2>1, <2>2 DEF IInv, PageKnown
<1> QED
  BY <1>3, <1>4, <1>5, <1>6 DEF IInv, OneOwner

-----------------------------------------------------------------------------
(* The evict manager *)

LEMMA MgrTakesIInv ==
  ASSUME IInv, MgrGet \/ MgrCheck
  PROVE  IInv'
<1>1. UNCHANGED ownerVars /\ UNCHANGED <<page, deferred>>
  BY DEF MgrGet, MgrCheck, ownerVars, listVars, pdVars, fillVars, evictVars
<1>2. OneOwner'
  BY <1>1, OwnerFrame DEF IInv
<1>3. MgrHolds' /\ PageKnown' /\ OnlyEvictions'
  BY <1>1 DEF MgrGet, MgrCheck, IInv, MgrHolds, PageKnown, OnlyEvictions, ownerVars
<1>4. UNCHANGED <<kernelVars, listVars, waitVars, pdVars, handlerVars, aborted>>
  BY DEF MgrGet, MgrCheck
<1>5. KernelTypeOK' /\ BufferTypeOK' /\ DescriptorTypeOK'
  BY <1>4 DEF IInv, TypeOK, KernelTypeOK, BufferTypeOK, DescriptorTypeOK, kernelVars, listVars,
              waitVars, pdVars, handlerVars
<1>6. WorkerTypeOK'
  BY BufferAssumption, SMT DEF MgrGet, MgrCheck, IInv, TypeOK, WorkerTypeOK, fillVars, evictVars
<1> QED
  BY <1>2, <1>3, <1>4, <1>5, <1>6 DEF IInv, TypeOK

LEMMA MgrSendIInv ==
  ASSUME IInv, MgrSend
  PROVE  IInv'
<1> DEFINE d == Head(mgr_list)
           item == EvictItem(d)
<1>1. /\ mgr_pc = "send" /\ mgr_list # <<>>
      /\ evict_queue' = Append(evict_queue, item) /\ mgr_list' = Tail(mgr_list)
      /\ mgr_pc' = IF Len(mgr_list) = 1 THEN "check" ELSE "send"
      /\ UNCHANGED <<kernelVars, listVars, waitVars, pdVars, handlerVars, fillVars, mgr_work,
                     evictor_pc, evictor_work, aborted>>
  BY DEF MgrSend, IInv, MgrHolds
<1>2. /\ d \in PDs /\ d \in Range(mgr_list)
      /\ mgr_list' \in Seq(PDs) /\ IsInjective(mgr_list')
      /\ Range(mgr_list') = Range(mgr_list) \ {d}
  BY <1>1, TailFacts, ListsInjective
<1>3. item \in WorkItem /\ item.page_desc = d /\ item.type = "EVICT"
  BY <1>2 DEF EvictItem, WorkItem
<1> HIDE DEF d, item
<1>4. d \notin EvictQueued /\ d \notin EvictorHas
  BY <1>2 DEF IInv, OneOwner, LeavingOwned
<1>5. item \notin Range(evict_queue)
  BY <1>3, <1>4 DEF EvictQueued
<1>6. /\ evict_queue' \in Seq(WorkItem) /\ IsInjective(evict_queue')
      /\ Range(evict_queue') = Range(evict_queue) \cup {item}
  BY <1>1, <1>3, <1>5, AppendFacts, ListsInjective, SMT
<1>7. EvictQueued' = EvictQueued \cup {d} /\ EvictorHas' = EvictorHas
  BY <1>1, <1>3, <1>6 DEF EvictQueued, EvictorHas
<1>8. \A S : InState(S)' = InState(S)
  BY <1>1 DEF InState, pdVars
<1>9. FreeOwned' /\ BusyOwned' /\ FillOwned'
  BY <1>1, <1>8, FreeFrame, BusyFrame, FillFrame DEF IInv, OneOwner, listVars, fillVars
<1>10. LeavingOwned'
  <2>1. \A w1, w2 \in Range(evict_queue') : w1.page_desc = w2.page_desc => w1 = w2
    <3>1. \A w \in Range(evict_queue) : w.page_desc # d
      BY <1>4 DEF EvictQueued
    <3> QED
      BY <1>3, <1>6, <3>1 DEF IInv, OneOwner, LeavingOwned
  <2>2. /\ Range(mgr_list') \cap (EvictQueued' \cup EvictorHas') = {}
        /\ EvictQueued' \cap EvictorHas' = {}
        /\ Range(mgr_list') \cup EvictQueued' \cup EvictorHas' = InState({"LEAVING"})'
    <3>1. /\ Range(mgr_list) \cap (EvictQueued \cup EvictorHas) = {}
          /\ EvictQueued \cap EvictorHas = {}
          /\ Range(mgr_list) \cup EvictQueued \cup EvictorHas = InState({"LEAVING"})
      BY DEF IInv, OneOwner, LeavingOwned
    <3>2. /\ Range(mgr_list') = Range(mgr_list) \ {d} /\ d \in Range(mgr_list)
          /\ EvictQueued' = EvictQueued \cup {d} /\ EvictorHas' = EvictorHas
      BY <1>2, <1>7
    <3>3. Range(mgr_list') \cap (EvictQueued' \cup EvictorHas') = {}
      BY <3>1, <3>2
    <3>4. EvictQueued' \cap EvictorHas' = {}
      BY <1>4, <3>1, <3>2
    <3>5. Range(mgr_list') \cup EvictQueued' \cup EvictorHas'
            = Range(mgr_list) \cup EvictQueued \cup EvictorHas
      BY <3>2
    <3> QED
      BY <1>8, <3>1, <3>3, <3>4, <3>5
  <2> QED
    BY <1>1, <1>2, <1>6, <2>1, <2>2 DEF IInv, OneOwner, LeavingOwned
<1>11. KernelTypeOK' /\ BufferTypeOK' /\ DescriptorTypeOK' /\ UNCHANGED aborted
  BY <1>1 DEF IInv, TypeOK, KernelTypeOK, BufferTypeOK, DescriptorTypeOK, kernelVars, listVars,
              waitVars, pdVars, handlerVars
<1>12. WorkerTypeOK'
  BY <1>1, <1>2, <1>6 DEF IInv, TypeOK, WorkerTypeOK, fillVars
<1>13. MgrHolds'
  <2>1. Len(mgr_list) \in Nat \ {0} /\ Len(mgr_list') = Len(mgr_list) - 1
    BY <1>1, ListTail, ListsInjective, ListLen, ListEmpty
  <2>2. mgr_list' = <<>> <=> Len(mgr_list') = 0
    BY <1>2, ListEmpty
  <2> QED
    BY <1>1, <2>1, <2>2, SMT DEF MgrHolds
<1>14. PageKnown' /\ OnlyEvictions'
  BY <1>1, <1>3, <1>6 DEF IInv, PageKnown, OnlyEvictions, pdVars
<1> QED
  BY <1>9, <1>10, <1>11, <1>12, <1>13, <1>14 DEF IInv, TypeOK, OneOwner

-----------------------------------------------------------------------------
(* Evict workers *)

\* An evict worker goes on with its item, to a step that still needs it.
LEMMA EvictorKeeps ==
  ASSUME IInv, NEW v \in Evictors, evictor_pc[v] # "get",
         NEW next \in {"write", "madvise", "free"}, EvictorGoes(v, next, evictor_work[v]),
         UNCHANGED <<mgrVars, evict_queue, state>>
  PROVE  /\ LeavingOwned' /\ MgrHolds' /\ OnlyEvictions'
         /\ evictor_pc' \in [Evictors -> {"get", "write", "madvise", "free"}]
         /\ evictor_work' \in [Evictors -> WorkItem \cup {NoWork}]
<1>1. /\ evictor_pc' = [evictor_pc EXCEPT ![v] = next]
      /\ evictor_work' = [evictor_work EXCEPT ![v] = evictor_work[v]]
  BY DEF EvictorGoes
<1>2. /\ evictor_pc' \in [Evictors -> {"get", "write", "madvise", "free"}]
      /\ evictor_work' = evictor_work
      /\ evictor_work' \in [Evictors -> WorkItem \cup {NoWork}]
      /\ \A u \in Evictors : evictor_pc'[u] # "get" <=> evictor_pc[u] # "get"
  BY <1>1 DEF IInv, TypeOK, WorkerTypeOK
<1>3. EvictorHas' = EvictorHas /\ EvictQueued' = EvictQueued
  BY <1>2 DEF EvictorHas, EvictQueued
<1>4. \A S : InState(S)' = InState(S)
  BY DEF InState
<1>5. LeavingOwned'
  BY <1>2, <1>3, <1>4 DEF IInv, OneOwner, LeavingOwned, mgrVars
<1>6. MgrHolds' /\ OnlyEvictions'
  BY <1>2 DEF IInv, MgrHolds, OnlyEvictions, mgrVars
<1> QED
  BY <1>2, <1>5, <1>6

LEMMA EvictGetIInv ==
  ASSUME IInv, NEW v \in Evictors, EvictGet(v)
  PROVE  IInv'
<1> DEFINE work == Head(evict_queue)
           pd == work.page_desc
<1>1. /\ evictor_pc[v] = "get" /\ evict_queue # <<>> /\ evict_queue' = Tail(evict_queue)
      /\ UNCHANGED <<mem, store_fresh, fault, blocked, unread, listVars, waitVars, pdVars,
                     handlerVars, fillVars, mgr_work, mgrVars, aborted>>
  BY DEF EvictGet
<1>2. /\ work \in WorkItem /\ work \in Range(evict_queue)
      /\ evict_queue' \in Seq(WorkItem) /\ IsInjective(evict_queue')
      /\ Range(evict_queue') = Range(evict_queue) \ {work}
  BY <1>1, TailFacts, ListsInjective
<1>3. pd \in PDs /\ work.type = "EVICT"
  BY <1>2 DEF WorkItem, IInv, OnlyEvictions
<1>4. PICK next \in {"write", "madvise"} :
        /\ evictor_pc' = [evictor_pc EXCEPT ![v] = next]
        /\ evictor_work' = [evictor_work EXCEPT ![v] = work]
  <2>1. CASE dirty[pd]
    BY <2>1 DEF EvictGet, EvictorGoes
  <2>2. CASE ~dirty[pd]
    <3>1. EvictorGoes(v, AfterWrite(work), work)
      BY <2>2 DEF EvictGet
    <3>2. AfterWrite(work) = "madvise"
      BY <1>3 DEF AfterWrite
    <3> QED
      BY <3>1, <3>2 DEF EvictorGoes
  <2> QED
    BY <2>1, <2>2
<1>5. pd \in InState({"LEAVING"})
  BY <1>2, SMT DEF IInv, OneOwner, LeavingOwned, EvictQueued
<1>6. page[pd] \in Pages
  BY <1>5 DEF InState, IInv, PageKnown
<1>7. KernelTypeOK'
  <2>1. wp' \subseteq Pages
    BY <1>6 DEF EvictGet, enable_write_protect, IInv, TypeOK, KernelTypeOK
  <2> QED
    BY <1>1, <2>1 DEF IInv, TypeOK, KernelTypeOK
<1> HIDE DEF work, pd
<1>8. work.page_desc = pd
  BY DEF pd
<1>9. EvictQueued' = EvictQueued \ {pd}
  <2>1. \A w \in Range(evict_queue) : w.page_desc = pd => w = work
    BY <1>2, <1>8 DEF IInv, OneOwner, LeavingOwned
  <2> QED
    BY <1>2, <1>8, <2>1 DEF EvictQueued
<1>10. \A u \in Evictors \ {v} : evictor_pc'[u] = evictor_pc[u] /\ evictor_work'[u] = evictor_work[u]
  BY <1>4 DEF IInv, TypeOK, WorkerTypeOK
<1>11. evictor_pc'[v] # "get" /\ evictor_work'[v] = work
  BY <1>4 DEF IInv, TypeOK, WorkerTypeOK
<1>12. EvictorHas' = EvictorHas \cup {pd} /\ pd \in EvictQueued /\ pd \notin EvictorHas
  <2>1. pd \in EvictQueued
    BY <1>2, <1>8 DEF EvictQueued
  <2>2. pd \notin EvictorHas
    BY <2>1 DEF IInv, OneOwner, LeavingOwned
  <2> QED
    BY <1>1, <1>8, <1>10, <1>11, <2>1, <2>2, SMT DEF EvictorHas
<1>13. \A S : InState(S)' = InState(S)
  BY <1>1 DEF InState, pdVars
<1>14. FreeOwned' /\ BusyOwned' /\ FillOwned'
  BY <1>1, <1>13, FreeFrame, BusyFrame, FillFrame DEF IInv, OneOwner, listVars, fillVars
<1>15. LeavingOwned'
  <2>1. \A u1, u2 \in Evictors :
          /\ evictor_pc'[u1] # "get" /\ evictor_pc'[u2] # "get"
          /\ evictor_work'[u1].page_desc = evictor_work'[u2].page_desc
          => u1 = u2
    <3>1. \A u \in Evictors : evictor_pc[u] # "get" => evictor_work[u].page_desc # pd
      BY <1>12 DEF EvictorHas
    <3>2. \A u1, u2 \in Evictors :
            /\ evictor_pc[u1] # "get" /\ evictor_pc[u2] # "get"
            /\ evictor_work[u1].page_desc = evictor_work[u2].page_desc
            => u1 = u2
      BY DEF IInv, OneOwner, LeavingOwned
    <3> QED
      BY <1>8, <1>10, <1>11, <3>1, <3>2
  <2>2. /\ Range(mgr_list') \cap (EvictQueued' \cup EvictorHas') = {}
        /\ EvictQueued' \cap EvictorHas' = {}
        /\ Range(mgr_list') \cup EvictQueued' \cup EvictorHas' = InState({"LEAVING"})'
    BY <1>1, <1>9, <1>12, <1>13 DEF IInv, OneOwner, LeavingOwned, mgrVars
  <2>3. \A w1, w2 \in Range(evict_queue') : w1.page_desc = w2.page_desc => w1 = w2
    BY <1>2 DEF IInv, OneOwner, LeavingOwned
  <2> QED
    BY <1>1, <1>2, <2>1, <2>2, <2>3 DEF IInv, OneOwner, LeavingOwned, mgrVars
<1>16. BufferTypeOK' /\ DescriptorTypeOK' /\ UNCHANGED aborted
  BY <1>1 DEF IInv, TypeOK, BufferTypeOK, DescriptorTypeOK, listVars, waitVars, pdVars, handlerVars
<1>17. WorkerTypeOK'
  BY <1>1, <1>2, <1>4 DEF IInv, TypeOK, WorkerTypeOK, fillVars, mgrVars
<1>18. MgrHolds' /\ PageKnown'
  BY <1>1 DEF IInv, MgrHolds, PageKnown, mgrVars, pdVars
<1>19. OnlyEvictions'
  BY <1>2, <1>3, <1>10, <1>11 DEF IInv, OnlyEvictions
<1> QED
  BY <1>7, <1>14, <1>15, <1>16, <1>17, <1>18, <1>19 DEF IInv, TypeOK, OneOwner

LEMMA EvictWriteIInv ==
  ASSUME IInv, NEW v \in Evictors, EvictWrite(v) \/ EvictMadvise(v)
  PROVE  IInv'
<1> DEFINE pd == evictor_work[v].page_desc
<1>1. /\ evictor_pc[v] # "get"
      /\ UNCHANGED <<fault, blocked, unread, listVars, waitVars, page, state, deferred,
                     data_present, handlerVars, fillVars, mgr_work, mgrVars, evict_queue, aborted>>
  BY DEF EvictWrite, EvictMadvise, pdVars
<1>2. /\ pd \in PDs /\ page[pd] \in Pages /\ evictor_work[v].type = "EVICT"
  BY <1>1, InHand DEF IInv, OnlyEvictions
<1>3. PICK next \in {"madvise", "free"} : EvictorGoes(v, next, evictor_work[v])
  BY <1>2 DEF EvictWrite, EvictMadvise, AfterWrite
<1>4. /\ LeavingOwned' /\ MgrHolds' /\ OnlyEvictions'
      /\ evictor_pc' \in [Evictors -> {"get", "write", "madvise", "free"}]
      /\ evictor_work' \in [Evictors -> WorkItem \cup {NoWork}]
  BY <1>1, <1>3, EvictorKeeps
<1>5. \A S : InState(S)' = InState(S)
  BY <1>1 DEF InState
<1>6. FreeOwned' /\ BusyOwned' /\ FillOwned'
  BY <1>1, <1>5, FreeFrame, BusyFrame, FillFrame DEF IInv, OneOwner, listVars, fillVars
<1>7. KernelTypeOK'
  <2>1. CASE EvictWrite(v)
    BY <1>2, <2>1, ZenonT(30) DEF EvictWrite, write_to_store, IInv, TypeOK, KernelTypeOK
  <2>2. CASE EvictMadvise(v)
    BY <1>2, <2>2 DEF EvictMadvise, IInv, TypeOK, KernelTypeOK
  <2> QED
    BY <2>1, <2>2
<1>8. dirty' \in [PDs -> BOOLEAN]
  BY DEF EvictWrite, EvictMadvise, pdVars, IInv, TypeOK, DescriptorTypeOK
<1>9. BufferTypeOK' /\ DescriptorTypeOK' /\ UNCHANGED aborted
  BY <1>1, <1>8 DEF IInv, TypeOK, BufferTypeOK, DescriptorTypeOK, listVars, waitVars, handlerVars
<1>10. WorkerTypeOK'
  BY <1>1, <1>4 DEF IInv, TypeOK, WorkerTypeOK, fillVars, mgrVars
<1>11. PageKnown'
  BY <1>1 DEF IInv, PageKnown
<1> QED
  BY <1>4, <1>6, <1>7, <1>9, <1>10, <1>11 DEF IInv, TypeOK, OneOwner

LEMMA EvictMarkFreeIInv ==
  ASSUME IInv, NEW v \in Evictors, EvictMarkFree(v)
  PROVE  IInv'
<1> DEFINE pd == evictor_work[v].page_desc
<1>1. pd \in PDs /\ state[pd] = "LEAVING" /\ page[pd] \in Pages /\ ~deferred[pd]
  BY InHand DEF EvictMarkFree, IInv, PageKnown
<1>2. /\ evictor_pc[v] = "free"
      /\ active_pages' = active_pages \ {pd} /\ m_present_pages' = Erased(pd)
      /\ state' = [state EXCEPT ![pd] = "FREE"] /\ page' = [page EXCEPT ![pd] = NoPage]
      /\ m_free_pages' = Append(m_free_pages, pd) /\ asleep_avail' \in {{}, asleep_avail}
      /\ asleep_state' \in {{}, asleep_state}
      /\ aborted' \in {aborted, aborted \cup {"set_state_free"}}
      /\ evictor_pc' = [evictor_pc EXCEPT ![v] = "get"]
      /\ evictor_work' = [evictor_work EXCEPT ![v] = NoWork]
      /\ UNCHANGED <<kernelVars, m_busy_pages, m_waits_for_avail_pd, m_waits_for_state_change, dirty,
                     deferred, data_present, handlerVars, fillVars, mgr_work, mgrVars, evict_queue>>
  BY <1>1 DEF EvictMarkFree, mark_page_as_free, set_state_free, erase_page_descriptor,
              release_page_descriptor, BroadcastState, DieUnless, EvictorGoes
<1>3. pd \in EvictorHas
  BY <1>2 DEF EvictorHas
<1> HIDE DEF pd
<1>4. /\ InState({"FREE"})' = InState({"FREE"}) \cup {pd} /\ pd \notin InState({"FREE"})
      /\ InState({"FILLING", "PRESENT", "UPDATING"})' = InState({"FILLING", "PRESENT", "UPDATING"})
      /\ InState({"FILLING", "UPDATING"})' = InState({"FILLING", "UPDATING"})
      /\ InState({"LEAVING"})' = InState({"LEAVING"}) \ {pd}
  BY <1>1, <1>2 DEF InState, IInv, TypeOK, DescriptorTypeOK
<1>5. FreeOwned' /\ m_free_pages' \in Seq(PDs)
  <2>1. pd \notin Range(m_free_pages)
    BY <1>4 DEF IInv, OneOwner, FreeOwned
  <2>2. /\ m_free_pages' \in Seq(PDs) /\ IsInjective(m_free_pages')
        /\ Range(m_free_pages') = Range(m_free_pages) \cup {pd}
    <3>1. /\ m_free_pages' = Append(m_free_pages, pd) /\ pd \in PDs
          /\ m_free_pages \in Seq(PDs) /\ IsInjective(m_free_pages)
      BY <1>1, <1>2, ListsInjective
    <3> QED
      BY <2>1, <3>1, AppendFacts, SMT
  <2> QED
    BY <1>4, <2>2 DEF IInv, OneOwner, FreeOwned
<1>6. BusyOwned' /\ FillOwned'
  BY <1>2, <1>4, BusyFrame, FillFrame DEF IInv, OneOwner, fillVars
<1>7. LeavingOwned'
  <2>1. pd \notin Range(mgr_list) /\ pd \notin EvictQueued
    BY <1>3 DEF IInv, OneOwner, LeavingOwned
  <2>2. \A u \in Evictors \ {v} : evictor_pc'[u] = evictor_pc[u] /\ evictor_work'[u] = evictor_work[u]
    BY <1>2 DEF IInv, TypeOK, WorkerTypeOK
  <2>3. evictor_pc'[v] = "get"
    BY <1>2 DEF IInv, TypeOK, WorkerTypeOK
  <2>4. \A u \in Evictors \ {v} : evictor_pc[u] # "get" => evictor_work[u].page_desc # pd
    BY <1>2 DEF pd, IInv, OneOwner, LeavingOwned
  <2>5. EvictorHas' = EvictorHas \ {pd} /\ EvictQueued' = EvictQueued
    <3>1. EvictQueued' = EvictQueued
      BY <1>2 DEF EvictQueued
    <3>2. EvictorHas' = EvictorHas \ {pd}
      BY <2>2, <2>3, <2>4 DEF EvictorHas, pd
    <3> QED
      BY <3>1, <3>2
  <2>6. \A u1, u2 \in Evictors :
          /\ evictor_pc'[u1] # "get" /\ evictor_pc'[u2] # "get"
          /\ evictor_work'[u1].page_desc = evictor_work'[u2].page_desc
          => u1 = u2
    BY <2>2, <2>3 DEF IInv, OneOwner, LeavingOwned
  <2>7. /\ Range(mgr_list') \cap (EvictQueued' \cup EvictorHas') = {}
        /\ EvictQueued' \cap EvictorHas' = {}
        /\ Range(mgr_list') \cup EvictQueued' \cup EvictorHas' = InState({"LEAVING"})'
    <3>1. UNCHANGED mgr_list
      BY <1>2 DEF mgrVars
    <3> QED
      BY <1>4, <2>1, <2>5, <3>1, SMT DEF IInv, OneOwner, LeavingOwned
  <2> QED
    BY <1>2, <2>6, <2>7 DEF IInv, OneOwner, LeavingOwned, mgrVars
<1>8. KernelTypeOK' /\ aborted' \subseteq Fatal
  BY <1>2 DEF Fatal, IInv, TypeOK, KernelTypeOK, kernelVars
<1>9. DescriptorTypeOK'
  BY <1>1, <1>2 DEF IInv, TypeOK, DescriptorTypeOK
<1>10. BufferTypeOK'
  <2>1. m_present_pages' \in [Pages -> PDs \cup {NoPD}]
    BY <1>1, <1>2 DEF Erased, IInv, TypeOK, BufferTypeOK
  <2> QED
    BY <1>2, <1>5, <2>1 DEF IInv, TypeOK, BufferTypeOK, handlerVars
<1>11. WorkerTypeOK'
  BY <1>2 DEF IInv, TypeOK, WorkerTypeOK, fillVars, mgrVars
<1>12. MgrHolds'
  BY <1>2 DEF IInv, MgrHolds, mgrVars
<1>13. PageKnown'
  BY <1>1, <1>2 DEF IInv, PageKnown, TypeOK, DescriptorTypeOK
<1>14. OnlyEvictions'
  BY <1>2 DEF IInv, OnlyEvictions, TypeOK, WorkerTypeOK
<1> QED
  BY <1>5, <1>6, <1>7, <1>8, <1>9, <1>10, <1>11, <1>12, <1>13, <1>14 DEF IInv, TypeOK, OneOwner

-----------------------------------------------------------------------------
(* Descriptors and pages *)

LEMMA PageMapFrame ==
  ASSUME OneDescriptorPerPage, UNCHANGED <<active_pages, page, m_present_pages>>,
         InState({"FREE"})' = InState({"FREE"})
  PROVE  OneDescriptorPerPage'
BY DEF OneDescriptorPerPage

\* A page that has no descriptor gets one that was free.
LEMMA BringInPageMap ==
  ASSUME IInv, OneDescriptorPerPage, HandlerInv, NEW h \in Handlers, NEW e \in batch[h],
         BringIn(h, e)
  PROVE  OneDescriptorPerPage'
<1> DEFINE pd == m_free_pages[Len(m_free_pages)]
<1>1. m_present_pages[e.page] = NoPD /\ e.page \in Pages
  BY WantedIsAbsent, FirstPage DEF BringIn
<1>2. pd \in PDs /\ state[pd] = "FREE"
  <2>1. pd \in Range(m_free_pages)
    BY ListsInjective, FrontFacts DEF BringIn
  <2> QED
    BY <2>1 DEF IInv, OneOwner, FreeOwned, InState
<1>3. /\ state' = [state EXCEPT ![pd] = "FILLING"] /\ page' = [page EXCEPT ![pd] = e.page]
      /\ active_pages' = active_pages \cup {pd}
      /\ m_present_pages' = [m_present_pages EXCEPT ![e.page] = pd]
  BY DEF BringIn, set_state_filling, insert_page_descriptor
<1> HIDE DEF pd
<1>4. /\ state' \in [PDs -> {"FREE", "FILLING", "PRESENT", "UPDATING", "LEAVING"}]
      /\ state'[pd] = "FILLING" /\ page'[pd] = e.page
      /\ \A d \in PDs \ {pd} : state'[d] = state[d] /\ page'[d] = page[d]
  BY <1>2, <1>3 DEF IInv, TypeOK, DescriptorTypeOK
<1>5. /\ m_present_pages'[e.page] = pd
      /\ \A p \in Pages \ {e.page} : m_present_pages'[p] = m_present_pages[p]
  BY <1>1, <1>3 DEF IInv, TypeOK, BufferTypeOK
<1>6. InState({"FREE"})' = InState({"FREE"}) \ {pd}
  BY <1>2, <1>4 DEF InState
<1>7. active_pages' = PDs \ InState({"FREE"})'
  BY <1>2, <1>3, <1>6 DEF OneDescriptorPerPage
<1>8. ASSUME NEW d \in active_pages' PROVE page'[d] \in Pages /\ m_present_pages'[page'[d]] = d
  <2>1. CASE d = pd
    BY <2>1, <1>1, <1>4, <1>5
  <2>2. CASE d # pd
    <3>1. d \in active_pages /\ d \in PDs
      BY <2>2, <1>3 DEF IInv, TypeOK, BufferTypeOK
    <3>2. page[d] \in Pages /\ m_present_pages[page[d]] = d /\ page[d] # e.page
      BY <3>1, <1>1, BufferAssumption, SMT DEF OneDescriptorPerPage
    <3> QED
      BY <2>2, <3>1, <3>2, <1>4, <1>5, SMT
  <2> QED
    BY <2>1, <2>2
<1>9. ASSUME NEW p \in Pages, m_present_pages'[p] # NoPD
      PROVE  m_present_pages'[p] \in active_pages' /\ page'[m_present_pages'[p]] = p
  <2>1. CASE p = e.page
    BY <2>1, <1>3, <1>4, <1>5, SMT
  <2>2. CASE p # e.page
    <3>1. /\ m_present_pages'[p] = m_present_pages[p] /\ m_present_pages[p] \in active_pages
          /\ page[m_present_pages[p]] = p
      BY <2>2, <1>5, <1>9 DEF OneDescriptorPerPage
    <3>2. m_present_pages[p] # pd /\ m_present_pages[p] \in PDs
      BY <3>1, <1>2 DEF OneDescriptorPerPage, InState
    <3> QED
      BY <3>1, <3>2, <1>3, <1>4, SMT
  <2> QED
    BY <2>1, <2>2
<1> QED
  BY <1>7, <1>8, <1>9 DEF OneDescriptorPerPage

\* A descriptor that becomes free is taken from its page.
LEMMA MarkFreePageMap ==
  ASSUME IInv, OneDescriptorPerPage, NEW v \in Evictors, EvictMarkFree(v)
  PROVE  OneDescriptorPerPage'
<1> DEFINE pd == evictor_work[v].page_desc
<1>1. pd \in PDs /\ state[pd] = "LEAVING" /\ page[pd] \in Pages
  BY InHand DEF EvictMarkFree
<1>2. /\ state' = [state EXCEPT ![pd] = "FREE"] /\ page' = [page EXCEPT ![pd] = NoPage]
      /\ active_pages' = active_pages \ {pd}
      /\ m_present_pages' = [m_present_pages EXCEPT ![page[pd]] = NoPD]
  BY DEF EvictMarkFree, mark_page_as_free, set_state_free, erase_page_descriptor, Erased
<1> HIDE DEF pd
<1>3. m_present_pages[page[pd]] = pd
  BY <1>1, OnePage
<1>4. /\ state'[pd] = "FREE" /\ \A d \in PDs \ {pd} : state'[d] = state[d] /\ page'[d] = page[d]
      /\ m_present_pages'[page[pd]] = NoPD
      /\ \A p \in Pages \ {page[pd]} : m_present_pages'[p] = m_present_pages[p]
  BY <1>1, <1>2 DEF IInv, TypeOK, DescriptorTypeOK, BufferTypeOK
<1>5. active_pages' = PDs \ InState({"FREE"})'
  BY <1>1, <1>2, <1>4 DEF OneDescriptorPerPage, InState
<1>6. ASSUME NEW d \in active_pages' PROVE page'[d] \in Pages /\ m_present_pages'[page'[d]] = d
  <2>1. d \in PDs /\ d # pd /\ d \in active_pages
    BY <1>2 DEF IInv, TypeOK, BufferTypeOK
  <2>2. page[d] \in Pages /\ m_present_pages[page[d]] = d
    BY <2>1 DEF OneDescriptorPerPage
  <2> QED
    BY <2>1, <2>2, <1>3, <1>4
<1>7. ASSUME NEW p \in Pages, m_present_pages'[p] # NoPD
      PROVE  m_present_pages'[p] \in active_pages' /\ page'[m_present_pages'[p]] = p
  <2>1. p # page[pd] /\ m_present_pages'[p] = m_present_pages[p]
    BY <1>1, <1>4, <1>7
  <2>2. m_present_pages[p] \in active_pages /\ page[m_present_pages[p]] = p
    BY <2>1, <1>7 DEF OneDescriptorPerPage
  <2>3. m_present_pages[p] # pd /\ m_present_pages[p] \in PDs
    BY <2>1, <2>2 DEF IInv, TypeOK, BufferTypeOK
  <2> QED
    BY <2>1, <2>2, <2>3, <1>2, <1>4, SMT
<1> QED
  BY <1>5, <1>6, <1>7 DEF OneDescriptorPerPage

-----------------------------------------------------------------------------
(* The application and the handlers *)

LEMMA MemFrame ==
  ASSUME MemInv,
         UNCHANGED <<mem, wp, store_fresh, m_present_pages, page, state, dirty, data_present,
                     fillVars, mgr_list, evictVars>>
  PROVE  MemInv'
<1>1. EvictQueued' = EvictQueued
  BY DEF EvictQueued, evictVars
<1>2. \A d \in PDs \cup {NoPD} : Resident(d)' <=> Resident(d)
  BY DEF Resident
<1>3. BusyInv' /\ FillerInv' /\ CleanInv' /\ AbsentInv' /\ Coherent'
  BY DEF MemInv, BusyInv, FillerInv, CleanInv, AbsentInv, Coherent, Resident, fillVars
<1>4. LeavingInv'
  BY <1>1 DEF MemInv, LeavingInv, Resident, evictVars
<1> QED
  BY <1>3, <1>4 DEF MemInv

\* A page that can be written is marked dirty, and no fill worker is copying it in.
LEMMA AppWritesMem ==
  ASSUME IInv, OneDescriptorPerPage, MemInv, NEW p \in Pages, mem[p] # "none", p \notin wp,
         AppWrites(p),
         UNCHANGED <<wp, m_present_pages, pdVars, fill_queue, filler_pc, filler_pd, mgr_list,
                     evictVars>>
  PROVE  MemInv'
<1> USE DEF MemInv
<1>1. /\ mem' = [mem EXCEPT ![p] = "fresh"] /\ store_fresh' = store_fresh \ {p}
      /\ filler_buf' = [f \in Fillers |-> IF filler_pc[f] = "copy" /\ page[filler_pd[f]] = p
                                          THEN "stale" ELSE filler_buf[f]]
  BY DEF AppWrites
<1>2. \A q \in Pages : (mem'[q] # "none" <=> mem[q] # "none") /\ mem'[q] \in {mem[q], "fresh"}
  BY <1>1 DEF IInv, TypeOK, KernelTypeOK
<1>3. \A d \in PDs : state[d] # "FREE" => (Resident(d)' <=> Resident(d))
  BY <1>2, OnePage DEF Resident, pdVars
<1>4. BusyInv'
  BY <1>3 DEF BusyInv, pdVars
<1>5. FillerInv'
  <2>1. \A f \in Fillers : filler_pc[f] = "copy" => page[filler_pd[f]] # p
    BY Places, SMT DEF FillerInv, BusyInv, Resident
  <2> QED
    BY <1>1, <2>1 DEF FillerInv, pdVars
<1>6. LeavingInv'
  <2>1. EvictQueued' = EvictQueued
    BY DEF EvictQueued, evictVars
  <2> QED
    BY <1>3, <2>1, Places DEF LeavingInv, pdVars, evictVars
<1>7. CleanInv'
  BY <1>1, <1>3 DEF CleanInv, pdVars
<1>8. AbsentInv' /\ Coherent'
  BY <1>1, <1>2 DEF AbsentInv, Coherent, IInv, TypeOK, KernelTypeOK
<1> QED
  BY <1>4, <1>5, <1>6, <1>7, <1>8

LEMMA AppStepMem ==
  ASSUME IInv, OneDescriptorPerPage, MemInv, NEW t \in Apps, AppStep(t)
  PROVE  MemInv'
<1>1. ASSUME NEW p \in {e.page : e \in {a \in Accesses : a.write}}, AppWrite(t, p)
      PROVE  MemInv'
  <2>1. p \in Pages
    BY BufferAssumption
  <2> QED
    BY <1>1, <2>1, AppWritesMem DEF AppWrite, Accessible, listVars, mgrVars
<1>2. ASSUME NEW e \in Accesses, AppFault(t, e) PROVE MemInv'
  BY <1>2, MemFrame DEF AppFault, listVars, pdVars, mgrVars
<1>3. CASE AppRetry(t)
  <2>1. fault[t].page \in Pages
    BY <1>3 DEF AppRetry, IInv, TypeOK, KernelTypeOK, Event
  <2>2. CASE fault[t].write
    BY <1>3, <2>1, <2>2, AppWritesMem DEF AppRetry, Accessible, listVars, mgrVars
  <2>3. CASE ~fault[t].write
    BY <1>3, <2>3, MemFrame DEF AppRetry, listVars, pdVars, mgrVars, fillVars
  <2> QED
    BY <2>2, <2>3
<1> QED
  BY <1>1, <1>2, <1>3 DEF AppStep

LEMMA UpdatePageMem ==
  ASSUME IInv, MemInv, NEW h \in Handlers, NEW e \in batch[h], UpdatePage(h, e)
  PROVE  MemInv'
<1> USE DEF MemInv
<1>1. PICK pd \in PDs : /\ state[pd] = "PRESENT"
                        /\ dirty' = [dirty EXCEPT ![pd] = TRUE]
                        /\ state' = [state EXCEPT ![pd] = "UPDATING"]
                        /\ fill_queue' = Append(fill_queue, pd)
  BY DEF UpdatePage, set_state_updating
<1>2. UNCHANGED <<mem, wp, store_fresh, m_present_pages, page, data_present, filler_pc, filler_pd,
                  filler_buf, mgr_list, evictVars>>
  BY DEF UpdatePage, kernelVars, listVars, mgrVars
<1>3. /\ state'[pd] = "UPDATING" /\ dirty'[pd]
      /\ \A d \in PDs \ {pd} : state'[d] = state[d] /\ (dirty'[d] <=> dirty[d])
  BY <1>1 DEF IInv, TypeOK, DescriptorTypeOK
<1>4. Range(fill_queue') = Range(fill_queue) \cup {pd}
  <2>1. pd \notin Range(fill_queue)
    BY <1>1, Places
  <2> QED
    BY <1>1, <2>1, AppendFacts, ListsInjective, SMT
<1>5. \A d : Resident(d)' <=> Resident(d)
  BY <1>2 DEF Resident
<1>6. BusyInv'
  BY <1>1, <1>2, <1>3, <1>4, <1>5 DEF BusyInv
<1>7. FillerInv'
  <2> SUFFICES ASSUME NEW g \in Fillers, filler_pc[g] # "get"
               PROVE  /\ filler_pc[g] = "copy" =>
                           /\ state'[filler_pd[g]] = "FILLING" /\ ~data_present[filler_pd[g]]
                           /\ filler_buf[g] = "fresh"
                      /\ filler_pc[g] = "mark" =>
                           /\ data_present[filler_pd[g]]
                           /\ dirty'[filler_pd[g]] => page[filler_pd[g]] \notin wp
    BY <1>2 DEF FillerInv
  <2>1. filler_pd[g] \in PDs /\ state[filler_pd[g]] \in {"FILLING", "UPDATING"}
    BY Places
  <2>2. filler_pd[g] \in PDs \ {pd}
    BY <1>1, <2>1
  <2> QED
    BY <1>3, <2>2 DEF FillerInv
<1>8. LeavingInv'
  <2>1. EvictQueued' = EvictQueued
    BY <1>2 DEF EvictQueued, evictVars
  <2>2. \A u \in Evictors : evictor_pc[u] # "get" =>
          evictor_work[u].page_desc \in PDs /\ state[evictor_work[u].page_desc] = "LEAVING"
    BY Places
  <2>3. \A d \in PDs : state[d] = "LEAVING" => (dirty'[d] <=> dirty[d])
    BY <1>1, <1>3
  <2> QED
    BY <1>2, <1>5, <2>1, <2>2, <2>3 DEF LeavingInv, evictVars
<1>9. CleanInv' /\ AbsentInv' /\ Coherent'
  BY <1>1, <1>2, <1>3, <1>5 DEF CleanInv, AbsentInv, Coherent
<1> QED
  BY <1>6, <1>7, <1>8, <1>9

LEMMA BringInMem ==
  ASSUME IInv, OneDescriptorPerPage, HandlerInv, MemInv, NEW h \in Handlers, NEW e \in batch[h],
         BringIn(h, e)
  PROVE  MemInv'
<1> USE DEF MemInv
<1>0. m_free_pages[Len(m_free_pages)] \in Range(m_free_pages)
  BY ListsInjective, FrontFacts DEF BringIn
<1>1. PICK pd \in Range(m_free_pages) :
        /\ state' = [state EXCEPT ![pd] = "FILLING"] /\ page' = [page EXCEPT ![pd] = e.page]
        /\ dirty' = [dirty EXCEPT ![pd] = e.write]
        /\ data_present' = [data_present EXCEPT ![pd] = FALSE]
        /\ m_present_pages' = [m_present_pages EXCEPT ![e.page] = pd]
        /\ fill_queue' = Append(fill_queue, pd)
        /\ UNCHANGED <<mem, wp, store_fresh, filler_pc, filler_pd, filler_buf, mgr_list, evictVars>>
  BY <1>0 DEF BringIn, set_state_filling, kernelVars, mgrVars
<1>2. pd \in PDs /\ state[pd] = "FREE"
  BY DEF IInv, OneOwner, FreeOwned, InState
<1>3. e.page \in Pages /\ mem[e.page] = "none"
  <2>1. e.page \in Pages /\ m_present_pages[e.page] = NoPD
    BY WantedIsAbsent, FirstPage DEF BringIn
  <2> QED
    BY <2>1 DEF AbsentInv
<1>4. /\ state'[pd] = "FILLING" /\ page'[pd] = e.page /\ ~data_present'[pd]
      /\ \A d \in PDs \ {pd} :
           /\ state'[d] = state[d] /\ page'[d] = page[d] /\ (dirty'[d] <=> dirty[d])
           /\ (data_present'[d] <=> data_present[d])
  BY <1>1, <1>2 DEF IInv, TypeOK, DescriptorTypeOK
<1>5. ~Resident(pd)' /\ \A d \in PDs \ {pd} : Resident(d)' <=> Resident(d)
  BY <1>1, <1>3, <1>4 DEF Resident
<1>6. Range(fill_queue') = Range(fill_queue) \cup {pd}
  <2>1. pd \notin Range(fill_queue)
    BY <1>2, Places
  <2> QED
    BY <1>1, <1>2, <2>1, AppendFacts, ListsInjective, SMT
<1>7. BusyInv'
  <2> SUFFICES ASSUME NEW d \in PDs
               PROVE  /\ state'[d] \in {"FILLING", "PRESENT", "UPDATING"} =>
                           (Resident(d)' <=> data_present'[d])
                      /\ state'[d] \in {"PRESENT", "UPDATING"} => data_present'[d]
                      /\ state'[d] = "UPDATING" => dirty'[d]
                      /\ state'[d] = "PRESENT" /\ dirty'[d] => page'[d] \notin wp
                      /\ d \in Range(fill_queue') /\ state'[d] = "FILLING" => ~data_present'[d]
    BY <1>1 DEF BusyInv
  <2>1. CASE d = pd
    BY <1>4, <1>5, <2>1
  <2>2. CASE d # pd
    BY <1>4, <1>5, <1>6, <2>2 DEF BusyInv
  <2> QED
    BY <2>1, <2>2
<1>8. FillerInv'
  <2>1. \A g \in Fillers : filler_pc[g] # "get" =>
          filler_pd[g] \in PDs /\ state[filler_pd[g]] \in {"FILLING", "UPDATING"}
    BY Places
  <2>2. \A g \in Fillers : filler_pc[g] # "get" => filler_pd[g] \in PDs \ {pd}
    BY <1>2, <2>1
  <2>3. UNCHANGED <<wp, filler_pc, filler_pd, filler_buf>>
    BY <1>1
  <2> SUFFICES ASSUME NEW g \in Fillers, filler_pc[g] # "get"
               PROVE  /\ filler_pc[g] = "copy" =>
                           /\ state'[filler_pd[g]] = "FILLING" /\ ~data_present'[filler_pd[g]]
                           /\ filler_buf[g] = "fresh"
                      /\ filler_pc[g] = "mark" =>
                           /\ data_present'[filler_pd[g]]
                           /\ dirty'[filler_pd[g]] => page'[filler_pd[g]] \notin wp
    BY <2>3 DEF FillerInv
  <2> QED
    BY <1>4, <2>2 DEF FillerInv
<1>9. LeavingInv'
  <2>1. EvictQueued' = EvictQueued
    BY <1>1 DEF EvictQueued, evictVars
  <2>2. \A d \in PDs : state[d] = "LEAVING" =>
          (Resident(d)' <=> Resident(d)) /\ (dirty'[d] <=> dirty[d]) /\ page'[d] = page[d]
    BY <1>2, <1>4, <1>5
  <2>3. \A d \in Range(mgr_list) \cup EvictQueued : Resident(d)'
    BY <2>2, Places DEF LeavingInv
  <2>4. \A u \in Evictors : evictor_pc[u] # "get" =>
          evictor_work[u].page_desc \in PDs /\ state[evictor_work[u].page_desc] = "LEAVING"
    BY Places
  <2>5. ASSUME NEW u \in Evictors, NEW d, d = evictor_work[u].page_desc
        PROVE  /\ evictor_pc[u] = "write" => Resident(d)' /\ dirty'[d] /\ page'[d] \in wp
               /\ evictor_pc[u] = "madvise" => Resident(d)' /\ ~dirty'[d]
               /\ evictor_pc[u] = "free" => ~Resident(d)'
    BY <2>2, <2>4, <2>5 DEF LeavingInv
  <2>6. UNCHANGED <<wp, mgr_list, evictor_pc, evictor_work>>
    BY <1>1 DEF evictVars
  <2> QED
    BY <2>1, <2>3, <2>5, <2>6 DEF LeavingInv, Resident
<1>10. CleanInv'
  <2> SUFFICES ASSUME NEW d \in PDs, state'[d] # "FREE", Resident(d)', ~dirty'[d]
               PROVE  page'[d] \in wp /\ page'[d] \in store_fresh
    BY <1>1 DEF CleanInv
  <2>1. d \in PDs \ {pd}
    BY <1>5
  <2> QED
    BY <1>4, <1>5, <2>1 DEF CleanInv
<1>11. AbsentInv' /\ Coherent'
  BY <1>1, <1>2, <1>3, BufferAssumption DEF AbsentInv, Coherent, IInv, TypeOK, BufferTypeOK
<1> QED
  BY <1>7, <1>8, <1>9, <1>10, <1>11

-----------------------------------------------------------------------------
(* Fill workers *)

\* Only a descriptor that is dirty is unprotected, and no other has its page.
LEMMA FillUnprotectMem ==
  ASSUME IInv, OneDescriptorPerPage, MemInv, NEW f \in Fillers, FillUnprotect(f)
  PROVE  MemInv'
<1> USE DEF MemInv
<1> DEFINE pd == Head(fill_queue)
<1>1. /\ dirty[pd] /\ data_present[pd] /\ wp' = wp \ {page[pd]}
      /\ filler_pd' = [filler_pd EXCEPT ![f] = pd] /\ filler_pc' = [filler_pc EXCEPT ![f] = "mark"]
      /\ fill_queue # <<>> /\ fill_queue' = Tail(fill_queue)
      /\ UNCHANGED <<mem, store_fresh, m_present_pages, pdVars, filler_buf, mgr_list, evictVars>>
  BY DEF FillUnprotect, disable_write_protect, listVars, mgrVars
<1>2. pd \in Range(fill_queue) /\ Range(fill_queue') = Range(fill_queue) \ {pd}
  BY <1>1, TailFacts, ListsInjective
<1> HIDE DEF pd
<1>3. pd \in PDs /\ state[pd] \in {"FILLING", "UPDATING"}
  BY <1>2, Places
<1>4. \A d \in PDs \ {pd} : state[d] # "FREE" => page[d] # page[pd]
  BY <1>3, OnePage
<1>5. \A d : Resident(d)' <=> Resident(d)
  BY <1>1 DEF Resident, pdVars
<1>6. /\ filler_pd'[f] = pd /\ filler_pc'[f] = "mark"
      /\ \A g \in Fillers \ {f} : filler_pd'[g] = filler_pd[g] /\ filler_pc'[g] = filler_pc[g]
  BY <1>1 DEF IInv, TypeOK, WorkerTypeOK
<1>7. BusyInv'
  BY <1>1, <1>2, <1>5 DEF BusyInv, pdVars
<1>8. FillerInv'
  BY <1>1, <1>6, SMT DEF FillerInv, pdVars
<1>9. LeavingInv'
  <2>1. EvictQueued' = EvictQueued
    BY <1>1 DEF EvictQueued, evictVars
  <2> QED
    BY <1>1, <1>3, <1>4, <1>5, <2>1, Places DEF LeavingInv, pdVars, evictVars
<1>10. CleanInv'
  BY <1>1, <1>4, <1>5 DEF CleanInv, pdVars
<1>11. AbsentInv' /\ Coherent'
  BY <1>1 DEF AbsentInv, Coherent
<1> QED
  BY <1>7, <1>8, <1>9, <1>10, <1>11

\* A page read from the Store is not in memory, so the Store is not behind.
LEMMA FillReadMem ==
  ASSUME IInv, OneDescriptorPerPage, MemInv, NEW f \in Fillers, FillRead(f)
  PROVE  MemInv'
<1> USE DEF MemInv
<1>1. PICK pd \in Range(fill_queue) :
        /\ ~(dirty[pd] /\ data_present[pd])
        /\ filler_buf' = [filler_buf EXCEPT ![f] = read_from_store(page[pd])]
        /\ filler_pd' = [filler_pd EXCEPT ![f] = pd]
        /\ filler_pc' = [filler_pc EXCEPT ![f] = "copy"]
        /\ Range(fill_queue') = Range(fill_queue) \ {pd}
  <2>1. /\ Head(fill_queue) \in Range(fill_queue)
        /\ Range(Tail(fill_queue)) = Range(fill_queue) \ {Head(fill_queue)}
    BY TailFacts, ListsInjective DEF FillRead
  <2> QED
    BY <2>1 DEF FillRead
<1>2. UNCHANGED <<mem, wp, store_fresh, m_present_pages, pdVars, mgr_list, evictVars>>
  BY DEF FillRead, kernelVars, listVars, mgrVars
<1>3. pd \in PDs /\ state[pd] \in {"FILLING", "UPDATING"} /\ page[pd] \in Pages
  BY Places, OnePage
<1>4. state[pd] = "FILLING" /\ ~data_present[pd]
  BY <1>1, <1>3 DEF BusyInv
<1>5. read_from_store(page[pd]) = "fresh"
  BY <1>3, <1>4 DEF BusyInv, Resident, Coherent, read_from_store
<1>6. /\ filler_pd'[f] = pd /\ filler_pc'[f] = "copy" /\ filler_buf'[f] = "fresh"
      /\ \A g \in Fillers \ {f} : /\ filler_pd'[g] = filler_pd[g] /\ filler_pc'[g] = filler_pc[g]
                                  /\ filler_buf'[g] = filler_buf[g]
  BY <1>1, <1>5 DEF IInv, TypeOK, WorkerTypeOK
<1>7. \A d : Resident(d)' <=> Resident(d)
  BY <1>2 DEF Resident, pdVars
<1>8. BusyInv'
  BY <1>1, <1>2, <1>7 DEF BusyInv, pdVars
<1>9. FillerInv'
  <2>1. UNCHANGED <<wp, page, state, dirty, data_present>>
    BY <1>2 DEF pdVars
  <2> SUFFICES ASSUME NEW g \in Fillers
               PROVE  /\ filler_pc'[g] = "copy" =>
                           /\ state[filler_pd'[g]] = "FILLING" /\ ~data_present[filler_pd'[g]]
                           /\ filler_buf'[g] = "fresh"
                      /\ filler_pc'[g] = "mark" =>
                           /\ data_present[filler_pd'[g]]
                           /\ dirty[filler_pd'[g]] => page[filler_pd'[g]] \notin wp
    BY <2>1 DEF FillerInv
  <2>2. CASE g = f
    BY <1>4, <1>6, <2>2
  <2>3. CASE g # f
    BY <1>6, <2>3 DEF FillerInv
  <2> QED
    BY <2>2, <2>3
<1>10. LeavingInv'
  <2>1. EvictQueued' = EvictQueued
    BY <1>2 DEF EvictQueued, evictVars
  <2> QED
    BY <1>2, <1>7, <2>1 DEF LeavingInv, pdVars, evictVars
<1>11. CleanInv' /\ AbsentInv' /\ Coherent'
  BY <1>2, <1>7 DEF CleanInv, AbsentInv, Coherent, pdVars
<1> QED
  BY <1>8, <1>9, <1>10, <1>11

\* UFFDIO_COPY does not find the page in memory.
LEMMA FillCopyMem ==
  ASSUME IInv, OneDescriptorPerPage, MemInv, NEW f \in Fillers, FillCopy(f)
  PROVE  MemInv' /\ UNCHANGED aborted
<1> USE DEF MemInv
<1>1. filler_pc[f] = "copy"
  BY DEF FillCopy
<1>2. PICK pd \in PDs : pd = filler_pd[f] /\ state[pd] = "FILLING" /\ ~data_present[pd]
  <2>1. filler_pd[f] \in PDs
    BY <1>1, Places
  <2> QED
    BY <1>1, <2>1 DEF FillerInv
<1>3. PICK p \in Pages : p = page[pd]
  BY <1>2, OnePage
<1>4. mem[p] = "none" /\ p \in store_fresh
  BY <1>2, <1>3 DEF BusyInv, Resident, Coherent
<1>5. /\ mem' = [mem EXCEPT ![p] = "fresh"] /\ aborted' = aborted
      /\ wp' \in {wp \ {p}, wp \cup {p}} /\ (dirty[pd] => wp' = wp \ {p})
      /\ (~dirty[pd] => wp' = wp \cup {p})
      /\ data_present' = [data_present EXCEPT ![pd] = TRUE]
      /\ filler_buf' = [filler_buf EXCEPT ![f] = "stale"]
      /\ filler_pc' = [filler_pc EXCEPT ![f] = "mark"]
      /\ UNCHANGED <<store_fresh, m_present_pages, page, state, dirty, fill_queue, filler_pd,
                     mgr_list, evictVars>>
  <2>1. filler_buf[f] = "fresh"
    BY <1>1 DEF FillerInv
  <2>2. /\ IF dirty[pd] THEN copy_in_page("fresh", p) ELSE copy_in_page_and_write_protect("fresh", p)
        /\ data_present' = [data_present EXCEPT ![pd] = TRUE]
        /\ filler_buf' = [filler_buf EXCEPT ![f] = "stale"]
        /\ filler_pc' = [filler_pc EXCEPT ![f] = "mark"]
        /\ UNCHANGED <<store_fresh, m_present_pages, page, state, dirty, fill_queue, filler_pd,
                       mgr_list, evictVars>>
    BY <1>2, <1>3, <2>1 DEF FillCopy, listVars, mgrVars
  <2>3. CASE dirty[pd]
    BY <1>4, <2>2, <2>3 DEF copy_in_page, UffdioCopy, DieUnless
  <2>4. CASE ~dirty[pd]
    BY <1>4, <2>2, <2>4 DEF copy_in_page_and_write_protect, UffdioCopy, DieUnless
  <2> QED
    BY <2>3, <2>4
<1>6. \A d \in PDs \ {pd} : state[d] # "FREE" => page[d] # p /\ page[d] \in Pages
  BY <1>2, <1>3, OnePage
<1>7. /\ mem'[p] = "fresh" /\ \A q \in Pages \ {p} : mem'[q] = mem[q] /\ (q \in wp' <=> q \in wp)
      /\ data_present'[pd] /\ \A d \in PDs \ {pd} : data_present'[d] <=> data_present[d]
      /\ filler_pc'[f] = "mark"
      /\ \A g \in Fillers \ {f} : filler_pc'[g] = filler_pc[g] /\ filler_buf'[g] = filler_buf[g]
  <2>1. mem'[p] = "fresh" /\ \A q \in Pages \ {p} : mem'[q] = mem[q] /\ (q \in wp' <=> q \in wp)
    BY <1>5 DEF IInv, TypeOK, KernelTypeOK
  <2>2. data_present'[pd] /\ \A d \in PDs \ {pd} : data_present'[d] <=> data_present[d]
    BY <1>5 DEF IInv, TypeOK, DescriptorTypeOK
  <2>3. /\ filler_pc'[f] = "mark"
        /\ \A g \in Fillers \ {f} : filler_pc'[g] = filler_pc[g] /\ filler_buf'[g] = filler_buf[g]
    BY <1>5 DEF IInv, TypeOK, WorkerTypeOK
  <2> QED
    BY <2>1, <2>2, <2>3
<1>8. /\ Resident(pd)'
      /\ \A d \in PDs \ {pd} : state[d] # "FREE" => (Resident(d)' <=> Resident(d))
  <2>1. page' = page /\ mem'[page[pd]] # "none"
    BY <1>3, <1>5, <1>7
  <2>2. \A d \in PDs \ {pd} : state[d] # "FREE" => mem'[page[d]] = mem[page[d]]
    BY <1>6, <1>7
  <2> QED
    BY <2>1, <2>2 DEF Resident
<1>9. BusyInv'
  <2>1. pd \notin Range(fill_queue)
    BY <1>1, <1>2, Places
  <2>2. UNCHANGED <<page, state, dirty, fill_queue>>
    BY <1>5
  <2> SUFFICES ASSUME NEW d \in PDs
               PROVE  /\ state[d] \in {"FILLING", "PRESENT", "UPDATING"} =>
                           (Resident(d)' <=> data_present'[d])
                      /\ state[d] \in {"PRESENT", "UPDATING"} => data_present'[d]
                      /\ state[d] = "UPDATING" => dirty[d]
                      /\ state[d] = "PRESENT" /\ dirty[d] => page[d] \notin wp'
                      /\ d \in Range(fill_queue) /\ state[d] = "FILLING" => ~data_present'[d]
    BY <2>2 DEF BusyInv
  <2>3. CASE d = pd
    BY <1>2, <1>7, <1>8, <2>1, <2>3
  <2>4. CASE d # pd
    <3>1. /\ state[d] # "FREE" => (Resident(d)' <=> Resident(d)) /\ (page[d] \in wp' <=> page[d] \in wp)
          /\ data_present'[d] <=> data_present[d]
      BY <1>6, <1>7, <1>8, <2>4
    <3> QED
      BY <3>1 DEF BusyInv
  <2> QED
    BY <2>3, <2>4
<1>10. FillerInv'
  <2>1. \A g \in Fillers \ {f} : filler_pc[g] # "get" => filler_pd[g] # pd
    BY <1>1, <1>2, Places
  <2>2. UNCHANGED <<page, state, dirty, filler_pd>>
    BY <1>5
  <2>3. \A g \in Fillers \ {f} : filler_pc[g] # "get" =>
          /\ filler_pd[g] \in PDs \ {pd}
          /\ page[filler_pd[g]] \in wp' <=> page[filler_pd[g]] \in wp
    <3>1. \A g \in Fillers : filler_pc[g] # "get" =>
            filler_pd[g] \in PDs /\ state[filler_pd[g]] # "FREE"
      BY Places
    <3> QED
      BY <1>6, <1>7, <2>1, <3>1
  <2>4. data_present'[filler_pd[f]] /\ (dirty[filler_pd[f]] => page[filler_pd[f]] \notin wp')
        /\ filler_pc'[f] = "mark"
    BY <1>2, <1>3, <1>5, <1>7
  <2> SUFFICES ASSUME NEW g \in Fillers
               PROVE  /\ filler_pc'[g] = "copy" =>
                           /\ state[filler_pd[g]] = "FILLING" /\ ~data_present'[filler_pd[g]]
                           /\ filler_buf'[g] = "fresh"
                      /\ filler_pc'[g] = "mark" =>
                           /\ data_present'[filler_pd[g]]
                           /\ dirty[filler_pd[g]] => page[filler_pd[g]] \notin wp'
    BY <2>2 DEF FillerInv
  <2>5. CASE g = f
    BY <2>4, <2>5
  <2>6. CASE g # f
    <3>1. filler_pc'[g] = filler_pc[g] /\ filler_buf'[g] = filler_buf[g]
      BY <1>7, <2>6
    <3>2. filler_pc[g] # "get" => /\ data_present'[filler_pd[g]] <=> data_present[filler_pd[g]]
                                  /\ page[filler_pd[g]] \in wp' <=> page[filler_pd[g]] \in wp
      BY <1>7, <2>3, <2>6
    <3> QED
      BY <3>1, <3>2 DEF FillerInv
  <2> QED
    BY <2>5, <2>6
<1>11. LeavingInv'
  <2>1. EvictQueued' = EvictQueued
    BY <1>5 DEF EvictQueued, evictVars
  <2>2. /\ \A d \in Range(mgr_list) \cup EvictQueued : d \in PDs /\ state[d] = "LEAVING"
        /\ \A v \in Evictors : evictor_pc[v] # "get" =>
             evictor_work[v].page_desc \in PDs /\ state[evictor_work[v].page_desc] = "LEAVING"
    BY Places
  <2>3. \A d \in PDs : state[d] = "LEAVING" =>
          (Resident(d)' <=> Resident(d)) /\ (page[d] \in wp' <=> page[d] \in wp)
    BY <1>2, <1>6, <1>7, <1>8
  <2> QED
    BY <1>5, <2>1, <2>2, <2>3 DEF LeavingInv, evictVars
<1>12. CleanInv'
  <2> SUFFICES ASSUME NEW d \in PDs, state[d] # "FREE", Resident(d)', ~dirty[d]
               PROVE  page[d] \in wp' /\ page[d] \in store_fresh
    BY <1>5 DEF CleanInv
  <2>1. CASE d = pd
    BY <1>3, <1>4, <1>5, <2>1
  <2>2. CASE d # pd
    BY <1>6, <1>7, <1>8, <2>2 DEF CleanInv
  <2> QED
    BY <2>1, <2>2
<1>13. AbsentInv' /\ Coherent'
  <2>1. m_present_pages[p] # NoPD
    BY <1>2, <1>3, OnePage, BufferAssumption, SMT
  <2> QED
    BY <1>5, <1>7, <2>1, SMT DEF AbsentInv, Coherent
<1> QED
  BY <1>5, <1>9, <1>10, <1>11, <1>12, <1>13

LEMMA FillMarkPresentMem ==
  ASSUME IInv, MemInv, NEW f \in Fillers, FillMarkPresent(f)
  PROVE  MemInv'
<1> USE DEF MemInv
<1>1. filler_pc[f] = "mark"
  BY DEF FillMarkPresent
<1>2. PICK pd \in PDs : /\ pd = filler_pd[f] /\ state[pd] \in {"FILLING", "UPDATING"}
                        /\ data_present[pd] /\ (dirty[pd] => page[pd] \notin wp)
  BY <1>1, Places DEF FillerInv
<1>3. /\ state' = [state EXCEPT ![pd] = "PRESENT"]
      /\ filler_pd' = [filler_pd EXCEPT ![f] = NoPD] /\ filler_pc' = [filler_pc EXCEPT ![f] = "get"]
      /\ UNCHANGED <<mem, wp, store_fresh, m_present_pages, page, dirty, data_present, fill_queue,
                     filler_buf, mgr_list, evictVars>>
  BY <1>2 DEF FillMarkPresent, mark_page_as_present, set_state_present, kernelVars, listVars, mgrVars
<1>4. state'[pd] = "PRESENT" /\ \A d \in PDs \ {pd} : state'[d] = state[d]
  BY <1>3 DEF IInv, TypeOK, DescriptorTypeOK
<1>5. /\ filler_pc'[f] = "get"
      /\ \A g \in Fillers \ {f} : filler_pc'[g] = filler_pc[g] /\ filler_pd'[g] = filler_pd[g]
  BY <1>3 DEF IInv, TypeOK, WorkerTypeOK
<1>6. \A d : Resident(d)' <=> Resident(d)
  BY <1>3 DEF Resident
<1>7. BusyInv'
  BY <1>2, <1>3, <1>4, <1>6 DEF BusyInv
<1>8. FillerInv'
  <2>1. \A g \in Fillers \ {f} : filler_pc[g] # "get" => filler_pd[g] # pd /\ filler_pd[g] \in PDs
    BY <1>1, <1>2, Places
  <2>2. UNCHANGED <<wp, page, dirty, data_present, filler_buf>>
    BY <1>3
  <2> SUFFICES ASSUME NEW g \in Fillers
               PROVE  /\ filler_pc'[g] = "copy" =>
                           /\ state'[filler_pd'[g]] = "FILLING" /\ ~data_present[filler_pd'[g]]
                           /\ filler_buf[g] = "fresh"
                      /\ filler_pc'[g] = "mark" =>
                           /\ data_present[filler_pd'[g]]
                           /\ dirty[filler_pd'[g]] => page[filler_pd'[g]] \notin wp
    BY <2>2 DEF FillerInv
  <2>3. CASE g = f
    BY <1>5, <2>3
  <2>4. CASE g # f
    <3>1. filler_pc'[g] = filler_pc[g] /\ filler_pd'[g] = filler_pd[g]
      BY <1>5, <2>4
    <3>2. filler_pc[g] # "get" => state'[filler_pd[g]] = state[filler_pd[g]]
      BY <1>4, <2>1, <2>4
    <3> QED
      BY <3>1, <3>2 DEF FillerInv
  <2> QED
    BY <2>3, <2>4
<1>9. LeavingInv'
  <2>1. EvictQueued' = EvictQueued
    BY <1>3 DEF EvictQueued, evictVars
  <2> QED
    BY <1>3, <1>6, <2>1 DEF LeavingInv, evictVars
<1>10. CleanInv' /\ AbsentInv' /\ Coherent'
  BY <1>2, <1>3, <1>4, <1>6 DEF CleanInv, AbsentInv, Coherent
<1> QED
  BY <1>7, <1>8, <1>9, <1>10

-----------------------------------------------------------------------------
(* Eviction *)

\* evict_oldest_pages takes pages that are PRESENT.
LEMMA MgrEvictMoves ==
  ASSUME IInv, MgrEvict
  PROVE  /\ state' \in [PDs -> {"FREE", "FILLING", "PRESENT", "UPDATING", "LEAVING"}]
         /\ \A d \in PDs : state'[d] # state[d] => state[d] = "PRESENT" /\ state'[d] = "LEAVING"
         /\ aborted' \subseteq aborted \cup {"evict_oldest_pages"}
<1> DEFINE Out(k) == {i \in 1..Len(m_busy_pages) : i >= k /\ Evictable(i)}
<1>1. CASE UNCHANGED state /\ aborted' \subseteq aborted \cup {"evict_oldest_pages"}
  BY <1>1 DEF IInv, TypeOK, DescriptorTypeOK
<1>2. ASSUME NEW k \in 1..Len(m_busy_pages), UNCHANGED aborted,
             state' = [d \in PDs |-> IF d \in {m_busy_pages[i] : i \in Out(k)}
                                     THEN "LEAVING" ELSE state[d]]
      PROVE  /\ state' \in [PDs -> {"FREE", "FILLING", "PRESENT", "UPDATING", "LEAVING"}]
             /\ \A d \in PDs : state'[d] # state[d] => state[d] = "PRESENT" /\ state'[d] = "LEAVING"
  <2>1. \A d \in {m_busy_pages[i] : i \in Out(k)} : state[d] = "PRESENT"
    BY DEF Evictable
  <2> HIDE DEF Out
  <2> QED
    BY <1>2, <2>1 DEF IInv, TypeOK, DescriptorTypeOK
<1>3. CASE \E k \in 1..Len(m_busy_pages) :
             /\ state' = [d \in PDs |-> IF d \in {m_busy_pages[i] : i \in Out(k)}
                                        THEN "LEAVING" ELSE state[d]]
             /\ UNCHANGED aborted
  BY <1>2, <1>3
<1> QED
  BY <1>1, <1>3 DEF MgrEvict, evict_oldest_pages, DieUnless

LEMMA MgrEvictMem ==
  ASSUME IInv, IInv', MemInv, MgrEvict
  PROVE  MemInv'
<1> USE DEF MemInv
<1>1. UNCHANGED <<mem, wp, store_fresh, m_present_pages, page, dirty, data_present, fillVars,
                  evictVars>>
  BY DEF MgrEvict, kernelVars
<1>2. \A d \in PDs : /\ state'[d] # state[d] => state[d] = "PRESENT" /\ state'[d] = "LEAVING"
                     /\ state'[d] \in {"FREE", "FILLING", "PRESENT", "UPDATING", "LEAVING"}
  BY MgrEvictMoves
<1>3. \A d : Resident(d)' <=> Resident(d)
  BY <1>1 DEF Resident
<1>4. EvictQueued' = EvictQueued /\ EvictorHas' = EvictorHas
  BY <1>1 DEF EvictQueued, EvictorHas, evictVars
<1>5. \A d \in Range(mgr_list') : d \in PDs /\ state[d] = "PRESENT"
  <2>1. mgr_list = <<>>
    BY DEF MgrEvict, IInv, MgrHolds
  <2>2. Range(mgr_list) = {}
    BY <2>1, SMT DEF Range
  <2>3. InState({"LEAVING"}) = EvictQueued \cup EvictorHas
    BY <2>2 DEF IInv, OneOwner, LeavingOwned
  <2>4. \A d \in Range(mgr_list') :
          d \in InState({"LEAVING"})' /\ d \notin EvictQueued /\ d \notin EvictorHas
    BY <1>4 DEF IInv, OneOwner, LeavingOwned
  <2> QED
    BY <1>2, <2>3, <2>4 DEF InState
<1>6. BusyInv'
  BY <1>1, <1>2, <1>3 DEF BusyInv, fillVars
<1>7. FillerInv'
  BY <1>1, <1>2, Places DEF FillerInv, fillVars
<1>8. LeavingInv'
  BY <1>1, <1>3, <1>4, <1>5 DEF LeavingInv, BusyInv, evictVars
<1>9. CleanInv' /\ AbsentInv' /\ Coherent'
  BY <1>1, <1>2, <1>3 DEF CleanInv, AbsentInv, Coherent
<1> QED
  BY <1>6, <1>7, <1>8, <1>9

LEMMA MgrSendMem ==
  ASSUME IInv, IInv', MemInv, MgrSend
  PROVE  MemInv'
<1> USE DEF MemInv
<1>1. UNCHANGED <<mem, wp, store_fresh, m_present_pages, pdVars, fillVars, evictor_pc,
                  evictor_work>>
  BY DEF MgrSend, kernelVars, listVars
<1>2. \A d : Resident(d)' <=> Resident(d)
  BY <1>1 DEF Resident, pdVars
<1>3. Range(mgr_list') \cup EvictQueued' = Range(mgr_list) \cup EvictQueued
  <2>1. InState({"LEAVING"})' = InState({"LEAVING"}) /\ EvictorHas' = EvictorHas
    BY <1>1 DEF InState, EvictorHas, pdVars
  <2>2. Range(mgr_list) \cup EvictQueued = InState({"LEAVING"}) \ EvictorHas
    BY DEF IInv, OneOwner, LeavingOwned
  <2>3. Range(mgr_list') \cup EvictQueued' = InState({"LEAVING"})' \ EvictorHas'
    BY DEF IInv, OneOwner, LeavingOwned
  <2> QED
    BY <2>1, <2>2, <2>3
<1>4. LeavingInv'
  BY <1>1, <1>2, <1>3 DEF LeavingInv, pdVars
<1>5. BusyInv' /\ FillerInv' /\ CleanInv' /\ AbsentInv' /\ Coherent'
  BY <1>1, <1>2 DEF BusyInv, FillerInv, CleanInv, AbsentInv, Coherent, pdVars, fillVars
<1> QED
  BY <1>4, <1>5

\* What an evict worker takes is protected first when it is dirty.
LEMMA EvictGetMem ==
  ASSUME IInv, OneDescriptorPerPage, MemInv, NEW v \in Evictors, EvictGet(v)
  PROVE  MemInv'
<1> USE DEF MemInv
<1>1. PICK pd \in EvictQueued :
        /\ evictor_work'[v].page_desc = pd
        /\ \/ dirty[pd] /\ wp' = (IF mem[page[pd]] # "none" THEN wp \cup {page[pd]} ELSE wp)
              /\ evictor_pc' = [evictor_pc EXCEPT ![v] = "write"]
           \/ ~dirty[pd] /\ wp' = wp /\ evictor_pc' = [evictor_pc EXCEPT ![v] = "madvise"]
        /\ \A u \in Evictors \ {v} : evictor_work'[u] = evictor_work[u]
  <2> DEFINE work == Head(evict_queue)
  <2>1. work \in Range(evict_queue)
    BY TailFacts, ListsInjective DEF EvictGet
  <2>2. work.page_desc \in EvictQueued /\ work.type = "EVICT"
    BY <2>1 DEF EvictQueued, IInv, OnlyEvictions
  <2>3. AfterWrite(work) = "madvise"
    BY <2>2 DEF AfterWrite
  <2>4. \/ /\ dirty[work.page_desc] /\ enable_write_protect(page[work.page_desc])
           /\ EvictorGoes(v, "write", work)
        \/ ~dirty[work.page_desc] /\ EvictorGoes(v, "madvise", work) /\ wp' = wp
    BY <2>3 DEF EvictGet
  <2> HIDE DEF work
  <2>5. /\ evictor_work' = [evictor_work EXCEPT ![v] = work]
        /\ \/ dirty[work.page_desc] /\ enable_write_protect(page[work.page_desc])
              /\ evictor_pc' = [evictor_pc EXCEPT ![v] = "write"]
           \/ ~dirty[work.page_desc] /\ wp' = wp /\ evictor_pc' = [evictor_pc EXCEPT ![v] = "madvise"]
    BY <2>4 DEF EvictorGoes
  <2>6. evictor_work'[v] = work /\ \A u \in Evictors \ {v} : evictor_work'[u] = evictor_work[u]
    BY <2>5 DEF IInv, TypeOK, WorkerTypeOK
  <2> QED
    BY <2>2, <2>5, <2>6 DEF enable_write_protect
<1>2. UNCHANGED <<mem, store_fresh, m_present_pages, pdVars, fillVars, mgr_list, state>>
  BY DEF EvictGet, listVars, mgrVars, pdVars
<1>3. pd \in PDs /\ state[pd] = "LEAVING" /\ Resident(pd)
  BY Places DEF LeavingInv
<1>4. PICK p \in Pages : p = page[pd]
  BY <1>3, OnePage
<1>5. /\ \A d \in PDs \ {pd} : state[d] # "FREE" => page[d] # p
      /\ \A d : Resident(d)' <=> Resident(d)
  BY <1>2, <1>3, <1>4, OnePage DEF Resident, pdVars
<1>6. /\ wp' \in {wp, wp \cup {p}}
      /\ \/ dirty[pd] /\ p \in wp' /\ evictor_pc'[v] = "write"
         \/ ~dirty[pd] /\ evictor_pc'[v] = "madvise"
      /\ \A u \in Evictors \ {v} : evictor_pc'[u] = evictor_pc[u]
  <2>1. evictor_pc \in [Evictors -> {"get", "write", "madvise", "free"}]
    BY DEF IInv, TypeOK, WorkerTypeOK
  <2>2. /\ wp' \in {wp, wp \cup {p}}
        /\ dirty[pd] => p \in wp'
    <3>1. mem[page[pd]] # "none"
      BY <1>3 DEF Resident
    <3> QED
      BY <1>1, <1>4, <3>1
  <2> QED
    BY <1>1, <2>1, <2>2
<1>7. BusyInv'
  BY <1>2, <1>3, <1>5, <1>6 DEF BusyInv, pdVars, fillVars
<1>8. FillerInv'
  <2>1. \A f \in Fillers : filler_pc[f] # "get" => page[filler_pd[f]] # p
    BY <1>3, <1>5, Places
  <2> QED
    BY <1>2, <1>6, <2>1 DEF FillerInv, pdVars, fillVars
<1>9. LeavingInv'
  <2>1. \A d \in Range(mgr_list') \cup EvictQueued' : d \in Range(mgr_list) \cup EvictQueued
    <3>1. Range(evict_queue') = Range(evict_queue) \ {Head(evict_queue)}
      BY TailFacts, ListsInjective DEF EvictGet
    <3> QED
      BY <1>2, <3>1 DEF EvictQueued
  <2>2. \A d \in Range(mgr_list') \cup EvictQueued' : Resident(d)'
    BY <1>5, <2>1 DEF LeavingInv
  <2>3. ASSUME NEW u \in Evictors, NEW d, d = evictor_work'[u].page_desc
        PROVE  /\ evictor_pc'[u] = "write" => Resident(d)' /\ dirty[d] /\ page[d] \in wp'
               /\ evictor_pc'[u] = "madvise" => Resident(d)' /\ ~dirty[d]
               /\ evictor_pc'[u] = "free" => ~Resident(d)'
    <3>1. CASE u = v
      BY <1>1, <1>3, <1>4, <1>5, <1>6, <2>3, <3>1
    <3>2. CASE u # v
      BY <1>1, <1>5, <1>6, <2>3, <3>2 DEF LeavingInv
    <3> QED
      BY <3>1, <3>2
  <2> QED
    BY <1>2, <2>2, <2>3 DEF LeavingInv, pdVars, Resident
<1>10. CleanInv' /\ AbsentInv' /\ Coherent'
  BY <1>2, <1>5, <1>6 DEF CleanInv, AbsentInv, Coherent, pdVars
<1> QED
  BY <1>7, <1>8, <1>9, <1>10

\* What an evict worker has in hand goes on to its next step; nobody else has it.
LEMMA EvictorNext ==
  ASSUME IInv, NEW v \in Evictors, evictor_pc[v] # "get",
         NEW next \in {"madvise", "free"}, EvictorGoes(v, next, evictor_work[v])
  PROVE  /\ evictor_work' = evictor_work /\ evictor_pc'[v] = next
         /\ \A u \in Evictors \ {v} : evictor_pc'[u] = evictor_pc[u]
         /\ \A u \in Evictors \ {v} : evictor_pc[u] # "get" =>
              evictor_work[u].page_desc # evictor_work[v].page_desc
<1>1. /\ evictor_pc' = [evictor_pc EXCEPT ![v] = next]
      /\ evictor_work' = [evictor_work EXCEPT ![v] = evictor_work[v]]
  BY DEF EvictorGoes
<1>2. /\ DOMAIN evictor_pc = Evictors
      /\ DOMAIN evictor_work = Evictors /\ evictor_work = [u \in Evictors |-> evictor_work[u]]
  BY SMTT(30) DEF IInv, TypeOK, WorkerTypeOK
<1>3. /\ evictor_work' = evictor_work /\ evictor_pc'[v] = next
      /\ \A u \in Evictors \ {v} : evictor_pc'[u] = evictor_pc[u]
  BY <1>1, <1>2
<1> QED
  BY <1>3, Places

\* A page is protected while it is written back, so what is written is what was written last.
LEMMA EvictWriteMem ==
  ASSUME IInv, OneDescriptorPerPage, MemInv, NEW v \in Evictors, EvictWrite(v)
  PROVE  MemInv'
<1> USE DEF MemInv
<1>1. PICK pd \in PDs : pd = evictor_work[v].page_desc /\ state[pd] = "LEAVING"
  BY Places DEF EvictWrite
<1>2. evictor_pc[v] = "write" /\ Resident(pd) /\ page[pd] \in wp
  BY <1>1 DEF EvictWrite, LeavingInv
<1>3. PICK p \in Pages : p = page[pd]
  BY <1>1, OnePage
<1>4. /\ dirty' = [dirty EXCEPT ![pd] = FALSE] /\ store_fresh' = store_fresh \cup {p}
      /\ EvictorGoes(v, "madvise", evictor_work[v])
      /\ UNCHANGED <<mem, wp, m_present_pages, page, state, data_present, fillVars, mgr_list,
                     evict_queue>>
  <2>1. mem[p] = "fresh"
    BY <1>2, <1>3 DEF Resident, Coherent, IInv, TypeOK, KernelTypeOK
  <2>2. AfterWrite(evictor_work[v]) = "madvise"
    BY <1>2 DEF AfterWrite, IInv, OnlyEvictions
  <2> QED
    BY <1>1, <1>3, <2>1, <2>2 DEF EvictWrite, write_to_store, listVars, mgrVars
<1>5. /\ evictor_work' = evictor_work /\ evictor_pc'[v] = "madvise"
      /\ \A u \in Evictors \ {v} : evictor_pc'[u] = evictor_pc[u]
      /\ \A u \in Evictors \ {v} : evictor_pc[u] # "get" => evictor_work[u].page_desc # pd
  BY <1>1, <1>2, <1>4, EvictorNext
<1>6. ~dirty'[pd] /\ \A d \in PDs \ {pd} : dirty'[d] <=> dirty[d]
  BY <1>4 DEF IInv, TypeOK, DescriptorTypeOK
<1>7. \A d : Resident(d)' <=> Resident(d)
  BY <1>4 DEF Resident
<1>8. BusyInv'
  BY <1>1, <1>4, <1>6, <1>7 DEF BusyInv, fillVars
<1>9. FillerInv'
  BY <1>1, <1>4, <1>6, Places DEF FillerInv, fillVars
<1>10. LeavingInv'
  <2>1. EvictQueued' = EvictQueued
    BY <1>4 DEF EvictQueued
  <2>2. ASSUME NEW u \in Evictors, NEW d, d = evictor_work[u].page_desc
        PROVE  /\ evictor_pc'[u] = "write" => Resident(d) /\ dirty'[d] /\ page[d] \in wp
               /\ evictor_pc'[u] = "madvise" => Resident(d) /\ ~dirty'[d]
               /\ evictor_pc'[u] = "free" => ~Resident(d)
    <3>1. CASE u = v
      BY <1>1, <1>2, <1>5, <1>6, <2>2, <3>1
    <3>2. CASE u # v
      <4>1. evictor_pc'[u] = evictor_pc[u] /\ (evictor_pc[u] # "get" => d \in PDs \ {pd})
        BY <1>5, <2>2, <3>2, Places
      <4>2. /\ evictor_pc[u] = "write" => Resident(d) /\ dirty[d] /\ page[d] \in wp
            /\ evictor_pc[u] = "madvise" => Resident(d) /\ ~dirty[d]
            /\ evictor_pc[u] = "free" => ~Resident(d)
        BY <2>2 DEF LeavingInv
      <4> QED
        BY <1>6, <4>1, <4>2
    <3> QED
      BY <3>1, <3>2
  <2> QED
    BY <1>4, <1>5, <2>1, <2>2 DEF LeavingInv, Resident
<1>11. CleanInv'
  BY <1>2, <1>3, <1>4, <1>6, <1>7 DEF CleanInv
<1>12. AbsentInv' /\ Coherent'
  BY <1>4 DEF AbsentInv, Coherent
<1> QED
  BY <1>8, <1>9, <1>10, <1>11, <1>12

\* A page is dropped from memory only when the Store has it.
LEMMA EvictMadviseMem ==
  ASSUME IInv, OneDescriptorPerPage, MemInv, NEW v \in Evictors, EvictMadvise(v)
  PROVE  MemInv'
<1> USE DEF MemInv
<1>1. PICK pd \in PDs : pd = evictor_work[v].page_desc /\ state[pd] = "LEAVING"
  BY Places DEF EvictMadvise
<1>2. evictor_pc[v] = "madvise" /\ Resident(pd) /\ ~dirty[pd]
  BY <1>1 DEF EvictMadvise, LeavingInv
<1>3. PICK p \in Pages : p = page[pd]
  BY <1>1, OnePage
<1>4. p \in store_fresh
  BY <1>1, <1>2, <1>3 DEF CleanInv
<1>5. /\ mem' = [mem EXCEPT ![p] = "none"] /\ wp' = wp \ {p}
      /\ EvictorGoes(v, "free", evictor_work[v])
      /\ UNCHANGED <<store_fresh, m_present_pages, pdVars, fillVars, mgr_list, evict_queue>>
  BY <1>1, <1>3 DEF EvictMadvise, listVars, mgrVars
<1>6. /\ evictor_work' = evictor_work /\ evictor_pc'[v] = "free"
      /\ \A u \in Evictors \ {v} : evictor_pc'[u] = evictor_pc[u]
      /\ \A u \in Evictors \ {v} : evictor_pc[u] # "get" => evictor_work[u].page_desc # pd
  BY <1>1, <1>2, <1>5, EvictorNext
<1>7. /\ mem'[p] = "none" /\ \A q \in Pages \ {p} : mem'[q] = mem[q]
      /\ \A d \in PDs \ {pd} : state[d] # "FREE" => page[d] # p /\ page[d] \in Pages
  <2>1. mem'[p] = "none" /\ \A q \in Pages \ {p} : mem'[q] = mem[q]
    BY <1>5 DEF IInv, TypeOK, KernelTypeOK
  <2> QED
    BY <1>1, <1>3, <2>1, OnePage
<1>8. /\ ~Resident(pd)'
      /\ \A d \in PDs \ {pd} : state[d] # "FREE" => (Resident(d)' <=> Resident(d))
  BY <1>3, <1>5, <1>7 DEF Resident, pdVars
<1>9. BusyInv'
  BY <1>1, <1>5, <1>8 DEF BusyInv, pdVars, fillVars
<1>10. FillerInv'
  BY <1>5 DEF FillerInv, pdVars, fillVars
<1>11. LeavingInv'
  <2>1. EvictQueued' = EvictQueued /\ Range(mgr_list') = Range(mgr_list)
    BY <1>5 DEF EvictQueued
  <2>2. pd \notin Range(mgr_list) \cup EvictQueued
    BY <1>1, <1>2, Places
  <2>3. ASSUME NEW u \in Evictors, NEW d, d = evictor_work[u].page_desc
        PROVE  /\ evictor_pc'[u] = "write" => Resident(d)' /\ dirty[d] /\ page[d] \in wp'
               /\ evictor_pc'[u] = "madvise" => Resident(d)' /\ ~dirty[d]
               /\ evictor_pc'[u] = "free" => ~Resident(d)'
    <3>1. CASE u = v
      BY <1>1, <1>6, <1>8, <2>3, <3>1
    <3>2. CASE u # v
      <4>1. /\ evictor_pc'[u] = evictor_pc[u]
            /\ evictor_pc[u] # "get" => d \in PDs \ {pd} /\ state[d] # "FREE"
        BY <1>6, <2>3, <3>2, Places
      <4>2. /\ evictor_pc[u] = "write" => Resident(d) /\ dirty[d] /\ page[d] \in wp
            /\ evictor_pc[u] = "madvise" => Resident(d) /\ ~dirty[d]
            /\ evictor_pc[u] = "free" => ~Resident(d)
        BY <2>3 DEF LeavingInv
      <4> QED
        BY <1>5, <1>7, <1>8, <4>1, <4>2
    <3> QED
      BY <3>1, <3>2
  <2>4. \A d \in Range(mgr_list') \cup EvictQueued' : Resident(d)'
    BY <1>8, <2>1, <2>2, Places DEF LeavingInv
  <2>5. UNCHANGED <<dirty, page>>
    BY <1>5 DEF pdVars
  <2> QED
    BY <1>6, <2>3, <2>4, <2>5 DEF LeavingInv
<1>12. CleanInv'
  BY <1>1, <1>5, <1>7, <1>8 DEF CleanInv, pdVars
<1>13. AbsentInv' /\ Coherent'
  BY <1>4, <1>5, <1>7 DEF AbsentInv, Coherent
<1> QED
  BY <1>9, <1>10, <1>11, <1>12, <1>13

LEMMA EvictMarkFreeMem ==
  ASSUME IInv, OneDescriptorPerPage, MemInv, NEW v \in Evictors, EvictMarkFree(v)
  PROVE  MemInv'
<1> USE DEF MemInv
<1>1. PICK pd \in PDs : pd = evictor_work[v].page_desc /\ state[pd] = "LEAVING"
  BY Places DEF EvictMarkFree
<1>2. evictor_pc[v] = "free" /\ ~Resident(pd)
  BY <1>1 DEF EvictMarkFree, LeavingInv
<1>3. PICK p \in Pages : p = page[pd]
  BY <1>1, OnePage
<1>4. /\ state' = [state EXCEPT ![pd] = "FREE"] /\ page' = [page EXCEPT ![pd] = NoPage]
      /\ m_present_pages' = [m_present_pages EXCEPT ![p] = NoPD]
      /\ EvictorGoes(v, "get", NoWork)
      /\ UNCHANGED <<mem, wp, store_fresh, dirty, data_present, fillVars, mgr_list, evict_queue>>
  BY <1>1, <1>3 DEF EvictMarkFree, mark_page_as_free, set_state_free, Erased, kernelVars, mgrVars
<1>5. state'[pd] = "FREE" /\ \A d \in PDs \ {pd} : state'[d] = state[d] /\ page'[d] = page[d]
  BY <1>4 DEF IInv, TypeOK, DescriptorTypeOK
<1>6. /\ evictor_pc'[v] = "get"
      /\ \A u \in Evictors \ {v} : /\ evictor_pc'[u] = evictor_pc[u]
                                   /\ evictor_work'[u] = evictor_work[u]
      /\ \A u \in Evictors \ {v} : evictor_pc[u] # "get" => evictor_work[u].page_desc # pd
  <2>1. /\ evictor_pc' = [evictor_pc EXCEPT ![v] = "get"]
        /\ evictor_work' = [evictor_work EXCEPT ![v] = NoWork]
    BY <1>4 DEF EvictorGoes
  <2>2. DOMAIN evictor_pc = Evictors /\ DOMAIN evictor_work = Evictors
    BY SMT DEF IInv, TypeOK, WorkerTypeOK
  <2>3. \A u \in Evictors \ {v} : evictor_pc[u] # "get" => evictor_work[u].page_desc # pd
    BY <1>1, <1>2, Places
  <2> QED
    BY <2>1, <2>2, <2>3
<1>7. \A d \in PDs \ {pd} : Resident(d)' <=> Resident(d)
  BY <1>4, <1>5 DEF Resident
<1>8. BusyInv'
  <2>1. UNCHANGED <<wp, dirty, data_present, fill_queue>>
    BY <1>4 DEF fillVars
  <2> SUFFICES ASSUME NEW d \in PDs
               PROVE  /\ state'[d] \in {"FILLING", "PRESENT", "UPDATING"} =>
                           (Resident(d)' <=> data_present[d])
                      /\ state'[d] \in {"PRESENT", "UPDATING"} => data_present[d]
                      /\ state'[d] = "UPDATING" => dirty[d]
                      /\ state'[d] = "PRESENT" /\ dirty[d] => page'[d] \notin wp
                      /\ d \in Range(fill_queue) /\ state'[d] = "FILLING" => ~data_present[d]
    BY <2>1 DEF BusyInv
  <2>2. CASE d = pd
    BY <1>5, <2>2
  <2>3. CASE d # pd
    BY <1>5, <1>7, <2>3 DEF BusyInv
  <2> QED
    BY <2>2, <2>3
<1>9. FillerInv'
  <2>1. UNCHANGED <<wp, dirty, data_present, filler_pc, filler_pd, filler_buf>>
    BY <1>4 DEF fillVars
  <2>2. \A g \in Fillers : filler_pc[g] # "get" =>
          filler_pd[g] \in PDs /\ state[filler_pd[g]] \in {"FILLING", "UPDATING"}
    BY Places
  <2>3. \A g \in Fillers : filler_pc[g] # "get" => filler_pd[g] \in PDs \ {pd}
    BY <1>1, <2>2
  <2> SUFFICES ASSUME NEW g \in Fillers, filler_pc[g] # "get"
               PROVE  /\ filler_pc[g] = "copy" =>
                           /\ state'[filler_pd[g]] = "FILLING" /\ ~data_present[filler_pd[g]]
                           /\ filler_buf[g] = "fresh"
                      /\ filler_pc[g] = "mark" =>
                           /\ data_present[filler_pd[g]]
                           /\ dirty[filler_pd[g]] => page'[filler_pd[g]] \notin wp
    BY <2>1 DEF FillerInv
  <2> QED
    BY <1>5, <2>3 DEF FillerInv
<1>10. LeavingInv'
  <2>1. EvictQueued' = EvictQueued /\ Range(mgr_list') = Range(mgr_list)
    BY <1>4 DEF EvictQueued
  <2>2. pd \notin Range(mgr_list) \cup EvictQueued
    BY <1>1, <1>2, Places
  <2>3. ASSUME NEW u \in Evictors, NEW d, d = evictor_work'[u].page_desc
        PROVE  /\ evictor_pc'[u] = "write" => Resident(d)' /\ dirty[d] /\ page'[d] \in wp
               /\ evictor_pc'[u] = "madvise" => Resident(d)' /\ ~dirty[d]
               /\ evictor_pc'[u] = "free" => ~Resident(d)'
    <3>1. CASE u = v
      BY <1>6, <3>1
    <3>2. CASE u # v
      <4>1. /\ evictor_pc'[u] = evictor_pc[u] /\ d = evictor_work[u].page_desc
            /\ evictor_pc[u] # "get" => d \in PDs \ {pd}
        <5>1. evictor_pc[u] # "get" => evictor_work[u].page_desc \in PDs
          BY Places
        <5> QED
          BY <1>6, <2>3, <3>2, <5>1
      <4>2. /\ evictor_pc[u] = "write" => Resident(d) /\ dirty[d] /\ page[d] \in wp
            /\ evictor_pc[u] = "madvise" => Resident(d) /\ ~dirty[d]
            /\ evictor_pc[u] = "free" => ~Resident(d)
        BY <4>1 DEF LeavingInv
      <4> QED
        BY <1>5, <1>7, <4>1, <4>2
    <3> QED
      BY <3>1, <3>2
  <2>4. \A d \in Range(mgr_list') \cup EvictQueued' : Resident(d)'
    BY <1>7, <2>1, <2>2, Places DEF LeavingInv
  <2>5. UNCHANGED <<dirty, wp>>
    BY <1>4
  <2> QED
    BY <2>3, <2>4, <2>5 DEF LeavingInv, Resident
<1>11. CleanInv'
  <2> SUFFICES ASSUME NEW d \in PDs, state'[d] # "FREE", Resident(d)', ~dirty[d]
               PROVE  page'[d] \in wp /\ page'[d] \in store_fresh
    BY <1>4 DEF CleanInv
  <2>1. d # pd
    BY <1>5
  <2> QED
    BY <1>5, <1>7, <2>1 DEF CleanInv
<1>12. Coherent'
  BY <1>4 DEF Coherent
<1>13. AbsentInv'
  BY <1>2, <1>3, <1>4 DEF AbsentInv, Resident, IInv, TypeOK, BufferTypeOK
<1> QED
  BY <1>8, <1>9, <1>10, <1>11, <1>12, <1>13

-----------------------------------------------------------------------------
(* Handlers that wait *)

\* Nothing a handler relies on while it sleeps is changed.
LEMMA HandlerFrame ==
  ASSUME HandlerInv, NoMissedBroadcast,
         UNCHANGED <<pc, batch, waitVars, m_present_pages, m_free_pages>>,
         \A d \in PDs : state[d] # "PRESENT" => state'[d] # "PRESENT",
         m_present_pages \in [Pages -> PDs \cup {NoPD}],
         batch \in [Handlers -> SUBSET Event], asleep_state \subseteq Handlers
  PROVE  HandlerInv' /\ NoMissedBroadcast'
<1>1. \A h \in Handlers : \A e \in batch[h] : FirstEvent(h, e)' <=> FirstEvent(h, e)
  BY DEF FirstEvent
<1>2. \A h \in Handlers : \A e \in batch[h] : e.page \in Pages
  BY SMT DEF Event
<1>3. HandlerInv'
  BY <1>1 DEF HandlerInv, waitVars
<1>4. \A h \in asleep_state : \E e \in batch[h] :
        /\ FirstEvent(h, e)' /\ m_present_pages[e.page] # NoPD
        /\ state'[m_present_pages[e.page]] # "PRESENT"
  BY <1>1, <1>2 DEF NoMissedBroadcast
<1> QED
  BY <1>3, <1>4 DEF NoMissedBroadcast, waitVars

\* The same of a step that changes neither states nor lists.
LEMMA HandlerQuiet ==
  ASSUME IInv, HandlerInv, NoMissedBroadcast,
         UNCHANGED <<pc, batch, waitVars, m_present_pages, m_free_pages>>,
         \A d \in PDs : state[d] # "PRESENT" => state'[d] # "PRESENT"
  PROVE  HandlerInv' /\ NoMissedBroadcast'
BY HandlerFrame DEF IInv, TypeOK, BufferTypeOK

\* A handler takes up a batch.
LEMMA TakeBatchHandler ==
  ASSUME IInv, HandlerInv, NoMissedBroadcast, NEW h \in Handlers, pc[h] = "idle",
         NEW b \in SUBSET Event,
         batch' = [batch EXCEPT ![h] = b], pc' = [pc EXCEPT ![h] = "event"],
         UNCHANGED <<waitVars, m_present_pages, m_free_pages, state>>
  PROVE  HandlerInv' /\ NoMissedBroadcast'
<1>1. /\ pc'[h] = "event" /\ h \notin asleep_state /\ h \notin asleep_avail
      /\ \A g \in Handlers \ {h} : pc'[g] = pc[g] /\ batch'[g] = batch[g]
  BY DEF IInv, TypeOK, BufferTypeOK, HandlerInv
<1>2. \A g \in Handlers \ {h} : \A e \in batch[g] : FirstEvent(g, e)' <=> FirstEvent(g, e)
  BY <1>1 DEF FirstEvent
<1>3. HandlerInv'
  BY <1>1, <1>2 DEF HandlerInv, waitVars
<1>4. asleep_state \subseteq Handlers
  BY DEF IInv, TypeOK, BufferTypeOK
<1> QED
  BY <1>1, <1>2, <1>3, <1>4 DEF NoMissedBroadcast, waitVars

LEMMA WaitForStateHandler ==
  ASSUME IInv, HandlerInv, NoMissedBroadcast, NEW h \in Handlers, NEW e \in batch[h],
         WaitForState(h, e)
  PROVE  HandlerInv' /\ NoMissedBroadcast'
<1> USE DEF WaitForState, BeginStateWait, listVars, pdVars
<1>1. /\ pc'[h] = "wait_state" /\ batch' = batch /\ pc[h] \in {"event", "wait_state"}
      /\ \A g \in Handlers \ {h} : pc'[g] = pc[g]
  BY DEF IInv, TypeOK, BufferTypeOK, Looking
<1>2. \A g \in Handlers : \A e2 \in batch[g] : FirstEvent(g, e2)' <=> FirstEvent(g, e2)
  BY <1>1 DEF FirstEvent
<1>3. HandlerInv'
  BY <1>1, <1>2 DEF HandlerInv
<1>4. asleep_state \subseteq Handlers /\ FirstEvent(h, e)
  BY DEF IInv, TypeOK, BufferTypeOK, Looking
<1> QED
  BY <1>1, <1>2, <1>3, <1>4 DEF NoMissedBroadcast

\* A handler that is awake is done with an event that changes no list.
LEMMA EventDoneHandler ==
  ASSUME IInv, HandlerInv, NoMissedBroadcast, NEW h \in Handlers, NEW e \in batch[h],
         Looking(h, e), EndStateWait(h), EventDone(h, e),
         UNCHANGED <<m_waits_for_avail_pd, asleep_avail, asleep_state, m_present_pages,
                     m_free_pages>>,
         \A d \in PDs : state[d] # "PRESENT" => state'[d] # "PRESENT"
  PROVE  HandlerInv' /\ NoMissedBroadcast'
<1> USE DEF EndStateWait, EventDone
<1>1. /\ pc'[h] \in {"idle", "event"} /\ (pc'[h] = "idle" => batch'[h] = {})
      /\ \A g \in Handlers \ {h} : pc'[g] = pc[g] /\ batch'[g] = batch[g]
  BY DEF IInv, TypeOK, BufferTypeOK
<1>2. h \notin asleep_state /\ h \notin asleep_avail
  BY DEF HandlerInv, Looking
<1>3. \A g \in Handlers \ {h} : \A e2 \in batch[g] : FirstEvent(g, e2)' <=> FirstEvent(g, e2)
  BY <1>1 DEF FirstEvent
<1>4. HandlerInv'
  BY <1>1, <1>2, <1>3 DEF HandlerInv
<1>5. asleep_state \subseteq Handlers
  BY DEF IInv, TypeOK, BufferTypeOK
<1>6. \A g \in asleep_state : \E e2 \in batch'[g] :
        /\ FirstEvent(g, e2)' /\ m_present_pages[e2.page] # NoPD
        /\ state'[m_present_pages[e2.page]] # "PRESENT"
  <2> SUFFICES ASSUME NEW g \in asleep_state
               PROVE  \E e2 \in batch'[g] :
                        /\ FirstEvent(g, e2)' /\ m_present_pages[e2.page] # NoPD
                        /\ state'[m_present_pages[e2.page]] # "PRESENT"
    OBVIOUS
  <2>1. g \in Handlers \ {h}
    BY <1>2, <1>5
  <2>2. PICK e2 \in batch[g] : /\ FirstEvent(g, e2) /\ m_present_pages[e2.page] # NoPD
                               /\ state[m_present_pages[e2.page]] # "PRESENT"
    BY DEF NoMissedBroadcast
  <2>3. m_present_pages[e2.page] \in PDs
    BY <2>1, <2>2, FirstPage DEF IInv, TypeOK, BufferTypeOK
  <2> QED
    BY <2>1, <2>2, <2>3, <1>1, <1>3
<1> QED
  BY <1>4, <1>6 DEF NoMissedBroadcast

LEMMA SpuriousWakeHandler ==
  ASSUME IInv, HandlerInv, NoMissedBroadcast, NEW h \in Handlers, SpuriousWake(h)
  PROVE  HandlerInv' /\ NoMissedBroadcast'
<1> USE DEF SpuriousWake, listVars, pdVars, handlerVars
<1>1. \A g \in Handlers : \A e2 \in batch[g] : FirstEvent(g, e2)' <=> FirstEvent(g, e2)
  BY DEF FirstEvent
<1>2. HandlerInv'
  BY <1>1 DEF HandlerInv
<1>3. asleep_state \subseteq Handlers
  BY DEF IInv, TypeOK, BufferTypeOK
<1> QED
  BY <1>1, <1>2, <1>3 DEF NoMissedBroadcast

\* Whoever sleeps on m_state_change_cond is counted, so no broadcast passes them over.
LEMMA BroadcastWakes ==
  ASSUME IInv, HandlerInv, BroadcastState
  PROVE  asleep_state' = {}
BY DEF BroadcastState, HandlerInv, IInv, TypeOK, BufferTypeOK

LEMMA BringInHandler ==
  ASSUME IInv, OneDescriptorPerPage, HandlerInv, NoMissedBroadcast,
         NEW h \in Handlers, NEW e \in batch[h], BringIn(h, e)
  PROVE  HandlerInv' /\ NoMissedBroadcast'
<1> DEFINE pd == m_free_pages[Len(m_free_pages)]
<1>1. /\ WantsDescriptor(h, e) /\ EndStateWait(h) /\ EventDone(h, e)
      /\ asleep_avail' = asleep_avail /\ asleep_state' = asleep_state
      /\ m_waits_for_avail_pd' = m_waits_for_avail_pd \ {h}
      /\ m_present_pages' = [m_present_pages EXCEPT ![e.page] = pd]
      /\ state' = [state EXCEPT ![pd] = "FILLING"]
  BY DEF BringIn, set_state_filling
<1> HIDE DEF pd
<1>2. e.page \in Pages /\ m_present_pages[e.page] = NoPD
  BY <1>1, FirstPage, WantedIsAbsent
<1>3. h \notin asleep_state /\ h \notin asleep_avail
  BY <1>1 DEF WantsDescriptor, Looking, HandlerInv
<1>4. \A g \in Handlers \ {h} : pc[g] # "wait_avail"
  BY DEF HandlerInv, Handlers
<1>5. /\ pc'[h] \in {"idle", "event"} /\ (pc'[h] = "idle" => batch'[h] = {})
      /\ \A g \in Handlers \ {h} : pc'[g] = pc[g] /\ batch'[g] = batch[g]
  BY <1>1 DEF EventDone, IInv, TypeOK, BufferTypeOK
<1>6. asleep_state \subseteq Handlers /\ asleep_avail = {}
  BY <1>3, <1>4, SMT DEF HandlerInv, IInv, TypeOK, BufferTypeOK
<1>7. HandlerInv'
  BY <1>1, <1>3, <1>4, <1>5, <1>6 DEF HandlerInv, EndStateWait
<1>8. ASSUME NEW g \in asleep_state
      PROVE  \E e2 \in batch'[g] : /\ FirstEvent(g, e2)' /\ m_present_pages'[e2.page] # NoPD
                                   /\ state'[m_present_pages'[e2.page]] # "PRESENT"
  <2>1. g \in Handlers \ {h}
    BY <1>3, <1>6
  <2>2. PICK e2 \in batch[g] : /\ FirstEvent(g, e2) /\ m_present_pages[e2.page] # NoPD
                               /\ state[m_present_pages[e2.page]] # "PRESENT"
    BY DEF NoMissedBroadcast
  <2>3. e2.page \in Pages /\ e2.page # e.page /\ FirstEvent(g, e2)'
    BY <2>1, <2>2, <1>2, <1>5, FirstPage DEF FirstEvent
  <2>4. m_present_pages'[e2.page] = m_present_pages[e2.page] /\ m_present_pages[e2.page] \in PDs
    BY <2>2, <2>3, <1>1, <1>2 DEF IInv, TypeOK, BufferTypeOK
  <2>5. state'[m_present_pages[e2.page]] # "PRESENT"
    BY <2>2, <2>4, <1>1 DEF IInv, TypeOK, DescriptorTypeOK
  <2> QED
    BY <2>1, <2>2, <2>3, <2>4, <2>5, <1>5
<1> QED
  BY <1>1, <1>6, <1>7, <1>8 DEF NoMissedBroadcast

LEMMA FillMarkPresentHandler ==
  ASSUME IInv, HandlerInv, NoMissedBroadcast, NEW f \in Fillers, FillMarkPresent(f)
  PROVE  HandlerInv' /\ NoMissedBroadcast'
<1>1. /\ BroadcastState
      /\ UNCHANGED <<pc, batch, m_waits_for_avail_pd, m_waits_for_state_change, asleep_avail,
                     m_present_pages, m_free_pages>>
  BY DEF FillMarkPresent, mark_page_as_present, listVars, handlerVars
<1>2. asleep_state' = {}
  BY <1>1, BroadcastWakes
<1>3. \A h \in Handlers : \A e \in batch[h] : FirstEvent(h, e)' <=> FirstEvent(h, e)
  BY <1>1 DEF FirstEvent
<1>4. HandlerInv'
  BY <1>1, <1>2, <1>3 DEF HandlerInv
<1> QED
  BY <1>1, <1>2, <1>4 DEF NoMissedBroadcast

LEMMA EvictMarkFreeHandler ==
  ASSUME IInv, HandlerInv, NoMissedBroadcast, NEW v \in Evictors, EvictMarkFree(v)
  PROVE  HandlerInv' /\ NoMissedBroadcast'
<1> DEFINE pd == evictor_work[v].page_desc
<1>1. pd \in PDs /\ page[pd] \in Pages /\ ~deferred[pd]
  BY InHand DEF EvictMarkFree, IInv, PageKnown
<1>2. /\ BroadcastState /\ release_page_descriptor(pd)
      /\ UNCHANGED <<pc, batch, m_waits_for_avail_pd, m_waits_for_state_change>>
      /\ m_present_pages' = [m_present_pages EXCEPT ![page[pd]] = NoPD]
  BY <1>1 DEF EvictMarkFree, mark_page_as_free, Erased, handlerVars
<1> HIDE DEF pd
<1>3. asleep_state' = {}
  BY <1>2, BroadcastWakes
<1>4. asleep_avail' = {}
  BY <1>2 DEF release_page_descriptor, HandlerInv, IInv, TypeOK, BufferTypeOK
<1>5. \A h \in Handlers : \A e \in batch[h] :
        /\ FirstEvent(h, e)' <=> FirstEvent(h, e)
        /\ m_present_pages[e.page] = NoPD => m_present_pages'[e.page] = NoPD
  BY <1>1, <1>2, FirstPage DEF FirstEvent, IInv, TypeOK, BufferTypeOK
<1>6. HandlerInv'
  BY <1>2, <1>3, <1>4, <1>5 DEF HandlerInv
<1> QED
  BY <1>3, <1>4, <1>6 DEF NoMissedBroadcast

-----------------------------------------------------------------------------
(* Threads that sleep on a fault *)

\* An event that covers access a is yet to be processed.
Queued(a) ==
  \E h \in Handlers : \E e \in batch[h] : e.page = a.page /\ (a.write => e.write)

\* A fill worker has yet to do the ioctl that wakes the threads on page p.
Awaited(p) ==
  \E d \in PDs :
    /\ page[d] = p
    /\ d \in Range(fill_queue) \/ \E f \in Fillers : filler_pc[f] = "copy" /\ filler_pd[f] = d

LEMMA NoForgottenFaultForm ==
  NoForgottenFault <=> \A t \in blocked \ unread : Queued(fault[t]) \/ Awaited(fault[t].page)
BY DEF NoForgottenFault, Queued, Awaited

LEMMA QueuedFrame == UNCHANGED batch => \A a \in Event : Queued(a)' <=> Queued(a)
BY DEF Queued

LEMMA AwaitedFrame ==
  UNCHANGED <<page, fill_queue, filler_pc, filler_pd>> => \A p \in Pages : Awaited(p)' <=> Awaited(p)
BY DEF Awaited

\* A step that wakes nobody and protects nothing loses no fault when it keeps all covered.
LEMMA FaultFrame ==
  ASSUME IInv, FaultInv, UNCHANGED <<mem, wp, fault, blocked, unread>>,
         \A a \in Event : Queued(a) => Queued(a)' \/ Awaited(a.page)',
         \A p \in Pages : Awaited(p) => Awaited(p)'
  PROVE  FaultInv'
<1>1. BlockedInv'
  BY DEF FaultInv, BlockedInv
<1>2. \A t \in blocked : fault[t] \in Event /\ fault[t].page \in Pages
  BY DEF IInv, TypeOK, KernelTypeOK, Event
<1>3. \A t \in blocked \ unread : Queued(fault[t]) \/ Awaited(fault[t].page)
  BY NoForgottenFaultForm DEF FaultInv
<1>4. ASSUME NEW t \in blocked \ unread
      PROVE  Queued(fault[t])' \/ Awaited(fault[t].page)'
  <2>1. PICK a \in Event : a = fault[t]
    BY <1>2
  <2>2. Queued(a) \/ Awaited(a.page)
    BY <1>3, <2>1
  <2>3. a.page \in Pages
    BY DEF Event
  <2>4. Queued(a)' \/ Awaited(a.page)'
    BY <2>2, <2>3
  <2> QED
    BY <2>1, <2>4
<1>5. NoForgottenFault'
  BY <1>4 DEF NoForgottenFault, Queued, Awaited
<1> QED
  BY <1>1, <1>5 DEF FaultInv

\* The steps that have nothing to do with faults.
LEMMA FaultQuiet ==
  ASSUME IInv, FaultInv, UNCHANGED <<mem, wp, fault, blocked, unread, batch, page, fill_queue,
                                     filler_pc, filler_pd>>
  PROVE  FaultInv'
BY FaultFrame, QueuedFrame, AwaitedFrame

LEMMA AppStepFault ==
  ASSUME IInv, FaultInv, NEW t \in Apps, AppStep(t)
  PROVE  FaultInv'
<1> USE DEF FaultInv
<1>1. UNCHANGED <<wp, batch, page, fill_queue, filler_pc, filler_pd>>
  BY DEF AppStep, AppWrite, AppFault, AppRetry, pdVars, handlerVars, fillVars
<1>2. \A u \in blocked : fault[u] \in Event /\ fault[u].page \in Pages /\ fault[u] # NoFault
  BY BufferAssumption, SMT DEF IInv, TypeOK, KernelTypeOK, Event, NoFault
<1>3. ASSUME NEW p \in Pages, AppWrites(p), mem[p] # "none"
      PROVE  \A q \in Pages : mem'[q] # "none" <=> mem[q] # "none"
  BY <1>3 DEF AppWrites, IInv, TypeOK, KernelTypeOK
<1>4. ASSUME NEW p \in {e.page : e \in {a \in Accesses : a.write}}, AppWrite(t, p)
      PROVE  FaultInv'
  <2>1. p \in Pages
    BY BufferAssumption
  <2>2. \A q \in Pages : mem'[q] # "none" <=> mem[q] # "none"
    BY <1>3, <1>4, <2>1 DEF AppWrite, Accessible
  <2>3. UNCHANGED <<fault, blocked, unread>>
    BY <1>4 DEF AppWrite
  <2> QED
    <3>1. BlockedInv'
      BY <1>1, <1>2, <2>2, <2>3, SMT DEF BlockedInv
    <3>2. NoForgottenFault'
      BY <1>1, <2>3, SMT DEF NoForgottenFault
    <3> QED
      BY <3>1, <3>2
<1>5. ASSUME NEW e \in Accesses, AppFault(t, e) PROVE FaultInv'
  <2>1. /\ t \notin blocked /\ blocked' = blocked \cup {t} /\ unread' = unread \cup {t}
        /\ fault' = [fault EXCEPT ![t] = e] /\ mem' = mem
    BY <1>2, <1>5 DEF AppFault
  <2>2. fault'[t] = e /\ \A u \in blocked : fault'[u] = fault[u]
    BY <2>1 DEF IInv, TypeOK, KernelTypeOK
  <2>3. mem[e.page] # "none" => e.write /\ e.page \in wp
    BY <1>5, BufferAssumption DEF AppFault, Accessible
  <2> QED
    <3>1. BlockedInv'
      <4> SUFFICES ASSUME NEW u \in blocked', mem'[fault'[u].page] # "none"
                   PROVE  fault'[u].write /\ fault'[u].page \in wp
        BY <1>1 DEF BlockedInv
      <4>1. CASE u = t
        BY <2>1, <2>2, <2>3, <4>1
      <4>2. CASE u # t
        <5>1. u \in blocked /\ fault'[u] = fault[u]
          BY <2>1, <2>2, <4>2
        <5> QED
          BY <1>1, <2>1, <5>1 DEF BlockedInv
      <4> QED
        BY <4>1, <4>2
    <3>2. NoForgottenFault'
      <4>1. blocked' \ unread' = blocked \ unread
        BY <2>1
      <4>2. \A u \in blocked \ unread : fault'[u] = fault[u]
        BY <2>2
      <4> QED
        BY <1>1, <4>1, <4>2, SMT DEF NoForgottenFault
    <3> QED
      BY <3>1, <3>2
<1>6. CASE AppRetry(t)
  <2>1. /\ t \notin blocked /\ fault' = [fault EXCEPT ![t] = NoFault]
        /\ UNCHANGED <<blocked, unread>>
    BY <1>6 DEF AppRetry
  <2>2. fault[t].page \in Pages
    BY <1>6 DEF AppRetry, IInv, TypeOK, KernelTypeOK, Event
  <2>3. \A q \in Pages : mem'[q] # "none" <=> mem[q] # "none"
    BY <1>3, <1>6, <2>2 DEF AppRetry, Accessible
  <2>4. \A u \in blocked : fault'[u] = fault[u]
    BY <2>1 DEF IInv, TypeOK, KernelTypeOK
  <2> QED
    <3>1. BlockedInv'
      BY <1>1, <1>2, <2>1, <2>3, <2>4, SMT DEF BlockedInv
    <3>2. NoForgottenFault'
      BY <1>1, <2>1, <2>4, SMT DEF NoForgottenFault
    <3> QED
      BY <3>1, <3>2
<1> QED
  BY <1>4, <1>5, <1>6 DEF AppStep

\* One event per page stands for all messages of that page.
LEMMA UffdReadFault ==
  ASSUME IInv, HandlerInv, FaultInv, UffdRead
  PROVE  FaultInv'
<1> USE DEF FaultInv
<1>1. PICK msgs \in SUBSET unread :
        /\ unread' = unread \ msgs
        /\ batch' = [batch EXCEPT ![UffdThread] = OnePerPage({fault[t] : t \in msgs})]
  BY DEF UffdRead
<1>2. UNCHANGED <<mem, wp, fault, blocked, page, fill_queue, filler_pc, filler_pd>>
  BY DEF UffdRead, pdVars, fillVars
<1>3. /\ UffdThread \in Handlers /\ batch[UffdThread] = {}
      /\ batch'[UffdThread] = OnePerPage({fault[t] : t \in msgs})
      /\ \A h \in Handlers \ {UffdThread} : batch'[h] = batch[h]
  BY <1>1 DEF UffdRead, HandlerInv, Handlers, IInv, TypeOK, BufferTypeOK
<1>4. \A t \in blocked : fault[t] \in Event /\ fault[t].page \in Pages
  BY DEF IInv, TypeOK, KernelTypeOK, Event
<1>5. BlockedInv'
  BY <1>2 DEF BlockedInv
<1>6. ASSUME NEW t \in blocked' \ unread'
      PROVE  \/ \E h \in Handlers : \E e \in batch'[h] :
                  e.page = fault[t].page /\ (fault[t].write => e.write)
             \/ \E d \in PDs :
                  /\ page[d] = fault[t].page
                  /\ \/ d \in Range(fill_queue)
                     \/ \E f \in Fillers : filler_pc[f] = "copy" /\ filler_pd[f] = d
  <2>1. CASE t \in msgs
    <3> DEFINE events == {fault[u] : u \in msgs}
    <3>1. fault[t] \in events /\ fault[t] \in Event
      BY <1>2, <1>4, <2>1
    <3>2. /\ [fault[t] EXCEPT !.write = TRUE].write
          /\ [fault[t] EXCEPT !.write = TRUE].page = fault[t].page
      BY <3>1 DEF Event
    <3> HIDE DEF events
    <3>3. \E e \in OnePerPage(events) : e.page = fault[t].page /\ (fault[t].write => e.write)
      <4>1. CASE fault[t] \in OnePerPage(events)
        BY <4>1
      <4>2. CASE fault[t] \notin OnePerPage(events)
        BY <3>1, <3>2, <4>2 DEF OnePerPage
      <4> QED
        BY <4>1, <4>2
    <3> QED
      BY <1>3, <3>3 DEF events
  <2>2. CASE t \notin msgs
    <3>1. t \in blocked \ unread
      BY <1>1, <1>2, <2>2
    <3>2. \A h \in Handlers : batch[h] \subseteq batch'[h]
      BY <1>3
    <3> QED
      BY <3>1, <3>2 DEF NoForgottenFault
  <2> QED
    BY <2>1, <2>2
<1> QED
  BY <1>2, <1>5, <1>6, SMT DEF NoForgottenFault

LEMMA PrefetchFault ==
  ASSUME IInv, HandlerInv, FaultInv, NEW h \in Prefetchers, NEW p \in Pages, Prefetch(h, p)
  PROVE  FaultInv'
<1>1. UNCHANGED <<mem, wp, fault, blocked, unread, page, fill_queue, filler_pc, filler_pd>>
  BY DEF Prefetch, kernelVars, pdVars, fillVars
<1>2. \A g \in Handlers : batch[g] \subseteq batch'[g]
  BY DEF Prefetch, HandlerInv, Handlers, IInv, TypeOK, BufferTypeOK
<1>3. \A a \in Event : Queued(a) => Queued(a)'
  BY <1>2 DEF Queued
<1> QED
  BY <1>1, <1>3, FaultFrame, AwaitedFrame

\* Only the event that is done is no longer there.
LEMMA EventDoneQueued ==
  ASSUME IInv, NEW h \in Handlers, NEW e \in batch[h], EventDone(h, e)
  PROVE  \A a \in Event : Queued(a) => Queued(a)' \/ (e.page = a.page /\ (a.write => e.write))
<1>1. /\ batch'[h] = batch[h] \ {e}
      /\ \A g \in Handlers \ {h} : batch'[g] = batch[g]
  BY DEF EventDone, IInv, TypeOK, BufferTypeOK
<1> SUFFICES ASSUME NEW a \in Event, Queued(a), ~(e.page = a.page /\ (a.write => e.write))
             PROVE  Queued(a)'
  OBVIOUS
<1>2. PICK g \in Handlers : \E e2 \in batch[g] : e2.page = a.page /\ (a.write => e2.write)
  BY DEF Queued
<1>3. PICK e2 \in batch[g] : e2.page = a.page /\ (a.write => e2.write)
  BY <1>2
<1>4. e2 \in batch'[g]
  BY <1>1, <1>3
<1> QED
  BY <1>3, <1>4 DEF Queued

\* A thread that the dropped event could be for was woken already.
LEMMA SpuriousEventFault ==
  ASSUME IInv, OneDescriptorPerPage, BusyInv, FaultInv, NEW h \in Handlers, NEW e \in batch[h],
         SpuriousEvent(h, e)
  PROVE  FaultInv'
<1> USE DEF FaultInv
<1>1. PICK pd \in PDs : /\ m_present_pages[e.page] = pd /\ state[pd] = "PRESENT"
                        /\ ~(e.write /\ ~dirty[pd])
  BY DEF SpuriousEvent, NeedsUpgrade
<1>2. e.page \in Pages /\ page[pd] = e.page /\ Resident(pd)
  BY <1>1, FirstPage, OnePage, BufferAssumption DEF BusyInv
<1>3. UNCHANGED <<mem, wp, fault, blocked, unread, page, fill_queue, filler_pc, filler_pd>>
  BY DEF SpuriousEvent, kernelVars, pdVars, fillVars
<1>4. BlockedInv'
  BY <1>3 DEF BlockedInv
<1>5. ASSUME NEW t \in blocked \ unread
      PROVE  Queued(fault[t])' \/ Awaited(fault[t].page)'
  <2>1. PICK a \in Event : a = fault[t]
    BY DEF IInv, TypeOK, KernelTypeOK
  <2>2. a.page \in Pages /\ (Queued(a) \/ Awaited(a.page))
    BY <2>1, NoForgottenFaultForm DEF Event
  <2>3. ~(e.page = a.page /\ (a.write => e.write))
    BY <1>1, <1>2, <2>1 DEF BlockedInv, Resident, BusyInv
  <2>4. Queued(a)' \/ Awaited(a.page)'
    BY <1>3, <2>2, <2>3, EventDoneQueued, AwaitedFrame DEF SpuriousEvent
  <2> QED
    BY <1>3, <2>1, <2>4
<1>6. NoForgottenFault'
  BY <1>3, <1>5 DEF NoForgottenFault, Queued, Awaited
<1> QED
  BY <1>4, <1>6

\* The event's descriptor is on its way to the fill workers when the event is done.
LEMMA SentToFillFault ==
  ASSUME IInv, FaultInv, NEW h \in Handlers, NEW e \in batch[h], EventDone(h, e),
         NEW pd \in PDs, page'[pd] = e.page, Range(fill_queue') = Range(fill_queue) \cup {pd},
         state[pd] \in {"FREE", "PRESENT"}, \A d \in PDs \ {pd} : page'[d] = page[d],
         UNCHANGED <<mem, wp, fault, blocked, unread, filler_pc, filler_pd>>
  PROVE  FaultInv'
<1>1. Awaited(e.page)'
  BY DEF Awaited
<1>2. \A p \in Pages : Awaited(p) => Awaited(p)'
  BY Places, SMT DEF Awaited
<1>3. \A a \in Event : Queued(a) => Queued(a)' \/ e.page = a.page
  BY EventDoneQueued
<1>4. \A a \in Event : Queued(a) => Queued(a)' \/ Awaited(a.page)'
  BY <1>1, <1>3 DEF Awaited
<1> QED
  BY <1>2, <1>4, FaultFrame

LEMMA UpdatePageFault ==
  ASSUME IInv, OneDescriptorPerPage, FaultInv, NEW h \in Handlers, NEW e \in batch[h],
         UpdatePage(h, e)
  PROVE  FaultInv'
<1>1. PICK pd \in PDs : /\ m_present_pages[e.page] = pd /\ state[pd] = "PRESENT"
                        /\ fill_queue' = Append(fill_queue, pd)
  BY DEF UpdatePage
<1>2. UNCHANGED <<mem, wp, fault, blocked, unread, page, filler_pc, filler_pd>> /\ EventDone(h, e)
  BY DEF UpdatePage, kernelVars
<1>3. page[pd] = e.page
  BY <1>1, FirstPage, OnePage, BufferAssumption
<1>4. Range(fill_queue') = Range(fill_queue) \cup {pd}
  <2>1. pd \notin Range(fill_queue)
    BY <1>1, Places
  <2> QED
    BY <1>1, <2>1, AppendFacts, ListsInjective, SMT
<1> QED
  BY <1>1, <1>2, <1>3, <1>4, SentToFillFault

LEMMA BringInFault ==
  ASSUME IInv, FaultInv, NEW h \in Handlers, NEW e \in batch[h], BringIn(h, e)
  PROVE  FaultInv'
<1>1. m_free_pages[Len(m_free_pages)] \in Range(m_free_pages)
  BY ListsInjective, FrontFacts DEF BringIn
<1>2. PICK pd \in Range(m_free_pages) : /\ page' = [page EXCEPT ![pd] = e.page]
                                        /\ fill_queue' = Append(fill_queue, pd)
  BY <1>1 DEF BringIn
<1>3. UNCHANGED <<mem, wp, fault, blocked, unread, filler_pc, filler_pd>> /\ EventDone(h, e)
  BY DEF BringIn, kernelVars
<1>4. pd \in PDs /\ state[pd] = "FREE"
  BY DEF IInv, OneOwner, FreeOwned, InState
<1>5. page'[pd] = e.page /\ \A d \in PDs \ {pd} : page'[d] = page[d]
  BY <1>2, <1>4 DEF IInv, TypeOK, DescriptorTypeOK
<1>6. Range(fill_queue') = Range(fill_queue) \cup {pd}
  <2>1. pd \notin Range(fill_queue)
    BY <1>4, Places
  <2> QED
    BY <1>2, <1>4, <2>1, AppendFacts, ListsInjective, SMT
<1> QED
  BY <1>3, <1>4, <1>5, <1>6, SentToFillFault

\* The ioctl of a fill worker wakes the threads of its page; for the others nothing changes.
LEMMA WokenFault ==
  ASSUME IInv, FaultInv, NEW p \in Pages, WakeThreads(p), UNCHANGED <<fault, batch, page>>,
         \A q \in Pages \ {p} : mem'[q] = mem[q] /\ (q \in wp' <=> q \in wp),
         \A q \in Pages \ {p} : Awaited(q) => Awaited(q)'
  PROVE  FaultInv'
<1> USE DEF FaultInv
<1>1. blocked' = {t \in blocked : fault[t].page # p} /\ unread' = {t \in unread : fault[t].page # p}
  BY DEF WakeThreads
<1>2. \A t \in blocked : fault[t] \in Event /\ fault[t].page \in Pages
  BY DEF IInv, TypeOK, KernelTypeOK, Event
<1>3. BlockedInv'
  BY <1>1, <1>2 DEF BlockedInv
<1>4. ASSUME NEW t \in blocked' \ unread'
      PROVE  Queued(fault[t])' \/ Awaited(fault[t].page)'
  <2>1. PICK a \in Event : a = fault[t] /\ a.page \in Pages \ {p}
    BY <1>1, <1>2
  <2>2. t \in blocked \ unread
    BY <1>1, <2>1
  <2>3. Queued(a) \/ Awaited(a.page)
    BY <2>1, <2>2, NoForgottenFaultForm
  <2>4. Queued(a)' \/ Awaited(a.page)'
    BY <2>1, <2>3, QueuedFrame
  <2> QED
    BY <2>1, <2>4
<1>5. NoForgottenFault'
  BY <1>4 DEF NoForgottenFault, Queued, Awaited
<1> QED
  BY <1>3, <1>5

LEMMA FillUnprotectFault ==
  ASSUME IInv, FaultInv, NEW f \in Fillers, FillUnprotect(f)
  PROVE  FaultInv'
<1>1. PICK pd \in Range(fill_queue) :
        /\ disable_write_protect(page[pd]) /\ filler_pd' = [filler_pd EXCEPT ![f] = pd]
        /\ Range(fill_queue') = Range(fill_queue) \ {pd}
  <2>1. /\ Head(fill_queue) \in Range(fill_queue)
        /\ Range(Tail(fill_queue)) = Range(fill_queue) \ {Head(fill_queue)}
    BY TailFacts, ListsInjective DEF FillUnprotect
  <2> QED
    BY <2>1 DEF FillUnprotect
<1>2. UNCHANGED <<mem, fault, batch, page>> /\ filler_pc' = [filler_pc EXCEPT ![f] = "mark"]
      /\ filler_pc[f] = "get"
  BY DEF FillUnprotect, pdVars, handlerVars
<1>3. PICK p \in Pages : p = page[pd]
  BY Places DEF IInv, PageKnown
<1>4. wp' = wp \ {p} /\ WakeThreads(p)
  BY <1>1, <1>3 DEF disable_write_protect
<1>5. \A g \in Fillers : filler_pc[g] = "copy" =>
        filler_pc'[g] = "copy" /\ filler_pd'[g] = filler_pd[g]
  BY <1>1, <1>2 DEF IInv, TypeOK, WorkerTypeOK
<1>6. \A q \in Pages \ {p} : Awaited(q) => Awaited(q)'
  BY <1>1, <1>2, <1>3, <1>5, SMT DEF Awaited
<1> QED
  BY <1>2, <1>4, <1>6, WokenFault

LEMMA FillReadFault ==
  ASSUME IInv, FaultInv, NEW f \in Fillers, FillRead(f)
  PROVE  FaultInv'
<1>1. PICK pd \in Range(fill_queue) : /\ filler_pd' = [filler_pd EXCEPT ![f] = pd]
                                      /\ Range(fill_queue') = Range(fill_queue) \ {pd}
  <2>1. /\ Head(fill_queue) \in Range(fill_queue)
        /\ Range(Tail(fill_queue)) = Range(fill_queue) \ {Head(fill_queue)}
    BY TailFacts, ListsInjective DEF FillRead
  <2> QED
    BY <2>1 DEF FillRead
<1>2. /\ UNCHANGED <<mem, wp, fault, blocked, unread, batch, page>>
      /\ filler_pc' = [filler_pc EXCEPT ![f] = "copy"] /\ filler_pc[f] = "get"
  BY DEF FillRead, kernelVars, pdVars, handlerVars
<1>3. /\ filler_pc'[f] = "copy" /\ filler_pd'[f] = pd
      /\ \A g \in Fillers : filler_pc[g] = "copy" =>
           filler_pc'[g] = "copy" /\ filler_pd'[g] = filler_pd[g]
  BY <1>1, <1>2 DEF IInv, TypeOK, WorkerTypeOK
<1>4. \A p \in Pages : Awaited(p) => Awaited(p)'
  BY <1>1, <1>2, <1>3, SMT DEF Awaited
<1> QED
  BY <1>2, <1>4, FaultFrame, QueuedFrame

LEMMA FillCopyFault ==
  ASSUME IInv, FaultInv, NEW f \in Fillers, FillCopy(f)
  PROVE  FaultInv'
<1>1. filler_pc[f] = "copy" /\ filler_pc' = [filler_pc EXCEPT ![f] = "mark"]
      /\ UNCHANGED <<fault, batch, page, fill_queue, filler_pd>>
  BY DEF FillCopy, handlerVars
<1>2. PICK pd \in PDs : pd = filler_pd[f] /\ page[pd] \in Pages
  BY <1>1, InHand
<1>3. PICK p \in Pages : p = page[pd]
  BY <1>2
<1>4. /\ mem' = [mem EXCEPT ![p] = IF mem[p] = "none" THEN filler_buf[f] ELSE mem[p]]
      /\ wp' \in {wp \ {p}, wp \cup {p}} /\ WakeThreads(p)
  <2>1. IF dirty[pd] THEN copy_in_page(filler_buf[f], p)
                     ELSE copy_in_page_and_write_protect(filler_buf[f], p)
    BY <1>2, <1>3 DEF FillCopy
  <2> QED
    BY <2>1 DEF copy_in_page, copy_in_page_and_write_protect, UffdioCopy
<1>5. \A g \in Fillers \ {f} : filler_pc'[g] = filler_pc[g]
  BY <1>1 DEF IInv, TypeOK, WorkerTypeOK
<1>6. \A q \in Pages \ {p} : Awaited(q) => Awaited(q)'
  BY <1>1, <1>2, <1>3, <1>5 DEF Awaited
<1>7. \A q \in Pages \ {p} : mem'[q] = mem[q] /\ (q \in wp' <=> q \in wp)
  BY <1>4 DEF IInv, TypeOK, KernelTypeOK
<1> QED
  BY <1>1, <1>4, <1>6, <1>7, WokenFault

LEMMA FillMarkPresentFault ==
  ASSUME IInv, FaultInv, NEW f \in Fillers, FillMarkPresent(f)
  PROVE  FaultInv'
<1>1. /\ UNCHANGED <<mem, wp, fault, blocked, unread, batch, page, fill_queue>>
      /\ filler_pc[f] = "mark"
      /\ filler_pd' = [filler_pd EXCEPT ![f] = NoPD] /\ filler_pc' = [filler_pc EXCEPT ![f] = "get"]
  BY DEF FillMarkPresent, kernelVars, handlerVars
<1>2. \A g \in Fillers : filler_pc[g] = "copy" =>
        filler_pc'[g] = "copy" /\ filler_pd'[g] = filler_pd[g]
  BY <1>1 DEF IInv, TypeOK, WorkerTypeOK
<1>3. \A p \in Pages : Awaited(p) => Awaited(p)'
  BY <1>1, <1>2, SMT DEF Awaited
<1> QED
  BY <1>1, <1>3, FaultFrame, QueuedFrame

\* Protecting a page, or dropping it from memory, only makes threads sleep.
LEMMA EvictGetFault ==
  ASSUME IInv, FaultInv, NEW v \in Evictors, EvictGet(v) \/ EvictMadvise(v)
  PROVE  FaultInv'
<1> USE DEF FaultInv
<1>1. UNCHANGED <<fault, blocked, unread, batch, page, fill_queue, filler_pc, filler_pd>>
  BY DEF EvictGet, EvictMadvise, pdVars, handlerVars, fillVars
<1>2. \A t \in blocked : fault[t].page \in Pages
  BY DEF IInv, TypeOK, KernelTypeOK, Event
<1>3. \A q \in Pages : mem'[q] # "none" => mem[q] # "none" /\ (q \in wp => q \in wp')
  <2>1. CASE EvictGet(v)
    BY <2>1 DEF EvictGet, enable_write_protect
  <2>2. CASE EvictMadvise(v)
    BY <2>2 DEF EvictMadvise, IInv, TypeOK, KernelTypeOK
  <2> QED
    BY <2>1, <2>2
<1>4. BlockedInv'
  BY <1>1, <1>2, <1>3 DEF BlockedInv
<1>5. NoForgottenFault'
  BY <1>1, SMT DEF NoForgottenFault
<1> QED
  BY <1>4, <1>5

LEMMA EvictMarkFreeFault ==
  ASSUME IInv, FaultInv, NEW v \in Evictors, EvictMarkFree(v)
  PROVE  FaultInv'
<1>1. PICK pd \in PDs : pd = evictor_work[v].page_desc /\ state[pd] = "LEAVING"
  BY Places DEF EvictMarkFree
<1>2. /\ UNCHANGED <<mem, wp, fault, blocked, unread, batch, fill_queue, filler_pc, filler_pd>>
      /\ page' = [page EXCEPT ![pd] = NoPage]
  BY <1>1 DEF EvictMarkFree, mark_page_as_free, kernelVars, handlerVars, fillVars
<1>3. \A d \in PDs \ {pd} : page'[d] = page[d]
  BY <1>2 DEF IInv, TypeOK, DescriptorTypeOK
<1>4. \A p \in Pages : Awaited(p) => Awaited(p)'
  <2> SUFFICES ASSUME NEW p \in Pages, Awaited(p) PROVE Awaited(p)'
    OBVIOUS
  <2>1. PICK d \in PDs :
          /\ page[d] = p
          /\ d \in Range(fill_queue) \/ \E f \in Fillers : filler_pc[f] = "copy" /\ filler_pd[f] = d
    BY DEF Awaited
  <2>2. state[d] \in {"FILLING", "UPDATING"}
    BY <2>1, Places
  <2>3. page'[d] = p
    BY <1>1, <1>3, <2>1, <2>2
  <2> QED
    BY <1>2, <2>1, <2>3 DEF Awaited
<1> QED
  BY <1>2, <1>4, FaultFrame, QueuedFrame
=============================================================================
