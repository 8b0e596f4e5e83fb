------------------------------- MODULE Paging -------------------------------
(***************************************************************************)
(* The paging engine of umap as addRegion starts it: all its threads       *)
(* together, and what they guarantee to the application.                   *)
(***************************************************************************)
EXTENDS FillWorkers, EvictWorkers, EvictManager

Step ==
  \/ \E t \in Apps : AppStep(t)
  \/ UffdRead
  \/ \E h \in Prefetchers, p \in Pages : Prefetch(h, p)
  \/ \E h \in Handlers : ProcessPageEvent(h) \/ SpuriousWake(h)
  \/ \E f \in Fillers : FillWorker(f)
  \/ EvictMgr
  \/ \E v \in Evictors : EvictWorker(v)

\* A process that has died stays dead.
Dead == ~Alive /\ UNCHANGED vars

Next == Step \/ Dead

Spec == Init /\ [][Next]_vars

\* Every thread that can take a step eventually does: the mutex and the queues
\* are handed on fairly, Store accesses and ioctls return, and a thread woken by
\* the kernel is scheduled.  The application need not touch anything.
Fairness ==
  /\ \A t \in Apps : WF_vars(fault[t] # NoFault /\ AppStep(t))
  /\ WF_vars(UffdRead)
  /\ \A h \in Handlers : WF_vars(ProcessPageEvent(h))
  /\ \A f \in Fillers : WF_vars(FillWorker(f))
  /\ WF_vars(EvictMgr)
  /\ \A v \in Evictors : WF_vars(EvictWorker(v))

FairSpec == Spec /\ Fairness

-----------------------------------------------------------------------------
(* Safety *)

InState(S) == {d \in PDs : state[d] \in S}

\* What the fill workers have, and what the evict workers have.
FillerHas == {filler_pd[f] : f \in {g \in Fillers : filler_pc[g] # "get"}}
EvictQueued == {work.page_desc : work \in Range(evict_queue)}
EvictorHas == {evictor_work[v].page_desc : v \in {u \in Evictors : evictor_pc[u] # "get"}}

FreeOwned ==
  IsInjective(m_free_pages) /\ Range(m_free_pages) = InState({"FREE"})

BusyOwned ==
  IsInjective(m_busy_pages) /\ Range(m_busy_pages) = InState({"FILLING", "PRESENT", "UPDATING"})

FillOwned ==
  /\ IsInjective(fill_queue)
  /\ Range(fill_queue) \cap FillerHas = {}
  /\ \A f, g \in Fillers :
       filler_pc[f] # "get" /\ filler_pc[g] # "get" /\ filler_pd[f] = filler_pd[g] => f = g
  /\ Range(fill_queue) \cup FillerHas = InState({"FILLING", "UPDATING"})

LeavingOwned ==
  /\ IsInjective(mgr_list) /\ IsInjective(evict_queue)
  /\ \A w1, w2 \in Range(evict_queue) : w1.page_desc = w2.page_desc => w1 = w2
  /\ \A u, v \in Evictors :
       /\ evictor_pc[u] # "get" /\ evictor_pc[v] # "get"
       /\ evictor_work[u].page_desc = evictor_work[v].page_desc
       => u = v
  /\ Range(mgr_list) \cap (EvictQueued \cup EvictorHas) = {}
  /\ EvictQueued \cap EvictorHas = {}
  /\ Range(mgr_list) \cup EvictQueued \cup EvictorHas = InState({"LEAVING"})

\* Every descriptor has exactly one owner, and the owner goes with its state: a
\* FREE one is on the free list once; one that is FILLING, PRESENT or UPDATING
\* is on the busy list once, and with the fill workers once unless PRESENT; a
\* LEAVING one is off the busy list and with the eviction pipeline once.
OneOwner == FreeOwned /\ BusyOwned /\ FillOwned /\ LeavingOwned

\* m_present_pages, the page fields of the descriptors and the region's set of
\* active descriptors agree: a page in the Buffer has one descriptor.
OneDescriptorPerPage ==
  /\ active_pages = PDs \ InState({"FREE"})
  /\ \A d \in active_pages : page[d] \in Pages /\ m_present_pages[page[d]] = d
  /\ \A p \in Pages : m_present_pages[p] # NoPD => m_present_pages[p] \in active_pages
                                                   /\ page[m_present_pages[p]] = p

\* What the application wrote last is never lost and never hidden: a page in
\* memory is up to date, and the Store is behind only while memory has the page.
Coherent ==
  /\ \A p \in Pages : mem[p] # "stale"
  /\ \A p \in Pages \ store_fresh : mem[p] = "fresh"

\* No call of the engine meets an impossible state: descriptors change state as
\* set_state_* demand, and UFFDIO_COPY never finds the page in memory.
NoImpossibleState == aborted \subseteq {"evict_oldest_pages"}

\* The process does not die at all: evict_oldest_pages is not called with fewer
\* pages to evict than it insists on.
NeverAborts == Alive

\* The conditional broadcasts lose nobody: a handler asleep on m_state_change_cond
\* waits for a descriptor that is still in transition, and one asleep on
\* m_avail_pd_cond has nothing to take.
NoMissedBroadcast ==
  /\ \A h \in asleep_state : \E e \in batch[h] :
       /\ FirstEvent(h, e)
       /\ m_present_pages[e.page] # NoPD
       /\ state[m_present_pages[e.page]] # "PRESENT"
  /\ asleep_avail # {} => m_free_pages = <<>>

\* No fault is forgotten: while a thread sleeps on a page and its message was
\* read, either an event that covers it is yet to be processed, or a fill worker
\* has yet to do the ioctl that wakes it.  Dropping events as duplicates or as
\* spurious loses nobody.
NoForgottenFault ==
  \A t \in blocked \ unread :
    \/ \E h \in Handlers : \E e \in batch[h] :
         e.page = fault[t].page /\ (fault[t].write => e.write)
    \/ \E d \in PDs :
         /\ page[d] = fault[t].page
         /\ d \in Range(fill_queue) \/ \E f \in Fillers : filler_pc[f] = "copy" /\ filler_pd[f] = d

\* All of this together: the engine loses no descriptor, no page, no event and no waiting
\* thread.
PagingSafe ==
  /\ TypeOK /\ OneOwner /\ OneDescriptorPerPage /\ Coherent
  /\ NoImpossibleState /\ NoMissedBroadcast /\ NoForgottenFault

-----------------------------------------------------------------------------
(* Liveness *)

\* A thread that faulted completes its access.
AccessCompletes == \A t \in Apps : fault[t] # NoFault ~> fault[t] = NoFault

\* Once the high water mark is reached, eviction brings the busy list below it.
EvictionStarts ==
  Len(m_busy_pages) >= m_evict_high_water ~> Len(m_busy_pages) < m_evict_high_water

\* While more than the high water mark of the Buffer is in use, eviction is on.  Does not
\* hold when both water marks are the same number: the kick comes at the mark only.
EvictsAboveHighWater ==
  Len(m_busy_pages) > m_evict_high_water ~> Len(m_busy_pages) <= m_evict_high_water
=============================================================================
