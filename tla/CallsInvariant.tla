--------------------------- MODULE CallsInvariant ---------------------------
(***************************************************************************)
(* The inductive invariants of the engine beside the calls that            *)
(* RegionManager serializes.                                               *)
(*                                                                         *)
(* CallsInv holds whatever calls are made.  It has the types of what the   *)
(* threads and the calls hand on, and that pages which are pinned before   *)
(* they are touched, and never prefetched, get no descriptor.  FlushInv    *)
(* goes with it while umap_flush is the only call of RegionManager and     *)
(* nothing is evicted: it says how far the walk of flush_dirty_pages is,   *)
(* and what it relies on in the engine.  LostInv is what is left of it     *)
(* when a flush has gone on with an iterator that push_front invalidated.  *)
(***************************************************************************)
EXTENDS RegionManager, PagingInvariant

(* Any calls *)

\* Where a call has a descriptor.
WithDescriptor == {"flush_wait", "region_present", "region_free", "oldest_free", "oldest_present",
                   "oldest_out"}

\* An item in the hands of a worker has a descriptor, and so has a call that waits for
\* one.  The sets wp and store_fresh are not typed here.
HandsTyped ==
  /\ \A f \in Fillers : filler_pc[f] # "get" => filler_pd[f] \in PDs
  /\ \A v \in Evictors : evictor_pc[v] # "get" => evictor_work[v] \in WorkItem
  /\ mgr_pc = "send" => mgr_list # <<>>
  /\ call \in WithDescriptor => call_pd \in PDs

MemoryTyped ==
  /\ mem \in [Pages -> {"none", "fresh", "stale"}]
  /\ fault \in [Apps -> Event \cup {NoFault}] /\ unread \subseteq blocked
  /\ blocked \subseteq Apps /\ \A t \in blocked : fault[t] \in Event

ListsTyped ==
  /\ m_present_pages \in [Pages -> PDs \cup {NoPD}]
  /\ m_free_pages \in Seq(PDs) /\ m_busy_pages \in Seq(PDs) /\ active_pages \subseteq PDs
  /\ pc \in [Handlers -> {"idle", "event", "wait_state", "wait_avail"}]
  /\ batch \in [Handlers -> SUBSET Event]

CallTyped ==
  /\ regions \subseteq Regions /\ target \in Regions /\ overtaken \subseteq Pages
  /\ call_pd \in PDs \cup {NoPD} /\ flush_pos \in Nat
  /\ pinned \subseteq Pages /\ DOMAIN pin_left \subseteq Pages
  /\ \A p \in DOMAIN pin_left : pin_left[p] \in {"unread", "fresh", "stale"}

\* umap_fetch_and_pin is called for pages before they are touched, and umap_prefetch never.
PinnedApart == PinFirst /\ Prefetched \cap PinnedFirst = {}

\* The engine never has such a page.
PinInv ==
  PinnedApart =>
    /\ pinned \cup DOMAIN pin_left \subseteq PinnedFirst
    /\ \A p \in PinnedFirst :
         /\ p \notin wp /\ m_present_pages[p] = NoPD
         /\ \A d \in PDs : page[d] # p
         /\ \A h \in Handlers : \A e \in batch[h] : e.page # p
         /\ \A t \in Apps : fault[t].page # p
    /\ \A p \in pinned : RegionOf[p] \in regions => mem[p] # "none"

CallsInv ==
  /\ HandsTyped /\ MemoryTyped /\ ListsTyped /\ DescriptorTypeOK /\ WorkerTypeOK /\ CallTyped
  /\ PinInv

-----------------------------------------------------------------------------
(* umap_flush only *)

\* Nobody unmaps or pins, and the evict manager is never needed.
FlushOnly == "uunmap" \notin Called /\ PinRanges = {} /\ Cardinality(Pages) < m_evict_high_water

\* The parts of the system that FlushOnly keeps at rest, and what they would change.
Quiet ==
  /\ Alive /\ regions = Regions /\ call \in {"idle"} \cup FlushSteps
  /\ pin_pc = "idle" /\ DOMAIN pin_left = {} /\ pinned = {}
  /\ mgr_work = 0 /\ mgr_pc = "get" /\ mgr_list = <<>>
  /\ \A d \in PDs : ~deferred[d] /\ state[d] # "LEAVING"
  /\ \A h \in Handlers : pc[h] # "wait_avail"

\* Sets of pages and threads, and the bounds of counters.
SetsTyped ==
  /\ wp \subseteq Pages /\ store_fresh \subseteq Pages /\ must \subseteq Pages
  /\ looked_up \subseteq Handlers /\ calls \in 0..MaxCalls

Owned == FreeOwned /\ BusyOwned /\ FillOwned

\* The items of the evict workers are FLUSH items of different descriptors, each PRESENT
\* and dirty until its page is written back, and protected while it is.
ItemInv ==
  /\ IsInjective(evict_queue)
  /\ \A w \in Range(evict_queue) :
       w.type = "FLUSH" /\ state[w.page_desc] = "PRESENT" /\ dirty[w.page_desc]
  /\ \A v \in Evictors : evictor_pc[v] # "get" =>
       LET w == evictor_work[v]
       IN /\ evictor_pc[v] = "write" /\ w.type = "FLUSH" /\ w \notin Range(evict_queue)
          /\ state[w.page_desc] = "PRESENT" /\ dirty[w.page_desc] /\ page[w.page_desc] \in wp
  /\ \A u, v \in Evictors :
       evictor_pc[u] # "get" /\ evictor_pc[v] # "get" /\ evictor_work[u] = evictor_work[v] => u = v

\* What the state of a descriptor says of its page.
StateInv ==
  \A d \in PDs :
    /\ state[d] # "FREE" => (Resident(d) <=> data_present[d])
    /\ state[d] \in {"PRESENT", "UPDATING"} => data_present[d]
    /\ state[d] = "UPDATING" => dirty[d]
    /\ d \in Range(fill_queue) /\ state[d] = "FILLING" => ~data_present[d]

PagesInv == StateInv /\ FillerInv /\ CleanInv /\ AbsentInv /\ Coherent

\* Descriptors that were sent to the evict workers and are not written back yet.
Sent == EvictQueued \cup EvictorHas

\* How far the walk over m_busy_pages is: what was sent is before the iterator, and a page
\* that has to be written back was sent or is still ahead.  Of an iterator that is on no
\* element nothing is known.
WalkInv ==
  /\ flush_pos <= Len(m_busy_pages)
  /\ call \in {"idle", "flush"} => EvictorsIdle
  /\ call = "flush_wait" /\ flush_pos # Nowhere =>
       /\ flush_pos \in DOMAIN m_busy_pages /\ m_busy_pages[flush_pos] = call_pd /\ dirty[call_pd]
       /\ \A i \in DOMAIN m_busy_pages : m_busy_pages[i] \in Sent => i < flush_pos
       /\ \A p \in must \ store_fresh :
            \/ m_present_pages[p] \in Sent
            \/ \E i \in DOMAIN m_busy_pages : flush_pos <= i /\ m_busy_pages[i] = m_present_pages[p]
  /\ call = "flush_idle" => \A p \in must \ store_fresh : m_present_pages[p] \in Sent

FlushInv ==
  Quiet /\ SetsTyped /\ Owned /\ OneDescriptorPerPage /\ ItemInv /\ PagesInv /\ WalkInv

\* A flush has gone on with an iterator on no element, which ends the model.
LostInv ==
  /\ aborted = {"flush_dirty_pages"} /\ IteratorLost
  /\ SetsTyped /\ FreeOwned /\ BusyOwned /\ Coherent /\ pin_pc = "idle"

-----------------------------------------------------------------------------
(* What is counted *)

\* Sets of positions of the busy list are finite.
Counted == \A I \in SUBSET (1..Len(m_busy_pages)) : Cardinality(I) \in Nat

\* There is a descriptor for one more page, and the manager is not woken for it.
Room ==
  /\ m_free_pages # <<>> /\ Len(m_busy_pages) # m_evict_high_water
  /\ \A p \in Pages : m_present_pages[p] = NoPD => Len(m_busy_pages) + 1 # m_evict_high_water
=============================================================================
