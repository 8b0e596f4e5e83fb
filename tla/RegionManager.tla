---------------------------- MODULE RegionManager ----------------------------
(***************************************************************************)
(* The engine together with the calls that RegionManager serializes, and   *)
(* what the calls promise to the application.                              *)
(***************************************************************************)
EXTENDS FlushCall, UnmapCall, PinCall

\* A process that has died, or whose last region is gone, stays so.
Ended == (~Alive \/ call = "gone") /\ UNCHANGED allVars

CallStep == FlushStep \/ UnmapStep

CallsNext == EngineStep \/ CallStep \/ PinStep \/ Ended

CallsSpec == CallsInit /\ [][CallsNext]_allVars

\* As in Paging; and a call goes on when it can.  No call need be made.
CallsFairness ==
  /\ \A t \in Apps : WF_allVars(fault[t] # NoFault /\ CallAppStep(t))
  /\ WF_allVars(UffdRead /\ UNCHANGED callVars)
  /\ \A h \in Handlers : WF_allVars(CallPageEvent(h))
  /\ \A f \in Fillers : WF_allVars(CallFillWorker(f))
  /\ WF_allVars(CallEvictMgr)
  /\ \A v \in Evictors : WF_allVars(CallEvictWorker(v))
  /\ WF_allVars(RmHeld /\ CallStep)
  /\ WF_allVars(PinHoldsBuffer /\ PinStep)

CallsFairSpec == CallsSpec /\ CallsFairness

-----------------------------------------------------------------------------
\* What was written before umap_flush was called, and not since, is in the Store
\* when the call returns.  A call that goes on with an invalidated iterator does not
\* return here: nothing is said of it.
FlushDurable ==
  [][(call \in FlushSteps /\ call' = "idle") => (must \subseteq store_fresh)]_allVars

\* When evict_region is done with a region, everything that was written to it is
\* in the Store, and no page of it is in the Buffer.
UnmapDurable ==
  call = "unregister" =>
    \A p \in Pages : RegionOf[p] = target => p \in store_fresh /\ m_present_pages[p] = NoPD

\* The region of p was unmapped; the last one has gone when the engine has ended.
Unmapped(p) == RegionOf[p] \notin regions /\ (regions # {} \/ call = "gone")

\* p is not in the Buffer, and no descriptor is for it.
Gone(p) == m_present_pages[p] = NoPD /\ \A d \in PDs : page[d] # p

\* Nothing is left of a region that was unmapped, no page in the Buffer and no descriptor
\* for one, but for pages of events that uunmap overtook: containing_region gave out the
\* region before.  An event that is read before and looked up after brings nothing in.
\* With the last region this is so when the engine has ended, where ~Buffer checks it
\* ("Pages are still present").
UnmappedIsGone == \A p \in Pages \ overtaken : Unmapped(p) => Gone(p)

\* The same for every page.  Does not hold: an event that uunmap overtook brings its page back.
NothingComesBack == \A p \in Pages : Unmapped(p) => Gone(p)

\* What the application wrote last to a mapped region is never lost or hidden.
MappedCoherent ==
  \A p \in Pages : RegionOf[p] \in regions =>
    mem[p] # "stale" /\ (p \notin store_fresh => mem[p] = "fresh")

\* Each descriptor is in one place: on the free list, or on the busy list, or on its
\* way out; one that evict_region deferred stays on the busy list until it is
\* released, whatever its state.
OnePlace ==
  /\ CallsTypeOK
  /\ IsInjective(m_free_pages) /\ IsInjective(m_busy_pages)
  /\ Range(m_free_pages) \cap Range(m_busy_pages) = {}
  /\ \A d \in PDs :
       /\ d \in Range(m_free_pages) => state[d] = "FREE"
       /\ d \in Range(m_busy_pages) => deferred[d] \/ state[d] \in {"FILLING", "PRESENT", "UPDATING"}
       /\ d \notin Range(m_free_pages) \cup Range(m_busy_pages) => state[d] = "LEAVING"

\* evict_oldest_page takes the descriptor it returns off the busy list.  Does not hold
\* beside the evict manager, which changes the list while the caller waits.
TakenIsOffList == call = "oldest_out" => call_pd \notin Range(m_busy_pages)

\* flush_dirty_pages is left with an iterator on no element.
IteratorLost == call = "flush_wait" /\ flush_pos = Nowhere

\* A umap_flush or uunmap returns, unless the process dies or it is a flush whose iterator
\* is invalidated.
CallReturns == RmHeld ~> ~RmHeld \/ IteratorLost \/ ~Alive

\* A thread that faulted completes its access beside the calls, unless a flush lost its
\* iterator: nothing else ends the process.
AccessReturns == \A t \in Apps : fault[t] # NoFault ~> fault[t] = NoFault \/ IteratorLost

\* The process ends in no other way than by a flush that goes on with such an iterator.
EndsOnlyLost == Alive \/ IteratorLost

\* When the engine is ended, the Uffd thread leaves, unless the process dies.  Does not
\* hold when it has read an event: it needs the mutex of removeRegion, which joins it.
UffdThreadLeaves == call = "stop_uffd" ~> call = "gone" \/ ~Alive

\* A descriptor that was deferred comes back to the free list.  Does not hold: the evict
\* manager passes over deferred descriptors.
DeferredReturns ==
  \A d \in PDs : deferred[d] /\ state[d] = "FREE" ~> d \in Range(m_free_pages) \/ ~Alive

\* What was pinned stays in memory, and writable, while its region is mapped, and no
\* eviction can pick it: it has no descriptor, or the one that umap_prefetch made for it,
\* which is never filled because UFFDIO_COPY finds the page in memory and ends the process.
PinnedStays ==
  \A p \in pinned : RegionOf[p] \in regions /\ Alive =>
    /\ mem[p] # "none" /\ p \notin wp
    /\ m_present_pages[p] # NoPD => state[m_present_pages[p]] = "FILLING"
=============================================================================
