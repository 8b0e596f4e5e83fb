-------------------------------- MODULE Calls --------------------------------
(***************************************************************************)
(* The engine while the application also calls umap_flush, uunmap and      *)
(* umap: the state of such a call, and the steps of Paging as they run     *)
(* beside it.  RegionManager::m_mutex is held from the first step of a     *)
(* call to its last, so there is one call at a time.  Another thread may   *)
(* call umap_fetch_and_pin, which holds Buffer::m_mutex throughout.        *)
(* FlushCall, UnmapCall and PinCall give the steps of the calls.           *)
(***************************************************************************)
EXTENDS Paging

CONSTANTS Regions,      \* what may be mapped
          RegionOf,     \* page -> region
          Caller,       \* the application thread that makes the calls
          MaxCalls,     \* bound: calls that are made
          Called,       \* the calls it makes, among "flush", "uunmap" and "umap"
          PinRanges,    \* the sets of pages umap_fetch_and_pin may be called for
          PinFirst,     \* are such pages pinned before they are touched or prefetched?
          Prefetched    \* the pages umap_prefetch may be called for

ASSUME CallsAssumption ==
  /\ Regions # {} /\ RegionOf \in [Pages -> Regions]
  /\ Caller \notin Handlers \cup {Leaked}
  /\ MaxCalls \in Nat /\ Called \subseteq {"flush", "uunmap", "umap"}
  /\ PinRanges \subseteq SUBSET Pages /\ PinFirst \in BOOLEAN
  /\ Prefetched \subseteq Pages

VARIABLES
  regions,    \* m_active_regions
  looked_up,  \* handlers that have the region of their event, from containing_region
  call,       \* how far the call is
  target,     \* the region that uunmap was called for
  overtaken,  \* pages of events that had their region when its uunmap began
  call_pd,    \* local pd of the call
  flush_pos,  \* where in m_busy_pages the iterator of flush_dirty_pages is, or Nowhere
  must,       \* pages written before the flush, and not since
  calls,
  pin_pc,     \* another thread: how far its umap_fetch_and_pin is
  pin_left,   \* page still to be copied in -> what was read for it, or "unread"
  pinned      \* pages that fetch_and_pin has copied in

pinVars == <<pin_pc, pin_left, pinned>>
callVars == <<regions, looked_up, call, target, overtaken, call_pd, flush_pos, must, calls,
              pinVars>>
allVars == <<vars, callVars>>

FlushSteps == {"flush", "flush_wait", "flush_idle"}
UnmapSteps == {"region_lock", "region", "region_present", "region_free",
               "oldest", "oldest_held", "oldest_free", "oldest_present", "oldest_out",
               "all_idle", "unregister", "stop_mgr", "stop_evict", "stop_fill", "stop_uffd"}

CallsTypeOK ==
  /\ KernelTypeOK /\ DescriptorTypeOK /\ WorkerTypeOK
  /\ regions \subseteq Regions /\ looked_up \subseteq Handlers
  /\ call \in {"idle", "gone"} \cup FlushSteps \cup UnmapSteps
  /\ target \in Regions /\ overtaken \subseteq Pages
  /\ call_pd \in PDs \cup {NoPD}
  /\ flush_pos \in 0..(Cardinality(PDs) + 1)
  /\ must \subseteq Pages
  /\ calls \in 0..MaxCalls
  /\ pin_pc \in {"idle", "locked", "copy"} /\ pinned \subseteq Pages
  /\ DOMAIN pin_left \subseteq Pages /\ Range(pin_left) \subseteq {"unread", "fresh", "stale"}

CallsInit ==
  /\ Init
  /\ regions = Regions /\ looked_up = {}
  /\ call = "idle" /\ target = (CHOOSE r \in Regions : TRUE) /\ overtaken = {}
  /\ call_pd = NoPD /\ flush_pos = 0
  /\ must = {} /\ calls = 0
  /\ pin_pc = "idle" /\ pin_left = <<>> /\ pinned = {}

\* RegionManager::m_mutex.
RmHeld == call \notin {"idle", "gone"}

\* Buffer::m_mutex, where a call keeps it from one step to the next.
CallHoldsBuffer == call \in {"flush_idle", "region", "oldest_held"}
PinHoldsBuffer == pin_pc # "idle"
BufferHeld == CallHoldsBuffer \/ PinHoldsBuffer

-----------------------------------------------------------------------------
(* The application does not touch a region it is unmapping or has unmapped. *)

PinnedFirst == IF PinFirst THEN UNION PinRanges ELSE {}

Usable(p) ==
  /\ RegionOf[p] \in regions /\ ~(call \in UnmapSteps /\ RegionOf[p] = target)
  /\ p \in PinnedFirst => p \in pinned

\* What was read for p falls behind, and p need not be as it was at the flush.
Written(p) ==
  /\ must' = must \ {p}
  /\ pin_left' = [q \in DOMAIN pin_left |->
                   IF q = p /\ pin_left[q] = "fresh" THEN "stale" ELSE pin_left[q]]

CallAppWrite(t, p) ==
  /\ Usable(p)
  /\ AppWrite(t, p)
  /\ Written(p)
  /\ UNCHANGED <<regions, looked_up, call, target, overtaken, call_pd, flush_pos, calls,
                 pin_pc, pinned>>

CallAppFault(t, e) == Usable(e.page) /\ AppFault(t, e) /\ UNCHANGED callVars

CallAppRetry(t) ==
  /\ AppRetry(t)
  /\ IF fault[t].write THEN Written(fault[t].page) ELSE UNCHANGED <<must, pin_left>>
  /\ UNCHANGED <<regions, looked_up, call, target, overtaken, call_pd, flush_pos, calls,
                 pin_pc, pinned>>

CallAppStep(t) ==
  \/ \E p \in {e.page : e \in {a \in Accesses : a.write}} : CallAppWrite(t, p)
  \/ \E e \in Accesses : CallAppFault(t, e)
  \/ CallAppRetry(t)

-----------------------------------------------------------------------------
(* Uffd::process_page: look the region up, then process the event with it. *)

\* Mutant: the region is looked up without the mutex.
LookupUnlocked(h, e) ==
  /\ Alive
  /\ pc[h] = "event" /\ FirstEvent(h, e) /\ h \notin looked_up
  /\ RegionOf[e.page] \in regions
  /\ looked_up' = looked_up \cup {h}
  /\ UNCHANGED <<vars, regions, call, target, overtaken, call_pd, flush_pos, must, calls,
                 pinVars>>

\* containing_region takes RegionManager::m_mutex.
FindRegion(h, e) ==
  /\ Alive
  /\ ~RmHeld
  /\ pc[h] = "event" /\ FirstEvent(h, e) /\ h \notin looked_up
  /\ RegionOf[e.page] \in regions
  /\ looked_up' = looked_up \cup {h}
  /\ UNCHANGED <<vars, regions, call, target, overtaken, call_pd, flush_pos, must, calls,
                 pinVars>>

\* The address is in no region any more: the event is ignored.
IgnoreEvent(h, e) ==
  /\ Alive
  /\ ~RmHeld
  /\ pc[h] = "event" /\ FirstEvent(h, e) /\ h \notin looked_up
  /\ RegionOf[e.page] \notin regions
  /\ EventDone(h, e)
  /\ UNCHANGED <<kernelVars, listVars, waitVars, pdVars, fillVars, mgr_work, mgrVars, evictVars,
                 aborted, callVars>>

\* A step A of process_page_event by handler h.
ByHandler(h, A) ==
  /\ ~BufferHeld
  /\ h \in looked_up
  /\ A
  /\ looked_up' = IF batch'[h] = batch[h] THEN looked_up ELSE looked_up \ {h}
  /\ UNCHANGED <<regions, call, target, overtaken, call_pd, must, calls, pinVars>>

\* No element of the list: an iterator that was invalidated.
Nowhere == 0

\* m_busy_pages is a deque, and push_front invalidates the iterator that a flush keeps
\* over its wait.  As long as the deque has room in its map of blocks the iterator still
\* finds its way; when the map is moved it does not.
CallBringIn(h, e) ==
  /\ ByHandler(h, BringIn(h, e))
  /\ flush_pos' \in IF call = "flush_wait" /\ flush_pos # Nowhere THEN {flush_pos + 1, Nowhere}
                                                                  ELSE {flush_pos}

CallPageEvent(h) ==
  \E e \in Event :
    \/ FindRegion(h, e)
    \/ IgnoreEvent(h, e)
    \/ ByHandler(h, WaitForState(h, e)) /\ UNCHANGED flush_pos
    \/ ByHandler(h, SpuriousEvent(h, e)) /\ UNCHANGED flush_pos
    \/ ByHandler(h, UpdatePage(h, e)) /\ UNCHANGED flush_pos
    \/ ByHandler(h, WaitForDescriptor(h, e)) /\ UNCHANGED flush_pos
    \/ CallBringIn(h, e)

CallPrefetch(h, p) ==
  /\ p \in PinnedFirst => p \in pinned
  /\ Prefetch(h, p)
  /\ calls < MaxCalls /\ calls' = calls + 1
  /\ UNCHANGED <<regions, looked_up, call, target, overtaken, call_pd, flush_pos, must,
                 pinVars>>

\* removeRegion deletes a region's descriptor whoever still has it: a handler that
\* looked it up before, or a worker with a page that such a handler brought in.  What
\* comes of using it then is not defined: it works as before, or it ends the process.
UseDeletedRegion ==
  /\ Alive
  /\ \/ \E h \in looked_up, e \in Event : WantsDescriptor(h, e) /\ RegionOf[e.page] \notin regions
     \/ \E d \in FillerHas \cup EvictorHas : page[d] \in Pages /\ RegionOf[page[d]] \notin regions
  /\ DieUnless(FALSE, "RegionDescriptor")
  /\ UNCHANGED <<kernelVars, listVars, waitVars, pdVars, handlerVars, fillVars, mgr_work,
                 mgrVars, evictVars, callVars>>

-----------------------------------------------------------------------------
(* The other threads, which need Buffer::m_mutex in some of their steps. *)

CallFillWorker(f) ==
  \/ FillUnprotect(f) /\ UNCHANGED callVars
  \/ FillRead(f) /\ UNCHANGED callVars
  \/ FillCopy(f) /\ UNCHANGED callVars
  \/ FillMarkPresent(f) /\ ~BufferHeld /\ UNCHANGED callVars

\* evict_oldest_pages pops the list down to the last page it picks: so does an element
\* go, its place to be taken by another or not, on which a flush has its iterator.
CallMgrEvict ==
  /\ MgrEvict /\ ~BufferHeld
  /\ LET popped == \E k \in 1..flush_pos, m \in DOMAIN mgr_list' :
                     mgr_list'[m] = m_busy_pages[k]
     IN flush_pos' \in IF call = "flush_wait" /\ popped THEN {flush_pos, Nowhere} ELSE {flush_pos}
  /\ UNCHANGED <<regions, looked_up, call, target, overtaken, call_pd, must, calls, pinVars>>

CallEvictMgr ==
  \/ MgrGet /\ UNCHANGED callVars
  \/ MgrCheck /\ UNCHANGED callVars
  \/ CallMgrEvict
  \/ MgrSend /\ UNCHANGED callVars

CallEvictWorker(v) ==
  \/ EvictGet(v) /\ UNCHANGED callVars
  \/ EvictWrite(v) /\ UNCHANGED callVars
  \/ EvictMadvise(v) /\ UNCHANGED callVars
  \/ EvictMarkFree(v) /\ ~BufferHeld /\ UNCHANGED callVars

EngineStep ==
  \/ \E t \in Apps : CallAppStep(t)
  \/ UffdRead /\ UNCHANGED callVars
  \/ \E h \in Prefetchers, p \in Prefetched : CallPrefetch(h, p)
  \/ \E h \in Handlers : CallPageEvent(h)
  \/ UseDeletedRegion
  \/ \E h \in Handlers \cup {Caller} : SpuriousWake(h) /\ UNCHANGED callVars
  \/ \E f \in Fillers : CallFillWorker(f)
  \/ CallEvictMgr
  \/ \E v \in Evictors : CallEvictWorker(v)

\* WorkQueue::wait_for_idle, and a drained pool, of the evict workers.
EvictorsIdle == evict_queue = <<>> /\ \A v \in Evictors : evictor_pc[v] = "get"
=============================================================================
