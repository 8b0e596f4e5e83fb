------------------------------ MODULE UnmapCall ------------------------------
(***************************************************************************)
(* uunmap: RegionManager::removeRegion, with Uffd::unregister_region,      *)
(* Buffer::evict_region and EvictManager::EvictAll, and after the last     *)
(* region the end of the engine; and the addRegion of a further region.    *)
(***************************************************************************)
EXTENDS Calls

set_state_leaving(pd) ==
  /\ DieUnless(state[pd] = "PRESENT", "set_state_leaving")
  /\ state' = [state EXCEPT ![pd] = "LEAVING"]

\* The caller is at the loop test of wait_for_page_state in step s.
Awake(s) == call = s /\ Caller \notin asleep_state

\* It sleeps, for the first time or again.
SleepIn(s) == call' = s /\ BeginStateWait(Caller)

\* A handler has the region of an event for p and is not done with it.
HandlerHas(p) == \E h \in looked_up, e \in Event : FirstEvent(h, e) /\ e.page = p

removeRegion(r) ==
  /\ Alive
  /\ "uunmap" \in Called
  /\ call = "idle" /\ calls < MaxCalls /\ r \in regions
  /\ \A t \in Apps : fault[t] # NoFault => RegionOf[fault[t].page] # r
  /\ PinHoldsBuffer => \E p \in DOMAIN pin_left : RegionOf[p] # r
  /\ target' = r /\ calls' = calls + 1
  /\ overtaken' = overtaken \cup {p \in Pages : RegionOf[p] = r /\ HandlerHas(p)}
  /\ call' = IF regions = {r} THEN "oldest" ELSE "region_lock"
  /\ UNCHANGED <<vars, regions, looked_up, call_pd, flush_pos, must, pinVars>>

\* addRegion, while the engine runs: memory that was not touched yet.
addRegion(r) ==
  /\ Alive
  /\ "umap" \in Called
  /\ call = "idle" /\ calls < MaxCalls /\ regions # {} /\ r \notin regions
  /\ regions' = regions \cup {r} /\ calls' = calls + 1
  /\ mem' = [p \in Pages |-> IF RegionOf[p] = r THEN "none" ELSE mem[p]]
  /\ wp' = {p \in wp : RegionOf[p] # r}
  /\ pinned' = {p \in pinned : RegionOf[p] # r}
  /\ UNCHANGED <<store_fresh, fault, blocked, unread, listVars, waitVars, pdVars, handlerVars,
                 fillVars, mgr_work, mgrVars, evictVars, aborted, looked_up, call, target,
                 overtaken, call_pd, flush_pos, must, pin_pc, pin_left>>

-----------------------------------------------------------------------------
(* Buffer::evict_region while there are other regions *)

Mine == {d \in active_pages : RegionOf[page[d]] = target}

\* What the steps of the caller that change Buffer leave alone.
restVars == <<kernelVars, handlerVars, fillVars, mgr_work, mgrVars, evictor_pc, evictor_work,
              regions, looked_up, target, overtaken, flush_pos, must, calls, pinVars>>

schedule_eviction(pd) == evict_queue' = Append(evict_queue, EvictItem(pd))

RegionDone ==
  /\ Alive /\ ~PinHoldsBuffer
  /\ call \in {"region_lock", "region"} /\ Mine = {}
  /\ call' = "unregister"
  /\ UNCHANGED <<vars, regions, looked_up, target, overtaken, call_pd, flush_pos, must, calls,
                 pinVars>>

Deferred(pd) == [deferred EXCEPT ![pd] = state[pd] # "LEAVING"]

\* get_next_page_descriptor, and the wait that its state calls for.
RegionNext ==
  /\ Alive /\ ~PinHoldsBuffer
  /\ call \in {"region_lock", "region"}
  /\ \E pd \in Mine :
       /\ erase_page_descriptor(pd)
       /\ deferred' = Deferred(pd)
       /\ call_pd' = pd
       /\ \/ /\ state[pd] = "PRESENT"
             /\ set_state_leaving(pd) /\ schedule_eviction(pd) /\ SleepIn("region_free")
          \/ /\ state[pd] = "LEAVING"
             /\ SleepIn("region_free") /\ UNCHANGED <<state, evict_queue, aborted>>
          \/ /\ state[pd] \in {"FILLING", "UPDATING"}
             /\ SleepIn("region_present") /\ UNCHANGED <<state, evict_queue, aborted>>
  /\ UNCHANGED <<m_present_pages, m_free_pages, m_busy_pages, m_waits_for_avail_pd,
                 asleep_avail, page, dirty, data_present, restVars>>

RegionPresent ==
  /\ Alive /\ ~PinHoldsBuffer
  /\ Awake("region_present")
  /\ \/ /\ state[call_pd] = "PRESENT"
        /\ set_state_leaving(call_pd) /\ schedule_eviction(call_pd) /\ SleepIn("region_free")
     \/ /\ state[call_pd] # "PRESENT"
        /\ SleepIn("region_present") /\ UNCHANGED <<state, evict_queue, aborted>>
  /\ UNCHANGED <<listVars, m_waits_for_avail_pd, asleep_avail, page, dirty, deferred,
                 data_present, call_pd, restVars>>

RegionFree ==
  /\ Alive /\ ~PinHoldsBuffer
  /\ Awake("region_free")
  /\ \/ /\ state[call_pd] = "FREE"
        /\ call' = "region" /\ EndStateWait(Caller) /\ UNCHANGED asleep_state
     \/ state[call_pd] # "FREE" /\ SleepIn("region_free")
  /\ UNCHANGED <<listVars, m_waits_for_avail_pd, asleep_avail, pdVars, evict_queue, aborted,
                 call_pd, restVars>>

-----------------------------------------------------------------------------
(* EvictManager::EvictAll, and Buffer::evict_oldest_page that it calls *)

Back == m_busy_pages[Len(m_busy_pages)]

\* pop_back, of whatever is at the back.
pop_back ==
  m_busy_pages' = IF m_busy_pages = <<>> THEN <<>>
                  ELSE SubSeq(m_busy_pages, 1, Len(m_busy_pages) - 1)

\* Mutant: the descriptor is left on the busy list.
NoPop(pd) ==
  /\ UNCHANGED m_busy_pages
  /\ set_state_leaving(pd)
  /\ call' = "oldest_out" /\ call_pd' = pd

\* evict_oldest_page returns pd.
TakeOldest(pd) ==
  /\ pop_back
  /\ set_state_leaving(pd)
  /\ call' = "oldest_out" /\ call_pd' = pd

NoneLeft ==
  /\ Alive /\ ~PinHoldsBuffer
  /\ call \in {"oldest", "oldest_held"} /\ m_busy_pages = <<>>
  /\ call' = "all_idle"
  /\ UNCHANGED <<vars, regions, looked_up, target, overtaken, call_pd, flush_pos, must, calls,
                 pinVars>>

\* A deferred descriptor at the back is released once it is FREE.
ReleaseDeferred(pd) ==
  /\ pop_back
  /\ release_page_descriptor(pd)
  /\ call' = "oldest_held"

OldestDeferred ==
  /\ Alive /\ ~PinHoldsBuffer
  /\ \/ call \in {"oldest", "oldest_held"} /\ m_busy_pages # <<>> /\ deferred[Back]
        /\ call_pd' = Back
     \/ Awake("oldest_free") /\ call_pd' = call_pd
  /\ \/ /\ state[call_pd'] = "FREE"
        /\ ReleaseDeferred(call_pd') /\ EndStateWait(Caller) /\ UNCHANGED asleep_state
     \/ /\ state[call_pd'] # "FREE"
        /\ SleepIn("oldest_free") /\ UNCHANGED <<m_busy_pages, m_free_pages, asleep_avail>>
  /\ UNCHANGED <<m_present_pages, active_pages, m_waits_for_avail_pd, pdVars, evict_queue,
                 aborted, restVars>>

OldestNormal ==
  /\ Alive /\ ~PinHoldsBuffer
  /\ \/ call \in {"oldest", "oldest_held"} /\ m_busy_pages # <<>> /\ ~deferred[Back]
        /\ call_pd' = Back
     \/ Awake("oldest_present") /\ call_pd' = call_pd
  /\ \/ /\ state[call_pd'] = "PRESENT"
        /\ TakeOldest(call_pd') /\ EndStateWait(Caller) /\ UNCHANGED asleep_state
     \/ /\ state[call_pd'] # "PRESENT"
        /\ SleepIn("oldest_present") /\ UNCHANGED <<m_busy_pages, state, aborted>>
  /\ UNCHANGED <<m_present_pages, m_free_pages, active_pages, m_waits_for_avail_pd,
                 asleep_avail, page, dirty, deferred, data_present, evict_queue, restVars>>

\* EvictAll sends a dirty page to the evict workers and frees a clean one itself.
EvictTaken ==
  /\ Alive /\ ~PinHoldsBuffer
  /\ call = "oldest_out"
  /\ \/ /\ dirty[call_pd]
        /\ evict_queue' = Append(evict_queue, [page_desc |-> call_pd, type |-> "FAST_EVICT"])
        /\ UNCHANGED <<listVars, asleep_avail, asleep_state, state, page, aborted>>
     \/ /\ ~dirty[call_pd]
        /\ mark_page_as_free(call_pd) /\ UNCHANGED <<m_busy_pages, evict_queue>>
  /\ call' = "oldest" /\ call_pd' = NoPD
  /\ UNCHANGED <<m_waits_for_avail_pd, m_waits_for_state_change, dirty, deferred, data_present,
                 restVars>>

\* Mutant: EvictAll does not wait for the evict workers.
AllIdleAtOnce ==
  /\ Alive
  /\ call = "all_idle"
  /\ call' = IF target \in regions THEN "unregister" ELSE "stop_mgr"
  /\ UNCHANGED <<vars, regions, looked_up, target, overtaken, call_pd, flush_pos, must, calls,
                 pinVars>>

\* EvictAll is called once for the region and once more by ~EvictManager.
AllIdle ==
  /\ Alive
  /\ call = "all_idle" /\ EvictorsIdle
  /\ call' = IF target \in regions THEN "unregister" ELSE "stop_mgr"
  /\ UNCHANGED <<vars, regions, looked_up, target, overtaken, call_pd, flush_pos, must, calls,
                 pinVars>>

-----------------------------------------------------------------------------
(* The rest of removeRegion *)

Unregister ==
  /\ Alive
  /\ call = "unregister"
  /\ regions' = regions \ {target}
  /\ call' = IF regions' = {} THEN "oldest" ELSE "idle"
  /\ call_pd' = NoPD
  /\ UNCHANGED <<vars, looked_up, target, overtaken, flush_pos, must, calls, pinVars>>

Drained(s) ==
  CASE s = "stop_mgr" -> mgr_pc = "get" /\ mgr_work = 0
    [] s = "stop_evict" -> EvictorsIdle
    [] s = "stop_fill" -> fill_queue = <<>> /\ \A f \in Fillers : filler_pc[f] = "get"
    [] s = "stop_uffd" -> pc[UffdThread] = "idle"

\* The pools are stopped one after the other, each when it has done what was sent to
\* it; the Uffd thread when it comes back to poll, which must find the pipe only.
StopPool ==
  /\ Alive
  /\ \E s \in {"stop_mgr", "stop_evict", "stop_fill", "stop_uffd"} :
       /\ call = s /\ Drained(s)
       /\ call' = CASE s = "stop_mgr" -> "stop_evict" [] s = "stop_evict" -> "stop_fill"
                    [] s = "stop_fill" -> "stop_uffd" [] s = "stop_uffd" -> "gone"
       /\ DieUnless(s = "stop_uffd" => unread = {}, "poll")
  /\ UNCHANGED <<kernelVars, listVars, waitVars, pdVars, handlerVars, fillVars, mgr_work,
                 mgrVars, evictVars, regions, looked_up, target, overtaken, call_pd, flush_pos,
                 must, calls, pinVars>>

UnmapStep ==
  \/ \E r \in Regions : removeRegion(r) \/ addRegion(r)
  \/ RegionDone \/ RegionNext \/ RegionPresent \/ RegionFree
  \/ NoneLeft \/ OldestDeferred \/ OldestNormal \/ EvictTaken \/ AllIdle
  \/ Unregister \/ StopPool
=============================================================================
