------------------------------ MODULE FlushCall ------------------------------
(***************************************************************************)
(* umap_flush: RegionManager::flush_buffer and Buffer::flush_dirty_pages.  *)
(***************************************************************************)
EXTENDS Calls

FlushItem(pd) == [page_desc |-> pd, type |-> "FLUSH"]
FlushItems(pds) == [i \in DOMAIN pds |-> FlushItem(pds[i])]

flush_buffer ==
  /\ Alive
  /\ "flush" \in Called
  /\ call = "idle" /\ calls < MaxCalls /\ regions # {}
  /\ call' = "flush" /\ calls' = calls + 1
  /\ must' = Pages \ store_fresh
  /\ UNCHANGED <<vars, regions, looked_up, target, overtaken, call_pd, flush_pos, pinVars>>

\* Mutant: a page that is not PRESENT is passed over instead of waited for.
NeverWaited(i) == FALSE

\* The loop has to wait for the page at position i.
MustWait(i) == dirty[m_busy_pages[i]] /\ state[m_busy_pages[i]] # "PRESENT"

\* The positions in I from the front of the list to its back, as the one member of
\* a set.
FrontToBack(I) ==
  {f \in [1..Cardinality(I) -> I] :
     Range(f) = I /\ \A i, j \in DOMAIN f : i < j => f[i] < f[j]}

\* schedule_flush for the pages in pds, and then of the dirty ones from position first
\* of the list up to, and without, position stop.
FlushDirty(pds, first, stop) ==
  \E f \in FrontToBack({i \in first..(stop - 1) : dirty[m_busy_pages[i]]}) :
    evict_queue' = evict_queue \o FlushItems(pds \o Picked(f))

\* wait_for_page_state finds the page PRESENT.
Waited == call = "flush_wait" /\ Caller \notin asleep_state /\ state[call_pd] = "PRESENT"

\* One stretch of the loop over m_busy_pages, up to a page to wait for or to the
\* end, where the mutex is kept.  The wait gives the mutex up: an iterator that
\* then is past the end of the shortened list runs on, which has no defined
\* outcome.
FlushScan ==
  /\ Alive /\ ~PinHoldsBuffer
  /\ call = "flush" \/ (Waited /\ flush_pos # Nowhere)
  /\ LET resumed == call = "flush_wait"
         waited == IF resumed THEN <<call_pd>> ELSE <<>>
         first == IF resumed THEN flush_pos + 1 ELSE 1
         last == Len(m_busy_pages)
         waits == {i \in first..last : MustWait(i)}
     IN /\ DieUnless(first <= last + 1, "flush_dirty_pages")
        /\ \/ \E stop \in waits :
                /\ \A i \in waits : stop <= i
                /\ FlushDirty(waited, first, stop)
                /\ call' = "flush_wait" /\ call_pd' = m_busy_pages[stop] /\ flush_pos' = stop
                /\ BeginStateWait(Caller)
           \/ /\ waits = {}
              /\ FlushDirty(waited, first, last + 1)
              /\ call' = "flush_idle" /\ UNCHANGED <<call_pd, flush_pos, asleep_state>>
              /\ EndStateWait(Caller)
  /\ UNCHANGED <<kernelVars, listVars, m_waits_for_avail_pd, asleep_avail, pdVars, handlerVars,
                 fillVars, mgr_work, mgrVars, evictor_pc, evictor_work, regions, looked_up,
                 target, overtaken, must, calls, pinVars>>

\* The page is sent, and an iterator that is on no element goes on: to an element it has
\* passed or not come to, or out of the list.  This has no defined outcome, and the
\* model ends here.
FlushLost ==
  /\ Alive /\ ~PinHoldsBuffer
  /\ Waited /\ flush_pos = Nowhere
  /\ evict_queue' = evict_queue \o FlushItems(<<call_pd>>)
  /\ DieUnless(FALSE, "flush_dirty_pages")
  /\ UNCHANGED <<kernelVars, listVars, waitVars, pdVars, handlerVars, fillVars, mgr_work,
                 mgrVars, evictor_pc, evictor_work, callVars>>

\* wait_for_page_state looks, and sleeps again.
FlushSleep ==
  /\ Alive /\ ~PinHoldsBuffer
  /\ call = "flush_wait" /\ Caller \notin asleep_state /\ state[call_pd] # "PRESENT"
  /\ BeginStateWait(Caller)
  /\ UNCHANGED <<kernelVars, listVars, m_waits_for_avail_pd, asleep_avail, pdVars, handlerVars,
                 fillVars, mgr_work, mgrVars, evictVars, aborted, callVars>>

\* WaitAll, with the mutex held.
WaitAll ==
  /\ Alive
  /\ call = "flush_idle" /\ EvictorsIdle
  /\ call' = "idle" /\ call_pd' = NoPD /\ flush_pos' = 0 /\ must' = {}
  /\ UNCHANGED <<vars, regions, looked_up, target, overtaken, calls, pinVars>>

FlushStep == flush_buffer \/ FlushScan \/ FlushLost \/ FlushSleep \/ WaitAll
=============================================================================
