------------------------------- MODULE Buffer -------------------------------
(***************************************************************************)
(* The Buffer of page descriptors: what process_page_event does with a     *)
(* page event, and the operations that the fill workers, the evict workers *)
(* and the evict manager call.                                             *)
(*                                                                         *)
(* The deque m_busy_pages is a sequence with its front first; counters of  *)
(* waiting threads are the sets of threads counted in them.                *)
(***************************************************************************)
EXTENDS Uffd, PageDescriptor

(* The region's set of active descriptors *)

insert_page_descriptor(pd) == active_pages' = active_pages \cup {pd}
erase_page_descriptor(pd) == active_pages' = active_pages \ {pd}

-----------------------------------------------------------------------------
(* Waiting and waking in Buffer *)

\* Mutant: the waiting thread is not counted.
WaitUncounted(h) ==
  /\ UNCHANGED m_waits_for_state_change
  /\ asleep_state' = asleep_state \cup {h}

\* pthread_cond_wait on m_state_change_cond, and the code on either side of it.
BeginStateWait(h) ==
  /\ m_waits_for_state_change' = m_waits_for_state_change \cup {h}
  /\ asleep_state' = asleep_state \cup {h}

EndStateWait(h) == m_waits_for_state_change' = m_waits_for_state_change \ {h}

\* A change of state is only broadcast when someone is counted as waiting.
BroadcastState ==
  asleep_state' = IF m_waits_for_state_change # {} THEN {} ELSE asleep_state

\* Mutant: nobody is told of the released descriptor.
ReleaseSilently(pd) ==
  /\ m_free_pages' = Append(m_free_pages, pd)
  /\ UNCHANGED asleep_avail

release_page_descriptor(pd) ==
  /\ m_free_pages' = Append(m_free_pages, pd)
  /\ asleep_avail' = IF m_waits_for_avail_pd # {} THEN {} ELSE asleep_avail

\* POSIX lets a condition wait return without a broadcast; the loops re-test.
SpuriousWake(h) ==
  /\ Alive
  /\ h \in asleep_state \cup asleep_avail
  /\ asleep_state' = asleep_state \ {h}
  /\ asleep_avail' = asleep_avail \ {h}
  /\ UNCHANGED <<kernelVars, listVars, m_waits_for_avail_pd, m_waits_for_state_change, pdVars,
                 handlerVars, fillVars, mgr_work, mgrVars, evictVars, aborted>>

-----------------------------------------------------------------------------
(* Buffer::process_page_event, run by handler h for event e *)

\* The handler is at the top of the loop of page_already_present.
Looking(h, e) ==
  /\ FirstEvent(h, e)
  /\ pc[h] = "event" \/ (pc[h] = "wait_state" /\ h \notin asleep_state)

\* Mutant: off by one at the high water mark.
KickAbove(n) ==
  mgr_work' = IF n = m_evict_high_water + 1 /\ mgr_work < MaxKicks THEN mgr_work + 1
                                                                   ELSE mgr_work

\* Kick the evict manager when the busy list, with n descriptors in it now, is
\* at the high water mark.
Kick(n) ==
  mgr_work' = IF n = m_evict_high_water /\ mgr_work < MaxKicks THEN mgr_work + 1
                                                               ELSE mgr_work

\* The page has a descriptor that is filling, updating or leaving: wait for any
\* change of state.
WaitForState(h, e) ==
  /\ Alive
  /\ Looking(h, e)
  /\ m_present_pages[e.page] # NoPD
  /\ state[m_present_pages[e.page]] # "PRESENT"
  /\ BeginStateWait(h)
  /\ pc' = [pc EXCEPT ![h] = "wait_state"]
  /\ UNCHANGED <<kernelVars, listVars, m_waits_for_avail_pd, asleep_avail, pdVars, batch,
                 fillVars, mgr_work, mgrVars, evictVars, aborted>>

\* Mutant: a write fault is not recognised.
NeverUpgraded(e, pd) == FALSE

NeedsUpgrade(e, pd) == e.write /\ ~dirty[pd]

\* The page is present and the event asks for nothing more.
SpuriousEvent(h, e) ==
  /\ Alive
  /\ Looking(h, e)
  /\ \E pd \in PDs : /\ m_present_pages[e.page] = pd
                     /\ state[pd] = "PRESENT"
                     /\ ~NeedsUpgrade(e, pd)
  /\ EndStateWait(h)
  /\ EventDone(h, e)
  /\ UNCHANGED <<kernelVars, listVars, m_waits_for_avail_pd, asleep_avail, asleep_state, pdVars,
                 fillVars, mgr_work, mgrVars, evictVars, aborted>>

\* First write to a page that was brought in for reading.
UpdatePage(h, e) ==
  /\ Alive
  /\ Looking(h, e)
  /\ \E pd \in PDs : /\ m_present_pages[e.page] = pd
                     /\ state[pd] = "PRESENT"
                     /\ NeedsUpgrade(e, pd)
                     /\ dirty' = [dirty EXCEPT ![pd] = TRUE]
                     /\ set_state_updating(pd)
                     /\ fill_queue' = Append(fill_queue, pd)
  /\ Kick(Len(m_busy_pages))
  /\ EndStateWait(h)
  /\ EventDone(h, e)
  /\ UNCHANGED <<kernelVars, listVars, m_waits_for_avail_pd, asleep_avail, asleep_state, page,
                 deferred, data_present, filler_pc, filler_pd, filler_buf, mgrVars, evictVars>>

\* The handler is at the top of the loop of get_page_descriptor.  When it comes
\* back from that loop's wait it does not look the page up again.
WantsDescriptor(h, e) ==
  \/ Looking(h, e) /\ m_present_pages[e.page] = NoPD
  \/ FirstEvent(h, e) /\ pc[h] = "wait_avail" /\ h \notin asleep_avail

WaitForDescriptor(h, e) ==
  /\ Alive
  /\ WantsDescriptor(h, e)
  /\ m_free_pages = <<>>
  /\ m_waits_for_avail_pd' = m_waits_for_avail_pd \cup {h}
  /\ m_waits_for_state_change' = (m_waits_for_state_change \ {h}) \cup {Leaked}
  /\ asleep_avail' = asleep_avail \cup {h}
  /\ pc' = [pc EXCEPT ![h] = "wait_avail"]
  /\ UNCHANGED <<kernelVars, listVars, asleep_state, pdVars, batch, fillVars, mgr_work, mgrVars,
                 evictVars, aborted>>

\* A page that has no descriptor gets one and is sent to the fill workers.
BringIn(h, e) ==
  /\ Alive
  /\ WantsDescriptor(h, e)
  /\ m_free_pages # <<>>
  /\ LET pd == m_free_pages[Len(m_free_pages)] IN
       /\ set_state_filling(pd)
       /\ m_free_pages' = SubSeq(m_free_pages, 1, Len(m_free_pages) - 1)
       /\ m_busy_pages' = <<pd>> \o m_busy_pages
       /\ page' = [page EXCEPT ![pd] = e.page]
       /\ dirty' = [dirty EXCEPT ![pd] = e.write]
       /\ deferred' = [deferred EXCEPT ![pd] = FALSE]
       /\ data_present' = [data_present EXCEPT ![pd] = FALSE]
       /\ insert_page_descriptor(pd)
       /\ m_present_pages' = [m_present_pages EXCEPT ![e.page] = pd]
       /\ fill_queue' = Append(fill_queue, pd)
  /\ Kick(Len(m_busy_pages) + 1)
  /\ m_waits_for_avail_pd' = m_waits_for_avail_pd \ {h}
  /\ EndStateWait(h)
  /\ EventDone(h, e)
  /\ UNCHANGED <<kernelVars, asleep_avail, asleep_state, filler_pc, filler_pd, filler_buf,
                 mgrVars, evictVars>>

ProcessPageEvent(h) ==
  \E e \in Event :
    \/ WaitForState(h, e) \/ SpuriousEvent(h, e) \/ UpdatePage(h, e)
    \/ WaitForDescriptor(h, e) \/ BringIn(h, e)

-----------------------------------------------------------------------------
(* What the workers call *)

mark_page_as_present(pd) ==
  /\ set_state_present(pd)
  /\ BroadcastState

\* Mutant: the page is not taken out of m_present_pages.
NotErased(pd) == m_present_pages

Erased(pd) == [m_present_pages EXCEPT ![page[pd]] = NoPD]

mark_page_as_free(pd) ==
  /\ erase_page_descriptor(pd)
  /\ m_present_pages' = Erased(pd)
  /\ set_state_free(pd)
  /\ IF deferred[pd] THEN UNCHANGED <<m_free_pages, asleep_avail>>
                     ELSE release_page_descriptor(pd)
  /\ BroadcastState
  /\ page' = [page EXCEPT ![pd] = NoPage]

\* Mutant: off by one at the low water mark.
BelowLowWater == Len(m_busy_pages) < m_evict_low_water

low_threshold_reached == Len(m_busy_pages) <= m_evict_low_water

\* Mutant: pages in transition are evicted too.
EvictableInTransit(i) == ~deferred[m_busy_pages[i]]

Evictable(i) == ~deferred[m_busy_pages[i]] /\ state[m_busy_pages[i]] = "PRESENT"

\* The positions in I from the back of the list to its front, as the one member
\* of a set.
BackToFront(I) ==
  {f \in [1..Cardinality(I) -> I] :
     Range(f) = I /\ \A i, j \in DOMAIN f : i < j => f[i] > f[j]}

Picked(f) == [i \in DOMAIN f |-> m_busy_pages[f[i]]]

\* The list is walked from its back to position k, where the count of evicted
\* pages reaches its maximum; pages that cannot be evicted are put back in the
\* order they were passed.  The test i >= 0 of the unsigned i never ends the
\* walk: with too few pages to evict it runs over the front of the list, which
\* has no defined outcome.
evict_oldest_pages ==
  LET N == 1..Len(m_busy_pages)
      Out(k) == {i \in N : i >= k /\ Evictable(i)}
      Stay(k) == {i \in N : i >= k /\ ~Evictable(i)}
  IN \/ /\ m_busy_pages = <<>>
        /\ mgr_list' = <<>>
        /\ UNCHANGED <<m_busy_pages, state, aborted>>
     \/ /\ m_busy_pages # <<>>
        /\ Cardinality(Out(1)) < MaxEvict
        /\ DieUnless(FALSE, "evict_oldest_pages")
        /\ UNCHANGED <<m_busy_pages, state, mgr_list>>
     \/ \E k \in N :
        /\ Evictable(k) /\ Cardinality(Out(k)) = MaxEvict
        /\ \E f \in BackToFront(Out(k)), g \in BackToFront(Stay(k)) :
             /\ mgr_list' = Picked(f)
             /\ m_busy_pages' = SubSeq(m_busy_pages, 1, k - 1) \o Picked(g)
        /\ state' = [d \in PDs |-> IF d \in {m_busy_pages[i] : i \in Out(k)}
                                   THEN "LEAVING" ELSE state[d]]
        /\ UNCHANGED aborted
=============================================================================
