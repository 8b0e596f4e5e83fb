---------------------------- MODULE EvictWorkers ----------------------------
(***************************************************************************)
(* EvictWorkers::EvictWorker, the loop of an evict worker v. Taking an     *)
(* item and the first thing done with it are one step.                     *)
(***************************************************************************)
EXTENDS Buffer, Store

\* Mutant: the page is left in memory.
NoMadvise(work) == IF work.type = "FLUSH" THEN "get" ELSE "free"

\* What follows the write-back of an item, or comes first for a clean page.
AfterWrite(work) ==
  CASE work.type = "FLUSH" -> "get"
    [] work.type = "FAST_EVICT" -> "free"
    [] OTHER -> "madvise"

\* The worker moves on to step next, keeping its item unless it is done with it.
EvictorGoes(v, next, work) ==
  /\ evictor_pc' = [evictor_pc EXCEPT ![v] = next]
  /\ evictor_work' = [evictor_work EXCEPT ![v] = IF next = "get" THEN NoWork ELSE work]

\* An item is taken; a dirty page is write-protected first.
EvictGet(v) ==
  /\ Alive
  /\ evictor_pc[v] = "get" /\ evict_queue # <<>>
  /\ LET work == Head(evict_queue)
         pd == work.page_desc
     IN IF dirty[pd]
        THEN /\ enable_write_protect(page[pd])
             /\ EvictorGoes(v, "write", work)
        ELSE EvictorGoes(v, AfterWrite(work), work) /\ UNCHANGED wp
  /\ evict_queue' = Tail(evict_queue)
  /\ UNCHANGED <<mem, store_fresh, fault, blocked, unread, listVars, waitVars, pdVars,
                 handlerVars, fillVars, mgr_work, mgrVars, aborted>>

\* write_to_store, then the page is clean.
EvictWrite(v) ==
  /\ Alive
  /\ evictor_pc[v] = "write"
  /\ LET work == evictor_work[v]
         pd == work.page_desc
     IN /\ write_to_store(page[pd])
        /\ dirty' = [dirty EXCEPT ![pd] = FALSE]
        /\ EvictorGoes(v, AfterWrite(work), work)
  /\ UNCHANGED <<mem, wp, fault, blocked, unread, listVars, waitVars, page, state, deferred,
                 data_present, handlerVars, fillVars, mgr_work, mgrVars, evict_queue, aborted>>

\* madvise(MADV_DONTNEED): the next access faults.
EvictMadvise(v) ==
  /\ Alive
  /\ evictor_pc[v] = "madvise"
  /\ LET work == evictor_work[v]
         pd == work.page_desc
     IN /\ mem' = [mem EXCEPT ![page[pd]] = "none"]
        /\ wp' = wp \ {page[pd]}
        /\ EvictorGoes(v, "free", work)
  /\ UNCHANGED <<store_fresh, fault, blocked, unread, listVars, waitVars, pdVars, handlerVars,
                 fillVars, mgr_work, mgrVars, evict_queue, aborted>>

EvictMarkFree(v) ==
  /\ Alive
  /\ evictor_pc[v] = "free"
  /\ mark_page_as_free(evictor_work[v].page_desc)
  /\ EvictorGoes(v, "get", NoWork)
  /\ UNCHANGED <<kernelVars, m_busy_pages, m_waits_for_avail_pd, m_waits_for_state_change, dirty,
                 deferred, data_present, handlerVars, fillVars, mgr_work, mgrVars, evict_queue>>

EvictWorker(v) == EvictGet(v) \/ EvictWrite(v) \/ EvictMadvise(v) \/ EvictMarkFree(v)
=============================================================================
