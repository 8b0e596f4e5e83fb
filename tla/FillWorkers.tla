---------------------------- MODULE FillWorkers -----------------------------
(***************************************************************************)
(* FillWorkers::FillWorker, the loop of a fill worker f. Taking an item    *)
(* and the first thing done with it are one step: nobody can tell an item  *)
(* just taken from one at the head of the queue.                           *)
(***************************************************************************)
EXTENDS Buffer, Store

\* The page is in memory and is only to be made writable.
FillUnprotect(f) ==
  /\ Alive
  /\ filler_pc[f] = "get" /\ fill_queue # <<>>
  /\ LET pd == Head(fill_queue) IN
       /\ dirty[pd] /\ data_present[pd]
       /\ disable_write_protect(page[pd])
       /\ filler_pd' = [filler_pd EXCEPT ![f] = pd]
  /\ fill_queue' = Tail(fill_queue)
  /\ filler_pc' = [filler_pc EXCEPT ![f] = "mark"]
  /\ UNCHANGED <<mem, store_fresh, fault, listVars, waitVars, pdVars, handlerVars, filler_buf,
                 mgr_work, mgrVars, evictVars, aborted>>

\* The page is read from the Store.
FillRead(f) ==
  /\ Alive
  /\ filler_pc[f] = "get" /\ fill_queue # <<>>
  /\ LET pd == Head(fill_queue) IN
       /\ ~(dirty[pd] /\ data_present[pd])
       /\ filler_buf' = [filler_buf EXCEPT ![f] = read_from_store(page[pd])]
       /\ filler_pd' = [filler_pd EXCEPT ![f] = pd]
  /\ fill_queue' = Tail(fill_queue)
  /\ filler_pc' = [filler_pc EXCEPT ![f] = "copy"]
  /\ UNCHANGED <<kernelVars, listVars, waitVars, pdVars, handlerVars, mgr_work, mgrVars,
                 evictVars, aborted>>

\* The page is copied in, protected unless it was asked for by a write.
FillCopy(f) ==
  /\ Alive
  /\ filler_pc[f] = "copy"
  /\ LET pd == filler_pd[f] IN
       /\ IF dirty[pd] THEN copy_in_page(filler_buf[f], page[pd])
                       ELSE copy_in_page_and_write_protect(filler_buf[f], page[pd])
       /\ data_present' = [data_present EXCEPT ![pd] = TRUE]
  /\ filler_buf' = [filler_buf EXCEPT ![f] = "stale"]
  /\ filler_pc' = [filler_pc EXCEPT ![f] = "mark"]
  /\ UNCHANGED <<store_fresh, fault, listVars, waitVars, page, state, dirty, deferred,
                 handlerVars, fill_queue, filler_pd, mgr_work, mgrVars, evictVars>>

FillMarkPresent(f) ==
  /\ Alive
  /\ filler_pc[f] = "mark"
  /\ mark_page_as_present(filler_pd[f])
  /\ filler_pd' = [filler_pd EXCEPT ![f] = NoPD]
  /\ filler_pc' = [filler_pc EXCEPT ![f] = "get"]
  /\ UNCHANGED <<kernelVars, listVars, m_waits_for_avail_pd, m_waits_for_state_change,
                 asleep_avail, page, dirty, deferred, data_present, handlerVars, fill_queue,
                 filler_buf, mgr_work, mgrVars, evictVars>>

FillWorker(f) == FillUnprotect(f) \/ FillRead(f) \/ FillCopy(f) \/ FillMarkPresent(f)
=============================================================================
