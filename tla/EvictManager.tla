---------------------------- MODULE EvictManager ----------------------------
(***************************************************************************)
(* EvictManager::EvictMgr, the loop of the evict manager thread.           *)
(***************************************************************************)
EXTENDS Buffer

\* A THRESHOLD item is taken; at the bound there may be more of them than are
\* counted.
MgrGet ==
  /\ Alive
  /\ mgr_pc = "get" /\ mgr_work > 0
  /\ mgr_work' = mgr_work - 1 \/ (mgr_work = MaxKicks /\ mgr_work' = mgr_work)
  /\ mgr_pc' = "check"
  /\ UNCHANGED <<kernelVars, listVars, waitVars, pdVars, handlerVars, fillVars, mgr_list,
                 evictVars, aborted>>

\* The threshold is read without the lock.
MgrCheck ==
  /\ Alive
  /\ mgr_pc = "check"
  /\ mgr_pc' = IF low_threshold_reached THEN "get" ELSE "evict"
  /\ UNCHANGED <<kernelVars, listVars, waitVars, pdVars, handlerVars, fillVars, mgr_work,
                 mgr_list, evictVars, aborted>>

MgrEvict ==
  /\ Alive
  /\ mgr_pc = "evict"
  /\ evict_oldest_pages
  /\ mgr_pc' = IF mgr_list' = <<>> THEN "check" ELSE "send"
  /\ UNCHANGED <<kernelVars, m_present_pages, m_free_pages, active_pages, waitVars, page, dirty,
                 deferred, data_present, handlerVars, fillVars, mgr_work, evictVars>>

\* Mutant: the item's type is not set to EVICT.
ThresholdItem(pd) == [page_desc |-> pd, type |-> "THRESHOLD"]

EvictItem(pd) == [page_desc |-> pd, type |-> "EVICT"]

MgrSend ==
  /\ Alive
  /\ mgr_pc = "send"
  /\ evict_queue' = Append(evict_queue, EvictItem(Head(mgr_list)))
  /\ mgr_list' = Tail(mgr_list)
  /\ mgr_pc' = IF Len(mgr_list) = 1 THEN "check" ELSE "send"
  /\ UNCHANGED <<kernelVars, listVars, waitVars, pdVars, handlerVars, fillVars, mgr_work,
                 evictor_pc, evictor_work, aborted>>

EvictMgr == MgrGet \/ MgrCheck \/ MgrEvict \/ MgrSend
=============================================================================
