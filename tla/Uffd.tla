-------------------------------- MODULE Uffd --------------------------------
(***************************************************************************)
(* The ioctls that the workers call, and where page events come from:      *)
(* Uffd::uffd_handler, run by the Uffd thread, and RegionManager::prefetch, *)
(* run by application threads.                                             *)
(***************************************************************************)
EXTENDS Kernel

(* The ioctls of the Uffd object *)

\* Mutant: the page stays writable while it is written back.
LeftWritable(p) == wp' = wp

\* UFFDIO_WRITEPROTECT changes nothing for a page that is not in memory.
enable_write_protect(p) == wp' = IF mem[p] # "none" THEN wp \cup {p} ELSE wp

disable_write_protect(p) == wp' = wp \ {p} /\ WakeThreads(p)

copy_in_page(data, p) == UffdioCopy(data, p) /\ wp' = wp \ {p}

copy_in_page_and_write_protect(data, p) == UffdioCopy(data, p) /\ wp' = wp \cup {p}

-----------------------------------------------------------------------------
(* Page events *)

\* Mutant: flags sorted the other way, so that a read hides a write.
ReadFirst(events) == {e \in events : ~e.write \/ [e EXCEPT !.write = FALSE] \notin events}

\* Events are made one per page, a write before a read (the sort of less_than_key
\* followed by the skip of equal addresses).
OnePerPage(events) == {e \in events : e.write \/ [e EXCEPT !.write = TRUE] \notin events}

\* The Uffd thread reads as many messages as there are, at most MaxFaultEvents.
UffdRead ==
  /\ Alive
  /\ pc[UffdThread] = "idle"
  /\ \E msgs \in SUBSET unread :
       /\ msgs # {}
       /\ Cardinality(msgs) = MaxFaultEvents \/ (msgs = unread /\ Cardinality(msgs) < MaxFaultEvents)
       /\ unread' = unread \ msgs
       /\ batch' = [batch EXCEPT ![UffdThread] = OnePerPage({fault[t] : t \in msgs})]
  /\ pc' = [pc EXCEPT ![UffdThread] = "event"]
  /\ UNCHANGED <<mem, wp, store_fresh, fault, blocked, listVars, waitVars, pdVars, fillVars,
                 mgr_work, mgrVars, evictVars, aborted>>

\* umap_prefetch runs process_page in the calling thread, page after page.
Prefetch(h, p) ==
  /\ Alive
  /\ pc[h] = "idle"
  /\ batch' = [batch EXCEPT ![h] = {[page |-> p, write |-> FALSE]}]
  /\ pc' = [pc EXCEPT ![h] = "event"]
  /\ UNCHANGED <<kernelVars, listVars, waitVars, pdVars, fillVars, mgr_work, mgrVars,
                 evictVars, aborted>>

\* Events of a batch are processed in the order of their addresses.
FirstEvent(h, e) == e \in batch[h] /\ \A e2 \in batch[h] : e.page <= e2.page

EventDone(h, e) ==
  /\ batch' = [batch EXCEPT ![h] = @ \ {e}]
  /\ pc' = [pc EXCEPT ![h] = IF batch[h] = {e} THEN "idle" ELSE "event"]
=============================================================================
