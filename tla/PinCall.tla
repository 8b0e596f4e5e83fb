------------------------------- MODULE PinCall -------------------------------
(***************************************************************************)
(* umap_fetch_and_pin: Buffer::fetch_and_pin and the threads that run      *)
(* FetchFunc, while there is memory for the pages beside the Buffer.  The  *)
(* pages get no descriptor.  Sizing has the arithmetic of the call.        *)
(***************************************************************************)
EXTENDS Calls

\* The Buffer is locked first.
PinLock(S) ==
  /\ Alive
  /\ pin_pc = "idle" /\ ~BufferHeld
  /\ \A p \in S : RegionOf[p] \in regions /\ p \notin pinned
  /\ pin_pc' = "locked"
  /\ pin_left' = [p \in S |-> "unread"]
  /\ UNCHANGED <<vars, regions, looked_up, call, target, overtaken, call_pd, flush_pos, must,
                 calls, pinned>>

\* Then containing_region takes RegionManager::m_mutex.
PinLookup ==
  /\ Alive
  /\ pin_pc = "locked" /\ ~RmHeld
  /\ pin_pc' = "copy"
  /\ UNCHANGED <<vars, regions, looked_up, call, target, overtaken, call_pd, flush_pos, must,
                 calls, pin_left, pinned>>

PinRead(p) ==
  /\ Alive
  /\ pin_pc = "copy" /\ p \in DOMAIN pin_left /\ pin_left[p] = "unread"
  /\ pin_left' = [pin_left EXCEPT ![p] = read_from_store(p)]
  /\ UNCHANGED <<vars, regions, looked_up, call, target, overtaken, call_pd, flush_pos, must,
                 calls, pin_pc, pinned>>

\* Mutant: the page is copied in as for a read, write-protected.
CopyProtected(p) ==
  /\ Alive
  /\ pin_pc = "copy" /\ p \in DOMAIN pin_left /\ pin_left[p] # "unread"
  /\ copy_in_page_and_write_protect(pin_left[p], p)
  /\ pin_left' = Restrict(pin_left, DOMAIN pin_left \ {p})
  /\ pinned' = pinned \cup {p}
  /\ UNCHANGED <<store_fresh, fault, listVars, waitVars, pdVars, handlerVars, fillVars,
                 mgr_work, mgrVars, evictVars, regions, looked_up, call, target, overtaken, call_pd,
                 flush_pos, must, calls, pin_pc>>

PinCopy(p) ==
  /\ Alive
  /\ pin_pc = "copy" /\ p \in DOMAIN pin_left /\ pin_left[p] # "unread"
  /\ copy_in_page(pin_left[p], p)
  /\ pin_left' = Restrict(pin_left, DOMAIN pin_left \ {p})
  /\ pinned' = pinned \cup {p}
  /\ UNCHANGED <<store_fresh, fault, listVars, waitVars, pdVars, handlerVars, fillVars,
                 mgr_work, mgrVars, evictVars, regions, looked_up, call, target, overtaken, call_pd,
                 flush_pos, must, calls, pin_pc>>

PinDone ==
  /\ Alive
  /\ pin_pc = "copy" /\ DOMAIN pin_left = {}
  /\ pin_pc' = "idle"
  /\ UNCHANGED <<vars, regions, looked_up, call, target, overtaken, call_pd, flush_pos, must,
                 calls, pin_left, pinned>>

PinStep ==
  \/ \E S \in PinRanges : PinLock(S)
  \/ PinLookup \/ PinDone
  \/ \E p \in Pages : PinRead(p) \/ PinCopy(p)
=============================================================================
