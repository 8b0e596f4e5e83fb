------------------------------- MODULE Store --------------------------------
(***************************************************************************)
(* The Store behind a region, as the workers use it: one page at a time.   *)
(* Accesses are taken to transfer the whole page or to fail; a short count *)
(* is not looked at by StoreFile or by the workers.                        *)
(***************************************************************************)
EXTENDS PagingState

\* What a fill worker's buffer holds after the read.
read_from_store(p) == IF p \in store_fresh THEN "fresh" ELSE "stale"

\* The page in memory becomes the copy in the Store.
write_to_store(p) ==
  store_fresh' = IF mem[p] = "fresh" THEN store_fresh \cup {p} ELSE store_fresh \ {p}
=============================================================================
