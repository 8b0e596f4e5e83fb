--------------------------- MODULE MCSparseStore ----------------------------
(* Small instances of SparseStore for TLC. *)
EXTENDS SparseStore, TLC

CONSTANTS w1, w2, x, y

Symmetry == Permutations(Threads) \cup Permutations(Values)
=============================================================================
