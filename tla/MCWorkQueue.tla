----------------------------- MODULE MCWorkQueue -----------------------------
(* Model-checking instances of WorkQueue. *)
EXTENDS WorkQueue

CONSTANTS w1, w2, w3, c1, c2

PoolOf3 == {w1, w2, w3}
TwoCallers == {c1, c2}
=============================================================================
