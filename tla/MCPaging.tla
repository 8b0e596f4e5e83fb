------------------------------- MODULE MCPaging -------------------------------
(* Model-checking instances of Paging. *)
EXTENDS Paging, TLC

CONSTANTS d1, d2, d3, d4, a1, a2

Array2 == {d1, d2}
Array3 == {d1, d2, d3}
Array4 == {d1, d2, d3, d4}
OneApp == {a1}
TwoApps == {a1, a2}

\* Any access to any page; and one page that is written while the others are read.
AnyAccess == [page : Pages, write : BOOLEAN]
FixedAccess == {[page |-> p, write |-> p = 1] : p \in Pages}

Symmetry == Permutations(Array4) \cup Permutations(TwoApps)
=============================================================================
