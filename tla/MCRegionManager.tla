--------------------------- MODULE MCRegionManager ---------------------------
(* Model-checking instances of RegionManager. *)
EXTENDS RegionManager, TLC

CONSTANTS d1, d2, d3, d4, a1, a2

Array2 == {d1, d2}
Array3 == {d1, d2, d3}
Array4 == {d1, d2, d3, d4}
OneApp == {a1}
TwoApps == {a1, a2}

\* One region; two regions, the second with the last page; and one page per region.
OneRegion == [p \in Pages |-> 1]
TwoRegions == [p \in Pages |-> IF p = 1 THEN 1 ELSE 2]

AnyAccess == [page : Pages, write : BOOLEAN]
Writes == [page : Pages, write : {TRUE}]

Symmetry == Permutations(PDs) \cup Permutations(Apps)
=============================================================================
