SPECIFICATION Spec
CONSTANTS
  d1 = d1
  d2 = d2
  d3 = d3
  d4 = d4
  a1 = a1
  a2 = a2
  Pages = {1, 2}
  PDs <- Array2
  NoPD = NoPD
  NoPage = NoPage
  Apps <- OneApp
  Accesses <- AnyAccess
  UffdThread = "uffd"
  Prefetchers = {"p1"}
  Fillers = {"f1"}
  Evictors = {"v1"}
  HighPct = 50
  LowPct = 10
  MaxEvict = 1
  MaxFaultEvents = 2
  MaxKicks = 1
SYMMETRY Symmetry
INVARIANTS PagingSafe
