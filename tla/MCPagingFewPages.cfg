SPECIFICATION Spec
CONSTANTS
  d1 = d1
  d2 = d2
  d3 = d3
  d4 = d4
  a1 = a1
  a2 = a2
  Pages = {1, 2, 3}
  PDs <- Array4
  NoPD = NoPD
  NoPage = NoPage
  Apps <- OneApp
  Accesses <- AnyAccess
  UffdThread = "uffd"
  Prefetchers = {}
  Fillers = {"f1"}
  Evictors = {"v1"}
  HighPct = 90
  LowPct = 70
  MaxEvict = 32
  MaxFaultEvents = 2
  MaxKicks = 1
INVARIANT NeverAborts
