SPECIFICATION FairSpec
CONSTANTS
  d1 = d1
  d2 = d2
  d3 = d3
  d4 = d4
  a1 = a1
  a2 = a2
  Pages = {1, 2, 3, 4}
  PDs <- Array3
  NoPD = NoPD
  NoPage = NoPage
  Apps <- OneApp
  Accesses <- FixedAccess
  UffdThread = "uffd"
  Prefetchers = {}
  Fillers = {"f1"}
  Evictors = {"v1"}
  HighPct = 100
  LowPct = 70
  MaxEvict = 1
  MaxFaultEvents = 2
  MaxKicks = 1
INVARIANT NeverAborts
PROPERTIES AccessCompletes EvictionStarts
