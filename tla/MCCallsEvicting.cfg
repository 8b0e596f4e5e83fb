SPECIFICATION CallsSpec
CONSTANTS
  d1 = d1 d2 = d2 d3 = d3 d4 = d4 a1 = a1 a2 = a2
  Pages = {1, 2} PDs <- Array2 NoPD = NoPD NoPage = NoPage
  Apps <- OneApp Accesses <- Writes
  UffdThread = "uffd" Prefetchers = {"p1"} Fillers = {"f1"} Evictors = {"v1"}
  HighPct = 50 LowPct = 10 MaxEvict = 1 MaxFaultEvents = 2 MaxKicks = 1
  Regions = {1, 2} RegionOf <- TwoRegions Caller = "caller" MaxCalls = 3 Called = {"uunmap"} PinRanges = {{1}} PinFirst = TRUE Prefetched = {1, 2}
INVARIANTS MappedCoherent PinnedStays UnmappedIsGone
CHECK_DEADLOCK FALSE
SYMMETRY Symmetry
