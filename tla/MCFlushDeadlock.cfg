SPECIFICATION CallsFairSpec
CONSTANTS
  d1 = d1 d2 = d2 d3 = d3 d4 = d4 a1 = a1 a2 = a2
  Pages = {1, 2} PDs <- Array2 NoPD = NoPD NoPage = NoPage
  Apps <- OneApp Accesses <- Writes
  UffdThread = "uffd" Prefetchers = {} Fillers = {"f1"} Evictors = {"v1"}
  HighPct = 50 LowPct = 10 MaxEvict = 1 MaxFaultEvents = 2 MaxKicks = 1
  Regions = {1} RegionOf <- OneRegion Caller = "caller" MaxCalls = 1 Called = {"flush"} PinRanges = {} PinFirst = TRUE Prefetched = {}
PROPERTIES CallReturns
CHECK_DEADLOCK FALSE
