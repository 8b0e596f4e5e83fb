SPECIFICATION CallsFairSpec
CONSTANTS
  d1 = d1 d2 = d2 d3 = d3 d4 = d4 a1 = a1 a2 = a2
  Pages = {1, 2} PDs <- Array4 NoPD = NoPD NoPage = NoPage
  Apps <- OneApp Accesses <- Writes
  UffdThread = "uffd" Prefetchers = {} Fillers = {"f1"} Evictors = {"v1"}
  HighPct = 100 LowPct = 70 MaxEvict = 1 MaxFaultEvents = 2 MaxKicks = 1
  Regions = {1, 2} RegionOf <- TwoRegions Caller = "caller" MaxCalls = 2 Called = {"flush", "uunmap", "umap"} PinRanges = {} PinFirst = TRUE Prefetched = {}
INVARIANTS OnePlace UnmapDurable
PROPERTIES FlushDurable CallReturns AccessReturns
