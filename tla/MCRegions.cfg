SPECIFICATION RegionsSpec
CONSTANTS
  Space = 10 umap_psize = 2 Sizes = {0, 1, 2, 4} Hints = {0, 3} Fixed = FALSE AppMaps = TRUE MaxRegions = 2
  system_page_size = 2 PageSizes = {0, 3, 4} BufSizes = {0, 3, 9} LowPcts = {30} HighPcts = {50, 101} MemFree = {12, 20}
  MemAvailable = {15, 40} RegionSize = 7 PinArgs <- AlignedPins ManyPages = 2 FetchThreads = 3 Mantissa = 8
INVARIANTS RegionsSound SizesSound
PROPERTIES LookupRight
CHECK_DEADLOCK FALSE
