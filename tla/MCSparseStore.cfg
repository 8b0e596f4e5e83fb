SPECIFICATION FairSpec
CONSTANTS
  w1 = w1 w2 = w2 x = x y = y
  Threads = {w1, w2} NoThread = NoThread Values = {x}
  rsize = 6 aligned_size = 2 granularity = 3 nb = 2
  Leftover = {1, 2} CrashInCreate = FALSE ReadOnlyModes = {FALSE, TRUE} MaxRuns = 2
INVARIANTS DescriptorsSound NothingLeftOpen
PROPERTIES WritableReadsBack TransferEnds
CHECK_DEADLOCK FALSE
