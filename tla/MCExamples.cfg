SPECIFICATION ExamplesSpec
CONSTANTS
  EdgeCounts = {0, 1, 3} ThreadCounts = {1, 2} vertex_scale = 1
  Inputs <- SomeLists Unreadable <- NoSuchFile IngestThreads <- TwoThreads PageWords = 4
  Graphs <- SomeGraphs SearchThreads <- TwoThreads WordBits = 3 LevelBits = 3
  Absent = Absent
  Args <- SomeArgs SortPageWords = 2 MaxFiles = 3 SortRuns = 2
  Sizes = {1, 2} StreamPageWords = 1 ntimes = 2 StreamRuns = 3 Leftover = {1, 2} MaxStale = 2
  Files <- SomeFits PageSizes = {2, 4} SystemPage = 2 Block = 2
  Scales = {17, 18, 20, 24, 30}
INVARIANTS SearchOfGiven ToolsSound SortSound NeverFailsValidation CubeSound HashSound
PROPERTIES BfsEnds FilesToldApart
CHECK_DEADLOCK FALSE
