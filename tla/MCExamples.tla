----------------------------- MODULE MCExamples ------------------------------
(***************************************************************************)
(* Model-checking instances of the example programs, side by side: in a    *)
(* behaviour the tools of the breadth-first search run, or umapsort, or    *)
(* STREAM, or pages of a FITS cube are read, or the hash of the generator  *)
(* is computed.  They share no state but program, which says which of them *)
(* it is.                                                                  *)
(***************************************************************************)
EXTENDS GraphTools, SequencesExt

CONSTANTS Absent,
          Args, SortPageWords, MaxFiles, SortRuns,               \* of UmapSort
          Sizes, StreamPageWords, ntimes, StreamRuns, Leftover, MaxStale,  \* of Stream
          Files, PageSizes, SystemPage, Block,                   \* of FitsCube
          Scales                                                 \* of HashCheck

VARIABLES
  sort_disk, options, mappings, arr, sort_ascending, sort_phase, sort_runs, sort_status,
  stream_disk, mem, array_size, is_init, stage, k, handled, dirty, whole, stream_runs, stream_status,
  fits, psize, cube_size, buf, page, rval, asked, accepted, cube_phase,
  input, n

sortVars == <<sort_disk, options, mappings, arr, sort_ascending, sort_phase, sort_runs, sort_status>>
streamVars == <<stream_disk, mem, array_size, is_init, stage, k, handled, dirty, whole, stream_runs,
                stream_status>>
cubeVars == <<fits, psize, cube_size, buf, page, rval, asked, accepted, cube_phase>>
hashVars == <<input, n>>
exampleVars == <<program, toolVars, sortVars, streamVars, cubeVars, hashVars>>

Sort == INSTANCE UmapSort WITH PageWords <- SortPageWords, MaxRuns <- SortRuns, disk <- sort_disk,
                               phase <- sort_phase, runs <- sort_runs, status <- sort_status
Strm == INSTANCE Stream WITH PageWords <- StreamPageWords, MaxRuns <- StreamRuns,
                             disk <- stream_disk, runs <- stream_runs, status <- stream_status
Cube == INSTANCE FitsCube WITH phase <- cube_phase
Scramble == INSTANCE HashCheck

-----------------------------------------------------------------------------
(* The instances *)

\* The index and the edges of the graph that has these targets of each of m vertices.
Csr(m, targets) ==
  LET before[v \in 0..m] == IF v = 0 THEN <<>> ELSE before[v - 1] \o SetToSeq(targets[v - 1])
      all == before[m]
  IN [index |-> [v \in 0..m |-> Len(before[v])], edges |-> [e \in 0..(Len(all) - 1) |-> all[e + 1]]]

\* Every graph of three vertices; and some of six, where threads reach one vertex, or
\* different vertices of one word of the bitmap, in the same level.
SomeGraphs ==
  {Csr(3, g) : g \in [0..2 -> SUBSET (0..2)]} \cup
  {Csr(6, [v \in 0..5 |-> t[v + 1]]) : t \in {<<{1, 2, 4}, {3, 0}, {5}, {5}, {3, 5}, {1}>>,
                                              <<{}, {2, 5}, {3, 4}, {1}, {0}, {4, 3, 0}>>}}

\* Two lists of up to two edges and, for what is empty or cannot be read, some more.
NoSuchFile == << <<0, 0>>, <<0, 0>>, <<0, 0>>, <<0, 0>> >>
Lists == UNION {[1..m -> {<<0, 1>>, <<1, 0>>, <<0, 2>>, <<2, 2>>}] : m \in 0..2}
SomeLists ==
  {<<a, b>> : a, b \in Lists} \cup {<<>>, << <<>> >>, << <<>>, NoSuchFile>>}
    \cup {<<a, b, << <<1, 2>> >> >> : a, b \in {<< <<0, 1>>, <<0, 2>> >>, << <<1, 0>>, <<0, 1>> >>}}

TwoThreads == 0..1

\* Command lines of umapsort: one file, several, and what is refused.
SomeArgs ==
  {[x \in {"p"} |-> m] : m \in 0..3} \cup {[x \in {"p", "initonly"} |-> 2]}
    \cup {[x \in {"p", "noinit"} |-> 2]}
    \cup {[x \in {"p", "N", "usemmap"} |-> IF x = "p" THEN m ELSE f] : m \in 2..5, f \in 0..3}
    \cup {[x \in {"p", "a"} |-> IF x = "p" THEN 1 ELSE 2], [x \in {"help"} |-> 1], [x \in {"t"} |-> 0]}

SomeFits == [tiles : 0..3, start : 0..5, size : 1..9]

-----------------------------------------------------------------------------

NoCube ==
  /\ fits = [tiles |-> 0, start |-> 0, size |-> 1] /\ psize = 0 /\ cube_size = 0 /\ buf = << >>
  /\ page = 0 /\ rval = 0 /\ asked = 0 /\ accepted = TRUE /\ cube_phase = "none"
NoHash == input = 0 /\ n = 1

ExamplesInit ==
  /\ Sort!Init /\ Strm!Init
  /\ \/ ToolInit /\ NoCube /\ NoHash
     \/ program \in {"umapsort", "stream"} /\ NoTool /\ NoCube /\ NoHash
     \/ program = "fits" /\ NoTool /\ Cube!Init /\ NoHash
     \/ program = "hash" /\ NoTool /\ NoCube /\ Scramble!Init

ExamplesNext ==
  \/ ToolNext /\ UNCHANGED <<sortVars, streamVars, cubeVars, hashVars>>
  \/ /\ program = "umapsort" /\ Sort!Next
     /\ UNCHANGED <<program, toolVars, streamVars, cubeVars, hashVars>>
  \/ /\ program = "stream" /\ Strm!Next
     /\ UNCHANGED <<program, toolVars, sortVars, cubeVars, hashVars>>
  \/ /\ program = "fits" /\ Cube!Next
     /\ UNCHANGED <<program, toolVars, sortVars, streamVars, hashVars>>

OtherVars == <<sortVars, streamVars, cubeVars, hashVars>>

\* The threads that OpenMP has started, and the main thread, are scheduled.
ExamplesSpec ==
  /\ ExamplesInit /\ [][ExamplesNext]_exampleVars
  /\ WF_exampleVars(SearchMain /\ UNCHANGED OtherVars)
  /\ \A t \in SearchThreads : WF_exampleVars(SearchThread(t) /\ UNCHANGED OtherVars)

-----------------------------------------------------------------------------
\* umapsort: a run that returns 0 leaves its files sorted, and with several files every page
\* of the array is one of theirs.
SortSound == Sort!SortedOnExit /\ Sort!FilesHoldArray

\* STREAM: a run that gets past the check of its files, and whose files had all of its pages,
\* finds its results right.
NeverFailsValidation == Strm!NeverFailsValidation

\* STREAM: files that a run has initialised are accepted by the next, and files with results
\* are not taken for initialised ones.
FilesToldApart == [][Strm!AcceptsInitialised /\ Strm!RefusesResults]_streamVars

\* FITS: reads stay inside of an image, and what a read that was accepted reports are bytes of
\* the tile that its page begins in, in their places where the page begins with the tile.
CubeSound == program = "fits" => Cube!ReadsInside /\ Cube!BytesOfTile

\* Scrambled vertex numbers stay in range, and different ones stay different.
HashSound == program = "hash" => Scramble!StaysInRange /\ Scramble!CanBeUndone
=============================================================================
