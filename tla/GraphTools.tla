----------------------------- MODULE GraphTools ------------------------------
(***************************************************************************)
(* The programs of the breadth-first search example as they are used one   *)
(* after the other: generate_edge_list writes edge lists, ingest_edge_list *)
(* makes a graph file of them, and run_bfs searches it.  Edge lists and    *)
(* graph files may also come from elsewhere.  A program that has ended     *)
(* leaves its files only.                                                  *)
(***************************************************************************)
EXTENDS Integers, Sequences, FiniteSets

CONSTANTS EdgeCounts, ThreadCounts, vertex_scale,            \* of EdgeList
          Inputs, Unreadable, IngestThreads, PageWords,      \* of GraphFile
          Graphs, SearchThreads, WordBits, LevelBits         \* of Bfs

VARIABLES
  program,    \* which program runs: "generate", "ingest", "search" or none of them
  given,      \* the edges of the lists that the graph is made of
  edge_count, nthreads, undirected, scramble, asserts,
  count, current, make_undirected, gen_pc, files, status,
  edge_lists, max_id, num_edges, slots, file, done, pos, ingest_phase,
  index, edges, level, visited_filter, current_level, visited_new_vertex, pc, src, i, word, cnt, phase

genVars == <<edge_count, nthreads, undirected, scramble, asserts, count, current, make_undirected,
             gen_pc, files, status>>
ingestVars == <<edge_lists, max_id, num_edges, slots, file, done, pos, ingest_phase>>
searchVars == <<index, edges, level, visited_filter, current_level, visited_new_vertex, pc, src, i,
                word, cnt, phase>>
toolVars == <<given, genVars, ingestVars, searchVars>>

Generate == INSTANCE EdgeList WITH pc <- gen_pc
Ingest == INSTANCE GraphFile WITH Threads <- IngestThreads, index <- slots, phase <- ingest_phase
Search == INSTANCE Bfs WITH Threads <- SearchThreads

-----------------------------------------------------------------------------
(* A program that does not run *)

NoGenerate ==
  /\ edge_count = 0 /\ nthreads = 0 /\ undirected = FALSE /\ scramble = FALSE /\ asserts = FALSE
  /\ count = << >> /\ current = << >> /\ make_undirected = << >> /\ gen_pc = << >>
  /\ files = << >> /\ status = "none"

NoIngest ==
  /\ edge_lists = << >> /\ max_id = 0 /\ num_edges = 0 /\ slots = << >> /\ file = << >>
  /\ done = << >> /\ pos = [t \in IngestThreads |-> -1] /\ ingest_phase = "none"

NoSearch ==
  /\ index = << >> /\ edges = << >> /\ level = << >> /\ visited_filter = << >>
  /\ current_level = 0 /\ visited_new_vertex = FALSE
  /\ pc = << >> /\ src = << >> /\ i = << >> /\ word = << >> /\ cnt = << >> /\ phase = "none"

NoTool == given = {} /\ NoGenerate /\ NoIngest /\ NoSearch

\* The edges of edge lists, and of a graph file.
EdgesOf(lists) == UNION {{lists[f][l] : l \in 1..Len(lists[f])} : f \in 1..Len(lists)}
EdgesIn(ix, es) ==
  UNION {{<<v, es[k]>> : k \in ix[v]..(ix[v + 1] - 1)} : v \in 0..(Cardinality(DOMAIN ix) - 2)}

ToolInit ==
  \/ program = "generate" /\ given = {} /\ Generate!Init /\ NoIngest /\ NoSearch
  \/ program = "ingest" /\ Ingest!Init /\ given = EdgesOf(edge_lists) /\ NoGenerate /\ NoSearch
  \/ program = "search" /\ Search!Init /\ given = EdgesIn(index, edges) /\ NoGenerate /\ NoIngest

-----------------------------------------------------------------------------

\* ingest_edge_list is given the files of generate_edge_list.
StartIngest ==
  /\ program = "generate" /\ status = "finished"
  /\ program' = "ingest"
  /\ edge_lists' = [f \in 1..nthreads |-> files[f - 1]]
  /\ given' = EdgesOf(edge_lists')
  /\ done' = [t \in IngestThreads |-> 0] /\ ingest_phase' = "check"
  /\ UNCHANGED <<max_id, num_edges, slots, file, pos, searchVars>>
  /\ edge_count' = 0 /\ nthreads' = 0 /\ undirected' = FALSE /\ scramble' = FALSE /\ asserts' = FALSE
  /\ count' = << >> /\ current' = << >> /\ make_undirected' = << >> /\ gen_pc' = << >>
  /\ files' = << >> /\ status' = "none"

\* run_bfs is given the graph file, with the number of vertices that ingest_edge_list reports.
StartSearch ==
  /\ program = "ingest" /\ ingest_phase \in {"mmapped", "umapped"}
  /\ program' = "search"
  /\ index' = [v \in 0..(max_id + 1) |-> file[v]]
  /\ edges' = [k \in 0..(num_edges - 1) |-> file[max_id + 2 + k]]
  /\ level' = [v \in 0..max_id |-> 2^LevelBits - 1]
  /\ visited_filter' = [w \in 0..(Search!bitmap_size(max_id + 1) - 1) |-> {}]
  /\ pc' = [t \in SearchThreads |-> "src"]
  /\ src' = [t \in SearchThreads |->
               t * ((max_id + Cardinality(SearchThreads)) \div Cardinality(SearchThreads))]
  /\ i' = [t \in SearchThreads |-> 0] /\ word' = [t \in SearchThreads |-> {}]
  /\ phase' = "init"
  /\ UNCHANGED <<given, genVars, current_level, visited_new_vertex, cnt>>
  /\ edge_lists' = << >> /\ max_id' = 0 /\ num_edges' = 0 /\ slots' = << >> /\ file' = << >>
  /\ done' = << >> /\ pos' = [t \in IngestThreads |-> -1] /\ ingest_phase' = "none"

ToolNext ==
  \/ program = "generate" /\ Generate!Next /\ UNCHANGED <<program, given, ingestVars, searchVars>>
  \/ program = "ingest" /\ Ingest!Next /\ UNCHANGED <<program, given, genVars, searchVars>>
  \/ program = "search" /\ Search!Next /\ UNCHANGED <<program, given, genVars, ingestVars>>
  \/ StartIngest \/ StartSearch

\* The threads of the search, and its sequential parts, go on.
SearchThread(t) ==
  program = "search" /\ Search!Thread(t) /\ UNCHANGED <<program, given, genVars, ingestVars>>
SearchMain ==
  /\ program = "search" /\ (Search!find_bfs_root \/ Search!EndOfLevel \/ Search!count_level)
  /\ UNCHANGED <<program, given, genVars, ingestVars>>

-----------------------------------------------------------------------------
(* What a search is to find, by the edges that were given *)

FirstSource == CHOOSE v \in {e[1] : e \in given} : \A e \in given : v <= e[1]

\* The vertices at a distance of at most n.
Within[n \in DOMAIN index] ==
  IF n = 0 THEN {FirstSource}
  ELSE LET before == Within[n - 1] IN before \cup {e[2] : e \in {d \in given : d[1] \in before}}

\* Through all of the programs: the levels that the search ends with are the distances in
\* the graph of the edges that were generated, or given, from the first vertex that has an
\* edge; however the threads of the programs were scheduled.
SearchOfGiven ==
  program = "search" /\ phase = "counted" =>
    \A v \in DOMAIN level : \A n \in DOMAIN index :
      (v \in Within[n]) <=> (level[v] # Search!k_infinite_level /\ level[v] <= n)

\* A search that is started ends.
BfsEnds == program = "search" ~> phase \in {"counted", "aborted"}

\* What each of the programs promises.  The generator writes each edge once, and where asked
\* in both directions.  Threads that ingest edges write to slots of the right vertex, each
\* to its own, and the graph file has the edges of the lists.  In the search a vertex has its
\* distance as its level from the moment it has one, and a bit only after its level.
ToolsSound ==
  /\ Generate!SanityCheckHolds
  /\ program = "generate" => Generate!BothDirections
  /\ program = "ingest" => Ingest!SlotsApart /\ Ingest!GraphStored /\ Ingest!WholePages
  /\ program = "search" => /\ Search!TypeOK /\ Search!LevelIsDistance
                           /\ Search!BitMeansLevel /\ Search!CountsRight
=============================================================================
