------------------------------ MODULE GraphFile ------------------------------
(***************************************************************************)
(* The graph file of the breadth-first search example: ingest_edge_list    *)
(* makes it from edge lists, with the threads of OpenMP loops over the     *)
(* lists, and the search maps it (map_graph).  The file is a function from *)
(* the numbers of its 64-bit words; the index comes first, then the edges. *)
(***************************************************************************)
EXTENDS Integers, Sequences, FiniteSets, FiniteSetsExt

CONSTANTS Inputs,       \* what may be ingested: sequences of edge lists
          Unreadable,   \* the edge list that cannot be opened
          Threads,      \* numbered from 0
          PageWords     \* words in a page of umap

VARIABLES
  edge_lists, max_id, num_edges,
  index,             \* the array that counts the degrees, and then holds the next free slots
  file,              \* the words of the graph file, or those of its mapping while it is mapped
  done,              \* how many edges of its lists each thread has handled in this loop
  pos,               \* the slot a thread has captured, or -1
  phase

vars == <<edge_lists, max_id, num_edges, index, file, done, pos, phase>>

None == -1

-----------------------------------------------------------------------------
(* The iterations of a loop over the files, in one chunk for each thread *)

ChunkSize == (Len(edge_lists) + Cardinality(Threads) - 1) \div Cardinality(Threads)
Chunk(t) == {f \in 1..Len(edge_lists) : (f - 1) \div ChunkSize = t}

\* The edges of its files, in the order in which a thread reads them.
Lines[f \in 0..Len(edge_lists)] ==
  [t \in Threads |-> IF f = 0 THEN <<>>
                     ELSE Lines[f - 1][t] \o (IF f \in Chunk(t) THEN edge_lists[f] ELSE <<>>)]
Read(t) == Lines[Len(edge_lists)][t]
Left(t) == done[t] < Len(Read(t))
source(t) == Read(t)[done[t] + 1][1]
target(t) == Read(t)[done[t] + 1][2]
LoopDone == \A t \in Threads : ~Left(t) /\ pos[t] = None

Edges == UNION {{<<f, l>> : l \in 1..Len(edge_lists[f])} : f \in 1..Len(edge_lists)}
EdgeAt(e) == edge_lists[e[1]][e[2]]

-----------------------------------------------------------------------------

Init ==
  /\ edge_lists \in Inputs
  /\ max_id = 0 /\ num_edges = 0
  /\ index = << >> /\ file = << >>
  /\ done = [t \in Threads |-> 0] /\ pos = [t \in Threads |-> None]
  /\ phase = "check"

\* The loop's sum and maximum are reductions: threads share nothing until they end.
check_edge_list ==
  /\ phase = "check"
  /\ IF \E f \in 1..Len(edge_lists) : edge_lists[f] = Unreadable
     THEN phase' = "aborted" /\ UNCHANGED <<max_id, num_edges>>
     ELSE /\ max_id' = Max({0} \cup UNION {{EdgeAt(e)[1], EdgeAt(e)[2]} : e \in Edges})
          /\ num_edges' = Cardinality(Edges)
          /\ phase' = "create"
  /\ UNCHANGED <<edge_lists, index, file, done, pos>>

graph_size == max_id + 2 + num_edges

\* main creates an empty file, extends it with zeroes, and maps it; each may fail.  Then
\* ingest_edges starts with an index of zeroes.
CreateGraph ==
  /\ phase = "create"
  /\ \/ /\ phase' = "aborted" /\ UNCHANGED <<index, file>>
     \/ /\ file' = [k \in 0..(graph_size - 1) |-> 0]
        /\ index' = [v \in 0..(max_id + 1) |-> 0]
        /\ phase' = "count"
  /\ UNCHANGED <<edge_lists, max_id, num_edges, done, pos>>

CountDegree(t) ==
  /\ phase = "count" /\ Left(t)
  /\ index' = [index EXCEPT ![source(t)] = @ + 1]
  /\ done' = [done EXCEPT ![t] = @ + 1]
  /\ UNCHANGED <<edge_lists, max_id, num_edges, file, pos, phase>>

\* A list cannot be opened a second time.
CannotOpen(t) ==
  /\ phase = "count" /\ Left(t)
  /\ phase' = "aborted"
  /\ UNCHANGED <<edge_lists, max_id, num_edges, index, file, done, pos>>

\* Mutant: the counts stay where they are.
NotShifted(ix) == ix

\* The loop that moves every count up by one.
Shifted(ix) == [v \in 0..(max_id + 1) |-> IF v = 0 THEN 0 ELSE ix[v - 1]]

\* The loop that adds them up.
Summed(ix) ==
  LET sum[v \in 0..(max_id + 1)] == IF v = 0 THEN ix[0] ELSE ix[v] + sum[v - 1]
  IN sum

\* The index is constructed and written to the file.
ConstructIndex ==
  /\ phase = "count" /\ LoopDone
  /\ index' = Summed(Shifted(index))
  /\ file' = [k \in DOMAIN file |-> IF k < max_id + 2 THEN index'[k] ELSE file[k]]
  /\ done' = [t \in Threads |-> 0]
  /\ phase' = "load"
  /\ UNCHANGED <<edge_lists, max_id, num_edges, pos>>

\* pos = index[source]++, atomically.
Capture(t) ==
  /\ phase = "load" /\ Left(t) /\ pos[t] = None
  /\ pos' = [pos EXCEPT ![t] = index[source(t)]]
  /\ index' = [index EXCEPT ![source(t)] = @ + 1]
  /\ UNCHANGED <<edge_lists, max_id, num_edges, file, done, phase>>

edges_offset == max_id + 2

StoreEdge(t) ==
  /\ phase = "load" /\ pos[t] # None
  /\ file' = [file EXCEPT ![edges_offset + pos[t]] = target(t)]
  /\ pos' = [pos EXCEPT ![t] = None]
  /\ done' = [done EXCEPT ![t] = @ + 1]
  /\ UNCHANGED <<edge_lists, max_id, num_edges, index, phase>>

\* msync and munmap.
Close ==
  /\ phase = "load" /\ LoopDone
  /\ phase' = "closed"
  /\ UNCHANGED <<edge_lists, max_id, num_edges, index, file, done, pos>>

-----------------------------------------------------------------------------
(* The search maps the file *)

calculate_umap_pagesize_aligned_graph_file_size(num_vertices, edges) ==
  LET original == num_vertices + 1 + edges
  IN IF original % PageWords = 0 THEN original ELSE original + (PageWords - (original % PageWords))

\* ftruncate only where the file is smaller.
extend_file_size(f, size) ==
  [k \in 0..(Max({size, Cardinality(DOMAIN f)}) - 1) |-> IF k \in DOMAIN f THEN f[k] ELSE 0]

\* Extending the file may fail, and then mapping it.
map_graph(use_mmap) ==
  /\ phase = "closed"
  /\ \/ ~use_mmap /\ phase' = "aborted" /\ UNCHANGED file
     \/ /\ file' = IF use_mmap THEN file
                   ELSE extend_file_size(file, calculate_umap_pagesize_aligned_graph_file_size(
                                                 max_id + 1, num_edges))
        /\ phase' \in {"aborted", IF use_mmap THEN "mmapped" ELSE "umapped"}
  /\ UNCHANGED <<edge_lists, max_id, num_edges, index, done, pos>>

Ended == phase \in {"aborted", "mmapped", "umapped"} /\ UNCHANGED vars

Thread(t) == CountDegree(t) \/ CannotOpen(t) \/ Capture(t) \/ StoreEdge(t)

Next ==
  \/ check_edge_list \/ CreateGraph \/ ConstructIndex \/ Close \/ Ended
  \/ \E t \in Threads : Thread(t)
  \/ \E use_mmap \in BOOLEAN : map_graph(use_mmap)

Spec == Init /\ [][Next]_vars

-----------------------------------------------------------------------------

\* What a thread is about to write is a slot of its edge's source, and no other thread's.
SlotsApart ==
  \A t \in Threads : pos[t] # None =>
    /\ file[source(t)] <= pos[t] /\ pos[t] < file[source(t) + 1]
    /\ \A u \in Threads \ {t} : pos[u] # pos[t]

\* The search finds, between two numbers of the index, the targets of the vertex in the edge
\* lists, each as often as it is there, whatever the threads' order was.
GraphStored ==
  phase \in {"closed", "mmapped", "umapped"} =>
    /\ file[0] = 0 /\ file[max_id + 1] = num_edges
    /\ \A v, w \in 0..max_id :
         Cardinality({k \in file[v]..(file[v + 1] - 1) : file[edges_offset + k] = w})
           = Cardinality({e \in Edges : EdgeAt(e) = <<v, w>>})

\* What umap is given is a whole number of its pages, and holds the graph.
WholePages ==
  phase = "umapped" =>
    /\ Cardinality(DOMAIN file) % PageWords = 0
    /\ Cardinality(DOMAIN file) >= graph_size
=============================================================================
