--------------------------------- MODULE Bfs ---------------------------------
(***************************************************************************)
(* The breadth-first search example: bfs::run_bfs over a mapped graph with *)
(* the threads of an OpenMP loop, which mark vertices without locks.  A    *)
(* word of the visited bitmap has WordBits bits (64 in the code), a level  *)
(* LevelBits bits (16).  Each read and each write of shared memory is a    *)
(* step of its own.                                                        *)
(***************************************************************************)
EXTENDS Integers, FiniteSets

CONSTANTS Graphs,            \* the mapped files, as [index, edges]
          Threads,           \* numbered from 0
          WordBits, LevelBits

Levels == 0..(2^LevelBits - 1)
k_infinite_level == 2^LevelBits - 1

VARIABLES
  index, edges,
  level, visited_filter,
  current_level, visited_new_vertex,
  pc, src, i, word,     \* of each thread; word is what |= has loaded
  cnt,                  \* of count_level
  phase                 \* "init", "bfs", "done", "counted", "invalid" or "aborted"

graphVars == <<index, edges>>
vars == <<graphVars, level, visited_filter, current_level, visited_new_vertex, pc, src, i, word,
          cnt, phase>>

\* -n, given as the graph has it: the index has one number more.
num_vertices == Cardinality(DOMAIN index) - 1
Vertices == 0..(num_vertices - 1)

-----------------------------------------------------------------------------
(* utility/bitmap.hpp *)

bitmap_size(size) == IF size = 0 THEN 0 ELSE (size - 1) \div WordBits + 1
bitmap_global_pos(pos) == pos \div WordBits

bitmap_local_pos(pos) == pos % WordBits

\* A word is the set of its bits.
get_bit(bitmap, pos) == bitmap_local_pos(pos) \in bitmap[bitmap_global_pos(pos)]
Words == 0..(bitmap_size(num_vertices) - 1)

-----------------------------------------------------------------------------
(* schedule(static): one chunk of consecutive vertices for each thread *)

ChunkSize == (num_vertices + Cardinality(Threads) - 1) \div Cardinality(Threads)
First(t) == t * ChunkSize
EndOf(t) == IF (t + 1) * ChunkSize > num_vertices THEN num_vertices - 1 ELSE (t + 1) * ChunkSize - 1

TypeOK ==
  /\ level \in [Vertices -> Levels]
  /\ visited_filter \in [Words -> SUBSET (0..(WordBits - 1))]
  /\ current_level \in Levels /\ visited_new_vertex \in BOOLEAN
  /\ pc \in [Threads -> {"src", "edge", "level", "mark", "load", "store", "done"}]
  /\ src \in [Threads -> 0..num_vertices] /\ i \in [Threads -> Nat]
  /\ word \in [Threads -> SUBSET (0..(WordBits - 1))]
  /\ phase \in {"init", "bfs", "done", "counted", "invalid", "aborted"}

\* init_bfs.
Init ==
  /\ \E g \in Graphs : index = g.index /\ edges = g.edges
  /\ level = [v \in Vertices |-> k_infinite_level]
  /\ visited_filter = [w \in Words |-> {}]
  /\ current_level = 0 /\ visited_new_vertex = FALSE
  /\ pc = [t \in Threads |-> "src"] /\ src = [t \in Threads |-> First(t)]
  /\ i = [t \in Threads |-> 0] /\ word = [t \in Threads |-> {}]
  /\ cnt = << >> /\ phase = "init"

HasEdges(v) == index[v + 1] - index[v] > 0
root == CHOOSE v \in Vertices : HasEdges(v) /\ \A u \in Vertices : HasEdges(u) => v <= u

find_bfs_root ==
  /\ phase = "init"
  /\ IF \E v \in Vertices : HasEdges(v)
     THEN level' = [level EXCEPT ![root] = 0] /\ phase' = "bfs"
     ELSE phase' = "aborted" /\ UNCHANGED level
  /\ UNCHANGED <<graphVars, cnt, visited_filter, current_level, visited_new_vertex, pc, src, i, word>>

-----------------------------------------------------------------------------
(* run_bfs *)

Goto(t, l) == pc' = [pc EXCEPT ![t] = l]
trg(t) == edges[i[t]]

NextSrc(t) ==
  /\ phase = "bfs" /\ pc[t] = "src"
  /\ IF src[t] > EndOf(t) THEN Goto(t, "done") /\ UNCHANGED <<src, i>>
     ELSE IF level[src[t]] # current_level
     THEN src' = [src EXCEPT ![t] = @ + 1] /\ UNCHANGED <<pc, i>>
     ELSE Goto(t, "edge") /\ i' = [i EXCEPT ![t] = index[src[t]]] /\ UNCHANGED src
  /\ UNCHANGED <<graphVars, cnt, level, visited_filter, current_level, visited_new_vertex, word, phase>>

\* The loop test, and the first half of the condition.
Edge(t) ==
  /\ phase = "bfs" /\ pc[t] = "edge"
  /\ IF i[t] >= index[src[t] + 1]
     THEN Goto(t, "src") /\ src' = [src EXCEPT ![t] = @ + 1] /\ UNCHANGED i
     ELSE IF get_bit(visited_filter, trg(t))
     THEN i' = [i EXCEPT ![t] = @ + 1] /\ UNCHANGED <<pc, src>>
     ELSE Goto(t, "level") /\ UNCHANGED <<src, i>>
  /\ UNCHANGED <<graphVars, cnt, level, visited_filter, current_level, visited_new_vertex, word, phase>>

\* Mutant: the bitmap alone decides.
BitmapOnly(t) == TRUE

Unvisited(t) == level[trg(t)] = k_infinite_level

\* The second half.
Level(t) ==
  /\ phase = "bfs" /\ pc[t] = "level"
  /\ IF Unvisited(t) THEN Goto(t, "mark") /\ UNCHANGED i
     ELSE Goto(t, "edge") /\ i' = [i EXCEPT ![t] = @ + 1]
  /\ UNCHANGED <<graphVars, cnt, level, visited_filter, current_level, visited_new_vertex, src, word,
                 phase>>

Mark(t) ==
  /\ phase = "bfs" /\ pc[t] = "mark"
  /\ level' = [level EXCEPT ![trg(t)] = (current_level + 1) % 2^LevelBits]
  /\ Goto(t, "load")
  /\ UNCHANGED <<graphVars, cnt, visited_filter, current_level, visited_new_vertex, src, i, word, phase>>

\* set_bit loads the word, and stores it with the bit.
set_bit(t) ==
  /\ phase = "bfs"
  /\ \/ /\ pc[t] = "load"
        /\ word' = [word EXCEPT ![t] = visited_filter[bitmap_global_pos(trg(t))]]
        /\ Goto(t, "store")
        /\ UNCHANGED <<visited_filter, visited_new_vertex, i>>
     \/ /\ pc[t] = "store"
        /\ visited_filter' = [visited_filter EXCEPT ![bitmap_global_pos(trg(t))] =
                                word[t] \cup {bitmap_local_pos(trg(t))}]
        /\ word' = [word EXCEPT ![t] = {}]
        /\ visited_new_vertex' = TRUE
        /\ i' = [i EXCEPT ![t] = @ + 1]
        /\ Goto(t, "edge")
  /\ UNCHANGED <<graphVars, cnt, level, current_level, src, phase>>

\* Mutant: the flag is not reset.
FlagKept == visited_new_vertex

FlagReset == FALSE

\* The end of the parallel loop, and of the level.
EndOfLevel ==
  /\ phase = "bfs" /\ \A t \in Threads : pc[t] = "done"
  /\ IF visited_new_vertex
     THEN /\ current_level' = (current_level + 1) % 2^LevelBits
          /\ visited_new_vertex' = FlagReset
          /\ pc' = [t \in Threads |-> "src"] /\ src' = [t \in Threads |-> First(t)]
          /\ UNCHANGED phase
     ELSE phase' = "done" /\ UNCHANGED <<current_level, visited_new_vertex, pc, src>>
  /\ UNCHANGED <<graphVars, cnt, level, visited_filter, i, word>>

max_level == current_level

count_level ==
  /\ phase = "done"
  /\ IF \E v \in Vertices : level[v] # k_infinite_level /\ level[v] > max_level
     THEN phase' = "invalid" /\ UNCHANGED cnt
     ELSE /\ cnt' = [l \in 0..max_level |-> Cardinality({v \in Vertices : level[v] = l})]
          /\ phase' = "counted"
  /\ UNCHANGED <<graphVars, level, visited_filter, current_level, visited_new_vertex, pc, src, i, word>>

Ended == phase \in {"counted", "invalid", "aborted"} /\ UNCHANGED vars

Thread(t) == NextSrc(t) \/ Edge(t) \/ Level(t) \/ Mark(t) \/ set_bit(t)

Next == find_bfs_root \/ (\E t \in Threads : Thread(t)) \/ EndOfLevel \/ count_level \/ Ended

Spec == Init /\ [][Next]_vars

FairSpec ==
  Spec /\ WF_vars(find_bfs_root) /\ WF_vars(EndOfLevel) /\ WF_vars(count_level)
       /\ \A t \in Threads : WF_vars(Thread(t))

-----------------------------------------------------------------------------
(* The distances that the search is to find *)

Targets(v) == {edges[k] : k \in index[v]..(index[v + 1] - 1)}

\* The vertices at a distance of at most n from the root.
Ball[n \in 0..num_vertices] ==
  IF n = 0 THEN {root}
  ELSE LET before == Ball[n - 1] IN before \cup UNION {Targets(v) : v \in before}

Distance(v) == CHOOSE n \in 0..num_vertices : v \in Ball[n] /\ \A m \in 0..(n - 1) : v \notin Ball[m]

\* A vertex has its distance from the root as its level from the moment it has a level,
\* although threads race for it, and in the end every vertex that can be reached has one.
LevelIsDistance ==
  phase \in {"bfs", "done", "counted"} =>
    \A v \in Vertices :
      \/ level[v] = k_infinite_level /\ (phase # "bfs" => v \notin Ball[num_vertices])
      \/ v \in Ball[num_vertices] /\ level[v] = Distance(v)

\* A bit is set only for a vertex that has its level: skipping it is right even though
\* set_bit may undo another thread's set_bit in the same word.
BitMeansLevel ==
  \A v \in Vertices : get_bit(visited_filter, v) => level[v] # k_infinite_level

\* run_bfs returns the largest distance: count_level has a place for every level, none of
\* them is empty, and it counts the vertices that can be reached at each distance.
CountsRight ==
  /\ phase # "invalid"
  /\ phase = "counted" =>
       /\ \A l \in DOMAIN cnt : cnt[l] = Cardinality({v \in Ball[num_vertices] : Distance(v) = l})
       /\ \A l \in DOMAIN cnt : cnt[l] > 0

\* The search ends.
BfsEnds == <>(phase \in {"counted", "aborted"})
=============================================================================
