------------------------------ MODULE EdgeList ------------------------------
(***************************************************************************)
(* generate_edge_list: each thread walks an iterator of its own            *)
(* rmat_edge_generator and writes the edges to a file of its own.  The     *)
(* random numbers are any choice of a quadrant for each bit.               *)
(***************************************************************************)
EXTENDS Hash, Integers, Sequences, FiniteSets, FiniteSetsExt

CONSTANTS EdgeCounts,    \* -e
          ThreadCounts,  \* what OpenMP may give the program
          vertex_scale   \* -v

VARIABLES
  edge_count, nthreads, undirected, scramble,
  asserts,                          \* the build has its asserts
  count, current, make_undirected,  \* of each thread's iterator
  pc,                               \* of each thread: "begin", "loop", "closed"
  files,                            \* of each thread: the edges it has written
  status                            \* "running", "finished" or "aborted"

options == <<edge_count, nthreads, undirected, scramble, asserts>>
vars == <<options, count, current, make_undirected, pc, files, status>>

Threads == 0..(nthreads - 1)
max_vertex_id == 2^vertex_scale - 1

-----------------------------------------------------------------------------

\* last may be -1, the largest size_t, and then len is 0.
num_local_edges(first, last, myid, threads) ==
  LET len == last - first + 1
      chunk == len \div threads
      r == len % threads
      start == IF myid < r THEN first + (chunk + 1) * myid
               ELSE first + (chunk + 1) * r + chunk * (myid - r)
      end == IF myid < r THEN start + chunk ELSE start + chunk - 1
  IN (end - start) + 1

m_edge_count(t) == num_local_edges(0, edge_count - 1, t, nthreads)

\* Quadrant 1 moves v, 2 moves u, 3 both, by half of what is left.
Quadrants == [1..vertex_scale -> 0..3]
Steps(q, moving) ==
  MapThenSumSet(LAMBDA j : 2^(vertex_scale - j), {j \in 1..vertex_scale : q[j] \in moving})

generate_edge(q) ==
  LET u == Steps(q, {2, 3})
      v == Steps(q, {1, 3})
  IN IF scramble THEN <<hash_nbits(u, vertex_scale), hash_nbits(v, vertex_scale)>> ELSE <<u, v>>

-----------------------------------------------------------------------------

Init ==
  /\ edge_count \in EdgeCounts /\ nthreads \in ThreadCounts
  /\ undirected \in BOOLEAN /\ scramble \in BOOLEAN /\ asserts \in BOOLEAN
  /\ count = [t \in Threads |-> 0] /\ current = [t \in Threads |-> <<0, 0>>]
  /\ make_undirected = [t \in Threads |-> FALSE]
  /\ pc = [t \in Threads |-> "begin"] /\ files = [t \in Threads |-> <<>>]
  /\ status = "running"

Swapped(e) == <<e[2], e[1]>>

\* get_next, with counted as the count that it is to leave after a new edge.
get_next(t, counted) ==
  IF undirected /\ make_undirected[t]
  THEN /\ current' = [current EXCEPT ![t] = Swapped(@)]
       /\ make_undirected' = [make_undirected EXCEPT ![t] = FALSE]
       /\ UNCHANGED count
  ELSE /\ \E q \in Quadrants : current' = [current EXCEPT ![t] = generate_edge(q)]
       /\ count' = [count EXCEPT ![t] = counted]
       /\ make_undirected' = [make_undirected EXCEPT ![t] = TRUE]

\* begin resets the count to 0.
CountAtBegin == 0

\* Whether the first edge can be made: hash_nbits asserts that there are bits enough.
CanGenerate == scramble /\ asserts => Supported(vertex_scale)

\* A thread opens its file and takes begin; a file that cannot be opened aborts the program,
\* and so does a failed assert.
Begin(t) ==
  /\ t \in Threads /\ status = "running" /\ pc[t] = "begin"
  /\ \/ status' = "aborted" /\ UNCHANGED <<count, current, make_undirected, pc>>
     \/ /\ CanGenerate
        /\ get_next(t, CountAtBegin)
        /\ pc' = [pc EXCEPT ![t] = "loop"]
        /\ UNCHANGED status
  /\ UNCHANGED <<options, files>>

\* The loop's test, its body, and the increment.
Step(t) ==
  /\ t \in Threads /\ status = "running" /\ pc[t] = "loop"
  /\ IF count[t] = m_edge_count(t)
     THEN pc' = [pc EXCEPT ![t] = "closed"] /\ UNCHANGED <<files, count, current, make_undirected>>
     ELSE /\ files' = [files EXCEPT ![t] = Append(@, current[t])]
          /\ get_next(t, count[t] + 1)
          /\ UNCHANGED pc
  /\ UNCHANGED <<options, status>>

num_generated_edges == MapThenSumSet(LAMBDA t : Len(files[t]), Threads)
num_edges_supposed_to_generate == IF undirected THEN edge_count * 2 ELSE edge_count

\* The sanity check, after the threads have joined.
SanityCheck ==
  /\ status = "running" /\ \A t \in Threads : pc[t] = "closed"
  /\ status' = IF num_generated_edges = num_edges_supposed_to_generate THEN "finished" ELSE "wrong"
  /\ UNCHANGED <<options, count, current, make_undirected, pc, files>>

Ended == status # "running" /\ UNCHANGED vars

Next == SanityCheck \/ Ended \/ \E t \in 0..(Max(ThreadCounts) - 1) : Begin(t) \/ Step(t)

Spec == Init /\ [][Next]_vars

-----------------------------------------------------------------------------

\* The sanity check never fails: the threads' shares add up, and an iterator gives its
\* share, in both directions where that is asked, also when a share is nothing.
SanityCheckHolds == status # "wrong"

Times(t, e) == Cardinality({k \in 1..Len(files[t]) : files[t][k] = e})

\* A thread's file has every edge as often as its reverse, when both directions are asked
\* for, and no vertex past max_vertex_id.
BothDirections ==
  \A t \in Threads : \A k \in 1..Len(files[t]) :
    /\ files[t][k] \in (0..max_vertex_id) \X (0..max_vertex_id)
    /\ (undirected /\ pc[t] = "closed") =>
         Times(t, files[t][k]) = Times(t, <<files[t][k][2], files[t][k][1]>>)
=============================================================================
