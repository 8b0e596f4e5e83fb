------------------------------- MODULE Stream -------------------------------
(***************************************************************************)
(* The STREAM example over umap, run again and again on one file system: a *)
(* run with is_init makes the files of the three arrays, a run without it  *)
(* checks that it finds them so, runs the four kernels ntimes, and checks  *)
(* the results.  The threads of a loop handle elements in any order; umap  *)
(* may write a page back, or read it again, at any time; the program may   *)
(* be killed.  A page holds PageWords elements.                            *)
(***************************************************************************)
EXTENDS Integers, FiniteSets

CONSTANTS Sizes,        \* the array sizes that are tried
          PageWords,    \* elements in a page
          ntimes,       \* NTIMES
          MaxRuns,      \* a bound: how often the program is run
          Leftover,     \* what the buffer of a fill worker may hold from before
          MaxStale,     \* a bound: how many words at a time come from such a buffer
          Absent

VARIABLES
  disk,            \* of each array's file: its elements, or Absent
  mem,             \* the mapped arrays
  array_size, is_init,
  stage, k,        \* the loop that is running, and the iteration of the main loop
  handled,         \* the elements that the threads have handled in this loop
  dirty,           \* the <<array, page>> that were written to and not yet written back
  whole,           \* the files had every page of the arrays when the run began
  runs,
  status           \* what the last run has come to

vars == <<disk, mem, array_size, is_init, stage, k, handled, dirty, whole, runs, status>>

Arrays == {"a", "b", "c"}
scalar == 3
initial == [a |-> 1, b |-> 2, c |-> 0]

\* Rounded up to whole pages.
umap_region_length(size) == ((size + PageWords - 1) \div PageWords) * PageWords
Elements == 0..(array_size - 1)
Words(size) == 0..(umap_region_length(size) - 1)
PageOf(j) == {i \in Words(array_size) : i \div PageWords = j \div PageWords}

\* A word of a file, 0 beyond its end: in the hole that a later page leaves, and in the
\* buffer of a fill worker that has read nothing yet.
WordOf(file, j) == IF file # Absent /\ j \in DOMAIN file THEN file[j] ELSE 0

-----------------------------------------------------------------------------

Init ==
  /\ disk = [x \in Arrays |-> Absent] /\ mem = [x \in Arrays |-> Absent]
  /\ array_size = 0 /\ is_init = FALSE
  /\ stage = "idle" /\ k = 0 /\ handled = {} /\ runs = 0 /\ status = "none"
  /\ dirty = {} /\ whole = FALSE

\* What the operating system may refuse.
Faults(init) == {"open"} \cup (IF init THEN {"unlink", "fallocate"} ELSE {})

\* The file after open_prealloc_file: made anew with is_init, and otherwise opened, or created
\* with nothing in it.
open_prealloc_file(file, init, size, fault) ==
  CASE fault = "unlink" -> file
    [] fault = "open" -> IF init THEN Absent ELSE file
    [] fault = "fallocate" -> << >>
    [] fault = "none" /\ init -> [j \in Words(size) |-> 0]
    [] fault = "none" /\ ~init -> IF file = Absent THEN << >> ELSE file

\* The start of main.  All three files are tried.  Where one is refused nothing is mapped,
\* and the first use of an array ends the program.
Start(size, init) ==
  /\ stage = "idle" /\ runs < MaxRuns
  /\ runs' = runs + 1 /\ array_size' = size /\ is_init' = init
  /\ \/ /\ disk' = [x \in Arrays |-> open_prealloc_file(disk[x], init, size, "none")]
        /\ mem' = [x \in Arrays |-> [j \in Words(size) |-> WordOf(disk'[x], j)]]
        /\ stage' = (IF init THEN "init" ELSE "check") /\ status' = "running"
     \/ /\ \E refused \in Arrays, fault \in Faults(init) :
             disk' = [x \in Arrays |-> open_prealloc_file(disk[x], init, size,
                                         IF x = refused THEN fault ELSE "none")]
        /\ status' = "crashed" /\ UNCHANGED <<mem, stage>>
  /\ whole' = \A x \in Arrays : disk'[x] # Absent /\ Words(size) \subseteq DOMAIN disk'[x]
  /\ k' = 0 /\ handled' = {} /\ UNCHANGED dirty

\* The loop's body, for element j: what it stores in which array.
Body(s, j) ==
  CASE s = "double" -> [a |-> 2 * mem["a"][j], b |-> mem["b"][j], c |-> mem["c"][j]]
    [] s = "copy"   -> [a |-> mem["a"][j], b |-> mem["b"][j], c |-> mem["a"][j]]
    [] s = "scale"  -> [a |-> mem["a"][j], b |-> scalar * mem["c"][j], c |-> mem["c"][j]]
    [] s = "add"    -> [a |-> mem["a"][j], b |-> mem["b"][j], c |-> mem["a"][j] + mem["b"][j]]
    [] s = "triad"  -> [a |-> mem["b"][j] + scalar * mem["c"][j], b |-> mem["b"][j],
                        c |-> mem["c"][j]]
    [] s = "init"   -> initial

Stored(s) ==
  CASE s \in {"double", "triad"} -> {"a"} [] s = "scale" -> {"b"} [] s \in {"copy", "add"} -> {"c"}
    [] s = "init" -> Arrays

\* One element of a parallel loop that stores.
Iterate(j) ==
  /\ stage \in {"init", "double", "copy", "scale", "add", "triad"}
  /\ j \in Elements \ handled
  /\ mem' = [x \in Arrays |-> [mem[x] EXCEPT ![j] = Body(stage, j)[x]]]
  /\ dirty' = dirty \cup {<<x, PageOf(j)>> : x \in Stored(stage)}
  /\ handled' = handled \cup {j}
  /\ UNCHANGED <<disk, array_size, is_init, stage, k, whole, runs, status>>

\* Mutant: b and c alone are looked at.
NotA(j) == mem["b"][j] = initial["b"] /\ mem["c"][j] = initial["c"]

AsInitialised(j) == \A x \in Arrays : mem[x][j] = initial[x]

End(s) ==
  /\ stage' = "idle" /\ status' = s
  /\ mem' = [x \in Arrays |-> Absent] /\ handled' = {} /\ dirty' = {}

\* The loop that looks whether the files are as a run with is_init leaves them.
CheckInit ==
  /\ stage = "check"
  /\ IF \A j \in Elements : AsInitialised(j)
     THEN stage' = "double" /\ UNCHANGED <<mem, handled, dirty, status>>
     ELSE End("exit 13")
  /\ UNCHANGED <<disk, array_size, is_init, k, whole, runs>>

\* The loop after loop s.
After(s) ==
  CASE s = "init" -> "unmap" [] s = "double" -> "copy" [] s = "copy" -> "scale"
    [] s = "scale" -> "add" [] s = "add" -> "triad"
    [] s = "triad" -> IF k + 1 < ntimes THEN "copy" ELSE "results"

\* The end of a parallel loop.
Barrier ==
  /\ stage \in {"init", "double", "copy", "scale", "add", "triad"}
  /\ handled = Elements
  /\ stage' = After(stage)
  /\ k' = IF stage = "triad" THEN k + 1 ELSE k
  /\ handled' = {}
  /\ UNCHANGED <<disk, mem, array_size, is_init, dirty, whole, runs, status>>

\* checkSTREAMresults replays the loops for one element.
Replay ==
  LET after[n \in 0..ntimes] ==
        IF n = 0 THEN [initial EXCEPT !["a"] = 2 * @]
        ELSE LET aj == after[n - 1]["a"]
                 bj == scalar * aj
                 cj == aj + bj
             IN [a |-> bj + scalar * cj, b |-> bj, c |-> cj]
  IN after[ntimes]

\* In arrays this small no average error but zero is below epsilon.
checkSTREAMresults ==
  /\ stage = "results"
  /\ status' = IF \A x \in Arrays, j \in Elements : mem[x][j] = Replay[x]
               THEN "validates" ELSE "failed"
  /\ stage' = "unmap"
  /\ UNCHANGED <<disk, mem, array_size, is_init, k, handled, dirty, whole, runs>>

-----------------------------------------------------------------------------

\* The words of a page, or of several, of array x go to its file.
WrittenBack(file, x, page) ==
  [j \in DOMAIN file \cup page |-> IF j \in page THEN mem[x][j] ELSE WordOf(file, j)]

\* umap evicts a page that was written to.
Evict(x, page) ==
  /\ <<x, page>> \in dirty
  /\ disk' = [disk EXCEPT ![x] = WrittenBack(@, x, page)]
  /\ dirty' = dirty \ {<<x, page>>}
  /\ UNCHANGED <<mem, array_size, is_init, stage, k, handled, whole, runs, status>>

\* The words of clean pages beyond the end of a file that are not as they were first read.
Stale == {<<x, j>> \in Arrays \X Words(array_size) :
            /\ j \notin DOMAIN disk[x] /\ <<x, PageOf(j)>> \notin dirty
            /\ mem[x][j] # WordOf(disk[x], j)}

\* A page beyond the end of its file is read, or evicted and read again.  pread returns 0,
\* which is no error, and the worker copies in what its buffer holds.
Refill(x, j, word) ==
  /\ stage # "idle"
  /\ j \notin DOMAIN disk[x] /\ <<x, PageOf(j)>> \notin dirty
  /\ Cardinality(Stale \cup {<<x, j>>}) <= MaxStale
  /\ mem' = [mem EXCEPT ![x][j] = word]
  /\ UNCHANGED <<disk, array_size, is_init, stage, k, handled, dirty, whole, runs, status>>

\* Mutant: a stays mapped.
TwoUnmapped == Arrays \ {"a"}

Unmapped == Arrays

\* uunmap of each array.
Unmap ==
  /\ stage = "unmap"
  /\ disk' = [x \in Arrays |-> IF x \in Unmapped
                               THEN WrittenBack(disk[x], x, UNION {d[2] : d \in {e \in dirty : e[1] = x}})
                               ELSE disk[x]]
  /\ End(IF is_init THEN "initialised" ELSE status)
  /\ UNCHANGED <<array_size, is_init, k, whole, runs>>

\* The program is killed.
Kill ==
  /\ stage # "idle"
  /\ End("crashed")
  /\ UNCHANGED <<disk, array_size, is_init, k, whole, runs>>

Next ==
  \/ \E size \in Sizes, init \in BOOLEAN : Start(size, init)
  \/ \E j \in Elements : Iterate(j)
  \/ \E d \in dirty : Evict(d[1], d[2])
  \/ \E x \in Arrays, j \in Words(array_size), word \in Leftover : Refill(x, j, word)
  \/ CheckInit \/ Barrier \/ checkSTREAMresults \/ Unmap \/ Kill

Spec == Init /\ [][Next]_vars

-----------------------------------------------------------------------------

\* A run that gets past the check of its files, and whose files had all of its pages, finds
\* its results right, whatever runs were killed, and with whatever pages written back, before it.
NeverFailsValidation == whole => status # "failed"

\* The same for any run.  Does not hold for one of more elements than the files have pages for:
\* what is read beyond their end may pass the check, and be read differently later.
AlwaysValidates == status # "failed"

AcceptsInitialised ==
  (status = "initialised" /\ status' = "running" /\ ~is_init' /\ array_size' <= array_size) =>
    \A x \in Arrays, j \in 0..(array_size' - 1) : mem'[x][j] = initial[x]

RefusesResults ==
  (status = "validates" /\ stage = "idle" /\ status' = "running" /\ ~is_init') =>
    \E x \in Arrays, j \in 0..(array_size' - 1) : mem'[x][j] # initial[x]

\* After a run that has initialised the files, a run of no more elements is not refused.
InitialisedIsAccepted == [][AcceptsInitialised]_vars

\* A run with results changes the files: the next run without is_init is refused.
ResultsAreRefused == [][RefusesResults]_vars
=============================================================================
