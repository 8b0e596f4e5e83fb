------------------------------ MODULE UmapSort ------------------------------
(***************************************************************************)
(* The umapsort example, run several times over one file system: options,  *)
(* mapping one or several files as one array, initialisation, sorting,     *)
(* validation.  With several files only --usemmap is modelled; see Mapping *)
(* for what overlapping regions do to umap.                                *)
(***************************************************************************)
EXTENDS MapFile, FiniteSets, TLC

CONSTANTS Args,         \* the command lines that are tried
          PageWords,    \* words in a page
          MaxFiles,     \* a bound: the largest -N
          MaxRuns       \* a bound: how often the program is run

VARIABLES
  disk,           \* name 0 is the file -f names, and name i + 1 its ".i"
  options,        \* of umt_getoptions
  mappings,       \* the mapped files, as [name, at, size] in words
  arr,            \* the words of the array
  sort_ascending,
  phase, runs,
  status          \* what the last run returned

vars == <<disk, options, mappings, arr, sort_ascending, phase, runs, status>>

Names == 0..MaxFiles

-----------------------------------------------------------------------------
(* umt_getoptions *)

\* A command line is a function from the options that it has to their numbers.
Given(args, option, default) == IF option \in DOMAIN args THEN args[option] ELSE default
Flag(args, option) == option \in DOMAIN args

umt_getoptions(args) ==
  [numpages |-> Given(args, "p", 4), numfiles |-> Given(args, "N", 1),
   numthreads |-> Given(args, "t", 2), pages_to_access |-> Given(args, "a", 0),
   initonly |-> Flag(args, "initonly"), noinit |-> Flag(args, "noinit"),
   usemmap |-> Flag(args, "usemmap")]

\* What makes it print the usage and exit.
Usage(args) ==
  \/ \E option \in {"p", "N", "t"} \cap DOMAIN args : args[option] = 0
  \/ Flag(args, "help") \/ Flag(args, "unknown")
  \/ umt_getoptions(args).numpages < umt_getoptions(args).pages_to_access

arraysize == options.numpages * PageWords

-----------------------------------------------------------------------------

Init ==
  /\ disk = [n \in Names |-> Absent]
  /\ options = umt_getoptions(<<>>)
  /\ mappings = <<>> /\ arr = <<>> /\ sort_ascending = TRUE
  /\ phase = "idle" /\ runs = 0 /\ status = 0

Exit(s) == phase' = "idle" /\ status' = s /\ mappings' = <<>> /\ arr' = <<>>

Start(args) ==
  /\ phase = "idle" /\ runs < MaxRuns
  /\ runs' = runs + 1
  /\ IF Usage(args)
     THEN Exit(1) /\ UNCHANGED options
     ELSE options' = umt_getoptions(args) /\ phase' = "map" /\ UNCHANGED <<mappings, arr, status>>
  /\ UNCHANGED <<disk, sort_ascending>>

\* The mapping that all of the files are to share.
MapWhole(fault) ==
  /\ phase = "map"
  /\ LET m == map_file(disk, 0, TRUE, arraysize, fault)
     IN /\ disk' = m.disk
        /\ IF m.ok
           THEN /\ mappings' = IF options.numfiles > 1 THEN <<>>
                               ELSE <<[name |-> 0, at |-> 0, size |-> arraysize]>>
                /\ arr' = m.disk[0]
                /\ phase' = IF options.numfiles > 1 THEN "files" ELSE "init"
                /\ UNCHANGED status
           ELSE Exit(-1)
  /\ UNCHANGED <<options, sort_ascending, runs>>

\* Mutant: as many pages for each.
SamePages(f) == options.numpages \div options.numfiles

\* pagecount of file f.
pagecount(f) ==
  LET pages_per_file == options.numpages \div options.numfiles
      pages_in_last_file == pages_per_file + (options.numpages % options.numfiles)
  IN IF f = options.numfiles - 1 THEN pages_per_file ELSE pages_in_last_file

\* The end of what is mapped so far.
range == IF mappings = <<>> THEN 0
         ELSE mappings[Len(mappings)].at + mappings[Len(mappings)].size

\* One file after the other, with MAP_FIXED over the whole: words read from then on are its.
MapPart(fault) ==
  /\ phase = "files"
  /\ LET f == Len(mappings)
         size == pagecount(f) * PageWords
         m == map_file(disk, f + 1, TRUE, size, fault)
     IN /\ disk' = m.disk
        /\ IF m.ok
           THEN /\ mappings' = Append(mappings, [name |-> f + 1, at |-> range, size |-> size])
                /\ arr' = [k \in 1..arraysize |-> IF k - 1 \in range..(range + size - 1)
                                                  THEN m.disk[f + 1][k - range] ELSE arr[k]]
                /\ phase' = IF f + 1 = options.numfiles THEN "init" ELSE "files"
                /\ UNCHANGED status
           ELSE Exit(-1)
  /\ UNCHANGED <<options, sort_ascending, runs>>

InitialValue(i, rlen) == rlen - i

initdata ==
  /\ phase = "init"
  /\ arr' = IF options.noinit THEN arr
            ELSE [k \in 1..arraysize |-> InitialValue(k - 1, arraysize)]
  /\ phase' = IF options.initonly THEN "unmap" ELSE "sort"
  /\ UNCHANGED <<disk, options, mappings, sort_ascending, runs, status>>

Sort ==
  /\ phase = "sort"
  /\ sort_ascending' = (arr[1] # 1)
  /\ arr' = IF sort_ascending' THEN SortSeq(arr, LAMBDA x, y : x < y)
            ELSE SortSeq(arr, LAMBDA x, y : x > y)
  /\ phase' = "validate"
  /\ UNCHANGED <<disk, options, mappings, runs, status>>

Expected(k) == IF sort_ascending THEN k ELSE arraysize - k + 1

\* The disk once the words of the array in ws have gone to the files that hold them.
WrittenBack(ws) ==
  [n \in Names |->
     IF \E m \in 1..Len(mappings) : mappings[m].name = n
     THEN LET m == CHOOSE m \in 1..Len(mappings) : mappings[m].name = n
          IN [k \in 1..mappings[m].size |->
                IF mappings[m].at + k \in ws THEN arr[mappings[m].at + k] ELSE disk[n][k]]
     ELSE disk[n]]

Page(q) == (q * PageWords + 1)..((q + 1) * PageWords)

\* A thread starts the loop with a failed of its own, which nothing has given a value: an
\* error may be passed over.  When one is found the program exits: mmap loses nothing that
\* was written, of umap's pages those are on disk that were evicted.
validatedata ==
  /\ phase = "validate"
  /\ \/ /\ \E k \in 1..arraysize : arr[k] # Expected(k)
        /\ \E S \in SUBSET (0..(options.numpages - 1)) :
             /\ options.usemmap => S = 0..(options.numpages - 1)
             /\ disk' = WrittenBack(UNION {Page(q) : q \in S})
        /\ Exit(1)
     \/ phase' = "unmap" /\ UNCHANGED <<disk, mappings, arr, status>>
  /\ UNCHANGED <<options, sort_ascending, runs>>

unmap_file ==
  /\ phase = "unmap"
  /\ disk' = WrittenBack(1..arraysize)
  /\ Exit(0)
  /\ UNCHANGED <<options, sort_ascending, runs>>

Next ==
  \/ \E args \in Args : Start(args)
  \/ \E fault \in Faults : MapWhole(fault) \/ MapPart(fault)
  \/ initdata \/ Sort \/ validatedata \/ unmap_file

Spec == Init /\ [][Next]_vars

-----------------------------------------------------------------------------

\* The words of the files that a run has used, one file after the other.
Stored ==
  LET words[f \in 0..MaxFiles] == IF f = 0 THEN <<>> ELSE words[f - 1] \o disk[f]
  IN IF options.numfiles = 1 THEN disk[0] ELSE words[options.numfiles]

\* A run that returns 0 leaves the numbers from 1 to the size of the array in its files, in
\* ascending or in descending order; after --initonly they descend.  (--noinit: see
\* PreviousFileUsed.)
SortedOnExit ==
  phase = "idle" /\ runs > 0 /\ status = 0 /\ ~options.noinit =>
    \/ \A k \in 1..arraysize : Stored[k] = arraysize - k + 1
    \/ ~options.initonly /\ \A k \in 1..arraysize : Stored[k] = k

\* With several files, every page of the array is one of theirs once they are mapped.
FilesHoldArray ==
  phase \in {"init", "sort", "validate", "unmap"} =>
    \A k \in 0..(arraysize - 1) :
      \E m \in 1..Len(mappings) :
        /\ k \in mappings[m].at..(mappings[m].at + mappings[m].size - 1)
        /\ (mappings[m].name = 0) = (options.numfiles = 1)

\* The files are mapped over the whole that was mapped for them, and over nothing else.
\* Does not hold for three files whose pages do not divide evenly.
FilesWithinWhole ==
  \A m \in 1..Len(mappings) : mappings[m].at + mappings[m].size <= arraysize

\* --noinit: the run finds the data with which an earlier one has initialised the file.
\* Does not hold: every run unlinks it.
PreviousFileUsed ==
  [][(phase = "map" /\ phase' = "init" /\ options.noinit
        /\ disk[0] = [k \in 1..arraysize |-> InitialValue(k - 1, arraysize)])
       => (arr' = disk[0])]_vars
=============================================================================
