------------------------------- MODULE MapFile -------------------------------
(***************************************************************************)
(* utility::map_file and its callees, which the examples share: a file is  *)
(* opened, or created anew, and is to have the size of the mapping.  A     *)
(* disk is a function from names to the words of the file, or to Absent.   *)
(***************************************************************************)
EXTENDS Integers, Sequences

CONSTANT Absent

\* What the operating system may refuse.
Faults == {"none", "open", "fallocate", "map"}

Zeroes(size) == [k \in 1..size |-> 0]

\* The disk as map_file leaves it, and whether it returns a mapping.  With need_init the old
\* file is unlinked before anything can fail.  posix_fallocate refuses no bytes.
map_file(disk, name, need_init, size, fault) ==
  LET refused == fault = "fallocate" \/ size = 0
      unlinked == IF need_init THEN [disk EXCEPT ![name] = Absent] ELSE disk
      opened == fault # "open" /\ (need_init \/ disk[name] # Absent)
      allocated ==
        IF ~need_init \/ ~opened THEN unlinked
        ELSE [unlinked EXCEPT ![name] = IF refused THEN <<>> ELSE Zeroes(size)]
      sized == opened /\ Len(allocated[name]) = size
  IN [disk |-> allocated,
      ok |-> sized /\ ~(need_init /\ refused) /\ fault # "map"]
=============================================================================
