---------------------------- MODULE SparseStore -----------------------------
(***************************************************************************)
(* Umap::SparseStore: a Store spread over partition files in a directory,  *)
(* each opened, and created, when it is first used. Worker threads read    *)
(* and write pages concurrently; the process may end at any time, and the  *)
(* directory outlives it.                                                  *)
(***************************************************************************)
EXTENDS Integers, Sequences, FiniteSets

CONSTANTS Threads, NoThread,
          Values,           \* what a page may hold
          rsize,            \* size of the region
          aligned_size,     \* page size given in create mode
          granularity,      \* partition size asked for in create mode
          nb,               \* size of a transfer, the umap page size
          Leftover,         \* what an uninitialized size may happen to be
          CrashInCreate,    \* may the process die inside the create constructor?
          ReadOnlyModes,    \* values of read_only used in open mode
          MaxRuns           \* bound: processes that use the directory

ASSUME StoreAssumption ==
  /\ NoThread \notin Threads
  /\ rsize \in Nat \ {0} /\ aligned_size \in Nat \ {0}
  /\ granularity \in Nat \ {0} /\ nb \in Nat \ {0}
  /\ aligned_size % nb = 0 /\ rsize % nb = 0
  /\ Leftover \subseteq Nat \ {0} /\ ReadOnlyModes \subseteq BOOLEAN
  /\ CrashInCreate \in BOOLEAN /\ MaxRuns \in Nat

Files == 0..(rsize - 1)
Offsets == {o \in 0..(rsize - 1) : o % nb = 0}
NoFd == -1
Zero == "zero"       \* what posix_fallocate fills a file with
Nothing == "nothing" \* a buffer that the read left as it was
NoFile == <<-1>>     \* no _metadata

VARIABLES
  dir, metadata,    \* does the directory exist; the numbers in _metadata
  size, content,    \* size of each partition file, -1 without one; its pages
  object,           \* how far the SparseStore object is
  file_size, num_files, read_only,
  id,               \* file_descriptors[i].id
  creation_mutex,
  fds,              \* open descriptors of the process, as <<fd, file>>
  pc, job, fd,      \* threads: where, doing what, local fd
  written,          \* offset -> what was written to it last
  runs

diskVars == <<dir, metadata, size, content>>
objectVars == <<object, file_size, num_files, read_only>>
fdVars == <<id, creation_mutex, fds>>
threadVars == <<pc, job, fd>>
vars == <<diskVars, objectVars, fdVars, threadVars, written, runs>>

Job == [op : {"read"}, off : Offsets, val : {Zero}] \cup
       [op : {"write"}, off : Offsets, val : Values]
NoJob == [op |-> "none", off |-> 0, val |-> Zero]

\* ceil(a * 1.0 / b)
CeilDiv(a, b) == (a + b - 1) \div b

RoundedFileSize(asked) == aligned_size * CeilDiv(asked, aligned_size)

\* The first lines of get_fd.
fd_index(t) == job[t].off \div file_size
file_offset(t) == job[t].off % file_size

TypeOK ==
  /\ dir \in BOOLEAN
  /\ metadata \in {NoFile} \cup Seq(Nat)
  /\ size \in [Files -> {-1} \cup Nat]
  /\ content \in [Files \X Files -> Values \cup {Zero}]
  /\ object \in {"none", "mkdir", "opened", "size", "ready", "closed"}
  /\ file_size \in Nat /\ num_files \in Nat /\ read_only \in BOOLEAN
  /\ id \in [Files -> {NoFd} \cup Nat]
  /\ creation_mutex \in Threads \cup {NoThread}
  /\ fds \subseteq Nat \X Nat
  /\ pc \in [Threads -> {"idle", "check", "lock", "open", "fallocate", "publish", "unlock", "io"}]
  /\ job \in [Threads -> Job \cup {NoJob}]
  /\ fd \in [Threads -> {NoFd} \cup Nat]
  /\ written \in [Offsets -> Values \cup {Zero}]
  /\ runs \in 0..MaxRuns

Init ==
  /\ dir = FALSE /\ metadata = NoFile
  /\ size = [i \in Files |-> -1]
  /\ content = [place \in Files \X Files |-> Zero]
  /\ object = "none" /\ file_size = 0 /\ num_files = 0 /\ read_only = FALSE
  /\ id = [i \in Files |-> NoFd] /\ creation_mutex = NoThread /\ fds = {}
  /\ pc = [t \in Threads |-> "idle"] /\ job = [t \in Threads |-> NoJob]
  /\ fd = [t \in Threads |-> NoFd]
  /\ written = [o \in Offsets |-> Zero]
  /\ runs = 0

-----------------------------------------------------------------------------
(* Create mode. A directory that exists is an error that ends the process, *)
(* as is a missing one in open mode. *)

CreateDirectory ==
  /\ object = "none" /\ runs < MaxRuns
  /\ ~dir
  /\ dir' = TRUE /\ object' = "mkdir" /\ runs' = runs + 1
  /\ file_size' = RoundedFileSize(granularity)
  /\ num_files' = CeilDiv(rsize, file_size')
  /\ read_only' = FALSE
  /\ id' = [i \in Files |-> NoFd]
  /\ UNCHANGED <<metadata, size, content, creation_mutex, fds, threadVars, written>>

\* The ofstream is opened, the endl flushes the first number, the destructor
\* writes the second.
CreateMetadata ==
  /\ \/ object = "mkdir" /\ metadata' = <<>> /\ object' = "opened"
     \/ object = "opened" /\ metadata' = <<file_size>> /\ object' = "size"
     \/ /\ object = "size"
        /\ metadata' = <<file_size, IF file_size > rsize THEN file_size ELSE rsize>>
        /\ object' = "ready"
  /\ UNCHANGED <<dir, size, content, file_size, num_files, read_only, fdVars, threadVars,
                 written, runs>>

\* Open mode. A number that is not in the file leaves the member as it was.
OpenMode(ro) ==
  /\ object = "none" /\ runs < MaxRuns
  /\ dir /\ metadata # NoFile
  /\ \E fs \in IF Len(metadata) > 0 THEN {metadata[1]} ELSE Leftover,
        current_capacity \in IF Len(metadata) > 1 THEN {metadata[2]} ELSE Leftover :
       file_size' = fs /\ num_files' = CeilDiv(current_capacity, fs)
  /\ object' = "ready" /\ read_only' = ro /\ runs' = runs + 1
  /\ id' = [i \in Files |-> NoFd]
  /\ UNCHANGED <<diskVars, creation_mutex, fds, threadVars, written>>

-----------------------------------------------------------------------------
(* read_from_store and write_to_store, called by the fill and the evict    *)
(* workers. A page has one descriptor: two threads never work on one page. *)

Begin(t, j) ==
  /\ pc[t] = "idle" /\ object = "ready"
  /\ \A u \in Threads \ {t} : pc[u] = "idle" \/ job[u].off # j.off
  /\ j.op = "write" => ~read_only
  /\ job' = [job EXCEPT ![t] = j]
  /\ pc' = [pc EXCEPT ![t] = "check"]
  /\ UNCHANGED <<diskVars, objectVars, fdVars, fd, written, runs>>

CheckId(t) ==
  /\ pc[t] = "check"
  /\ pc' = [pc EXCEPT ![t] = IF id[fd_index(t)] = NoFd THEN "lock" ELSE "io"]
  /\ UNCHANGED <<diskVars, objectVars, fdVars, job, fd, written, runs>>

\* Mutant: the value is not checked again under the lock.
NoRecheck(t) == "open"

\* Mutant: a thread that finds the file open returns without unlocking.
ReturnLocked(t) == IF id[fd_index(t)] = NoFd THEN "open" ELSE "io"

Recheck(t) == IF id[fd_index(t)] = NoFd THEN "open" ELSE "unlock"

LockAndRecheck(t) ==
  /\ pc[t] = "lock" /\ creation_mutex = NoThread
  /\ creation_mutex' = t
  /\ pc' = [pc EXCEPT ![t] = Recheck(t)]
  /\ UNCHANGED <<diskVars, objectVars, id, fds, job, fd, written, runs>>

\* open with O_CREAT: a file if there is none, and the lowest unused descriptor.
LowestFree(n) ==
  /\ n \notin {f[1] : f \in fds}
  /\ \A m \in 0..(n - 1) : m \in {f[1] : f \in fds}

\* Mutant: the id is published before the file has its space.
PublishAtOpen(t) ==
  /\ pc[t] = "open"
  /\ \E n \in 0..Cardinality(fds) :
       /\ LowestFree(n)
       /\ fds' = fds \cup {<<n, fd_index(t)>>}
       /\ fd' = [fd EXCEPT ![t] = n]
       /\ id' = [id EXCEPT ![fd_index(t)] = n]
  /\ size' = [size EXCEPT ![fd_index(t)] = IF @ = -1 THEN 0 ELSE @]
  /\ pc' = [pc EXCEPT ![t] = IF read_only THEN "publish" ELSE "fallocate"]
  /\ UNCHANGED <<dir, metadata, content, objectVars, creation_mutex, job, written, runs>>

OpenFile(t) ==
  /\ pc[t] = "open"
  /\ \E n \in 0..Cardinality(fds) :
       /\ LowestFree(n)
       /\ fds' = fds \cup {<<n, fd_index(t)>>}
       /\ fd' = [fd EXCEPT ![t] = n]
  /\ size' = [size EXCEPT ![fd_index(t)] = IF @ = -1 THEN 0 ELSE @]
  /\ pc' = [pc EXCEPT ![t] = IF read_only THEN "publish" ELSE "fallocate"]
  /\ UNCHANGED <<dir, metadata, content, objectVars, id, creation_mutex, job, written, runs>>

Fallocate(t) ==
  /\ pc[t] = "fallocate"
  /\ size' = [size EXCEPT ![fd_index(t)] = IF @ < file_size THEN file_size ELSE @]
  /\ pc' = [pc EXCEPT ![t] = "publish"]
  /\ UNCHANGED <<dir, metadata, content, objectVars, fdVars, job, fd, written, runs>>

Publish(t) ==
  /\ pc[t] = "publish"
  /\ id' = [id EXCEPT ![fd_index(t)] = fd[t]]
  /\ pc' = [pc EXCEPT ![t] = "unlock"]
  /\ UNCHANGED <<diskVars, objectVars, creation_mutex, fds, job, fd, written, runs>>

Unlock(t) ==
  /\ pc[t] = "unlock"
  /\ creation_mutex' = NoThread
  /\ pc' = [pc EXCEPT ![t] = "io"]
  /\ UNCHANGED <<diskVars, objectVars, id, fds, job, fd, written, runs>>

\* The partition the id that get_fd returns refers to.
FileOf(t) == CHOOSE i \in Files : <<id[fd_index(t)], i>> \in fds

\* What pread leaves in the buffer; past the end of the file it returns less than nb,
\* which is no error.
ReadInto(t) ==
  IF file_offset(t) + nb <= size[FileOf(t)]
  THEN content[<<FileOf(t), file_offset(t)>>] ELSE Nothing

\* The locals of the call are gone.
Returns(t) ==
  /\ pc' = [pc EXCEPT ![t] = "idle"]
  /\ job' = [job EXCEPT ![t] = NoJob]
  /\ fd' = [fd EXCEPT ![t] = NoFd]

read_from_store(t) ==
  /\ pc[t] = "io" /\ job[t].op = "read"
  /\ Returns(t)
  /\ UNCHANGED <<diskVars, objectVars, fdVars, written, runs>>

write_to_store(t) ==
  /\ pc[t] = "io" /\ job[t].op = "write"
  /\ content' = [content EXCEPT ![<<FileOf(t), file_offset(t)>>] = job[t].val]
  /\ size' = [size EXCEPT ![FileOf(t)] =
                IF @ < file_offset(t) + nb THEN file_offset(t) + nb ELSE @]
  /\ written' = [written EXCEPT ![job[t].off] = job[t].val]
  /\ Returns(t)
  /\ UNCHANGED <<dir, metadata, objectVars, fdVars, runs>>

-----------------------------------------------------------------------------
(* After uunmap: close_files, then delete, which ends the object. *)

\* Mutant: the last partition is not closed.
CloseAllButLast ==
  /\ object = "ready" /\ \A t \in Threads : pc[t] = "idle"
  /\ fds' = {f \in fds : \A i \in 0..(num_files - 2) : id[i] # f[1]}
  /\ object' = "closed"
  /\ UNCHANGED <<diskVars, file_size, num_files, read_only, id, creation_mutex, threadVars,
                 written, runs>>

close_files ==
  /\ object = "ready" /\ \A t \in Threads : pc[t] = "idle"
  /\ fds' = {f \in fds : \A i \in 0..(num_files - 1) : id[i] # f[1]}
  /\ object' = "closed"
  /\ UNCHANGED <<diskVars, file_size, num_files, read_only, id, creation_mutex, threadVars,
                 written, runs>>

Delete ==
  /\ object = "closed"
  /\ object' = "none"
  /\ UNCHANGED <<diskVars, file_size, num_files, read_only, fdVars, threadVars, written, runs>>

\* The process ends; its descriptors are closed, the directory stays.
Crash ==
  /\ object \in {"ready", "closed"} \/ (CrashInCreate /\ object # "none")
  /\ object' = "none"
  /\ creation_mutex' = NoThread /\ fds' = {}
  /\ pc' = [t \in Threads |-> "idle"]
  /\ job' = [t \in Threads |-> NoJob] /\ fd' = [t \in Threads |-> NoFd]
  /\ UNCHANGED <<diskVars, file_size, num_files, read_only, id, written, runs>>

Thread(t) ==
  \/ \E j \in Job : Begin(t, j)
  \/ CheckId(t) \/ LockAndRecheck(t) \/ OpenFile(t) \/ Fallocate(t) \/ Publish(t)
  \/ Unlock(t) \/ read_from_store(t) \/ write_to_store(t)

Next ==
  \/ CreateDirectory \/ CreateMetadata
  \/ \E ro \in ReadOnlyModes : OpenMode(ro)
  \/ \E t \in Threads : Thread(t)
  \/ close_files \/ Delete \/ Crash

Spec == Init /\ [][Next]_vars

Fairness ==
  \A t \in Threads :
    /\ WF_vars(CheckId(t) \/ OpenFile(t) \/ Fallocate(t) \/ Publish(t) \/ Unlock(t))
    /\ WF_vars(read_from_store(t) \/ write_to_store(t))
    /\ SF_vars(LockAndRecheck(t))

FairSpec == Spec /\ Fairness

-----------------------------------------------------------------------------
\* get_fd opens a partition once however many threads ask for it at the same
\* time: no two descriptors of the process are on the same file.
OneDescriptorPerFile ==
  \A f, g \in fds : f[2] = g[2] => f = g

\* A thread that reads an id without the mutex, the first check of get_fd, finds
\* either -1 or a descriptor that is open on that partition, whose space has been
\* allocated unless the store is read-only.
PublishedIsUsable ==
  object = "ready" =>
    \A i \in Files : id[i] # NoFd =>
      <<id[i], i>> \in fds /\ (read_only \/ size[i] >= file_size)

\* The index into file_descriptors stays in the array and a page never crosses
\* from one partition into the next, in create mode and after any reopening.
PageInOneFile ==
  \A t \in Threads : pc[t] # "idle" =>
    fd_index(t) < num_files /\ file_offset(t) + nb <= file_size

\* What get_fd gives to any number of threads is right.
DescriptorsSound == TypeOK /\ OneDescriptorPerFile /\ PublishedIsUsable /\ PageInOneFile

\* Closing after the unmap leaves none of the partitions open.
NothingLeftOpen ==
  object = "closed" => fds = {}

\* read_from_store returns what was written last at that offset, by whatever
\* thread or process, or zeros: in a store that may be written.
WritableReadsBack ==
  [][\A t \in Threads : read_from_store(t) /\ ~read_only => ReadInto(t) = written[job[t].off]]_vars

\* The same of every store, one opened read-only included.  Does not hold there: a partition
\* that was never written is created empty and not extended.
ReadsBack ==
  [][\A t \in Threads : read_from_store(t) => ReadInto(t) = written[job[t].off]]_vars

\* A directory that create mode refuses has the metadata that open mode needs.  Does not
\* hold after a crash between mkdir and the write of the metadata (CrashInCreate).
RefusedIsOpenable ==
  object = "none" /\ dir => metadata # NoFile /\ Len(metadata) = 2

\* A transfer that has begun ends, or the process does.
TransferEnds ==
  \A t \in Threads : pc[t] # "idle" ~> pc[t] = "idle"
=============================================================================
