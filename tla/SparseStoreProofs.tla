------------------------- MODULE SparseStoreProofs --------------------------
(***************************************************************************)
(* The inductive invariant of SparseStore, for any number of threads, any  *)
(* sizes of region, partition and page, and any number of processes one    *)
(* after the other, none of which dies inside of the create constructor;   *)
(* the arithmetic of partitions it needs; and what follows from it for     *)
(* every process that uses the directory.                                  *)
(***************************************************************************)
EXTENDS SparseStore, FiniteSetTheorems, TLAPS

\* Most leaves are first-order reasoning; those that need more name SMT.
USE Zenon

-----------------------------------------------------------------------------
(* Arithmetic of partitions *)

\* Division with remainder.
LEMMA DivMod ==
  ASSUME NEW a \in Nat, NEW c \in Nat \ {0}
  PROVE  /\ a \div c \in Nat /\ a % c \in 0..(c - 1)
         /\ a = c * (a \div c) + (a % c)
  BY SMT

\* Multiplication keeps the order.
LEMMA Monotone ==
  ASSUME NEW a \in Nat, NEW b \in Nat, NEW c \in Nat, a <= b
  PROVE  c * a <= c * b
  BY SMT

\* The quotient and the remainder of a number are not larger than it.
LEMMA QuotientBelow ==
  ASSUME NEW a \in Nat, NEW c \in Nat \ {0}
  PROVE  a \div c <= a /\ a % c <= a
  <1>1. a \div c \in Nat /\ a % c \in Nat /\ a = c * (a \div c) + (a % c)
    BY DivMod, SMT
  <1>2. 1 * (a \div c) <= c * (a \div c)
    BY <1>1, SMT
  <1> QED BY <1>1, <1>2, SMT

\* The partition of an offset is one of the partitions that the region needs.
LEMMA PartitionExists ==
  ASSUME NEW a \in Nat, NEW b \in Nat, NEW c \in Nat \ {0}, a < b
  PROVE  a \div c < CeilDiv(b, c)
  <1> DEFINE q == a \div c
             p == (b + c - 1) \div c
  <1>1. q \in Nat /\ a % c \in 0..(c - 1) /\ a = c * q + (a % c)
    BY DivMod
  <1>2. p \in Nat /\ (b + c - 1) % c \in 0..(c - 1) /\ b + c - 1 = c * p + ((b + c - 1) % c)
    <2>1. b + c - 1 \in Nat
      BY SMT
    <2> QED BY <2>1, DivMod
  <1> HIDE DEF q, p
  <1>3. ASSUME p <= q PROVE FALSE
    <2>1. c * p <= c * q
      BY <1>1, <1>2, <1>3, Monotone
    <2> QED BY <2>1, <1>1, <1>2, SMT
  <1> QED BY <1>1, <1>2, <1>3, SMT DEF CeilDiv, p, q

\* Offsets with the same partition and the same place in it are the same.
LEMMA PlaceDetermines ==
  ASSUME NEW a \in Nat, NEW b \in Nat, NEW c \in Nat \ {0},
         a \div c = b \div c, a % c = b % c
  PROVE  a = b
  BY DivMod

\* A page that begins at a multiple of its size ends in its partition, if that is a
\* multiple of the size of a page, too.
LEMMA PageFits ==
  ASSUME NEW a \in Nat, NEW c \in Nat \ {0}, NEW n \in Nat \ {0}, a % n = 0, c % n = 0
  PROVE  (a % c) + n <= c
  <1> DEFINE j == a \div n
             k == c \div n
             q == a \div c
             r == a % c
  <1>1. j \in Nat /\ a = n * j
    BY DivMod, SMT
  <1>2. k \in Nat /\ c = n * k
    BY DivMod, SMT
  <1>3. q \in Nat /\ r \in 0..(c - 1) /\ a = c * q + r
    BY DivMod
  <1> HIDE DEF j, k, q, r
  <1>4. r = n * (j - k * q)
    <2>1. c * q = n * (k * q)
      BY <1>2, <1>3, SMT
    <2>2. n * j - n * (k * q) = n * (j - k * q)
      BY <1>1, <1>2, <1>3, SMT
    <2> QED BY <2>1, <2>2, <1>1, <1>3, SMT
  <1> DEFINE m == j - k * q
  <1>5. m \in Int
    BY <1>1, <1>2, <1>3, SMT
  <1>6. ASSUME m >= k PROVE FALSE
    <2> HIDE DEF m
    <2>1. n * k <= n * m
      BY <1>2, <1>5, <1>6, Monotone, SMT
    <2> QED BY <2>1, <1>2, <1>3, <1>4, SMT DEF m
  <1>7. n * (m + 1) <= n * k
    <2>1. CASE m + 1 \in Nat
      <3> HIDE DEF m
      <3> QED BY <2>1, <1>2, <1>5, <1>6, Monotone, SMT
    <2>2. CASE m + 1 < 0
      <3>1. n * m < 0
        BY <2>2, <1>5, SMT
      <3> QED BY <3>1, <1>3, <1>4, SMT
    <2> QED BY <2>1, <2>2, <1>5, SMT
  <1>8. n * (m + 1) = n * m + n
    BY <1>5, SMT
  <1> QED BY <1>2, <1>3, <1>4, <1>5, <1>7, <1>8 DEF m, r

\* A multiple is divisible.
LEMMA MultipleDivides ==
  ASSUME NEW n \in Nat \ {0}, NEW j \in Nat
  PROVE  (n * j) % n = 0
  <1> DEFINE a == n * j
             q == a \div n
             r == a % n
  <1>1. a \in Nat
    BY SMT
  <1>2. q \in Nat /\ r \in 0..(n - 1) /\ a = n * q + r
    BY <1>1, DivMod
  <1> HIDE DEF q, r
  <1>3. r = n * (j - q)
    BY <1>2, SMT
  <1> DEFINE m == j - q
  <1>4. m \in Int
    BY <1>2, SMT
  <1>5. ~(m >= 1)
    <2>1. ASSUME m >= 1 PROVE n * 1 <= n * m
      <3> HIDE DEF m
      <3> QED BY <2>1, <1>4, Monotone, SMT
    <2> QED BY <2>1, <1>2, <1>3, SMT
  <1>6. ~(m <= -1)
    BY <1>2, <1>3, <1>4, SMT
  <1>7. m = 0
    BY <1>4, <1>5, <1>6, SMT
  <1>8. r = 0
    BY <1>3, <1>7, SMT
  <1> QED BY <1>8 DEF r, a

\* The partition size that create mode computes from the one it is asked for.
P == RoundedFileSize(granularity)

\* The partition size is positive, and pages fit into a partition.
LEMMA PartitionSize ==
  P \in Nat \ {0} /\ P % nb = 0
  <1> DEFINE c == (granularity + aligned_size - 1) \div aligned_size
             k == aligned_size \div nb
  <1>1. c \in Nat
    <2>1. granularity + aligned_size - 1 \in Nat /\ aligned_size \in Nat \ {0}
      BY StoreAssumption, SMT
    <2> QED BY <2>1, DivMod
  <1>2. 0 < c
    <2>1. 0 \div aligned_size < CeilDiv(granularity, aligned_size)
      BY StoreAssumption, PartitionExists, SMT
    <2>2. 0 \div aligned_size \in Nat
      BY StoreAssumption, DivMod
    <2> QED BY <1>1, <2>1, <2>2, SMT DEF CeilDiv
  <1>3. k \in Nat /\ aligned_size = nb * k
    BY StoreAssumption, DivMod, SMT
  <1>4. P = aligned_size * c
    BY DEF P, RoundedFileSize, CeilDiv
  <1> HIDE DEF c, k
  <1>5. P \in Nat \ {0}
    BY <1>1, <1>2, <1>4, StoreAssumption, SMT
  <1>6. P = nb * (k * c)
    BY <1>1, <1>3, <1>4, StoreAssumption, SMT
  <1>7. k * c \in Nat
    BY <1>1, <1>3, SMT
  <1> QED BY <1>5, <1>6, <1>7, MultipleDivides, StoreAssumption

\* Where the page at an offset of the region is.
LEMMA OffsetPlace ==
  ASSUME NEW o \in Offsets
  PROVE  /\ o \in Nat /\ o < rsize
         /\ o \div P \in Files /\ o % P \in Files
         /\ (o % P) + nb <= P
  <1>1. o \in Nat /\ o < rsize /\ o % nb = 0
    BY StoreAssumption, SMT DEF Offsets
  <1>2. o \div P \in Nat /\ o % P \in 0..(P - 1)
    BY <1>1, PartitionSize, DivMod
  <1>3. o \div P <= o /\ o % P <= o
    BY <1>1, PartitionSize, QuotientBelow
  <1>4. (o % P) + nb <= P
    BY <1>1, PartitionSize, PageFits, StoreAssumption
  <1> QED BY <1>1, <1>2, <1>3, <1>4, StoreAssumption, PartitionSize, SMT DEF Files

-----------------------------------------------------------------------------
(* The inductive invariant *)

\* Between open and publish.
Opening(t) == pc[t] \in {"fallocate", "publish"}

\* The sizes are those of create mode, in each process that uses the directory.
SizesInv ==
  /\ object # "none" => file_size = P /\ \A o \in Offsets : o \div P < num_files
  /\ object \in {"ready", "closed"} \/ (object = "none" /\ dir) =>
       metadata = <<P, IF P > rsize THEN P ELSE rsize>>
  /\ object \in {"mkdir", "opened", "size"} => \A i \in Files : id[i] = NoFd
  /\ object # "ready" => fds = {} /\ \A t \in Threads : pc[t] = "idle"

\* What a thread inside get_fd may rely on.
ThreadInv ==
  \A t \in Threads :
    /\ pc[t] # "idle" => job[t] \in Job
    /\ pc[t] \in {"open", "fallocate", "publish", "unlock"} => creation_mutex = t
    /\ pc[t] \in {"open", "fallocate", "publish"} => id[fd_index(t)] = NoFd
    /\ Opening(t) => fd[t] \in Nat /\ <<fd[t], fd_index(t)>> \in fds
    /\ pc[t] = "publish" => read_only \/ size[fd_index(t)] >= file_size
    /\ pc[t] \in {"unlock", "io"} => id[fd_index(t)] # NoFd

\* Every descriptor is published, or in the hands of the thread that opened it.
OwnedFds ==
  \A f \in fds :
    /\ f[2] \in Files /\ f[2] < num_files
    /\ \/ id[f[2]] = f[1]
       \/ \E t \in Threads : Opening(t) /\ fd[t] = f[1] /\ fd_index(t) = f[2]

\* A descriptor is open on one file.
OneFilePerDescriptor == \A f, g \in fds : f[1] = g[1] => f = g

\* A page holds what was written last at its offset.
ContentInv == \A o \in Offsets : content[<<o \div P, o % P>>] = written[o]

\* The inductive invariant.
IInv ==
  /\ TypeOK /\ IsFiniteSet(fds)
  /\ SizesInv /\ ThreadInv /\ OwnedFds /\ OneFilePerDescriptor
  /\ OneDescriptorPerFile /\ PublishedIsUsable /\ ContentInv

-----------------------------------------------------------------------------
(* Consequences of the invariant *)

\* The place of the page a thread works on.
LEMMA JobPlace ==
  ASSUME IInv, NEW t \in Threads, pc[t] # "idle"
  PROVE  /\ object = "ready" /\ file_size = P /\ job[t] \in Job /\ job[t].off \in Offsets
         /\ fd_index(t) = job[t].off \div P /\ file_offset(t) = job[t].off % P
         /\ fd_index(t) \in Files /\ file_offset(t) \in Files
         /\ fd_index(t) < num_files /\ file_offset(t) + nb <= P
  <1>1. object = "ready" /\ file_size = P /\ job[t] \in Job
    BY DEF IInv, SizesInv, ThreadInv
  <1>2. job[t].off \in Offsets
    BY <1>1 DEF Job
  <1>3. fd_index(t) = job[t].off \div P /\ file_offset(t) = job[t].off % P
    BY <1>1 DEF fd_index, file_offset
  <1>4. job[t].off \div P < num_files
    BY <1>1, <1>2 DEF IInv, SizesInv
  <1> QED BY <1>1, <1>2, <1>3, <1>4, OffsetPlace

\* The descriptor get_fd returns is open on the partition of the page.
LEMMA FileOfRight ==
  ASSUME IInv, NEW t \in Threads, pc[t] = "io"
  PROVE  /\ FileOf(t) = fd_index(t)
         /\ read_only \/ size[fd_index(t)] >= P
  <1>1. object = "ready" /\ file_size = P /\ fd_index(t) \in Files
    BY JobPlace
  <1>2. id[fd_index(t)] # NoFd
    BY DEF IInv, ThreadInv
  <1>3. <<id[fd_index(t)], fd_index(t)>> \in fds /\ (read_only \/ size[fd_index(t)] >= P)
    BY <1>1, <1>2 DEF IInv, PublishedIsUsable
  <1>4. \A i \in Files : <<id[fd_index(t)], i>> \in fds => i = fd_index(t)
    BY <1>3 DEF IInv, OneFilePerDescriptor
  <1> QED BY <1>1, <1>3, <1>4 DEF FileOf

-----------------------------------------------------------------------------
(* The steps *)

\* The region fits into the partitions of a capacity that is not less than it.
LEMMA CapacityEnough ==
  ASSUME NEW b \in Nat, rsize <= b
  PROVE  CeilDiv(b, P) \in Nat /\ \A o \in Offsets : o \div P < CeilDiv(b, P)
  <1>1. CeilDiv(b, P) \in Nat
    <2>1. P \in Nat \ {0}
      BY PartitionSize
    <2>2. b + P - 1 \in Nat
      BY <2>1, SMT
    <2> QED BY <2>1, <2>2, DivMod DEF CeilDiv
  <1>2. ASSUME NEW o \in Offsets PROVE o \div P < CeilDiv(b, P)
    BY OffsetPlace, PartitionSize, PartitionExists, StoreAssumption, SMT
  <1> QED BY <1>1, <1>2

\* The initial state.
LEMMA InitInv ==
  Init => IInv
  <1> SUFFICES ASSUME Init PROVE IInv
    OBVIOUS
  <1>1. TypeOK
    <2>1. fds \subseteq Nat \X Nat /\ runs \in 0..MaxRuns
      BY StoreAssumption, SMT DEF Init
    <2>2. content \in [Files \X Files -> Values \cup {Zero}]
      BY DEF Init
    <2> QED BY <2>1, <2>2 DEF Init, TypeOK
  <1>2. IsFiniteSet(fds)
    BY FS_EmptySet DEF Init
  <1>3. ContentInv
    BY OffsetPlace DEF Init, ContentInv
  <1> QED
    BY <1>1, <1>2, <1>3 DEF Init, IInv, SizesInv, ThreadInv, OwnedFds, Opening,
       OneFilePerDescriptor, OneDescriptorPerFile, PublishedIsUsable

\* The constructor in create mode.
LEMMA CreateDirectoryInv ==
  ASSUME IInv, CreateDirectory
  PROVE  IInv'
  <1>1. /\ file_size' = P /\ num_files' = CeilDiv(rsize, P) /\ num_files' \in Nat
        /\ \A o \in Offsets : o \div P < num_files'
    BY CapacityEnough, StoreAssumption, SMT DEF CreateDirectory, P
  <1>2. fds = {} /\ \A t \in Threads : pc[t] = "idle"
    BY DEF IInv, SizesInv, CreateDirectory
  <1>3. TypeOK'
    <2>1. runs' \in 0..MaxRuns
      BY StoreAssumption, SMT DEF IInv, TypeOK, CreateDirectory
    <2> QED
      BY <1>1, <2>1, PartitionSize DEF IInv, TypeOK, CreateDirectory, threadVars
  <1>4. SizesInv'
    BY <1>1, <1>2 DEF CreateDirectory, SizesInv, threadVars
  <1>5. ContentInv'
    BY DEF IInv, ContentInv, CreateDirectory
  <1>6. IsFiniteSet(fds')
    BY DEF IInv, CreateDirectory
  <1> QED
    BY <1>2, <1>3, <1>4, <1>5, <1>6 DEF CreateDirectory, threadVars, IInv, ThreadInv, OwnedFds,
       Opening, OneFilePerDescriptor, OneDescriptorPerFile, PublishedIsUsable

\* The metadata, number by number.
LEMMA CreateMetadataInv ==
  ASSUME IInv, CreateMetadata
  PROVE  IInv'
  <1>1. object \in {"mkdir", "opened", "size"} /\ object' \in {"opened", "size", "ready"}
    BY DEF CreateMetadata
  <1>2. /\ fds = {} /\ fds' = {} /\ \A t \in Threads : pc[t] = "idle"
        /\ \A i \in Files : id[i] = NoFd /\ file_size = P
    BY <1>1 DEF IInv, SizesInv, CreateMetadata, fdVars
  <1>3. metadata' \in Seq(Nat)
    <2> DEFINE second == IF file_size > rsize THEN file_size ELSE rsize
    <2>1. file_size \in Nat /\ second \in Nat
      BY StoreAssumption DEF IInv, TypeOK
    <2>2. metadata' \in {<<>>, <<file_size>>, <<file_size, second>>}
      BY DEF CreateMetadata
    <2> HIDE DEF second
    <2>3. <<>> \in Seq(Nat) /\ <<file_size>> \in Seq(Nat)
      BY <2>1, SMT
    <2>4. <<file_size, second>> \in Seq(Nat)
      BY <2>1, SMT
    <2> QED BY <2>2, <2>3, <2>4
  <1>4. TypeOK'
    BY <1>1, <1>3 DEF IInv, TypeOK, CreateMetadata, fdVars, threadVars
  <1>5. SizesInv'
    BY <1>1, <1>2 DEF IInv, CreateMetadata, SizesInv, fdVars, threadVars
  <1>6. ContentInv'
    BY DEF IInv, ContentInv, CreateMetadata
  <1>7. IsFiniteSet(fds')
    BY DEF IInv, CreateMetadata, fdVars
  <1> QED
    BY <1>2, <1>4, <1>5, <1>6, <1>7 DEF CreateMetadata, fdVars, threadVars, IInv, ThreadInv,
       OwnedFds, Opening, OneFilePerDescriptor, OneDescriptorPerFile, PublishedIsUsable

\* The constructor in open mode.
LEMMA OpenModeInv ==
  ASSUME IInv, NEW ro \in ReadOnlyModes, OpenMode(ro)
  PROVE  IInv'
  <1> DEFINE capacity == IF P > rsize THEN P ELSE rsize
  <1>1. metadata = <<P, capacity>>
    BY DEF IInv, SizesInv, OpenMode
  <1>2. capacity \in Nat /\ rsize <= capacity
    BY PartitionSize, StoreAssumption, SMT
  <1>3. file_size' = P /\ num_files' = CeilDiv(capacity, P)
    <2> HIDE DEF capacity
    <2> QED BY <1>1, SMT DEF OpenMode
  <1>4. num_files' \in Nat /\ \A o \in Offsets : o \div P < num_files'
    <2> HIDE DEF capacity
    <2> QED BY <1>2, <1>3, CapacityEnough
  <1>5. fds = {} /\ \A t \in Threads : pc[t] = "idle"
    BY DEF IInv, SizesInv, OpenMode
  <1>6. TypeOK'
    BY <1>3, <1>4, PartitionSize, StoreAssumption, SMTT(30)
    DEF IInv, TypeOK, OpenMode, diskVars, threadVars, NoFd
  <1>7. SizesInv'
    BY <1>1, <1>3, <1>4 DEF OpenMode, SizesInv, threadVars, diskVars
  <1>8. ContentInv'
    BY DEF IInv, ContentInv, OpenMode, diskVars
  <1>9. IsFiniteSet(fds')
    BY DEF IInv, OpenMode
  <1> QED
    BY <1>5, <1>6, <1>7, <1>8, <1>9 DEF OpenMode, threadVars, IInv, ThreadInv, OwnedFds,
       Opening, OneFilePerDescriptor, OneDescriptorPerFile, PublishedIsUsable

\* close_files closes every descriptor: each is published, for no thread is in get_fd.
LEMMA CloseFilesInv ==
  ASSUME IInv, close_files
  PROVE  IInv'
  <1> USE DEF close_files, diskVars, threadVars
  <1>1. fds' = {}
    <2> SUFFICES ASSUME NEW f \in fds PROVE \E i \in 0..(num_files - 1) : id[i] = f[1]
      OBVIOUS
    <2>1. f[2] \in Files /\ f[2] < num_files /\ id[f[2]] = f[1]
      BY DEF IInv, OwnedFds, Opening
    <2>2. f[2] \in 0..(num_files - 1)
      BY <2>1, StoreAssumption, SMT DEF IInv, TypeOK, Files
    <2> QED BY <2>1, <2>2
  <1>2. IsFiniteSet(fds')
    BY <1>1, FS_EmptySet
  <1>3. TypeOK'
    BY <1>1 DEF IInv, TypeOK
  <1>4. SizesInv'
    BY <1>1 DEF IInv, SizesInv
  <1>5. ThreadInv'
    BY SMTT(30) DEF ThreadInv, Opening
  <1> QED
    BY <1>1, <1>2, <1>3, <1>4, <1>5
    DEF IInv, OwnedFds, OneFilePerDescriptor, OneDescriptorPerFile, PublishedIsUsable, ContentInv

\* The object is deleted.
LEMMA DeleteInv ==
  ASSUME IInv, Delete
  PROVE  IInv'
  <1> USE DEF Delete, diskVars, fdVars, threadVars
  <1>1. fds = {} /\ \A t \in Threads : pc[t] = "idle"
    BY DEF IInv, SizesInv
  <1>2. TypeOK'
    BY DEF IInv, TypeOK
  <1>3. SizesInv'
    BY <1>1, SMTT(30) DEF IInv, SizesInv
  <1> QED
    BY <1>1, <1>2, <1>3 DEF IInv, ThreadInv, Opening, OwnedFds, OneFilePerDescriptor,
       OneDescriptorPerFile, PublishedIsUsable, ContentInv

\* The process ends, but not in the create constructor.
LEMMA CrashInv ==
  ASSUME IInv, Crash, CrashInCreate = FALSE
  PROVE  IInv'
  <1> USE DEF Crash, diskVars
  <1>1. object \in {"ready", "closed"}
    OBVIOUS
  <1>2. TypeOK'
    BY DEF IInv, TypeOK
  <1>3. SizesInv'
    BY <1>1 DEF IInv, SizesInv
  <1>4. IsFiniteSet(fds')
    BY FS_EmptySet
  <1> QED
    BY <1>2, <1>3, <1>4 DEF IInv, ThreadInv, Opening, OwnedFds, OneFilePerDescriptor,
       OneDescriptorPerFile, PublishedIsUsable, ContentInv

-----------------------------------------------------------------------------
(* get_fd and the transfers *)

\* A thread takes its job.
LEMMA BeginInv ==
  ASSUME IInv, NEW t \in Threads, NEW j \in Job, Begin(t, j)
  PROVE  IInv'
  <1> USE DEF Begin, diskVars, objectVars, fdVars
  <1>1. \A u \in Threads \ {t} : fd_index(u)' = fd_index(u) /\ pc'[u] = pc[u]
    BY DEF IInv, TypeOK, fd_index
  <1>2. pc[t] = "idle" /\ pc'[t] = "check" /\ job'[t] = j /\ object = "ready"
    BY DEF IInv, TypeOK
  <1>3. TypeOK'
    BY DEF IInv, TypeOK
  <1>4. SizesInv'
    BY DEF IInv, SizesInv
  <1>5. ThreadInv'
    BY <1>1, <1>2, ZenonT(30) DEF IInv, TypeOK, ThreadInv, Opening
  <1>6. OwnedFds'
    BY <1>1, <1>2, SMT DEF IInv, OwnedFds, Opening
  <1> QED
    BY <1>3, <1>4, <1>5, <1>6
    DEF IInv, OneFilePerDescriptor, OneDescriptorPerFile, PublishedIsUsable, ContentInv

\* The first check of get_fd.
LEMMA CheckIdInv ==
  ASSUME IInv, NEW t \in Threads, CheckId(t)
  PROVE  IInv'
  <1> USE DEF CheckId, diskVars, objectVars, fdVars
  <1>1. \A u \in Threads : fd_index(u)' = fd_index(u)
    BY DEF fd_index
  <1>2. /\ \A u \in Threads \ {t} : pc'[u] = pc[u]
        /\ pc[t] = "check" /\ pc'[t] \in {"lock", "io"}
        /\ pc'[t] = "io" => id[fd_index(t)] # NoFd
    BY DEF IInv, TypeOK
  <1>3. TypeOK'
    BY DEF IInv, TypeOK
  <1>4. SizesInv'
    BY JobPlace, <1>2 DEF IInv, SizesInv
  <1>5. ThreadInv'
    BY <1>1, <1>2, ZenonT(30) DEF IInv, TypeOK, ThreadInv, Opening
  <1>6. OwnedFds'
    BY <1>1, <1>2, SMT DEF IInv, OwnedFds, Opening
  <1> QED
    BY <1>3, <1>4, <1>5, <1>6
    DEF IInv, OneFilePerDescriptor, OneDescriptorPerFile, PublishedIsUsable, ContentInv

\* The second check, with the mutex.
LEMMA LockAndRecheckInv ==
  ASSUME IInv, NEW t \in Threads, LockAndRecheck(t)
  PROVE  IInv'
  <1> USE DEF LockAndRecheck, diskVars, objectVars
  <1>1. \A u \in Threads : fd_index(u)' = fd_index(u)
    BY DEF fd_index
  <1>2. /\ \A u \in Threads \ {t} : pc'[u] = pc[u]
        /\ pc[t] = "lock" /\ pc'[t] \in {"open", "unlock"}
        /\ pc'[t] = "open" <=> id[fd_index(t)] = NoFd
    BY DEF IInv, TypeOK, Recheck
  <1>3. TypeOK'
    BY DEF IInv, TypeOK, Recheck
  <1>4. SizesInv'
    BY JobPlace, <1>2 DEF IInv, SizesInv
  <1>5. ThreadInv'
    BY <1>1, <1>2, StoreAssumption, ZenonT(30) DEF IInv, TypeOK, ThreadInv, Opening
  <1>6. OwnedFds'
    BY <1>1, <1>2, SMT DEF IInv, OwnedFds, Opening
  <1> QED
    BY <1>3, <1>4, <1>5, <1>6
    DEF IInv, OneFilePerDescriptor, OneDescriptorPerFile, PublishedIsUsable, ContentInv

\* The file is opened: no descriptor was on it, for its id is not set and no other
\* thread has the mutex.
LEMMA OpenFileInv ==
  ASSUME IInv, NEW t \in Threads, OpenFile(t)
  PROVE  IInv'
  <1> USE DEF objectVars
  <1> DEFINE k == fd_index(t)
  <1>1. PICK n \in 0..Cardinality(fds) :
          /\ LowestFree(n) /\ fds' = fds \cup {<<n, k>>} /\ fd' = [fd EXCEPT ![t] = n]
    BY DEF OpenFile
  <1>2. n \in Nat /\ IsFiniteSet(fds')
    <2>1. IsFiniteSet(fds) /\ Cardinality(fds) \in Nat
      BY FS_CardinalityType DEF IInv
    <2>2. IsFiniteSet(fds \cup {<<n, k>>})
      BY <2>1, FS_AddElement
    <2> QED BY <1>1, <2>1, <2>2, SMT
  <1>3. \A u \in Threads : fd_index(u)' = fd_index(u)
    BY DEF OpenFile, fd_index
  <1>4. /\ \A u \in Threads \ {t} : pc'[u] = pc[u] /\ fd'[u] = fd[u]
        /\ pc[t] = "open" /\ fd'[t] = n
        /\ pc'[t] \in {"fallocate", "publish"} /\ (pc'[t] = "publish" => read_only)
    BY <1>1 DEF IInv, TypeOK, OpenFile
  <1>5. object = "ready" /\ k \in Files /\ k < num_files /\ id[k] = NoFd /\ creation_mutex = t
    BY <1>4, JobPlace DEF IInv, ThreadInv
  <1>6. \A u \in Threads \ {t} : pc[u] \notin {"open", "fallocate", "publish", "unlock"}
    BY <1>5 DEF IInv, ThreadInv
  <1>7. \A f \in fds : f[1] # n /\ f[2] # k /\ f \in Nat \X Nat
    <2> SUFFICES ASSUME NEW f \in fds PROVE f[1] # n /\ f[2] # k /\ f \in Nat \X Nat
      OBVIOUS
    <2>1. f \in Nat \X Nat
      BY DEF IInv, TypeOK
    <2>2. f[1] # n
      BY <1>1 DEF LowestFree
    <2>3. id[f[2]] = f[1]
      BY <1>4, <1>6 DEF IInv, OwnedFds, Opening
    <2> QED BY <1>5, <2>1, <2>2, <2>3, SMT DEF NoFd
  <1>8. /\ size' \in [Files -> {-1} \cup Nat]
        /\ \A i \in Files : i # k => size'[i] = size[i]
    BY <1>5 DEF IInv, TypeOK, OpenFile
  <1> HIDE DEF k
  <1>9. TypeOK'
    <2>1. fds' \subseteq Nat \X Nat
      BY <1>1, <1>2, <1>5, StoreAssumption, SMT DEF IInv, TypeOK, Files
    <2>2. fd' \in [Threads -> {NoFd} \cup Nat]
      BY <1>1, <1>2 DEF IInv, TypeOK
    <2> QED BY <1>8, <2>1, <2>2 DEF IInv, TypeOK, OpenFile
  <1>10. SizesInv'
    BY <1>5 DEF IInv, SizesInv, OpenFile
  <1>11. ThreadInv'
    <2> SUFFICES ASSUME NEW u \in Threads
                 PROVE  /\ pc'[u] # "idle" => job[u] \in Job
                        /\ pc'[u] \in {"open", "fallocate", "publish", "unlock"} =>
                             creation_mutex = u
                        /\ pc'[u] \in {"open", "fallocate", "publish"} =>
                             id[fd_index(u)] = NoFd
                        /\ Opening(u)' => fd'[u] \in Nat /\ <<fd'[u], fd_index(u)>> \in fds'
                        /\ pc'[u] = "publish" => read_only \/ size'[fd_index(u)] >= file_size
                        /\ pc'[u] \in {"unlock", "io"} => id[fd_index(u)] # NoFd
      BY <1>3 DEF ThreadInv, OpenFile
    <2>1. CASE u = t
      <3>1. <<fd'[u], fd_index(u)>> \in fds' /\ fd'[u] \in Nat
        BY <2>1, <1>1, <1>2, <1>4, SMT DEF k
      <3>2. job[u] \in Job
        BY <2>1, <1>4, JobPlace
      <3> QED BY <2>1, <3>1, <3>2, <1>4, <1>5 DEF k
    <2>2. CASE u # t
      BY <2>2, <1>4, <1>6 DEF IInv, ThreadInv, Opening
    <2> QED BY <2>1, <2>2
  <1>12. OwnedFds'
    <2> SUFFICES ASSUME NEW f \in fds'
                 PROVE  /\ f[2] \in Files /\ f[2] < num_files
                        /\ \/ id[f[2]] = f[1]
                           \/ \E u \in Threads :
                                Opening(u)' /\ fd'[u] = f[1] /\ fd_index(u)' = f[2]
      BY DEF OwnedFds, OpenFile
    <2>1. CASE f = <<n, k>>
      BY <2>1, <1>3, <1>4, <1>5 DEF Opening, k
    <2>2. CASE f \in fds
      BY <2>2, <1>4, <1>6 DEF IInv, OwnedFds, Opening
    <2> QED BY <2>1, <2>2, <1>1
  <1>13. (OneFilePerDescriptor /\ OneDescriptorPerFile)'
    BY <1>1, <1>7, SMT DEF IInv, OneFilePerDescriptor, OneDescriptorPerFile
  <1>14. PublishedIsUsable'
    BY <1>1, <1>5, <1>8 DEF IInv, PublishedIsUsable, OpenFile
  <1>15. ContentInv'
    BY DEF IInv, ContentInv, OpenFile
  <1> QED BY <1>2, <1>9, <1>10, <1>11, <1>12, <1>13, <1>14, <1>15 DEF IInv

\* The space of the file.
LEMMA FallocateInv ==
  ASSUME IInv, NEW t \in Threads, Fallocate(t)
  PROVE  IInv'
  <1> USE DEF objectVars, fdVars
  <1> DEFINE k == fd_index(t)
  <1>1. \A u \in Threads : fd_index(u)' = fd_index(u)
    BY DEF Fallocate, fd_index
  <1>2. /\ \A u \in Threads \ {t} : pc'[u] = pc[u]
        /\ pc[t] = "fallocate" /\ pc'[t] = "publish"
    BY DEF IInv, TypeOK, Fallocate
  <1>3. object = "ready" /\ k \in Files
    BY <1>2, JobPlace
  <1>4. /\ size' \in [Files -> {-1} \cup Nat] /\ size'[k] >= file_size
        /\ \A i \in Files : size'[i] >= size[i]
    BY <1>3, SMT DEF IInv, TypeOK, Fallocate
  <1> HIDE DEF k
  <1>5. TypeOK'
    BY <1>4 DEF IInv, TypeOK, Fallocate
  <1>6. SizesInv'
    BY <1>3 DEF IInv, SizesInv, Fallocate
  <1>7. ThreadInv'
    <2> SUFFICES ASSUME NEW u \in Threads
                 PROVE  /\ pc'[u] # "idle" => job[u] \in Job
                        /\ pc'[u] \in {"open", "fallocate", "publish", "unlock"} =>
                             creation_mutex = u
                        /\ pc'[u] \in {"open", "fallocate", "publish"} =>
                             id[fd_index(u)] = NoFd
                        /\ Opening(u)' => fd[u] \in Nat /\ <<fd[u], fd_index(u)>> \in fds
                        /\ pc'[u] = "publish" => read_only \/ size'[fd_index(u)] >= file_size
                        /\ pc'[u] \in {"unlock", "io"} => id[fd_index(u)] # NoFd
      BY <1>1 DEF ThreadInv, Fallocate
    <2>1. CASE u = t
      BY <2>1, <1>2, <1>4 DEF IInv, ThreadInv, Opening, k
    <2>2. CASE u # t
      <3>1. pc[u] # "publish"
        BY <2>2, <1>2 DEF IInv, ThreadInv
      <3> QED BY <2>2, <3>1, <1>2 DEF IInv, ThreadInv, Opening
    <2> QED BY <2>1, <2>2
  <1>8. OwnedFds'
    BY <1>1, <1>2, SMT DEF IInv, OwnedFds, Opening, Fallocate
  <1>9. PublishedIsUsable'
    BY <1>4, SMT DEF IInv, TypeOK, PublishedIsUsable, Fallocate
  <1> QED
    BY <1>5, <1>6, <1>7, <1>8, <1>9
    DEF IInv, Fallocate, OneFilePerDescriptor, OneDescriptorPerFile, ContentInv

\* The id is set, for every thread to see.
LEMMA PublishInv ==
  ASSUME IInv, NEW t \in Threads, Publish(t)
  PROVE  IInv'
  <1> USE DEF diskVars, objectVars
  <1> DEFINE k == fd_index(t)
  <1>1. \A u \in Threads : fd_index(u)' = fd_index(u)
    BY DEF Publish, fd_index
  <1>2. /\ \A u \in Threads \ {t} : pc'[u] = pc[u]
        /\ pc[t] = "publish" /\ pc'[t] = "unlock"
    BY DEF IInv, TypeOK, Publish
  <1>3. object = "ready" /\ k \in Files /\ job[t] \in Job
    BY <1>2, JobPlace, SMTT(30)
  <1>4. /\ creation_mutex = t /\ id[k] = NoFd /\ fd[t] \in Nat /\ <<fd[t], k>> \in fds
        /\ read_only \/ size[k] >= file_size
    BY <1>2 DEF IInv, ThreadInv, Opening
  <1>5. /\ id' \in [Files -> {NoFd} \cup Nat] /\ id'[k] = fd[t]
        /\ \A i \in Files : i # k => id'[i] = id[i]
    BY <1>3, <1>4 DEF IInv, TypeOK, Publish
  <1>6. \A u \in Threads \ {t} : pc[u] \notin {"open", "fallocate", "publish", "unlock"}
    BY <1>4 DEF IInv, ThreadInv
  <1>7. \A u \in Threads : pc[u] # "idle" => fd_index(u) \in Files
    BY JobPlace
  <1> HIDE DEF k
  <1>8. TypeOK'
    BY <1>5 DEF IInv, TypeOK, Publish
  <1>9. SizesInv'
    BY <1>3 DEF IInv, SizesInv, Publish
  <1>10. ThreadInv'
    <2> SUFFICES ASSUME NEW u \in Threads
                 PROVE  /\ pc'[u] # "idle" => job[u] \in Job
                        /\ pc'[u] \in {"open", "fallocate", "publish", "unlock"} =>
                             creation_mutex = u
                        /\ pc'[u] \in {"open", "fallocate", "publish"} =>
                             id'[fd_index(u)] = NoFd
                        /\ Opening(u)' => fd[u] \in Nat /\ <<fd[u], fd_index(u)>> \in fds
                        /\ pc'[u] = "publish" => read_only \/ size[fd_index(u)] >= file_size
                        /\ pc'[u] \in {"unlock", "io"} => id'[fd_index(u)] # NoFd
      BY <1>1 DEF ThreadInv, Publish
    <2>1. CASE u = t
      BY <2>1, <1>2, <1>3, <1>4, <1>5, SMT DEF Opening, k, NoFd
    <2>2. CASE u # t
      <3>1. pc'[u] = "io" => id'[fd_index(u)] # NoFd
        BY <2>2, <1>2, <1>4, <1>5, <1>7 DEF IInv, ThreadInv, NoFd
      <3> QED BY <2>2, <3>1, <1>2, <1>6 DEF IInv, ThreadInv, Opening
    <2> QED BY <2>1, <2>2
  <1>11. OwnedFds'
    <2> SUFFICES ASSUME NEW f \in fds
                 PROVE  f[2] \in Files /\ f[2] < num_files /\ id'[f[2]] = f[1]
      BY DEF OwnedFds, Publish
    <2>1. f[2] \in Files /\ f[2] < num_files
      BY DEF IInv, OwnedFds
    <2>2. CASE f[2] = k
      <3>1. f = <<fd[t], k>>
        BY <2>2, <1>4 DEF IInv, OneDescriptorPerFile
      <3> QED BY <2>1, <3>1, <1>5
    <2>3. CASE f[2] # k
      BY <2>1, <2>3, <1>5, <1>6 DEF IInv, OwnedFds, Opening, k
    <2> QED BY <2>1, <2>2, <2>3
  <1>12. PublishedIsUsable'
    BY <1>4, <1>5, SMTT(30) DEF IInv, PublishedIsUsable, Publish
  <1> QED
    BY <1>8, <1>9, <1>10, <1>11, <1>12
    DEF IInv, Publish, OneFilePerDescriptor, OneDescriptorPerFile, ContentInv

\* The mutex is released.
LEMMA UnlockInv ==
  ASSUME IInv, NEW t \in Threads, Unlock(t)
  PROVE  IInv'
  <1> USE DEF Unlock, diskVars, objectVars
  <1>1. \A u \in Threads : fd_index(u)' = fd_index(u)
    BY DEF fd_index
  <1>2. /\ \A u \in Threads \ {t} : pc'[u] = pc[u]
        /\ pc[t] = "unlock" /\ pc'[t] = "io"
    BY SMTT(30) DEF IInv, TypeOK
  <1>3. \A u \in Threads \ {t} : pc[u] \notin {"open", "fallocate", "publish", "unlock"}
    BY <1>2 DEF IInv, ThreadInv
  <1>4. TypeOK'
    BY DEF IInv, TypeOK
  <1>5. SizesInv'
    BY JobPlace, <1>2 DEF IInv, SizesInv
  <1>6. ThreadInv'
    BY <1>1, <1>2, <1>3 DEF IInv, ThreadInv, Opening
  <1>7. OwnedFds'
    BY <1>1, <1>2, SMTT(30) DEF IInv, OwnedFds, Opening
  <1> QED
    BY <1>4, <1>5, <1>6, <1>7
    DEF IInv, OneFilePerDescriptor, OneDescriptorPerFile, PublishedIsUsable, ContentInv

\* A read changes nothing but the thread.
LEMMA ReadInv ==
  ASSUME IInv, NEW t \in Threads, read_from_store(t)
  PROVE  IInv'
  <1> USE DEF read_from_store, Returns, diskVars, objectVars, fdVars
  <1>1. /\ \A u \in Threads \ {t} :
             pc'[u] = pc[u] /\ job'[u] = job[u] /\ fd'[u] = fd[u] /\ fd_index(u)' = fd_index(u)
        /\ pc[t] = "io" /\ pc'[t] = "idle"
    BY DEF IInv, TypeOK, fd_index
  <1>2. TypeOK'
    BY DEF IInv, TypeOK
  <1>3. SizesInv'
    BY JobPlace, <1>1, SMTT(30) DEF IInv, SizesInv
  <1>4. ThreadInv'
    BY <1>1, SMT DEF IInv, ThreadInv, Opening
  <1>5. OwnedFds'
    BY <1>1, SMT DEF IInv, OwnedFds, Opening
  <1> QED
    BY <1>2, <1>3, <1>4, <1>5
    DEF IInv, OneFilePerDescriptor, OneDescriptorPerFile, PublishedIsUsable, ContentInv

\* A write changes the page at its offset and no other.
LEMMA WriteInv ==
  ASSUME IInv, NEW t \in Threads, write_to_store(t)
  PROVE  IInv'
  <1> USE DEF Returns, objectVars, fdVars
  <1> DEFINE k == fd_index(t)
             place == file_offset(t)
             off == job[t].off
             val == job[t].val
  <1>1. /\ \A u \in Threads \ {t} :
             pc'[u] = pc[u] /\ job'[u] = job[u] /\ fd'[u] = fd[u] /\ fd_index(u)' = fd_index(u)
        /\ pc[t] = "io" /\ pc'[t] = "idle"
    BY DEF IInv, TypeOK, fd_index, write_to_store
  <1>2. /\ object = "ready" /\ file_size = P /\ off \in Offsets /\ job[t] \in Job
        /\ k = off \div P /\ place = off % P /\ k \in Files /\ place \in Files
    BY <1>1, JobPlace
  <1>3. val \in Values \cup {Zero}
    BY <1>2 DEF Job
  <1>4. FileOf(t) = k
    BY <1>1, FileOfRight
  <1>5. /\ content' = [content EXCEPT ![<<k, place>>] = val]
        /\ written' = [written EXCEPT ![off] = val]
    BY <1>4 DEF write_to_store
  <1>6. /\ size' \in [Files -> {-1} \cup Nat]
        /\ \A i \in Files : size'[i] >= size[i]
    <2>1. place + nb \in Nat
      BY <1>2, StoreAssumption, SMT DEF Files
    <2>2. size' = [size EXCEPT ![k] = IF @ < place + nb THEN place + nb ELSE @]
      BY <1>4 DEF write_to_store
    <2> HIDE DEF k, place
    <2> QED BY <2>1, <2>2, <1>2, SMTT(30) DEF IInv, TypeOK
  <1>7. TypeOK'
    <2>1. content' \in [Files \X Files -> Values \cup {Zero}]
      BY <1>2, <1>3, <1>5, SMTT(30) DEF IInv, TypeOK
    <2>2. written' \in [Offsets -> Values \cup {Zero}]
      BY <1>2, <1>3, <1>5 DEF IInv, TypeOK
    <2> QED BY <1>6, <2>1, <2>2, SMTT(30) DEF IInv, TypeOK, write_to_store
  <1>8. ContentInv'
    <2> SUFFICES ASSUME NEW o \in Offsets
                 PROVE  content'[<<o \div P, o % P>>] = written'[o]
      BY DEF ContentInv
    <2> HIDE DEF k, place, off, val
    <2>1. <<o \div P, o % P>> \in Files \X Files /\ <<k, place>> \in Files \X Files
      BY <1>2, OffsetPlace
    <2>2. CASE o = off
      BY <2>1, <2>2, <1>2, <1>5 DEF IInv, TypeOK
    <2>3. CASE o # off
      <3>1. o \in Nat /\ off \in Nat
        BY <1>2, OffsetPlace
      <3>2. <<o \div P, o % P>> # <<k, place>>
        BY <2>3, <3>1, <1>2, PlaceDetermines, PartitionSize
      <3>3. content[<<o \div P, o % P>>] = written[o]
        BY DEF IInv, ContentInv
      <3> QED BY <2>1, <2>3, <3>2, <3>3, <1>5 DEF IInv, TypeOK
    <2> QED BY <2>2, <2>3
  <1> HIDE DEF k, place, off, val
  <1>9. SizesInv'
    BY <1>2 DEF IInv, SizesInv, write_to_store
  <1>10. ThreadInv'
    <2>1. \A u \in Threads : pc[u] # "idle" => fd_index(u) \in Files
      BY JobPlace
    <2>2. \A u \in Threads : pc'[u] = "publish" =>
            read_only \/ size'[fd_index(u)] >= file_size
      <3> SUFFICES ASSUME NEW u \in Threads, pc'[u] = "publish", ~read_only
                   PROVE  size'[fd_index(u)] >= file_size
        OBVIOUS
      <3>1. u # t /\ pc[u] = "publish"
        BY <1>1, SMTT(30)
      <3>2. fd_index(u) \in Files /\ size[fd_index(u)] >= file_size
        BY <2>1, <3>1 DEF IInv, ThreadInv
      <3>3. file_size \in Nat /\ size[fd_index(u)] \in Int /\ size'[fd_index(u)] \in Int
        BY <3>2, <1>6, SMT DEF IInv, TypeOK
      <3> QED BY <3>2, <3>3, <1>6, SMT
    <2> QED BY <2>2, <1>1, SMTT(20) DEF IInv, ThreadInv, Opening, write_to_store
  <1>11. OwnedFds'
    BY <1>1, SMT DEF IInv, OwnedFds, Opening, write_to_store
  <1>12. PublishedIsUsable'
    BY <1>6, SMT DEF IInv, TypeOK, PublishedIsUsable, write_to_store
  <1> QED
    BY <1>7, <1>8, <1>9, <1>10, <1>11, <1>12
    DEF IInv, write_to_store, OneFilePerDescriptor, OneDescriptorPerFile

-----------------------------------------------------------------------------
(* All steps *)

\* Every step preserves the invariant.
LEMMA NextInv ==
  ASSUME CrashInCreate = FALSE
  PROVE  IInv /\ [Next]_vars => IInv'
  <1> SUFFICES ASSUME IInv, [Next]_vars PROVE IInv'
    OBVIOUS
  <1>1. CASE CreateDirectory
    BY <1>1, CreateDirectoryInv
  <1>2. CASE CreateMetadata
    BY <1>2, CreateMetadataInv
  <1>3. ASSUME NEW ro \in ReadOnlyModes, OpenMode(ro) PROVE IInv'
    BY <1>3, OpenModeInv
  <1>4. ASSUME NEW t \in Threads, Thread(t) PROVE IInv'
    BY <1>4, BeginInv, CheckIdInv, LockAndRecheckInv, OpenFileInv, FallocateInv, PublishInv,
       UnlockInv, ReadInv, WriteInv, SMTT(30) DEF Thread
  <1>5. CASE close_files
    BY <1>5, CloseFilesInv
  <1>6. CASE Delete
    BY <1>6, DeleteInv
  <1>7. CASE Crash
    BY <1>7, CrashInv
  <1>8. CASE UNCHANGED vars
    <2> USE <1>8 DEF vars, diskVars, objectVars, fdVars, threadVars
    <2>1. TypeOK' /\ IsFiniteSet(fds')
      BY DEF IInv, TypeOK
    <2>2. SizesInv'
      BY SMTT(30) DEF IInv, SizesInv
    <2>3. \A t \in Threads : fd_index(t)' = fd_index(t) /\ (Opening(t)' <=> Opening(t))
      BY SMTT(30) DEF fd_index, Opening
    <2>4. ThreadInv'
      BY <2>3 DEF IInv, ThreadInv
    <2>5. OwnedFds'
      BY <2>3 DEF IInv, OwnedFds
    <2>6. (OneFilePerDescriptor /\ OneDescriptorPerFile)'
      BY DEF IInv, OneFilePerDescriptor, OneDescriptorPerFile
    <2>7. (PublishedIsUsable /\ ContentInv)'
      BY DEF IInv, PublishedIsUsable, ContentInv
    <2> QED BY <2>1, <2>2, <2>4, <2>5, <2>6, <2>7 DEF IInv
  <1> QED BY <1>1, <1>2, <1>3, <1>4, <1>5, <1>6, <1>7, <1>8 DEF Next

\* The invariant holds of every process that uses the directory.
LEMMA InvAlways ==
  ASSUME CrashInCreate = FALSE
  PROVE  Spec => []IInv
  BY InitInv, NextInv, PTL DEF Spec

-----------------------------------------------------------------------------
(* The results *)

\* However many threads call get_fd at once and however often the store is reopened, a
\* partition is opened once, an id seen without the mutex is that of an open partition with
\* its space, and a page lies in one partition of the array.
THEOREM DescriptorsAlwaysSound ==
  ASSUME CrashInCreate = FALSE
  PROVE  Spec => []DescriptorsSound
  <1>1. IInv => DescriptorsSound
    <2> SUFFICES ASSUME IInv PROVE PageInOneFile
      BY DEF IInv, DescriptorsSound
    <2> QED BY JobPlace DEF PageInOneFile
  <1> QED BY <1>1, InvAlways, PTL

\* close_files leaves no partition open.
THEOREM CloseIsComplete ==
  ASSUME CrashInCreate = FALSE
  PROVE  Spec => []NothingLeftOpen
  <1>1. IInv => NothingLeftOpen
    BY DEF IInv, SizesInv, NothingLeftOpen
  <1> QED BY <1>1, InvAlways, PTL

\* In a store that is not read-only, read_from_store returns what any thread of any process
\* wrote last at that offset, or zeros.
THEOREM ReadsLastWrite ==
  ASSUME CrashInCreate = FALSE
  PROVE  Spec => WritableReadsBack
  <1>1. ASSUME IInv, NEW t \in Threads, read_from_store(t), ~read_only
        PROVE  ReadInto(t) = written[job[t].off]
    <2>1. pc[t] = "io"
      BY <1>1 DEF read_from_store
    <2>2. FileOf(t) = fd_index(t) /\ size[fd_index(t)] >= P
      BY <1>1, <2>1, FileOfRight
    <2>3. /\ job[t].off \in Offsets /\ fd_index(t) = job[t].off \div P
          /\ file_offset(t) = job[t].off % P /\ fd_index(t) \in Files
          /\ file_offset(t) \in Files /\ file_offset(t) + nb <= P
      BY <1>1, <2>1, JobPlace
    <2>4. file_offset(t) + nb <= size[FileOf(t)]
      <3>1. file_offset(t) \in Int /\ nb \in Int /\ P \in Int /\ size[fd_index(t)] \in Int
        BY <1>1, <2>3, PartitionSize, StoreAssumption, SMTT(30) DEF IInv, TypeOK, Files
      <3> QED BY <2>2, <2>3, <3>1, SMT
    <2>5. content[<<fd_index(t), file_offset(t)>>] = written[job[t].off]
      BY <1>1, <2>3, SMTT(30) DEF IInv, ContentInv
    <2> QED BY <2>2, <2>4, <2>5 DEF ReadInto
  <1>2. IInv => [\A t \in Threads : read_from_store(t) /\ ~read_only =>
                                      ReadInto(t) = written[job[t].off]]_vars
    BY <1>1
  <1> QED BY <1>2, InvAlways, PTL DEF WritableReadsBack
=============================================================================
