# Verification of umap

umap maps a Store (a file, or anything else behind the `Store` interface) into
memory and services the page faults of the mapping in user space, with its own
Buffer of pages, its own eviction and its own threads. This directory holds
TLA+ models of that engine, of the calls an application makes to it, of the
partitioned store and of the example programs; the TLC configurations that check
them on small instances; and TLAPS proofs for every instance.

## The system and its parts

| Part (under `src/umap/`) | What it does | Modelled by |
|---|---|---|
| `WorkQueue.hpp`, `WorkerPool.hpp` | queue, thread pool, idle waiting, stopping | `WorkQueue`, abstractly `FifoPool` |
| `Uffd.cpp` | reads fault messages, sorts and merges them; ioctls | `Uffd`, with `Kernel` for userfaultfd |
| `Buffer.cpp` | page descriptors, page events, eviction choice | `PagingState`, `Buffer` |
| `PageDescriptor.cpp`, `RegionDescriptor.hpp` | descriptor states; a region's active descriptors | `PageDescriptor`, `Buffer` |
| `FillWorkers.cpp` | read a page from the Store, copy it in | `FillWorkers` |
| `EvictManager.cpp`, `EvictWorkers.cpp` | evict at the high water mark, write back | `EvictManager`, `EvictWorkers` |
| `store/StoreFile.cpp` | pread and pwrite | `Store` |
| `RegionManager.cpp`, `umap.cpp` | regions, their lookup; umap, uunmap, umap_flush, umap_prefetch, umap_fetch_and_pin; start and end of the engine | `Calls`, `FlushCall`, `UnmapCall`, `PinCall`, `RegionManager`; addresses in `Mapping`; settings and sizes in `Sizing` |
| `store/SparseStore.cpp` | a store of partition files opened when first used | `SparseStore` |
| `util/` | logging; `UMAP_ERROR` ends the process | `DieUnless` |

| Part (under `examples/`) | What it does | Modelled by |
|---|---|---|
| `bfs/bfs_kernel.hpp`, `bfs/main.cpp` | breadth-first search by racing threads | `Bfs` |
| `bfs/rmat_graph_generator/ingest_edge_list.cpp` | makes the graph file; the search maps it | `GraphFile`; all three programs in `GraphTools` |
| `bfs/rmat_graph_generator/` (the rest) | generates edge lists, scrambles vertex numbers | `EdgeList`, `Hash` with `HashCheck` |
| `umapsort/` | sorts a mapped file, or several | `UmapSort`, `MapFile` |
| `stream/stream.c` | STREAM over mapped files, run after run | `Stream` |
| `bfs/utility/umap_fits_file.hpp` | a cube of FITS images behind a store of its own | `FitsCube` |

A fault takes this way. An application thread touches a page that is not in
memory, or writes to a protected one, and sleeps in the kernel. The Uffd thread
reads the message and calls `Buffer::process_page_event`, which takes a free
descriptor (or waits for one) and sends it to the fill workers. A fill worker
reads the Store and issues `UFFDIO_COPY`, which wakes the application thread. At
the high water mark the evict manager is kicked; it moves the oldest present
pages to the evict workers, which protect them, write them back, drop them from
memory and release their descriptors. The first write to a page that was read
goes the same way, to have the protection removed.

`PROJECT.json` lists every component, the map from definitions to source lines,
and every hazard found in the code, covered or not.

## Modules

**WorkQueue** has one step per critical section of `m_mutex`. A thread in
`pthread_cond_wait` is `asleep`; a signal makes one of them `woken`; spurious
wake-ups are allowed. `wait_for_idle` and `stop_thread_pool` run under the
RegionManager's mutex, which `RegionManagerMutexFree` states. Items sent after
the stop began are `LATE`. **FifoPool** is what clients may rely on; `WorkQueue`
refines it with `queue <- m_queue`, `busy`, `gone` and `waiting` read off the
threads' positions.

**Paging** puts the engine together from the modules above, over the variables
of **PagingState**:

- A critical section of `Buffer::m_mutex` is one step, cut where the code waits
  on a condition variable. Outside of it every ioctl, Store access and queue
  operation is a step.
- A worker's taking of an item is one step with what it does first: an item just
  taken cannot be told from one at the head of the queue.
- Pools are FIFO sequences, in the form `FifoPool` gives them. The evict
  manager's items are all alike and are counted.
- Page contents are reduced to "holds what the application wrote last" (`fresh`)
  or not (`stale`).
- Counters of waiting threads are the sets of the threads counted;
  `m_waits_for_state_change` also keeps `Leaked`, for the increments in
  `get_page_descriptor` that nothing undoes.
- A failed check (`UMAP_ERROR`) ends the process: its name goes into `aborted`
  and nothing moves any more.
- `evict_oldest_pages` tests an unsigned index with `i>=0`. Running over the front of
  the list has no defined outcome, so the model records it in `aborted`.
- **Kernel** is external: it models userfaultfd as `Uffd.cpp` uses it.

**Calls** runs the steps of `Paging` beside calls of the application. It adds the
mapped regions, the RegionManager's mutex, held from the first step of umap,
uunmap or umap_flush to its last, and the lookup of an event's region as a step of
its own, because `process_page` gives that mutex up before it uses what it found.
**FlushCall** is `flush_dirty_pages`: the walk over `m_busy_pages` that waits with
the Buffer's mutex released, and `WaitAll` with it held. **UnmapCall** is
`removeRegion`: `evict_region` while other regions remain, and for the last one
`EvictAll` and the end of the manager, the pools and the Uffd thread, in the order
of the code. **PinCall** is `fetch_and_pin`, which takes the two mutexes in the
other order. **RegionManager** puts them together and states their properties. The
actions of `Paging` are used as they are. Two places where the code has no defined
outcome are steps of their own:

- `m_busy_pages` is a `std::deque`, and `flush_dirty_pages` keeps an iterator over its wait
  (`Buffer.cpp:172`). `push_front` of a page brought in meanwhile (`Buffer.cpp:472`)
  invalidates it. In `CallBringIn` the iterator then still finds its element, as it does
  while the map of blocks has room, or is `Nowhere`, when the map is moved. A flush that goes on from
  `Nowhere` (`FlushLost`) ends the model's behaviour. `IteratorLost` names the state before it.
- `removeRegion` deletes the RegionDescriptor that a handler may have looked up before, or that the
  pages have which such a handler brought in. `overtaken` records the pages of these events.
  `UseDeletedRegion` lets the use of what was deleted end the process; otherwise it works as before.

**Mapping** counts addresses in system pages: memory from `mmap`, the aligned
region in it, the map of regions with the iterator of the last lookup, and the
rounding of a fault's address. **Sizing** has the settings of the environment, the
size of the Buffer and its water marks, a float with a mantissa of `Mantissa` bits,
and the arithmetic of `fetch_and_pin`. A build has its asserts or was made with `NDEBUG`
(`asserts`): `cmake/BuildType.cmake` makes Debug the default in a git checkout and Release
elsewhere, so both are modelled, here and in `EdgeList`.

**SparseStore** has the two constructors step by step, so that the process can die
between them; `get_fd` with its check outside and inside of the lock; transfers
by several threads; closing, deletion and reopening by a later process. A page
belongs to one worker at a time, which the engine guarantees (`OneOwner`).

**Bfs** makes every read and write of shared memory a step, the load and the store
of `|=` included, so that a bit can be lost. **GraphFile** has the three passes over
the edge lists with their OpenMP loops; a slot is captured atomically and filled
later. **EdgeList** lets the random numbers choose any quadrant. **GraphTools** runs
the three programs one after the other: the files that the generator leaves are
ingested, and the graph file is searched; edge lists and graphs may also come from
elsewhere. **UmapSort** and
**Stream** are run again and again over one file system, with what the operating
system may refuse; in `Stream` a run can also be killed and a page written
back at any time, and a page past the end of its file is what the buffer of a fill worker
held before (`Refill`): `pread` returns 0, and `FillWorkers.cpp:52-59` copies the buffer in. In
**FitsCube** a byte is named by its tile and its place, so that a wrong byte can be seen; the
file is opened with O_DIRECT, so `pread` may refuse a length that is not a multiple of
`Block`, and its result is not looked at.

The MC modules instantiate these for TLC. **MCRegions** has `Mapping` and `Sizing`
side by side, and **MCExamples** the example programs: a variable says which of them
a behaviour is about, and they share nothing else. Their properties are those of
the modules, guarded by that variable where the state of a program that does not
run would not satisfy them.

A definition whose comment begins with "Mutant" is a wrong variant of the one
that follows: a property is of use only if it tells the two apart.

## Runs

| Run | Question | Result |
|---|---|---|
| `work_queue` | single signals, idle waiting, draining, refinement of FifoPool; `wait_for_idle` and `stop_thread_pool` return | holds, 9,362 states |
| `paging_shared` | two threads race on the same pages with filling and eviction | holds, 692,697 states |
| `paging_churn` | more pages than descriptors, two workers of each kind | holds, 175,177 states |
| `paging_prefetch_room` | prefetch concurrent with faults, enough descriptors | holds, 720,373 states |
| `paging_progress` | accesses complete, eviction starts, nothing aborts | holds, 102,366 states |
| `calls` | umap_flush, uunmap and umap on two regions beside faults, to the end of the engine; calls and accesses return | holds, 120,912 states |
| `calls_evicting` | pinning, prefetching (of a pinned page too) and uunmap to the last region while pages are evicted | holds, 631,304 states |
| `sparse_store` | lazy opening by two threads; crashes and reopening; transfers end | holds, 51,203 states |
| `regions` | regions among other mappings, lookup with its cache; Buffer size, water marks, pinning when memory is short | holds, 130,356 states |
| `example_programs` | generating, ingesting and searching a graph; umapsort, STREAM, the FITS cube, the hash | holds, 581,487 states |
| `few_pages_overrun` | does the walk of `evict_oldest_pages` end at the front of the list? | violated |
| `flush_deadlock` | does umap_flush return while pages are evicted? | violated |

The properties of the engine:

- `OneOwner`: a descriptor is in exactly one place, the one its state says.
- `OneDescriptorPerPage`: the three records of which page has which descriptor agree.
- `Coherent`: no write of the application is lost or hidden by a stale copy.
- `NoImpossibleState`: no `set_state_*` check and no `UFFDIO_COPY` fails.
- `NoMissedBroadcast`: the conditional broadcasts leave nobody asleep for nothing.
- `NoForgottenFault`: merging and dropping of events leaves no thread without an
  event or an ioctl that will wake it.
- `PagingSafe`: all of these at once, with the types; `paging_shared` checks them one by
  one, the two other instances together.
- `AccessCompletes`, `EvictionStarts`: liveness of faults and of eviction.

Of the calls: `FlushDurable` and `UnmapDurable` (what was written before the call is in the
Store when it returns), `UnmappedIsGone` (nothing of the region is left, and nothing at
all when the engine ends, except for events that `uunmap` overtook), `OnePlace` (`OneOwner` with deferred
descriptors, and the types), `PinnedStays`, `MappedCoherent` (`Coherent` for what is mapped),
`CallReturns` and `AccessReturns` (`AccessCompletes` beside calls). `FlushDurable`,
`CallReturns` and `AccessReturns` leave out a flush whose iterator was invalidated.

Of the store: `DescriptorsSound` (however many threads ask for a partition it is opened
once, the check outside of the lock finds a descriptor that can be used, and a page does
not cross partitions), `NothingLeftOpen`, `WritableReadsBack` (a page reads as what was
written last, over crashes and reopening) and `TransferEnds`.

Of addresses and sizes: `RegionsSound` (a region lies in its own memory, and the page of a
fault in its region), `LookupRight` (the cached iterator makes no difference) and
`SizesSound` (the Buffer, its water marks and pinned pages fit; each page that is to be
pinned is fetched once; shrinking loses no descriptor; percentages in float are off by
one at most for sizes that a float holds, by three roundings above, and keep their order).

Of the examples: `SearchOfGiven` goes through all of the graph programs: the levels at the
end are the distances in the graph of the generated edges, whatever the threads did.
`ToolsSound` has what each program contributes: edges in both directions, slots that are
apart, the stored graph, levels that are distances at any moment, bits that are set only
after levels. `BfsEnds`: the search ends although bits can be lost. `NeverFailsValidation` and
`FilesToldApart` relate a run of STREAM to the files that earlier runs, killed ones included,
have left; the first is for files that have all pages of the run. `SortSound` is for umapsort.
`CubeSound`: a read that `pread` accepted reports bytes of the tile its page begins in and of nothing
else, and a page that begins with a tile has them in their places. `HashSound`: the hash stays in its
range and can be undone, for the numbers of bits that its assert lets pass.

### What the violated runs show

- `few_pages_overrun`. `for(; (i>=0 && ...); i--)` with `size_t i` (`Buffer.cpp:139`) ends
  only after 32 evictions. With fewer evictable pages it leaves the list.
- `flush_deadlock`. `WaitAll` is called with the Buffer's mutex held
  (`Buffer.cpp:177`), which an evict worker needs to free its page.

### What else the models show

The models can be asked more than the runs do. The following was found with other
constants; each line names the property that fails and what to change in the
configuration of which run.

| Property | Where | With | What the code does |
|---|---|---|---|
| `EvictsAboveHighWater` | `paging_progress` | `HighPct = 90`, four pages, `Array3` | Both water marks are 2. The kick at the mark (`Buffer.cpp:403`) finds the low threshold reached, and above the mark there is no other. |
| `OneDescriptorPerPage` | `paging_prefetch_room` | three pages, `Array2` | `get_page_descriptor` waits with the mutex released and the page is not looked up again (`Buffer.cpp:448-457`): two threads bring it in. |
| `FlushDurable` | `flush_deadlock`, `CallsSpec` | one call | A dirty page that the evict manager has taken and not yet sent is in no list and no queue (`Buffer.cpp:167`); the flush returns without it. |
| `UnmapDurable` | `calls_evicting` | one region, no pinning | The same at the last `uunmap` (`EvictManager.cpp:62`). |
| `NeverAborts` | `calls` | as it is | `push_front` invalidates the iterator that a flush keeps over its wait (`Buffer.cpp:172,472`). |
| `NeverAborts` | `calls` | `PinRanges` and `Prefetched` page 1, `Prefetchers = {"p1"}`, no calls | A pinned page has no descriptor, so a prefetch brings it in, and `UFFDIO_COPY` finds it in memory (`Buffer.cpp:241`). |
| `FlushDurable` | `calls` | `CallsSpec`, `PinRanges = {{1}}`, deadlock not checked | A pinned page has no descriptor, so nothing writes it back (`Buffer.cpp:241`). |
| `CallReturns` | `calls` | `PinRanges = {{1}}`, deadlock not checked | The two mutexes are taken in opposite orders (`Buffer.cpp:251`). |
| `NothingComesBack` | `calls_evicting` | as it is | An event found its region before `uunmap` and is processed after `evict_region` (`Uffd.cpp:139`). Here it is a prefetch. |
| `NothingComesBack` | `calls` | `TwoApps`, `AnyAccess`, `Array3` | The same with two threads that are done with the region before it is unmapped: the second event for their page was read, and is processed after. |
| `CallReturns` | `calls` | three pages, `Array2`, one `uunmap`, deadlock not checked | `evict_region` waits for FREE of a descriptor that may be given to another page before the caller runs (`Buffer.cpp:200`). |
| `TakenIsOffList` | `calls_evicting` | three pages, `Array3`, two fillers, 100 and 30 percent, no pinning, no prefetching | `evict_oldest_page` waits for the page at the back and pops the back, which may be another by then (`Buffer.cpp:112-113`). |
| `UffdThreadLeaves` | `calls` | one region, `TwoApps`, `AnyAccess`, `Array2`, one `uunmap`, deadlock not checked | `removeRegion` joins the Uffd thread with the mutex held that the thread needs for its lookup (`RegionManager.cpp:88`). |
| `DeferredReturns` | `calls` | one call | Only `evict_oldest_page` takes deferred descriptors back, and it runs at the last `uunmap` only (`Buffer.cpp:141`). |
| `OthersKept` | `regions` | `Fixed = TRUE` | umap asks `mmap` for a page more than the length, with UMAP_FIXED too (`umap.cpp:195`). |
| `PageInRegion` | `regions` | `umap_psize = 3` | The masks need a power of two (`umap.cpp:207`). |
| `OffsetsInRegion`, `SizeIsMaximum` | `regions` | as it is | `fetch_and_pin` asks for the offset of the end, which fails an assert of a Debug build when it is the end of the region (`RegionDescriptor.hpp:33`), and counts the Buffer without the descriptors that are leaving it (`Buffer.cpp:264-307`). |
| `OffsetsAligned` | `regions` | pins inside of pages | The address is not rounded (`Buffer.cpp:264`). |
| `ReadsBack` | `sparse_store` | as it is | A read-only store makes empty partition files, and reads nothing from them (`SparseStore.cpp:172`). |
| `RefusedIsOpenable` | `sparse_store` | `CrashInCreate = TRUE` | A crash inside of the create constructor leaves a directory that neither mode accepts (`SparseStore.cpp:47`). |
| `LevelIsDistance` | `example_programs` | `LevelBits = 2`, a path of five | A graph deeper than the levels have values is not searched to its end (16 bits in the code). |
| `FilesWithinWhole` | `example_programs` | as it is | The remainder of the pages goes to every file but the last (`umapsort/main.cpp:130`). |
| `PreviousFileUsed` | `example_programs` | as it is | `--noinit` does not use the previous file: it is unlinked (`umapsort/main.cpp:117`). |
| `AlwaysValidates` | `example_programs` | as it is | After a run with fewer elements the rest of the arrays is what a fill worker's buffer held, which may pass the check and be different when it is read again (`FillWorkers.cpp:52-59`, `StoreFile.cpp:33`). |
| `CubeRight`, `RestIsNaN`, `ReadFitsBuffer`, `ReportedIsRead` | `example_programs` | as it is | The offset in a tile is not read at; a byte is left out of the NaNs; one page is allocated where two are relied on; a `pread` that is refused is reported as read (`umap_fits_file.hpp:107,308`). |

### Bounds

`MaxEvict` is 32 in the code. The passing runs use 1, so that eviction is reached
with a few descriptors; `few_pages_overrun` uses 32. Even with 1 the walk of
`evict_oldest_pages` runs over the front of the list when every busy page is in
transition. Only `paging_progress` avoids it (`NeverAborts`). In `paging_shared`,
`paging_churn` and `paging_prefetch_room` it happens, `NoImpossibleState` admits it,
and the behaviour ends there: what they show is for executions up to an overrun.
`MaxKicks` caps the count of THRESHOLD items; at the cap a taken item may or may
not lower it, so more items than counted are covered. `MaxFaultEvents` is 2, so
that batches are split and merged. `MaxSends` bounds the work sent. Two or three
pages and descriptors are enough for a page to be wanted while it leaves, for
all descriptors to be in use, and for a list with pages of different states.
`paging_progress` uses marks that are apart (100 and 70 percent of three) and one fixed
kind of access per page to stay within reach of the liveness check. It has no
symmetry, and neither has any other run with a liveness property. Its result
is for the constants given: the same liveness fails when the marks coincide.

Every action is taken in some passing run.

The runs with calls have two pages, two to four descriptors, one worker of each kind
and two calls, or three with the prefetches counted (`MaxCalls`). That is enough for a call to meet every state of a
descriptor, for the list to change while it waits, and for two regions to be
unmapped, the second ending the engine. What holds depends on the instance, and the
passing runs are chosen so that it does:

- `calls` has a high water mark that is not reached, and descriptors enough also for
  the deferred ones that `uunmap` leaves on the list. With eviction, or fewer
  descriptors, the properties fail (`flush_deadlock`, and the table above). It has one
  application thread and no prefetches, so no event is in flight when its region goes.
- `calls_evicting` has uunmap only, and says nothing of what is stored when it returns.
  Prefetches may be in flight when their region goes: those not yet looked up are ignored,
  which `UnmappedIsGone` needs; those that have their region are overtaken, and their pages are
  exempt from it.
- It has `PinFirst`: the application pins a page before it touches or prefetches it. It may
  prefetch it afterwards, which ends the process at `UFFDIO_COPY`; `PinnedStays` is about
  the states before. Deadlock is not checked there, because the opposite orders of the two
  mutexes make one.
- A prefetch that is in flight when the last region goes sends work to stopped pools;
  nothing orders the two, and no property of `calls_evicting` excludes it.

`Sizing` has a mantissa of 8 bits in place of 24. The Buffers of its behaviours have a few pages;
the arithmetic of the water marks is checked besides for every size below 2^10, so most of them
are more than such a float holds exactly, and every percentage. `Mapping` tries the address hints in
`Hints`, of which one is not aligned. `SparseStore` has three pages in two
partitions, of which the second is not full, and two processes. `Bfs` has words of
three bits, so that threads share words and a graph has several; two threads search
every graph of three vertices and two of six. `Hash` is checked on samples of 17, 18, 20, 24
and 30 bits. The generator of the run makes vertex numbers of one bit: a build with asserts refuses to
scramble them, and in one without the hash leaves them as they are. `FitsCube` tries every start and
size of tiles below a few pages, with blocks of two bytes. In `Stream` a stale buffer holds one of the
two initial values (`Leftover`), the ones that can pass the check, and at most `MaxStale` words at a time
come from one.
`SortRuns`, `StreamRuns` and `MaxRuns` bound the processes that use the same files. Programs
and stores end, so deadlock is not checked in `sparse_store`, `regions` and
`example_programs`.

### Fairness

Weak fairness per thread: the operating system schedules every runnable thread,
mutexes are handed on, Store accesses and ioctls return. The application need not
touch memory, and nobody has to send work or stop a pool; a stop that was begun
is carried on. Spurious wake-ups are never assumed to happen.
A call that has begun is carried on; nobody has to make one. In
`SparseStore` the mutex of `get_fd` is given with strong fairness: a thread that waits
for it gets it if it is free again and again. In `Bfs` every thread of the loop runs.

## Proofs

The theorems of `WorkQueueProofs`, `PagingProofs`, `SparseStoreProofs`, `CallsProofs` and
`MappingProofs` hold for every value of the constants that the named assumptions `PoolAssumption`,
`BufferAssumption`, `StoreAssumption`, `CallsAssumption` and `MappingAssumption` allow.

*WorkQueue.* The inductive invariant is `TypeOK`, `CountersExact`, `NoLostSignal`
and `NoMissedIdle` with two strengthenings: `Serialised` (at most one caller is in
`wait_for_idle`, without which one signal would not do) and `WorkBeforeExit` (no
work sent before the stop is queued behind an EXIT item, and none is left once a
thread has left). It gives the
counters (`CountersExact`), the two signal properties, draining, `IdleSound`, and the refinement of
`FifoPool`, step by step.

*Paging.* The proof has two inductive invariants, both in `PagingInvariant`.

`IInv` is about descriptors: `TypeOK` and `OneOwner` with `MgrHolds` (the manager has a
list exactly while it sends), `PageKnown` (a descriptor in use has a page, and none is
deferred) and `OnlyEvictions` (only EVICT items are sent). It holds with any number of
prefetching threads: duplicated descriptors for a page do not break ownership.

`JInv` is about pages and threads, and each part is what a step of one thread relies on in
the state of another:

- `OneDescriptorPerPage`; it needs that a handler which waits for a descriptor still
  finds its page without one (`HandlerInv`, with what the waiting handlers are counted in);
- `MemInv`: the data of a page is in memory exactly when its descriptor says so, an
  UPDATING one is dirty, a PRESENT dirty one is not protected (`BusyInv`); what a fill
  worker has in its buffer is still up to date (`FillerInv`); a page stays in memory until
  madvise and is protected while it is written (`LeavingInv`); a page that is in memory and
  not dirty is protected and the same in the Store (`CleanInv`); a page without a descriptor is
  not in memory (`AbsentInv`); and `Coherent`;
- `FaultInv`: a thread asleep on a page in memory wants to write to a protected one
  (`BlockedInv`), and `NoForgottenFault`;
- `NoMissedBroadcast` and `NoImpossibleState`.

`JInv` assumes `NoRace`: there are no prefetching threads, or there is a descriptor for every
page. Otherwise two handlers that both wait for a descriptor for one page bring it in
twice (`process_page_event` looks the page up once, before the wait): `OneDescriptorPerPage`
fails, and with it the argument for the others. The engine as `addRegion` starts it has no
prefetching thread; `umap_prefetch` makes its caller one.

There is one lemma per action in `PagingSteps`: first for `IInv`, then for
`OneDescriptorPerPage` and `MemInv`, then for handlers and faults. `PagingProofs` has
`evict_oldest_pages`, the counting argument behind the second half of `NoRace`, and the
theorems: `PagingTypeOK` and `PagingOneOwner` without a hypothesis, and from `NoRace` one theorem for each of
the other properties and `PagingIsSafe` for all of them. The proofs are split because the
provers slow down with the number of facts in sight. For the same reason the facts about lists are
proved in `PagingInvariant`, and only the modules with theorems use the library for
cardinalities.

*SparseStore.* The inductive invariant `IInv` adds to the properties: the sizes that an
object works with are those of the first process (`SizesInv`), a thread between the
second check and the unlock has the mutex, and its partition has no id until it
publishes one (`ThreadInv`), every open descriptor is published or in the hands of the
one thread that opened it (`OwnedFds`), no descriptor number is used twice
(`OneFilePerDescriptor`), and a page on disk is what was written last (`ContentInv`). The
arithmetic is proved from division with remainder: an offset of the region has a
partition in the array, offsets have different places, and a page ends in its partition
because `aligned_size` and the offset are multiples of the page size. `SparseStoreProofs` has
these lemmas, the steps of the object, those of the threads, then
`DescriptorsAlwaysSound`, `CloseIsComplete` and `ReadsLastWrite`. All three assume that
`CrashInCreate` is FALSE: a process that dies in the create constructor leaves sizes that
are not there to be read.

*Calls.* `CallsInv` is an inductive invariant of the engine with umap_flush, uunmap, umap and
umap_fetch_and_pin called in any order. Its first part says what threads and calls hand to each
other: what a handler that waits, a worker with an item, the manager with a list and a call
in its middle have got is a descriptor or a page. It is not `TypeOK`: the iterator of a flush and
the late events of an unmapped region make lists with duplicates, so the ownership that
`IInv` gives the engine alone does not hold here. Its second part, `PinInv`, says that if pages
are pinned before they are touched (`PinFirst`) and are not among those that umap_prefetch is called
for, they never have a descriptor, an event or a protection, however far another call is.
`PinnedStaysPinned` follows from this hypothesis, `PinnedApart`. Without its second half a
prefetch of a pinned page gets a descriptor and ends the process; that `PinnedStays` holds up to there
is checked by `calls_evicting` only.

*Flush.* Four theorems are about umap_flush. They assume `FlushOnly`: uunmap and
umap_fetch_and_pin are not called, and the pages of all regions are fewer than the high water mark, so
that nothing is evicted. With eviction the call
may never return (`flush_deadlock`). Flushes, faults of any number of threads on
any number of regions, prefetches and spurious wake-ups interleave freely. The invariant is `CallsInv` with
`FlushInv` or `LostInv` (all in `CallsInvariant`). `LostInv` is what is left of `FlushInv` once the iterator is
`Nowhere`: everything but what it says of the walk, until the process ends. `FlushInv` is:

- `Quiet`: what `FlushOnly` keeps at rest. That the manager stays at rest takes a count: there is
  at most one descriptor on the busy list for each page, so the list never gets to the high
  water mark, and a page without a descriptor finds a free one (`FlushHasRoom`);
- `Owned`, `OneDescriptorPerPage` and `PagesInv`: the part of `IInv` and `JInv` that survives a flush. What a
  flush takes away is that a PRESENT dirty page is not protected: it is while it is written back;
- `ItemInv`: what is queued for the evict workers or in their hands are different descriptors,
  PRESENT and dirty until they are written back, and protected while they are. A handler
  that meets such a page leaves it alone: it is dirty already;
- `WalkInv`: while the walk waits for a page, its iterator, as long as it is valid, points at that page
  although others push descriptors to the front of the list; everything sent lies before it, and
  each page that must be written back was sent or lies at or behind it. Once the walk is over, every such page was
  sent, and when the evict workers are idle nothing sent is left.

`FlushCallSteps` has a lemma per step, and `CallsProofs` those for `CallsInv`, the counting, the
initial states and the theorems: `FlushIsDurable` (`FlushDurable`), `FlushKeepsCoherent` (`MappedCoherent`),
`FlushKeepsPlaces` (`OnePlace`) and `FlushEndsOnlyLost` (`EndsOnlyLost`: nothing ends the process but a flush
that goes on with an invalidated iterator). The first says nothing of a call whose iterator is lost, since
such a call does not return in the model. The invariants were first checked with TLC on instances with two pages and three descriptors, one with a
prefetching thread and two flushes, one with two application threads.

*Mapping.* `RegionsAlwaysSound` (`RegionsSound`) and `LookupsAreRight` (`LookupRight`) hold for an address
space of any size, any sizes and any number of regions, and whatever memory the application maps
and frees besides. They assume that the page size is a power of two
(`PowerOfTwo(umap_psize)`), which `set_umap_page_size` does not check and the masks need, and that
`UMAP_FIXED` is not given, which may take the memory of another region. `MappingInv` is
the inductive invariant: every region, the one between `mmap` and `addRegion` included, is aligned, not
empty and in memory that its own `mmap` gave; no two have the same number; and the iterator of the last lookup
points to a region of the map. Two regions then share no address, so the last region that
starts at or before an address is the only one that may have it, and the shortcut through the iterator gives
the same answer.

The masks are `x & (umap_psize - 1)`, and `And` is defined by recursion over the bits. `MaskOfPower` shows that
such a mask is the remainder. The library's induction theorems cannot be used here, as they take an
operator; its theorem on well-founded relations (`WFMin`) can, and gives a least element of a set of numbers
(`Least`), from that induction for the numbers of a set (`Induction`), and from that, in turn, that the equation of
`And` has a solution (`AndExistsUpTo`), only one (`AndUnique`), and that `And` satisfies it (`AndIs`).

Only model-checked: everything that is not named above. `MappedCoherent` and `OnePlace` beside uunmap,
umap_fetch_and_pin and eviction, and `FlushDurable` beside uunmap, are checked by
`calls` and `calls_evicting`. `NeverAborts` with eviction needs a bound on the pages in transition when the
manager walks the list, and none follows simply from the constants: the queue of the fill workers
has no limit, and an event that was read may bring a page in again after the thread that
waited for it went on. `UnmapDurable` fails beside eviction (the table above), so there is no
theorem to prove before the code changes; `UnmappedIsGone` is checked on the instance of
`calls_evicting` and not proved. Liveness is outside of
what the prover does. `SizesSound` depends on the rounding of floats, with
powers of two that the provers do not compute with. The example programs (`SearchOfGiven`, `ToolsSound`,
`SortSound`, `NeverFailsValidation`, `CubeSound`, `HashSound`) are put together in modules that use the bit
operations of `Hash`, which the prover does not handle.

## Not modelled

- **Start of Uffd**: its constructor, `register_region` and the compatibility check ask
  the kernel for features and either work or end the process.
- **Short transfers**: the Store of the engine transfers whole pages. `StoreFile` neither
  retries nor reports a short count. In `SparseStore` a transfer past the end of a file
  is short, and in `Stream` a read there leaves the worker's buffer as it was.
- **Sort, timing, output**: the library's sort is taken to sort; the timing of STREAM
  and of the other examples, the monitor thread, the statistics and the logger only
  report.
- **hash32** and the branches of `hash_nbits` for vertex numbers of 32 bits and more are past the
  integers of TLC. The
  probabilities of the edge generator are not modelled.
- **umapsort with several files over umap**: only `--usemmap` is modelled; `Mapping` has
  what overlapping regions do.
- **ingest_edge_list** does not look whether the third pass could open a list. The
  model has every list readable then.
- **Read-only build** (`UMAP_RO_MODE`).

A proof that would come next is that of `OnePlace` and `MappedCoherent` beside eviction, for
an umap_flush that gives the mutex of the Buffer back before it waits.
