---------------------------- MODULE PagingState -----------------------------
(***************************************************************************)
(* The shared state of the paging engine of umap: application threads that *)
(* fault on pages of a mapped region, the Uffd thread that turns faults    *)
(* into page events, the Buffer of page descriptors, the fill workers, the *)
(* evict manager and the evict workers, running concurrently. One module   *)
(* per component gives its steps; Paging puts them together.               *)
(*                                                                         *)
(* A critical section of Buffer::m_mutex is one step, cut where the code   *)
(* waits on a condition variable. Outside of it, every ioctl, store access *)
(* and queue operation is a step of its own. The worker pools are used in  *)
(* the form of FifoPool, which WorkQueue implements.                       *)
(*                                                                         *)
(* Page contents are abstracted to one question: does this copy hold what  *)
(* the application wrote last? A copy that does is "fresh", one that does  *)
(* not is "stale".                                                         *)
(***************************************************************************)
EXTENDS Integers, Sequences, FiniteSets, Functions

CONSTANTS Pages,           \* page addresses
          PDs,             \* the descriptors of Buffer::m_array
          NoPD, NoPage,    \* nullptr
          Apps,            \* application threads that touch mapped memory
          Accesses,        \* the accesses, as [page, write], they may make
          UffdThread,      \* the thread that runs Uffd::uffd_handler
          Prefetchers,     \* application threads that call umap_prefetch
          Fillers, Evictors,
          HighPct, LowPct, \* UMAP_EVICT_HIGH/LOW_WATER_THRESHOLD
          MaxEvict,        \* max_num_evicted_pages, 32 in the code
          MaxFaultEvents,  \* UMAP_MAX_FAULT_EVENTS
          MaxKicks         \* bound: THRESHOLD items counted in the queue

ASSUME BufferAssumption ==
  /\ Pages \subseteq Nat /\ IsFiniteSet(Pages)
  /\ IsFiniteSet(PDs) /\ PDs # {}
  /\ Accesses \subseteq [page : Pages, write : BOOLEAN]
  /\ NoPD \notin PDs /\ NoPage \notin Pages
  /\ HighPct \in 0..100 /\ LowPct \in 0..100
  /\ MaxEvict \in Nat \ {0} /\ MaxFaultEvents \in Nat \ {0}
  /\ MaxKicks \in Nat \ {0}

VARIABLES
  \* the kernel and the application
  mem,           \* page -> "none" (not mapped in), "fresh" or "stale"
  wp,            \* pages that are write-protected
  store_fresh,   \* pages whose copy in the Store is fresh
  fault,         \* app -> the access it is trying to complete, or NoFault
  blocked,       \* apps asleep in the kernel until a wake-up of their page
  unread,        \* blocked apps whose message was not yet read from the uffd
  \* Buffer
  m_present_pages, m_free_pages, m_busy_pages,
  active_pages,              \* descriptors in RegionDescriptor::m_active_pages
  m_waits_for_avail_pd, m_waits_for_state_change, \* who is counted in them
  asleep_avail, asleep_state,                     \* who sleeps on the condvars
  \* PageDescriptor
  page, state, dirty, deferred, data_present,
  \* threads that process page events
  pc, batch,
  \* fill workers
  fill_queue, filler_pc, filler_pd, filler_buf,
  \* evict manager and evict workers
  mgr_work, mgr_pc, mgr_list, evict_queue, evictor_pc, evictor_work,
  \* why the process died, if it did
  aborted

kernelVars == <<mem, wp, store_fresh, fault, blocked, unread>>
listVars == <<m_present_pages, m_free_pages, m_busy_pages, active_pages>>
waitVars == <<m_waits_for_avail_pd, m_waits_for_state_change, asleep_avail, asleep_state>>
pdVars == <<page, state, dirty, deferred, data_present>>
handlerVars == <<pc, batch>>
fillVars == <<fill_queue, filler_pc, filler_pd, filler_buf>>
mgrVars == <<mgr_pc, mgr_list>>
evictVars == <<evict_queue, evictor_pc, evictor_work>>
vars == <<kernelVars, listVars, waitVars, pdVars, handlerVars, fillVars,
          mgr_work, mgrVars, evictVars, aborted>>

Handlers == {UffdThread} \cup Prefetchers
Event == [page : Pages, write : BOOLEAN]
NoFault == [page |-> NoPage, write |-> FALSE]
WorkItem == [page_desc : PDs, type : {"EVICT", "FAST_EVICT", "FLUSH"}]
NoWork == [page_desc |-> NoPD, type |-> "NONE"]

\* The int m_waits_for_state_change also holds the increments of
\* get_page_descriptor, which nothing undoes.
Leaked == "leaked"

\* The float product is truncated towards zero.
apply_int_percentage(percentage, item) ==
  IF percentage \in {0, 100} THEN item ELSE (percentage * item) \div 100

m_evict_low_water == apply_int_percentage(LowPct, Cardinality(PDs))
m_evict_high_water == apply_int_percentage(HighPct, Cardinality(PDs))

\* The failed checks that end the process.
Fatal == {"set_state_free", "set_state_filling", "set_state_present", "set_state_updating",
          "UFFDIO_COPY", "evict_oldest_pages"}

KernelTypeOK ==
  /\ mem \in [Pages -> {"none", "fresh", "stale"}]
  /\ wp \subseteq Pages /\ store_fresh \subseteq Pages
  /\ fault \in [Apps -> Event \cup {NoFault}]
  /\ blocked \subseteq Apps /\ unread \subseteq blocked
  /\ \A t \in blocked : fault[t] \in Event

BufferTypeOK ==
  /\ m_present_pages \in [Pages -> PDs \cup {NoPD}]
  /\ m_free_pages \in Seq(PDs) /\ m_busy_pages \in Seq(PDs)
  /\ active_pages \subseteq PDs
  /\ m_waits_for_avail_pd \subseteq Handlers
  /\ m_waits_for_state_change \subseteq Handlers \cup {Leaked}
  /\ asleep_avail \subseteq Handlers /\ asleep_state \subseteq Handlers
  /\ pc \in [Handlers -> {"idle", "event", "wait_state", "wait_avail"}]
  /\ batch \in [Handlers -> SUBSET Event]

DescriptorTypeOK ==
  /\ page \in [PDs -> Pages \cup {NoPage}]
  /\ state \in [PDs -> {"FREE", "FILLING", "PRESENT", "UPDATING", "LEAVING"}]
  /\ dirty \in [PDs -> BOOLEAN] /\ deferred \in [PDs -> BOOLEAN]
  /\ data_present \in [PDs -> BOOLEAN]

WorkerTypeOK ==
  /\ fill_queue \in Seq(PDs)
  /\ filler_pc \in [Fillers -> {"get", "copy", "mark"}]
  /\ filler_pd \in [Fillers -> PDs \cup {NoPD}]
  /\ filler_buf \in [Fillers -> {"fresh", "stale"}]
  /\ mgr_work \in 0..MaxKicks
  /\ mgr_pc \in {"get", "check", "evict", "send"}
  /\ mgr_list \in Seq(PDs)
  /\ evict_queue \in Seq(WorkItem)
  /\ evictor_pc \in [Evictors -> {"get", "write", "madvise", "free"}]
  /\ evictor_work \in [Evictors -> WorkItem \cup {NoWork}]

TypeOK ==
  /\ KernelTypeOK /\ BufferTypeOK /\ DescriptorTypeOK /\ WorkerTypeOK
  /\ aborted \subseteq Fatal

\* The engine as addRegion starts it for a region backed by a Store.
Init ==
  /\ mem = [p \in Pages |-> "none"]
  /\ wp = {} /\ store_fresh = Pages
  /\ fault = [t \in Apps |-> NoFault] /\ blocked = {} /\ unread = {}
  /\ m_present_pages = [p \in Pages |-> NoPD]
  /\ m_free_pages \in Bijection(1..Cardinality(PDs), PDs)
  /\ m_busy_pages = <<>> /\ active_pages = {}
  /\ m_waits_for_avail_pd = {} /\ m_waits_for_state_change = {}
  /\ asleep_avail = {} /\ asleep_state = {}
  /\ page = [d \in PDs |-> NoPage] /\ state = [d \in PDs |-> "FREE"]
  /\ dirty = [d \in PDs |-> FALSE] /\ deferred = [d \in PDs |-> FALSE]
  /\ data_present = [d \in PDs |-> FALSE]
  /\ pc = [h \in Handlers |-> "idle"] /\ batch = [h \in Handlers |-> {}]
  /\ fill_queue = <<>> /\ filler_pc = [f \in Fillers |-> "get"]
  /\ filler_pd = [f \in Fillers |-> NoPD]
  /\ filler_buf = [f \in Fillers |-> "stale"]
  /\ mgr_work = 0 /\ mgr_pc = "get" /\ mgr_list = <<>>
  /\ evict_queue = <<>> /\ evictor_pc = [v \in Evictors |-> "get"]
  /\ evictor_work = [v \in Evictors |-> NoWork]
  /\ aborted = {}

\* UMAP_ERROR throws, nothing catches, the process dies: no thread takes a step any
\* more.
Alive == aborted = {}

DieUnless(ok, why) == aborted' = IF ok THEN aborted ELSE aborted \cup {why}
=============================================================================
