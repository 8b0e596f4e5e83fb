--------------------------- MODULE FlushCallSteps ---------------------------
(***************************************************************************)
(* Steps of the engine and of umap_flush keep FlushInv, while nothing is   *)
(* unmapped or pinned and there is room for the pages, for any number of   *)
(* pages, descriptors, regions, threads and calls.                         *)
(***************************************************************************)
EXTENDS CallsInvariant

\* Most leaves are first-order reasoning; those that need more name SMT.
USE Zenon

(* What follows from the invariant *)

\* As for the engine alone: a page has one descriptor.
LEMMA PageOfDescriptor ==
  ASSUME CallsInv, FlushInv
  PROVE  /\ \A d \in PDs : state[d] # "FREE" =>
              d \in active_pages /\ page[d] \in Pages /\ m_present_pages[page[d]] = d
         /\ \A c, d \in PDs : state[c] # "FREE" /\ state[d] # "FREE" /\ page[c] = page[d] => c = d
         /\ \A p \in Pages : m_present_pages[p] # NoPD =>
              /\ m_present_pages[p] \in PDs /\ state[m_present_pages[p]] # "FREE"
              /\ page[m_present_pages[p]] = p
<1>1. \A d \in PDs : d \in active_pages <=> state[d] # "FREE"
  BY DEF FlushInv, OneDescriptorPerPage, InState
<1> QED
  BY <1>1, SMT DEF FlushInv, OneDescriptorPerPage, CallsInv, ListsTyped

\* What the fill workers have.
LEMMA FillPlaces ==
  ASSUME CallsInv, FlushInv
  PROVE  /\ fill_queue \in Seq(PDs) /\ IsInjective(fill_queue)
         /\ \A d \in Range(fill_queue) : d \in PDs /\ state[d] \in {"FILLING", "UPDATING"}
         /\ \A f \in Fillers : filler_pc[f] # "get" =>
              /\ filler_pd[f] \in PDs /\ state[filler_pd[f]] \in {"FILLING", "UPDATING"}
              /\ filler_pd[f] \notin Range(fill_queue)
         /\ \A f, g \in Fillers :
              filler_pc[f] # "get" /\ filler_pc[g] # "get" /\ filler_pd[f] = filler_pd[g] => f = g
<1> USE DEF FlushInv, Owned, FillOwned
<1>1. \A d \in Range(fill_queue) : d \in InState({"FILLING", "UPDATING"})
  OBVIOUS
<1>2. \A f \in Fillers : filler_pc[f] # "get" => filler_pd[f] \in FillerHas
  BY DEF FillerHas
<1>3. \A d \in FillerHas : d \in InState({"FILLING", "UPDATING"}) /\ d \notin Range(fill_queue)
  OBVIOUS
<1>4. fill_queue \in Seq(PDs)
  BY DEF CallsInv, WorkerTypeOK
<1> QED
  BY <1>1, <1>2, <1>3, <1>4 DEF InState

\* The busy list has every descriptor in use, once.
LEMMA BusyPlaces ==
  ASSUME CallsInv, FlushInv
  PROVE  /\ m_busy_pages \in Seq(PDs) /\ IsInjective(m_busy_pages) /\ Len(m_busy_pages) \in Nat
         /\ DOMAIN m_busy_pages = 1..Len(m_busy_pages)
         /\ \A i \in DOMAIN m_busy_pages :
              m_busy_pages[i] \in PDs /\ state[m_busy_pages[i]] \in {"FILLING", "PRESENT", "UPDATING"}
         /\ \A d \in PDs : state[d] # "FREE" => \E i \in DOMAIN m_busy_pages : m_busy_pages[i] = d
<1>1. m_busy_pages \in Seq(PDs) /\ IsInjective(m_busy_pages)
  BY DEF CallsInv, ListsTyped, FlushInv, Owned, BusyOwned
<1>2. Len(m_busy_pages) \in Nat /\ DOMAIN m_busy_pages = 1..Len(m_busy_pages)
  BY <1>1, ListLen
<1>3. \A i \in DOMAIN m_busy_pages : m_busy_pages[i] \in Range(m_busy_pages)
  BY DEF Range
<1>4. \A d \in PDs : state[d] # "FREE" => d \in Range(m_busy_pages)
  BY DEF CallsInv, DescriptorTypeOK, FlushInv, Quiet, Owned, BusyOwned, InState
<1>5. \A d \in Range(m_busy_pages) : d \in PDs /\ state[d] \in {"FILLING", "PRESENT", "UPDATING"}
  BY DEF FlushInv, Owned, BusyOwned, InState
<1> QED
  BY <1>1, <1>2, <1>3, <1>4, <1>5 DEF Range

\* What the evict workers have.
LEMMA ItemPlaces ==
  ASSUME CallsInv, FlushInv
  PROVE  /\ evict_queue \in Seq(WorkItem) /\ IsInjective(evict_queue)
         /\ \A w \in Range(evict_queue) :
              /\ w.page_desc \in PDs /\ w = FlushItem(w.page_desc)
              /\ state[w.page_desc] = "PRESENT" /\ dirty[w.page_desc]
         /\ \A v \in Evictors : evictor_pc[v] # "get" =>
              /\ evictor_pc[v] = "write"
              /\ evictor_work[v].page_desc \in PDs
              /\ evictor_work[v] = FlushItem(evictor_work[v].page_desc)
              /\ evictor_work[v] \notin Range(evict_queue)
              /\ state[evictor_work[v].page_desc] = "PRESENT" /\ dirty[evictor_work[v].page_desc]
              /\ page[evictor_work[v].page_desc] \in wp
         /\ \A d \in Sent : d \in PDs /\ state[d] = "PRESENT" /\ dirty[d]
<1>1. evict_queue \in Seq(WorkItem) /\ IsInjective(evict_queue)
  BY DEF CallsInv, WorkerTypeOK, FlushInv, ItemInv
<1>2. \A w \in Range(evict_queue) : w \in WorkItem
  <2>1. \A i \in DOMAIN evict_queue : evict_queue[i] \in WorkItem
    BY <1>1, ListLen, ListMember
  <2> QED
    BY <2>1 DEF Range
<1>3. \A w \in WorkItem : w.type = "FLUSH" => w.page_desc \in PDs /\ w = FlushItem(w.page_desc)
  BY SMT DEF WorkItem, FlushItem
<1>4. \A v \in Evictors : evictor_pc[v] # "get" => evictor_work[v] \in WorkItem
  BY DEF CallsInv, HandsTyped
<1>5. \A w \in Range(evict_queue) :
        /\ w.page_desc \in PDs /\ w = FlushItem(w.page_desc)
        /\ state[w.page_desc] = "PRESENT" /\ dirty[w.page_desc]
  BY <1>2, <1>3 DEF FlushInv, ItemInv
<1>6. ASSUME NEW v \in Evictors, evictor_pc[v] # "get"
      PROVE  /\ evictor_pc[v] = "write"
             /\ evictor_work[v].page_desc \in PDs
             /\ evictor_work[v] = FlushItem(evictor_work[v].page_desc)
             /\ evictor_work[v] \notin Range(evict_queue)
             /\ state[evictor_work[v].page_desc] = "PRESENT" /\ dirty[evictor_work[v].page_desc]
             /\ page[evictor_work[v].page_desc] \in wp
  BY <1>3, <1>4, <1>6 DEF FlushInv, ItemInv
<1>7. \A d \in Sent : d \in PDs /\ state[d] = "PRESENT" /\ dirty[d]
  <2>1. ASSUME NEW d \in EvictQueued PROVE d \in PDs /\ state[d] = "PRESENT" /\ dirty[d]
    BY <1>5 DEF EvictQueued
  <2>2. ASSUME NEW d \in EvictorHas PROVE d \in PDs /\ state[d] = "PRESENT" /\ dirty[d]
    <3>1. PICK v \in {u \in Evictors : evictor_pc[u] # "get"} : d = evictor_work[v].page_desc
      BY DEF EvictorHas
    <3> QED
      BY <1>6, <3>1
  <2> QED
    BY <2>1, <2>2 DEF Sent
<1> QED
  BY <1>1, <1>5, <1>6, <1>7

\* A page that is not up to date in the Store is in memory and has a dirty descriptor.
LEMMA BehindIsDirty ==
  ASSUME CallsInv, FlushInv, NEW p \in Pages \ store_fresh
  PROVE  /\ mem[p] = "fresh" /\ m_present_pages[p] \in PDs /\ dirty[m_present_pages[p]]
         /\ state[m_present_pages[p]] # "FREE" /\ page[m_present_pages[p]] = p
<1>1. mem[p] = "fresh" /\ m_present_pages[p] # NoPD
  BY DEF FlushInv, PagesInv, Coherent, AbsentInv
<1>2. /\ m_present_pages[p] \in PDs /\ state[m_present_pages[p]] # "FREE"
      /\ page[m_present_pages[p]] = p
  BY <1>1, PageOfDescriptor
<1>3. dirty[m_present_pages[p]]
  BY <1>1, <1>2 DEF FlushInv, PagesInv, CleanInv, Resident
<1> QED
  BY <1>1, <1>2, <1>3

-----------------------------------------------------------------------------
(* Where a piece of the invariant is out of a step's reach *)

listedVars == <<m_free_pages, m_busy_pages, fill_queue, filler_pc, filler_pd>>
restingVars == <<aborted, regions, pin_pc, pinned, mgr_work, mgrVars, deferred>>
pagesVars == <<mem, wp, store_fresh, m_present_pages, page, state, dirty, data_present, fillVars>>
walkVars == <<evictVars, call, call_pd, flush_pos, m_busy_pages, dirty, m_present_pages>>

LEMMA FlushFrames ==
  ASSUME CallsInv, FlushInv
  PROVE  /\ UNCHANGED <<listedVars, state>> => Owned'
         /\ UNCHANGED <<active_pages, page, m_present_pages, state>> => OneDescriptorPerPage'
         /\ UNCHANGED <<evictVars, state, dirty, page, wp>> => ItemInv'
         /\ UNCHANGED pagesVars => PagesInv'
         /\ UNCHANGED walkVars /\ must' \ store_fresh' \subseteq must \ store_fresh => WalkInv'
         /\ UNCHANGED <<restingVars, state, pc, call>> /\ DOMAIN pin_left' = DOMAIN pin_left => Quiet'
<1>1. ASSUME UNCHANGED <<listedVars, state>> PROVE Owned'
  <2>1. \A S : InState(S)' = InState(S)
    BY <1>1 DEF InState
  <2> QED
    BY <1>1, <2>1, FreeFrame, BusyFrame, FillFrame DEF FlushInv, Owned, listedVars
<1>2. ASSUME UNCHANGED <<active_pages, page, m_present_pages, state>> PROVE OneDescriptorPerPage'
  BY <1>2 DEF FlushInv, OneDescriptorPerPage, InState
<1>3. ASSUME UNCHANGED <<evictVars, state, dirty, page, wp>> PROVE ItemInv'
  BY <1>3 DEF FlushInv, ItemInv, evictVars
<1>4. ASSUME UNCHANGED pagesVars PROVE PagesInv'
  BY <1>4
  DEF FlushInv, PagesInv, StateInv, FillerInv, CleanInv, AbsentInv, Coherent, Resident, pagesVars,
      fillVars
<1>5. ASSUME UNCHANGED walkVars, must' \ store_fresh' \subseteq must \ store_fresh PROVE WalkInv'
  <2>1. Sent' = Sent
    BY <1>5 DEF Sent, EvictQueued, EvictorHas, walkVars, evictVars
  <2>2. EvictorsIdle' <=> EvictorsIdle
    BY <1>5 DEF EvictorsIdle, walkVars, evictVars
  <2> QED
    BY <1>5, <2>1, <2>2 DEF FlushInv, WalkInv, walkVars
<1>6. ASSUME UNCHANGED <<restingVars, state, pc, call>>, DOMAIN pin_left' = DOMAIN pin_left
      PROVE  Quiet'
  BY <1>6 DEF FlushInv, Quiet, Alive, restingVars, mgrVars
<1> QED
  BY <1>1, <1>2, <1>3, <1>4, <1>5, <1>6

\* Steps that only concern who waits, and which events there are.
LEMMA ThreadsOnly ==
  ASSUME CallsInv, FlushInv,
         UNCHANGED <<mem, wp, store_fresh, listVars, pdVars, fillVars, mgr_work, mgrVars, evictVars,
                     aborted>>,
         UNCHANGED <<regions, call, call_pd, flush_pos, must, pinVars>>, calls' \in 0..MaxCalls,
         looked_up' \subseteq Handlers, \A h \in Handlers : pc'[h] # "wait_avail"
  PROVE  FlushInv'
<1> USE DEF listVars, pdVars, fillVars, pinVars
<1>1. Owned' /\ OneDescriptorPerPage'
  BY FlushFrames DEF listedVars
<1>2. ItemInv' /\ PagesInv'
  BY FlushFrames DEF pagesVars
<1>3. WalkInv'
  BY FlushFrames DEF walkVars
<1>4. Quiet'
  BY DEF FlushInv, Quiet, Alive, mgrVars
<1>5. SetsTyped'
  BY DEF FlushInv, SetsTyped
<1> QED
  BY <1>1, <1>2, <1>3, <1>4, <1>5 DEF FlushInv

-----------------------------------------------------------------------------
(* Steps of the application and of those that read its faults *)

LEMMA FlushAppWrites ==
  ASSUME CallsInv, FlushInv, NEW p \in Pages, mem[p] # "none", p \notin wp, AppWrites(p),
         Written(p),
         UNCHANGED <<wp, listVars, pdVars, pc, fill_queue, filler_pc, filler_pd, mgr_work, mgrVars,
                     evictVars, aborted>>,
         UNCHANGED <<regions, looked_up, call, target, call_pd, flush_pos, calls, pin_pc, pinned>>
  PROVE  FlushInv'
<1> USE DEF listVars, pdVars
<1>1. /\ mem' = [mem EXCEPT ![p] = "fresh"] /\ store_fresh' = store_fresh \ {p}
      /\ filler_buf' = [f \in Fillers |-> IF filler_pc[f] = "copy" /\ page[filler_pd[f]] = p
                                          THEN "stale" ELSE filler_buf[f]]
      /\ must' = must \ {p} /\ DOMAIN pin_left' = DOMAIN pin_left
  BY DEF AppWrites, Written
<1>2. \A q \in Pages : (mem'[q] # "none" <=> mem[q] # "none") /\ mem'[q] \in {mem[q], "fresh"}
  BY <1>1 DEF CallsInv, MemoryTyped
<1>3. \A d \in PDs : state[d] # "FREE" => (Resident(d)' <=> Resident(d))
  BY <1>2, PageOfDescriptor DEF Resident
<1>4. StateInv' /\ CleanInv'
  BY <1>1, <1>3 DEF FlushInv, PagesInv, StateInv, CleanInv
<1>5. FillerInv'
  <2>1. ASSUME NEW f \in Fillers, filler_pc[f] = "copy" PROVE page[filler_pd[f]] # p
    <3>1. /\ filler_pd[f] \in PDs /\ state[filler_pd[f]] = "FILLING"
          /\ ~data_present[filler_pd[f]]
      <4>1. filler_pd[f] \in PDs
        BY <2>1, FillPlaces
      <4> QED
        BY <2>1, <4>1 DEF FlushInv, PagesInv, FillerInv
    <3> QED
      BY <3>1 DEF FlushInv, PagesInv, StateInv, Resident
  <2> QED
    BY <1>1, <2>1 DEF FlushInv, PagesInv, FillerInv
<1>6. AbsentInv' /\ Coherent'
  <2>1. mem'[p] = "fresh" /\ \A q \in Pages \ {p} : mem'[q] = mem[q]
    BY <1>1 DEF CallsInv, MemoryTyped
  <2> QED
    BY <1>1, <1>2, <2>1 DEF FlushInv, PagesInv, AbsentInv, Coherent
<1>7. Owned' /\ OneDescriptorPerPage' /\ ItemInv'
  BY FlushFrames DEF listedVars
<1>8. WalkInv'
  BY <1>1, FlushFrames DEF walkVars
<1>9. Quiet' /\ SetsTyped'
  BY <1>1, FlushFrames DEF restingVars, FlushInv, SetsTyped
<1> QED
  BY <1>4, <1>5, <1>6, <1>7, <1>8, <1>9 DEF FlushInv, PagesInv

LEMMA FlushAppStep ==
  ASSUME CallsInv, FlushInv, NEW t \in Apps, CallAppStep(t)
  PROVE  FlushInv'
<1>1. ASSUME NEW p \in {e.page : e \in {a \in Accesses : a.write}}, CallAppWrite(t, p)
      PROVE  FlushInv'
  <2>1. p \in Pages
    BY BufferAssumption
  <2> QED
    BY <1>1, <2>1, FlushAppWrites DEF CallAppWrite, AppWrite, Accessible, handlerVars
<1>2. ASSUME NEW e \in Accesses, CallAppFault(t, e) PROVE FlushInv'
  <2>1. /\ looked_up' \subseteq Handlers /\ calls' \in 0..MaxCalls
        /\ \A h \in Handlers : pc'[h] # "wait_avail"
    BY <1>2 DEF CallAppFault, AppFault, callVars, handlerVars, FlushInv, SetsTyped, Quiet
  <2> QED
    BY <1>2, <2>1, ThreadsOnly DEF CallAppFault, AppFault, callVars
<1>3. CASE CallAppRetry(t)
  <2>1. fault[t].page \in Pages
    BY <1>3, BufferAssumption, SMT
    DEF CallAppRetry, AppRetry, CallsInv, MemoryTyped, Event
  <2>2. CASE fault[t].write
    BY <1>3, <2>1, <2>2, FlushAppWrites DEF CallAppRetry, AppRetry, Accessible, handlerVars
  <2>3. CASE ~fault[t].write
    <3>1. /\ looked_up' \subseteq Handlers /\ calls' \in 0..MaxCalls
          /\ \A h \in Handlers : pc'[h] # "wait_avail"
      BY <1>3 DEF CallAppRetry, AppRetry, handlerVars, FlushInv, SetsTyped, Quiet
    <3> QED
      BY <1>3, <2>3, <3>1, ThreadsOnly DEF CallAppRetry, AppRetry, fillVars, pinVars
  <2> QED
    BY <2>2, <2>3
<1> QED
  BY <1>1, <1>2, <1>3 DEF CallAppStep

LEMMA FlushReads ==
  ASSUME CallsInv, FlushInv,
         \/ UffdRead /\ UNCHANGED callVars
         \/ \E h \in Prefetchers, p \in Prefetched : CallPrefetch(h, p)
  PROVE  FlushInv'
<1>1. PICK h \in Handlers :
        /\ pc' = [pc EXCEPT ![h] = "event"]
        /\ UNCHANGED <<mem, wp, store_fresh, listVars, pdVars, fillVars, mgr_work, mgrVars,
                       evictVars, aborted>>
  BY DEF UffdRead, CallPrefetch, Prefetch, kernelVars, Handlers
<1>2. \A g \in Handlers : pc'[g] # "wait_avail"
  BY <1>1 DEF FlushInv, Quiet, CallsInv, ListsTyped
<1>3. UNCHANGED <<regions, looked_up, call, call_pd, flush_pos, must, pinVars>>
  BY DEF CallPrefetch, callVars
<1>4. calls' = calls \/ (calls < MaxCalls /\ calls' = calls + 1)
  BY DEF CallPrefetch, callVars
<1>5. calls' \in 0..MaxCalls
  <2>1. calls \in 0..MaxCalls
    BY DEF FlushInv, SetsTyped
  <2> QED
    BY <1>4, <2>1, CallsAssumption, SMT
<1> QED
  BY <1>1, <1>2, <1>3, <1>5, ThreadsOnly DEF FlushInv, SetsTyped

LEMMA FlushWakes ==
  ASSUME CallsInv, FlushInv, NEW h, SpuriousWake(h), UNCHANGED callVars
  PROVE  FlushInv'
<1>1. /\ looked_up' \subseteq Handlers /\ calls' \in 0..MaxCalls
      /\ \A g \in Handlers : pc'[g] # "wait_avail"
  BY DEF SpuriousWake, callVars, handlerVars, FlushInv, SetsTyped, Quiet
<1> QED
  BY <1>1, ThreadsOnly DEF SpuriousWake, callVars, kernelVars

-----------------------------------------------------------------------------
(* Page events *)

\* Looking the region up, sleeping until the page changes state, and a spurious event.
LEMMA FlushWaits ==
  ASSUME CallsInv, FlushInv, NEW h \in Handlers, NEW e \in Event,
         \/ FindRegion(h, e)
         \/ ByHandler(h, WaitForState(h, e)) /\ UNCHANGED flush_pos
         \/ ByHandler(h, SpuriousEvent(h, e)) /\ UNCHANGED flush_pos
  PROVE  FlushInv'
<1>1. \A g \in Handlers : pc[g] # "wait_avail"
  BY DEF FlushInv, Quiet
<1>2. CASE FindRegion(h, e)
  <2>1. /\ looked_up' \subseteq Handlers /\ calls' \in 0..MaxCalls
        /\ \A g \in Handlers : pc'[g] # "wait_avail"
    BY <1>1, <1>2 DEF FindRegion, vars, handlerVars, FlushInv, SetsTyped
  <2> QED
    BY <1>2, <2>1, ThreadsOnly DEF FindRegion, vars, kernelVars
<1>3. CASE ByHandler(h, WaitForState(h, e)) /\ UNCHANGED flush_pos
  <2>1. looked_up' \subseteq Handlers /\ calls' \in 0..MaxCalls
    BY <1>3 DEF ByHandler, FlushInv, SetsTyped
  <2>2. \A g \in Handlers : pc'[g] # "wait_avail"
    BY <1>1, <1>3 DEF ByHandler, WaitForState, CallsInv, ListsTyped
  <2> QED
    BY <1>3, <2>1, <2>2, ThreadsOnly DEF ByHandler, WaitForState, kernelVars
<1>4. CASE ByHandler(h, SpuriousEvent(h, e)) /\ UNCHANGED flush_pos
  <2>1. looked_up' \subseteq Handlers /\ calls' \in 0..MaxCalls
    BY <1>4 DEF ByHandler, FlushInv, SetsTyped
  <2>2. \A g \in Handlers : pc'[g] # "wait_avail"
    BY <1>1, <1>4 DEF ByHandler, SpuriousEvent, EventDone, CallsInv, ListsTyped
  <2> QED
    BY <1>4, <2>1, <2>2, ThreadsOnly DEF ByHandler, SpuriousEvent, kernelVars
<1> QED
  BY <1>2, <1>3, <1>4

LEMMA FlushUpdatePage ==
  ASSUME Room, CallsInv, FlushInv, NEW h \in Handlers, NEW e \in Event,
         ByHandler(h, UpdatePage(h, e)), UNCHANGED flush_pos
  PROVE  FlushInv'
<1>1. PICK pd \in PDs : /\ state[pd] = "PRESENT" /\ ~dirty[pd]
                        /\ dirty' = [dirty EXCEPT ![pd] = TRUE]
                        /\ state' = [state EXCEPT ![pd] = "UPDATING"]
                        /\ fill_queue' = Append(fill_queue, pd)
                        /\ aborted' = aborted
  BY DEF ByHandler, UpdatePage, NeedsUpgrade, set_state_updating, DieUnless
<1>2. /\ UNCHANGED <<mem, wp, store_fresh, listVars, page, deferred, data_present, filler_pc,
                     filler_pd, filler_buf, mgrVars, evictVars>>
      /\ UNCHANGED <<regions, call, target, call_pd, flush_pos, must, calls, pinVars>>
      /\ looked_up' \subseteq looked_up /\ EventDone(h, e) /\ Kick(Len(m_busy_pages))
  BY DEF ByHandler, UpdatePage, kernelVars
<1>3. /\ state'[pd] = "UPDATING" /\ dirty'[pd]
      /\ \A d \in PDs \ {pd} : state'[d] = state[d] /\ (dirty'[d] <=> dirty[d])
  BY <1>1 DEF CallsInv, DescriptorTypeOK
<1>4. /\ pd \notin Range(fill_queue) /\ pd \notin Sent
      /\ \A f \in Fillers : filler_pc[f] # "get" => filler_pd[f] # pd
  BY <1>1, FillPlaces, ItemPlaces
<1>5. /\ IsInjective(fill_queue') /\ Range(fill_queue') = Range(fill_queue) \cup {pd}
  BY <1>1, <1>4, FillPlaces, AppendFacts, SMT
<1>6. Quiet' /\ SetsTyped'
  <2>1. mgr_work' = 0
    BY <1>2 DEF Room, Kick, FlushInv, Quiet
  <2>2. \A g \in Handlers : pc'[g] # "wait_avail"
    BY <1>2 DEF EventDone, FlushInv, Quiet, CallsInv, ListsTyped
  <2>3. \A d \in PDs : state'[d] # "LEAVING"
    BY <1>3 DEF FlushInv, Quiet
  <2> QED
    BY <1>1, <1>2, <2>1, <2>2, <2>3 DEF FlushInv, Quiet, SetsTyped, Alive, mgrVars, pinVars
<1>7. Owned'
  <2>1. /\ InState({"FREE"})' = InState({"FREE"})
        /\ InState({"FILLING", "PRESENT", "UPDATING"})' = InState({"FILLING", "PRESENT", "UPDATING"})
        /\ InState({"FILLING", "UPDATING"})' = InState({"FILLING", "UPDATING"}) \cup {pd}
    BY <1>1, <1>3, SMT DEF InState
  <2>2. FreeOwned' /\ BusyOwned'
    BY <1>2, <2>1, FreeFrame, BusyFrame DEF FlushInv, Owned, listVars
  <2>3. pd \notin FillerHas /\ FillerHas' = FillerHas
    BY <1>2, <1>4 DEF FillerHas
  <2>4. FillOwned'
    BY <1>2, <1>4, <1>5, <2>1, <2>3 DEF FlushInv, Owned, FillOwned
  <2> QED
    BY <2>2, <2>4 DEF Owned
<1>8. OneDescriptorPerPage'
  <2>1. InState({"FREE"})' = InState({"FREE"})
    BY <1>1, <1>3 DEF InState
  <2> QED
    BY <1>2, <2>1 DEF FlushInv, OneDescriptorPerPage, listVars
<1>9. ItemInv'
  <2>1. \A d \in PDs : state[d] = "PRESENT" /\ dirty[d] => state'[d] = "PRESENT" /\ dirty'[d]
    BY <1>1, <1>3
  <2>2. \A w \in Range(evict_queue) : state'[w.page_desc] = "PRESENT" /\ dirty'[w.page_desc]
    BY <2>1, ItemPlaces
  <2>3. \A v \in Evictors : evictor_pc[v] # "get" =>
          state'[evictor_work[v].page_desc] = "PRESENT" /\ dirty'[evictor_work[v].page_desc]
    BY <2>1, ItemPlaces
  <2> QED
    BY <1>2, <2>2, <2>3 DEF FlushInv, ItemInv, evictVars
<1>10. PagesInv'
  <2> USE DEF FlushInv, PagesInv
  <2>1. \A d : Resident(d)' <=> Resident(d)
    BY <1>2 DEF Resident
  <2>2. data_present[pd]
    BY <1>1 DEF StateInv
  <2>3. StateInv'
    BY <1>1, <1>2, <1>3, <1>5, <2>1, <2>2 DEF StateInv
  <2>4. FillerInv'
    <3>1. \A f \in Fillers : filler_pc[f] # "get" => filler_pd[f] \in PDs \ {pd}
      BY <1>4, FillPlaces
    <3>2. \A f \in Fillers : filler_pc[f] # "get" =>
            state'[filler_pd[f]] = state[filler_pd[f]] /\ (dirty'[filler_pd[f]] <=> dirty[filler_pd[f]])
      BY <1>3, <3>1
    <3> QED
      BY <1>2, <3>2 DEF FillerInv
  <2>5. CleanInv' /\ AbsentInv' /\ Coherent'
    BY <1>1, <1>2, <1>3, <2>1 DEF CleanInv, AbsentInv, Coherent, listVars
  <2> QED
    BY <2>3, <2>4, <2>5
<1>11. WalkInv'
  <2>1. Sent' = Sent /\ (EvictorsIdle' <=> EvictorsIdle)
    BY <1>2 DEF Sent, EvictQueued, EvictorHas, EvictorsIdle, evictVars
  <2>2. call = "flush_wait" /\ flush_pos # Nowhere => dirty'[call_pd]
    <3>1. call = "flush_wait" => call_pd \in PDs
      BY DEF CallsInv, HandsTyped, WithDescriptor
    <3> QED
      BY <1>3, <3>1 DEF FlushInv, WalkInv
  <2> QED
    BY <1>2, <2>1, <2>2 DEF FlushInv, WalkInv, listVars
<1> QED
  BY <1>6, <1>7, <1>8, <1>9, <1>10, <1>11 DEF FlushInv

LEMMA ConsPositions ==
  ASSUME NEW S, NEW s \in Seq(S), NEW x \in S, NEW t, t = <<x>> \o s
  PROVE  /\ Len(t) = Len(s) + 1
         /\ \A i \in DOMAIN s : i + 1 \in DOMAIN t /\ t[i + 1] = s[i]
         /\ \A i \in DOMAIN t :
              (i = 1 /\ t[i] = x) \/ (i - 1 \in DOMAIN s /\ t[i] = s[i - 1])
<1>1. <<x>> \in Seq(S) /\ Len(<<x>>) = 1 /\ <<x>>[1] = x
  BY SMT
<1>2. Len(s) \in Nat /\ DOMAIN s = 1..Len(s)
  BY ListLen
<1>3. /\ t \in Seq(S) /\ Len(t) = Len(s) + 1 /\ t[1] = x
      /\ \A i \in 1..Len(s) : t[i + 1] = s[i]
  BY <1>1, <1>2, ListConcat, SMT
<1>4. DOMAIN t = 1..(Len(s) + 1)
  BY <1>3, ListLen
<1> QED
  BY <1>2, <1>3, <1>4, SMT

LEMMA FlushBringIn ==
  ASSUME Room, CallsInv, FlushInv, NEW h \in Handlers, NEW e \in Event, CallBringIn(h, e)
  PROVE  FlushInv'
<1> DEFINE last == m_free_pages[Len(m_free_pages)]
<1>1. PICK pd \in PDs : pd = last
  BY LastTyped DEF Room, CallsInv, ListsTyped
<1>2. /\ m_free_pages' = SubSeq(m_free_pages, 1, Len(m_free_pages) - 1)
      /\ m_busy_pages' = <<pd>> \o m_busy_pages
      /\ page' = [page EXCEPT ![pd] = e.page] /\ dirty' = [dirty EXCEPT ![pd] = e.write]
      /\ deferred' = [deferred EXCEPT ![pd] = FALSE] /\ state' = [state EXCEPT ![pd] = "FILLING"]
      /\ data_present' = [data_present EXCEPT ![pd] = FALSE]
      /\ active_pages' = active_pages \cup {pd}
      /\ m_present_pages' = [m_present_pages EXCEPT ![e.page] = pd]
      /\ fill_queue' = Append(fill_queue, pd)
      /\ Kick(Len(m_busy_pages) + 1) /\ EventDone(h, e) /\ set_state_filling(pd)
  BY <1>1 DEF CallBringIn, ByHandler, BringIn, set_state_filling, insert_page_descriptor
<1>3. /\ UNCHANGED <<mem, wp, store_fresh, filler_pc, filler_pd, filler_buf, mgrVars, evictVars>>
      /\ UNCHANGED <<regions, call, target, call_pd, must, calls, pinVars>>
      /\ looked_up' \subseteq looked_up /\ call # "flush_idle"
      /\ flush_pos' \in IF call = "flush_wait" /\ flush_pos # Nowhere
                        THEN {flush_pos + 1, Nowhere} ELSE {flush_pos}
  BY DEF CallBringIn, ByHandler, BringIn, kernelVars, BufferHeld, CallHoldsBuffer
<1>4. /\ IsInjective(m_free_pages') /\ Range(m_free_pages') = Range(m_free_pages) \ {pd}
      /\ state[pd] = "FREE"
  <2>1. m_free_pages \in Seq(PDs) /\ IsInjective(m_free_pages) /\ m_free_pages # <<>>
    BY DEF Room, CallsInv, ListsTyped, FlushInv, Owned, FreeOwned
  <2>2. /\ IsInjective(m_free_pages') /\ Range(m_free_pages') = Range(m_free_pages) \ {pd}
        /\ pd \in Range(m_free_pages)
    BY <1>1, <1>2, <2>1, FrontFacts
  <2> QED
    BY <2>2 DEF FlushInv, Owned, FreeOwned, InState
<1> HIDE DEF last
<1>5. e.page \in Pages /\ m_present_pages[e.page] = NoPD
  <2>1. pc[h] # "wait_avail"
    BY DEF FlushInv, Quiet
  <2> QED
    BY <2>1 DEF CallBringIn, ByHandler, BringIn, WantsDescriptor, Event
<1>6. /\ state'[pd] = "FILLING" /\ page'[pd] = e.page /\ ~data_present'[pd] /\ ~deferred'[pd]
      /\ \A d \in PDs \ {pd} :
           /\ state'[d] = state[d] /\ page'[d] = page[d] /\ (dirty'[d] <=> dirty[d])
           /\ (data_present'[d] <=> data_present[d]) /\ (deferred'[d] <=> deferred[d])
  BY <1>2 DEF CallsInv, DescriptorTypeOK
<1>7. /\ m_present_pages'[e.page] = pd
      /\ \A p \in Pages \ {e.page} : m_present_pages'[p] = m_present_pages[p]
  BY <1>2, <1>5 DEF CallsInv, ListsTyped
<1>8. /\ pd \notin Range(fill_queue) /\ pd \notin FillerHas /\ pd \notin Sent
      /\ pd \notin Range(m_busy_pages)
  BY <1>4, ItemPlaces DEF FlushInv, Owned, FillOwned, BusyOwned, InState
<1>9. IsInjective(fill_queue') /\ Range(fill_queue') = Range(fill_queue) \cup {pd}
  BY <1>2, <1>8, FillPlaces, AppendFacts, SMT
<1>10. IsInjective(m_busy_pages') /\ Range(m_busy_pages') = Range(m_busy_pages) \cup {pd}
  BY <1>2, <1>8, BusyPlaces, ConsFacts, SMT
<1>11. Quiet' /\ SetsTyped'
  <2>1. mgr_work' = 0
    BY <1>2, <1>5 DEF Room, Kick, FlushInv, Quiet
  <2>2. \A g \in Handlers : pc'[g] # "wait_avail"
    BY <1>2 DEF EventDone, FlushInv, Quiet, CallsInv, ListsTyped
  <2>3. \A d \in PDs : state'[d] # "LEAVING" /\ ~deferred'[d]
    BY <1>6 DEF FlushInv, Quiet
  <2>4. aborted' = aborted
    BY <1>2, <1>4 DEF set_state_filling, DieUnless
  <2> QED
    BY <1>3, <2>1, <2>2, <2>3, <2>4 DEF FlushInv, Quiet, SetsTyped, Alive, mgrVars, pinVars
<1>12. Owned'
  <2>1. /\ InState({"FREE"})' = InState({"FREE"}) \ {pd}
        /\ InState({"FILLING", "PRESENT", "UPDATING"})' =
             InState({"FILLING", "PRESENT", "UPDATING"}) \cup {pd}
        /\ InState({"FILLING", "UPDATING"})' = InState({"FILLING", "UPDATING"}) \cup {pd}
    BY <1>6, SMT DEF InState
  <2>2. FreeOwned' /\ BusyOwned'
    BY <1>4, <1>10, <2>1 DEF FlushInv, Owned, FreeOwned, BusyOwned
  <2>3. FillerHas' = FillerHas
    BY <1>3 DEF FillerHas
  <2>4. /\ Range(fill_queue') \cap FillerHas' = {}
        /\ Range(fill_queue') \cup FillerHas' = InState({"FILLING", "UPDATING"})'
    BY <1>8, <1>9, <2>1, <2>3 DEF FlushInv, Owned, FillOwned
  <2>5. FillOwned'
    BY <1>3, <1>9, <2>4 DEF FlushInv, Owned, FillOwned
  <2> QED
    BY <2>2, <2>5 DEF Owned
<1>13. OneDescriptorPerPage'
  <2>1. active_pages' = PDs \ InState({"FREE"})'
    BY <1>2, <1>6, SMT DEF FlushInv, OneDescriptorPerPage, InState
  <2>2. ASSUME NEW d \in active_pages' PROVE page'[d] \in Pages /\ m_present_pages'[page'[d]] = d
    <3>1. CASE d = pd
      BY <1>5, <1>6, <1>7, <3>1
    <3>2. CASE d # pd
      <4>1. d \in active_pages /\ d \in PDs
        BY <1>2, <3>2 DEF CallsInv, ListsTyped
      <4>2. page[d] \in Pages /\ m_present_pages[page[d]] = d /\ page[d] # e.page
        BY <1>5, <4>1, BufferAssumption, SMT DEF FlushInv, OneDescriptorPerPage
      <4> QED
        BY <1>6, <1>7, <3>2, <4>1, <4>2, SMT
    <3> QED
      BY <3>1, <3>2
  <2>3. ASSUME NEW p \in Pages, m_present_pages'[p] # NoPD
        PROVE  m_present_pages'[p] \in active_pages' /\ page'[m_present_pages'[p]] = p
    <3>1. CASE p = e.page
      BY <1>2, <1>6, <1>7, <3>1, SMT
    <3>2. CASE p # e.page
      <4>1. /\ m_present_pages'[p] = m_present_pages[p] /\ m_present_pages[p] \in active_pages
            /\ page[m_present_pages[p]] = p
        BY <1>7, <2>3, <3>2 DEF FlushInv, OneDescriptorPerPage
      <4>2. m_present_pages[p] # pd /\ m_present_pages[p] \in PDs
        BY <1>4, <4>1 DEF FlushInv, OneDescriptorPerPage, InState
      <4> QED
        BY <1>2, <1>6, <4>1, <4>2, SMT
    <3> QED
      BY <3>1, <3>2
  <2> QED
    BY <2>1, <2>2, <2>3 DEF OneDescriptorPerPage
<1>14. ItemInv'
  <2>1. \A d \in PDs : state[d] = "PRESENT" /\ dirty[d] =>
          state'[d] = "PRESENT" /\ dirty'[d] /\ page'[d] = page[d]
    BY <1>4, <1>6
  <2>2. \A w \in Range(evict_queue) : state'[w.page_desc] = "PRESENT" /\ dirty'[w.page_desc]
    BY <2>1, ItemPlaces
  <2>3. \A v \in Evictors : evictor_pc[v] # "get" =>
          /\ state'[evictor_work[v].page_desc] = "PRESENT" /\ dirty'[evictor_work[v].page_desc]
          /\ page'[evictor_work[v].page_desc] = page[evictor_work[v].page_desc]
    BY <2>1, ItemPlaces
  <2> QED
    BY <1>3, <2>2, <2>3 DEF FlushInv, ItemInv, evictVars
<1>15. PagesInv'
  <2> USE DEF FlushInv, PagesInv
  <2>1. mem[e.page] = "none"
    BY <1>5 DEF AbsentInv
  <2>2. ~Resident(pd)' /\ \A d \in PDs \ {pd} : Resident(d)' <=> Resident(d)
    BY <1>3, <1>6, <2>1 DEF Resident
  <2>3. StateInv'
    <3> SUFFICES ASSUME NEW d \in PDs
                 PROVE  /\ state'[d] # "FREE" => (Resident(d)' <=> data_present'[d])
                        /\ state'[d] \in {"PRESENT", "UPDATING"} => data_present'[d]
                        /\ state'[d] = "UPDATING" => dirty'[d]
                        /\ d \in Range(fill_queue') /\ state'[d] = "FILLING" => ~data_present'[d]
      BY DEF StateInv
    <3>1. CASE d = pd
      BY <1>6, <2>2, <3>1
    <3>2. CASE d # pd
      <4>1. /\ state'[d] = state[d] /\ (dirty'[d] <=> dirty[d])
            /\ (data_present'[d] <=> data_present[d]) /\ (Resident(d)' <=> Resident(d))
            /\ d \in Range(fill_queue') <=> d \in Range(fill_queue)
        BY <1>6, <1>9, <2>2, <3>2
      <4> QED
        BY <4>1 DEF StateInv
    <3> QED
      BY <3>1, <3>2
  <2>4. FillerInv'
    <3>1. \A f \in Fillers : filler_pc[f] # "get" => filler_pd[f] \in PDs \ {pd}
      BY <1>4, FillPlaces
    <3>2. \A f \in Fillers : filler_pc[f] # "get" =>
            /\ state'[filler_pd[f]] = state[filler_pd[f]] /\ page'[filler_pd[f]] = page[filler_pd[f]]
            /\ (dirty'[filler_pd[f]] <=> dirty[filler_pd[f]])
            /\ (data_present'[filler_pd[f]] <=> data_present[filler_pd[f]])
      BY <1>6, <3>1
    <3> QED
      BY <1>3, <3>2 DEF FillerInv
  <2>5. CleanInv'
    <3> SUFFICES ASSUME NEW d \in PDs, state'[d] # "FREE", Resident(d)', ~dirty'[d]
                 PROVE  page'[d] \in wp /\ page'[d] \in store_fresh
      BY <1>3 DEF CleanInv
    <3>1. d \in PDs \ {pd}
      BY <2>2
    <3> QED
      BY <1>6, <2>2, <3>1 DEF CleanInv
  <2>6. AbsentInv' /\ Coherent'
    BY <1>3, <1>7, <2>1 DEF AbsentInv, Coherent
  <2> QED
    BY <2>3, <2>4, <2>5, <2>6
<1>16. WalkInv'
  <2>1. Sent' = Sent /\ (EvictorsIdle' <=> EvictorsIdle)
    BY <1>3 DEF Sent, EvictQueued, EvictorHas, EvictorsIdle, evictVars
  <2>2. /\ Len(m_busy_pages') = Len(m_busy_pages) + 1
        /\ \A i \in DOMAIN m_busy_pages :
             i + 1 \in DOMAIN m_busy_pages' /\ m_busy_pages'[i + 1] = m_busy_pages[i]
        /\ \A i \in DOMAIN m_busy_pages' :
             \/ i = 1 /\ m_busy_pages'[i] = pd
             \/ i - 1 \in DOMAIN m_busy_pages /\ m_busy_pages'[i] = m_busy_pages[i - 1]
    <3>1. m_busy_pages \in Seq(PDs) /\ m_busy_pages' = <<pd>> \o m_busy_pages
      BY <1>2, BusyPlaces
    <3> QED
      BY <3>1, ConsPositions, SMT
  <2>3. Len(m_busy_pages) \in Nat /\ flush_pos \in Nat /\ flush_pos <= Len(m_busy_pages)
        /\ DOMAIN m_busy_pages = 1..Len(m_busy_pages)
    BY BusyPlaces DEF CallsInv, CallTyped, FlushInv, WalkInv
  <2>4. flush_pos' <= Len(m_busy_pages')
    <3>1. /\ flush_pos' \in {flush_pos, flush_pos + 1, Nowhere}
          /\ Len(m_busy_pages') = Len(m_busy_pages) + 1
      BY <1>3, <2>2
    <3> QED
      BY <2>3, <3>1, SMT DEF Nowhere
  <2>5. CASE call # "flush_wait" \/ flush_pos' = Nowhere
    BY <1>3, <2>1, <2>4, <2>5 DEF FlushInv, WalkInv
  <2>6. CASE call = "flush_wait" /\ flush_pos' # Nowhere
    <3>0. flush_pos # Nowhere /\ flush_pos' = flush_pos + 1
      BY <1>3, <2>6
    <3>1. /\ flush_pos \in DOMAIN m_busy_pages /\ m_busy_pages[flush_pos] = call_pd
          /\ dirty[call_pd]
      BY <2>6, <3>0 DEF FlushInv, WalkInv
    <3>2. /\ flush_pos' \in DOMAIN m_busy_pages' /\ m_busy_pages'[flush_pos'] = call_pd
      BY <2>2, <3>0, <3>1
    <3>3. dirty'[call_pd]
      <4>1. call_pd \in PDs /\ call_pd # pd
        BY <1>4, <3>1, BusyPlaces
      <4> QED
        BY <1>6, <3>1, <4>1
    <3>4. ASSUME NEW i \in DOMAIN m_busy_pages', m_busy_pages'[i] \in Sent PROVE i < flush_pos'
      <4>1. i - 1 \in DOMAIN m_busy_pages /\ m_busy_pages[i - 1] \in Sent
        BY <1>8, <2>2, <3>4
      <4>2. i - 1 < flush_pos
        BY <2>6, <3>0, <4>1 DEF FlushInv, WalkInv
      <4>3. i \in Int
        BY <1>2, BusyPlaces, SMT
      <4> QED
        BY <2>3, <3>0, <4>2, <4>3, SMT
    <3>5. ASSUME NEW p \in must \ store_fresh
          PROVE  \/ m_present_pages'[p] \in Sent
                 \/ \E i \in DOMAIN m_busy_pages' :
                      flush_pos' <= i /\ m_busy_pages'[i] = m_present_pages'[p]
      <4>1. p \in Pages /\ m_present_pages[p] \in PDs
        BY BehindIsDirty DEF FlushInv, SetsTyped
      <4>2. m_present_pages'[p] = m_present_pages[p]
        BY <1>5, <1>7, <4>1, BufferAssumption
      <4>3. CASE m_present_pages[p] \in Sent
        BY <4>2, <4>3
      <4>4. CASE m_present_pages[p] \notin Sent
        <5>1. PICK i \in DOMAIN m_busy_pages : flush_pos <= i /\ m_busy_pages[i] = m_present_pages[p]
          BY <2>6, <3>0, <4>4 DEF FlushInv, WalkInv
        <5>2. flush_pos' <= i + 1
          BY <2>3, <3>0, <5>1, SMT
        <5> QED
          BY <2>2, <4>2, <5>1, <5>2
      <4> QED
        BY <4>3, <4>4
    <3> QED
      BY <1>3, <2>1, <2>4, <2>6, <3>2, <3>3, <3>4, <3>5 DEF WalkInv
  <2> QED
    BY <2>5, <2>6
<1> QED
  BY <1>11, <1>12, <1>13, <1>14, <1>15, <1>16 DEF FlushInv

-----------------------------------------------------------------------------
(* Fill workers *)

\* A fill worker takes the head of the queue.
LEMMA FlushFillTakes ==
  ASSUME CallsInv, FlushInv, NEW f \in Fillers, filler_pc[f] = "get", fill_queue # <<>>,
         NEW next \in {"copy", "mark"}, NEW pd, pd = Head(fill_queue),
         fill_queue' = Tail(fill_queue), filler_pc' = [filler_pc EXCEPT ![f] = next],
         filler_pd' = [filler_pd EXCEPT ![f] = pd],
         UNCHANGED <<m_free_pages, m_busy_pages, state>>
  PROVE  /\ Owned' /\ Range(fill_queue') = Range(fill_queue) \ {pd}
         /\ pd \in PDs /\ pd \in Range(fill_queue) /\ state[pd] \in {"FILLING", "UPDATING"}
         /\ page[pd] \in Pages
         /\ filler_pd'[f] = pd /\ filler_pc'[f] = next
         /\ \A g \in Fillers \ {f} : filler_pd'[g] = filler_pd[g] /\ filler_pc'[g] = filler_pc[g]
<1>1. /\ pd \in PDs /\ pd \in Range(fill_queue)
      /\ IsInjective(fill_queue') /\ Range(fill_queue') = Range(fill_queue) \ {pd}
  BY TailFacts, FillPlaces
<1>2. state[pd] \in {"FILLING", "UPDATING"} /\ page[pd] \in Pages
  BY <1>1, FillPlaces, PageOfDescriptor
<1>3. /\ filler_pd'[f] = pd /\ filler_pc'[f] = next
      /\ \A g \in Fillers \ {f} : filler_pd'[g] = filler_pd[g] /\ filler_pc'[g] = filler_pc[g]
  BY <1>1 DEF CallsInv, WorkerTypeOK
<1>4. \A g \in Fillers : filler_pc[g] # "get" => filler_pd[g] # pd
  BY <1>1, FillPlaces
<1>5. \A S : InState(S)' = InState(S)
  BY DEF InState
<1>6. FreeOwned' /\ BusyOwned'
  BY <1>5, FreeFrame, BusyFrame DEF FlushInv, Owned
<1>7. FillerHas' = FillerHas \cup {pd} /\ pd \notin FillerHas
  BY <1>3, <1>4, SMT DEF FillerHas
<1>8. \A g1, g2 \in Fillers :
        filler_pc'[g1] # "get" /\ filler_pc'[g2] # "get" /\ filler_pd'[g1] = filler_pd'[g2] => g1 = g2
  <2>1. \A g1, g2 \in Fillers \ {f} :
          filler_pc'[g1] # "get" /\ filler_pc'[g2] # "get" /\ filler_pd'[g1] = filler_pd'[g2]
          => g1 = g2
    <3>1. \A g1, g2 \in Fillers :
            filler_pc[g1] # "get" /\ filler_pc[g2] # "get" /\ filler_pd[g1] = filler_pd[g2] => g1 = g2
      BY FillPlaces
    <3> QED
      BY <1>3, <3>1, SMT
  <2>2. \A g \in Fillers \ {f} : filler_pc'[g] # "get" => filler_pd'[g] # filler_pd'[f]
    BY <1>3, <1>4
  <2> QED
    BY <2>1, <2>2
<1>9. /\ Range(fill_queue') \cap FillerHas' = {}
      /\ Range(fill_queue') \cup FillerHas' = InState({"FILLING", "UPDATING"})'
  BY <1>1, <1>5, <1>7 DEF FlushInv, Owned, FillOwned
<1> QED
  BY <1>1, <1>2, <1>3, <1>6, <1>8, <1>9 DEF Owned, FillOwned

\* A page that is being written back is not that of a descriptor with the fill workers.
LEMMA WriterKeepsProtection ==
  ASSUME CallsInv, FlushInv, NEW p,
         UNCHANGED <<evictVars, state, dirty, page>>,
         \A q : q \in wp /\ q # p => q \in wp',
         \A d \in PDs : state[d] = "PRESENT" => page[d] # p
  PROVE  ItemInv'
<1>1. \A v \in Evictors : evictor_pc[v] # "get" => page[evictor_work[v].page_desc] \in wp'
  BY ItemPlaces
<1> QED
  BY <1>1 DEF FlushInv, ItemInv, evictVars

LEMMA FlushFillUnprotect ==
  ASSUME CallsInv, FlushInv, NEW f \in Fillers, FillUnprotect(f), UNCHANGED callVars
  PROVE  FlushInv'
<1>1. PICK pd : /\ pd = Head(fill_queue) /\ dirty[pd] /\ data_present[pd]
                /\ wp' = wp \ {page[pd]} /\ filler_pd' = [filler_pd EXCEPT ![f] = pd]
  BY DEF FillUnprotect, disable_write_protect
<1>2. /\ filler_pc[f] = "get" /\ fill_queue # <<>>
      /\ fill_queue' = Tail(fill_queue) /\ filler_pc' = [filler_pc EXCEPT ![f] = "mark"]
      /\ UNCHANGED <<mem, store_fresh, listVars, pdVars, pc, filler_buf, mgr_work, mgrVars, evictVars,
                     aborted>>
  BY DEF FillUnprotect, handlerVars
<1> USE DEF listVars, pdVars, callVars, pinVars
<1>3. /\ Owned' /\ Range(fill_queue') = Range(fill_queue) \ {pd}
      /\ pd \in PDs /\ state[pd] \in {"FILLING", "UPDATING"}
      /\ filler_pd'[f] = pd /\ filler_pc'[f] = "mark"
      /\ \A g \in Fillers \ {f} : filler_pd'[g] = filler_pd[g] /\ filler_pc'[g] = filler_pc[g]
  BY <1>1, <1>2, FlushFillTakes
<1>4. \A d \in PDs \ {pd} : state[d] # "FREE" => page[d] # page[pd]
  BY <1>3, PageOfDescriptor
<1>5. OneDescriptorPerPage' /\ WalkInv' /\ Quiet'
  BY <1>2, FlushFrames DEF walkVars, restingVars
<1>6. SetsTyped'
  BY <1>1, <1>2 DEF FlushInv, SetsTyped
<1>7. ItemInv'
  <2>1. \A d \in PDs : state[d] = "PRESENT" => page[d] # page[pd]
    BY <1>3, <1>4
  <2>2. \A q : q \in wp /\ q # page[pd] => q \in wp'
    BY <1>1
  <2> QED
    BY <1>2, <2>1, <2>2, WriterKeepsProtection
<1>8. PagesInv'
  <2> USE DEF FlushInv, PagesInv
  <2>1. \A d : Resident(d)' <=> Resident(d)
    BY <1>2 DEF Resident
  <2>2. StateInv'
    BY <1>2, <1>3, <2>1 DEF StateInv
  <2>3. FillerInv'
    <3>1. \A g \in Fillers \ {f} :
            /\ filler_pc'[g] = "copy" =>
                 /\ state[filler_pd'[g]] = "FILLING" /\ ~data_present[filler_pd'[g]]
                 /\ filler_buf[g] = "fresh"
            /\ filler_pc'[g] = "mark" =>
                 /\ data_present[filler_pd'[g]]
                 /\ dirty[filler_pd'[g]] => page[filler_pd'[g]] \notin wp'
      <4>1. \A q : q \notin wp => q \notin wp'
        BY <1>1
      <4> QED
        BY <1>3, <4>1, SMT DEF FillerInv
    <3>2. data_present[filler_pd'[f]] /\ page[filler_pd'[f]] \notin wp'
      <4>1. data_present[pd] /\ page[pd] \notin wp'
        BY <1>1
      <4> QED
        BY <1>3, <4>1
    <3>3. filler_pc'[f] # "copy"
      BY <1>3
    <3> QED
      BY <1>2, <3>1, <3>2, <3>3 DEF FillerInv
  <2>4. CleanInv' /\ AbsentInv' /\ Coherent'
    BY <1>1, <1>2, <1>4, <2>1 DEF CleanInv, AbsentInv, Coherent
  <2> QED
    BY <2>2, <2>3, <2>4
<1> QED
  BY <1>3, <1>5, <1>6, <1>7, <1>8 DEF FlushInv

LEMMA FlushFillRead ==
  ASSUME CallsInv, FlushInv, NEW f \in Fillers, FillRead(f), UNCHANGED callVars
  PROVE  FlushInv'
<1>1. PICK pd : /\ pd = Head(fill_queue) /\ ~(dirty[pd] /\ data_present[pd])
                /\ filler_buf' = [filler_buf EXCEPT ![f] = read_from_store(page[pd])]
                /\ filler_pd' = [filler_pd EXCEPT ![f] = pd]
  BY DEF FillRead
<1>2. /\ filler_pc[f] = "get" /\ fill_queue # <<>>
      /\ fill_queue' = Tail(fill_queue) /\ filler_pc' = [filler_pc EXCEPT ![f] = "copy"]
      /\ UNCHANGED <<mem, wp, store_fresh, listVars, pdVars, pc, mgr_work, mgrVars, evictVars, aborted>>
  BY DEF FillRead, handlerVars, kernelVars
<1> USE DEF listVars, pdVars, callVars, pinVars
<1>3. /\ Owned' /\ Range(fill_queue') = Range(fill_queue) \ {pd}
      /\ pd \in PDs /\ pd \in Range(fill_queue) /\ state[pd] \in {"FILLING", "UPDATING"}
      /\ page[pd] \in Pages /\ filler_pd'[f] = pd /\ filler_pc'[f] = "copy"
      /\ \A g \in Fillers \ {f} : filler_pd'[g] = filler_pd[g] /\ filler_pc'[g] = filler_pc[g]
  BY <1>1, <1>2, FlushFillTakes
<1>4. OneDescriptorPerPage' /\ WalkInv' /\ Quiet' /\ ItemInv'
  BY <1>2, FlushFrames DEF walkVars, restingVars
<1>5. SetsTyped'
  BY <1>2 DEF FlushInv, SetsTyped
<1>6. PagesInv'
  <2> USE DEF FlushInv, PagesInv
  <2>1. \A d : Resident(d)' <=> Resident(d)
    BY <1>2 DEF Resident
  <2>2. state[pd] = "FILLING" /\ ~data_present[pd] /\ ~Resident(pd)
    BY <1>1, <1>3 DEF StateInv
  <2>3. read_from_store(page[pd]) = "fresh"
    BY <1>3, <2>2 DEF Resident, Coherent, read_from_store
  <2>4. filler_buf'[f] = "fresh" /\ \A g \in Fillers \ {f} : filler_buf'[g] = filler_buf[g]
    BY <1>1, <2>3 DEF CallsInv, WorkerTypeOK
  <2>5. StateInv'
    BY <1>2, <1>3, <2>1 DEF StateInv
  <2>6. FillerInv'
    <3>1. UNCHANGED <<wp, page, state, dirty, data_present>>
      BY <1>2
    <3> SUFFICES ASSUME NEW g \in Fillers
                 PROVE  /\ filler_pc'[g] = "copy" =>
                             /\ state[filler_pd'[g]] = "FILLING" /\ ~data_present[filler_pd'[g]]
                             /\ filler_buf'[g] = "fresh"
                        /\ filler_pc'[g] = "mark" =>
                             /\ data_present[filler_pd'[g]]
                             /\ dirty[filler_pd'[g]] => page[filler_pd'[g]] \notin wp
      BY <3>1 DEF FillerInv
    <3>2. CASE g = f
      BY <1>3, <2>2, <2>4, <3>2
    <3>3. CASE g # f
      <4>1. /\ filler_pc'[g] = filler_pc[g] /\ filler_pd'[g] = filler_pd[g]
            /\ filler_buf'[g] = filler_buf[g]
        BY <1>3, <2>4, <3>3
      <4> QED
        BY <4>1 DEF FillerInv
    <3> QED
      BY <3>2, <3>3
  <2>7. CleanInv' /\ AbsentInv' /\ Coherent'
    BY <1>2, <2>1 DEF CleanInv, AbsentInv, Coherent
  <2> QED
    BY <2>5, <2>6, <2>7
<1> QED
  BY <1>3, <1>4, <1>5, <1>6 DEF FlushInv

\* UFFDIO_COPY does not find the page in memory.
LEMMA FlushFillCopy ==
  ASSUME CallsInv, FlushInv, NEW f \in Fillers, FillCopy(f), UNCHANGED callVars
  PROVE  FlushInv'
<1> USE DEF callVars, pinVars
<1>1. filler_pc[f] = "copy"
  BY DEF FillCopy
<1>2. PICK pd \in PDs : pd = filler_pd[f] /\ state[pd] = "FILLING" /\ ~data_present[pd]
  <2>1. filler_pd[f] \in PDs
    BY <1>1, FillPlaces
  <2> QED
    BY <1>1, <2>1 DEF FlushInv, PagesInv, FillerInv
<1>3. PICK p \in Pages : p = page[pd]
  BY <1>2, PageOfDescriptor
<1>4. mem[p] = "none" /\ p \in store_fresh
  BY <1>2, <1>3 DEF FlushInv, PagesInv, StateInv, Resident, Coherent
<1>5. /\ mem' = [mem EXCEPT ![p] = "fresh"] /\ aborted' = aborted
      /\ wp' \in {wp \ {p}, wp \cup {p}} /\ (dirty[pd] => wp' = wp \ {p})
      /\ (~dirty[pd] => wp' = wp \cup {p})
      /\ data_present' = [data_present EXCEPT ![pd] = TRUE]
      /\ filler_buf' = [filler_buf EXCEPT ![f] = "stale"]
      /\ filler_pc' = [filler_pc EXCEPT ![f] = "mark"]
      /\ UNCHANGED <<store_fresh, listVars, page, state, dirty, deferred, pc, fill_queue, filler_pd,
                     mgr_work, mgrVars, evictVars>>
  <2>1. filler_buf[f] = "fresh"
    BY <1>1 DEF FlushInv, PagesInv, FillerInv
  <2>2. /\ IF dirty[pd] THEN copy_in_page("fresh", p) ELSE copy_in_page_and_write_protect("fresh", p)
        /\ data_present' = [data_present EXCEPT ![pd] = TRUE]
        /\ filler_buf' = [filler_buf EXCEPT ![f] = "stale"]
        /\ filler_pc' = [filler_pc EXCEPT ![f] = "mark"]
        /\ UNCHANGED <<store_fresh, listVars, page, state, dirty, deferred, pc, fill_queue, filler_pd,
                       mgr_work, mgrVars, evictVars>>
    BY <1>2, <1>3, <2>1 DEF FillCopy, handlerVars
  <2>3. CASE dirty[pd]
    BY <1>4, <2>2, <2>3 DEF copy_in_page, UffdioCopy, DieUnless
  <2>4. CASE ~dirty[pd]
    BY <1>4, <2>2, <2>4 DEF copy_in_page_and_write_protect, UffdioCopy, DieUnless
  <2> QED
    BY <2>3, <2>4
<1> USE DEF listVars
<1>6. \A d \in PDs \ {pd} : state[d] # "FREE" => page[d] # p /\ page[d] \in Pages
  BY <1>2, <1>3, PageOfDescriptor
<1>7. /\ mem'[p] = "fresh" /\ \A q \in Pages \ {p} : mem'[q] = mem[q] /\ (q \in wp' <=> q \in wp)
      /\ data_present'[pd] /\ \A d \in PDs \ {pd} : data_present'[d] <=> data_present[d]
      /\ filler_pc'[f] = "mark"
      /\ \A g \in Fillers \ {f} : filler_pc'[g] = filler_pc[g] /\ filler_buf'[g] = filler_buf[g]
  <2>1. mem'[p] = "fresh" /\ \A q \in Pages \ {p} : mem'[q] = mem[q] /\ (q \in wp' <=> q \in wp)
    BY <1>5 DEF CallsInv, MemoryTyped
  <2>2. data_present'[pd] /\ \A d \in PDs \ {pd} : data_present'[d] <=> data_present[d]
    BY <1>5 DEF CallsInv, DescriptorTypeOK
  <2>3. /\ filler_pc'[f] = "mark"
        /\ \A g \in Fillers \ {f} : filler_pc'[g] = filler_pc[g] /\ filler_buf'[g] = filler_buf[g]
    BY <1>5 DEF CallsInv, WorkerTypeOK
  <2> QED
    BY <2>1, <2>2, <2>3
<1>8. /\ Resident(pd)'
      /\ \A d \in PDs \ {pd} : state[d] # "FREE" => (Resident(d)' <=> Resident(d))
  <2>1. page' = page /\ mem'[page[pd]] # "none"
    BY <1>3, <1>5, <1>7
  <2>2. \A d \in PDs \ {pd} : state[d] # "FREE" => mem'[page[d]] = mem[page[d]]
    BY <1>6, <1>7
  <2> QED
    BY <2>1, <2>2 DEF Resident
<1>9. StateInv'
  <2>1. pd \notin Range(fill_queue)
    BY <1>1, <1>2, FillPlaces
  <2> QED
    BY <1>2, <1>5, <1>6, <1>7, <1>8, <2>1 DEF FlushInv, PagesInv, StateInv
<1>10. FillerInv'
  <2>1. \A g \in Fillers \ {f} : filler_pc[g] # "get" => filler_pd[g] # pd
    BY <1>1, <1>2, FillPlaces
  <2> QED
    <3>1. \A g \in Fillers \ {f} : filler_pc[g] # "get" =>
            /\ data_present'[filler_pd[g]] <=> data_present[filler_pd[g]]
            /\ page[filler_pd[g]] \in wp' <=> page[filler_pd[g]] \in wp
      <4>1. \A d \in PDs \ {pd} : state[d] # "FREE" =>
              /\ data_present'[d] <=> data_present[d]
              /\ page[d] \in wp' <=> page[d] \in wp
        BY <1>6, <1>7
      <4>2. \A g \in Fillers \ {f} : filler_pc[g] # "get" =>
              filler_pd[g] \in PDs \ {pd} /\ state[filler_pd[g]] # "FREE"
        BY <2>1, FillPlaces
      <4> QED
        BY <4>1, <4>2
    <3>2. data_present'[filler_pd[f]] /\ (dirty[filler_pd[f]] => page[filler_pd[f]] \notin wp')
      BY <1>2, <1>3, <1>5, <1>7
    <3>3. UNCHANGED <<page, state, dirty, filler_pd>>
      BY <1>5
    <3> SUFFICES ASSUME NEW g \in Fillers
                 PROVE  /\ filler_pc'[g] = "copy" =>
                             /\ state[filler_pd[g]] = "FILLING" /\ ~data_present'[filler_pd[g]]
                             /\ filler_buf'[g] = "fresh"
                        /\ filler_pc'[g] = "mark" =>
                             /\ data_present'[filler_pd[g]]
                             /\ dirty[filler_pd[g]] => page[filler_pd[g]] \notin wp'
      BY <3>3 DEF FillerInv
    <3>4. CASE g = f
      BY <1>7, <3>2, <3>4
    <3>5. CASE g # f
      <4>1. filler_pc'[g] = filler_pc[g] /\ filler_buf'[g] = filler_buf[g]
        BY <1>7, <3>5
      <4>2. filler_pc[g] # "get" => /\ data_present'[filler_pd[g]] <=> data_present[filler_pd[g]]
                                    /\ page[filler_pd[g]] \in wp' <=> page[filler_pd[g]] \in wp
        BY <3>1, <3>5
      <4> QED
        BY <4>1, <4>2 DEF FlushInv, PagesInv, FillerInv
    <3> QED
      BY <3>4, <3>5
<1>11. CleanInv'
  <2> SUFFICES ASSUME NEW d \in PDs, state[d] # "FREE", Resident(d)', ~dirty[d]
               PROVE  page[d] \in wp' /\ page[d] \in store_fresh
    BY <1>5 DEF CleanInv
  <2>1. CASE d = pd
    BY <1>3, <1>4, <1>5, <2>1
  <2>2. CASE d # pd
    BY <1>6, <1>7, <1>8, <2>2 DEF FlushInv, PagesInv, CleanInv
  <2> QED
    BY <2>1, <2>2
<1>12. AbsentInv' /\ Coherent'
  <2>1. m_present_pages[p] # NoPD
    <3>1. m_present_pages[p] = pd
      BY <1>2, <1>3, PageOfDescriptor
    <3>2. NoPD \notin PDs
      BY BufferAssumption
    <3> QED
      BY <3>1, <3>2
  <2>2. AbsentInv'
    <3> SUFFICES ASSUME NEW q \in Pages, m_present_pages[q] = NoPD PROVE mem'[q] = "none"
      BY <1>5 DEF AbsentInv
    <3>1. q # p
      BY <2>1
    <3> QED
      BY <1>7, <3>1 DEF FlushInv, PagesInv, AbsentInv
  <2>3. Coherent'
    <3> SUFFICES ASSUME NEW q \in Pages
                 PROVE  mem'[q] # "stale" /\ (q \notin store_fresh => mem'[q] = "fresh")
      BY <1>5 DEF Coherent
    <3>1. CASE q = p
      BY <1>7, <3>1
    <3>2. CASE q # p
      BY <1>7, <3>2 DEF FlushInv, PagesInv, Coherent
    <3> QED
      BY <3>1, <3>2
  <2> QED
    BY <2>2, <2>3
<1>13. Owned'
  <2>1. \A g \in Fillers : filler_pc'[g] # "get" <=> filler_pc[g] # "get"
    BY <1>1, <1>7
  <2>2. FillerHas' = FillerHas
    BY <1>5, <2>1 DEF FillerHas
  <2>3. \A S : InState(S)' = InState(S)
    BY <1>5 DEF InState
  <2>4. FreeOwned' /\ BusyOwned'
    BY <1>5, <2>3, FreeFrame, BusyFrame DEF FlushInv, Owned
  <2> QED
    BY <1>5, <2>1, <2>2, <2>3, <2>4 DEF FlushInv, Owned, FillOwned
<1>14. OneDescriptorPerPage' /\ WalkInv' /\ Quiet'
  BY <1>5, FlushFrames DEF walkVars, restingVars
<1>15. SetsTyped'
  BY <1>5 DEF FlushInv, SetsTyped
<1>16. ItemInv'
  BY <1>2, <1>5, <1>6, WriterKeepsProtection
<1> QED
  BY <1>9, <1>10, <1>11, <1>12, <1>13, <1>14, <1>15, <1>16 DEF FlushInv, PagesInv

LEMMA FlushFillMarkPresent ==
  ASSUME CallsInv, FlushInv, NEW f \in Fillers, FillMarkPresent(f), UNCHANGED callVars
  PROVE  FlushInv'
<1> USE DEF callVars, pinVars
<1>1. filler_pc[f] = "mark"
  BY DEF FillMarkPresent
<1>2. PICK pd \in PDs : /\ pd = filler_pd[f] /\ state[pd] \in {"FILLING", "UPDATING"}
                        /\ data_present[pd] /\ (dirty[pd] => page[pd] \notin wp)
                        /\ pd \notin Range(fill_queue)
  BY <1>1, FillPlaces DEF FlushInv, PagesInv, FillerInv
<1>3. /\ state' = [state EXCEPT ![pd] = "PRESENT"] /\ aborted' = aborted
      /\ filler_pd' = [filler_pd EXCEPT ![f] = NoPD] /\ filler_pc' = [filler_pc EXCEPT ![f] = "get"]
      /\ UNCHANGED <<mem, wp, store_fresh, listVars, page, dirty, deferred, data_present, pc,
                     fill_queue, filler_buf, mgr_work, mgrVars, evictVars>>
  BY <1>2
  DEF FillMarkPresent, mark_page_as_present, set_state_present, DieUnless, kernelVars, handlerVars
<1> USE DEF listVars
<1>4. state'[pd] = "PRESENT" /\ \A d \in PDs \ {pd} : state'[d] = state[d]
  BY <1>3 DEF CallsInv, DescriptorTypeOK
<1>5. /\ filler_pc'[f] = "get"
      /\ \A g \in Fillers \ {f} : filler_pc'[g] = filler_pc[g] /\ filler_pd'[g] = filler_pd[g]
  BY <1>3 DEF CallsInv, WorkerTypeOK
<1>6. \A g \in Fillers \ {f} : filler_pc[g] # "get" => filler_pd[g] # pd /\ filler_pd[g] \in PDs
  BY <1>1, <1>2, FillPlaces
<1>7. PagesInv'
  <2> USE DEF FlushInv, PagesInv
  <2>1. \A d : Resident(d)' <=> Resident(d)
    BY <1>3 DEF Resident
  <2>2. StateInv'
    BY <1>2, <1>3, <1>4, <2>1 DEF StateInv
  <2>3. FillerInv'
    <3>1. UNCHANGED <<wp, page, dirty, data_present, filler_buf>>
      BY <1>3
    <3> SUFFICES ASSUME NEW g \in Fillers
                 PROVE  /\ filler_pc'[g] = "copy" =>
                             /\ state'[filler_pd'[g]] = "FILLING" /\ ~data_present[filler_pd'[g]]
                             /\ filler_buf[g] = "fresh"
                        /\ filler_pc'[g] = "mark" =>
                             /\ data_present[filler_pd'[g]]
                             /\ dirty[filler_pd'[g]] => page[filler_pd'[g]] \notin wp
      BY <3>1 DEF FillerInv
    <3>2. CASE g = f
      BY <1>5, <3>2
    <3>3. CASE g # f
      <4>1. filler_pc'[g] = filler_pc[g] /\ filler_pd'[g] = filler_pd[g]
        BY <1>5, <3>3
      <4>2. filler_pc[g] # "get" => state'[filler_pd[g]] = state[filler_pd[g]]
        BY <1>4, <1>6, <3>3
      <4> QED
        BY <4>1, <4>2 DEF FillerInv
    <3> QED
      BY <3>2, <3>3
  <2>4. CleanInv' /\ AbsentInv' /\ Coherent'
    BY <1>2, <1>3, <1>4, <2>1 DEF CleanInv, AbsentInv, Coherent
  <2> QED
    BY <2>2, <2>3, <2>4
<1>8. /\ InState({"FREE"})' = InState({"FREE"})
      /\ InState({"FILLING", "PRESENT", "UPDATING"})' = InState({"FILLING", "PRESENT", "UPDATING"})
      /\ InState({"FILLING", "UPDATING"})' = InState({"FILLING", "UPDATING"}) \ {pd}
  <2>1. \A d \in PDs :
          /\ state'[d] \in {"FREE"} <=> state[d] \in {"FREE"}
          /\ state'[d] \in {"FILLING", "PRESENT", "UPDATING"} <=>
               state[d] \in {"FILLING", "PRESENT", "UPDATING"}
          /\ state'[d] \in {"FILLING", "UPDATING"} <=>
               state[d] \in {"FILLING", "UPDATING"} /\ d # pd
    BY <1>2, <1>4
  <2> QED
    BY <2>1 DEF InState
<1>9. Owned'
  <2>1. FillerHas' = FillerHas \ {pd}
    <3>1. ASSUME NEW d \in FillerHas' PROVE d \in FillerHas /\ d # pd
      <4>1. PICK g \in Fillers : filler_pc'[g] # "get" /\ d = filler_pd'[g]
        BY <3>1 DEF FillerHas
      <4>2. filler_pc[g] # "get" /\ d = filler_pd[g] /\ d # pd
        BY <1>5, <1>6, <4>1
      <4> QED
        BY <4>2 DEF FillerHas
    <3>2. ASSUME NEW d \in FillerHas, d # pd PROVE d \in FillerHas'
      <4>1. PICK g \in Fillers : filler_pc[g] # "get" /\ d = filler_pd[g]
        BY <3>2 DEF FillerHas
      <4>2. filler_pc'[g] # "get" /\ d = filler_pd'[g]
        BY <1>2, <1>5, <3>2, <4>1
      <4> QED
        BY <4>2 DEF FillerHas
    <3> QED
      BY <3>1, <3>2
  <2>2. \A g1, g2 \in Fillers :
          filler_pc'[g1] # "get" /\ filler_pc'[g2] # "get" /\ filler_pd'[g1] = filler_pd'[g2]
          => g1 = g2
    <3>1. \A g1, g2 \in Fillers \ {f} :
            filler_pc'[g1] # "get" /\ filler_pc'[g2] # "get" /\ filler_pd'[g1] = filler_pd'[g2]
            => g1 = g2
      <4>1. \A g1, g2 \in Fillers :
              filler_pc[g1] # "get" /\ filler_pc[g2] # "get" /\ filler_pd[g1] = filler_pd[g2] => g1 = g2
        BY FillPlaces
      <4>2. \A g \in Fillers \ {f} : filler_pc'[g] = filler_pc[g] /\ filler_pd'[g] = filler_pd[g]
        BY <1>5
      <4> QED
        BY <4>1, <4>2
    <3> QED
      BY <1>5, <3>1
  <2>3. /\ Range(fill_queue') \cap FillerHas' = {}
        /\ Range(fill_queue') \cup FillerHas' = InState({"FILLING", "UPDATING"})'
        /\ IsInjective(fill_queue')
    <3>1. /\ Range(fill_queue) \cap FillerHas = {} /\ IsInjective(fill_queue)
          /\ Range(fill_queue) \cup FillerHas = InState({"FILLING", "UPDATING"})
      BY DEF FlushInv, Owned, FillOwned
    <3>2. fill_queue' = fill_queue /\ pd \notin Range(fill_queue)
      BY <1>2, <1>3
    <3>3. /\ Range(fill_queue) \cap (FillerHas \ {pd}) = {}
          /\ Range(fill_queue) \cup (FillerHas \ {pd}) = InState({"FILLING", "UPDATING"}) \ {pd}
      BY <3>1, <3>2
    <3> QED
      BY <1>8, <2>1, <3>1, <3>2, <3>3
  <2>4. FreeOwned' /\ BusyOwned'
    BY <1>3, <1>8, FreeFrame, BusyFrame DEF FlushInv, Owned
  <2> QED
    BY <2>2, <2>3, <2>4 DEF Owned, FillOwned
<1>10. OneDescriptorPerPage'
  BY <1>3, <1>8 DEF FlushInv, OneDescriptorPerPage
<1>11. ItemInv'
  <2>1. \A d \in PDs : state[d] = "PRESENT" => state'[d] = "PRESENT"
    BY <1>4
  <2> QED
    BY <1>3, <2>1, ItemPlaces DEF FlushInv, ItemInv, evictVars
<1>12. WalkInv'
  BY <1>3, FlushFrames DEF walkVars
<1>13. Quiet' /\ SetsTyped'
  BY <1>3, <1>4 DEF FlushInv, Quiet, SetsTyped, Alive, mgrVars
<1> QED
  BY <1>7, <1>9, <1>10, <1>11, <1>12, <1>13 DEF FlushInv

-----------------------------------------------------------------------------
(* Evict workers *)

\* A page is protected before it is written back.
LEMMA FlushEvictGet ==
  ASSUME CallsInv, FlushInv, NEW v \in Evictors, EvictGet(v), UNCHANGED callVars
  PROVE  FlushInv'
<1> USE DEF callVars, pinVars
<1> DEFINE w == Head(evict_queue)
           pd == w.page_desc
<1>1. /\ evictor_pc[v] = "get" /\ evict_queue # <<>> /\ evict_queue' = Tail(evict_queue)
      /\ UNCHANGED <<mem, store_fresh, listVars, pdVars, pc, fillVars, mgr_work, mgrVars, aborted>>
  BY DEF EvictGet, handlerVars
<1> USE DEF listVars, pdVars, fillVars
<1>2. /\ w \in Range(evict_queue) /\ IsInjective(evict_queue')
      /\ Range(evict_queue') = Range(evict_queue) \ {w}
  BY <1>1, ItemPlaces, TailFacts
<1>3. pd \in PDs /\ w = FlushItem(pd) /\ state[pd] = "PRESENT" /\ dirty[pd]
  BY <1>2, ItemPlaces
<1>4. /\ wp' = wp \cup {page[pd]}
      /\ evictor_pc' = [evictor_pc EXCEPT ![v] = "write"]
      /\ evictor_work' = [evictor_work EXCEPT ![v] = w]
  <2>1. mem[page[pd]] # "none"
    BY <1>3 DEF FlushInv, PagesInv, StateInv, Resident
  <2> QED
    BY <1>3, <2>1 DEF EvictGet, enable_write_protect, EvictorGoes
<1> HIDE DEF w
<1>5. w.type = "FLUSH" /\ page[pd] \in Pages
  <2>1. w.type = "FLUSH"
    BY <1>2 DEF FlushInv, ItemInv
  <2> QED
    BY <1>3, <2>1, PageOfDescriptor
<1> HIDE DEF pd
<1>6. /\ evictor_pc'[v] = "write" /\ evictor_work'[v] = w
      /\ \A u \in Evictors \ {v} : evictor_pc'[u] = evictor_pc[u] /\ evictor_work'[u] = evictor_work[u]
  BY <1>4 DEF CallsInv, WorkerTypeOK
<1>7. ItemInv'
  <2>1. ASSUME NEW u \in Evictors, evictor_pc'[u] # "get"
        PROVE  LET x == evictor_work'[u]
               IN /\ evictor_pc'[u] = "write" /\ x.type = "FLUSH" /\ x \notin Range(evict_queue')
                  /\ state[x.page_desc] = "PRESENT" /\ dirty[x.page_desc] /\ page[x.page_desc] \in wp'
    <3>1. CASE u = v
      <4>1. evictor_work'[u] = w /\ evictor_pc'[u] = "write"
        BY <1>6, <3>1
      <4>2. w \notin Range(evict_queue') /\ page[pd] \in wp'
        BY <1>2, <1>4
      <4> QED
        BY <1>3, <1>5, <4>1, <4>2 DEF pd
    <3>2. CASE u # v
      <4>1. evictor_work'[u] = evictor_work[u] /\ evictor_pc'[u] = evictor_pc[u]
        BY <1>6, <3>2
      <4>2. /\ evictor_pc[u] = "write" /\ evictor_work[u].type = "FLUSH"
            /\ evictor_work[u] \notin Range(evict_queue)
            /\ state[evictor_work[u].page_desc] = "PRESENT" /\ dirty[evictor_work[u].page_desc]
            /\ page[evictor_work[u].page_desc] \in wp
        BY <2>1, <4>1 DEF FlushInv, ItemInv
      <4>3. evictor_work[u] \notin Range(evict_queue') /\ page[evictor_work[u].page_desc] \in wp'
        BY <1>2, <1>4, <4>2
      <4> QED
        BY <4>1, <4>2, <4>3
    <3> QED
      BY <3>1, <3>2
  <2>2. ASSUME NEW x \in Range(evict_queue')
        PROVE  x.type = "FLUSH" /\ state[x.page_desc] = "PRESENT" /\ dirty[x.page_desc]
    BY <1>2 DEF FlushInv, ItemInv
  <2>3. ASSUME NEW t \in Evictors, NEW u \in Evictors, evictor_pc'[t] # "get",
               evictor_pc'[u] # "get", evictor_work'[t] = evictor_work'[u]
        PROVE  t = u
    <3>1. \A x \in Evictors \ {v} : evictor_pc[x] # "get" => evictor_work[x] # w
      BY <1>2 DEF FlushInv, ItemInv
    <3>2. CASE t # v /\ u # v
      <4>1. evictor_pc[t] # "get" /\ evictor_pc[u] # "get" /\ evictor_work[t] = evictor_work[u]
        <5>1. /\ evictor_pc'[t] = evictor_pc[t] /\ evictor_work'[t] = evictor_work[t]
              /\ evictor_pc'[u] = evictor_pc[u] /\ evictor_work'[u] = evictor_work[u]
          BY <1>6, <3>2
        <5> QED
          BY <2>3, <5>1
      <4> QED
        BY <4>1 DEF FlushInv, ItemInv
    <3>3. CASE t = v \/ u = v
      BY <1>6, <2>3, <3>1, <3>3
    <3> QED
      BY <3>2, <3>3
  <2> QED
    BY <1>1, <1>2, <2>1, <2>2, <2>3 DEF ItemInv
<1>8. PagesInv'
  <2> USE DEF FlushInv, PagesInv
  <2>1. \A d : Resident(d)' <=> Resident(d)
    BY <1>1 DEF Resident
  <2>2. StateInv'
    BY <1>1, <2>1 DEF StateInv
  <2>3. \A f \in Fillers : filler_pc[f] # "get" => page[filler_pd[f]] # page[pd]
    <3>1. \A f \in Fillers : filler_pc[f] # "get" =>
            filler_pd[f] \in PDs /\ state[filler_pd[f]] \in {"FILLING", "UPDATING"}
      BY FillPlaces
    <3>2. /\ pd \in PDs /\ state[pd] # "FREE"
          /\ \A f \in Fillers : filler_pc[f] # "get" =>
               filler_pd[f] \in PDs /\ state[filler_pd[f]] # "FREE" /\ filler_pd[f] # pd
      BY <1>3, <3>1
    <3> QED
      BY <3>2, PageOfDescriptor
  <2>4. FillerInv'
    <3>1. \A f \in Fillers : filler_pc[f] # "get" /\ page[filler_pd[f]] \notin wp =>
            page[filler_pd[f]] \notin wp'
      BY <1>4, <2>3
    <3> QED
      BY <1>1, <3>1 DEF FillerInv
  <2>5. CleanInv' /\ AbsentInv' /\ Coherent'
    BY <1>1, <1>4, <2>1 DEF CleanInv, AbsentInv, Coherent
  <2> QED
    BY <2>2, <2>4, <2>5
<1>9. Sent' = Sent
  <2>1. EvictQueued' \cup {pd} = EvictQueued \cup {pd} /\ pd \in EvictQueued
    BY <1>2, SMT DEF EvictQueued, pd
  <2>2. EvictorHas' = EvictorHas \cup {pd}
    <3>1. evictor_pc[v] = "get"
      BY <1>1
    <3>2. ASSUME NEW d \in EvictorHas' PROVE d \in EvictorHas \cup {pd}
      <4>1. PICK u \in Evictors : evictor_pc'[u] # "get" /\ d = evictor_work'[u].page_desc
        BY <3>2 DEF EvictorHas
      <4>2. CASE u = v
        BY <1>6, <4>1, <4>2 DEF pd
      <4>3. CASE u # v
        <5>1. evictor_pc[u] # "get" /\ d = evictor_work[u].page_desc
          BY <1>6, <4>1, <4>3
        <5> QED
          BY <5>1 DEF EvictorHas
      <4> QED
        BY <4>2, <4>3
    <3>3. ASSUME NEW d \in EvictorHas PROVE d \in EvictorHas'
      <4>1. PICK u \in Evictors : evictor_pc[u] # "get" /\ d = evictor_work[u].page_desc
        BY <3>3 DEF EvictorHas
      <4>2. evictor_pc'[u] # "get" /\ d = evictor_work'[u].page_desc
        BY <1>6, <3>1, <4>1
      <4> QED
        BY <4>2 DEF EvictorHas
    <3>4. pd \in EvictorHas'
      <4>1. evictor_pc'[v] # "get" /\ pd = evictor_work'[v].page_desc
        BY <1>6 DEF pd
      <4> QED
        BY <4>1 DEF EvictorHas
    <3> QED
      BY <3>2, <3>3, <3>4
  <2> QED
    BY <2>1, <2>2 DEF Sent
<1>10. WalkInv'
  BY <1>1, <1>9 DEF FlushInv, WalkInv, EvictorsIdle
<1>11. Owned' /\ OneDescriptorPerPage' /\ Quiet'
  BY <1>1, FlushFrames DEF listedVars, restingVars
<1>12. SetsTyped'
  BY <1>1, <1>4, <1>5 DEF FlushInv, SetsTyped
<1> QED
  BY <1>7, <1>8, <1>10, <1>11, <1>12 DEF FlushInv

\* The page is up to date in the Store, and its descriptor clean.
LEMMA FlushEvictWrite ==
  ASSUME CallsInv, FlushInv, NEW v \in Evictors, EvictWrite(v), UNCHANGED callVars
  PROVE  FlushInv'
<1> USE DEF callVars, pinVars
<1> DEFINE w == evictor_work[v]
           pd == w.page_desc
<1>1. /\ evictor_pc[v] = "write"
      /\ UNCHANGED <<mem, wp, listVars, page, state, deferred, data_present, pc, fillVars, mgr_work,
                     mgrVars, evict_queue, aborted>>
  BY DEF EvictWrite, handlerVars
<1> USE DEF listVars, fillVars
<1>2. /\ pd \in PDs /\ w = FlushItem(pd) /\ w \notin Range(evict_queue)
      /\ state[pd] = "PRESENT" /\ dirty[pd] /\ page[pd] \in wp
  BY <1>1, ItemPlaces
<1>3. w.type = "FLUSH" /\ page[pd] \in Pages /\ mem[page[pd]] = "fresh"
  <2>1. w.type = "FLUSH" /\ page[pd] \in Pages
    <3>1. w.type = "FLUSH"
      BY <1>1 DEF FlushInv, ItemInv
    <3> QED
      BY <1>2, <3>1, PageOfDescriptor
  <2>2. Resident(pd)
    BY <1>2 DEF FlushInv, PagesInv, StateInv
  <2> QED
    BY <2>1, <2>2 DEF Resident, FlushInv, PagesInv, Coherent, CallsInv, MemoryTyped
<1>4. /\ store_fresh' = store_fresh \cup {page[pd]}
      /\ dirty' = [dirty EXCEPT ![pd] = FALSE]
      /\ evictor_pc' = [evictor_pc EXCEPT ![v] = "get"]
      /\ evictor_work' = [evictor_work EXCEPT ![v] = NoWork]
  BY <1>3 DEF EvictWrite, write_to_store, EvictorGoes, AfterWrite
<1> HIDE DEF w, pd
<1>5. /\ evictor_pc'[v] = "get"
      /\ \A u \in Evictors \ {v} : evictor_pc'[u] = evictor_pc[u] /\ evictor_work'[u] = evictor_work[u]
      /\ ~dirty'[pd] /\ \A d \in PDs \ {pd} : dirty'[d] <=> dirty[d]
  BY <1>2, <1>4 DEF CallsInv, WorkerTypeOK, DescriptorTypeOK
<1>6. ASSUME NEW x \in Range(evict_queue) PROVE x.page_desc \in PDs /\ x.page_desc # pd
  <2>1. x.page_desc \in PDs /\ x = FlushItem(x.page_desc)
    BY ItemPlaces
  <2> QED
    BY <1>2, <2>1
<1>7. \A u \in Evictors \ {v} : evictor_pc[u] # "get" =>
        evictor_work[u].page_desc \in PDs /\ evictor_work[u].page_desc # pd
  <2>1. \A u \in Evictors \ {v} : evictor_pc[u] # "get" => evictor_work[u] # w
    BY <1>1 DEF FlushInv, ItemInv, w
  <2>2. \A u \in Evictors : evictor_pc[u] # "get" =>
          /\ evictor_work[u].page_desc \in PDs
          /\ evictor_work[u] = FlushItem(evictor_work[u].page_desc)
    BY ItemPlaces
  <2> QED
    BY <1>2, <2>1, <2>2
<1>8. ItemInv'
  <2> USE DEF FlushInv, ItemInv
  <2>1. \A x \in Range(evict_queue) :
          x.type = "FLUSH" /\ state[x.page_desc] = "PRESENT" /\ dirty'[x.page_desc]
    BY <1>5, <1>6
  <2>2. ASSUME NEW u \in Evictors, evictor_pc'[u] # "get"
        PROVE  LET x == evictor_work'[u]
               IN /\ evictor_pc'[u] = "write" /\ x.type = "FLUSH" /\ x \notin Range(evict_queue)
                  /\ state[x.page_desc] = "PRESENT" /\ dirty'[x.page_desc] /\ page[x.page_desc] \in wp
    <3>1. u # v /\ evictor_pc'[u] = evictor_pc[u] /\ evictor_work'[u] = evictor_work[u]
      BY <1>5, <2>2
    <3>2. dirty'[evictor_work[u].page_desc] <=> dirty[evictor_work[u].page_desc]
      BY <1>5, <1>7, <2>2, <3>1
    <3>3. /\ evictor_pc[u] = "write" /\ evictor_work[u].type = "FLUSH"
          /\ evictor_work[u] \notin Range(evict_queue)
          /\ state[evictor_work[u].page_desc] = "PRESENT" /\ dirty[evictor_work[u].page_desc]
          /\ page[evictor_work[u].page_desc] \in wp
      BY <2>2, <3>1
    <3> QED
      BY <3>1, <3>2, <3>3
  <2>3. \A t, u \in Evictors :
          evictor_pc'[t] # "get" /\ evictor_pc'[u] # "get" /\ evictor_work'[t] = evictor_work'[u]
          => t = u
    <3>1. \A u \in Evictors : evictor_pc'[u] # "get" =>
            evictor_pc[u] # "get" /\ evictor_work'[u] = evictor_work[u]
      BY <1>5
    <3>2. \A t, u \in Evictors :
            evictor_pc[t] # "get" /\ evictor_pc[u] # "get" /\ evictor_work[t] = evictor_work[u]
            => t = u
      OBVIOUS
    <3> HIDE DEF FlushInv, ItemInv
    <3> QED
      BY <3>1, <3>2, SMT
  <2> QED
    BY <1>1, <2>1, <2>2, <2>3
<1>9. \A d \in PDs \ {pd} : state[d] # "FREE" => page[d] # page[pd]
  BY <1>2, PageOfDescriptor
<1>10. PagesInv'
  <2> USE DEF FlushInv, PagesInv
  <2>1. \A d : Resident(d)' <=> Resident(d)
    BY <1>1 DEF Resident
  <2>2. StateInv'
    BY <1>1, <1>2, <1>5, <2>1 DEF StateInv
  <2>3. FillerInv'
    <3>1. \A f \in Fillers : filler_pc[f] # "get" => (dirty'[filler_pd[f]] <=> dirty[filler_pd[f]])
      <4>1. \A f \in Fillers : filler_pc[f] # "get" => filler_pd[f] \in PDs \ {pd}
        BY <1>2, FillPlaces
      <4> QED
        BY <1>5, <4>1
    <3> QED
      BY <1>1, <3>1 DEF FillerInv
  <2>4. CleanInv'
    BY <1>1, <1>2, <1>4, <1>5, <2>1 DEF CleanInv
  <2>5. AbsentInv' /\ Coherent'
    BY <1>1, <1>4 DEF AbsentInv, Coherent
  <2> QED
    BY <2>2, <2>3, <2>4, <2>5
<1>11. Sent' = Sent \ {pd} /\ pd \in Sent
  <2>1. EvictQueued' = EvictQueued /\ pd \notin EvictQueued
    <3>1. ASSUME pd \in EvictQueued PROVE FALSE
      BY <1>6, <3>1 DEF EvictQueued
    <3> QED
      BY <1>1, <3>1 DEF EvictQueued
  <2>2. EvictorHas' = EvictorHas \ {pd} /\ pd \in EvictorHas
    <3>1. pd \in EvictorHas
      BY <1>1 DEF EvictorHas, pd, w
    <3>2. ASSUME NEW d \in EvictorHas' PROVE d \in EvictorHas \ {pd}
      <4>1. PICK u \in {x \in Evictors : evictor_pc'[x] # "get"} : d = evictor_work'[u].page_desc
        BY <3>2 DEF EvictorHas
      <4>2. u \in Evictors \ {v} /\ evictor_pc[u] # "get" /\ d = evictor_work[u].page_desc
        BY <1>5, <4>1
      <4> QED
        BY <1>7, <4>2 DEF EvictorHas
    <3>3. ASSUME NEW d \in EvictorHas \ {pd} PROVE d \in EvictorHas'
      <4>1. PICK u \in {x \in Evictors : evictor_pc[x] # "get"} : d = evictor_work[u].page_desc
        BY <3>3 DEF EvictorHas
      <4>2. u \in Evictors \ {v} /\ evictor_pc'[u] # "get" /\ d = evictor_work'[u].page_desc
        BY <1>5, <3>3, <4>1 DEF pd, w
      <4> QED
        BY <4>2 DEF EvictorHas
    <3> QED
      BY <3>1, <3>2, <3>3
  <2> QED
    BY <2>1, <2>2 DEF Sent
<1>12. WalkInv'
  <2>1. ~EvictorsIdle
    BY <1>1 DEF EvictorsIdle
  <2>2. \A p \in must' \ store_fresh' : p \in must \ store_fresh /\ m_present_pages[p] # pd
    <3>1. ASSUME NEW p \in must' \ store_fresh' PROVE p \in must \ store_fresh /\ p # page[pd]
      BY <1>4
    <3>2. \A p \in must \ store_fresh : p \in Pages \ store_fresh
      BY DEF FlushInv, SetsTyped
    <3>3. \A p \in must \ store_fresh : page[m_present_pages[p]] = p
      BY <3>2, BehindIsDirty
    <3> QED
      BY <3>1, <3>3
  <2>3. call = "flush_wait" /\ flush_pos # Nowhere => call_pd # pd /\ call_pd \in PDs
    <3>1. call = "flush_wait" /\ flush_pos # Nowhere =>
            /\ flush_pos \in DOMAIN m_busy_pages /\ m_busy_pages[flush_pos] = call_pd
            /\ (call_pd \in Sent => flush_pos < flush_pos)
      BY DEF FlushInv, WalkInv
    <3>2. ~(flush_pos < flush_pos)
      BY SMT DEF CallsInv, CallTyped
    <3> QED
      BY <1>11, <3>1, <3>2, BusyPlaces
  <2>4. CASE call = "flush_wait" /\ flush_pos # Nowhere
    <3>1. dirty'[call_pd]
      BY <1>5, <2>3, <2>4 DEF FlushInv, WalkInv
    <3>2. \A i \in DOMAIN m_busy_pages : m_busy_pages[i] \in Sent' => i < flush_pos
      BY <1>11, <2>4 DEF FlushInv, WalkInv
    <3>3. \A p \in must' \ store_fresh' :
            \/ m_present_pages[p] \in Sent'
            \/ \E i \in DOMAIN m_busy_pages : flush_pos <= i /\ m_busy_pages[i] = m_present_pages[p]
      BY <1>11, <2>2, <2>4 DEF FlushInv, WalkInv
    <3> QED
      BY <1>1, <2>4, <3>1, <3>2, <3>3 DEF FlushInv, WalkInv
  <2>5. CASE call = "flush_idle"
    <3>1. \A p \in must' \ store_fresh' : m_present_pages[p] \in Sent'
      BY <1>11, <2>2, <2>5 DEF FlushInv, WalkInv
    <3> QED
      BY <1>1, <2>5, <3>1 DEF FlushInv, WalkInv
  <2>6. CASE call = "flush_wait" /\ flush_pos = Nowhere
    BY <1>1, <2>6 DEF FlushInv, WalkInv
  <2> QED
    BY <2>1, <2>4, <2>5, <2>6 DEF FlushInv, WalkInv, Quiet, FlushSteps
<1>13. Owned' /\ OneDescriptorPerPage' /\ Quiet'
  BY <1>1, FlushFrames DEF listedVars, restingVars
<1>14. SetsTyped'
  BY <1>1, <1>3, <1>4 DEF FlushInv, SetsTyped
<1> QED
  BY <1>8, <1>10, <1>12, <1>13, <1>14 DEF FlushInv

\* What a worker does besides, it does to items of other kinds.
LEMMA FlushEvictWorker ==
  ASSUME CallsInv, FlushInv, NEW v \in Evictors, CallEvictWorker(v)
  PROVE  FlushInv'
<1>1. evictor_pc[v] \in {"get", "write"}
  BY ItemPlaces
<1> QED
  BY <1>1, FlushEvictGet, FlushEvictWrite DEF CallEvictWorker, EvictMadvise, EvictMarkFree

-----------------------------------------------------------------------------
(* The walk of flush_dirty_pages *)

LEMMA ConcatFacts ==
  ASSUME NEW S, NEW s \in Seq(S), NEW t \in Seq(S), IsInjective(s), IsInjective(t),
         Range(s) \cap Range(t) = {}
  PROVE  /\ s \o t \in Seq(S) /\ IsInjective(s \o t)
         /\ Range(s \o t) = Range(s) \cup Range(t)
<1> DEFINE u == s \o t
<1>1. /\ Len(s) \in Nat /\ DOMAIN s = 1..Len(s) /\ Len(t) \in Nat /\ DOMAIN t = 1..Len(t)
  BY ListLen
<1>2. /\ u \in Seq(S) /\ Len(u) = Len(s) + Len(t)
      /\ \A i \in 1..(Len(s) + Len(t)) : u[i] = IF i <= Len(s) THEN s[i] ELSE t[i - Len(s)]
  BY ListConcat
<1>3. DOMAIN u = 1..(Len(s) + Len(t))
  BY <1>2, ListLen
<1> HIDE DEF u
<1>4. \A i \in DOMAIN u : (i \in DOMAIN s /\ u[i] = s[i])
                          \/ (i - Len(s) \in DOMAIN t /\ u[i] = t[i - Len(s)] /\ i \notin DOMAIN s)
  BY <1>1, <1>2, <1>3, SMT
<1>5. /\ \A i \in DOMAIN s : i \in DOMAIN u /\ u[i] = s[i]
      /\ \A i \in DOMAIN t : i + Len(s) \in DOMAIN u /\ u[i + Len(s)] = t[i]
  BY <1>1, <1>2, <1>3, SMT
<1>6. Range(u) = Range(s) \cup Range(t)
  <2>1. Range(u) \subseteq Range(s) \cup Range(t)
    BY <1>4 DEF Range
  <2>2. Range(s) \subseteq Range(u) /\ Range(t) \subseteq Range(u)
    BY <1>5 DEF Range
  <2> QED
    BY <2>1, <2>2
<1>7. IsInjective(u)
  <2>1. \A i \in DOMAIN s, j \in DOMAIN t : s[i] # t[j]
    BY DEF Range
  <2>2. \A i, j \in DOMAIN u : i \in Int /\ j \in Int
    BY <1>3, SMT
  <2>3. ASSUME NEW i \in DOMAIN u, NEW j \in DOMAIN u, u[i] = u[j] PROVE i = j
    <3>1. CASE i \in DOMAIN s /\ j \in DOMAIN s
      BY <1>5, <2>3, <3>1 DEF IsInjective
    <3>2. CASE i \notin DOMAIN s /\ j \notin DOMAIN s
      <4>1. i - Len(s) = j - Len(s)
        BY <1>4, <2>3, <3>2 DEF IsInjective
      <4> QED
        BY <1>1, <2>2, <4>1, SMT
    <3> QED
      BY <1>4, <2>1, <2>3, <3>1, <3>2
  <2> QED
    BY <2>3 DEF IsInjective
<1> QED
  BY <1>2, <1>6, <1>7 DEF u

\* The descriptors at positions I of the busy list, in its order.
LEMMA PickedFacts ==
  ASSUME Counted, CallsInv, FlushInv, NEW I \in SUBSET (1..Len(m_busy_pages)), NEW f \in FrontToBack(I)
  PROVE  /\ Picked(f) \in Seq(PDs) /\ IsInjective(Picked(f))
         /\ Range(Picked(f)) = {m_busy_pages[i] : i \in I}
<1>1. /\ f \in [1..Cardinality(I) -> I] /\ Range(f) = I
      /\ \A i, j \in DOMAIN f : i < j => f[i] < f[j]
  BY DEF FrontToBack
<1>2. Picked(f) \in Seq(PDs)
  BY <1>1, PickedTyped DEF CallsInv, ListsTyped, Counted
<1>3. DOMAIN Picked(f) = DOMAIN f /\ \A i \in DOMAIN f : Picked(f)[i] = m_busy_pages[f[i]]
  BY DEF Picked
<1>4. \A i \in DOMAIN f : i \in Int /\ f[i] \in Int /\ f[i] \in DOMAIN m_busy_pages
  <2>1. \A i \in DOMAIN f : i \in 1..Cardinality(I) /\ f[i] \in 1..Len(m_busy_pages)
    BY <1>1
  <2> QED
    BY <2>1, BusyPlaces, SMT
<1>5. \A i, j \in DOMAIN f : f[i] = f[j] => i = j
  BY <1>1, <1>4, SMT
<1>6. IsInjective(Picked(f))
  <2>1. \A i, j \in DOMAIN m_busy_pages : m_busy_pages[i] = m_busy_pages[j] => i = j
    BY BusyPlaces DEF IsInjective
  <2>2. ASSUME NEW i \in DOMAIN f, NEW j \in DOMAIN f, Picked(f)[i] = Picked(f)[j] PROVE i = j
    <3>1. m_busy_pages[f[i]] = m_busy_pages[f[j]]
      BY <1>3, <2>2
    <3>2. f[i] = f[j]
      BY <1>4, <2>1, <3>1
    <3> QED
      BY <1>5, <3>2
  <2> QED
    BY <1>3, <2>2 DEF IsInjective
<1>7. Range(Picked(f)) = {m_busy_pages[i] : i \in I}
  <2>1. ASSUME NEW d \in Range(Picked(f)) PROVE d \in {m_busy_pages[i] : i \in I}
    <3>1. PICK j \in DOMAIN f : d = m_busy_pages[f[j]]
      BY <1>3 DEF Range
    <3>2. f[j] \in I
      BY <1>1
    <3> QED
      BY <3>1, <3>2
  <2>2. ASSUME NEW i \in I PROVE m_busy_pages[i] \in Range(Picked(f))
    <3>1. PICK j \in DOMAIN f : i = f[j]
      BY <1>1 DEF Range
    <3> QED
      BY <1>3, <3>1 DEF Range
  <2> QED
    BY <2>1, <2>2
<1> QED
  BY <1>2, <1>6, <1>7

LEMMA FlushItemsFacts ==
  ASSUME NEW pds \in Seq(PDs), IsInjective(pds)
  PROVE  /\ FlushItems(pds) \in Seq(WorkItem) /\ IsInjective(FlushItems(pds))
         /\ \A w : w \in Range(FlushItems(pds)) <=> \E d \in Range(pds) : w = FlushItem(d)
<1>1. /\ DOMAIN FlushItems(pds) = DOMAIN pds
      /\ \A i \in DOMAIN pds : FlushItems(pds)[i] = FlushItem(pds[i])
  BY DEF FlushItems
<1>2. \A c, d : FlushItem(c) = FlushItem(d) => c = d
  BY SMT DEF FlushItem
<1>3. IsInjective(FlushItems(pds))
  <2>1. ASSUME NEW i \in DOMAIN pds, NEW j \in DOMAIN pds, FlushItems(pds)[i] = FlushItems(pds)[j]
        PROVE  i = j
    <3>1. FlushItem(pds[i]) = FlushItem(pds[j])
      BY <1>1, <2>1
    <3>2. pds[i] = pds[j]
      BY <1>2, <3>1
    <3> QED
      BY <3>2 DEF IsInjective
  <2> QED
    BY <1>1, <2>1 DEF IsInjective
<1>4. ASSUME NEW w \in Range(FlushItems(pds)) PROVE \E d \in Range(pds) : w = FlushItem(d)
  BY <1>1 DEF Range
<1>5. ASSUME NEW d \in Range(pds) PROVE FlushItem(d) \in Range(FlushItems(pds))
  BY <1>1 DEF Range
<1>6. FlushItems(pds) \in Seq(WorkItem)
  <2>1. Len(pds) \in Nat /\ DOMAIN pds = 1..Len(pds) /\ \A i \in 1..Len(pds) : pds[i] \in PDs
    BY ListLen, ListMember
  <2>2. FlushItems(pds) \in [1..Len(pds) -> WorkItem]
    BY <2>1 DEF FlushItems, FlushItem, WorkItem
  <2> QED
    BY <2>1, <2>2, FunctionIsSeq
<1> QED
  BY <1>3, <1>4, <1>5, <1>6

LEMMA PageOfItem == \A d : FlushItem(d).page_desc = d
BY SMT DEF FlushItem

\* The descriptors New that a stretch of the walk, from position first up to stop, sends
\* after those of pds: dirty, PRESENT, and not sent before.
Stretch(pds, first, stop, New) ==
  /\ \A d : d \in New <=> \/ d \in Range(pds)
                         \/ \E i \in first..(stop - 1) : dirty[m_busy_pages[i]] /\ d = m_busy_pages[i]
  /\ \A i \in first..(stop - 1) : m_busy_pages[i] \notin Range(pds)
  /\ \A d \in New : state[d] = "PRESENT" /\ dirty[d] /\ d \notin Sent

\* What a stretch of the walk sends to the evict workers. It is given in two parts, since
\* the page that was waited for comes first.
LEMMA Sends ==
  ASSUME Counted, CallsInv, FlushInv, NEW pds \in Seq(PDs), IsInjective(pds),
         NEW first \in Nat \ {0}, NEW stop \in Nat, stop <= Len(m_busy_pages) + 1,
         FlushDirty(pds, first, stop), UNCHANGED <<evictor_pc, evictor_work>>,
         NEW New, Stretch(pds, first, stop, New)
  PROVE  /\ IsInjective(evict_queue')
         /\ \A w : w \in Range(evict_queue') <=>
                     w \in Range(evict_queue) \/ \E d \in New : w = FlushItem(d)
         /\ Sent' = Sent \cup New
<1> DEFINE I == {j \in first..(stop - 1) : dirty[m_busy_pages[j]]}
<1>1. I \in SUBSET (1..Len(m_busy_pages)) /\ I \subseteq first..(stop - 1)
  <2>1. Len(m_busy_pages) \in Nat
    BY BusyPlaces
  <2> QED
    BY <2>1, SMT
<1>2. PICK f \in FrontToBack(I) : evict_queue' = evict_queue \o FlushItems(pds \o Picked(f))
  BY DEF FlushDirty
<1>3. New = Range(pds) \cup {m_busy_pages[i] : i \in I}
  <2>1. \A d : d \in New <=> d \in Range(pds) \/ \E i \in I : d = m_busy_pages[i]
    BY DEF Stretch
  <2> HIDE DEF I
  <2> QED
    BY <2>1, SMT
<1> HIDE DEF I
<1> DEFINE all == pds \o Picked(f)
<1>4. /\ Picked(f) \in Seq(PDs) /\ IsInjective(Picked(f))
      /\ Range(Picked(f)) = {m_busy_pages[i] : i \in I}
  BY <1>1, PickedFacts
<1>5. Range(pds) \cap Range(Picked(f)) = {}
  <2>1. ASSUME NEW d \in Range(Picked(f)) PROVE d \notin Range(pds)
    <3>1. PICK i \in I : d = m_busy_pages[i]
      BY <1>4
    <3> QED
      BY <1>1, <3>1 DEF Stretch
  <2> QED
    BY <2>1
<1>6. all \in Seq(PDs) /\ IsInjective(all) /\ Range(all) = New
  <2>1. /\ all \in Seq(PDs) /\ IsInjective(all)
        /\ Range(all) = Range(pds) \cup Range(Picked(f))
    BY <1>4, <1>5, ConcatFacts, SMT
  <2> QED
    BY <1>3, <1>4, <2>1
<1>7. evict_queue' = evict_queue \o FlushItems(all)
  BY <1>2
<1> HIDE DEF all
<1>8. /\ FlushItems(all) \in Seq(WorkItem) /\ IsInjective(FlushItems(all))
      /\ \A w : w \in Range(FlushItems(all)) <=> \E d \in New : w = FlushItem(d)
  BY <1>6, FlushItemsFacts
<1>9. \A d : FlushItem(d).page_desc = d
  BY PageOfItem
<1>10. Range(evict_queue) \cap Range(FlushItems(all)) = {}
  <2>1. ASSUME NEW w \in Range(evict_queue), NEW d \in New, w = FlushItem(d) PROVE FALSE
    <3>1. w.page_desc = d
      BY <1>9, <2>1
    <3>2. d \in EvictQueued
      BY <3>1 DEF EvictQueued
    <3> QED
      BY <3>2 DEF Sent, Stretch
  <2> QED
    BY <1>8, <2>1
<1>11. /\ IsInjective(evict_queue')
       /\ Range(evict_queue') = Range(evict_queue) \cup Range(FlushItems(all))
  <2>1. evict_queue \in Seq(WorkItem) /\ IsInjective(evict_queue)
    BY ItemPlaces
  <2>2. /\ IsInjective(evict_queue \o FlushItems(all))
        /\ Range(evict_queue \o FlushItems(all)) = Range(evict_queue) \cup Range(FlushItems(all))
    BY <1>8, <1>10, <2>1, ConcatFacts, SMT
  <2> QED
    BY <1>7, <2>2
<1>12. \A w : w \in Range(evict_queue') <=>
                w \in Range(evict_queue) \/ \E d \in New : w = FlushItem(d)
  BY <1>8, <1>11
<1>13. EvictQueued' = EvictQueued \cup New
  <2>1. ASSUME NEW d \in EvictQueued' PROVE d \in EvictQueued \cup New
    <3>1. PICK w \in Range(evict_queue') : d = w.page_desc
      BY <2>1 DEF EvictQueued
    <3>2. CASE w \in Range(evict_queue)
      BY <3>1, <3>2 DEF EvictQueued
    <3>3. CASE \E c \in New : w = FlushItem(c)
      BY <1>9, <3>1, <3>3
    <3> QED
      BY <1>12, <3>2, <3>3
  <2>2. ASSUME NEW d \in EvictQueued PROVE d \in EvictQueued'
    BY <1>12 DEF EvictQueued
  <2>3. ASSUME NEW d \in New PROVE d \in EvictQueued'
    <3>1. FlushItem(d) \in Range(evict_queue') /\ FlushItem(d).page_desc = d
      BY <1>9, <1>12
    <3> QED
      BY <3>1 DEF EvictQueued
  <2> QED
    BY <2>1, <2>2, <2>3
<1>14. EvictorHas' = EvictorHas
  BY SMT DEF EvictorHas
<1> QED
  BY <1>11, <1>12, <1>13, <1>14 DEF Sent

\* What was sent is PRESENT and dirty, and nothing is sent twice.
LEMMA SendsItems ==
  ASSUME CallsInv, FlushInv, UNCHANGED <<evictor_pc, evictor_work, state, dirty, page, wp>>,
         NEW New, \A d \in New : state[d] = "PRESENT" /\ dirty[d] /\ d \notin Sent,
         IsInjective(evict_queue'),
         \A w : w \in Range(evict_queue') <=>
                  w \in Range(evict_queue) \/ \E d \in New : w = FlushItem(d)
  PROVE  ItemInv'
<1>1. \A d : FlushItem(d).page_desc = d /\ FlushItem(d).type = "FLUSH"
  BY SMT DEF FlushItem
<1>2. ASSUME NEW w \in Range(evict_queue')
      PROVE  w.type = "FLUSH" /\ state[w.page_desc] = "PRESENT" /\ dirty[w.page_desc]
  <2>1. CASE w \in Range(evict_queue)
    BY <2>1 DEF FlushInv, ItemInv
  <2>2. CASE \E d \in New : w = FlushItem(d)
    <3>1. PICK d \in New : w = FlushItem(d)
      BY <2>2
    <3>2. w.page_desc = d /\ w.type = "FLUSH"
      BY <1>1, <3>1
    <3> QED
      BY <3>2
  <2> QED
    BY <2>1, <2>2
<1>3. ASSUME NEW v \in Evictors, evictor_pc[v] # "get" PROVE evictor_work[v] \notin Range(evict_queue')
  <2>1. evictor_work[v] \notin Range(evict_queue)
    BY <1>3, ItemPlaces
  <2>2. ASSUME NEW d \in New, evictor_work[v] = FlushItem(d) PROVE FALSE
    <3>1. evictor_work[v].page_desc = d
      BY <1>1, <2>2
    <3>2. d \in EvictorHas
      BY <1>3, <3>1 DEF EvictorHas
    <3> QED
      BY <3>2 DEF Sent
  <2> QED
    BY <2>1, <2>2
<1> QED
  BY <1>2, <1>3 DEF FlushInv, ItemInv

LEMMA FlushScanFlushInv ==
  ASSUME Counted, CallsInv, FlushInv, FlushScan
  PROVE  FlushInv'
<1> DEFINE resumed == call = "flush_wait"
<1>0. PICK waited, first, from, last, past :
        /\ waited = IF resumed THEN <<call_pd>> ELSE <<>>
        /\ first = IF resumed THEN flush_pos + 1 ELSE 1
        /\ from = IF resumed THEN flush_pos ELSE 1
        /\ last = Len(m_busy_pages) /\ past = last + 1
  OBVIOUS
<1> DEFINE waits == {i \in first..last : MustWait(i)}
<1>1. /\ first <= last + 1 => UNCHANGED aborted
      /\ \/ \E stop \in waits :
              /\ \A i \in waits : stop <= i
              /\ FlushDirty(waited, first, stop)
              /\ call' = "flush_wait" /\ call_pd' = m_busy_pages[stop] /\ flush_pos' = stop
         \/ /\ waits = {}
            /\ FlushDirty(waited, first, past)
            /\ call' = "flush_idle" /\ UNCHANGED <<call_pd, flush_pos>>
      /\ call = "flush" \/ (call = "flush_wait" /\ flush_pos # Nowhere /\ state[call_pd] = "PRESENT")
      /\ UNCHANGED <<mem, wp, store_fresh, listVars, pdVars, pc, fillVars, mgr_work, mgrVars,
                     evictor_pc, evictor_work, regions, looked_up, must, calls, pinVars>>
  BY <1>0 DEF FlushScan, Waited, FlushDirty, DieUnless, kernelVars, handlerVars
<1> USE DEF listVars, pdVars, fillVars, pinVars
<1>2. /\ flush_pos \in Nat /\ last \in Nat /\ flush_pos <= last /\ DOMAIN m_busy_pages = 1..last
      /\ m_busy_pages \in Seq(PDs)
  BY <1>0, BusyPlaces DEF CallsInv, CallTyped, FlushInv, WalkInv
<1>3. resumed => /\ flush_pos \in DOMAIN m_busy_pages /\ m_busy_pages[flush_pos] = call_pd
                 /\ dirty[call_pd] /\ call_pd \in PDs /\ state[call_pd] = "PRESENT"
  <2>1. resumed => flush_pos \in DOMAIN m_busy_pages /\ m_busy_pages[flush_pos] = call_pd
                   /\ dirty[call_pd]
    BY <1>1 DEF FlushInv, WalkInv
  <2>2. resumed => state[call_pd] = "PRESENT"
    BY <1>1
  <2> QED
    BY <2>1, <2>2, BusyPlaces
<1>4. /\ first \in Nat \ {0} /\ from \in Nat \ {0} /\ first <= last + 1 /\ from <= first
      /\ \A stop \in Nat, i \in Int :
           first <= stop => (i \in from..(stop - 1) <=> (resumed /\ i = flush_pos)
                                                        \/ i \in first..(stop - 1))
      /\ resumed => flush_pos \notin first..last
  <2>1. resumed => flush_pos \in 1..last
    BY <1>2, <1>3
  <2> QED
    BY <1>0, <1>2, <2>1, SMT
<1>5. waited \in Seq(PDs) /\ IsInjective(waited) /\ Range(waited) = IF resumed THEN {call_pd} ELSE {}
  <2>1. CASE resumed
    <3>1. /\ <<call_pd>> \in Seq(PDs) /\ IsInjective(<<call_pd>>) /\ Range(<<call_pd>>) = {call_pd}
      BY <1>3, <2>1, SMT DEF IsInjective, Range
    <3> QED
      BY <1>0, <2>1, <3>1
  <2>2. CASE ~resumed
    <3>1. /\ <<>> \in Seq(PDs) /\ IsInjective(<<>>) /\ Range(<<>>) = {}
      BY SMT DEF IsInjective, Range
    <3> QED
      BY <1>0, <2>2, <3>1
  <2> QED
    BY <2>1, <2>2
<1>6. aborted' = aborted
  BY <1>1, <1>4
<1>7. \A i \in DOMAIN m_busy_pages : m_busy_pages[i] \in Sent => i < from
  <2>1. CASE resumed
    BY <1>0, <1>1, <2>1 DEF FlushInv, WalkInv
  <2>2. CASE ~resumed
    <3>1. EvictorsIdle
      BY <1>1, <2>2 DEF FlushInv, WalkInv
    <3>2. Sent = {}
      <4>1. EvictQueued = {}
        <5>1. Range(evict_queue) = {}
          BY <3>1, SMT DEF EvictorsIdle, Range
        <5> QED
          BY <5>1 DEF EvictQueued
      <4>2. EvictorHas = {}
        BY <3>1 DEF EvictorsIdle, EvictorHas
      <4> QED
        BY <4>1, <4>2 DEF Sent
    <3> QED
      BY <3>2
  <2> QED
    BY <2>1, <2>2
<1>8. \A p \in must \ store_fresh :
        \/ m_present_pages[p] \in Sent
        \/ \E i \in DOMAIN m_busy_pages : from <= i /\ m_busy_pages[i] = m_present_pages[p]
  <2>1. CASE resumed
    BY <1>0, <1>1, <2>1 DEF FlushInv, WalkInv
  <2>2. CASE ~resumed
    <3>1. \A i \in DOMAIN m_busy_pages : from <= i
      BY <1>0, <1>2, <2>2, SMT
    <3>2. ASSUME NEW p \in must \ store_fresh
          PROVE  \E i \in DOMAIN m_busy_pages : m_busy_pages[i] = m_present_pages[p]
      <4>1. p \in Pages \ store_fresh
        BY DEF FlushInv, SetsTyped
      <4> QED
        BY <4>1, BehindIsDirty, BusyPlaces
    <3> QED
      BY <3>1, <3>2
  <2> QED
    BY <2>1, <2>2
<1> HIDE DEF waits
<1>9. ASSUME NEW stop \in Nat, first <= stop, stop <= last + 1,
             \A i \in first..(stop - 1) : ~MustWait(i), FlushDirty(waited, first, stop)
      PROVE  /\ ItemInv'
             /\ \A i \in DOMAIN m_busy_pages : m_busy_pages[i] \in Sent' => i < stop
             /\ \A p \in must \ store_fresh :
                  \/ m_present_pages[p] \in Sent'
                  \/ \E i \in DOMAIN m_busy_pages : stop <= i /\ m_busy_pages[i] = m_present_pages[p]
  <2> DEFINE J == {j \in from..(stop - 1) : dirty[m_busy_pages[j]]}
             I == {j \in first..(stop - 1) : dirty[m_busy_pages[j]]}
  <2>0. PICK New : New = {m_busy_pages[i] : i \in J}
    OBVIOUS
  <2>1. /\ \A i \in from..(stop - 1) : i \in DOMAIN m_busy_pages /\ i \in Int /\ ~(i < from) /\ i < stop
        /\ \A i \in DOMAIN m_busy_pages :
             i \in Int /\ (from <= i => (stop <= i \/ i \in from..(stop - 1)))
             /\ (i < from => i < stop)
        /\ first..(stop - 1) \subseteq from..(stop - 1)
    BY <1>2, <1>4, <1>9, SMT
  <2>2. ASSUME NEW i \in from..(stop - 1), dirty[m_busy_pages[i]]
        PROVE  state[m_busy_pages[i]] = "PRESENT" /\ m_busy_pages[i] \notin Sent
    <3>1. m_busy_pages[i] \notin Sent
      BY <1>7, <2>1
    <3>2. CASE i \in first..(stop - 1)
      BY <1>9, <2>2, <3>1, <3>2 DEF MustWait
    <3>3. CASE resumed /\ i = flush_pos
      BY <1>3, <3>1, <3>3
    <3> QED
      BY <1>4, <1>9, <2>1, <3>2, <3>3
  <2>3. \A d \in New : state[d] = "PRESENT" /\ dirty[d] /\ d \notin Sent
    BY <2>0, <2>2
  <2>4. New = Range(waited) \cup {m_busy_pages[i] : i \in I}
    <3>1. \A i : i \in J <=> (resumed /\ i = flush_pos) \/ i \in I
      <4>1. \A i \in Int : i \in J <=> (resumed /\ i = flush_pos) \/ i \in I
        BY <1>3, <1>4, <1>9
      <4>2. \A i : i \in J \/ i \in I \/ i = flush_pos => i \in Int
        BY <1>2, <1>4, <1>9, SMT
      <4> QED
        BY <4>1, <4>2
    <3> HIDE DEF J, I
    <3>2. CASE resumed
      <4>1. \A i : i \in J <=> i = flush_pos \/ i \in I
        BY <3>1, <3>2
      <4>2. Range(waited) = {m_busy_pages[flush_pos]}
        BY <1>3, <1>5, <3>2
      <4> QED
        BY <2>0, <4>1, <4>2
    <3>3. CASE ~resumed
      <4>1. J = I /\ Range(waited) = {}
        BY <1>5, <3>1, <3>3
      <4> QED
        BY <2>0, <4>1
    <3> QED
      BY <3>2, <3>3
  <2>5. \A i \in first..(stop - 1) : m_busy_pages[i] \notin Range(waited)
    <3>1. \A i \in first..(stop - 1) : i \in DOMAIN m_busy_pages
      BY <2>1
    <3>2. resumed => flush_pos \notin first..(stop - 1)
      BY <1>2, <1>4, <1>9, SMT
    <3>3. resumed => \A i \in first..(stop - 1) : m_busy_pages[i] # call_pd
      <4>1. \A i, j \in DOMAIN m_busy_pages : m_busy_pages[i] = m_busy_pages[j] => i = j
        BY BusyPlaces DEF IsInjective
      <4> QED
        BY <1>3, <3>1, <3>2, <4>1
    <3> QED
      BY <1>5, <3>3
  <2> HIDE DEF J
  <2>6. /\ IsInjective(evict_queue')
        /\ \A w : w \in Range(evict_queue') <=>
                    w \in Range(evict_queue) \/ \E d \in New : w = FlushItem(d)
        /\ Sent' = Sent \cup New
    <3>1. UNCHANGED <<evictor_pc, evictor_work>>
      BY <1>1
    <3>2. stop <= Len(m_busy_pages) + 1 /\ first \in Nat \ {0} /\ FlushDirty(waited, first, stop)
      BY <1>0, <1>4, <1>9
    <3>3. waited \in Seq(PDs) /\ IsInjective(waited)
      BY <1>5
    <3>4. \A d : d \in New <=>
                  \/ d \in Range(waited)
                  \/ \E i \in first..(stop - 1) : dirty[m_busy_pages[i]] /\ d = m_busy_pages[i]
      BY <2>4
    <3> HIDE DEF I
    <3> QED
      BY <2>3, <2>5, <3>1, <3>2, <3>3, <3>4, Sends DEF Stretch
  <2>7. ItemInv'
    BY <1>1, <2>3, <2>6, SendsItems
  <2>8. ASSUME NEW i \in DOMAIN m_busy_pages, m_busy_pages[i] \in Sent' PROVE i < stop
    <3>1. CASE m_busy_pages[i] \in Sent
      BY <1>7, <2>1, <3>1
    <3>2. CASE m_busy_pages[i] \in New
      <4>1. PICK j \in from..(stop - 1) : m_busy_pages[i] = m_busy_pages[j]
        BY <2>0, <3>2 DEF J
      <4>2. i = j
        BY <2>1, <4>1, BusyPlaces DEF IsInjective
      <4> QED
        BY <2>1, <4>2
    <3> QED
      BY <2>6, <2>8, <3>1, <3>2
  <2>9. ASSUME NEW p \in must \ store_fresh
        PROVE  \/ m_present_pages[p] \in Sent'
               \/ \E i \in DOMAIN m_busy_pages : stop <= i /\ m_busy_pages[i] = m_present_pages[p]
    <3>1. CASE m_present_pages[p] \in Sent
      BY <2>6, <3>1
    <3>2. ASSUME NEW i \in DOMAIN m_busy_pages, from <= i, m_busy_pages[i] = m_present_pages[p]
          PROVE  m_present_pages[p] \in Sent' \/ stop <= i
      <4>1. dirty[m_busy_pages[i]]
        <5>1. p \in Pages \ store_fresh
          BY DEF FlushInv, SetsTyped
        <5> QED
          BY <3>2, <5>1, BehindIsDirty
      <4>2. stop <= i \/ i \in J
        BY <2>1, <3>2, <4>1 DEF J
      <4>3. i \in J => m_busy_pages[i] \in New
        BY <2>0
      <4> QED
        BY <2>6, <3>2, <4>2, <4>3
    <3> QED
      BY <1>8, <3>1, <3>2
  <2> QED
    BY <2>7, <2>8, <2>9
<1>10. ItemInv' /\ WalkInv'
  <2>1. ASSUME NEW stop \in waits, \A i \in waits : stop <= i, FlushDirty(waited, first, stop),
               call' = "flush_wait", call_pd' = m_busy_pages[stop], flush_pos' = stop
        PROVE  ItemInv' /\ WalkInv'
    <3>1. /\ stop \in Nat /\ first <= stop /\ stop <= last + 1 /\ stop <= last
          /\ stop \in DOMAIN m_busy_pages
          /\ \A i \in first..(stop - 1) : i \in first..last /\ ~(stop <= i)
      BY <1>2, <1>4, SMT DEF waits
    <3>2. \A i \in first..(stop - 1) : ~MustWait(i)
      BY <2>1, <3>1 DEF waits
    <3>3. dirty[m_busy_pages[stop]]
      BY DEF waits, MustWait
    <3>4. /\ ItemInv'
          /\ \A i \in DOMAIN m_busy_pages : m_busy_pages[i] \in Sent' => i < stop
          /\ \A p \in must \ store_fresh :
               \/ m_present_pages[p] \in Sent'
               \/ \E i \in DOMAIN m_busy_pages : stop <= i /\ m_busy_pages[i] = m_present_pages[p]
      BY <1>9, <2>1, <3>1, <3>2
    <3>5. UNCHANGED <<m_busy_pages, m_present_pages, dirty, must, store_fresh>>
      BY <1>1
    <3> QED
      BY <1>0, <2>1, <3>1, <3>3, <3>4, <3>5 DEF WalkInv
  <2>2. ASSUME waits = {}, FlushDirty(waited, first, past), call' = "flush_idle",
               UNCHANGED <<call_pd, flush_pos>>
        PROVE  ItemInv' /\ WalkInv'
    <3>1. /\ past \in Nat /\ first <= past /\ past <= last + 1 /\ past - 1 = last
          /\ \A i \in DOMAIN m_busy_pages : ~(past <= i)
      BY <1>0, <1>2, <1>4, SMT
    <3>2. \A i \in first..last : ~MustWait(i)
      BY <2>2 DEF waits
    <3>3. ItemInv' /\ \A p \in must \ store_fresh : m_present_pages[p] \in Sent'
      <4>1. /\ ItemInv'
            /\ \A p \in must \ store_fresh :
                 \/ m_present_pages[p] \in Sent'
                 \/ \E i \in DOMAIN m_busy_pages :
                      past <= i /\ m_busy_pages[i] = m_present_pages[p]
        <5>1. \A i \in first..(past - 1) : ~MustWait(i)
          BY <3>1, <3>2
        <5> QED
          BY <1>9, <2>2, <3>1, <5>1
      <4> QED
        BY <3>1, <4>1
    <3> QED
      BY <1>0, <1>1, <1>2, <2>2, <3>3 DEF WalkInv
  <2> QED
    BY <1>1, <2>1, <2>2
<1>11. Owned' /\ OneDescriptorPerPage' /\ PagesInv'
  BY <1>1, FlushFrames DEF listedVars, pagesVars
<1>12. Quiet'
  BY <1>1, <1>6 DEF FlushInv, Quiet, FlushSteps, Alive, mgrVars
<1>13. SetsTyped'
  BY <1>1 DEF FlushInv, SetsTyped
<1> QED
  BY <1>10, <1>11, <1>12, <1>13 DEF FlushInv

\* The threads of the engine do not move a call on.
LEMMA EngineKeepsCall ==
  ASSUME EngineStep
  PROVE  call' = call
<1> USE DEF callVars
<1>1. ASSUME NEW t \in Apps, CallAppStep(t) PROVE call' = call
  BY <1>1 DEF CallAppStep, CallAppWrite, CallAppFault, CallAppRetry
<1>2. ASSUME NEW h \in Handlers, CallPageEvent(h) PROVE call' = call
  BY <1>2 DEF CallPageEvent, FindRegion, IgnoreEvent, ByHandler, CallBringIn
<1>3. ASSUME NEW f \in Fillers, CallFillWorker(f) PROVE call' = call
  BY <1>3 DEF CallFillWorker
<1>4. CallEvictMgr => call' = call
  BY DEF CallEvictMgr, CallMgrEvict
<1>5. ASSUME NEW v \in Evictors, CallEvictWorker(v) PROVE call' = call
  BY <1>5 DEF CallEvictWorker
<1> QED
  BY <1>1, <1>2, <1>3, <1>4, <1>5 DEF EngineStep, CallPrefetch, UseDeletedRegion

-----------------------------------------------------------------------------
(* The other steps *)

\* A flush that goes on with an iterator on no element.
LEMMA FlushLostInv ==
  ASSUME CallsInv, FlushInv, FlushLost
  PROVE  LostInv'
<1>1. /\ call = "flush_wait" /\ flush_pos = Nowhere /\ UNCHANGED <<call, flush_pos>>
      /\ aborted = {} /\ aborted' = aborted \cup {"flush_dirty_pages"}
  BY DEF FlushLost, Waited, DieUnless, Alive, callVars
<1>2. UNCHANGED <<mem, wp, store_fresh, m_free_pages, m_busy_pages, state, must, looked_up, calls,
                  pin_pc>>
  BY DEF FlushLost, kernelVars, listVars, pdVars, callVars, pinVars
<1>3. \A S : InState(S)' = InState(S)
  BY <1>2 DEF InState
<1>4. FreeOwned' /\ BusyOwned'
  BY <1>2, <1>3, FreeFrame, BusyFrame DEF FlushInv, Owned
<1>5. SetsTyped' /\ Coherent' /\ pin_pc' = "idle"
  BY <1>2 DEF FlushInv, SetsTyped, PagesInv, Coherent, Quiet
<1> QED
  BY <1>1, <1>4, <1>5 DEF LostInv, IteratorLost

\* flush_buffer, wait_for_page_state and WaitAll.
LEMMA FlushStepFlushInv ==
  ASSUME Counted, CallsInv, FlushInv, FlushStep
  PROVE  FlushInv' \/ LostInv'
<1>1. CASE flush_buffer
  <2>1. /\ call = "idle" /\ call' = "flush" /\ calls' = calls + 1 /\ calls < MaxCalls
        /\ must' = Pages \ store_fresh
        /\ UNCHANGED <<vars, regions, looked_up, target, call_pd, flush_pos, pinVars>>
    BY <1>1 DEF flush_buffer
  <2> USE DEF vars, kernelVars, listVars, pdVars, handlerVars, fillVars, pinVars
  <2>2. Owned' /\ OneDescriptorPerPage' /\ ItemInv' /\ PagesInv'
    BY <2>1, FlushFrames DEF listedVars, pagesVars
  <2>3. Quiet'
    BY <2>1 DEF FlushInv, Quiet, FlushSteps, Alive, mgrVars
  <2>4. SetsTyped'
    <3>1. calls' \in 0..MaxCalls
      BY <2>1, CallsAssumption, SMT DEF FlushInv, SetsTyped
    <3> QED
      BY <2>1, <3>1 DEF FlushInv, SetsTyped
  <2>5. WalkInv'
    BY <2>1 DEF FlushInv, WalkInv, EvictorsIdle, evictVars
  <2> QED
    BY <2>2, <2>3, <2>4, <2>5 DEF FlushInv
<1>2. CASE FlushSleep
  <2>1. /\ looked_up' \subseteq Handlers /\ calls' \in 0..MaxCalls
        /\ \A h \in Handlers : pc'[h] # "wait_avail"
    BY <1>2 DEF FlushSleep, callVars, handlerVars, FlushInv, SetsTyped, Quiet
  <2> QED
    BY <1>2, <2>1, ThreadsOnly DEF FlushSleep, callVars, kernelVars
<1>3. CASE WaitAll
  <2>1. /\ call = "flush_idle" /\ EvictorsIdle
        /\ call' = "idle" /\ call_pd' = NoPD /\ flush_pos' = 0 /\ must' = {}
        /\ UNCHANGED <<vars, regions, looked_up, target, calls, pinVars>>
    BY <1>3 DEF WaitAll
  <2> USE DEF vars, kernelVars, listVars, pdVars, handlerVars, fillVars, pinVars
  <2>2. Owned' /\ OneDescriptorPerPage' /\ ItemInv' /\ PagesInv'
    BY <2>1, FlushFrames DEF listedVars, pagesVars
  <2>3. Quiet' /\ SetsTyped'
    BY <2>1 DEF FlushInv, Quiet, SetsTyped, Alive, mgrVars
  <2>4. 0 <= Len(m_busy_pages)
    BY BusyPlaces, SMT
  <2>5. WalkInv'
    BY <2>1, <2>4 DEF WalkInv, EvictorsIdle, evictVars
  <2> QED
    BY <2>2, <2>3, <2>5 DEF FlushInv
<1> QED
  BY <1>1, <1>2, <1>3, FlushScanFlushInv, FlushLostInv DEF FlushStep

\* What is done for uunmap, umap and umap_fetch_and_pin is not done.
LEMMA NoOtherCall ==
  ASSUME FlushOnly, CallsInv, FlushInv
  PROVE  ~UnmapStep /\ ~PinStep
<1>1. /\ call \in {"idle", "flush", "flush_wait", "flush_idle"} /\ regions = Regions
      /\ pin_pc = "idle"
  BY DEF FlushInv, Quiet, FlushSteps
<1>2. ~PinStep
  BY <1>1 DEF PinStep, PinLock, PinLookup, PinDone, PinRead, PinCopy, FlushOnly
<1>3. \A r \in Regions : ~removeRegion(r) /\ ~addRegion(r)
  BY <1>1 DEF removeRegion, addRegion, FlushOnly
<1>4. ~RegionDone /\ ~RegionNext /\ ~RegionPresent /\ ~RegionFree
  BY <1>1 DEF RegionDone, RegionNext, RegionPresent, RegionFree, Awake
<1>5. ~NoneLeft /\ ~OldestDeferred /\ ~OldestNormal /\ ~EvictTaken
  BY <1>1 DEF NoneLeft, OldestDeferred, OldestNormal, EvictTaken, Awake
<1>6. ~AllIdle /\ ~Unregister /\ ~StopPool
  BY <1>1 DEF AllIdle, Unregister, StopPool
<1> QED
  BY <1>2, <1>3, <1>4, <1>5, <1>6 DEF UnmapStep

LEMMA FlushEngineStep ==
  ASSUME Room, CallsInv, FlushInv, EngineStep
  PROVE  FlushInv'
<1>1. ASSUME NEW h \in Handlers, CallPageEvent(h) PROVE FlushInv'
  <2>1. PICK e \in Event :
          \/ FindRegion(h, e)
          \/ IgnoreEvent(h, e)
          \/ ByHandler(h, WaitForState(h, e)) /\ UNCHANGED flush_pos
          \/ ByHandler(h, SpuriousEvent(h, e)) /\ UNCHANGED flush_pos
          \/ ByHandler(h, UpdatePage(h, e)) /\ UNCHANGED flush_pos
          \/ ByHandler(h, WaitForDescriptor(h, e)) /\ UNCHANGED flush_pos
          \/ CallBringIn(h, e)
    BY <1>1 DEF CallPageEvent
  <2>2. ~IgnoreEvent(h, e)
    <3>1. e.page \in Pages
      BY SMT DEF Event
    <3>2. RegionOf[e.page] \in regions
      BY <3>1, CallsAssumption DEF FlushInv, Quiet
    <3> QED
      BY <3>2 DEF IgnoreEvent
  <2>3. ~ByHandler(h, WaitForDescriptor(h, e))
    BY DEF Room, ByHandler, WaitForDescriptor
  <2> QED
    BY <2>1, <2>2, <2>3, FlushWaits, FlushUpdatePage, FlushBringIn
<1>2. ASSUME NEW f \in Fillers, CallFillWorker(f) PROVE FlushInv'
  BY <1>2, FlushFillUnprotect, FlushFillRead, FlushFillCopy, FlushFillMarkPresent DEF CallFillWorker
<1>3. ~CallEvictMgr
  <2>1. mgr_pc = "get" /\ ~(mgr_work > 0)
    <3>1. mgr_pc = "get" /\ mgr_work = 0
      BY DEF FlushInv, Quiet
    <3> QED
      BY <3>1, SMT
  <2> QED
    BY <2>1 DEF CallEvictMgr, CallMgrEvict, MgrGet, MgrCheck, MgrEvict, MgrSend
<1>4. ~UseDeletedRegion
  <2>1. \A p \in Pages : RegionOf[p] \in regions
    BY CallsAssumption DEF FlushInv, Quiet
  <2>2. \A e \in Event : e.page \in Pages
    BY SMT DEF Event
  <2> QED
    BY <2>1, <2>2 DEF UseDeletedRegion
<1> QED
  BY <1>1, <1>2, <1>3, <1>4, FlushAppStep, FlushReads, FlushWakes, FlushEvictWorker DEF EngineStep

LEMMA NextFlushInv ==
  ASSUME FlushOnly, Room, Counted, CallsInv, FlushInv, [CallsNext]_allVars
  PROVE  FlushInv' \/ LostInv'
<1>1. CASE UNCHANGED allVars
  <2>1. /\ looked_up' \subseteq Handlers /\ calls' \in 0..MaxCalls
        /\ \A h \in Handlers : pc'[h] # "wait_avail"
    BY <1>1 DEF allVars, vars, callVars, handlerVars, FlushInv, SetsTyped, Quiet
  <2> QED
    BY <1>1, <2>1, ThreadsOnly DEF allVars, vars, callVars, kernelVars
<1> QED
  BY <1>1, FlushEngineStep, FlushStepFlushInv, NoOtherCall DEF CallsNext, CallStep, Ended
=============================================================================
