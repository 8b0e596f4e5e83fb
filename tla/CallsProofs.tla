---------------------------- MODULE CallsProofs -----------------------------
(***************************************************************************)
(* What holds in every behaviour of the engine beside the calls, for any   *)
(* number of pages, descriptors, regions, threads and calls: first the     *)
(* steps of CallsInv, then the counting and the theorems.  Pages that      *)
(* are pinned before they are touched, and never prefetched, stay.  While  *)
(* nothing is unmapped or pinned, and the pages of all regions stay below  *)
(* the high water mark, what was written before umap_flush was called is   *)
(* in the Store when it returns, however faults, prefetches, fills and     *)
(* write-backs interleave with it; a flush whose iterator push_front has   *)
(* invalidated does not return in the model.                               *)
(***************************************************************************)
EXTENDS FlushCallSteps, FiniteSetTheorems

\* Most leaves are first-order reasoning; those that need more name SMT.
USE Zenon

(* Where a piece of the invariant is out of a step's reach *)

handsVars == <<filler_pc, filler_pd, evictor_pc, evictor_work, mgr_pc, mgr_list, call, call_pd>>
memoryVars == <<mem, fault, blocked, unread>>
bufferVars == <<listVars, handlerVars>>
workerVars == <<fillVars, mgr_work, mgrVars, evictVars>>
callTypedVars == <<regions, target, overtaken, call_pd, flush_pos, pinned, pin_left>>
pinInvVars == <<pinned, pin_left, wp, m_present_pages, page, batch, fault, regions, mem>>

LEMMA CallsFrames ==
  ASSUME CallsInv
  PROVE  /\ UNCHANGED handsVars => HandsTyped'
         /\ UNCHANGED memoryVars => MemoryTyped'
         /\ UNCHANGED bufferVars => ListsTyped'
         /\ UNCHANGED pdVars => DescriptorTypeOK'
         /\ UNCHANGED workerVars => WorkerTypeOK'
         /\ UNCHANGED callTypedVars => CallTyped'
         /\ UNCHANGED pinInvVars => PinInv'
<1>1. UNCHANGED handsVars => HandsTyped'
  BY DEF CallsInv, HandsTyped, handsVars
<1>2. UNCHANGED memoryVars => MemoryTyped'
  BY DEF CallsInv, MemoryTyped, memoryVars
<1>3. UNCHANGED bufferVars => ListsTyped'
  BY DEF CallsInv, ListsTyped, bufferVars, listVars, handlerVars
<1>4. UNCHANGED pdVars => DescriptorTypeOK'
  BY DEF CallsInv, DescriptorTypeOK, pdVars
<1>5. UNCHANGED workerVars => WorkerTypeOK'
  BY DEF CallsInv, WorkerTypeOK, workerVars, fillVars, mgrVars, evictVars
<1>6. UNCHANGED callTypedVars => CallTyped'
  BY DEF CallsInv, CallTyped, callTypedVars
<1>7. UNCHANGED pinInvVars => PinInv'
  BY DEF CallsInv, PinInv, pinInvVars
<1> QED
  BY <1>1, <1>2, <1>3, <1>4, <1>5, <1>6, <1>7

\* Steps of the engine that leave the calls alone.
LEMMA EngineFrame ==
  ASSUME CallsInv, UNCHANGED callVars
  PROVE  /\ CallTyped' /\ UNCHANGED <<call, call_pd, pinned, pin_left, regions>>
BY CallsFrames DEF callVars, pinVars, callTypedVars

-----------------------------------------------------------------------------
(* The application *)

\* A write to a page that is in memory.
LEMMA AppWritesTyped ==
  ASSUME CallsInv, NEW p, AppWrites(p)
  PROVE  /\ mem' \in [Pages -> {"none", "fresh", "stale"}]
         /\ \A q \in Pages : mem[q] # "none" => mem'[q] # "none"
         /\ filler_buf' \in [Fillers -> {"fresh", "stale"}]
<1> USE DEF AppWrites, CallsInv, MemoryTyped, WorkerTypeOK
<1>1. mem' \in [Pages -> {"none", "fresh", "stale"}]
  OBVIOUS
<1>2. \A q \in Pages : mem[q] # "none" => mem'[q] # "none"
  OBVIOUS
<1>3. filler_buf' \in [Fillers -> {"fresh", "stale"}]
  OBVIOUS
<1> QED
  BY <1>1, <1>2, <1>3

LEMMA WrittenTyped ==
  ASSUME CallsInv, NEW p, Written(p), UNCHANGED <<regions, target, overtaken, call_pd, flush_pos, pinned>>
  PROVE  CallTyped' /\ DOMAIN pin_left' = DOMAIN pin_left
<1>1. /\ DOMAIN pin_left' = DOMAIN pin_left
      /\ \A q \in DOMAIN pin_left : pin_left'[q] \in {"stale", pin_left[q]}
  BY DEF Written
<1>2. \A q \in DOMAIN pin_left' : pin_left'[q] \in {"unread", "fresh", "stale"}
  BY <1>1 DEF CallsInv, CallTyped
<1> QED
  BY <1>1, <1>2 DEF CallsInv, CallTyped

LEMMA CallAppWriteInv ==
  ASSUME CallsInv, NEW t \in Apps, NEW p, CallAppWrite(t, p)
  PROVE  CallsInv'
<1> USE DEF CallAppWrite, AppWrite
<1>1. HandsTyped' /\ ListsTyped' /\ DescriptorTypeOK'
  BY CallsFrames DEF handsVars, bufferVars, mgrVars, evictVars
<1>2. /\ mem' \in [Pages -> {"none", "fresh", "stale"}]
      /\ \A q \in Pages : mem[q] # "none" => mem'[q] # "none"
      /\ filler_buf' \in [Fillers -> {"fresh", "stale"}]
  BY AppWritesTyped
<1>3. MemoryTyped'
  BY <1>2 DEF CallsInv, MemoryTyped
<1>4. WorkerTypeOK'
  BY <1>2 DEF CallsInv, WorkerTypeOK, mgrVars, evictVars
<1>5. CallTyped' /\ DOMAIN pin_left' = DOMAIN pin_left
  BY WrittenTyped
<1>6. PinInv'
  BY <1>2, <1>5 DEF CallsInv, PinInv, CallTyped, listVars, pdVars, handlerVars
<1> QED
  BY <1>1, <1>3, <1>4, <1>5, <1>6 DEF CallsInv

\* A page that is pinned first does not fault: it is in memory and not protected.
LEMMA CallAppFaultInv ==
  ASSUME CallsInv, NEW t \in Apps, NEW e \in Accesses, CallAppFault(t, e)
  PROVE  CallsInv'
<1> USE DEF CallAppFault, AppFault
<1>1. /\ HandsTyped' /\ ListsTyped' /\ DescriptorTypeOK' /\ WorkerTypeOK' /\ CallTyped'
      /\ UNCHANGED <<pinned, pin_left, regions>>
  BY CallsFrames, EngineFrame DEF handsVars, bufferVars, workerVars, mgrVars, evictVars, fillVars
<1>2. e \in Event /\ e.page \in Pages
  BY BufferAssumption DEF Event
<1>3. MemoryTyped'
  BY <1>2, SMT DEF CallsInv, MemoryTyped
<1>4. PinnedApart => e.page \notin PinnedFirst
  BY DEF Usable, Accessible, CallsInv, PinInv
<1>5. \A u \in Apps : fault'[u] = e \/ fault'[u] = fault[u]
  BY DEF CallsInv, MemoryTyped
<1>6. PinInv'
  BY <1>1, <1>4, <1>5 DEF CallsInv, PinInv, listVars, pdVars, handlerVars
<1> QED
  BY <1>1, <1>3, <1>6 DEF CallsInv

LEMMA CallAppRetryInv ==
  ASSUME CallsInv, NEW t \in Apps, CallAppRetry(t)
  PROVE  CallsInv'
<1> USE DEF CallAppRetry, AppRetry
<1>1. HandsTyped' /\ ListsTyped' /\ DescriptorTypeOK'
  BY CallsFrames DEF handsVars, bufferVars, mgrVars, evictVars
<1>2. /\ mem' \in [Pages -> {"none", "fresh", "stale"}]
      /\ \A q \in Pages : mem[q] # "none" => mem'[q] # "none"
      /\ filler_buf' \in [Fillers -> {"fresh", "stale"}]
      /\ CallTyped' /\ DOMAIN pin_left' = DOMAIN pin_left
  <2>1. CASE fault[t].write
    BY <2>1, AppWritesTyped, WrittenTyped
  <2>2. CASE ~fault[t].write
    BY <2>2 DEF CallsInv, MemoryTyped, WorkerTypeOK, CallTyped
  <2> QED
    BY <2>1, <2>2
<1>3. MemoryTyped'
  BY <1>2, SMT DEF CallsInv, MemoryTyped
<1>4. WorkerTypeOK'
  BY <1>2 DEF CallsInv, WorkerTypeOK, mgrVars, evictVars
<1>5. \A u \in Apps : fault'[u] = NoFault \/ fault'[u] = fault[u]
  BY DEF CallsInv, MemoryTyped
<1>6. \A p \in PinnedFirst : NoFault.page # p
  BY BufferAssumption, CallsAssumption DEF NoFault, PinnedFirst
<1>7. PinInv'
  BY <1>2, <1>5, <1>6 DEF CallsInv, PinInv, CallTyped, listVars, pdVars, handlerVars
<1> QED
  BY <1>1, <1>2, <1>3, <1>4, <1>7 DEF CallsInv

-----------------------------------------------------------------------------
(* Threads that process page events *)

LEMMA CallUffdReadInv ==
  ASSUME CallsInv, UffdRead, UNCHANGED callVars
  PROVE  CallsInv'
<1> USE DEF UffdRead
<1>1. /\ HandsTyped' /\ DescriptorTypeOK' /\ WorkerTypeOK' /\ CallTyped'
      /\ UNCHANGED <<pinned, pin_left, regions>>
  BY CallsFrames, EngineFrame DEF handsVars, workerVars, mgrVars, evictVars, fillVars
<1>2. PICK msgs \in SUBSET unread :
        /\ unread' = unread \ msgs
        /\ batch' = [batch EXCEPT ![UffdThread] = OnePerPage({fault[t] : t \in msgs})]
  OBVIOUS
<1>3. \A e \in OnePerPage({fault[t] : t \in msgs}) : e \in Event /\ \E t \in Apps : e = fault[t]
  BY DEF OnePerPage, CallsInv, MemoryTyped
<1>4. UffdThread \in Handlers
  BY DEF Handlers
<1>5. \A h \in Handlers : \A e \in batch'[h] : e \in batch[h] \/ \E t \in Apps : e = fault[t]
  BY <1>2, <1>3, <1>4 DEF CallsInv, ListsTyped
<1>6. ListsTyped'
  BY <1>2, <1>3, <1>4, SMT DEF CallsInv, ListsTyped, listVars
<1>7. MemoryTyped'
  BY <1>2 DEF CallsInv, MemoryTyped
<1>8. ASSUME PinnedApart, NEW p \in PinnedFirst, NEW h \in Handlers, NEW e \in batch'[h]
      PROVE  e.page # p
  <2>1. (\A e2 \in batch[h] : e2.page # p) /\ \A t \in Apps : fault[t].page # p
    BY <1>8 DEF CallsInv, PinInv
  <2> QED
    BY <1>5, <2>1, SMT
<1>9. PinInv'
  BY <1>1, <1>8 DEF CallsInv, PinInv, listVars, pdVars
<1> QED
  BY <1>1, <1>6, <1>7, <1>9 DEF CallsInv

LEMMA CallPrefetchInv ==
  ASSUME CallsInv, NEW h \in Prefetchers, NEW p \in Prefetched, CallPrefetch(h, p)
  PROVE  CallsInv'
<1> USE DEF CallPrefetch, Prefetch
<1>1. /\ HandsTyped' /\ DescriptorTypeOK' /\ WorkerTypeOK' /\ CallTyped' /\ MemoryTyped'
      /\ UNCHANGED <<pinned, pin_left, regions>>
  BY CallsFrames
  DEF handsVars, workerVars, mgrVars, evictVars, fillVars, memoryVars, kernelVars, callTypedVars,
      pinVars
<1>2. [page |-> p, write |-> FALSE] \in Event /\ h \in Handlers
  BY CallsAssumption DEF Event, Handlers
<1>3. \A g \in Handlers : \A e \in batch'[g] : e \in batch[g] \/ e = [page |-> p, write |-> FALSE]
  BY <1>2 DEF CallsInv, ListsTyped
<1>4. ListsTyped'
  BY <1>2, SMT DEF CallsInv, ListsTyped, listVars
<1>5. ASSUME PinnedApart, NEW q \in PinnedFirst, NEW g \in Handlers, NEW e \in batch'[g]
      PROVE  e.page # q
  <2>1. p # q
    BY <1>5 DEF PinnedApart
  <2>2. \A e2 \in batch[g] : e2.page # q
    BY <1>5 DEF CallsInv, PinInv
  <2> QED
    BY <1>3, <2>1, <2>2, SMT
<1>6. PinInv'
  BY <1>1, <1>5 DEF CallsInv, PinInv, listVars, pdVars, kernelVars
<1> QED
  BY <1>1, <1>4, <1>6 DEF CallsInv

\* An event that is done with leaves the batch.
LEMMA EventLeaves ==
  ASSUME ListsTyped, NEW h \in Handlers, NEW e \in batch[h], EventDone(h, e)
  PROVE  /\ e \in Event /\ e.page \in Pages /\ e.write \in BOOLEAN
         /\ pc' \in [Handlers -> {"idle", "event", "wait_state", "wait_avail"}]
         /\ batch' \in [Handlers -> SUBSET Event]
         /\ \A g \in Handlers : batch'[g] \subseteq batch[g]
BY SMT DEF ListsTyped, EventDone, Event

\* Steps of a handler that change no descriptor and no list.
LEMMA HandlerQuietInv ==
  ASSUME CallsInv, UNCHANGED <<kernelVars, listVars, pdVars, workerVars>>,
         UNCHANGED <<regions, call, target, overtaken, call_pd, pinVars>>, UNCHANGED flush_pos,
         pc' \in [Handlers -> {"idle", "event", "wait_state", "wait_avail"}],
         batch' \in [Handlers -> SUBSET Event], \A g \in Handlers : batch'[g] \subseteq batch[g]
  PROVE  CallsInv'
<1>1. /\ HandsTyped' /\ DescriptorTypeOK' /\ WorkerTypeOK' /\ CallTyped' /\ MemoryTyped'
  BY CallsFrames
  DEF handsVars, workerVars, mgrVars, evictVars, fillVars, memoryVars, kernelVars, callTypedVars,
      pinVars
<1>2. ListsTyped'
  BY DEF CallsInv, ListsTyped, listVars
<1>3. PinInv'
  BY DEF CallsInv, PinInv, listVars, pdVars, kernelVars, pinVars
<1> QED
  BY <1>1, <1>2, <1>3 DEF CallsInv

LEMMA LookupInv ==
  ASSUME CallsInv, NEW h \in Handlers, NEW e, FindRegion(h, e) \/ IgnoreEvent(h, e)
  PROVE  CallsInv'
<1>1. CASE FindRegion(h, e)
  <2>1. /\ UNCHANGED <<kernelVars, listVars, pdVars, workerVars, handlerVars>>
        /\ UNCHANGED <<regions, call, target, overtaken, call_pd, pinVars>> /\ UNCHANGED flush_pos
    BY <1>1 DEF FindRegion, vars, workerVars
  <2> QED
    BY <2>1, HandlerQuietInv DEF handlerVars, CallsInv, ListsTyped
<1>2. CASE IgnoreEvent(h, e)
  <2>1. /\ UNCHANGED <<kernelVars, listVars, pdVars, workerVars>> /\ EventDone(h, e)
        /\ UNCHANGED <<regions, call, target, overtaken, call_pd, pinVars>> /\ UNCHANGED flush_pos
        /\ e \in batch[h]
    BY <1>2 DEF IgnoreEvent, workerVars, callVars, FirstEvent
  <2> QED
    BY <2>1, HandlerQuietInv, EventLeaves DEF CallsInv
<1> QED
  BY <1>1, <1>2

LEMMA HandlerWaitsInv ==
  ASSUME CallsInv, NEW h \in Handlers, NEW e \in batch[h],
         WaitForState(h, e) \/ SpuriousEvent(h, e) \/ WaitForDescriptor(h, e),
         UNCHANGED <<regions, call, target, overtaken, call_pd, pinVars>>, UNCHANGED flush_pos
  PROVE  CallsInv'
<1>1. UNCHANGED <<kernelVars, listVars, pdVars, workerVars>>
  BY ZenonT(30) DEF WaitForState, SpuriousEvent, WaitForDescriptor, workerVars
<1>2. CASE WaitForState(h, e) \/ WaitForDescriptor(h, e)
  <2>1. /\ batch' = batch
        /\ \E s \in {"wait_state", "wait_avail"} : pc' = [pc EXCEPT ![h] = s]
    BY <1>2 DEF WaitForState, WaitForDescriptor
  <2>2. /\ pc' \in [Handlers -> {"idle", "event", "wait_state", "wait_avail"}]
        /\ batch' \in [Handlers -> SUBSET Event]
    BY <2>1 DEF CallsInv, ListsTyped
  <2> QED
    BY <1>1, <2>1, <2>2, HandlerQuietInv
<1>3. CASE SpuriousEvent(h, e)
  BY <1>1, <1>3, HandlerQuietInv, EventLeaves DEF SpuriousEvent, CallsInv
<1> QED
  BY <1>2, <1>3

LEMMA KickTyped ==
  ASSUME WorkerTypeOK, NEW n \in Nat, Kick(n)
  PROVE  mgr_work' \in 0..MaxKicks
BY BufferAssumption, SMT DEF WorkerTypeOK, Kick

LEMMA CallUpdatePageInv ==
  ASSUME CallsInv, NEW h \in Handlers, NEW e \in batch[h], UpdatePage(h, e),
         UNCHANGED <<regions, call, target, overtaken, call_pd, pinVars>>, UNCHANGED flush_pos
  PROVE  CallsInv'
<1> USE DEF UpdatePage
<1>1. PICK pd \in PDs : /\ dirty' = [dirty EXCEPT ![pd] = TRUE]
                        /\ state' = [state EXCEPT ![pd] = "UPDATING"]
                        /\ fill_queue' = Append(fill_queue, pd)
  BY DEF set_state_updating
<1>2. HandsTyped' /\ MemoryTyped' /\ CallTyped'
  BY CallsFrames DEF handsVars, mgrVars, evictVars, memoryVars, kernelVars, callTypedVars, pinVars
<1>3. DescriptorTypeOK'
  BY <1>1 DEF CallsInv, DescriptorTypeOK
<1>4. mgr_work' \in 0..MaxKicks
  BY KickTyped, ListLen DEF CallsInv, ListsTyped
<1>5. fill_queue' \in Seq(PDs)
  BY <1>1, ListAppend DEF CallsInv, WorkerTypeOK
<1>6. WorkerTypeOK'
  BY <1>4, <1>5 DEF CallsInv, WorkerTypeOK, mgrVars, evictVars
<1>7. /\ ListsTyped' /\ \A g \in Handlers : batch'[g] \subseteq batch[g]
  BY EventLeaves DEF CallsInv, ListsTyped, listVars
<1>8. PinInv'
  BY <1>7 DEF CallsInv, PinInv, listVars, kernelVars, pinVars
<1> QED
  BY <1>2, <1>3, <1>6, <1>7, <1>8 DEF CallsInv

LEMMA CallBringInInv ==
  ASSUME CallsInv, NEW h \in Handlers, NEW e \in batch[h], BringIn(h, e),
         UNCHANGED <<regions, call, target, overtaken, call_pd, pinVars>>, flush_pos' \in Nat
  PROVE  CallsInv'
<1> DEFINE pd == m_free_pages[Len(m_free_pages)]
<1>1. /\ m_free_pages' = SubSeq(m_free_pages, 1, Len(m_free_pages) - 1)
      /\ m_busy_pages' = <<pd>> \o m_busy_pages
      /\ page' = [page EXCEPT ![pd] = e.page]
      /\ dirty' = [dirty EXCEPT ![pd] = e.write]
      /\ deferred' = [deferred EXCEPT ![pd] = FALSE]
      /\ state' = [state EXCEPT ![pd] = "FILLING"]
      /\ data_present' = [data_present EXCEPT ![pd] = FALSE]
      /\ active_pages' = active_pages \cup {pd}
      /\ m_present_pages' = [m_present_pages EXCEPT ![e.page] = pd]
      /\ fill_queue' = Append(fill_queue, pd)
      /\ m_free_pages # <<>>
      /\ Kick(Len(m_busy_pages) + 1) /\ EventDone(h, e)
      /\ UNCHANGED <<kernelVars, filler_pc, filler_pd, filler_buf, mgrVars, evictVars>>
  BY DEF BringIn, set_state_filling, insert_page_descriptor
<1>2. pd \in PDs /\ m_free_pages' \in Seq(PDs)
  BY <1>1, LastTyped DEF CallsInv, ListsTyped
<1> HIDE DEF pd
<1>3. HandsTyped' /\ MemoryTyped'
  BY <1>1, CallsFrames DEF handsVars, mgrVars, evictVars, memoryVars, kernelVars
<1>4. /\ e \in Event /\ e.page \in Pages /\ e.write \in BOOLEAN
      /\ pc' \in [Handlers -> {"idle", "event", "wait_state", "wait_avail"}]
      /\ batch' \in [Handlers -> SUBSET Event]
      /\ \A g \in Handlers : batch'[g] \subseteq batch[g]
  BY <1>1, EventLeaves DEF CallsInv
<1>5. DescriptorTypeOK'
  BY <1>1, <1>2, <1>4 DEF CallsInv, DescriptorTypeOK
<1>6. m_busy_pages' \in Seq(PDs) /\ fill_queue' \in Seq(PDs) /\ Len(m_busy_pages) + 1 \in Nat
  BY <1>1, <1>2, SMT DEF CallsInv, ListsTyped, WorkerTypeOK
<1>7. ListsTyped'
  BY <1>1, <1>2, <1>4, <1>6 DEF CallsInv, ListsTyped
<1>8. WorkerTypeOK'
  BY <1>1, <1>6, KickTyped DEF CallsInv, WorkerTypeOK, mgrVars, evictVars
<1>9. CallTyped'
  BY DEF CallsInv, CallTyped, pinVars
<1>10. /\ \A d \in PDs : page'[d] = page[d] \/ page'[d] = e.page
       /\ \A p \in Pages : p # e.page => m_present_pages'[p] = m_present_pages[p]
  BY <1>1 DEF CallsInv, DescriptorTypeOK, ListsTyped
<1>11. PinnedApart => \A p \in PinnedFirst : p # e.page /\ p \in Pages
  BY CallsAssumption DEF CallsInv, PinInv, PinnedFirst
<1>12. PinInv'
  BY <1>1, <1>4, <1>10, <1>11 DEF CallsInv, PinInv, kernelVars, pinVars
<1> QED
  BY <1>3, <1>5, <1>7, <1>8, <1>9, <1>12 DEF CallsInv

LEMMA CallPageEventInv ==
  ASSUME CallsInv, NEW h \in Handlers, CallPageEvent(h)
  PROVE  CallsInv'
<1>1. PICK e \in Event :
        \/ FindRegion(h, e)
        \/ IgnoreEvent(h, e)
        \/ ByHandler(h, WaitForState(h, e)) /\ UNCHANGED flush_pos
        \/ ByHandler(h, SpuriousEvent(h, e)) /\ UNCHANGED flush_pos
        \/ ByHandler(h, UpdatePage(h, e)) /\ UNCHANGED flush_pos
        \/ ByHandler(h, WaitForDescriptor(h, e)) /\ UNCHANGED flush_pos
        \/ CallBringIn(h, e)
  BY DEF CallPageEvent
<1>2. CASE FindRegion(h, e) \/ IgnoreEvent(h, e)
  BY <1>2, LookupInv
<1>3. CASE /\ ByHandler(h, WaitForState(h, e)) \/ ByHandler(h, SpuriousEvent(h, e))
              \/ ByHandler(h, WaitForDescriptor(h, e))
           /\ UNCHANGED flush_pos
  <2>1. /\ WaitForState(h, e) \/ SpuriousEvent(h, e) \/ WaitForDescriptor(h, e)
        /\ UNCHANGED <<regions, call, target, overtaken, call_pd, pinVars>>
    BY <1>3 DEF ByHandler
  <2>2. e \in batch[h]
    BY <2>1 DEF WaitForState, SpuriousEvent, WaitForDescriptor, Looking, WantsDescriptor, FirstEvent
  <2> QED
    BY <1>3, <2>1, <2>2, HandlerWaitsInv
<1>4. CASE ByHandler(h, UpdatePage(h, e)) /\ UNCHANGED flush_pos
  <2>1. e \in batch[h]
    BY <1>4 DEF ByHandler, UpdatePage, Looking, FirstEvent
  <2> QED
    BY <1>4, <2>1, CallUpdatePageInv DEF ByHandler
<1>5. CASE CallBringIn(h, e)
  <2>1. e \in batch[h]
    BY <1>5 DEF CallBringIn, ByHandler, BringIn, Looking, WantsDescriptor, FirstEvent
  <2>2. flush_pos' \in Nat
    BY <1>5, SMT DEF CallBringIn, Nowhere, CallsInv, CallTyped
  <2> QED
    BY <1>5, <2>1, <2>2, CallBringInInv DEF CallBringIn, ByHandler
<1> QED
  BY <1>1, <1>2, <1>3, <1>4, <1>5

LEMMA CallSpuriousWakeInv ==
  ASSUME CallsInv, NEW h, SpuriousWake(h), UNCHANGED callVars
  PROVE  CallsInv'
<1>1. /\ UNCHANGED <<kernelVars, listVars, pdVars, handlerVars, fillVars, mgr_work, mgrVars,
                     evictVars>>
      /\ UNCHANGED <<call, call_pd, pinned, pin_left, regions>> /\ CallTyped'
  BY EngineFrame DEF SpuriousWake
<1> QED
  BY <1>1, CallsFrames
  DEF CallsInv, handsVars, memoryVars, bufferVars, workerVars, pinInvVars, kernelVars, listVars,
      pdVars, handlerVars, fillVars, mgrVars, evictVars

-----------------------------------------------------------------------------
(* Fill workers *)

\* A fill worker takes the head of the queue.
LEMMA FillTakesTyped ==
  ASSUME CallsInv, NEW f \in Fillers, fill_queue # <<>>, NEW next \in {"copy", "mark"},
         fill_queue' = Tail(fill_queue), filler_pc' = [filler_pc EXCEPT ![f] = next],
         filler_pd' = [filler_pd EXCEPT ![f] = Head(fill_queue)],
         filler_buf' \in [Fillers -> {"fresh", "stale"}],
         UNCHANGED <<mgr_work, mgrVars, evictVars, call, call_pd>>
  PROVE  HandsTyped' /\ WorkerTypeOK' /\ Head(fill_queue) \in PDs
<1>1. Head(fill_queue) \in PDs /\ fill_queue' \in Seq(PDs)
  BY ListTail DEF CallsInv, WorkerTypeOK
<1>2. WorkerTypeOK'
  BY <1>1 DEF CallsInv, WorkerTypeOK, mgrVars, evictVars
<1>3. HandsTyped'
  BY <1>1 DEF CallsInv, WorkerTypeOK, HandsTyped, mgrVars, evictVars
<1> QED
  BY <1>1, <1>2, <1>3

LEMMA FillGetInv ==
  ASSUME CallsInv, NEW f \in Fillers, FillUnprotect(f) \/ FillRead(f), UNCHANGED callVars
  PROVE  CallsInv'
<1>1. /\ ListsTyped' /\ DescriptorTypeOK' /\ CallTyped'
      /\ UNCHANGED <<listVars, pdVars, handlerVars, fault, mem, store_fresh>>
      /\ UNCHANGED <<call, call_pd, pinned, pin_left, regions>>
      /\ UNCHANGED <<mgr_work, mgrVars, evictVars>>
  BY CallsFrames, EngineFrame DEF FillUnprotect, FillRead, bufferVars, kernelVars
<1>2. CASE FillUnprotect(f)
  <2>1. /\ wp' \subseteq wp /\ blocked' \subseteq blocked
        /\ blocked' = {t \in blocked : fault[t].page # page[Head(fill_queue)]}
        /\ unread' = {t \in unread : fault[t].page # page[Head(fill_queue)]}
    BY <1>2 DEF FillUnprotect, disable_write_protect, WakeThreads
  <2>2. HandsTyped' /\ WorkerTypeOK'
    BY <1>1, <1>2, FillTakesTyped DEF FillUnprotect, CallsInv, WorkerTypeOK
  <2>3. MemoryTyped'
    BY <1>1, <2>1 DEF CallsInv, MemoryTyped
  <2>4. PinInv'
    BY <1>1, <2>1 DEF CallsInv, PinInv, listVars, pdVars, handlerVars
  <2> QED
    BY <1>1, <2>2, <2>3, <2>4 DEF CallsInv
<1>3. CASE FillRead(f)
  <2>1. UNCHANGED kernelVars
    BY <1>3 DEF FillRead
  <2>2. filler_buf' \in [Fillers -> {"fresh", "stale"}]
    BY <1>3 DEF FillRead, read_from_store, CallsInv, WorkerTypeOK
  <2>3. HandsTyped' /\ WorkerTypeOK'
    BY <1>1, <1>3, <2>2, FillTakesTyped DEF FillRead
  <2>4. MemoryTyped' /\ PinInv'
    BY <1>1, <2>1, CallsFrames
    DEF memoryVars, pinInvVars, kernelVars, listVars, pdVars, handlerVars
  <2> QED
    BY <1>1, <2>3, <2>4 DEF CallsInv
<1> QED
  BY <1>2, <1>3

LEMMA CallFillCopyInv ==
  ASSUME CallsInv, NEW f \in Fillers, FillCopy(f), UNCHANGED callVars
  PROVE  CallsInv'
<1> DEFINE q == page[filler_pd[f]]
<1> USE DEF FillCopy
<1>1. ListsTyped' /\ CallTyped' /\ UNCHANGED <<call, call_pd, pinned, pin_left, regions>>
  BY CallsFrames, EngineFrame DEF bufferVars
<1>2. filler_pd[f] \in PDs /\ filler_buf[f] \in {"fresh", "stale"}
  BY DEF CallsInv, HandsTyped, WorkerTypeOK
<1>3. /\ mem' = [mem EXCEPT ![q] = IF mem[q] = "none" THEN filler_buf[f] ELSE mem[q]]
      /\ wp' \subseteq wp \cup {q}
      /\ blocked' = {t \in blocked : fault[t].page # q}
      /\ unread' = {t \in unread : fault[t].page # q}
  BY DEF copy_in_page, copy_in_page_and_write_protect, UffdioCopy, WakeThreads
<1> HIDE DEF q
<1>4. MemoryTyped'
  <2>1. mem' \in [Pages -> {"none", "fresh", "stale"}]
    BY <1>2, <1>3 DEF CallsInv, MemoryTyped
  <2>2. fault' = fault
    OBVIOUS
  <2> QED
    BY <1>3, <2>1, <2>2 DEF CallsInv, MemoryTyped
<1>5. DescriptorTypeOK'
  BY <1>2 DEF CallsInv, DescriptorTypeOK
<1>6. WorkerTypeOK'
  BY DEF CallsInv, WorkerTypeOK, mgrVars, evictVars
<1>7. HandsTyped'
  BY <1>1, <1>2 DEF CallsInv, HandsTyped, WorkerTypeOK, mgrVars, evictVars
<1>8. PinnedApart => \A p \in PinnedFirst : p # q
  BY <1>2 DEF CallsInv, PinInv, q
<1>9. \A p \in Pages : mem'[p] = mem[p] \/ mem'[p] = filler_buf[f]
  BY <1>3 DEF CallsInv, MemoryTyped
<1>10. PinInv'
  BY <1>1, <1>2, <1>3, <1>8, <1>9 DEF CallsInv, CallTyped, PinInv, listVars, handlerVars
<1> QED
  BY <1>1, <1>4, <1>5, <1>6, <1>7, <1>10 DEF CallsInv

LEMMA CallFillMarkPresentInv ==
  ASSUME CallsInv, NEW f \in Fillers, FillMarkPresent(f), UNCHANGED callVars
  PROVE  CallsInv'
<1> USE DEF FillMarkPresent
<1>1. /\ ListsTyped' /\ CallTyped' /\ MemoryTyped' /\ PinInv'
      /\ UNCHANGED <<call, call_pd, pinned, pin_left, regions>>
  BY CallsFrames, EngineFrame
  DEF bufferVars, kernelVars, memoryVars, pinInvVars, listVars, handlerVars
<1>2. filler_pd[f] \in PDs /\ state' = [state EXCEPT ![filler_pd[f]] = "PRESENT"]
  BY DEF CallsInv, HandsTyped, mark_page_as_present, set_state_present
<1>3. DescriptorTypeOK'
  BY <1>2 DEF CallsInv, DescriptorTypeOK
<1>4. WorkerTypeOK'
  BY DEF CallsInv, WorkerTypeOK, mgrVars, evictVars
<1>5. HandsTyped'
  BY <1>1, <1>2 DEF CallsInv, HandsTyped, WorkerTypeOK, mgrVars, evictVars
<1> QED
  BY <1>1, <1>3, <1>4, <1>5 DEF CallsInv

-----------------------------------------------------------------------------
(* The evict manager *)

LEMMA MgrTakesInv ==
  ASSUME CallsInv, MgrGet \/ MgrCheck, UNCHANGED callVars
  PROVE  CallsInv'
<1>1. /\ UNCHANGED <<kernelVars, listVars, pdVars, handlerVars, fillVars, mgr_list, evictVars>>
      /\ UNCHANGED <<call, call_pd, pinned, pin_left, regions>> /\ CallTyped'
  BY EngineFrame DEF MgrGet, MgrCheck
<1>2. MemoryTyped' /\ ListsTyped' /\ DescriptorTypeOK' /\ PinInv'
  BY <1>1, CallsFrames
  DEF memoryVars, bufferVars, pinInvVars, kernelVars, listVars, pdVars, handlerVars
<1>3. mgr_pc' \in {"get", "check", "evict"} /\ mgr_work' \in 0..MaxKicks
  BY BufferAssumption, SMTT(30) DEF MgrGet, MgrCheck, CallsInv, WorkerTypeOK
<1>4. WorkerTypeOK'
  BY <1>1, <1>3 DEF CallsInv, WorkerTypeOK, fillVars, evictVars
<1>5. HandsTyped'
  BY <1>1, <1>3 DEF CallsInv, HandsTyped, fillVars, evictVars
<1> QED
  BY <1>1, <1>2, <1>4, <1>5 DEF CallsInv

LEMMA CallMgrEvictInv ==
  ASSUME CallsInv, Counted, CallMgrEvict
  PROVE  CallsInv'
<1> DEFINE N == 1..Len(m_busy_pages)
           Out(k) == {i \in N : i >= k /\ Evictable(i)}
           Stay(k) == {i \in N : i >= k /\ ~Evictable(i)}
<1>1. /\ UNCHANGED <<kernelVars, m_present_pages, m_free_pages, active_pages, page, dirty, deferred,
                     data_present, handlerVars, fillVars, mgr_work, evictVars>>
      /\ mgr_pc' = IF mgr_list' = <<>> THEN "check" ELSE "send"
      /\ UNCHANGED <<call, target, overtaken, call_pd, pinned, pin_left, regions>>
      /\ flush_pos' \in {flush_pos, Nowhere} /\ evict_oldest_pages
  BY DEF CallMgrEvict, MgrEvict, pinVars
<1>2. MemoryTyped' /\ PinInv'
  BY <1>1, CallsFrames DEF memoryVars, pinInvVars, kernelVars, handlerVars
<1>3. /\ mgr_list' \in Seq(PDs) /\ m_busy_pages' \in Seq(PDs)
      /\ state' \in [PDs -> {"FREE", "FILLING", "PRESENT", "UPDATING", "LEAVING"}]
  <2>1. CASE /\ mgr_list' \in {<<>>, mgr_list} /\ UNCHANGED <<m_busy_pages, state>>
    <3>1. mgr_list \in Seq(PDs) /\ m_busy_pages \in Seq(PDs) /\ <<>> \in Seq(PDs)
      BY SMT DEF CallsInv, ListsTyped, WorkerTypeOK
    <3> QED
      BY <2>1, <3>1 DEF CallsInv, DescriptorTypeOK
  <2>2. ASSUME NEW k \in N, NEW f \in BackToFront(Out(k)), NEW g \in BackToFront(Stay(k)),
               mgr_list' = Picked(f), m_busy_pages' = SubSeq(m_busy_pages, 1, k - 1) \o Picked(g),
               state' = [d \in PDs |-> IF d \in {m_busy_pages[i] : i \in Out(k)}
                                       THEN "LEAVING" ELSE state[d]]
        PROVE  /\ mgr_list' \in Seq(PDs) /\ m_busy_pages' \in Seq(PDs)
               /\ state' \in [PDs -> {"FREE", "FILLING", "PRESENT", "UPDATING", "LEAVING"}]
    <3>1. /\ f \in [1..Cardinality(Out(k)) -> Out(k)] /\ Out(k) \in SUBSET N
          /\ g \in [1..Cardinality(Stay(k)) -> Stay(k)] /\ Stay(k) \in SUBSET N
      BY DEF BackToFront
    <3> HIDE DEF Out, Stay
    <3>2. Picked(f) \in Seq(PDs) /\ Picked(g) \in Seq(PDs)
      BY <3>1, PickedTyped DEF CallsInv, ListsTyped, Counted
    <3>3. m_busy_pages \in Seq(PDs) /\ k \in 1..Len(m_busy_pages) /\ Len(m_busy_pages) \in Nat
      BY ListLen DEF CallsInv, ListsTyped
    <3>4. SubSeq(m_busy_pages, 1, k - 1) \in Seq(PDs)
      BY <3>3, SMT
    <3>5. SubSeq(m_busy_pages, 1, k - 1) \o Picked(g) \in Seq(PDs)
      BY <3>2, <3>4, SMT
    <3>6. state' \in [PDs -> {"FREE", "FILLING", "PRESENT", "UPDATING", "LEAVING"}]
      BY <2>2 DEF CallsInv, DescriptorTypeOK
    <3> QED
      BY <2>2, <3>2, <3>5, <3>6
  <2> QED
    BY <1>1, <2>1, <2>2 DEF evict_oldest_pages
<1>4. ListsTyped' /\ DescriptorTypeOK'
  BY <1>1, <1>3 DEF CallsInv, ListsTyped, DescriptorTypeOK, handlerVars
<1>5. WorkerTypeOK'
  BY <1>1, <1>3 DEF CallsInv, WorkerTypeOK, fillVars, evictVars
<1>6. HandsTyped'
  BY <1>1 DEF CallsInv, HandsTyped, fillVars, evictVars
<1>7. CallTyped'
  <2>1. flush_pos' \in Nat
    BY <1>1, SMT DEF Nowhere, CallsInv, CallTyped
  <2> QED
    BY <1>1, <2>1 DEF CallsInv, CallTyped
<1> QED
  BY <1>2, <1>4, <1>5, <1>6, <1>7 DEF CallsInv

LEMMA CallMgrSendInv ==
  ASSUME CallsInv, MgrSend, UNCHANGED callVars
  PROVE  CallsInv'
<1>1. /\ UNCHANGED <<kernelVars, listVars, pdVars, handlerVars, fillVars, mgr_work, evictor_pc,
                     evictor_work>>
      /\ UNCHANGED <<call, call_pd, pinned, pin_left, regions>> /\ CallTyped'
  BY EngineFrame DEF MgrSend
<1>2. MemoryTyped' /\ ListsTyped' /\ DescriptorTypeOK' /\ PinInv'
  BY <1>1, CallsFrames
  DEF memoryVars, bufferVars, pinInvVars, kernelVars, listVars, pdVars, handlerVars
<1>3. mgr_list \in Seq(PDs) /\ mgr_list # <<>> /\ evict_queue \in Seq(WorkItem)
  BY DEF MgrSend, CallsInv, HandsTyped, WorkerTypeOK
<1>4. Head(mgr_list) \in PDs /\ mgr_list' \in Seq(PDs)
  BY <1>3, ListTail DEF MgrSend
<1>5. EvictItem(Head(mgr_list)) \in WorkItem
  BY <1>4 DEF EvictItem, WorkItem
<1>6. evict_queue' \in Seq(WorkItem)
  BY <1>3, <1>5, ListAppend DEF MgrSend
<1>7. mgr_pc' \in {"check", "send"} /\ (mgr_pc' = "send" => mgr_list' # <<>>)
  <2>1. Len(mgr_list) \in Nat /\ Len(Tail(mgr_list)) = Len(mgr_list) - 1
    BY <1>3, ListTail, ListLen
  <2>2. Len(<<>>) = 0
    BY SMT
  <2>3. ASSUME Tail(mgr_list) = <<>> PROVE Len(mgr_list) = 1
    <3>1. Len(mgr_list) - 1 = 0
      BY <2>1, <2>2, <2>3
    <3> QED
      BY <2>1, <3>1, SMT
  <2> QED
    BY <2>3 DEF MgrSend
<1>8. WorkerTypeOK'
  BY <1>1, <1>4, <1>6, <1>7 DEF CallsInv, WorkerTypeOK, fillVars
<1>9. HandsTyped'
  BY <1>1, <1>7 DEF CallsInv, HandsTyped, fillVars
<1> QED
  BY <1>1, <1>2, <1>8, <1>9 DEF CallsInv

-----------------------------------------------------------------------------
(* Evict workers *)

\* An evict worker v goes on with an item, or is done with it.
LEMMA EvictorGoesTyped ==
  ASSUME CallsInv, NEW v \in Evictors, NEW work \in WorkItem,
         NEW next \in {"get", "write", "madvise", "free"}, EvictorGoes(v, next, work),
         evict_queue' \in Seq(WorkItem), UNCHANGED <<fillVars, mgr_work, mgrVars, call, call_pd>>
  PROVE  HandsTyped' /\ WorkerTypeOK'
<1> USE DEF EvictorGoes
<1>1. WorkerTypeOK'
  BY DEF CallsInv, WorkerTypeOK, fillVars, mgrVars
<1>2. HandsTyped'
  BY DEF CallsInv, HandsTyped, WorkerTypeOK, fillVars, mgrVars
<1> QED
  BY <1>1, <1>2

LEMMA AfterWriteTyped ==
  ASSUME NEW work \in WorkItem
  PROVE  AfterWrite(work) \in {"get", "free", "madvise"}
BY DEF AfterWrite, WorkItem

LEMMA CallEvictGetInv ==
  ASSUME CallsInv, NEW v \in Evictors, EvictGet(v), UNCHANGED callVars
  PROVE  CallsInv'
<1> DEFINE work == Head(evict_queue)
           q == page[work.page_desc]
<1>1. /\ UNCHANGED <<mem, store_fresh, fault, blocked, unread, listVars, pdVars, handlerVars,
                     fillVars, mgr_work, mgrVars>>
      /\ UNCHANGED <<call, call_pd, pinned, pin_left, regions>> /\ CallTyped'
      /\ evict_queue' = Tail(evict_queue) /\ evict_queue # <<>>
      /\ \E next \in {"write", AfterWrite(work)} : EvictorGoes(v, next, work)
      /\ wp' \subseteq wp \cup {q}
  BY EngineFrame DEF EvictGet, enable_write_protect
<1>2. work \in WorkItem /\ evict_queue' \in Seq(WorkItem)
  BY <1>1, ListTail DEF CallsInv, WorkerTypeOK
<1> HIDE DEF work
<1>3. MemoryTyped' /\ ListsTyped' /\ DescriptorTypeOK'
  BY <1>1, CallsFrames DEF memoryVars, bufferVars
<1>4. HandsTyped' /\ WorkerTypeOK'
  BY <1>1, <1>2, EvictorGoesTyped, AfterWriteTyped
<1>5. PinnedApart => \A p \in PinnedFirst : p # q
  BY <1>2 DEF CallsInv, PinInv, WorkItem
<1>6. PinInv'
  BY <1>1, <1>5 DEF CallsInv, PinInv, listVars, pdVars, handlerVars
<1> QED
  BY <1>1, <1>3, <1>4, <1>6 DEF CallsInv

LEMMA CallEvictWriteInv ==
  ASSUME CallsInv, NEW v \in Evictors, EvictWrite(v), UNCHANGED callVars
  PROVE  CallsInv'
<1> DEFINE work == evictor_work[v]
<1>1. /\ UNCHANGED <<mem, wp, fault, blocked, unread, listVars, page, state, deferred,
                     data_present, handlerVars, fillVars, mgr_work, mgrVars, evict_queue>>
      /\ UNCHANGED <<call, call_pd, pinned, pin_left, regions>> /\ CallTyped'
      /\ dirty' = [dirty EXCEPT ![work.page_desc] = FALSE]
      /\ EvictorGoes(v, AfterWrite(work), work)
  BY EngineFrame DEF EvictWrite
<1>2. work \in WorkItem
  BY DEF EvictWrite, CallsInv, HandsTyped
<1> HIDE DEF work
<1>3. MemoryTyped' /\ ListsTyped' /\ PinInv'
  BY <1>1, CallsFrames DEF memoryVars, bufferVars, pinInvVars, listVars, handlerVars
<1>4. DescriptorTypeOK'
  BY <1>1 DEF CallsInv, DescriptorTypeOK
<1>5. HandsTyped' /\ WorkerTypeOK'
  BY <1>1, <1>2, EvictorGoesTyped, AfterWriteTyped DEF CallsInv, WorkerTypeOK
<1> QED
  BY <1>1, <1>3, <1>4, <1>5 DEF CallsInv

LEMMA CallEvictMadviseInv ==
  ASSUME CallsInv, NEW v \in Evictors, EvictMadvise(v), UNCHANGED callVars
  PROVE  CallsInv'
<1> DEFINE work == evictor_work[v]
           q == page[work.page_desc]
<1>1. /\ UNCHANGED <<fault, blocked, unread, listVars, pdVars, handlerVars, fillVars, mgr_work,
                     mgrVars, evict_queue>>
      /\ UNCHANGED <<call, call_pd, pinned, pin_left, regions>> /\ CallTyped'
      /\ mem' = [mem EXCEPT ![q] = "none"] /\ wp' \subseteq wp
      /\ EvictorGoes(v, "free", work)
  BY EngineFrame DEF EvictMadvise
<1>2. work \in WorkItem
  BY DEF EvictMadvise, CallsInv, HandsTyped
<1> HIDE DEF work
<1>3. ListsTyped' /\ DescriptorTypeOK'
  BY <1>1, CallsFrames DEF bufferVars
<1>4. MemoryTyped'
  BY <1>1 DEF CallsInv, MemoryTyped
<1>5. HandsTyped' /\ WorkerTypeOK'
  BY <1>1, <1>2, EvictorGoesTyped DEF CallsInv, WorkerTypeOK
<1>6. PinnedApart => \A p \in PinnedFirst : p # q
  BY <1>2 DEF CallsInv, PinInv, WorkItem
<1>7. \A p \in Pages : p # q => mem'[p] = mem[p]
  BY <1>1 DEF CallsInv, MemoryTyped
<1>8. PinInv'
  BY <1>1, <1>6, <1>7 DEF CallsInv, CallTyped, PinInv, listVars, pdVars, handlerVars
<1> QED
  BY <1>1, <1>3, <1>4, <1>5, <1>8 DEF CallsInv

\* A descriptor that is freed names no page any more.
LEMMA MarkFreeTyped ==
  ASSUME CallsInv, NEW pd \in PDs, mark_page_as_free(pd)
  PROVE  /\ m_present_pages' \in [Pages -> PDs \cup {NoPD}]
         /\ \A p \in Pages : m_present_pages[p] = NoPD => m_present_pages'[p] = NoPD
         /\ m_free_pages' \in Seq(PDs) /\ active_pages' \subseteq PDs
         /\ page' \in [PDs -> Pages \cup {NoPage}]
         /\ \A d \in PDs : page'[d] \in {page[d], NoPage}
         /\ state' \in [PDs -> {"FREE", "FILLING", "PRESENT", "UPDATING", "LEAVING"}]
<1> USE DEF mark_page_as_free
<1>1. /\ m_present_pages' \in [Pages -> PDs \cup {NoPD}]
      /\ \A p \in Pages : m_present_pages[p] = NoPD => m_present_pages'[p] = NoPD
  BY DEF Erased, CallsInv, ListsTyped
<1>2. m_free_pages' \in {m_free_pages, Append(m_free_pages, pd)}
  BY DEF release_page_descriptor
<1>3. m_free_pages' \in Seq(PDs)
  <2>1. m_free_pages \in Seq(PDs)
    BY DEF CallsInv, ListsTyped
  <2>2. Append(m_free_pages, pd) \in Seq(PDs)
    BY <2>1, ListAppend
  <2> QED
    BY <1>2, <2>1, <2>2
<1>4. active_pages' \subseteq PDs
  BY DEF erase_page_descriptor, CallsInv, ListsTyped
<1>5. /\ page' \in [PDs -> Pages \cup {NoPage}] /\ \A d \in PDs : page'[d] \in {page[d], NoPage}
      /\ state' \in [PDs -> {"FREE", "FILLING", "PRESENT", "UPDATING", "LEAVING"}]
  BY DEF set_state_free, CallsInv, DescriptorTypeOK
<1> QED
  BY <1>1, <1>3, <1>4, <1>5

\* Neither is a page that is pinned first.
LEMMA MarkFreePin ==
  ASSUME CallsInv, NEW pd \in PDs, mark_page_as_free(pd),
         UNCHANGED <<pinned, pin_left, wp, batch, fault, regions, mem>>
  PROVE  PinInv'
<1>1. /\ \A p \in Pages : m_present_pages[p] = NoPD => m_present_pages'[p] = NoPD
      /\ \A d \in PDs : page'[d] \in {page[d], NoPage}
  BY MarkFreeTyped
<1>2. \A p \in PinnedFirst : p \in Pages /\ p # NoPage
  BY CallsAssumption, BufferAssumption DEF PinnedFirst
<1>3. ASSUME PinnedApart, NEW p \in PinnedFirst
      PROVE  m_present_pages'[p] = NoPD /\ \A d \in PDs : page'[d] # p
  BY <1>1, <1>2, <1>3, SMT DEF CallsInv, PinInv
<1> QED
  BY <1>3 DEF CallsInv, PinInv

LEMMA CallEvictMarkFreeInv ==
  ASSUME CallsInv, NEW v \in Evictors, EvictMarkFree(v), UNCHANGED callVars
  PROVE  CallsInv'
<1> DEFINE work == evictor_work[v]
<1>1. /\ UNCHANGED <<kernelVars, m_busy_pages, dirty, deferred, data_present, handlerVars,
                     fillVars, mgr_work, mgrVars, evict_queue>>
      /\ UNCHANGED <<call, call_pd, pinned, pin_left, regions>> /\ CallTyped'
      /\ mark_page_as_free(work.page_desc) /\ EvictorGoes(v, "get", NoWork)
  BY EngineFrame DEF EvictMarkFree
<1>2. work \in WorkItem /\ work.page_desc \in PDs
  BY DEF EvictMarkFree, CallsInv, HandsTyped, WorkItem
<1> HIDE DEF work
<1>3. EvictorGoes(v, "get", work)
  BY <1>1 DEF EvictorGoes
<1>4. MemoryTyped' /\ PinInv'
  BY <1>1, <1>2, CallsFrames, MarkFreePin DEF memoryVars, kernelVars, handlerVars
<1>5. ListsTyped' /\ DescriptorTypeOK'
  BY <1>1, <1>2, MarkFreeTyped DEF CallsInv, ListsTyped, DescriptorTypeOK, handlerVars
<1>6. HandsTyped' /\ WorkerTypeOK'
  BY <1>1, <1>2, <1>3, EvictorGoesTyped DEF CallsInv, WorkerTypeOK
<1> QED
  BY <1>1, <1>4, <1>5, <1>6 DEF CallsInv

LEMMA UseDeletedRegionInv ==
  ASSUME CallsInv, UseDeletedRegion
  PROVE  CallsInv'
<1>1. UNCHANGED <<kernelVars, listVars, pdVars, handlerVars, fillVars, mgr_work, mgrVars, evictVars,
                  callVars>>
  BY DEF UseDeletedRegion
<1>2. /\ UNCHANGED <<handsVars, memoryVars, bufferVars, workerVars, callTypedVars>>
      /\ UNCHANGED pinInvVars
  BY <1>1
  DEF handsVars, memoryVars, bufferVars, workerVars, callTypedVars, pinInvVars, kernelVars, listVars,
      pdVars, handlerVars, fillVars, mgrVars, evictVars, callVars, pinVars
<1> QED
  BY <1>1, <1>2, CallsFrames DEF CallsInv

LEMMA EngineStepInv ==
  ASSUME CallsInv, Counted, EngineStep
  PROVE  CallsInv'
<1>1. ASSUME NEW t \in Apps, CallAppStep(t) PROVE CallsInv'
  BY <1>1, CallAppWriteInv, CallAppFaultInv, CallAppRetryInv DEF CallAppStep
<1>2. ASSUME NEW f \in Fillers, CallFillWorker(f) PROVE CallsInv'
  BY <1>2, FillGetInv, CallFillCopyInv, CallFillMarkPresentInv DEF CallFillWorker
<1>3. CASE CallEvictMgr
  BY <1>3, MgrTakesInv, CallMgrEvictInv, CallMgrSendInv DEF CallEvictMgr
<1>4. ASSUME NEW v \in Evictors, CallEvictWorker(v) PROVE CallsInv'
  BY <1>4, CallEvictGetInv, CallEvictWriteInv, CallEvictMadviseInv, CallEvictMarkFreeInv
  DEF CallEvictWorker
<1> QED
  BY <1>1, <1>2, <1>3, <1>4, CallUffdReadInv, CallPrefetchInv, CallPageEventInv,
     CallSpuriousWakeInv, UseDeletedRegionInv
  DEF EngineStep

-----------------------------------------------------------------------------
(* The calls *)

\* What the caller of umap_flush or uunmap may change in Buffer, page and m_present_pages
\* apart.
LEMMA CallerInv ==
  ASSUME CallsInv,
         UNCHANGED <<kernelVars, handlerVars, fillVars, mgr_work, mgrVars, evictor_pc, evictor_work,
                     regions, pinVars>>,
         UNCHANGED <<m_present_pages, page, dirty, data_present>>,
         m_free_pages' \in Seq(PDs), m_busy_pages' \in Seq(PDs), active_pages' \subseteq PDs,
         state' \in [PDs -> {"FREE", "FILLING", "PRESENT", "UPDATING", "LEAVING"}],
         deferred' \in [PDs -> BOOLEAN], evict_queue' \in Seq(WorkItem), target' \in Regions,
         overtaken' \subseteq Pages, flush_pos' \in Nat, call_pd' \in PDs \cup {NoPD},
         call' \in WithDescriptor => call_pd' \in PDs
  PROVE  CallsInv'
<1>1. MemoryTyped' /\ PinInv'
  BY CallsFrames DEF memoryVars, pinInvVars, kernelVars, handlerVars, pinVars
<1>2. ListsTyped' /\ DescriptorTypeOK'
  BY DEF CallsInv, ListsTyped, DescriptorTypeOK, handlerVars
<1>3. WorkerTypeOK'
  BY DEF CallsInv, WorkerTypeOK, fillVars, mgrVars
<1>4. HandsTyped'
  BY DEF CallsInv, HandsTyped, WithDescriptor, fillVars, mgrVars
<1>5. CallTyped'
  BY DEF CallsInv, CallTyped, pinVars
<1> QED
  BY <1>1, <1>2, <1>3, <1>4, <1>5 DEF CallsInv

\* Steps of a call that change nothing of the engine.
LEMMA CallerQuietInv ==
  ASSUME CallsInv, UNCHANGED <<vars, regions, pinVars>>, target' \in Regions,
         overtaken' \subseteq Pages, flush_pos' \in Nat, call_pd' \in PDs \cup {NoPD},
         call' \in WithDescriptor => call_pd' \in PDs
  PROVE  CallsInv'
<1>1. UNCHANGED <<kernelVars, handlerVars, fillVars, mgr_work, mgrVars, evictVars, listVars, pdVars,
                  regions, pinVars>>
  BY DEF vars
<1> QED
  BY <1>1, CallerInv
  DEF CallsInv, ListsTyped, DescriptorTypeOK, WorkerTypeOK, evictVars, listVars, pdVars

LEMMA FlushItemsTyped ==
  ASSUME NEW pds \in Seq(PDs)
  PROVE  FlushItems(pds) \in Seq(WorkItem)
<1>1. Len(pds) \in Nat /\ DOMAIN pds = 1..Len(pds) /\ \A i \in 1..Len(pds) : pds[i] \in PDs
  BY ListLen, ListMember
<1>2. FlushItems(pds) \in [1..Len(pds) -> WorkItem]
  BY <1>1 DEF FlushItems, FlushItem, WorkItem
<1> QED
  BY <1>1, <1>2, FunctionIsSeq

LEMMA FlushDirtyTyped ==
  ASSUME CallsInv, Counted, NEW pds \in Seq(PDs), NEW first \in Nat \ {0},
         NEW stop \in Int, stop <= Len(m_busy_pages) + 1, FlushDirty(pds, first, stop)
  PROVE  evict_queue' \in Seq(WorkItem)
<1> DEFINE I == {i \in first..(stop - 1) : dirty[m_busy_pages[i]]}
<1>1. I \in SUBSET (1..Len(m_busy_pages))
  <2>1. Len(m_busy_pages) \in Nat
    BY ListLen DEF CallsInv, ListsTyped
  <2> QED
    BY <2>1, SMT
<1>2. PICK f \in FrontToBack(I) : evict_queue' = evict_queue \o FlushItems(pds \o Picked(f))
  BY DEF FlushDirty
<1> HIDE DEF I
<1>3. f \in [1..Cardinality(I) -> I]
  BY DEF FrontToBack
<1>4. Picked(f) \in Seq(PDs)
  BY <1>1, <1>3, PickedTyped DEF CallsInv, ListsTyped, Counted
<1>5. pds \o Picked(f) \in Seq(PDs)
  BY <1>4, SMT
<1>6. FlushItems(pds \o Picked(f)) \in Seq(WorkItem) /\ evict_queue \in Seq(WorkItem)
  BY <1>5, FlushItemsTyped DEF CallsInv, WorkerTypeOK
<1> QED
  BY <1>2, <1>6, SMT

LEMMA FlushScanInv ==
  ASSUME CallsInv, Counted, FlushScan
  PROVE  CallsInv'
<1> DEFINE resumed == call = "flush_wait"
           waited == IF resumed THEN <<call_pd>> ELSE <<>>
           first == IF resumed THEN flush_pos + 1 ELSE 1
           last == Len(m_busy_pages)
           waits == {i \in first..last : MustWait(i)}
<1>1. /\ \/ \E stop \in waits :
              /\ FlushDirty(waited, first, stop)
              /\ call' = "flush_wait" /\ call_pd' = m_busy_pages[stop] /\ flush_pos' = stop
         \/ /\ FlushDirty(waited, first, last + 1)
            /\ call' = "flush_idle" /\ UNCHANGED <<call_pd, flush_pos>>
      /\ UNCHANGED <<kernelVars, listVars, pdVars, handlerVars, fillVars, mgr_work, mgrVars,
                     evictor_pc, evictor_work, regions, target, overtaken, pinVars>>
  BY DEF FlushScan
<1>2. flush_pos \in Nat /\ last \in Nat /\ m_busy_pages \in Seq(PDs) /\ call_pd \in PDs \cup {NoPD}
  BY ListLen DEF CallsInv, CallTyped, ListsTyped
<1>3. resumed => call_pd \in PDs
  BY DEF CallsInv, HandsTyped, WithDescriptor
<1>4. waited \in Seq(PDs)
  <2>1. <<>> \in Seq(PDs)
    BY SMT
  <2>2. resumed => <<call_pd>> \in Seq(PDs)
    BY <1>3, SMT
  <2> QED
    BY <2>1, <2>2
<1>5. first \in Nat \ {0}
  BY <1>2, SMT
<1>6. waits \subseteq 1..last
  BY <1>2, <1>5, SMT
<1> HIDE DEF waited, first, waits
<1>7. /\ evict_queue' \in Seq(WorkItem) /\ flush_pos' \in Nat /\ call_pd' \in PDs \cup {NoPD}
      /\ call' \in WithDescriptor => call_pd' \in PDs
  <2>1. ASSUME NEW stop \in waits, FlushDirty(waited, first, stop),
               call_pd' = m_busy_pages[stop], flush_pos' = stop
        PROVE  evict_queue' \in Seq(WorkItem) /\ flush_pos' \in Nat /\ call_pd' \in PDs
    <3>1. stop \in 1..last /\ stop \in Int /\ stop <= last + 1 /\ stop \in Nat
      BY <1>2, <1>6, SMT
    <3>2. m_busy_pages[stop] \in PDs
      BY <1>2, <3>1, ListMember
    <3> QED
      BY <1>4, <1>5, <2>1, <3>1, <3>2, FlushDirtyTyped
  <2>2. ASSUME FlushDirty(waited, first, last + 1), call' = "flush_idle",
               UNCHANGED <<call_pd, flush_pos>>
        PROVE  /\ evict_queue' \in Seq(WorkItem) /\ flush_pos' \in Nat
               /\ call_pd' \in PDs \cup {NoPD} /\ call' \notin WithDescriptor
    <3>1. last + 1 \in Int /\ last + 1 <= last + 1
      BY <1>2, SMT
    <3> QED
      BY <1>2, <1>4, <1>5, <2>2, <3>1, FlushDirtyTyped DEF WithDescriptor
  <2> QED
    BY <1>1, <2>1, <2>2
<1> QED
  BY <1>1, <1>7, CallerInv
  DEF CallsInv, ListsTyped, DescriptorTypeOK, CallTyped, listVars, pdVars

LEMMA FlushStepInv ==
  ASSUME CallsInv, Counted, FlushStep
  PROVE  CallsInv'
<1> USE DEF WithDescriptor
<1>1. CASE flush_buffer
  BY <1>1, CallerQuietInv DEF flush_buffer, CallsInv, CallTyped
<1>2. CASE FlushSleep
  <2>1. /\ UNCHANGED <<kernelVars, handlerVars, fillVars, mgr_work, mgrVars, evictVars, listVars,
                       pdVars>>
        /\ UNCHANGED <<regions, call, target, overtaken, call_pd, flush_pos, pinVars>>
    BY <1>2 DEF FlushSleep, callVars
  <2> QED
    BY <2>1, CallerInv
    DEF CallsInv, ListsTyped, DescriptorTypeOK, WorkerTypeOK, CallTyped, HandsTyped, evictVars,
        listVars, pdVars
<1>3. CASE FlushLost
  <2>1. /\ UNCHANGED <<kernelVars, handlerVars, fillVars, mgr_work, mgrVars, evictor_pc,
                       evictor_work, listVars, pdVars>>
        /\ UNCHANGED <<regions, call, target, overtaken, call_pd, flush_pos, pinVars>>
        /\ evict_queue' = evict_queue \o FlushItems(<<call_pd>>) /\ call = "flush_wait"
    BY <1>3 DEF FlushLost, Waited, callVars
  <2>2. call_pd \in PDs /\ evict_queue \in Seq(WorkItem)
    BY <2>1 DEF CallsInv, HandsTyped, WorkerTypeOK
  <2>3. evict_queue' \in Seq(WorkItem)
    <3>1. <<call_pd>> \in Seq(PDs)
      BY <2>2, SMT
    <3>2. FlushItems(<<call_pd>>) \in Seq(WorkItem)
      BY <3>1, FlushItemsTyped
    <3> QED
      BY <2>1, <2>2, <3>2, SMT
  <2> QED
    BY <2>1, <2>2, <2>3, CallerInv
    DEF CallsInv, ListsTyped, DescriptorTypeOK, CallTyped, listVars, pdVars
<1>4. CASE WaitAll
  <2>1. 0 \in Nat
    BY SMT
  <2> QED
    BY <1>4, <2>1, CallerQuietInv DEF WaitAll, CallsInv, CallTyped
<1> QED
  BY <1>1, <1>2, <1>3, <1>4, FlushScanInv DEF FlushStep

\* The descriptors that evict_region and EvictAll take are descriptors.
LEMMA BackTyped ==
  ASSUME CallsInv
  PROVE  /\ m_busy_pages # <<>> => Back \in PDs
         /\ pop_back => m_busy_pages' \in Seq(PDs)
<1>1. m_busy_pages \in Seq(PDs)
  BY DEF CallsInv, ListsTyped
<1>2. m_busy_pages # <<>> =>
        m_busy_pages[Len(m_busy_pages)] \in PDs
        /\ SubSeq(m_busy_pages, 1, Len(m_busy_pages) - 1) \in Seq(PDs)
  BY <1>1, LastTyped
<1>3. <<>> \in Seq(PDs)
  BY SMT
<1> QED
  BY <1>2, <1>3 DEF Back, pop_back

LEMMA ReleasedTyped ==
  ASSUME CallsInv, NEW pd \in PDs, release_page_descriptor(pd)
  PROVE  m_free_pages' \in Seq(PDs)
<1>1. m_free_pages \in Seq(PDs)
  BY DEF CallsInv, ListsTyped
<1>2. Append(m_free_pages, pd) \in Seq(PDs)
  BY <1>1, ListAppend
<1> QED
  BY <1>2 DEF release_page_descriptor

LEMMA LeavingTyped ==
  ASSUME CallsInv, NEW pd, set_state_leaving(pd)
  PROVE  state' \in [PDs -> {"FREE", "FILLING", "PRESENT", "UPDATING", "LEAVING"}]
BY DEF set_state_leaving, CallsInv, DescriptorTypeOK

LEMMA ScheduledTyped ==
  ASSUME CallsInv, NEW pd \in PDs, NEW w \in {"EVICT", "FAST_EVICT"},
         evict_queue' = Append(evict_queue, [page_desc |-> pd, type |-> w])
  PROVE  evict_queue' \in Seq(WorkItem)
<1>1. evict_queue \in Seq(WorkItem)
  BY DEF CallsInv, WorkerTypeOK
<1>2. [page_desc |-> pd, type |-> w] \in WorkItem
  BY DEF WorkItem
<1> QED
  BY <1>1, <1>2, ListAppend

LEMMA EvictRegionInv ==
  ASSUME CallsInv, RegionNext \/ RegionPresent \/ RegionFree
  PROVE  CallsInv'
<1> USE DEF WithDescriptor
<1>1. /\ m_free_pages \in Seq(PDs) /\ m_busy_pages \in Seq(PDs) /\ active_pages \subseteq PDs
      /\ state \in [PDs -> {"FREE", "FILLING", "PRESENT", "UPDATING", "LEAVING"}]
      /\ deferred \in [PDs -> BOOLEAN] /\ evict_queue \in Seq(WorkItem)
      /\ target \in Regions /\ overtaken \subseteq Pages /\ flush_pos \in Nat
  BY DEF CallsInv, ListsTyped, DescriptorTypeOK, WorkerTypeOK, CallTyped
<1>2. ASSUME NEW pd \in PDs, schedule_eviction(pd) PROVE evict_queue' \in Seq(WorkItem)
  BY <1>2, ScheduledTyped DEF schedule_eviction, EvictItem
<1>3. CASE RegionNext
  <2>1. PICK pd \in PDs :
          /\ erase_page_descriptor(pd) /\ deferred' = Deferred(pd) /\ call_pd' = pd
          /\ \/ set_state_leaving(pd) /\ schedule_eviction(pd)
             \/ UNCHANGED <<state, evict_queue>>
    BY <1>1, <1>3 DEF RegionNext, Mine
  <2>2. /\ UNCHANGED <<m_present_pages, m_free_pages, m_busy_pages, page, dirty, data_present>>
        /\ UNCHANGED restVars
    BY <1>3 DEF RegionNext
  <2>3. /\ active_pages' \subseteq PDs /\ deferred' \in [PDs -> BOOLEAN]
        /\ state' \in [PDs -> {"FREE", "FILLING", "PRESENT", "UPDATING", "LEAVING"}]
        /\ evict_queue' \in Seq(WorkItem)
    BY <1>1, <1>2, <2>1, LeavingTyped DEF erase_page_descriptor, Deferred
  <2> QED
    BY <1>1, <2>1, <2>2, <2>3, CallerInv DEF restVars
<1>4. CASE RegionPresent
  <2>1. call_pd \in PDs /\ call_pd' = call_pd
    BY <1>4 DEF RegionPresent, Awake, CallsInv, HandsTyped
  <2>2. UNCHANGED <<listVars, page, dirty, deferred, data_present, restVars>>
    BY <1>4 DEF RegionPresent
  <2>3. /\ state' \in [PDs -> {"FREE", "FILLING", "PRESENT", "UPDATING", "LEAVING"}]
        /\ evict_queue' \in Seq(WorkItem)
    BY <1>1, <1>2, <1>4, <2>1, LeavingTyped DEF RegionPresent
  <2> QED
    BY <1>1, <2>1, <2>2, <2>3, CallerInv DEF restVars, listVars
<1>5. CASE RegionFree
  <2>1. call_pd \in PDs /\ call_pd' = call_pd
    BY <1>5 DEF RegionFree, Awake, CallsInv, HandsTyped
  <2>2. UNCHANGED <<listVars, pdVars, evict_queue, restVars>>
    BY <1>5 DEF RegionFree
  <2> QED
    BY <1>1, <2>1, <2>2, CallerInv DEF restVars, listVars, pdVars
<1> QED
  BY <1>3, <1>4, <1>5

LEMMA EvictAllInv ==
  ASSUME CallsInv, OldestDeferred \/ OldestNormal
  PROVE  CallsInv'
<1>1. /\ m_free_pages \in Seq(PDs) /\ m_busy_pages \in Seq(PDs) /\ active_pages \subseteq PDs
      /\ state \in [PDs -> {"FREE", "FILLING", "PRESENT", "UPDATING", "LEAVING"}]
      /\ deferred \in [PDs -> BOOLEAN] /\ evict_queue \in Seq(WorkItem)
      /\ target \in Regions /\ overtaken \subseteq Pages /\ flush_pos \in Nat
  BY DEF CallsInv, ListsTyped, DescriptorTypeOK, WorkerTypeOK, CallTyped
<1>2. call_pd' \in PDs
  BY BackTyped DEF OldestDeferred, OldestNormal, Awake, CallsInv, HandsTyped, WithDescriptor
<1>3. CASE OldestDeferred
  <2>1. UNCHANGED <<m_present_pages, active_pages, pdVars, evict_queue, restVars>>
    BY <1>3 DEF OldestDeferred
  <2>2. m_busy_pages' \in Seq(PDs) /\ m_free_pages' \in Seq(PDs)
    BY <1>1, <1>2, <1>3, BackTyped, ReleasedTyped DEF OldestDeferred, ReleaseDeferred
  <2> QED
    BY <1>1, <1>2, <2>1, <2>2, CallerInv DEF restVars, pdVars
<1>4. CASE OldestNormal
  <2>1. UNCHANGED <<m_present_pages, m_free_pages, active_pages, page, dirty, deferred,
                    data_present, evict_queue, restVars>>
    BY <1>4 DEF OldestNormal
  <2>2. /\ m_busy_pages' \in Seq(PDs)
        /\ state' \in [PDs -> {"FREE", "FILLING", "PRESENT", "UPDATING", "LEAVING"}]
    BY <1>1, <1>2, <1>4, BackTyped, LeavingTyped DEF OldestNormal, TakeOldest
  <2> QED
    BY <1>1, <1>2, <2>1, <2>2, CallerInv DEF restVars
<1> QED
  BY <1>3, <1>4

LEMMA EvictTakenInv ==
  ASSUME CallsInv, EvictTaken
  PROVE  CallsInv'
<1>1. call_pd \in PDs
  BY DEF EvictTaken, CallsInv, HandsTyped, WithDescriptor
<1>2. /\ UNCHANGED <<dirty, deferred, data_present, restVars>>
      /\ call' \notin WithDescriptor /\ call_pd' \in PDs \cup {NoPD}
  BY DEF EvictTaken, WithDescriptor
<1>3. CASE dirty[call_pd]
  <2>1. /\ UNCHANGED <<listVars, state, page>>
        /\ evict_queue' = Append(evict_queue, [page_desc |-> call_pd, type |-> "FAST_EVICT"])
    BY <1>3 DEF EvictTaken
  <2>2. evict_queue' \in Seq(WorkItem)
    BY <1>1, <2>1, ScheduledTyped
  <2> QED
    BY <1>2, <2>1, <2>2, CallerInv
    DEF CallsInv, ListsTyped, DescriptorTypeOK, CallTyped, restVars, listVars
<1>4. CASE ~dirty[call_pd]
  <2>1. mark_page_as_free(call_pd) /\ UNCHANGED <<m_busy_pages, evict_queue>>
    BY <1>4 DEF EvictTaken
  <2>2. MemoryTyped' /\ PinInv'
    BY <1>1, <1>2, <2>1, CallsFrames, MarkFreePin
    DEF restVars, kernelVars, memoryVars, handlerVars, pinVars
  <2>3. ListsTyped' /\ DescriptorTypeOK'
    BY <1>1, <1>2, <2>1, MarkFreeTyped DEF CallsInv, ListsTyped, DescriptorTypeOK, restVars, handlerVars
  <2>4. WorkerTypeOK'
    BY <1>2, <2>1 DEF CallsInv, WorkerTypeOK, restVars, fillVars, mgrVars
  <2>5. HandsTyped'
    BY <1>2, <2>1 DEF CallsInv, HandsTyped, restVars, fillVars, mgrVars
  <2>6. CallTyped'
    BY <1>2 DEF CallsInv, CallTyped, restVars, pinVars
  <2> QED
    BY <2>2, <2>3, <2>4, <2>5, <2>6 DEF CallsInv
<1> QED
  BY <1>3, <1>4

LEMMA AddRegionInv ==
  ASSUME CallsInv, NEW r \in Regions, addRegion(r)
  PROVE  CallsInv'
<1> USE DEF addRegion
<1>1. HandsTyped' /\ ListsTyped' /\ DescriptorTypeOK' /\ WorkerTypeOK'
  BY CallsFrames DEF handsVars, bufferVars, workerVars, fillVars, mgrVars, evictVars
<1>2. \A p \in Pages : mem'[p] = IF RegionOf[p] = r THEN "none" ELSE mem[p]
  OBVIOUS
<1>3. MemoryTyped'
  BY DEF CallsInv, MemoryTyped
<1>4. CallTyped'
  BY DEF CallsInv, CallTyped
<1>5. \A p \in pinned' : p \in pinned /\ p \in Pages /\ RegionOf[p] # r
  BY DEF CallsInv, CallTyped
<1>6. PinnedApart => \A p \in pinned' : RegionOf[p] \in regions' => mem'[p] # "none"
  BY <1>2, <1>5 DEF CallsInv, PinInv
<1>7. PinInv'
  BY <1>5, <1>6 DEF CallsInv, PinInv, listVars, pdVars, handlerVars
<1> QED
  BY <1>1, <1>3, <1>4, <1>7 DEF CallsInv

LEMMA UnregisterInv ==
  ASSUME CallsInv, Unregister
  PROVE  CallsInv'
<1>1. UNCHANGED <<vars, target, overtaken, flush_pos, pinVars>>
  BY DEF Unregister
<1>2. MemoryTyped' /\ ListsTyped' /\ DescriptorTypeOK' /\ WorkerTypeOK'
  BY <1>1, CallsFrames DEF memoryVars, bufferVars, workerVars, kernelVars, vars
<1>3. CallTyped'
  BY <1>1 DEF Unregister, CallsInv, CallTyped, pinVars
<1>4. HandsTyped'
  BY <1>1 DEF Unregister, CallsInv, HandsTyped, WithDescriptor, vars, fillVars, mgrVars, evictVars
<1>5. regions' \subseteq regions
  BY DEF Unregister
<1>6. PinInv'
  BY <1>1, <1>5 DEF CallsInv, PinInv, pinVars, vars, kernelVars, listVars, pdVars, handlerVars
<1> QED
  BY <1>2, <1>3, <1>4, <1>6 DEF CallsInv

LEMMA UnmapStepInv ==
  ASSUME CallsInv, UnmapStep
  PROVE  CallsInv'
<1>1. /\ target \in Regions /\ overtaken \subseteq Pages /\ flush_pos \in Nat
      /\ call_pd \in PDs \cup {NoPD}
  BY DEF CallsInv, CallTyped
<1>2. ASSUME NEW r \in Regions, removeRegion(r) PROVE CallsInv'
  BY <1>1, <1>2, CallerQuietInv DEF removeRegion, WithDescriptor
<1>3. CASE RegionDone
  BY <1>1, <1>3, CallerQuietInv DEF RegionDone, WithDescriptor
<1>4. CASE NoneLeft
  BY <1>1, <1>4, CallerQuietInv DEF NoneLeft, WithDescriptor
<1>5. CASE AllIdle
  BY <1>1, <1>5, CallerQuietInv DEF AllIdle, WithDescriptor
<1>6. CASE StopPool
  <2>1. call' \in {"stop_evict", "stop_fill", "stop_uffd", "gone"}
    BY <1>6 DEF StopPool
  <2>2. UNCHANGED <<kernelVars, listVars, pdVars, handlerVars, fillVars, mgr_work, mgrVars,
                    evictVars, regions, target, overtaken, call_pd, flush_pos, pinVars>>
    BY <1>6 DEF StopPool
  <2> QED
    BY <1>1, <2>1, <2>2, CallerInv
    DEF CallsInv, ListsTyped, DescriptorTypeOK, WorkerTypeOK, WithDescriptor, evictVars, listVars,
        pdVars
<1> QED
  BY <1>2, <1>3, <1>4, <1>5, <1>6, AddRegionInv, EvictRegionInv, EvictAllInv, EvictTakenInv,
     UnregisterInv
  DEF UnmapStep

\* A step of umap_fetch_and_pin that copies nothing in.
LEMMA PinQuietInv ==
  ASSUME CallsInv, UNCHANGED <<vars, regions, call, target, overtaken, call_pd, flush_pos, pinned>>,
         DOMAIN pin_left' \subseteq Pages,
         \A p \in DOMAIN pin_left' : pin_left'[p] \in {"unread", "fresh", "stale"},
         PinnedApart => DOMAIN pin_left' \subseteq PinnedFirst
  PROVE  CallsInv'
<1>1. /\ HandsTyped' /\ MemoryTyped' /\ ListsTyped' /\ DescriptorTypeOK' /\ WorkerTypeOK'
  BY CallsFrames
  DEF handsVars, memoryVars, bufferVars, workerVars, kernelVars, vars, fillVars, mgrVars, evictVars
<1>2. CallTyped'
  BY DEF CallsInv, CallTyped
<1>3. PinInv'
  BY DEF CallsInv, PinInv, vars, kernelVars, listVars, pdVars, handlerVars
<1> QED
  BY <1>1, <1>2, <1>3 DEF CallsInv

LEMMA PinCopyInv ==
  ASSUME CallsInv, NEW p \in Pages, PinCopy(p)
  PROVE  CallsInv'
<1> USE DEF PinCopy
<1>1. HandsTyped' /\ ListsTyped' /\ DescriptorTypeOK' /\ WorkerTypeOK'
  BY CallsFrames DEF handsVars, bufferVars, workerVars, fillVars, mgrVars, evictVars
<1>2. /\ mem' = [mem EXCEPT ![p] = IF mem[p] = "none" THEN pin_left[p] ELSE mem[p]]
      /\ wp' \subseteq wp
      /\ blocked' = {t \in blocked : fault[t].page # p}
      /\ unread' = {t \in unread : fault[t].page # p}
  BY DEF copy_in_page, UffdioCopy, WakeThreads
<1>3. pin_left[p] \in {"fresh", "stale"}
  BY DEF CallsInv, CallTyped
<1>4. MemoryTyped'
  <2>1. mem' \in [Pages -> {"none", "fresh", "stale"}]
    BY <1>2, <1>3 DEF CallsInv, MemoryTyped
  <2>2. fault' = fault
    OBVIOUS
  <2> QED
    BY <1>2, <2>1, <2>2 DEF CallsInv, MemoryTyped
<1>5. /\ DOMAIN pin_left' \subseteq DOMAIN pin_left
      /\ \A q \in DOMAIN pin_left' : pin_left'[q] = pin_left[q]
  BY DEF Restrict
<1>6. CallTyped'
  BY <1>5 DEF CallsInv, CallTyped
<1>7. \A q \in Pages : mem'[q] = IF q = p /\ mem[p] = "none" THEN pin_left[p] ELSE mem[q]
  BY <1>2 DEF CallsInv, MemoryTyped
<1>8. PinnedApart => \A q \in pinned' : RegionOf[q] \in regions' => mem'[q] # "none"
  BY <1>3, <1>7 DEF CallsInv, CallTyped, PinInv
<1>9. PinnedApart => pinned' \cup DOMAIN pin_left' \subseteq PinnedFirst
  BY <1>5 DEF CallsInv, PinInv
<1>10. PinInv'
  BY <1>2, <1>8, <1>9 DEF CallsInv, PinInv, listVars, pdVars, handlerVars
<1> QED
  BY <1>1, <1>4, <1>6, <1>10 DEF CallsInv

LEMMA PinStepInv ==
  ASSUME CallsInv, PinStep
  PROVE  CallsInv'
<1>1. /\ DOMAIN pin_left \subseteq Pages
      /\ \A p \in DOMAIN pin_left : pin_left[p] \in {"unread", "fresh", "stale"}
      /\ PinnedApart => DOMAIN pin_left \subseteq PinnedFirst
  BY DEF CallsInv, CallTyped, PinInv
<1>2. ASSUME NEW S \in PinRanges, PinLock(S) PROVE CallsInv'
  <2>1. S \subseteq Pages /\ (PinnedApart => S \subseteq PinnedFirst)
    BY CallsAssumption DEF PinnedApart, PinnedFirst
  <2>2. /\ pin_left' = [p \in S |-> "unread"]
        /\ UNCHANGED <<vars, regions, call, target, overtaken, call_pd, flush_pos, pinned>>
    BY <1>2 DEF PinLock
  <2>3. DOMAIN pin_left' = S /\ \A p \in S : pin_left'[p] = "unread"
    BY <2>2
  <2> QED
    BY <2>1, <2>2, <2>3, PinQuietInv
<1>3. CASE PinLookup \/ PinDone
  BY <1>1, <1>3, PinQuietInv DEF PinLookup, PinDone
<1>4. ASSUME NEW p \in Pages, PinRead(p) PROVE CallsInv'
  <2>1. /\ pin_left' = [pin_left EXCEPT ![p] = read_from_store(p)]
        /\ UNCHANGED <<vars, regions, call, target, overtaken, call_pd, flush_pos, pinned>>
    BY <1>4 DEF PinRead
  <2>2. DOMAIN pin_left' = DOMAIN pin_left
    BY <2>1
  <2>3. read_from_store(p) \in {"fresh", "stale"}
    BY DEF read_from_store
  <2>4. \A q \in DOMAIN pin_left : pin_left'[q] \in {pin_left[q], read_from_store(p)}
    BY <2>1
  <2> QED
    BY <1>1, <2>1, <2>2, <2>3, <2>4, PinQuietInv
<1> QED
  BY <1>2, <1>3, <1>4, PinCopyInv DEF PinStep

LEMMA NextCallsInv ==
  ASSUME CallsInv, Counted, [CallsNext]_allVars
  PROVE  CallsInv'
<1>1. CASE UNCHANGED allVars
  <2>1. UNCHANGED <<vars, regions, call, target, overtaken, call_pd, flush_pos, pinVars>>
    BY <1>1 DEF allVars, callVars
  <2> QED
    BY <2>1, CallerQuietInv DEF CallsInv, CallTyped, HandsTyped
<1> QED
  BY <1>1, EngineStepInv, FlushStepInv, UnmapStepInv, PinStepInv DEF CallsNext, CallStep, Ended

-----------------------------------------------------------------------------
(* What is counted *)

LEMMA PositionsAreCounted == ASSUME ListsTyped PROVE Counted
<1> SUFFICES ASSUME NEW I \in SUBSET (1..Len(m_busy_pages)) PROVE Cardinality(I) \in Nat
  BY DEF Counted
<1>1. IsFiniteSet(1..Len(m_busy_pages))
  BY ListLen, FS_Interval, SMT DEF ListsTyped
<1> QED
  BY <1>1, FS_Subset, FS_CardinalityType

LEMMA HighWaterBound ==
  /\ m_evict_high_water \in Nat /\ m_evict_high_water <= Cardinality(PDs)
  /\ Cardinality(PDs) \in Nat /\ Cardinality(Pages) \in Nat
<1>1. Cardinality(PDs) \in Nat /\ Cardinality(Pages) \in Nat /\ HighPct \in 0..100
  BY BufferAssumption, FS_CardinalityType
<1>2. ASSUME NEW k \in 0..100, NEW n \in Nat
      PROVE  (k * n) \div 100 \in Nat /\ (k * n) \div 100 <= n
  <2>1. PICK m \in Nat : m = k * n /\ m <= 100 * n
    BY SMT
  <2>2. m \div 100 \in Nat /\ m \div 100 <= n
    BY <2>1, SMT
  <2> QED
    BY <2>1, <2>2
<1>3. CASE HighPct \in {0, 100}
  BY <1>1, <1>3, SMT DEF m_evict_high_water, apply_int_percentage
<1>4. CASE HighPct \notin {0, 100}
  <2>1. m_evict_high_water = (HighPct * Cardinality(PDs)) \div 100
    BY <1>4 DEF m_evict_high_water, apply_int_percentage
  <2> QED
    BY <1>1, <1>2, <2>1
<1> QED
  BY <1>1, <1>3, <1>4

\* The busy list has at most one descriptor for each page.
LEMMA BusyBound ==
  ASSUME CallsInv, FlushInv
  PROVE  /\ Len(m_busy_pages) <= Cardinality(Pages)
         /\ \A p \in Pages : m_present_pages[p] = NoPD => Len(m_busy_pages) + 1 <= Cardinality(Pages)
<1> DEFINE n == Len(m_busy_pages)
           f == [i \in 1..n |-> page[m_busy_pages[i]]]
<1>0. /\ n \in Nat /\ Cardinality(Pages) \in Nat /\ IsFiniteSet(Pages)
      /\ DOMAIN m_busy_pages = 1..n /\ IsInjective(m_busy_pages)
      /\ \A i \in 1..n : m_busy_pages[i] \in PDs /\ state[m_busy_pages[i]] # "FREE"
  BY BusyPlaces, BufferAssumption, FS_CardinalityType
<1>1. f \in [1..n -> {page[m_busy_pages[i]] : i \in 1..n}] /\ \A i \in 1..n : f[i] = page[m_busy_pages[i]]
  BY SMT
<1> HIDE DEF n, f
<1>2. ASSUME NEW i \in 1..n
      PROVE  f[i] \in Pages /\ m_present_pages[f[i]] = m_busy_pages[i] /\ m_busy_pages[i] # NoPD
  <2>1. m_busy_pages[i] \in PDs /\ state[m_busy_pages[i]] # "FREE" /\ f[i] = page[m_busy_pages[i]]
    BY <1>0, <1>1
  <2>2. m_busy_pages[i] # NoPD
    BY <2>1, BufferAssumption
  <2> QED
    BY <2>1, <2>2, PageOfDescriptor
<1>3. ASSUME NEW i \in 1..n, NEW j \in 1..n, f[i] = f[j] PROVE i = j
  <2>1. m_busy_pages[i] = m_busy_pages[j]
    BY <1>2, <1>3
  <2> QED
    BY <1>0, <2>1 DEF IsInjective
<1>4. Cardinality(1..n) = n
  <2>1. 1 \in Int /\ n \in Int
    BY <1>0, SMT
  <2>2. Cardinality(1..n) = IF 1 > n THEN 0 ELSE n - 1 + 1
    BY <2>1, FS_Interval
  <2> QED
    BY <1>0, <2>2, SMT
<1>5. ASSUME NEW T \in SUBSET Pages, \A i \in 1..n : f[i] \in T
      PROVE  n <= Cardinality(T)
  <2>1. f \in [1..n -> T]
    BY <1>1, <1>5, SMT
  <2>2. f \in Injection(1..n, T)
    BY <1>3, <2>1 DEF Injection, IsInjective
  <2>3. IsFiniteSet(T)
    BY <1>0, FS_Subset
  <2>4. Cardinality(1..n) <= Cardinality(T)
    BY <2>2, <2>3, FS_Injection
  <2> QED
    BY <1>4, <2>4
<1>6. ASSUME NEW p \in Pages, m_present_pages[p] = NoPD PROVE n + 1 <= Cardinality(Pages)
  <2>1. n <= Cardinality(Pages \ {p})
    BY <1>2, <1>5, <1>6
  <2>2. Cardinality(Pages \ {p}) = Cardinality(Pages) - 1
    BY <1>0, FS_RemoveElement
  <2> QED
    BY <1>0, <2>1, <2>2, SMT
<1> QED
  BY <1>2, <1>5, <1>6 DEF n

\* There is always a free descriptor for a page without one.
LEMMA FlushHasDescriptor ==
  ASSUME FlushOnly, CallsInv, FlushInv
  PROVE  m_free_pages # <<>>
<1> SUFFICES ASSUME m_free_pages = <<>> PROVE FALSE
  OBVIOUS
<1>1. \A d \in PDs : state[d] # "FREE"
  <2>1. Range(m_free_pages) = {}
    BY SMT DEF Range
  <2> QED
    BY <2>1 DEF FlushInv, Owned, FreeOwned, InState
<1>2. page \in [PDs -> Pages]
  BY <1>1, PageOfDescriptor DEF CallsInv, DescriptorTypeOK
<1>3. page \in Injection(PDs, Pages)
  BY <1>1, <1>2, PageOfDescriptor, SMT DEF Injection, IsInjective
<1>4. Cardinality(PDs) <= Cardinality(Pages)
  BY <1>3, FS_Injection, BufferAssumption
<1> QED
  BY <1>4, HighWaterBound, SMT DEF FlushOnly

\* There is room for every page below the high water mark.
LEMMA FlushHasRoom ==
  ASSUME FlushOnly, CallsInv, FlushInv
  PROVE  Room
<1>1. Len(m_busy_pages) \in Nat
  BY BusyPlaces
<1>2. Len(m_busy_pages) # m_evict_high_water
  BY <1>1, BusyBound, HighWaterBound, SMT DEF FlushOnly
<1>3. ASSUME NEW p \in Pages, m_present_pages[p] = NoPD
      PROVE  Len(m_busy_pages) + 1 # m_evict_high_water
  <2>1. Len(m_busy_pages) + 1 <= Cardinality(Pages)
    BY <1>3, BusyBound
  <2> QED
    BY <1>1, <2>1, HighWaterBound, SMT DEF FlushOnly
<1> QED
  BY <1>2, <1>3, FlushHasDescriptor DEF Room

-----------------------------------------------------------------------------
(* The initial states *)

LEMMA ARegion == (CHOOSE r \in Regions : TRUE) \in Regions
BY CallsAssumption

LEMMA InitCallsInv == CallsInit => CallsInv
<1> SUFFICES ASSUME CallsInit PROVE CallsInv
  OBVIOUS
<1> USE BufferAssumption, CallsAssumption DEF CallsInit, Init
<1>1. Cardinality(PDs) \in Nat
  BY FS_CardinalityType
<1>2. m_free_pages \in [1..Cardinality(PDs) -> PDs]
  BY DEF Bijection, Injection
<1>3. m_free_pages \in Seq(PDs)
  BY <1>1, <1>2, FunctionIsSeq
<1>4. HandsTyped /\ MemoryTyped
  BY DEF HandsTyped, MemoryTyped, WithDescriptor
<1>5. ListsTyped /\ DescriptorTypeOK /\ WorkerTypeOK
  BY <1>3, SMTT(30) DEF ListsTyped, DescriptorTypeOK, WorkerTypeOK
<1>6. DOMAIN pin_left = {} /\ 0 \in Nat
  BY SMT
<1>7. CallTyped
  <2>1. (CHOOSE r \in Regions : TRUE) \in Regions
    BY ARegion
  <2> QED
    BY <1>6, <2>1 DEF CallTyped
<1>8. \A p \in PinnedFirst : p \in Pages /\ p # NoPage
  BY DEF PinnedFirst
<1>9. PinInv
  BY <1>6, <1>8 DEF PinInv, NoFault
<1> QED
  BY <1>4, <1>5, <1>7, <1>9 DEF CallsInv

LEMMA EmptyList == Range(<<>>) = {} /\ IsInjective(<<>>) /\ 0 <= Len(<<>>)
BY SMT DEF Range, IsInjective

LEMMA InitFlushInv == CallsInit => FlushInv
<1> SUFFICES ASSUME CallsInit PROVE FlushInv
  OBVIOUS
<1> USE BufferAssumption, CallsAssumption DEF CallsInit, Init
<1>1. /\ m_free_pages \in [1..Cardinality(PDs) -> PDs] /\ IsInjective(m_free_pages)
      /\ \A d \in PDs : \E i \in 1..Cardinality(PDs) : m_free_pages[i] = d
  BY DEF Bijection, Injection, Surjection, IsInjective
<1>2. /\ InState({"FREE"}) = PDs /\ InState({"FILLING", "PRESENT", "UPDATING"}) = {}
      /\ InState({"FILLING", "UPDATING"}) = {}
  BY DEF InState
<1>3. /\ Range(m_busy_pages) = {} /\ Range(fill_queue) = {} /\ Range(evict_queue) = {}
      /\ FillerHas = {} /\ IsInjective(<<>>) /\ DOMAIN pin_left = {}
      /\ 0 <= Len(m_busy_pages) /\ 0 \in 0..MaxCalls
  <2>1. FillerHas = {} /\ DOMAIN pin_left = {}
    BY SMT DEF FillerHas
  <2>2. 0 \in 0..MaxCalls
    BY SMT
  <2> QED
    BY <2>1, <2>2, EmptyList
<1>4. FreeOwned
  BY <1>1, <1>2, SMTT(30) DEF FreeOwned, Range
<1>5. BusyOwned /\ FillOwned
  BY <1>2, <1>3 DEF BusyOwned, FillOwned
<1>6. Quiet /\ SetsTyped
  BY <1>3 DEF Quiet, SetsTyped, Alive
<1>7. OneDescriptorPerPage /\ ItemInv
  BY <1>2, <1>3 DEF OneDescriptorPerPage, ItemInv
<1>8. PagesInv
  BY <1>3 DEF PagesInv, StateInv, FillerInv, CleanInv, AbsentInv, Coherent
<1>9. WalkInv
  BY <1>3 DEF WalkInv, EvictorsIdle
<1> QED
  BY <1>4, <1>5, <1>6, <1>7, <1>8, <1>9 DEF FlushInv, Owned

-----------------------------------------------------------------------------
(* What holds in every behaviour *)

\* Whatever calls are made beside the engine, in any order, what its threads and the calls
\* hand to each other is what the receiver takes it for, and pages pinned first stay
\* outside of the Buffer.
THEOREM CallsInvHolds == CallsSpec => []CallsInv
<1>1. CallsInv /\ [CallsNext]_allVars => CallsInv'
  BY NextCallsInv, PositionsAreCounted DEF CallsInv
<1> QED
  BY <1>1, InitCallsInv, PTL DEF CallsSpec

\* Pages that umap_fetch_and_pin is called for before they are touched, and that
\* umap_prefetch is never called for, stay in memory and writable once copied in, and get
\* no descriptor, as long as their region is mapped: neither the evict workers, nor
\* umap_flush, nor uunmap and umap of other regions, take them out.
THEOREM PinnedStaysPinned == ASSUME PinnedApart PROVE CallsSpec => []PinnedStays
<1>1. CallsInv => PinnedStays
  BY DEF CallsInv, PinInv, PinnedStays
<1> QED
  BY <1>1, CallsInvHolds, PTL

-----------------------------------------------------------------------------
(* umap_flush only *)

\* Nothing happens in a process that has died.
LEMMA DeadStays ==
  ASSUME ~Alive, [CallsNext]_allVars
  PROVE  UNCHANGED allVars
<1>1. ~EngineStep
  <2>1. \A t \in Apps : ~CallAppStep(t)
    BY DEF CallAppStep, CallAppWrite, CallAppFault, CallAppRetry, AppWrite, AppFault, AppRetry
  <2>2. ~UffdRead /\ \A h, p : ~CallPrefetch(h, p)
    BY DEF UffdRead, CallPrefetch, Prefetch
  <2>3. \A h \in Handlers : ~CallPageEvent(h)
    <3>1. \A h, e : ~FindRegion(h, e) /\ ~IgnoreEvent(h, e)
      BY DEF FindRegion, IgnoreEvent
    <3>2. \A h, e : ~WaitForState(h, e) /\ ~SpuriousEvent(h, e) /\ ~UpdatePage(h, e)
      BY DEF WaitForState, SpuriousEvent, UpdatePage
    <3>3. \A h, e : ~WaitForDescriptor(h, e) /\ ~BringIn(h, e)
      BY DEF WaitForDescriptor, BringIn
    <3> QED
      BY <3>1, <3>2, <3>3 DEF CallPageEvent, ByHandler, CallBringIn
  <2>4. ~UseDeletedRegion /\ \A h : ~SpuriousWake(h)
    BY DEF UseDeletedRegion, SpuriousWake
  <2>5. \A f \in Fillers : ~CallFillWorker(f)
    BY DEF CallFillWorker, FillUnprotect, FillRead, FillCopy, FillMarkPresent
  <2>6. ~CallEvictMgr
    BY DEF CallEvictMgr, CallMgrEvict, MgrGet, MgrCheck, MgrEvict, MgrSend
  <2>7. \A v \in Evictors : ~CallEvictWorker(v)
    BY DEF CallEvictWorker, EvictGet, EvictWrite, EvictMadvise, EvictMarkFree
  <2> QED
    BY <2>1, <2>2, <2>3, <2>4, <2>5, <2>6, <2>7 DEF EngineStep
<1>2. ~FlushStep
  BY DEF FlushStep, flush_buffer, FlushScan, FlushLost, FlushSleep, WaitAll
<1>3. ~UnmapStep
  <2>1. \A r : ~removeRegion(r) /\ ~addRegion(r)
    BY DEF removeRegion, addRegion
  <2>2. ~RegionDone /\ ~RegionNext /\ ~RegionPresent /\ ~RegionFree
    BY DEF RegionDone, RegionNext, RegionPresent, RegionFree
  <2>3. ~NoneLeft /\ ~OldestDeferred /\ ~OldestNormal /\ ~EvictTaken
    BY DEF NoneLeft, OldestDeferred, OldestNormal, EvictTaken
  <2>4. ~AllIdle /\ ~Unregister /\ ~StopPool
    BY DEF AllIdle, Unregister, StopPool
  <2> QED
    BY <2>1, <2>2, <2>3, <2>4 DEF UnmapStep
<1>4. ~PinStep
  BY DEF PinStep, PinLock, PinLookup, PinRead, PinCopy, PinDone
<1> QED
  BY <1>1, <1>2, <1>3, <1>4 DEF CallsNext, CallStep, Ended

LEMMA LostStays ==
  ASSUME LostInv, [CallsNext]_allVars
  PROVE  LostInv'
<1>1. UNCHANGED allVars
  BY DeadStays DEF LostInv, Alive
<1>2. UNCHANGED <<aborted, call, flush_pos, pin_pc, mem, wp, store_fresh, must, looked_up, calls,
                  m_free_pages, m_busy_pages, state>>
  BY <1>1 DEF allVars, vars, kernelVars, listVars, pdVars, callVars, pinVars
<1>3. \A S : InState(S)' = InState(S)
  BY <1>2 DEF InState
<1>4. FreeOwned' /\ BusyOwned'
  BY <1>2, <1>3, FreeFrame, BusyFrame DEF LostInv
<1>5. SetsTyped' /\ Coherent'
  BY <1>2 DEF LostInv, SetsTyped, Coherent
<1> QED
  BY <1>2, <1>4, <1>5 DEF LostInv, IteratorLost

\* While umap_flush is the only call and nothing is evicted, the walk of flush_dirty_pages
\* leaves no dirty page behind that it has not sent to the evict workers, until it goes on
\* with an iterator that push_front invalidated.
THEOREM FlushInvHolds ==
  ASSUME FlushOnly PROVE CallsSpec => [](CallsInv /\ (FlushInv \/ LostInv))
<1>1. CallsInit => CallsInv /\ (FlushInv \/ LostInv)
  BY InitCallsInv, InitFlushInv
<1>2. CallsInv /\ (FlushInv \/ LostInv) /\ [CallsNext]_allVars
        => (CallsInv /\ (FlushInv \/ LostInv))'
  <2> SUFFICES ASSUME CallsInv, FlushInv \/ LostInv, [CallsNext]_allVars
               PROVE  CallsInv' /\ (FlushInv' \/ LostInv')
    OBVIOUS
  <2>1. Counted
    BY PositionsAreCounted DEF CallsInv
  <2>2. CallsInv'
    BY <2>1, NextCallsInv
  <2>3. CASE FlushInv
    BY <2>1, <2>2, <2>3, NextFlushInv, FlushHasRoom
  <2>4. CASE LostInv
    BY <2>2, <2>4, LostStays
  <2> QED
    BY <2>3, <2>4
<1> QED
  BY <1>1, <1>2, PTL DEF CallsSpec

\* What was written before umap_flush was called, and not since, is in the Store when the
\* call returns, however faults, prefetches, fills and write-backs interleave with
\* flush_dirty_pages, its waits for pages that are not PRESENT included, where it returns
\* at all: of a call that goes on with an invalidated iterator nothing is claimed.
THEOREM FlushIsDurable == ASSUME FlushOnly PROVE CallsSpec => FlushDurable
<1>1. CallsInv /\ (FlushInv \/ LostInv) /\ [CallsNext]_allVars =>
        [(call \in FlushSteps /\ call' = "idle") => must \subseteq store_fresh]_allVars
  <2> SUFFICES ASSUME CallsInv, FlushInv \/ LostInv, CallsNext, call \in FlushSteps, call' = "idle"
               PROVE  must \subseteq store_fresh
    OBVIOUS
  <2>1. call # "idle" /\ call' # call
    BY DEF FlushSteps
  <2>2. FlushInv
    <3>1. LostInv => UNCHANGED allVars
      BY DeadStays DEF LostInv, Alive
    <3> QED
      BY <2>1, <3>1 DEF allVars, callVars
  <2>3. ~UnmapStep /\ ~PinStep
    BY <2>2, NoOtherCall
  <2>4. ~Ended
    BY <2>1 DEF Ended, allVars, callVars
  <2>5. ~EngineStep
    BY <2>1, EngineKeepsCall
  <2>6. WaitAll
    <3>1. ~flush_buffer
      BY <2>1 DEF flush_buffer
    <3>2. ~FlushSleep /\ ~FlushLost
      BY <2>1 DEF FlushSleep, FlushLost, callVars
    <3>3. ~FlushScan
      BY DEF FlushScan
    <3> QED
      BY <2>3, <2>4, <2>5, <3>1, <3>2, <3>3 DEF CallsNext, CallStep, FlushStep
  <2>7. Sent = {}
    BY <2>6, SMT DEF WaitAll, EvictorsIdle, Sent, EvictQueued, EvictorHas, Range
  <2>8. \A p \in must \ store_fresh : m_present_pages[p] \in Sent
    BY <2>2, <2>6 DEF WaitAll, FlushInv, WalkInv
  <2> QED
    BY <2>7, <2>8
<1> QED
  BY <1>1, FlushInvHolds, PTL DEF CallsSpec, FlushDurable

\* What the application wrote last is in memory, or in the Store when memory does not
\* have the page, while umap_flush writes pages back beside it.
THEOREM FlushKeepsCoherent == ASSUME FlushOnly PROVE CallsSpec => []MappedCoherent
<1>1. FlushInv \/ LostInv => MappedCoherent
  BY DEF FlushInv, LostInv, PagesInv, Coherent, MappedCoherent
<1> QED
  BY <1>1, FlushInvHolds, PTL

\* Beside umap_flush the engine ends the process in no way but one: descriptors change
\* state as set_state_* demand, UFFDIO_COPY never finds its page in memory, and what is left
\* is a flush that goes on with an iterator invalidated by push_front.
THEOREM FlushEndsOnlyLost == ASSUME FlushOnly PROVE CallsSpec => []EndsOnlyLost
<1>1. FlushInv \/ LostInv => EndsOnlyLost
  BY DEF FlushInv, LostInv, Quiet, EndsOnlyLost
<1> QED
  BY <1>1, FlushInvHolds, PTL

\* Each descriptor is free and on the free list, or in use and on the busy list, whatever
\* the flush does, and also where its iterator is lost.
THEOREM FlushKeepsPlaces == ASSUME FlushOnly PROVE CallsSpec => []OnePlace
<1>1. ASSUME CallsInv, FlushInv \/ LostInv PROVE OnePlace
  <2>1. /\ SetsTyped /\ FreeOwned /\ BusyOwned /\ pin_pc = "idle"
        /\ call \in {"idle"} \cup FlushSteps
    BY <1>1 DEF FlushInv, LostInv, Quiet, Owned, IteratorLost, FlushSteps
  <2>2. flush_pos \in 0..(Cardinality(PDs) + 1)
    <3>1. CASE FlushInv
      <4>1. flush_pos \in Nat /\ Len(m_busy_pages) \in Nat /\ flush_pos <= Len(m_busy_pages)
        BY <1>1, <3>1, BusyPlaces DEF CallsInv, CallTyped, FlushInv, WalkInv
      <4> QED
        BY <1>1, <3>1, <4>1, BusyBound, HighWaterBound, SMT DEF FlushOnly
    <3>2. CASE LostInv
      <4>1. flush_pos = 0
        BY <3>2 DEF LostInv, IteratorLost, Nowhere
      <4> QED
        BY <4>1, HighWaterBound, SMT
    <3> QED
      BY <1>1, <3>1, <3>2
  <2>3. \A p \in Range(pin_left) : p \in {"unread", "fresh", "stale"}
    BY <1>1 DEF Range, CallsInv, CallTyped
  <2>4. CallsTypeOK
    BY <1>1, <2>1, <2>2, <2>3
    DEF CallsTypeOK, KernelTypeOK, CallsInv, MemoryTyped, CallTyped, SetsTyped
  <2>5. /\ IsInjective(m_free_pages) /\ IsInjective(m_busy_pages)
        /\ Range(m_free_pages) = InState({"FREE"})
        /\ Range(m_busy_pages) = InState({"FILLING", "PRESENT", "UPDATING"})
    BY <2>1 DEF FreeOwned, BusyOwned
  <2>6. \A d \in PDs : state[d] \in {"FREE", "FILLING", "PRESENT", "UPDATING", "LEAVING"}
    BY <1>1 DEF CallsInv, DescriptorTypeOK
  <2> QED
    BY <2>4, <2>5, <2>6, SMT DEF OnePlace, InState
<1> QED
  BY <1>1, FlushInvHolds, PTL
=============================================================================
