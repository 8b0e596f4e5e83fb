-------------------------- MODULE PagingInvariant --------------------------
(***************************************************************************)
(* The inductive invariant of the paging engine, what follows from it, and *)
(* the facts about lists without duplicates that its proof needs.          *)
(*                                                                         *)
(* IInv is about descriptors: OneOwner with the types (each needs the      *)
(* other: a worker only writes to the page of a descriptor it owns) and    *)
(* three facts about the eviction side that OneOwner takes for granted.    *)
(* JInv is about pages and threads: each of its parts is what some step of *)
(* the engine relies on in the state of another thread.                    *)
(***************************************************************************)
EXTENDS Paging, TLAPS

(* Descriptors *)

\* The manager is sending exactly while it has something to send.
MgrHolds == mgr_pc = "send" <=> mgr_list # <<>>

\* A descriptor in use names a page, and none is deferred: no region is unmapped.
PageKnown == \A d \in PDs : ~deferred[d] /\ (state[d] # "FREE" => page[d] \in Pages)

\* All items of the evict workers are EVICT items: nobody flushes or unmaps.
OnlyEvictions ==
  /\ \A w \in Range(evict_queue) : w.type = "EVICT"
  /\ \A v \in Evictors : evictor_pc[v] # "get" => evictor_work[v].type = "EVICT"

IInv == TypeOK /\ OneOwner /\ MgrHolds /\ PageKnown /\ OnlyEvictions

-----------------------------------------------------------------------------
(* Pages and threads *)

\* Without prefetching threads nobody brings a page in behind the back of a handler
\* that waits for a descriptor; with a descriptor for every page nobody waits for one.
NoRace == Prefetchers = {} \/ Cardinality(Pages) <= Cardinality(PDs)

\* A handler between batches has no events; one that sleeps does so in the loop that its
\* pc says, and is counted; one that waits for a descriptor still needs one.
HandlerInv ==
  \A h \in Handlers :
    /\ pc[h] = "idle" => batch[h] = {}
    /\ h \in asleep_state => pc[h] = "wait_state" /\ h \in m_waits_for_state_change
    /\ h \in asleep_avail => pc[h] = "wait_avail" /\ h \in m_waits_for_avail_pd
    /\ pc[h] = "wait_avail" =>
         Prefetchers = {} /\ \E e \in batch[h] : FirstEvent(h, e) /\ m_present_pages[e.page] = NoPD

Resident(d) == mem[page[d]] # "none"

\* What the state of a descriptor that is not leaving says of its page.
BusyInv ==
  \A d \in PDs :
    /\ state[d] \in {"FILLING", "PRESENT", "UPDATING"} => (Resident(d) <=> data_present[d])
    /\ state[d] \in {"PRESENT", "UPDATING"} => data_present[d]
    /\ state[d] = "UPDATING" => dirty[d]
    /\ state[d] = "PRESENT" /\ dirty[d] => page[d] \notin wp
    /\ d \in Range(fill_queue) /\ state[d] = "FILLING" => ~data_present[d]

\* What a fill worker has done so far.
FillerInv ==
  \A f \in Fillers :
    /\ filler_pc[f] = "copy" =>
         /\ state[filler_pd[f]] = "FILLING" /\ ~data_present[filler_pd[f]]
         /\ filler_buf[f] = "fresh"
    /\ filler_pc[f] = "mark" =>
         data_present[filler_pd[f]] /\ (dirty[filler_pd[f]] => page[filler_pd[f]] \notin wp)

\* A page that leaves is in memory until madvise, protected while it is written back.
LeavingInv ==
  /\ \A d \in Range(mgr_list) \cup EvictQueued : Resident(d)
  /\ \A v \in Evictors :
       LET d == evictor_work[v].page_desc
       IN /\ evictor_pc[v] = "write" => Resident(d) /\ dirty[d] /\ page[d] \in wp
          /\ evictor_pc[v] = "madvise" => Resident(d) /\ ~dirty[d]
          /\ evictor_pc[v] = "free" => ~Resident(d)

\* A page in memory that is not marked dirty cannot be written and is the same in the Store.
CleanInv ==
  \A d \in PDs : state[d] # "FREE" /\ Resident(d) /\ ~dirty[d] =>
    page[d] \in wp /\ page[d] \in store_fresh

\* A page without a descriptor is not in memory.
AbsentInv == \A p \in Pages : m_present_pages[p] = NoPD => mem[p] = "none"

\* A thread that sleeps on a page in memory wants to write to it and may not.
BlockedInv ==
  \A t \in blocked : mem[fault[t].page] # "none" => fault[t].write /\ fault[t].page \in wp

\* The application never loses or misses what it wrote, and how the engine sees to that.
MemInv == BusyInv /\ FillerInv /\ LeavingInv /\ CleanInv /\ AbsentInv /\ Coherent

FaultInv == BlockedInv /\ NoForgottenFault

\* The invariant, to go with IInv.
JInv ==
  OneDescriptorPerPage /\ HandlerInv /\ NoMissedBroadcast /\ MemInv /\ FaultInv /\ NoImpossibleState

-----------------------------------------------------------------------------
(* Lists *)

LEMMA FunctionIsSeq ==
  ASSUME NEW S, NEW n \in Nat, NEW f \in [1..n -> S]
  PROVE  f \in Seq(S) /\ Len(f) = n
OBVIOUS

LEMMA ListLen ==
  ASSUME NEW S, NEW s \in Seq(S)
  PROVE  Len(s) \in Nat /\ DOMAIN s = 1..Len(s) /\ s \in [1..Len(s) -> S]
BY SMT

LEMMA ListMember ==
  ASSUME NEW S, NEW s \in Seq(S), NEW i \in 1..Len(s)
  PROVE  s[i] \in S
BY SMT

LEMMA ListEmpty ==
  ASSUME NEW S
  PROVE  <<>> \in Seq(S) /\ Len(<<>>) = 0 /\ \A s \in Seq(S) : s # <<>> => Len(s) \in Nat \ {0}
BY SMT

LEMMA ListAppend ==
  ASSUME NEW S, NEW s \in Seq(S), NEW x \in S
  PROVE  /\ Append(s, x) \in Seq(S) /\ Append(s, x) # <<>> /\ Len(Append(s, x)) = Len(s) + 1
         /\ Append(s, x)[Len(s) + 1] = x /\ \A i \in 1..Len(s) : Append(s, x)[i] = s[i]
BY SMT

LEMMA ListTail ==
  ASSUME NEW S, NEW s \in Seq(S), s # <<>>
  PROVE  /\ Head(s) \in S /\ Tail(s) \in Seq(S) /\ Len(Tail(s)) = Len(s) - 1
         /\ \A i \in 1..Len(Tail(s)) : Tail(s)[i] = s[i + 1]
BY SMT

LEMMA ListFront ==
  ASSUME NEW S, NEW s \in Seq(S), NEW n \in 0..Len(s)
  PROVE  /\ SubSeq(s, 1, n) \in Seq(S) /\ Len(SubSeq(s, 1, n)) = n
         /\ \A i \in 1..n : SubSeq(s, 1, n)[i] = s[i]
BY SMT

LEMMA ListConcat ==
  ASSUME NEW S, NEW s \in Seq(S), NEW t \in Seq(S)
  PROVE  /\ s \o t \in Seq(S) /\ Len(s \o t) = Len(s) + Len(t)
         /\ \A i \in 1..Len(s) + Len(t) : (s \o t)[i] = IF i <= Len(s) THEN s[i] ELSE t[i - Len(s)]
BY SMT

LEMMA LastTyped ==
  ASSUME NEW S, NEW s \in Seq(S), s # <<>>
  PROVE  s[Len(s)] \in S /\ SubSeq(s, 1, Len(s) - 1) \in Seq(S)
<1>1. Len(s) \in Nat \ {0}
  BY ListLen, ListEmpty, SMT
<1>2. Len(s) \in 1..Len(s) /\ 1 \in 1..(Len(s) + 1) /\ Len(s) - 1 \in 0..Len(s)
  BY <1>1, SMT
<1>3. s[Len(s)] \in S
  BY <1>2, ListMember
<1>4. SubSeq(s, 1, Len(s) - 1) \in Seq(S)
  BY <1>1, SMT
<1> QED
  BY <1>3, <1>4

\* Members of the busy list at positions in I, in some order.
LEMMA PickedTyped ==
  ASSUME m_busy_pages \in Seq(PDs), NEW I \in SUBSET (1..Len(m_busy_pages)),
         Cardinality(I) \in Nat, NEW f \in [1..Cardinality(I) -> I]
  PROVE  Picked(f) \in Seq(PDs)
<1>1. Picked(f) \in [1..Cardinality(I) -> PDs]
  BY ListMember, Zenon DEF Picked
<1> QED
  BY <1>1, FunctionIsSeq

-----------------------------------------------------------------------------
(* Lists without duplicates *)

LEMMA AppendFacts ==
  ASSUME NEW S, NEW s \in Seq(S), IsInjective(s), NEW x \in S, x \notin Range(s)
  PROVE  /\ Append(s, x) \in Seq(S) /\ IsInjective(Append(s, x))
         /\ Range(Append(s, x)) = Range(s) \cup {x}
<1>1. /\ Append(s, x) \in Seq(S) /\ Len(Append(s, x)) = Len(s) + 1
      /\ \A i \in 1..Len(s) : Append(s, x)[i] = s[i]
      /\ Append(s, x)[Len(s) + 1] = x /\ Len(s) \in Nat
  BY ListAppend, ListLen
<1>2. DOMAIN s = 1..Len(s) /\ DOMAIN Append(s, x) = 1..(Len(s) + 1)
  BY <1>1, ListLen
<1> QED
  BY <1>1, <1>2 DEF IsInjective, Range

LEMMA TailFacts ==
  ASSUME NEW S, NEW s \in Seq(S), IsInjective(s), s # <<>>
  PROVE  /\ Head(s) \in S /\ Head(s) \in Range(s)
         /\ Tail(s) \in Seq(S) /\ IsInjective(Tail(s))
         /\ Range(Tail(s)) = Range(s) \ {Head(s)}
<1>1. /\ Tail(s) \in Seq(S) /\ Len(Tail(s)) = Len(s) - 1 /\ Len(s) \in Nat \ {0}
      /\ \A i \in 1..Len(Tail(s)) : Tail(s)[i] = s[i + 1]
      /\ Head(s) = s[1]
  BY ListTail, ListLen, ListEmpty
<1>2. DOMAIN s = 1..Len(s) /\ DOMAIN Tail(s) = 1..(Len(s) - 1)
  BY <1>1, ListLen
<1>3. Head(s) \in S /\ Head(s) \in Range(s)
  BY <1>1, <1>2, ListMember DEF Range
<1>4. IsInjective(Tail(s))
  BY <1>1, <1>2 DEF IsInjective
<1>5. Range(Tail(s)) \subseteq Range(s) \ {Head(s)}
  BY <1>1, <1>2 DEF IsInjective, Range
<1>6. ASSUME NEW y \in Range(s) \ {Head(s)} PROVE y \in Range(Tail(s))
  <2>1. PICK i \in 1..Len(s) : y = s[i]
    BY <1>2 DEF Range
  <2>2. i - 1 \in DOMAIN Tail(s) /\ Tail(s)[i - 1] = y
    BY <1>1, <1>2, <2>1
  <2> QED
    BY <2>2, Zenon DEF Range
<1> QED
  BY <1>1, <1>3, <1>4, <1>5, <1>6

\* pop_back.
LEMMA FrontFacts ==
  ASSUME NEW S, NEW s \in Seq(S), IsInjective(s), s # <<>>
  PROVE  /\ s[Len(s)] \in S /\ s[Len(s)] \in Range(s)
         /\ SubSeq(s, 1, Len(s) - 1) \in Seq(S) /\ IsInjective(SubSeq(s, 1, Len(s) - 1))
         /\ Range(SubSeq(s, 1, Len(s) - 1)) = Range(s) \ {s[Len(s)]}
<1> DEFINE t == SubSeq(s, 1, Len(s) - 1)
<1>1. Len(s) \in Nat \ {0} /\ DOMAIN s = 1..Len(s)
  BY ListLen, ListEmpty
<1>2. /\ t \in Seq(S) /\ Len(t) = Len(s) - 1
      /\ \A i \in 1..(Len(s) - 1) : t[i] = s[i]
  BY <1>1, ListFront
<1>3. DOMAIN t = 1..(Len(s) - 1)
  BY <1>2, ListLen
<1>4. s[Len(s)] \in S /\ s[Len(s)] \in Range(s)
  BY <1>1, ListMember DEF Range
<1> HIDE DEF t
<1>5. IsInjective(t) /\ Range(t) = Range(s) \ {s[Len(s)]}
  BY <1>1, <1>2, <1>3 DEF IsInjective, Range
<1> QED
  BY <1>2, <1>4, <1>5 DEF t

\* push_front.
LEMMA ConsFacts ==
  ASSUME NEW S, NEW s \in Seq(S), IsInjective(s), NEW x \in S, x \notin Range(s)
  PROVE  /\ <<x>> \o s \in Seq(S) /\ IsInjective(<<x>> \o s)
         /\ Range(<<x>> \o s) = Range(s) \cup {x}
<1> DEFINE t == <<x>> \o s
<1>1. <<x>> \in Seq(S) /\ Len(<<x>>) = 1 /\ <<x>>[1] = x
  OBVIOUS
<1>2. Len(s) \in Nat /\ DOMAIN s = 1..Len(s)
  BY ListLen
<1>3. /\ t \in Seq(S) /\ Len(t) = Len(s) + 1 /\ t[1] = x
      /\ \A i \in 1..Len(s) : t[i + 1] = s[i]
  BY <1>1, <1>2, ListConcat
<1>4. DOMAIN t = 1..(Len(s) + 1)
  BY <1>3, ListLen
<1> HIDE DEF t
<1>5. \A i \in DOMAIN t : i = 1 \/ (i - 1 \in DOMAIN s /\ t[i] = s[i - 1])
  BY <1>2, <1>3, <1>4
<1>6. IsInjective(t)
  <2> SUFFICES ASSUME NEW i \in DOMAIN t, NEW j \in DOMAIN t, t[i] = t[j] PROVE i = j
    BY DEF IsInjective
  <2>1. \A n \in DOMAIN s : s[n] # x
    BY DEF Range
  <2>2. CASE i = 1 \/ j = 1
    BY <1>3, <1>5, <2>1, <2>2
  <2>3. CASE i # 1 /\ j # 1
    <3>1. i - 1 \in DOMAIN s /\ j - 1 \in DOMAIN s /\ s[i - 1] = s[j - 1]
      BY <1>5, <2>3
    <3>2. i - 1 = j - 1
      BY <3>1 DEF IsInjective
    <3>3. i \in Nat /\ j \in Nat
      BY <1>2, <1>4
    <3> QED
      BY <3>2, <3>3
  <2> QED
    BY <2>2, <2>3
<1>7. Range(t) = Range(s) \cup {x}
  <2>1. Range(t) \subseteq Range(s) \cup {x}
    BY <1>3, <1>5 DEF Range
  <2>2. x \in Range(t)
    BY <1>2, <1>3, <1>4 DEF Range
  <2>3. Range(s) \subseteq Range(t)
    BY <1>2, <1>3, <1>4 DEF Range
  <2> QED
    BY <2>1, <2>2, <2>3
<1> QED
  BY <1>3, <1>6, <1>7 DEF t

-----------------------------------------------------------------------------

\* The members of a list at given positions.
At(s, f) == [i \in DOMAIN f |-> s[f[i]]]
Members(s, I) == {s[i] : i \in I}

\* A list cut before position k, with some of what followed put back.
Cut(s, k, t) == SubSeq(s, 1, k - 1) \o t

LEMMA CutFacts ==
  ASSUME NEW S, NEW s \in Seq(S), IsInjective(s), NEW k \in 1..Len(s),
         NEW J \in SUBSET (k..Len(s)),
         NEW t \in Seq(S), IsInjective(t), Range(t) = Members(s, J)
  PROVE  /\ Cut(s, k, t) \in Seq(S) /\ IsInjective(Cut(s, k, t))
         /\ Range(Cut(s, k, t)) = Members(s, (1..(k - 1)) \cup J)
<1> DEFINE b == SubSeq(s, 1, k - 1)
           u == b \o t
<1>1. Len(s) \in Nat /\ DOMAIN s = 1..Len(s) /\ Len(t) \in Nat /\ DOMAIN t = 1..Len(t)
  BY ListLen
<1>2. b \in Seq(S) /\ Len(b) = k - 1 /\ \A i \in 1..(k - 1) : b[i] = s[i]
  BY <1>1, ListFront
<1>a. k \in Nat /\ k - 1 \in Nat /\ k <= Len(s) /\ 1..(k - 1) \subseteq DOMAIN s
  BY <1>1
<1> HIDE DEF b
<1>b. /\ u \in Seq(S) /\ Len(u) = Len(b) + Len(t)
      /\ \A i \in 1..Len(b) + Len(t) : u[i] = IF i <= Len(b) THEN b[i] ELSE t[i - Len(b)]
  BY <1>2, ListConcat, Zenon
<1> HIDE DEF u
<1>c. \A i \in 1..(k - 1) + Len(t) : u[i] = IF i <= k - 1 THEN b[i] ELSE t[i - (k - 1)]
  BY <1>2, <1>b
<1>3. /\ u \in Seq(S) /\ Len(u) = (k - 1) + Len(t)
      /\ \A i \in 1..(k - 1) : u[i] = b[i]
      /\ \A i \in 1..Len(t) : u[(k - 1) + i] = t[i]
  <2>1. ASSUME NEW i \in 1..Len(t) PROVE u[(k - 1) + i] = t[i]
    <3>1. /\ (k - 1) + i \in 1..(k - 1) + Len(t) /\ ~((k - 1) + i <= k - 1)
          /\ ((k - 1) + i) - (k - 1) = i
      BY <1>1, <1>a
    <3> QED
      BY <1>c, <3>1
  <2>2. \A i \in 1..(k - 1) : i \in 1..(k - 1) + Len(t) /\ i <= k - 1
    BY <1>1, <1>a
  <2> QED
    BY <1>2, <1>b, <1>c, <2>1, <2>2
<1>4. DOMAIN u = 1..((k - 1) + Len(t))
  BY <1>3, ListLen
<1>5. \A i \in DOMAIN u :
        \/ i \in 1..(k - 1) /\ u[i] = s[i]
        \/ i - (k - 1) \in 1..Len(t) /\ u[i] = t[i - (k - 1)]
  <2> SUFFICES ASSUME NEW i \in 1..((k - 1) + Len(t))
               PROVE  \/ i \in 1..(k - 1) /\ u[i] = s[i]
                      \/ i - (k - 1) \in 1..Len(t) /\ u[i] = t[i - (k - 1)]
    BY <1>4
  <2>1. CASE i <= k - 1
    <3>1. i \in 1..(k - 1)
      BY <1>a, <2>1
    <3> QED
      BY <1>2, <1>c, <2>1, <3>1
  <2>2. CASE ~(i <= k - 1)
    <3>1. i - (k - 1) \in 1..Len(t)
      BY <1>1, <1>a, <2>2
    <3> QED
      BY <1>c, <2>2, <3>1
  <2> QED
    BY <2>1, <2>2
<1>6. \A i \in 1..Len(t) : \E j \in J : t[i] = s[j]
  BY <1>1, Zenon DEF Range, Members
<1>7. \A i \in 1..(k - 1), j \in 1..Len(t) : s[i] # t[j]
  <2> SUFFICES ASSUME NEW i \in 1..(k - 1), NEW j \in 1..Len(t), s[i] = t[j] PROVE FALSE
    OBVIOUS
  <2>1. PICK n \in J : t[j] = s[n]
    BY <1>6
  <2>2. n \in k..Len(s)
    OBVIOUS
  <2> QED
    BY <1>1, <2>1, <2>2 DEF IsInjective
<1>8. IsInjective(u)
  <2> SUFFICES ASSUME NEW i \in DOMAIN u, NEW j \in DOMAIN u, u[i] = u[j] PROVE i = j
    BY DEF IsInjective
  <2>1. CASE i \in 1..(k - 1) /\ u[i] = s[i] /\ j \in 1..(k - 1) /\ u[j] = s[j]
    BY <1>a, <2>1, Zenon DEF IsInjective
  <2>2. CASE /\ i - (k - 1) \in 1..Len(t) /\ u[i] = t[i - (k - 1)]
             /\ j - (k - 1) \in 1..Len(t) /\ u[j] = t[j - (k - 1)]
    <3>1. i - (k - 1) = j - (k - 1)
      BY <1>1, <2>2, Zenon DEF IsInjective
    <3> QED
      BY <1>1, <1>4, <3>1
  <2> QED
    BY <1>5, <1>7, <2>1, <2>2
<1>9. Range(u) \subseteq Members(s, (1..(k - 1)) \cup J)
  <2> SUFFICES ASSUME NEW i \in DOMAIN u PROVE \E j \in (1..(k - 1)) \cup J : u[i] = s[j]
    BY DEF Range, Members
  <2> QED
    BY <1>5, <1>6
<1>10. Members(s, (1..(k - 1)) \cup J) \subseteq Range(u)
  <2>1. ASSUME NEW i \in 1..(k - 1) PROVE s[i] \in Range(u)
    <3>1. i \in DOMAIN u /\ u[i] = s[i]
      BY <1>1, <1>2, <1>a, <1>3, <1>4
    <3> QED
      BY <3>1 DEF Range
  <2>2. ASSUME NEW i \in J PROVE s[i] \in Range(u)
    <3>1. PICK j \in 1..Len(t) : t[j] = s[i]
      BY <1>1, Zenon DEF Range, Members
    <3>2. (k - 1) + j \in DOMAIN u /\ u[(k - 1) + j] = s[i]
      BY <1>1, <1>3, <1>4, <3>1
    <3> QED
      BY <3>2 DEF Range
  <2> QED
    BY <2>1, <2>2 DEF Members
<1> QED
  BY <1>3, <1>8, <1>9, <1>10, Zenon DEF Cut, u, b

-----------------------------------------------------------------------------
(* Where a piece of the invariant is out of a step's reach *)

ownerVars == <<m_free_pages, m_busy_pages, state, fill_queue, filler_pc, filler_pd,
               mgr_list, evict_queue, evictor_pc, evictor_work>>

LEMMA FreeFrame ==
  ASSUME FreeOwned, UNCHANGED m_free_pages, InState({"FREE"})' = InState({"FREE"})
  PROVE  FreeOwned'
BY DEF FreeOwned

LEMMA BusyFrame ==
  ASSUME BusyOwned, UNCHANGED m_busy_pages,
         InState({"FILLING", "PRESENT", "UPDATING"})' = InState({"FILLING", "PRESENT", "UPDATING"})
  PROVE  BusyOwned'
BY DEF BusyOwned

LEMMA FillFrame ==
  ASSUME FillOwned, UNCHANGED <<fill_queue, filler_pc, filler_pd>>,
         InState({"FILLING", "UPDATING"})' = InState({"FILLING", "UPDATING"})
  PROVE  FillOwned'
<1>1. FillerHas' = FillerHas
  BY DEF FillerHas
<1> QED
  BY <1>1 DEF FillOwned

LEMMA LeavingFrame ==
  ASSUME LeavingOwned, UNCHANGED <<mgr_list, evict_queue, evictor_pc, evictor_work>>,
         InState({"LEAVING"})' = InState({"LEAVING"})
  PROVE  LeavingOwned'
<1>1. EvictQueued' = EvictQueued /\ EvictorHas' = EvictorHas
  BY DEF EvictQueued, EvictorHas
<1> QED
  BY <1>1 DEF LeavingOwned

\* A step that touches no list, no queue, no worker and no state moves nothing.
LEMMA OwnerFrame ==
  ASSUME OneOwner, UNCHANGED ownerVars
  PROVE  OneOwner'
<1>1. \A S : InState(S)' = InState(S)
  BY DEF InState, ownerVars
<1>2. FreeOwned' /\ BusyOwned' /\ FillOwned' /\ LeavingOwned'
  BY <1>1, FreeFrame, BusyFrame, FillFrame, LeavingFrame DEF OneOwner, ownerVars
<1> QED
  BY <1>2 DEF OneOwner

LEMMA ListsInjective ==
  ASSUME IInv
  PROVE  /\ m_free_pages \in Seq(PDs) /\ IsInjective(m_free_pages)
         /\ m_busy_pages \in Seq(PDs) /\ IsInjective(m_busy_pages)
         /\ fill_queue \in Seq(PDs) /\ IsInjective(fill_queue)
         /\ mgr_list \in Seq(PDs) /\ IsInjective(mgr_list)
         /\ evict_queue \in Seq(WorkItem) /\ IsInjective(evict_queue)
BY DEF IInv, TypeOK, BufferTypeOK, WorkerTypeOK, OneOwner, FreeOwned, BusyOwned, FillOwned,
       LeavingOwned

\* What an item in a worker's hands is.
LEMMA InHand ==
  ASSUME IInv
  PROVE  /\ \A f \in Fillers : filler_pc[f] # "get" =>
              /\ filler_pd[f] \in PDs /\ state[filler_pd[f]] \in {"FILLING", "UPDATING"}
              /\ page[filler_pd[f]] \in Pages
         /\ \A v \in Evictors : evictor_pc[v] # "get" =>
              /\ evictor_work[v].page_desc \in PDs /\ evictor_work[v] \in WorkItem
              /\ state[evictor_work[v].page_desc] = "LEAVING"
              /\ page[evictor_work[v].page_desc] \in Pages
<1>1. \A f \in Fillers : filler_pc[f] # "get" => filler_pd[f] \in InState({"FILLING", "UPDATING"})
  BY DEF IInv, OneOwner, FillOwned, FillerHas
<1>2. \A v \in Evictors : evictor_pc[v] # "get" =>
        evictor_work[v].page_desc \in InState({"LEAVING"})
  BY DEF IInv, OneOwner, LeavingOwned, EvictorHas
<1>3. \A v \in Evictors : evictor_pc[v] # "get" => evictor_work[v] \in WorkItem
  BY DEF IInv, OnlyEvictions, TypeOK, WorkerTypeOK, NoWork
<1> QED
  BY <1>1, <1>2, <1>3 DEF InState, IInv, PageKnown

-----------------------------------------------------------------------------
(* What follows from the invariant *)

\* A page has one descriptor, and a descriptor in use has a page.
LEMMA OnePage ==
  ASSUME IInv, OneDescriptorPerPage
  PROVE  /\ \A d \in PDs : state[d] # "FREE" =>
              d \in active_pages /\ page[d] \in Pages /\ m_present_pages[page[d]] = d
         /\ \A c, d \in PDs : state[c] # "FREE" /\ state[d] # "FREE" /\ page[c] = page[d] => c = d
         /\ \A p \in Pages : m_present_pages[p] # NoPD =>
              /\ m_present_pages[p] \in PDs /\ state[m_present_pages[p]] # "FREE"
              /\ page[m_present_pages[p]] = p
<1>1. \A d \in PDs : d \in active_pages <=> state[d] # "FREE"
  BY DEF OneDescriptorPerPage, InState
<1> QED
  BY <1>1 DEF OneDescriptorPerPage, IInv, TypeOK, BufferTypeOK

\* Where the workers' descriptors are, and that no two workers have the same.
LEMMA Places ==
  ASSUME IInv
  PROVE  /\ \A d \in Range(fill_queue) : d \in PDs /\ state[d] \in {"FILLING", "UPDATING"}
         /\ \A f \in Fillers : filler_pc[f] # "get" =>
              /\ filler_pd[f] \in PDs /\ state[filler_pd[f]] \in {"FILLING", "UPDATING"}
              /\ filler_pd[f] \notin Range(fill_queue)
         /\ \A f, g \in Fillers :
              filler_pc[f] # "get" /\ filler_pc[g] # "get" /\ filler_pd[f] = filler_pd[g] => f = g
         /\ \A d \in Range(mgr_list) \cup EvictQueued : d \in PDs /\ state[d] = "LEAVING"
         /\ \A v \in Evictors : evictor_pc[v] # "get" =>
              /\ evictor_work[v].page_desc \in PDs
              /\ state[evictor_work[v].page_desc] = "LEAVING"
              /\ evictor_work[v].page_desc \notin Range(mgr_list) \cup EvictQueued
         /\ \A u, v \in Evictors :
              /\ evictor_pc[u] # "get" /\ evictor_pc[v] # "get"
              /\ evictor_work[u].page_desc = evictor_work[v].page_desc
              => u = v
<1>1. \A d \in Range(fill_queue) : d \in InState({"FILLING", "UPDATING"})
  BY DEF IInv, OneOwner, FillOwned
<1>2. \A f \in Fillers : filler_pc[f] # "get" => filler_pd[f] \in FillerHas
  BY DEF FillerHas
<1>3. \A d \in Range(mgr_list) \cup EvictQueued : d \in InState({"LEAVING"})
  BY DEF IInv, OneOwner, LeavingOwned
<1>4. \A d \in FillerHas : d \notin Range(fill_queue)
  BY DEF IInv, OneOwner, FillOwned
<1>5. \A f, g \in Fillers :
        filler_pc[f] # "get" /\ filler_pc[g] # "get" /\ filler_pd[f] = filler_pd[g] => f = g
  BY DEF IInv, OneOwner, FillOwned
<1>6. \A u, v \in Evictors :
        /\ evictor_pc[u] # "get" /\ evictor_pc[v] # "get"
        /\ evictor_work[u].page_desc = evictor_work[v].page_desc
        => u = v
  BY DEF IInv, OneOwner, LeavingOwned
<1>7. \A v \in Evictors : evictor_pc[v] # "get" =>
        evictor_work[v].page_desc \notin Range(mgr_list) \cup EvictQueued
  BY DEF IInv, OneOwner, LeavingOwned, EvictorHas
<1> QED
  BY <1>1, <1>2, <1>3, <1>4, <1>5, <1>6, <1>7, InHand DEF InState

\* The events of a handler are of pages, and those that are first are of one page.
LEMMA FirstPage ==
  ASSUME IInv, NEW h \in Handlers, NEW e \in batch[h]
  PROVE  /\ e \in Event /\ e.page \in Pages /\ e.write \in BOOLEAN
         /\ \A e2 \in batch[h] : FirstEvent(h, e) /\ FirstEvent(h, e2) => e2.page = e.page
<1>1. \A e2 \in batch[h] : e2 \in Event /\ e2.page \in Pages /\ e2.write \in BOOLEAN
  BY DEF IInv, TypeOK, BufferTypeOK, Event
<1>2. \A e2 \in batch[h] : e2.page \in Nat
  BY <1>1, BufferAssumption
<1> QED
  BY <1>1, <1>2 DEF FirstEvent

\* A handler that looks for a descriptor, or waits for one, has none for its page.
LEMMA WantedIsAbsent ==
  ASSUME IInv, HandlerInv, NEW h \in Handlers, NEW e \in batch[h], WantsDescriptor(h, e)
  PROVE  m_present_pages[e.page] = NoPD /\ FirstEvent(h, e)
BY FirstPage DEF WantsDescriptor, Looking, HandlerInv
=============================================================================
