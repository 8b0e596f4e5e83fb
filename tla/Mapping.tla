------------------------------- MODULE Mapping -------------------------------
(***************************************************************************)
(* Where regions lie: umap_ex gets memory from mmap and puts an aligned    *)
(* region into it, RegionManager keeps the map of regions and the iterator *)
(* of the last lookup, and Uffd rounds the address of a fault down to its  *)
(* umap page.  Addresses and sizes are counted in system pages, and a umap *)
(* page is umap_psize of them: the masks of the code keep the bits below a *)
(* system page clear.                                                      *)
(***************************************************************************)
EXTENDS Integers, FiniteSets

CONSTANTS Space,         \* addresses are 0..(Space - 1)
          umap_psize,
          Sizes,         \* region sizes that are asked for
          Hints,         \* addresses that are asked for, 0 for none
          Fixed,         \* may UMAP_FIXED be given?
          AppMaps,       \* may the application map memory by other means?
          MaxRegions     \* bound: regions mapped one after the other

ASSUME MappingAssumption ==
  /\ Space \in Nat \ {0} /\ umap_psize \in Nat \ {0}
  /\ Sizes \subseteq Nat /\ Hints \subseteq Nat /\ MaxRegions \in Nat
  /\ Fixed \in BOOLEAN /\ AppMaps \in BOOLEAN

Addr == 0..(Space - 1)
Nobody == 0
App == -1
NoRegion == [id |-> 0, start |-> 0, size |-> 0]

VARIABLES
  owner,             \* address -> Nobody, App, or the number of the umap_ex that got it from mmap
  g_mutex,           \* umap_ex between its mmap and its addRegion: the region, or NoRegion
  m_active_regions,
  m_last_iter,       \* the region it points to, or NoRegion for end()
  asked, answer,     \* the last containing_region
  made,
  aborted

vars == <<owner, g_mutex, m_active_regions, m_last_iter, asked, answer, made, aborted>>

Region == [id : 1..MaxRegions, start : Addr, size : Sizes]
end(r) == r.start + r.size
Within(r) == r.start..(end(r) - 1)

TypeOK ==
  /\ owner \in [Addr -> {Nobody, App} \cup 1..MaxRegions]
  /\ g_mutex \in Region \cup {NoRegion}
  /\ m_active_regions \subseteq Region
  /\ m_last_iter \in Region \cup {NoRegion}
  /\ asked \in Addr /\ answer \in Region \cup {NoRegion}
  /\ made \in 0..MaxRegions
  /\ aborted \in BOOLEAN

Init ==
  /\ owner = [a \in Addr |-> Nobody]
  /\ g_mutex = NoRegion
  /\ m_active_regions = {} /\ m_last_iter = NoRegion
  /\ asked = 0 /\ answer = NoRegion
  /\ made = 0 /\ aborted = FALSE

-----------------------------------------------------------------------------
(* umap_ex *)

\* x & y is And[x][y].
And[x \in Nat] ==
  [y \in Nat |-> IF x = 0 \/ y = 0 THEN 0 ELSE 2 * And[x \div 2][y \div 2] + (x % 2) * (y % 2)]

Mask(addr) == And[addr][umap_psize - 1]

\* addr & ~(umap_psize - 1)
RoundDown(addr) == addr - Mask(addr)

\* Mutant: the address that mmap returned is used.
AsGiven(addr) == addr

RoundUp(addr) == RoundDown(addr + umap_psize - 1)

mmap_size(region_size) == region_size + umap_psize

\* mmap(2): at the hint, whatever is there, with UMAP_FIXED; else at a place of its choice that
\* is free.
Place(addr, hint, len, fixed) ==
  /\ addr + len <= Space
  /\ IF fixed THEN addr = hint ELSE \A a \in addr..(addr + len - 1) : owner[a] = Nobody

\* Called with the address hint, and given addr by mmap.  UMAP_ERROR for a size or
\* hint that is not of whole pages, for prot and flags that are not supported, and when mmap
\* fails.
umap_ex(hint, addr, region_size, fixed) ==
  /\ ~aborted
  /\ g_mutex = NoRegion /\ made < MaxRegions
  /\ region_size # 0
  /\ \/ aborted' = TRUE /\ UNCHANGED <<owner, g_mutex, made>>
     \/ /\ region_size % umap_psize = 0 /\ Mask(hint) = 0
        /\ Place(addr, hint, mmap_size(region_size), fixed)
        /\ made' = made + 1
        /\ owner' = [a \in Addr |-> IF a \in addr..(addr + mmap_size(region_size) - 1)
                                    THEN made' ELSE owner[a]]
        /\ g_mutex' = [id |-> made', start |-> RoundUp(addr), size |-> region_size]
        /\ UNCHANGED aborted
  /\ UNCHANGED <<m_active_regions, m_last_iter, asked, answer>>

\* m_active_regions is keyed by the start of the region.
addRegion ==
  /\ ~aborted
  /\ g_mutex # NoRegion
  /\ m_active_regions' = {r \in m_active_regions : r.start # g_mutex.start} \cup {g_mutex}
  /\ m_last_iter' = NoRegion
  /\ g_mutex' = NoRegion
  /\ UNCHANGED <<owner, asked, answer, made, aborted>>

\* Mutant: the iterator is left where it was.
KeepLast == m_last_iter

LastAfterErase == NoRegion

\* The memory is not given back.
removeRegion(region) ==
  /\ ~aborted
  /\ \E r \in m_active_regions :
       /\ r.start = region
       /\ m_active_regions' = m_active_regions \ {r}
  /\ m_last_iter' = LastAfterErase
  /\ UNCHANGED <<owner, g_mutex, asked, answer, made, aborted>>

-----------------------------------------------------------------------------
(* containing_region *)

\* --upper_bound(vaddr): the last region that starts at or before vaddr.
NotAfter(vaddr) == {r \in m_active_regions : r.start <= vaddr}
Previous(vaddr) == CHOOSE r \in NotAfter(vaddr) : \A s \in NotAfter(vaddr) : s.start <= r.start

In(vaddr, r) == r # NoRegion /\ vaddr >= r.start /\ vaddr < end(r)

containing_region(vaddr) ==
  /\ ~aborted
  /\ asked' = vaddr
  /\ \/ /\ In(vaddr, m_last_iter)
        /\ answer' = m_last_iter /\ UNCHANGED m_last_iter
     \/ /\ ~In(vaddr, m_last_iter)
        /\ NotAfter(vaddr) # {} /\ In(vaddr, Previous(vaddr))
        /\ answer' = Previous(vaddr) /\ m_last_iter' = Previous(vaddr)
     \/ /\ ~In(vaddr, m_last_iter)
        /\ NotAfter(vaddr) # {} => ~In(vaddr, Previous(vaddr))
        /\ answer' = NoRegion /\ UNCHANGED m_last_iter
  /\ UNCHANGED <<owner, g_mutex, m_active_regions, made, aborted>>

\* The application maps or frees a page by mmap or munmap.
AppMap(a) ==
  /\ ~aborted
  /\ AppMaps
  /\ \/ owner[a] = Nobody /\ owner' = [owner EXCEPT ![a] = App]
     \/ owner[a] = App /\ owner' = [owner EXCEPT ![a] = Nobody]
  /\ UNCHANGED <<g_mutex, m_active_regions, m_last_iter, asked, answer, made, aborted>>

Next ==
  \/ \E h \in Hints, a \in Addr, s \in Sizes, f \in {FALSE, Fixed} : umap_ex(h, a, s, f)
  \/ addRegion
  \/ \E a \in Addr : removeRegion(a) \/ containing_region(a) \/ AppMap(a)
  \/ aborted /\ UNCHANGED vars

Spec == Init /\ [][Next]_vars

-----------------------------------------------------------------------------
\* The page sizes that the masks are meant for, though set_umap_page_size takes any multiple
\* of the system page size: every divisor but 1 is even.
PowerOfTwo(n) == \A d \in 2..n : n % d = 0 => d % 2 = 0

\* A region begins on a umap page and lies in the memory that its own mmap gave.
RegionInItsMemory ==
  \A r \in m_active_regions :
    r.start % umap_psize = 0 /\ \A a \in Within(r) : a \in Addr /\ owner[a] = r.id

\* containing_region returns the region of the address, with the shortcut of the last
\* lookup as without it, whatever was mapped and unmapped in between.
LookupRight ==
  [][\A a \in Addr : containing_region(a) =>
       LET found == {r \in m_active_regions : a \in Within(r)}
       IN answer' \in found \/ (found = {} /\ answer' = NoRegion)]_vars

\* A fault anywhere in a region is rounded down to a page of that region: it begins
\* and ends in it, at a distance from the start that is a whole number of pages.
PageInRegion ==
  \A r \in m_active_regions : \A a \in Within(r) :
    LET p == RoundDown(a)
    IN /\ p >= r.start /\ a \in p..(p + umap_psize - 1) /\ p + umap_psize <= end(r)
       /\ (p - r.start) % umap_psize = 0

\* Regions and the pages of faults in them lie where they belong.
RegionsSound == TypeOK /\ RegionInItsMemory /\ PageInRegion

\* Memory that somebody uses: the application's own, and the regions.  The rest of what
\* umap_ex got for a region is spare.
InUse(a) == owner[a] = App \/ \E r \in m_active_regions : a \in Within(r)

\* umap maps length bytes, as mmap does: memory in use outside of them stays as it is.
\* Does not hold with UMAP_FIXED: a page more than the length is asked for.
OthersKept ==
  [][\A a \in Addr : InUse(a) /\ owner'[a] \notin {Nobody, App, owner[a]} =>
       a \in Within(g_mutex')]_vars
=============================================================================
