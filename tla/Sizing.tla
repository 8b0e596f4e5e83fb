------------------------------- MODULE Sizing --------------------------------
(***************************************************************************)
(* How large things are: the settings that RegionManager takes from the    *)
(* environment, the Buffer and the water marks computed from them, and the *)
(* arithmetic of umap_fetch_and_pin, which shrinks the Buffer when memory  *)
(* is short and deals the pages out to threads.  Memory is counted in      *)
(* units of which the system page has system_page_size.  A C++ float is    *)
(* modelled with a mantissa of Mantissa bits.  The build has its asserts,  *)
(* or it was made with NDEBUG: cmake/BuildType.cmake chooses Debug in a    *)
(* git checkout and Release elsewhere.                                     *)
(***************************************************************************)
EXTENDS Integers, FiniteSets

CONSTANTS system_page_size,
          PageSizes, BufSizes,      \* UMAP_PAGESIZE and UMAP_BUFSIZE, 0 for unset
          LowPcts, HighPcts,        \* the water thresholds, 0 for unset
          MemFree,                  \* MemFree of /proc/meminfo
          MemAvailable,             \* MemAvailable beyond mem_margin_kb, at different times
          RegionSize,               \* in umap pages
          PinArgs,                  \* <<offset in the region, size>> of umap_fetch_and_pin
          ManyPages, FetchThreads,  \* more pages than that are fetched by this many threads
          Mantissa

VARIABLES
  total_mem,             \* MemFree, read once
  m_umap_page_size, m_max_pages_in_buffer,
  m_evict_low_water_threshold, m_evict_high_water_threshold,
  m_size, m_evict_low_water, m_evict_high_water,
  busy, free, leaving,   \* numbers of descriptors
  uncounted,             \* those that m_size left out when it was set last
  asserts,               \* the build has its asserts
  pin,                   \* the last umap_fetch_and_pin: offsets, slices, memory
  up,                    \* "no", "settings" or "buffer"
  aborted

settingVars == <<total_mem, m_umap_page_size, m_max_pages_in_buffer, m_evict_low_water_threshold,
                 m_evict_high_water_threshold>>
sizeVars == <<m_size, m_evict_low_water, m_evict_high_water>>
counts == <<busy, free, leaving, uncounted>>
vars == <<settingVars, sizeVars, counts, asserts, pin, up, aborted>>

NoPin == [st |-> 0, end |-> 0, slices |-> {}, mem |-> 0, free |-> 0, size |-> 0]

-----------------------------------------------------------------------------
(* Buffer::apply_int_percentage *)

\* p / q to the nearest integer, a tie to the even one.
Nearest(p, q) ==
  LET n == p \div q
      r == 2 * (p % q)
  IN IF r > q \/ (r = q /\ n % 2 = 1) THEN n + 1 ELSE n

Bits(n) == CHOOSE b \in 1..31 : 2^(b - 1) <= n /\ (b = 31 \/ n < 2^b)

\* A float m / 2^e.
Float(m, e) == [m |-> m, e |-> e]

\* The float nearest to n / 2^e.
Rounded(n, e) ==
  LET s == Bits(n) - Mantissa
  IN IF s <= 0 THEN Float(n, e) ELSE Float(Nearest(n, 2^s), e - s)

\* (float)percentage / (float)100.0
Hundredths(percentage) ==
  LET e == CHOOSE k \in 0..31 : /\ percentage * 2^k >= 100 * 2^(Mantissa - 1)
                                /\ percentage * 2^k < 100 * 2^Mantissa
  IN Float(Nearest(percentage * 2^e, 100), e)

Product(x, y) == Rounded(x.m * y.m, x.e + y.e)

\* The conversion back to an integer cuts off.
Truncated(x) == IF x.e >= 0 THEN x.m \div 2^x.e ELSE x.m * 2^(-x.e)

apply_int_percentage(percentage, item) ==
  IF percentage \in {0, 100} \/ item = 0 THEN item
  ELSE Truncated(Product(Hundredths(percentage), Rounded(item, 0)))

-----------------------------------------------------------------------------
(* The RegionManager constructor, with its setters *)

Init ==
  /\ total_mem = 0
  /\ m_umap_page_size = 0 /\ m_max_pages_in_buffer = 0
  /\ m_evict_low_water_threshold = 0 /\ m_evict_high_water_threshold = 0
  /\ m_size = 0 /\ m_evict_low_water = 0 /\ m_evict_high_water = 0
  /\ busy = 0 /\ free = 0 /\ leaving = 0 /\ uncounted = 0
  /\ asserts \in BOOLEAN
  /\ pin = NoPin /\ up = "no" /\ aborted = FALSE

\* read_env_var takes 0, and what is not a number, as unset.
Setting(env, default) == IF env = 0 THEN default ELSE env

\* 90 percent of the free memory.
get_max_pages_in_memory(mem, psize) == ((mem \div psize) * 90) \div 100

MayHold(n, max) == n <= max

RegionManager(ps, bs, lo, hi, mem) ==
  /\ up = "no" /\ ~aborted
  /\ LET psize == Setting(ps, system_page_size)
         max == get_max_pages_in_memory(mem, psize)
     IN IF psize % system_page_size = 0 /\ MayHold(Setting(bs, max), max)
        THEN /\ total_mem' = mem
             /\ m_umap_page_size' = psize
             /\ m_max_pages_in_buffer' = Setting(bs, max)
             /\ m_evict_high_water_threshold' = Setting(hi, 90)
             /\ m_evict_low_water_threshold' = Setting(lo, 70)
             /\ up' = "settings" /\ UNCHANGED aborted
        ELSE aborted' = TRUE /\ UNCHANGED <<settingVars, up>>
  /\ UNCHANGED <<sizeVars, counts, asserts, pin>>

SetWater ==
  /\ m_evict_low_water' = apply_int_percentage(m_evict_low_water_threshold, m_size')
  /\ m_evict_high_water' = apply_int_percentage(m_evict_high_water_threshold, m_size')

Buffer ==
  /\ up = "settings" /\ ~aborted
  /\ IF m_evict_low_water_threshold > 100 \/ m_evict_high_water_threshold > 100
     THEN aborted' = TRUE /\ UNCHANGED <<sizeVars, free, up>>
     ELSE /\ m_size' = m_max_pages_in_buffer
          /\ free' = m_size'
          /\ SetWater
          /\ up' = "buffer" /\ UNCHANGED aborted
  /\ UNCHANGED <<settingVars, busy, leaving, uncounted, asserts, pin>>

\* A descriptor is taken into use, leaves the busy list, comes back.
Move ==
  /\ up = "buffer" /\ ~aborted
  /\ \/ free > 0 /\ free' = free - 1 /\ busy' = busy + 1 /\ UNCHANGED leaving
     \/ busy > 0 /\ busy' = busy - 1 /\ leaving' = leaving + 1 /\ UNCHANGED free
     \/ leaving > 0 /\ leaving' = leaving - 1 /\ free' = free + 1 /\ UNCHANGED busy
  /\ UNCHANGED <<settingVars, sizeVars, uncounted, asserts, pin, up, aborted>>

-----------------------------------------------------------------------------
(* Buffer::fetch_and_pin *)

Min2(a, b) == IF a < b THEN a ELSE b

\* The end of the region, or of what is asked for.
Capped(st, size) == Min2(st + size, RegionSize * m_umap_page_size)

\* The offsets that FetchFunc fetches between two offsets.
Fetched(st, end) == {o \in st..(end - 1) : (o - st) % m_umap_page_size = 0}

\* What thread i of n fetches.
Slice(st, end, n, i) ==
  LET stride == (((end - st) \div m_umap_page_size) \div n) * m_umap_page_size
  IN Fetched(st + stride * i, IF i = n - 1 THEN end ELSE st + stride * i + stride)

\* Mutant: the memory that is missing is not rounded to whole pages upwards.
ReducedTooLittle(free_page_mem, reduced_mem) ==
  free_page_mem \div m_umap_page_size - reduced_mem \div m_umap_page_size

new_num_free_pages(free_page_mem, reduced_mem) ==
  (free_page_mem - reduced_mem) \div m_umap_page_size

\* The assert of RegionDescriptor::store_offset, for an offset in the region.
InRegion(offset) == asserts => offset < RegionSize * m_umap_page_size

\* Memory is enough, or free descriptors are given up for it, or there are too few of them.
Shrink(size, mem_avail) ==
  LET free_page_mem == m_umap_page_size * free
      reduced_mem == free_page_mem + size - mem_avail
  IN \/ reduced_mem < 0 /\ UNCHANGED <<free, uncounted, sizeVars, aborted>>
     \/ /\ reduced_mem >= 0 /\ reduced_mem < free_page_mem
        /\ free' = new_num_free_pages(free_page_mem, reduced_mem)
        /\ m_size' = busy + free' /\ uncounted' = leaving
        /\ SetWater
        /\ UNCHANGED aborted
     \/ /\ reduced_mem >= 0 /\ reduced_mem >= free_page_mem
        /\ aborted' = TRUE /\ UNCHANGED <<free, uncounted, sizeVars>>

fetch_and_pin(st, size, avail) ==
  /\ up = "buffer" /\ ~aborted
  /\ LET end == Capped(st, size)
         pages == (end - st) \div m_umap_page_size
         n == IF pages > ManyPages THEN FetchThreads ELSE 1
         mem_avail == (avail \div m_umap_page_size) * m_umap_page_size
     IN /\ IF InRegion(st) /\ InRegion(end) THEN Shrink(end - st, mem_avail)
           ELSE aborted' = TRUE /\ UNCHANGED <<free, uncounted, sizeVars>>
        /\ pin' = IF aborted' THEN NoPin
                  ELSE [st |-> st, end |-> end, size |-> end - st, mem |-> mem_avail, free |-> free',
                        slices |-> {<<i, o>> \in (0..(n - 1)) \X (st..(end - 1)) :
                                      o \in Slice(st, end, n, i)}]
  /\ UNCHANGED <<settingVars, busy, leaving, asserts, up>>

Next ==
  \/ \E ps \in PageSizes, bs \in BufSizes, lo \in LowPcts, hi \in HighPcts, mem \in MemFree :
       RegionManager(ps, bs, lo, hi, mem)
  \/ Buffer
  \/ Move
  \/ \E a \in PinArgs, avail \in MemAvailable :
       a[1] < RegionSize * m_umap_page_size /\ fetch_and_pin(a[1], a[2], avail)

Spec == Init /\ [][Next]_vars

-----------------------------------------------------------------------------
\* The low water mark is not above the high one when its percentage is not, and
\* neither is above the size of the Buffer: eviction that starts has something to do,
\* and starts before the Buffer is full.
WaterOrdered ==
  /\ m_evict_low_water_threshold <= m_evict_high_water_threshold =>
       m_evict_low_water <= m_evict_high_water
  /\ m_evict_high_water <= m_size

\* What three roundings, of the percentage, of the size and of their product, may come to.
Slack(item) == IF item < 2^Mantissa THEN 1 ELSE 1 + (3 * item) \div 2^Mantissa

\* Float arithmetic is off by one at most for a size that a float holds exactly, and by the
\* rounding of three numbers above that; and it keeps the order: a larger percentage never
\* gives less, and none gives more than the size, however the size was rounded.
PercentageClose ==
  up = "no" /\ ~aborted => \A item \in 0..(2^(Mantissa + 2) - 1) : \A percentage \in 1..99 :
    LET mark == apply_int_percentage(percentage, item)
        exact == (item * percentage) \div 100
    IN /\ mark - exact \in -Slack(item)..Slack(item)
       /\ mark <= apply_int_percentage(percentage + 1, item)

\* The Buffer, when it is made, fits into 90 percent of the free memory.
BufferFits ==
  100 * m_max_pages_in_buffer * m_umap_page_size <= 90 * total_mem

\* The threads together fetch each page of the range, and none of them twice.
EachPageOnce ==
  \A o \in Fetched(pin.st, pin.end) : Cardinality({s \in pin.slices : s[2] = o}) = 1

\* What is pinned and what the free descriptors may still hold fits into memory.
PinFits == pin.size + m_umap_page_size * pin.free <= pin.mem

\* No descriptor is lost or made by shrinking: there are as many as m_size says, and those
\* that were leaving when it was set last, which it counts neither as busy nor as free.
AllAccounted == up = "buffer" => busy + free + leaving = m_size + uncounted

\* The Buffer and its water marks are as large as memory and percentages allow, and
\* umap_fetch_and_pin brings in what it was asked for, within the memory there is.
SizesSound ==
  WaterOrdered /\ PercentageClose /\ BufferFits /\ EachPageOnce /\ PinFits /\ AllAccounted

\* "get aligned fetch size": what is fetched begins at a page.  Does not hold for an
\* address inside of a page: it is not rounded.
OffsetsAligned == \A s \in pin.slices : s[2] % m_umap_page_size = 0

\* RegionDescriptor::store_offset is given addresses in the region.  Does not hold when the
\* range ends where the region does: a build with asserts ends there, one without goes on.
OffsetsInRegion == ~asserts /\ pin # NoPin => pin.end < RegionSize * m_umap_page_size

\* m_size is the maximum number of pages the Buffer may have.  Does not hold when it is
\* reduced while descriptors are leaving, which are counted neither as busy nor as free.
SizeIsMaximum == busy <= m_size
=============================================================================
