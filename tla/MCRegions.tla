----------------------------- MODULE MCRegions -------------------------------
(***************************************************************************)
(* Model-checking instances of Mapping and of Sizing, side by side: in a   *)
(* behaviour either regions are mapped and looked up, or the engine is set *)
(* up and pages are pinned.  The two share no state.                       *)
(***************************************************************************)
EXTENDS Mapping

CONSTANTS system_page_size, PageSizes, BufSizes, LowPcts, HighPcts, MemFree, MemAvailable,
          RegionSize, PinArgs, ManyPages, FetchThreads, Mantissa

VARIABLES part, total_mem, m_umap_page_size, m_max_pages_in_buffer, m_evict_low_water_threshold,
          m_evict_high_water_threshold, m_size, m_evict_low_water, m_evict_high_water, busy, free,
          leaving, uncounted, asserts, pin, up, died

Sz == INSTANCE Sizing WITH aborted <- died

sizingVars == <<total_mem, m_umap_page_size, m_max_pages_in_buffer, m_evict_low_water_threshold,
                m_evict_high_water_threshold, m_size, m_evict_low_water, m_evict_high_water, busy,
                free, leaving, uncounted, asserts, pin, up, died>>
allVars == <<part, vars, sizingVars>>

\* Ranges for umap_fetch_and_pin: at a page, and up to the end of the region.
AlignedPins == {<<0, 6>>, <<4, 12>>, <<0, 100>>}

\* Whether asserts are compiled in makes no difference to addresses.
RegionsInit ==
  /\ part \in {"mapping", "sizing"} /\ Init /\ Sz!Init
  /\ part = "mapping" => ~asserts

RegionsNext ==
  \/ part = "mapping" /\ Next /\ UNCHANGED <<part, sizingVars>>
  \/ part = "sizing" /\ Sz!Next /\ UNCHANGED <<part, vars>>

RegionsSpec == RegionsInit /\ [][RegionsNext]_allVars

-----------------------------------------------------------------------------
\* The Buffer, its water marks and what is pinned.
SizesSound == part = "sizing" => Sz!SizesSound
=============================================================================
