--------------------------- MODULE MC_StationCatalog ---------------------------
(***************************************************************************)
(* The instance of StationCatalog for TLC: one station beside a pinned one *)
(* that leaves one slot, and requests crossing two at a time.              *)
(***************************************************************************)
EXTENDS StationCatalog
=============================================================================
