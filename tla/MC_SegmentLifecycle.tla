------------------------ MODULE MC_SegmentLifecycle -------------------------
(***************************************************************************)
(* Instances of SegmentLifecycle for TLC.                                  *)
(***************************************************************************)
EXTENDS SegmentLifecycle

MCSegments == 1 .. 2
=============================================================================
