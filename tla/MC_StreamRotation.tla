------------------------- MODULE MC_StreamRotation --------------------------
(***************************************************************************)
(* Instances of StreamRotation for TLC.                                    *)
(***************************************************************************)
EXTENDS StreamRotation

MCStationIds == 1 .. 4
=============================================================================
