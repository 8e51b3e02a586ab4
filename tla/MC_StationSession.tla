-------------------------- MODULE MC_StationSession --------------------------
(***************************************************************************)
(* Instance for TLC of a listening session: a ring of 11 samples, windows   *)
(* of two, chunks of four.  A connection of 13 samples wraps the ring       *)
(* and is cut into three or more chunks.                                    *)
(***************************************************************************)
EXTENDS StationSession
=============================================================================
