----------------------------- MODULE MC_Outbox -----------------------------
(***************************************************************************)
(* Instances of Outbox for TLC.                                            *)
(***************************************************************************)
EXTENDS Outbox

\* Two events of one station and one of another.
MCGroup == [e \in Events |-> IF e <= 2 THEN "stationA" ELSE "stationB"]
=============================================================================
