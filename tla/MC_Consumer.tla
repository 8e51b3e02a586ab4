---------------------------- MODULE MC_Consumer -----------------------------
(***************************************************************************)
(* Instances of Consumer for TLC: two messages of station A, one of B.     *)
(***************************************************************************)
EXTENDS Consumer

CONSTANTS a1, a2, b1

MCGroup == [id \in Ids |-> IF id = b1 THEN "stationB" ELSE "stationA"]
=============================================================================
