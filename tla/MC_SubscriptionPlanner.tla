----------------------- MODULE MC_SubscriptionPlanner ------------------------
(***************************************************************************)
(* The instance of SubscriptionPlanner for TLC: two campaigns, of which    *)
(* one shares its station with the other.                                  *)
(***************************************************************************)
EXTENDS SubscriptionPlanner

MCMembers == [c \in Campaigns |-> IF c = "a" THEN {1, 2} ELSE {2}]
=============================================================================
