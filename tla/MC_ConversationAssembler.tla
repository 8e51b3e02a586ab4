---------------------- MODULE MC_ConversationAssembler ----------------------
(***************************************************************************)
(* Instances of ConversationAssembler for TLC.                             *)
(***************************************************************************)
EXTENDS ConversationAssembler
=============================================================================
