-------------------------- MODULE MC_AnalysisWorker -------------------------
(***************************************************************************)
(* The instance of AnalysisWorker for TLC.                                 *)
(***************************************************************************)
EXTENDS AnalysisWorker

MCConversations == 1 .. 2
=============================================================================
