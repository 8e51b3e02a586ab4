------------------------- MODULE MC_MentionAnalysis -------------------------
(***************************************************************************)
(* The instance of MentionAnalysis for TLC: a document of station a that   *)
(* mentions the one entity of the one campaign, and a transcript in which  *)
(* only the model can find it, in one passage or in another.  The second   *)
(* version of the document, for a larger MaxVersions, knows it by a name.  *)
(***************************************************************************)
EXTENDS MentionAnalysis

Mention(sid, entity, name) == [sid |-> sid, entity |-> entity, name |-> name, playable |-> TRUE]

MCResults == 1 .. 1
MCEntities == 1 .. 1
MCStarts == {0}
MCNames == [e \in MCEntities |-> {"n1"}]
MCDocument == [p \in MCResults \X (1 .. 2) |->
    [station |-> "a", start |-> 0,
     mentions |-> IF p[2] = 1 THEN {Mention("s1", 1, "n1")} ELSE {Mention("s1", 0, "n1")}]]
MCSaid == [g \in MCResults |-> {}]
=============================================================================
