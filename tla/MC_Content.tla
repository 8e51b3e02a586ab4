----------------------------- MODULE MC_Content -----------------------------
(***************************************************************************)
(* What decides whether something said on a station becomes a hit, and     *)
(* what is written of it: the window is kept (AudioPolicy), the index it   *)
(* is scanned with is the right one (IndexRollout), the index finds it     *)
(* (KeywordMatching), and the rows of the mention tell of it               *)
(* (MentionRecord).  The four share no variable, so nothing is learnt from *)
(* their interleavings: one of them runs while the others have not         *)
(* started, and their state spaces add up.                                 *)
(***************************************************************************)
EXTENDS AudioPolicy, IndexRollout, KeywordMatching, MentionRecord

MCDefault == [backend |-> "vad_energy", overMusic |-> TRUE, uncertain |-> TRUE,
              jingles |-> TRUE, singing |-> FALSE]
MCSettings ==
    {MCDefault, [MCDefault EXCEPT !.overMusic = FALSE], [MCDefault EXCEPT !.uncertain = FALSE],
     [MCDefault EXCEPT !.jingles = FALSE], [MCDefault EXCEPT !.singing = TRUE],
     [MCDefault EXCEPT !.backend = "passthrough"]}

\* Words and phrases, one inside the other, and terms that keywords share.
Binding(id, value, strict, tokens, aliases) ==
    [id |-> id, value |-> value, strict |-> strict, tokens |-> tokens, aliases |-> aliases]
Also(value, kind) == {[value |-> value, kind |-> kind]}
MCKeywords ==
    {Binding("a", <<"a">>, TRUE, TRUE, {}),
     Binding("a sub", <<"a">>, FALSE, FALSE, Also(<<"k", "^">>, "phonetic")),
     Binding("aa", <<"a", "a">>, TRUE, FALSE, Also(<<"a">>, "alias")),
     Binding("a k", <<"a", "-", "k">>, FALSE, TRUE, Also(<<"a">>, "translation")),
     Binding("aa k", <<"w", "-", "k">>, FALSE, TRUE, {}),
     Binding("k^k", <<"k", "^", "k">>, TRUE, TRUE, Also(<<"a">>, "translation"))}

\* Words that are cues, forms of keywords, both or neither.
MCCue == [alert |-> "emergency_alert", sale |-> "advertisement", notice |-> "announcement",
          report |-> "news", fm |-> "station_identification", am |-> "station_identification",
          pct |-> "price", acme |-> "none", acmi |-> "none", zorb |-> "none", kid |-> "none", so |-> "none"]
Form(k, level) == [keyword |-> k, level |-> level]
MCSurface == [acme |-> Form("acme", "exact"), acmi |-> Form("acme", "phonetic"),
              zorb |-> Form("zorb", "transliteration"), kid |-> Form("kid", "alias")]
Part(text, class, gap, timed) == [text |-> text, class |-> class, gap |-> gap, timed |-> timed]
MCParts ==
    {Part(<<" ", "acme", " ", "sale">>, "singing", 0, TRUE),
     Part(<<"notice", "acmi", " ">>, "singing", 1, TRUE),
     Part(<<" ", " ">>, "music", 0, TRUE),
     Part(<<"alert", "pct", "so">>, "singing", 0, FALSE),
     Part(<<" ", "zorb", "kid", "fm">>, "speech", 0, TRUE),
     Part(<<"report", "acme", "fm">>, "speech", 1, FALSE),
     Part(<<"fm", "am", "so", "so", "zorb">>, "speech_over_music", 0, TRUE)}
Off(flag) == flag :> FALSE
MCPolicies == {<< >>, Off("include_dj_commentary"), Off("include_emergency_alerts"),
               Off("include_advertisements") @@ ("include_song_lyrics" :> TRUE)}
Quote(text, start, end) == [text |-> text, start |-> start, end |-> end]
Reply(type, relevant, confidence, quotes) ==
    [type |-> type, relevant |-> relevant, review |-> FALSE, confidence |-> confidence,
     quotes |-> quotes]
MCReplies ==
    {Reply("news", TRUE, 8000, {Quote(<<"acme">>, 0, 0), Quote(<<" ">>, 1, 1)}),
     Reply("unknown", FALSE, -10, {Quote(<<" ", "so">>, 3, 1), Quote(<<"zorb", "kid">>, 1, 90),
                                   Quote(<<"sale", " ", "so">>, 4, 4), Quote(<<"pct">>, 4, 5)})}

MCSymmetry == Permutations(Stations) \cup Permutations(Contents)

AudioIdle == settings = MCDefault /\ failures = 0 /\ heard = << >>
RolloutIdle == pass = Idle /\ subscribed = {} /\ restarts = 0
TextIdle == entries = {}
RecordIdle == \A k \in Keys : owners[k] = {}
OthersIdle == AudioIdle /\ RolloutIdle /\ TextIdle

ContentInit == AudioInit /\ RolloutInit /\ TextInit /\ RecordInit
ContentNext ==
    \/ /\ RolloutIdle /\ TextIdle /\ RecordIdle
       /\ AudioNext /\ UNCHANGED <<rolloutVars, textVars, recordVars>>
    \/ /\ AudioIdle /\ TextIdle /\ RecordIdle
       /\ RolloutNext /\ UNCHANGED <<audioVars, textVars, recordVars>>
    \/ /\ AudioIdle /\ RolloutIdle /\ RecordIdle
       /\ TextNext /\ UNCHANGED <<audioVars, rolloutVars, recordVars>>
    \/ /\ OthersIdle
       /\ RecordNext /\ UNCHANGED <<audioVars, rolloutVars, textVars>>

ContentSpec ==
    ContentInit /\ [][ContentNext]_<<audioVars, rolloutVars, textVars, recordVars>>
=============================================================================
