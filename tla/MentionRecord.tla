---------------------------- MODULE MentionRecord ----------------------------
(***************************************************************************)
(* What is recorded of a conversation: from the matches of its segments    *)
(* (services/conversation_assembler.py) and its content type               *)
(* (services/content_classifier.py) over the analysis job                  *)
(* (pipeline/contracts.py) to the rows of the mention                      *)
(* (workers/analysis.py, services/llm_analysis.py,                         *)
(* services/result_writer.py).  When these things happen, fail and happen  *)
(* again is the matter of ConversationAssembler, SegmentLifecycle and      *)
(* AnalysisWorker; here each happens once and the question is what is      *)
(* written.                                                                *)
(*                                                                         *)
(* A text is a sequence of blanks and words, each one character wide; a    *)
(* word may be a cue of a content type or a surface form of a keyword.     *)
(* Offsets are those of Python: a match covers from + 1 .. to.             *)
(***************************************************************************)
EXTENDS Integers, Sequences, FiniteSets

CONSTANTS
    Campaigns,
    Cue,          \* words -> the content type they are a cue of, or another sign
    Surface,      \* some words -> [keyword, level]
    MinWords,     \* MIN_WORDS_FOR_CUES
    IdentWords,   \* STATION_ID_MAX_WORDS
    LongWords,    \* the 60 words of _fallback
    MaxRefs,      \* MAX_MATCHED_KEYWORDS
    SpokenParts,  \* bound of the model: segments, [text, class, gap, timed]
    MaxParts,     \* bound of the model: segments of a conversation
    StoredPolicies, \* bound of the model: rows of campaign_content_policies
    LyricsDefault,  \* RADIO_INCLUDE_SONG_LYRICS
    Replies       \* bound of the model: the model's well-formed answers

NoRow == << >>
NoTime == -1
Blank == " "
NewLine == "newline"
Characters == DOMAIN Cue \cup {Blank}
Keys == {Surface[w].keyword : w \in DOMAIN Surface}

\* LEVEL_CONFIDENCE, in hundredths, and CONFIRMATION_REQUIRED_LEVELS.
LevelConfidence == [exact |-> 100, alias |-> 95, transliteration |-> 85, phonetic |-> 50]
NeedsConfirmation(level) == level = "phonetic"

ASSUME RecordAssumption ==
    /\ Blank \notin DOMAIN Cue /\ DOMAIN Surface \subseteq DOMAIN Cue
    /\ \A w \in DOMAIN Surface :
          /\ Surface[w] = [keyword |-> Surface[w].keyword, level |-> Surface[w].level]
          /\ Surface[w].level \in DOMAIN LevelConfidence
    /\ \A seg \in SpokenParts : seg.text \in Seq(Characters) /\ seg.gap \in Nat
    /\ {IdentWords, LongWords} \subseteq Nat /\ IdentWords < LongWords
    /\ \A r \in Replies : \A q \in r.quotes :
          q.text \in Seq(Characters) /\ q.start \in Nat /\ q.end \in Int

VARIABLES
    owners,     \* campaigns that have registered each keyword, as the index has them
    parts,      \* the segments of the open conversation
    row,        \* conversation_sessions, or NoRow
    job,        \* the analysis job, or NoRow
    mention,    \* mention_campaigns and mention_keywords, or NoRow
    analysis,   \* analysis_results, or NoRow
    pruned,     \* the segments whose transcripts are gone
    policies,   \* history: the campaigns' policies when the mention was written
    uttered,    \* history: what each segment's scan found in the conversation
    reply       \* history: what the last analysis returned

recordVars == <<owners, parts, row, job, mention, analysis, pruned, policies, uttered, reply>>

RecordInit ==
    /\ owners = [k \in Keys |-> {}]
    /\ parts = << >> /\ uttered = {} /\ pruned = {}
    /\ row = NoRow /\ job = NoRow /\ mention = NoRow /\ analysis = NoRow
    /\ policies = NoRow /\ reply = NoRow

-----------------------------------------------------------------------------
\* str.strip(), and what it takes away on the left.
WordsAt(text) == {i \in DOMAIN text : text[i] # Blank}
LeftTrim(text) == CHOOSE n \in 0 .. Len(text) :
                     \A i \in DOMAIN text : (i <= n => text[i] = Blank)
                                         /\ (i = n + 1 => text[i] # Blank)
Strip(text) ==
    IF WordsAt(text) = {} THEN << >>
    ELSE SubSeq(text, LeftTrim(text) + 1,
                CHOOSE i \in WordsAt(text) : \A j \in WordsAt(text) : j <= i)

\* RulesContentClassifier.
Priority == <<"emergency_alert", "advertisement", "announcement", "news",
              "interview", "station_identification", "dj_commentary">>

CueHits(text, type) == Cardinality({w \in {text[i] : i \in WordsAt(text)} : Cue[w] = type})
One(condition) == IF condition THEN 1 ELSE 0

Score(text, class, type) ==
    CueHits(text, type)
    + One(type = "advertisement" /\ CueHits(text, "price") > 0)
    + One(type = "advertisement" /\ class = "speech_over_music")

Fallback(class, words) ==
    CASE class = "speech_over_music" -> "dj_commentary"
      [] class # "speech_over_music" /\ words >= LongWords -> "discussion"
      [] OTHER -> "unknown"

BestCue(text, class) ==
    LET S(i) == Score(text, class, Priority[i])
    IN  CHOOSE i \in DOMAIN Priority :
           \A j \in DOMAIN Priority : S(j) <= S(i) /\ (j < i => S(j) < S(i))

Sung(text, class) ==
    IF Score(text, class, "advertisement") > 0 \/ Score(text, class, "announcement") > 0
    THEN "advertisement" ELSE "song_lyrics"

ShortIdent(text, class) ==
    IF CueHits(text, "frequency") > 0 \/ Score(text, class, "station_identification") > 0
    THEN "station_identification" ELSE "unknown"

ByCues(text, class) ==
    LET best == BestCue(text, class)
        words == Cardinality(WordsAt(text))
    IN  CASE Score(text, class, Priority[best]) = 0 -> Fallback(class, words)
          [] Priority[best] = "station_identification" /\ words > IdentWords
                /\ Score(text, class, Priority[best]) > 0 ->
                IF class = "speech_over_music" THEN "dj_commentary" ELSE "discussion"
          [] OTHER -> Priority[best]

\* A mutant: what is sung is judged before the emergency vocabulary.
Classify_SungFirst(text, class) ==
    CASE WordsAt(text) = {} -> "unknown"
      [] class \in {"singing", "music"} -> Sung(text, class)
      [] OTHER -> IF Score(text, class, "emergency_alert") > 0 THEN "emergency_alert"
                  ELSE IF Cardinality(WordsAt(text)) < MinWords THEN ShortIdent(text, class)
                  ELSE ByCues(text, class)

Classify(text, class) ==
    IF WordsAt(text) = {} THEN "unknown"
    ELSE IF Score(text, class, "emergency_alert") > 0 THEN "emergency_alert"
    ELSE IF class \in {"singing", "music"} THEN Sung(text, class)
    ELSE IF Cardinality(WordsAt(text)) < MinWords THEN ShortIdent(text, class)
    ELSE ByCues(text, class)

PolicyFlag ==
    [news |-> "include_news", interview |-> "include_interviews",
     advertisement |-> "include_advertisements", announcement |-> "include_announcements",
     emergency_alert |-> "include_emergency_alerts",
     dj_commentary |-> "include_dj_commentary", discussion |-> "include_news",
     station_identification |-> "include_announcements",
     song_lyrics |-> "include_song_lyrics"]

\* content_policy_defaults; the flags that no content type has are left out.
PolicyDefaults == [f \in {PolicyFlag[t] : t \in DOMAIN PolicyFlag} |->
                      f = "include_song_lyrics" => LyricsDefault]

\* The flags of a campaign: those of its row, or else the defaults.
Flag(policy, f) == IF f \in DOMAIN policy THEN policy[f] ELSE PolicyDefaults[f]

Included(type, policy) == type \in DOMAIN PolicyFlag => Flag(policy, PolicyFlag[type])

-----------------------------------------------------------------------------
\* The matches in the text of a segment; ConversationAssembler has how a
\* conversation is made of segments, here they follow each other with a gap
\* or without.
ScanOf(text) ==
    {[keyword |-> Surface[text[i]].keyword, level |-> Surface[text[i]].level,
      owners |-> owners[Surface[text[i]].keyword], word |-> text[i], from |-> i - 1, to |-> i] :
        i \in {j \in DOMAIN text : text[j] \in DOMAIN Surface}}

EndOf(seg) == seg.start + seg.length

LastPart == parts[Len(parts)]

HearPart(seg) ==
    /\ row = NoRow /\ Len(parts) < MaxParts /\ \A k \in Keys : owners[k] # {}
    /\ parts' = Append(parts, [text |-> seg.text, class |-> seg.class, timed |-> seg.timed,
                               matches |-> ScanOf(seg.text), length |-> 2,
                               start |-> IF parts = << >> THEN 0 ELSE EndOf(LastPart) + seg.gap])
    /\ uttered' = uttered \cup ScanOf(seg.text)
    /\ UNCHANGED <<owners, row, job, mention, analysis, pruned, policies, reply>>

\* The first index of the station: each keyword has its campaign.
FirstIndex ==
    /\ \A k \in Keys : owners[k] = {}
    /\ owners' \in [Keys -> {{c} : c \in Campaigns}]
    /\ UNCHANGED <<parts, row, job, mention, analysis, pruned, policies, uttered, reply>>

\* Another campaign registers a keyword and its index reaches the worker
\* (bound of the model: this happens once).
Register(k, c) ==
    /\ row = NoRow /\ c \notin owners[k]
    /\ \A other \in Keys : Cardinality(owners[other]) = 1
    /\ owners' = [owners EXCEPT ![k] = @ \cup {c}]
    /\ UNCHANGED <<parts, row, job, mention, analysis, pruned, policies, uttered, reply>>

\* separator.join(text.strip() ...) of the segments in S, up to segment n.
Glue(before, text, separator) ==
    IF text = << >> THEN before
    ELSE IF before = << >> THEN text ELSE before \o <<separator>> \o text
Piece(S, n) == IF n \in S THEN Strip(parts[n].text) ELSE << >>
Join(S, n, separator) ==
    LET join[k \in Nat] ==
            IF k = 0 THEN << >> ELSE Glue(join[k - 1], Piece(S, k), separator)
    IN  join[n]
Transcript(n) == Join(DOMAIN parts, n, Blank)

\* Where the text of segment n begins in the transcript.
\* A mutant: a blank segment leaves its blank behind.
CharBase_CountsBlanks(n) == Len(Transcript(n - 1)) + One(n > 1)
CharBase(n) ==
    LET before == Len(Transcript(n - 1)) IN before + One(before > 0)

NotNegative(n) == IF n < 0 THEN 0 ELSE n

RebasedIn(n) ==
    LET Offset(i) == CharBase(n) + NotNegative(i - LeftTrim(parts[n].text))
        at == IF parts[n].timed THEN parts[n].start - parts[1].start ELSE NoTime
    IN  {[keyword |-> m.keyword, level |-> m.level, owners |-> m.owners, word |-> m.word,
          from |-> Offset(m.from), to |-> Offset(m.to), at |-> at] : m \in parts[n].matches}
Rebased == UNION {RebasedIn(n) : n \in {p \in DOMAIN parts : Strip(parts[p].text) # << >>}}

\* One match for each keyword: the strongest, and of these the first.
Stronger(m1, m2) ==
    \/ LevelConfidence[m1.level] > LevelConfidence[m2.level]
    \/ LevelConfidence[m1.level] = LevelConfidence[m2.level] /\ m1.from < m2.from
Deduplicated ==
    LET all == Rebased
    IN  {m \in all : ~\E m2 \in all : m2.keyword = m.keyword /\ Stronger(m2, m)}

\* ClosedConversation.campaign_ids
CampaignsOf(matches) == UNION {m.owners : m \in matches}

\* The message contracts.  A match that is not timed is sent as being at 0.
MatchedKeywordRef(m) == [m EXCEPT !.at = IF @ = NoTime THEN 0 ELSE @]
AnalysisJob(matches) ==
    [matches |-> {MatchedKeywordRef(m) : m \in matches}, campaigns |-> CampaignsOf(matches)]
Validates(message) == Cardinality(message.matches) <= MaxRefs /\ message.campaigns # {}

\* The owners of one match; a message of an earlier version named only those
\* of the whole conversation.
ResolvedCampaigns(ref, all) == IF ref.owners = {} THEN all ELSE ref.owners

\* _close and _commit_conversation.
Commit ==
    /\ row = NoRow /\ parts # << >>
    /\ LET matches == Deduplicated
           text == Transcript(Len(parts))
       IN  /\ matches # {} /\ Validates(AnalysisJob(matches))
           /\ row' = [text |-> text, type |-> Classify(text, LastPart.class),
                       duration |-> EndOf(LastPart) - parts[1].start]
           /\ job' = AnalysisJob(matches)
    /\ UNCHANGED <<owners, parts, mention, analysis, pruned, policies, uttered, reply>>

\* Not a mention; or more keywords than the contract takes, so that
\* AnalysisJobV1(...) raises.
DropConversation ==
    /\ row = NoRow /\ parts # << >>
    /\ Deduplicated = {} \/ ~Validates(AnalysisJob(Deduplicated))
    /\ parts' = << >> /\ uttered' = {}
    /\ UNCHANGED <<owners, row, job, mention, analysis, pruned, policies, reply>>

-----------------------------------------------------------------------------
\* AnalysisResult's validators: a percentage is taken for one, and the rest
\* is brought into 0 .. 100; a quote without a text is left out.
CoerceConfidence(v) ==
    LET n == IF v > 100 /\ v <= 10000 THEN v \div 100 ELSE v
    IN  IF n < 0 THEN 0 ELSE IF n > 100 THEN 100 ELSE n
DropBlank(quotes) == {q \in quotes : Strip(q.text) # << >>}

OccursIn(needle, text) ==
    \E i \in 0 .. Len(text) - Len(needle) : SubSeq(text, i + 1, i + Len(needle)) = needle

\* _validated_evidence
Larger(a, b) == IF a > b THEN a ELSE b
Smaller(a, b) == IF a < b THEN a ELSE b
Genuine(q) == OccursIn(Strip(q.text), row.text) /\ (row.duration > 0 => q.start <= row.duration)
Clamped(q) ==
    [text |-> Strip(q.text), start |-> q.start,
     end |-> IF row.duration > 0 THEN Smaller(Larger(q.start, q.end), row.duration)
                                 ELSE Larger(q.start, q.end)]
ValidatedEvidence(quotes) == {Clamped(q) : q \in {p \in quotes : Genuine(p)}}

\* _parse_and_validate.  An answer without a content type gets "unknown" from
\* the default of the field, not the type of the request.
ParseAndValidate(r) ==
    [status |-> "ready", type |-> r.type, relevant |-> r.relevant,
     evidence |-> ValidatedEvidence(DropBlank(r.quotes)),
     review |-> \/ r.review
                \/ \E q \in DropBlank(r.quotes) : ~Genuine(q)
                \/ CoerceConfidence(r.confidence) < 50]

FallbackResult ==
    [status |-> "fallback", type |-> row.type, relevant |-> TRUE, evidence |-> {}, review |-> TRUE]

\* ON CONFLICT leaves content_type, language and relevant as they are.
WriteAnalysis(result) ==
    /\ analysis' = IF analysis = NoRow THEN result
                   ELSE [result EXCEPT !.type = analysis.type, !.relevant = analysis.relevant]
    /\ reply' = result

Results == {ParseAndValidate(r) : r \in Replies} \cup {FallbackResult}

\* _load_conversation: what the worker makes of the message.
LoadedMatches ==
    {[m EXCEPT !.owners = ResolvedCampaigns(m, job.campaigns)] : m \in job.matches}

\* The owners of a match are sorted; the row has room for the first.
FirstOf(campaigns) == CHOOSE c \in campaigns : TRUE

\* _campaign_policies: the rows there are now.
CurrentPolicies == [job.campaigns -> StoredPolicies]

CampaignRows(stored) ==
    [c \in CampaignsOf(LoadedMatches) |-> Included(row.type, stored[c])]
KeywordRows ==
    [k \in {m.keyword : m \in LoadedMatches} |->
        LET m == CHOOSE n \in LoadedMatches : n.keyword = k
        IN  [word |-> m.word, from |-> m.from, to |-> m.to, at |-> m.at, level |-> m.level,
             confirmed |-> ~NeedsConfirmation(m.level), campaign |-> FirstOf(m.owners)]]

\* _handle_job: one analysis, and the mention with all its rows.
Analyse ==
    /\ job # NoRow /\ mention = NoRow
    /\ \E stored \in CurrentPolicies :
          /\ mention' = [campaigns |-> CampaignRows(stored), keywords |-> KeywordRows]
          /\ policies' = stored
    /\ \E result \in Results : WriteAnalysis(result)
    /\ UNCHANGED <<owners, parts, row, job, pruned, uttered>>

\* The sweep over the fallbacks.  It changes nothing when this mention is not
\* one of them or the result is not ready again.
Heal ==
    /\ analysis # NoRow
    /\ \/ /\ analysis.status = "fallback"
          /\ \E r \in Replies : WriteAnalysis(ParseAndValidate(r))
       \/ UNCHANGED <<analysis, reply>>
    /\ UNCHANGED <<owners, parts, row, job, mention, pruned, policies, uttered>>

\* The cleanup worker prunes a segment, whose transcript goes with it; the
\* verdict of a segment with a match is to retain it.
Prune(p) ==
    /\ mention # NoRow /\ p \in DOMAIN parts \ pruned /\ parts[p].matches = {}
    /\ pruned' = pruned \cup {p}
    /\ UNCHANGED <<owners, parts, row, job, mention, analysis, policies, uttered, reply>>

-----------------------------------------------------------------------------
(* What the API shows of the mention.                                      *)

\* The feed: one entry for each campaign that includes the mention, with the
\* first keyword of its own, a confirmed one if there is any.
OwnRows(c) == {k \in DOMAIN mention.keywords : mention.keywords[k].campaign = c}
Foremost(k, j) ==
    LET r == mention.keywords[k]  q == mention.keywords[j]
    IN  (r.confirmed /\ ~q.confirmed) \/ (r.confirmed = q.confirmed /\ r.from <= q.from)
FeedKeyword(c) ==
    IF OwnRows(c) = {} THEN ""
    ELSE CHOOSE k \in OwnRows(c) : \A j \in OwnRows(c) : Foremost(k, j)
Feed == [c \in {d \in DOMAIN mention.campaigns : mention.campaigns[d]} |-> FeedKeyword(c)]

\* The detail view: the transcripts there are, or else the committed text,
\* and in it the words of the keywords.
Transcripts == {p \in DOMAIN parts \ pruned : Strip(parts[p].text) # << >>}
DetailText == IF Transcripts = {} THEN Strip(row.text) ELSE Join(Transcripts, Len(parts), NewLine)
FirstAt(word, text) ==
    {i \in DOMAIN text : text[i] = word /\ \A j \in 1 .. i - 1 : text[j] # word}
Highlights ==
    LET text == DetailText
    IN  UNION {{[keyword |-> k, at |-> i] : i \in FirstAt(mention.keywords[k].word, text)} :
                 k \in DOMAIN mention.keywords}

\* The documents in S3.
MetadataDocument ==
    [type |-> row.type, campaigns |-> CampaignsOf(LoadedMatches),
     keywords |-> {m.keyword : m \in LoadedMatches}]
TranscriptDocument == [text |-> row.text, matches |-> LoadedMatches]

RecordNext ==
    \/ \E seg \in SpokenParts : HearPart(seg)
    \/ FirstIndex
    \/ \E k \in Keys, c \in Campaigns : Register(k, c)
    \/ Commit
    \/ DropConversation
    \/ Analyse
    \/ Heal
    \/ \E p \in DOMAIN parts : Prune(p)

RecordSpec == RecordInit /\ [][RecordNext]_recordVars

-----------------------------------------------------------------------------
\* Word m.word is said at the offsets m.from .. m.to of text.
SaidAt(m, text) == m.to \in DOMAIN text /\ m.from = m.to - 1 /\ text[m.to] = m.word

KeywordsPointAtWords ==
    /\ \A k \in DOMAIN mention.keywords :
          LET r == mention.keywords[k]
          IN  /\ SaidAt(r, row.text)
              /\ Surface[r.word] = [keyword |-> k, level |-> r.level]
              /\ r.at = 0 \/ \E p \in DOMAIN parts :
                    /\ r.at = parts[p].start - parts[1].start
                    /\ \E i \in DOMAIN parts[p].text : parts[p].text[i] = r.word
    /\ \A m \in TranscriptDocument.matches : SaidAt(m, TranscriptDocument.text)

QuotesWereBroadcast ==
    \A q \in analysis.evidence :
        /\ OccursIn(q.text, row.text) /\ q.text # << >>
        /\ 0 <= q.start /\ q.start <= q.end /\ q.end <= row.duration

HitsAreHighlighted == {h.keyword : h \in Highlights} = DOMAIN mention.keywords

(***************************************************************************)
(* What is stored as evidence was broadcast, and it is shown.  A keyword's *)
(* offsets, in its row and in the exported transcript, are those of its    *)
(* word, whatever blanks and blank segments came before it                 *)
(* (_rebase_matches), and its time is that of a segment in which it was    *)
(* said, or 0.  Every quote the model gave occurs in the transcript and    *)
(* lies within the conversation, also after the healing sweep              *)
(* (_validated_evidence).  The detail view highlights every keyword, also  *)
(* when segments of the conversation have been pruned.                     *)
(***************************************************************************)
StoredWordsWereSaid ==
    mention # NoRow => KeywordsPointAtWords /\ QuotesWereBroadcast /\ HitsAreHighlighted

\* A sign that a transcript, or its audio, is of the type.
Grounds(text, class, type) ==
    \/ CueHits(text, type) > 0
    \/ type = "advertisement" /\ class = "speech_over_music"
    \/ type = "advertisement" /\ class \in {"singing", "music"} /\ CueHits(text, "announcement") > 0
    \/ type = "advertisement" /\ CueHits(text, "price") > 0
    \/ type = "song_lyrics" /\ class \in {"singing", "music"}
    \/ type = "station_identification" /\ CueHits(text, "frequency") > 0
    \/ type = "discussion" /\ Cardinality(WordsAt(text)) > IdentWords
    \/ type = "dj_commentary" /\ class = "speech_over_music" /\ Cardinality(WordsAt(text)) > IdentWords

(***************************************************************************)
(* Every keyword said has its row, confirmed if any of its utterances was  *)
(* at a level that needs no confirmation; every campaign that had a        *)
(* keyword whenever it was said has the mention, and none has it that      *)
(* never had one.  The mention is hidden from a campaign only by a flag of *)
(* its own policy and for a type there were grounds to assume, and an      *)
(* emergency only by the flag for emergencies, whatever else is in the     *)
(* transcript and however it was sung (content_classifier.py:160).  The    *)
(* feed names to a campaign a keyword it had, or none, and the exported    *)
(* metadata lists the campaigns and the keywords of the rows.              *)
(***************************************************************************)
OwnersAreTold ==
    mention # NoRow =>
        /\ DOMAIN mention.keywords = {u.keyword : u \in uttered}
        /\ \A k \in DOMAIN mention.keywords :
              mention.keywords[k].confirmed =
                  \E u \in uttered : u.keyword = k /\ ~NeedsConfirmation(u.level)
        /\ DOMAIN mention.campaigns \subseteq UNION {u.owners : u \in uttered}
        /\ \A k \in DOMAIN mention.keywords, c \in Campaigns :
              (\A u \in uttered : u.keyword = k => c \in u.owners) => c \in DOMAIN mention.campaigns
        /\ \A c \in DOMAIN mention.campaigns :
              ~mention.campaigns[c] =>
                  IF CueHits(row.text, "emergency_alert") > 0
                  THEN ~Flag(policies[c], "include_emergency_alerts")
                  ELSE /\ Grounds(row.text, LastPart.class, row.type)
                       /\ ~Flag(policies[c], PolicyFlag[row.type])
        /\ \A c \in DOMAIN Feed : Feed[c] # "" =>
              \E u \in uttered : u.keyword = Feed[c] /\ c \in u.owners
        /\ MetadataDocument.campaigns = DOMAIN mention.campaigns
        /\ MetadataDocument.keywords = DOMAIN mention.keywords

(***************************************************************************)
(* "Replace one mention's analysis row in place" (result_writer.py:366):   *)
(* the row is what the last analysis returned.  It is not: a healed row    *)
(* keeps content_type and relevant from its fallback.                      *)
(***************************************************************************)
HealReplacesTheRow == analysis = reply

(***************************************************************************)
(* Every campaign that had a keyword when it was said has the mention.     *)
(* It does not when it registered the keyword between two segments of the  *)
(* conversation: only the first of the strongest matches is kept, with the *)
(* owners of its time.                                                     *)
(***************************************************************************)
LateOwnersAreTold ==
    mention # NoRow => UNION {u.owners : u \in uttered} \subseteq DOMAIN mention.campaigns

(***************************************************************************)
(* Every campaign that is shown the mention is shown a keyword with it.    *)
(* It is not when another campaign owns each of its keywords too: a row of *)
(* mention_keywords has one campaign, the first by id, and the feed looks  *)
(* for rows of the campaign it is made for (db.py:686).                    *)
(***************************************************************************)
FeedHasKeyword == mention # NoRow => \A c \in DOMAIN Feed : Feed[c] # ""
=============================================================================
