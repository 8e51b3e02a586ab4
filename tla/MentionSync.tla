----------------------------- MODULE MentionSync ----------------------------
(***************************************************************************)
(* The mentions of the v0.3 store: app/db.py with services/sync.py.        *)
(*                                                                         *)
(* Result documents lie in S3, campaigns in SQLite.  A pass of the sync    *)
(* reads the active bindings, lists the documents, reads the campaign      *)
(* revision and then, document by document, replaces the mentions that     *)
(* come from it and records (etag, revision) as done.  Passes exclude one  *)
(* another (an asyncio lock); campaign requests, which bump the revision,  *)
(* come between any two steps of a pass, for every call of the pass is a   *)
(* thread of its own.  The database keeps its foreign keys: a row of a     *)
(* keyword goes with the keyword, and a write that names a missing one     *)
(* raises and leaves nothing behind.                                       *)
(*                                                                         *)
(* A mention of a document has an entity and one spoken name, the          *)
(* document one station and one transcript.  The three names _match_       *)
(* bindings tries one after another are one here.                          *)
(***************************************************************************)
EXTENDS Integers, Sequences, FiniteSets, FiniteSetsExt, Functions

CONSTANTS
    Campaigns,
    Stations,
    Entities,       \* keywords, numbered in the order of their values
    Names,          \* entity -> the display name and the aliases
    Starts,         \* moments on air, and of listening from
    Results,        \* the result documents; each is of one transcript
    Document,       \* <<result, version>> -> what S3 holds
    Absent,         \* no such row
    Keep,           \* a field the request does not set
    MaxObjects,     \* RADIO_SYNC_MAX_OBJECTS
    MaxRevision,    \* bound of the model: campaign requests
    MaxVersions,    \* bound of the model: versions of a document
    MaxMishaps      \* bound of the model: calls that raise, crashes and views

\* A row of sync_objects, with the number of replacements so far.
SyncObject == [etag : Nat, revision : Nat, replaced : Nat]

\* Document[r, v]: the station, when it went on air, and the mentions
\* [sid, entity, name, playable]; an entity the campaigns do not know is 0.
ASSUME SyncAssumption ==
    /\ Entities \subseteq Nat \ {0} /\ Starts \subseteq Nat
    /\ {MaxObjects, MaxRevision, MaxVersions, MaxMishaps} \subseteq Nat
    /\ Absent \notin SyncObject

VARIABLES
    campaigns,    \* campaigns, with their stations and keywords
    revision,     \* app_meta.campaign_revision
    listing,      \* S3: keys and etags, the last written first
    mentions,     \* mentions, of either origin
    syncObjects,  \* sync_objects
    pass,         \* the pass of the sync, between two of its calls
    basis,        \* history: what a document was last replaced from
    mishaps

stored == <<campaigns, revision, listing, syncObjects, basis>>
syncVars == <<stored, mentions, pass, mishaps>>

Live == {c \in Campaigns : campaigns[c] # Absent}
\* A row of campaign_keywords: its id is its entity and the revision it was
\* inserted with, for every request inserts its keywords anew.
KeywordRows == UNION {campaigns[c].keywords : c \in Live}

\* active_bindings: one for every keyword of an active campaign.
BindingsOf(c) ==
    {[campaign |-> c, keyword |-> k, stations |-> campaigns[c].stations,
      since |-> campaigns[c].since] : k \in campaigns[c].keywords}
Bindings == UNION {BindingsOf(c) : c \in {d \in Live : campaigns[d].status = "active"}}

Idle == [pc |-> "idle", bindings |-> {}, objects |-> <<>>, revision |-> 0,
         mentions |-> {}]

SyncInit ==
    /\ campaigns = [c \in Campaigns |-> Absent]
    /\ revision = 0 /\ listing = <<>> /\ mentions = {}
    /\ syncObjects = [r \in Results |-> Absent]
    /\ pass = Idle /\ basis = [r \in Results |-> [bindings |-> {}, found |-> {}]] /\ mishaps = 0

-----------------------------------------------------------------------------
(* Campaign requests.                                                      *)

\* What goes with a set of keywords: ON DELETE CASCADE.
WithKeywords(rows, keywords) == {m \in rows : m.keyword \in keywords}

Fresh(entities) == {[entity |-> e, born |-> revision + 1] : e \in entities}

Changed(c, row) ==
    /\ revision < MaxRevision
    /\ revision' = revision + 1
    /\ campaigns' = [campaigns EXCEPT ![c] = row]
    /\ mentions' = WithKeywords(mentions, KeywordRows')
    /\ UNCHANGED <<listing, syncObjects, pass, basis, mishaps>>

CreateCampaign(c, stations, entities, since) ==
    /\ campaigns[c] = Absent
    /\ Changed(c, [status |-> "active", stations |-> stations,
                   keywords |-> Fresh(entities), since |-> since])

\* New keywords replace the old rows even when the values are the same.
Updated(old, status, stations, entities) ==
    [old EXCEPT !.status = IF status = Keep THEN @ ELSE status,
                !.stations = IF stations = Keep THEN @ ELSE stations,
                !.keywords = IF entities = Keep THEN @ ELSE Fresh(entities)]

UpdateCampaign(c, status, stations, entities) ==
    /\ campaigns[c] # Absent
    /\ Changed(c, Updated(campaigns[c], status, stations, entities))

DeleteCampaign(c) == campaigns[c] # Absent /\ Changed(c, Absent)

-----------------------------------------------------------------------------
(* S3: a document is written, or written again with another content.       *)

PutDocument(r) ==
    /\ \/ /\ \A i \in DOMAIN listing : listing[i].key # r
          /\ MaxVersions >= 1
          /\ listing' = <<[key |-> r, etag |-> 1]>> \o listing
       \/ \E i \in DOMAIN listing :
            /\ listing[i].key = r /\ listing[i].etag < MaxVersions
            /\ listing' = <<[key |-> r, etag |-> listing[i].etag + 1]>>
                            \o SubSeq(listing, 1, i - 1)
                            \o SubSeq(listing, i + 1, Len(listing))
    /\ UNCHANGED <<campaigns, revision, mentions, syncObjects, pass, basis, mishaps>>

\* The version S3 holds.
Stored(r) == listing[CHOOSE i \in DOMAIN listing : listing[i].key = r].etag

-----------------------------------------------------------------------------
(* A pass.                                                                 *)

\* sync_once takes the lock and reads the bindings.
ReadBindings ==
    /\ pass.pc = "idle"
    /\ pass' = [Idle EXCEPT !.pc = "list", !.bindings = Bindings]
    /\ UNCHANGED <<stored, mentions, mishaps>>

\* _list_result_objects: the newest MaxObjects; and the revision, which is
\* later than the bindings.  Without a binding the pass is over, and the
\* mentions stay what they are.
Going(objects, p) == IF objects = <<>> THEN Idle
                     ELSE [p EXCEPT !.pc = "next", !.objects = objects, !.mentions = {}]
Newest == SubSeq(listing, 1, Min({MaxObjects, Len(listing)}))
ListObjects ==
    /\ pass.pc = "list"
    /\ pass' = IF pass.bindings = {} THEN Idle
               ELSE Going(Newest, [pass EXCEPT !.revision = revision])
    /\ UNCHANGED <<stored, mentions, mishaps>>

Object == Head(pass.objects)
Rest == Going(Tail(pass.objects), pass)

\* result_is_current, and the document of one that is not.  S3 may hold a
\* later version by now than the one listed.
ExamineObject ==
    /\ pass.pc = "next"
    /\ pass' = IF syncObjects[Object.key] # Absent
                    /\ syncObjects[Object.key].etag = Object.etag
                    /\ syncObjects[Object.key].revision = pass.revision
               THEN Rest
               ELSE [pass EXCEPT !.pc = "replace",
                       !.mentions = Document[Object.key, Stored(Object.key)].mentions]
    /\ UNCHANGED <<stored, mentions, mishaps>>

\* _match_bindings: by the entity; by the name only when no campaign has the
\* entity, on whatever station.
Candidates(m, bindings) ==
    LET same == {b \in bindings : b.keyword.entity = m.entity}
    IN  IF same # {} THEN same
        ELSE {b \in bindings : m.name \in Names[b.keyword.entity]}
MatchBindings(m, station, bindings) ==
    {b \in Candidates(m, bindings) : station \in b.stations}

\* _materialized_record: none before the campaign listens, or without audio.
Materialized(r, m, bindings) ==
    {b \in MatchBindings(m, Document[r, 1].station, bindings) :
        m.playable /\ Document[r, 1].start >= b.since}

\* Of the records of one (campaign, document, source mention) the last one
\* upserted stays: the keyword with the greatest value.
Kept(b, records) ==
    \A other \in records : other.campaign = b.campaign
                               => other.keyword.entity <= b.keyword.entity
Row(r, m, b, born) ==
    [campaign |-> b.campaign, keyword |-> b.keyword, source |-> r, from |-> "result",
     sid |-> m.sid, born |-> born]
Rows(r, found, bindings, born) ==
    UNION {{Row(r, m, b, born) : b \in {x \in Materialized(r, m, bindings) :
               Kept(x, Materialized(r, m, bindings))}} : m \in found}

\* The ids are fresh uuids: the rows were deleted before they are inserted.
Generation(r) == IF syncObjects[r] = Absent THEN 1 ELSE syncObjects[r].replaced + 1

\* What a replacement leaves: the rows of other documents, and of the scan.
Others_Stay(r) == mentions
Others(r) == {m \in mentions : m.from # "result" \/ m.source # r}

\* replace_result_mentions, one transaction: a binding whose keyword is gone
\* makes it raise, and the pass ends.
ReplaceMentions ==
    /\ pass.pc = "replace"
    /\ LET r == Object.key
           rows == Rows(r, pass.mentions, pass.bindings, Generation(r))
       IN  IF \E row \in rows : row.keyword \notin KeywordRows
           THEN /\ pass' = Idle
                /\ UNCHANGED <<stored, mentions>>
           ELSE /\ mentions' = rows \cup Others(r)
                /\ syncObjects' = [syncObjects EXCEPT ![r] =
                       [etag |-> Object.etag, revision |-> pass.revision,
                        replaced |-> Generation(r)]]
                /\ basis' = [basis EXCEPT ![r] =
                       [bindings |-> pass.bindings, found |-> pass.mentions]]
                /\ pass' = Rest
                /\ UNCHANGED <<campaigns, revision, listing>>
    /\ UNCHANGED mishaps

\* Any call of a pass may raise; the loop logs it and goes on at the next
\* tick.  A restart of the API ends a pass likewise.
PassFails ==
    /\ pass.pc # "idle" /\ mishaps < MaxMishaps
    /\ mishaps' = mishaps + 1 /\ pass' = Idle
    /\ UNCHANGED <<stored, mentions>>

\* The lists of a request are not empty.
NonEmpty(S) == (SUBSET S) \ {{}}
CampaignRequest ==
    \E c \in Campaigns :
        \/ \E stations \in NonEmpty(Stations), entities \in NonEmpty(Entities),
             since \in Starts : CreateCampaign(c, stations, entities, since)
        \/ \E status \in {"active", "paused", Keep},
             stations \in NonEmpty(Stations) \cup {Keep},
             entities \in NonEmpty(Entities) \cup {Keep} :
              UpdateCampaign(c, status, stations, entities)
        \/ DeleteCampaign(c)

PassStep ==
    ReadBindings \/ ListObjects \/ ExamineObject \/ ReplaceMentions

SyncNext == CampaignRequest \/ (\E r \in Results : PutDocument(r)) \/ PassStep \/ PassFails

-----------------------------------------------------------------------------
\* A listed document the next pass will not look at.
Listed == Range(Newest)
Current(o) == /\ syncObjects[o.key] # Absent
              /\ syncObjects[o.key].etag = o.etag
              /\ syncObjects[o.key].revision = revision
MentionsOf(r) == {m \in mentions : m.from = "result" /\ m.source = r}

\* The mentions of a document are at every moment those its last replacement
\* made of the bindings and the content it had read, less those whose
\* keyword has gone since: a pass that ends early, a request between two
\* calls and a binding that is gone leave no half of a document behind
\* (replace_result_mentions, and the cascades of the schema).
MentionsFollowTheRecord ==
    \A r \in Results :
        /\ syncObjects[r] = Absent => MentionsOf(r) = {}
        /\ syncObjects[r] # Absent =>
              MentionsOf(r) = WithKeywords(Rows(r, basis[r].found, basis[r].bindings,
                                                syncObjects[r].replaced), KeywordRows)
=============================================================================
