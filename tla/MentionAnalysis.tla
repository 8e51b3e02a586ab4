--------------------------- MODULE MentionAnalysis --------------------------
(***************************************************************************)
(* What follows a mention of the v0.3 store: app/analysis_worker.py with   *)
(* services/semantic.py and services/analysis.py, beside MentionSync.      *)
(*                                                                         *)
(* One worker, a process of its own, goes round: it scans transcripts for  *)
(* the keywords of the active campaigns and adds the mentions it finds,    *)
(* then analyses the mentions that wait.  The API analyses too, when a     *)
(* mention is opened or refreshed.  Meanwhile the sync replaces mentions,  *)
(* and a campaign request takes keywords away with all that hangs on them. *)
(*                                                                         *)
(* A transcript group is the transcript of one result document.  It does   *)
(* not change, so neither does its fingerprint nor the hash a cached       *)
(* analysis is checked against.  settle_seconds is 0.  The model is        *)
(* enabled.  The labels a ready analysis writes to its mention are left    *)
(* out.                                                                    *)
(***************************************************************************)
EXTENDS MentionSync

CONSTANTS
    Said,           \* group -> the entities whose name stands in it verbatim
    Concepts,       \* the entities with semantic_matching
    Texts,          \* the passages the model may quote
    Verbatim,       \* the one the exact match finds
    GroupsPerCycle, \* RADIO_SEMANTIC_GROUPS_PER_CYCLE
    Batch,          \* RADIO_ANALYSIS_WORKER_BATCH_SIZE
    RetryLimit,     \* RADIO_ANALYSIS_RETRY_LIMIT
    NoMention       \* no mention

\* Groups are numbered in the order they were written.
ASSUME MentionAssumption ==
    /\ Results \subseteq Nat \ {0} /\ Concepts \subseteq Entities /\ Verbatim \in Texts
    /\ {GroupsPerCycle, Batch, RetryLimit} \subseteq Nat \ {0}

VARIABLES
    analysis,  \* mention_analysis
    cache,     \* S3: the mentions with an analysis document; that of a mention
               \* which is gone is never read again
    scanned,   \* semantic_scan_objects
    worker,    \* the loop of the worker
    job        \* the analysis each process is at

analysisVars == <<analysis, cache, scanned, worker, job>>
mentionVars == <<syncVars, analysisVars>>

Processes == {"worker", "api"}
NoJob == [pc |-> "idle", row |-> NoMention, how |-> "analyze"]
Scan == [pc |-> "scan", bindings |-> {}, revision |-> 0, group |-> 0,
         left |-> GroupsPerCycle, todo |-> {}, cur |-> NoMention]

MentionInit ==
    /\ SyncInit
    /\ analysis = <<>> /\ cache = {} /\ scanned = <<>>
    /\ worker = Scan /\ job = [p \in Processes |-> NoJob]

\* A step of the sync or of a campaign request, and what it cascades to.
Cascade ==
    /\ analysis' = Restrict(analysis, DOMAIN analysis \cap mentions')
    /\ scanned' = Restrict(scanned, {s \in DOMAIN scanned : s[1] \in KeywordRows'})
    /\ cache' = cache \cap mentions'
    /\ UNCHANGED <<worker, job>>

-----------------------------------------------------------------------------
(* The semantic scan.                                                      *)

ToAnalysis == [Scan EXCEPT !.pc = "list"]

ScanBindings ==
    /\ worker.pc = "scan"
    /\ worker' = IF Bindings = {} THEN ToAnalysis
                 ELSE [Scan EXCEPT !.pc = "revision", !.bindings = Bindings]
    /\ UNCHANGED <<syncVars, analysis, cache, scanned, job>>

ScanRevision ==
    /\ worker.pc = "revision"
    /\ worker' = [worker EXCEPT !.pc = "group", !.revision = revision]
    /\ UNCHANGED <<syncVars, analysis, cache, scanned, job>>

\* semantic_scan_is_current.
ScanIsCurrent(k, g) ==
    /\ <<k, g>> \in DOMAIN scanned
    /\ scanned[k, g].revision = worker.revision
    /\ scanned[k, g].status # "error"
Pending(g) == {b \in worker.bindings : /\ Document[g, 1].station \in b.stations
                                       /\ ~ScanIsCurrent(b.keyword, g)}
Waiting == {g \in Results : g > worker.group /\ Pending(g) # {}}

\* The next group with a binding to check, the oldest first.
NextGroup(pc) == [worker EXCEPT !.pc = pc, !.group = Min(Waiting), !.left = @ - 1,
                                !.todo = Pending(Min(Waiting))]
ScanGroup ==
    /\ worker.pc \in {"group", "unreadable"} /\ worker.todo = {}
    /\ worker' = IF Waiting = {} \/ worker.left = 0 THEN ToAnalysis ELSE NextGroup("group")
    /\ UNCHANGED <<syncVars, analysis, cache, scanned, job>>

\* Its transcripts cannot be assembled: an error for every binding.
GroupFails ==
    /\ worker.pc \in {"group", "unreadable"} /\ worker.todo = {}
    /\ Waiting # {} /\ worker.left > 0 /\ mishaps < MaxMishaps
    /\ mishaps' = mishaps + 1 /\ worker' = NextGroup("unreadable")
    /\ UNCHANGED <<stored, mentions, pass, analysis, cache, scanned, job>>

\* record_semantic_scan.  Without the keyword it raises out of the scan, and
\* the loop goes on with the analyses.
Record(k, status) ==
    IF k \in KeywordRows
    THEN /\ scanned' = [s \in DOMAIN scanned \cup {<<k, worker.group>>} |->
                IF s = <<k, worker.group>>
                THEN [revision |-> worker.revision, status |-> status] ELSE scanned[s]]
         /\ worker' = [worker EXCEPT !.cur = NoMention,
                         !.pc = IF @ = "unreadable" THEN @ ELSE "group",
                         !.todo = {b \in @ : b.keyword # k}]
    ELSE worker' = ToAnalysis /\ UNCHANGED scanned

RecordUnreadable(b) ==
    /\ worker.pc = "unreadable" /\ b \in worker.todo
    /\ Record(b.keyword, "error")
    /\ UNCHANGED <<syncVars, analysis, cache, job>>

\* mention_exists_for_keyword_transcript: of either origin.
AlreadyFound_BySync(k, g) ==
    \E m \in mentions : m.from = "result" /\ m.keyword = k /\ m.source = g
AlreadyFound(k, g) == \E m \in mentions : m.keyword = k /\ m.source = g
TooEarly(b, g) == Document[g, 1].start < b.since

\* A binding with nothing to ask the model about, or nothing to find.
NothingToFind(b) ==
    /\ worker.pc = "group" /\ b \in worker.todo
    /\ \/ TooEarly(b, worker.group) \/ AlreadyFound(b.keyword, worker.group)
       \/ b.keyword.entity \notin Said[worker.group] \cup Concepts
    /\ Record(b.keyword, "not_matched")
    /\ UNCHANGED <<syncVars, analysis, cache, job>>

\* The exact match needs no model; the model takes its time.
Look(b) ==
    /\ worker.pc = "group" /\ b \in worker.todo
    /\ ~TooEarly(b, worker.group) /\ ~AlreadyFound(b.keyword, worker.group)
    /\ b.keyword.entity \in Said[worker.group] \cup Concepts
    /\ worker' = [worker EXCEPT !.pc = "look", !.cur = b]
    /\ UNCHANGED <<syncVars, analysis, cache, scanned, job>>

Verbatims(b) == IF b.keyword.entity \in Said[worker.group] THEN {Verbatim} ELSE Texts

\* The model says no, or asking it or putting the audit document raises.
NotFound ==
    /\ worker.pc = "look"
    /\ \/ worker.cur.keyword.entity \notin Said[worker.group]
          /\ Record(worker.cur.keyword, "not_matched")
       \/ Record(worker.cur.keyword, "error")
    /\ UNCHANGED <<syncVars, analysis, cache, job>>

ScanRow(b, text) ==
    [campaign |-> b.campaign, keyword |-> b.keyword, source |-> worker.group,
     from |-> "scan", sid |-> text, born |-> 0]

\* The audit document, whose key names keyword, group and day, and then the
\* mention: the id of the source mention names the passage too.
AddMention ==
    /\ worker.pc = "look"
    /\ IF worker.cur.keyword \in KeywordRows
       THEN /\ \E text \in Verbatims(worker.cur) :
                  mentions' = mentions \cup {ScanRow(worker.cur, text)}
            /\ worker' = [worker EXCEPT !.pc = "matched"]
       ELSE /\ worker' = ToAnalysis
            /\ UNCHANGED mentions
    /\ UNCHANGED <<stored, pass, mishaps, analysis, cache, scanned, job>>

RecordMatch ==
    /\ worker.pc = "matched"
    /\ Record(worker.cur.keyword, "matched")
    /\ UNCHANGED <<syncVars, analysis, cache, job>>

-----------------------------------------------------------------------------
(* The analysis of a mention, by the worker or by the API.                 *)

Status(m) == IF m \in DOMAIN analysis THEN analysis[m].status ELSE "none"
Attempts(m) == IF m \in DOMAIN analysis THEN analysis[m].attempts ELSE 0
\* list_pending_analysis.
PendingAnalysis_NotStarted(m) ==
    Status(m) = "none" \/ (Status(m) = "error" /\ Attempts(m) < RetryLimit)
PendingAnalysis(m) ==
    \/ Status(m) \in {"none", "pending"}
    \/ Status(m) = "error" /\ Attempts(m) < RetryLimit
Unsettled == {m \in mentions : PendingAnalysis(m)}
OnAir(m) == Document[m.source, 1].start

\* The Batch that went on air first.
ListPending ==
    /\ worker.pc = "list"
    /\ \E batch \in SUBSET Unsettled :
          /\ Cardinality(batch) = Min({Batch, Cardinality(Unsettled)})
          /\ \A m \in batch, other \in Unsettled \ batch : OnAir(m) <= OnAir(other)
          /\ worker' = IF batch = {} THEN Scan
                       ELSE [worker EXCEPT !.pc = "analyze", !.todo = batch]
    /\ UNCHANGED <<syncVars, analysis, cache, scanned, job>>

\* The row of the mention, and the document in the cache unless it is to be
\* made anew.  A detail view leaves a failed analysis as it is.
Fetched_Trusting(m, how) ==
    IF m \notin mentions THEN NoJob
    ELSE [pc |-> IF how = "refresh" \/ Status(m) = "none" THEN "mark" ELSE "ready",
          row |-> m, how |-> how]
Fetched(m, how) ==
    IF m \notin mentions THEN NoJob
    ELSE IF how # "refresh" /\ m \in cache THEN [pc |-> "ready", row |-> m, how |-> how]
    ELSE IF how = "view" /\ Status(m) = "error" THEN NoJob
    ELSE [pc |-> "mark", row |-> m, how |-> how]

TakeNext ==
    /\ worker.pc = "analyze" /\ job["worker"] = NoJob
    /\ IF worker.todo = {} THEN worker' = Scan /\ UNCHANGED job
       ELSE \E m \in worker.todo :
              /\ worker' = [worker EXCEPT !.todo = @ \ {m}]
              /\ job' = [job EXCEPT !["worker"] = Fetched(m, "analyze")]
    /\ UNCHANGED <<syncVars, analysis, cache, scanned>>

Open(m, how) ==
    /\ mishaps < MaxMishaps /\ job["api"] = NoJob /\ m \in mentions
    /\ mishaps' = mishaps + 1
    /\ job' = [job EXCEPT !["api"] = Fetched(m, how)]
    /\ UNCHANGED <<stored, mentions, pass, analysis, cache, scanned, worker>>

\* An insert for a mention that is gone raises.  The API answers 500; in the
\* worker nothing catches it, and the process ends.
Raises(p) ==
    /\ job' = [job EXCEPT ![p] = NoJob]
    /\ worker' = IF p = "worker" THEN [Scan EXCEPT !.pc = "down"] ELSE worker

\* set_analysis_status.
SetStatus(p, status, attempts, then) ==
    LET m == job[p].row
    IN  IF m \in mentions
        THEN /\ analysis' = [x \in DOMAIN analysis \cup {m} |->
                   IF x = m THEN [status |-> status, attempts |-> Attempts(m) + attempts]
                   ELSE analysis[x]]
             /\ job' = [job EXCEPT ![p] = then]
             /\ UNCHANGED worker
        ELSE Raises(p) /\ UNCHANGED analysis

MarkPending(p) ==
    /\ job[p].pc = "mark"
    /\ IF job[p].how = "view" THEN SetStatus(p, "pending", 0, NoJob)
       ELSE SetStatus(p, "pending", 1, [job[p] EXCEPT !.pc = "ask"])
    /\ UNCHANGED <<syncVars, cache, scanned>>

\* The model answers.  The document is in S3 before the row says ready.
PutAnalysis(p) ==
    /\ job[p].pc = "ask"
    /\ cache' = cache \cup ({job[p].row} \cap mentions)
    /\ job' = [job EXCEPT ![p].pc = "ready"]
    /\ UNCHANGED <<syncVars, analysis, scanned, worker>>

MarkReady(p) ==
    /\ job[p].pc = "ready"
    /\ SetStatus(p, "ready", 0, NoJob)
    /\ UNCHANGED <<syncVars, cache, scanned>>

\* The model, the check of its answer or the put raises.
MarkError(p) ==
    /\ job[p].pc = "ask"
    /\ SetStatus(p, "error", 0, NoJob)
    /\ UNCHANGED <<syncVars, cache, scanned>>

-----------------------------------------------------------------------------
(* Faults: any call of a process may raise or the process may die.         *)

WorkerDies ==
    /\ worker.pc # "down" /\ mishaps < MaxMishaps
    /\ mishaps' = mishaps + 1
    /\ worker' = [Scan EXCEPT !.pc = "down"]
    /\ job' = [job EXCEPT !["worker"] = NoJob]
    /\ UNCHANGED <<stored, mentions, pass, analysis, cache, scanned>>

WorkerRestarts ==
    /\ worker.pc = "down"
    /\ worker' = Scan
    /\ UNCHANGED <<syncVars, analysis, cache, scanned, job>>

ScanStep ==
    \/ ScanBindings \/ ScanRevision \/ ScanGroup \/ NotFound \/ AddMention
    \/ RecordMatch
    \/ \E b \in worker.todo : RecordUnreadable(b) \/ NothingToFind(b) \/ Look(b)
AnalysisStep(p) ==
    MarkPending(p) \/ PutAnalysis(p) \/ MarkReady(p) \/ MarkError(p)
WorkerStep == ScanStep \/ ListPending \/ TakeNext \/ AnalysisStep("worker")

MentionNext ==
    \/ SyncNext /\ Cascade
    \/ WorkerStep \/ AnalysisStep("api") \/ GroupFails
    \/ \E m \in mentions, how \in {"view", "refresh"} : Open(m, how)
    \/ WorkerDies \/ WorkerRestarts

MentionSpec == MentionInit /\ [][MentionNext]_mentionVars

\* The loop of the sync runs every RADIO_SYNC_INTERVAL_SECONDS, the worker
\* polls, a request is served, and the worker is started again.
FairMentionSpec ==
    /\ MentionSpec
    /\ WF_mentionVars(PassStep /\ Cascade) /\ WF_mentionVars(WorkerStep)
    /\ WF_mentionVars(AnalysisStep("api")) /\ WF_mentionVars(WorkerRestarts)

-----------------------------------------------------------------------------
\* However often a group is scanned again, with another revision, after an
\* error or after a crash between the mention and its record, and whatever
\* passage the model quotes this time, one keyword has one mention of it
\* (scan_once looks for the mention first).
ScanOnce ==
    \A m, other \in {x \in mentions : x.from = "scan"} :
        m.keyword = other.keyword /\ m.source = other.source => m = other

\* A mention the API shows as analysed has its document in S3, although two
\* processes write the row, may fail between any two writes, and may write
\* over what the other wrote meanwhile (_analysis, _cached_or_pending).
ReadyHasDocument == \A m \in mentions : Status(m) = "ready" => m \in cache

\* Once requests, documents, mishaps and views have come to an end, every
\* listed document has been done at the current revision, or no campaign is
\* active, and every mention is analysed or has used up its attempts: no
\* stale binding, no lost worker and no status written late blocks a loop.
EverythingSettles ==
    <>[](/\ Bindings = {} \/ \A o \in Listed : Current(o)
         /\ \A m \in mentions : Status(m) = "ready" \/
                (Status(m) = "error" /\ Attempts(m) >= RetryLimit))
=============================================================================
