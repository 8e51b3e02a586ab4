# A formal model of Radio-Broadcast-Analysis

This directory holds TLA+ models of the radio monitoring pipeline in `app/`, the
TLC configurations that check them on small instances, and theorems about them
that TLAPS proves for every instance. Every definition is a translation of the
Python code; `PROJECT.json` names the lines each one stands for.

## 1. The system

Seven processes run on one host (one container each, `restart: unless-stopped`)
around one SQLite database in WAL mode, two SQS FIFO queues, a local spool of
audio segments and an S3 bucket for published results.

| Part | Code | State it keeps | What it does |
|---|---|---|---|
| API | `app/api`, `app/db.py`, `app/db_catalog.py` | campaigns, keywords, station references | CRUD, revisions, read models |
| Planner | `workers/planner.py`, `services/subscription_planner.py` | `station_subscriptions`, `keyword_index_versions`, bindings | desired set of stations, keyword indexes, outbox dispatch, stale sweep |
| Listener | `workers/listener.py`, `services/stream_supervisor.py`, `services/ring_buffer.py` | sessions in memory, a ring buffer per station | one FFmpeg session per station, reconnects, rotation of the pool, segments on disk |
| Transcription worker | `workers/transcription.py`, `services/conversation_assembler.py` | open conversations in memory, transcripts, jobs | decode, match, assemble conversations |
| Analysis worker | `workers/analysis.py`, `services/llm_analysis.py`, `services/result_writer.py`, `services/evidence.py` | mentions, evidence clips, breaker and cooldowns in memory | LLM analysis with failover, mention rows, publication, evidence |
| Cleanup worker | `workers/cleanup.py` | `audio_segments.disposition`, spool files | retention, disk pressure, pruning |
| LLM | external server | - | answers chat completions |
| Outbox | `pipeline/outbox.py` | `outbox_events` | transactional hand-over to the queues |
| Queue and inbox | `pipeline/queue.py`, `pipeline/sqs_queue.py`, `pipeline/idempotency.py` | `inbox_messages`, queue | FIFO groups, visibility, exactly-once effect |
| Content | `services/audio_classifier.py`, `services/content_classifier.py`, `services/keyword_index.py`, `services/keyword_matcher.py`, `services/text_normalization.py` | a rolling policy per session, one compiled matcher per station in memory | which audio is kept, what is a hit, what type a conversation has |
| v0.4 catalogue | `db_catalog.py`, `services/monitoring.py`, `services/keywords.py`, `services/campaigns.py`, `api/routes.py` | `managed_stations`, `campaign_station_members`, the keyword document in S3 | campaign requests and what they do to stations |
| v0.3 mentions | `db.py`, `services/sync.py`, `services/semantic.py`, `services/analysis.py`, `analysis_worker.py` | `mentions`, `sync_objects`, `semantic_scan_objects`, `mention_analysis` | mirrors result documents from S3, scans their transcripts, analyses mentions |
| Job recovery | `pipeline/heartbeat.py` | `transcription_jobs`, `worker_heartbeats` | heartbeats, stale job sweep |

A segment travels as follows: the listener writes the bytes to the spool, then
commits the segment row, its job and an outbox event in one transaction; the
planner's dispatcher sends the event; the transcription worker transcribes and
matches the segment, commits transcript and inbox row in one transaction, folds
the segment into the station's open conversation (memory only) and, when one
closes with a match, commits the conversation with an outbox event for the
analysis queue; the analysis worker analyses it, commits mention and inbox row,
publishes to S3 and captures the evidence clip; the cleanup worker deletes the
audio nobody needs.

The hard parts: two-phase hand-overs between a database and a queue, a crash at
any point of them, redelivery and reordering, state in memory that a
transaction in the database already acknowledged, deletion of files another
process is about to read, fairness of the rotation, and failure accounting in
the circuit breaker.


What makes each part correct:

| Part | It is correct if |
|---|---|
| Outbox | a committed event is sent or visibly given up, exactly after the allowed number of refusals; a group keeps its order as long as nothing is refused |
| Queue and inbox | every accepted message gets a verdict, a group's messages in order, and its effect is committed once, across redeliveries and resends |
| Conversation assembler | a conversation is chronological, bounded, takes each segment once, keeps every hit, and has an id of its own |
| Segment files, jobs, dispositions | no job waits for audio that is gone, audio with a hit stays, other audio is reclaimed, no decision on an old read undoes another |
| Ring buffer, session | a segment is sample for sample the audio between its bounds; nothing the policy kept is lost at a chunk, a dropout or a stop |
| Rotation | nobody is overtaken twice while waiting, and everybody is served |
| Analysis worker | a real analysis is never overwritten, a recorded export is whole, idle time catches up with an outage |
| Breaker and chain | the breaker opens at its threshold, probes after its reset, and the count cannot stick; a resting tier is not asked |
| Planner | the pool, the stream URLs and the indexes come to follow the active campaigns; nothing is stopped before its grace period is over |
| v0.4 catalogue | once requests have ended, document, reference counts and attributions say what the campaigns say; a pinned station is never touched; a station nobody wants is stopped, a wanted one comes back |
| v0.3 mentions | the mentions of a document are those of its last replacement; a scan adds a mention once; a ready mention has its document; everything is worked off |
| Audio policy | only what has lasted, or what the settings refuse, is dropped; a voice is never taken for music |
| Matching | every utterance of a keyword is reported, once, with the characters and segments it was said in |
| Index roll-out | a segment is scanned with an index at least as new as the one its session had adopted, and not before there is one |
| Rows of a mention | keywords point at their words, quotes were broadcast, and every owner of a keyword is told unless its own policy says otherwise |

## 2. The modules

| Module | Models | Built on |
|---|---|---|
| `Outbox` | `pipeline/outbox.py`: producers and `dispatch_once` | - |
| `FifoQueue` | `pipeline/queue.py`: groups, visibility, deduplication | - |
| `Consumer` | `pipeline/idempotency.py`: `InboxGuard`, `MessageProcessor.poll_once` | `FifoQueue` |
| `InOrderDelivery` | the abstract promise of the two above | - |
| `ConversationAssembler` | `services/conversation_assembler.py`, one station | - |
| `SegmentLifecycle` | what listener, transcription worker, cleanup worker, sweeper and evidence capture do to one station's segments | - |
| `StreamRotation` | `StreamSupervisor.reconcile` and its ledger of turns | - |
| `RingBuffer` | `services/ring_buffer.py` | - |
| `StationSession` | `StationSession` of `services/stream_supervisor.py` | `RingBuffer` |
| `SubscriptionPlanner` | `plan_once` of `services/subscription_planner.py`, and what the listener writes to the same rows | - |
| `LlmAnalysis` | `services/llm_analysis.py`: breaker, chain, attempts | - |
| `AnalysisWorker` | `workers/analysis.py`, the writes of `services/result_writer.py` and `services/evidence.py` | `LlmAnalysis` |
| `MentionSync` | the v0.3 mentions: `services/sync.py` and the campaign requests of `db.py` | - |
| `MentionAnalysis` | `analysis_worker.py`, `services/semantic.py`, `services/analysis.py` | `MentionSync` |
| `StationCatalog` | `db_catalog.py`, `services/monitoring.py`, `services/keywords.py`, the campaign routes | - |
| `AudioPolicy` | `services/audio_classifier.py` | - |
| `TextNormalization` | `services/text_normalization.py`, the repetition test of `services/transcription.py` | - |
| `KeywordMatching` | `services/keyword_index.py`, `services/keyword_matcher.py` | `TextNormalization` |
| `IndexRollout` | how an index reaches the matcher: planner, listener, transcription worker | - |
| `MentionRecord` | what is written of a conversation and shown of it: assembler, content classifier, contracts, analyser, result writer, read views | - |

`MC_<module>` is the instance TLC checks; `<module>_proofs` holds theorems. `Capture_proofs`
is about `RingBuffer`, `StationSession`, `AudioPolicy`, `IndexRollout`, `StreamRotation` and
`KeywordMatching`,
`Analysis_proofs` about `LlmAnalysis`, `AnalysisWorker`, `MentionSync` and `MentionAnalysis`,
`Conversation_proofs` about `ConversationAssembler` and `MentionRecord`.
`MC_Content` puts `AudioPolicy`, `IndexRollout`, `KeywordMatching` and
`MentionRecord` beside each other: they share no state, so one of them moves while
the others are still where they begin, and the run explores each for itself. The
definitions keep the names of the code where they can. A definition whose name
ends in `_Something` and that no other definition uses is a mutant: a way the
definition it is named after could be wrong, which the properties must notice.

### How state and actions correspond

**Outbox.** `row[e]` is the row of `outbox_events` (status, attempts, lease);
`waiting` holds the rows whose `available_at` lies ahead and `ahead` the order
of the table by it. A cycle of `dispatch_once` is split where the code leaves the
database: `ReclaimStaleLeases`, `ClaimBatch` (one transaction each), then per event
the send (`SendAccepted`, `SendRaised`) and the write of its outcome (`MarkSent`,
`ScheduleRetry`, `MarkFailed`, `Release`). `Crash` may come at every point,
`LeaseExpires` and `BackoffElapses` stand for the clock. `Prune` is
`OutboxDispatcher.prune`. The order of the queue is `arrived`.

**FifoQueue, Consumer.** A copy is one accepted send. `ReceiveBatch` takes
the first visible copies of the groups that have none in flight; for each of the
batch `PreCheck` reads the inbox, `Commit` is the handler's one transaction (result
and inbox row), `RaiseRetryable` / `RaisePermanent` / `RecordFailed` its failures
and `DeleteMessage` comes last. `Abandon` is a crash or an exception out of the
loop. `Clock` lets a visibility, a deduplication window or an inbox row lapse. The
queue the code ships for tests is the model of SQS FIFO here; the pipeline relies on
nothing else of it.

**ConversationAssembler.** `station` is the record of `_StationState` with the
open conversation, the preroll, the seen numbers and the end of the last
segment; `observe` is the one operator `Observe`, from its early returns to the
conversations it closes. `Air`, `Reconnect` and `NewTurn` are the listener,
`Deliver` and `Repeat` the queue, `Shutdown` is `close_all`. The constant
`AcrossSessions` says whether a segment may be delivered after its session ended;
see section 9.

**SegmentLifecycle.** One record per segment across file, `audio_segments`,
`transcription_jobs`, message, inbox and transcript. The listener's two steps
(`WriteBytes`, then `CommitSegment` or `Rollback`), the five transactions of
`_handle_job` (`Handle`, by the stage it is at), the conversation's commit
(`CommitConversation`), the sweeper (`Sweep`), and the cleanup worker's query and
two-step deletion (`FindVictims`, `RemoveFile`, `MarkDeleted`, `PruneRow`) interleave
freely, and each process may crash between two of them.

**StreamRotation.** `sessions` are the running ones, `elapsed` the length of
their turns, `served` the ledger. The ledger's times are kept as ranks because
only their order is used. `Cycle` is one whole `reconcile`: prune, drop dead
tasks and stations no longer assigned, end turns, start stations. `TaskEnds` and
`Reassign` happen between two cycles. Whether a station is in the middle of
something is nondeterministic.

**RingBuffer, StationSession.** A sample is the pair of its connection and its
offset, so a segment's content can be compared with what it should be. `pc` is
the await the session is suspended at: the read of the stream, the hand-over of a
segment, the hand-over at a chunk, the end of a connection, the back-off.
`RequestStop` and `Cancel` may come at every one of them. What the classifier
says of a window is nondeterministic.

**SubscriptionPlanner.** `row[s]` is the row of `station_subscriptions`, `index[s]`
the contents of its newest keyword index, `bindings[s]` the campaigns in its
bindings. `pass` is `plan_once`: the snapshots (`ReadDesired`, `ReadExisting`) and
then one step per transaction: `Upsert` and `FillStreamUrl` for each requested
station in the order of the ids, `WindDown` for the others, `ReplaceBindings` and
`Publish`, and `Normalize` at last. `Crash` cuts a pass short between two of
them; `Sleep` is the pause, the unit of the deadlines. `Switch` is the API. The
listener's cycle is `ReadPlans` and `Reconcile`, its sessions write with `Streams`
and `Breaks`; which stations get a session is the business of `StreamRotation`
and nondeterministic here. Between its reconciling and its marking who waits the
listener's own sessions touch none of the rows marked, so the two are one step.

**LlmAnalysis, AnalysisWorker.** `failures` and `openLeft` are the breaker
(`openLeft` is the time left until it half-opens), `rest` the tiers' cooldowns,
`call` the analysis under way, with its attempt and the tier it has come to.
`Ask` is one request to one tier. The worker's `pc` goes through `tick`: a message
(`Receive`, `Request`, `Persist`, `Put` three times, `RecordKey`, `CaptureFirst`,
`Delete`), or the sweeps over the clips (`ReadClips`, `CaptureNext`) and over the
fallbacks (`Probe`, `ReadFallbacks`, `HealNext`, `Request`, `Healed`, `NotHealed`).
`created` is the order of the mentions, which is what the sweeps page through.

**MentionSync, MentionAnalysis.** `campaigns`, `mentions`, `syncObjects`, `scanned` and
`analysis` are the tables, `listing` and `cache` what lies in S3. A pass of the sync
is split at every call that leaves its thread: `ReadBindings`, `ListObjects`,
`ExamineObject`, `ReplaceMentions`, `PassFails`. A keyword's row is its entity and the
revision that inserted it, because every request deletes a campaign's keywords
and inserts them anew; `Cascade` is what SQLite then deletes. The worker's
loop scans (`ScanBindings` ... `RecordMatch`) and then analyses (`ListPending`, `TakeNext`);
`MarkPending`, `PutAnalysis`, `MarkReady` and `MarkError` are the writes of
`_analysis`, which the API does too when a mention is opened (`Open`).

**StationCatalog.** `request[r]` is a request between two of its calls. A campaign
request commits (`Commit`, as `CreateCampaign`, `ChangeStatus`, `PatchStatus` or
`DeleteCampaign`), publishes the document in two steps (`ReadBindings`,
`PutDocument`) and sees to the stations (`SetMembers`, `Recount`, `ReadDue`,
`WindDown`, `ReadSlots`, `StartMember`, `SetState`, `Attribute`). `RequestFails` is an exception
or a restart at any of these points. `behind` remembers what a change was never told to,
so that the property can say exactly what is owed when nothing failed.

**AudioPolicy.** A feature is a level of sixths, as `_ramp` makes them; `Verdicts` are
the classes the scores can give with or without the vote of the detector.
`run`, `speechEnd` and `position` are the counters of the policy, `failures` those of
the detector. `HearWindow` is `classify` and `decide`, `PassWindow` the pass-through backend,
`Dropout` the reset.

**KeywordMatching.** `Compile` builds the automaton with its failure links,
`Decode` a transcript out of the segments that are believed, `ReadSymbol` is one
turn of the loop of `find`, `Report` the mapping back to the original characters and
the deduplication. The reference, `Occurrences`, knows neither terms nor automaton.

**IndexRollout.** `ReadCampaigns`, `UpsertRow`, `EndUpserts`, `PublishIndex` and
`DispatchOutbox` are the planner's tick, in the order of the code; `AdoptVersion` and
`CaptureSegment` a session, `ScanSegment` the worker with the one matcher it keeps.

**MentionRecord.** `HearPart` is a segment with its matches, `Commit` the close of the
conversation with everything computed there (transcript, rebased and deduplicated
matches, type), `Analyse` the rows of `persist` and of the analysis, `Heal` the sweep over the
fallbacks, `Prune` the loss of a transcript. `Feed`, `Highlights`, `MetadataDocument`
and `TranscriptDocument` are what users are shown. Words are one character
wide and the vocabulary of the cues is a function from words to types.

### What is abstracted

Deadlines and leases are the time left or a flag that they have passed, never a
date. Payloads, texts, file names and rows' other columns are left out. A
transaction of SQLite is one step: WAL mode with `BEGIN IMMEDIATE` serialises the
writers, and the retries of a busy database end in a commit or in an exception,
both of which the models have. Counters that only bound the model (`MaxCrashes`,
`MaxRejects`, `MaxCopies`, `MaxFaults`, ...) are named so where they are declared.

## 3. The runs

Each configuration asks one question; `PROJECT.json` lists its properties and,
for each property, a mutant of the code's model that breaks it. Deadlock is not
checked where every bounded input can be used up and the system then rightly
rests (outbox, consumer, assembler, lifecycle, capture); the rotation, the planner
and the analysis worker never rest, so there it is.

| Run | Instance | Shows |
|---|---|---|
| `outbox_single` | 3 events in 2 groups, one of them of a queue without a client; batches of 2, 2 attempts, 2 refusals per event, 1 crash | nothing committed is lost; a group keeps its order until the first failure; every event is resolved |
| `consumer_single` | 2 messages of a group and 1 of another, 3 accepted copies, batches of 2, 1 retryable failure, 1 crash | nothing lost, effect once, `InOrderDelivery` is implemented, the queue is drained |
| `assembler` | 4 segments of 2 classes, with and without gaps and hits, one reconnect or new session, 2 segments in flight in any order, 1 delivered twice | conversations are told in order, each segment in one place of one of them; they are bounded and distinctly named; no accepted hit is lost; silence splits |
| `lifecycle_failures` | 2 segments, any of them a hit; 1 crash of any process, 1 exception, 1 failing file operation | audio that is needed stays, dispositions do not regress, nothing is stranded |
| `lifecycle_live` | 2 segments, 1 crash | jobs are resolved and disposable audio is reclaimed |
| `rotation_fair` | 4 stations, 2 slots, turns of 1 to 2 units, tasks that die, one change of the assignment | no overtaking, everyone is served |
| `capture` | a ring of 11 samples, reads of up to 3, windows of 2, chunks of 4 with overlap 1 and lead 1; 13 samples on the first connection, 6 on the second | segments are exact audio; what is kept survives chunk boundaries, dropouts and stops, in one piece and under a label that is not too mild |
| `planner` | 2 stations, one of them without a stream URL to be found; 2 campaigns, which share a station; 3 switches, 1 pass cut short, grace and retry of 2 pauses, 1 lookup per pass | a timer armed before a revival stops nothing; pool, URLs, indexes and bindings come to follow the campaigns |
| `analysis` | 2 conversations, one of which cannot be clipped; 1 hosted tier over the local one, breaker threshold 2, 1 repair; pages and batches of 1; an outage that begins or ends at any point, 1 crash or raising write | a real analysis is kept, an export is whole, the breaker counts right; idle time heals |
| `mentions` | 1 campaign with 1 keyword, 1 document and its transcript, 2 campaign requests, 1 fault of any process or opening of a mention; 2 attempts | mentions follow the record of the sync, a scan adds once, what is ready has its document, everything settles |
| `catalog` | 1 station beside a pinned one that leaves one slot; 1 campaign, created, changed and deleted without end; 2 requests at a time, 1 fault | document, counts and attributions agree between requests; the pinned row stays; the station comes to what the campaigns say |
| `content` | policy: 6 settings, features of 4 levels, 5 windows; roll-out: 2 stations, 2 versions, 1 segment on its way, 1 restart; matching: up to 2 of 6 keywords, every transcript of 1 or 2 segments of up to 2 symbols out of 6; record: up to 3 of 7 segments, 2 campaigns, 3 stored policies, 2 answers of the model | what section 1 asks of the audio policy, the matching, the roll-out and the rows of a mention |

Why the bounds suffice. *Outbox*: two events of one group show an overtaking,
the third one that an unwired or foreign event gets in nobody's way; two attempts
separate "first", "last" and "too many"; a batch of two is the smallest in which a
crash leaves an unprocessed rest. *Consumer*: three copies allow a message, its
resend and a successor in its group. *Assembler*: four segments give a lead-in, a
hit, a segment after the end and one of the next conversation, so every limit
(3 segments, 5 time units, 2 of silence) is reached and passed. *Lifecycle*: the
actions touch a segment, or a conversation and its segments; two segments are
the smallest conversation that can lose a part. *Rotation*: with four stations
and two slots, two wait while two run, and overtaking needs two that wait. *Capture*:
13 samples overrun the ring of 11, and a chunk of 4 is two windows, so that segments
start and end at every phase of window and ring; what depends on the ring's size
is proved for all sizes (section 5). *Analysis*: a page of one with two mentions
puts a hopeless one in front of the other in both sweeps, and threshold 2 with one
repair lets a breaker be tripped by one call or by two. *Mentions*: the first
request creates the campaign, the second changes or deletes it in the middle of a
pass or a scan. Two documents or two keywords add steps that touch different
rows; what they share are the budgets of a cycle, which one document never
exhausts, so that starvation at a budget is outside this run (section 9). *Catalog*: two requests are what a crossing needs, and requests on one
campaign meet on every shared row; that a recount treats each station by itself is
visible in `Recounted`, and what concerns pinned stations is proved for any number.
*Content*: a run of a class has to pass each of the limits 1, 2 and 3, which
5 windows do after speech and after silence; among the keywords are one inside another, two with
a common term, a phrase, and forms that normalise alike; the segments of a
conversation have blanks at either end, no words at all, no times, every class and cues of
conflicting types. *Planner*: three switches take a
station's references away, bring them back and take them away again, which is
what a stale timer needs; a hopeless URL in front of the other with one lookup
per pass shows what the back-off is for.

## 4. Fairness

Only what the code schedules is fair; crashes, exceptions, arrivals, outages and
other inputs are not.

- *Outbox*: weak fairness of each dispatcher's cycle (the planner's loop calls
  `dispatch_once` for ever and catches what it raises, and the container is
  restarted), and of the clock for leases and back-off.
- *Consumer*: weak fairness of a consumer's poll and of a visibility timeout
  whose message nobody works on.
- *SegmentLifecycle*: weak fairness of every process's own next step; strong
  fairness of `Receive(s)`, because the queue hands out a group's messages oldest
  first: one that stays in it cannot be passed over for ever, though it is out of
  reach while another is worked on.
- *StreamRotation*: weak fairness of `Cycle`. `tick` flips at each cycle, so a cycle
  that changes nothing is still a step.
- *SubscriptionPlanner*: weak fairness of the planner's and of the listener's loop;
  an exception ends neither. That a pass is cut short and that a campaign is
  switched happens finitely often by the bounds.
- *AnalysisWorker*: weak fairness of the worker's loop, of the visibility timeout
  and of the clock. That providers answer again is never assumed: the property
  claims something only for the case that they do.

- *MentionAnalysis*: weak fairness of the sync's pass (a loop with an interval that
  catches what a pass raises), of the worker's loop, of a request of the API that
  has begun, and of the worker's restart. Documents, campaign requests and
  openings are not fair, and by their bounds finite.
- *StationCatalog*: weak fairness of a request's next call and of the end of a grace
  period. Nothing makes a campaign request come: `CampaignsDecide` claims something only if
  recounts, or looks at the timers, happen again and again, for in the code only
  a change of a campaign's status leads to one (section 9).

`AudioPolicy`, `IndexRollout`, `KeywordMatching` and `MentionRecord` have safety properties only.

## 5. What is proved

TLAPS checks these for every value of the constants the modules' assumptions
allow; the assumptions are named in the module that declares the constants, and
TLC evaluates them in every run.

**`Outbox_proofs`**. `OutboxTyped` needs, besides the types, that a dispatcher
in mid-cycle holds a batch that is not empty (`HoldsCurrent`), or the head of its
batch would be nothing. `NothingStallsSilently` is proved from `StallInv`: a
dispatcher at the point past a send has an event that has arrived, a row
marked sent has arrived, and one marked failed has been reported. The invariant
property alone is not inductive, because `MarkSent` takes a row out of
"sending" on the strength of a send that happened two steps earlier. The theorem
holds for any number of dispatchers, although the deployment has one.
`GroupsStayInOrder` is about that one dispatcher. Its invariant, `OrderInv`, says of two
wired events of one group that until the earlier has arrived it stands before the later one
wherever that one is: in the table (`TableInv`: the order of the rows that are due is
transitive), in the batch, and in the queue (`InLine`). The step that needs care is
`ClaimBatch`: of the rows before the earlier event no fewer are before the later one, so
whenever the later one is among the first `BatchSize` the earlier one is too
(`BatchTakesEarlier`, on the cardinality of two finite sets), and a row already "sending"
would have to be in the hands of the only dispatcher, which holds nothing at that point (`Calm`).

**`Consumer_proofs`**. `NothingIsLost` holds for any number of consumers: a copy is deleted only
by a consumer whose verdict is on record (`VerdictInv`), and pruning takes an inbox row only
when no copy is left. `EffectsHappenOnce` and `ConsumerImplementsPromise` assume one
consumer, which is what the deployment starts per queue: with two, a visibility
timeout that runs out in the middle of a handler lets the other one take effect too, or a
failure overwrite a success (section 9). Each needs more than the property. For effects it is
`OnceInv`: what is done stays on record, or has expired with no copy left to deliver, and the
message being handled is not done. For the refinement it is `OrderInv`, that before a copy in
hand nothing of its group is left, together with `AcceptedInv`, that the abstract order of
acceptance is the order of the first copies: then the message the consumer settles is the one
`NextOfGroup` allows. `QueueInv` and `LoopInv` say which copies there are and that
a consumer in the middle of a poll holds the one it is at.

**`Capture_proofs`** has what leads from a stream to a match: the buffer, the session, the
policy, the index, the turns of the stations and the scan. `AlwaysFaithful`: the sample at offset `a` lies at index
`a % capacity` for all offsets the ring still holds. An append writes one or
two slices; the argument is the uniqueness of remainders (`RemainderUnique`,
`RemainderShift`): two offsets less than the capacity apart have different
indexes. `ReadIsExact` follows for a read in one or two slices.
`SessionImplementsBuffer`: each step of a session is a
step of its buffer or leaves the buffer alone. `ExactSegments` uses the buffer's
invariant through it, and `OpenInRing`: an open segment is shorter than a chunk and ends
at most one window and one read behind the stream, so it is still in the ring
when it is cut out. That needs `Chunk + 2 * WindowLen + MaxAppend <= Capacity`,
which is stronger than the validators of `config.py:1085-1092`; the defaults
satisfy it amply (20 + 6 + less than 1 of 60 seconds).
`NothingIsClipped` and `SpeechIsKept` look at the session from the side of the windows. What was
decided so far ends at `Decided`; a segment is open exactly while the last window was kept
(`OpenWhileKept`), it ends there, and it reaches back over the kept samples before its end as
far as the overlap does (`ReachesBack`). So a stretch of kept samples that a new window completes
starts inside the segment the window joins (`KeptBack`), and no step tears a stretch apart that
was in one segment (`PiecesStay`). For the label, what was handed over is behind `Decided`
(`SentBehind`) and the open segment's label covers its windows (`LabelCovers`). That needs
`Lead < 2 * WindowLen`, a hypothesis of `SpeechIsKept` and not of the model: section 9.
`OnlyTheDispensableIsDropped` says that the policy's three counters tell the history they stand
for: the run is the longest suffix of one class, the position the number of windows, and
the end of speech that of the last window with a voice; a dropped window then has behind it
exactly what the property asks for. `VoicesAreKept` is about the scores: no window with a vote
for a voice, and no speech, comes out as a song. `MatchedWithTheRightIndex` follows an
index from the planner to the matcher: what a session stamps on a segment has been published
(`StampsExist`), and the matcher never goes back and has loaded at least the version of the segment
it scans (`MatcherNewEnough`), also after a restart has emptied it.
`NobodyIsOvertaken` and `SlotsAreEnough` are about the turns. A waiting station was served before
every station that has got a turn since (`AheadServedLater`), also after the ledger has been
rewritten (`LedgerInOrder`), and `FirstInOrder` says that nobody is started before one who stands
further in front. That there are never more sessions than slots is a counting argument: the
places in the queue are different numbers below the number of free slots (`FirstFit`).
`ScanFindsAll` and `UtterancesAreReportedOnce` are about the scan of a transcript, for every set of
keywords, every number of symbols in a segment and every text of one or two segments. The invariant,
`ScanInv`, is the correctness of an Aho-Corasick automaton, said of ends of texts (`EndsIn`): a
failure link is the longest proper end of its node that is a node (`Linked`), a node puts
out the patterns it ends in (`OutputsAre`), and the scan is at the longest node that the
text read so far ends in (`LongestEnd`). What carries it is `StepIs`: the walk back along the links
stops at the longest end from which the symbol leads on. The same lemma serves
`_build_failure_links()`, which uses the loop of `find()` on the links it has, and `find()` itself.
From there to the property are three arguments. A normal form has the symbols in the
order of the characters they come from, without a separator at either end or two in
a row (`Formed`); so a match in symbols is a stretch of characters, and these characters,
normalised by themselves, have the match in them again (`QuoteSays`, because a part that
starts with a symbol's character goes on as the whole does: `PartNormalises`). The terms of
the index are the forms of their owners, and whole words are asked for only if all owners
ask for them (`TermIs`, `FormHasTerm`), so an occurrence, which is told without terms and
automaton, has been seen (`OccurrenceIsSighted`). And each turn of `_deduplicate()` drops
only matches of the keyword that overlap the one it keeps and are no longer
(`ThinnedThinsOut`). That the recursive definitions (links, outputs, normal form, thinning)
are defined at all is shown by least counterexamples, on the length of a node, the number of
characters and the number of matches.

**`Conversation_proofs`**. Of the assembler, two theorems need nothing of the world:
`NoHitIsDropped` rests on `KeepingHits`, by which a hit that was accepted has a place, in the
open conversation or in one that was told, and `ConversationsEndInTime` on the limits each fold
checks before it adds. `ToldInOrder` and `IdsAreDistinct` hold if the segments of a session
arrive before those of the next (`~AcrossSessions`, as in the run; section 9 has what happens
else). Their invariant, `InTurn`, says where each segment stands: what is pending is of the
current session and beyond what was folded, what waits as a lead-in is behind everything
told (`Behind`), conversations and lead-in together are in the order of the air (`Woven`), and a
conversation is named by a number that is still among those seen (`Named`). The last
needs `PreKeyword < 2 * MaxSegments`: the set of seen numbers is pruned, and a lead-in kept for
longer than the pruning reaches could name two conversations alike. In the code the lead-in is at
most the ring's 60 seconds and the pruning keeps 400 numbers. `observe()` is a long function;
`ObserveSplit` and `FoldIs` take it apart into the steps the other lemmas are about.
Of what is recorded, `WordsWereSaid` and `OwnersKnow` share the invariant `RecordInv`. It does
not say by what computation the rows came about but what is true of them: of each match of the
job, that its word stands in the transcript at its offsets and that it stems from a match of a
segment (`JobFacts`), of the type, that there were grounds for it (`RowFacts`), and of a row of
the mention, that it tells of a match of the job (`MentionFacts`). All of this is established by the
commit (`CommittedIs`) and left alone afterwards. It rests on three facts: a text joined later
leaves what is there where it is (`JoinedIs`), so the offset of a segment in the transcript up to it is its
offset in the whole (`RebasedIs`); of the matches of a keyword the strongest is kept
(`DeduplicatedIs`); and no rule of the classifier names a type without a sign of it
(`TypesHaveGrounds`). The join is a recursive function over the numbers: that it exists, and what
it is like, is shown by its smallest counterexample (`LowestNumber`) where one would use induction.

**`Analysis_proofs`**. `ExportsAreWhole` rests on `ExportInv`: at each label
of the publication, the documents put before it are there, and no step takes one
away. `RealAnalysisIsKept` rests on `AnalysedOnceInv`: a mention has its
inbox row (they are one transaction), the conversation the worker analyses for a
message has none, and a sweep only holds mentions. Then `Persist` can meet no
analysis to overwrite. `BreakerCounts` rests on `CountInv`: a call begins below the
threshold, and each attempt adds one. That `complete()` always comes to a tier
(`TurnIsATier`) is a least-number argument over the chain.

For the mentions, `DocumentsAreFollowed`, `NothingIsFoundTwice` and `ReadyIsPut` share one
inductive invariant, `MentionInv`. Its idea is that nothing returns. A request inserts its
keywords with the new revision, so a keyword a pass has read is still there or gone for
good (`KeywordsPast`); a replacement inserts its rows as a later generation, so a
mention that is gone has lost its keyword or has been replaced, and no step brings it back
(`Bygone`, `NeverAgain`). From the first follows that a cascade takes from a document's
mentions exactly the rows its record no longer owes, though the pass read the bindings long
before. From the second follows that a job whose mention was deleted while the model
answered can never say ready of another mention (`IsJob`): what is ready is in the cache or
is gone. `NothingIsFoundTwice` needs that no one but the scan adds rows of the scan, and that
there is one scan: `Looking` says the pair it asks the model about has none yet. The proofs
assume of the documents nothing but their names and of S3 nothing but that a listing names
documents.

**`SegmentLifecycle_proofs`**. `AudioIsKept` and `VerdictIsFinal` rest on `LifecycleInv`.
`NeededAudioKept` alone is not inductive: `RemoveFile` deletes on what an older query
returned, `MarkDisposition` writes without looking, and a message may come again at any
time. What holds them together is said segment by segment: while the worker has a
segment its row is pending and it is too young for the sweep (`Held`); what is no longer
to be done is in the inbox or past the orphan age, so a redelivery does not reopen it
(`Done`); and a row the cleanup worker has chosen stays disposable with a finished job
(`Condemned`), because no one else writes to such a row. It uses that a segment does not
turn four days old while the worker has it (the guard of `GrowOld`), that is, that a
message is not handled for four days.
`NoFileIsStranded` adds that the file of a victim is gone once the cleanup worker is past its
removal (`Stranded`). `ClipsHaveTheirHits` and `HitsSurvive` follow one hit through
the worker's memory and the tables (`PlacedInv`): it is in one place at a time, the open
conversation, one that is closing or one that is committed, and the committed one is on its
transcript's stamp, so `SegmentRows` finds it. Here the earlier invariant pays a second
time: a hit that has been placed is in the inbox and its row is pending or retained, hence it is
neither folded again nor deleted. `Fold` is the step that could lose one, because it overwrites
`closing`; `Settled` says that nothing is closing when it runs.

**`SubscriptionPlanner_proofs`**. `GraceIsHonoured` rests on `GraceInv`: in the row as
in the snapshot of a station that this pass does not refresh, the deadline plus
the time since the last refresh is at least the grace period (`SleepKeeps`: what one
loses the other gains). The property alone is not inductive, because `WindDown`
decides on the snapshot and not on the row. Of the listener the proof uses only that it
changes states, never a timer, and none of a station that winds down (`OnlyStates`).

**`StationCatalog_proofs`**. `PinnedStayUp` rests on `PinnedInv`: a pinned row is what
the import wrote, no campaign has a pinned member, and no request under way
holds a pinned station, neither the one it is about to set nor one it is about to
wind down (`RequestOK`). The property alone is not inductive, because `SetState` and
`WindDown` act on what an earlier call read. One lemma per action says that it keeps
rows, members and requests so; the recount's is that a row without references whose
timer must not be armed is written back as it was (`RecountKeeps`). It is assumed that the
catalogue and the list of pinned stations have no station in common.
`TheyAreTold` holds for any number of requests that cross. Whatever is not yet told is owed by a
request that is still under way: a publication not overtaken that read an older state
of the campaigns is followed by another (`DocumentInv`), a station whose count is old has a
request that will recount it (`CountsInv`), one whose members are not told of has a
request that is attaching (`AttributionInv`), and a campaign being created has no member
before its own request gives it one (`MembersInv`).

## 6. What is only model-checked

Liveness (`EventuallyResolved`, `EventuallyDrained`, `PendingJobResolved`,
`DisposableReclaimed`, `EveryoneServed`, `PlanFollowsCampaigns`, `IdleTicksCatchUp`,
`EverythingSettles`, `CampaignsDecide`), which is out of the
prover's reach. Everything else that a run checks is also stated by a theorem: every invariant,
every action property and the refinement.

## 7. What does not hold

Some statements of the repository about itself are false of the code. Each is a
property of a module that no configuration lists; naming it as an `INVARIANT` in a
copy of the configuration makes TLC print the counterexample.

| Property | Configuration | The statement, and what happens |
|---|---|---|
| `NothingRefusedInOrder` | `Assembler.cfg` | "A new session restarts the sequence space" (`conversation_assembler.py:420`), but the numbers seen in the old session are kept, and segments of the new one are taken for duplicates until its numbers pass the old ones. A station that is rotated loses the start of each turn. |
| `AcknowledgedHitsSurvive` | `Lifecycle_failures.cfg` | "A crash between them redelivers the segment" (`workers/transcription.py:17-19`), but the inbox row is committed with the transcript, before the conversation, which lives in memory. After a crash the redelivery is skipped and the hit never becomes a mention. `HitsSurviveUntilFailure` is what holds. |
| `EvidenceIsWhole` | `Lifecycle_failures.cfg` | "wrong evidence is worse than none" (`evidence.py:167-168`), but segments of the conversation without a hit are disposable, and once deleted the clip is made of those that are left. `ClipHasEveryHit` is what holds. |
| `HealReplacesTheRow` | `Content.cfg` | "Replace one mention's analysis row in place" (`result_writer.py:366`), but the upsert leaves `content_type`, `language` and `relevant` as the fallback wrote them. |
| `LateOwnersAreTold` | `Content.cfg` | A campaign that registers a keyword between two segments of a conversation is not told of it, although it was said again afterwards: only the first of the strongest matches is kept, with the owners of its time (`conversation_assembler.py:523`). |
| `FeedHasKeyword` | `Content.cfg` | A campaign's feed shows a mention without any keyword if another campaign owns each of them too: a row of `mention_keywords` has one campaign, the first (`result_writer.py:292`), and the feed looks for rows of its own (`db.py:690`). |

## 8. What is not modelled

`PROJECT.json` lists every part with its status. Left out for good: FFmpeg, ONNX,
Whisper, S3 and HTTP calls (their outcomes are inputs of the models), directory
lookups, reading endpoints other than those of a mention, the migrations,
configuration parsing, logging, the front end, and formatting everywhere. Of the modelled
parts, these are left out: heartbeats and the coverage of shards; watermarks of
the cleanup; messages of earlier schema versions; languages, scripts without
word boundaries and fuzzy matching in the matcher; audio features below the level of `_ramp`;
`station_jobs`, which requests fill and no code takes from.

## 9. Other disagreements

Seen while modelling; they have no run of their own.

- *Spare capacity.* "With spare capacity every station simply keeps listening"
  (`stream_supervisor.py:683-685`), but one turn is ended per waiting station although
  a slot is free: `SpareCapacityKeepsAll` in `StreamRotation`, refuted under its `Spec`.
- *A station that streams may be shown as something else for good.* The session
  status is to be "the ground truth" (`listener.py:422-423`), but the planner writes back
  the state of its snapshot (`subscription_planner.py:266-270`) and a session
  reports only when its status changes: `StreamingIsShown` in `SubscriptionPlanner`,
  refuted with one switch. A failed write of a status is not repeated either
  (`listener.py:444`), and a degraded station whose turn has ended stays degraded,
  because `_sync_waiting_states` passes over it.
- *URL lookups starve* if more URLs are hopeless than `RADIO_STATION_URL_RETRY_SECONDS`
  worth of passes can try: the first by id use up the budget of every pass.
  `PlannerAssumption` excludes it.
- *An export that failed is never finished.* `result_writer.py:536-541` says "a later
  pass finishes the job"; `_publish_backlog` (`workers/analysis.py:479-484`) only logs.
  `ExportFinished` in `AnalysisWorker` states it; TLC refutes it with one failing put.
- *A fallback whose one retry failed is not retried* until the process restarts,
  against `README.md:373-376`: `OutageHealed` in `AnalysisWorker`, refuted too.
  A healed analysis is not exported again: `analysis.json` keeps the fallback.
- *The breaker* counts the last attempt of a call twice (`llm_analysis.py:871` and
  `903`), so it opens after fewer failed requests than ADR-007 says ("after N
  consecutive failures", line 86), and a half-open breaker lets both attempts of a
  call through.
- *A hosted tier that answers with JSON of the wrong shape* is not rested
  (`llm_analysis.py:662`), so the tiers below it are never asked.
- *A refused event is overtaken* by later ones of its station (`outbox.py:233`)
  although `workers/transcription.py:13-15` counts on the order; hence
  `GroupOrderUntilFailure` and not `GroupOrder`.
- *With two consumers*, the failure of one overwrites the success of the other
  (`idempotency.py:117`); `docs/DOCKER_DEPLOYMENT.md:730-731` allows replicas.
- *A segment of a session that has ended*, delivered late, is spliced into the
  conversation of the new one (`conversation_assembler.py:419`); set
  `AcrossSessions = TRUE` to see `ToldInOrderOnce` fail. A conversation also goes
  on across a dropout shorter than the silence limit (214-216).
- *A running job of a dead worker* is never recovered: the sweep looks for a
  lease that nothing sets (`heartbeat.py:294`, ADR-009 section 4).
- *Retained audio never expires* (`cleanup.py:124` against
  `docs/OPERATIONS.md:136-137`).
- *Pruning a deleted segment's row* cascades to its transcript.
- *At emergency pressure* the listener has no plans, so the ledger of turns is
  emptied and the order of the stations' turns starts over.
- *A label* that was once speech_over_music stays on every later chunk of the
  same stretch (`stream_supervisor.py:516`, `526`), against 513-514. The opposite, against
  the same comment, takes a window at the allowed minimum of half a second
  (`RADIO_CLASSIFIER_WINDOW_SECONDS`): the lead of one second then holds two whole windows, and
  a segment labelled speech may begin with one that was speech over music. With the default of
  three seconds `SpeechIsKept` excludes it; TLC refutes it for `Lead = 2`, `WindowLen = 1`.
- *A segment of only the overlap* is emitted when the window after a full chunk
  is not kept. The audio of an incomplete window is dropped at a disconnect.
- *`window.truncated`* is never looked at (`stream_supervisor.py:544`); settings the
  validators accept can lose audio of an open segment.
- *`claim_next_job`* (`db_catalog.py:413-437`) refuses while any job is running, and
  nothing resets one after a crash; at present nothing calls it, so that a
  station a request puts into pending_probe stays there.
- *The keyword document* is put without a lock (`services/keywords.py:18-46`): of two
  requests the one that read the campaigns first may write last, and the
  document stays old until the next publication. `EverybodyTold` allows for it.
- *A status set by PATCH* (`api/routes.py:225-243`) is never told to the stations; and the
  time a station is to stop at is looked at only when some campaign's status
  changes (`monitoring.py:324-341`), though an activation says that the station "stops
  automatically after the grace period" (260-261).
- *`request_stop`* (`monitoring.py:264-283`) checks the references in one call and stops the
  station in another; a campaign that joins between is left with a stopping station.
- *A term of several keywords* is matched inside words as soon as one of them
  allows it (`keyword_index.py:310-314`), so that the others report it there, too.
- *Phonetic matches* are never confirmed: pass B transcribes again but no code sets
  `confirmed` afterwards.
- *The fallback to dj_commentary* (`content_classifier.py:285`) is out of reach: speech over
  music has a point for advertisement already (215-216). Three policy flags
  govern no content type (`enums.py:51-61`).
- *The voice detector*: each frame that works clears the count of failures
  (`audio_classifier.py:395`), so one that fails in the middle of each window is never
  switched off.
- *More than 50 matched keywords* make `AnalysisJobV1` raise, though `contracts.py:36-38` says
  they are truncated with a flag; the conversation is lost (`DropConversation`).
- *The analysis job's deduplication id* is a fresh one (`contracts.py:355`), though
  `workers/transcription.py:371` says "deduplicated on conversation_id".
- *The exported metadata* list campaigns whose policy excludes the mention, too.
- *The detail view* falls back to the committed text only when all transcripts are gone
  (`services/analysis.py:117`); when some are, it is silently incomplete.
  `HitsAreHighlighted` shows that no keyword gets lost by it.
- *Transcripts that always fail* use up `RADIO_SEMANTIC_GROUPS_PER_CYCLE` (`semantic.py:93`) and
  starve the ones behind them.
- *The worker of `analysis_worker.py`* is started by no container (`README.md:797-802`); it is
  modelled as the code stands.

## 10. Plan

1. The planner composed with the rotation, so that a plan becomes a session.
2. Shard coverage and heartbeats, once something reads them.
