---------------------------- MODULE IndexRollout ----------------------------
(***************************************************************************)
(* How a changed keyword index reaches the matcher of the transcription    *)
(* worker: the planner publishes versions and dispatches the outbox        *)
(* (workers/planner.py, subscription_planner.py), the listener's sessions  *)
(* adopt a version and stamp their segments with it (stream_supervisor.py, *)
(* listener.py), and the worker scans a segment with a compiled matcher    *)
(* that it keeps by station and stamp (workers/transcription.py).          *)
(*                                                                         *)
(* A version is a number and its contents are a set of bindings.  The      *)
(* other phases of a planning pass are in SubscriptionPlanner, the outbox  *)
(* and the queue in Outbox and FifoQueue; here a message arrives once, and *)
(* whether its transcript is empty is left out.                            *)
(***************************************************************************)
EXTENDS Integers, Sequences

CONSTANTS
    Stations,
    Contents,    \* the sets of bindings that campaigns can ask for
    MaxVersions, \* bound of the model: versions of an index
    MaxSegments, \* bound of the model: segments on their way
    MaxRestarts  \* bound of the model: restarts of the planner and the worker

ASSUME RolloutAssumption == {MaxVersions, MaxSegments, MaxRestarts} \subseteq Nat

VARIABLES
    versions,   \* station_keyword_index_versions: the contents of each
    subscribed, \* station_subscriptions: the rows there are
    pass,       \* the planner: where its tick is, and what plan_once() read
    stamp,      \* the listener: the version each session has adopted, or NoSession
    outbox,     \* segments' jobs that are not dispatched
    queue,      \* and those that are
    matcher,    \* _matchers: its one entry, or NoMatcher
    scanned,    \* history: the last job scanned and the contents it was scanned for
    restarts

rolloutVars == <<versions, subscribed, pass, stamp, outbox, queue, matcher, scanned, restarts>>

NoSession == -1
NoMatcher == [key |-> << >>, version |-> 0]
Idle == [at |-> "idle", desired |-> << >>, todo |-> {}]
NoScan == [station |-> "none", stamp |-> 0, wanted |-> FALSE, version |-> 0, of |-> "none"]

RolloutInit ==
    /\ versions = [s \in Stations |-> << >>]
    /\ subscribed = {}
    /\ pass = Idle
    /\ stamp = [s \in Stations |-> NoSession]
    /\ outbox = << >> /\ queue = << >>
    /\ matcher = NoMatcher
    /\ scanned = NoScan
    /\ restarts = 0

Newest(s) == Len(versions[s])

-----------------------------------------------------------------------------
\* tick(): "a new station's index must exist before its segments do".
ReadCampaigns ==
    /\ pass = Idle
    /\ \E asked \in SUBSET Stations : \E desired \in [asked -> Contents] :
          pass' = [at |-> "upsert", desired |-> desired, todo |-> asked]
    /\ UNCHANGED <<versions, subscribed, stamp, outbox, queue, matcher, scanned, restarts>>

UpsertRow(s) ==
    /\ pass.at = "upsert" /\ s \in pass.todo
    /\ subscribed' = subscribed \cup {s}
    /\ pass' = [pass EXCEPT !.todo = @ \ {s}]
    /\ UNCHANGED <<versions, stamp, outbox, queue, matcher, scanned, restarts>>

EndUpserts ==
    /\ pass.at = "upsert" /\ pass.todo = {}
    /\ pass' = [pass EXCEPT !.at = "publish", !.todo = DOMAIN pass.desired]
    /\ UNCHANGED <<versions, subscribed, stamp, outbox, queue, matcher, scanned, restarts>>

\* _publish_indexes() for a station: build_index() counts a version only when
\* the contents have changed, and a version is published with the row's copy of
\* its number.
PublishIndex(s) ==
    LET contents == pass.desired[s]
        same == Newest(s) > 0 /\ versions[s][Newest(s)] = contents
    IN  /\ pass.at = "publish" /\ s \in pass.todo
        /\ same \/ Newest(s) < MaxVersions
        /\ versions' = IF same THEN versions
                       ELSE [versions EXCEPT ![s] = Append(@, contents)]
        /\ pass' = [pass EXCEPT !.todo = @ \ {s}]
        /\ UNCHANGED <<subscribed, stamp, outbox, queue, matcher, scanned, restarts>>

\* dispatch_once(): the oldest of the outbox, as many as a batch takes.  A job
\* remembers, for the property, whether a campaign still asked for its station.
PlanningDone_Ignored == pass # Idle
PlanningDone == pass.at = "publish" /\ pass.todo = {}

DispatchOutbox ==
    /\ PlanningDone
    /\ \E n \in 0 .. Len(outbox) :
          /\ queue' = queue \o [i \in 1 .. n |->
                [outbox[i] EXCEPT !.wanted = outbox[i].station \in DOMAIN pass.desired]]
          /\ outbox' = SubSeq(outbox, n + 1, Len(outbox))
    /\ pass' = Idle
    /\ UNCHANGED <<versions, subscribed, stamp, matcher, scanned, restarts>>

\* A pass that fails, or a planner that is restarted, begins again.
PlannerFails ==
    /\ pass # Idle /\ restarts < MaxRestarts
    /\ pass' = Idle
    /\ restarts' = restarts + 1
    /\ UNCHANGED <<versions, subscribed, stamp, outbox, queue, matcher, scanned>>

-----------------------------------------------------------------------------
\* reconcile(): a session starts with the version of its plan, a running one
\* adopts it without a new connection.
AdoptVersion(s) ==
    /\ s \in subscribed /\ stamp[s] # Newest(s)
    /\ stamp' = [stamp EXCEPT ![s] = Newest(s)]
    /\ UNCHANGED <<versions, subscribed, pass, outbox, queue, matcher, scanned, restarts>>

StopSession(s) ==
    /\ stamp[s] # NoSession
    /\ stamp' = [stamp EXCEPT ![s] = NoSession]
    /\ UNCHANGED <<versions, subscribed, pass, outbox, queue, matcher, scanned, restarts>>

\* _emit() and _persist_segment(): the job carries the version of its session.
CaptureSegment(s) ==
    /\ stamp[s] # NoSession
    /\ Len(outbox) + Len(queue) < MaxSegments
    /\ outbox' = Append(outbox, [station |-> s, stamp |-> stamp[s], wanted |-> FALSE])
    /\ UNCHANGED <<versions, subscribed, pass, stamp, queue, matcher, scanned, restarts>>

-----------------------------------------------------------------------------
\* _matcher_for(): the entry that is kept, or the newest index there is.
Key(job) == <<job.station, job.stamp>>

MatcherFor(job) ==
    CASE matcher.key = Key(job) -> matcher
      [] matcher.key # Key(job) /\ Newest(job.station) > 0 ->
            [key |-> Key(job), version |-> Newest(job.station)]
      [] OTHER -> NoMatcher

\* _handle_job(): segments of a station come in order, stations in any order.
\* Without an index the segment is not matched, and nothing is remembered.
ScanSegment(i) ==
    LET job == queue[i]
        chosen == MatcherFor(job)
    IN  /\ \A j \in 1 .. i - 1 : queue[j].station # job.station
        /\ scanned' = [station |-> job.station, stamp |-> job.stamp, wanted |-> job.wanted,
                       version |-> chosen.version,
                       of |-> IF chosen = NoMatcher THEN "none" ELSE chosen.key[1]]
        /\ matcher' = IF chosen = NoMatcher THEN matcher ELSE chosen
        /\ queue' = [j \in 1 .. Len(queue) - 1 |-> IF j < i THEN queue[j] ELSE queue[j + 1]]
        /\ UNCHANGED <<versions, subscribed, pass, stamp, outbox, restarts>>

WorkerRestarts ==
    /\ matcher # NoMatcher /\ restarts < MaxRestarts
    /\ matcher' = NoMatcher
    /\ restarts' = restarts + 1
    /\ UNCHANGED <<versions, subscribed, pass, stamp, outbox, queue, scanned>>

RolloutNext ==
    \/ ReadCampaigns \/ EndUpserts \/ DispatchOutbox \/ PlannerFails \/ WorkerRestarts
    \/ \E s \in Stations :
          UpsertRow(s) \/ PublishIndex(s) \/ AdoptVersion(s) \/ StopSession(s) \/ CaptureSegment(s)
    \/ \E i \in DOMAIN queue : ScanSegment(i)

RolloutSpec == RolloutInit /\ [][RolloutNext]_rolloutVars

-----------------------------------------------------------------------------
(* Whatever the planner, the listener and the worker were doing when an      *)
(* index changed, a segment is scanned with an index of its own station that *)
(* is at least as new as the one its session had adopted.  And there is one, *)
(* as long as a campaign asks for the station: a segment captured before the *)
(* first index was published is not delivered until it is ("a new station's  *)
(* index must exist before its segments do", workers/planner.py:81; "a       *)
(* republished index is picked up on the next segment without a restart",    *)
(* workers/transcription.py:428-429).                                        *)
MatcherIsCurrent ==
    scanned # NoScan =>
        /\ scanned.of \in {scanned.station, "none"}
        /\ scanned.wanted => scanned.version >= 1
        /\ scanned.version >= scanned.stamp
=============================================================================
