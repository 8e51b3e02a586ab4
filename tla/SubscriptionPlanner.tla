------------------------ MODULE SubscriptionPlanner --------------------------
(***************************************************************************)
(* The planner (services/subscription_planner.py, plan_once) and what the  *)
(* listener (workers/listener.py) writes to the same rows.                 *)
(*                                                                         *)
(* A pass of the planner reads which stations the active campaigns want,   *)
(* reads all subscriptions, and from these two snapshots makes one small   *)
(* transaction after the other.  Campaigns are switched meanwhile, and the *)
(* listener, which streams some of the stations in the pool, writes the    *)
(* state of a subscription too.                                            *)
(*                                                                         *)
(* Which of the pool the listener streams is the subject of StreamRotation *)
(* (here any of them).  What a station's index contains is the set of its  *)
(* active campaigns: their keywords are not told apart.  The unit of time  *)
(* is the planner's pause between two passes; deadlines are the time left. *)
(***************************************************************************)
EXTENDS Integers, FiniteSets

CONSTANTS
    Stations,      \* numbered in the order of their ids
    Campaigns,
    Members,       \* Members[c]: the stations of campaign c
    Unresolvable,  \* stations whose stream URL cannot be found
    Grace,         \* RADIO_STATION_WINDDOWN_GRACE_SECONDS
    RetryTime,     \* RADIO_STATION_URL_RETRY_SECONDS
    Budget,        \* RADIO_STATION_URL_RESOLVE_PER_CYCLE
    MaxSwitches,   \* bound of the model: campaigns switched on or off
    MaxCrashes     \* bound of the model: passes cut short

\* Fewer URLs are hopeless than the passes between two tries look up (180
\* passes of 10 by default), or the first of them by id would use up the lookups.
ASSUME PlannerAssumption ==
    /\ Stations \subseteq Nat /\ IsFiniteSet(Stations)
    /\ Members \in [Campaigns -> SUBSET Stations]
    /\ Unresolvable \subseteq Stations
    /\ {Grace, MaxSwitches, MaxCrashes} \subseteq Nat
    /\ {RetryTime, Budget} \subseteq Nat \ {0}
    /\ Cardinality(Unresolvable) < RetryTime * Budget

VARIABLES
    active,     \* campaigns with status 'active'
    row,        \* station_subscriptions
    index,      \* station_keyword_index_versions: what the newest one contains
    bindings,   \* station_keyword_bindings: the campaigns in them
    pass,       \* the planner's pass
    plans,      \* the listener's snapshot of the pool, or NoPlans
    live,       \* stations with a session
    streaming,  \* those whose session streams
    unasked,    \* history: passes since the planner last refreshed a station
    switches, crashes

campaignVars == <<active, switches>>
tables == <<row, index, bindings>>
listenerVars == <<plans, live, streaming>>
vars == <<campaignVars, tables, pass, listenerVars, unasked, crashes>>

Never == -1
NoPlans == {Never}
NoRow == [state |-> "absent", reason |-> "none", left |-> Never, url |-> FALSE, retry |-> 0]

\* desired_bindings: the campaigns that ask for a station.
Wanted(s) == {c \in active : s \in Members[c]}
Requested == {s \in Stations : Wanted(s) # {}}

\* assigned_stations.
Pool == {"starting", "active", "degraded", "pending_capacity", "desired"}

\* ACTIVE_SUBSCRIPTION_STATES.
ActiveStates == {"starting", "active", "degraded", "winding_down"}

Idle == [at |-> "idle", desired |-> [s \in Stations |-> {}],
         existing |-> [s \in Stations |-> NoRow], todo |-> {}, budget |-> 0]

Init ==
    /\ active \in SUBSET Campaigns
    /\ row = [s \in Stations |-> NoRow]
    /\ index = [s \in Stations |-> {}]
    /\ bindings = [s \in Stations |-> {}]
    /\ pass = Idle
    /\ plans = NoPlans /\ live = {} /\ streaming = {}
    /\ unasked = [s \in Stations |-> 0]
    /\ switches = 0 /\ crashes = 0

\* The API, at any time.
Switch(c) ==
    /\ switches < MaxSwitches
    /\ switches' = switches + 1
    /\ active' = IF c \in active THEN active \ {c} ELSE active \cup {c}
    /\ UNCHANGED <<tables, pass, listenerVars, unasked, crashes>>

-----------------------------------------------------------------------------
\* plan_once.  The stations of a phase are taken in the order of their ids.
First(S) == CHOOSE s \in S : \A t \in S : s <= t
Asked == {s \in Stations : pass.desired[s] # {}}
Known == {s \in Stations : pass.existing[s].state # "absent"}

At(phase) == pass.at = phase /\ pass.todo # {}
Current == First(pass.todo)

\* On to the next station, or to the next phase.
NextStation == pass.todo \ {Current}

ReadDesired ==
    /\ pass.at = "idle"
    /\ pass' = [pass EXCEPT !.at = "read", !.desired = [s \in Stations |-> Wanted(s)]]
    /\ UNCHANGED <<campaignVars, tables, listenerVars, unasked, crashes>>

ReadExisting ==
    /\ pass.at = "read"
    /\ pass' = [pass EXCEPT !.at = "upsert", !.existing = row, !.todo = Asked, !.budget = Budget]
    /\ UNCHANGED <<campaignVars, tables, listenerVars, unasked, crashes>>

\* The state a station comes back with.
Revived(record) ==
    CASE record.state = "stopped" -> "desired"
      [] record.state = "winding_down" ->
            IF record.reason = "was_active" THEN "active" ELSE "desired"
      [] OTHER -> record.state

Refreshed_TimerRuns(s, record) == [row[s] EXCEPT !.state = Revived(record)]

\* What the UPDATE makes of a row.
Refreshed(s, record) == [row[s] EXCEPT !.state = Revived(record), !.left = Never]

Upsert ==
    /\ At("upsert")
    /\ LET s == Current
       IN /\ row' = [row EXCEPT ![s] = IF s \in Known THEN Refreshed(s, pass.existing[s])
                                       ELSE [NoRow EXCEPT !.state = "desired"]]
          /\ unasked' = [unasked EXCEPT ![s] = 0]
    /\ pass' = [pass EXCEPT !.at = "fill"]
    /\ UNCHANGED <<campaignVars, index, bindings, listenerVars, crashes>>

\* _fill_stream_url: a lookup that fails costs as much as one that succeeds.
MayLookUp_NoBackoff(s) == pass.budget > 0 /\ ~pass.existing[s].url

MayLookUp(s) ==
    LET record == pass.existing[s]
    IN pass.budget > 0 /\ ~record.url /\ record.retry = 0

FillStreamUrl ==
    /\ At("fill")
    /\ LET s == Current
       IN IF MayLookUp(s)
          THEN /\ row' = [row EXCEPT ![s] = IF s \in Unresolvable THEN [@ EXCEPT !.retry = RetryTime]
                                            ELSE [@ EXCEPT !.url = TRUE, !.retry = 0]]
               /\ pass' = [pass EXCEPT !.at = "upsert", !.todo = NextStation, !.budget = @ - 1]
          ELSE /\ pass' = [pass EXCEPT !.at = "upsert", !.todo = NextStation]
               /\ UNCHANGED row
    /\ UNCHANGED <<campaignVars, index, bindings, listenerVars, unasked, crashes>>

\* _wind_down_unreferenced.
Unreferenced == {s \in Known \ Asked : pass.existing[s].state # "stopped"}

\* Whether it was running, for a revival within the grace period.
Before(record) == IF record.state \in ActiveStates THEN "was_active" ELSE "was_idle"

WoundDown(s, record) ==
    CASE record.left = Never ->
            [row[s] EXCEPT !.state = "winding_down", !.left = Grace, !.reason = Before(record)]
      [] record.left = 0 ->
            [row[s] EXCEPT !.state = "stopped", !.reason = "none", !.left = Never]
      [] OTHER -> row[s]

WindDown ==
    /\ At("winddown")
    /\ row' = [row EXCEPT ![Current] = WoundDown(Current, pass.existing[Current])]
    /\ pass' = [pass EXCEPT !.todo = NextStation]
    /\ UNCHANGED <<campaignVars, index, bindings, listenerVars, unasked, crashes>>

\* _publish_indexes: first the bindings, then a new version, if the contents have
\* changed (the numbers of the versions are left out).
ReplaceBindings ==
    /\ At("bind")
    /\ bindings' = [bindings EXCEPT ![Current] = pass.desired[Current]]
    /\ pass' = [pass EXCEPT !.at = "publish"]
    /\ UNCHANGED <<campaignVars, row, index, listenerVars, unasked, crashes>>

Publish ==
    /\ At("publish")
    /\ index' = [index EXCEPT ![Current] = pass.desired[Current]]
    /\ pass' = [pass EXCEPT !.at = "bind", !.todo = NextStation]
    /\ UNCHANGED <<campaignVars, row, bindings, listenerVars, unasked, crashes>>

\* A phase has gone through its stations.
EndPhase ==
    /\ pass.todo = {}
    /\ \/ pass.at = "upsert" /\ pass' = [pass EXCEPT !.at = "winddown", !.todo = Unreferenced]
       \/ pass.at = "winddown" /\ pass' = [pass EXCEPT !.at = "bind", !.todo = Asked]
       \/ pass.at = "bind" /\ pass' = [pass EXCEPT !.at = "normalize"]
    /\ UNCHANGED <<campaignVars, tables, listenerVars, unasked, crashes>>

\* _normalize_rotation_pool.
Normalized(record) ==
    IF record.state = "desired" THEN [record EXCEPT !.state = "pending_capacity", !.reason = "none"]
    ELSE record

Normalize ==
    /\ pass.at = "normalize"
    /\ row' = [s \in Stations |-> Normalized(row[s])]
    /\ pass' = [Idle EXCEPT !.at = "sleep"]
    /\ UNCHANGED <<campaignVars, index, bindings, listenerVars, unasked, crashes>>

\* The pause between two passes.
Less(n) == IF n > 0 THEN n - 1 ELSE n

Sleep ==
    /\ pass.at = "sleep"
    /\ pass' = Idle
    /\ row' = [s \in Stations |-> [row[s] EXCEPT !.left = Less(@), !.retry = Less(@)]]
    /\ unasked' = [s \in Stations |-> IF unasked[s] < Grace THEN unasked[s] + 1 ELSE unasked[s]]
    /\ UNCHANGED <<campaignVars, index, bindings, listenerVars, crashes>>

\* The planner dies, or a write raises out of the pass.
Crash ==
    /\ pass.at \notin {"idle", "sleep"}
    /\ crashes < MaxCrashes
    /\ crashes' = crashes + 1
    /\ pass' = [Idle EXCEPT !.at = "sleep"]
    /\ UNCHANGED <<campaignVars, tables, listenerVars, unasked>>

-----------------------------------------------------------------------------
\* The listener: read the pool (none of it at emergency pressure), start and
\* end sessions, mark who waits.
ReadPlans ==
    /\ plans = NoPlans
    /\ \/ plans' = {s \in Stations : row[s].state \in Pool /\ row[s].url}
       \/ plans' = {}
    /\ UNCHANGED <<campaignVars, tables, pass, live, streaming, unasked, crashes>>

\* _sync_waiting_states, after the sessions were reconciled.
SyncedWaiting(s, running) ==
    IF s \in plans \ running /\ row[s].state \in {"starting", "active"}
    THEN [row[s] EXCEPT !.state = "pending_capacity", !.reason = "none"]
    ELSE row[s]

Reconcile(sessions) ==
    /\ plans # NoPlans /\ sessions \subseteq plans
    /\ live' = sessions /\ streaming' = streaming \cap sessions
    /\ row' = [s \in Stations |-> SyncedWaiting(s, sessions)]
    /\ plans' = NoPlans
    /\ UNCHANGED <<campaignVars, index, bindings, pass, unasked, crashes>>

\* handle_status, which a session calls when audio arrives and when a connection
\* has ended or could not be made.
Streams(s) ==
    /\ s \in live \ streaming
    /\ streaming' = streaming \cup {s}
    /\ row' = IF row[s].state \in {"starting", "degraded", "pending_capacity"}
              THEN [row EXCEPT ![s].state = "active", ![s].reason = "none"] ELSE row
    /\ UNCHANGED <<campaignVars, index, bindings, pass, plans, live, unasked, crashes>>

Breaks(s) ==
    /\ s \in live
    /\ streaming' = streaming \ {s}
    /\ row' = IF row[s].state \in {"starting", "active"}
              THEN [row EXCEPT ![s].state = "degraded", ![s].reason = "none"] ELSE row
    /\ UNCHANGED <<campaignVars, index, bindings, pass, plans, live, unasked, crashes>>

-----------------------------------------------------------------------------
Plan ==
    \/ ReadDesired \/ ReadExisting \/ Upsert \/ FillStreamUrl \/ WindDown
    \/ ReplaceBindings \/ Publish \/ EndPhase \/ Normalize \/ Sleep

Listen == ReadPlans \/ \E sessions \in SUBSET Stations : Reconcile(sessions)

Next ==
    \/ Plan \/ Crash \/ Listen
    \/ \E c \in Campaigns : Switch(c)
    \/ \E s \in Stations : Streams(s) \/ Breaks(s)

Spec == Init /\ [][Next]_vars

\* Both loops go on: an exception in a pass or a cycle does not end them.
FairSpec == Spec /\ WF_vars(Plan) /\ WF_vars(Listen)

-----------------------------------------------------------------------------
States == Pool \cup {"absent", "winding_down", "stopped"}
Row == [state : States, reason : {"none", "was_active", "was_idle"},
        left : {Never} \cup 0 .. Grace, url : BOOLEAN, retry : 0 .. RetryTime]

Phases == {"idle", "read", "upsert", "fill", "winddown", "bind", "publish", "normalize", "sleep"}
Pass == [at : Phases, desired : [Stations -> SUBSET Campaigns], existing : [Stations -> Row],
         todo : SUBSET Stations, budget : 0 .. Budget]

\* A timer runs exactly while a station winds down.
TypeOK ==
    /\ active \subseteq Campaigns
    /\ row \in [Stations -> Row]
    /\ \A s \in Stations : row[s].left # Never <=> row[s].state = "winding_down"
    /\ index \in [Stations -> SUBSET Campaigns] /\ bindings \in [Stations -> SUBSET Campaigns]
    /\ pass \in Pass
    /\ plans \subseteq Stations \cup {Never}
    /\ streaming \subseteq live /\ live \subseteq Stations
    /\ unasked \in [Stations -> 0 .. Grace]
    /\ {switches, crashes} \subseteq Nat

\* A station is stopped only after a whole grace period in which no pass found
\* it referenced: a timer armed before its references came back never stops
\* it (subscription_planner.py:246-248, 348-394).
GraceHonoured ==
    [][\A s \in Stations :
          row'[s].state = "stopped" /\ row[s].state # "stopped" => unasked[s] >= Grace]_vars

\* What the planner is for (plan_once): when the campaigns have come to rest,
\* the pool is the set of requested stations, each with a stream URL if it has
\* one, the newest index of each is that of its campaigns, and so are its
\* bindings, however the passes were cut short, whatever was switched in the
\* middle of one, and whatever the listener wrote meanwhile.
InAgreement(s) ==
    /\ s \in Requested <=> row[s].state \in Pool
    /\ s \in Requested => /\ row[s].url \/ s \in Unresolvable
                          /\ index[s] = Wanted(s)
                          /\ bindings[s] = Wanted(s)

PlanFollowsCampaigns == <>[](\A s \in Stations : InAgreement(s))

-----------------------------------------------------------------------------
\* A promise the code does not keep.  "The session status is the ground truth"
\* (listener.py:415-418): a station that keeps streaming is shown as active.
\* The planner writes back the state of its snapshot, and the listener reports
\* a status only when it changes.
StreamingIsShown ==
    \A s \in Stations : <>[](s \in streaming) => <>[](row[s].state = "active")
=============================================================================
