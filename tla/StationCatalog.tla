---------------------------- MODULE StationCatalog ----------------------------
(***************************************************************************)
(* The managed stations of the v0.4 catalogue: app/db_catalog.py with      *)
(* services/monitoring.py and services/keywords.py, as the routes of       *)
(* api/routes.py call them.                                                *)
(*                                                                         *)
(* A request is a sequence of calls, each a transaction or a read of its   *)
(* own on another thread, and requests interleave at every call.  A        *)
(* campaign request commits the campaign, publishes the keyword document   *)
(* to S3 without a lock and then sees to the stations: it recounts the     *)
(* active campaigns of each and stops the ones whose time is up.  The sync *)
(* that follows a publication is MentionSync.                              *)
(*                                                                         *)
(* Nothing in the code takes a job from station_jobs (claim_next_job and   *)
(* finish_job have no caller), so what enqueue_job adds there, the last    *)
(* call of a request about a station, changes nothing and is left out; and *)
(* a station which is not imported as already running gets no further than *)
(* the states the requests put it in.                                      *)
(***************************************************************************)
EXTENDS Integers, FiniteSets, FiniteSetsExt

CONSTANTS
    Stations,   \* of the catalogue, none on its deletion list
    Pinned,     \* RADIO_LEGACY_PINNED_STATION_IDS
    Campaigns,
    Requests,   \* bound of the model: the requests under way at a time
    ActiveLimit,\* RADIO_MAX_ACTIVE_UNIQUE_STATIONS
    MaxFaults,  \* bound of the model: requests that raise, and restarts
    Absent      \* no such row

\* A row of managed_stations.
Row == [desired : {"active", "stopped"},
        actual : {"available", "pending_probe", "probing", "pending_capacity", "activating",
                  "active", "degraded", "failed_probe", "stopping", "stopped"},
        count : Nat, timer : {"none", "set", "past"}, pinned : BOOLEAN]

ASSUME CatalogAssumption ==
    /\ Stations \cap Pinned = {} /\ ActiveLimit \in Nat /\ MaxFaults \in Nat
    /\ IsFiniteSet(Stations \cup Pinned) /\ IsFiniteSet(Campaigns)
    /\ Campaigns \cap {"document", "stations"} = {}
    /\ Absent \notin Campaigns \cup Row \cup {"active", "paused"}

VARIABLES
    rows,       \* managed_stations
    campaigns,  \* the status of each campaign
    members,    \* campaign_station_members
    attributed, \* campaign_stations
    document,   \* S3: the campaigns the keyword document was made of
    request,    \* each request, between two of its calls
    behind,     \* history: what a change was never told to
    faults

vars == <<rows, campaigns, members, attributed, document, request, behind, faults>>

Known == Stations \cup Pinned
Present == {s \in Known : rows[s] # Absent}
Live == {c \in Campaigns : campaigns[c] # Absent}
Active == {c \in Campaigns : campaigns[c] = "active"}
Idle == [pc |-> "idle", op |-> "none", campaign |-> Absent, station |-> Absent,
         todo |-> {}, free |-> 0, bindings |-> {}, overtaken |-> FALSE]

\* insert of upsert_managed_station, and of import_legacy_station.
FreshRow == [desired |-> "stopped", actual |-> "available", count |-> 0,
             timer |-> "none", pinned |-> FALSE]
LegacyRow == [desired |-> "active", actual |-> "active", count |-> 0,
              timer |-> "none", pinned |-> TRUE]

Init ==
    /\ rows = [s \in Known |-> IF s \in Pinned THEN LegacyRow ELSE Absent]
    /\ campaigns = [c \in Campaigns |-> Absent]
    /\ members = [c \in Campaigns |-> {}] /\ attributed = [c \in Campaigns |-> {}]
    /\ document = {}
    /\ request = [r \in Requests |-> Idle] /\ behind = {} /\ faults = 0

Goes(r, next) == request' = [request EXCEPT ![r] = next]
Upserted(stations) ==
    [s \in Known |-> IF s \in stations /\ rows[s] = Absent THEN FreshRow ELSE rows[s]]

-----------------------------------------------------------------------------
(* Capacity.                                                               *)

Count == Cardinality({s \in Present :
             rows[s].actual \in {"activating", "active", "degraded", "stopping"}})
FreeSlots == Max({0, ActiveLimit - Count})

-----------------------------------------------------------------------------
(* Requests about one station.  What a record says is read in one call     *)
(* and acted on in another.                                                *)

At(r, pc) == request[r].pc = pc
To(r, op, s) == Goes(r, [Idle EXCEPT !.pc = "set", !.op = op, !.station = s])

\* request_probe: whatever waited is now waiting for the probe.
RequestProbe(r, s) ==
    /\ At(r, "idle")
    /\ rows' = Upserted({s})
    /\ IF rows'[s].actual \in {"active", "activating", "degraded"} THEN UNCHANGED request
       ELSE To(r, "probe", s)
    /\ UNCHANGED <<campaigns, members, attributed, document, behind, faults>>

\* request_activation; no station but a pinned one is ever active, so that
\* the record and the capacity are read as one.
RequestActivation(r, s) ==
    /\ At(r, "idle")
    /\ rows' = Upserted({s})
    /\ IF rows'[s].actual \in {"active", "activating"} THEN UNCHANGED request
       ELSE To(r, IF Count < ActiveLimit THEN "activate" ELSE "park", s)
    /\ UNCHANGED <<campaigns, members, attributed, document, behind, faults>>

\* request_stop: refused for a pinned station and for a referenced one.
RequestStop(r, s) ==
    /\ At(r, "idle") /\ s \in Present
    /\ ~rows[s].pinned /\ rows[s].count = 0
    /\ To(r, "stop", s)
    /\ UNCHANGED <<rows, campaigns, members, attributed, document, behind, faults>>

\* set_station_state as each of them calls it.
StateSet(row, op) ==
    CASE op = "probe"    -> [row EXCEPT !.actual = "pending_probe"]
      [] op = "activate" -> [row EXCEPT !.actual = "pending_probe", !.desired = "active",
                                        !.timer = "none"]
      [] op = "join"     -> [row EXCEPT !.actual = "pending_probe", !.desired = "active"]
      [] op = "park"     -> [row EXCEPT !.actual = "pending_capacity", !.desired = "active"]
      [] op = "stop"     -> [row EXCEPT !.actual = "stopping", !.desired = "stopped"]

\* The request of a campaign goes on with the next member.
Onward(q) == IF q.campaign = Absent THEN Idle
             ELSE [q EXCEPT !.pc = "start", !.op = "create", !.station = Absent]
SetState(r) ==
    /\ At(r, "set")
    /\ rows' = [rows EXCEPT ![request[r].station] = StateSet(@, request[r].op)]
    /\ Goes(r, Onward(request[r]))
    /\ UNCHANGED <<campaigns, members, attributed, document, behind, faults>>

-----------------------------------------------------------------------------
(* Campaign requests: the commit.                                          *)

Commit(r, c, status, op, selection) ==
    /\ At(r, "idle")
    /\ campaigns' = [campaigns EXCEPT ![c] = status]
    /\ Goes(r, [Idle EXCEPT !.pc = "bindings", !.op = op, !.campaign = c,
                            !.todo = selection])
    /\ UNCHANGED <<rows, document, faults>>

\* create_campaign, with a station_selection.  The id is a fresh uuid.
CreateCampaign(r, c, selection) ==
    /\ campaigns[c] = Absent /\ \A q \in Requests : request[q].campaign # c
    /\ Commit(r, c, "active", "create", selection)
    /\ UNCHANGED <<members, attributed, behind>>

\* start_campaign, stop_campaign.
ChangeStatus(r, c, status) ==
    /\ campaigns[c] # Absent /\ Commit(r, c, status, "status", {})
    /\ UNCHANGED <<members, attributed, behind>>

\* update_campaign of the routes sets a status as well, and tells the
\* document of it but not the stations.
PatchStatus(r, c, status) ==
    /\ campaigns[c] \notin {Absent, status} /\ Commit(r, c, status, "patch", {})
    /\ behind' = behind \cup {"stations"}
    /\ UNCHANGED <<members, attributed>>

\* What hangs on the campaign goes with it: ON DELETE CASCADE.
Deletion(c) ==
    /\ campaigns[c] # Absent
    /\ members' = [members EXCEPT ![c] = {}]
    /\ attributed' = [attributed EXCEPT ![c] = {}]
    /\ behind' = behind \ {c}

DeleteCampaign(r, c) == Deletion(c) /\ Commit(r, c, Absent, "status", {})

-----------------------------------------------------------------------------
(* publish: the document of the moment is read, and then put.              *)

\* The manual entities it keeps are nobody else's to change.
ReadBindings(r) ==
    /\ At(r, "bindings")
    /\ Goes(r, [request[r] EXCEPT !.pc = "put", !.bindings = Active])
    /\ UNCHANGED <<rows, campaigns, members, attributed, document, behind, faults>>

After_Untold(op) == IF op = "create" THEN "attach" ELSE "idle"
After(op) == CASE op = "create" -> "attach" [] op = "status" -> "recount"
               [] OTHER -> "idle"
\* What another publication has read by now is old.
Overtaking(r, next) ==
    [q \in Requests |-> IF q = r THEN next
                        ELSE [request[q] EXCEPT !.overtaken = @ \/ At(q, "put")]]
PutDocument(r) ==
    LET next == IF After(request[r].op) = "idle" THEN Idle
                ELSE [request[r] EXCEPT !.pc = After(request[r].op), !.bindings = {},
                                        !.overtaken = FALSE]
    IN  /\ At(r, "put")
        /\ document' = request[r].bindings
        /\ request' = Overtaking(r, next)
        /\ behind' = IF request[r].overtaken THEN behind \cup {"document"}
                     ELSE behind \ {"document"}
        /\ UNCHANGED <<rows, campaigns, members, attributed, faults>>

-----------------------------------------------------------------------------
(* attach_campaign_selection.                                              *)

\* The selection cannot be resolved: the route deletes the campaign again,
\* which publishes but does not recount.
SelectionRefused(r) ==
    /\ At(r, "attach")
    /\ LET c == request[r].campaign
       IN  /\ campaigns' = [campaigns EXCEPT ![c] = Absent]
           /\ IF campaigns[c] = Absent
              THEN Goes(r, Idle) /\ UNCHANGED <<members, attributed, behind>>
              ELSE /\ Deletion(c)
                   /\ Goes(r, [Idle EXCEPT !.pc = "bindings", !.op = "refused"])
    /\ UNCHANGED <<rows, document, faults>>

\* What is still to be told when a request ends before its time.
Owed(q) ==
    (IF q.pc \in {"bindings", "put"} THEN {"document"} ELSE {})
    \cup (IF q.pc = "recount" \/ (q.op = "status" /\ q.pc \in {"bindings", "put"})
          THEN {"stations"} ELSE {})
    \cup {c \in Live : c = q.campaign}
Ends(r) ==
    /\ IF "document" \in Owed(request[r]) THEN request' = Overtaking(r, Idle) ELSE Goes(r, Idle)
    /\ behind' = behind \cup Owed(request[r])

\* add_campaign_rule and the upserts, then set_campaign_members; without the
\* campaign the insert raises.
SetMembers(r) ==
    /\ At(r, "attach")
    /\ LET c == request[r].campaign
       IN  IF campaigns[c] = Absent THEN Ends(r) /\ UNCHANGED <<rows, members>>
           ELSE /\ rows' = Upserted(request[r].todo)
                /\ members' = [members EXCEPT ![c] = request[r].todo]
                /\ Goes(r, [request[r] EXCEPT !.pc = "recount"])
                /\ UNCHANGED behind
    /\ UNCHANGED <<campaigns, attributed, document, faults>>

-----------------------------------------------------------------------------
(* recompute_reference_counts, one transaction over every station.         *)

References(s) == {c \in Active : s \in members[c]}

\* The time is set when the last campaign goes, and for a station that wants
\* to run without one.
Arms_Any(row) == row.timer = "none" /\ (row.count > 0 \/ row.desired = "active")
Arms_LastOnly(row) == ~row.pinned /\ row.timer = "none" /\ row.count > 0
Arms(row) ==
    /\ ~row.pinned /\ row.timer = "none"
    /\ row.count > 0 \/ row.desired = "active"
Unreferenced(row) ==
    [row EXCEPT !.count = 0, !.timer = IF Arms(row) THEN "set" ELSE @]

\* A station that was stopped meanwhile waits for a slot again.
ComesBack(row) == row.actual = "stopped" /\ ~row.pinned
Referenced(row, n) ==
    [row EXCEPT !.count = n, !.timer = "none",
                !.desired = IF ComesBack(row) THEN "active" ELSE @,
                !.actual = IF ComesBack(row) THEN "pending_capacity" ELSE @]
Recounted(s) ==
    IF rows[s] = Absent THEN Absent
    ELSE IF References(s) = {} THEN Unreferenced(rows[s])
    ELSE Referenced(rows[s], Cardinality(References(s)))

Recount(r) ==
    /\ At(r, "recount")
    /\ rows' = [s \in Known |-> Recounted(s)]
    /\ behind' = behind \ {"stations"}
    /\ Goes(r, IF request[r].op = "create" THEN [request[r] EXCEPT !.pc = "slots"]
               ELSE [Idle EXCEPT !.pc = "due", !.op = "status"])
    /\ UNCHANGED <<campaigns, members, attributed, document, faults>>

-----------------------------------------------------------------------------
(* The rest of on_campaign_status_change.                                  *)

\* stations_due_for_stop.
Due == {s \in Present : /\ rows[s].timer = "past" /\ ~rows[s].pinned
                        /\ rows[s].actual \in {"active", "degraded", "activating",
                                               "pending_capacity", "pending_probe"}}
ReadDue(r) ==
    /\ At(r, "due")
    /\ Goes(r, IF Due = {} THEN Idle ELSE [request[r] EXCEPT !.pc = "wind down", !.todo = Due])
    /\ UNCHANGED <<rows, campaigns, members, attributed, document, behind, faults>>

Left(r, s) == IF request[r].todo = {s} THEN Idle ELSE [request[r] EXCEPT !.todo = @ \ {s}]

\* Each of them is written by what was read, whatever it is now.  None but a
\* pinned station runs, so that all of them are waiting.
WindDown(r, s) ==
    /\ At(r, "wind down") /\ s \in request[r].todo
    /\ rows' = [rows EXCEPT ![s].desired = "stopped", ![s].actual = "stopped",
                            ![s].timer = "none"]
    /\ Goes(r, Left(r, s))
    /\ UNCHANGED <<campaigns, members, attributed, document, behind, faults>>

-----------------------------------------------------------------------------
(* The rest of attach_campaign_selection, and of the route.                *)

ReadSlots(r) ==
    /\ At(r, "slots")
    /\ Goes(r, [request[r] EXCEPT !.pc = "start", !.free = FreeSlots])
    /\ UNCHANGED <<rows, campaigns, members, attributed, document, behind, faults>>

\* A member that is under way is left alone; the others are started while
\* slots are free.
UnderWay(s) == rows[s].actual \in {"active", "activating", "pending_probe", "probing"}
StartMember(r, s) ==
    /\ At(r, "start") /\ s \in request[r].todo
    /\ LET rest == [request[r] EXCEPT !.todo = @ \ {s}]
           next == [rest EXCEPT !.pc = "set", !.station = s]
       IN  Goes(r, IF UnderWay(s) THEN rest
                   ELSE IF rest.free = 0 THEN [next EXCEPT !.op = "park"]
                   ELSE [next EXCEPT !.op = "join", !.free = @ - 1])
    /\ UNCHANGED <<rows, campaigns, members, attributed, document, behind, faults>>

\* add_campaign_station_ids, of the members there are; the route reads them
\* after the last one was started.
Attribute(r) ==
    /\ At(r, "start") /\ request[r].todo = {}
    /\ attributed' = [attributed EXCEPT ![request[r].campaign] =
                         members[request[r].campaign]]
    /\ Goes(r, Idle)
    /\ UNCHANGED <<rows, campaigns, members, document, behind, faults>>

-----------------------------------------------------------------------------
(* Time, and faults.                                                       *)

\* RADIO_STATION_STOP_GRACE_SECONDS are over.
GraceEnds(s) ==
    /\ rows[s] # Absent /\ rows[s].timer = "set"
    /\ rows' = [rows EXCEPT ![s].timer = "past"]
    /\ UNCHANGED <<campaigns, members, attributed, document, request, behind, faults>>

\* A call raises (S3, SQLite, Radio Browser): what was committed stays.
RequestFails(r) ==
    /\ ~At(r, "idle") /\ faults < MaxFaults
    /\ faults' = faults + 1
    /\ Ends(r)
    /\ UNCHANGED <<rows, campaigns, members, attributed, document>>

RequestStep(r) ==
    \/ SetState(r) \/ ReadBindings(r) \/ PutDocument(r)
    \/ SetMembers(r) \/ Recount(r) \/ ReadDue(r) \/ ReadSlots(r) \/ Attribute(r)
    \/ \E s \in request[r].todo : WindDown(r, s) \/ StartMember(r, s)

Asks(r) ==
    \/ \E s \in Stations : RequestProbe(r, s) \/ RequestActivation(r, s)
    \/ \E s \in Known : RequestStop(r, s)
    \/ \E c \in Campaigns :
          \/ \E selection \in (SUBSET Stations) \ {{}} : CreateCampaign(r, c, selection)
          \/ \E status \in {"active", "paused"} :
                ChangeStatus(r, c, status) \/ PatchStatus(r, c, status)
          \/ DeleteCampaign(r, c)

Next ==
    \/ \E r \in Requests : Asks(r) \/ RequestStep(r) \/ SelectionRefused(r) \/ RequestFails(r)
    \/ \E s \in Known : GraceEnds(s)

Spec == Init /\ [][Next]_vars

\* A request is served; the grace period ends.
FairSpec ==
    /\ Spec
    /\ \A r \in Requests : WF_vars(RequestStep(r))
    /\ \A s \in Known : WF_vars(GraceEnds(s))
-----------------------------------------------------------------------------
\* Between requests the keyword document is of the active campaigns, every
\* station counts the active campaigns it is a member of, none of those has
\* a time to stop at, and a campaign listens to its members, however the
\* requests before crossed: but for what a request that raised left undone,
\* a status set by PATCH, and a document put over a later one.
EverybodyTold ==
    (\A r \in Requests : At(r, "idle")) =>
        /\ "document" \notin behind => document = Active
        /\ "stations" \notin behind =>
              \A s \in Present : /\ rows[s].count = Cardinality(References(s))
                                 /\ rows[s].count > 0 => rows[s].timer = "none"
        /\ \A c \in Campaigns \ behind : attributed[c] = members[c]

\* A legacy station goes on as it was imported: neither a request nor a
\* recount, with its campaigns all gone, ever sets it a time or stops it
\* ("Legacy pinned stations never receive a stop_after time").
PinnedStaysUp == \A s \in Pinned : rows[s] = LegacyRow

\* No request is about to start the station.
LeftAlone(s) ==
    \A r \in Requests : /\ s = request[r].station => request[r].op = "stop"
                        /\ s \in request[r].todo => request[r].op = "status"
Wanted(s) == rows[s] # Absent /\ References(s) # {}

\* As long as campaigns go on changing, a station that is wanted by none any
\* more is told to stop, if it was started after the last campaign went too,
\* and one that is wanted again comes back, if it was stopped by what a
\* crossing request had read before too (recompute_reference_counts).
CampaignsDecide ==
    \A s \in Stations :
        /\ ([]<><<\E r \in Requests : ReadDue(r)>>_vars /\ <>[](~Wanted(s) /\ LeftAlone(s)))
              => <>[](rows[s] = Absent \/ rows[s].desired = "stopped")
        /\ ([]<><<\E r \in Requests : Recount(r)>>_vars /\ <>[]Wanted(s))
              => <>[](rows[s] # Absent /\ rows[s].actual # "stopped")
=============================================================================
