------------------------ MODULE StationCatalog_proofs ------------------------
(***************************************************************************)
(* Proofs about StationCatalog, for every catalogue, list of pinned        *)
(* stations, set of campaigns and number of requests that cross.           *)
(***************************************************************************)
EXTENDS StationCatalog, FiniteSetTheorems, TLAPS

\* A request never has to do with a pinned station: what it acts on it chose
\* when it last read the rows, and a pinned row was then what it is now.
RequestOK(q) ==
    /\ {"pc", "op", "campaign", "station", "todo", "free", "bindings", "overtaken"}
         \subseteq DOMAIN q
    /\ q.todo \subseteq Stations
    /\ q.pc = "set" => q.station \in Stations

PinnedInv ==
    /\ rows = [s \in Known |-> rows[s]]
    /\ members = [c \in Campaigns |-> members[c]]
    /\ request = [r \in Requests |-> request[r]]
    /\ PinnedStaysUp
    /\ \A c \in Campaigns : members[c] \subseteq Stations
    /\ \A r \in Requests : RequestOK(request[r])

\* What a step has to show of each variable.
RowsKept == rows' = [s \in Known |-> rows'[s]] /\ \A s \in Pinned : rows'[s] = rows[s]
MembersKept ==
    /\ members' = [c \in Campaigns |-> members'[c]]
    /\ \A c \in Campaigns : members'[c] \subseteq Stations
RequestsKept ==
    /\ request' = [p \in Requests |-> request'[p]]
    /\ \A p \in Requests : RequestOK(request'[p])

-----------------------------------------------------------------------------
LEMMA PinnedAreKnown ==
    Pinned \subseteq Known /\ Stations \subseteq Known /\ Stations \cap Pinned = {}
BY CatalogAssumption DEF Known

LEMMA Kept ==
    ASSUME PinnedInv, RowsKept, MembersKept, RequestsKept
    PROVE  PinnedInv'
BY DEF PinnedInv, PinnedStaysUp, RowsKept, MembersKept, RequestsKept, RequestOK

LEMMA SameRows == PinnedInv /\ UNCHANGED rows => RowsKept
BY DEF PinnedInv, RowsKept

LEMMA SameMembers == PinnedInv /\ UNCHANGED members => MembersKept
BY DEF PinnedInv, MembersKept

LEMMA SameRequests == PinnedInv /\ UNCHANGED request => RequestsKept
BY DEF PinnedInv, RequestsKept

\* The request r goes on as q.
LEMMA OneRequest ==
    ASSUME PinnedInv, NEW r \in Requests, NEW q, RequestOK(q), Goes(r, q)
    PROVE  RequestsKept
BY DEF PinnedInv, Goes, RequestsKept

LEMMA IdleOK == RequestOK(Idle) /\ Idle.pc = "idle"
BY DEF RequestOK, Idle

\* The record q with other values, none of them a station to set.
LEMMA NotSetting ==
    ASSUME NEW q, RequestOK(q), NEW pc, pc # "set", NEW todo \in SUBSET Stations
    PROVE  /\ RequestOK([q EXCEPT !.pc = pc])
           /\ RequestOK([q EXCEPT !.todo = todo])
           /\ RequestOK([q EXCEPT !.pc = pc, !.todo = todo])
           /\ RequestOK([q EXCEPT !.pc = pc, !.bindings = {}, !.overtaken = FALSE])
BY DEF RequestOK

LEMMA InitPinned == Init => PinnedInv
<1> SUFFICES ASSUME Init PROVE PinnedInv
    OBVIOUS
<1>1. \A s \in Pinned : rows[s] = LegacyRow
    BY PinnedAreKnown DEF Init
<1>2. \A r \in Requests : RequestOK(request[r])
    BY IdleOK DEF Init
<1>3. QED
    BY <1>1, <1>2 DEF Init, PinnedInv, PinnedStaysUp

-----------------------------------------------------------------------------
(* Rows.                                                                   *)

LEMMA UpsertKeeps ==
    ASSUME PinnedInv, NEW S, S \subseteq Stations, rows' = Upserted(S)
    PROVE  RowsKept
BY PinnedAreKnown DEF RowsKept, Upserted

LEMMA WriteKeeps ==
    ASSUME PinnedInv, NEW s \in Stations, NEW row, rows' = [rows EXCEPT ![s] = row]
    PROVE  RowsKept
BY PinnedAreKnown DEF PinnedInv, RowsKept

\* No campaign is given a pinned station, and the recount finds one as it was.
LEMMA RecountKeeps ==
    ASSUME PinnedInv, rows' = [s \in Known |-> Recounted(s)]
    PROVE  RowsKept
<1> SUFFICES ASSUME NEW s \in Pinned PROVE rows'[s] = rows[s]
    BY DEF RowsKept
<1>1. References(s) = {}
    BY PinnedAreKnown DEF References, Active, PinnedInv
<1>2. rows[s] = LegacyRow
    BY DEF PinnedInv, PinnedStaysUp
<1>3. Unreferenced(LegacyRow) = LegacyRow
    <2>1. ~Arms(LegacyRow)
        BY DEF Arms, LegacyRow
    <2>2. Unreferenced(LegacyRow) = [LegacyRow EXCEPT !.count = 0, !.timer = LegacyRow.timer]
        BY <2>1 DEF Unreferenced
    <2>3. /\ LegacyRow = [f \in DOMAIN LegacyRow |-> LegacyRow[f]]
          /\ LegacyRow["count"] = 0
        BY DEF LegacyRow
    <2>4. QED
        BY <2>2, <2>3
<1>4. Recounted(s) = rows[s]
    BY <1>1, <1>2, <1>3 DEF Recounted
<1>5. QED
    BY <1>4, PinnedAreKnown

-----------------------------------------------------------------------------
(* Requests about one station.                                             *)

\* A request sees to the station s.
LEMMA ToKeeps ==
    ASSUME PinnedInv, NEW r \in Requests, NEW op, NEW s \in Stations, To(r, op, s)
    PROVE  RequestsKept
<1>1. RequestOK([Idle EXCEPT !.pc = "set", !.op = op, !.station = s])
    BY DEF RequestOK, Idle
<1>2. QED
    BY <1>1, OneRequest DEF To

LEMMA ProbeKeeps ==
    ASSUME PinnedInv, NEW r \in Requests, NEW s \in Stations, RequestProbe(r, s)
    PROVE  PinnedInv'
<1>1. RowsKept
    BY UpsertKeeps DEF RequestProbe
<1>2. RequestsKept
    BY ToKeeps, SameRequests DEF RequestProbe
<1>3. QED
    BY <1>1, <1>2, Kept, SameMembers DEF RequestProbe

LEMMA ActivationKeeps ==
    ASSUME PinnedInv, NEW r \in Requests, NEW s \in Stations, RequestActivation(r, s)
    PROVE  PinnedInv'
<1>1. RowsKept
    BY UpsertKeeps DEF RequestActivation
<1>2. RequestsKept
    BY ToKeeps, SameRequests DEF RequestActivation
<1>3. QED
    BY <1>1, <1>2, Kept, SameMembers DEF RequestActivation

\* It is refused for a pinned station.
LEMMA StopKeeps ==
    ASSUME PinnedInv, NEW r \in Requests, NEW s \in Known, RequestStop(r, s)
    PROVE  PinnedInv'
<1>1. s \in Stations
    BY DEF RequestStop, Known, PinnedInv, PinnedStaysUp, LegacyRow
<1>2. RequestsKept
    BY <1>1, ToKeeps DEF RequestStop
<1>3. QED
    BY <1>2, Kept, SameRows, SameMembers DEF RequestStop

LEMMA SetStateKeeps ==
    ASSUME PinnedInv, NEW r \in Requests, SetState(r)
    PROVE  PinnedInv'
<1>1. RequestOK(request[r]) /\ request[r].station \in Stations
    BY DEF PinnedInv, RequestOK, SetState, At
<1>2. RowsKept
    <2> DEFINE row == StateSet(rows[request[r].station], request[r].op)
    <2>1. rows' = [rows EXCEPT ![request[r].station] = row]
        BY DEF SetState
    <2> HIDE DEF row
    <2>2. QED
        BY <1>1, <2>1, WriteKeeps
<1>3. RequestOK(Onward(request[r]))
    <2>1. RequestOK([request[r] EXCEPT !.pc = "start", !.op = "create", !.station = Absent])
        BY <1>1 DEF RequestOK
    <2>2. QED
        BY <2>1, IdleOK DEF Onward
<1>4. RequestsKept
    BY <1>3, OneRequest DEF SetState
<1>5. QED
    BY <1>2, <1>4, Kept, SameMembers DEF SetState

-----------------------------------------------------------------------------
(* Campaign requests.                                                      *)

LEMMA CommitKeeps ==
    ASSUME PinnedInv, NEW r \in Requests, NEW c, NEW status, NEW op,
           NEW S, S \subseteq Stations, Commit(r, c, status, op, S), MembersKept
    PROVE  PinnedInv'
<1>1. RequestOK([Idle EXCEPT !.pc = "bindings", !.op = op, !.campaign = c, !.todo = S])
    BY DEF RequestOK, Idle
<1>2. RequestsKept
    BY <1>1, OneRequest DEF Commit
<1>3. QED
    BY <1>2, Kept, SameRows DEF Commit

LEMMA DeletionKeeps ==
    ASSUME PinnedInv, NEW c, Deletion(c)
    PROVE  MembersKept
BY DEF PinnedInv, Deletion, MembersKept

LEMMA ReadBindingsKeeps ==
    ASSUME PinnedInv, NEW r \in Requests, ReadBindings(r)
    PROVE  PinnedInv'
<1>1. RequestOK([request[r] EXCEPT !.pc = "put", !.bindings = Active])
    BY DEF PinnedInv, RequestOK
<1>2. RequestsKept
    BY <1>1, OneRequest DEF ReadBindings
<1>3. QED
    BY <1>2, Kept, SameRows, SameMembers DEF ReadBindings

\* The mark that it was overtaken is all that changes of another request.
LEMMA OvertakingKeeps ==
    ASSUME PinnedInv, NEW r \in Requests, NEW next, RequestOK(next),
           request' = Overtaking(r, next)
    PROVE  RequestsKept
<1>1. request' = [p \in Requests |-> request'[p]]
    BY DEF Overtaking
<1>2. ASSUME NEW q \in Requests PROVE RequestOK(request'[q])
    <2>1. CASE q = r
        BY <2>1 DEF Overtaking
    <2>2. CASE q # r
        <3> DEFINE mark == request[q].overtaken \/ At(q, "put")
        <3>1. request'[q] = [request[q] EXCEPT !.overtaken = mark]
            BY <2>2 DEF Overtaking
        <3> HIDE DEF mark
        <3>2. RequestOK(request[q])
            BY DEF PinnedInv
        <3>3. QED
            BY <3>1, <3>2 DEF RequestOK
    <2>3. QED
        BY <2>1, <2>2
<1>3. QED
    BY <1>1, <1>2 DEF RequestsKept

LEMMA PutDocumentKeeps ==
    ASSUME PinnedInv, NEW r \in Requests, PutDocument(r)
    PROVE  PinnedInv'
<1> DEFINE next == IF After(request[r].op) = "idle" THEN Idle
                   ELSE [request[r] EXCEPT !.pc = After(request[r].op), !.bindings = {},
                                           !.overtaken = FALSE]
<1>1. After(request[r].op) # "set"
    BY DEF After
<1>2. RequestOK(next)
    <2>1. RequestOK([request[r] EXCEPT !.pc = After(request[r].op), !.bindings = {},
                                       !.overtaken = FALSE])
        BY <1>1, NotSetting DEF PinnedInv
    <2>2. QED
        BY <2>1, IdleOK
<1>3. request' = Overtaking(r, next)
    BY DEF PutDocument
<1> HIDE DEF next
<1>4. RequestsKept
    BY <1>2, <1>3, OvertakingKeeps
<1>5. QED
    BY <1>4, Kept, SameRows, SameMembers DEF PutDocument

-----------------------------------------------------------------------------
(* The members and the recount.                                            *)

LEMMA EndsKeeps ==
    ASSUME PinnedInv, NEW r \in Requests, Ends(r)
    PROVE  RequestsKept
BY IdleOK, OneRequest, OvertakingKeeps DEF Ends

LEMMA SelectionRefusedKeeps ==
    ASSUME PinnedInv, NEW r \in Requests, SelectionRefused(r)
    PROVE  PinnedInv'
<1>1. CASE campaigns[request[r].campaign] = Absent
    <2>1. RequestsKept
        BY <1>1, IdleOK, OneRequest DEF SelectionRefused
    <2>2. QED
        BY <1>1, <2>1, Kept, SameRows, SameMembers DEF SelectionRefused
<1>2. CASE campaigns[request[r].campaign] # Absent
    <2>1. RequestOK([Idle EXCEPT !.pc = "bindings", !.op = "refused"])
        BY DEF RequestOK, Idle
    <2>2. RequestsKept
        BY <1>2, <2>1, OneRequest DEF SelectionRefused
    <2>3. MembersKept
        BY <1>2, DeletionKeeps DEF SelectionRefused
    <2>4. QED
        BY <2>2, <2>3, Kept, SameRows DEF SelectionRefused
<1>3. QED
    BY <1>1, <1>2

LEMMA SetMembersKeeps ==
    ASSUME PinnedInv, NEW r \in Requests, SetMembers(r)
    PROVE  PinnedInv'
<1>1. CASE campaigns[request[r].campaign] = Absent
    <2>1. RequestsKept
        BY <1>1, EndsKeeps DEF SetMembers
    <2>2. QED
        BY <1>1, <2>1, Kept, SameRows, SameMembers DEF SetMembers
<1>2. CASE campaigns[request[r].campaign] # Absent
    <2>1. RequestOK(request[r]) /\ request[r].todo \subseteq Stations
        BY DEF PinnedInv, RequestOK
    <2>2. RequestsKept
        BY <1>2, <2>1, NotSetting, OneRequest DEF SetMembers
    <2>3. RowsKept
        BY <1>2, <2>1, UpsertKeeps DEF SetMembers
    <2>4. MembersKept
        BY <1>2, <2>1 DEF SetMembers, PinnedInv, MembersKept
    <2>5. QED
        BY <2>2, <2>3, <2>4, Kept
<1>3. QED
    BY <1>1, <1>2

LEMMA RecountStepKeeps ==
    ASSUME PinnedInv, NEW r \in Requests, Recount(r)
    PROVE  PinnedInv'
<1>1. RowsKept
    BY RecountKeeps DEF Recount
<1>2. RequestOK([request[r] EXCEPT !.pc = "slots"])
    BY NotSetting DEF PinnedInv, RequestOK
<1>3. RequestOK([Idle EXCEPT !.pc = "due", !.op = "status"])
    BY DEF RequestOK, Idle
<1>4. RequestsKept
    BY <1>2, <1>3, OneRequest DEF Recount
<1>5. QED
    BY <1>1, <1>4, Kept, SameMembers DEF Recount

-----------------------------------------------------------------------------
(* The wind-down, and the start of the members.                            *)

\* A pinned station is never due.
LEMMA ReadDueKeeps ==
    ASSUME PinnedInv, NEW r \in Requests, ReadDue(r)
    PROVE  PinnedInv'
<1>1. Due \subseteq Stations
    BY DEF Due, Present, Known, PinnedInv, PinnedStaysUp, LegacyRow
<1>2. RequestOK([request[r] EXCEPT !.pc = "wind down", !.todo = Due])
    BY <1>1, NotSetting DEF PinnedInv, RequestOK
<1>3. RequestsKept
    BY <1>2, IdleOK, OneRequest DEF ReadDue
<1>4. QED
    BY <1>3, Kept, SameRows, SameMembers DEF ReadDue

LEMMA WindDownKeeps ==
    ASSUME PinnedInv, NEW r \in Requests, NEW s \in request[r].todo, WindDown(r, s)
    PROVE  PinnedInv'
<1>1. RequestOK(request[r]) /\ s \in Stations
    BY DEF PinnedInv, RequestOK
<1>2. RowsKept
    BY <1>1, PinnedAreKnown DEF WindDown, PinnedInv, RowsKept
<1>3. RequestOK(Left(r, s))
    BY <1>1, IdleOK DEF Left, RequestOK
<1>4. RequestsKept
    BY <1>3, OneRequest DEF WindDown
<1>5. QED
    BY <1>2, <1>4, Kept, SameMembers DEF WindDown

LEMMA ReadSlotsKeeps ==
    ASSUME PinnedInv, NEW r \in Requests, ReadSlots(r)
    PROVE  PinnedInv'
<1> DEFINE q == [request[r] EXCEPT !.pc = "start", !.free = FreeSlots]
<1>1. RequestOK(q)
    BY DEF PinnedInv, RequestOK
<1>2. RequestsKept
    BY <1>1, OneRequest DEF ReadSlots
<1>3. QED
    BY <1>2, Kept, SameRows, SameMembers DEF ReadSlots

LEMMA StartMemberKeeps ==
    ASSUME PinnedInv, NEW r \in Requests, NEW s \in request[r].todo, StartMember(r, s)
    PROVE  PinnedInv'
<1> DEFINE rest == [request[r] EXCEPT !.todo = @ \ {s}]
           next == [rest EXCEPT !.pc = "set", !.station = s]
<1>1. RequestOK(request[r]) /\ s \in Stations /\ At(r, "start")
    BY DEF PinnedInv, RequestOK, StartMember
<1>2. RequestOK(rest)
    BY <1>1 DEF RequestOK, At
<1>3. RequestOK(next)
    <2> HIDE DEF rest
    <2>1. QED
        BY <1>1, <1>2 DEF RequestOK
<1>4. RequestOK([next EXCEPT !.op = "park"])
    <2> HIDE DEF next
    <2>1. QED
        BY <1>3 DEF RequestOK
<1>5. RequestOK([next EXCEPT !.op = "join", !.free = @ - 1])
    <2> HIDE DEF next
    <2>1. QED
        BY <1>3 DEF RequestOK
<1>6. Goes(r, IF UnderWay(s) THEN rest
              ELSE IF rest.free = 0 THEN [next EXCEPT !.op = "park"]
              ELSE [next EXCEPT !.op = "join", !.free = @ - 1])
    BY DEF StartMember
<1> HIDE DEF rest, next
<1>7. RequestsKept
    BY <1>2, <1>4, <1>5, <1>6, OneRequest
<1>8. QED
    BY <1>7, Kept, SameRows, SameMembers DEF StartMember

LEMMA AttributeKeeps ==
    ASSUME PinnedInv, NEW r \in Requests, Attribute(r)
    PROVE  PinnedInv'
<1>1. RequestsKept
    BY IdleOK, OneRequest DEF Attribute
<1>2. QED
    BY <1>1, Kept, SameRows, SameMembers DEF Attribute

LEMMA GraceEndsKeeps ==
    ASSUME PinnedInv, NEW s \in Known, GraceEnds(s)
    PROVE  PinnedInv'
<1>1. s \in Stations
    BY DEF GraceEnds, Known, PinnedInv, PinnedStaysUp, LegacyRow
<1>2. RowsKept
    BY <1>1, PinnedAreKnown DEF GraceEnds, PinnedInv, RowsKept
<1>3. QED
    BY <1>2, Kept, SameMembers, SameRequests DEF GraceEnds

LEMMA RequestFailsKeeps ==
    ASSUME PinnedInv, NEW r \in Requests, RequestFails(r)
    PROVE  PinnedInv'
<1>1. RequestsKept
    BY EndsKeeps DEF RequestFails
<1>2. QED
    BY <1>1, Kept, SameRows, SameMembers DEF RequestFails

-----------------------------------------------------------------------------
LEMMA AsksKeeps ==
    ASSUME PinnedInv, NEW r \in Requests, Asks(r)
    PROVE  PinnedInv'
<1>1. CASE \E s \in Stations : RequestProbe(r, s) \/ RequestActivation(r, s)
    BY <1>1, ProbeKeeps, ActivationKeeps
<1>2. CASE \E s \in Known : RequestStop(r, s)
    BY <1>2, StopKeeps
<1>3. ASSUME NEW c \in Campaigns, NEW selection \in (SUBSET Stations) \ {{}},
             CreateCampaign(r, c, selection)
      PROVE  PinnedInv'
    <2>1. Commit(r, c, "active", "create", selection) /\ MembersKept
        BY <1>3, SameMembers DEF CreateCampaign
    <2>2. QED
        BY <2>1, CommitKeeps
<1>4. ASSUME NEW c \in Campaigns, NEW status, ChangeStatus(r, c, status)
      PROVE  PinnedInv'
    <2>1. Commit(r, c, status, "status", {}) /\ MembersKept
        BY <1>4, SameMembers DEF ChangeStatus
    <2>2. QED
        BY <2>1, CommitKeeps
<1>5. ASSUME NEW c \in Campaigns, NEW status, PatchStatus(r, c, status)
      PROVE  PinnedInv'
    <2>1. Commit(r, c, status, "patch", {}) /\ MembersKept
        BY <1>5, SameMembers DEF PatchStatus
    <2>2. QED
        BY <2>1, CommitKeeps
<1>6. ASSUME NEW c \in Campaigns, DeleteCampaign(r, c)
      PROVE  PinnedInv'
    <2>1. Commit(r, c, Absent, "status", {}) /\ MembersKept
        BY <1>6, DeletionKeeps DEF DeleteCampaign
    <2>2. QED
        BY <2>1, CommitKeeps
<1>7. QED
    BY <1>1, <1>2, <1>3, <1>4, <1>5, <1>6 DEF Asks

LEMMA RequestStepKeeps ==
    ASSUME PinnedInv, NEW r \in Requests, RequestStep(r)
    PROVE  PinnedInv'
BY SetStateKeeps, ReadBindingsKeeps, PutDocumentKeeps, SetMembersKeeps, RecountStepKeeps,
   ReadDueKeeps, ReadSlotsKeeps, AttributeKeeps, WindDownKeeps, StartMemberKeeps
   DEF RequestStep

LEMMA NextKeeps == PinnedInv /\ [Next]_vars => PinnedInv'
<1> SUFFICES ASSUME PinnedInv, [Next]_vars PROVE PinnedInv'
    OBVIOUS
<1>1. CASE \E r \in Requests :
              Asks(r) \/ RequestStep(r) \/ SelectionRefused(r) \/ RequestFails(r)
    BY <1>1, AsksKeeps, RequestStepKeeps, SelectionRefusedKeeps, RequestFailsKeeps
<1>2. CASE \E s \in Known : GraceEnds(s)
    BY <1>2, GraceEndsKeeps
<1>3. CASE UNCHANGED vars
    BY <1>3, Kept, SameRows, SameMembers, SameRequests DEF vars
<1>4. QED
    BY <1>1, <1>2, <1>3 DEF Next

\* A legacy station stays as it was imported, whatever requests cross, fail
\* or act on what they read before, for every list of pinned stations
\* (request_stop, recompute_reference_counts, stations_due_for_stop).
THEOREM PinnedStayUp == Spec => []PinnedStaysUp
<1>1. PinnedInv => PinnedStaysUp
    BY DEF PinnedInv
<1>2. QED
    BY <1>1, InitPinned, NextKeeps, PTL DEF Spec
-----------------------------------------------------------------------------
(* Everybody is told.                                                      *)
(*                                                                         *)
(* While requests are under way, one of them owes what is still to be      *)
(* told: the document to a request that is about to publish, the counts to *)
(* one that is about to recount, the attributions of a campaign to the one *)
(* that is attaching its members.                                          *)

Publishing(q) == q.pc \in {"bindings", "put"}
Creating(q) == q.op = "create" /\ (Publishing(q) \/ q.pc = "attach")
Recounts(q) == q.pc = "recount" \/ (q.op = "status" /\ Publishing(q))
Attaching(q, c) ==
    /\ q.campaign = c
    /\ \/ q.pc \in {"slots", "start", "set"}
       \/ q.pc = "recount" /\ q.op = "create"

\* What a request says of itself, and of the rows it is going to write.
Sound(q) ==
    /\ Creating(q) => q.campaign \in Campaigns
    /\ q.pc = "attach" => q.op = "create"
    /\ q.op = "status" /\ Publishing(q) => q.todo = {}
    /\ q.pc = "set" => q.op \in {"probe", "activate", "join", "park", "stop"}
Founded(q, present) ==
    /\ q.pc = "set" => q.station \in present
    /\ q.pc \in {"recount", "slots", "start", "set", "wind down"} => q.todo \subseteq present

RowsTyped == \A s \in Present : rows[s] \in Row
RequestsSound == \A r \in Requests : Sound(request[r]) /\ Founded(request[r], Present)

\* A campaign that is not there has nothing, one that is being created has no
\* members yet, and no two requests create the same.
MembersInv ==
    /\ \A c \in Campaigns : campaigns[c] = Absent => members[c] = {} /\ attributed[c] = {}
    /\ \A r \in Requests : Creating(request[r]) => members[request[r].campaign] = {}
    /\ \A r, q \in Requests :
          /\ Creating(request[r]) /\ Creating(request[q])
          /\ request[r].campaign = request[q].campaign
          => r = q
    /\ \A c \in Campaigns : members[c] \subseteq Present

\* A publication that read an older state of the campaigns, and has not been
\* overtaken, is followed by another one.
DocumentInv ==
    /\ "document" \in behind \/ document = Active \/ \E r \in Requests : Publishing(request[r])
    /\ \A r \in Requests :
          At(r, "put") => \/ request[r].overtaken
                          \/ request[r].bindings = Active
                          \/ \E q \in Requests \ {r} : Publishing(request[q])

CountOf(s) ==
    /\ rows[s].count = Cardinality(References(s))
    /\ rows[s].count > 0 => rows[s].timer = "none"
CountsRight == \A s \in Present : CountOf(s)
CountsInv ==
    "stations" \in behind \/ CountsRight \/ \E r \in Requests : Recounts(request[r])

AttributionInv ==
    \A c \in Campaigns \ behind :
        attributed[c] = members[c] \/ \E r \in Requests : Attaching(request[r], c)

ToldInv ==
    /\ campaigns = [c \in Campaigns |-> campaigns[c]]
    /\ attributed = [c \in Campaigns |-> attributed[c]]
    /\ RowsTyped /\ RequestsSound
    /\ MembersInv /\ DocumentInv /\ CountsInv /\ AttributionInv

-----------------------------------------------------------------------------
(* What a step does to the other requests, and to the rows.                *)

\* Only the mark that it was overtaken changes of another request.
Alike(p) ==
    /\ request'[p].pc = request[p].pc /\ request'[p].op = request[p].op
    /\ request'[p].campaign = request[p].campaign
    /\ request'[p].station = request[p].station /\ request'[p].todo = request[p].todo
    /\ request'[p].bindings = request[p].bindings
Turn(r, q) == request'[r] = q /\ \A p \in Requests \ {r} : Alike(p)

LEMMA GoesIsATurn ==
    ASSUME PinnedInv, NEW r \in Requests, NEW q, Goes(r, q)
    PROVE  /\ Turn(r, q)
           /\ \A p \in Requests \ {r} : request'[p] = request[p]
BY DEF PinnedInv, Goes, Turn, Alike

LEMMA OvertakingIsATurn ==
    ASSUME PinnedInv, NEW r \in Requests, NEW q, request' = Overtaking(r, q)
    PROVE  /\ Turn(r, q)
           /\ \A p \in Requests \ {r} : request'[p].pc = "put" => request'[p].overtaken = TRUE
<1>1. request'[r] = q
    BY DEF Overtaking
<1>2. ASSUME NEW p \in Requests \ {r}
      PROVE  Alike(p) /\ (request'[p].pc = "put" => request'[p].overtaken = TRUE)
    <2> DEFINE mark == request[p].overtaken \/ At(p, "put")
    <2>1. request'[p] = [request[p] EXCEPT !.overtaken = mark]
        BY DEF Overtaking
    <2>2. request[p].pc = "put" => mark = TRUE
        BY DEF At
    <2> HIDE DEF mark
    <2>3. RequestOK(request[p])
        BY DEF PinnedInv
    <2>4. QED
        BY <2>1, <2>2, <2>3 DEF RequestOK, Alike
<1>3. QED
    BY <1>1, <1>2 DEF Turn

\* No row goes away, and what is counted stays: a new row has no references.
RowsGrow == Present \subseteq Present'
CountsKept ==
    \A s \in Present' :
        \/ /\ s \in Present /\ rows'[s].count = rows[s].count
           /\ rows'[s].timer \in {"none", rows[s].timer}
        \/ s \notin Present /\ rows'[s] = FreshRow
RowsGoOn == RowsGrow /\ CountsKept /\ RowsTyped'

LEMMA Distinct ==
    /\ Absent \notin Campaigns /\ Absent \notin Row
    /\ Absent # "active" /\ Absent # "paused"
    /\ "document" \notin Campaigns /\ "stations" \notin Campaigns
    /\ FreshRow \in Row /\ LegacyRow \in Row /\ FreshRow # Absent /\ LegacyRow # Absent
<1>1. FreshRow \in Row /\ LegacyRow \in Row
    BY DEF FreshRow, LegacyRow, Row
<1>2. QED
    BY <1>1, CatalogAssumption

LEMMA RowsTheSame ==
    ASSUME ToldInv, UNCHANGED rows
    PROVE  RowsGoOn
BY DEF ToldInv, RowsTyped, RowsGoOn, RowsGrow, CountsKept, Present

LEMMA UpsertGoesOn ==
    ASSUME ToldInv, NEW S, rows' = Upserted(S)
    PROVE  RowsGoOn /\ S \cap Known \subseteq Present'
BY Distinct DEF ToldInv, RowsTyped, RowsGoOn, RowsGrow, CountsKept, Present, Upserted

\* A row is replaced by one with the same count and no other timer.
LEMMA WriteGoesOn ==
    ASSUME PinnedInv, ToldInv, NEW s \in Present, NEW row \in Row,
           rows' = [rows EXCEPT ![s] = row],
           row.count = rows[s].count, row.timer \in {"none", rows[s].timer}
    PROVE  RowsGoOn
<1>1. \A x \in Known : rows'[x] = IF x = s THEN row ELSE rows[x]
    BY DEF PinnedInv, Present
<1>2. row # Absent
    BY Distinct
<1>3. QED
    BY <1>1, <1>2 DEF ToldInv, RowsTyped, RowsGoOn, RowsGrow, CountsKept, Present

-----------------------------------------------------------------------------
(* Each part of the invariant, when nothing it speaks of is touched.       *)

LEMMA SoundStays ==
    ASSUME ToldInv, PinnedInv, NEW r \in Requests, NEW q, Turn(r, q), RowsGrow,
           Sound(q), Founded(q, Present')
    PROVE  RequestsSound'
<1> SUFFICES ASSUME NEW p \in Requests
             PROVE  Sound(request'[p]) /\ Founded(request'[p], Present')
    BY DEF RequestsSound, Sound, Creating, Publishing, Founded
<1>1. CASE p = r
    BY <1>1 DEF Turn
<1>2. CASE p # r
    <2>1. Sound(request[p]) /\ Founded(request[p], Present) /\ Alike(p) /\ RequestOK(request[p])
        BY <1>2 DEF Turn, ToldInv, RequestsSound, PinnedInv
    <2>2. Sound(request'[p])
        BY <2>1 DEF Sound, Creating, Publishing, Alike
    <2>3. Founded(request'[p], Present')
        BY <2>1, PinnedAreKnown DEF Founded, RowsGrow, Alike, RequestOK
    <2>4. QED
        BY <2>2, <2>3
<1>3. QED
    BY <1>1, <1>2

LEMMA MembersStay ==
    ASSUME PinnedInv, ToldInv, NEW r \in Requests, NEW q, Turn(r, q), RowsGrow,
           UNCHANGED <<campaigns, members, attributed>>,
           Creating(q) => Creating(request[r]) /\ q.campaign = request[r].campaign
    PROVE  MembersInv'
<1>1. ASSUME NEW p \in Requests, Creating(request'[p])
      PROVE  Creating(request[p]) /\ request'[p].campaign = request[p].campaign
    <2>1. CASE p = r
        BY <1>1, <2>1 DEF Turn
    <2>2. CASE p # r
        BY <1>1, <2>2 DEF Turn, Alike, Creating, Publishing
    <2>3. QED
        BY <2>1, <2>2
<1>2. \A c \in Campaigns : campaigns'[c] = Absent => members'[c] = {} /\ attributed'[c] = {}
    BY DEF ToldInv, MembersInv
<1>3. \A p \in Requests : Creating(request'[p]) => members'[request'[p].campaign] = {}
    BY <1>1 DEF ToldInv, MembersInv
<1>4. \A p1, p2 \in Requests :
          /\ Creating(request'[p1]) /\ Creating(request'[p2])
          /\ request'[p1].campaign = request'[p2].campaign
          => p1 = p2
    BY <1>1 DEF ToldInv, MembersInv
<1>5. \A c \in Campaigns : members'[c] \subseteq Present'
    BY DEF ToldInv, MembersInv, RowsGrow
<1>6. QED
    BY <1>2, <1>3, <1>4, <1>5 DEF MembersInv, Creating, Publishing

\* A request of which nobody expects a publication goes on without one, or one
\* that is to publish reads the state of the moment.
LEMMA DocumentStays ==
    ASSUME PinnedInv, ToldInv, NEW r \in Requests, NEW q, Turn(r, q),
           \A p \in Requests \ {r} : request'[p].overtaken = request[p].overtaken,
           UNCHANGED document, Active' = Active,
           "document" \in behind => "document" \in behind',
           Publishing(request[r]) => Publishing(q),
           q.pc = "put" => q.bindings = Active
    PROVE  DocumentInv'
<1>1. \A p \in Requests : Publishing(request[p]) => Publishing(request'[p])
    BY DEF Turn, Alike, Publishing
<1>2. "document" \in behind' \/ document' = Active' \/ \E p \in Requests : Publishing(request'[p])
    BY <1>1 DEF ToldInv, DocumentInv
<1>3. ASSUME NEW p \in Requests, request'[p].pc = "put"
      PROVE  \/ request'[p].overtaken
             \/ request'[p].bindings = Active'
             \/ \E p2 \in Requests \ {p} : Publishing(request'[p2])
    <2>1. CASE p = r
        BY <1>3, <2>1 DEF Turn
    <2>2. CASE p # r
        BY <1>1, <1>3, <2>2 DEF Turn, Alike, At, ToldInv, DocumentInv
    <2>3. QED
        BY <2>1, <2>2
<1>4. QED
    BY <1>2, <1>3 DEF DocumentInv, At, Publishing

\* After a change of the campaigns a request is to publish.
LEMMA DocumentOwed ==
    ASSUME NEW r \in Requests, NEW q, Turn(r, q), q.pc = "bindings"
    PROVE  DocumentInv'
<1>1. request'[r].pc = "bindings"
    BY DEF Turn
<1>2. QED
    BY <1>1 DEF DocumentInv, At, Publishing

\* The other publications have been overtaken.
LEMMA DocumentPut ==
    ASSUME NEW r \in Requests, NEW q, Turn(r, q), q.pc # "put",
           \A p \in Requests \ {r} : request'[p].pc = "put" => request'[p].overtaken = TRUE,
           \/ "document" \in behind' \/ document' = Active'
           \/ \E p \in Requests : Publishing(request'[p])
    PROVE  DocumentInv'
<1>1. \A p \in Requests : request'[p].pc = "put" => request'[p].overtaken = TRUE
    BY DEF Turn
<1>2. QED
    BY <1>1 DEF DocumentInv, At, Publishing

LEMMA SameReferences ==
    ASSUME UNCHANGED <<campaigns, members>>
    PROVE  Active' = Active /\ \A s : References(s)' = References(s)
BY DEF Active, References

\* A station that is new is nobody's member.
LEMMA CountsGoOn ==
    ASSUME ToldInv, CountsKept, CountsRight, \A s \in Known : References(s)' = References(s)
    PROVE  CountsRight'
<1> SUFFICES ASSUME NEW s \in Present' PROVE CountOf(s)'
    BY DEF CountsRight
<1>1. s \in Known /\ References(s)' = References(s)
    BY DEF Present, Known
<1>2. ASSUME s \in Present, rows'[s].count = rows[s].count,
             rows'[s].timer \in {"none", rows[s].timer}
      PROVE  CountOf(s)'
    BY <1>1, <1>2 DEF CountsRight, CountOf
<1>3. ASSUME s \notin Present, rows'[s] = FreshRow
      PROVE  CountOf(s)'
    <2>1. References(s) = {}
        BY <1>3 DEF References, Active, ToldInv, MembersInv
    <2>2. Cardinality(References(s)') = 0
        BY <1>1, <2>1, FS_EmptySet
    <2>3. rows'[s].count = 0
        BY <1>3 DEF FreshRow
    <2>4. QED
        BY <2>2, <2>3 DEF CountOf
<1>4. QED
    BY <1>2, <1>3 DEF CountsKept

LEMMA CountsStay ==
    ASSUME PinnedInv, ToldInv, NEW r \in Requests, NEW q, Turn(r, q), CountsKept,
           \A s \in Known : References(s)' = References(s),
           "stations" \in behind => "stations" \in behind',
           Recounts(request[r]) => Recounts(q)
    PROVE  CountsInv'
<1>1. \A p \in Requests : Recounts(request[p]) => Recounts(request'[p])
    BY DEF Turn, Alike, Recounts, Publishing
<1>2. CountsRight => CountsRight'
    BY CountsGoOn
<1>3. CountsInv
    BY DEF ToldInv
<1>4. "stations" \in behind' \/ CountsRight' \/ \E p \in Requests : Recounts(request'[p])
    BY <1>1, <1>2, <1>3 DEF CountsInv
<1>5. QED
    BY <1>4 DEF CountsInv, Recounts, Publishing

LEMMA CountsOwed ==
    ASSUME NEW r \in Requests, NEW q, Turn(r, q), Recounts(q)
    PROVE  CountsInv'
BY DEF CountsInv, Turn, Recounts, Publishing

LEMMA AttributionStays ==
    ASSUME PinnedInv, ToldInv, NEW r \in Requests, NEW q, Turn(r, q),
           NEW S \in SUBSET Campaigns,
           \A c \in S : members'[c] = members[c] /\ attributed'[c] = attributed[c],
           \A c \in S : c \in behind => c \in behind',
           \A c \in S : Attaching(request[r], c) => Attaching(q, c)
    PROVE  \A c \in S \ behind' :
               attributed'[c] = members'[c] \/ \E p \in Requests : Attaching(request'[p], c)
<1> SUFFICES ASSUME NEW c \in S \ behind', attributed'[c] # members'[c]
             PROVE  \E p \in Requests : Attaching(request'[p], c)
    OBVIOUS
<1>1. PICK p \in Requests : Attaching(request[p], c)
    BY DEF ToldInv, AttributionInv
<1>2. Attaching(request'[p], c)
    BY <1>1 DEF Turn, Alike, Attaching
<1>3. QED
    BY <1>2

LEMMA PartsTold ==
    ASSUME campaigns' = [c \in Campaigns |-> campaigns'[c]],
           attributed' = [c \in Campaigns |-> attributed'[c]],
           RowsTyped', RequestsSound', MembersInv', DocumentInv', CountsInv', AttributionInv'
    PROVE  ToldInv'
BY DEF ToldInv

\* A request that is past its publication, or not yet there, goes on.
LEMMA QuietStep ==
    ASSUME PinnedInv, ToldInv, NEW r \in Requests, NEW q, Goes(r, q), RowsGoOn,
           UNCHANGED <<campaigns, members, attributed, document, behind>>,
           Sound(q), Founded(q, Present'),
           Publishing(request[r]) => Publishing(q),
           q.pc = "put" => q.bindings = Active,
           Creating(q) => Creating(request[r]) /\ q.campaign = request[r].campaign,
           Recounts(request[r]) => Recounts(q),
           \A c \in Campaigns : Attaching(request[r], c) => Attaching(q, c)
    PROVE  ToldInv'
<1>1. Turn(r, q) /\ \A p \in Requests \ {r} : request'[p].overtaken = request[p].overtaken
    BY GoesIsATurn
<1>2. RequestsSound'
    BY <1>1, SoundStays DEF RowsGoOn
<1>3. MembersInv'
    BY <1>1, MembersStay DEF RowsGoOn
<1>4. DocumentInv'
    BY <1>1, DocumentStays, SameReferences
<1>5. CountsInv'
    BY <1>1, CountsStay, SameReferences DEF RowsGoOn
<1>6. AttributionInv'
    <2>1. \A c \in Campaigns \ behind' :
              attributed'[c] = members'[c] \/ \E p \in Requests : Attaching(request'[p], c)
        BY <1>1, AttributionStays
    <2>2. QED
        BY <2>1 DEF AttributionInv, Attaching
<1>7. QED
    BY <1>2, <1>3, <1>4, <1>5, <1>6, PartsTold DEF ToldInv, RowsGoOn

-----------------------------------------------------------------------------
(* The actions.                                                            *)

LEMMA IdleSound ==
    /\ Sound(Idle) /\ \A P : Founded(Idle, P)
    /\ ~Publishing(Idle) /\ ~Creating(Idle) /\ Idle.pc # "put"
BY DEF Idle, Sound, Founded, Publishing, Creating

LEMMA ToTold ==
    ASSUME PinnedInv, ToldInv, NEW r \in Requests, NEW s \in Present', RowsGoOn,
           NEW op \in {"probe", "activate", "park", "stop"}, At(r, "idle"), To(r, op, s),
           UNCHANGED <<campaigns, members, attributed, document, behind>>
    PROVE  ToldInv'
<1>1. PICK q : q = [Idle EXCEPT !.pc = "set", !.op = op, !.station = s]
    OBVIOUS
<1>2. q.pc = "set" /\ q.op = op /\ q.station = s /\ q.todo = {}
    BY <1>1 DEF Idle
<1>3. Sound(q) /\ Founded(q, Present') /\ ~Creating(q)
    BY <1>2 DEF Sound, Founded, Creating, Publishing
<1>4. ~Publishing(request[r]) /\ ~Recounts(request[r])
      /\ \A c \in Campaigns : ~Attaching(request[r], c)
    BY DEF At, Publishing, Recounts, Attaching
<1>5. Goes(r, q)
    BY <1>1 DEF To
<1>6. QED
    BY <1>2, <1>3, <1>4, <1>5, QuietStep

\* A request that finds nothing to do.
LEMMA StaysTold ==
    ASSUME PinnedInv, ToldInv, NEW r \in Requests, RowsGoOn, At(r, "idle"), UNCHANGED request,
           UNCHANGED <<campaigns, members, attributed, document, behind>>
    PROVE  ToldInv'
<1>1. PICK q : q = request[r]
    OBVIOUS
<1>2. Goes(r, q)
    BY <1>1 DEF Goes, PinnedInv
<1>3. Sound(q) /\ Founded(q, Present') /\ q.pc = "idle"
    BY <1>1 DEF ToldInv, RequestsSound, RowsGoOn, RowsGrow, Founded, At
<1>4. QED
    BY <1>1, <1>2, <1>3, QuietStep

LEMMA ProbeTold ==
    ASSUME PinnedInv, ToldInv, NEW r \in Requests, NEW s \in Stations, RequestProbe(r, s)
    PROVE  ToldInv'
<1>1. RowsGoOn /\ s \in Present'
    BY UpsertGoesOn, PinnedAreKnown DEF RequestProbe
<1>2. QED
    BY <1>1, ToTold, StaysTold DEF RequestProbe

LEMMA ActivationTold ==
    ASSUME PinnedInv, ToldInv, NEW r \in Requests, NEW s \in Stations, RequestActivation(r, s)
    PROVE  ToldInv'
<1>1. RowsGoOn /\ s \in Present'
    BY UpsertGoesOn, PinnedAreKnown DEF RequestActivation
<1>2. CASE UNCHANGED request
    BY <1>1, <1>2, StaysTold DEF RequestActivation
<1>3. CASE To(r, "activate", s) \/ To(r, "park", s)
    BY <1>1, <1>3, ToTold DEF RequestActivation
<1>4. QED
    BY <1>2, <1>3 DEF RequestActivation

LEMMA StopTold ==
    ASSUME PinnedInv, ToldInv, NEW r \in Requests, NEW s \in Known, RequestStop(r, s)
    PROVE  ToldInv'
<1>1. RowsGoOn /\ s \in Present'
    BY RowsTheSame DEF RequestStop, RowsGoOn, RowsGrow
<1>2. QED
    BY <1>1, ToTold DEF RequestStop

LEMMA StateSetIs ==
    ASSUME NEW row \in Row, NEW op \in {"probe", "activate", "join", "park", "stop"}
    PROVE  /\ StateSet(row, op) \in Row
           /\ StateSet(row, op).count = row.count
           /\ StateSet(row, op).timer \in {"none", row.timer}
<1>1. CASE op = "probe"
    BY <1>1 DEF StateSet, Row
<1>2. CASE op = "activate"
    BY <1>2 DEF StateSet, Row
<1>3. CASE op = "join"
    BY <1>3 DEF StateSet, Row
<1>4. CASE op = "park"
    BY <1>4 DEF StateSet, Row
<1>5. CASE op = "stop"
    BY <1>5 DEF StateSet, Row
<1>6. QED
    BY <1>1, <1>2, <1>3, <1>4, <1>5

LEMMA SetStateTold ==
    ASSUME PinnedInv, ToldInv, NEW r \in Requests, SetState(r)
    PROVE  ToldInv'
<1>1. PICK m : m = request[r]
    OBVIOUS
<1>2. /\ m.pc = "set" /\ Sound(m) /\ Founded(m, Present) /\ RequestOK(m)
    BY <1>1 DEF SetState, At, ToldInv, RequestsSound, PinnedInv
<1>3. m.station \in Present /\ m.op \in {"probe", "activate", "join", "park", "stop"}
      /\ m.todo \subseteq Present
    BY <1>2 DEF Sound, Founded
<1>4. rows[m.station] \in Row
    BY <1>3 DEF ToldInv, RowsTyped
<1>5. PICK row : row = StateSet(rows[m.station], m.op)
    OBVIOUS
<1>6. rows' = [rows EXCEPT ![m.station] = row]
    BY <1>1, <1>5 DEF SetState
<1>7. RowsGoOn
    BY <1>3, <1>4, <1>5, <1>6, StateSetIs, WriteGoesOn
<1>8. PICK q : q = Onward(m)
    OBVIOUS
<1>9. q = Idle \/ (m.campaign # Absent /\ q.pc = "start" /\ q.op = "create"
                   /\ q.todo = m.todo /\ q.campaign = m.campaign)
    BY <1>2, <1>8 DEF Onward, RequestOK
<1>10. q = Idle => m.campaign = Absent
    BY <1>2, <1>8 DEF Onward, RequestOK, Idle
<1>11. Sound(q) /\ Founded(q, Present') /\ ~Creating(q) /\ q.pc # "put"
    BY <1>3, <1>7, <1>9, IdleSound DEF Sound, Founded, Creating, Publishing, RowsGoOn, RowsGrow
<1>12. ~Publishing(m) /\ ~Recounts(m)
    BY <1>2 DEF Publishing, Recounts
<1>13. \A c \in Campaigns : Attaching(m, c) => Attaching(q, c)
    BY <1>9, <1>10, Distinct DEF Attaching
<1>14. Goes(r, q) /\ UNCHANGED <<campaigns, members, attributed, document, behind>>
    BY <1>1, <1>8 DEF SetState
<1>15. QED
    BY <1>1, <1>7, <1>11, <1>12, <1>13, <1>14, QuietStep

\* The facts about a request that its next call starts from.
LEMMA RequestIs ==
    ASSUME PinnedInv, ToldInv, NEW r \in Requests, NEW m, m = request[r]
    PROVE  RequestOK(m) /\ Sound(m) /\ Founded(m, Present)
BY DEF PinnedInv, ToldInv, RequestsSound

LEMMA ReadBindingsTold ==
    ASSUME PinnedInv, ToldInv, NEW r \in Requests, ReadBindings(r)
    PROVE  ToldInv'
<1>1. PICK m : m = request[r]
    OBVIOUS
<1>2. m.pc = "bindings" /\ RequestOK(m) /\ Sound(m)
    BY <1>1, RequestIs DEF ReadBindings, At
<1>3. PICK q : q = [m EXCEPT !.pc = "put", !.bindings = Active]
    OBVIOUS
<1>4. /\ q.pc = "put" /\ q.op = m.op /\ q.campaign = m.campaign /\ q.bindings = Active
      /\ q.todo = m.todo
    BY <1>2, <1>3 DEF RequestOK
<1>5. Sound(q) /\ Founded(q, Present') /\ Publishing(q)
    BY <1>2, <1>4 DEF Sound, Founded, Creating, Publishing
<1>6. Creating(q) => Creating(m)
    BY <1>2, <1>4 DEF Creating, Publishing
<1>7. Recounts(m) => Recounts(q)
    BY <1>2, <1>4 DEF Recounts, Publishing
<1>8. \A c \in Campaigns : ~Attaching(m, c)
    BY <1>2 DEF Attaching
<1>9. Goes(r, q) /\ UNCHANGED <<rows, campaigns, members, attributed, document, behind>>
    BY <1>1, <1>3 DEF ReadBindings
<1>10. QED
    BY <1>1, <1>4, <1>5, <1>6, <1>7, <1>8, <1>9, RowsTheSame, QuietStep

LEMMA ReadDueTold ==
    ASSUME PinnedInv, ToldInv, NEW r \in Requests, ReadDue(r)
    PROVE  ToldInv'
<1>1. PICK m : m = request[r]
    OBVIOUS
<1>2. m.pc = "due" /\ RequestOK(m)
    BY <1>1, RequestIs DEF ReadDue, At
<1>3. PICK q : q = IF Due = {} THEN Idle ELSE [m EXCEPT !.pc = "wind down", !.todo = Due]
    OBVIOUS
<1>4. q = Idle \/ (q.pc = "wind down" /\ q.todo \subseteq Present)
    BY <1>2, <1>3 DEF RequestOK, Due
<1>5. RowsGoOn
    BY RowsTheSame DEF ReadDue
<1>6. Sound(q) /\ Founded(q, Present') /\ ~Creating(q) /\ q.pc # "put"
    BY <1>4, <1>5, IdleSound DEF Sound, Founded, Creating, Publishing, RowsGoOn, RowsGrow
<1>7. ~Publishing(m) /\ ~Recounts(m) /\ \A c \in Campaigns : ~Attaching(m, c)
    BY <1>2 DEF Publishing, Recounts, Attaching
<1>8. Goes(r, q) /\ UNCHANGED <<campaigns, members, attributed, document, behind>>
    BY <1>1, <1>3 DEF ReadDue
<1>9. QED
    BY <1>1, <1>5, <1>6, <1>7, <1>8, QuietStep

LEMMA WindDownTold ==
    ASSUME PinnedInv, ToldInv, NEW r \in Requests, NEW s \in request[r].todo, WindDown(r, s)
    PROVE  ToldInv'
<1>1. PICK m : m = request[r]
    OBVIOUS
<1>2. m.pc = "wind down" /\ RequestOK(m) /\ Founded(m, Present)
    BY <1>1, RequestIs DEF WindDown, At
<1>3. s \in Present /\ m.todo \subseteq Present
    BY <1>1, <1>2 DEF Founded
<1>4. rows[s] \in Row
    BY <1>3 DEF ToldInv, RowsTyped
<1>5. PICK row : row = [rows[s] EXCEPT !.desired = "stopped", !.actual = "stopped",
                                       !.timer = "none"]
    OBVIOUS
<1>6. row \in Row /\ row.count = rows[s].count /\ row.timer = "none"
    BY <1>4, <1>5 DEF Row
<1>7. rows' = [rows EXCEPT ![s] = row]
    BY <1>3, <1>4, <1>5 DEF WindDown, PinnedInv, Present, Row
<1>8. RowsGoOn
    BY <1>3, <1>6, <1>7, WriteGoesOn
<1>9. PICK q : q = Left(r, s)
    OBVIOUS
<1>10. q = Idle \/ (q.pc = "wind down" /\ q.todo \subseteq Present)
    BY <1>1, <1>2, <1>3, <1>9 DEF RequestOK, Left
<1>11. Sound(q) /\ Founded(q, Present') /\ ~Creating(q) /\ q.pc # "put"
    BY <1>8, <1>10, IdleSound DEF Sound, Founded, Creating, Publishing, RowsGoOn, RowsGrow
<1>12. ~Publishing(m) /\ ~Recounts(m) /\ \A c \in Campaigns : ~Attaching(m, c)
    BY <1>2 DEF Publishing, Recounts, Attaching
<1>13. Goes(r, q) /\ UNCHANGED <<campaigns, members, attributed, document, behind>>
    BY <1>9 DEF WindDown
<1>14. QED
    BY <1>1, <1>8, <1>11, <1>12, <1>13, QuietStep

LEMMA ReadSlotsTold ==
    ASSUME PinnedInv, ToldInv, NEW r \in Requests, ReadSlots(r)
    PROVE  ToldInv'
<1>1. PICK m : m = request[r]
    OBVIOUS
<1>2. m.pc = "slots" /\ RequestOK(m) /\ Founded(m, Present)
    BY <1>1, RequestIs DEF ReadSlots, At
<1>3. PICK free : free = FreeSlots
    OBVIOUS
<1>4. PICK q : q = [m EXCEPT !.pc = "start", !.free = free]
    OBVIOUS
<1>5. q.pc = "start" /\ q.campaign = m.campaign /\ q.todo = m.todo
    BY <1>2, <1>4 DEF RequestOK
<1>6. Sound(q) /\ Founded(q, Present) /\ ~Creating(q)
    BY <1>2, <1>5 DEF Sound, Founded, Creating, Publishing
<1>7. ~Publishing(m) /\ ~Recounts(m) /\ \A c \in Campaigns : Attaching(m, c) => Attaching(q, c)
    BY <1>2, <1>5 DEF Publishing, Recounts, Attaching
<1>8. Goes(r, q) /\ UNCHANGED <<rows, campaigns, members, attributed, document, behind>>
    BY <1>1, <1>3, <1>4 DEF ReadSlots
<1>9. Present' = Present
    BY <1>8 DEF Present
<1>10. QED
    BY <1>1, <1>5, <1>6, <1>7, <1>8, <1>9, RowsTheSame, QuietStep

LEMMA StartMemberTold ==
    ASSUME PinnedInv, ToldInv, NEW r \in Requests, NEW s \in request[r].todo, StartMember(r, s)
    PROVE  ToldInv'
<1>1. PICK m : m = request[r]
    OBVIOUS
<1>2. m.pc = "start" /\ RequestOK(m) /\ Founded(m, Present)
    BY <1>1, RequestIs DEF StartMember, At
<1>3. s \in Present /\ m.todo \subseteq Present
    BY <1>1, <1>2 DEF Founded
<1>4. PICK rest : rest = [m EXCEPT !.todo = m.todo \ {s}]
    OBVIOUS
<1>5. /\ rest.pc = "start" /\ rest.campaign = m.campaign /\ rest.todo \subseteq Present
      /\ {"pc", "op", "campaign", "station", "todo", "free"} \subseteq DOMAIN rest
    BY <1>2, <1>3, <1>4 DEF RequestOK
<1>6. PICK next : next = [rest EXCEPT !.pc = "set", !.station = s]
    OBVIOUS
<1>7. /\ next.pc = "set" /\ next.campaign = m.campaign /\ next.todo \subseteq Present
      /\ next.station = s /\ {"op", "free", "pc"} \subseteq DOMAIN next
    BY <1>5, <1>6
<1>8. PICK q : q = IF UnderWay(s) THEN rest
                   ELSE IF rest.free = 0 THEN [next EXCEPT !.op = "park"]
                   ELSE [next EXCEPT !.op = "join", !.free = @ - 1]
    OBVIOUS
<1>9. /\ q.campaign = m.campaign /\ q.todo \subseteq Present
      /\ \/ q.pc = "start"
         \/ q.pc = "set" /\ q.station = s /\ q.op \in {"park", "join"}
    BY <1>5, <1>7, <1>8
<1>10. Sound(q) /\ Founded(q, Present) /\ ~Creating(q) /\ q.pc # "put"
    BY <1>3, <1>9 DEF Sound, Founded, Creating, Publishing
<1>11. ~Publishing(m) /\ ~Recounts(m) /\ \A c \in Campaigns : Attaching(m, c) => Attaching(q, c)
    BY <1>2, <1>9 DEF Publishing, Recounts, Attaching
<1>12. Goes(r, q) /\ UNCHANGED <<rows, campaigns, members, attributed, document, behind>>
    BY <1>1, <1>4, <1>6, <1>8 DEF StartMember
<1>13. Present' = Present
    BY <1>12 DEF Present
<1>14. QED
    BY <1>1, <1>10, <1>11, <1>12, <1>13, RowsTheSame, QuietStep

\* Members may go; a new campaign is nobody else's.
LEMMA MembersGoOn ==
    ASSUME PinnedInv, ToldInv, NEW r \in Requests, NEW q, Turn(r, q), RowsGrow,
           \A c \in Campaigns : members'[c] \in {members[c], {}},
           \A c \in Campaigns : campaigns'[c] = Absent => members'[c] = {} /\ attributed'[c] = {},
           Creating(q) => /\ members'[q.campaign] = {}
                          /\ \A p \in Requests \ {r} :
                                Creating(request[p]) => request[p].campaign # q.campaign
    PROVE  MembersInv'
<1>1. \A p \in Requests \ {r} :
          /\ Creating(request'[p]) <=> Creating(request[p])
          /\ request'[p].campaign = request[p].campaign
    BY DEF Turn, Alike, Creating, Publishing
<1>2. request'[r] = q
    BY DEF Turn
<1>3. \A p \in Requests : Creating(request'[p]) => members'[request'[p].campaign] = {}
    <2> SUFFICES ASSUME NEW p \in Requests, Creating(request'[p])
                 PROVE  members'[request'[p].campaign] = {}
        OBVIOUS
    <2>1. CASE p = r
        BY <1>2, <2>1
    <2>2. CASE p # r
        <3>1. Creating(request[p]) /\ request'[p].campaign = request[p].campaign
            BY <1>1, <2>2
        <3>2. request[p].campaign \in Campaigns /\ members[request[p].campaign] = {}
            BY <3>1 DEF ToldInv, MembersInv, RequestsSound, Sound
        <3>3. QED
            BY <3>1, <3>2
    <2>3. QED
        BY <2>1, <2>2
<1>4. \A p1, p2 \in Requests :
          /\ Creating(request'[p1]) /\ Creating(request'[p2])
          /\ request'[p1].campaign = request'[p2].campaign
          => p1 = p2
    BY <1>1, <1>2 DEF ToldInv, MembersInv
<1>5. \A c \in Campaigns : members'[c] \subseteq Present'
    BY DEF ToldInv, MembersInv, RowsGrow
<1>6. QED
    BY <1>3, <1>4, <1>5 DEF MembersInv, Creating, Publishing

\* What all commits have in common.
LEMMA CommitTold ==
    ASSUME PinnedInv, ToldInv, NEW r \in Requests, NEW c \in Campaigns, NEW status,
           NEW op \in {"create", "status", "patch"}, NEW S, op = "status" => S = {},
           Commit(r, c, status, op, S)
    PROVE  \E q : /\ Turn(r, q) /\ q.pc = "bindings" /\ q.op = op /\ q.campaign = c
                  /\ request[r].pc = "idle"
                  /\ RowsGoOn /\ RequestsSound' /\ DocumentInv'
                  /\ campaigns' = [x \in Campaigns |-> campaigns'[x]]
                  /\ \A x \in Campaigns : campaigns'[x] = IF x = c THEN status ELSE campaigns[x]
<1>1. PICK q : q = [Idle EXCEPT !.pc = "bindings", !.op = op, !.campaign = c, !.todo = S]
    OBVIOUS
<1>2. q.pc = "bindings" /\ q.op = op /\ q.campaign = c /\ q.todo = S
    BY <1>1 DEF Idle
<1>3. Goes(r, q) /\ request[r].pc = "idle" /\ UNCHANGED rows
    BY <1>1 DEF Commit, At
<1>4. Turn(r, q) /\ RowsGoOn
    BY <1>3, GoesIsATurn, RowsTheSame
<1>5. Sound(q) /\ Founded(q, Present')
    BY <1>2 DEF Sound, Founded
<1>6. RequestsSound'
    BY <1>4, <1>5, SoundStays DEF RowsGoOn
<1>7. DocumentInv'
    BY <1>2, <1>4, DocumentOwed
<1>8. /\ campaigns' = [x \in Campaigns |-> campaigns'[x]]
      /\ \A x \in Campaigns : campaigns'[x] = IF x = c THEN status ELSE campaigns[x]
    BY DEF Commit, ToldInv
<1>9. QED
    BY <1>2, <1>3, <1>4, <1>6, <1>7, <1>8

LEMMA IdleOwesNothing ==
    ASSUME NEW q, q.pc = "idle"
    PROVE  /\ ~Publishing(q) /\ ~Recounts(q) /\ ~Creating(q)
           /\ \A c : ~Attaching(q, c)
BY DEF Publishing, Recounts, Creating, Attaching

LEMMA CreateTold ==
    ASSUME PinnedInv, ToldInv, NEW r \in Requests, NEW c \in Campaigns, NEW S,
           CreateCampaign(r, c, S)
    PROVE  ToldInv'
<1>1. Commit(r, c, "active", "create", S) /\ UNCHANGED <<members, attributed, behind>>
    BY DEF CreateCampaign
<1>2. PICK q : /\ Turn(r, q) /\ q.pc = "bindings" /\ q.op = "create" /\ q.campaign = c
               /\ request[r].pc = "idle"
               /\ RowsGoOn /\ RequestsSound' /\ DocumentInv'
               /\ campaigns' = [x \in Campaigns |-> campaigns'[x]]
               /\ \A x \in Campaigns : campaigns'[x] = IF x = c THEN "active" ELSE campaigns[x]
    BY <1>1, CommitTold
<1>3. /\ campaigns[c] = Absent /\ members[c] = {}
      /\ \A p \in Requests : request[p].campaign # c
    BY DEF CreateCampaign, ToldInv, MembersInv
<1>4. MembersInv'
    <2>1. \A x \in Campaigns : campaigns'[x] = Absent => members'[x] = {} /\ attributed'[x] = {}
        BY <1>1, <1>2, Distinct DEF ToldInv, MembersInv
    <2>2. QED
        BY <1>1, <1>2, <1>3, <2>1, MembersGoOn DEF RowsGoOn
<1>5. \A s \in Known : References(s)' = References(s)
    <2> SUFFICES ASSUME NEW s \in Known
                 PROVE  \A x \in Campaigns : (campaigns'[x] = "active" /\ s \in members'[x])
                                             <=> (campaigns[x] = "active" /\ s \in members[x])
        BY DEF References, Active
    <2>1. QED
        BY <1>1, <1>2, <1>3
<1>6. CountsInv'
    BY <1>1, <1>2, <1>5, CountsStay, IdleOwesNothing DEF RowsGoOn
<1>7. AttributionInv'
    <2>1. \A x \in Campaigns \ behind' :
              attributed'[x] = members'[x] \/ \E p \in Requests : Attaching(request'[p], x)
        BY <1>1, <1>2, AttributionStays, IdleOwesNothing
    <2>2. QED
        BY <2>1 DEF AttributionInv, Attaching
<1>8. QED
    BY <1>1, <1>2, <1>4, <1>6, <1>7, PartsTold DEF ToldInv, RowsGoOn

\* A status that is set by a request that recounts afterwards, or by PATCH.
LEMMA StatusTold ==
    ASSUME PinnedInv, ToldInv, NEW r \in Requests, NEW c \in Campaigns,
           NEW status \in {"active", "paused"},
           ChangeStatus(r, c, status) \/ PatchStatus(r, c, status)
    PROVE  ToldInv'
<1>1. PICK op \in {"status", "patch"} :
          /\ Commit(r, c, status, op, {}) /\ UNCHANGED <<members, attributed>>
          /\ campaigns[c] # Absent /\ behind \subseteq behind'
          /\ op = "status" \/ "stations" \in behind'
          /\ op \in {"create", "status", "patch"}
    BY DEF ChangeStatus, PatchStatus
<1>2. PICK q : /\ Turn(r, q) /\ q.pc = "bindings" /\ q.op = op /\ q.campaign = c
               /\ request[r].pc = "idle"
               /\ RowsGoOn /\ RequestsSound' /\ DocumentInv'
               /\ campaigns' = [x \in Campaigns |-> campaigns'[x]]
               /\ \A x \in Campaigns : campaigns'[x] = IF x = c THEN status ELSE campaigns[x]
    <2>1. CASE op = "status"
        BY <1>1, <2>1, CommitTold
    <2>2. CASE op = "patch"
        BY <1>1, <2>2, CommitTold
    <2>3. QED
        BY <2>1, <2>2
<1>3. MembersInv'
    <2>1. \A x \in Campaigns : campaigns'[x] = Absent => members'[x] = {} /\ attributed'[x] = {}
        BY <1>1, <1>2, Distinct DEF ToldInv, MembersInv
    <2>2. ~Creating(q)
        BY <1>2 DEF Creating
    <2>3. QED
        BY <1>1, <1>2, <2>1, <2>2, MembersGoOn DEF RowsGoOn
<1>4. CountsInv'
    <2>1. ASSUME op = "status" PROVE CountsInv'
        <3>1. Recounts(q)
            BY <1>2, <2>1 DEF Recounts, Publishing
        <3>2. QED
            BY <1>2, <3>1, CountsOwed
    <2>2. ASSUME "stations" \in behind' PROVE CountsInv'
        BY <2>2 DEF CountsInv
    <2>3. QED
        BY <1>1, <2>1, <2>2
<1>5. AttributionInv'
    <2>1. \A x \in Campaigns \ behind' :
              attributed'[x] = members'[x] \/ \E p \in Requests : Attaching(request'[p], x)
        BY <1>1, <1>2, AttributionStays, IdleOwesNothing
    <2>2. QED
        BY <2>1 DEF AttributionInv, Attaching
<1>6. QED
    BY <1>1, <1>2, <1>3, <1>4, <1>5, PartsTold DEF ToldInv, RowsGoOn

\* What a campaign has goes with it, and nothing is left to tell it.
LEMMA DeletionIs ==
    ASSUME PinnedInv, ToldInv, NEW c \in Campaigns, Deletion(c)
    PROVE  /\ attributed' = [x \in Campaigns |-> attributed'[x]]
           /\ members'[c] = {} /\ attributed'[c] = {}
           /\ \A x \in Campaigns \ {c} : members'[x] = members[x] /\ attributed'[x] = attributed[x]
           /\ behind' = behind \ {c}
           /\ "stations" \in behind => "stations" \in behind'
BY Distinct DEF Deletion, PinnedInv, ToldInv

LEMMA DeletionAttributes ==
    ASSUME PinnedInv, ToldInv, NEW r \in Requests, NEW q, Turn(r, q),
           NEW c \in Campaigns, Deletion(c),
           \A x \in Campaigns : ~Attaching(request[r], x)
    PROVE  AttributionInv'
<1>1. \A x \in (Campaigns \ {c}) \ behind' :
          attributed'[x] = members'[x] \/ \E p \in Requests : Attaching(request'[p], x)
    <2>1. PICK S \in SUBSET Campaigns : S = Campaigns \ {c}
        OBVIOUS
    <2>2. QED
        BY <2>1, AttributionStays, DeletionIs
<1>2. attributed'[c] = members'[c]
    BY DeletionIs
<1>3. \A x \in Campaigns \ behind' :
          attributed'[x] = members'[x] \/ \E p \in Requests : Attaching(request'[p], x)
    BY <1>1, <1>2
<1>4. QED
    BY <1>3 DEF AttributionInv, Attaching

LEMMA DeleteTold ==
    ASSUME PinnedInv, ToldInv, NEW r \in Requests, NEW c \in Campaigns, DeleteCampaign(r, c)
    PROVE  ToldInv'
<1>1. Deletion(c) /\ Commit(r, c, Absent, "status", {})
    BY DEF DeleteCampaign
<1>2. PICK q : /\ Turn(r, q) /\ q.pc = "bindings" /\ q.op = "status" /\ q.campaign = c
               /\ request[r].pc = "idle"
               /\ RowsGoOn /\ RequestsSound' /\ DocumentInv'
               /\ campaigns' = [x \in Campaigns |-> campaigns'[x]]
               /\ \A x \in Campaigns : campaigns'[x] = IF x = c THEN Absent ELSE campaigns[x]
    BY <1>1, CommitTold
<1>3. MembersInv'
    <2>1. \A x \in Campaigns : campaigns'[x] = Absent => members'[x] = {} /\ attributed'[x] = {}
        BY <1>1, <1>2, DeletionIs DEF ToldInv, MembersInv
    <2>2. \A x \in Campaigns : members'[x] \in {members[x], {}}
        BY <1>1, DeletionIs
    <2>3. ~Creating(q)
        BY <1>2 DEF Creating
    <2>4. QED
        BY <1>2, <2>1, <2>2, <2>3, MembersGoOn DEF RowsGoOn
<1>4. Recounts(q)
    BY <1>2 DEF Recounts, Publishing
<1>5. CountsInv'
    BY <1>2, <1>4, CountsOwed
<1>6. AttributionInv'
    BY <1>1, <1>2, DeletionAttributes, IdleOwesNothing
<1>7. QED
    BY <1>1, <1>2, <1>3, <1>5, <1>6, DeletionIs, PartsTold DEF RowsGoOn

-----------------------------------------------------------------------------
(* The publication.                                                        *)

LEMMA PutDocumentTold ==
    ASSUME PinnedInv, ToldInv, NEW r \in Requests, PutDocument(r)
    PROVE  ToldInv'
<1>1. PICK m : m = request[r]
    OBVIOUS
<1>2. m.pc = "put" /\ RequestOK(m) /\ Sound(m) /\ Publishing(m)
    BY <1>1, RequestIs DEF PutDocument, At, Publishing
<1>3. PICK q : q = IF After(m.op) = "idle" THEN Idle
                   ELSE [m EXCEPT !.pc = After(m.op), !.bindings = {}, !.overtaken = FALSE]
    OBVIOUS
<1>4. request' = Overtaking(r, q)
    BY <1>1, <1>3 DEF PutDocument
<1>5. Turn(r, q) /\ \A p \in Requests \ {r} : request'[p].pc = "put" => request'[p].overtaken = TRUE
    BY <1>4, OvertakingIsATurn
<1>6. \/ q = Idle /\ m.op # "create" /\ m.op # "status"
      \/ q.pc = "attach" /\ m.op = "create" /\ q.op = m.op /\ q.campaign = m.campaign
      \/ q.pc = "recount" /\ m.op = "status" /\ q.op = m.op /\ q.todo = m.todo
    BY <1>2, <1>3 DEF After, RequestOK
<1>7. q.pc \in {"idle", "attach", "recount"}
    BY <1>6, IdleOK
<1>8. RowsGoOn /\ UNCHANGED <<campaigns, members, attributed>>
    BY RowsTheSame DEF PutDocument
<1>9. RequestsSound'
    <2>1. Sound(q)
        BY <1>2, <1>6, IdleSound DEF Sound, Creating, Publishing
    <2>2. Founded(q, Present')
        BY <1>2, <1>6, IdleSound DEF Founded, Sound
    <2>3. QED
        BY <1>5, <1>8, <2>1, <2>2, SoundStays DEF RowsGoOn
<1>10. MembersInv'
    <2>1. Creating(q) => Creating(m) /\ q.campaign = m.campaign
        BY <1>2, <1>6, IdleSound DEF Creating, Publishing
    <2>2. QED
        BY <1>1, <1>5, <1>8, <2>1, MembersStay DEF RowsGoOn
<1>11. DocumentInv'
    <2>1. ASSUME m.overtaken PROVE "document" \in behind'
        BY <1>1, <2>1 DEF PutDocument
    <2>2. ASSUME ~m.overtaken
          PROVE  document' = Active' \/ \E p \in Requests : Publishing(request'[p])
        <3>1. document' = m.bindings
            BY <1>1 DEF PutDocument
        <3>2. m.bindings = Active \/ \E p \in Requests \ {r} : Publishing(request[p])
            BY <1>1, <1>2, <2>2 DEF ToldInv, DocumentInv, At
        <3>3. \A p \in Requests \ {r} : Publishing(request[p]) => Publishing(request'[p])
            BY <1>5 DEF Turn, Alike, Publishing
        <3>4. QED
            BY <1>8, <3>1, <3>2, <3>3, SameReferences
    <2>3. QED
        BY <1>5, <1>7, <2>1, <2>2, DocumentPut
<1>12. CountsInv'
    <2>1. "stations" \in behind => "stations" \in behind'
        BY DEF PutDocument
    <2>2. Recounts(m) => Recounts(q)
        BY <1>2, <1>6 DEF Recounts
    <2>3. QED
        BY <1>1, <1>5, <1>8, <2>1, <2>2, CountsStay, SameReferences DEF RowsGoOn
<1>13. AttributionInv'
    <2>1. \A c \in Campaigns : c \in behind => c \in behind'
        BY Distinct DEF PutDocument
    <2>2. \A c \in Campaigns : ~Attaching(m, c)
        BY <1>2 DEF Attaching
    <2>3. \A c \in Campaigns \ behind' :
              attributed'[c] = members'[c] \/ \E p \in Requests : Attaching(request'[p], c)
        BY <1>1, <1>5, <1>8, <2>1, <2>2, AttributionStays
    <2>4. QED
        BY <2>3 DEF AttributionInv, Attaching
<1>14. QED
    BY <1>8, <1>9, <1>10, <1>11, <1>12, <1>13, PartsTold DEF ToldInv, RowsGoOn

-----------------------------------------------------------------------------
(* A request that ends before its time.                                    *)

\* What it owed is then on record as not told.
LEMMA EndsTold ==
    ASSUME PinnedInv, ToldInv, NEW r \in Requests, Ends(r),
           UNCHANGED <<rows, campaigns, members, attributed, document>>
    PROVE  ToldInv'
<1>1. PICK m : m = request[r]
    OBVIOUS
<1>2. PICK q : q = Idle
    OBVIOUS
<1>3. /\ ~Publishing(q) /\ ~Creating(q) /\ Sound(q) /\ Founded(q, Present') /\ q.pc # "put"
    BY <1>2, IdleSound
<1>4. /\ "document" \in Owed(m) <=> Publishing(m)
      /\ Recounts(m) => "stations" \in Owed(m)
      /\ \A c \in Live : c = m.campaign => c \in Owed(m)
    BY Distinct DEF Owed, Publishing, Recounts, Live
<1>5. behind' = behind \cup Owed(m)
    BY <1>1 DEF Ends
<1>6. IF Publishing(m) THEN request' = Overtaking(r, q) ELSE Goes(r, q)
    BY <1>1, <1>2, <1>4 DEF Ends
<1>7. Turn(r, q)
    BY <1>6, GoesIsATurn, OvertakingIsATurn
<1>8. RowsGoOn
    BY RowsTheSame
<1>9. RequestsSound'
    BY <1>3, <1>7, <1>8, SoundStays DEF RowsGoOn
<1>10. MembersInv'
    BY <1>3, <1>7, <1>8, MembersStay DEF RowsGoOn
<1>11. DocumentInv'
    <2>1. ASSUME Publishing(m) PROVE DocumentInv'
        <3>1. \A p \in Requests \ {r} : request'[p].pc = "put" => request'[p].overtaken = TRUE
            BY <1>6, <2>1, OvertakingIsATurn
        <3>2. "document" \in behind'
            BY <1>4, <1>5, <2>1
        <3>3. QED
            BY <1>3, <1>7, <3>1, <3>2, DocumentPut
    <2>2. ASSUME ~Publishing(m) PROVE DocumentInv'
        <3>1. \A p \in Requests \ {r} : request'[p].overtaken = request[p].overtaken
            BY <1>6, <2>2, GoesIsATurn
        <3>2. Active' = Active
            BY SameReferences
        <3>3. QED
            BY <1>1, <1>3, <1>5, <1>7, <2>2, <3>1, <3>2, DocumentStays
    <2>3. QED
        BY <2>1, <2>2
<1>12. CountsInv'
    <2>1. ASSUME Recounts(m) PROVE CountsInv'
        <3>1. "stations" \in behind'
            BY <1>4, <1>5, <2>1
        <3>2. QED
            BY <3>1 DEF CountsInv
    <2>2. ASSUME ~Recounts(m) PROVE CountsInv'
        BY <1>1, <1>5, <1>7, <1>8, <2>2, CountsStay, SameReferences DEF RowsGoOn
    <2>3. QED
        BY <2>1, <2>2
<1>13. AttributionInv'
    <2>1. PICK S \in SUBSET Campaigns : S = {c \in Campaigns : c # m.campaign}
        OBVIOUS
    <2>2. \A c \in S : ~Attaching(m, c)
        BY <2>1 DEF Attaching
    <2>3. \A c \in S \ behind' :
              attributed'[c] = members'[c] \/ \E p \in Requests : Attaching(request'[p], c)
        BY <1>1, <1>5, <1>7, <2>2, AttributionStays
    <2>4. ASSUME NEW c \in Campaigns \ behind', c \notin S
          PROVE  attributed'[c] = members'[c]
        <3>1. c \notin Live
            BY <1>4, <1>5, <2>1, <2>4
        <3>2. campaigns[c] = Absent
            BY <3>1 DEF Live
        <3>3. QED
            BY <3>2 DEF ToldInv, MembersInv
    <2>5. \A c \in Campaigns \ behind' :
              attributed'[c] = members'[c] \/ \E p \in Requests : Attaching(request'[p], c)
        BY <2>3, <2>4
    <2>6. QED
        BY <2>5 DEF AttributionInv, Attaching
<1>14. QED
    BY <1>8, <1>9, <1>10, <1>11, <1>12, <1>13, PartsTold DEF ToldInv, RowsGoOn

LEMMA RequestFailsTold ==
    ASSUME PinnedInv, ToldInv, NEW r \in Requests, RequestFails(r)
    PROVE  ToldInv'
BY EndsTold DEF RequestFails

\* The campaign goes again before it had members.
LEMMA SelectionRefusedTold ==
    ASSUME PinnedInv, ToldInv, NEW r \in Requests, SelectionRefused(r)
    PROVE  ToldInv'
<1>1. PICK m : m = request[r]
    OBVIOUS
<1>2. PICK c : c = m.campaign
    OBVIOUS
<1>3. m.pc = "attach" /\ RequestOK(m) /\ Sound(m)
    BY <1>1, RequestIs DEF SelectionRefused, At
<1>4. Creating(m) /\ c \in Campaigns /\ members[c] = {}
    BY <1>1, <1>2, <1>3 DEF Sound, Creating, ToldInv, MembersInv
<1>5. /\ ~Publishing(m) /\ ~Recounts(m) /\ \A x \in Campaigns : ~Attaching(m, x)
    BY <1>3, <1>4 DEF Publishing, Recounts, Attaching, Creating
<1>6. /\ campaigns' = [campaigns EXCEPT ![c] = Absent]
      /\ UNCHANGED <<rows, document>>
    BY <1>1, <1>2 DEF SelectionRefused
<1>7. ASSUME campaigns[c] = Absent PROVE ToldInv'
    <2>1. Goes(r, Idle) /\ UNCHANGED <<members, attributed, behind>>
        BY <1>1, <1>2, <1>7 DEF SelectionRefused
    <2>2. UNCHANGED campaigns
        BY <1>4, <1>6, <1>7 DEF ToldInv
    <2>3. QED
        BY <1>1, <1>5, <1>6, <2>1, <2>2, IdleSound, RowsTheSame, QuietStep
<1>8. ASSUME campaigns[c] # Absent PROVE ToldInv'
    <2>1. PICK q : q = [Idle EXCEPT !.pc = "bindings", !.op = "refused"]
        OBVIOUS
    <2>2. q.pc = "bindings" /\ q.op = "refused"
        BY <2>1 DEF Idle
    <2>3. Deletion(c) /\ Goes(r, q)
        BY <1>1, <1>2, <1>8, <2>1 DEF SelectionRefused
    <2>4. Turn(r, q) /\ RowsGoOn
        BY <1>6, <2>3, GoesIsATurn, RowsTheSame
    <2>5. Sound(q) /\ Founded(q, Present') /\ ~Creating(q)
        BY <2>2 DEF Sound, Founded, Creating
    <2>6. RequestsSound'
        BY <2>4, <2>5, SoundStays DEF RowsGoOn
    <2>7. /\ campaigns' = [x \in Campaigns |-> campaigns'[x]]
          /\ \A x \in Campaigns : campaigns'[x] = IF x = c THEN Absent ELSE campaigns[x]
        BY <1>6 DEF ToldInv
    <2>8. \A x \in Campaigns : members'[x] = members[x]
        BY <1>4, <2>3, DeletionIs
    <2>9. MembersInv'
        <3>1. \A x \in Campaigns : campaigns'[x] = Absent => members'[x] = {} /\ attributed'[x] = {}
            BY <1>4, <2>3, <2>7, DeletionIs DEF ToldInv, MembersInv
        <3>2. QED
            BY <2>4, <2>5, <2>8, <3>1, MembersGoOn DEF RowsGoOn
    <2>10. DocumentInv'
        BY <2>2, <2>4, DocumentOwed
    <2>11. CountsInv'
        <3>1. \A s \in Known : References(s)' = References(s)
            <4> SUFFICES ASSUME NEW s \in Known
                         PROVE  \A x \in Campaigns : (campaigns'[x] = "active" /\ s \in members'[x])
                                                     <=> (campaigns[x] = "active" /\ s \in members[x])
                BY DEF References, Active
            <4>1. QED
                BY <1>4, <2>7, <2>8
        <3>2. "stations" \in behind => "stations" \in behind'
            BY <1>4, <2>3, DeletionIs
        <3>3. QED
            BY <1>1, <1>5, <2>4, <3>1, <3>2, CountsStay DEF RowsGoOn
    <2>12. AttributionInv'
        BY <1>1, <1>4, <1>5, <2>3, <2>4, DeletionAttributes
    <2>13. QED
        BY <1>4, <2>3, <2>4, <2>6, <2>7, <2>9, <2>10, <2>11, <2>12, DeletionIs, PartsTold
           DEF RowsGoOn
<1>9. QED
    BY <1>7, <1>8

-----------------------------------------------------------------------------
(* Members, counts and attributions.                                       *)

LEMMA SetMembersTold ==
    ASSUME PinnedInv, ToldInv, NEW r \in Requests, SetMembers(r)
    PROVE  ToldInv'
<1>1. PICK m : m = request[r]
    OBVIOUS
<1>2. PICK c : c = m.campaign
    OBVIOUS
<1>3. m.pc = "attach" /\ RequestOK(m) /\ Sound(m)
    BY <1>1, RequestIs DEF SetMembers, At
<1>4. m.op = "create" /\ Creating(m) /\ c \in Campaigns /\ m.todo \subseteq Known
    BY <1>1, <1>2, <1>3, PinnedAreKnown DEF Sound, Creating, RequestOK
<1>5. UNCHANGED <<campaigns, attributed, document>>
    BY DEF SetMembers
<1>6. ASSUME campaigns[c] = Absent PROVE ToldInv'
    <2>1. Ends(r) /\ UNCHANGED <<rows, members>>
        BY <1>1, <1>2, <1>6 DEF SetMembers
    <2>2. QED
        BY <1>5, <2>1, EndsTold
<1>7. ASSUME campaigns[c] # Absent PROVE ToldInv'
    <2>1. PICK q : q = [m EXCEPT !.pc = "recount"]
        OBVIOUS
    <2>2. q.pc = "recount" /\ q.op = "create" /\ q.campaign = c /\ q.todo = m.todo
        BY <1>2, <1>3, <1>4, <2>1 DEF RequestOK
    <2>3. /\ rows' = Upserted(m.todo) /\ members' = [members EXCEPT ![c] = m.todo]
          /\ Goes(r, q) /\ UNCHANGED behind
        BY <1>1, <1>2, <1>7, <2>1 DEF SetMembers
    <2>4. RowsGoOn /\ m.todo \subseteq Present'
        BY <1>4, <2>3, UpsertGoesOn
    <2>5. /\ Turn(r, q)
          /\ \A p \in Requests \ {r} : request'[p].overtaken = request[p].overtaken
        BY <2>3, GoesIsATurn
    <2>6. \A x \in Campaigns : members'[x] = IF x = c THEN m.todo ELSE members[x]
        BY <2>3 DEF PinnedInv
    <2>7. Sound(q) /\ Founded(q, Present') /\ ~Creating(q)
        BY <2>2, <2>4 DEF Sound, Founded, Creating, Publishing
    <2>8. RequestsSound'
        BY <2>4, <2>5, <2>7, SoundStays DEF RowsGoOn
    <2>9. MembersInv'
        <3>1. ASSUME NEW p \in Requests, Creating(request'[p])
              PROVE  p # r /\ Creating(request[p])
                     /\ request'[p].campaign = request[p].campaign
            <4>1. p # r
                BY <2>5, <2>7, <3>1 DEF Turn
            <4>2. QED
                BY <2>5, <3>1, <4>1 DEF Turn, Alike, Creating, Publishing
        <3>2. ASSUME NEW p \in Requests, Creating(request'[p])
              PROVE  members'[request'[p].campaign] = {}
            <4>1. p # r /\ Creating(request[p])
                  /\ request'[p].campaign = request[p].campaign
                BY <3>1, <3>2
            <4>2. request[p].campaign # c
                BY <1>1, <1>2, <1>4, <4>1 DEF ToldInv, MembersInv
            <4>3. request[p].campaign \in Campaigns /\ members[request[p].campaign] = {}
                BY <4>1 DEF ToldInv, MembersInv, RequestsSound, Sound
            <4>4. QED
                BY <2>6, <4>1, <4>2, <4>3
        <3>3. \A p1, p2 \in Requests :
                  /\ Creating(request'[p1]) /\ Creating(request'[p2])
                  /\ request'[p1].campaign = request'[p2].campaign
                  => p1 = p2
            BY <3>1 DEF ToldInv, MembersInv
        <3>4. \A x \in Campaigns : campaigns'[x] = Absent => members'[x] = {} /\ attributed'[x] = {}
            BY <1>5, <1>7, <2>6 DEF ToldInv, MembersInv
        <3>5. \A x \in Campaigns : members'[x] \subseteq Present'
            BY <2>4, <2>6 DEF ToldInv, MembersInv, RowsGoOn, RowsGrow
        <3>6. QED
            BY <3>2, <3>3, <3>4, <3>5 DEF MembersInv, Creating, Publishing
    <2>10. DocumentInv'
        <3>1. Active' = Active
            BY <1>5 DEF Active
        <3>2. ~Publishing(m)
            BY <1>3 DEF Publishing
        <3>3. QED
            BY <1>1, <1>5, <2>2, <2>3, <2>5, <3>1, <3>2, DocumentStays
    <2>11. CountsInv'
        BY <2>2, <2>5, CountsOwed DEF Recounts
    <2>12. AttributionInv'
        <3>1. PICK S \in SUBSET Campaigns : S = Campaigns \ {c}
            OBVIOUS
        <3>2. \A x \in Campaigns : ~Attaching(m, x)
            BY <1>3 DEF Attaching
        <3>3. \A x \in S \ behind' :
                  attributed'[x] = members'[x] \/ \E p \in Requests : Attaching(request'[p], x)
            BY <1>1, <1>5, <2>3, <2>5, <2>6, <3>1, <3>2, AttributionStays
        <3>4. Attaching(request'[r], c)
            BY <2>2, <2>5 DEF Turn, Attaching
        <3>5. \A x \in Campaigns \ behind' :
                  attributed'[x] = members'[x] \/ \E p \in Requests : Attaching(request'[p], x)
            BY <3>1, <3>3, <3>4
        <3>6. QED
            BY <3>5 DEF AttributionInv, Attaching
    <2>13. QED
        BY <1>5, <2>4, <2>8, <2>9, <2>10, <2>11, <2>12, PartsTold DEF ToldInv, RowsGoOn
<1>8. QED
    BY <1>6, <1>7

\* A station that is counted anew has as many as refer to it, and one that some
\* campaign refers to has no time.
LEMMA RecountedIs ==
    ASSUME PinnedInv, ToldInv, NEW s \in Present
    PROVE  /\ Recounted(s) \in Row
           /\ Recounted(s).count = Cardinality(References(s))
           /\ Recounted(s).count > 0 => Recounted(s).timer = "none"
<1>1. PICK row : row = rows[s]
    OBVIOUS
<1>2. row \in Row /\ row # Absent
    BY <1>1, Distinct DEF ToldInv, RowsTyped
<1>3. ASSUME References(s) = {}
      PROVE  /\ Recounted(s) \in Row /\ Recounted(s).count = 0
             /\ Cardinality(References(s)) = 0
    <2>1. Recounted(s) = Unreferenced(row)
        BY <1>1, <1>2, <1>3 DEF Recounted
    <2>2. Unreferenced(row) \in Row /\ Unreferenced(row).count = 0
        BY <1>2 DEF Unreferenced, Row
    <2>3. QED
        BY <1>3, <2>1, <2>2, FS_EmptySet
<1>4. ASSUME References(s) # {}
      PROVE  /\ Recounted(s) \in Row /\ Recounted(s).timer = "none"
             /\ Recounted(s).count = Cardinality(References(s))
    <2>1. IsFiniteSet(References(s))
        BY CatalogAssumption, FS_Subset DEF References, Active
    <2>2. PICK n \in Nat : n = Cardinality(References(s))
        BY <2>1, FS_CardinalityType
    <2>3. Recounted(s) = Referenced(row, n)
        BY <1>1, <1>2, <1>4, <2>2 DEF Recounted
    <2>4. /\ Referenced(row, n) \in Row /\ Referenced(row, n).timer = "none"
          /\ Referenced(row, n).count = n
        BY <1>2 DEF Referenced, Row
    <2>5. QED
        BY <2>2, <2>3, <2>4
<1>5. QED
    BY <1>3, <1>4

LEMMA RecountTold ==
    ASSUME PinnedInv, ToldInv, NEW r \in Requests, Recount(r)
    PROVE  ToldInv'
<1>1. PICK m : m = request[r]
    OBVIOUS
<1>2. m.pc = "recount" /\ RequestOK(m) /\ Sound(m) /\ Founded(m, Present)
    BY <1>1, RequestIs DEF Recount, At
<1>3. PICK q : q = IF m.op = "create" THEN [m EXCEPT !.pc = "slots"]
                   ELSE [Idle EXCEPT !.pc = "due", !.op = "status"]
    OBVIOUS
<1>4. \/ /\ m.op = "create" /\ q.pc = "slots" /\ q.op = m.op
         /\ q.campaign = m.campaign /\ q.todo = m.todo
      \/ m.op # "create" /\ q.pc = "due"
    BY <1>2, <1>3 DEF RequestOK, Idle
<1>5. Goes(r, q) /\ UNCHANGED <<campaigns, members, attributed, document>>
    BY <1>1, <1>3 DEF Recount
<1>6. /\ Turn(r, q)
      /\ \A p \in Requests \ {r} : request'[p].overtaken = request[p].overtaken
    BY <1>5, GoesIsATurn
<1>7. \A s \in Known : rows'[s] = Recounted(s)
    BY DEF Recount
<1>8. \A s \in Present : rows'[s] \in Row /\ rows'[s] # Absent
    BY <1>7, RecountedIs, Distinct DEF Present
<1>9. Present' = Present
    <2>1. \A s \in Known : rows[s] = Absent => rows'[s] = Absent
        BY <1>7 DEF Recounted
    <2>2. QED
        BY <1>8, <2>1 DEF Present, Known
<1>10. RowsTyped' /\ RowsGrow
    BY <1>8, <1>9 DEF RowsTyped, RowsGrow
<1>11. RequestsSound'
    <2>1. Sound(q) /\ Founded(q, Present')
        BY <1>2, <1>4, <1>9 DEF Sound, Founded, Creating, Publishing
    <2>2. QED
        BY <1>6, <1>10, <2>1, SoundStays
<1>12. MembersInv'
    <2>1. ~Creating(q)
        BY <1>4 DEF Creating, Publishing
    <2>2. QED
        BY <1>5, <1>6, <1>10, <2>1, MembersStay
<1>13. DocumentInv'
    <2>1. ~Publishing(m) /\ q.pc # "put"
        BY <1>2, <1>4 DEF Publishing
    <2>2. "document" \in behind => "document" \in behind'
        BY DEF Recount
    <2>3. QED
        BY <1>1, <1>5, <1>6, <2>1, <2>2, DocumentStays, SameReferences
<1>14. CountsInv'
    <2>1. ASSUME NEW s \in Present' PROVE CountOf(s)'
        <3>1. s \in Present /\ s \in Known
            BY <1>9, <2>1 DEF Present
        <3>2. References(s)' = References(s)
            BY <1>5, SameReferences
        <3>3. QED
            BY <1>7, <3>1, <3>2, RecountedIs DEF CountOf
    <2>2. QED
        BY <2>1 DEF CountsInv, CountsRight
<1>15. AttributionInv'
    <2>1. \A c \in Campaigns : c \in behind => c \in behind'
        BY Distinct DEF Recount
    <2>2. \A c \in Campaigns : Attaching(m, c) => Attaching(q, c)
        BY <1>2, <1>4 DEF Attaching
    <2>3. \A c \in Campaigns \ behind' :
              attributed'[c] = members'[c] \/ \E p \in Requests : Attaching(request'[p], c)
        BY <1>1, <1>5, <1>6, <2>1, <2>2, AttributionStays
    <2>4. QED
        BY <2>3 DEF AttributionInv, Attaching
<1>16. QED
    BY <1>5, <1>10, <1>11, <1>12, <1>13, <1>14, <1>15, PartsTold DEF ToldInv

LEMMA AttributeTold ==
    ASSUME PinnedInv, ToldInv, NEW r \in Requests, Attribute(r)
    PROVE  ToldInv'
<1>1. PICK m : m = request[r]
    OBVIOUS
<1>2. PICK c : c = m.campaign
    OBVIOUS
<1>3. PICK q : q = Idle
    OBVIOUS
<1>4. /\ ~Publishing(q) /\ ~Creating(q) /\ Sound(q) /\ Founded(q, Present') /\ q.pc # "put"
    BY <1>3, IdleSound
<1>5. Goes(r, q) /\ m.pc = "start" /\ UNCHANGED <<rows, campaigns, members, document, behind>>
    BY <1>1, <1>3 DEF Attribute, At
<1>6. attributed' = [attributed EXCEPT ![c] = members[c]]
    BY <1>1, <1>2 DEF Attribute
<1>7. /\ attributed' = [x \in Campaigns |-> attributed'[x]]
      /\ \A x \in Campaigns : attributed'[x] = IF x = c THEN members[x] ELSE attributed[x]
    BY <1>6 DEF ToldInv
<1>8. /\ Turn(r, q) /\ RowsGoOn
      /\ \A p \in Requests \ {r} : request'[p].overtaken = request[p].overtaken
    BY <1>5, GoesIsATurn, RowsTheSame
<1>9. ~Publishing(m) /\ ~Recounts(m)
    BY <1>5 DEF Publishing, Recounts
<1>10. RequestsSound'
    BY <1>4, <1>8, SoundStays DEF RowsGoOn
<1>11. MembersInv'
    <2>1. \A x \in Campaigns : campaigns'[x] = Absent => members'[x] = {} /\ attributed'[x] = {}
        BY <1>5, <1>7 DEF ToldInv, MembersInv
    <2>2. QED
        BY <1>4, <1>5, <1>8, <2>1, MembersGoOn DEF RowsGoOn
<1>12. DocumentInv'
    BY <1>1, <1>4, <1>5, <1>8, <1>9, DocumentStays, SameReferences
<1>13. CountsInv'
    BY <1>1, <1>5, <1>8, <1>9, CountsStay, SameReferences DEF RowsGoOn
<1>14. AttributionInv'
    <2>1. PICK S \in SUBSET Campaigns : S = Campaigns \ {c}
        OBVIOUS
    <2>2. \A x \in S : ~Attaching(m, x)
        BY <1>2, <2>1 DEF Attaching
    <2>3. \A x \in S \ behind' :
              attributed'[x] = members'[x] \/ \E p \in Requests : Attaching(request'[p], x)
        BY <1>1, <1>5, <1>7, <1>8, <2>1, <2>2, AttributionStays
    <2>4. \A x \in Campaigns \ behind' :
              attributed'[x] = members'[x] \/ \E p \in Requests : Attaching(request'[p], x)
        BY <1>5, <1>7, <2>1, <2>3
    <2>5. QED
        BY <2>4 DEF AttributionInv, Attaching
<1>15. QED
    BY <1>5, <1>7, <1>8, <1>10, <1>11, <1>12, <1>13, <1>14, PartsTold DEF ToldInv, RowsGoOn

-----------------------------------------------------------------------------
(* Time, and the whole.                                                    *)

\* A station that counts a campaign has no time that could be over.
LEMMA GraceEndsTold ==
    ASSUME PinnedInv, ToldInv, NEW s \in Known, GraceEnds(s)
    PROVE  ToldInv'
<1>1. rows[s] \in Row /\ rows[s].timer = "set" /\ s \in Present
    BY DEF GraceEnds, ToldInv, RowsTyped, Present
<1>2. PICK row : row = [rows[s] EXCEPT !.timer = "past"]
    OBVIOUS
<1>3. row \in Row /\ row.count = rows[s].count
    BY <1>1, <1>2 DEF Row
<1>4. /\ \A x \in Known : rows'[x] = IF x = s THEN row ELSE rows[x]
      /\ UNCHANGED <<campaigns, members, attributed, document, request, behind>>
    BY <1>1, <1>2 DEF GraceEnds, PinnedInv, Row
<1>5. Present' = Present
    BY <1>1, <1>3, <1>4, Distinct DEF Present, Known
<1>6. RowsTyped'
    BY <1>3, <1>4, <1>5 DEF ToldInv, RowsTyped, Present
<1>7. RequestsSound' /\ MembersInv' /\ DocumentInv' /\ AttributionInv'
    <2>1. RequestsSound'
        BY <1>4, <1>5 DEF ToldInv, RequestsSound, Sound, Founded, Creating, Publishing
    <2>2. MembersInv'
        BY <1>4, <1>5 DEF ToldInv, MembersInv, Creating, Publishing
    <2>3. DocumentInv'
        BY <1>4 DEF ToldInv, DocumentInv, Active, At, Publishing
    <2>4. AttributionInv'
        BY <1>4 DEF ToldInv, AttributionInv, Attaching
    <2>5. QED
        BY <2>1, <2>2, <2>3, <2>4
<1>8. CountsRight => CountsRight'
    <2> SUFFICES ASSUME CountsRight, NEW x \in Present' PROVE CountOf(x)'
        BY DEF CountsRight
    <2>1. x \in Present /\ x \in Known /\ CountOf(x) /\ CountOf(s)
        BY <1>1, <1>5 DEF CountsRight, Present
    <2>2. References(x)' = References(x)
        BY <1>4, SameReferences
    <2>3. rows[s].count \in Nat /\ ~(rows[s].count > 0)
        BY <1>1, <2>1 DEF CountOf, Row
    <2>4. CASE x = s
        BY <1>3, <1>4, <2>1, <2>2, <2>3, <2>4 DEF CountOf
    <2>5. CASE x # s
        BY <1>4, <2>1, <2>2, <2>5 DEF CountOf
    <2>6. QED
        BY <2>4, <2>5
<1>9. CountsInv'
    BY <1>4, <1>8 DEF ToldInv, CountsInv, Recounts, Publishing
<1>10. QED
    BY <1>4, <1>6, <1>7, <1>9, PartsTold DEF ToldInv

LEMMA InitTold == Init => ToldInv
<1> SUFFICES ASSUME Init PROVE ToldInv
    OBVIOUS
<1>1. \A r \in Requests : request[r] = Idle
    BY DEF Init
<1>2. Idle.pc = "idle" /\ Idle.op = "none"
    BY DEF Idle
<1>3. RowsTyped
    BY Distinct DEF Init, RowsTyped, Present
<1>4. RequestsSound
    BY <1>1, IdleSound DEF RequestsSound
<1>5. MembersInv
    BY <1>1, IdleSound DEF Init, MembersInv
<1>6. Active = {}
    BY Distinct DEF Init, Active
<1>7. DocumentInv
    BY <1>1, <1>2, <1>6 DEF Init, DocumentInv, At
<1>8. CountsInv
    <2> SUFFICES ASSUME NEW s \in Present PROVE CountOf(s)
        BY DEF CountsInv, CountsRight
    <2>1. rows[s] = LegacyRow
        BY DEF Init, Present
    <2>2. References(s) = {}
        BY <1>6 DEF References
    <2>3. QED
        BY <2>1, <2>2, FS_EmptySet DEF CountOf, LegacyRow
<1>9. AttributionInv
    BY DEF Init, AttributionInv
<1>10. QED
    BY <1>3, <1>4, <1>5, <1>7, <1>8, <1>9 DEF Init, ToldInv

LEMMA AsksTold ==
    ASSUME PinnedInv, ToldInv, NEW r \in Requests, Asks(r)
    PROVE  ToldInv'
<1>1. CASE \E s \in Stations : RequestProbe(r, s) \/ RequestActivation(r, s)
    BY <1>1, ProbeTold, ActivationTold
<1>2. CASE \E s \in Known : RequestStop(r, s)
    BY <1>2, StopTold
<1>3. CASE \E c \in Campaigns, S \in (SUBSET Stations) \ {{}} : CreateCampaign(r, c, S)
    BY <1>3, CreateTold
<1>4. CASE \E c \in Campaigns, status \in {"active", "paused"} :
               ChangeStatus(r, c, status) \/ PatchStatus(r, c, status)
    BY <1>4, StatusTold
<1>5. CASE \E c \in Campaigns : DeleteCampaign(r, c)
    BY <1>5, DeleteTold
<1>6. QED
    BY <1>1, <1>2, <1>3, <1>4, <1>5 DEF Asks

LEMMA RequestStepTold ==
    ASSUME PinnedInv, ToldInv, NEW r \in Requests, RequestStep(r)
    PROVE  ToldInv'
BY SetStateTold, ReadBindingsTold, PutDocumentTold, SetMembersTold, RecountTold,
   ReadDueTold, ReadSlotsTold, AttributeTold, WindDownTold, StartMemberTold
   DEF RequestStep

LEMMA StutterTold ==
    ASSUME ToldInv, UNCHANGED vars
    PROVE  ToldInv'
<1>1. UNCHANGED <<rows, campaigns, members, attributed, document, request, behind>>
    BY DEF vars
<1>2. RowsTyped' /\ RequestsSound' /\ Present' = Present
    BY <1>1 DEF ToldInv, RowsTyped, RequestsSound, Sound, Founded, Creating, Publishing, Present
<1>3. MembersInv'
    BY <1>1, <1>2 DEF ToldInv, MembersInv, Creating, Publishing
<1>4. DocumentInv' /\ AttributionInv'
    BY <1>1 DEF ToldInv, DocumentInv, AttributionInv, Active, At, Publishing, Attaching
<1>5. CountsInv'
    BY <1>1, <1>2 DEF ToldInv, CountsInv, CountsRight, CountOf, References, Active, Recounts,
                      Publishing
<1>6. QED
    BY <1>1, <1>2, <1>3, <1>4, <1>5, PartsTold DEF ToldInv

LEMMA NextTold == PinnedInv /\ ToldInv /\ [Next]_vars => ToldInv'
<1> SUFFICES ASSUME PinnedInv, ToldInv, [Next]_vars PROVE ToldInv'
    OBVIOUS
<1>1. CASE \E r \in Requests :
              Asks(r) \/ RequestStep(r) \/ SelectionRefused(r) \/ RequestFails(r)
    BY <1>1, AsksTold, RequestStepTold, SelectionRefusedTold, RequestFailsTold
<1>2. CASE \E s \in Known : GraceEnds(s)
    BY <1>2, GraceEndsTold
<1>3. CASE UNCHANGED vars
    BY <1>3, StutterTold
<1>4. QED
    BY <1>1, <1>2, <1>3 DEF Next

\* With no request under way nobody owes anything.
LEMMA IdleMeansTold == ToldInv => EverybodyTold
<1> SUFFICES ASSUME ToldInv, \A r \in Requests : At(r, "idle")
             PROVE  /\ "document" \notin behind => document = Active
                    /\ "stations" \notin behind =>
                          \A s \in Present :
                              /\ rows[s].count = Cardinality(References(s))
                              /\ rows[s].count > 0 => rows[s].timer = "none"
                    /\ \A c \in Campaigns \ behind : attributed[c] = members[c]
    BY DEF EverybodyTold
<1>1. \A r \in Requests :
          /\ ~Publishing(request[r]) /\ ~Recounts(request[r])
          /\ \A c : ~Attaching(request[r], c)
    BY IdleOwesNothing DEF At
<1>2. "document" \notin behind => document = Active
    BY <1>1 DEF ToldInv, DocumentInv
<1>3. "stations" \notin behind => CountsRight
    BY <1>1 DEF ToldInv, CountsInv
<1>4. \A c \in Campaigns \ behind : attributed[c] = members[c]
    BY <1>1 DEF ToldInv, AttributionInv
<1>5. QED
    BY <1>2, <1>3, <1>4 DEF CountsRight, CountOf

\* When no request is under way, document, counts and attributions say what the
\* campaigns say, but for what a request that ended before its time left untold,
\* however many requests crossed before (publish, recompute_reference_counts,
\* attach_campaign_selection).
THEOREM TheyAreTold == Spec => []EverybodyTold
<1>1. Init => PinnedInv /\ ToldInv
    BY InitPinned, InitTold
<1>2. PinnedInv /\ ToldInv /\ [Next]_vars => (PinnedInv /\ ToldInv)'
    BY NextKeeps, NextTold
<1>3. ToldInv => EverybodyTold
    BY IdleMeansTold
<1>4. QED
    BY <1>1, <1>2, <1>3, PTL DEF Spec
=============================================================================
