--------------------------- MODULE StreamRotation ---------------------------
(***************************************************************************)
(* The scheduler of the listener: StreamSupervisor.reconcile shares        *)
(* RADIO_LISTENER_MAX_SESSIONS slots among the stations assigned to this   *)
(* process (app/services/stream_supervisor.py).  A turn lasts at least     *)
(* ListenerSlice; a station that is in the middle of a conversation, or    *)
(* had a keyword hit in this turn, keeps it, up to MaxListenerSlice.       *)
(*                                                                         *)
(* The ledger of last turns is kept as ranks: only the order of its times  *)
(* is ever used.  Whether a station holds its slot is nondeterministic.    *)
(***************************************************************************)
EXTENDS Integers, FiniteSets, FiniteSetsExt

CONSTANTS
    StationIds,       \* the stations, numbered in the order of their ids
    Slots,            \* RADIO_LISTENER_MAX_SESSIONS
    ListenerSlice,    \* RADIO_LISTENER_SLICE_SECONDS, in units of time
    MaxListenerSlice, \* RADIO_LISTENER_MAX_SLICE_SECONDS
    MaxLag,           \* bound of the model: time between two cycles
    MaxChanges        \* bound of the model: how often the assignment changes

ASSUME RotationAssumption ==
    /\ StationIds \subseteq Nat /\ IsFiniteSet(StationIds)
    /\ Slots \in Nat \ {0} /\ MaxLag \in Nat \ {0} /\ MaxChanges \in Nat
    /\ ListenerSlice \in Nat /\ MaxListenerSlice \in Nat /\ ListenerSlice <= MaxListenerSlice

VARIABLES
    assigned, \* the plans the listener got last; none when the spool is full
    sessions, \* stations that have a session
    elapsed,  \* elapsed[s]: how long the turn of session s has run
    served,   \* _last_served as a rank: NotServed, or later is larger
    dead,     \* sessions whose task ended on its own
    changes,
    tick,     \* flips with every cycle: one that changes nothing else is a step too
    ahead     \* history: <<r, s>>: r has got a turn since s was last served

rotationVars == <<assigned, sessions, elapsed, served, dead, changes, tick, ahead>>

NotServed == 0

RotationInit ==
    /\ assigned \in SUBSET StationIds
    /\ sessions = {} /\ dead = {} /\ ahead = {}
    /\ elapsed = [s \in StationIds |-> 0]
    /\ served = [s \in StationIds |-> NotServed]
    /\ changes = 0 /\ tick = FALSE

-----------------------------------------------------------------------------
\* Where s stands in the queue for a turn: longest since its last one, then by id.
Before_Id(r, s) == r < s
Before(r, s) == served[r] < served[s] \/ (served[r] = served[s] /\ r < s)

\* The stations of S that come first in the queue, n of them at most.
First(S, n) == {s \in S : Cardinality({r \in S : Before(r, s)}) < n}

\* The ranks of a ledger in which `later' has just been served, without gaps.
Reranked(ledger, later) ==
    LET old == {ledger[s] : s \in StationIds \ later} \cup {NotServed}
        rank(v) == Cardinality({w \in old : w < v})
    IN  [s \in StationIds |-> IF s \in later THEN Cardinality(old) ELSE rank(ledger[s])]

\* Turns that are over at time `at[s]', unless the station holds its slot.
Over_Held(s, at, hold) == at[s] >= ListenerSlice /\ s \notin hold
Over(s, at, hold) == at[s] >= ListenerSlice /\ (at[s] >= MaxListenerSlice \/ s \notin hold)

\* _rotate_expired_turns(): the oldest turns that are over, one for every
\* station that waits.
Rotations(staying, waiting, at, hold) ==
    LET over == {s \in staying : Over(s, at, hold)}
    IN  {R \in SUBSET over :
            /\ Cardinality(R) = Min({Cardinality(waiting), Cardinality(over)})
            /\ \A r \in R, s \in over \ R : served[r] <= served[s]}

\* One cycle, `lag' after the last, with the stations in `hold' holding on.
Reconcile(lag, hold) ==
    LET staying == sessions \cap assigned
        waiting == assigned \ sessions
        at == [s \in StationIds |-> Min({elapsed[s] + lag, MaxListenerSlice})]
    IN  \E rotated \in Rotations(staying, waiting, at, hold) :
        LET free == Max({Slots - Cardinality(staying \ rotated), 0})
            started == First(waiting, free)
            ledger == [s \in StationIds |-> IF s \in assigned THEN served[s] ELSE NotServed]
        IN  /\ sessions' = ((staying \ rotated) \cup started) \ dead
            /\ served' = Reranked(ledger, rotated \cup started)
            /\ elapsed' = [s \in StationIds |-> IF s \in sessions' \ started THEN at[s] ELSE 0]
            /\ ahead' = {p \in (ahead \cup (started \X (waiting \ started))) :
                            p[1] \in assigned /\ p[2] \in waiting \ started}
            /\ dead' = {}
            /\ tick' = ~tick
            /\ UNCHANGED <<assigned, changes>>

\* The task of a session ends on its own; the next cycle reaps it.
TaskEnds(s) ==
    /\ s \in sessions \ dead
    /\ dead' = dead \cup {s}
    /\ UNCHANGED <<assigned, sessions, elapsed, served, changes, tick, ahead>>

\* The planner adds or drops stations, or the spool reaches its emergency mark.
Reassign(S) ==
    /\ changes < MaxChanges
    /\ changes' = changes + 1
    /\ assigned' = S
    /\ UNCHANGED <<sessions, elapsed, served, dead, tick, ahead>>

Cycle == \E lag \in 1 .. MaxLag : \E hold \in SUBSET sessions : Reconcile(lag, hold)

RotationNext ==
    \/ Cycle
    \/ \E s \in StationIds : TaskEnds(s)
    \/ \E S \in SUBSET StationIds : Reassign(S)

RotationSpec == RotationInit /\ [][RotationNext]_rotationVars

\* The listener's loop goes on: an exception in a cycle does not end it.
FairRotationSpec == RotationSpec /\ WF_rotationVars(Cycle)

-----------------------------------------------------------------------------
RotationTypeOK ==
    /\ assigned \subseteq StationIds /\ sessions \subseteq StationIds
    /\ dead \subseteq sessions
    /\ elapsed \in [StationIds -> 0 .. MaxListenerSlice]
    /\ served \in [StationIds -> 0 .. 1 + Cardinality(StationIds)]
    /\ changes \in 0 .. MaxChanges /\ tick \in BOOLEAN
    /\ ahead \subseteq StationIds \X StationIds
    /\ Cardinality(sessions) <= Slots

(* "Fairest first: longest since its last turn" (690): while a station       *)
(* waits, no other station that stays assigned gets two turns, whatever dies *)
(* or is added in between.                                                   *)
NoOvertaking ==
    [][\A r, s \in StationIds :
          <<r, s>> \in ahead /\ s \in assigned \ (sessions \cup sessions') =>
              ~(r \in sessions' /\ r \notin sessions)]_rotationVars

(* A station that stays assigned gets its turn: "a permanently talking       *)
(* station can never hold a slot forever" (734-735), and a parked station    *)
(* means "waiting for its turn", not "never" (subscription_planner.py:519).  *)
EveryoneServed == \A s \in StationIds : s \in assigned ~> s \in sessions \/ s \notin assigned

(* "With spare capacity every station simply keeps listening" (683-685): a   *)
(* live session of an assigned station ends only if not all fit.             *)
SpareCapacityKeepsAll ==
    [][Cardinality(assigned) <= Slots =>
          \A s \in sessions \cap assigned : s \in dead \/ s \in sessions']_rotationVars
=============================================================================
