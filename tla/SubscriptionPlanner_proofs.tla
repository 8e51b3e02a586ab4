---------------------- MODULE SubscriptionPlanner_proofs ----------------------
(***************************************************************************)
(* Proofs about SubscriptionPlanner, for every set of stations, campaigns  *)
(* and memberships, every grace period, and however many passes are cut    *)
(* short or campaigns switched.                                            *)
(***************************************************************************)
EXTENDS SubscriptionPlanner, WellFoundedInduction, TLAPS

\* The phases in which the snapshot of the subscriptions is used.
Using == {"upsert", "fill", "winddown"}

\* A deadline lies a grace period after the last pass that refreshed the
\* station, in the row as well as in the snapshot; the snapshot may be behind
\* only for the stations that this pass refreshes.
DeadlineAfterGrace(s, record) == record.left # Never => unasked[s] + record.left >= Grace

GraceInv ==
    /\ TypeOK
    /\ \A s \in Stations : DeadlineAfterGrace(s, row[s])
    /\ pass.at \in Using =>
          \A s \in Stations \ Asked : DeadlineAfterGrace(s, pass.existing[s])
    /\ pass.at \in {"upsert", "fill"} => pass.todo \subseteq Asked
    /\ pass.at = "winddown" => pass.todo \subseteq Unreferenced

-----------------------------------------------------------------------------
\* A phase works on a station it still has to do.
LEMMA CurrentIsTodo ==
    ASSUME pass.todo \subseteq Stations, pass.todo # {}
    PROVE  Current \in pass.todo
<1> DEFINE T == pass.todo
<1>1. T \subseteq Nat
    BY PlannerAssumption
<1>2. PICK x \in T : \A y \in T : <<y, x>> \notin OpToRel(<, Nat)
    BY <1>1, NatLessThanWellFounded, WFMin
<1>3. \A y \in T : ~(y < x)
    BY <1>1, <1>2 DEF OpToRel
<1>4. \A y \in T : x <= y
    BY <1>1, <1>3
<1>5. QED
    BY <1>4 DEF Current, First

LEMMA Constants == /\ Grace \in Nat /\ RetryTime \in Nat \ {0} /\ Budget \in Nat \ {0}
                   /\ Stations \subseteq Nat /\ Never = -1 /\ Never \notin Stations
BY PlannerAssumption DEF Never

LEMMA PhaseNames == {"idle", "read", "upsert", "fill", "winddown", "bind", "publish", "normalize", "sleep"} = Phases
BY DEF Phases

LEMMA NoRowTyped == NoRow \in Row /\ NoRow.left = Never /\ NoRow.state = "absent"
BY Constants DEF NoRow, Row, States

LEMMA IdleTyped == Idle \in Pass /\ Idle.at = "idle"
BY NoRowTyped, Constants DEF Idle, Pass, Phases

\* What the UPDATE of a requested station writes.
LEMMA RefreshedRow ==
    ASSUME NEW s \in Stations, row[s] \in Row, NEW record \in Row
    PROVE  /\ Refreshed(s, record) \in Row
           /\ Refreshed(s, record).left = Never
           /\ Refreshed(s, record).state \notin {"winding_down", "stopped"}
<1>1. Revived(record) \in States \ {"winding_down", "stopped"}
    BY DEF Revived, Row, States, Pool
<1>2. QED
    BY <1>1, Constants DEF Refreshed, Row

-----------------------------------------------------------------------------
LEMMA GraceInit == Init => GraceInv
<1> SUFFICES ASSUME Init PROVE GraceInv
    OBVIOUS
<1>1. TypeOK
    BY NoRowTyped, IdleTyped, Constants DEF Init, TypeOK, NoPlans
<1>2. \A s \in Stations : DeadlineAfterGrace(s, row[s])
    BY NoRowTyped DEF Init, DeadlineAfterGrace
<1>3. pass.at = "idle"
    BY IdleTyped DEF Init
<1>4. QED
    BY <1>1, <1>2, <1>3 DEF GraceInv, Using

LEMMA SwitchKeeps == ASSUME GraceInv, NEW c \in Campaigns, Switch(c) PROVE GraceInv'
BY DEF GraceInv, TypeOK, Switch, tables, listenerVars, DeadlineAfterGrace, Asked, Unreferenced, Known

LEMMA ReadKeeps == ASSUME GraceInv, ReadDesired \/ ReadExisting PROVE GraceInv'
<1>1. CASE ReadDesired
  <2>1. [s \in Stations |-> Wanted(s)] \in [Stations -> SUBSET Campaigns]
      BY DEF GraceInv, TypeOK, Wanted
  <2>2. pass' \in Pass /\ pass'.at = "read"
      BY <1>1, <2>1 DEF ReadDesired, GraceInv, TypeOK, Pass, Phases
  <2>3. UNCHANGED <<active, row, index, bindings, plans, live, streaming, unasked, switches, crashes>>
      BY <1>1 DEF ReadDesired, campaignVars, tables, listenerVars
  <2>4. QED
      BY <2>2, <2>3 DEF GraceInv, TypeOK, Using, DeadlineAfterGrace
<1>2. CASE ReadExisting
  <2>1. pass' = [pass EXCEPT !.at = "upsert", !.existing = row, !.todo = Asked, !.budget = Budget]
      BY <1>2 DEF ReadExisting
  <2>2. /\ pass' \in Pass /\ pass'.existing = row
        /\ pass'.at = "upsert" /\ pass'.todo = Asked /\ Asked' = Asked
    <3>1. pass \in Pass /\ row \in [Stations -> Row]
        BY DEF GraceInv, TypeOK
    <3>2. Asked \in SUBSET Stations /\ Budget \in 0 .. Budget /\ "upsert" \in Phases
        BY Constants, PhaseNames DEF Asked
    <3> DEFINE A == Asked
    <3> HIDE DEF A
    <3>3. pass' = [at |-> "upsert", desired |-> pass.desired, existing |-> row, todo |-> A, budget |-> Budget]
        BY <2>1, <3>1 DEF Pass, A
    <3>4. pass' \in Pass
        BY <3>1, <3>2, <3>3 DEF Pass, A
    <3>5. Asked' = Asked
        BY <3>3 DEF Asked
    <3>6. QED
        BY <3>3, <3>4, <3>5 DEF A
  <2>3. UNCHANGED <<active, row, index, bindings, plans, live, streaming, unasked, switches, crashes>>
      BY <1>2 DEF ReadExisting, campaignVars, tables, listenerVars
  <2>4. TypeOK'
      BY <2>2, <2>3 DEF GraceInv, TypeOK
  <2>5. QED
      BY <2>2, <2>3, <2>4 DEF GraceInv, DeadlineAfterGrace
<1>3. QED
    BY <1>1, <1>2

LEMMA UpsertKeeps == ASSUME GraceInv, Upsert PROVE GraceInv'
<1> DEFINE s == Current
<1> DEFINE new == IF s \in Known THEN Refreshed(s, pass.existing[s])
                  ELSE [NoRow EXCEPT !.state = "desired"]
<1>1. s \in pass.todo /\ s \in Stations /\ s \in Asked
    BY CurrentIsTodo DEF Upsert, At, GraceInv, TypeOK, Pass
<1>2. /\ row' = [row EXCEPT ![s] = new]
      /\ unasked' = [unasked EXCEPT ![s] = 0]
      /\ pass' = [pass EXCEPT !.at = "fill"]
      /\ pass.at = "upsert"
      /\ UNCHANGED <<active, switches, index, bindings, plans, live, streaming, crashes>>
    BY DEF Upsert, At, campaignVars, listenerVars
<1> HIDE DEF s
<1>3. new \in Row /\ new.left = Never /\ new.state # "winding_down"
  <2>1. CASE s \in Known
      BY <1>1, <2>1, RefreshedRow DEF GraceInv, TypeOK, Pass
  <2>2. CASE s \notin Known
    <3>1. new = [NoRow EXCEPT !.state = "desired"]
        BY <2>2
    <3>2. "desired" \in States
        BY DEF States, Pool
    <3>3. QED
        BY <3>1, <3>2, NoRowTyped DEF Row
  <2>3. QED
      BY <2>1, <2>2
<1> HIDE DEF new
<1>4. row' \in [Stations -> Row] /\ \A t \in Stations : row'[t] = IF t = s THEN new ELSE row[t]
    BY <1>1, <1>2, <1>3 DEF GraceInv, TypeOK
<1>5. unasked' \in [Stations -> 0 .. Grace] /\ \A t \in Stations : t # s => unasked'[t] = unasked[t]
    BY <1>1, <1>2, Constants DEF GraceInv, TypeOK
<1>6. /\ pass' \in Pass
      /\ pass'.at = "fill" /\ pass'.todo = pass.todo /\ pass'.existing = pass.existing
      /\ Asked' = Asked
    BY <1>2 DEF GraceInv, TypeOK, Pass, Phases, Asked
<1>7. TypeOK'
    BY <1>2, <1>3, <1>4, <1>5, <1>6 DEF GraceInv, TypeOK
<1>8. \A t \in Stations : DeadlineAfterGrace(t, row[t])'
    BY <1>3, <1>4, <1>5 DEF GraceInv, DeadlineAfterGrace
<1>9. \A t \in Stations \ Asked : DeadlineAfterGrace(t, pass.existing[t])'
    BY <1>1, <1>2, <1>5, <1>6 DEF GraceInv, DeadlineAfterGrace, Using
<1>10. QED
    BY <1>1, <1>2, <1>6, <1>7, <1>8, <1>9 DEF GraceInv

LEMMA FillKeeps ==
    ASSUME GraceInv, FillStreamUrl
    PROVE  GraceInv' /\ \A s \in Stations : row'[s].state = row[s].state
<1> DEFINE s == Current
<1>1. s \in pass.todo /\ s \in Stations
    BY CurrentIsTodo DEF FillStreamUrl, At, GraceInv, TypeOK, Pass
<1>2. /\ pass.at = "fill"
      /\ UNCHANGED <<active, switches, index, bindings, plans, live, streaming, unasked, crashes>>
    BY DEF FillStreamUrl, At, campaignVars, listenerVars
<1>3. /\ row' \in [Stations -> Row]
      /\ \A t \in Stations : row'[t].left = row[t].left /\ row'[t].state = row[t].state
  <2>1. CASE MayLookUp(s)
    <3> DEFINE new == IF s \in Unresolvable THEN [row[s] EXCEPT !.retry = RetryTime]
                      ELSE [row[s] EXCEPT !.url = TRUE, !.retry = 0]
    <3>1. row' = [row EXCEPT ![s] = new]
        BY <2>1 DEF FillStreamUrl
    <3>2. row \in [Stations -> Row] /\ row[s] \in Row
        BY <1>1 DEF GraceInv, TypeOK
    <3>3. RetryTime \in 0 .. RetryTime /\ 0 \in 0 .. RetryTime /\ TRUE \in BOOLEAN
        BY Constants
    <3>4. ASSUME s \in Unresolvable
          PROVE  new \in Row /\ new.left = row[s].left /\ new.state = row[s].state
      <4>1. new = [row[s] EXCEPT !.retry = RetryTime]
          BY <3>4
      <4>2. QED
          BY <3>2, <3>3, <4>1 DEF Row
    <3>5. ASSUME s \notin Unresolvable
          PROVE  new \in Row /\ new.left = row[s].left /\ new.state = row[s].state
      <4>1. new = [row[s] EXCEPT !.url = TRUE, !.retry = 0]
          BY <3>5
      <4>2. QED
          BY <3>2, <3>3, <4>1 DEF Row
    <3>6. new \in Row /\ new.left = row[s].left /\ new.state = row[s].state
      <4> HIDE DEF new
      <4>1. QED
          BY <3>4, <3>5
    <3> HIDE DEF new
    <3>7. QED
        BY <1>1, <3>1, <3>2, <3>6
  <2>2. CASE ~MayLookUp(s)
      BY <2>2 DEF FillStreamUrl, GraceInv, TypeOK
  <2>3. QED
      BY <2>1, <2>2
<1>4. /\ pass' \in Pass /\ pass'.at = "upsert" /\ pass'.todo \subseteq pass.todo
      /\ pass'.existing = pass.existing /\ Asked' = Asked
  <2>1. CASE MayLookUp(s)
    <3>1. pass' = [pass EXCEPT !.at = "upsert", !.todo = NextStation, !.budget = @ - 1]
        BY <2>1 DEF FillStreamUrl
    <3>2. pass.budget - 1 \in 0 .. Budget
        BY <2>1, Constants DEF MayLookUp, GraceInv, TypeOK, Pass
    <3>3. NextStation \in SUBSET pass.todo /\ pass \in Pass /\ "upsert" \in Phases
        BY PhaseNames DEF NextStation, GraceInv, TypeOK, Pass
    <3> DEFINE rest == NextStation
    <3> HIDE DEF rest
    <3>4. pass' = [at |-> "upsert", desired |-> pass.desired, existing |-> pass.existing,
                   todo |-> rest, budget |-> pass.budget - 1]
        BY <3>1, <3>3 DEF Pass, rest
    <3>5. pass' \in Pass
        BY <3>2, <3>3, <3>4 DEF Pass, rest
    <3>6. QED
        BY <3>3, <3>4, <3>5 DEF Asked, rest
  <2>2. CASE ~MayLookUp(s)
    <3>1. pass' = [pass EXCEPT !.at = "upsert", !.todo = NextStation]
        BY <2>2 DEF FillStreamUrl
    <3>2. NextStation \in SUBSET pass.todo /\ pass \in Pass /\ "upsert" \in Phases
        BY PhaseNames DEF NextStation, GraceInv, TypeOK, Pass
    <3>3. QED
        BY <3>1, <3>2 DEF Pass, Asked
  <2>3. QED
      BY <2>1, <2>2
<1>5. TypeOK'
    BY <1>2, <1>3, <1>4 DEF GraceInv, TypeOK
<1>6. QED
    BY <1>2, <1>3, <1>4, <1>5 DEF GraceInv, DeadlineAfterGrace, Using

\* A station is stopped when its deadline has passed, and then a grace period
\* has.
LEMMA WindDownKeeps ==
    ASSUME GraceInv, WindDown
    PROVE  /\ GraceInv'
           /\ \A t \in Stations :
                 row'[t].state = "stopped" /\ row[t].state # "stopped" => unasked[t] >= Grace
<1> DEFINE s == Current
<1>1. /\ s \in pass.todo /\ s \in Stations
      /\ s \in Stations \ Asked
      /\ pass.at = "winddown"
  <2>1. pass.at = "winddown" /\ s \in pass.todo /\ s \in Stations
      BY CurrentIsTodo DEF WindDown, At, GraceInv, TypeOK, Pass
  <2>2. QED
      BY <2>1 DEF GraceInv, Unreferenced
<1>2. /\ row' = [row EXCEPT ![s] = WoundDown(s, pass.existing[s])]
      /\ pass' = [pass EXCEPT !.todo = NextStation]
      /\ UNCHANGED <<active, switches, index, bindings, plans, live, streaming, unasked, crashes>>
    BY DEF WindDown, campaignVars, listenerVars
<1> HIDE DEF s
<1> DEFINE old == row[s]
           record == pass.existing[s]
           new == WoundDown(s, record)
<1>3. old \in Row /\ record \in Row /\ unasked[s] \in 0 .. Grace
    BY <1>1 DEF GraceInv, TypeOK, Pass
<1>4. DeadlineAfterGrace(s, old) /\ DeadlineAfterGrace(s, record)
    BY <1>1 DEF GraceInv, Using
<1>5. old.left # Never <=> old.state = "winding_down"
    BY <1>1 DEF GraceInv, TypeOK
<1>6. /\ new \in Row
      /\ new.left # Never <=> new.state = "winding_down"
      /\ DeadlineAfterGrace(s, new)
      /\ new.state = "stopped" /\ old.state # "stopped" => unasked[s] >= Grace
  <2>1. CASE record.left = Never
    <3>1. new = [old EXCEPT !.state = "winding_down", !.left = Grace, !.reason = Before(record)]
        BY <2>1, Constants DEF WoundDown
    <3>2. /\ "winding_down" \in States /\ Before(record) \in {"none", "was_active", "was_idle"}
          /\ Grace \in {Never} \cup 0 .. Grace
        BY Constants DEF States, Before
    <3>3. new \in Row /\ new.state = "winding_down" /\ new.left = Grace
        BY <1>3, <3>1, <3>2 DEF Row
    <3>4. QED
        BY <1>3, <3>3, Constants DEF DeadlineAfterGrace
  <2>2. CASE record.left = 0
    <3>1. new = [old EXCEPT !.state = "stopped", !.reason = "none", !.left = Never]
        BY <2>2, Constants DEF WoundDown
    <3>2. new \in Row /\ new.state = "stopped" /\ new.left = Never
      <4>1. "stopped" \in States /\ "none" \in {"none", "was_active", "was_idle"}
          BY DEF States
      <4>2. QED
          BY <1>3, <3>1, <4>1 DEF Row
    <3>3. unasked[s] >= Grace
        BY <1>3, <1>4, <2>2, Constants DEF DeadlineAfterGrace
    <3>4. QED
        BY <3>2, <3>3 DEF DeadlineAfterGrace
  <2>3. CASE record.left # Never /\ record.left # 0
    <3>1. new = old
        BY <2>3 DEF WoundDown
    <3>2. QED
        BY <1>3, <1>4, <1>5, <3>1
  <2>4. QED
      BY <2>1, <2>2, <2>3
<1> HIDE DEF new
<1>7. row' \in [Stations -> Row] /\ \A t \in Stations : row'[t] = IF t = s THEN new ELSE row[t]
    BY <1>1, <1>2, <1>6 DEF GraceInv, TypeOK, new
<1>8. /\ pass' \in Pass /\ pass'.at = pass.at /\ pass'.existing = pass.existing
      /\ pass'.todo \subseteq pass.todo /\ pass'.desired = pass.desired
    BY <1>2 DEF NextStation, GraceInv, TypeOK, Pass
<1>9. TypeOK'
    BY <1>2, <1>6, <1>7, <1>8 DEF GraceInv, TypeOK
<1>10. \A t \in Stations : DeadlineAfterGrace(t, row[t])'
    BY <1>2, <1>6, <1>7 DEF GraceInv, DeadlineAfterGrace
<1>11. Asked' = Asked /\ Unreferenced' = Unreferenced
    BY <1>8 DEF Asked, Unreferenced, Known
<1>12. \A t \in Stations \ Asked : DeadlineAfterGrace(t, pass.existing[t])'
    BY <1>1, <1>2, <1>8 DEF GraceInv, DeadlineAfterGrace, Using
<1>13. GraceInv'
    BY <1>1, <1>8, <1>9, <1>10, <1>11, <1>12 DEF GraceInv
<1>14. QED
    BY <1>6, <1>7, <1>13

\* The steps that leave the rows, or their timers, alone.
LEMMA PublishKeeps == ASSUME GraceInv, ReplaceBindings \/ Publish PROVE GraceInv'
<1>1. /\ row' = row /\ unasked' = unasked
      /\ UNCHANGED <<active, switches, plans, live, streaming, crashes>>
    BY DEF ReplaceBindings, Publish, campaignVars, listenerVars
<1>2. /\ pass' \in Pass /\ pass'.at \in {"publish", "bind"}
  <2>1. pass \in Pass /\ NextStation \in SUBSET Stations
      BY DEF NextStation, GraceInv, TypeOK, Pass
  <2>2. \/ pass' = [pass EXCEPT !.at = "publish"]
        \/ pass' = [pass EXCEPT !.at = "bind", !.todo = NextStation]
      BY DEF ReplaceBindings, Publish
  <2>3. QED
      BY <2>1, <2>2, PhaseNames DEF Pass
<1>3. index' \in [Stations -> SUBSET Campaigns] /\ bindings' \in [Stations -> SUBSET Campaigns]
  <2>1. At("bind") \/ At("publish")
      BY DEF ReplaceBindings, Publish
  <2>2. Current \in Stations
      BY <2>1, CurrentIsTodo DEF At, GraceInv, TypeOK, Pass
  <2>3. QED
      BY <2>2 DEF ReplaceBindings, Publish, GraceInv, TypeOK, Pass
<1>4. TypeOK'
    BY <1>1, <1>2, <1>3 DEF GraceInv, TypeOK
<1>5. QED
    BY <1>1, <1>2, <1>4 DEF GraceInv, Using, DeadlineAfterGrace

LEMMA EndPhaseKeeps == ASSUME GraceInv, EndPhase PROVE GraceInv'
<1>1. UNCHANGED <<active, switches, row, index, bindings, plans, live, streaming, unasked, crashes>>
    BY DEF EndPhase, campaignVars, tables, listenerVars
<1>2. Asked' = Asked /\ Unreferenced' = Unreferenced /\ pass'.existing = pass.existing
    BY DEF EndPhase, Asked, Unreferenced, Known, GraceInv, TypeOK, Pass
<1>3. pass' \in Pass
  <2>1. pass \in Pass /\ Asked \in SUBSET Stations /\ Unreferenced \in SUBSET Stations
      BY DEF GraceInv, TypeOK, Asked, Unreferenced, Known
  <2>2. \/ pass' = [pass EXCEPT !.at = "winddown", !.todo = Unreferenced]
        \/ pass' = [pass EXCEPT !.at = "bind", !.todo = Asked]
        \/ pass' = [pass EXCEPT !.at = "normalize"]
      BY DEF EndPhase
  <2>3. QED
      BY <2>1, <2>2, PhaseNames DEF Pass
<1>4. \/ pass.at = "upsert" /\ pass'.at = "winddown" /\ pass'.todo = Unreferenced
      \/ pass'.at \in {"bind", "normalize"}
    BY DEF EndPhase, GraceInv, TypeOK, Pass
<1>5. TypeOK'
    BY <1>1, <1>3 DEF GraceInv, TypeOK
<1>6. QED
    BY <1>1, <1>2, <1>4, <1>5 DEF GraceInv, Using, DeadlineAfterGrace

LEMMA NormalizeKeeps == ASSUME GraceInv, Normalize PROVE GraceInv'
<1>1. UNCHANGED <<active, switches, index, bindings, plans, live, streaming, unasked, crashes>>
    BY DEF Normalize, campaignVars, listenerVars
<1>2. ASSUME NEW s \in Stations
      PROVE  /\ Normalized(row[s]) \in Row
             /\ Normalized(row[s]).left = row[s].left
             /\ Normalized(row[s]).state = "winding_down" <=> row[s].state = "winding_down"
  <2>1. row[s] \in Row /\ "pending_capacity" \in States
      BY DEF GraceInv, TypeOK, States, Pool
  <2>2. QED
      BY <2>1 DEF Normalized, Row
<1>3. /\ row' \in [Stations -> Row]
      /\ \A s \in Stations : /\ row'[s].left = row[s].left
                             /\ row'[s].state = "winding_down" <=> row[s].state = "winding_down"
    BY <1>2 DEF Normalize
<1>4. pass' \in Pass /\ pass'.at = "sleep"
    BY IdleTyped, PhaseNames DEF Normalize, Pass
<1>5. TypeOK'
    BY <1>1, <1>3, <1>4 DEF GraceInv, TypeOK
<1>6. QED
    BY <1>1, <1>3, <1>4, <1>5 DEF GraceInv, Using, DeadlineAfterGrace

\* The clock: what a deadline loses, the time since the last refresh gains.
LEMMA SleepKeeps == ASSUME GraceInv, Sleep PROVE GraceInv'
<1>1. UNCHANGED <<active, switches, index, bindings, plans, live, streaming, crashes>>
    BY DEF Sleep, campaignVars, listenerVars
<1>2. ASSUME NEW s \in Stations
      PROVE  /\ row'[s] \in Row
             /\ row'[s].left = Less(row[s].left) /\ row'[s].state = row[s].state
             /\ unasked'[s] \in 0 .. Grace
             /\ row'[s].left # Never <=> row[s].left # Never
             /\ DeadlineAfterGrace(s, row[s])'
  <2>1. row[s] \in Row /\ unasked[s] \in 0 .. Grace /\ DeadlineAfterGrace(s, row[s])
      BY DEF GraceInv, TypeOK
  <2>2. /\ row'[s] = [row[s] EXCEPT !.left = Less(@), !.retry = Less(@)]
        /\ unasked'[s] = IF unasked[s] < Grace THEN unasked[s] + 1 ELSE unasked[s]
      BY DEF Sleep
  <2>3. /\ Less(row[s].left) \in {Never} \cup 0 .. Grace
        /\ Less(row[s].retry) \in 0 .. RetryTime
        /\ Less(row[s].left) # Never <=> row[s].left # Never
        /\ row[s].left # Never => Less(row[s].left) >= row[s].left - 1
      BY <2>1, Constants DEF Less, Row
  <2>4. /\ row'[s] \in Row /\ row'[s].left = Less(row[s].left) /\ row'[s].state = row[s].state
      BY <2>1, <2>2, <2>3 DEF Row
  <2>5. unasked'[s] \in 0 .. Grace /\ (unasked'[s] = Grace \/ unasked'[s] = unasked[s] + 1)
      BY <2>1, <2>2, Constants
  <2>6. row[s].left # Never => unasked'[s] + Less(row[s].left) >= Grace
    <3> SUFFICES ASSUME row[s].left # Never PROVE unasked'[s] + Less(row[s].left) >= Grace
        OBVIOUS
    <3>1. row[s].left \in Nat /\ Less(row[s].left) \in Nat /\ unasked[s] + row[s].left >= Grace
        BY <2>1, <2>3, Constants DEF DeadlineAfterGrace, Row
    <3>2. QED
        BY <2>1, <2>3, <2>5, <3>1, Constants
  <2>7. QED
      BY <2>3, <2>4, <2>5, <2>6 DEF DeadlineAfterGrace
<1>3. row' \in [Stations -> Row] /\ unasked' \in [Stations -> 0 .. Grace]
  <2>1. /\ row' = [s \in Stations |-> [row[s] EXCEPT !.left = Less(@), !.retry = Less(@)]]
        /\ unasked' = [s \in Stations |-> IF unasked[s] < Grace THEN unasked[s] + 1 ELSE unasked[s]]
      BY DEF Sleep
  <2>2. \A s \in Stations : row'[s] \in Row /\ unasked'[s] \in 0 .. Grace
      BY <1>2
  <2>3. QED
      BY <2>1, <2>2
<1>4. pass' \in Pass /\ pass'.at = "idle"
    BY IdleTyped DEF Sleep
<1>5. TypeOK'
    BY <1>1, <1>2, <1>3, <1>4 DEF GraceInv, TypeOK
<1>6. QED
    BY <1>2, <1>4, <1>5 DEF GraceInv, Using

LEMMA CrashKeeps == ASSUME GraceInv, Crash PROVE GraceInv'
<1>1. /\ UNCHANGED <<active, switches, row, index, bindings, plans, live, streaming, unasked>>
      /\ crashes' = crashes + 1
    BY DEF Crash, campaignVars, tables, listenerVars
<1>2. pass' \in Pass /\ pass'.at = "sleep"
    BY IdleTyped, PhaseNames DEF Crash, Pass
<1>3. TypeOK'
    BY <1>1, <1>2 DEF GraceInv, TypeOK
<1>4. QED
    BY <1>1, <1>2, <1>3 DEF GraceInv, Using, DeadlineAfterGrace

\* The listener changes states, but never a timer, and none of a station that
\* winds down.
OnlyStates ==
    /\ row' \in [Stations -> Row]
    /\ \A s \in Stations :
          /\ row'[s].left = row[s].left
          /\ row'[s].state # row[s].state =>
                {row[s].state, row'[s].state} \cap {"winding_down", "stopped"} = {}
    /\ UNCHANGED <<active, switches, index, bindings, pass, unasked, crashes>>

LEMMA OnlyStatesKeeps ==
    ASSUME GraceInv, OnlyStates, plans' \subseteq Stations \cup {Never},
           streaming' \subseteq live', live' \subseteq Stations
    PROVE  GraceInv'
<1>1. TypeOK'
    BY DEF OnlyStates, GraceInv, TypeOK
<1>2. Asked' = Asked /\ Unreferenced' = Unreferenced
    BY DEF OnlyStates, Asked, Unreferenced, Known
<1>3. QED
    BY <1>1, <1>2 DEF OnlyStates, GraceInv, DeadlineAfterGrace

LEMMA ListenerOnlyStates ==
    ASSUME GraceInv, Listen \/ \E s \in Stations : Streams(s) \/ Breaks(s)
    PROVE  /\ OnlyStates
           /\ plans' \subseteq Stations \cup {Never}
           /\ streaming' \subseteq live' /\ live' \subseteq Stations
<1>1. /\ row \in [Stations -> Row] /\ plans \subseteq Stations \cup {Never}
      /\ streaming \subseteq live /\ live \subseteq Stations
    BY DEF GraceInv, TypeOK
<1>2. {"active", "degraded", "pending_capacity"} \subseteq States
    BY DEF States, Pool
<1>3. CASE ReadPlans
    BY <1>1, <1>3 DEF ReadPlans, OnlyStates, campaignVars, tables
<1>4. ASSUME NEW running \in SUBSET Stations, Reconcile(running)
      PROVE  /\ OnlyStates
             /\ plans' \subseteq Stations \cup {Never}
             /\ streaming' \subseteq live' /\ live' \subseteq Stations
  <2>1. ASSUME NEW s \in Stations
        PROVE  /\ SyncedWaiting(s, running) \in Row
               /\ SyncedWaiting(s, running).left = row[s].left
               /\ SyncedWaiting(s, running).state # row[s].state =>
                     {row[s].state, SyncedWaiting(s, running).state} \cap {"winding_down", "stopped"} = {}
    <3>1. row[s] \in Row
        BY <1>1
    <3>2. QED
        BY <1>2, <3>1 DEF SyncedWaiting, Row
  <2>2. row' = [s \in Stations |-> SyncedWaiting(s, running)]
      BY <1>4 DEF Reconcile
  <2>3. UNCHANGED <<active, switches, index, bindings, pass, unasked, crashes>>
      BY <1>4 DEF Reconcile, campaignVars
  <2>4. OnlyStates
      BY <2>1, <2>2, <2>3 DEF OnlyStates
  <2>5. QED
      BY <1>4, <2>4 DEF Reconcile, NoPlans
<1>5. ASSUME NEW s \in Stations, Streams(s) \/ Breaks(s)
      PROVE  /\ OnlyStates
             /\ plans' \subseteq Stations \cup {Never}
             /\ streaming' \subseteq live' /\ live' \subseteq Stations
  <2>1. PICK new \in {"active", "degraded"} :
           \/ row' = row
           \/ /\ row[s].state \in {"starting", "active", "degraded", "pending_capacity"}
              /\ row' = [row EXCEPT ![s].state = new, ![s].reason = "none"]
      BY <1>5 DEF Streams, Breaks
  <2>2. UNCHANGED <<active, switches, index, bindings, pass, plans, live, unasked, crashes>>
      BY <1>5 DEF Streams, Breaks, campaignVars
  <2>3. row[s] \in Row
      BY <1>1
  <2>4. OnlyStates
      BY <1>1, <1>2, <2>1, <2>2, <2>3 DEF OnlyStates, Row
  <2>5. QED
      BY <1>1, <1>5, <2>2, <2>4 DEF Streams, Breaks
<1>6. QED
    BY <1>3, <1>4, <1>5 DEF Listen

-----------------------------------------------------------------------------
(* A step of the system, and the theorems. *)

\* Only WindDown stops a station.
StoppedOnlyAfterGrace ==
    \A s \in Stations : row'[s].state = "stopped" /\ row[s].state # "stopped" => unasked[s] >= Grace

LEMMA GraceStep ==
    ASSUME GraceInv, [Next]_vars
    PROVE  GraceInv' /\ StoppedOnlyAfterGrace
<1>1. CASE WindDown
    BY <1>1, WindDownKeeps DEF StoppedOnlyAfterGrace
<1>2. CASE Listen \/ \E s \in Stations : Streams(s) \/ Breaks(s)
  <2>1. OnlyStates
      BY <1>2, ListenerOnlyStates
  <2>2. GraceInv'
      BY <1>2, <2>1, ListenerOnlyStates, OnlyStatesKeeps
  <2>3. QED
      BY <2>1, <2>2 DEF OnlyStates, StoppedOnlyAfterGrace
<1>3. CASE Upsert
  <2>1. Current \in Stations
      BY <1>3, CurrentIsTodo DEF Upsert, At, GraceInv, TypeOK, Pass
  <2>2. row'[Current].state # "stopped" /\ \A s \in Stations \ {Current} : row'[s] = row[s]
    <3>1. pass.existing[Current] \in Row /\ row[Current] \in Row /\ row \in [Stations -> Row]
        BY <2>1 DEF GraceInv, TypeOK, Pass
    <3>2. Refreshed(Current, pass.existing[Current]).state # "stopped"
        BY <2>1, <3>1, RefreshedRow
    <3>3. [NoRow EXCEPT !.state = "desired"].state # "stopped"
        BY DEF NoRow
    <3>4. QED
        BY <1>3, <2>1, <3>1, <3>2, <3>3 DEF Upsert
  <2>3. QED
      BY <1>3, <2>2, UpsertKeeps DEF StoppedOnlyAfterGrace
<1>4. CASE FillStreamUrl
    BY <1>4, FillKeeps DEF StoppedOnlyAfterGrace
<1>5. CASE Normalize
  <2>1. \A s \in Stations : row'[s].state = "stopped" => row[s].state = "stopped"
      BY <1>5 DEF Normalize, Normalized, GraceInv, TypeOK, Row
  <2>2. QED
      BY <1>5, <2>1, NormalizeKeeps DEF StoppedOnlyAfterGrace
<1>6. CASE Sleep
  <2>1. \A s \in Stations : row'[s].state = row[s].state
      BY <1>6 DEF Sleep, GraceInv, TypeOK, Row
  <2>2. QED
      BY <1>6, <2>1, SleepKeeps DEF StoppedOnlyAfterGrace
<1>7. CASE ReadDesired \/ ReadExisting \/ ReplaceBindings \/ Publish \/ EndPhase \/ Crash
           \/ \E c \in Campaigns : Switch(c)
  <2>1. row' = row
      BY <1>7 DEF ReadDesired, ReadExisting, ReplaceBindings, Publish, EndPhase, Crash, Switch, tables
  <2>2. GraceInv'
      BY <1>7, ReadKeeps, PublishKeeps, EndPhaseKeeps, CrashKeeps, SwitchKeeps
  <2>3. QED
      BY <2>1, <2>2 DEF StoppedOnlyAfterGrace
<1>8. CASE UNCHANGED vars
  <2>1. UNCHANGED <<active, switches, row, index, bindings, pass, plans, live, streaming, unasked, crashes>>
      BY <1>8 DEF vars, campaignVars, tables, listenerVars
  <2>2. GraceInv'
      BY <2>1 DEF GraceInv, TypeOK, DeadlineAfterGrace, Asked, Unreferenced, Known
  <2>3. QED
      BY <2>1, <2>2 DEF StoppedOnlyAfterGrace
<1>9. QED
    BY <1>1, <1>2, <1>3, <1>4, <1>5, <1>6, <1>7, <1>8 DEF Next, Plan

\* Every reachable state is well typed, and a timer runs exactly while a
\* station winds down (_wind_down_unreferenced, _upsert_subscriptions).
THEOREM PlannerTyped == Spec => []TypeOK
<1>1. Init => GraceInv
    BY GraceInit
<1>2. GraceInv /\ [Next]_vars => GraceInv'
    BY GraceStep
<1>3. GraceInv => TypeOK
    BY DEF GraceInv
<1>4. QED
    BY <1>1, <1>2, <1>3, PTL DEF Spec

\* No station is stopped before a whole grace period has gone by in which no
\* pass found it referenced, whatever was switched while a pass worked on its
\* snapshots and however many passes were cut short (subscription_planner.py:382).
THEOREM GraceIsHonoured == Spec => GraceHonoured
<1>1. Init => GraceInv
    BY GraceInit
<1>2. GraceInv /\ [Next]_vars => GraceInv' /\ StoppedOnlyAfterGrace
    BY GraceStep
<1>3. StoppedOnlyAfterGrace => [StoppedOnlyAfterGrace]_vars
    OBVIOUS
<1>4. Spec => [][StoppedOnlyAfterGrace]_vars
    BY <1>1, <1>2, <1>3, PTL DEF Spec
<1>5. QED
    BY <1>4 DEF GraceHonoured, StoppedOnlyAfterGrace
=============================================================================
