---------------------------- MODULE Outbox_proofs ----------------------------
(***************************************************************************)
(* Proofs about Outbox, for every set of events and dispatchers and every  *)
(* value of the bounds.                                                    *)
(***************************************************************************)
EXTENDS Outbox, FiniteSetTheorems, SequenceTheorems, TLAPS

\* A batch is finite, so its size is a number.
LEMMA BatchIsFinite == Cardinality(Batch) \in Nat /\ (Batch # {} => Cardinality(Batch) > 0)
<1>1. Batch \subseteq Events
    BY DEF Batch, Claimable
<1>2. IsFiniteSet(Batch)
    BY <1>1, OutboxConstants, FS_Subset
<1>3. QED
    BY <1>2, FS_CardinalityType, FS_EmptySet

\* The head and the tail of a batch that is not empty.
LEMMA NonEmptySeq ==
    ASSUME NEW S, NEW s \in Seq(S), s # <<>>
    PROVE  /\ Head(s) \in S
           /\ Tail(s) \in Seq(S)
           /\ Len(s) \in Nat /\ Len(s) > 0
           /\ Len(Tail(s)) = Len(s) - 1
           /\ Len(s) # 1 => Tail(s) # <<>>
           /\ \A i \in 1 .. Len(s) - 1 : Tail(s)[i] = s[i + 1]
           /\ Head(s) = s[1]
<1>1. Len(s) \in Nat /\ Len(s) > 0
    BY EmptySeq, LenProperties
<1>2. /\ Head(s) \in S /\ Tail(s) \in Seq(S) /\ Len(Tail(s)) = Len(s) - 1
      /\ \A i \in 1 .. Len(s) - 1 : Tail(s)[i] = s[i + 1]
      /\ Head(s) = s[1]
    BY <1>1, HeadTailProperties
<1>3. ASSUME Len(s) # 1, Tail(s) = <<>> PROVE FALSE
  <2>1. Len(Tail(s)) = 0
    BY <1>3, EmptySeq
  <2>2. Len(s) - 1 # 0
    BY <1>1, <1>3
  <2>3. QED
    BY <2>1, <2>2, <1>2
<1>4. QED
    BY <1>1, <1>2, <1>3

\* What Advance leaves of a dispatcher's batch is a batch.
LEMMA AdvanceType ==
    ASSUME TypeOK, NEW d \in Dispatchers, claimed[d] # <<>>, Advance(d)
    PROVE  /\ claimed' \in [Dispatchers -> Seq(Claim)]
           /\ phase' \in [Dispatchers -> Phase]
<1>1. Tail(claimed[d]) \in Seq(Claim)
    BY NonEmptySeq DEF TypeOK
<1>2. QED
    BY <1>1 DEF TypeOK, Advance, Phase

\* A dispatcher in the middle of a cycle holds at least the event it is at.
HoldsCurrent ==
    \A d \in Dispatchers : phase[d] \in {"send", "accepted", "raised"} => claimed[d] # <<>>

\* The types, and that they are kept.
TypeInv == TypeOK /\ HoldsCurrent

LEMMA CurrentType ==
    ASSUME TypeInv, NEW d \in Dispatchers, phase[d] \in {"send", "accepted", "raised"}
    PROVE  /\ claimed[d] # <<>>
           /\ Current(d) \in Claim
           /\ Current(d).event \in Events
           /\ Current(d).attempts \in Nat
<1>1. claimed[d] # <<>> /\ claimed[d] \in Seq(Claim)
    BY DEF TypeInv, TypeOK, HoldsCurrent
<1>2. Head(claimed[d]) \in Claim
    BY <1>1
<1>3. QED
    BY <1>1, <1>2 DEF Current, Claim

\* Advance leaves the dispatcher with an event unless it goes idle.
LEMMA AdvanceHolds ==
    ASSUME TypeInv, NEW d \in Dispatchers, claimed[d] # <<>>, Advance(d)
    PROVE  HoldsCurrent'
<1>0. claimed[d] \in Seq(Claim)
    BY DEF TypeInv, TypeOK
<1>1. Len(claimed[d]) # 1 => Tail(claimed[d]) # <<>>
    BY <1>0, NonEmptySeq
<1>2. QED
    BY <1>1 DEF TypeInv, TypeOK, HoldsCurrent, Advance

LEMMA MoveToEndType ==
    ASSUME TypeOK, NEW e \in Events, MoveToEnd(e)
    PROVE  ahead' \in [Events -> SUBSET Events]
BY DEF TypeOK, MoveToEnd

LEMMA RecordType ==
    ASSUME TypeOK, NEW e \in Events, NEW s \in Status, NEW n \in Nat, Record(e, s, n)
    PROVE  row' \in [Events -> Row]
BY DEF TypeOK, Record, Row, Lease

\* Every state of Outbox is well typed, whatever the interleaving.
LEMMA TypeInvariant == Spec => []TypeInv
<1>1. Init => TypeInv
  BY OutboxConstants DEF Init, TypeInv, TypeOK, HoldsCurrent, Row, Status, Lease, Absent, Phase, Claim
<1>2. TypeInv /\ [Next]_vars => TypeInv'
  <2> SUFFICES ASSUME TypeInv, [Next]_vars PROVE TypeInv'
    OBVIOUS
  <2> USE OutboxConstants
  <2>1. ASSUME NEW e \in Events, Enqueue(e) PROVE TypeInv'
    <3>1. CASE Present(e)
      BY <2>1, <3>1 DEF Enqueue, TypeInv, TypeOK, HoldsCurrent
    <3>2. CASE ~Present(e)
      <4>1. ahead' \in [Events -> SUBSET Events]
        BY <2>1, <3>2, MoveToEndType DEF Enqueue, TypeInv
      <4>2. row' \in [Events -> Row]
        BY <2>1, <3>2 DEF Enqueue, TypeInv, TypeOK, Fresh, Row, Status, Lease
      <4>3. QED
        BY <2>1, <3>2, <4>1, <4>2 DEF Enqueue, TypeInv, TypeOK, HoldsCurrent
    <3>3. QED
      BY <3>1, <3>2
  <2>2. ASSUME NEW d \in Dispatchers, ReclaimStaleLeases(d) PROVE TypeInv'
    <3>1. \A e \in Events : Reclaimed(row[e]) \in Row
      BY DEF Reclaimed, TypeInv, TypeOK, Row, Status, Lease
    <3>2. row' \in [Events -> Row]
      BY <2>2, <3>1 DEF ReclaimStaleLeases, TypeInv, TypeOK
    <3>3. QED
      BY <2>2, <3>2 DEF ReclaimStaleLeases, TypeInv, TypeOK, HoldsCurrent, Phase
  <2>3. ASSUME NEW d \in Dispatchers, ClaimBatch(d) PROVE TypeInv'
    <3>1. row' \in [Events -> Row]
      BY <2>3 DEF ClaimBatch, TypeInv, TypeOK, Row, Status, Lease
    <3>2. PICK s \in [1 .. Cardinality(Batch) -> Batch] :
             claimed' = [claimed EXCEPT ![d] =
                [i \in 1 .. Cardinality(Batch) |->
                    [event |-> s[i], attempts |-> row[s[i]].attempts]]]
      BY <2>3 DEF ClaimBatch
    <3> DEFINE c == [i \in 1 .. Cardinality(Batch) |->
                        [event |-> s[i], attempts |-> row[s[i]].attempts]]
    <3>3. \A e \in Batch : e \in Events /\ row[e].attempts \in Nat
      BY DEF Batch, Claimable, TypeInv, TypeOK, Row
    <3>4. c \in Seq(Claim) /\ Len(c) = Cardinality(Batch)
      <4>1. Cardinality(Batch) \in Nat
        BY BatchIsFinite
      <4>2. \A i \in 1 .. Cardinality(Batch) : c[i] \in Claim
        BY <3>3 DEF Claim
      <4>3. QED
        BY <4>1, <4>2, IsASeq
    <3>5. claimed' \in [Dispatchers -> Seq(Claim)]
      BY <3>2, <3>4 DEF TypeInv, TypeOK
    <3>6. phase' \in [Dispatchers -> Phase]
      BY <2>3 DEF ClaimBatch, TypeInv, TypeOK, Phase
    <3>7. HoldsCurrent'
      <4>1. Batch # {} => c # <<>>
        BY <3>4, BatchIsFinite, EmptySeq
      <4>2. claimed'[d] = c /\ \A x \in Dispatchers \ {d} : claimed'[x] = claimed[x]
        BY <3>2 DEF TypeInv, TypeOK
      <4>3. phase'[d] = (IF Batch = {} THEN "idle" ELSE "send")
            /\ \A x \in Dispatchers \ {d} : phase'[x] = phase[x]
        BY <2>3 DEF ClaimBatch, TypeInv, TypeOK
      <4>4. QED
        BY <4>1, <4>2, <4>3 DEF TypeInv, HoldsCurrent
    <3>8. UNCHANGED <<waiting, ahead, committed, arrived, rejects, reported, crashes>>
      BY <2>3 DEF ClaimBatch
    <3>9. QED
      BY <3>1, <3>5, <3>6, <3>7, <3>8 DEF TypeInv, TypeOK
  <2>4. ASSUME NEW d \in Dispatchers, SendAccepted(d) PROVE TypeInv'
    <3>1. Current(d).event \in Events
      BY <2>4, CurrentType DEF SendAccepted
    <3>2. arrived' \in Seq(Events)
      BY <2>4, <3>1 DEF SendAccepted, TypeInv, TypeOK
    <3>3. QED
      BY <2>4, <3>2 DEF SendAccepted, TypeInv, TypeOK, HoldsCurrent, Phase
  <2>5. ASSUME NEW d \in Dispatchers, SendRaised(d) PROVE TypeInv'
    <3>1. Current(d).event \in Events
      BY <2>5, CurrentType DEF SendRaised
    <3>2. arrived' \in Seq(Events)
      <4>1. arrived \in Seq(Events) /\ Append(arrived, Current(d).event) \in Seq(Events)
        BY <3>1, AppendProperties DEF TypeInv, TypeOK
      <4>2. arrived' = arrived \/ arrived' = Append(arrived, Current(d).event)
        BY <2>5 DEF SendRaised
      <4>3. QED
        BY <4>1, <4>2
    <3>3. rejects' \in [Events -> Nat]
      <4>1. rejects \in [Events -> Nat]
        BY DEF TypeInv, TypeOK
      <4>2. rejects' = [rejects EXCEPT ![Current(d).event] = rejects[Current(d).event] + 1]
        BY <2>5 DEF SendRaised
      <4>3. rejects[Current(d).event] + 1 \in Nat
        <5>1. rejects[Current(d).event] \in Nat
          BY <3>1, <4>1
        <5>2. QED
          BY <5>1
      <4>4. QED
        BY <3>1, <4>1, <4>2, <4>3
    <3>4. QED
      BY <2>5, <3>2, <3>3 DEF SendRaised, TypeInv, TypeOK, HoldsCurrent, Phase
  <2>6. ASSUME NEW d \in Dispatchers, MarkSent(d) PROVE TypeInv'
    <3>1. row[Current(d).event].attempts \in Nat
      BY <2>6, CurrentType DEF MarkSent, TypeInv, TypeOK, Row
    <3>2. row' \in [Events -> Row]
      BY <2>6, <3>1, CurrentType, RecordType DEF MarkSent, TypeInv, Status
    <3>3. QED
      BY <2>6, <3>2, CurrentType, AdvanceType, AdvanceHolds DEF MarkSent, TypeInv, TypeOK
  <2>7. ASSUME NEW d \in Dispatchers, ScheduleRetry(d) PROVE TypeInv'
    <3>0. row[Current(d).event].attempts \in Nat
      BY <2>7, CurrentType DEF ScheduleRetry, TypeInv, TypeOK, Row
    <3>1. row[Current(d).event].attempts + 1 \in Nat
      BY <3>0
    <3>2. row' \in [Events -> Row]
      BY <2>7, <3>1, CurrentType, RecordType DEF ScheduleRetry, TypeInv, Status
    <3>3. QED
      BY <2>7, <3>2, CurrentType, AdvanceType, AdvanceHolds DEF ScheduleRetry, TypeInv, TypeOK
  <2>8. ASSUME NEW d \in Dispatchers, MarkFailed(d) PROVE TypeInv'
    <3>0. row[Current(d).event].attempts \in Nat
      BY <2>8, CurrentType DEF MarkFailed, TypeInv, TypeOK, Row
    <3>1. row[Current(d).event].attempts + 1 \in Nat
      BY <3>0
    <3>2. row' \in [Events -> Row]
      BY <2>8, <3>1, CurrentType, RecordType DEF MarkFailed, TypeInv, Status
    <3>3. QED
      BY <2>8, <3>2, CurrentType, AdvanceType, AdvanceHolds DEF MarkFailed, TypeInv, TypeOK
  <2>9. ASSUME NEW d \in Dispatchers, Release(d) PROVE TypeInv'
    <3>1. row[Current(d).event].attempts \in Nat
      BY <2>9, CurrentType DEF Release, TypeInv, TypeOK, Row
    <3>2. row' \in [Events -> Row]
      BY <2>9, <3>1, CurrentType, RecordType DEF Release, TypeInv, Status
    <3>3. QED
      BY <2>9, <3>2, CurrentType, AdvanceType, AdvanceHolds DEF Release, TypeInv, TypeOK
  <2>10. ASSUME NEW d \in Dispatchers, Crash(d) PROVE TypeInv'
    BY <2>10 DEF Crash, TypeInv, TypeOK, HoldsCurrent, Phase
  <2>11. ASSUME NEW d \in Dispatchers, Prune(d) PROVE TypeInv'
    BY <2>11 DEF Prune, TypeInv, TypeOK, HoldsCurrent, Absent, Row, Status, Lease
  <2>12. ASSUME NEW e \in Events, LeaseExpires(e) PROVE TypeInv'
    BY <2>12 DEF LeaseExpires, TypeInv, TypeOK, HoldsCurrent, Row, Lease
  <2>13. ASSUME NEW e \in Events, BackoffElapses(e) PROVE TypeInv'
    BY <2>13, MoveToEndType DEF BackoffElapses, TypeInv, TypeOK, HoldsCurrent
  <2>14. CASE UNCHANGED vars
    BY <2>14 DEF vars, TypeInv, TypeOK, HoldsCurrent
  <2>15. QED
    BY <2>1, <2>2, <2>3, <2>4, <2>5, <2>6, <2>7, <2>8, <2>9, <2>10, <2>11,
       <2>12, <2>13, <2>14 DEF Next, Cycle
<1>3. QED
  BY <1>1, <1>2, PTL DEF Spec

\* Every reachable state of the outbox is well typed, whatever the number of
\* events, dispatchers, crashes and refused sends.
THEOREM OutboxTyped == Spec => []TypeOK
<1>1. TypeInv => TypeOK
  BY DEF TypeInv
<1>2. QED
  BY <1>1, TypeInvariant, PTL

-----------------------------------------------------------------------------
(* What d has sent has arrived; what is in a batch has been committed; a row *)
(* that is gone, sent or failed has left its trace.                          *)
StallInv ==
    /\ \A d \in Dispatchers : phase[d] = "accepted" => Current(d).event \in Arrived
    /\ \A e \in Events : row[e].status = "sent" => e \in Arrived
    /\ \A e \in Events : row[e].status = "failed" => e \in reported
    /\ NoSilentStall

\* What has arrived stays arrived.
LEMMA ArrivedGrows ==
    ASSUME TypeInv, NEW e \in Events,
           arrived' = arrived \/ arrived' = Append(arrived, e)
    PROVE  /\ Arrived \subseteq Arrived'
           /\ arrived' = Append(arrived, e) => e \in Arrived'
<1>1. arrived \in Seq(Events)
    BY DEF TypeInv, TypeOK
<1>2. CASE arrived' = arrived
    <2>1. Arrived' = Arrived
        BY <1>2 DEF Arrived
    <2>2. ASSUME arrived' = Append(arrived, e) PROVE FALSE
        <3>1. Len(Append(arrived, e)) = Len(arrived) + 1
            BY <1>1, AppendProperties
        <3>2. QED
            BY <1>1, <1>2, <2>2, <3>1, LenProperties
    <2>3. QED
        BY <2>1, <2>2
<1>3. CASE arrived' = Append(arrived, e)
    <2>1. /\ DOMAIN arrived' = 1 .. Len(arrived) + 1
          /\ arrived'[Len(arrived) + 1] = e
          /\ \A i \in 1 .. Len(arrived) : arrived'[i] = arrived[i]
          /\ DOMAIN arrived = 1 .. Len(arrived)
          /\ Len(arrived) \in Nat
        BY <1>1, <1>3, AppendProperties, LenProperties
    <2>2. QED
        BY <2>1 DEF Arrived
<1>4. QED
    BY <1>2, <1>3

LEMMA RowStatus == TypeInv => \A e \in Events : row[e].status \in Status
BY DEF TypeInv, TypeOK, Row

LEMMA StallInvariant == Spec => []StallInv
<1>1. Init => StallInv
  BY DEF Init, StallInv, NoSilentStall, Absent
<1>2. TypeInv /\ StallInv /\ [Next]_vars => StallInv'
  <2> SUFFICES ASSUME TypeInv, StallInv, [Next]_vars PROVE StallInv'
    OBVIOUS
  <2>0. committed \subseteq Events
    BY DEF TypeInv, TypeOK
  <2>1. ASSUME NEW e \in Events, Enqueue(e) PROVE StallInv'
    <3>1. \A f \in Events : row'[f] = row[f]
             \/ (f = e /\ row[f].status = "absent" /\ row'[f].status = "pending")
      <4>1. CASE Present(e)
        BY <2>1, <4>1 DEF Enqueue
      <4>2. CASE ~Present(e)
        BY <2>1, <4>2 DEF Enqueue, Present, Fresh, TypeInv, TypeOK
      <4>3. QED
        BY <4>1, <4>2
    <3>2. row'[e].status # "absent"
      BY <2>1 DEF Enqueue, Present, Fresh, TypeInv, TypeOK
    <3>3. /\ UNCHANGED <<claimed, phase, arrived, reported>>
          /\ committed' = committed \cup {e}
      BY <2>1 DEF Enqueue
    <3>4. row'[e].status \in Status
      BY <2>1, <3>1, RowStatus DEF Status
    <3>5. NoSilentStall'
      BY <2>0, <3>1, <3>2, <3>3, <3>4 DEF StallInv, NoSilentStall, Arrived, Status
    <3>6. QED
      BY <3>1, <3>3, <3>5 DEF StallInv, Current, Arrived
  <2>2. ASSUME NEW d \in Dispatchers, ReclaimStaleLeases(d) PROVE StallInv'
    <3>1. \A e \in Events : row'[e] = row[e]
             \/ (row[e].status = "sending" /\ row'[e].status = "pending")
      <4>1. \A e \in Events : Reclaimed(row[e]).status = "pending"
        BY DEF Reclaimed, TypeInv, TypeOK, Row
      <4>2. row' = [e \in Events |->
                      IF row[e].status = "sending" /\ row[e].lease = "expired"
                      THEN Reclaimed(row[e]) ELSE row[e]]
        BY <2>2 DEF ReclaimStaleLeases
      <4>3. QED
        BY <4>1, <4>2, Zenon
    <3>2. QED
      BY <2>2, <3>1 DEF ReclaimStaleLeases, StallInv, NoSilentStall, TypeInv, TypeOK, Current, Arrived
  <2>3. ASSUME NEW d \in Dispatchers, ClaimBatch(d) PROVE StallInv'
    <3>1. \A e \in Events : row'[e] = row[e]
             \/ (row[e].status = "pending" /\ row'[e].status = "sending")
      <4>1. \A e \in Events :
               [row[e] EXCEPT !.status = "sending", !.lease = "held"].status = "sending"
        BY DEF TypeInv, TypeOK, Row
      <4>2. \A e \in Batch : row[e].status = "pending"
        BY DEF Batch, Claimable
      <4>3. row' = [e \in Events |->
                      IF e \in Batch
                      THEN [row[e] EXCEPT !.status = "sending", !.lease = "held"]
                      ELSE row[e]]
        BY <2>3 DEF ClaimBatch
      <4>4. QED
        BY <4>1, <4>2, <4>3, Zenon
    <3>2. /\ phase'[d] # "accepted"
          /\ \A x \in Dispatchers \ {d} : phase'[x] = phase[x] /\ claimed'[x] = claimed[x]
          /\ UNCHANGED <<arrived, committed, reported>>
      BY <2>3 DEF ClaimBatch, TypeInv, TypeOK
    <3>3. NoSilentStall'
      BY <2>0, <3>1, <3>2 DEF StallInv, NoSilentStall, Arrived
    <3>4. (\A x \in Dispatchers : phase[x] = "accepted" => Current(x).event \in Arrived)'
      BY <3>2 DEF StallInv, Current, Arrived
    <3>5. /\ (\A e \in Events : row[e].status = "sent" => e \in Arrived)'
          /\ (\A e \in Events : row[e].status = "failed" => e \in reported)'
      BY <3>1, <3>2 DEF StallInv, Arrived
    <3>6. QED
      BY <3>3, <3>4, <3>5 DEF StallInv
  <2>4. ASSUME NEW d \in Dispatchers, SendAccepted(d) PROVE StallInv'
    <3>1. Arrived \subseteq Arrived' /\ Current(d).event \in Arrived'
      <4>1. Current(d).event \in Events
        BY <2>4, CurrentType DEF SendAccepted
      <4>2. CASE Current(d).event \in Arrived
        BY <2>4, <4>2 DEF SendAccepted, Arrived
      <4>3. CASE Current(d).event \notin Arrived
        BY <2>4, <4>1, <4>3, ArrivedGrows DEF SendAccepted
      <4>4. QED
        BY <4>2, <4>3
    <3>2. QED
      BY <2>4, <3>1 DEF SendAccepted, StallInv, NoSilentStall, TypeInv, TypeOK, Current
  <2>5. ASSUME NEW d \in Dispatchers, SendRaised(d) PROVE StallInv'
    <3>1. Arrived \subseteq Arrived'
      <4>1. Current(d).event \in Events
        BY <2>5, CurrentType DEF SendRaised
      <4>2. QED
        BY <2>5, <4>1, ArrivedGrows DEF SendRaised
    <3>2. phase'[d] = "raised" /\ \A x \in Dispatchers \ {d} : phase'[x] = phase[x]
      BY <2>5 DEF SendRaised, TypeInv, TypeOK
    <3>3. UNCHANGED <<row, claimed, committed, reported>>
      BY <2>5 DEF SendRaised
    <3>4. QED
      BY <3>1, <3>2, <3>3 DEF StallInv, NoSilentStall, Current
  <2>6. ASSUME NEW d \in Dispatchers, MarkSent(d) PROVE StallInv'
    <3>1. Current(d).event \in Events /\ Current(d).event \in Arrived
      BY <2>6, CurrentType DEF MarkSent, StallInv
    <3>2. \A e \in Events : row'[e] = row[e] \/ e = Current(d).event
      BY <2>6 DEF MarkSent, Record, TypeInv, TypeOK
    <3>3. row'[Current(d).event].status \in {row[Current(d).event].status, "sent"}
      BY <2>6, <3>1 DEF MarkSent, Record, TypeInv, TypeOK
    <3>4. /\ phase'[d] # "accepted"
          /\ \A x \in Dispatchers \ {d} : phase'[x] = phase[x] /\ claimed'[x] = claimed[x]
          /\ UNCHANGED <<arrived, committed, reported>>
      BY <2>6 DEF MarkSent, Advance, TypeInv, TypeOK
    <3>5. QED
      BY <2>0, <3>1, <3>2, <3>3, <3>4 DEF StallInv, NoSilentStall, Current, Arrived
  <2>7. ASSUME NEW d \in Dispatchers, ScheduleRetry(d) \/ Release(d) PROVE StallInv'
    <3>1. Current(d).event \in Events
      BY <2>7, CurrentType DEF ScheduleRetry, Release
    <3>2. \A e \in Events : row'[e] = row[e] \/ e = Current(d).event
      BY <2>7 DEF ScheduleRetry, Release, Record, TypeInv, TypeOK
    <3>3. row'[Current(d).event] = row[Current(d).event]
          \/ row'[Current(d).event].status = "pending"
      BY <2>7, <3>1 DEF ScheduleRetry, Release, Record, TypeInv, TypeOK
    <3>4. /\ phase'[d] # "accepted"
          /\ \A x \in Dispatchers \ {d} : phase'[x] = phase[x] /\ claimed'[x] = claimed[x]
          /\ UNCHANGED <<arrived, committed, reported>>
      BY <2>7 DEF ScheduleRetry, Release, Advance, TypeInv, TypeOK
    <3>5. QED
      BY <2>0, <3>1, <3>2, <3>3, <3>4 DEF StallInv, NoSilentStall, Current, Arrived
  <2>8. ASSUME NEW d \in Dispatchers, MarkFailed(d) PROVE StallInv'
    <3>1. Current(d).event \in Events
      BY <2>8, CurrentType DEF MarkFailed
    <3>2. \A e \in Events : row'[e] = row[e] \/ e = Current(d).event
      BY <2>8 DEF MarkFailed, Record, TypeInv, TypeOK
    <3>3. row'[Current(d).event] = row[Current(d).event]
          \/ row'[Current(d).event].status = "failed"
      BY <2>8, <3>1 DEF MarkFailed, Record, TypeInv, TypeOK
    <3>4. /\ phase'[d] # "accepted"
          /\ \A x \in Dispatchers \ {d} : phase'[x] = phase[x] /\ claimed'[x] = claimed[x]
          /\ UNCHANGED <<arrived, committed>>
          /\ reported' = reported \cup {Current(d).event}
      BY <2>8 DEF MarkFailed, Advance, TypeInv, TypeOK
    <3>5. QED
      BY <2>0, <3>1, <3>2, <3>3, <3>4 DEF StallInv, NoSilentStall, Current, Arrived
  <2>9. ASSUME NEW d \in Dispatchers, Crash(d) PROVE StallInv'
    BY <2>9 DEF Crash, StallInv, NoSilentStall, TypeInv, TypeOK, Current, Arrived
  <2>10. ASSUME NEW d \in Dispatchers, Prune(d) PROVE StallInv'
    <3>1. \A e \in Events : row'[e] = row[e]
             \/ (row[e].status = "sent" /\ row'[e].status = "absent")
      <4>1. PICK old \in SUBSET Prunable :
               row' = [e \in Events |-> IF e \in old THEN Absent ELSE row[e]]
        BY <2>10 DEF Prune
      <4>2. \A e \in old : row[e].status = "sent"
        BY DEF Prunable
      <4>3. Absent.status = "absent"
        BY DEF Absent
      <4>4. QED
        BY <4>1, <4>2, <4>3, Zenon
    <3>2. QED
      BY <2>10, <3>1 DEF Prune, StallInv, NoSilentStall, Current, Arrived, TypeInv, TypeOK
  <2>11. ASSUME NEW e \in Events, LeaseExpires(e) PROVE StallInv'
    <3>1. \A f \in Events : row'[f].status = row[f].status
      <4>1. [row[e] EXCEPT !.lease = "expired"].status = row[e].status
        BY DEF TypeInv, TypeOK, Row
      <4>2. row' = [row EXCEPT ![e] = [row[e] EXCEPT !.lease = "expired"]]
        BY <2>11 DEF LeaseExpires
      <4>3. QED
        BY <4>1, <4>2 DEF TypeInv, TypeOK
    <3>2. QED
      BY <2>11, <3>1 DEF LeaseExpires, StallInv, NoSilentStall, Current, Arrived, TypeInv, TypeOK
  <2>12. ASSUME NEW e \in Events, BackoffElapses(e) PROVE StallInv'
    BY <2>12 DEF BackoffElapses, StallInv, NoSilentStall, Current, Arrived
  <2>13. CASE UNCHANGED vars
    BY <2>13 DEF vars, StallInv, NoSilentStall, Current, Arrived
  <2>14. QED
    BY <2>1, <2>2, <2>3, <2>4, <2>5, <2>6, <2>7, <2>8, <2>9, <2>10, <2>11,
       <2>12, <2>13 DEF Next, Cycle
<1>3. QED
  BY <1>1, <1>2, TypeInvariant, PTL DEF Spec

\* No committed event is ever dropped, for any number of dispatchers.
THEOREM NothingStallsSilently == Spec => []NoSilentStall
<1>1. StallInv => NoSilentStall
  BY DEF StallInv
<1>2. QED
  BY <1>1, StallInvariant, PTL

-----------------------------------------------------------------------------
(* The order within a group, while nothing has failed, for the one         *)
(* dispatcher the planner runs.                                            *)

OneDispatcher == \A c, d \in Dispatchers : c = d
Healthy == crashes = 0 /\ \A e \in Events : rejects[e] = 0

\* ORDER BY available_at, created_at orders the rows that are available.
Listed == {e \in Events : Present(e) /\ e \notin waiting}
TableInv == \A a, b, c \in Listed : a \in ahead[b] /\ b \in ahead[c] => a \in ahead[c]

\* Producers commit in order, and only what is committed is claimed.
CommitInv ==
    /\ \A e \in Events : Present(e) => e \in committed
    /\ \A d \in Dispatchers : \A i \in DOMAIN claimed[d] : claimed[d][i].event \in committed
    /\ Arrived \subseteq Wired
    /\ \A a \in Events, b \in committed : a < b /\ Group[a] = Group[b] => a \in committed

\* While nothing fails, a wired event is never put off, and one that is being
\* sent has arrived or is in the dispatcher's hands.
Calm ==
    /\ waiting \cap Wired = {} /\ reported = {}
    /\ \A d \in Dispatchers : /\ phase[d] # "raised"
                              /\ phase[d] \in {"idle", "claim"} => claimed[d] = <<>>
    /\ \A e \in Wired : row[e].status = "sending" =>
          e \in Arrived \/ \E d \in Dispatchers : \E i \in DOMAIN claimed[d] :
                               claimed[d][i].event = e

InGroup(a, b) == a \in Wired /\ b \in Wired /\ Group[a] = Group[b] /\ a < b

\* Until it has arrived, an event is before the later ones of its group: in the
\* table, in the batch, and in the queue.
InLine ==
    \A a, b \in Events : InGroup(a, b) /\ a \notin Arrived =>
        /\ Present(b) => a \in ahead[b]
        /\ \A d \in Dispatchers : \A i \in DOMAIN claimed[d] : claimed[d][i].event = b =>
              \E j \in DOMAIN claimed[d] : j < i /\ claimed[d][j].event = a
        /\ b \notin Arrived

OrderInv == TableInv /\ CommitInv /\ (Healthy => Calm /\ InLine /\ GroupOrder)

LEMMA ClaimedTypes ==
    ASSUME TypeInv, NEW d \in Dispatchers
    PROVE  /\ claimed[d] \in Seq(Claim)
           /\ DOMAIN claimed[d] = 1 .. Len(claimed[d]) /\ Len(claimed[d]) \in Nat
           /\ \A i \in DOMAIN claimed[d] : claimed[d][i].event \in Events
<1>1. claimed[d] \in Seq(Claim)
    BY DEF TypeInv, TypeOK
<1>2. DOMAIN claimed[d] = 1 .. Len(claimed[d]) /\ Len(claimed[d]) \in Nat
    BY <1>1, LenProperties
<1>3. \A i \in DOMAIN claimed[d] : claimed[d][i] \in Claim
    BY <1>1, <1>2, ElementOfSeq
<1>4. QED
    BY <1>1, <1>2, <1>3 DEF Claim

\* The dispatcher goes on: what it held second is now first.
LEMMA AdvanceShift ==
    ASSUME TypeInv, NEW d \in Dispatchers, claimed[d] # <<>>, Advance(d)
    PROVE  /\ \A i \in DOMAIN claimed'[d] : /\ i + 1 \in DOMAIN claimed[d]
                                             /\ claimed'[d][i] = claimed[d][i + 1]
           /\ \A i \in DOMAIN claimed[d] : i = 1 \/ i - 1 \in DOMAIN claimed'[d]
           /\ Current(d) = claimed[d][1] /\ 1 \in DOMAIN claimed[d]
           /\ \A c \in Dispatchers \ {d} : claimed'[c] = claimed[c] /\ phase'[c] = phase[c]
           /\ phase'[d] \in {"idle", "send"}
           /\ phase'[d] = "idle" => claimed'[d] = <<>>
<1> DEFINE s == claimed[d]
<1>1. /\ s \in Seq(Claim) /\ DOMAIN s = 1 .. Len(s)
    BY ClaimedTypes
<1>2. /\ Tail(s) \in Seq(Claim) /\ Len(s) \in Nat /\ Len(s) > 0
      /\ Len(Tail(s)) = Len(s) - 1
      /\ \A i \in 1 .. Len(s) - 1 : Tail(s)[i] = s[i + 1]
      /\ Head(s) = s[1]
    BY <1>1, NonEmptySeq
<1>3. DOMAIN Tail(s) = 1 .. Len(s) - 1
    BY <1>2, LenProperties
<1>4. claimed'[d] = Tail(s) /\ \A c \in Dispatchers \ {d} : claimed'[c] = claimed[c]
    BY DEF Advance, TypeInv, TypeOK
<1>5. /\ phase'[d] = (IF Len(s) = 1 THEN "idle" ELSE "send")
      /\ \A c \in Dispatchers \ {d} : phase'[c] = phase[c]
    BY DEF Advance, TypeInv, TypeOK
<1>6. Len(s) = 1 => Tail(s) = <<>>
    <2>1. Len(s) = 1 => Len(Tail(s)) = 0
        BY <1>2
    <2>2. QED
        BY <1>2, <2>1, EmptySeq
<1> HIDE DEF s
<1>7. QED
    BY <1>1, <1>2, <1>3, <1>4, <1>5, <1>6 DEF Current, s

-----------------------------------------------------------------------------
(* The order of the table.                                                 *)

LEMMA TableShrinks ==
    ASSUME TableInv, ahead' = ahead, waiting \subseteq waiting',
           \A e \in Events : Present(e)' => Present(e)
    PROVE  TableInv'
<1>1. Listed' \subseteq Listed
    BY DEF Listed
<1>2. QED
    BY <1>1 DEF TableInv

LEMMA MoveKeepsTable ==
    ASSUME TypeInv, TableInv, NEW e \in Events, MoveToEnd(e), waiting' = waiting \ {e},
           \A f \in Events \ {e} : Present(f)' => Present(f)
    PROVE  TableInv'
<1>1. /\ \A f \in Events \ {e} : ahead'[f] = ahead[f] \ {e}
      /\ ahead'[e] = {g \in Events \ waiting : g # e /\ Present(g)}
    BY DEF MoveToEnd, TypeInv, TypeOK
<1>2. \A f \in Listed' : f = e \/ f \in Listed
    BY DEF Listed
<1>3. QED
    BY <1>1, <1>2 DEF TableInv, Listed

\* Rows appear by Enqueue only.
LEMMA RowsFromBefore ==
    ASSUME TypeInv, [Next]_vars
    PROVE  \/ \E e \in Events : Enqueue(e)
           \/ \A e \in Events : Present(e)' => Present(e)
<1> DEFINE Old == \A e \in Events : Present(e)' => Present(e)
<1> USE DEF TypeInv, TypeOK, Present
<1>1. ASSUME NEW d \in Dispatchers, ReclaimStaleLeases(d) PROVE Old
    <2>1. \A e \in Events : row'[e] = row[e] \/ row[e].status = "sending"
        BY <1>1 DEF ReclaimStaleLeases
    <2>2. QED
        BY <2>1
<1>2. ASSUME NEW d \in Dispatchers, ClaimBatch(d) PROVE Old
    <2>1. \A e \in Events : row'[e] = row[e] \/ row[e].status = "pending"
        BY <1>2 DEF ClaimBatch, Batch, Claimable
    <2>2. QED
        BY <2>1
<1>3. ASSUME NEW d \in Dispatchers, MarkSent(d) \/ ScheduleRetry(d) \/ MarkFailed(d) \/ Release(d)
      PROVE  Old
    <2>1. \A e \in Events : row'[e] = row[e] \/ Present(e)
        BY <1>3 DEF MarkSent, ScheduleRetry, MarkFailed, Release, Record
    <2>2. QED
        BY <2>1
<1>4. ASSUME NEW d \in Dispatchers, SendAccepted(d) \/ SendRaised(d) \/ Crash(d) PROVE Old
    <2>1. row' = row
        BY <1>4 DEF SendAccepted, SendRaised, Crash
    <2>2. QED
        BY <2>1
<1>5. ASSUME NEW d \in Dispatchers, Prune(d) PROVE Old
    <2>1. \A e \in Events : row'[e] = row[e] \/ row'[e].status = "absent"
        BY <1>5 DEF Prune, Absent
    <2>2. QED
        BY <2>1
<1>6. ASSUME NEW e \in Events, LeaseExpires(e) PROVE Old
    <2>1. \A f \in Events : row'[f] = row[f] \/ row[f].status = "sending"
        BY <1>6 DEF LeaseExpires
    <2>2. QED
        BY <2>1
<1>7. ASSUME \/ \E e \in Events : BackoffElapses(e)
             \/ UNCHANGED vars
      PROVE  Old
    BY <1>7 DEF BackoffElapses, vars
<1> HIDE DEF Old
<1>8. Old \/ \E e \in Events : Enqueue(e)
    BY <1>1, <1>2, <1>3, <1>4, <1>5, <1>6, <1>7 DEF Next, Cycle
<1>9. QED
    BY <1>8 DEF Old

LEMMA StepKeepsTable == TypeInv /\ TableInv /\ [Next]_vars => TableInv'
<1> SUFFICES ASSUME TypeInv, TableInv, [Next]_vars PROVE TableInv'
    OBVIOUS
<1>1. ASSUME NEW e \in Events, Enqueue(e) PROVE TableInv'
    <2>1. CASE Present(e)
        BY <1>1, <2>1 DEF Enqueue, TableInv, Listed, Present
    <2>2. CASE ~Present(e)
        <3>1. \A f \in Events \ {e} : Present(f)' => Present(f)
            BY <1>1, <2>2 DEF Enqueue, Present, TypeInv, TypeOK
        <3>2. QED
            BY <1>1, <2>2, <3>1, MoveKeepsTable DEF Enqueue
    <2>3. QED
        BY <2>1, <2>2
<1>2. ASSUME NEW e \in Events, BackoffElapses(e) PROVE TableInv'
    <2>1. \A f \in Events : Present(f)' => Present(f)
        BY <1>2 DEF BackoffElapses, Present
    <2>2. QED
        BY <1>2, <2>1, MoveKeepsTable DEF BackoffElapses
<1>3. ASSUME ~\E e \in Events : Enqueue(e) \/ BackoffElapses(e) PROVE TableInv'
    <2>1. ahead' = ahead /\ waiting \subseteq waiting'
        BY <1>3 DEF Next, Cycle, LeaseExpires, ReclaimStaleLeases, ClaimBatch, SendAccepted,
           SendRaised, MarkSent, ScheduleRetry, MarkFailed, Release, Crash, Prune, vars
    <2>2. QED
        BY <1>3, <2>1, RowsFromBefore, TableShrinks
<1>4. QED
    BY <1>1, <1>2, <1>3

-----------------------------------------------------------------------------
(* What a step does to the batches, to the queue and to what is committed. *)

LEMMA BatchClaimed ==
    ASSUME TypeInv, NEW d \in Dispatchers, ClaimBatch(d)
    PROVE  \E s \in [1 .. Cardinality(Batch) -> Batch] :
              /\ Listing(s)
              /\ DOMAIN claimed'[d] = 1 .. Cardinality(Batch)
              /\ \A i \in 1 .. Cardinality(Batch) : claimed'[d][i].event = s[i]
              /\ Batch = {} => claimed'[d] = <<>>
              /\ \A c \in Dispatchers \ {d} : claimed'[c] = claimed[c]
<1>1. PICK s \in [1 .. Cardinality(Batch) -> Batch] :
          /\ Listing(s)
          /\ claimed' = [claimed EXCEPT ![d] =
                [i \in 1 .. Cardinality(Batch) |->
                    [event |-> s[i], attempts |-> row[s[i]].attempts]]]
    BY DEF ClaimBatch
<1>2. claimed'[d] = [i \in 1 .. Cardinality(Batch) |->
                        [event |-> s[i], attempts |-> row[s[i]].attempts]]
    BY <1>1 DEF TypeInv, TypeOK
<1>3. \A c \in Dispatchers \ {d} : claimed'[c] = claimed[c]
    BY <1>1 DEF TypeInv, TypeOK
<1>4. ASSUME Batch = {} PROVE claimed'[d] = <<>>
    <2>1. Cardinality(Batch) = 0
        BY <1>4, FS_EmptySet
    <2>2. QED
        BY <1>2, <2>1
<1>5. /\ DOMAIN claimed'[d] = 1 .. Cardinality(Batch)
      /\ \A i \in 1 .. Cardinality(Batch) : claimed'[d][i].event = s[i]
    BY <1>2
<1>6. QED
    BY <1>1, <1>3, <1>4, <1>5, Zenon

\* A batch gets smaller from the front, is dropped, or is claimed anew.
LEMMA ClaimsMove ==
    ASSUME TypeInv, [Next]_vars
    PROVE  \/ claimed' = claimed
           \/ \E d \in Dispatchers : ClaimBatch(d)
           \/ \E d \in Dispatchers : /\ claimed[d] # <<>> /\ Advance(d)
                                     /\ MarkSent(d) \/ ScheduleRetry(d) \/ MarkFailed(d) \/ Release(d)
           \/ \E d \in Dispatchers : Crash(d)
<1> DEFINE Moved == \/ claimed' = claimed
                    \/ \E d \in Dispatchers : ClaimBatch(d)
                    \/ \E d \in Dispatchers :
                          /\ claimed[d] # <<>> /\ Advance(d)
                          /\ MarkSent(d) \/ ScheduleRetry(d) \/ MarkFailed(d) \/ Release(d)
                    \/ \E d \in Dispatchers : Crash(d)
<1>1. ASSUME NEW d \in Dispatchers, MarkSent(d) \/ ScheduleRetry(d) \/ MarkFailed(d) \/ Release(d)
      PROVE  Moved
    <2>1. Advance(d) /\ phase[d] \in {"send", "accepted", "raised"}
        BY <1>1 DEF MarkSent, ScheduleRetry, MarkFailed, Release
    <2>2. claimed[d] # <<>>
        BY <2>1 DEF TypeInv, HoldsCurrent
    <2>3. QED
        BY <1>1, <2>1, <2>2
<1>2. ASSUME NEW d \in Dispatchers,
             ReclaimStaleLeases(d) \/ SendAccepted(d) \/ SendRaised(d) \/ Prune(d)
      PROVE  Moved
    <2>1. claimed' = claimed
        BY <1>2 DEF ReclaimStaleLeases, SendAccepted, SendRaised, Prune
    <2>2. QED
        BY <2>1
<1>3. ASSUME NEW e \in Events, Enqueue(e) \/ LeaseExpires(e) \/ BackoffElapses(e) PROVE Moved
    <2>1. claimed' = claimed
        BY <1>3 DEF Enqueue, LeaseExpires, BackoffElapses
    <2>2. QED
        BY <2>1
<1>4. ASSUME NEW d \in Dispatchers, ClaimBatch(d) \/ Crash(d) PROVE Moved
    BY <1>4
<1>5. ASSUME UNCHANGED vars PROVE Moved
    BY <1>5 DEF vars
<1> HIDE DEF Moved
<1>6. Moved
    BY <1>1, <1>2, <1>3, <1>4, <1>5 DEF Next, Cycle
<1>7. QED
    BY <1>6 DEF Moved

\* The queue takes the event a dispatcher is sending, and nothing else.
LEMMA WhatArrives ==
    ASSUME TypeInv, [Next]_vars
    PROVE  \/ arrived' = arrived
           \/ \E d \in Dispatchers : /\ phase[d] = "send" /\ Current(d).event \in Wired \ Arrived
                                     /\ arrived' = Append(arrived, Current(d).event)
<1> DEFINE Sent == \/ arrived' = arrived
                   \/ \E d \in Dispatchers :
                         /\ phase[d] = "send" /\ Current(d).event \in Wired \ Arrived
                         /\ arrived' = Append(arrived, Current(d).event)
<1>1. ASSUME NEW d \in Dispatchers, SendAccepted(d) \/ SendRaised(d) PROVE Sent
    BY <1>1 DEF SendAccepted, SendRaised
<1>2. ASSUME ~\E d \in Dispatchers : SendAccepted(d) \/ SendRaised(d) PROVE Sent
    <2>1. arrived' = arrived
        BY <1>2 DEF Next, Cycle, Enqueue, LeaseExpires, BackoffElapses, ReclaimStaleLeases,
           ClaimBatch, MarkSent, ScheduleRetry, MarkFailed, Release, Crash, Prune, vars
    <2>2. QED
        BY <2>1
<1>3. QED
    BY <1>1, <1>2

LEMMA Appended ==
    ASSUME TypeInv, NEW e \in Events, arrived' = Append(arrived, e)
    PROVE  /\ Arrived' = Arrived \cup {e}
           /\ Len(arrived) \in Nat /\ DOMAIN arrived = 1 .. Len(arrived)
           /\ DOMAIN arrived' = 1 .. Len(arrived) + 1
           /\ arrived'[Len(arrived) + 1] = e
           /\ \A i \in 1 .. Len(arrived) : arrived'[i] = arrived[i] /\ arrived[i] \in Events
<1>1. arrived \in Seq(Events)
    BY DEF TypeInv, TypeOK
<1>2. /\ DOMAIN arrived' = 1 .. Len(arrived) + 1
      /\ arrived'[Len(arrived) + 1] = e
      /\ \A i \in 1 .. Len(arrived) : arrived'[i] = arrived[i]
      /\ DOMAIN arrived = 1 .. Len(arrived)
      /\ Len(arrived) \in Nat
    BY <1>1, AppendProperties, LenProperties
<1>3. \A i \in 1 .. Len(arrived) : arrived[i] \in Events
    BY <1>1, <1>2, ElementOfSeq
<1>4. Arrived' = Arrived \cup {e}
    BY <1>2 DEF Arrived
<1>5. QED
    BY <1>2, <1>3, <1>4

LEMMA StepKeepsCommit == TypeInv /\ CommitInv /\ [Next]_vars => CommitInv'
<1> SUFFICES ASSUME TypeInv, CommitInv, [Next]_vars PROVE CommitInv'
    OBVIOUS
<1>1. \/ committed' = committed /\ ~\E e \in Events : Enqueue(e)
      \/ \E e \in Events : Enqueue(e) /\ committed' = committed \cup {e}
    BY DEF Next, Cycle, Enqueue, LeaseExpires, BackoffElapses, ReclaimStaleLeases, ClaimBatch,
       SendAccepted, SendRaised, MarkSent, ScheduleRetry, MarkFailed, Release, Crash, Prune, vars
<1>2. \A e \in Events : Present(e)' => e \in committed'
    <2>1. ASSUME NEW f \in Events, Enqueue(f), committed' = committed \cup {f},
                 NEW e \in Events, Present(e)'
          PROVE  e \in committed'
        <3>1. e = f \/ Present(e)
            BY <2>1 DEF Enqueue, Present, TypeInv, TypeOK
        <3>2. QED
            BY <2>1, <3>1 DEF CommitInv
    <2>2. QED
        BY <1>1, <2>1, RowsFromBefore DEF CommitInv
<1>3. \A d \in Dispatchers : \A i \in DOMAIN claimed'[d] : claimed'[d][i].event \in committed'
    <2>1. committed \subseteq committed'
        BY <1>1
    <2>2. ASSUME NEW d \in Dispatchers, ClaimBatch(d),
                 NEW c \in Dispatchers, NEW i \in DOMAIN claimed'[c]
          PROVE  claimed'[c][i].event \in committed
        <3>1. CASE c = d
            <4>1. claimed'[c][i].event \in Batch
                <5>1. PICK s \in [1 .. Cardinality(Batch) -> Batch] :
                          /\ DOMAIN claimed'[d] = 1 .. Cardinality(Batch)
                          /\ \A k \in 1 .. Cardinality(Batch) : claimed'[d][k].event = s[k]
                    BY <2>2, BatchClaimed, Zenon
                <5>2. QED
                    BY <2>2, <3>1, <5>1
            <4>2. \A e \in Batch : e \in Events /\ Present(e)
                BY DEF Batch, Claimable, Present
            <4>3. QED
                BY <4>1, <4>2 DEF CommitInv
        <3>2. CASE c # d
            <4>1. claimed'[c] = claimed[c]
                BY <2>2, <3>2, BatchClaimed
            <4>2. QED
                BY <2>2, <4>1 DEF CommitInv
        <3>3. QED
            BY <3>1, <3>2
    <2>3. ASSUME NEW d \in Dispatchers, claimed[d] # <<>>, Advance(d),
                 NEW c \in Dispatchers, NEW i \in DOMAIN claimed'[c]
          PROVE  claimed'[c][i].event \in committed
        <3>1. \E j \in DOMAIN claimed[c] : claimed'[c][i] = claimed[c][j]
            BY <2>3, AdvanceShift
        <3>2. QED
            BY <3>1 DEF CommitInv
    <2>4. ASSUME NEW d \in Dispatchers, Crash(d),
                 NEW c \in Dispatchers, NEW i \in DOMAIN claimed'[c]
          PROVE  claimed'[c][i].event \in committed
        <3>1. c # d /\ claimed'[c] = claimed[c]
            BY <2>4 DEF Crash, TypeInv, TypeOK
        <3>2. QED
            BY <2>4, <3>1 DEF CommitInv
    <2>5. CASE claimed' = claimed
        BY <2>1, <2>5 DEF CommitInv
    <2>6. QED
        BY <2>1, <2>2, <2>3, <2>4, <2>5, ClaimsMove
<1>4. (Arrived \subseteq Wired)'
    <2>1. CASE arrived' = arrived
        BY <2>1 DEF CommitInv, Arrived
    <2>2. ASSUME NEW d \in Dispatchers, Current(d).event \in Wired,
                 arrived' = Append(arrived, Current(d).event)
          PROVE  Arrived' \subseteq Wired
        BY <2>2, Appended, OutboxConstants DEF CommitInv
    <2>3. QED
        BY <2>1, <2>2, WhatArrives
<1>5. \A a \in Events, b \in committed' : a < b /\ Group[a] = Group[b] => a \in committed'
    BY <1>1 DEF CommitInv, Enqueue
<1>6. QED
    BY <1>2, <1>3, <1>4, <1>5 DEF CommitInv

-----------------------------------------------------------------------------
(* While nothing fails. *)

LEMMA StaysHealthy ==
    ASSUME TypeInv, [Next]_vars, Healthy'
    PROVE  Healthy /\ ~\E d \in Dispatchers : SendRaised(d) \/ Crash(d)
<1>1. ASSUME NEW d \in Dispatchers, SendRaised(d) PROVE FALSE
    <2>1. Current(d).event \in Events
        BY <1>1, CurrentType DEF SendRaised
    <2>2. rejects'[Current(d).event] = rejects[Current(d).event] + 1 /\ rejects[Current(d).event] \in Nat
        BY <1>1, <2>1 DEF SendRaised, TypeInv, TypeOK
    <2>3. QED
        BY <2>1, <2>2 DEF Healthy
<1>2. ASSUME NEW d \in Dispatchers, Crash(d) PROVE FALSE
    BY <1>2 DEF Crash, Healthy, TypeInv, TypeOK
<1>3. UNCHANGED <<rejects, crashes>>
    BY <1>1, <1>2 DEF Next, Cycle, Enqueue, LeaseExpires, BackoffElapses, ReclaimStaleLeases,
       ClaimBatch, SendAccepted, MarkSent, ScheduleRetry, MarkFailed, Release, Prune, vars
<1>4. QED
    BY <1>1, <1>2, <1>3 DEF Healthy

\* The dispatcher goes on only from an event that has arrived or that it has
\* no client for.
LEMMA GoesOn ==
    ASSUME TypeInv, StallInv, Calm, NEW d \in Dispatchers, claimed[d] # <<>>,
           MarkSent(d) \/ ScheduleRetry(d) \/ MarkFailed(d) \/ Release(d)
    PROVE  /\ Current(d).event \in Events
           /\ \/ MarkSent(d) /\ Current(d).event \in Arrived
              \/ Release(d) /\ Current(d).event \notin Wired
<1>1. phase[d] # "raised"
    BY DEF Calm
<1>2. CASE MarkSent(d)
    <2>1. phase[d] = "accepted"
        BY <1>2 DEF MarkSent
    <2>2. QED
        BY <1>2, <2>1, CurrentType DEF StallInv
<1>3. CASE Release(d)
    BY <1>3, CurrentType DEF Release
<1>4. QED
    BY <1>1, <1>2, <1>3 DEF ScheduleRetry, MarkFailed

\* A committed event that has not arrived is in the table, due now.
LEMMA InTable ==
    ASSUME TypeInv, StallInv, Calm, NEW a \in Wired, a \in committed, a \notin Arrived
    PROVE  Present(a) /\ a \notin waiting /\ row[a].status \in {"pending", "sending"}
BY OutboxConstants DEF StallInv, NoSilentStall, Calm, Present

\* Which rows a step marks as being sent.
LEMMA WhoIsSending ==
    ASSUME TypeInv, [Next]_vars, NEW e \in Events, row'[e].status = "sending"
    PROVE  \/ row[e].status = "sending"
           \/ \E d \in Dispatchers : ClaimBatch(d) /\ e \in Batch
<1> DEFINE Known == \/ row[e].status = "sending"
                    \/ \E d \in Dispatchers : ClaimBatch(d) /\ e \in Batch
<1> USE DEF TypeInv, TypeOK
<1>1. ASSUME NEW f \in Events, Enqueue(f) PROVE Known
    <2>1. row'[e] = row[e] \/ row'[e].status = "pending"
        BY <1>1 DEF Enqueue, Fresh
    <2>2. QED
        BY <2>1
<1>2. ASSUME NEW d \in Dispatchers, ReclaimStaleLeases(d) PROVE Known
    <2>1. row'[e] = row[e] \/ row[e].status = "sending"
        BY <1>2 DEF ReclaimStaleLeases
    <2>2. QED
        BY <2>1
<1>3. ASSUME NEW d \in Dispatchers, ClaimBatch(d) PROVE Known
    <2>1. row'[e] = row[e] \/ e \in Batch
        BY <1>3 DEF ClaimBatch
    <2>2. QED
        BY <1>3, <2>1
<1>4. ASSUME NEW d \in Dispatchers, MarkSent(d) PROVE Known
    <2>1. row'[e] = row[e] \/ row'[e].status = "sent"
        BY <1>4 DEF MarkSent, Record
    <2>2. QED
        BY <2>1
<1>5. ASSUME NEW d \in Dispatchers, ScheduleRetry(d) \/ Release(d) PROVE Known
    <2>1. row'[e] = row[e] \/ row'[e].status = "pending"
        BY <1>5 DEF ScheduleRetry, Release, Record
    <2>2. QED
        BY <2>1
<1>6. ASSUME NEW d \in Dispatchers, MarkFailed(d) PROVE Known
    <2>1. row'[e] = row[e] \/ row'[e].status = "failed"
        BY <1>6 DEF MarkFailed, Record
    <2>2. QED
        BY <2>1
<1>7. ASSUME NEW d \in Dispatchers, Prune(d) PROVE Known
    <2>1. row'[e] = row[e] \/ row'[e].status = "absent"
        BY <1>7 DEF Prune, Absent
    <2>2. QED
        BY <2>1
<1>8. ASSUME NEW f \in Events, LeaseExpires(f) PROVE Known
    <2>1. row'[e] = row[e] \/ row[e].status = "sending"
        BY <1>8 DEF LeaseExpires
    <2>2. QED
        BY <2>1
<1>9. ASSUME \/ \E d \in Dispatchers : SendAccepted(d) \/ SendRaised(d) \/ Crash(d)
             \/ \E f \in Events : BackoffElapses(f)
             \/ UNCHANGED vars
      PROVE  Known
    <2>1. row' = row
        BY <1>9 DEF SendAccepted, SendRaised, Crash, BackoffElapses, vars
    <2>2. QED
        BY <2>1
<1> HIDE DEF Known
<1>10. Known
    BY <1>1, <1>2, <1>3, <1>4, <1>5, <1>6, <1>7, <1>8, <1>9 DEF Next, Cycle
<1>11. QED
    BY <1>10 DEF Known

LEMMA ArrivedKept ==
    ASSUME TypeInv, [Next]_vars
    PROVE  Arrived \subseteq Arrived'
<1>1. CASE arrived' = arrived
    BY <1>1 DEF Arrived
<1>2. ASSUME NEW d \in Dispatchers, Current(d).event \in Wired,
             arrived' = Append(arrived, Current(d).event)
      PROVE  Arrived \subseteq Arrived'
    BY <1>2, Appended, OutboxConstants
<1>3. QED
    BY <1>1, <1>2, WhatArrives

LEMMA StaysCalm ==
    ASSUME OneDispatcher, TypeInv, StallInv, Calm, [Next]_vars,
           ~\E d \in Dispatchers : SendRaised(d) \/ Crash(d)
    PROVE  Calm'
<1>0. ~\E d \in Dispatchers : ScheduleRetry(d) \/ MarkFailed(d)
    BY DEF Calm, ScheduleRetry, MarkFailed
<1>1. waiting' \cap Wired = {} /\ reported' = {}
    <2>1. ASSUME NEW d \in Dispatchers, Release(d) PROVE waiting' \cap Wired = {} /\ reported' = {}
        BY <2>1 DEF Release, Calm
    <2>2. ASSUME ~\E d \in Dispatchers : Release(d) PROVE waiting' \subseteq waiting /\ reported' = reported
        BY <1>0, <2>2 DEF Next, Cycle, Enqueue, LeaseExpires, BackoffElapses, ReclaimStaleLeases,
           ClaimBatch, SendAccepted, MarkSent, Prune, vars
    <2>3. QED
        BY <2>1, <2>2 DEF Calm
<1>2. \A d \in Dispatchers : /\ phase'[d] # "raised"
                             /\ phase'[d] \in {"idle", "claim"} => claimed'[d] = <<>>
    <2>1. ASSUME NEW d \in Dispatchers, MarkSent(d) \/ Release(d), NEW c \in Dispatchers
          PROVE  /\ phase'[c] # "raised"
                 /\ phase'[c] \in {"idle", "claim"} => claimed'[c] = <<>>
        <3>1. Advance(d) /\ claimed[d] # <<>>
            BY <2>1, CurrentType DEF MarkSent, Release
        <3>2. c = d
            BY DEF OneDispatcher
        <3>3. QED
            BY <3>1, <3>2, AdvanceShift
    <2>2. ASSUME NEW d \in Dispatchers, ClaimBatch(d), NEW c \in Dispatchers
          PROVE  /\ phase'[c] # "raised"
                 /\ phase'[c] \in {"idle", "claim"} => claimed'[c] = <<>>
        <3>1. c = d
            BY DEF OneDispatcher
        <3>2. phase'[d] = IF Batch = {} THEN "idle" ELSE "send"
            BY <2>2 DEF ClaimBatch, TypeInv, TypeOK
        <3>3. Batch = {} => claimed'[d] = <<>>
            BY <2>2, BatchClaimed
        <3>4. QED
            BY <3>1, <3>2, <3>3
    <2>3. ASSUME NEW d \in Dispatchers, ReclaimStaleLeases(d) \/ SendAccepted(d), NEW c \in Dispatchers
          PROVE  /\ phase'[c] # "raised"
                 /\ phase'[c] \in {"idle", "claim"} => claimed'[c] = <<>>
        BY <2>3 DEF ReclaimStaleLeases, SendAccepted, Calm, TypeInv, TypeOK
    <2>4. ASSUME ~\E d \in Dispatchers : MarkSent(d) \/ Release(d) \/ ClaimBatch(d)
                                         \/ ReclaimStaleLeases(d) \/ SendAccepted(d)
          PROVE  phase' = phase /\ claimed' = claimed
        BY <1>0, <2>4 DEF Next, Cycle, Enqueue, LeaseExpires, BackoffElapses, Prune, vars
    <2>5. QED
        BY <2>1, <2>2, <2>3, <2>4 DEF Calm
<1>3. ASSUME NEW e \in Wired, row'[e].status = "sending", e \notin Arrived'
      PROVE  \E d \in Dispatchers : \E i \in DOMAIN claimed'[d] : claimed'[d][i].event = e
    <2>0. e \in Events /\ e \notin Arrived
        BY <1>3, ArrivedKept, OutboxConstants
    <2>1. ASSUME NEW d \in Dispatchers, ClaimBatch(d), e \in Batch
          PROVE  \E i \in DOMAIN claimed'[d] : claimed'[d][i].event = e
        <3>1. PICK s \in [1 .. Cardinality(Batch) -> Batch] :
                  /\ Listing(s)
                  /\ DOMAIN claimed'[d] = 1 .. Cardinality(Batch)
                  /\ \A i \in 1 .. Cardinality(Batch) : claimed'[d][i].event = s[i]
            BY <2>1, BatchClaimed, Zenon
        <3>2. PICK i \in DOMAIN s : s[i] = e
            BY <2>1, <3>1 DEF Listing
        <3>3. QED
            BY <3>1, <3>2
    <2>2. ASSUME row[e].status = "sending"
          PROVE  \E d \in Dispatchers : \E i \in DOMAIN claimed'[d] : claimed'[d][i].event = e
        <3>1. PICK d \in Dispatchers : \E i \in DOMAIN claimed[d] : claimed[d][i].event = e
            BY <2>0, <2>2 DEF Calm
        <3>0. PICK i \in DOMAIN claimed[d] : claimed[d][i].event = e
            BY <3>1
        <3>2. CASE claimed' = claimed
            BY <3>0, <3>2
        <3>3. ASSUME NEW c \in Dispatchers, ClaimBatch(c) PROVE FALSE
            <4>1. c = d /\ claimed[c] = <<>>
                BY <3>3 DEF ClaimBatch, Calm, OneDispatcher
            <4>2. QED
                BY <3>0, <4>1
        <3>4. ASSUME NEW c \in Dispatchers, claimed[c] # <<>>, Advance(c),
                     MarkSent(c) \/ ScheduleRetry(c) \/ MarkFailed(c) \/ Release(c)
              PROVE  \E k \in DOMAIN claimed'[d] : claimed'[d][k].event = e
            <4>1. c = d
                BY DEF OneDispatcher
            <4>2. Current(d).event \in Arrived \/ Current(d).event \notin Wired
                BY <3>4, <4>1, GoesOn
            <4>3. /\ Current(d) = claimed[d][1]
                  /\ i = 1 \/ i - 1 \in DOMAIN claimed'[d]
                  /\ \A k \in DOMAIN claimed'[d] : claimed'[d][k] = claimed[d][k + 1]
                BY <3>0, <3>4, <4>1, AdvanceShift
            <4>4. i # 1
                BY <2>0, <3>0, <4>2, <4>3
            <4>5. i \in Nat
                BY <3>0, ClaimedTypes
            <4>6. i - 1 \in DOMAIN claimed'[d] /\ claimed'[d][i - 1].event = e
                BY <3>0, <4>3, <4>4, <4>5
            <4>7. QED
                BY <4>6
        <3>5. QED
            BY <3>2, <3>3, <3>4, ClaimsMove
    <2>3. QED
        BY <1>3, <2>0, <2>1, <2>2, WhoIsSending
<1>4. QED
    BY <1>1, <1>2, <1>3 DEF Calm

\* The batch takes an event only together with the earlier ones of its group.
LEMMA BatchTakesEarlier ==
    ASSUME TypeInv, TableInv, NEW a \in Claimable, NEW b \in Batch, a \in ahead[b]
    PROVE  a \in Batch
<1>1. b \in Claimable /\ Cardinality(ahead[b] \cap Claimable) < BatchSize
    BY DEF Batch
<1>2. Claimable \subseteq Listed /\ Claimable \subseteq Events
    BY DEF Claimable, Listed, Present
<1>3. ahead[a] \cap Claimable \subseteq ahead[b] \cap Claimable
    BY <1>1, <1>2 DEF TableInv
<1>4. IsFiniteSet(ahead[b] \cap Claimable)
    BY <1>2, OutboxConstants, FS_Subset
<1>5. /\ Cardinality(ahead[a] \cap Claimable) <= Cardinality(ahead[b] \cap Claimable)
      /\ Cardinality(ahead[a] \cap Claimable) \in Nat
      /\ Cardinality(ahead[b] \cap Claimable) \in Nat
    BY <1>3, <1>4, FS_Subset, FS_CardinalityType
<1>6. Cardinality(ahead[a] \cap Claimable) < BatchSize
    BY <1>1, <1>5, OutboxConstants
<1>7. QED
    BY <1>6 DEF Batch

LEMMA StaysInTableOrder ==
    ASSUME TypeInv, StallInv, CommitInv, Calm, InLine, [Next]_vars,
           NEW a \in Events, NEW b \in Events, InGroup(a, b), a \notin Arrived, Present(b)'
    PROVE  a \in ahead'[b]
<1>0. a \in Wired /\ b \in Wired /\ a # b
    BY OutboxConstants DEF InGroup
<1>1. ASSUME NEW e \in Events, Enqueue(e) PROVE a \in ahead'[b]
    <2>1. CASE Present(e)
        <3>1. ahead' = ahead /\ row' = row
            BY <1>1, <2>1 DEF Enqueue
        <3>2. QED
            BY <3>1 DEF InLine, Present
    <2>2. CASE ~Present(e) /\ e = b
        <3>1. a \in committed
            BY <1>1, <2>2 DEF Enqueue, InGroup
        <3>2. Present(a) /\ a \notin waiting
            BY <1>0, <3>1, InTable
        <3>3. ahead'[b] = {g \in Events \ waiting : g # b /\ Present(g)}
            BY <1>1, <2>2 DEF Enqueue, MoveToEnd
        <3>4. QED
            BY <1>0, <3>2, <3>3
    <2>3. CASE ~Present(e) /\ e # b
        <3>1. ahead'[b] = ahead[b] \ {e} /\ row'[b] = row[b]
            BY <1>1, <2>3 DEF Enqueue, MoveToEnd, TypeInv, TypeOK
        <3>2. Present(b)
            BY <3>1 DEF Present
        <3>3. a \in ahead[b] /\ b \in committed
            BY <3>2 DEF InLine, CommitInv
        <3>4. a \in committed
            BY <3>3 DEF CommitInv, InGroup
        <3>5. Present(a)
            BY <1>0, <3>4, InTable
        <3>6. QED
            BY <2>3, <3>1, <3>3, <3>5
    <2>4. QED
        BY <2>1, <2>2, <2>3
<1>2. ASSUME NEW e \in Events, BackoffElapses(e) PROVE a \in ahead'[b]
    <2>1. e # a /\ e # b
        BY <1>0, <1>2 DEF BackoffElapses, Calm
    <2>2. ahead'[b] = ahead[b] \ {e} /\ row' = row
        BY <1>2, <2>1 DEF BackoffElapses, MoveToEnd, TypeInv, TypeOK
    <2>3. QED
        BY <2>1, <2>2 DEF InLine, Present
<1>3. ASSUME ~\E e \in Events : Enqueue(e) \/ BackoffElapses(e) PROVE a \in ahead'[b]
    <2>1. ahead' = ahead
        BY <1>3 DEF Next, Cycle, LeaseExpires, ReclaimStaleLeases, ClaimBatch, SendAccepted,
           SendRaised, MarkSent, ScheduleRetry, MarkFailed, Release, Crash, Prune, vars
    <2>2. Present(b)
        BY <1>3, RowsFromBefore
    <2>3. QED
        BY <2>1, <2>2 DEF InLine
<1>4. QED
    BY <1>1, <1>2, <1>3

LEMMA StaysInBatchOrder ==
    ASSUME OneDispatcher, TypeInv, StallInv, TableInv, CommitInv, Calm, InLine, [Next]_vars,
           ~\E d \in Dispatchers : SendRaised(d) \/ Crash(d),
           NEW a \in Events, NEW b \in Events, InGroup(a, b), a \notin Arrived,
           NEW d \in Dispatchers, NEW i \in DOMAIN claimed'[d], claimed'[d][i].event = b
    PROVE  \E j \in DOMAIN claimed'[d] : j < i /\ claimed'[d][j].event = a
<1>0. a \in Wired /\ b \in Wired /\ a # b
    BY OutboxConstants DEF InGroup
<1>1. ASSUME claimed' = claimed PROVE \E j \in DOMAIN claimed'[d] : j < i /\ claimed'[d][j].event = a
    BY <1>1 DEF InLine
<1>2. ASSUME NEW c \in Dispatchers, ClaimBatch(c)
      PROVE  \E j \in DOMAIN claimed'[d] : j < i /\ claimed'[d][j].event = a
    <2>1. c = d /\ claimed[d] = <<>> /\ \A x \in Dispatchers : claimed[x] = <<>>
        BY <1>2 DEF ClaimBatch, Calm, OneDispatcher
    <2>2. PICK s \in [1 .. Cardinality(Batch) -> Batch] :
              /\ Listing(s)
              /\ DOMAIN claimed'[d] = 1 .. Cardinality(Batch)
              /\ \A k \in 1 .. Cardinality(Batch) : claimed'[d][k].event = s[k]
        BY <1>2, <2>1, BatchClaimed, Zenon
    <2>3. i \in DOMAIN s /\ s[i] = b /\ b \in Batch
        BY <2>2
    <2>4. Present(b)
        BY <2>3 DEF Batch, Claimable, Present
    <2>5. a \in ahead[b] /\ a \in committed
        BY <2>4 DEF InLine, CommitInv, InGroup
    <2>6. Present(a) /\ a \notin waiting /\ row[a].status \in {"pending", "sending"}
        BY <1>0, <2>5, InTable
    <2>7. row[a].status # "sending"
        <3>1. \A x \in Dispatchers : DOMAIN claimed[x] = {}
            BY <2>1
        <3>2. QED
            BY <1>0, <3>1 DEF Calm
    <2>8. a \in Claimable
        BY <2>6, <2>7 DEF Claimable
    <2>9. a \in Batch
        BY <2>3, <2>5, <2>8, BatchTakesEarlier
    <2>10. PICK j \in DOMAIN s : s[j] = a
        BY <2>2, <2>9 DEF Listing
    <2>11. ~(i < j) /\ i # j
        BY <1>0, <2>2, <2>3, <2>5, <2>10 DEF Listing, InTableOrder
    <2>12. i \in Nat /\ j \in Nat
        BY <2>2, <2>3, BatchIsFinite
    <2>13. j < i
        BY <2>11, <2>12
    <2>14. QED
        BY <2>2, <2>10, <2>13
<1>3. ASSUME NEW c \in Dispatchers, claimed[c] # <<>>, Advance(c),
             MarkSent(c) \/ ScheduleRetry(c) \/ MarkFailed(c) \/ Release(c)
      PROVE  \E j \in DOMAIN claimed'[d] : j < i /\ claimed'[d][j].event = a
    <2>1. c = d
        BY DEF OneDispatcher
    <2>2. Current(d).event \in Arrived \/ Current(d).event \notin Wired
        BY <1>3, <2>1, GoesOn
    <2>3. /\ Current(d) = claimed[d][1]
          /\ \A k \in DOMAIN claimed[d] : k = 1 \/ k - 1 \in DOMAIN claimed'[d]
          /\ \A k \in DOMAIN claimed'[d] : k + 1 \in DOMAIN claimed[d] /\ claimed'[d][k] = claimed[d][k + 1]
        BY <1>3, <2>1, AdvanceShift
    <2>4. i + 1 \in DOMAIN claimed[d] /\ claimed[d][i + 1].event = b
        BY <2>3
    <2>5. PICK j \in DOMAIN claimed[d] : j < i + 1 /\ claimed[d][j].event = a
        BY <2>4 DEF InLine
    <2>6. j # 1
        BY <1>0, <2>2, <2>3, <2>5
    <2>7. \A k \in DOMAIN claimed[d] : k \in Nat /\ k >= 1
        BY ClaimedTypes
    <2>8. i \in Int /\ j \in Int
        <3>1. claimed'[d] \in Seq(Claim)
            BY <1>3, <2>1, AdvanceType DEF TypeInv, TypeOK
        <3>2. QED
            BY <2>7, <3>1, LenProperties
    <2>9. j - 1 \in DOMAIN claimed'[d] /\ claimed'[d][j - 1].event = a /\ j - 1 < i
        BY <2>3, <2>5, <2>6, <2>8
    <2>10. QED
        BY <2>9
<1>4. QED
    BY <1>1, <1>2, <1>3, ClaimsMove

\* The event being sent is the earliest of its group that has not arrived.
LEMMA SentInLine ==
    ASSUME TypeInv, CommitInv, InLine, NEW d \in Dispatchers, phase[d] = "send",
           Current(d).event \in Wired, NEW a \in Events, InGroup(a, Current(d).event)
    PROVE  a \in Arrived
<1>1. claimed[d] # <<>> /\ Current(d).event \in Events
    BY CurrentType
<1>2. claimed[d] \in Seq(Claim)
    BY DEF TypeInv, TypeOK
<1>3. Current(d) = claimed[d][1] /\ DOMAIN claimed[d] = 1 .. Len(claimed[d]) /\ Len(claimed[d]) > 0 /\ Len(claimed[d]) \in Nat
    BY <1>1, <1>2, NonEmptySeq, ClaimedTypes DEF Current
<1>4. 1 \in DOMAIN claimed[d] /\ claimed[d][1].event = Current(d).event
    BY <1>3
<1>5. ~\E j \in DOMAIN claimed[d] : j < 1
    BY <1>3
<1>6. QED
    BY <1>1, <1>4, <1>5 DEF InLine

LEMMA StaysInLine ==
    ASSUME OneDispatcher, TypeInv, StallInv, TableInv, CommitInv, Calm, InLine, [Next]_vars,
           ~\E d \in Dispatchers : SendRaised(d) \/ Crash(d)
    PROVE  InLine'
<1> SUFFICES ASSUME NEW a \in Events, NEW b \in Events, InGroup(a, b), a \notin Arrived'
             PROVE  /\ Present(b)' => a \in ahead'[b]
                    /\ \A d \in Dispatchers : \A i \in DOMAIN claimed'[d] :
                          claimed'[d][i].event = b =>
                              \E j \in DOMAIN claimed'[d] : j < i /\ claimed'[d][j].event = a
                    /\ b \notin Arrived'
    BY DEF InLine, InGroup
<1>1. a \notin Arrived
    BY ArrivedKept
<1>2. Present(b)' => a \in ahead'[b]
    BY <1>1, StaysInTableOrder
<1>3. \A d \in Dispatchers : \A i \in DOMAIN claimed'[d] : claimed'[d][i].event = b =>
          \E j \in DOMAIN claimed'[d] : j < i /\ claimed'[d][j].event = a
    BY <1>1, StaysInBatchOrder
<1>4. b \notin Arrived'
    <2>1. b \notin Arrived
        BY <1>1 DEF InLine
    <2>2. CASE arrived' = arrived
        BY <2>1, <2>2 DEF Arrived
    <2>3. ASSUME NEW d \in Dispatchers, phase[d] = "send", Current(d).event \in Wired,
                 arrived' = Append(arrived, Current(d).event)
          PROVE  b \notin Arrived'
        <3>1. Arrived' = Arrived \cup {Current(d).event}
            BY <2>3, Appended, OutboxConstants
        <3>2. b # Current(d).event
            BY <1>1, <2>3, SentInLine
        <3>3. QED
            BY <2>1, <3>1, <3>2
    <2>4. QED
        BY <2>2, <2>3, WhatArrives
<1>5. QED
    BY <1>2, <1>3, <1>4

LEMMA StaysGroupOrdered ==
    ASSUME TypeInv, CommitInv, InLine, GroupOrder, [Next]_vars
    PROVE  GroupOrder'
<1>1. CASE arrived' = arrived
    BY <1>1 DEF GroupOrder
<1>2. ASSUME NEW d \in Dispatchers, phase[d] = "send", Current(d).event \in Wired \ Arrived,
             arrived' = Append(arrived, Current(d).event)
      PROVE  GroupOrder'
    <2> DEFINE x == Current(d).event
    <2>1. x \in Events
        BY <1>2, OutboxConstants
    <2>2. /\ Len(arrived) \in Nat /\ DOMAIN arrived = 1 .. Len(arrived)
          /\ DOMAIN arrived' = 1 .. Len(arrived) + 1
          /\ arrived'[Len(arrived) + 1] = x
          /\ \A i \in 1 .. Len(arrived) : arrived'[i] = arrived[i] /\ arrived[i] \in Events
        BY <1>2, <2>1, Appended
    <2>3. ASSUME NEW i \in 1 .. Len(arrived), Group[arrived[i]] = Group[x] PROVE arrived[i] < x
        <3>1. arrived[i] \in Arrived
            BY <2>2 DEF Arrived
        <3>2. arrived[i] # x /\ arrived[i] \in Wired
            BY <1>2, <3>1 DEF CommitInv
        <3>3. ~InGroup(x, arrived[i])
            BY <1>2, <2>1, <2>2, <3>1 DEF InLine
        <3>4. ~(x < arrived[i])
            BY <1>2, <2>3, <3>2, <3>3 DEF InGroup
        <3>5. x \in Nat /\ arrived[i] \in Nat
            BY <2>1, <2>2, OutboxConstants
        <3>6. QED
            BY <3>2, <3>4, <3>5
    <2> HIDE DEF x
    <2>4. QED
        BY <2>2, <2>3 DEF GroupOrder
<1>3. QED
    BY <1>1, <1>2, WhatArrives

LEMMA OrderInvariant == OneDispatcher => (Spec => []OrderInv)
<1> SUFFICES ASSUME OneDispatcher PROVE Spec => []OrderInv
    OBVIOUS
<1>1. Init => OrderInv
    <2> SUFFICES ASSUME Init PROVE OrderInv
        OBVIOUS
    <2>1. /\ \A e \in Events : ~Present(e) /\ row[e].status = "absent"
          /\ \A d \in Dispatchers : claimed[d] = <<>> /\ DOMAIN claimed[d] = {} /\ phase[d] = "idle"
          /\ arrived = <<>> /\ Arrived = {} /\ committed = {} /\ waiting = {} /\ reported = {}
        BY DEF Init, Present, Absent, Arrived
    <2>2. TableInv /\ CommitInv
        BY <2>1 DEF TableInv, CommitInv, Listed
    <2>3. Calm /\ InLine /\ GroupOrder
        BY <2>1, OutboxConstants DEF Calm, InLine, GroupOrder
    <2>4. QED
        BY <2>2, <2>3 DEF OrderInv
<1>2. TypeInv /\ StallInv /\ OrderInv /\ [Next]_vars => OrderInv'
    <2> SUFFICES ASSUME TypeInv, StallInv, OrderInv, [Next]_vars PROVE OrderInv'
        OBVIOUS
    <2>1. TableInv' /\ CommitInv'
        BY StepKeepsTable, StepKeepsCommit DEF OrderInv
    <2>2. ASSUME Healthy' PROVE Calm' /\ InLine' /\ GroupOrder'
        <3>1. Calm /\ InLine /\ GroupOrder /\ ~\E d \in Dispatchers : SendRaised(d) \/ Crash(d)
            BY <2>2, StaysHealthy DEF OrderInv
        <3>2. QED
            BY <3>1, StaysCalm, StaysInLine, StaysGroupOrdered DEF OrderInv
    <2>3. QED
        BY <2>1, <2>2 DEF OrderInv
<1>3. QED
    BY <1>1, <1>2, TypeInvariant, StallInvariant, PTL DEF Spec

\* For the one dispatcher the planner runs, a group's events reach the queue
\* in the order they were committed until a send raises or a cycle is cut
\* short, whatever the clock, the producers, the pruning and the queues
\* without a client do in between.
THEOREM GroupsStayInOrder == OneDispatcher => (Spec => []GroupOrderUntilFailure)
<1>1. OrderInv => GroupOrderUntilFailure
    BY DEF OrderInv, Healthy, GroupOrderUntilFailure
<1>2. QED
    BY <1>1, OrderInvariant, PTL
=============================================================================
