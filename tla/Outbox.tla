------------------------------- MODULE Outbox -------------------------------
(***************************************************************************)
(* The transactional outbox of app/pipeline/outbox.py.                     *)
(*                                                                         *)
(* A producer inserts a row inside its own business transaction (Enqueue). *)
(* A dispatcher of the planner process reclaims expired leases, claims a   *)
(* batch, and sends the events of the batch one by one: no transaction is  *)
(* held while a send is in progress, so a crash, a second dispatcher or    *)
(* the clock may step in at every point in between.                        *)
(*                                                                         *)
(* Time is abstracted to what the code compares it with: a row's           *)
(* available_at has passed or not (it is in `waiting' until it has), and a *)
(* lease has expired or not.  The instants when they pass are arbitrary.   *)
(***************************************************************************)
EXTENDS Naturals, Sequences, FiniteSets

CONSTANTS
    Events,       \* outbox events, numbered in the order producers commit them
    Group,        \* Group[e]: the MessageGroupId of e
    Wired,        \* the events whose queue the dispatcher has a client for
    Dispatchers,  \* processes that run dispatch_once
    BatchSize,    \* RADIO_OUTBOX_BATCH_SIZE
    MaxAttempts,  \* RADIO_OUTBOX_MAX_ATTEMPTS
    MaxRejects,   \* bound of the model: sends that raise, per event
    MaxCrashes    \* bound of the model: dispatch cycles cut short

ASSUME OutboxConstants ==
    /\ Events \subseteq Nat
    /\ IsFiniteSet(Events)
    /\ Wired \subseteq Events
    /\ BatchSize \in Nat \ {0}
    /\ MaxAttempts \in Nat \ {0}
    /\ MaxRejects \in Nat
    /\ MaxCrashes \in Nat

VARIABLES
    row,        \* the row of an event in outbox_events, or Absent
    waiting,    \* events whose row has available_at_utc in the future
    ahead,      \* ahead[e]: the rows before e in ORDER BY available_at, created_at
    claimed,    \* claimed[d]: what is left of the batch held by dispatcher d
    phase,      \* phase[d]: where d is in dispatch_once
    committed,  \* events some producer's transaction has committed
    arrived,    \* events the queue has accepted, in the order of first arrival
    rejects,    \* rejects[e]: how many sends of e have raised
    reported,   \* events with an outbox_exhausted row in processing_failures
    crashes

vars == <<row, waiting, ahead, claimed, phase, committed, arrived, rejects,
          reported, crashes>>

Status == {"absent", "pending", "sending", "sent", "failed"}
Lease  == {"none", "held", "expired"}
Row    == [status : Status, attempts : Nat, lease : Lease]
Claim  == [event : Events, attempts : Nat]
Phase  == {"idle", "claim", "send", "accepted", "raised"}

Absent == [status |-> "absent", attempts |-> 0, lease |-> "none"]
Fresh  == [status |-> "pending", attempts |-> 0, lease |-> "none"]

Present(e) == row[e].status # "absent"
Arrived    == {arrived[i] : i \in DOMAIN arrived}
Claimable  == {e \in Events : row[e].status = "pending" /\ e \notin waiting}
Current(d) == Head(claimed[d])

Init ==
    /\ row = [e \in Events |-> Absent]
    /\ waiting = {}
    /\ ahead = [e \in Events |-> {}]
    /\ claimed = [d \in Dispatchers |-> <<>>]
    /\ phase = [d \in Dispatchers |-> "idle"]
    /\ committed = {}
    /\ arrived = <<>>
    /\ rejects = [e \in Events |-> 0]
    /\ reported = {}
    /\ crashes = 0

-----------------------------------------------------------------------------
(* Helpers on the order of the table. *)

\* e becomes the last of the rows that are available now.
MoveToEnd(e) ==
    ahead' = [f \in Events |->
                 IF f = e THEN {g \in Events \ waiting : g # e /\ Present(g)}
                          ELSE ahead[f] \ {e}]

\* The dispatcher is done with the first event of its batch.
Advance(d) ==
    /\ claimed' = [claimed EXCEPT ![d] = Tail(@)]
    /\ phase' = [phase EXCEPT ![d] = IF Len(claimed[d]) = 1 THEN "idle" ELSE "send"]

-----------------------------------------------------------------------------
(* Producers. *)

\* enqueue(), inside the transaction that writes the business state.  The
\* UNIQUE (queue, dedup id) makes a repeat a no-op while the row exists.
Enqueue(e) ==
    /\ \A f \in Events : f < e /\ Group[f] = Group[e] => f \in committed
    /\ committed' = committed \cup {e}
    /\ IF Present(e)
       THEN UNCHANGED <<row, waiting, ahead>>
       ELSE /\ row' = [row EXCEPT ![e] = Fresh]
            /\ waiting' = waiting \ {e}
            /\ MoveToEnd(e)
    /\ UNCHANGED <<claimed, phase, arrived, rejects, reported, crashes>>

-----------------------------------------------------------------------------
(* One dispatch cycle. *)

\* A row whose lease has expired goes back to pending; its available_at and
\* its attempts are not touched.
Reclaimed_Never(r) == r
Reclaimed(r) == [r EXCEPT !.status = "pending", !.lease = "none"]

ReclaimStaleLeases(d) ==
    /\ phase[d] = "idle"
    /\ row' = [e \in Events |->
                  IF row[e].status = "sending" /\ row[e].lease = "expired"
                  THEN Reclaimed(row[e]) ELSE row[e]]
    /\ phase' = [phase EXCEPT ![d] = "claim"]
    /\ UNCHANGED <<waiting, ahead, claimed, committed, arrived, rejects, reported, crashes>>

\* The first BatchSize claimable rows ...
Batch == {e \in Claimable : Cardinality(ahead[e] \cap Claimable) < BatchSize}

\* ... in the order of the table.
InTableOrder_Unsorted(s) == TRUE
InTableOrder(s) ==
    \A i, j \in DOMAIN s : i < j => s[j] \notin ahead[s[i]]

Listing(s) ==
    /\ \A e \in Batch : \E i \in DOMAIN s : s[i] = e
    /\ \A i, j \in DOMAIN s : s[i] = s[j] => i = j
    /\ InTableOrder(s)

ClaimBatch(d) ==
    /\ phase[d] = "claim"
    /\ \E s \in [1 .. Cardinality(Batch) -> Batch] :
          /\ Listing(s)
          /\ claimed' = [claimed EXCEPT ![d] =
                [i \in 1 .. Cardinality(Batch) |->
                    [event |-> s[i], attempts |-> row[s[i]].attempts]]]
    /\ row' = [e \in Events |->
                  IF e \in Batch
                  THEN [row[e] EXCEPT !.status = "sending", !.lease = "held"]
                  ELSE row[e]]
    /\ phase' = [phase EXCEPT ![d] = IF Batch = {} THEN "idle" ELSE "send"]
    /\ UNCHANGED <<waiting, ahead, committed, arrived, rejects, reported, crashes>>

\* queue.send() returned: the message is in the queue.  Nothing is recorded yet.
SendAccepted(d) ==
    /\ phase[d] = "send"
    /\ Current(d).event \in Wired
    /\ arrived' = IF Current(d).event \in Arrived
                  THEN arrived ELSE Append(arrived, Current(d).event)
    /\ phase' = [phase EXCEPT ![d] = "accepted"]
    /\ UNCHANGED <<row, waiting, ahead, claimed, committed, rejects, reported, crashes>>

\* queue.send() raised.  A network error leaves open whether the queue took
\* the message, so it may have arrived all the same.
SendRaised(d) ==
    /\ phase[d] = "send"
    /\ Current(d).event \in Wired
    /\ rejects[Current(d).event] < MaxRejects
    /\ rejects' = [rejects EXCEPT ![Current(d).event] = @ + 1]
    /\ \/ UNCHANGED arrived
       \/ /\ Current(d).event \notin Arrived
          /\ arrived' = Append(arrived, Current(d).event)
    /\ phase' = [phase EXCEPT ![d] = "raised"]
    /\ UNCHANGED <<row, waiting, ahead, claimed, committed, reported, crashes>>

\* The outcome writes are UPDATE ... WHERE event_id = ?: they do not ask for
\* the status or the lease they expect to find, and a missing row is a no-op.
Record(e, status, attempts) ==
    row' = IF Present(e)
           THEN [row EXCEPT ![e] = [status |-> status, attempts |-> attempts, lease |-> "none"]]
           ELSE row

\* _mark_sent
MarkSent(d) ==
    /\ phase[d] = "accepted"
    /\ Record(Current(d).event, "sent", row[Current(d).event].attempts)
    /\ Advance(d)
    /\ UNCHANGED <<waiting, ahead, committed, arrived, rejects, reported, crashes>>

\* _schedule_retry: back to pending, one attempt spent, available later.
ScheduleRetry(d) ==
    LET e == Current(d).event IN
    /\ phase[d] = "raised"
    /\ Current(d).attempts + 1 < MaxAttempts
    /\ Record(e, "pending", row[e].attempts + 1)
    /\ waiting' = IF Present(e) THEN waiting \cup {e} ELSE waiting
    /\ Advance(d)
    /\ UNCHANGED <<ahead, committed, arrived, rejects, reported, crashes>>

\* _mark_failed: the event is given up and the failure is written down.
MarkFailed(d) ==
    LET e == Current(d).event IN
    /\ phase[d] = "raised"
    /\ Current(d).attempts + 1 >= MaxAttempts
    /\ Record(e, "failed", row[e].attempts + 1)
    /\ reported' = reported \cup {e}
    /\ Advance(d)
    /\ UNCHANGED <<waiting, ahead, committed, arrived, rejects, crashes>>

\* _release: no client for this queue; pending again, no attempt spent.
Release(d) ==
    LET e == Current(d).event IN
    /\ phase[d] = "send"
    /\ e \notin Wired
    /\ Record(e, "pending", row[e].attempts)
    /\ waiting' = IF Present(e) THEN waiting \cup {e} ELSE waiting
    /\ Advance(d)
    /\ UNCHANGED <<ahead, committed, arrived, rejects, reported, crashes>>

\* The process dies, or a database write raises out of dispatch_once: what
\* the dispatcher held in memory is gone, the rows stay as they are.
Crash(d) ==
    /\ phase[d] # "idle"
    /\ crashes < MaxCrashes
    /\ crashes' = crashes + 1
    /\ claimed' = [claimed EXCEPT ![d] = <<>>]
    /\ phase' = [phase EXCEPT ![d] = "idle"]
    /\ UNCHANGED <<row, waiting, ahead, committed, arrived, rejects, reported>>

\* prune(): delete `sent' rows past their retention, never any other.
Prunable_Unsent == {e \in Events : row[e].status \in {"sent", "pending"}}
Prunable == {e \in Events : row[e].status = "sent"}

Prune(d) ==
    /\ phase[d] = "idle"
    /\ \E old \in SUBSET Prunable :
          /\ old # {}
          /\ row' = [e \in Events |-> IF e \in old THEN Absent ELSE row[e]]
    /\ UNCHANGED <<waiting, ahead, claimed, phase, committed, arrived, rejects, reported, crashes>>

-----------------------------------------------------------------------------
(* The clock. *)

\* The lease of e runs out, whether or not its holder is still alive.
LeaseExpires(e) ==
    /\ row[e].status = "sending"
    /\ row[e].lease = "held"
    /\ row' = [row EXCEPT ![e].lease = "expired"]
    /\ UNCHANGED <<waiting, ahead, claimed, phase, committed, arrived, rejects, reported, crashes>>

\* available_at of e passes: it is the latest of the rows that are available.
BackoffElapses(e) ==
    /\ e \in waiting
    /\ waiting' = waiting \ {e}
    /\ MoveToEnd(e)
    /\ UNCHANGED <<row, claimed, phase, committed, arrived, rejects, reported, crashes>>

-----------------------------------------------------------------------------
Cycle(d) ==
    \/ ReclaimStaleLeases(d) \/ ClaimBatch(d)
    \/ SendAccepted(d) \/ SendRaised(d)
    \/ MarkSent(d) \/ ScheduleRetry(d) \/ MarkFailed(d) \/ Release(d)

Next ==
    \/ \E e \in Events : Enqueue(e) \/ LeaseExpires(e) \/ BackoffElapses(e)
    \/ \E d \in Dispatchers : Cycle(d) \/ Crash(d) \/ Prune(d)

Spec == Init /\ [][Next]_vars

\* The planner calls dispatch_once on every tick of its loop, and the clock
\* runs.  Nothing obliges a producer to commit, a process to crash, or a row
\* to be pruned.
Fairness ==
    /\ \A d \in Dispatchers : WF_vars(Cycle(d))
    /\ \A e \in Events : WF_vars(LeaseExpires(e)) /\ WF_vars(BackoffElapses(e))

FairSpec == Spec /\ Fairness

-----------------------------------------------------------------------------
TypeOK ==
    /\ row \in [Events -> Row]
    /\ waiting \subseteq Events
    /\ ahead \in [Events -> SUBSET Events]
    /\ claimed \in [Dispatchers -> Seq(Claim)]
    /\ phase \in [Dispatchers -> Phase]
    /\ committed \subseteq Events
    /\ arrived \in Seq(Events)
    /\ rejects \in [Events -> Nat]
    /\ reported \subseteq Events
    /\ crashes \in Nat

(* No silent stall (outbox.py, module docstring): an event whose business    *)
(* transaction has committed is never dropped.  At every moment it is still  *)
(* in the table on its way, or the queue has taken it, or it has been given  *)
(* up with a failure on record.                                              *)
NoSilentStall ==
    \A e \in committed :
        \/ row[e].status \in {"pending", "sending"}
        \/ e \in Arrived
        \/ e \in reported

(* Within a group, events reach the queue in the order they were committed   *)
(* (transcription.py:13-15: "a station's segments arrive in order").         *)
GroupOrder ==
    \A i, j \in DOMAIN arrived :
        i < j /\ Group[arrived[i]] = Group[arrived[j]] => arrived[i] < arrived[j]

(* As long as no send has raised and no cycle was cut short, a group's       *)
(* events do reach the queue in the order they were committed.               *)
GroupOrderUntilFailure ==
    crashes = 0 /\ (\A e \in Events : rejects[e] = 0) => GroupOrder

(* Every committed event of a wired queue is eventually sent or given up,    *)
(* across crashes of the dispatcher and whatever the other queues do.        *)
EventuallyResolved ==
    \A e \in Wired :
        e \in committed ~> (e \in Arrived \/ row[e].status = "failed")
=============================================================================
