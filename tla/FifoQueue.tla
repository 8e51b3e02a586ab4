----------------------------- MODULE FifoQueue ------------------------------
(***************************************************************************)
(* The FIFO queue of app/pipeline/queue.py (MemoryQueue), whose group and  *)
(* visibility rules are those the pipeline relies on from SQS FIFO.        *)
(*                                                                         *)
(* A send that is not a duplicate appends a copy; a copy is visible, in    *)
(* flight under a receipt handle, or deleted.  A copy in flight whose      *)
(* visibility timeout has passed (`lapsed') becomes visible again when the *)
(* next receive looks, with its old place in the order.  Deleting or       *)
(* extending under a handle that was superseded does nothing; a receipt    *)
(* handle is represented by the consumer that holds it, since a consumer   *)
(* works off one batch before it holder the next.                        *)
(***************************************************************************)
EXTENDS Naturals, Sequences, FiniteSets

CONSTANTS
    Ids,         \* message deduplication ids
    Group,       \* Group[id]: the MessageGroupId
    Consumers,   \* processes that receive from the queue
    Nobody,      \* no consumer
    MaxCopies,   \* bound of the model: copies the queue ever takes
    MaxMessages  \* RADIO_SQS_MAX_MESSAGES_PER_RECEIVE

ASSUME QueueConstants ==
    /\ Nobody \notin Consumers
    /\ MaxCopies \in Nat
    /\ MaxMessages \in Nat \ {0}

VARIABLES
    copies,    \* copies[n]: the id of the n-th copy; n is its sequence number
    place,     \* place[n]: where that copy is
    holder,    \* holder[n]: whose handle of a copy in flight is the valid one
    lapsed,    \* copies in flight whose visibility timeout has passed
    window     \* ids the queue still recognises as duplicates

queueVars == <<copies, place, holder, lapsed, window>>

Copy   == 1 .. MaxCopies
Place  == {"unsent", "visible", "inflight", "deleted"}

QueueTypeOK ==
    /\ copies \in Seq(Ids) /\ Len(copies) <= MaxCopies
    /\ place \in [Copy -> Place]
    /\ holder \in [Copy -> Consumers \cup {Nobody}]
    /\ lapsed \subseteq Copy
    /\ window \subseteq Ids

QueueInit ==
    /\ copies = <<>>
    /\ place = [n \in Copy |-> "unsent"]
    /\ holder = [n \in Copy |-> Nobody]
    /\ lapsed = {}
    /\ window = {}

At(p)        == {n \in Copy : place[n] = p}
GroupOf(n)   == Group[copies[n]]
CopiesOf(id) == {n \in DOMAIN copies : copies[n] = id}
Undeleted(id) == {n \in CopiesOf(id) : place[n] # "deleted"}

\* send(): a duplicate inside the window is accepted and dropped.
Send(id) ==
    IF id \in window
    THEN UNCHANGED queueVars
    ELSE /\ Len(copies) < MaxCopies
         /\ copies' = Append(copies, id)
         /\ place' = [place EXCEPT ![Len(copies) + 1] = "visible"]
         /\ window' = window \cup {id}
         /\ UNCHANGED <<holder, lapsed>>

\* The copies a receive chooses from, after _reclaim_expired.
Reclaimable_None == {}
Reclaimable == lapsed

Available == At("visible") \cup Reclaimable

\* One message of a group at a time: groups with a copy in flight wait.
Blocked_None == {}
Blocked == {GroupOf(n) : n \in At("inflight") \ lapsed}

Heads ==
    {n \in Available : /\ GroupOf(n) \notin Blocked
                       /\ \A m \in Available : m < n => GroupOf(m) # GroupOf(n)}

Selected == {n \in Heads : Cardinality({m \in Heads : m < n}) < MaxMessages}

\* receive(): reclaim what has lapsed, hand out the selected copies.
Receive(c) ==
    /\ place' = [n \in Copy |-> IF n \in Selected THEN "inflight"
                                ELSE IF n \in Reclaimable THEN "visible" ELSE place[n]]
    /\ holder' = [n \in Copy |-> IF n \in Selected THEN c
                                 ELSE IF n \in Reclaimable THEN Nobody ELSE holder[n]]
    /\ lapsed' = lapsed \ Reclaimable
    /\ UNCHANGED <<copies, window>>

\* c's handle of copy n is the one of its latest receive.
Valid(c, n) == holder[n] = c

\* delete(): a no-op under any other handle.
Delete(c, n) ==
    /\ IF Valid(c, n)
       THEN /\ place' = [place EXCEPT ![n] = "deleted"]
            /\ holder' = [holder EXCEPT ![n] = Nobody]
            /\ lapsed' = lapsed \ {n}
       ELSE UNCHANGED <<place, holder, lapsed>>
    /\ UNCHANGED <<copies, window>>

\* extend_visibility()
Extend(c, n) ==
    /\ lapsed' = IF Valid(c, n) THEN lapsed \ {n} ELSE lapsed
    /\ UNCHANGED <<copies, place, holder, window>>

\* The clock: a visibility timeout passes, the deduplication window closes.
VisibilityPasses(n) ==
    /\ n \in At("inflight") \ lapsed
    /\ lapsed' = lapsed \cup {n}
    /\ UNCHANGED <<copies, place, holder, window>>

WindowCloses(id) ==
    /\ id \in window
    /\ window' = window \ {id}
    /\ UNCHANGED <<copies, place, holder, lapsed>>
=============================================================================
