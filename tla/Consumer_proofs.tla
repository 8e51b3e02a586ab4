--------------------------- MODULE Consumer_proofs ---------------------------
(***************************************************************************)
(* Proofs about Consumer, for every number of messages, groups, copies and *)
(* crashes: no message is lost, whatever the number of consumers; and with *)
(* one consumer per queue, which is what is deployed, an effect is         *)
(* committed once and the loop implements InOrderDelivery.                 *)
(***************************************************************************)
EXTENDS Consumer, SequenceTheorems, WellFoundedInduction, TLAPS

OneConsumer == \A c, d \in Consumers : c = d

-----------------------------------------------------------------------------
(* The queue.                                                              *)

QueueInv ==
    /\ \A n \in Copy : place[n] = "unsent" <=> n \notin DOMAIN copies
    /\ \A n \in lapsed : place[n] = "inflight"
    /\ \A id \in window : CopiesOf(id) # {}

\* What the queue has taken it keeps in its order, and what is deleted stays
\* deleted.
Grows ==
    /\ \A n \in DOMAIN copies :
          /\ n \in DOMAIN copies' /\ copies'[n] = copies[n]
          /\ place[n] = "deleted" => place'[n] = "deleted"
    /\ \A n \in DOMAIN copies' \ DOMAIN copies :
          place'[n] = "visible" /\ \A m \in DOMAIN copies : m < n

LEMMA CopiesAreCopies ==
    ASSUME QueueTypeOK
    PROVE  /\ DOMAIN copies = 1 .. Len(copies) /\ Len(copies) \in Nat
           /\ DOMAIN copies \subseteq Copy
           /\ \A n \in DOMAIN copies : copies[n] \in Ids
<1>1. copies \in Seq(Ids) /\ Len(copies) <= MaxCopies /\ MaxCopies \in Nat
    BY QueueConstants DEF QueueTypeOK
<1>2. QED
    BY <1>1, LenProperties DEF Copy

\* A send appends one copy, or none if the window knows the message.
LEMMA SendEffect ==
    ASSUME QueueTypeOK, NEW id \in Ids, Send(id), id \notin window
    PROVE  LET n == Len(copies) + 1 IN
           /\ n \in Copy /\ n \notin DOMAIN copies
           /\ copies' \in Seq(Ids) /\ Len(copies') = n
           /\ DOMAIN copies' = DOMAIN copies \cup {n}
           /\ copies'[n] = id /\ \A m \in DOMAIN copies : copies'[m] = copies[m] /\ m < n
           /\ place' = [place EXCEPT ![n] = "visible"]
           /\ window' = window \cup {id}
           /\ UNCHANGED <<holder, lapsed>>
<1> DEFINE n == Len(copies) + 1
<1>1. /\ copies' = Append(copies, id) /\ Len(copies) < MaxCopies
      /\ place' = [place EXCEPT ![n] = "visible"] /\ window' = window \cup {id}
      /\ UNCHANGED <<holder, lapsed>>
    BY DEF Send
<1>2. /\ DOMAIN copies = 1 .. Len(copies) /\ Len(copies) \in Nat /\ MaxCopies \in Nat
      /\ copies \in Seq(Ids)
    BY CopiesAreCopies, QueueConstants DEF QueueTypeOK
<1>3. /\ copies' \in Seq(Ids) /\ Len(copies') = n
      /\ copies'[n] = id /\ \A m \in 1 .. Len(copies) : copies'[m] = copies[m]
    BY <1>1, <1>2, AppendProperties
<1>4. DOMAIN copies' = 1 .. n
    BY <1>3, LenProperties
<1>5. n \in Copy
    BY <1>1, <1>2 DEF Copy
<1>6. 1 .. n = (1 .. Len(copies)) \cup {n} /\ n \notin 1 .. Len(copies)
      /\ \A m \in 1 .. Len(copies) : m < n
    BY <1>2
<1>7. QED
    BY <1>1, <1>2, <1>3, <1>4, <1>5, <1>6

LEMMA SendKeeps ==
    ASSUME QueueTypeOK, QueueInv, NEW id \in Ids, Send(id)
    PROVE  QueueTypeOK' /\ QueueInv' /\ Grows
<1>1. CASE id \in window
    <2>1. UNCHANGED queueVars
        BY <1>1 DEF Send
    <2>2. QED
        BY <2>1 DEF queueVars, QueueTypeOK, QueueInv, Grows, CopiesOf
<1>2. CASE id \notin window
    <2> DEFINE n == Len(copies) + 1
    <2>1. /\ n \in Copy /\ n \notin DOMAIN copies
          /\ copies' \in Seq(Ids) /\ Len(copies') = n
          /\ DOMAIN copies' = DOMAIN copies \cup {n}
          /\ copies'[n] = id /\ \A m \in DOMAIN copies : copies'[m] = copies[m] /\ m < n
          /\ place' = [place EXCEPT ![n] = "visible"]
          /\ window' = window \cup {id}
          /\ UNCHANGED <<holder, lapsed>>
        BY <1>2, SendEffect
    <2> HIDE DEF n
    <2>2. Len(copies') <= MaxCopies
        BY <2>1, QueueConstants DEF Copy
    <2>3. QueueTypeOK'
        BY <2>1, <2>2 DEF QueueTypeOK, Place
    <2>4. \A m \in Copy : place'[m] = IF m = n THEN "visible" ELSE place[m]
        BY <2>1 DEF QueueTypeOK
    <2>5. \A m \in Copy : place'[m] = "unsent" <=> m \notin DOMAIN copies'
        BY <2>1, <2>4 DEF QueueInv
    <2>6. \A m \in lapsed' : place'[m] = "inflight"
        BY <2>1, <2>4 DEF QueueInv, QueueTypeOK
    <2>7. \A k \in window' : CopiesOf(k)' # {}
        BY <2>1 DEF QueueInv, CopiesOf
    <2>8. Grows
        BY <2>1, <2>4, CopiesAreCopies DEF Grows
    <2>9. QED
        BY <2>3, <2>5, <2>6, <2>7, <2>8 DEF QueueInv
<1>3. QED
    BY <1>1, <1>2

\* What a receive selects was visible or lapsed, and every earlier copy of
\* its group is deleted.
LEMMA SelectedAreHeads ==
    ASSUME QueueTypeOK, QueueInv, NEW n \in Selected
    PROVE  /\ n \in DOMAIN copies
           /\ place[n] \in {"visible", "inflight"}
           /\ \A m \in DOMAIN copies :
                 m < n /\ GroupOf(m) = GroupOf(n) => place[m] = "deleted"
<1>1. /\ n \in Available /\ GroupOf(n) \notin Blocked
      /\ \A m \in Available : m < n => GroupOf(m) # GroupOf(n)
    BY DEF Selected, Heads
<1>2. /\ n \in Copy /\ place[n] \in {"visible", "inflight"}
    BY <1>1 DEF Available, Reclaimable, At, QueueInv, QueueTypeOK
<1>3. n \in DOMAIN copies
    BY <1>2 DEF QueueInv
<1>4. ASSUME NEW m \in DOMAIN copies, m < n, GroupOf(m) = GroupOf(n)
      PROVE  place[m] = "deleted"
    <2>1. m \in Copy /\ place[m] # "unsent"
        BY CopiesAreCopies DEF QueueInv
    <2>2. m \notin Available
        BY <1>1, <1>4
    <2>3. m \notin At("inflight") \ lapsed
        BY <1>1, <1>4 DEF Blocked
    <2>4. QED
        BY <2>1, <2>2, <2>3 DEF Available, Reclaimable, At, QueueTypeOK, Place
<1>5. QED
    BY <1>2, <1>3, <1>4

LEMMA ReceiveKeeps ==
    ASSUME QueueTypeOK, QueueInv, NEW c \in Consumers, Receive(c)
    PROVE  QueueTypeOK' /\ QueueInv' /\ Grows
<1>1. Selected \subseteq Copy /\ Reclaimable = lapsed
    BY SelectedAreHeads, CopiesAreCopies DEF Reclaimable
<1>2. /\ \A n \in Copy : place'[n] = IF n \in Selected THEN "inflight"
                                     ELSE IF n \in lapsed THEN "visible" ELSE place[n]
      /\ place' \in [Copy -> Place] /\ holder' \in [Copy -> Consumers \cup {Nobody}]
      /\ lapsed' = {} /\ UNCHANGED <<copies, window>>
    BY <1>1 DEF Receive, QueueTypeOK, Place
<1>3. \A n \in Selected : n \in DOMAIN copies /\ place[n] \in {"visible", "inflight"}
    BY SelectedAreHeads
<1>4. QueueTypeOK'
    BY <1>2 DEF QueueTypeOK
<1>5. QueueInv'
    BY <1>1, <1>2, <1>3 DEF QueueInv, CopiesOf, QueueTypeOK
<1>6. Grows
    BY <1>2, <1>3, CopiesAreCopies DEF Grows, QueueInv
<1>7. QED
    BY <1>4, <1>5, <1>6

LEMMA OtherQueueStepsKeep ==
    ASSUME QueueTypeOK, QueueInv,
           \/ \E c \in Consumers : \E n \in DOMAIN copies : Delete(c, n) \/ Extend(c, n)
           \/ \E n \in Copy : VisibilityPasses(n)
           \/ \E id \in Ids : WindowCloses(id)
           \/ UNCHANGED queueVars
    PROVE  QueueTypeOK' /\ QueueInv' /\ Grows
<1> USE CopiesAreCopies DEF QueueTypeOK, QueueInv, Grows, CopiesOf
<1>1. ASSUME NEW c \in Consumers, NEW n \in DOMAIN copies, Delete(c, n)
      PROVE  QueueTypeOK' /\ QueueInv' /\ Grows
    BY <1>1 DEF Delete, Place
<1>2. ASSUME NEW c \in Consumers, NEW n \in DOMAIN copies, Extend(c, n)
      PROVE  QueueTypeOK' /\ QueueInv' /\ Grows
    BY <1>2 DEF Extend
<1>3. ASSUME NEW n \in Copy, VisibilityPasses(n)
      PROVE  QueueTypeOK' /\ QueueInv' /\ Grows
    BY <1>3 DEF VisibilityPasses, At
<1>4. ASSUME NEW id \in Ids, WindowCloses(id)
      PROVE  QueueTypeOK' /\ QueueInv' /\ Grows
    BY <1>4 DEF WindowCloses
<1>5. CASE UNCHANGED queueVars
    BY <1>5 DEF queueVars
<1>6. QED
    BY <1>1, <1>2, <1>3, <1>4, <1>5

-----------------------------------------------------------------------------
(* The loop.                                                               *)

\* A consumer in the middle of a poll holds the copy it is at.
LoopInv ==
    \A c \in Consumers : /\ pc[c] = "receive" <=> batch[c] = {}
                         /\ batch[c] \subseteq DOMAIN copies

\* Every step of a consumer leaves the types and this.
Base == TypeOK /\ QueueInv /\ LoopInv

LEMMA CurrentInBatch ==
    ASSUME Base, NEW c \in Consumers, pc[c] # "receive"
    PROVE  /\ Current(c) \in batch[c] /\ Current(c) \in DOMAIN copies
           /\ Id(c) \in Ids
<1>1. batch[c] \subseteq DOMAIN copies /\ batch[c] # {} /\ DOMAIN copies \subseteq Nat
      /\ \A n \in DOMAIN copies : copies[n] \in Ids
    BY CopiesAreCopies DEF Base, TypeOK, LoopInv
<1>2. PICK n \in batch[c] : \A k \in batch[c] : <<k, n>> \notin OpToRel(<, Nat)
    BY <1>1, NatLessThanWellFounded, WFMin
<1>3. \A k \in batch[c] : ~(k < n)
    BY <1>1, <1>2 DEF OpToRel
<1>4. \A k \in batch[c] : n <= k
    BY <1>1, <1>3
<1>5. QED
    BY <1>1, <1>4 DEF Current, Id

\* After a message the consumer is at the next of its batch, or asks again.
LEMMA AdvanceEffect ==
    ASSUME Base, NEW c \in Consumers, pc[c] # "receive", Advance(c)
    PROVE  /\ batch' = [batch EXCEPT ![c] = batch[c] \ {Current(c)}]
           /\ pc' \in [Consumers -> PC] /\ pc'[c] \in {"receive", "check"}
           /\ pc'[c] = "receive" <=> batch'[c] = {}
           /\ \A d \in Consumers \ {c} : pc'[d] = pc[d]
BY CurrentInBatch DEF Base, TypeOK, Advance, PC

\* One step for every kind of action: what happens to the queue, and who moves.
LEMMA StepKeepsQueue ==
    ASSUME Base, [Next]_vars
    PROVE  QueueTypeOK' /\ QueueInv' /\ Grows
<1> USE DEF Base, TypeOK
<1>1. ASSUME NEW id \in Ids, Produce(id) \/ Prune(id)
      PROVE  QueueTypeOK' /\ QueueInv' /\ Grows
    BY <1>1, SendKeeps, OtherQueueStepsKeep DEF Produce, Prune
<1>2. ASSUME NEW c \in Consumers, Poll(c) \/ Heartbeat(c) \/ Abandon(c)
      PROVE  QueueTypeOK' /\ QueueInv' /\ Grows
    <2>1. CASE ReceiveBatch(c)
        BY <2>1, ReceiveKeeps DEF ReceiveBatch
    <2>2. CASE DeleteMessage(c)
        BY <2>2, CurrentInBatch, OtherQueueStepsKeep DEF DeleteMessage, DeletableAt
    <2>3. CASE Heartbeat(c)
        BY <2>3, CurrentInBatch, OtherQueueStepsKeep DEF Heartbeat
    <2>4. CASE PreCheck(c) \/ Commit(c) \/ RaiseRetryable(c) \/ RaisePermanent(c)
               \/ RecordFailed(c) \/ Abandon(c)
        BY <2>4, OtherQueueStepsKeep
        DEF PreCheck, Commit, RaiseRetryable, RaisePermanent, RecordFailed, Abandon
    <2>5. QED
        BY <1>2, <2>1, <2>2, <2>3, <2>4 DEF Poll
<1>3. CASE Clock
    BY <1>3, OtherQueueStepsKeep DEF Clock
<1>4. CASE UNCHANGED vars
    BY <1>4, OtherQueueStepsKeep DEF vars
<1>5. QED
    BY <1>1, <1>2, <1>3, <1>4 DEF Next

LEMMA StepKeepsBase == Base /\ [Next]_vars => Base'
<1> SUFFICES ASSUME Base, [Next]_vars PROVE Base'
    OBVIOUS
<1>0. QueueTypeOK' /\ QueueInv' /\ Grows
    BY StepKeepsQueue
<1>1. DOMAIN copies' \subseteq Copy /\ DOMAIN copies \subseteq DOMAIN copies'
    <2>1. \A n \in DOMAIN copies : n \in DOMAIN copies'
        BY <1>0 DEF Grows
    <2>2. copies' \in Seq(Ids) /\ Len(copies') <= MaxCopies /\ MaxCopies \in Nat
        BY <1>0, QueueConstants DEF QueueTypeOK
    <2>3. DOMAIN copies' = 1 .. Len(copies') /\ Len(copies') \in Nat
        BY <2>2, LenProperties
    <2>4. QED
        BY <2>1, <2>2, <2>3 DEF Copy
<1> DEFINE Rest == /\ inbox \in [Ids -> InboxStatus] /\ expired \subseteq Ids
                   /\ batch \in [Consumers -> SUBSET Copy] /\ pc \in [Consumers -> PC]
                   /\ retries \in Nat /\ crashes \in Nat /\ accepted \in Seq(Ids)
                   /\ commits \in [Ids -> 0 .. 2]
                   /\ verdict \in [Ids -> {"none", "done", "rejected"}]
                   /\ LoopInv
<1>2. ASSUME NEW id \in Ids, Produce(id) \/ Prune(id) PROVE Rest'
    <2>1. accepted' \in Seq(Ids)
        BY <1>2, AppendProperties DEF Produce, Prune, Base, TypeOK
    <2>2. QED
        BY <1>1, <1>2, <2>1 DEF Produce, Prune, Base, TypeOK, LoopInv, InboxStatus
<1>3. ASSUME NEW c \in Consumers, ReceiveBatch(c) PROVE Rest'
    BY <1>0, <1>1, <1>3, SelectedAreHeads DEF ReceiveBatch, Base, TypeOK, LoopInv, PC
<1>4. ASSUME NEW c \in Consumers, Commit(c) \/ RecordFailed(c) PROVE Rest'
    <2>1. Id(c) \in Ids
        BY <1>4, CurrentInBatch DEF Commit, RecordFailed
    <2>2. /\ inbox' \in [Ids -> InboxStatus]
          /\ verdict' \in [Ids -> {"none", "done", "rejected"}]
        BY <1>4, <2>1 DEF Commit, RecordFailed, Base, TypeOK, InboxRow, InboxStatus
    <2>3. commits' \in [Ids -> 0 .. 2]
        <3>1. commits' = commits
              \/ commits' = [commits EXCEPT ![Id(c)] = IF commits[Id(c)] = 0 THEN 1 ELSE 2]
            BY <1>4 DEF Commit, RecordFailed
        <3>2. QED
            BY <3>1, <2>1 DEF Base, TypeOK
    <2>4. pc' \in [Consumers -> PC] /\ LoopInv' /\ UNCHANGED <<expired, batch, retries, crashes, accepted>>
        BY <1>1, <1>4 DEF Commit, RecordFailed, Base, TypeOK, LoopInv, PC
    <2>5. QED
        BY <2>2, <2>3, <2>4 DEF Base, TypeOK
<1>5. ASSUME NEW c \in Consumers, PreCheck(c) \/ RaisePermanent(c) PROVE Rest'
    BY <1>1, <1>5 DEF PreCheck, RaisePermanent, MayReject, Base, TypeOK, LoopInv, PC
<1>6. ASSUME NEW c \in Consumers, RaiseRetryable(c) \/ DeleteMessage(c) PROVE Rest'
    <2>1. /\ pc[c] # "receive" /\ Advance(c) /\ retries' \in Nat
          /\ UNCHANGED <<inbox, expired, crashes, accepted, commits, verdict>>
        BY <1>6 DEF RaiseRetryable, DeleteMessage, DeletableAt, Base, TypeOK
    <2>2. QED
        BY <1>1, <2>1, AdvanceEffect DEF Base, TypeOK, LoopInv
<1>7. ASSUME NEW c \in Consumers, Heartbeat(c) PROVE Rest'
    BY <1>1, <1>7 DEF Heartbeat, consumerVars, Base, TypeOK, LoopInv
<1>8. ASSUME NEW c \in Consumers, Abandon(c) PROVE Rest'
    BY <1>1, <1>8 DEF Abandon, Base, TypeOK, LoopInv, PC
<1>9. ASSUME Clock \/ UNCHANGED vars PROVE Rest'
    BY <1>1, <1>9 DEF Clock, consumerVars, vars, Base, TypeOK, LoopInv
<1> HIDE DEF Rest
<1>10. Rest'
    BY <1>2, <1>3, <1>4, <1>5, <1>6, <1>7, <1>8, <1>9 DEF Next, Poll
<1>11. QED
    BY <1>0, <1>10 DEF Rest, Base, TypeOK

\* A consumer stays where it is, goes on to another message, or moves by one
\* of its own four steps, which leave its batch alone.
LEMMA Moves ==
    ASSUME Base, [Next]_vars, NEW d \in Consumers
    PROVE  \/ pc'[d] = pc[d] /\ batch'[d] = batch[d]
           \/ pc'[d] \in {"receive", "check"}
           \/ /\ PreCheck(d) \/ Commit(d) \/ RaisePermanent(d) \/ RecordFailed(d)
              /\ batch'[d] = batch[d] /\ pc[d] # "receive"
<1> DEFINE Move == \/ pc'[d] = pc[d] /\ batch'[d] = batch[d]
                   \/ pc'[d] \in {"receive", "check"}
                   \/ /\ PreCheck(d) \/ Commit(d) \/ RaisePermanent(d) \/ RecordFailed(d)
                      /\ batch'[d] = batch[d] /\ pc[d] # "receive"
<1> USE DEF Base, TypeOK
<1>1. ASSUME NEW id \in Ids, Produce(id) \/ Prune(id) PROVE Move
    BY <1>1 DEF Produce, Prune
<1>2. ASSUME NEW c \in Consumers, ReceiveBatch(c) \/ Heartbeat(c) \/ Abandon(c) PROVE Move
    BY <1>2 DEF ReceiveBatch, Heartbeat, Abandon, consumerVars
<1>3. ASSUME NEW c \in Consumers, PreCheck(c) \/ Commit(c) \/ RaisePermanent(c) \/ RecordFailed(c)
      PROVE  Move
    BY <1>3 DEF PreCheck, Commit, RaisePermanent, RecordFailed, MayReject
<1>4. ASSUME NEW c \in Consumers, RaiseRetryable(c) \/ DeleteMessage(c) PROVE Move
    <2>1. pc[c] # "receive" /\ Advance(c)
        BY <1>4 DEF RaiseRetryable, DeleteMessage, DeletableAt
    <2>2. QED
        BY <2>1, AdvanceEffect
<1>5. ASSUME Clock \/ UNCHANGED vars PROVE Move
    BY <1>5 DEF Clock, consumerVars, vars
<1> HIDE DEF Move
<1>6. Move
    BY <1>1, <1>2, <1>3, <1>4, <1>5 DEF Next, Poll
<1>7. QED
    BY <1>6 DEF Move

\* While its batch is the same, so is its message.
LEMMA SameMessage ==
    ASSUME Base, Grows, NEW d \in Consumers, pc[d] # "receive", batch'[d] = batch[d]
    PROVE  Id(d)' = Id(d)
<1>1. Current(d)' = Current(d)
    BY DEF Current
<1>2. Current(d) \in DOMAIN copies
    BY CurrentInBatch
<1>3. QED
    BY <1>1, <1>2 DEF Id, Grows

\* Only DeleteMessage deletes, and only its own message.
LEMMA WhoDeletes ==
    ASSUME Base, [Next]_vars, NEW n \in DOMAIN copies', place'[n] = "deleted"
    PROVE  /\ n \in DOMAIN copies
           /\ \/ place[n] = "deleted"
              \/ \E c \in Consumers : DeleteMessage(c) /\ n = Current(c)
<1>0. n \in DOMAIN copies /\ n \in Copy
    BY StepKeepsQueue, CopiesAreCopies DEF Grows, Base, TypeOK
<1> DEFINE Kept == place'[n] = place[n] \/ place'[n] # "deleted"
<1> USE DEF Base, TypeOK
<1>1. ASSUME NEW id \in Ids, Produce(id) \/ Prune(id) PROVE Kept
    BY <1>0, <1>1 DEF Produce, Prune, Send, QueueTypeOK, queueVars
<1>2. ASSUME NEW c \in Consumers, ReceiveBatch(c) PROVE Kept
    BY <1>0, <1>2 DEF ReceiveBatch, Receive
<1>3. ASSUME NEW c \in Consumers, DeleteMessage(c) PROVE Kept \/ n = Current(c)
    BY <1>0, <1>3 DEF DeleteMessage, Delete, QueueTypeOK
<1>4. ASSUME NEW c \in Consumers,
             \/ PreCheck(c) \/ Commit(c) \/ RaiseRetryable(c) \/ RaisePermanent(c)
             \/ RecordFailed(c) \/ Heartbeat(c) \/ Abandon(c)
      PROVE  Kept
    BY <1>4 DEF PreCheck, Commit, RaiseRetryable, RaisePermanent, RecordFailed, Heartbeat,
                Extend, Abandon, queueVars
<1>5. ASSUME Clock \/ UNCHANGED vars PROVE Kept
    BY <1>5 DEF Clock, VisibilityPasses, WindowCloses, vars, queueVars
<1> HIDE DEF Kept
<1>6. Kept \/ \E c \in Consumers : DeleteMessage(c) /\ n = Current(c)
    BY <1>1, <1>2, <1>3, <1>4, <1>5 DEF Next, Poll
<1>7. QED
    BY <1>0, <1>6 DEF Kept

-----------------------------------------------------------------------------
(* Nothing is lost.                                                        *)

\* Nothing is deleted without a verdict on record.
VerdictInv ==
    /\ \A id \in Ids : inbox[id] # "none" => verdict[id] # "none"
    /\ \A n \in DOMAIN copies : place[n] = "deleted" => verdict[copies[n]] # "none"
    /\ \A c \in Consumers : pc[c] \in {"committed", "delete"} => verdict[Id(c)] # "none"

\* Inbox and verdict are written together, and a verdict is never withdrawn.
LEMMA InboxHasVerdict ==
    ASSUME Base, [Next]_vars, NEW id \in Ids
    PROVE  /\ verdict[id] # "none" => verdict'[id] # "none"
           /\ inbox'[id] = inbox[id] \/ inbox'[id] = "none" \/ verdict'[id] # "none"
           /\ \A c \in Consumers :
                 (Commit(c) \/ RecordFailed(c)) /\ id = Id(c) => verdict'[id] # "none"
<1> DEFINE Goal == /\ verdict[id] # "none" => verdict'[id] # "none"
                   /\ inbox'[id] = inbox[id] \/ inbox'[id] = "none" \/ verdict'[id] # "none"
<1> USE DEF Base, TypeOK
<1>1. ASSUME NEW k \in Ids, Produce(k) \/ Prune(k) PROVE Goal
    BY <1>1 DEF Produce, Prune
<1>2. ASSUME NEW c \in Consumers, Commit(c) \/ RecordFailed(c) PROVE Goal
    BY <1>2 DEF Commit, RecordFailed
<1>3. ASSUME NEW c \in Consumers,
             \/ ReceiveBatch(c) \/ PreCheck(c) \/ RaiseRetryable(c) \/ RaisePermanent(c)
             \/ DeleteMessage(c) \/ Heartbeat(c) \/ Abandon(c)
      PROVE  Goal
    BY <1>3 DEF ReceiveBatch, PreCheck, RaiseRetryable, RaisePermanent, DeleteMessage,
                Heartbeat, Abandon, consumerVars
<1>4. ASSUME Clock \/ UNCHANGED vars PROVE Goal
    BY <1>4 DEF Clock, consumerVars, vars
<1> HIDE DEF Goal
<1>5. Goal
    BY <1>1, <1>2, <1>3, <1>4 DEF Next, Poll
<1>6. \A c \in Consumers :
         (Commit(c) \/ RecordFailed(c)) /\ id = Id(c) => verdict'[id] # "none"
    BY DEF Commit, RecordFailed
<1>7. QED
    BY <1>5, <1>6 DEF Goal

LEMMA StepKeepsVerdicts == Base /\ VerdictInv /\ [Next]_vars => VerdictInv'
<1> SUFFICES ASSUME Base, VerdictInv, [Next]_vars PROVE VerdictInv'
    OBVIOUS
<1>0. Grows
    BY StepKeepsQueue
<1>1. \A id \in Ids : inbox'[id] # "none" => verdict'[id] # "none"
    BY InboxHasVerdict DEF VerdictInv
<1>2. ASSUME NEW n \in DOMAIN copies', place'[n] = "deleted"
      PROVE  verdict'[copies'[n]] # "none"
    <2>1. /\ n \in DOMAIN copies
          /\ \/ place[n] = "deleted"
             \/ \E c \in Consumers : DeleteMessage(c) /\ n = Current(c)
        BY <1>2, WhoDeletes
    <2>2. copies[n] \in Ids /\ copies'[n] = copies[n]
        BY <1>0, <2>1, CopiesAreCopies DEF Grows, Base, TypeOK
    <2>3. ASSUME NEW c \in Consumers, DeleteMessage(c), n = Current(c)
          PROVE  verdict[copies[n]] # "none"
        BY <2>3 DEF DeleteMessage, DeletableAt, VerdictInv, Id
    <2>4. verdict[copies[n]] # "none"
        BY <2>1, <2>3 DEF VerdictInv
    <2>5. QED
        BY <2>2, <2>4, InboxHasVerdict
<1>3. ASSUME NEW d \in Consumers, pc'[d] \in {"committed", "delete"}
      PROVE  verdict'[Id(d)'] # "none"
    <2>1. \/ pc'[d] = pc[d] /\ batch'[d] = batch[d]
          \/ /\ PreCheck(d) \/ Commit(d) \/ RaisePermanent(d) \/ RecordFailed(d)
             /\ batch'[d] = batch[d] /\ pc[d] # "receive"
        BY <1>3, Moves
    <2>2. pc[d] # "receive" /\ batch'[d] = batch[d]
        BY <1>3, <2>1
    <2>3. Id(d)' = Id(d) /\ Id(d) \in Ids
        BY <1>0, <2>2, SameMessage, CurrentInBatch
    <2>4. CASE pc'[d] = pc[d]
        BY <1>3, <2>3, <2>4, InboxHasVerdict DEF VerdictInv
    <2>5. CASE PreCheck(d)
        <3>1. inbox[Id(d)] = "processed"
            BY <1>3, <2>5 DEF PreCheck, AlreadyProcessed, Base, TypeOK
        <3>2. QED
            BY <3>1, <2>3, InboxHasVerdict DEF VerdictInv
    <2>6. CASE Commit(d) \/ RecordFailed(d)
        BY <2>3, <2>6, InboxHasVerdict
    <2>7. CASE RaisePermanent(d)
        BY <1>3, <2>7 DEF RaisePermanent, Base, TypeOK
    <2>8. QED
        BY <2>1, <2>4, <2>5, <2>6, <2>7
<1>4. QED
    BY <1>1, <1>2, <1>3 DEF VerdictInv

LEMMA InitHolds == Init => Base /\ VerdictInv
<1> SUFFICES ASSUME Init PROVE Base /\ VerdictInv
    OBVIOUS
<1>1. copies = <<>> /\ copies \in Seq(Ids) /\ Len(copies) = 0 /\ DOMAIN copies = {}
    BY EmptySeq, LenProperties DEF Init, QueueInit
<1>2. accepted \in Seq(Ids)
    BY EmptySeq DEF Init
<1>3. Base
    BY <1>1, <1>2, QueueConstants
    DEF Init, QueueInit, Base, TypeOK, QueueTypeOK, QueueInv, LoopInv, Place, PC, InboxStatus
<1>4. VerdictInv
    BY <1>1 DEF Init, VerdictInv
<1>5. QED
    BY <1>3, <1>4

LEMMA VerdictsAlways == Spec => [](Base /\ VerdictInv)
BY InitHolds, StepKeepsBase, StepKeepsVerdicts, PTL DEF Spec

\* A message that was accepted has a verdict, or a copy of it is still in the
\* queue: for any number of consumers, crashes and retries, the loop deletes a
\* message only after the inbox row is written (idempotency.py:288).
THEOREM NothingIsLost == Spec => []NothingLost
<1>1. Base /\ VerdictInv => NothingLost
    BY CopiesAreCopies DEF Base, TypeOK, VerdictInv, NothingLost, Undeleted, CopiesOf
<1>2. QED
    BY <1>1, VerdictsAlways, PTL

\* Every variable keeps its type, for any number of consumers.
THEOREM ConsumerTyped == Spec => []TypeOK
<1>1. Base => TypeOK
    BY DEF Base
<1>2. QED
    BY <1>1, VerdictsAlways, PTL

-----------------------------------------------------------------------------
(* The order of a group.                                                   *)

\* Before the copy a consumer holds, nothing of its group is left.
OrderInv ==
    \A c \in Consumers : \A n \in batch[c] : \A m \in DOMAIN copies :
        m < n /\ GroupOf(m) = GroupOf(n) => place[m] = "deleted"

Accepted == {accepted[i] : i \in DOMAIN accepted}

\* `accepted' has the messages in the order of their first copies.
AcceptedInv ==
    /\ \A n \in DOMAIN copies : copies[n] \in Accepted
    /\ \A i \in DOMAIN accepted : CopiesOf(accepted[i]) # {}
    /\ \A i, j \in DOMAIN accepted : i < j =>
          \A n \in CopiesOf(accepted[j]) : \E m \in CopiesOf(accepted[i]) : m < n

\* A batch only grows by a receive.
LEMMA BatchFromReceive ==
    ASSUME Base, [Next]_vars, NEW d \in Consumers, NEW n \in batch'[d], n \notin batch[d]
    PROVE  ReceiveBatch(d) /\ n \in Selected
<1> USE DEF Base, TypeOK
<1>1. ASSUME NEW id \in Ids, Produce(id) \/ Prune(id) PROVE FALSE
    BY <1>1 DEF Produce, Prune
<1>2. ASSUME NEW c \in Consumers, ReceiveBatch(c) PROVE ReceiveBatch(d) /\ n \in Selected
    BY <1>2 DEF ReceiveBatch
<1>3. ASSUME NEW c \in Consumers, RaiseRetryable(c) \/ DeleteMessage(c) PROVE FALSE
    BY <1>3 DEF RaiseRetryable, DeleteMessage, Advance
<1>4. ASSUME NEW c \in Consumers,
             \/ PreCheck(c) \/ Commit(c) \/ RaisePermanent(c) \/ RecordFailed(c)
             \/ Heartbeat(c) \/ Abandon(c)
      PROVE  FALSE
    BY <1>4 DEF PreCheck, Commit, RaisePermanent, RecordFailed, Heartbeat, Abandon, consumerVars
<1>5. ASSUME Clock \/ UNCHANGED vars PROVE FALSE
    BY <1>5 DEF Clock, consumerVars, vars
<1>6. QED
    BY <1>1, <1>2, <1>3, <1>4, <1>5 DEF Next, Poll

LEMMA StepKeepsOrder == Base /\ OrderInv /\ [Next]_vars => OrderInv'
<1> SUFFICES ASSUME Base, OrderInv, [Next]_vars,
                    NEW d \in Consumers, NEW n \in batch'[d], NEW m \in DOMAIN copies',
                    m < n, GroupOf(m)' = GroupOf(n)'
             PROVE  place'[m] = "deleted"
    BY DEF OrderInv
<1>0. Grows
    BY StepKeepsQueue
<1>1. n \in DOMAIN copies
    BY BatchFromReceive, SelectedAreHeads DEF Base, TypeOK, LoopInv
<1>2. n \in Nat /\ DOMAIN copies' \subseteq Nat
    BY <1>1, CopiesAreCopies, StepKeepsBase DEF Base, TypeOK, QueueTypeOK
<1>3. m \in DOMAIN copies
    BY <1>0, <1>1, <1>2 DEF Grows
<1>4. GroupOf(m) = GroupOf(n)
    BY <1>0, <1>1, <1>3 DEF GroupOf, Grows
<1>5. place[m] = "deleted"
    BY <1>3, <1>4, BatchFromReceive, SelectedAreHeads DEF OrderInv, Base, TypeOK
<1>6. QED
    BY <1>0, <1>3, <1>5 DEF Grows

\* The queue and the order of acceptance only change together.
LEMMA WhoAccepts ==
    ASSUME Base, [Next]_vars
    PROVE  UNCHANGED <<copies, accepted>> \/ \E id \in Ids : Produce(id)
<1> USE DEF Base, TypeOK
<1>1. ASSUME NEW id \in Ids, Prune(id) PROVE UNCHANGED <<copies, accepted>>
    BY <1>1 DEF Prune, queueVars
<1>2. ASSUME NEW c \in Consumers, Poll(c) \/ Heartbeat(c) \/ Abandon(c)
      PROVE  UNCHANGED <<copies, accepted>>
    BY <1>2 DEF Poll, ReceiveBatch, Receive, PreCheck, Commit, RaiseRetryable, RaisePermanent,
                RecordFailed, DeleteMessage, Delete, Heartbeat, Extend, Abandon, queueVars,
                consumerVars
<1>3. ASSUME Clock \/ UNCHANGED vars PROVE UNCHANGED <<copies, accepted>>
    BY <1>3 DEF Clock, VisibilityPasses, WindowCloses, consumerVars, vars, queueVars
<1>4. QED
    BY <1>1, <1>2, <1>3 DEF Next

\* Accepted for the first time: after all there are, and its copy with it.
LEMMA FirstAcceptance ==
    ASSUME Base, AcceptedInv, NEW id \in Ids, Produce(id), CopiesOf(id) = {}
    PROVE  /\ id \notin Accepted /\ id \notin window
           /\ accepted' = Append(accepted, id)
<1>1. id \notin window
    BY DEF Base, QueueInv
<1>2. id \notin Accepted
    BY DEF AcceptedInv, Accepted
<1>3. QED
    BY <1>1, <1>2 DEF Produce

LEMMA ProduceKeepsAccepted ==
    ASSUME Base, AcceptedInv, NEW id \in Ids, Produce(id)
    PROVE  AcceptedInv'
<1> DEFINE new == Len(copies) + 1
           last == Len(accepted) + 1
<1>0. accepted \in Seq(Ids) /\ DOMAIN accepted = 1 .. Len(accepted) /\ Len(accepted) \in Nat
    BY LenProperties DEF Base, TypeOK
<1>1. CASE id \in window
    <2>1. UNCHANGED <<copies, accepted>>
        BY <1>1 DEF Produce, Send, queueVars, Base, QueueInv
    <2>2. QED
        BY <2>1 DEF AcceptedInv, Accepted, CopiesOf
<1>2. CASE id \notin window
    <2>1. /\ new \notin DOMAIN copies
          /\ DOMAIN copies' = DOMAIN copies \cup {new}
          /\ copies'[new] = id /\ \A m \in DOMAIN copies : copies'[m] = copies[m] /\ m < new
        BY <1>2, SendEffect DEF Produce, Base, TypeOK
    <2>2. CASE CopiesOf(id) # {}
        <3>1. accepted' = accepted /\ id \in Accepted
            BY <2>2 DEF Produce, AcceptedInv, CopiesOf
        <3> HIDE DEF new
        <3>2. \A k : CopiesOf(k)' = IF k = id THEN CopiesOf(k) \cup {new} ELSE CopiesOf(k)
            BY <2>1 DEF CopiesOf
        <3>3. \A n \in DOMAIN copies' : copies'[n] \in Accepted'
            BY <2>1, <3>1 DEF AcceptedInv, Accepted
        <3>4. \A i \in DOMAIN accepted' : CopiesOf(accepted[i])' # {}
            BY <3>1, <3>2 DEF AcceptedInv
        <3>5. ASSUME NEW i \in DOMAIN accepted, NEW j \in DOMAIN accepted, i < j,
                     NEW n \in CopiesOf(accepted[j])'
              PROVE  \E m \in CopiesOf(accepted[i])' : m < n
            <4>1. CASE n \in CopiesOf(accepted[j])
                BY <3>1, <3>2, <3>5, <4>1 DEF AcceptedInv
            <4>2. CASE n = new
                <5>1. PICK m : m \in CopiesOf(accepted[i])
                    BY DEF AcceptedInv
                <5>2. m < new /\ m \in CopiesOf(accepted[i])'
                    BY <2>1, <3>1, <3>2, <5>1 DEF CopiesOf
                <5>3. QED
                    BY <4>2, <5>2
            <4>3. QED
                BY <3>1, <3>2, <3>5, <4>1, <4>2
        <3>6. QED
            BY <3>1, <3>3, <3>4, <3>5 DEF AcceptedInv
    <2>3. CASE CopiesOf(id) = {}
        <3>1. /\ id \notin Accepted
              /\ accepted' \in Seq(Ids) /\ Len(accepted') = last /\ accepted'[last] = id
              /\ \A i \in 1 .. Len(accepted) : accepted'[i] = accepted[i]
            BY <1>0, <2>3, FirstAcceptance, AppendProperties
        <3>2. DOMAIN accepted' = 1 .. last /\ last \in Nat
            BY <1>0, <3>1, LenProperties
        <3>3. /\ DOMAIN accepted' = DOMAIN accepted \cup {last}
              /\ \A i \in DOMAIN accepted : i < last
              /\ \A i \in DOMAIN accepted : accepted'[i] = accepted[i] /\ accepted[i] # id
            BY <1>0, <3>1, <3>2 DEF Accepted
        <3> HIDE DEF new, last
        <3>4. /\ \A k : k # id => CopiesOf(k)' = CopiesOf(k)
              /\ CopiesOf(id)' = {new}
            BY <2>1, <2>3 DEF CopiesOf
        <3>5. \A n \in DOMAIN copies' : copies'[n] \in Accepted'
            <4>1. Accepted \subseteq Accepted' /\ id \in Accepted'
                BY <3>1, <3>3 DEF Accepted
            <4>2. QED
                BY <2>1, <4>1 DEF AcceptedInv
        <3>6. \A i \in DOMAIN accepted' : CopiesOf(accepted[i])' # {}
            BY <3>1, <3>3, <3>4 DEF AcceptedInv
        <3>7. ASSUME NEW i \in DOMAIN accepted', NEW j \in DOMAIN accepted', i < j,
                     NEW n \in CopiesOf(accepted[j])'
              PROVE  \E m \in CopiesOf(accepted[i])' : m < n
            <4>1. i \in DOMAIN accepted
                BY <1>0, <3>2, <3>3, <3>7
            <4>2. CASE j \in DOMAIN accepted
                BY <3>3, <3>4, <3>7, <4>1, <4>2 DEF AcceptedInv
            <4>3. CASE j = last
                <5>1. n = new
                    BY <3>1, <3>4, <4>3
                <5>2. PICK m : m \in CopiesOf(accepted[i])
                    BY <4>1 DEF AcceptedInv
                <5>3. m < new /\ m \in CopiesOf(accepted[i])'
                    BY <2>1, <3>3, <3>4, <4>1, <5>2 DEF CopiesOf
                <5>4. QED
                    BY <5>1, <5>3
            <4>4. QED
                BY <3>3, <4>2, <4>3
        <3>8. QED
            BY <3>5, <3>6, <3>7 DEF AcceptedInv
    <2>4. QED
        BY <2>2, <2>3
<1>3. QED
    BY <1>1, <1>2

LEMMA StepKeepsAccepted == Base /\ AcceptedInv /\ [Next]_vars => AcceptedInv'
<1> SUFFICES ASSUME Base, AcceptedInv, [Next]_vars PROVE AcceptedInv'
    OBVIOUS
<1>1. CASE UNCHANGED <<copies, accepted>>
    BY <1>1 DEF AcceptedInv, Accepted, CopiesOf
<1>2. QED
    BY <1>1, WhoAccepts, ProduceKeepsAccepted

-----------------------------------------------------------------------------
(* Once.                                                                   *)

\* What is done stays on record for as long as it may be delivered again, and
\* what the consumer is handling is not done.
OnceInv ==
    /\ \A c \in Consumers : \A n \in batch[c] : place[n] = "inflight"
    /\ \A id \in Ids : verdict[id] = "done" => inbox[id] = "processed" \/ id \in expired
    /\ \A id \in expired : Undeleted(id) = {}
    /\ \A c \in Consumers : pc[c] \in {"handle", "rejected"} => inbox[Id(c)] # "processed"
    /\ \A id \in Ids : commits[id] = IF verdict[id] = "done" THEN 1 ELSE 0

\* The message the consumer is handling is not done yet.
LEMMA NotDoneYet ==
    ASSUME Base, OnceInv, NEW c \in Consumers, pc[c] \in {"handle", "rejected"}
    PROVE  verdict[Id(c)] # "done" /\ commits[Id(c)] = 0
<1>1. /\ Current(c) \in batch[c] /\ Current(c) \in DOMAIN copies /\ Id(c) \in Ids
    BY CurrentInBatch
<1>2. Current(c) \in Undeleted(Id(c))
    BY <1>1 DEF OnceInv, Undeleted, CopiesOf, Id
<1>3. QED
    BY <1>1, <1>2 DEF OnceInv

\* Nobody takes a copy from the one consumer: what it holds stays in flight
\* until it deletes it, and then it holds it no more.
LEMMA BatchInFlight ==
    ASSUME OneConsumer, Base, OnceInv, [Next]_vars,
           NEW d \in Consumers, NEW n \in batch'[d]
    PROVE  place'[n] = "inflight"
<1> USE DEF Base, TypeOK
<1>0. n \in batch[d] => place[n] = "inflight" /\ n \in Copy
    BY CopiesAreCopies DEF OnceInv
<1> DEFINE Goal == place'[n] = "inflight"
<1>1. ASSUME NEW id \in Ids, Produce(id) PROVE Goal
    <2>1. n \in batch[d]
        BY <1>1 DEF Produce
    <2>2. CASE id \in window
        BY <1>0, <1>1, <2>1, <2>2 DEF Produce, Send, queueVars
    <2>3. CASE id \notin window
        <3>1. /\ Len(copies) + 1 \notin DOMAIN copies
              /\ place' = [place EXCEPT ![Len(copies) + 1] = "visible"]
            BY <1>1, <2>3, SendEffect DEF Produce
        <3>2. n \in DOMAIN copies
            BY <2>1 DEF LoopInv
        <3>3. QED
            BY <1>0, <2>1, <3>1, <3>2 DEF QueueTypeOK
    <2>4. QED
        BY <2>2, <2>3
<1>2. ASSUME NEW id \in Ids, Prune(id) PROVE Goal
    BY <1>0, <1>2 DEF Prune, queueVars
<1>3. ASSUME NEW c \in Consumers, ReceiveBatch(c) PROVE Goal
    BY <1>3, SelectedAreHeads, CopiesAreCopies DEF ReceiveBatch, Receive, OneConsumer
<1>4. ASSUME NEW c \in Consumers, DeleteMessage(c) PROVE Goal
    <2>1. c = d /\ pc[c] # "receive" /\ Advance(c) /\ Delete(c, Current(c))
        BY <1>4 DEF OneConsumer, DeleteMessage, DeletableAt
    <2>2. n \in batch[d] /\ n # Current(c)
        BY <2>1 DEF Advance
    <2>3. QED
        BY <1>0, <2>1, <2>2 DEF Delete, QueueTypeOK
<1>5. ASSUME NEW c \in Consumers,
             \/ PreCheck(c) \/ Commit(c) \/ RaiseRetryable(c) \/ RaisePermanent(c)
             \/ RecordFailed(c) \/ Heartbeat(c) \/ Abandon(c)
      PROVE  Goal
    BY <1>0, <1>5 DEF PreCheck, Commit, RaiseRetryable, RaisePermanent, RecordFailed, Heartbeat,
                Extend, Abandon, Advance, queueVars, consumerVars
<1>6. ASSUME Clock \/ UNCHANGED vars PROVE Goal
    BY <1>0, <1>6 DEF Clock, VisibilityPasses, WindowCloses, consumerVars, vars, queueVars
<1> HIDE DEF Goal
<1>7. Goal
    BY <1>1, <1>2, <1>3, <1>4, <1>5, <1>6 DEF Next, Poll
<1>8. QED
    BY <1>7 DEF Goal

\* What a step does to inbox, pruning, commits and verdicts: one of four things.
LEMMA Effects ==
    ASSUME Base, [Next]_vars
    PROVE  \/ UNCHANGED <<inbox, expired, commits, verdict>>
           \/ \E id \in Ids : Prune(id)
           \/ \E c \in Consumers : Commit(c) \/ RecordFailed(c)
<1> DEFINE Same == UNCHANGED <<inbox, expired, commits, verdict>>
<1>1. ASSUME NEW id \in Ids, Produce(id) PROVE Same
    BY <1>1 DEF Produce
<1>2. ASSUME NEW c \in Consumers,
             \/ ReceiveBatch(c) \/ PreCheck(c) \/ RaiseRetryable(c) \/ RaisePermanent(c)
             \/ DeleteMessage(c) \/ Heartbeat(c) \/ Abandon(c)
      PROVE  Same
    BY <1>2 DEF ReceiveBatch, PreCheck, RaiseRetryable, RaisePermanent, DeleteMessage,
                Heartbeat, Abandon, consumerVars
<1>3. ASSUME Clock \/ UNCHANGED vars PROVE Same
    BY <1>3 DEF Clock, consumerVars, vars
<1>4. QED
    BY <1>1, <1>2, <1>3 DEF Next, Poll

LEMMA StepKeepsOnce ==
    ASSUME OneConsumer, Base, OnceInv, [Next]_vars
    PROVE  OnceInv'
<1> USE DEF Base, TypeOK
<1>0. Grows
    BY StepKeepsQueue
<1>1. \A c \in Consumers : \A n \in batch'[c] : place'[n] = "inflight"
    BY BatchInFlight
<1>2. \A id \in Ids : verdict'[id] = "done" => inbox'[id] = "processed" \/ id \in expired'
    <2>1. CASE UNCHANGED <<inbox, expired, commits, verdict>>
        BY <2>1 DEF OnceInv
    <2>2. ASSUME NEW id \in Ids, Prune(id)
          PROVE  \A k \in Ids : verdict'[k] = "done" => inbox'[k] = "processed" \/ k \in expired'
        BY <2>2 DEF Prune, OnceInv
    <2>3. ASSUME NEW c \in Consumers, Commit(c) \/ RecordFailed(c)
          PROVE  \A k \in Ids : verdict'[k] = "done" => inbox'[k] = "processed" \/ k \in expired'
        BY <2>3 DEF Commit, RecordFailed, InboxRow, OnceInv
    <2>4. QED
        BY <2>1, <2>2, <2>3, Effects
<1>3. \A id \in expired' : Undeleted(id)' = {}
    <2>1. ASSUME NEW id \in expired', NEW n \in DOMAIN copies', copies'[n] = id,
                 place'[n] # "deleted"
          PROVE  FALSE
        <3>1. CASE n \notin DOMAIN copies
            <4>1. PICK k \in Ids : Produce(k)
                BY <2>1, <3>1, WhoAccepts
            <4>2. k \notin window
                BY <2>1, <3>1, <4>1 DEF Produce, Send, queueVars
            <4>3. /\ DOMAIN copies' = DOMAIN copies \cup {Len(copies) + 1}
                  /\ copies'[Len(copies) + 1] = k
                BY <4>1, <4>2, SendEffect DEF Produce
            <4>4. k = id /\ k \notin expired /\ expired' = expired
                BY <2>1, <3>1, <4>1, <4>3 DEF Produce
            <4>5. QED
                BY <2>1, <4>4
        <3>2. CASE n \in DOMAIN copies
            <4>1. copies[n] = id /\ place[n] # "deleted"
                BY <1>0, <2>1, <3>2 DEF Grows
            <4>2. n \in Undeleted(id)
                BY <3>2, <4>1 DEF Undeleted, CopiesOf
            <4>3. id \notin expired
                BY <4>2 DEF OnceInv
            <4>4. PICK k \in Ids : Prune(k)
                BY <2>1, <4>3, Effects DEF Commit, RecordFailed
            <4>5. QED
                BY <2>1, <4>2, <4>3, <4>4 DEF Prune
        <3>3. QED
            BY <3>1, <3>2
    <2>2. QED
        BY <2>1 DEF Undeleted, CopiesOf
<1>4. ASSUME NEW d \in Consumers, pc'[d] \in {"handle", "rejected"}
      PROVE  inbox'[Id(d)'] # "processed"
    <2>1. \/ pc'[d] = pc[d] /\ batch'[d] = batch[d]
          \/ /\ PreCheck(d) \/ Commit(d) \/ RaisePermanent(d) \/ RecordFailed(d)
             /\ batch'[d] = batch[d] /\ pc[d] # "receive"
        BY <1>4, Moves
    <2>2. Id(d)' = Id(d) /\ Id(d) \in Ids
        BY <1>0, <1>4, <2>1, SameMessage, CurrentInBatch
    <2>3. CASE pc'[d] = pc[d]
        <3>1. ASSUME NEW c \in Consumers, Commit(c) \/ RecordFailed(c) PROVE FALSE
            BY <1>4, <2>3, <3>1 DEF OneConsumer, Commit, RecordFailed
        <3>2. inbox'[Id(d)] = inbox[Id(d)] \/ inbox'[Id(d)] = "none"
            BY <2>2, <3>1, Effects DEF Prune
        <3>3. QED
            BY <1>4, <2>2, <2>3, <3>2 DEF OnceInv
    <2>4. CASE PreCheck(d)
        BY <1>4, <2>2, <2>4 DEF PreCheck, AlreadyProcessed
    <2>5. CASE RaisePermanent(d)
        BY <2>2, <2>5 DEF RaisePermanent, MayReject, OnceInv
    <2>6. CASE Commit(d) \/ RecordFailed(d)
        BY <1>4, <2>6 DEF Commit, RecordFailed
    <2>7. QED
        BY <2>1, <2>3, <2>4, <2>5, <2>6
<1>5. \A id \in Ids : commits'[id] = IF verdict'[id] = "done" THEN 1 ELSE 0
    <2> DEFINE Counted == \A id \in Ids : commits'[id] = IF verdict'[id] = "done" THEN 1 ELSE 0
    <2>1. ASSUME NEW c \in Consumers, Commit(c) PROVE Counted
        <3>1. commits[Id(c)] = 0
            BY <2>1, NotDoneYet DEF Commit
        <3>2. QED
            BY <2>1, <3>1 DEF Commit, OnceInv
    <2>2. ASSUME NEW c \in Consumers, RecordFailed(c) PROVE Counted
        <3>1. commits[Id(c)] = 0
            BY <2>2, NotDoneYet DEF RecordFailed
        <3>2. QED
            BY <2>2, <3>1 DEF RecordFailed, OnceInv
    <2>3. ASSUME NEW id \in Ids, Prune(id) PROVE Counted
        BY <2>3 DEF Prune, OnceInv
    <2>4. CASE UNCHANGED <<inbox, expired, commits, verdict>>
        BY <2>4 DEF OnceInv
    <2>5. QED
        BY <2>1, <2>2, <2>3, <2>4, Effects
<1>6. QED
    BY <1>1, <1>2, <1>3, <1>4, <1>5 DEF OnceInv

\* All of it.
ConsumerInv == Base /\ VerdictInv /\ OrderInv /\ AcceptedInv /\ OnceInv

LEMMA InitOnce == Init => OrderInv /\ AcceptedInv /\ OnceInv
<1> SUFFICES ASSUME Init PROVE OrderInv /\ AcceptedInv /\ OnceInv
    OBVIOUS
<1>1. DOMAIN copies = {} /\ DOMAIN accepted = {}
    BY DEF Init, QueueInit
<1>2. QED
    BY <1>1 DEF Init, OrderInv, AcceptedInv, OnceInv, Undeleted, CopiesOf

LEMMA ConsumerAlways == ASSUME OneConsumer PROVE Spec => []ConsumerInv
<1>1. Init => ConsumerInv
    BY InitHolds, InitOnce DEF ConsumerInv
<1>2. ConsumerInv /\ [Next]_vars => ConsumerInv'
    BY StepKeepsBase, StepKeepsVerdicts, StepKeepsOrder, StepKeepsAccepted, StepKeepsOnce
    DEF ConsumerInv
<1>3. QED
    BY <1>1, <1>2, PTL DEF Spec

\* With the one consumer a queue has as deployed, the business result of a
\* message is committed at most once, across redeliveries, resends, crashes and
\* pruning (idempotency.py:250: the inbox is asked before the handler runs).
THEOREM EffectsHappenOnce == OneConsumer => (Spec => []EffectOnce)
<1> SUFFICES ASSUME OneConsumer PROVE Spec => []EffectOnce
    OBVIOUS
<1>1. ConsumerInv => EffectOnce
    BY DEF ConsumerInv, OnceInv, EffectOnce
<1>2. QED
    BY <1>1, ConsumerAlways, PTL

-----------------------------------------------------------------------------
(* The loop implements the promise.                                        *)

LEMMA InitImplements == Init => Promise!Init
BY DEF Init, Promise!Init

\* Whatever is handled is the next of its group: all that was accepted before
\* it has a copy before its own, which is deleted and therefore settled.
LEMMA HandlesNextOfGroup ==
    ASSUME ConsumerInv, NEW c \in Consumers, pc[c] # "receive"
    PROVE  Promise!NextOfGroup(Id(c))
<1> USE DEF ConsumerInv, Base, TypeOK
<1>1. /\ Current(c) \in batch[c] /\ Current(c) \in DOMAIN copies /\ Id(c) \in Ids
    BY CurrentInBatch
<1>2. PICK i \in DOMAIN accepted : accepted[i] = Id(c)
    BY <1>1 DEF AcceptedInv, Accepted, Id
<1>3. DOMAIN accepted = 1 .. Len(accepted) /\ Len(accepted) \in Nat
    BY LenProperties
<1>4. ASSUME NEW j \in 1 .. i - 1, Group[accepted[j]] = Group[Id(c)]
      PROVE  verdict[accepted[j]] # "none"
    <2>1. j \in DOMAIN accepted /\ j < i
        BY <1>3
    <2>2. Current(c) \in CopiesOf(accepted[i])
        BY <1>1, <1>2 DEF CopiesOf, Id
    <2>3. PICK m \in CopiesOf(accepted[j]) : m < Current(c)
        BY <2>1, <2>2 DEF AcceptedInv
    <2>4. m \in DOMAIN copies /\ copies[m] = accepted[j] /\ GroupOf(m) = GroupOf(Current(c))
        BY <1>4, <2>3 DEF CopiesOf, GroupOf, Id
    <2>5. place[m] = "deleted"
        BY <1>1, <2>3, <2>4 DEF OrderInv
    <2>6. QED
        BY <2>4, <2>5 DEF VerdictInv
<1>5. QED
    BY <1>2, <1>4 DEF Promise!NextOfGroup

\* Every step of the loop is a step of the promise, or changes neither the
\* order of acceptance nor a verdict.
LEMMA StepImplements ==
    ASSUME ConsumerInv, [Next]_vars
    PROVE  [Promise!Next]_(Promise!vars)
<1> USE DEF ConsumerInv, Base, TypeOK, Promise!vars
<1>1. ASSUME NEW id \in Ids, Produce(id)
      PROVE  Promise!Accept(id) \/ UNCHANGED Promise!vars
    <2>1. CASE CopiesOf(id) = {}
        BY <1>1, <2>1, FirstAcceptance
        DEF Produce, Promise!Accept, Promise!Accepted, Accepted
    <2>2. CASE CopiesOf(id) # {}
        BY <1>1, <2>2 DEF Produce
    <2>3. QED
        BY <2>1, <2>2
<1>2. ASSUME NEW c \in Consumers, Commit(c)
      PROVE  Promise!Settle(Id(c)) \/ Promise!Redeem(Id(c))
    <2>1. verdict[Id(c)] \in {"none", "rejected"} /\ Id(c) \in Ids
        BY <1>2, NotDoneYet, CurrentInBatch DEF Commit
    <2>2. verdict' = [verdict EXCEPT ![Id(c)] = "done"] /\ UNCHANGED accepted
        BY <1>2 DEF Commit
    <2>3. Promise!NextOfGroup(Id(c))
        BY <1>2, HandlesNextOfGroup DEF Commit
    <2>4. QED
        BY <2>1, <2>2, <2>3 DEF Promise!Settle, Promise!Redeem
<1>3. ASSUME NEW c \in Consumers, RecordFailed(c)
      PROVE  Promise!Settle(Id(c)) \/ UNCHANGED Promise!vars
    <2>1. verdict[Id(c)] \in {"none", "rejected"} /\ Id(c) \in Ids
        BY <1>3, NotDoneYet, CurrentInBatch DEF RecordFailed
    <2>2. verdict' = [verdict EXCEPT ![Id(c)] = "rejected"] /\ UNCHANGED accepted
        BY <1>3 DEF RecordFailed
    <2>3. Promise!NextOfGroup(Id(c))
        BY <1>3, HandlesNextOfGroup DEF RecordFailed
    <2>4. QED
        BY <2>1, <2>2, <2>3 DEF Promise!Settle
<1>4. CASE UNCHANGED <<accepted, verdict>>
    BY <1>4
<1>5. CASE ~UNCHANGED accepted
    <2>1. PICK id \in Ids : Produce(id)
        BY <1>5, WhoAccepts
    <2>2. QED
        BY <1>1, <2>1 DEF Promise!Next
<1>6. CASE ~UNCHANGED verdict
    <2>1. PICK c \in Consumers : Commit(c) \/ RecordFailed(c)
        BY <1>6, Effects DEF Prune
    <2>2. Id(c) \in Ids
        BY <2>1, CurrentInBatch DEF Commit, RecordFailed
    <2>3. QED
        BY <1>2, <1>3, <2>1, <2>2 DEF Promise!Next
<1>7. QED
    BY <1>4, <1>5, <1>6

\* With the one consumer of the deployment, queue, inbox and loop together
\* implement InOrderDelivery: verdicts in the order of acceptance, no effect
\* twice, none taken back (ADR-009).
THEOREM ConsumerImplementsPromise == OneConsumer => (Spec => Delivers)
<1> SUFFICES ASSUME OneConsumer PROVE Spec => Delivers
    OBVIOUS
<1>1. Init => Promise!Init
    BY InitImplements
<1>2. ConsumerInv /\ [Next]_vars => [Promise!Next]_(Promise!vars)
    BY StepImplements
<1>3. QED
    BY <1>1, <1>2, ConsumerAlways, PTL DEF Spec, Delivers, Promise!Spec
=============================================================================
