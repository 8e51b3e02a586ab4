------------------------------ MODULE Consumer ------------------------------
(***************************************************************************)
(* The consumer side of app/pipeline/idempotency.py: the inbox table       *)
(* (InboxGuard) and the receive loop (MessageProcessor.poll_once), over    *)
(* the queue of FifoQueue.                                                 *)
(*                                                                         *)
(* A handler commits its business result and the inbox row in ONE          *)
(* transaction (Commit), may do more work after it that can still raise,   *)
(* and the loop deletes the message last.  The handlers of the two workers *)
(* return `handled' or raise; the other outcomes of ProcessingOutcome are  *)
(* produced by no handler in the repository.                               *)
(***************************************************************************)
EXTENDS FifoQueue

CONSTANTS
    MaxRetries,  \* bound of the model: retryable failures, in all
    MaxCrashes   \* bound of the model: batches abandoned half way

VARIABLES
    inbox,    \* inbox[id]: the status of its inbox_messages row, or none
    expired,  \* ids whose inbox row has been pruned
    batch,    \* batch[c]: the copies c has still to work on
    pc,       \* pc[c]: where c is in poll_once
    retries,  \* deliveries that ended in a retryable error
    crashes,
    accepted, \* history: ids in the order the queue first accepted them
    commits,  \* history: how often the business result was committed; 2 is `more'
    verdict   \* history: what the inbox has said last of id

consumerVars == <<inbox, expired, batch, pc, retries, crashes, accepted, commits, verdict>>
vars == <<queueVars, consumerVars>>

PC == {"receive", "check", "handle", "committed", "rejected", "delete"}
InboxStatus == {"none", "processed", "failed"}

Init ==
    /\ QueueInit
    /\ inbox = [id \in Ids |-> "none"]
    /\ expired = {}
    /\ batch = [c \in Consumers |-> {}]
    /\ pc = [c \in Consumers |-> "receive"]
    /\ retries = 0
    /\ crashes = 0
    /\ accepted = <<>>
    /\ commits = [id \in Ids |-> 0]
    /\ verdict = [id \in Ids |-> "none"]

\* The loop works through a batch in the order it was received.
Current(c) == CHOOSE n \in batch[c] : \A k \in batch[c] : n <= k
Id(c) == copies[Current(c)]

\* c is done with its current message.
Advance(c) ==
    /\ batch' = [batch EXCEPT ![c] = @ \ {Current(c)}]
    /\ pc' = [pc EXCEPT ![c] = IF batch[c] = {Current(c)} THEN "receive" ELSE "check"]

-----------------------------------------------------------------------------
\* The dispatcher of a producer sends id: once, or again when it did not
\* learn that the first send succeeded.
Produce(id) ==
    /\ id \notin expired
    /\ Send(id)
    /\ accepted' = IF CopiesOf(id) = {} THEN Append(accepted, id) ELSE accepted
    /\ UNCHANGED <<inbox, expired, batch, pc, retries, crashes, commits, verdict>>

ReceiveBatch(c) ==
    /\ pc[c] = "receive"
    /\ Receive(c)
    /\ batch' = [batch EXCEPT ![c] = Selected]
    /\ pc' = [pc EXCEPT ![c] = IF Selected = {} THEN "receive" ELSE "check"]
    /\ UNCHANGED <<inbox, expired, retries, crashes, accepted, commits, verdict>>

\* already_processed()
AlreadyProcessed_Never(id) == FALSE
AlreadyProcessed(id) == inbox[id] = "processed"

PreCheck(c) ==
    /\ pc[c] = "check"
    /\ pc' = [pc EXCEPT ![c] = IF AlreadyProcessed(Id(c)) THEN "delete" ELSE "handle"]
    /\ UNCHANGED <<queueVars, inbox, expired, batch, retries, crashes, accepted, commits, verdict>>

\* The row record_processed() leaves.
InboxRow == "processed"

\* The handler's transaction: the business result and record_processed().
Commit(c) ==
    /\ pc[c] = "handle"
    /\ inbox' = [inbox EXCEPT ![Id(c)] = InboxRow]
    /\ commits' = [commits EXCEPT ![Id(c)] = IF @ = 0 THEN 1 ELSE 2]
    /\ verdict' = [verdict EXCEPT ![Id(c)] = "done"]
    /\ pc' = [pc EXCEPT ![c] = "committed"]
    /\ UNCHANGED <<queueVars, expired, batch, retries, crashes, accepted>>

\* A retryable or unknown error, before or after the commit: the message is
\* left in flight and its visibility timeout redelivers it.
RaiseRetryable(c) ==
    /\ pc[c] \in {"handle", "committed"}
    /\ retries < MaxRetries
    /\ retries' = retries + 1
    /\ Advance(c)
    /\ UNCHANGED <<queueVars, inbox, expired, crashes, accepted, commits, verdict>>

\* A permanent error: no handler raises one once its transaction committed.
MayReject(p) == p = "handle"

RaisePermanent(c) ==
    /\ MayReject(pc[c])
    /\ pc' = [pc EXCEPT ![c] = "rejected"]
    /\ UNCHANGED <<queueVars, inbox, expired, batch, retries, crashes, accepted, commits, verdict>>

\* record_failed(): an upsert, whatever the row says.
RecordFailed(c) ==
    /\ pc[c] = "rejected"
    /\ inbox' = [inbox EXCEPT ![Id(c)] = "failed"]
    /\ verdict' = [verdict EXCEPT ![Id(c)] = "rejected"]
    /\ pc' = [pc EXCEPT ![c] = "delete"]
    /\ UNCHANGED <<queueVars, expired, batch, retries, crashes, accepted, commits>>

\* The message is deleted last, after the handler has returned.
DeletableAt_Early == {"handle", "committed", "delete"}
DeletableAt == {"committed", "delete"}

DeleteMessage(c) ==
    /\ pc[c] \in DeletableAt
    /\ Delete(c, Current(c))
    /\ Advance(c)
    /\ UNCHANGED <<inbox, expired, retries, crashes, accepted, commits, verdict>>

\* The heartbeat thread extends the message the handler is working on; an
\* extension may fail or its budget run out, so nothing obliges it to act.
Heartbeat(c) ==
    /\ pc[c] \in {"handle", "committed"}
    /\ Extend(c, Current(c))
    /\ UNCHANGED consumerVars

\* The process dies, or the database or the queue raises outside the
\* handler: poll_once ends and what is left of the batch is abandoned.
Abandon(c) ==
    /\ pc[c] # "receive"
    /\ crashes < MaxCrashes
    /\ crashes' = crashes + 1
    /\ batch' = [batch EXCEPT ![c] = {}]
    /\ pc' = [pc EXCEPT ![c] = "receive"]
    /\ UNCHANGED <<queueVars, inbox, expired, retries, accepted, commits, verdict>>

\* InboxGuard.prune() by the cleanup worker.  The model assumes what the
\* configuration intends: a row is kept (RADIO_INBOX_RETENTION_DAYS) for as
\* long as a copy of its message can still be delivered or sent.
Prune(id) ==
    /\ inbox[id] # "none"
    /\ Undeleted(id) = {}
    /\ \A c \in Consumers : \A n \in batch[c] : copies[n] # id
    /\ inbox' = [inbox EXCEPT ![id] = "none"]
    /\ expired' = expired \cup {id}
    /\ UNCHANGED <<queueVars, batch, pc, retries, crashes, accepted, commits, verdict>>

Clock ==
    /\ \/ \E n \in Copy : VisibilityPasses(n)
       \/ \E id \in Ids : WindowCloses(id)
    /\ UNCHANGED consumerVars

Poll(c) ==
    \/ ReceiveBatch(c) \/ PreCheck(c) \/ Commit(c) 
    \/ RaiseRetryable(c) \/ RaisePermanent(c) \/ RecordFailed(c) \/ DeleteMessage(c)

Next ==
    \/ \E id \in Ids : Produce(id) \/ Prune(id)
    \/ \E c \in Consumers : Poll(c) \/ Heartbeat(c) \/ Abandon(c)
    \/ Clock

Spec == Init /\ [][Next]_vars

\* A worker keeps polling and its handlers end; a visibility timeout that is
\* not extended passes.
Fairness ==
    /\ \A c \in Consumers : WF_vars(Poll(c))
    /\ \A n \in Copy :
          WF_vars(VisibilityPasses(n) /\ (\A c \in Consumers : n \notin batch[c])
                  /\ UNCHANGED consumerVars)

FairSpec == Spec /\ Fairness

-----------------------------------------------------------------------------
TypeOK ==
    /\ QueueTypeOK
    /\ inbox \in [Ids -> InboxStatus]
    /\ expired \subseteq Ids
    /\ batch \in [Consumers -> SUBSET Copy]
    /\ pc \in [Consumers -> PC]
    /\ retries \in Nat
    /\ crashes \in Nat
    /\ accepted \in Seq(Ids)
    /\ commits \in [Ids -> 0 .. 2]
    /\ verdict \in [Ids -> {"none", "done", "rejected"}]

(* No message is lost: one that was accepted has a verdict on record, or a   *)
(* copy of it is still in the queue (delete last, idempotency.py:3-11).      *)
NothingLost ==
    \A id \in Ids : CopiesOf(id) # {} => verdict[id] # "none" \/ Undeleted(id) # {}

(* With one consumer the business result of a message is committed at most   *)
(* once, across redeliveries, resends after the deduplication window, and    *)
(* crashes between the commit and the delete (ADR-009).                      *)
EffectOnce == \A id \in Ids : commits[id] <= 1

(* The consumer side implements the promise of InOrderDelivery: seen through *)
(* the order of acceptance and the verdicts, every step of the loop, of the  *)
(* queue and of the pruning is a step of the promise or none.                *)
Promise == INSTANCE InOrderDelivery
           WITH accepted <- accepted, verdict <- verdict
Delivers == Promise!Spec

(* Every copy the queue has taken is eventually worked off, behind whatever  *)
(* failed before it in its group.                                            *)
EventuallyDrained == \A n \in Copy : place[n] = "visible" ~> place[n] = "deleted"
=============================================================================
