-------------------------- MODULE InOrderDelivery ---------------------------
(***************************************************************************)
(* What the queue, the inbox and the consumer loop promise together        *)
(* (app/pipeline/idempotency.py, module docstring; ADR-009): every message *)
(* the queue has accepted gets one verdict, a group's messages in the      *)
(* order they were accepted, and once a message's effect is committed it   *)
(* is never committed again nor taken back.                                *)
(*                                                                         *)
(* A message that failed permanently may still succeed through a later     *)
(* copy: the inbox ignores `failed' rows.                                  *)
(***************************************************************************)
EXTENDS Naturals, Sequences

CONSTANTS Ids, Group

VARIABLES
    accepted,  \* the ids in the order the queue first accepted them
    verdict    \* verdict[id]: none yet, rejected, or done

vars == <<accepted, verdict>>

Accepted == {accepted[i] : i \in DOMAIN accepted}

Init ==
    /\ accepted = <<>>
    /\ verdict = [id \in Ids |-> "none"]

Accept(id) ==
    /\ id \notin Accepted
    /\ accepted' = Append(accepted, id)
    /\ UNCHANGED verdict

\* id is the first of its group that has no verdict.
NextOfGroup(id) ==
    \E i \in DOMAIN accepted :
        /\ accepted[i] = id
        /\ \A j \in 1 .. i - 1 :
              Group[accepted[j]] = Group[id] => verdict[accepted[j]] # "none"

Settle(id) ==
    /\ verdict[id] = "none"
    /\ NextOfGroup(id)
    /\ verdict' \in {[verdict EXCEPT ![id] = v] : v \in {"rejected", "done"}}
    /\ UNCHANGED accepted

Redeem(id) ==
    /\ verdict[id] = "rejected"
    /\ verdict' = [verdict EXCEPT ![id] = "done"]
    /\ UNCHANGED accepted

Next == \E id \in Ids : Accept(id) \/ Settle(id) \/ Redeem(id)

Spec == Init /\ [][Next]_vars
=============================================================================
