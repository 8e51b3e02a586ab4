----------------------------- MODULE LlmAnalysis ----------------------------
(***************************************************************************)
(* app/services/llm_analysis.py: one analysis of a conversation.           *)
(* ConversationAnalyzer.analyze asks FailoverLlmClient, a chain of hosted  *)
(* tiers over the local model, up to 1 + Repairs times, and a              *)
(* CircuitBreaker keeps it from asking at all.  The analyzer lives in one  *)
(* thread of the analysis worker, whose module extends this one; a request *)
(* to one tier is one step, and time passes between two steps.             *)
(*                                                                         *)
(* An answer is "good" (passes _parse_and_validate), "invalid" (a JSON     *)
(* object that does not), or the request "fails".  A hosted tier's answer  *)
(* without JSON rests the tier as a failure does (662-678) and counts as   *)
(* "fails"; the local model's counts as "invalid".  Deadlines on the       *)
(* monotonic clock are kept as the time left to them.                      *)
(***************************************************************************)
EXTENDS Integers

CONSTANTS
    Remotes,    \* number of hosted tiers, best first
    Threshold,  \* RADIO_LLM_CIRCUIT_FAILURE_THRESHOLD
    ResetTime,  \* RADIO_LLM_CIRCUIT_RESET_SECONDS
    RetryTime,  \* RADIO_LLM_REMOTE_RETRY_SECONDS
    Repairs     \* RADIO_LLM_REPAIR_RETRIES

ASSUME LlmAssumption ==
    /\ Remotes \in Nat /\ Repairs \in Nat
    /\ {Threshold, ResetTime, RetryTime} \subseteq Nat \ {0}

VARIABLES
    failures,  \* CircuitBreaker._failures
    openLeft,  \* time until the open breaker half-opens, or NotOpen
    rest,      \* time until a hosted tier may be used again
    call,      \* the analyze call under way
    answers    \* what each tier answers at present

llmVars == <<failures, openLeft, rest, call, answers>>

NotOpen == -1
Hosted == 1 .. Remotes
Local == Remotes + 1
Tiers == 1 .. Local
Answers == {"good", "invalid", "fails"}

\* attempt counts the requests of analyze, tier is where complete() has got
\* to in the chain.
NoCall == [stage |-> "none", attempt |-> 0, tier |-> 0]
Asking(k, t) == [stage |-> "asking", attempt |-> k, tier |-> t]
Finished(result) == [stage |-> result, attempt |-> 0, tier |-> 0]

LlmInit ==
    /\ failures = 0
    /\ openLeft = NotOpen
    /\ rest = [t \in Hosted |-> 0]
    /\ call = NoCall

\* A new process begins with a new analyzer.
LlmRestart ==
    /\ failures' = 0
    /\ openLeft' = NotOpen
    /\ rest' = [t \in Hosted |-> 0]
    /\ call' = NoCall

-----------------------------------------------------------------------------
\* CircuitBreaker.  is_open is a property with an effect: the first look at
\* it after the reset time half-opens the breaker.
IsOpen == openLeft > 0
HalfOpens == openLeft = 0

\* n calls of record_failure in a row.
Failed(n) ==
    /\ failures' = failures + n
    /\ openLeft' = IF failures + n >= Threshold /\ openLeft = NotOpen THEN ResetTime ELSE openLeft

Succeeded == failures' = 0 /\ openLeft' = NotOpen

Looked ==
    IF HalfOpens THEN failures' = Threshold - 1 /\ openLeft' = NotOpen
                 ELSE UNCHANGED <<failures, openLeft>>

-----------------------------------------------------------------------------
\* FailoverLlmClient.
Available(t) == rest[t] = 0

\* health(): no hosted tier is asked, one that is not resting counts as up.
\* The local server may answer its probe and still fail every request.
ClientHealthy(localUp) == (\E t \in Hosted : Available(t)) \/ localUp

\* The tier that complete() asks when it has come to position t of the chain.
Turn(t) == CHOOSE u \in t .. Local :
              /\ u = Local \/ Available(u)
              /\ \A v \in t .. u - 1 : ~Available(v)

-----------------------------------------------------------------------------
\* analyze.
Begin ==
    /\ Looked
    /\ call' = IF IsOpen THEN Finished("fallback") ELSE Asking(1, 1)
    /\ UNCHANGED <<rest, answers>>

\* Attempt k ended without a result, after n failures on the breaker's count;
\* the last attempt counts one more (903).
Retried(k, n) ==
    IF k <= Repairs
    THEN Failed(n) /\ call' = Asking(k + 1, 1)
    ELSE Failed(n + 1) /\ call' = Finished("fallback")

\* One request.
Ask ==
    /\ call.stage = "asking"
    /\ LET u == Turn(call.tier)
       IN \/ /\ answers[u] = "fails" /\ u # Local
             /\ rest' = [rest EXCEPT ![u] = RetryTime]
             /\ call' = Asking(call.attempt, u + 1)
             /\ UNCHANGED <<failures, openLeft>>
          \/ /\ answers[u] = "fails" /\ u = Local
             /\ Retried(call.attempt, 1)
             /\ UNCHANGED rest
          \/ /\ answers[u] = "invalid"
             /\ Retried(call.attempt, 0)
             /\ UNCHANGED rest
          \/ /\ answers[u] = "good"
             /\ Succeeded
             /\ call' = Finished("ready")
             /\ UNCHANGED rest
    /\ UNCHANGED answers

\* Time passes.
Less(n) == IF n > 0 THEN n - 1 ELSE n

Tick ==
    /\ openLeft > 0 \/ \E t \in Hosted : rest[t] > 0
    /\ openLeft' = Less(openLeft)
    /\ rest' = [t \in Hosted |-> Less(rest[t])]
    /\ UNCHANGED <<failures, call, answers>>

\* Providers go down or come back.
Change ==
    /\ answers' \in [Tiers -> Answers] \ {answers}
    /\ UNCHANGED <<failures, openLeft, rest, call>>

-----------------------------------------------------------------------------
\* The count of failures goes over the threshold only within one call, by
\* the failures this call has itself added.
LlmTypeOK ==
    /\ failures \in 0 .. Threshold + Repairs + 1
    /\ openLeft \in {NotOpen} \cup 0 .. ResetTime
    /\ openLeft = NotOpen => failures < Threshold
    /\ rest \in [Hosted -> 0 .. RetryTime]
    /\ \/ call = NoCall
       \/ \E k \in 1 .. Repairs + 1, t \in Tiers : call = Asking(k, t)
       \/ \E r \in {"ready", "fallback"} : call = Finished(r)
    /\ answers \in [Tiers -> Answers]
=============================================================================
