-------------------------- MODULE Analysis_proofs ---------------------------
(***************************************************************************)
(* Proofs about the two analyses of the repository.                        *)
(*                                                                         *)
(* AnalysisWorker and the analyzer it extends: for every set of            *)
(* conversations, number of hosted tiers, page and batch size, number of   *)
(* faults and changes, and setting of the breaker.                         *)
(*                                                                         *)
(* MentionSync and MentionAnalysis: for every set of campaigns, stations,  *)
(* entities and documents, whatever the documents hold, and any number of  *)
(* requests, versions, crashes and views.                                  *)
(***************************************************************************)
EXTENDS AnalysisWorker, MentionAnalysis, SequenceTheorems, WellFoundedInduction, TLAPS

-----------------------------------------------------------------------------
(* The analysis worker: the failover chain. *)

\* A set of numbers that is not empty has a least one.
LEMMA LeastNumber ==
    ASSUME NEW T, T \subseteq Nat, T # {}
    PROVE  \E x \in T : \A y \in T : ~(y < x)
<1>1. PICK x \in T : \A y \in T : <<y, x>> \notin OpToRel(<, Nat)
    BY NatLessThanWellFounded, WFMin
<1>2. \A y \in T : y < x => <<y, x>> \in OpToRel(<, Nat)
    BY DEF OpToRel
<1>3. QED
    BY <1>1, <1>2

\* complete() always comes to a tier: the first from its position on that is
\* not resting, or the local model.
LEMMA TurnIsATier ==
    ASSUME NEW t \in Tiers
    PROVE  /\ Turn(t) \in t .. Local
           /\ Turn(t) \in Tiers
           /\ Turn(t) # Local => Turn(t) \in Hosted /\ Available(Turn(t))
<1> DEFINE T == {u \in t .. Local : u = Local \/ Available(u)}
<1>1. Local \in Nat /\ t \in Nat /\ t <= Local
    BY LlmAssumption DEF Tiers, Local
<1>2. T \subseteq Nat /\ Local \in T
    BY <1>1
<1>3. PICK u \in T : \A v \in T : ~(v < u)
    BY <1>2, LeastNumber
<1>4. \A v \in t .. u - 1 : ~Available(v)
    BY <1>1, <1>3
<1>5. /\ Turn(t) \in t .. Local
      /\ Turn(t) = Local \/ Available(Turn(t))
    BY <1>3, <1>4 DEF Turn
<1>6. QED
    BY <1>1, <1>5, LlmAssumption DEF Tiers, Hosted, Local

-----------------------------------------------------------------------------
(* The analysis worker: the circuit breaker. *)

\* How far the count of failures can have got: a call begins below the
\* threshold, and each attempt adds one.
CountInv ==
    /\ LlmTypeOK
    /\ call.stage = "asking" => failures <= Threshold + call.attempt - 2

LEMMA StagesDiffer ==
    /\ NoCall.stage = "none"
    /\ \A k, t : Asking(k, t).stage = "asking" /\ Asking(k, t).attempt = k /\ Asking(k, t).tier = t
    /\ \A r : Finished(r).stage = r
BY DEF NoCall, Asking, Finished

LEMMA LlmInitCounts == LlmInit /\ answers \in [Tiers -> Answers] => CountInv
BY LlmAssumption, StagesDiffer DEF LlmInit, CountInv, LlmTypeOK, NotOpen, Hosted

LEMMA LlmRestartCounts == CountInv /\ LlmRestart /\ UNCHANGED answers => CountInv'
BY LlmAssumption, StagesDiffer DEF LlmRestart, CountInv, LlmTypeOK, NotOpen, Hosted

\* Half-opening leaves the breaker one failure short of the threshold.
LEMMA LookedCounts ==
    ASSUME CountInv, Looked
    PROVE  /\ failures' \in 0 .. Threshold + Repairs + 1
           /\ openLeft' \in {NotOpen} \cup 0 .. ResetTime
           /\ openLeft' = NotOpen => failures' < Threshold
           /\ failures' <= failures \/ failures' = Threshold - 1
           /\ ~IsOpen => failures' < Threshold
BY LlmAssumption DEF CountInv, LlmTypeOK, Looked, HalfOpens, NotOpen, IsOpen

LEMMA BeginCounts == CountInv /\ Begin => CountInv'
<1> SUFFICES ASSUME CountInv, Begin PROVE CountInv'
    OBVIOUS
<1>1. Looked /\ UNCHANGED <<rest, answers>>
    BY DEF Begin
<1>2. CASE IsOpen
  <2>1. call' = Finished("fallback") /\ call'.stage # "asking"
    BY <1>2, StagesDiffer DEF Begin
  <2>2. QED
    BY <1>1, <2>1, LookedCounts DEF CountInv, LlmTypeOK
<1>3. CASE ~IsOpen
  <2>1. call' = Asking(1, 1) /\ call'.stage = "asking" /\ call'.attempt = 1
    BY <1>3, StagesDiffer DEF Begin
  <2>2. 1 \in 1 .. Repairs + 1 /\ 1 \in Tiers
    BY LlmAssumption DEF Tiers, Local
  <2>3. failures' < Threshold /\ failures' \in Nat
    BY <1>1, <1>3, LookedCounts, LlmAssumption
  <2>4. failures' <= Threshold + call'.attempt - 2
    BY <2>1, <2>3, LlmAssumption
  <2>5. QED
    BY <1>1, <2>1, <2>2, <2>4, LookedCounts DEF CountInv, LlmTypeOK
<1>4. QED
    BY <1>2, <1>3

\* The bookkeeping of an attempt that yields nothing.
LEMMA RetriedCounts ==
    ASSUME CountInv, NEW k \in 1 .. Repairs + 1, NEW t \in Tiers, call = Asking(k, t),
           NEW n \in 0 .. 1, Retried(k, n), UNCHANGED <<rest, answers>>
    PROVE  CountInv'
<1>1. failures \in Nat /\ failures <= Threshold + k - 2 /\ k \in Nat /\ n \in Nat
    BY StagesDiffer DEF CountInv, LlmTypeOK
<1>2. ASSUME NEW m \in Nat, Failed(m), failures + m <= Threshold + Repairs + 1
      PROVE  /\ failures' \in 0 .. Threshold + Repairs + 1
             /\ openLeft' \in {NotOpen} \cup 0 .. ResetTime
             /\ openLeft' = NotOpen => failures' < Threshold
             /\ failures' = failures + m
  BY <1>1, <1>2, LlmAssumption DEF Failed, CountInv, LlmTypeOK, NotOpen
<1>3. CASE k <= Repairs
  <2>1. Failed(n) /\ call' = Asking(k + 1, 1)
    BY <1>3 DEF Retried
  <2>2. failures + n <= Threshold + Repairs + 1
    BY <1>1, <1>3, LlmAssumption
  <2>3. k + 1 \in 1 .. Repairs + 1 /\ 1 \in Tiers
    BY <1>3, LlmAssumption DEF Tiers, Local
  <2>4. call'.stage = "asking" /\ call'.attempt = k + 1
    BY <2>1, StagesDiffer
  <2>5. failures' = failures + n
    BY <1>1, <1>2, <2>1, <2>2
  <2>6. failures' <= Threshold + call'.attempt - 2
    BY <1>1, <2>4, <2>5, LlmAssumption
  <2>7. QED
    BY <1>1, <1>2, <2>1, <2>2, <2>3, <2>6 DEF CountInv, LlmTypeOK
<1>4. CASE ~(k <= Repairs)
  <2>1. Failed(n + 1) /\ call' = Finished("fallback")
    BY <1>4 DEF Retried
  <2>2. failures + (n + 1) <= Threshold + Repairs + 1 /\ n + 1 \in Nat
    BY <1>1, <1>4, LlmAssumption
  <2>3. call'.stage # "asking"
    BY <2>1, StagesDiffer
  <2>4. QED
    BY <1>2, <2>1, <2>2, <2>3 DEF CountInv, LlmTypeOK
<1>5. QED
    BY <1>3, <1>4

LEMMA AskCounts == CountInv /\ Ask => CountInv'
<1> SUFFICES ASSUME CountInv, Ask PROVE CountInv'
    OBVIOUS
<1>1. PICK k \in 1 .. Repairs + 1, t \in Tiers : call = Asking(k, t)
    BY StagesDiffer DEF CountInv, LlmTypeOK, Ask
<1>2. call.attempt = k /\ call.tier = t /\ call.stage = "asking"
    BY <1>1, StagesDiffer
<1> DEFINE u == Turn(t)
<1>3. u \in Tiers /\ (u # Local => u \in Hosted)
    BY TurnIsATier
<1> HIDE DEF u
<1>4. UNCHANGED answers
    BY DEF Ask
<1>5. ASSUME answers[u] = "fails", u # Local, rest' = [rest EXCEPT ![u] = RetryTime],
             call' = Asking(k, u + 1), UNCHANGED <<failures, openLeft>>
      PROVE  CountInv'
  <2>1. u + 1 \in Tiers
    BY <1>3, <1>5, LlmAssumption DEF Tiers, Hosted, Local
  <2>2. rest' \in [Hosted -> 0 .. RetryTime]
    BY <1>3, <1>5, LlmAssumption DEF CountInv, LlmTypeOK
  <2>3. call'.attempt = call.attempt
    BY <1>2, <1>5, StagesDiffer
  <2>4. QED
    BY <1>2, <1>4, <1>5, <2>1, <2>2, <2>3 DEF CountInv, LlmTypeOK
<1>6. ASSUME NEW n \in 0 .. 1, Retried(k, n), UNCHANGED rest
      PROVE  CountInv'
  BY <1>1, <1>4, <1>6, RetriedCounts
<1>7. ASSUME Succeeded, call' = Finished("ready"), UNCHANGED rest
      PROVE  CountInv'
  <2>1. call'.stage # "asking"
    BY <1>7, StagesDiffer
  <2>2. QED
    BY <1>4, <1>7, <2>1, LlmAssumption DEF Succeeded, CountInv, LlmTypeOK, NotOpen
<1>8. QED
    BY <1>2, <1>5, <1>6, <1>7 DEF Ask, u

LEMMA TickCounts == CountInv /\ Tick => CountInv'
<1> SUFFICES ASSUME CountInv, Tick PROVE CountInv'
    OBVIOUS
<1>1. \A n \in Nat, m \in Nat : n <= m => Less(n) \in 0 .. m
    BY DEF Less
<1>2. openLeft' \in {NotOpen} \cup 0 .. ResetTime /\ (openLeft' = NotOpen <=> openLeft = NotOpen)
    BY LlmAssumption DEF Tick, Less, CountInv, LlmTypeOK, NotOpen
<1>3. rest' \in [Hosted -> 0 .. RetryTime]
    BY <1>1, LlmAssumption DEF Tick, CountInv, LlmTypeOK
<1>4. QED
    BY <1>2, <1>3 DEF Tick, CountInv, LlmTypeOK

\* Giving up the call, or keeping everything.
LEMMA QuietCounts ==
    ASSUME CountInv, UNCHANGED <<failures, openLeft, rest>>, answers' \in [Tiers -> Answers],
           call' = call \/ call' = NoCall
    PROVE  CountInv'
BY StagesDiffer DEF CountInv, LlmTypeOK

LEMMA InitCounts == Init => CountInv
BY LlmInitCounts DEF Init

LEMMA NextCounts == CountInv /\ [Next]_vars => CountInv'
<1> SUFFICES ASSUME CountInv, [Next]_vars PROVE CountInv'
    OBVIOUS
<1>0. answers \in [Tiers -> Answers]
    BY DEF CountInv, LlmTypeOK
<1>1. CASE UNCHANGED llmVars
  BY <1>0, <1>1, QuietCounts DEF llmVars
<1>2. CASE UNCHANGED <<failures, openLeft, rest, answers>> /\ call' = NoCall
  BY <1>0, <1>2, QuietCounts
<1>3. CASE Receive \/ HealNext
  BY <1>3, BeginCounts DEF Receive, HealNext
<1>4. CASE Request
  BY <1>4, AskCounts DEF Request
<1>5. CASE Persist \/ Healed \/ NotHealed \/ WriteRaises
  BY <1>2, <1>5 DEF Persist, Healed, NotHealed, WriteRaises
<1>6. CASE Probe
  <2>1. Looked /\ UNCHANGED <<rest, call, answers>>
    BY <1>6 DEF Probe
  <2>2. call.stage = "asking" => failures' <= Threshold + call.attempt - 2
    <3>1. SUFFICES ASSUME call.stage = "asking" PROVE failures' <= Threshold + call.attempt - 2
        OBVIOUS
    <3>2. PICK k \in 1 .. Repairs + 1, t \in Tiers : call = Asking(k, t)
        BY <3>1, StagesDiffer DEF CountInv, LlmTypeOK
    <3>3. call.attempt \in 1 .. Repairs + 1
        BY <3>2, StagesDiffer
    <3>4. failures' \in Int /\ failures \in Int
        BY <2>1, LookedCounts DEF CountInv, LlmTypeOK
    <3>5. QED
        BY <2>1, <3>1, <3>3, <3>4, LookedCounts, LlmAssumption DEF CountInv
  <2>3. QED
    BY <2>1, <2>2, LookedCounts DEF CountInv, LlmTypeOK
<1>7. CASE Crash
  BY <1>7, LlmRestartCounts DEF Crash
<1>8. CASE TimePasses
  BY <1>8, TickCounts DEF TimePasses
<1>9. CASE ProviderChanges
  BY <1>9, QuietCounts DEF ProviderChanges, Change
<1>10. CASE \/ Arrive \/ Lapse \/ DropDuplicate \/ Put \/ RecordKey \/ CaptureFirst \/ Delete
            \/ NothingReceived \/ ReadClips \/ CaptureNext \/ EndClips \/ ReadFallbacks
            \/ EndHeal \/ UNCHANGED vars
  BY <1>1, <1>10 DEF Arrive, Lapse, DropDuplicate, Put, RecordKey, CaptureFirst, Delete,
     NothingReceived, ReadClips, CaptureNext, EndClips, ReadFallbacks, EndHeal, vars
<1>11. QED
  BY <1>3, <1>4, <1>5, <1>6, <1>7, <1>8, <1>9, <1>10 DEF Next, Work

\* CircuitBreaker (llm_analysis.py:374-399) and analyze: a breaker that is not
\* open has counted fewer failures than its threshold, so it cannot be stuck
\* closed over it, and the count never runs away.
THEOREM BreakerCounts == Spec => []LlmTypeOK
<1>1. CountInv => LlmTypeOK
    BY DEF CountInv
<1>2. QED
    BY <1>1, InitCounts, NextCounts, PTL DEF Spec

-----------------------------------------------------------------------------
(* The analysis worker: the export. *)

\* The documents that are put before the worker gets to a label.
Before(label) == CASE label = "transcript" -> {"metadata"}
                   [] label = "analysis" -> {"metadata", "transcript"}
                   [] label = "key" -> {"metadata", "transcript", "analysis"}
                   [] OTHER -> {}

\* An export is whole because publish gets to the key only past every put,
\* and nothing removes a document.
ExportInv ==
    /\ exported \in [Conversations -> SUBSET Documents]
    /\ pc \in {"analyse", "metadata", "transcript", "analysis", "key"} => cur \in Conversations
    /\ cur \in Conversations => Before(pc) \subseteq exported[cur]
    /\ ExportedIsWhole

\* A step that exports nothing, records no key, and goes to a label outside
\* of the publication or to its beginning.
LEMMA QuietExport ==
    ASSUME ExportInv, UNCHANGED <<exported, key>>,
           pc' \notin {"transcript", "analysis", "key"},
           pc' \in {"analyse", "metadata"} => cur' \in Conversations
    PROVE  ExportInv'
BY DEF ExportInv, ExportedIsWhole, Before

LEMMA SameExport ==
    ASSUME ExportInv, UNCHANGED <<exported, key, pc, cur>>
    PROVE  ExportInv'
BY DEF ExportInv, ExportedIsWhole, Before

LEMMA NextExports == ExportInv /\ [Next]_vars => ExportInv'
<1> SUFFICES ASSUME ExportInv, [Next]_vars PROVE ExportInv'
    OBVIOUS
<1>1. CASE \/ Arrive \/ Lapse \/ DropDuplicate \/ Request \/ TimePasses \/ ProviderChanges
           \/ ReadClips \/ ReadFallbacks \/ UNCHANGED vars
  BY <1>1, SameExport DEF Arrive, Lapse, DropDuplicate, Request, TimePasses, ProviderChanges,
     ReadClips, ReadFallbacks, vars, durable, memory
<1>2. CASE Receive
  BY <1>2, QuietExport DEF Receive, Goto, durable
<1>3. CASE Persist
  BY <1>3, QuietExport DEF Persist, Goto, ExportInv
<1>4. CASE Put
  <2>1. pc \in Documents /\ cur \in Conversations /\ UNCHANGED <<key, cur>>
    BY <1>4 DEF Documents, Put, ExportInv
  <2>2. CASE UNCHANGED exported /\ Goto(AfterFailedPut(pc))
    BY <2>1, <2>2, QuietExport DEF AfterFailedPut, Goto
  <2>3. CASE exported' = [exported EXCEPT ![cur] = @ \cup {pc}] /\ Goto(Following(pc))
    <3>1. exported' \in [Conversations -> SUBSET Documents]
      BY <2>1, <2>3 DEF ExportInv
    <3>2. /\ exported'[cur] = exported[cur] \cup {pc}
          /\ \A c \in Conversations : exported[c] \subseteq exported'[c]
      BY <2>1, <2>3 DEF ExportInv
    <3>3. Before(pc') \subseteq exported'[cur]
      BY <2>1, <2>3, <3>2 DEF Documents, Following, Goto, Before, ExportInv
    <3>4. \A c \in key : c \in Conversations => exported'[c] = Documents
      BY <3>1, <3>2 DEF ExportInv, ExportedIsWhole
    <3>5. \A c \in key : c \notin Conversations => exported'[c] = exported[c]
      BY <2>1, <2>3 DEF ExportInv
    <3>6. QED
      BY <2>1, <3>1, <3>3, <3>4, <3>5 DEF ExportInv, ExportedIsWhole
  <2>4. QED
    BY <1>4, <2>2, <2>3 DEF Put
<1>5. CASE RecordKey
  <2>1. pc = "key" /\ cur \in Conversations /\ pc' = "clip" /\ key' = key \cup {cur}
        /\ UNCHANGED <<exported, cur>>
    BY <1>5 DEF RecordKey, Goto, ExportInv
  <2>2. exported[cur] = Documents
    BY <2>1 DEF Documents, ExportInv, Before
  <2>3. Before("clip") = {}
    BY DEF Before
  <2>4. QED
    BY <2>1, <2>2, <2>3 DEF ExportInv, ExportedIsWhole
<1>6. CASE \/ CaptureFirst \/ Delete \/ NothingReceived \/ EndClips \/ Probe \/ HealNext
           \/ Healed \/ NotHealed \/ EndHeal \/ WriteRaises
  BY <1>6, QuietExport DEF CaptureFirst, Delete, NothingReceived, EndClips, Probe, HealNext,
     Healed, NotHealed, EndHeal, WriteRaises, Goto, durable
<1>7. CASE CaptureNext
  <2>1. pc' \in {"clips", "probe"} /\ UNCHANGED <<exported, key>>
    BY <1>7 DEF CaptureNext, Goto
  <2>2. QED
    BY <2>1, QuietExport
<1>8. CASE Crash
  BY <1>8, QuietExport DEF Crash, durable
<1>9. QED
  BY <1>1, <1>2, <1>3, <1>4, <1>5, <1>6, <1>7, <1>8 DEF Next, Work

\* result_writer.py:397-424: whatever put raises and wherever the worker dies,
\* a recorded key stands for all three documents.
THEOREM ExportsAreWhole == Spec => []ExportedIsWhole
<1>1. Init => ExportInv
    BY DEF Init, ExportInv, ExportedIsWhole, Before
<1>2. ExportInv => ExportedIsWhole
    BY DEF ExportInv
<1>3. QED
    BY <1>1, <1>2, NextExports, PTL DEF Spec

-----------------------------------------------------------------------------
(* The analysis worker: a redelivery. *)

\* A mention is there only with its inbox row, and the conversation the worker
\* analyses for a message has none.
AnalysedOnceInv ==
    /\ \A c \in Conversations : status[c] # "none" => c \in inbox
    /\ status = [c \in Conversations |-> status[c]]
    /\ "rows" \in DOMAIN sweep /\ sweep.rows \subseteq inbox
    /\ pc = "analyse" => cur \notin inbox
    /\ pc = "reanalyse" => cur \in inbox

\* What RealAnalysisStays says of one step.
Stays ==
    /\ \A c \in Conversations : status[c] = "ready" => status'[c] = "ready"
    /\ clip \subseteq clip'

\* A step that writes no mention and takes up none.
LEMMA QuietStep ==
    ASSUME AnalysedOnceInv, UNCHANGED <<inbox, status>>, clip \subseteq clip',
           sweep' = sweep \/ ("rows" \in DOMAIN sweep' /\ sweep'.rows \subseteq sweep.rows),
           pc' \in {"analyse", "reanalyse"} => UNCHANGED <<pc, cur>>
    PROVE  AnalysedOnceInv' /\ Stays
BY DEF AnalysedOnceInv, Stays

LEMMA NextStays == AnalysedOnceInv /\ [Next]_vars => AnalysedOnceInv' /\ Stays
<1> SUFFICES ASSUME AnalysedOnceInv, [Next]_vars PROVE AnalysedOnceInv' /\ Stays
    OBVIOUS
<1>1. CASE \/ Arrive \/ Lapse \/ DropDuplicate \/ Request \/ TimePasses \/ ProviderChanges
           \/ UNCHANGED vars
  BY <1>1, QuietStep DEF Arrive, Lapse, DropDuplicate, Request, TimePasses, ProviderChanges,
     vars, durable, memory
<1>2. CASE Receive
  BY <1>2 DEF Receive, Goto, AlreadyProcessed, AnalysedOnceInv, Stays, durable
<1>3. CASE Persist
  <2>1. /\ pc = "analyse" /\ cur \notin inbox
        /\ status' = [status EXCEPT ![cur] = call.stage]
        /\ inbox' = inbox \cup {cur} /\ pc' = "metadata" /\ UNCHANGED <<clip, sweep>>
    BY <1>3 DEF Persist, Acknowledged, Goto, AnalysedOnceInv
  <2>2. \A c \in Conversations : c # cur => status'[c] = status[c]
    BY <2>1 DEF AnalysedOnceInv
  <2>3. \A c \in Conversations : c = cur => status[c] = "none"
    BY <2>1 DEF AnalysedOnceInv
  <2>4. Stays
    BY <2>1, <2>2, <2>3 DEF Stays
  <2>5. status' = [c \in Conversations |-> status'[c]]
    BY <2>1 DEF AnalysedOnceInv
  <2>6. QED
    BY <2>1, <2>2, <2>4, <2>5 DEF AnalysedOnceInv
<1>4. CASE Put
  <2>1. pc' \notin {"analyse", "reanalyse"} /\ UNCHANGED <<inbox, status, clip, sweep>>
    BY <1>4 DEF Documents, Put, Following, AfterFailedPut, Goto
  <2>2. QED
    BY <2>1, QuietStep
<1>5. CASE CaptureFirst
  BY <1>5, QuietStep DEF CaptureFirst, Capture, Goto
<1>6. ASSUME NEW backlog \in SUBSET Mentions, NEW passed, ReadPage(backlog, passed),
             UNCHANGED <<inbox, status, clip, pc, cur>>
      PROVE  AnalysedOnceInv' /\ Stays
  <2>1. Page(backlog, sweep.offset) \subseteq Mentions
    BY DEF Page
  <2>2. "rows" \in DOMAIN sweep' /\ sweep'.rows \subseteq Mentions
    BY <1>6, <2>1 DEF ReadPage, AnalysedOnceInv
  <2>3. Mentions \subseteq inbox
    BY DEF Mentions, AnalysedOnceInv
  <2>4. QED
    BY <1>6, <2>2, <2>3 DEF AnalysedOnceInv, Stays
<1>7. CASE ReadClips
  BY <1>6, <1>7 DEF ReadClips, durable
<1>8. CASE ReadFallbacks
  <2>1. {c \in Mentions : status[c] = "fallback"} \in SUBSET Mentions
    OBVIOUS
  <2>2. QED
    BY <1>6, <1>8, <2>1 DEF ReadFallbacks, durable
<1>9. CASE CaptureNext
  <2>1. clip \subseteq clip' /\ UNCHANGED <<inbox, status, cur>> /\ pc' \in {"clips", "probe"}
    BY <1>9 DEF CaptureNext, Capture, Goto
  <2>2. PICK c \in sweep.rows :
           \/ sweep' = NoSweep
           \/ \E n : sweep' = [sweep EXCEPT !.rows = @ \ {c}, !.done = n]
    BY <1>9 DEF CaptureNext
  <2>3. "rows" \in DOMAIN sweep' /\ sweep'.rows \subseteq sweep.rows
    <3>1. CASE sweep' = NoSweep
      BY <3>1 DEF NoSweep
    <3>2. ASSUME NEW n, sweep' = [sweep EXCEPT !.rows = @ \ {c}, !.done = n]
          PROVE  "rows" \in DOMAIN sweep' /\ sweep'.rows \subseteq sweep.rows
      <4>1. DOMAIN sweep' = DOMAIN sweep
        BY <3>2
      <4>2. sweep'.rows = sweep.rows \ {c}
        BY <3>2 DEF AnalysedOnceInv
      <4>3. QED
        BY <4>1, <4>2 DEF AnalysedOnceInv
    <3>3. QED
      BY <2>2, <3>1, <3>2
  <2>4. QED
    BY <2>1, <2>3, QuietStep
<1>10. CASE HealNext
  <2>1. PICK c \in sweep.rows : cur' = c /\ sweep' = [sweep EXCEPT !.rows = @ \ {c}]
    BY <1>10 DEF HealNext
  <2>2. UNCHANGED <<inbox, status, clip>> /\ pc' = "reanalyse"
    BY <1>10 DEF HealNext, Goto, durable
  <2>3. "rows" \in DOMAIN sweep' /\ sweep'.rows \subseteq sweep.rows
    BY <2>1 DEF AnalysedOnceInv
  <2>4. QED
    BY <2>1, <2>2, <2>3 DEF AnalysedOnceInv, Stays
<1>11. CASE Healed
  <2>1. /\ status' = [status EXCEPT ![cur] = "ready"] /\ cur \in inbox
        /\ pc' \notin {"analyse", "reanalyse"} /\ UNCHANGED <<inbox, clip>>
    BY <1>11 DEF Healed, Goto, AnalysedOnceInv
  <2>2. sweep' = NoSweep \/ sweep' = [sweep EXCEPT !.done = @ + 1]
    BY <1>11 DEF Healed
  <2>3. "rows" \in DOMAIN sweep' /\ sweep'.rows \subseteq sweep.rows
    BY <2>2 DEF NoSweep, AnalysedOnceInv
  <2>4. \A c \in Conversations : c # cur => status'[c] = status[c]
    BY <2>1 DEF AnalysedOnceInv
  <2>5. \A c \in Conversations : c = cur => status'[c] = "ready"
    BY <2>1 DEF AnalysedOnceInv
  <2>6. status' = [c \in Conversations |-> status'[c]]
    BY <2>1 DEF AnalysedOnceInv
  <2>7. Stays
    BY <2>1, <2>4, <2>5 DEF Stays
  <2>8. QED
    BY <2>1, <2>3, <2>4, <2>5, <2>6, <2>7 DEF AnalysedOnceInv
<1>12. CASE \/ RecordKey \/ Delete \/ NothingReceived \/ EndClips \/ Probe
            \/ NotHealed \/ EndHeal \/ WriteRaises \/ Crash
  <2>1. UNCHANGED <<inbox, status, clip>> /\ pc' \notin {"analyse", "reanalyse"}
    BY <1>12 DEF RecordKey, Delete, NothingReceived, EndClips, Probe,
       NotHealed, EndHeal, WriteRaises, Crash, Goto, durable
  <2>2. sweep' = sweep \/ sweep' = NoSweep
    BY <1>12 DEF RecordKey, Delete, NothingReceived, EndClips, Probe,
       NotHealed, EndHeal, WriteRaises, Crash
  <2>3. "rows" \in DOMAIN sweep' /\ sweep'.rows \subseteq sweep.rows
    BY <2>2 DEF NoSweep, AnalysedOnceInv
  <2>4. QED
    BY <2>1, <2>3, QuietStep
<1>13. QED
  BY <1>1, <1>2, <1>3, <1>4, <1>5, <1>7, <1>8, <1>9, <1>10, <1>11, <1>12 DEF Next, Work

\* analysis.py:140-142 with idempotency.py:53-97: a redelivery, or a death
\* between any two writes, never turns a real analysis back into a fallback
\* nor takes a clip away.
THEOREM RealAnalysisIsKept == Spec => RealAnalysisStays
<1>1. Init => AnalysedOnceInv
    BY DEF Init, AnalysedOnceInv, NoSweep
<1>2. AnalysedOnceInv /\ [Next]_vars => [Stays]_vars
    BY NextStays
<1>3. QED
    BY <1>1, <1>2, NextStays, PTL DEF Spec, RealAnalysisStays, Stays

-----------------------------------------------------------------------------
(* The mentions: the store and the pass of the sync. *)

ListedObject == [key : Results, etag : Nat]
KeywordRow == [entity : Entities, born : Nat]
CampaignRow == [status : {"active", "paused"}, stations : SUBSET Stations,
                keywords : SUBSET KeywordRow, since : Starts]

StoreTyped ==
    /\ revision \in Nat
    /\ campaigns \in [Campaigns -> CampaignRow \cup {Absent}]
    /\ listing \in Seq(ListedObject)
    /\ syncObjects \in [Results -> SyncObject \cup {Absent}]
    /\ basis = [r \in Results |-> basis[r]]

IsPass(p) ==
    /\ p = [pc |-> p.pc, bindings |-> p.bindings, objects |-> p.objects,
            revision |-> p.revision, mentions |-> p.mentions]
    /\ p.revision \in Nat
    /\ p.objects \in Seq(ListedObject)
    /\ p.pc \in {"next", "replace"} => p.objects # <<>>
PassTyped == IsPass(pass)

\* A row of campaign_keywords is never inserted again: what a pass or the
\* history knows of is either still there or gone for good.
PastKeyword(k) == k.born \in Nat /\ k.born <= revision
KeywordsPast ==
    /\ \A k \in KeywordRows : PastKeyword(k)
    /\ \A b \in pass.bindings : PastKeyword(b.keyword)
    /\ \A r \in Results : \A b \in basis[r].bindings : PastKeyword(b.keyword)

\* A row some replacement of its document inserted.
Inserted(x) ==
    /\ x.from = "result" /\ x.source \in Results
    /\ syncObjects[x.source] # Absent
    /\ x.born \in Nat /\ x.born <= syncObjects[x.source].replaced
MentionsKnown ==
    \A m \in mentions : m.keyword \in KeywordRows /\ (m.from = "scan" \/ Inserted(m))

SyncInv ==
    /\ StoreTyped /\ PassTyped /\ KeywordsPast /\ MentionsKnown
    /\ MentionsFollowTheRecord

LEMMA SmallestOfTwo ==
    ASSUME NEW a \in Nat, NEW b \in Nat
    PROVE  Min({a, b}) \in Nat /\ Min({a, b}) <= b
<1>1. \E x \in {a, b} : \A y \in {a, b} : x <= y
    OBVIOUS
<1>2. PICK n : n = Min({a, b})
    OBVIOUS
<1>3. n \in {a, b} /\ n <= b
    BY <1>1, <1>2 DEF Min
<1>4. QED
    BY <1>2, <1>3

LEMMA RowsOfADocument ==
    ASSUME NEW r, NEW found, NEW bindings, NEW born, NEW x \in Rows(r, found, bindings, born)
    PROVE  /\ x.from = "result" /\ x.source = r /\ x.born = born
           /\ \E b \in bindings : x.keyword = b.keyword
<1>0. PICK m \in found : \E b \in Materialized(r, m, bindings) : x = Row(r, m, b, born)
    BY DEF Rows
<1>1. PICK b \in Materialized(r, m, bindings) : x = Row(r, m, b, born)
    BY <1>0
<1>2. b \in bindings
    BY <1>1 DEF Materialized, MatchBindings, Candidates
<1>3. QED
    BY <1>1, <1>2 DEF Row

LEMMA BindingsPast ==
    ASSUME KeywordsPast, NEW b \in Bindings
    PROVE  PastKeyword(b.keyword)
BY DEF KeywordsPast, Bindings, BindingsOf, KeywordRows

LEMMA IdlePass == IsPass(Idle) /\ Idle.pc = "idle" /\ Idle.bindings = {}
<1>1. <<>> \in Seq(ListedObject)
    OBVIOUS
<1>2. QED
    BY <1>1 DEF Idle, IsPass

LEMMA GoingOn ==
    ASSUME NEW objects \in Seq(ListedObject), NEW p, IsPass(p)
    PROVE  /\ IsPass(Going(objects, p))
           /\ \A b \in Going(objects, p).bindings : b \in p.bindings
<1>1. CASE objects = <<>>
    BY <1>1, IdlePass DEF Going
<1>2. CASE objects # <<>>
    <2>0. PICK q : q = [p EXCEPT !.pc = "next", !.objects = objects, !.mentions = {}]
        OBVIOUS
    <2>1. /\ q = [pc |-> q.pc, bindings |-> q.bindings, objects |-> q.objects,
                  revision |-> q.revision, mentions |-> q.mentions]
          /\ q.revision = p.revision /\ q.objects = objects /\ q.bindings = p.bindings
        BY <2>0 DEF IsPass
    <2>2. Going(objects, p) = q
        BY <1>2, <2>0 DEF Going
    <2>3. IsPass(q) /\ \A b \in q.bindings : b \in p.bindings
        BY <1>2, <2>1 DEF IsPass
    <2>4. QED
        BY <2>2, <2>3
<1>3. QED
    BY <1>1, <1>2

LEMMA ObjectAtHand ==
    ASSUME PassTyped, pass.pc \in {"next", "replace"}
    PROVE  Object \in ListedObject /\ Tail(pass.objects) \in Seq(ListedObject)
BY HeadTailProperties DEF PassTyped, IsPass, Object

\* A request changes one campaign, and its keywords are kept or new.
Renewed(c, row) ==
    /\ row # Absent => row \in CampaignRow
    /\ row # Absent => \A k \in row.keywords :
            k.born = revision + 1 \/ (campaigns[c] # Absent /\ k \in campaigns[c].keywords)

LEMMA FreshKeywords ==
    ASSUME StoreTyped, NEW entities \in SUBSET Entities
    PROVE  /\ Fresh(entities) \subseteq KeywordRow
           /\ \A k \in Fresh(entities) : k.born = revision + 1
BY DEF Fresh, StoreTyped, KeywordRow

LEMMA RequestsRenew ==
    ASSUME StoreTyped, CampaignRequest
    PROVE  \E c \in Campaigns : \E row \in CampaignRow \cup {Absent} :
               Changed(c, row) /\ Renewed(c, row)
<1>1. PICK c \in Campaigns :
        \/ \E stations \in NonEmpty(Stations), entities \in NonEmpty(Entities),
             since \in Starts : CreateCampaign(c, stations, entities, since)
        \/ \E state \in {"active", "paused", Keep},
             stations \in NonEmpty(Stations) \cup {Keep},
             entities \in NonEmpty(Entities) \cup {Keep} :
              UpdateCampaign(c, state, stations, entities)
        \/ DeleteCampaign(c)
    BY DEF CampaignRequest
<1>2. ASSUME NEW stations \in NonEmpty(Stations), NEW entities \in NonEmpty(Entities),
             NEW since \in Starts, CreateCampaign(c, stations, entities, since)
      PROVE  \E row \in CampaignRow \cup {Absent} : Changed(c, row) /\ Renewed(c, row)
    <2> DEFINE row == [status |-> "active", stations |-> stations,
                       keywords |-> Fresh(entities), since |-> since]
    <2>1. Fresh(entities) \subseteq KeywordRow /\ \A k \in Fresh(entities) : k.born = revision + 1
        BY FreshKeywords DEF NonEmpty
    <2>2. row \in CampaignRow /\ row.keywords = Fresh(entities)
        BY <2>1 DEF CampaignRow, NonEmpty
    <2>3. Changed(c, row)
        BY <1>2 DEF CreateCampaign
    <2>4. QED
        BY <2>1, <2>2, <2>3 DEF Renewed
<1>3. ASSUME NEW state \in {"active", "paused", Keep},
             NEW stations \in NonEmpty(Stations) \cup {Keep},
             NEW entities \in NonEmpty(Entities) \cup {Keep},
             UpdateCampaign(c, state, stations, entities)
      PROVE  \E row \in CampaignRow \cup {Absent} : Changed(c, row) /\ Renewed(c, row)
    <2> DEFINE row == Updated(campaigns[c], state, stations, entities)
    <2>1. campaigns[c] # Absent /\ campaigns[c] \in CampaignRow
        BY <1>3 DEF UpdateCampaign, StoreTyped
    <2>2. Changed(c, row)
        BY <1>3 DEF UpdateCampaign
    <2>3. entities # Keep => /\ Fresh(entities) \subseteq KeywordRow
                             /\ \A k \in Fresh(entities) : k.born = revision + 1
        BY FreshKeywords DEF NonEmpty
    <2>4. row \in CampaignRow
        BY <2>1, <2>3 DEF CampaignRow, NonEmpty, Updated
    <2>5. row.keywords = IF entities = Keep THEN campaigns[c].keywords ELSE Fresh(entities)
        BY <2>1 DEF CampaignRow, Updated
    <2>6. QED
        BY <2>1, <2>2, <2>3, <2>4, <2>5 DEF Renewed
<1>4. ASSUME DeleteCampaign(c)
      PROVE  \E row \in CampaignRow \cup {Absent} : Changed(c, row) /\ Renewed(c, row)
    BY <1>4 DEF DeleteCampaign, Renewed
<1>5. QED
    BY <1>1, <1>2, <1>3, <1>4

LEMMA KeywordsAfterAChange ==
    ASSUME StoreTyped, KeywordsPast,
           NEW c \in Campaigns, NEW row \in CampaignRow \cup {Absent},
           Changed(c, row), Renewed(c, row)
    PROVE  /\ revision' = revision + 1 /\ revision \in Nat
           /\ campaigns' \in [Campaigns -> CampaignRow \cup {Absent}]
           /\ \A k \in KeywordRows' : k \in KeywordRows \/ k.born = revision + 1
<1>1. /\ revision' = revision + 1 /\ revision \in Nat
      /\ campaigns' = [campaigns EXCEPT ![c] = row]
      /\ campaigns \in [Campaigns -> CampaignRow \cup {Absent}]
    BY DEF Changed, StoreTyped
<1>2. ASSUME NEW k \in KeywordRows'
      PROVE  k \in KeywordRows \/ k.born = revision + 1
    <2>1. PICK d \in Campaigns : campaigns'[d] # Absent /\ k \in campaigns'[d].keywords
        BY <1>2 DEF KeywordRows, Live
    <2>2. CASE d = c
        <3>1. campaigns'[d] = row
            BY <1>1, <2>2
        <3>2. k.born = revision + 1 \/ (campaigns[c] # Absent /\ k \in campaigns[c].keywords)
            BY <2>1, <3>1 DEF Renewed
        <3>3. QED
            BY <3>2 DEF KeywordRows, Live
    <2>3. CASE d # c
        <3>1. campaigns'[d] = campaigns[d]
            BY <1>1, <2>3
        <3>2. QED
            BY <2>1, <3>1 DEF KeywordRows, Live
    <2>4. QED
        BY <2>2, <2>3
<1>3. QED
    BY <1>1, <1>2

\* What a keyword of the past and the rows of one are after a request.
LEMMA RequestOutcome ==
    ASSUME StoreTyped, KeywordsPast, CampaignRequest
    PROVE  /\ StoreTyped'
           /\ \A k : PastKeyword(k) => PastKeyword(k)' /\ (k \in KeywordRows' => k \in KeywordRows)
           /\ \A k \in KeywordRows' : PastKeyword(k)'
           /\ mentions' = WithKeywords(mentions, KeywordRows')
           /\ UNCHANGED <<listing, syncObjects, pass, basis, mishaps>>
<1>1. PICK c \in Campaigns, row \in CampaignRow \cup {Absent} :
          Changed(c, row) /\ Renewed(c, row)
    BY RequestsRenew
<1>2. /\ revision' = revision + 1 /\ revision \in Nat
      /\ campaigns' \in [Campaigns -> CampaignRow \cup {Absent}]
      /\ \A k \in KeywordRows' : k \in KeywordRows \/ k.born = revision + 1
    BY <1>1, KeywordsAfterAChange
<1>3. /\ mentions' = WithKeywords(mentions, KeywordRows')
      /\ UNCHANGED <<listing, syncObjects, pass, basis, mishaps>>
    BY <1>1 DEF Changed
<1>4. StoreTyped'
    BY <1>2, <1>3 DEF StoreTyped
<1>5. ASSUME NEW k, PastKeyword(k)
      PROVE  PastKeyword(k)' /\ (k \in KeywordRows' => k \in KeywordRows)
    <2>1. k.born \in Nat /\ k.born <= revision
        BY <1>5 DEF PastKeyword
    <2>2. k.born # revision + 1 /\ k.born <= revision + 1
        BY <2>1, <1>2
    <2>3. QED
        BY <2>1, <2>2, <1>2 DEF PastKeyword
<1>6. ASSUME NEW k \in KeywordRows'
      PROVE  PastKeyword(k)'
    <2>1. k \in KeywordRows \/ k.born = revision + 1
        BY <1>2
    <2>2. CASE k \in KeywordRows
        BY <1>5, <2>2 DEF KeywordsPast
    <2>3. CASE k.born = revision + 1
        BY <1>2, <2>3 DEF PastKeyword
    <2>4. QED
        BY <2>1, <2>2, <2>3
<1>7. QED
    BY <1>3, <1>4, <1>5, <1>6

FollowsExactly ==
    \A r \in Results : \A x :
        x \in MentionsOf(r) <=>
            /\ syncObjects[r] # Absent
            /\ x \in Rows(r, basis[r].found, basis[r].bindings, syncObjects[r].replaced)
            /\ x.keyword \in KeywordRows

LEMMA Exactly == FollowsExactly <=> MentionsFollowTheRecord
<1>1. ASSUME FollowsExactly, NEW r \in Results
      PROVE  /\ syncObjects[r] = Absent => MentionsOf(r) = {}
             /\ syncObjects[r] # Absent =>
                   MentionsOf(r) = WithKeywords(Rows(r, basis[r].found,
                       basis[r].bindings, syncObjects[r].replaced), KeywordRows)
    <2>1. syncObjects[r] = Absent => MentionsOf(r) = {}
        BY <1>1 DEF FollowsExactly
    <2>2. ASSUME syncObjects[r] # Absent
          PROVE  MentionsOf(r) = WithKeywords(Rows(r, basis[r].found,
                       basis[r].bindings, syncObjects[r].replaced), KeywordRows)
        BY <1>1, <2>2 DEF FollowsExactly, WithKeywords
    <2>3. QED
        BY <2>1, <2>2
<1>2. FollowsExactly => MentionsFollowTheRecord
    BY <1>1 DEF MentionsFollowTheRecord
<1>3. MentionsFollowTheRecord => FollowsExactly
    BY DEF FollowsExactly, MentionsFollowTheRecord, WithKeywords
<1>4. QED
    BY <1>2, <1>3

\* A campaign request.
LEMMA SyncAfterRequest ==
    ASSUME SyncInv, CampaignRequest
    PROVE  SyncInv'
<1>1. /\ StoreTyped'
      /\ \A k : PastKeyword(k) => PastKeyword(k)' /\ (k \in KeywordRows' => k \in KeywordRows)
      /\ \A k \in KeywordRows' : PastKeyword(k)'
      /\ mentions' = WithKeywords(mentions, KeywordRows')
      /\ UNCHANGED <<listing, syncObjects, pass, basis, mishaps>>
    BY RequestOutcome DEF SyncInv
<1>2. PassTyped'
    BY <1>1 DEF SyncInv, PassTyped
<1>3. KeywordsPast'
    BY <1>1 DEF SyncInv, KeywordsPast
<1>4. MentionsKnown'
    BY <1>1 DEF SyncInv, MentionsKnown, WithKeywords, Inserted
<1>5. ASSUME NEW r \in Results, NEW x
      PROVE  (x \in MentionsOf(r) <=>
               /\ syncObjects[r] # Absent
               /\ x \in Rows(r, basis[r].found, basis[r].bindings, syncObjects[r].replaced)
               /\ x.keyword \in KeywordRows)'
    <2>1. x \in MentionsOf(r) <=>
               /\ syncObjects[r] # Absent
               /\ x \in Rows(r, basis[r].found, basis[r].bindings, syncObjects[r].replaced)
               /\ x.keyword \in KeywordRows
        BY Exactly DEF SyncInv, FollowsExactly
    <2>2. MentionsOf(r)' = {m \in MentionsOf(r) : m.keyword \in KeywordRows'}
        BY <1>1 DEF MentionsOf, WithKeywords
    <2>3. x \in Rows(r, basis[r].found, basis[r].bindings, syncObjects[r].replaced)
            => PastKeyword(x.keyword)
        BY RowsOfADocument DEF SyncInv, KeywordsPast
    <2>4. x \in Rows(r, basis[r].found, basis[r].bindings, syncObjects[r].replaced)
            /\ x.keyword \in KeywordRows' => x.keyword \in KeywordRows
        BY <1>1, <2>3
    <2>5. (x \in Rows(r, basis[r].found, basis[r].bindings, syncObjects[r].replaced))'
            <=> x \in Rows(r, basis[r].found, basis[r].bindings, syncObjects[r].replaced)
        BY <1>1 DEF Rows, Kept, Row, Materialized, MatchBindings, Candidates
    <2>6. UNCHANGED syncObjects[r]
        BY <1>1
    <2>7. QED
        BY <2>1, <2>2, <2>4, <2>5, <2>6
<1>6. FollowsExactly'
    BY <1>5 DEF FollowsExactly
<1>7. MentionsFollowTheRecord'
    BY <1>6, Exactly, PTL
<1>8. QED
    BY <1>1, <1>2, <1>3, <1>4, <1>7 DEF SyncInv

\* A step that leaves the store and the mentions of the sync alone.
LEMMA SyncUnmoved ==
    ASSUME SyncInv, UNCHANGED <<campaigns, revision, syncObjects, basis, mentions>>,
           listing' \in Seq(ListedObject), PassTyped',
           \A b \in pass'.bindings : PastKeyword(b.keyword)
    PROVE  SyncInv'
<1>1. UNCHANGED KeywordRows
    BY DEF KeywordRows, Live
<1>2. StoreTyped'
    BY DEF SyncInv, StoreTyped
<1>3. KeywordsPast'
    BY <1>1 DEF SyncInv, KeywordsPast, PastKeyword
<1>4. MentionsKnown'
    BY <1>1 DEF SyncInv, MentionsKnown, Inserted
<1>5. ASSUME NEW r \in Results, NEW x
      PROVE  (x \in MentionsOf(r) <=>
               /\ syncObjects[r] # Absent
               /\ x \in Rows(r, basis[r].found, basis[r].bindings, syncObjects[r].replaced)
               /\ x.keyword \in KeywordRows)'
    <2>1. x \in MentionsOf(r) <=>
               /\ syncObjects[r] # Absent
               /\ x \in Rows(r, basis[r].found, basis[r].bindings, syncObjects[r].replaced)
               /\ x.keyword \in KeywordRows
        BY Exactly DEF SyncInv, FollowsExactly
    <2>2. (x \in Rows(r, basis[r].found, basis[r].bindings, syncObjects[r].replaced))'
            <=> x \in Rows(r, basis[r].found, basis[r].bindings, syncObjects[r].replaced)
        BY DEF Rows, Kept, Row, Materialized, MatchBindings, Candidates
    <2>3. UNCHANGED <<syncObjects[r], MentionsOf(r)>>
        BY DEF MentionsOf
    <2>4. QED
        BY <1>1, <2>1, <2>2, <2>3
<1>6. FollowsExactly'
    BY <1>5 DEF FollowsExactly
<1>7. MentionsFollowTheRecord'
    BY <1>6, Exactly, PTL
<1>8. QED
    BY <1>2, <1>3, <1>4, <1>7 DEF SyncInv

LEMMA SyncAfterPut ==
    ASSUME SyncInv, NEW r \in Results, PutDocument(r)
    PROVE  SyncInv'
<1>1. listing \in Seq(ListedObject)
    BY DEF SyncInv, StoreTyped
<1>2. CASE listing' = <<[key |-> r, etag |-> 1]>> \o listing
    <2>1. <<[key |-> r, etag |-> 1]>> \in Seq(ListedObject)
        BY DEF ListedObject
    <2>2. listing' \in Seq(ListedObject)
        BY <1>1, <1>2, <2>1, ConcatProperties
    <2>3. QED
        BY <2>2, SyncUnmoved DEF PutDocument, SyncInv, PassTyped, KeywordsPast
<1>3. ASSUME NEW i \in DOMAIN listing,
             listing' = <<[key |-> r, etag |-> listing[i].etag + 1]>>
                            \o SubSeq(listing, 1, i - 1)
                            \o SubSeq(listing, i + 1, Len(listing))
      PROVE  SyncInv'
    <2>1. i \in 1 .. Len(listing) /\ Len(listing) \in Nat /\ listing[i] \in ListedObject
        BY <1>1
    <2>2. <<[key |-> r, etag |-> listing[i].etag + 1]>> \in Seq(ListedObject)
        BY <2>1 DEF ListedObject
    <2>3. \A k \in 1 .. i - 1 : listing[k] \in ListedObject
        BY <1>1, <2>1
    <2>4. SubSeq(listing, 1, i - 1) \in Seq(ListedObject)
        BY <1>1, <2>1, <2>3, SubSeqProperties
    <2>5. \A k \in i + 1 .. Len(listing) : listing[k] \in ListedObject
        BY <1>1, <2>1
    <2>6. SubSeq(listing, i + 1, Len(listing)) \in Seq(ListedObject)
        BY <1>1, <2>1, <2>5, SubSeqProperties
    <2>7. listing' \in Seq(ListedObject)
        BY <1>3, <2>2, <2>4, <2>6, ConcatProperties
    <2>8. QED
        BY <2>7, SyncUnmoved DEF PutDocument, SyncInv, PassTyped, KeywordsPast
<1>4. QED
    BY <1>2, <1>3 DEF PutDocument

LEMMA SyncAfterRead ==
    ASSUME SyncInv, ReadBindings
    PROVE  SyncInv'
<1> DEFINE p == [Idle EXCEPT !.pc = "list", !.bindings = Bindings]
<1>1. <<>> \in Seq(ListedObject)
    OBVIOUS
<1>2. IsPass(p) /\ p.bindings = Bindings
    <2>1. PICK q : q = p
        OBVIOUS
    <2>2. q = [pc |-> q.pc, bindings |-> q.bindings, objects |-> q.objects,
               revision |-> q.revision, mentions |-> q.mentions]
          /\ q.pc = "list" /\ q.bindings = Bindings /\ q.objects = <<>> /\ q.revision = 0
        BY <2>1 DEF Idle
    <2> HIDE DEF p
    <2>3. QED
        BY <1>1, <2>1, <2>2 DEF IsPass
<1>3. pass' = p /\ UNCHANGED <<campaigns, revision, listing, syncObjects, basis, mentions>>
    BY DEF ReadBindings, stored
<1> HIDE DEF p
<1>4. PassTyped' /\ \A b \in pass'.bindings : PastKeyword(b.keyword)
    BY <1>2, <1>3, BindingsPast DEF PassTyped, SyncInv
<1>5. QED
    BY <1>3, <1>4, SyncUnmoved DEF SyncInv, StoreTyped

LEMMA SyncAfterList ==
    ASSUME SyncInv, ListObjects
    PROVE  SyncInv'
<1> DEFINE p == [pass EXCEPT !.revision = revision]
<1>1. p = [pc |-> p.pc, bindings |-> p.bindings, objects |-> p.objects,
           revision |-> p.revision, mentions |-> p.mentions]
      /\ p.revision = revision /\ p.bindings = pass.bindings /\ p.objects = pass.objects
      /\ p.pc = pass.pc
    BY DEF SyncInv, PassTyped, IsPass
<1>2. IsPass(p) /\ p.bindings = pass.bindings
    BY <1>1 DEF SyncInv, PassTyped, IsPass, StoreTyped
<1>3. /\ pass' = IF pass.bindings = {} THEN Idle ELSE Going(Newest, p)
      /\ UNCHANGED <<campaigns, revision, listing, syncObjects, basis, mentions>>
    BY DEF ListObjects, stored
<1> HIDE DEF p
<1>4. Newest \in Seq(ListedObject)
    <2>1. listing \in Seq(ListedObject) /\ Len(listing) \in Nat
        BY DEF SyncInv, StoreTyped
    <2>2. Min({MaxObjects, Len(listing)}) \in Nat
          /\ Min({MaxObjects, Len(listing)}) <= Len(listing)
        BY <2>1, SyncAssumption, SmallestOfTwo
    <2>3. PICK n \in Nat : n = Min({MaxObjects, Len(listing)}) /\ n <= Len(listing)
        BY <2>2
    <2>4. \A i \in 1 .. n : listing[i] \in ListedObject
        BY <2>1, <2>3
    <2>5. SubSeq(listing, 1, n) \in Seq(ListedObject)
        <3>1. 1 \in Int /\ n \in Int
            BY <2>3
        <3>2. QED
            BY <3>1, <2>4, SubSeqProperties
    <2>6. QED
        BY <2>3, <2>5 DEF Newest
<1>5. PassTyped' /\ \A b \in pass'.bindings : PastKeyword(b.keyword)
    <2>1. CASE pass.bindings = {}
        BY <2>1, <1>3, IdlePass DEF PassTyped
    <2>2. CASE pass.bindings # {}
        BY <2>2, <1>2, <1>3, <1>4, GoingOn DEF PassTyped, SyncInv, KeywordsPast
    <2>3. QED
        BY <2>1, <2>2
<1>6. QED
    BY <1>3, <1>5, SyncUnmoved DEF SyncInv, StoreTyped

LEMMA SyncAfterExamine ==
    ASSUME SyncInv, ExamineObject
    PROVE  SyncInv'
<1>1. pass.pc = "next" /\ UNCHANGED <<campaigns, revision, listing, syncObjects, basis, mentions>>
    BY DEF ExamineObject, stored
<1>2. CASE pass' = Rest
    <2>1. Tail(pass.objects) \in Seq(ListedObject)
        BY <1>1, ObjectAtHand DEF SyncInv
    <2>2. PassTyped' /\ \A b \in pass'.bindings : PastKeyword(b.keyword)
        BY <1>2, <2>1, GoingOn DEF Rest, PassTyped, SyncInv, KeywordsPast
    <2>3. QED
        BY <1>1, <2>2, SyncUnmoved DEF SyncInv, StoreTyped
<1>3. ASSUME NEW found, pass' = [pass EXCEPT !.pc = "replace", !.mentions = found]
      PROVE  SyncInv'
    <2>1. /\ pass' = [pc |-> pass'.pc, bindings |-> pass'.bindings, objects |-> pass'.objects,
                      revision |-> pass'.revision, mentions |-> pass'.mentions]
          /\ pass'.bindings = pass.bindings /\ pass'.objects = pass.objects
          /\ pass'.revision = pass.revision
        BY <1>3 DEF SyncInv, PassTyped, IsPass
    <2>2. PassTyped'
        BY <1>1, <2>1 DEF SyncInv, PassTyped, IsPass
    <2>3. \A b \in pass'.bindings : PastKeyword(b.keyword)
        BY <2>1 DEF SyncInv, KeywordsPast
    <2>4. QED
        BY <1>1, <2>2, <2>3, SyncUnmoved DEF SyncInv, StoreTyped
<1>4. QED
    BY <1>2, <1>3 DEF ExamineObject

LEMMA SyncAfterFailure ==
    ASSUME SyncInv, pass' = Idle,
           UNCHANGED <<campaigns, revision, listing, syncObjects, basis, mentions>>
    PROVE  SyncInv'
<1>1. PassTyped' /\ \A b \in pass'.bindings : PastKeyword(b.keyword)
    BY IdlePass DEF PassTyped
<1>2. QED
    BY <1>1, SyncUnmoved DEF SyncInv, StoreTyped

LEMMA NextGeneration ==
    ASSUME StoreTyped, NEW r \in Results
    PROVE  /\ Generation(r) \in Nat
           /\ syncObjects[r] # Absent => /\ syncObjects[r].replaced \in Nat
                                         /\ syncObjects[r].replaced < Generation(r)
<1>1. syncObjects[r] # Absent => syncObjects[r] \in SyncObject
    BY DEF StoreTyped
<1>2. QED
    BY <1>1 DEF Generation, SyncObject

\* What replace_result_mentions leaves when it does not raise.
LEMMA ReplaceOutcome ==
    ASSUME SyncInv, ReplaceMentions, ~(pass' = Idle /\ UNCHANGED <<stored, mentions>>)
    PROVE  \E r \in Results : \E g \in Nat : \E etag \in Nat :
             /\ g = Generation(r)
             /\ \A x \in Rows(r, pass.mentions, pass.bindings, g) : x.keyword \in KeywordRows
             /\ mentions' = Rows(r, pass.mentions, pass.bindings, g) \cup
                              {m \in mentions : m.from # "result" \/ m.source # r}
             /\ syncObjects' = [syncObjects EXCEPT ![r] =
                       [etag |-> etag, revision |-> pass.revision, replaced |-> g]]
             /\ basis' = [basis EXCEPT ![r] =
                       [bindings |-> pass.bindings, found |-> pass.mentions]]
             /\ pass' = Rest
             /\ UNCHANGED <<campaigns, revision, listing>>
<1>1. Object.key \in Results /\ Object.etag \in Nat
    BY ObjectAtHand DEF SyncInv, ReplaceMentions, ListedObject
<1>2. Generation(Object.key) \in Nat
    BY <1>1, NextGeneration DEF SyncInv
<1>3. PICK r \in Results, g \in Nat, etag \in Nat :
          r = Object.key /\ g = Generation(r) /\ etag = Object.etag
    BY <1>1, <1>2
<1>4. /\ \A x \in Rows(r, pass.mentions, pass.bindings, g) : x.keyword \in KeywordRows
      /\ mentions' = Rows(r, pass.mentions, pass.bindings, g) \cup Others(r)
      /\ syncObjects' = [syncObjects EXCEPT ![r] =
             [etag |-> etag, revision |-> pass.revision, replaced |-> g]]
      /\ basis' = [basis EXCEPT ![r] = [bindings |-> pass.bindings, found |-> pass.mentions]]
      /\ pass' = Rest
      /\ UNCHANGED <<campaigns, revision, listing>>
    BY <1>3 DEF ReplaceMentions
<1>5. QED
    BY <1>3, <1>4 DEF Others

LEMMA SyncAfterReplace ==
    ASSUME SyncInv, ReplaceMentions
    PROVE  SyncInv'
<1>1. CASE pass' = Idle /\ UNCHANGED <<stored, mentions>>
    BY <1>1, SyncAfterFailure DEF stored
<1>2. ASSUME ~(pass' = Idle /\ UNCHANGED <<stored, mentions>>)
      PROVE  SyncInv'
    <2>1. PICK r \in Results, g \in Nat, etag \in Nat :
             /\ g = Generation(r)
             /\ \A x \in Rows(r, pass.mentions, pass.bindings, g) : x.keyword \in KeywordRows
             /\ mentions' = Rows(r, pass.mentions, pass.bindings, g) \cup
                              {m \in mentions : m.from # "result" \/ m.source # r}
             /\ syncObjects' = [syncObjects EXCEPT ![r] =
                       [etag |-> etag, revision |-> pass.revision, replaced |-> g]]
             /\ basis' = [basis EXCEPT ![r] =
                       [bindings |-> pass.bindings, found |-> pass.mentions]]
             /\ pass' = Rest
             /\ UNCHANGED <<campaigns, revision, listing>>
        BY <1>2, ReplaceOutcome
    <2>2. PICK row : row = [etag |-> etag, revision |-> pass.revision, replaced |-> g]
        OBVIOUS
    <2>3. PICK bs, found, based : /\ bs = pass.bindings /\ found = pass.mentions
                                  /\ based = [bindings |-> bs, found |-> found]
        OBVIOUS
    <2>4. row \in SyncObject /\ row # Absent /\ row.replaced = g
        BY <2>2, SyncAssumption DEF SyncInv, PassTyped, IsPass, SyncObject
    <2>5. /\ syncObjects'[r] = row
          /\ \A q \in Results : q # r => UNCHANGED <<syncObjects[q], basis[q]>>
          /\ basis'[r] = based /\ basis' = [q \in Results |-> basis'[q]]
          /\ syncObjects' \in [Results -> SyncObject \cup {Absent}]
        BY <2>1, <2>2, <2>3, <2>4 DEF SyncInv, StoreTyped
    <2>6. UNCHANGED KeywordRows
        BY <2>1 DEF KeywordRows, Live
    <2>7. /\ \A x \in Rows(r, found, bs, g) : x.keyword \in KeywordRows
          /\ mentions' = Rows(r, found, bs, g) \cup
                              {m \in mentions : m.from # "result" \/ m.source # r}
        BY <2>1, <2>3
    <2>8. \A x \in Rows(r, found, bs, g) :
              x.from = "result" /\ x.source = r /\ x.born = g
        BY RowsOfADocument
    <2>9. StoreTyped'
        BY <2>1, <2>5 DEF SyncInv, StoreTyped
    <2>10. PassTyped' /\ \A b \in pass'.bindings : b \in bs
        <3>1. Tail(pass.objects) \in Seq(ListedObject)
            BY ObjectAtHand DEF SyncInv, ReplaceMentions
        <3>2. QED
            BY <2>1, <2>3, <3>1, GoingOn DEF Rest, PassTyped, SyncInv
    <2>11. KeywordsPast'
        <3>1. /\ \A k \in KeywordRows : PastKeyword(k)'
              /\ \A b \in bs : PastKeyword(b.keyword)'
              /\ \A q \in Results : \A b \in basis[q].bindings : PastKeyword(b.keyword)'
            BY <2>1, <2>3 DEF SyncInv, KeywordsPast, PastKeyword
        <3>2. \A q \in Results : \A b \in basis'[q].bindings : PastKeyword(b.keyword)'
            BY <2>3, <2>5, <3>1
        <3>3. QED
            BY <2>6, <2>10, <3>1, <3>2 DEF KeywordsPast
    <2>12. MentionsKnown'
        <3>1. SUFFICES ASSUME NEW m \in mentions'
                       PROVE  m.keyword \in KeywordRows /\ (m.from = "scan" \/ Inserted(m)')
            BY <2>6 DEF MentionsKnown
        <3>2. CASE m \in Rows(r, found, bs, g)
            BY <2>4, <2>5, <2>7, <2>8, <3>2 DEF Inserted
        <3>3. CASE m \in mentions /\ (m.from # "result" \/ m.source # r)
            <4>1. m.keyword \in KeywordRows /\ (m.from = "scan" \/ Inserted(m))
                BY <3>3 DEF SyncInv, MentionsKnown
            <4>2. Inserted(m) => Inserted(m)'
                BY <2>5, <3>3 DEF Inserted
            <4>3. QED
                BY <4>1, <4>2
        <3>4. QED
            BY <2>7, <3>2, <3>3
    <2>13. ASSUME NEW q \in Results, NEW x
           PROVE  (x \in MentionsOf(q) <=>
                    /\ syncObjects[q] # Absent
                    /\ x \in Rows(q, basis[q].found, basis[q].bindings, syncObjects[q].replaced)
                    /\ x.keyword \in KeywordRows)'
        <3>1. x \in MentionsOf(q) <=>
                    /\ syncObjects[q] # Absent
                    /\ x \in Rows(q, basis[q].found, basis[q].bindings, syncObjects[q].replaced)
                    /\ x.keyword \in KeywordRows
            BY Exactly DEF SyncInv, FollowsExactly
        <3>2. ASSUME q = r
              PROVE  (x \in MentionsOf(q) <=>
                    /\ syncObjects[q] # Absent
                    /\ x \in Rows(q, basis[q].found, basis[q].bindings, syncObjects[q].replaced)
                    /\ x.keyword \in KeywordRows)'
            <4>1. x \in MentionsOf(q)' <=> x \in Rows(r, found, bs, g)
                BY <2>7, <2>8, <3>2 DEF MentionsOf
            <4>2. (basis[q].found)' = found /\ (basis[q].bindings)' = bs
                  /\ (syncObjects[q].replaced)' = g /\ (syncObjects[q])' # Absent
                BY <2>3, <2>4, <2>5, <3>2
            <4>3. (x \in Rows(q, basis[q].found, basis[q].bindings, syncObjects[q].replaced))'
                    <=> x \in Rows(r, found, bs, g)
                BY <3>2, <4>2 DEF Rows, Kept, Row, Materialized, MatchBindings, Candidates
            <4>4. QED
                BY <2>6, <2>7, <4>1, <4>2, <4>3
        <3>3. ASSUME q # r
              PROVE  (x \in MentionsOf(q) <=>
                    /\ syncObjects[q] # Absent
                    /\ x \in Rows(q, basis[q].found, basis[q].bindings, syncObjects[q].replaced)
                    /\ x.keyword \in KeywordRows)'
            <4>1. x \in MentionsOf(q)' <=> x \in MentionsOf(q)
                BY <2>7, <2>8, <3>3 DEF MentionsOf
            <4>2. UNCHANGED <<syncObjects[q], basis[q]>>
                BY <2>5, <3>3
            <4>3. (x \in Rows(q, basis[q].found, basis[q].bindings, syncObjects[q].replaced))'
                    <=> x \in Rows(q, basis[q].found, basis[q].bindings, syncObjects[q].replaced)
                BY <4>2 DEF Rows, Kept, Row, Materialized, MatchBindings, Candidates
            <4>4. QED
                BY <2>6, <3>1, <4>1, <4>2, <4>3
        <3>4. QED
            BY <3>2, <3>3
    <2>14. FollowsExactly'
        BY <2>13 DEF FollowsExactly
    <2>15. MentionsFollowTheRecord'
        BY <2>14, Exactly, PTL
    <2>16. QED
        BY <2>9, <2>10, <2>11, <2>12, <2>15 DEF SyncInv
<1>3. QED
    BY <1>1, <1>2

LEMMA SyncInitially == SyncInit => SyncInv
<1> SUFFICES ASSUME SyncInit
             PROVE  SyncInv
    OBVIOUS
<1>1. KeywordRows = {}
    BY DEF SyncInit, KeywordRows, Live
<1>2. <<>> \in Seq(ListedObject)
    OBVIOUS
<1>3. StoreTyped
    BY <1>2 DEF SyncInit, StoreTyped
<1>4. PassTyped /\ KeywordsPast
    BY <1>1, IdlePass DEF SyncInit, PassTyped, KeywordsPast
<1>5. MentionsKnown /\ MentionsFollowTheRecord
    BY DEF SyncInit, MentionsKnown, MentionsFollowTheRecord, MentionsOf
<1>6. QED
    BY <1>3, <1>4, <1>5 DEF SyncInv

LEMMA SyncStep == SyncInv /\ SyncNext => SyncInv'
<1> SUFFICES ASSUME SyncInv, SyncNext
             PROVE  SyncInv'
    OBVIOUS
<1>1. CASE PassFails
    BY <1>1, SyncAfterFailure DEF PassFails, stored
<1>2. QED
    BY <1>1, SyncAfterRequest, SyncAfterPut, SyncAfterRead, SyncAfterList, SyncAfterExamine,
       SyncAfterReplace DEF SyncNext, PassStep

-----------------------------------------------------------------------------
(* The mentions: the scan and the analyses. *)

\* A row of mentions that is gone is gone for good, for its keyword is, or
\* a later replacement has come over it.
Bygone(x) ==
    /\ PastKeyword(x.keyword)
    /\ x \in mentions \/ x.keyword \notin KeywordRows \/ Inserted(x)

AnalysisOfMentions == DOMAIN analysis \subseteq mentions

\* A job that is about to say ready has put the document, unless its mention
\* is gone.
IsJob(j) ==
    /\ j = [pc |-> j.pc, row |-> j.row, how |-> j.how]
    /\ j.pc # "idle" => Bygone(j.row)
    /\ j.pc = "ready" /\ j.row \in mentions => j.row \in cache
JobsKnown == job = [p \in Processes |-> job[p]] /\ \A p \in Processes : IsJob(job[p])

WorkerShaped ==
    worker = [pc |-> worker.pc, bindings |-> worker.bindings, revision |-> worker.revision,
              group |-> worker.group, left |-> worker.left, todo |-> worker.todo,
              cur |-> worker.cur]

\* The scan asks the model about a pair no scan has found yet.
Looking ==
    worker.pc = "look" =>
        \A m \in mentions : m.from = "scan" =>
            ~(m.keyword = worker.cur.keyword /\ m.source = worker.group)

MentionInv ==
    /\ SyncInv /\ AnalysisOfMentions /\ JobsKnown /\ WorkerShaped /\ Looking
    /\ ScanOnce /\ ReadyHasDocument

LEMMA MentionsAreBygone ==
    ASSUME SyncInv, NEW m \in mentions
    PROVE  Bygone(m)
BY DEF SyncInv, MentionsKnown, KeywordsPast, Bygone

\* No step of the sync and no request brings a row back, and none adds a row
\* of the scan.
LEMMA NeverAgain ==
    ASSUME SyncInv, SyncNext
    PROVE  /\ \A x : Bygone(x) => Bygone(x)' /\ (x \in mentions' => x \in mentions)
           /\ \A m \in mentions' : m.from = "scan" => m \in mentions
<1>1. CASE CampaignRequest
    <2>1. /\ \A k : PastKeyword(k) => PastKeyword(k)' /\ (k \in KeywordRows' => k \in KeywordRows)
          /\ mentions' = WithKeywords(mentions, KeywordRows')
          /\ UNCHANGED syncObjects
        BY <1>1, RequestOutcome DEF SyncInv
    <2>2. \A x : Inserted(x) => Inserted(x)'
        BY <2>1 DEF Inserted
    <2>3. QED
        BY <2>1, <2>2 DEF Bygone, WithKeywords
<1>2. CASE UNCHANGED <<campaigns, revision, syncObjects, mentions>>
    <2>1. UNCHANGED KeywordRows
        BY <1>2 DEF KeywordRows, Live
    <2>2. \A x : /\ Inserted(x) => Inserted(x)'
                 /\ PastKeyword(x.keyword) => PastKeyword(x.keyword)'
        BY <1>2 DEF Inserted, PastKeyword
    <2>3. QED
        BY <1>2, <2>1, <2>2 DEF Bygone
<1>3. CASE ReplaceMentions /\ ~(pass' = Idle /\ UNCHANGED <<stored, mentions>>)
    <2>1. PICK r \in Results, g \in Nat, etag \in Nat :
             /\ g = Generation(r)
             /\ \A x \in Rows(r, pass.mentions, pass.bindings, g) : x.keyword \in KeywordRows
             /\ mentions' = Rows(r, pass.mentions, pass.bindings, g) \cup
                              {m \in mentions : m.from # "result" \/ m.source # r}
             /\ syncObjects' = [syncObjects EXCEPT ![r] =
                       [etag |-> etag, revision |-> pass.revision, replaced |-> g]]
             /\ UNCHANGED <<campaigns, revision, listing>>
        BY <1>3, ReplaceOutcome
    <2>2. PICK rows : rows = Rows(r, pass.mentions, pass.bindings, g)
        OBVIOUS
    <2>3. \A x \in rows : /\ x.from = "result" /\ x.source = r /\ x.born = g
                          /\ x.keyword \in KeywordRows
        BY <2>1, <2>2, RowsOfADocument
    <2>4. mentions' = rows \cup {m \in mentions : m.from # "result" \/ m.source # r}
        BY <2>1, <2>2
    <2>5. UNCHANGED KeywordRows
        BY <2>1 DEF KeywordRows, Live
    <2>6. PICK row : row = [etag |-> etag, revision |-> pass.revision, replaced |-> g]
        OBVIOUS
    <2>7. row \in SyncObject /\ row # Absent /\ row.replaced = g
        BY <2>6, SyncAssumption DEF SyncInv, PassTyped, IsPass, SyncObject
    <2>8. /\ syncObjects'[r] = row
          /\ \A q \in Results : q # r => UNCHANGED syncObjects[q]
        BY <2>1, <2>6 DEF SyncInv, StoreTyped
    <2>9. syncObjects[r] # Absent =>
              syncObjects[r].replaced \in Nat /\ syncObjects[r].replaced < g
        BY <2>1, NextGeneration DEF SyncInv
    <2>10. ASSUME NEW x, Inserted(x)
           PROVE  Inserted(x)' /\ x \notin rows
        <3>1. CASE x.source = r
            BY <2>3, <2>7, <2>8, <2>9, <2>10, <3>1 DEF Inserted
        <3>2. CASE x.source # r
            BY <2>3, <2>8, <2>10, <3>2 DEF Inserted
        <3>3. QED
            BY <3>1, <3>2
    <2>11. ASSUME NEW x, Bygone(x)
           PROVE  Bygone(x)' /\ (x \in mentions' => x \in mentions)
        <3>1. PastKeyword(x.keyword) /\ PastKeyword(x.keyword)'
            BY <2>1, <2>11 DEF Bygone, PastKeyword
        <3>2. CASE x \in mentions
            <4>1. x.from = "scan" \/ Inserted(x)
                BY <3>2 DEF SyncInv, MentionsKnown
            <4>2. x \in mentions' \/ Inserted(x)'
                BY <2>4, <2>10, <3>2, <4>1
            <4>3. QED
                BY <3>1, <3>2, <4>2 DEF Bygone
        <3>3. CASE x.keyword \notin KeywordRows
            BY <2>3, <2>4, <2>5, <3>1, <3>3 DEF Bygone
        <3>4. CASE Inserted(x)
            BY <2>4, <2>10, <3>1, <3>4 DEF Bygone
        <3>5. QED
            BY <2>11, <3>2, <3>3, <3>4 DEF Bygone
    <2>12. QED
        BY <2>3, <2>4, <2>11
<1>4. QED
    BY <1>1, <1>2, <1>3 DEF SyncNext, PutDocument, PassStep, ReadBindings, ListObjects,
                            ExamineObject, ReplaceMentions, PassFails, stored

\* What a step of the worker or of a job leaves to the sync.
LEMMA SyncStays ==
    ASSUME SyncInv, UNCHANGED <<stored, mentions, pass>>
    PROVE  /\ SyncInv'
           /\ UNCHANGED KeywordRows
           /\ \A x : Bygone(x) => Bygone(x)'
<1>1. UNCHANGED <<campaigns, revision, listing, syncObjects, basis, mentions, pass>>
    BY DEF stored
<1>2. /\ PassTyped' /\ listing' \in Seq(ListedObject)
      /\ \A b \in pass'.bindings : PastKeyword(b.keyword)
    BY <1>1 DEF SyncInv, PassTyped, StoreTyped, KeywordsPast
<1>3. SyncInv'
    BY <1>1, <1>2, SyncUnmoved
<1>4. UNCHANGED KeywordRows
    BY <1>1 DEF KeywordRows, Live
<1>5. \A x : (Inserted(x) => Inserted(x)') /\ (PastKeyword(x.keyword) => PastKeyword(x.keyword)')
    BY <1>1 DEF Inserted, PastKeyword
<1>6. QED
    BY <1>1, <1>3, <1>4, <1>5 DEF Bygone

\* A step of the sync or a request, with what it cascades to.
LEMMA MentionsAfterSync ==
    ASSUME MentionInv, SyncNext, Cascade
    PROVE  MentionInv'
<1>1. SyncInv'
    BY SyncStep DEF MentionInv
<1>2. /\ \A x : Bygone(x) => Bygone(x)' /\ (x \in mentions' => x \in mentions)
      /\ \A m \in mentions' : m.from = "scan" => m \in mentions
    BY NeverAgain DEF MentionInv
<1>3. /\ DOMAIN analysis' = DOMAIN analysis \cap mentions'
      /\ \A m \in DOMAIN analysis' : analysis'[m] = analysis[m]
      /\ cache' = cache \cap mentions' /\ UNCHANGED <<worker, job>>
    BY DEF Cascade, Restrict
<1>4. AnalysisOfMentions'
    BY <1>3 DEF AnalysisOfMentions
<1>5. JobsKnown'
    <2>1. ASSUME NEW p \in Processes
          PROVE  IsJob(job[p])'
        <3>1. PICK j : j = job[p]
            OBVIOUS
        <3>2. IsJob(j)
            BY <3>1 DEF MentionInv, JobsKnown
        <3>3. IsJob(j)'
            BY <1>2, <1>3, <3>2 DEF IsJob
        <3>4. QED
            BY <1>3, <3>1, <3>3
    <2>2. QED
        BY <1>3, <2>1 DEF MentionInv, JobsKnown
<1>6. WorkerShaped' /\ Looking'
    BY <1>2, <1>3 DEF MentionInv, WorkerShaped, Looking
<1>7. ScanOnce'
    BY <1>2 DEF MentionInv, ScanOnce
<1>8. ReadyHasDocument'
    <2>1. SUFFICES ASSUME NEW m \in mentions', m \in DOMAIN analysis', analysis'[m].status = "ready"
                   PROVE  m \in cache'
        BY DEF ReadyHasDocument, Status
    <2>2. m \in mentions /\ m \in DOMAIN analysis /\ analysis[m].status = "ready"
        BY <1>3, <2>1 DEF MentionInv, AnalysisOfMentions
    <2>3. QED
        BY <1>3, <2>2 DEF MentionInv, ReadyHasDocument, Status
<1>9. QED
    BY <1>1, <1>4, <1>5, <1>6, <1>7, <1>8 DEF MentionInv

\* A step of the scan that adds no mention.
LEMMA ScanMoves ==
    ASSUME MentionInv, UNCHANGED <<stored, mentions, pass, analysis, cache, job>>,
           WorkerShaped', worker'.pc # "look" \/ Looking'
    PROVE  MentionInv'
<1>1. SyncInv' /\ \A x : Bygone(x) => Bygone(x)'
    BY SyncStays DEF MentionInv
<1>2. JobsKnown'
    <2>1. ASSUME NEW p \in Processes
          PROVE  IsJob(job[p])'
        <3>1. PICK j : j = job[p]
            OBVIOUS
        <3>2. IsJob(j)
            BY <3>1 DEF MentionInv, JobsKnown
        <3>3. IsJob(j)'
            BY <1>1, <3>2 DEF IsJob
        <3>4. QED
            BY <3>1, <3>3
    <2>2. QED
        BY <2>1 DEF MentionInv, JobsKnown
<1>3. Looking'
    BY DEF Looking
<1>4. AnalysisOfMentions' /\ ScanOnce' /\ ReadyHasDocument'
    BY DEF MentionInv, AnalysisOfMentions, ScanOnce, ReadyHasDocument, Status
<1>5. QED
    BY <1>1, <1>2, <1>3, <1>4 DEF MentionInv

IsWorker(w) ==
    w = [pc |-> w.pc, bindings |-> w.bindings, revision |-> w.revision, group |-> w.group,
         left |-> w.left, todo |-> w.todo, cur |-> w.cur]

LEMMA WorkerAtRest ==
    /\ IsWorker(Scan) /\ Scan.pc = "scan"
    /\ IsWorker(ToAnalysis) /\ ToAnalysis.pc = "list"
    /\ IsWorker([Scan EXCEPT !.pc = "down"]) /\ [Scan EXCEPT !.pc = "down"].pc = "down"
<1>1. IsWorker(Scan) /\ Scan.pc = "scan"
    BY DEF Scan, IsWorker
<1>2. ASSUME NEW label
      PROVE  IsWorker([Scan EXCEPT !.pc = label]) /\ [Scan EXCEPT !.pc = label].pc = label
    <2>1. PICK w : w = Scan /\ IsWorker(w)
        BY <1>1
    <2>2. PICK v : v = [w EXCEPT !.pc = label]
        OBVIOUS
    <2>3. IsWorker(v) /\ v.pc = label
        BY <2>1, <2>2 DEF IsWorker
    <2>4. QED
        BY <2>1, <2>2, <2>3
<1>3. QED
    BY <1>1, <1>2 DEF ToAnalysis

LEMMA RecordMoves ==
    ASSUME MentionInv, NEW k, NEW state, Record(k, state)
    PROVE  WorkerShaped' /\ worker'.pc # "look"
<1>1. CASE worker' = ToAnalysis
    BY <1>1, WorkerAtRest DEF WorkerShaped, IsWorker
<1>2. ASSUME worker' = [worker EXCEPT !.cur = NoMention,
                         !.pc = IF @ = "unreadable" THEN @ ELSE "group",
                         !.todo = {b \in @ : b.keyword # k}]
      PROVE  WorkerShaped' /\ worker'.pc # "look"
    <2>1. PICK label, todo : /\ label = IF worker.pc = "unreadable" THEN worker.pc ELSE "group"
                          /\ todo = {b \in worker.todo : b.keyword # k}
        OBVIOUS
    <2>2. worker' = [worker EXCEPT !.cur = NoMention, !.pc = label, !.todo = todo]
        BY <1>2, <2>1 DEF MentionInv, WorkerShaped
    <2>3. WorkerShaped' /\ worker'.pc = label
        BY <2>2 DEF MentionInv, WorkerShaped
    <2>4. QED
        BY <2>1, <2>3
<1>3. QED
    BY <1>1, <1>2 DEF Record

LEMMA NextGroupMoves ==
    ASSUME MentionInv, NEW label, label # "look", worker' = NextGroup(label)
    PROVE  WorkerShaped' /\ worker'.pc # "look"
<1>1. PICK group, left, todo :
          worker' = [worker EXCEPT !.pc = label, !.group = group, !.left = left, !.todo = todo]
    <2>1. PICK group, left, todo : /\ group = Min(Waiting) /\ left = worker.left - 1
                                   /\ todo = Pending(Min(Waiting))
        OBVIOUS
    <2>2. worker' = [worker EXCEPT !.pc = label, !.group = group, !.left = left, !.todo = todo]
        BY <2>1 DEF NextGroup, MentionInv, WorkerShaped
    <2>3. QED
        BY <2>2
<1>2. QED
    BY <1>1 DEF MentionInv, WorkerShaped

LEMMA MentionsAfterScan ==
    ASSUME MentionInv, ScanStep \/ GroupFails, ~AddMention
    PROVE  MentionInv'
<1>1. CASE ScanBindings
    <2>1. CASE worker' = ToAnalysis
        BY <1>1, <2>1, WorkerAtRest, ScanMoves DEF ScanBindings, syncVars, WorkerShaped, IsWorker
    <2>2. ASSUME worker' = [Scan EXCEPT !.pc = "revision", !.bindings = Bindings]
          PROVE  MentionInv'
        <3>1. PICK w, bs : w = Scan /\ bs = Bindings /\ IsWorker(w)
            BY WorkerAtRest
        <3>2. worker' = [w EXCEPT !.pc = "revision", !.bindings = bs]
            BY <2>2, <3>1
        <3>3. WorkerShaped' /\ worker'.pc # "look"
            BY <3>1, <3>2 DEF WorkerShaped, IsWorker
        <3>4. QED
            BY <1>1, <3>3, ScanMoves DEF ScanBindings, syncVars
    <2>3. QED
        BY <1>1, <2>1, <2>2 DEF ScanBindings
<1>2. CASE ScanRevision
    <2>1. worker' = [worker EXCEPT !.pc = "group", !.revision = revision]
        BY <1>2 DEF ScanRevision
    <2>2. WorkerShaped' /\ worker'.pc # "look"
        BY <2>1 DEF MentionInv, WorkerShaped
    <2>3. QED
        BY <1>2, <2>2, ScanMoves DEF ScanRevision, syncVars
<1>3. CASE ScanGroup
    <2>1. WorkerShaped' /\ worker'.pc # "look"
        BY <1>3, NextGroupMoves, WorkerAtRest DEF ScanGroup, WorkerShaped, IsWorker
    <2>2. QED
        BY <1>3, <2>1, ScanMoves DEF ScanGroup, syncVars
<1>4. CASE GroupFails
    <2>1. WorkerShaped' /\ worker'.pc # "look"
        BY <1>4, NextGroupMoves DEF GroupFails
    <2>2. QED
        BY <1>4, <2>1, ScanMoves DEF GroupFails
<1>5. CASE NotFound
    <2>1. WorkerShaped' /\ worker'.pc # "look"
        BY <1>5, RecordMoves DEF NotFound
    <2>2. QED
        BY <1>5, <2>1, ScanMoves DEF NotFound, syncVars
<1>6. CASE RecordMatch
    <2>1. WorkerShaped' /\ worker'.pc # "look"
        BY <1>6, RecordMoves DEF RecordMatch
    <2>2. QED
        BY <1>6, <2>1, ScanMoves DEF RecordMatch, syncVars
<1>7. ASSUME NEW b \in worker.todo, RecordUnreadable(b) \/ NothingToFind(b)
      PROVE  MentionInv'
    <2>1. WorkerShaped' /\ worker'.pc # "look"
        BY <1>7, RecordMoves DEF RecordUnreadable, NothingToFind
    <2>2. QED
        BY <1>7, <2>1, ScanMoves DEF RecordUnreadable, NothingToFind, syncVars
<1>8. ASSUME NEW b \in worker.todo, Look(b)
      PROVE  MentionInv'
    <2>1. /\ worker' = [worker EXCEPT !.pc = "look", !.cur = b]
          /\ ~AlreadyFound(b.keyword, worker.group)
          /\ UNCHANGED <<stored, mentions, pass, analysis, cache, job>>
        BY <1>8 DEF Look, syncVars
    <2>2. WorkerShaped' /\ worker'.cur = b /\ worker'.group = worker.group
        BY <2>1 DEF MentionInv, WorkerShaped
    <2>3. Looking'
        BY <2>1, <2>2 DEF Looking, AlreadyFound
    <2>4. QED
        BY <2>1, <2>2, <2>3, ScanMoves
<1>9. QED
    BY <1>1, <1>2, <1>3, <1>4, <1>5, <1>6, <1>7, <1>8 DEF ScanStep

\* The scan adds its row; the records of the documents are as they were.
LEMMA MentionsAfterAdd ==
    ASSUME MentionInv, AddMention
    PROVE  MentionInv'
<1>1. CASE worker.cur.keyword \notin KeywordRows
    <2>1. worker' = ToAnalysis /\ UNCHANGED <<stored, mentions, pass, analysis, cache, job>>
        BY <1>1 DEF AddMention
    <2>2. QED
        BY <2>1, WorkerAtRest, ScanMoves DEF WorkerShaped, IsWorker
<1>2. CASE worker.cur.keyword \in KeywordRows
    <2>1. PICK text : mentions' = mentions \cup {ScanRow(worker.cur, text)}
        BY <1>2 DEF AddMention
    <2>2. PICK row : row = ScanRow(worker.cur, text)
        OBVIOUS
    <2>3. /\ row.from = "scan" /\ row.keyword = worker.cur.keyword /\ row.source = worker.group
          /\ row.keyword \in KeywordRows
        BY <1>2, <2>2 DEF ScanRow
    <2>4. /\ mentions' = mentions \cup {row}
          /\ worker.pc = "look" /\ worker' = [worker EXCEPT !.pc = "matched"]
          /\ UNCHANGED <<campaigns, revision, listing, syncObjects, basis, pass,
                         analysis, cache, job>>
        BY <1>2, <2>1, <2>2 DEF AddMention, stored
    <2>5. WorkerShaped' /\ worker'.pc = "matched"
        BY <2>4 DEF MentionInv, WorkerShaped
    <2>6. UNCHANGED KeywordRows
        BY <2>4 DEF KeywordRows, Live
    <2>7. \A x : /\ Inserted(x) => Inserted(x)'
                 /\ PastKeyword(x.keyword) => PastKeyword(x.keyword)'
        BY <2>4 DEF Inserted, PastKeyword
    <2>8. StoreTyped' /\ PassTyped' /\ KeywordsPast'
        BY <2>4, <2>6 DEF MentionInv, SyncInv, StoreTyped, PassTyped, KeywordsPast, PastKeyword
    <2>9. MentionsKnown'
        BY <2>3, <2>4, <2>6, <2>7 DEF MentionInv, SyncInv, MentionsKnown
    <2>10. ASSUME NEW r \in Results, NEW x
           PROVE  (x \in MentionsOf(r) <=>
                    /\ syncObjects[r] # Absent
                    /\ x \in Rows(r, basis[r].found, basis[r].bindings, syncObjects[r].replaced)
                    /\ x.keyword \in KeywordRows)'
        <3>1. x \in MentionsOf(r) <=>
                    /\ syncObjects[r] # Absent
                    /\ x \in Rows(r, basis[r].found, basis[r].bindings, syncObjects[r].replaced)
                    /\ x.keyword \in KeywordRows
            BY Exactly DEF MentionInv, SyncInv, FollowsExactly
        <3>2. x \in MentionsOf(r)' <=> x \in MentionsOf(r)
            BY <2>3, <2>4 DEF MentionsOf
        <3>3. UNCHANGED <<syncObjects[r], basis[r]>>
            BY <2>4
        <3>4. (x \in Rows(r, basis[r].found, basis[r].bindings, syncObjects[r].replaced))'
                <=> x \in Rows(r, basis[r].found, basis[r].bindings, syncObjects[r].replaced)
            BY <3>3 DEF Rows, Kept, Row, Materialized, MatchBindings, Candidates
        <3>5. QED
            BY <2>6, <3>1, <3>2, <3>3, <3>4
    <2>11. FollowsExactly'
        BY <2>10 DEF FollowsExactly
    <2>12. MentionsFollowTheRecord'
        BY <2>11, Exactly, PTL
    <2>13. ASSUME NEW x, Bygone(x)
           PROVE  Bygone(x)' /\ (x \in mentions' => x \in mentions)
        <3>1. x = row => x \in mentions
            BY <2>3, <2>13 DEF Bygone, Inserted
        <3>2. QED
            BY <2>4, <2>6, <2>7, <2>13, <3>1 DEF Bygone
    <2>14. JobsKnown'
        <3>1. ASSUME NEW p \in Processes
              PROVE  IsJob(job[p])'
            <4>1. PICK j : j = job[p]
                OBVIOUS
            <4>2. IsJob(j)
                BY <4>1 DEF MentionInv, JobsKnown
            <4>3. IsJob(j)'
                BY <2>4, <2>13, <4>2 DEF IsJob
            <4>4. QED
                BY <2>4, <4>1, <4>3
        <3>2. QED
            BY <2>4, <3>1 DEF MentionInv, JobsKnown
    <2>15. ScanOnce'
        <3>1. \A m \in mentions : m.from = "scan" =>
                  ~(m.keyword = row.keyword /\ m.source = row.source)
            BY <2>3, <2>4 DEF MentionInv, Looking
        <3>2. \A m, other \in {x \in mentions : x.from = "scan"} :
                  m.keyword = other.keyword /\ m.source = other.source => m = other
            BY DEF MentionInv, ScanOnce
        <3>3. QED
            BY <2>4, <3>1, <3>2 DEF ScanOnce
    <2>16. AnalysisOfMentions' /\ ReadyHasDocument'
        BY <2>4 DEF MentionInv, AnalysisOfMentions, ReadyHasDocument, Status
    <2>17. Looking'
        BY <2>5 DEF Looking
    <2>18. QED
        BY <2>5, <2>8, <2>9, <2>12, <2>14, <2>15, <2>16, <2>17 DEF MentionInv, SyncInv
<1>3. QED
    BY <1>1, <1>2

\* One process goes on to another job, and its analysis with it.
LEMMA JobMoves ==
    ASSUME MentionInv, NEW p \in Processes, NEW j, IsJob(j),
           UNCHANGED <<stored, mentions, pass>>, cache \subseteq cache',
           job' = [job EXCEPT ![p] = j],
           WorkerShaped', worker'.pc # "look" \/ UNCHANGED worker,
           AnalysisOfMentions', ReadyHasDocument'
    PROVE  MentionInv'
<1>1. SyncInv' /\ \A x : Bygone(x) => Bygone(x)'
    BY SyncStays DEF MentionInv
<1>2. \A i : IsJob(i) => IsJob(i)'
    BY <1>1 DEF IsJob
<1>3. JobsKnown'
    <2>1. ASSUME NEW q \in Processes
          PROVE  IsJob(job[q])'
        <3>1. PICK i : i = job'[q]
            OBVIOUS
        <3>2. i = IF q = p THEN j ELSE job[q]
            BY <3>1 DEF MentionInv, JobsKnown
        <3>3. IsJob(i)
            BY <3>2 DEF MentionInv, JobsKnown
        <3>4. IsJob(i)'
            BY <1>2, <3>3
        <3>5. QED
            BY <3>1, <3>4
    <2>2. job' = [q \in Processes |-> job'[q]]
        BY DEF MentionInv, JobsKnown
    <2>3. QED
        BY <2>1, <2>2 DEF JobsKnown
<1>4. Looking' /\ ScanOnce'
    BY DEF MentionInv, Looking, ScanOnce
<1>5. QED
    BY <1>1, <1>3, <1>4 DEF MentionInv

LEMMA NoJobIsAJob == IsJob(NoJob)
BY DEF NoJob, IsJob

LEMMA FetchedIsAJob ==
    ASSUME SyncInv, NEW m, NEW how
    PROVE  IsJob(Fetched(m, how))
<1>1. m \in mentions => Bygone(m)
    BY MentionsAreBygone
<1>2. PICK ready, mark : /\ ready = [pc |-> "ready", row |-> m, how |-> how]
                         /\ mark = [pc |-> "mark", row |-> m, how |-> how]
    OBVIOUS
<1>3. m \in mentions => IsJob(mark) /\ (m \in cache => IsJob(ready))
    BY <1>1, <1>2 DEF IsJob
<1>4. Fetched(m, how) = NoJob \/ (m \in mentions /\ Fetched(m, how) = mark)
      \/ (m \in mentions /\ m \in cache /\ Fetched(m, how) = ready)
    BY <1>2 DEF Fetched
<1>5. QED
    BY <1>3, <1>4, NoJobIsAJob

\* set_analysis_status: ready is written for a mention whose document is put.
LEMMA StatusMoves ==
    ASSUME MentionInv, NEW p \in Processes, NEW state, NEW attempts, NEW then, IsJob(then),
           state = "ready" => (job[p].row \in mentions => job[p].row \in cache),
           SetStatus(p, state, attempts, then),
           UNCHANGED <<syncVars, cache, scanned>>
    PROVE  MentionInv'
<1>1. UNCHANGED <<stored, mentions, pass, cache>>
    BY DEF syncVars
<1>2. PICK m : m = job[p].row
    OBVIOUS
<1>3. CASE m \in mentions
    <2>1. PICK row : row = [status |-> state, attempts |-> Attempts(m) + attempts]
        OBVIOUS
    <2>2. /\ analysis' = [x \in DOMAIN analysis \cup {m} |-> IF x = m THEN row ELSE analysis[x]]
          /\ job' = [job EXCEPT ![p] = then]
          /\ UNCHANGED worker
        BY <1>2, <1>3, <2>1 DEF SetStatus
    <2>3. row.status = state
        BY <2>1
    <2>4. AnalysisOfMentions'
        BY <1>1, <1>3, <2>2 DEF MentionInv, AnalysisOfMentions
    <2>5. ReadyHasDocument'
        <3>1. SUFFICES ASSUME NEW x \in mentions', x \in DOMAIN analysis',
                              analysis'[x].status = "ready"
                       PROVE  x \in cache'
            BY DEF ReadyHasDocument, Status
        <3>2. CASE x = m
            BY <1>1, <1>2, <1>3, <2>2, <2>3, <3>1, <3>2
        <3>3. CASE x # m
            BY <1>1, <2>2, <3>1, <3>3 DEF MentionInv, ReadyHasDocument, Status
        <3>4. QED
            BY <3>2, <3>3
    <2>6. WorkerShaped'
        BY <2>2 DEF MentionInv, WorkerShaped
    <2>7. QED
        BY <1>1, <2>2, <2>4, <2>5, <2>6, JobMoves
<1>4. CASE m \notin mentions
    <2>1. job' = [job EXCEPT ![p] = NoJob] /\ UNCHANGED analysis
          /\ (worker' = [Scan EXCEPT !.pc = "down"] \/ UNCHANGED worker)
        BY <1>2, <1>4 DEF SetStatus, Raises
    <2>2. WorkerShaped' /\ (worker'.pc # "look" \/ UNCHANGED worker)
        BY <2>1, WorkerAtRest DEF MentionInv, WorkerShaped, IsWorker
    <2>3. AnalysisOfMentions' /\ ReadyHasDocument'
        BY <1>1, <2>1 DEF MentionInv, AnalysisOfMentions, ReadyHasDocument, Status
    <2>4. QED
        BY <1>1, <2>1, <2>2, <2>3, NoJobIsAJob, JobMoves
<1>5. QED
    BY <1>3, <1>4

LEMMA MentionsAfterAnalysis ==
    ASSUME MentionInv, NEW p \in Processes, AnalysisStep(p)
    PROVE  MentionInv'
<1>1. IsJob(job[p]) /\ UNCHANGED <<stored, mentions, pass>>
    BY DEF MentionInv, JobsKnown, AnalysisStep, MarkPending, PutAnalysis, MarkReady, MarkError,
           syncVars
<1>2. CASE MarkPending(p)
    <2>1. PICK j : j = [job[p] EXCEPT !.pc = "ask"]
        OBVIOUS
    <2>2. IsJob(j)
        BY <1>1, <1>2, <2>1 DEF IsJob, MarkPending
    <2>3. CASE SetStatus(p, "pending", 0, NoJob)
        BY <1>2, <2>3, StatusMoves, NoJobIsAJob DEF MarkPending
    <2>4. CASE SetStatus(p, "pending", 1, j)
        BY <1>2, <2>2, <2>4, StatusMoves DEF MarkPending
    <2>5. QED
        BY <1>2, <2>1, <2>3, <2>4 DEF MarkPending
<1>3. CASE PutAnalysis(p)
    <2>1. PICK j, i : i = job[p] /\ j = [i EXCEPT !.pc = "ready"]
        OBVIOUS
    <2>2. job' = [job EXCEPT ![p] = j]
        BY <1>3, <2>1 DEF PutAnalysis, MentionInv, JobsKnown
    <2>3. /\ j = [pc |-> j.pc, row |-> j.row, how |-> j.how]
          /\ j.pc = "ready" /\ j.row = job[p].row /\ Bygone(j.row)
        BY <1>1, <1>3, <2>1 DEF IsJob, PutAnalysis
    <2>4. cache' = cache \cup ({j.row} \cap mentions) /\ UNCHANGED <<analysis, worker>>
        BY <1>3, <2>3 DEF PutAnalysis
    <2>5. SyncInv' /\ \A x : Bygone(x) => Bygone(x)'
        BY <1>1, SyncStays DEF MentionInv
    <2>6. IsJob(j)'
        BY <1>1, <2>3, <2>4, <2>5 DEF IsJob
    <2>7. JobsKnown'
        <3>1. ASSUME NEW q \in Processes
              PROVE  IsJob(job[q])'
            <4>1. CASE q = p
                <5>1. job'[q] = j
                    BY <2>2, <4>1 DEF MentionInv, JobsKnown
                <5>2. QED
                    BY <2>6, <5>1
            <4>2. CASE q # p
                <5>1. PICK k : k = job[q]
                    OBVIOUS
                <5>2. job'[q] = k /\ IsJob(k)
                    BY <2>2, <4>2, <5>1 DEF MentionInv, JobsKnown
                <5>3. IsJob(k)'
                    BY <1>1, <2>4, <2>5, <5>2 DEF IsJob
                <5>4. QED
                    BY <5>2, <5>3
            <4>3. QED
                BY <4>1, <4>2
        <3>2. job' = [q \in Processes |-> job'[q]]
            BY <2>2 DEF MentionInv, JobsKnown
        <3>3. QED
            BY <3>1, <3>2 DEF JobsKnown
    <2>8. /\ AnalysisOfMentions' /\ ReadyHasDocument' /\ ScanOnce' /\ Looking' /\ WorkerShaped'
        BY <1>1, <2>4 DEF MentionInv, AnalysisOfMentions, ReadyHasDocument, Status, ScanOnce,
                          Looking, WorkerShaped
    <2>9. QED
        BY <2>5, <2>7, <2>8 DEF MentionInv
<1>4. CASE MarkReady(p)
    BY <1>1, <1>4, StatusMoves, NoJobIsAJob DEF MarkReady, IsJob
<1>5. CASE MarkError(p)
    BY <1>5, StatusMoves, NoJobIsAJob DEF MarkError
<1>6. QED
    BY <1>2, <1>3, <1>4, <1>5 DEF AnalysisStep

LEMMA MentionsAfterPicking ==
    ASSUME MentionInv, ListPending \/ TakeNext
    PROVE  MentionInv'
<1>1. CASE ListPending
    <2>1. PICK batch : worker' = IF batch = {} THEN Scan
                                 ELSE [worker EXCEPT !.pc = "analyze", !.todo = batch]
        BY <1>1 DEF ListPending
    <2>2. WorkerShaped' /\ worker'.pc # "look"
        BY <2>1, WorkerAtRest DEF MentionInv, WorkerShaped, IsWorker
    <2>3. QED
        BY <1>1, <2>2, ScanMoves DEF ListPending, syncVars
<1>2. CASE TakeNext /\ worker.todo = {}
    <2>1. WorkerShaped' /\ worker'.pc # "look"
        BY <1>2, WorkerAtRest DEF TakeNext, WorkerShaped, IsWorker
    <2>2. QED
        BY <1>2, <2>1, ScanMoves DEF TakeNext, syncVars
<1>3. CASE TakeNext /\ worker.todo # {}
    <2>1. PICK m \in worker.todo : /\ worker' = [worker EXCEPT !.todo = @ \ {m}]
                                   /\ job' = [job EXCEPT !["worker"] = Fetched(m, "analyze")]
        BY <1>3 DEF TakeNext
    <2>2. PICK j, todo : j = Fetched(m, "analyze") /\ todo = worker.todo \ {m}
        OBVIOUS
    <2>3. IsJob(j)
        BY <2>2, FetchedIsAJob DEF MentionInv
    <2>4. worker.pc = "analyze" /\ worker' = [worker EXCEPT !.todo = todo]
        BY <1>3, <2>1, <2>2 DEF TakeNext
    <2>5. WorkerShaped' /\ worker'.pc # "look"
        BY <2>4 DEF MentionInv, WorkerShaped
    <2>6. UNCHANGED <<stored, mentions, pass, analysis, cache>>
        BY <1>3 DEF TakeNext, syncVars
    <2>7. AnalysisOfMentions' /\ ReadyHasDocument'
        BY <2>6 DEF MentionInv, AnalysisOfMentions, ReadyHasDocument, Status
    <2>8. QED
        BY <2>1, <2>2, <2>3, <2>5, <2>6, <2>7, JobMoves DEF Processes
<1>4. QED
    BY <1>1, <1>2, <1>3

LEMMA MentionsAfterOpen ==
    ASSUME MentionInv, NEW m, NEW how, Open(m, how)
    PROVE  MentionInv'
<1>1. UNCHANGED <<stored, mentions, pass, analysis, cache, worker>>
    BY DEF Open
<1>2. PICK j : j = Fetched(m, how)
    OBVIOUS
<1>3. IsJob(j) /\ job' = [job EXCEPT !["api"] = j]
    BY <1>2, FetchedIsAJob DEF MentionInv, Open
<1>4. AnalysisOfMentions' /\ ReadyHasDocument' /\ WorkerShaped'
    BY <1>1 DEF MentionInv, AnalysisOfMentions, ReadyHasDocument, Status, WorkerShaped
<1>5. QED
    BY <1>1, <1>3, <1>4, JobMoves DEF Processes

LEMMA MentionsAfterDeath ==
    ASSUME MentionInv, WorkerDies \/ WorkerRestarts
    PROVE  MentionInv'
<1>1. CASE WorkerDies
    <2>1. /\ UNCHANGED <<stored, mentions, pass, analysis, cache>>
          /\ worker' = [Scan EXCEPT !.pc = "down"]
          /\ job' = [job EXCEPT !["worker"] = NoJob]
        BY <1>1 DEF WorkerDies
    <2>2. WorkerShaped' /\ worker'.pc # "look"
        BY <2>1, WorkerAtRest DEF WorkerShaped, IsWorker
    <2>3. AnalysisOfMentions' /\ ReadyHasDocument'
        BY <2>1 DEF MentionInv, AnalysisOfMentions, ReadyHasDocument, Status
    <2>4. QED
        BY <2>1, <2>2, <2>3, NoJobIsAJob, JobMoves DEF Processes
<1>2. CASE WorkerRestarts
    <2>1. WorkerShaped' /\ worker'.pc # "look"
        BY <1>2, WorkerAtRest DEF WorkerRestarts, WorkerShaped, IsWorker
    <2>2. QED
        BY <1>2, <2>1, ScanMoves DEF WorkerRestarts, syncVars
<1>3. QED
    BY <1>1, <1>2

LEMMA MentionInitially == MentionInit => MentionInv
<1> SUFFICES ASSUME MentionInit
             PROVE  MentionInv
    OBVIOUS
<1>1. SyncInv
    BY SyncInitially DEF MentionInit
<1>2. mentions = {} /\ DOMAIN analysis = {}
    BY DEF MentionInit, SyncInit
<1>3. AnalysisOfMentions /\ ScanOnce /\ ReadyHasDocument
    BY <1>2 DEF AnalysisOfMentions, ScanOnce, ReadyHasDocument
<1>4. WorkerShaped /\ Looking
    BY WorkerAtRest DEF MentionInit, WorkerShaped, IsWorker, Looking
<1>5. JobsKnown
    BY NoJobIsAJob DEF MentionInit, JobsKnown
<1>6. QED
    BY <1>1, <1>3, <1>4, <1>5 DEF MentionInv

LEMMA MentionStep == MentionInv /\ [MentionNext]_mentionVars => MentionInv'
<1> SUFFICES ASSUME MentionInv, [MentionNext]_mentionVars
             PROVE  MentionInv'
    OBVIOUS
<1>1. CASE UNCHANGED mentionVars
    <2>1. UNCHANGED <<stored, mentions, pass, analysis, cache, job, worker>>
        BY <1>1 DEF mentionVars, syncVars, analysisVars
    <2>2. WorkerShaped' /\ Looking'
        BY <2>1 DEF MentionInv, WorkerShaped, Looking
    <2>3. QED
        BY <2>1, <2>2, ScanMoves
<1>2. CASE SyncNext /\ Cascade
    BY <1>2, MentionsAfterSync
<1>3. CASE WorkerStep
    BY <1>3, MentionsAfterScan, MentionsAfterAdd, MentionsAfterPicking, MentionsAfterAnalysis
       DEF WorkerStep, Processes
<1>4. CASE AnalysisStep("api")
    BY <1>4, MentionsAfterAnalysis DEF Processes
<1>5. CASE GroupFails
    <2>1. CASE AddMention
        BY <2>1, MentionsAfterAdd
    <2>2. QED
        BY <1>5, <2>1, MentionsAfterScan
<1>6. CASE \E m \in mentions, how \in {"view", "refresh"} : Open(m, how)
    BY <1>6, MentionsAfterOpen
<1>7. CASE WorkerDies \/ WorkerRestarts
    BY <1>7, MentionsAfterDeath
<1>8. QED
    BY <1>1, <1>2, <1>3, <1>4, <1>5, <1>6, <1>7 DEF MentionNext

\* What keeps the three invariants of the mentions up: no row of a keyword or
\* of a mention returns once it is gone, and what a pass, the scan and the
\* jobs hold is of rows that were there.
THEOREM MentionInvariant == MentionSpec => []MentionInv
<1>1. QED
    BY MentionInitially, MentionStep, PTL DEF MentionSpec

\* Every document has exactly the mentions its last replacement made, less
\* those whose keyword has gone, whatever requests, failures and restarts
\* come between the calls of a pass.
THEOREM DocumentsAreFollowed == MentionSpec => []MentionsFollowTheRecord
<1>1. MentionInv => MentionsFollowTheRecord
    BY DEF MentionInv, SyncInv
<1>2. QED
    BY <1>1, MentionInvariant, PTL

\* The scan never finds one keyword in one transcript twice.
THEOREM NothingIsFoundTwice == MentionSpec => []ScanOnce
<1>1. MentionInv => ScanOnce
    BY DEF MentionInv
<1>2. QED
    BY <1>1, MentionInvariant, PTL

\* A mention shown as analysed has its document, whichever of the two
\* processes wrote its row last.
THEOREM ReadyIsPut == MentionSpec => []ReadyHasDocument
<1>1. MentionInv => ReadyHasDocument
    BY DEF MentionInv
<1>2. QED
    BY <1>1, MentionInvariant, PTL
=============================================================================
