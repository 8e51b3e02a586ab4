---------------------------- MODULE AnalysisWorker --------------------------
(***************************************************************************)
(* The analysis worker: app/workers/analysis.py with the writes of         *)
(* services/result_writer.py and services/evidence.py.                     *)
(*                                                                         *)
(* A message names a conversation.  The worker analyses it (LlmAnalysis),  *)
(* commits the mention together with the inbox row, exports three          *)
(* documents to S3, cuts the clip and deletes the message.  On a tick      *)
(* without a message it goes through two backlogs: mentions without a      *)
(* clip, and mentions whose analysis fell back while the model was down.   *)
(* It is one thread; it may die between any two writes, a write to the     *)
(* database, to S3 or to the queue may raise, and the providers of the     *)
(* model come and go.                                                      *)
(*                                                                         *)
(* The queue is the part of pipeline/queue.py the worker can tell apart:   *)
(* one message is received at a time (max_messages=1) and an undeleted     *)
(* one comes back when its visibility lapses.  Every conversation has a    *)
(* transcript: it was committed because a keyword was found in it, and     *)
(* before its message (the outbox).  A bucket is configured.  The memories *)
(* of failures hold 5000 mentions, more than the model has.                *)
(***************************************************************************)
EXTENDS LlmAnalysis, FiniteSets

CONSTANTS
    Conversations,
    Nobody,         \* no conversation
    Unclippable,    \* those whose audio is gone
    PageSize,       \* page_size of both sweeps
    EvidenceBatch,  \* EVIDENCE_SWEEP_BATCH
    HealBatch,      \* ANALYSIS_RETRY_BATCH
    MaxFaults,      \* bound of the model: writes that raise, and crashes
    MaxChanges      \* bound of the model: changes of what the providers answer

ASSUME WorkerAssumption ==
    /\ Nobody \notin Conversations /\ Unclippable \subseteq Conversations
    /\ {PageSize, EvidenceBatch, HealBatch} \subseteq Nat \ {0}
    /\ {MaxFaults, MaxChanges} \subseteq Nat

VARIABLES
    message,     \* analysis queue, by conversation
    inbox,       \* inbox_messages: the processed ones
    created,     \* mention_events.created_at_utc, as a rank from 1 on
    status,      \* analysis_results.status of a mention
    exported,    \* the documents in S3
    key,         \* result_s3_key is set
    clip,        \* evidence_available
    pc, cur,     \* where the worker is, and with which conversation
    sweep,       \* the loop of a backlog sweep
    clipFailed,  \* _evidence_failed
    healFailed,  \* _analysis_retry_failed
    faults, changes

durable == <<inbox, created, status, exported, key, clip>>
memory == <<pc, cur, sweep, clipFailed, healFailed>>
vars == <<message, durable, memory, faults, changes, llmVars>>

Documents == {"metadata", "transcript", "analysis"}
Mentions == {c \in Conversations : status[c] # "none"}
\* offset is where the next page starts, more says there may be one.
NoSweep == [offset |-> 0, rows |-> {}, more |-> TRUE, done |-> 0]

Init ==
    /\ message = [c \in Conversations |-> "unsent"]
    /\ inbox = {} /\ key = {} /\ clip = {}
    /\ created = [c \in Conversations |-> 0]
    /\ status = [c \in Conversations |-> "none"]
    /\ exported = [c \in Conversations |-> {}]
    /\ pc = "poll" /\ cur = Nobody /\ sweep = NoSweep
    /\ clipFailed = {} /\ healFailed = {}
    /\ LlmInit
    /\ answers \in [Tiers -> Answers]
    /\ faults = 0 /\ changes = 0

Goto(label) == pc' = label
Fault == faults < MaxFaults /\ faults' = faults + 1

-----------------------------------------------------------------------------
\* The queue.
Arrive == \E c \in Conversations :
    /\ message[c] = "unsent"
    /\ message' = [message EXCEPT ![c] = "visible"]
    /\ UNCHANGED <<durable, memory, faults, changes, llmVars>>

Lapse == \E c \in Conversations :
    /\ message[c] = "hidden" /\ (cur = c => pc = "reanalyse")
    /\ message' = [message EXCEPT ![c] = "visible"]
    /\ UNCHANGED <<durable, memory, faults, changes, llmVars>>

-----------------------------------------------------------------------------
\* poll_once: a message that was processed is only deleted (the mutant:
\* every message is taken for new).
AlreadyProcessed_Never(c) == FALSE

AlreadyProcessed(c) == c \in inbox

DropDuplicate == \E c \in Conversations :
    /\ pc = "poll" /\ message[c] = "visible" /\ AlreadyProcessed(c)
    /\ message' = [message EXCEPT ![c] = "deleted"]
    /\ UNCHANGED <<durable, memory, faults, changes, llmVars>>

Receive == \E c \in Conversations :
    /\ pc = "poll" /\ message[c] = "visible" /\ ~AlreadyProcessed(c)
    /\ message' = [message EXCEPT ![c] = "hidden"]
    /\ Begin
    /\ cur' = c /\ Goto("analyse")
    /\ UNCHANGED <<durable, sweep, clipFailed, healFailed, faults, changes>>

\* A request of the analysis under way, for a message or for a sweep.
Request ==
    /\ pc \in {"analyse", "reanalyse"}
    /\ Ask
    /\ UNCHANGED <<message, durable, memory, faults, changes>>

Answered == pc \in {"analyse", "reanalyse"} /\ call.stage # "asking"

\* ResultWriter.persist: one transaction with the inbox row.
Acknowledged(c) == inbox' = inbox \cup {c}

Persist ==
    /\ pc = "analyse" /\ Answered
    /\ created' = IF cur \in Mentions THEN created
                  ELSE [created EXCEPT ![cur] = Cardinality(Mentions) + 1]
    /\ status' = [status EXCEPT ![cur] = call.stage]
    /\ Acknowledged(cur)
    /\ call' = NoCall /\ Goto("metadata")
    /\ UNCHANGED <<message, exported, key, clip, cur, sweep, clipFailed, healFailed,
                   faults, changes, failures, openLeft, rest, answers>>

\* ResultWriter.publish: the documents one by one, then the key.
Following(doc) == CASE doc = "metadata" -> "transcript"
                    [] doc = "transcript" -> "analysis"
                    [] doc = "analysis" -> "key"

\* A mutant: each document's failure is handled by itself.
AfterFailedPut_Each(doc) == Following(doc)

\* What follows when a put raises: the failure is recorded, publish returns.
AfterFailedPut(doc) == "clip"

Put ==
    /\ pc \in Documents
    /\ \/ /\ exported' = [exported EXCEPT ![cur] = @ \cup {pc}]
          /\ Goto(Following(pc))
          /\ UNCHANGED faults
       \/ /\ Fault
          /\ Goto(AfterFailedPut(pc))
          /\ UNCHANGED exported
    /\ UNCHANGED <<message, inbox, created, status, key, clip, cur, sweep, clipFailed,
                   healFailed, changes, llmVars>>

RecordKey ==
    /\ pc = "key"
    /\ key' = key \cup {cur}
    /\ Goto("clip")
    /\ UNCHANGED <<message, inbox, created, status, exported, clip, cur, sweep, clipFailed,
                   healFailed, faults, changes, llmVars>>

\* _capture_evidence: a failure, of the audio or of a write, is remembered.
Capture(c) ==
    \/ /\ c \notin clipFailed \cup Unclippable
       /\ clip' = clip \cup {c}
       /\ UNCHANGED <<clipFailed, faults>>
    \/ /\ c \notin clipFailed \cup clip
       /\ IF c \in Unclippable THEN UNCHANGED faults ELSE Fault
       /\ clipFailed' = clipFailed \cup {c}
       /\ UNCHANGED clip
    \/ /\ c \in clipFailed
       /\ UNCHANGED <<clip, clipFailed, faults>>

CaptureFirst ==
    /\ pc = "clip"
    /\ Capture(cur)
    /\ Goto("delete")
    /\ UNCHANGED <<message, inbox, created, status, exported, key, cur, sweep, healFailed,
                   changes, llmVars>>

Delete ==
    /\ pc = "delete"
    /\ message' = [message EXCEPT ![cur] = "deleted"]
    /\ cur' = Nobody /\ Goto("poll")
    /\ UNCHANGED <<durable, sweep, clipFailed, healFailed, faults, changes, llmVars>>

\* Nothing is visible: the tick turns to the backlogs.  _publish_backlog only
\* reads and logs.
NothingReceived ==
    /\ pc = "poll" /\ \A c \in Conversations : message[c] # "visible"
    /\ sweep' = NoSweep /\ Goto("clips")
    /\ UNCHANGED <<message, durable, cur, clipFailed, healFailed, faults, changes, llmVars>>

-----------------------------------------------------------------------------
\* Both sweeps read the backlog newest first, a page at a time, and pass over
\* the failures they remember.
Newer(c, backlog) == {d \in backlog : created[d] > created[c]}

\* A mutant: only the head of the backlog is ever looked at.
Page_Head(backlog, offset) == {c \in backlog : offset = 0 /\ Newer(c, backlog) = {}}

Page(backlog, offset) ==
    {c \in backlog : Cardinality(Newer(c, backlog)) \in offset .. offset + PageSize - 1}

ReadPage(backlog, passed) ==
    LET page == Page(backlog, sweep.offset)
    IN sweep' = [sweep EXCEPT !.offset = @ + PageSize,
                              !.rows = page \ passed,
                              !.more = Cardinality(page) = PageSize]

IsNext(c) == c \in sweep.rows /\ Newer(c, sweep.rows) = {}

ReadClips ==
    /\ pc = "clips" /\ sweep.rows = {} /\ sweep.more
    /\ ReadPage(Mentions \ clip, clipFailed)
    /\ UNCHANGED <<message, durable, pc, cur, clipFailed, healFailed, faults, changes, llmVars>>

CaptureNext == \E c \in sweep.rows :
    /\ pc = "clips" /\ IsNext(c)
    /\ Capture(c)
    /\ LET n == IF c \in clip' THEN sweep.done + 1 ELSE sweep.done
       IN IF n >= EvidenceBatch
          THEN Goto("probe") /\ sweep' = NoSweep
          ELSE UNCHANGED pc /\ sweep' = [sweep EXCEPT !.rows = @ \ {c}, !.done = n]
    /\ UNCHANGED <<message, inbox, created, status, exported, key, cur, healFailed, changes,
                   llmVars>>

EndClips ==
    /\ pc = "clips" /\ sweep.rows = {} /\ ~sweep.more
    /\ Goto("probe") /\ sweep' = NoSweep
    /\ UNCHANGED <<message, durable, cur, clipFailed, healFailed, faults, changes, llmVars>>

\* healthy(): the backlog of fallbacks is left alone while the breaker is
\* open or the client looks down.
Probe ==
    /\ pc = "probe"
    /\ Looked
    /\ \E localUp \in IF answers[Local] = "fails" THEN BOOLEAN ELSE {TRUE} :
          Goto(IF ~IsOpen /\ ClientHealthy(localUp) THEN "heal" ELSE "poll")
    /\ UNCHANGED <<message, durable, cur, sweep, clipFailed, healFailed, faults, changes,
                   rest, call, answers>>

ReadFallbacks ==
    /\ pc = "heal" /\ sweep.rows = {} /\ sweep.more
    /\ ReadPage({c \in Mentions : status[c] = "fallback"}, healFailed)
    /\ UNCHANGED <<message, durable, pc, cur, clipFailed, healFailed, faults, changes, llmVars>>

HealNext == \E c \in sweep.rows :
    /\ pc = "heal" /\ IsNext(c)
    /\ Begin
    /\ cur' = c /\ Goto("reanalyse")
    /\ sweep' = [sweep EXCEPT !.rows = @ \ {c}]
    /\ UNCHANGED <<message, durable, clipFailed, healFailed, faults, changes>>

\* refresh_analysis; the sweep ends when its batch is full.
Healed ==
    /\ pc = "reanalyse" /\ call.stage = "ready"
    /\ status' = [status EXCEPT ![cur] = "ready"]
    /\ call' = NoCall /\ cur' = Nobody
    /\ IF sweep.done + 1 >= HealBatch
       THEN Goto("poll") /\ sweep' = NoSweep
       ELSE Goto("heal") /\ sweep' = [sweep EXCEPT !.done = @ + 1]
    /\ UNCHANGED <<message, inbox, created, exported, key, clip, clipFailed, healFailed,
                   faults, changes, failures, openLeft, rest, answers>>

\* The model failed a request: the mention is not retried by this process,
\* and the sweep ends.
NotHealed ==
    /\ pc = "reanalyse" /\ call.stage = "fallback"
    /\ healFailed' = healFailed \cup {cur}
    /\ call' = NoCall /\ cur' = Nobody /\ Goto("poll") /\ sweep' = NoSweep
    /\ UNCHANGED <<message, durable, clipFailed, faults, changes, failures, openLeft, rest,
                   answers>>

EndHeal ==
    /\ pc = "heal" /\ sweep.rows = {} /\ ~sweep.more
    /\ Goto("poll") /\ sweep' = NoSweep
    /\ UNCHANGED <<message, durable, cur, clipFailed, healFailed, faults, changes, llmVars>>

-----------------------------------------------------------------------------
\* A write to the database or the queue raises out of the tick: the message,
\* if there is one, stays in the queue.
WriteRaises ==
    /\ \/ pc = "analyse" /\ Answered
       \/ pc \in {"key", "delete"}
       \/ pc = "reanalyse" /\ call.stage = "ready"
    /\ Fault
    /\ call' = NoCall /\ cur' = Nobody /\ Goto("poll") /\ sweep' = NoSweep
    /\ UNCHANGED <<message, durable, clipFailed, healFailed, changes, failures, openLeft,
                   rest, answers>>

\* The process dies and is started again: everything in memory is new.
Crash ==
    /\ Fault
    /\ pc' = "poll" /\ cur' = Nobody /\ sweep' = NoSweep
    /\ clipFailed' = {} /\ healFailed' = {}
    /\ LlmRestart
    /\ UNCHANGED <<message, durable, changes, answers>>

TimePasses == Tick /\ UNCHANGED <<message, durable, memory, faults, changes>>

ProviderChanges ==
    /\ changes < MaxChanges /\ changes' = changes + 1
    /\ Change
    /\ UNCHANGED <<message, durable, memory, faults>>

Work ==
    \/ DropDuplicate \/ Receive \/ Request \/ Persist \/ Put \/ RecordKey
    \/ CaptureFirst \/ Delete \/ NothingReceived
    \/ ReadClips \/ CaptureNext \/ EndClips
    \/ Probe \/ ReadFallbacks \/ HealNext \/ Healed \/ NotHealed \/ EndHeal

Next == Arrive \/ Lapse \/ Work \/ WriteRaises \/ Crash \/ TimePasses \/ ProviderChanges

Spec == Init /\ [][Next]_vars

\* The worker's loop goes on, messages come back, and the clock runs.
FairSpec == Spec /\ WF_vars(Work) /\ WF_vars(Lapse) /\ WF_vars(TimePasses)

-----------------------------------------------------------------------------
TypeOK ==
    /\ LlmTypeOK
    /\ message \in [Conversations -> {"unsent", "visible", "hidden", "deleted"}]
    /\ {inbox, key, clip, clipFailed, healFailed} \subseteq SUBSET Conversations
    /\ created \in [Conversations -> 0 .. Cardinality(Conversations)]
    /\ status \in [Conversations -> {"none", "fallback", "ready"}]
    /\ exported \in [Conversations -> SUBSET Documents]
    /\ pc \in {"poll", "analyse", "key", "clip", "delete", "clips", "probe", "heal",
               "reanalyse"} \cup Documents
    /\ cur \in Conversations \cup {Nobody}
    /\ faults \in 0 .. MaxFaults /\ changes \in 0 .. MaxChanges

\* result_s3_key tells a reader that the mention is exported
\* (result_writer.py:536-547): all of its documents are then there.
ExportedIsWhole == \A c \in key : exported[c] = Documents

\* "a redelivery ... is a no-op rather than a second analysis" (analysis.py:
\* 140-142): whatever is delivered again, and wherever the worker died, a
\* real analysis is never replaced by a fallback, nor a clip lost.
RealAnalysisStays ==
    [][ /\ \A c \in Conversations : status[c] = "ready" => status'[c] = "ready"
        /\ clip \subseteq clip' ]_vars

\* Idle ticks catch up with an outage.  A mention that fell back is analysed
\* once every provider answers again and a mention with audio gets its clip,
\* unless this process has already failed on it; neither the open breaker nor
\* a mention that cannot be clipped stands in the way of the others.
AllAnswer == \A t \in Tiers : answers[t] = "good"

IdleTicksCatchUp ==
    \A c \in Conversations :
        /\ status[c] = "fallback" ~> status[c] = "ready" \/ c \in healFailed \/ ~AllAnswer
        /\ status[c] # "none" /\ c \notin Unclippable ~> c \in clip \cup clipFailed

-----------------------------------------------------------------------------
\* Two promises the code does not keep.  One pass over each of the failures,
\* and _publish_backlog only logs.

\* README.md:373-376: fallbacks "are re-run and replaced once the model answers
\* again".
OutageHealed ==
    \A c \in Conversations : status[c] = "fallback" ~> status[c] = "ready" \/ ~AllAnswer

\* result_writer.py:536-541: "the row exists, the objects do not, and a later
\* pass finishes the job".
ExportFinished == \A c \in Conversations : status[c] # "none" ~> c \in key
=============================================================================
