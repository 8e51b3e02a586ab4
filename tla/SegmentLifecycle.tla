-------------------------- MODULE SegmentLifecycle --------------------------
(***************************************************************************)
(* The life of a station's audio segments across the listener              *)
(* (_persist_segment), the transcription worker (_handle_job), the cleanup *)
(* worker (sweep), the stale-job sweeper, the analysis worker and evidence *)
(* capture: a file in the spool, a row in audio_segments, a row in         *)
(* transcription_jobs, a message, an inbox row, a transcript, a place in a *)
(* conversation.                                                           *)
(*                                                                         *)
(* Abstracted: which segments a conversation takes is the subject of       *)
(* ConversationAssembler (here it may close at any segment); how messages  *)
(* are delivered is that of Outbox and Consumer (here the one worker takes *)
(* any queued message).                                                    *)
(***************************************************************************)
EXTENDS Integers, FiniteSets

CONSTANTS
    Segments,   \* a station's segments, numbered in the order they were heard
    Nobody,     \* no segment
    MaxCrashes, \* bound of the model: processes that die
    MaxRaises,  \* bound of the model: steps of the worker or the listener that raise
    MaxLost     \* bound of the model: files that cannot be read or deleted

ASSUME SegmentsAssumption == Segments \subseteq Nat /\ Nobody \notin Segments

VARIABLES
    hits,          \* the segments in which a keyword is said
    file,          \* file[s]: its bytes in the spool
    writing,       \* segments the listener has written and not yet committed
    disposition,   \* disposition[s] of its audio_segments row
    job,           \* job[s]: status of its transcription_jobs row
    message,       \* message[s]: where its transcription message is
    inbox,         \* inbox[s]: the message's inbox row
    age,           \* age[s]: 0 fresh, 1 past MAX_AGE_HOURS, 2 past ORPHAN_PENDING_HOURS
    transcripts,   \* segments with a transcript
    stamp,         \* stamp[s]: the conversation on its transcript, {} for none
    worker,        \* the transcription worker: where it is, and on which segment
    lead,          \* its memory: segments heard lately while no conversation is open
    open,          \* its memory: the open conversation
    closing,       \* its memory: conversations closed and not yet committed
    conversations, \* conversation_sessions, each as its set of segments
    mentions,      \* conversations that have a mention_events row
    clips,         \* evidence clips: <<conversation, segments in the clip>>
    victims,       \* what the cleanup worker's query returned
    removed,       \* the victim whose file it has just deleted
    faults         \* history: how many faults of each kind there were

memoryVars == <<lead, open, closing>>
resultVars == <<conversations, mentions, clips>>
cleanerVars == <<victims, removed>>
rowVars == <<disposition, job, message, inbox, age, transcripts, stamp>>
vars == <<hits, file, writing, rowVars, worker, memoryVars, resultVars, cleanerVars, faults>>

Stage == {"idle", "check", "decode", "fold", "commit", "dispose", "delete", "flush"}
Idle == [at |-> "idle", on |-> Nobody]
GoTo(stage) == worker' = [worker EXCEPT !.at = stage]

Limit == [crash |-> MaxCrashes, raise |-> MaxRaises, lost |-> MaxLost]
Suffer(kinds) ==
    /\ \A k \in kinds : faults[k] < Limit[k]
    /\ faults' = [k \in DOMAIN faults |-> faults[k] + (IF k \in kinds THEN 1 ELSE 0)]

Init ==
    /\ hits \in SUBSET Segments
    /\ file = [s \in Segments |-> "none"]
    /\ disposition = [s \in Segments |-> "none"]
    /\ job = [s \in Segments |-> "none"]
    /\ message = [s \in Segments |-> "none"]
    /\ inbox = [s \in Segments |-> "none"]
    /\ age = [s \in Segments |-> 0]
    /\ stamp = [s \in Segments |-> {}]
    /\ worker = Idle
    /\ writing = {} /\ transcripts = {} /\ lead = {} /\ open = {} /\ closing = {}
    /\ conversations = {} /\ mentions = {} /\ clips = {} /\ victims = {}
    /\ removed = Nobody
    /\ faults = [crash |-> 0, raise |-> 0, lost |-> 0]

-----------------------------------------------------------------------------
(* The listener *)

\* The bytes first.
WriteBytes(s) ==
    /\ file[s] = "none"
    /\ \A r \in Segments : r < s => file[r] # "none"
    /\ file' = [file EXCEPT ![s] = "present"]
    /\ writing' = writing \cup {s}
    /\ UNCHANGED <<hits, rowVars, worker, memoryVars, resultVars, cleanerVars, faults>>

\* Then segment, job and outbox event in one transaction.
CommitSegment(s) ==
    /\ s \in writing
    /\ writing' = writing \ {s}
    /\ disposition' = [disposition EXCEPT ![s] = "pending"]
    /\ job' = [job EXCEPT ![s] = "pending"]
    /\ message' = [message EXCEPT ![s] = "unsent"]
    /\ UNCHANGED <<hits, file, inbox, age, transcripts, stamp, worker, memoryVars,
                   resultVars, cleanerVars, faults>>

\* SegmentStore.delete() with its exceptions suppressed, as both callers do.
DeleteFile(s, others) ==
    \/ file' = [file EXCEPT ![s] = "gone"] /\ Suffer(others)
    \/ UNCHANGED file /\ Suffer(others \cup {"lost"})

\* The contract or the transaction raises: the bytes are taken back.
Rollback_KeepBytes(s) ==
    /\ s \in writing
    /\ writing' = writing \ {s}
    /\ Suffer({"raise"})
    /\ UNCHANGED <<hits, file, rowVars, worker, memoryVars, resultVars, cleanerVars>>
Rollback(s) ==
    /\ s \in writing
    /\ writing' = writing \ {s}
    /\ DeleteFile(s, {"raise"})
    /\ UNCHANGED <<hits, rowVars, worker, memoryVars, resultVars, cleanerVars>>

ListenerCrash ==
    /\ writing # {}
    /\ writing' = {}
    /\ Suffer({"crash"})
    /\ UNCHANGED <<hits, file, rowVars, worker, memoryVars, resultVars, cleanerVars>>

-----------------------------------------------------------------------------
(* Time and the queue *)

\* A segment turns stale; it turns four days old only while no worker has it.
GrowOld(s) ==
    /\ disposition[s] # "none"
    /\ age[s] < 2
    /\ age[s] = 1 => worker.on # s
    /\ age' = [age EXCEPT ![s] = @ + 1]
    /\ UNCHANGED <<hits, file, writing, disposition, job, message, inbox, transcripts, stamp,
                   worker, memoryVars, resultVars, cleanerVars, faults>>

Dispatch(s) ==
    /\ message[s] = "unsent"
    /\ message' = [message EXCEPT ![s] = "queued"]
    /\ UNCHANGED <<hits, file, writing, disposition, job, inbox, age, transcripts, stamp,
                   worker, memoryVars, resultVars, cleanerVars, faults>>

\* A message outlives the retention of the queue.
Expire(s) ==
    /\ message[s] = "queued" /\ age[s] = 2 /\ worker.on # s
    /\ message' = [message EXCEPT ![s] = "expired"]
    /\ UNCHANGED <<hits, file, writing, disposition, job, inbox, age, transcripts, stamp,
                   worker, memoryVars, resultVars, cleanerVars, faults>>

-----------------------------------------------------------------------------
(* The transcription worker *)

Receive(s) ==
    /\ worker = Idle
    /\ message[s] = "queued"
    /\ worker' = [at |-> "check", on |-> s]
    /\ UNCHANGED <<hits, file, writing, rowVars, memoryVars, resultVars, cleanerVars, faults>>

\* The inbox pre-check: a redelivery of what was done is a no-op.
SkipProcessed(s) ==
    /\ worker.at = "check" /\ inbox[s] = "processed"
    /\ GoTo("delete")
    /\ UNCHANGED <<hits, file, writing, rowVars, memoryVars, resultVars, cleanerVars, faults>>

ToHandle(s) == worker.at = "check" /\ inbox[s] # "processed"

\* Statuses a stale skip or an orphan sweep does not overwrite.
Kept_Nothing == {}
Kept == {"retained", "deleted"}

Released(s) == IF disposition[s] \in Kept \cup {"none"} THEN disposition[s] ELSE "disposable"

SkipStale(s) ==
    /\ ToHandle(s) /\ age[s] > 0
    /\ job' = [job EXCEPT ![s] = IF @ = "none" THEN @ ELSE "abandoned"]
    /\ disposition' = [disposition EXCEPT ![s] = Released(s)]
    /\ inbox' = [inbox EXCEPT ![s] = "processed"]
    /\ GoTo("delete")
    /\ UNCHANGED <<hits, file, writing, message, age, transcripts, stamp,
                   memoryVars, resultVars, cleanerVars, faults>>

\* store.read(), then the job is marked running.
Read(s) ==
    /\ ToHandle(s) /\ age[s] = 0 /\ file[s] = "present"
    /\ job' = [job EXCEPT ![s] = "running"]
    /\ GoTo("decode")
    /\ UNCHANGED <<hits, file, writing, disposition, message, inbox, age, transcripts, stamp,
                   memoryVars, resultVars, cleanerVars, faults>>

\* A permanent error: the audio is missing or its digest is wrong, or the
\* model cannot be used.  record_failed(), and the message is deleted.
Reject(s) ==
    /\ \/ ToHandle(s) /\ age[s] = 0 /\ file[s] # "present" /\ Suffer({})
       \/ ToHandle(s) /\ age[s] = 0 /\ file[s] = "present" /\ Suffer({"lost"})
       \/ worker.at = "decode" /\ Suffer({"raise"})
    /\ inbox' = [inbox EXCEPT ![s] = "failed"]
    /\ GoTo("delete")
    /\ UNCHANGED <<hits, file, writing, disposition, job, message, age, transcripts, stamp,
                   memoryVars, resultVars, cleanerVars>>

\* Transcript and inbox row in one transaction.
StoreTranscript(s) ==
    /\ worker.at = "decode"
    /\ transcripts' = transcripts \cup {s}
    /\ inbox' = [inbox EXCEPT ![s] = "processed"]
    /\ GoTo("fold")
    /\ UNCHANGED <<hits, file, writing, disposition, job, message, age, stamp,
                   memoryVars, resultVars, cleanerVars, faults>>

\* assembler.observe(): a conversation may close before the segment, after
\* it, both or neither.
FoldInto(s, before, after) ==
    LET old == IF before THEN [lead |-> {}, open |-> {}] ELSE [lead |-> lead, open |-> open]
        now == IF old.open # {} \/ s \in hits
               THEN [lead |-> {}, open |-> old.open \cup old.lead \cup {s}]
               ELSE [lead |-> old.lead \cup {s}, open |-> {}]
        ended == IF after THEN now.open ELSE {}
    IN  /\ closing' = {IF before THEN open ELSE {}, ended} \ {{}}
        /\ open' = now.open \ ended
        /\ lead' = now.lead

Fold(s) ==
    /\ worker.at = "fold"
    /\ \E before, after \in BOOLEAN : FoldInto(s, before, after)
    /\ GoTo("commit")
    /\ UNCHANGED <<hits, file, writing, rowVars, resultVars, cleanerVars, faults>>

\* _commit_conversation(): conversation, stamps and analysis event at once.
CommitConversation ==
    /\ worker.at \in {"commit", "flush"}
    /\ \E c \in closing :
          /\ closing' = closing \ {c}
          /\ conversations' = conversations \cup {c}
          /\ stamp' = [s \in Segments |-> IF s \in c \cap transcripts THEN c ELSE stamp[s]]
    /\ UNCHANGED <<hits, file, writing, disposition, job, message, inbox, age, transcripts,
                   worker, lead, open, mentions, clips, cleanerVars, faults>>

MarkSucceeded(s) ==
    /\ worker.at = "commit" /\ closing = {}
    /\ job' = [job EXCEPT ![s] = IF @ = "none" THEN @ ELSE "succeeded"]
    /\ GoTo("dispose")
    /\ UNCHANGED <<hits, file, writing, disposition, message, inbox, age, transcripts, stamp,
                   memoryVars, resultVars, cleanerVars, faults>>

Verdict_Swapped(s) == IF s \in hits THEN "disposable" ELSE "retained"
Verdict(s) == IF s \in hits THEN "retained" ELSE "disposable"

\* _mark_disposition(): unconditional.
MarkDisposition(s) ==
    /\ worker.at = "dispose"
    /\ disposition' = [disposition EXCEPT ![s] = Verdict(s)]
    /\ GoTo("delete")
    /\ UNCHANGED <<hits, file, writing, job, message, inbox, age, transcripts, stamp,
                   memoryVars, resultVars, cleanerVars, faults>>

DeleteMessage(s) ==
    /\ worker.at = "delete"
    /\ message' = [message EXCEPT ![s] = "done"]
    /\ worker' = Idle
    /\ UNCHANGED <<hits, file, writing, disposition, job, inbox, age, transcripts, stamp,
                   memoryVars, resultVars, cleanerVars, faults>>

\* A step of the handler raises, and the message stays in the queue.  What
\* observe() returned is a local of the handler.
Raise(s) ==
    /\ worker.at \in {"check", "decode", "commit", "dispose"}
    /\ worker.at = "check" => ToHandle(s)
    /\ Suffer({"raise"})
    /\ closing' = {}
    /\ worker' = Idle
    /\ UNCHANGED <<hits, file, writing, rowVars, lead, open, resultVars, cleanerVars>>

WorkOn(s) ==
    \/ SkipProcessed(s) \/ SkipStale(s) \/ Read(s) \/ Reject(s) \/ StoreTranscript(s)
    \/ Fold(s) \/ MarkSucceeded(s) \/ MarkDisposition(s) \/ DeleteMessage(s) \/ Raise(s)

Handle == \E s \in Segments : worker.on = s /\ WorkOn(s)

\* SIGTERM: shutdown() commits the open conversation; a commit that raises
\* is logged.  The process that is started next has an empty memory.
Flushed_Nothing == {}
Flushed == {open} \ {{}}

Shutdown ==
    /\ worker = Idle
    /\ lead \cup open # {}
    /\ closing' = Flushed
    /\ lead' = {} /\ open' = {}
    /\ GoTo("flush")
    /\ UNCHANGED <<hits, file, writing, rowVars, resultVars, cleanerVars, faults>>

Stopped ==
    /\ worker.at = "flush"
    /\ closing' = {}
    /\ IF closing = {} THEN Suffer({}) ELSE Suffer({"raise"})
    /\ worker' = Idle
    /\ UNCHANGED <<hits, file, writing, rowVars, lead, open, resultVars, cleanerVars>>

WorkerCrash ==
    /\ worker # Idle \/ lead \cup open # {}
    /\ Suffer({"crash"})
    /\ worker' = Idle
    /\ lead' = {} /\ open' = {} /\ closing' = {}
    /\ UNCHANGED <<hits, file, writing, rowVars, resultVars, cleanerVars>>

-----------------------------------------------------------------------------
(* The stale-job sweeper and the cleanup worker *)

\* _sweep_orphaned_pending().  The sweep of running jobs finds none: it asks
\* for a lease, and no statement in the repository gives a job one.
Orphan_Running(s) == job[s] \in {"pending", "running"} /\ age[s] > 0
Orphan_Never(s) == FALSE
Orphan(s) == job[s] = "pending" /\ age[s] = 2

Sweep ==
    /\ \E s \in Segments : Orphan(s)
    /\ job' = [s \in Segments |-> IF Orphan(s) THEN "abandoned" ELSE job[s]]
    /\ disposition' = [s \in Segments |-> IF Orphan(s) THEN Released(s) ELSE disposition[s]]
    /\ UNCHANGED <<hits, file, writing, message, inbox, age, transcripts, stamp, worker,
                   memoryVars, resultVars, cleanerVars, faults>>

\* mention_events.transcript_id is that of the conversation's last segment.
Last(c) == CHOOSE s \in c : \A r \in c : r <= s
Anchored(s) == s \in transcripts /\ \E c \in mentions : s = Last(c)

Deletable_Succeeded(s) ==
    disposition[s] = "disposable" /\ job[s] = "succeeded" /\ ~Anchored(s)
Deletable(s) ==
    /\ disposition[s] = "disposable"
    /\ job[s] \in {"succeeded", "abandoned"}
    /\ ~Anchored(s)

\* The query, of segments that have been disposable for long enough.
FindVictims ==
    /\ victims = {}
    /\ victims' \in (SUBSET {s \in Segments : Deletable(s)}) \ {{}}
    /\ UNCHANGED <<hits, file, writing, rowVars, worker, memoryVars, resultVars, removed, faults>>

\* _delete_segment(): the file first, whatever the row says by now, ...
RemoveFile(s) ==
    /\ s \in victims /\ removed = Nobody
    /\ DeleteFile(s, {})
    /\ removed' = s
    /\ UNCHANGED <<hits, writing, rowVars, worker, memoryVars, resultVars, victims>>

\* ... then the row.
MarkDeleted(s) ==
    /\ removed = s
    /\ disposition' = [disposition EXCEPT ![s] = "deleted"]
    /\ victims' = victims \ {s}
    /\ removed' = Nobody
    /\ UNCHANGED <<hits, file, writing, job, message, inbox, age, transcripts, stamp, worker,
                   memoryVars, resultVars, faults>>

CleanerCrash ==
    /\ victims # {}
    /\ victims' = {}
    /\ removed' = Nobody
    /\ Suffer({"crash"})
    /\ UNCHANGED <<hits, file, writing, rowVars, worker, memoryVars, resultVars>>

\* _prune_tables(): the row goes, and job and transcript go with it (ON
\* DELETE CASCADE), long after the queue has dropped a message it had.
PruneRow(s) ==
    /\ disposition[s] = "deleted" /\ age[s] = 2
    /\ message[s] # "queued"
    /\ disposition' = [disposition EXCEPT ![s] = "none"]
    /\ job' = [job EXCEPT ![s] = "none"]
    /\ transcripts' = transcripts \ {s}
    /\ stamp' = [stamp EXCEPT ![s] = {}]
    /\ UNCHANGED <<hits, file, writing, message, inbox, age, worker,
                   memoryVars, resultVars, cleanerVars, faults>>

CleanUp == FindVictims \/ \E s \in Segments : RemoveFile(s) \/ MarkDeleted(s)

-----------------------------------------------------------------------------
(* The analysis worker *)

Analyse(c) ==
    /\ c \notin mentions
    /\ mentions' = mentions \cup {c}
    /\ UNCHANGED <<hits, file, writing, rowVars, worker, memoryVars, conversations, clips,
                   cleanerVars, faults>>

\* _segment_rows(): the conversation's segments that are not deleted.
SegmentRows(c) == {s \in c : stamp[s] = c /\ disposition[s] # "deleted"}

\* capture(): all of them can be read, or none is used.
CaptureEvidence(c) ==
    /\ c \in mentions
    /\ \A e \in clips : e[1] # c
    /\ SegmentRows(c) # {}
    /\ \A s \in SegmentRows(c) : file[s] = "present"
    /\ clips' = clips \cup {<<c, SegmentRows(c)>>}
    /\ UNCHANGED <<hits, file, writing, rowVars, worker, memoryVars, conversations, mentions,
                   cleanerVars, faults>>

-----------------------------------------------------------------------------
Listener(s) == WriteBytes(s) \/ CommitSegment(s) \/ Rollback(s)
Queue(s) == GrowOld(s) \/ Dispatch(s) \/ Expire(s) \/ Receive(s)

Next ==
    \/ \E s \in Segments : Listener(s) \/ Queue(s) \/ PruneRow(s)
    \/ ListenerCrash
    \/ Handle \/ CommitConversation \/ Shutdown \/ Stopped \/ WorkerCrash
    \/ Sweep \/ CleanUp \/ CleanerCrash
    \/ \E c \in conversations : Analyse(c) \/ CaptureEvidence(c)

Spec == Init /\ [][Next]_vars

\* Every process keeps running and time passes; the queue hands a group's
\* messages out oldest first, so one that stays in it is received.
Fairness ==
    /\ \A s \in Segments :
          /\ WF_vars(CommitSegment(s)) /\ WF_vars(Dispatch(s)) /\ WF_vars(GrowOld(s))
          /\ SF_vars(Receive(s))
    /\ WF_vars(Handle) /\ WF_vars(CommitConversation) /\ WF_vars(Stopped)
    /\ WF_vars(Sweep) /\ WF_vars(CleanUp)

FairSpec == Spec /\ Fairness

-----------------------------------------------------------------------------
TypeOK ==
    /\ hits \subseteq Segments /\ writing \subseteq Segments
    /\ file \in [Segments -> {"none", "present", "gone"}]
    /\ disposition \in [Segments -> {"none", "pending", "retained", "disposable", "deleted"}]
    /\ job \in [Segments -> {"none", "pending", "running", "succeeded", "abandoned"}]
    /\ message \in [Segments -> {"none", "unsent", "queued", "done", "expired"}]
    /\ inbox \in [Segments -> {"none", "processed", "failed"}]
    /\ age \in [Segments -> 0 .. 2]
    /\ transcripts \subseteq Segments
    /\ stamp \in [Segments -> SUBSET Segments]
    /\ worker \in [at : Stage, on : Segments \cup {Nobody}]
    /\ lead \subseteq Segments /\ open \subseteq Segments
    /\ closing \subseteq SUBSET Segments
    /\ conversations \subseteq SUBSET Segments /\ mentions \subseteq SUBSET Segments
    /\ clips \subseteq (SUBSET Segments) \X (SUBSET Segments)
    /\ victims \subseteq Segments /\ removed \in Segments \cup {Nobody}
    /\ faults \in [{"crash", "raise", "lost"} -> Nat]

(* No job waits for audio that is gone: "a job row must never reference      *)
(* audio that is not on disk" (listener.py:262), and the cleanup worker      *)
(* never touches what still has to be transcribed (cleanup.py:15).  The      *)
(* audio of a transcribed hit stays on disk, whatever the sweeper and the    *)
(* cleanup worker do between the handler's five transactions.                *)
NeededAudioKept ==
    \A s \in Segments :
        job[s] \in {"pending", "running"} \/ s \in hits \cap transcripts => file[s] = "present"

(* No file is stranded: unless a process died or the disk refused, a file    *)
(* that no row refers to is one the listener is about to commit              *)
(* (listener.py:266-270).                                                    *)
NoStrandedFile ==
    faults["crash"] = 0 /\ faults["lost"] = 0 =>
        \A s \in Segments \ writing :
            file[s] = "present" => disposition[s] \notin {"none", "deleted"}

\* The hit is in a conversation: committed, about to be, open, or about to
\* be folded in.
Remembered(s) ==
    \/ s \in open \cup (UNION closing) \cup (UNION conversations)
    \/ worker = [at |-> "fold", on |-> s]

(* A hit whose message was acknowledged is in a conversation: "a crash       *)
(* between them redelivers the segment" (transcription.py:17-19).            *)
AcknowledgedHitsSurvive == \A s \in hits \cap transcripts : Remembered(s)

(* Without a crash or an exception it is: no order of closing, committing,   *)
(* shutting down and starting again loses a hit.                             *)
HitsSurviveUntilFailure == faults["crash"] = 0 /\ faults["raise"] = 0 => AcknowledgedHitsSurvive

(* A clip has every hit of its conversation, however late it is captured and *)
(* whatever was deleted before.                                              *)
ClipHasEveryHit == \A e \in clips : e[1] \cap hits \subseteq e[2]

(* A clip has all of its conversation: "wrong evidence is worse than none"   *)
(* (evidence.py:167-168).                                                    *)
EvidenceIsWhole == \A e \in clips : e[2] = e[1]

(* Retained audio stays retained and deleted audio stays deleted:            *)
(* _mark_disposition, a stale skip, a sweep and a deletion decided on an     *)
(* older read never undo each other.                                         *)
DispositionIsFinal ==
    [][\A s \in Segments :
          /\ disposition[s] = "retained" => disposition'[s] = "retained"
          /\ disposition[s] = "deleted" => disposition'[s] \in {"deleted", "none"}]_vars

(* A pending job is taken up or abandoned, also when its message is lost.    *)
PendingJobResolved == \A s \in Segments : job[s] = "pending" ~> job[s] # "pending"

(* Audio nobody needs is deleted, or becomes a mention's last segment.       *)
DisposableReclaimed ==
    \A s \in Segments : disposition[s] = "disposable" ~> disposition[s] = "deleted" \/ Anchored(s)
=============================================================================
