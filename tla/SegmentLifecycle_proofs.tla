------------------------ MODULE SegmentLifecycle_proofs ------------------------
(***************************************************************************)
(* Proofs about SegmentLifecycle, for every number of segments and of      *)
(* crashes, exceptions and disk errors.                                    *)
(***************************************************************************)
EXTENDS SegmentLifecycle, TLAPS

\* What the listener has not committed, nobody else knows of.
Uncommitted(s) ==
    /\ message[s] = "none" =>
          /\ job[s] = "none" /\ disposition[s] = "none" /\ inbox[s] = "none"
          /\ s \notin transcripts /\ worker.on # s
    /\ s \in writing => message[s] = "none" /\ file[s] = "present"
    /\ file[s] = "none" => message[s] = "none"

\* A job that is to be done has its audio, since its row stays pending as long,
\* and so has a row that is retained.
Waits(s) ==
    /\ job[s] \in {"pending", "running"} => disposition[s] = "pending"
    /\ disposition[s] \in {"pending", "retained"} => file[s] = "present"

\* What is no longer to be done is not done again: the inbox has it, or it is
\* too old.
Done(s) ==
    message[s] # "none" /\ ~(disposition[s] = "pending" /\ job[s] \in {"pending", "running"})
        => inbox[s] = "processed" \/ age[s] = 2

Heard(s) ==
    s \in transcripts =>
        /\ inbox[s] = "processed" /\ job[s] # "pending"
        /\ s \in hits => disposition[s] \in {"pending", "retained"}

\* While the worker has a segment, nobody else decides about it.
Held(s) ==
    worker.on = s /\ worker.at \in {"decode", "fold", "commit", "dispose"} =>
        /\ disposition[s] = "pending" /\ job[s] \in {"running", "succeeded"} /\ age[s] < 2
        /\ worker.at = "decode" => inbox[s] # "processed"
        /\ worker.at # "decode" => inbox[s] = "processed"
        /\ worker.at = "dispose" => job[s] = "succeeded"

\* What the cleanup worker's query returned is still what it asked for.
Condemned(s) ==
    /\ s \in victims => disposition[s] = "disposable" /\ job[s] \in {"succeeded", "abandoned"}
    /\ removed = s => s \in victims

Sound(s) ==
    /\ Uncommitted(s) /\ Waits(s) /\ Done(s) /\ Heard(s) /\ Held(s) /\ Condemned(s)

LifecycleInv == TypeOK /\ \A s \in Segments : Sound(s)

-----------------------------------------------------------------------------
\* Every step is one of a segment, or another one.
SegmentStep(s) ==
    \/ Listener(s) \/ Queue(s) \/ PruneRow(s)
    \/ WorkOn(s) /\ worker.on = s
    \/ RemoveFile(s) \/ MarkDeleted(s)

OtherStep ==
    \/ ListenerCrash \/ CommitConversation \/ Shutdown \/ Stopped \/ WorkerCrash
    \/ Sweep \/ FindVictims \/ CleanerCrash
    \/ \E c \in conversations : Analyse(c) \/ CaptureEvidence(c)
    \/ UNCHANGED vars

-----------------------------------------------------------------------------
(* Types.                                                                  *)

LEMMA FaultsTyped ==
    ASSUME TypeOK, NEW kinds, Suffer(kinds)
    PROVE  faults' \in [{"crash", "raise", "lost"} -> Nat]
BY DEF TypeOK, Suffer

LEMMA FileTyped ==
    ASSUME TypeOK, NEW s \in Segments, NEW others, DeleteFile(s, others)
    PROVE  /\ file' \in [Segments -> {"none", "present", "gone"}]
           /\ faults' \in [{"crash", "raise", "lost"} -> Nat]
<1>1. faults' \in [{"crash", "raise", "lost"} -> Nat]
    BY FaultsTyped DEF DeleteFile
<1>2. QED
    BY <1>1 DEF DeleteFile, TypeOK

LEMMA InitTyped == Init => TypeOK
BY DEF Init, TypeOK, Idle, Stage

\* The steps of one segment.
LEMMA SegmentStepTyped ==
    ASSUME TypeOK, NEW s \in Segments, SegmentStep(s)
    PROVE  TypeOK'
<1> USE DEF rowVars, memoryVars, resultVars, cleanerVars, GoTo, Idle, Stage
<1>1. CASE WriteBytes(s)
    BY <1>1 DEF TypeOK, WriteBytes
<1>2. CASE CommitSegment(s)
    BY <1>2 DEF TypeOK, CommitSegment
<1>3. CASE Rollback(s)
    BY <1>3, FileTyped DEF TypeOK, Rollback
<1>4. CASE GrowOld(s)
    BY <1>4 DEF TypeOK, GrowOld
<1>5. CASE Dispatch(s)
    BY <1>5 DEF TypeOK, Dispatch
<1>6. CASE Expire(s)
    BY <1>6 DEF TypeOK, Expire
<1>7. CASE Receive(s)
    BY <1>7 DEF TypeOK, Receive
<1>8. CASE PruneRow(s)
    BY <1>8 DEF TypeOK, PruneRow
<1>9. CASE SkipProcessed(s)
    BY <1>9 DEF TypeOK, SkipProcessed
<1>10. CASE SkipStale(s)
    BY <1>10 DEF TypeOK, SkipStale, Released
<1>11. CASE Read(s)
    BY <1>11 DEF TypeOK, Read
<1>12. CASE Reject(s)
    <2>1. faults' \in [{"crash", "raise", "lost"} -> Nat]
        BY <1>12, FaultsTyped DEF Reject
    <2>2. QED
        BY <1>12, <2>1 DEF TypeOK, Reject
<1>13. CASE StoreTranscript(s)
    BY <1>13 DEF TypeOK, StoreTranscript
<1>14. CASE Fold(s)
    <2> PICK before \in BOOLEAN, after \in BOOLEAN : FoldInto(s, before, after)
        BY <1>14 DEF Fold
    <2>1. lead' \subseteq Segments /\ open' \subseteq Segments /\ closing' \subseteq SUBSET Segments
        BY DEF FoldInto, TypeOK
    <2>2. QED
        BY <1>14, <2>1 DEF TypeOK, Fold
<1>15. CASE MarkSucceeded(s)
    BY <1>15 DEF TypeOK, MarkSucceeded
<1>16. CASE MarkDisposition(s)
    BY <1>16 DEF TypeOK, MarkDisposition, Verdict
<1>17. CASE DeleteMessage(s)
    BY <1>17 DEF TypeOK, DeleteMessage
<1>18. CASE Raise(s)
    <2>1. faults' \in [{"crash", "raise", "lost"} -> Nat]
        BY <1>18, FaultsTyped DEF Raise
    <2>2. QED
        BY <1>18, <2>1 DEF TypeOK, Raise
<1>19. CASE RemoveFile(s)
    BY <1>19, FileTyped DEF TypeOK, RemoveFile
<1>20. CASE MarkDeleted(s)
    BY <1>20 DEF TypeOK, MarkDeleted
<1>21. QED
    BY <1>1, <1>2, <1>3, <1>4, <1>5, <1>6, <1>7, <1>8, <1>9, <1>10, <1>11, <1>12, <1>13,
       <1>14, <1>15, <1>16, <1>17, <1>18, <1>19, <1>20 DEF Listener, Queue, WorkOn, SegmentStep

LEMMA OtherStepTyped ==
    ASSUME TypeOK, OtherStep
    PROVE  TypeOK'
<1> USE DEF rowVars, memoryVars, resultVars, cleanerVars, GoTo, Idle, Stage
<1>1. CASE ListenerCrash
    <2>1. faults' \in [{"crash", "raise", "lost"} -> Nat]
        BY <1>1, FaultsTyped DEF ListenerCrash
    <2>2. QED
        BY <1>1, <2>1 DEF TypeOK, ListenerCrash
<1>2. CASE CommitConversation
    BY <1>2 DEF TypeOK, CommitConversation
<1>3. CASE Shutdown
    BY <1>3 DEF TypeOK, Shutdown, Flushed
<1>4. CASE Stopped
    <2>1. faults' \in [{"crash", "raise", "lost"} -> Nat]
        BY <1>4, FaultsTyped DEF Stopped
    <2>2. QED
        BY <1>4, <2>1 DEF TypeOK, Stopped
<1>5. CASE WorkerCrash
    <2>1. faults' \in [{"crash", "raise", "lost"} -> Nat]
        BY <1>5, FaultsTyped DEF WorkerCrash
    <2>2. QED
        BY <1>5, <2>1 DEF TypeOK, WorkerCrash
<1>6. CASE Sweep
    BY <1>6 DEF TypeOK, Sweep, Orphan, Released
<1>7. CASE FindVictims
    BY <1>7 DEF TypeOK, FindVictims
<1>8. CASE CleanerCrash
    <2>1. faults' \in [{"crash", "raise", "lost"} -> Nat]
        BY <1>8, FaultsTyped DEF CleanerCrash
    <2>2. QED
        BY <1>8, <2>1 DEF TypeOK, CleanerCrash
<1>9. CASE \E c \in conversations : Analyse(c)
    BY <1>9 DEF TypeOK, Analyse
<1>10. CASE \E c \in conversations : CaptureEvidence(c)
    BY <1>10 DEF TypeOK, CaptureEvidence, SegmentRows
<1>11. CASE UNCHANGED vars
    BY <1>11 DEF TypeOK, vars
<1>12. QED
    BY <1>1, <1>2, <1>3, <1>4, <1>5, <1>6, <1>7, <1>8, <1>9, <1>10, <1>11 DEF OtherStep

LEMMA Steps == [Next]_vars => (\E s \in Segments : SegmentStep(s)) \/ OtherStep
BY DEF Next, Handle, CleanUp, SegmentStep, OtherStep

LEMMA StepTyped == TypeOK /\ [Next]_vars => TypeOK'
BY Steps, SegmentStepTyped, OtherStepTyped

-----------------------------------------------------------------------------
(* The invariant.                                                          *)

LEMMA InitSound == Init => \A s \in Segments : Sound(s)
BY SegmentsAssumption DEF Init, Idle, Sound, Uncommitted, Waits, Done, Heard, Held, Condemned

\* The conditions on the segment r, whatever is done to the segment s.
LEMMA SegmentStepSound ==
    ASSUME TypeOK, \A q \in Segments : Sound(q), NEW s \in Segments, NEW r \in Segments,
           SegmentStep(s)
    PROVE  Sound(r)'
<1> USE SegmentsAssumption
    DEF rowVars, memoryVars, resultVars, cleanerVars, GoTo, Idle, TypeOK, Sound, Uncommitted,
        Waits, Done, Heard, Held, Condemned
<1>1. CASE WriteBytes(s)
    BY <1>1 DEF WriteBytes
<1>2. CASE CommitSegment(s)
    BY <1>2 DEF CommitSegment
<1>3. CASE Rollback(s)
    BY <1>3 DEF Rollback, DeleteFile
<1>4. CASE GrowOld(s)
    BY <1>4 DEF GrowOld
<1>5. CASE Dispatch(s)
    BY <1>5 DEF Dispatch
<1>6. CASE Expire(s)
    BY <1>6 DEF Expire
<1>7. CASE Receive(s)
    BY <1>7 DEF Receive
<1>8. CASE PruneRow(s)
    BY <1>8 DEF PruneRow
<1>9. CASE SkipProcessed(s) /\ worker.on = s
    BY <1>9 DEF SkipProcessed
<1>10. CASE SkipStale(s) /\ worker.on = s
    BY <1>10 DEF SkipStale, ToHandle, Released, Kept
<1>11. CASE Read(s) /\ worker.on = s
    BY <1>11 DEF Read, ToHandle
<1>12. CASE Reject(s) /\ worker.on = s
    BY <1>12 DEF Reject, ToHandle
<1>13. CASE StoreTranscript(s) /\ worker.on = s
    BY <1>13 DEF StoreTranscript
<1>14. CASE Fold(s) /\ worker.on = s
    BY <1>14 DEF Fold
<1>15. CASE MarkSucceeded(s) /\ worker.on = s
    BY <1>15 DEF MarkSucceeded
<1>16. CASE MarkDisposition(s) /\ worker.on = s
    BY <1>16 DEF MarkDisposition, Verdict
<1>17. CASE DeleteMessage(s) /\ worker.on = s
    BY <1>17 DEF DeleteMessage
<1>18. CASE Raise(s) /\ worker.on = s
    BY <1>18 DEF Raise, ToHandle
<1>19. CASE RemoveFile(s)
    BY <1>19 DEF RemoveFile, DeleteFile
<1>20. CASE MarkDeleted(s)
    BY <1>20 DEF MarkDeleted
<1>21. QED
    BY <1>1, <1>2, <1>3, <1>4, <1>5, <1>6, <1>7, <1>8, <1>9, <1>10, <1>11, <1>12, <1>13,
       <1>14, <1>15, <1>16, <1>17, <1>18, <1>19, <1>20 DEF Listener, Queue, WorkOn, SegmentStep

LEMMA OtherStepSound ==
    ASSUME TypeOK, \A q \in Segments : Sound(q), NEW r \in Segments,
           OtherStep
    PROVE  Sound(r)'
<1> USE SegmentsAssumption
    DEF rowVars, memoryVars, resultVars, cleanerVars, GoTo, Idle, TypeOK, Sound, Uncommitted,
        Waits, Done, Heard, Held, Condemned
<1>1. CASE ListenerCrash
    BY <1>1 DEF ListenerCrash
<1>2. CASE CommitConversation
    BY <1>2 DEF CommitConversation
<1>3. CASE Shutdown
    BY <1>3 DEF Shutdown
<1>4. CASE Stopped
    BY <1>4 DEF Stopped
<1>5. CASE WorkerCrash
    BY <1>5 DEF WorkerCrash
<1>6. CASE Sweep
    BY <1>6 DEF Sweep, Orphan, Released, Kept
<1>7. CASE FindVictims
    BY <1>7 DEF FindVictims, Deletable
<1>8. CASE CleanerCrash
    BY <1>8 DEF CleanerCrash
<1>9. CASE \E c \in conversations : Analyse(c) \/ CaptureEvidence(c)
    BY <1>9 DEF Analyse, CaptureEvidence
<1>10. CASE UNCHANGED vars
    BY <1>10 DEF vars
<1>11. QED
    BY <1>1, <1>2, <1>3, <1>4, <1>5, <1>6, <1>7, <1>8, <1>9, <1>10 DEF OtherStep

LEMMA StepKeeps == LifecycleInv /\ [Next]_vars => LifecycleInv'
BY Steps, StepTyped, SegmentStepSound, OtherStepSound DEF LifecycleInv

LEMMA InvAlways == Spec => []LifecycleInv
<1>1. Init => LifecycleInv
    BY InitTyped, InitSound DEF LifecycleInv
<1>2. QED
    BY <1>1, StepKeeps, PTL DEF Spec

-----------------------------------------------------------------------------
\* Every variable keeps its type: no action of listener, worker, sweeper and
\* cleanup worker writes a status outside the CHECKs of the tables (registry.py:176).
THEOREM LifecycleTyped == Spec => []TypeOK
<1>1. LifecycleInv => TypeOK
    BY DEF LifecycleInv
<1>2. QED
    BY <1>1, InvAlways, PTL

\* No job waits for audio that is gone, and the audio of a transcribed hit is
\* on disk, whatever listener, worker, sweeper and cleanup worker do between
\* each other's transactions and wherever they die (cleanup.py:15,
\* listener.py:262).
THEOREM AudioIsKept == Spec => []NeededAudioKept
<1>1. LifecycleInv => NeededAudioKept
    BY DEF LifecycleInv, NeededAudioKept, Sound, Waits, Heard
<1>2. QED
    BY <1>1, InvAlways, PTL

-----------------------------------------------------------------------------
(* What a row says of the audio is not taken back.                         *)

LEMMA SegmentStepFinal ==
    ASSUME TypeOK, \A q \in Segments : Sound(q), NEW s \in Segments, NEW r \in Segments,
           SegmentStep(s)
    PROVE  /\ disposition[r] = "retained" => disposition'[r] = "retained"
           /\ disposition[r] = "deleted" => disposition'[r] \in {"deleted", "none"}
<1> USE DEF TypeOK
<1>1. CASE CommitSegment(s)
    BY <1>1 DEF CommitSegment, Sound, Uncommitted
<1>2. CASE PruneRow(s)
    BY <1>2 DEF PruneRow
<1>3. CASE SkipStale(s)
    BY <1>3 DEF SkipStale, Released, Kept
<1>4. CASE MarkDisposition(s) /\ worker.on = s
    BY <1>4 DEF MarkDisposition, Sound, Held
<1>5. CASE MarkDeleted(s)
    BY <1>5, SegmentsAssumption DEF MarkDeleted, Sound, Condemned
<1>6. CASE UNCHANGED disposition
    BY <1>6
<1>7. CASE RemoveFile(s) \/ WriteBytes(s) \/ Rollback(s) \/ Queue(s)
    BY <1>6, <1>7 DEF RemoveFile, WriteBytes, Rollback, Queue, GrowOld, Dispatch, Expire, Receive,
                 rowVars
<1>8. CASE \/ SkipProcessed(s) \/ Read(s) \/ Reject(s) \/ StoreTranscript(s) \/ Fold(s)
           \/ MarkSucceeded(s) \/ DeleteMessage(s) \/ Raise(s)
    BY <1>6, <1>8 DEF SkipProcessed, Read, Reject, StoreTranscript, Fold, MarkSucceeded,
                 DeleteMessage, Raise, rowVars
<1>9. QED
    BY <1>1, <1>2, <1>3, <1>4, <1>5, <1>7, <1>8 DEF Listener, WorkOn, SegmentStep

LEMMA OtherStepFinal ==
    ASSUME TypeOK, NEW r \in Segments,
           OtherStep
    PROVE  /\ disposition[r] = "retained" => disposition'[r] = "retained"
           /\ disposition[r] = "deleted" => disposition'[r] \in {"deleted", "none"}
<1>1. CASE Sweep
    BY <1>1 DEF Sweep, Released, Kept, TypeOK
<1>2. CASE UNCHANGED disposition
    BY <1>2
<1>3. CASE ListenerCrash \/ CommitConversation \/ Shutdown \/ Stopped \/ WorkerCrash
    BY <1>2, <1>3 DEF ListenerCrash, CommitConversation, Shutdown, Stopped, WorkerCrash, rowVars
<1>4. CASE \/ FindVictims \/ CleanerCrash \/ UNCHANGED vars
           \/ \E c \in conversations : Analyse(c) \/ CaptureEvidence(c)
    BY <1>2, <1>4 DEF FindVictims, CleanerCrash, Analyse, CaptureEvidence, rowVars, vars
<1>5. QED
    BY <1>1, <1>3, <1>4 DEF OtherStep

\* A verdict on a segment's audio is final, though the worker writes it without
\* looking (transcription.py:406), the sweeper and a stale skip write theirs,
\* and the cleanup worker acts on the answer of an older query (cleanup.py:114).
THEOREM VerdictIsFinal == Spec => DispositionIsFinal
<1>1. LifecycleInv /\ [Next]_vars =>
        [\A s \in Segments :
          /\ disposition[s] = "retained" => disposition'[s] = "retained"
          /\ disposition[s] = "deleted" => disposition'[s] \in {"deleted", "none"}]_vars
    BY Steps, SegmentStepFinal, OtherStepFinal DEF LifecycleInv
<1>2. QED
    BY <1>1, InvAlways, PTL DEF Spec, DispositionIsFinal

-----------------------------------------------------------------------------
(* No file is stranded.                                                    *)

\* Of a victim whose file was to be removed, the file is gone.
Stranded(s) ==
    faults["crash"] = 0 /\ faults["lost"] = 0 =>
        /\ s \notin writing /\ file[s] = "present" => disposition[s] \notin {"none", "deleted"}
        /\ removed = s => file[s] = "gone"

\* A fault of a kind that has not happened by now did not happen in this step.
LEMMA FaultsCount ==
    ASSUME TypeOK, NEW kinds, Suffer(kinds), NEW k \in {"crash", "raise", "lost"}, faults'[k] = 0
    PROVE  faults[k] = 0 /\ k \notin kinds
<1>1. faults[k] \in Nat /\ faults'[k] = faults[k] + (IF k \in kinds THEN 1 ELSE 0)
    BY DEF TypeOK, Suffer
<1>2. QED
    BY <1>1

\* The faults a step may have had for its kind not to have happened.
LEMMA FaultsGrow ==
    ASSUME TypeOK, [Next]_vars, NEW k \in {"crash", "raise", "lost"}, faults'[k] = 0
    PROVE  faults[k] = 0
<1>1. \/ faults' = faults
      \/ \E kinds \in SUBSET {"crash", "raise", "lost"} : Suffer(kinds)
    <2>1. CASE \/ ListenerCrash \/ WorkerCrash \/ CleanerCrash \/ Stopped
               \/ \E s \in Segments : Raise(s) \/ Reject(s)
        BY <2>1 DEF ListenerCrash, WorkerCrash, CleanerCrash, Stopped, Raise, Reject
    <2>2. CASE \E s \in Segments : Rollback(s) \/ RemoveFile(s)
        BY <2>2 DEF Rollback, RemoveFile, DeleteFile
    <2>3. CASE \E s \in Segments : \/ WriteBytes(s) \/ CommitSegment(s) \/ Queue(s) \/ PruneRow(s)
                                   \/ MarkDeleted(s)
        BY <2>3 DEF WriteBytes, CommitSegment, Queue, GrowOld, Dispatch, Expire, Receive, PruneRow,
           MarkDeleted
    <2>4. CASE \E s \in Segments : \/ SkipProcessed(s) \/ SkipStale(s) \/ Read(s)
                                   \/ StoreTranscript(s) \/ Fold(s) \/ MarkSucceeded(s)
                                   \/ MarkDisposition(s) \/ DeleteMessage(s)
        BY <2>4 DEF SkipProcessed, SkipStale, Read, StoreTranscript, Fold, MarkSucceeded,
           MarkDisposition, DeleteMessage
    <2>5. CASE \/ CommitConversation \/ Shutdown \/ Sweep \/ FindVictims \/ UNCHANGED vars
               \/ \E c \in conversations : Analyse(c) \/ CaptureEvidence(c)
        BY <2>5 DEF CommitConversation, Shutdown, Sweep, FindVictims, vars, Analyse, CaptureEvidence
    <2>6. QED
        BY <2>1, <2>2, <2>3, <2>4, <2>5 DEF Next, Listener, Handle, WorkOn, CleanUp
<1>2. QED
    BY <1>1, FaultsCount

LEMMA SegmentStepUnstranded ==
    ASSUME TypeOK, \A q \in Segments : Sound(q) /\ Stranded(q),
           NEW s \in Segments, NEW r \in Segments, SegmentStep(s),
           faults["crash"] = 0, faults["lost"] = 0, faults'["lost"] = 0
    PROVE  /\ r \notin writing' /\ file'[r] = "present" => disposition'[r] \notin {"none", "deleted"}
           /\ removed' = r => file'[r] = "gone"
<1> USE SegmentsAssumption
    DEF rowVars, memoryVars, resultVars, cleanerVars, TypeOK, Sound, Uncommitted, Waits, Stranded
<1>0. ASSUME NEW others, DeleteFile(s, others) PROVE file' = [file EXCEPT ![s] = "gone"]
    BY <1>0, FaultsCount DEF DeleteFile
<1>1. CASE WriteBytes(s)
    BY <1>1 DEF WriteBytes
<1>2. CASE CommitSegment(s)
    BY <1>2 DEF CommitSegment
<1>3. CASE Rollback(s)
    <2>1. file' = [file EXCEPT ![s] = "gone"]
        BY <1>0, <1>3 DEF Rollback
    <2>2. QED
        BY <1>3, <2>1 DEF Rollback
<1>4. CASE Queue(s)
    BY <1>4 DEF Queue, GrowOld, Dispatch, Expire, Receive
<1>5. CASE PruneRow(s)
    BY <1>5 DEF PruneRow
<1>6. CASE \/ SkipProcessed(s) \/ Read(s) \/ Reject(s) \/ StoreTranscript(s) \/ Fold(s)
           \/ MarkSucceeded(s) \/ DeleteMessage(s) \/ Raise(s)
    BY <1>6 DEF SkipProcessed, Read, Reject, StoreTranscript, Fold, MarkSucceeded,
       DeleteMessage, Raise
<1>7. CASE SkipStale(s)
    BY <1>7 DEF SkipStale, Released
<1>8. CASE MarkDisposition(s)
    BY <1>8 DEF MarkDisposition, Verdict
<1>9. CASE RemoveFile(s)
    <2>1. file' = [file EXCEPT ![s] = "gone"]
        BY <1>0, <1>9 DEF RemoveFile
    <2>2. QED
        BY <1>9, <2>1 DEF RemoveFile
<1>10. CASE MarkDeleted(s)
    BY <1>10 DEF MarkDeleted
<1>11. QED
    BY <1>1, <1>2, <1>3, <1>4, <1>5, <1>6, <1>7, <1>8, <1>9, <1>10 DEF Listener, WorkOn, SegmentStep

LEMMA OtherStepUnstranded ==
    ASSUME TypeOK, \A q \in Segments : Sound(q) /\ Stranded(q),
           NEW r \in Segments, OtherStep,
           faults["crash"] = 0, faults["lost"] = 0, faults'["crash"] = 0
    PROVE  /\ r \notin writing' /\ file'[r] = "present" => disposition'[r] \notin {"none", "deleted"}
           /\ removed' = r => file'[r] = "gone"
<1> USE DEF rowVars, memoryVars, resultVars, cleanerVars, TypeOK, Stranded
<1>1. CASE ListenerCrash \/ WorkerCrash \/ CleanerCrash
    BY <1>1, FaultsCount DEF ListenerCrash, WorkerCrash, CleanerCrash
<1>2. CASE CommitConversation \/ Shutdown \/ Stopped
    BY <1>2 DEF CommitConversation, Shutdown, Stopped
<1>3. CASE Sweep
    BY <1>3 DEF Sweep, Released
<1>4. CASE FindVictims
    BY <1>4 DEF FindVictims
<1>5. CASE \/ UNCHANGED vars
           \/ \E c \in conversations : Analyse(c) \/ CaptureEvidence(c)
    BY <1>5 DEF vars, Analyse, CaptureEvidence
<1>6. QED
    BY <1>1, <1>2, <1>3, <1>4, <1>5 DEF OtherStep

\* Unless a process died or the disk refused, a file is about to be committed
\* or a row refers to it, however exceptions, the sweeper and the deletion by an
\* older query interleave (listener.py:266-270).
THEOREM NoFileIsStranded == Spec => []NoStrandedFile
<1> DEFINE AllStranded == \A s \in Segments : Stranded(s)
<1>1. Init => AllStranded
    BY SegmentsAssumption DEF Init, Stranded
<1>2. LifecycleInv /\ AllStranded /\ [Next]_vars => AllStranded'
    <2> SUFFICES ASSUME LifecycleInv, AllStranded, [Next]_vars, NEW r \in Segments,
                        faults'["crash"] = 0, faults'["lost"] = 0
                 PROVE  /\ r \notin writing' /\ file'[r] = "present"
                               => disposition'[r] \notin {"none", "deleted"}
                        /\ removed' = r => file'[r] = "gone"
        BY DEF Stranded
    <2>1. faults["crash"] = 0 /\ faults["lost"] = 0
        BY FaultsGrow DEF LifecycleInv
    <2>2. QED
        BY <2>1, Steps, SegmentStepUnstranded, OtherStepUnstranded DEF LifecycleInv
<1>3. AllStranded => NoStrandedFile
    BY DEF NoStrandedFile, Stranded
<1> HIDE DEF AllStranded
<1>4. QED
    BY <1>1, <1>2, <1>3, InvAlways, PTL DEF Spec

-----------------------------------------------------------------------------
(* Where a hit is.                                                         *)

\* Conversations are closed only to be committed, and analysed only when they are.
Settled ==
    /\ worker.at \notin {"commit", "flush"} => closing = {}
    /\ mentions \subseteq conversations

\* A hit is in one place at a time, from the moment it is folded in.
Placed(s) ==
    s \in hits =>
        /\ s \notin lead
        /\ s \in open => s \notin (UNION closing) \cup (UNION conversations)
        /\ \A c, e \in closing : s \in c /\ s \in e => c = e
        /\ s \in UNION closing => s \notin UNION conversations
        /\ \A c \in conversations : s \in c => stamp[s] = c
        /\ s \in open \cup (UNION closing) \cup (UNION conversations) =>
              s \in transcripts /\ ~(worker.at = "fold" /\ worker.on = s)
        /\ worker.at = "fold" /\ worker.on = s => s \in transcripts

PlacedInv == LifecycleInv /\ Settled /\ (\A s \in Segments : Placed(s)) /\ ClipHasEveryHit

\* The steps that fold, close or commit, or touch a transcript.
Moves(s) ==
    \/ (StoreTranscript(s) \/ Fold(s) \/ MarkSucceeded(s) \/ Raise(s)) /\ worker.on = s
    \/ PruneRow(s)

LEMMA OnlyMoves ==
    ASSUME TypeOK, NEW s \in Segments, SegmentStep(s), ~Moves(s)
    PROVE  /\ UNCHANGED <<hits, transcripts, stamp, memoryVars, conversations, mentions, clips>>
           /\ worker' = worker \/ worker'.at \in {"idle", "check", "decode", "delete"}
           /\ worker.at \in {"fold", "commit", "flush"} => worker' = worker
<1> USE DEF rowVars, memoryVars, resultVars, cleanerVars, GoTo, Idle, TypeOK
<1>1. CASE Listener(s)
    BY <1>1 DEF Listener, WriteBytes, CommitSegment, Rollback
<1>2. CASE Queue(s)
    BY <1>2 DEF Queue, GrowOld, Dispatch, Expire, Receive
<1>3. CASE RemoveFile(s) \/ MarkDeleted(s)
    BY <1>3 DEF RemoveFile, MarkDeleted
<1>4. CASE SkipProcessed(s) \/ SkipStale(s) \/ Read(s)
    BY <1>4 DEF SkipProcessed, SkipStale, Read, ToHandle
<1>5. CASE Reject(s) \/ MarkDisposition(s) \/ DeleteMessage(s)
    BY <1>5 DEF Reject, MarkDisposition, DeleteMessage, ToHandle
<1>6. QED
    BY <1>1, <1>2, <1>3, <1>4, <1>5 DEF WorkOn, SegmentStep, Moves

\* A hit that is in a conversation has its audio row and its transcript.
LEMMA PlacedIsHeard ==
    ASSUME PlacedInv, NEW s \in hits, s \in open \cup (UNION closing) \cup (UNION conversations)
    PROVE  /\ s \in Segments /\ s \in transcripts /\ inbox[s] = "processed"
           /\ disposition[s] \in {"pending", "retained"}
BY DEF PlacedInv, LifecycleInv, TypeOK, Sound, Heard, Placed

LEMMA FoldPlaces ==
    ASSUME PlacedInv, NEW s \in Segments, worker.on = s, Fold(s), NEW r \in Segments
    PROVE  Placed(r)'
<1>0. Placed(r)
    BY DEF PlacedInv
<1>1. closing = {} /\ worker.at = "fold" /\ worker'.at = "commit"
    BY DEF Fold, GoTo, PlacedInv, Settled, LifecycleInv, TypeOK
<1>2. UNCHANGED <<hits, transcripts, stamp, conversations>>
    BY DEF Fold, rowVars, resultVars
<1>3. PICK before \in BOOLEAN, after \in BOOLEAN : FoldInto(s, before, after)
    BY DEF Fold
<1> SUFFICES ASSUME r \in hits PROVE Placed(r)'
    BY <1>0, <1>2 DEF Placed
<1>4. r \notin lead /\ (s = r => r \in transcripts)
    BY <1>0, <1>1 DEF Placed
<1>5. r \in open => r # s /\ r \notin UNION conversations /\ r \in transcripts
    <2>1. ASSUME r \in open PROVE r \notin UNION conversations /\ r \in transcripts /\ ~(worker.on = r)
        BY <1>0, <1>1, <2>1, Zenon DEF Placed
    <2>2. QED
        BY <2>1
<1>6. r \in UNION conversations => r # s
    <2>1. ASSUME r \in UNION conversations PROVE ~(worker.on = r)
        BY <1>0, <1>1, <2>1, Zenon DEF Placed
    <2>2. QED
        BY <2>1
<1>7. CASE before = TRUE
    <2>1. /\ r \notin lead'
          /\ \A c \in closing' : c = open \/ (c = {s} /\ after = TRUE)
          /\ r \in open' => r = s /\ after = FALSE
        BY <1>3, <1>7 DEF FoldInto
    <2>2. r \in open' \cup (UNION closing') => r \in open \/ r = s
        BY <2>1
    <2>3. r \in open' => r \notin UNION closing'
        BY <1>5, <2>1
    <2>4. \A c, e \in closing' : r \in c /\ r \in e => c = e
        BY <1>5, <2>1
    <2>5. QED
        BY <1>0, <1>1, <1>2, <1>4, <1>5, <1>6, <2>1, <2>2, <2>3, <2>4 DEF Placed
<1>8. CASE before = FALSE
    <2>1. r \notin lead'
        BY <1>3, <1>4, <1>8 DEF FoldInto
    <2>2. \/ after = TRUE /\ open' = {} /\ closing' \subseteq {open \cup lead \cup {s}}
          \/ after = FALSE /\ closing' = {} /\ open' \subseteq open \cup lead \cup {s}
        BY <1>3, <1>8 DEF FoldInto
    <2>3. /\ r \in open' \cup (UNION closing') => r \in open \/ r = s
          /\ r \in open' => r \notin UNION closing'
          /\ \A c, e \in closing' : c = e
        <3>1. CASE after = TRUE
            BY <1>4, <2>2, <3>1
        <3>2. CASE after = FALSE
            BY <1>4, <2>2, <3>2
        <3>3. QED
            BY <3>1, <3>2
    <2>4. QED
        BY <1>0, <1>1, <1>2, <1>4, <1>5, <1>6, <2>1, <2>3 DEF Placed
<1>9. QED
    BY <1>7, <1>8

LEMMA MovesPlace ==
    ASSUME PlacedInv, NEW s \in Segments, SegmentStep(s), Moves(s), NEW r \in Segments
    PROVE  Placed(r)' /\ Settled'
<1> DEFINE Goal == Placed(r)' /\ Settled'
<1> USE DEF rowVars, memoryVars, resultVars, cleanerVars, GoTo, Idle
<1>0. /\ Placed(r) /\ Settled /\ TypeOK /\ Sound(s)
      /\ r \in hits /\ r \in open \cup (UNION closing) \cup (UNION conversations) =>
            inbox[r] = "processed" /\ disposition[r] \in {"pending", "retained"}
    BY PlacedIsHeard DEF PlacedInv, LifecycleInv
<1>1. ASSUME StoreTranscript(s), worker.on = s PROVE Goal
    <2>1. worker.at = "decode" /\ inbox[s] # "processed" /\ closing = {} /\ worker'.at = "fold"
          /\ worker'.on = s
        BY <1>0, <1>1 DEF StoreTranscript, Sound, Held, Settled, TypeOK
    <2>2. UNCHANGED <<hits, stamp, memoryVars, resultVars>> /\ transcripts' = transcripts \cup {s}
        BY <1>1 DEF StoreTranscript
    <2>3. r \in hits /\ r \in open \cup (UNION closing) \cup (UNION conversations) => r # s
        BY <1>0, <2>1
    <2>4. QED
        BY <1>0, <2>1, <2>2, <2>3 DEF Placed, Settled
<1>2. ASSUME Fold(s), worker.on = s PROVE Goal
    <2>1. Settled'
        BY <1>0, <1>2 DEF Settled, Fold, TypeOK
    <2>2. QED
        BY <1>2, <2>1, FoldPlaces
<1>3. ASSUME MarkSucceeded(s) PROVE Goal
    BY <1>0, <1>3 DEF MarkSucceeded, Placed, Settled, TypeOK
<1>4. ASSUME Raise(s) PROVE Goal
    BY <1>0, <1>4 DEF Raise, Placed, Settled, TypeOK
<1>5. ASSUME PruneRow(s) PROVE Goal
    <2>1. UNCHANGED <<hits, worker, memoryVars, resultVars>> /\ disposition[s] = "deleted"
        BY <1>5 DEF PruneRow
    <2>2. r # s => (r \in transcripts' <=> r \in transcripts) /\ stamp'[r] = stamp[r]
        BY <1>0, <1>5 DEF PruneRow, TypeOK
    <2>3. r = s /\ r \in hits => r \notin open \cup (UNION closing) \cup (UNION conversations)
        BY <1>0, <2>1
    <2>4. ~(worker.at = "fold" /\ worker.on = s)
        BY <1>0, <2>1 DEF Sound, Held
    <2>5. QED
        BY <1>0, <2>1, <2>2, <2>3, <2>4 DEF Placed, Settled
<1> HIDE DEF Goal
<1>6. Goal
    BY <1>1, <1>2, <1>3, <1>4, <1>5 DEF Moves
<1>7. QED
    BY <1>6 DEF Goal

LEMMA OtherStepSettles == TypeOK /\ Settled /\ OtherStep => Settled'
<1> SUFFICES ASSUME TypeOK, Settled, OtherStep PROVE Settled'
    OBVIOUS
<1> USE DEF Settled, rowVars, memoryVars, resultVars, cleanerVars, GoTo, Idle
<1>1. CASE \/ ListenerCrash \/ Sweep \/ FindVictims \/ CleanerCrash \/ UNCHANGED vars
           \/ \E c \in conversations : Analyse(c) \/ CaptureEvidence(c)
    BY <1>1 DEF ListenerCrash, Sweep, FindVictims, CleanerCrash, vars, Analyse, CaptureEvidence
<1>2. CASE CommitConversation
    BY <1>2 DEF CommitConversation
<1>3. CASE Shutdown
    BY <1>3 DEF Shutdown, TypeOK
<1>4. CASE Stopped \/ WorkerCrash
    BY <1>4 DEF Stopped, WorkerCrash
<1>5. QED
    BY <1>1, <1>2, <1>3, <1>4 DEF OtherStep

LEMMA OtherStepPlaces ==
    ASSUME PlacedInv, OtherStep, NEW r \in Segments
    PROVE  Placed(r)'
<1> DEFINE Goal == Placed(r)'
<1> USE DEF rowVars, memoryVars, resultVars, cleanerVars, GoTo, Idle
<1>0. Placed(r) /\ Settled /\ TypeOK
    BY DEF PlacedInv, LifecycleInv
<1>1. ASSUME \/ ListenerCrash \/ Sweep \/ FindVictims \/ CleanerCrash \/ UNCHANGED vars
             \/ \E c \in conversations : CaptureEvidence(c)
      PROVE  Goal
    <2>1. UNCHANGED <<hits, transcripts, stamp, worker, memoryVars, conversations, mentions>>
        BY <1>1 DEF ListenerCrash, Sweep, FindVictims, CleanerCrash, vars, CaptureEvidence
    <2>2. QED
        BY <1>0, <2>1 DEF Placed
<1>2. ASSUME NEW c \in conversations, Analyse(c) PROVE Goal
    BY <1>0, <1>2 DEF Analyse, Placed, Settled
<1>3. ASSUME CommitConversation PROVE Goal
    <2>1. PICK c \in closing :
              /\ closing' = closing \ {c}
              /\ conversations' = conversations \cup {c}
              /\ stamp' = [s \in Segments |-> IF s \in c \cap transcripts THEN c ELSE stamp[s]]
        BY <1>3 DEF CommitConversation
    <2>2. worker.at \in {"commit", "flush"}
          /\ UNCHANGED <<hits, transcripts, worker, lead, open, mentions>>
        BY <1>3 DEF CommitConversation
    <2>3. CASE r \in hits /\ r \in c
        <3>1. r \in transcripts /\ r \notin UNION conversations /\ r \notin open /\ r \notin lead
            BY <1>0, <2>3 DEF Placed
        <3>2. r \notin UNION closing' /\ \A e \in conversations' : r \in e => e = c
            BY <1>0, <2>1, <2>3, <3>1 DEF Placed
        <3>3. stamp'[r] = c
            BY <2>1, <2>3, <3>1
        <3>4. QED
            BY <1>0, <2>1, <2>2, <2>3, <3>1, <3>2, <3>3 DEF Placed
    <2>4. CASE ~(r \in hits /\ r \in c)
        <3>1. r \in hits => stamp'[r] = stamp[r]
            BY <2>1, <2>4
        <3>2. /\ r \in UNION closing' => r \in UNION closing
              /\ r \in hits /\ r \in UNION conversations' => r \in UNION conversations
            BY <2>1, <2>4
        <3>3. QED
            BY <1>0, <2>1, <2>2, <2>4, <3>1, <3>2 DEF Placed
    <2>5. QED
        BY <2>3, <2>4
<1>4. ASSUME Shutdown PROVE Goal
    <2>1. closing = {} /\ closing' \subseteq {open} /\ open' = {} /\ lead' = {} /\ worker'.at = "flush"
        BY <1>0, <1>4 DEF Shutdown, Flushed, Settled, TypeOK
    <2>2. UNCHANGED <<hits, transcripts, stamp, conversations, mentions>>
        BY <1>4 DEF Shutdown
    <2>3. QED
        BY <1>0, <2>1, <2>2 DEF Placed
<1>5. ASSUME Stopped \/ WorkerCrash PROVE Goal
    <2>1. /\ closing' = {} /\ worker' = Idle /\ open' \subseteq open /\ lead' \subseteq lead
          /\ UNCHANGED <<hits, transcripts, stamp, conversations, mentions>>
        BY <1>5 DEF Stopped, WorkerCrash
    <2>2. QED
        BY <1>0, <2>1 DEF Placed
<1> HIDE DEF Goal
<1>6. Goal
    BY <1>1, <1>2, <1>3, <1>4, <1>5 DEF OtherStep
<1>7. QED
    BY <1>6 DEF Goal

\* Who makes a clip, and that nobody takes a hit back.
LEMMA WhoClips ==
    ASSUME TypeOK, [Next]_vars
    PROVE  /\ hits' = hits
           /\ clips' = clips \/ \E c \in conversations : clips' = clips \cup {<<c, SegmentRows(c)>>}
<1> DEFINE Goal == /\ hits' = hits
                   /\ \/ clips' = clips
                      \/ \E c \in conversations : clips' = clips \cup {<<c, SegmentRows(c)>>}
<1>1. ASSUME NEW s \in Segments, SegmentStep(s) PROVE Goal
    <2>1. CASE Moves(s)
        BY <2>1 DEF Moves, StoreTranscript, Fold, MarkSucceeded, Raise, PruneRow, resultVars
    <2>2. CASE ~Moves(s)
        BY <1>1, <2>2, OnlyMoves
    <2>3. QED
        BY <2>1, <2>2
<1>2. ASSUME NEW c \in conversations, CaptureEvidence(c) PROVE Goal
    BY <1>2 DEF CaptureEvidence
<1>3. ASSUME \/ ListenerCrash \/ CommitConversation \/ Shutdown \/ Stopped \/ WorkerCrash
             \/ Sweep \/ FindVictims \/ CleanerCrash \/ UNCHANGED vars
             \/ \E c \in conversations : Analyse(c)
      PROVE  Goal
    BY <1>3 DEF ListenerCrash, CommitConversation, Shutdown, Stopped, WorkerCrash, Sweep,
       FindVictims, CleanerCrash, Analyse, vars, resultVars
<1> HIDE DEF Goal
<1>4. Goal
    BY <1>1, <1>2, <1>3, Steps DEF OtherStep
<1>5. QED
    BY <1>4 DEF Goal

LEMMA StepKeepsPlaces == PlacedInv /\ [Next]_vars => PlacedInv'
<1> SUFFICES ASSUME PlacedInv, [Next]_vars PROVE PlacedInv'
    OBVIOUS
<1>1. LifecycleInv'
    BY StepKeeps DEF PlacedInv
<1>2. ASSUME NEW s \in Segments, SegmentStep(s) PROVE (\A r \in Segments : Placed(r)') /\ Settled'
    <2>1. CASE Moves(s)
        BY <1>2, <2>1, MovesPlace
    <2>2. CASE ~Moves(s)
        <3>1. /\ UNCHANGED <<hits, transcripts, stamp, memoryVars, conversations, mentions, clips>>
              /\ worker' = worker \/ worker'.at \in {"idle", "check", "decode", "delete"}
              /\ worker.at \in {"fold", "commit", "flush"} => worker' = worker
            BY <1>2, <2>2, OnlyMoves DEF PlacedInv, LifecycleInv
        <3>2. Settled'
            BY <3>1 DEF PlacedInv, Settled, memoryVars
        <3>3. ASSUME NEW r \in Segments PROVE Placed(r)'
            <4>1. Placed(r)
                BY DEF PlacedInv
            <4>2. QED
                BY <3>1, <4>1 DEF Placed, memoryVars
        <3>4. QED
            BY <3>2, <3>3
    <2>3. QED
        BY <2>1, <2>2
<1>3. (\A r \in Segments : Placed(r)') /\ Settled'
    BY <1>2, Steps, OtherStepPlaces, OtherStepSettles DEF PlacedInv, LifecycleInv
<1>4. ClipHasEveryHit'
    <2>1. ASSUME NEW c \in conversations, NEW s \in c \cap hits PROVE s \in SegmentRows(c)
        BY <2>1, PlacedIsHeard DEF PlacedInv, Placed, SegmentRows
    <2>2. QED
        BY <2>1, WhoClips DEF PlacedInv, LifecycleInv, ClipHasEveryHit
<1>5. QED
    BY <1>1, <1>3, <1>4 DEF PlacedInv

LEMMA PlacedAlways == Spec => []PlacedInv
<1>1. Init => PlacedInv
    <2> SUFFICES ASSUME Init PROVE PlacedInv
        OBVIOUS
    <2>1. LifecycleInv
        BY InitTyped, InitSound DEF LifecycleInv
    <2>2. /\ lead = {} /\ open = {} /\ closing = {} /\ conversations = {} /\ mentions = {}
          /\ clips = {} /\ worker.at = "idle"
        BY DEF Init, Idle
    <2>3. Settled /\ ClipHasEveryHit /\ \A s \in Segments : Placed(s)
        BY <2>2 DEF Settled, ClipHasEveryHit, Placed
    <2>4. QED
        BY <2>1, <2>3 DEF PlacedInv
<1>2. QED
    BY <1>1, StepKeepsPlaces, PTL DEF Spec

\* A clip has every hit of its conversation, however late it is captured and
\* whatever was deleted before: a hit is stamped with the one conversation it is
\* in, and its row is never deleted (evidence.py:145-185).
THEOREM ClipsHaveTheirHits == Spec => []ClipHasEveryHit
<1>1. PlacedInv => ClipHasEveryHit
    BY DEF PlacedInv
<1>2. QED
    BY <1>1, PlacedAlways, PTL

-----------------------------------------------------------------------------
(* No hit is forgotten.                                                    *)

LEMMA FoldRemembers ==
    ASSUME PlacedInv, NEW s \in Segments, worker.on = s, Fold(s),
           NEW r \in hits, r \in open \/ r = s
    PROVE  r \in open' \cup (UNION closing')
<1>1. PICK before \in BOOLEAN, after \in BOOLEAN : FoldInto(s, before, after)
    BY DEF Fold
<1>2. CASE before = TRUE /\ after = TRUE
    BY <1>1, <1>2 DEF FoldInto
<1>3. CASE before = TRUE /\ after = FALSE
    BY <1>1, <1>3 DEF FoldInto
<1>4. CASE before = FALSE /\ after = TRUE
    BY <1>1, <1>4 DEF FoldInto
<1>5. CASE before = FALSE /\ after = FALSE
    BY <1>1, <1>5 DEF FoldInto
<1>6. QED
    BY <1>2, <1>3, <1>4, <1>5

LEMMA StepRemembers ==
    ASSUME PlacedInv, AcknowledgedHitsSurvive, [Next]_vars,
           faults'["crash"] = 0, faults'["raise"] = 0
    PROVE  AcknowledgedHitsSurvive'
<1> USE DEF rowVars, memoryVars, resultVars, cleanerVars, GoTo, Idle
<1>0. TypeOK /\ Settled /\ \A s \in Segments : Sound(s)
    BY DEF PlacedInv, LifecycleInv
<1> SUFFICES ASSUME NEW r \in hits', r \in transcripts' PROVE Remembered(r)'
    BY DEF AcknowledgedHitsSurvive
<1>1. r \in hits /\ r \in Segments
    BY <1>0, WhoClips DEF TypeOK
<1>2. r \in transcripts => Remembered(r)
    BY <1>1 DEF AcknowledgedHitsSurvive
<1>3. ASSUME NEW s \in Segments, StoreTranscript(s), worker.on = s PROVE Remembered(r)'
    <2>1. CASE r = s
        BY <1>0, <1>3, <2>1 DEF StoreTranscript, Remembered, TypeOK
    <2>2. CASE r # s
        <3>1. r \in transcripts /\ worker.at # "fold"
            BY <1>3, <2>2 DEF StoreTranscript
        <3>2. UNCHANGED <<open, closing, conversations>>
            BY <1>3 DEF StoreTranscript
        <3>3. QED
            BY <1>2, <3>1, <3>2 DEF Remembered
    <2>3. QED
        BY <2>1, <2>2
<1>4. ASSUME NEW s \in Segments, Fold(s), worker.on = s PROVE Remembered(r)'
    <2>1. closing = {} /\ UNCHANGED <<transcripts, conversations>>
        BY <1>0, <1>4 DEF Fold, Settled
    <2>2. r \in open \/ r = s \/ r \in UNION conversations
        BY <1>2, <1>4, <2>1 DEF Remembered
    <2>3. QED
        BY <1>1, <1>4, <2>1, <2>2, FoldRemembers DEF Remembered
<1>5. ASSUME NEW s \in Segments, MarkSucceeded(s) PROVE Remembered(r)'
    BY <1>2, <1>5 DEF MarkSucceeded, Remembered
<1>6. ASSUME NEW s \in Segments, Raise(s) PROVE Remembered(r)'
    BY <1>0, <1>6, FaultsCount DEF Raise
<1>7. ASSUME NEW s \in Segments, PruneRow(s) PROVE Remembered(r)'
    BY <1>2, <1>7 DEF PruneRow, Remembered
<1>8. ASSUME NEW s \in Segments, SegmentStep(s), ~Moves(s) PROVE Remembered(r)'
    <2>1. /\ UNCHANGED <<hits, transcripts, memoryVars, conversations>>
          /\ worker.at \in {"fold", "commit", "flush"} => worker' = worker
        BY <1>0, <1>8, OnlyMoves
    <2>2. QED
        BY <1>2, <2>1 DEF Remembered
<1>9. ASSUME \/ ListenerCrash \/ Sweep \/ FindVictims \/ CleanerCrash \/ UNCHANGED vars
             \/ \E c \in conversations : Analyse(c) \/ CaptureEvidence(c)
      PROVE  Remembered(r)'
    <2>1. UNCHANGED <<transcripts, worker, open, closing, conversations>>
        BY <1>9 DEF ListenerCrash, Sweep, FindVictims, CleanerCrash, vars, Analyse, CaptureEvidence
    <2>2. QED
        BY <1>2, <2>1 DEF Remembered
<1>10. ASSUME CommitConversation PROVE Remembered(r)'
    <2>1. PICK c \in closing : closing' = closing \ {c} /\ conversations' = conversations \cup {c}
        BY <1>10 DEF CommitConversation
    <2>2. UNCHANGED <<transcripts, worker, open>>
        BY <1>10 DEF CommitConversation
    <2>3. QED
        BY <1>2, <2>1, <2>2 DEF Remembered
<1>11. ASSUME Shutdown PROVE Remembered(r)'
    <2>1. closing = {} /\ worker.at # "fold" /\ UNCHANGED <<transcripts, conversations>>
        BY <1>0, <1>11 DEF Shutdown, Settled
    <2>2. r \in open => r \in UNION closing'
        BY <1>11 DEF Shutdown, Flushed
    <2>3. QED
        BY <1>2, <2>1, <2>2 DEF Remembered
<1>12. ASSUME Stopped PROVE Remembered(r)'
    <2>1. closing = {}
        BY <1>0, <1>12, FaultsCount DEF Stopped
    <2>2. worker.at # "fold" /\ UNCHANGED <<transcripts, open, conversations>>
        BY <1>12 DEF Stopped
    <2>3. QED
        BY <1>2, <2>1, <2>2 DEF Remembered
<1>13. ASSUME WorkerCrash PROVE Remembered(r)'
    BY <1>0, <1>13, FaultsCount DEF WorkerCrash
<1>14. QED
    BY <1>3, <1>4, <1>5, <1>6, <1>7, <1>8, <1>9, <1>10, <1>11, <1>12, <1>13, Steps
       DEF OtherStep, Moves

\* Until a process dies or a step raises, a hit whose message was
\* acknowledged is in a conversation: no order of closing, committing, shutting
\* down and starting again loses one (transcription.py:17-19).
THEOREM HitsSurvive == Spec => []HitsSurviveUntilFailure
<1>1. Init => HitsSurviveUntilFailure
    BY DEF Init, HitsSurviveUntilFailure, AcknowledgedHitsSurvive
<1>2. PlacedInv /\ HitsSurviveUntilFailure /\ [Next]_vars => HitsSurviveUntilFailure'
    <2> SUFFICES ASSUME PlacedInv, HitsSurviveUntilFailure, [Next]_vars,
                        faults'["crash"] = 0, faults'["raise"] = 0
                 PROVE  AcknowledgedHitsSurvive'
        BY DEF HitsSurviveUntilFailure
    <2>1. faults["crash"] = 0 /\ faults["raise"] = 0
        BY FaultsGrow DEF PlacedInv, LifecycleInv
    <2>2. QED
        BY <2>1, StepRemembers DEF HitsSurviveUntilFailure
<1>3. QED
    BY <1>1, <1>2, PlacedAlways, PTL DEF Spec
=============================================================================
