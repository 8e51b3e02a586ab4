--------------------------- MODULE StationSession ---------------------------
(***************************************************************************)
(* One listening session of one station: StationSession in                 *)
(* app/services/stream_supervisor.py.  It decodes a stream into its ring   *)
(* buffer, has every full window classified, cuts what is kept into        *)
(* segments and hands them to the listener; a broken connection starts a   *)
(* new generation of the buffer.                                           *)
(*                                                                         *)
(* The session is one coroutine; `pc' is the await it is suspended at, and *)
(* other coroutines may ask it to stop, or cancel it, at each of them.     *)
(* The sink never raises (listener.py:249).  What the classifier and the   *)
(* policy decide of a window is nondeterministic.  FFmpeg, the back-off    *)
(* delays and the status records are left out.                             *)
(***************************************************************************)
EXTENDS RingBuffer

CONSTANTS
    WindowLen,     \* RADIO_CLASSIFIER_WINDOW_SECONDS
    Chunk,         \* RADIO_SPEECH_CHUNK_SECONDS
    Overlap,       \* RADIO_CHUNK_OVERLAP_SECONDS
    Lead,          \* SPEECH_LEAD_SECONDS
    MaxTotal,      \* bound of the model: connection g gives MaxTotal / g samples at most
    MaxGenerations \* bound of the model: connections

\* The settings only ask for Chunk <= Capacity and Overlap < Chunk
\* (config.py:1085-1092); what the session needs is more: a segment, the
\* window that completes it, the one that ends it and what is read meanwhile
\* must fit the buffer.  The defaults (20, 3, 1, 1 of 60 seconds) do.
ASSUME SessionAssumption ==
    /\ WindowLen \in Nat \ {0} /\ Chunk \in Nat \ {0}
    /\ Overlap \in Nat /\ Overlap < Chunk
    /\ Lead \in Nat /\ Lead <= Chunk
    /\ Chunk + 2 * WindowLen + MaxAppend <= Capacity
    /\ MaxTotal \in Nat /\ MaxGenerations \in Nat \ {0}

VARIABLES
    pc,
    stop,       \* _stop
    classified, \* _classified_to_ms
    open,       \* _segment_open
    segStart,   \* _segment_start_ms
    segEnd,     \* _segment_end_ms
    label,      \* _segment_class
    sent,       \* history: the segments handed to the sink
    kept        \* history: the windows that were to be kept

session == <<pc, stop, classified, open, segStart, segEnd, label, sent, kept>>
vars == <<buffer, session>>

Awaits == {"connecting", "streaming", "classifying", "emitting", "backoff"}

\* Of the classes of a window that is kept only one is told apart: "speech"
\* stands for the others.
Classes == {"speech", "speech_over_music"}

Init ==
    /\ BufferInit
    /\ pc = "connecting"
    /\ stop = FALSE
    /\ classified = 0
    /\ open = FALSE /\ segStart = 0 /\ segEnd = 0 /\ label = "unknown"
    /\ sent = {} /\ kept = {}

-----------------------------------------------------------------------------
Later(a, b) == IF a > b THEN a ELSE b

\* The end of _flush_segment(): an event with the audio the buffer still holds.
Emit(from, to, class) ==
    LET pcm == Window(from, to)
    IN  sent' = IF to <= from \/ pcm = << >> THEN sent
                ELSE sent \cup {[generation |-> generation, from |-> from, to |-> to,
                                 pcm |-> pcm, label |-> class]}

\* _flush_segment()
Flush ==
    /\ open' = FALSE
    /\ IF open THEN Emit(segStart, segEnd, label) ELSE UNCHANGED sent

\* The head of the loop of _classify_ready_windows(): the next full window goes
\* to the classifier; without one, _stream_once() reads on.
AfterWindow(to) ==
    IF total' - to >= WindowLen
    THEN pc' = "classifying" /\ classified' = to + WindowLen
    ELSE pc' = (IF stop THEN "ended" ELSE "streaming") /\ classified' = to

\* The decoder runs.
Connected ==
    /\ pc = "connecting"
    /\ pc' = IF stop THEN "ended" ELSE "streaming"
    /\ UNCHANGED <<buffer, stop, classified, open, segStart, segEnd, label, sent, kept>>

\* ingest_pcm()
ReadAudio(n) ==
    /\ pc = "streaming"
    /\ generation * (total + n) <= MaxTotal
    /\ Append_(n)
    /\ AfterWindow(classified)
    /\ UNCHANGED <<stop, open, segStart, segEnd, label, sent, kept>>

\* _apply_decision() for a window that is not kept.
Discard ==
    /\ pc = "classifying"
    /\ Flush
    /\ UNCHANGED buffer
    /\ AfterWindow(classified)
    /\ UNCHANGED <<stop, segStart, segEnd, label, kept>>

\* Where a new segment starts: a little before the window that opens it.
LeadStart(from) == Later(Floor, from - Lead)

\* "Keep the most cautious label seen inside the segment."
Cautious(class) == IF class = "speech_over_music" \/ ~open THEN class ELSE label

\* _apply_decision() for a window that is kept; a full chunk is handed over.
Keep(class) ==
    LET from == IF open THEN segStart ELSE LeadStart(classified - WindowLen)
        full == classified - from >= Chunk
    IN  /\ pc = "classifying"
        /\ kept' = kept \cup {<<generation, classified - WindowLen, class>>}
        /\ segStart' = from
        /\ segEnd' = classified
        /\ label' = Cautious(class)
        /\ open' = ~full
        /\ UNCHANGED <<buffer, stop>>
        /\ IF full
           THEN /\ Emit(from, classified, Cautious(class))
                /\ pc' = "emitting"
                /\ UNCHANGED classified
           ELSE AfterWindow(classified) /\ UNCHANGED sent

\* The rest of _apply_decision() once a full chunk has been handed over: the
\* next segment overlaps it.  Its label is not reset.
OverlapStart_Not == segEnd
OverlapStart == Later(Floor, segEnd - Overlap)
Reopen_Segment ==
    /\ pc = "emitting"
    /\ open' = TRUE
    /\ segStart' = OverlapStart
    /\ UNCHANGED buffer
    /\ AfterWindow(classified)
    /\ UNCHANGED <<stop, segEnd, label, sent, kept>>

\* _stream_once() is over: the stream ended, timed out or never came, or the
\* classifier raised.
StreamEnds ==
    /\ pc \in {"connecting", "streaming", "classifying"}
    /\ pc' = "ended"
    /\ UNCHANGED <<buffer, stop, classified, open, segStart, segEnd, label, sent, kept>>

\* run(), after a connection: what is open is handed over before the back-off.
Disconnect ==
    /\ pc = "ended"
    /\ IF stop
       THEN pc' = "stopping" /\ UNCHANGED <<open, sent>>
       ELSE pc' = "backoff" /\ Flush
    /\ UNCHANGED <<buffer, stop, classified, segStart, segEnd, label, kept>>

\* The back-off is over: _new_generation(), unless the session is to stop.
NewGeneration ==
    /\ Reset
    /\ classified' = 0
    /\ open' = FALSE

Reconnect ==
    /\ pc = "backoff"
    /\ IF stop
       THEN pc' = "stopping" /\ UNCHANGED <<buffer, classified, open>>
       ELSE generation < MaxGenerations /\ pc' = "connecting" /\ NewGeneration
    /\ UNCHANGED <<stop, segStart, segEnd, label, sent, kept>>

\* request_stop()
RequestStop ==
    /\ ~stop /\ pc # "stopped"
    /\ stop' = TRUE
    /\ UNCHANGED <<buffer, pc, classified, open, segStart, segEnd, label, sent, kept>>

\* The grace period of the supervisor is over: the task is cancelled.  (That the
\* cancellation hits the hand-over of a segment that is not full makes no
\* difference to one at the next await.)
Cancel ==
    /\ stop /\ pc \in Awaits
    /\ pc' = "stopping"
    /\ UNCHANGED <<buffer, stop, classified, open, segStart, segEnd, label, sent, kept>>

\* run(), its finally clause.
Shutdown ==
    /\ pc = "stopping"
    /\ Flush
    /\ Clear
    /\ pc' = "stopped"
    /\ UNCHANGED <<stop, classified, segStart, segEnd, label, kept>>

Next ==
    \/ Connected
    \/ \E n \in 1 .. MaxAppend : ReadAudio(n)
    \/ Discard
    \/ \E class \in Classes : Keep(class)
    \/ Reopen_Segment
    \/ StreamEnds
    \/ Disconnect
    \/ Reconnect
    \/ RequestStop
    \/ Cancel
    \/ Shutdown

Spec == Init /\ [][Next]_vars

-----------------------------------------------------------------------------
Segment == [generation : Nat, from : Nat, to : Nat, pcm : Seq(Nat \X Nat), label : Classes]

TypeOK ==
    /\ BufferTypeOK
    /\ pc \in Awaits \cup {"ended", "stopping", "stopped"}
    /\ stop \in BOOLEAN /\ open \in BOOLEAN
    /\ classified \in Nat /\ segStart \in Nat /\ segEnd \in Nat
    /\ label \in Classes \cup {"unknown"}
    /\ \A s \in sent : s \in Segment
    /\ \A w \in kept : w \in Nat \X Nat \X Classes
    /\ open => segStart <= segEnd /\ segEnd - segStart < Chunk /\ segEnd <= classified /\ classified <= total

(* "Segments never span two generations" (ring_buffer.py:126), and a segment *)
(* is the audio it says it is: sample for sample what lies between its       *)
(* bounds, in one connection, none of it overrun by the stream that goes on  *)
(* while the segment is open.                                                *)
SegmentsAreExact ==
    \A s \in sent : s.from < s.to /\ s.pcm = Samples(s.generation, s.from, s.to)

\* The samples a .. b-1 of connection g are in one segment, sent or still open.
InOneSegment(g, a, b) ==
    \/ \E s \in sent : s.generation = g /\ s.from <= a /\ b <= s.to
    \/ open /\ generation = g /\ segStart <= a /\ b <= segEnd

WindowKept(g, from) == \E class \in Classes : <<g, from, class>> \in kept
SampleKept(g, a) == \E d \in 0 .. WindowLen - 1 : WindowKept(g, a - d)

(* Nothing that was to be kept is lost, wherever the chunks are cut, the     *)
(* connection breaks or the session is stopped: "a keyword straddling a      *)
(* chunk boundary is still fully present in one of the two transcripts"      *)
(* (stream_supervisor.py:527), if it is longer than the overlap by one       *)
(* sample at most, and the lead before the first window is there, so that    *)
(* the first word of a conversation is not clipped (62-64).                  *)
InOnePiece ==
    \A w \in kept :
        /\ \A a \in w[2] .. w[2] + WindowLen - 1 :
              LET b == a + Overlap + 1
              IN  (\A x \in a .. b - 1 : SampleKept(w[1], x)) => InOneSegment(w[1], a, b)
        /\ ~SampleKept(w[1], w[2] - 1) =>
              InOneSegment(w[1], Later(0, w[2] - Lead), w[2] + 1)

(* "A chunk that was partly speech-over-music is speech-over-music"          *)
(* (stream_supervisor.py:513): no window inside a segment was more doubtful  *)
(* than the label the segment carries to the transcription.                  *)
CautiousLabel ==
    \A s \in sent : \A w \in kept :
        /\ w[1] = s.generation /\ s.from <= w[2] /\ w[2] + WindowLen <= s.to
        /\ w[3] = "speech_over_music"
        => s.label = "speech_over_music"

(* What was said reaches the transcription in one piece and under a label    *)
(* that is not too mild.                                                     *)
SpeechSurvives == InOnePiece /\ CautiousLabel
=============================================================================
