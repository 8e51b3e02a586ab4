----------------------- MODULE ConversationAssembler ------------------------
(***************************************************************************)
(* app/services/conversation_assembler.py for one station: the state the   *)
(* transcription worker keeps per station, and observe(), which folds one  *)
(* transcribed segment into it.  Stations share nothing.                   *)
(*                                                                         *)
(* The environment is the listener (services/stream_supervisor.py), which  *)
(* numbers a session's segments from 1, starts a new session for every     *)
(* turn on air and keeps the session over a reconnect, and the queue       *)
(* between the two, which may deliver late or twice.  Time is counted in   *)
(* units of one segment's length.                                          *)
(***************************************************************************)
EXTENDS Integers, Sequences, FiniteSets

CONSTANTS
    Classes,       \* content classes of segments
    Gaps,          \* silences the listener may leave before a segment
    PreKeyword,    \* RADIO_PRE_KEYWORD_SECONDS
    SilenceEnd,    \* RADIO_SILENCE_END_SECONDS
    MaxDuration,   \* RADIO_MAX_CONVERSATION_SECONDS
    MaxPreroll,    \* MAX_PREROLL_SEGMENTS
    MaxSegments,   \* MAX_CONVERSATION_SEGMENTS
    MaxAired,      \* bound of the model: segments on air
    MaxDropouts,   \* bound of the model: reconnects and new sessions
    MaxPending,    \* bound of the model: segments the queue may reorder
    MaxRepeats,    \* bound of the model: segments delivered again
    AcrossSessions \* may a segment arrive late after its session has ended?

\* MAX_PREROLL_SEGMENTS is 40 and MAX_CONVERSATION_SEGMENTS 200.  The lead-in is at
\* most as long as the ring buffer (config.py:1080), far less than the 400 segments
\* within which the number of a segment is remembered.
ASSUME AssemblerAssumption ==
    /\ Gaps \subseteq Nat
    /\ {PreKeyword, SilenceEnd, MaxDuration, MaxSegments} \subseteq Nat
    /\ MaxPreroll \in 1 .. MaxSegments - 1
    /\ PreKeyword < 2 * MaxSegments
    /\ {MaxAired, MaxDropouts, MaxPending, MaxRepeats} \subseteq Nat
    /\ AcrossSessions \in BOOLEAN

VARIABLES
    station,  \* the _StationState
    aired,    \* the segments the listener has emitted, in order
    session,  \* the listener's current session
    seq,      \* its sequence number
    stretch,  \* counts the dropouts so far: audio of two stretches is not contiguous
    now,
    pending,  \* segments on their way to the worker
    repeats,
    refused,  \* history: segments _accept rejected at their first delivery
    closed    \* history: the conversations emitted, in order

vars == <<station, aired, session, seq, stretch, now, pending, repeats, refused, closed>>

Segment == [session : Nat, seq : Nat, start : Nat, end : Nat, class : Classes,
            hit : BOOLEAN, stretch : Nat]

Idle == [session |-> 0, open |-> FALSE, id |-> <<0, 0>>, segments |-> <<>>,
         preroll |-> <<>>, last |-> 0, seen |-> {}, missing |-> {}, lastEnd |-> 0]

Init ==
    /\ station = Idle
    /\ aired = <<>>
    /\ session = 1
    /\ seq = 0
    /\ stretch = 0
    /\ now = 0
    /\ pending = <<>>
    /\ repeats = 0
    /\ refused = {}
    /\ closed = <<>>

Elements(s) == {s[i] : i \in DOMAIN s}
Hits(s) == {g \in Elements(s) : g.hit}
Last(s) == s[Len(s)]
Least(S) == CHOOSE x \in S : \A y \in S : x <= y
Greatest(a, b) == IF a < b THEN b ELSE a

-----------------------------------------------------------------------------
(* observe(), as the steps it takes on the station's state. *)

\* A segment of the current session that is late or seen is rejected.
Accepts(s, g) ==
    \/ g.session # s.session
    \/ g.seq \notin s.seen /\ (s.last = 0 \/ g.seq >= s.last)

\* _reset() forgets the conversation, and nothing else.
Reset(s) == [s EXCEPT !.open = FALSE, !.id = <<0, 0>>, !.segments = <<>>, !.missing = {}]

\* _close() emits the conversation if it has keyword evidence.
Emitted(s, reason) ==
    IF s.open /\ Hits(s.segments) # {}
    THEN <<[id |-> s.id, segments |-> s.segments, reason |-> reason, missing |-> s.missing]>>
    ELSE <<>>

NewSession(s, g) == s.session # 0 /\ s.session # g.session

AfterSession(s, g) ==
    [(IF NewSession(s, g) THEN Reset(s) ELSE s) EXCEPT !.session = g.session]

\* A wall-clock gap ends a conversation.
GapAtLeast_Longer(s, g) == s.lastEnd # 0 /\ g.start - s.lastEnd > SilenceEnd
GapAtLeast(s, g) == s.lastEnd # 0 /\ Greatest(0, g.start - s.lastEnd) >= SilenceEnd

AfterSilence(s, g) == IF s.open /\ GapAtLeast(s, g) THEN Reset(s) ELSE s

\* _record_sequence(): gaps are noted, `seen' is a window of recent numbers.
Recorded(s, g) ==
    LET all == s.seen \cup {g.seq} IN
    [s EXCEPT
        !.missing = IF s.last # 0 THEN @ \cup (s.last + 1 .. g.seq - 1) ELSE @,
        !.last = g.seq,
        !.seen = IF Cardinality(all) > 4 * MaxSegments
                 THEN {n \in all : n > g.seq - 2 * MaxSegments} ELSE all]

\* _preroll_for(), _trim_preroll() and the deque's maxlen.
InOrder(S) ==
    CHOOSE f \in [1 .. Cardinality(S) -> S] : \A i, j \in DOMAIN f : i < j => f[i] < f[j]
Since(s, cutoff) ==
    LET recent == InOrder({i \in DOMAIN s : s[i].end >= cutoff})
    IN  [k \in DOMAIN recent |-> s[recent[k]]]
Lately(s, cutoff) ==
    SubSeq(s, Least({i \in DOMAIN s : s[i].end >= cutoff}), Len(s))
Newest(s) == IF Len(s) > MaxPreroll THEN Tail(s) ELSE s

\* conversation_id_for()
IdFor_Session(g, first) == <<g.session, 0>>
IdFor(g, first) == <<g.session, first.seq>>

WithLead(lead, g) == Append(lead, g)

Opened(s, g) ==
    LET whole == WithLead(Since(s.preroll, g.start - PreKeyword), g)
    IN [s EXCEPT !.open = TRUE, !.id = IdFor(g, Head(whole)),
                 !.segments = whole, !.preroll = <<>>]

Kept(s, g) ==
    [s EXCEPT !.preroll = LET p == Newest(Append(@, g)) IN Lately(p, Last(p).end - PreKeyword)]

Folded_Swallow(s, g) ==
    IF s.open THEN [s EXCEPT !.segments = Append(@, g)] ELSE Kept(s, g)
Folded_KeepPreroll(s, g) ==
    IF s.open THEN [s EXCEPT !.segments = Append(@, g)]
    ELSE IF g.hit THEN [Opened(s, g) EXCEPT !.preroll = s.preroll] ELSE Kept(s, g)
Folded(s, g) ==
    IF s.open THEN [s EXCEPT !.segments = Append(@, g)]
    ELSE IF g.hit THEN Opened(s, g) ELSE Kept(s, g)

\* _close_if_exhausted()
Exhausted(s) ==
    /\ s.open
    /\ \/ Last(s.segments).end - Head(s.segments).start >= MaxDuration
       \/ Len(s.segments) >= MaxSegments

Observe(g) ==
    IF ~Accepts(station, g)
    THEN UNCHANGED <<station, closed>>
    ELSE LET s1 == AfterSession(station, g)
             s2 == AfterSilence(s1, g)
             s3 == [Folded(Recorded(s2, g), g) EXCEPT !.lastEnd = g.end]
             atSession == IF NewSession(station, g) THEN Emitted(station, "disconnect") ELSE <<>>
             atSilence == IF s1.open /\ ~s2.open
                          THEN Emitted(s1, IF g.class = "music" THEN "music" ELSE "silence")
                          ELSE <<>>
             atLimit == IF Exhausted(s3) THEN Emitted(s3, "max_duration") ELSE <<>>
         IN /\ station' = IF Exhausted(s3) THEN Reset(s3) ELSE s3
            /\ closed' = closed \o atSession \o atSilence \o atLimit

-----------------------------------------------------------------------------
(* The environment. *)

\* _flush_segment() emits the next segment.
Air ==
    /\ Len(aired) < MaxAired
    /\ Len(pending) < MaxPending
    /\ \E gap \in Gaps, class \in Classes, hit \in BOOLEAN :
          LET g == [session |-> session, seq |-> seq + 1, start |-> now + gap,
                    end |-> now + gap + 1, class |-> class, hit |-> hit, stretch |-> stretch]
          IN /\ aired' = Append(aired, g)
             /\ pending' = Append(pending, g)
             /\ now' = g.end
    /\ seq' = seq + 1
    /\ UNCHANGED <<station, session, stretch, repeats, refused, closed>>

\* The stream drops and reconnects: same session, the numbering goes on.
Reconnect ==
    /\ stretch < MaxDropouts
    /\ stretch' = stretch + 1
    /\ now' = now + 1
    /\ UNCHANGED <<station, aired, session, seq, pending, repeats, refused, closed>>

\* The station's turn ends and a new one begins: a new StationSession.
NewTurn ==
    /\ stretch < MaxDropouts
    /\ seq > 0
    /\ AcrossSessions \/ pending = <<>>
    /\ stretch' = stretch + 1
    /\ session' = session + 1
    /\ seq' = 0
    /\ now' = now + 1
    /\ UNCHANGED <<station, aired, pending, repeats, refused, closed>>

\* The worker folds in a segment: the oldest pending one, or one that
\* overtook it in the outbox.
Deliver ==
    \E i \in DOMAIN pending :
        /\ Observe(pending[i])
        /\ refused' = IF Accepts(station, pending[i]) THEN refused ELSE refused \cup {pending[i]}
        /\ pending' = SubSeq(pending, 1, i - 1) \o SubSeq(pending, i + 1, Len(pending))
        /\ UNCHANGED <<aired, session, seq, stretch, now, repeats>>

\* A segment is handled a second time.
Repeat ==
    /\ repeats < MaxRepeats
    /\ repeats' = repeats + 1
    /\ \E g \in Elements(aired) \ Elements(pending) :
          /\ AcrossSessions \/ g.session = session
          /\ Observe(g)
    /\ UNCHANGED <<aired, session, seq, stretch, now, pending, refused>>

\* close_all(), called by the worker's shutdown.
Shutdown ==
    /\ station.open
    /\ closed' = closed \o Emitted(station, "shutdown")
    /\ station' = Reset(station)
    /\ UNCHANGED <<aired, session, seq, stretch, now, pending, repeats, refused>>

Next == Air \/ Reconnect \/ NewTurn \/ Deliver \/ Repeat \/ Shutdown

Spec == Init /\ [][Next]_vars

-----------------------------------------------------------------------------
Conversation == [id : Nat \X Nat, segments : Seq(Segment),
                 reason : {"disconnect", "silence", "music", "max_duration", "shutdown"},
                 missing : SUBSET Nat]

TypeOK ==
    /\ station \in [session : Nat, open : BOOLEAN, id : Nat \X Nat, segments : Seq(Segment),
                    preroll : Seq(Segment), last : Nat, seen : SUBSET Nat,
                    missing : SUBSET Nat, lastEnd : Nat]
    /\ aired \in Seq(Segment) /\ pending \in Seq(Segment)
    /\ {session, seq, stretch, now, repeats} \subseteq Nat
    /\ refused \subseteq Segment
    /\ closed \in Seq(Conversation)

\* Every conversation, the open one included.
Conversations ==
    Elements(closed) \cup
    (IF station.open
     THEN {[id |-> station.id, segments |-> station.segments, reason |-> "shutdown",
            missing |-> station.missing]}
     ELSE {})

(* A transcript tells what was said in the order it was said (432-433:       *)
(* reordering would "produce a transcript that never happened") and once: a  *)
(* segment belongs to one conversation, whatever was in the preroll when an  *)
(* earlier one ended.                                                        *)
ToldInOrderOnce ==
    /\ \A c \in Conversations : \A i, j \in DOMAIN c.segments :
          i < j => c.segments[i].end <= c.segments[j].start
    /\ \A c, d \in Conversations :
          Elements(c.segments) \cap Elements(d.segments) # {} => c = d

(* A keyword hit in a segment that was accepted is never dropped: the        *)
(* segment is in a conversation that was emitted, or in the open one.        *)
NoHitDropped ==
    \A g \in Hits(aired) \ (Elements(pending) \cup refused) :
        \E c \in Conversations : g \in Elements(c.segments)

(* Conversation ids are the key of every later write (54-64): two emitted    *)
(* conversations never share one, or the second would vanish as a duplicate. *)
DistinctIds ==
    \A i, j \in DOMAIN closed : closed[i].id = closed[j].id => i = j

(* A conversation ends in time: with MaxSegments segments, the lead-in       *)
(* included, and, once its keyword was said, when it lasts MaxDuration or a  *)
(* silence of SilenceEnd follows.                                            *)
EndsInTime ==
    \A c \in Conversations :
        /\ Len(c.segments) <= MaxSegments
        /\ \A i \in 1 .. Len(c.segments) - 1 :
              (\E j \in 1 .. i : c.segments[j].hit) =>
                  /\ c.segments[i].end - c.segments[1].start < MaxDuration
                  /\ c.segments[i + 1].start - c.segments[i].end < SilenceEnd

(* "A new session restarts the sequence space" (420): a segment delivered in *)
(* its turn is never taken for a duplicate.                                  *)
NothingRefusedInOrder == refused = {}
=============================================================================
