------------------------- MODULE Conversation_proofs -------------------------
(***************************************************************************)
(* Proofs about conversations.                                             *)
(*                                                                         *)
(* ConversationAssembler.  For any order of delivery: a conversation ends  *)
(* in time and no keyword hit is dropped.  When the segments of a session  *)
(* arrive before it ends: what is told is told in order and once, and      *)
(* conversations have ids of their own.  observe() is taken apart once     *)
(* (ObserveSplit, FoldIs): it may close a conversation at three places and *)
(* folds the segment in one of three ways, and every property is shown to  *)
(* survive each of these.                                                  *)
(*                                                                         *)
(* MentionRecord.  For every text, vocabulary, policy and answer of the    *)
(* model: what is stored was said, and who had the keyword is told.  The   *)
(* lemmas about texts come first: what strip() leaves, and where the text  *)
(* of a segment stands in a join.                                          *)
(***************************************************************************)
EXTENDS ConversationAssembler, MentionRecord, SequenceTheorems, FiniteSetTheorems,
        FunctionTheorems, WellFoundedInduction, TLAPS

-----------------------------------------------------------------------------
\* Sequences and their elements.

LEMMA ElementsOfAppend ==
    ASSUME NEW T, NEW q \in Seq(T), NEW x \in T
    PROVE  /\ Append(q, x) \in Seq(T)
           /\ Len(Append(q, x)) = Len(q) + 1
           /\ Elements(Append(q, x)) = Elements(q) \cup {x}
           /\ Last(Append(q, x)) = x
           /\ \A i \in 1 .. Len(q) : Append(q, x)[i] = q[i]
<1>1. /\ Append(q, x) \in Seq(T) /\ Len(Append(q, x)) = Len(q) + 1
      /\ \A i \in 1 .. Len(q) : Append(q, x)[i] = q[i]
      /\ Append(q, x)[Len(q) + 1] = x
      /\ DOMAIN q = 1 .. Len(q) /\ Len(q) \in Nat
      /\ DOMAIN Append(q, x) = 1 .. Len(q) + 1
  OBVIOUS
<1>2. 1 .. Len(q) + 1 = 1 .. Len(q) \cup {Len(q) + 1}
  BY <1>1
<1> QED BY <1>1, <1>2 DEF Elements, Last

LEMMA ElementsOfConcat ==
    ASSUME NEW T, NEW p \in Seq(T), NEW q \in Seq(T)
    PROVE  /\ p \o q \in Seq(T)
           /\ Elements(p \o q) = Elements(p) \cup Elements(q)
           /\ Len(p \o q) = Len(p) + Len(q)
           /\ \A i \in DOMAIN p : (p \o q)[i] = p[i]
           /\ \A i \in DOMAIN q : (p \o q)[Len(p) + i] = q[i]
<1>1. /\ p \o q \in Seq(T) /\ Len(p \o q) = Len(p) + Len(q)
      /\ DOMAIN p = 1 .. Len(p) /\ Len(p) \in Nat
      /\ DOMAIN q = 1 .. Len(q) /\ Len(q) \in Nat
      /\ DOMAIN (p \o q) = 1 .. Len(p) + Len(q)
  OBVIOUS
<1>2. \A i \in 1 .. Len(p) : (p \o q)[i] = p[i]
  OBVIOUS
<1>3. \A i \in 1 .. Len(q) : (p \o q)[Len(p) + i] = q[i]
  OBVIOUS
<1>4. Elements(p \o q) \subseteq Elements(p) \cup Elements(q)
  <2>1. SUFFICES ASSUME NEW i \in 1 .. Len(p) + Len(q)
                 PROVE  (p \o q)[i] \in Elements(p) \cup Elements(q)
    BY <1>1 DEF Elements
  <2>2. CASE i \in 1 .. Len(p)
    BY <2>2, <1>1, <1>2 DEF Elements
  <2>3. CASE i \notin 1 .. Len(p)
    <3>1. i - Len(p) \in 1 .. Len(q) /\ Len(p) + (i - Len(p)) = i
      BY <2>3, <1>1
    <3>2. (p \o q)[i] = q[i - Len(p)]
      BY <3>1, <1>3
    <3> QED BY <3>1, <3>2, <1>1 DEF Elements
  <2> QED BY <2>2, <2>3
<1>5. Elements(p) \cup Elements(q) \subseteq Elements(p \o q)
  <2>1. \A i \in 1 .. Len(p) : i \in 1 .. Len(p) + Len(q)
    BY <1>1
  <2>2. \A i \in 1 .. Len(q) : Len(p) + i \in 1 .. Len(p) + Len(q)
    BY <1>1
  <2>3. Elements(p) \subseteq Elements(p \o q)
    BY <2>1, <1>1, <1>2 DEF Elements
  <2>4. Elements(q) \subseteq Elements(p \o q)
    <3>1. SUFFICES ASSUME NEW i \in 1 .. Len(q) PROVE q[i] \in Elements(p \o q)
      BY <1>1 DEF Elements
    <3>2. q[i] = (p \o q)[Len(p) + i] /\ Len(p) + i \in DOMAIN (p \o q)
      BY <2>2, <1>1, <1>3
    <3> QED BY <3>2 DEF Elements
  <2> QED BY <2>3, <2>4
<1> QED BY <1>1, <1>2, <1>3, <1>4, <1>5

\* A set of numbers that is not empty has a least one.
LEMMA LeastIs ==
    ASSUME NEW S, S \subseteq Nat, S # {}
    PROVE  Least(S) \in S /\ \A y \in S : Least(S) <= y
<1>1. PICK x \in S : \A y \in S : <<y, x>> \notin OpToRel(<, Nat)
  BY NatLessThanWellFounded, WFMin
<1>2. \A y \in S : y < x => <<y, x>> \in OpToRel(<, Nat)
  BY DEF OpToRel
<1>3. \A y \in S : x <= y
  <2>1. \A y \in S : y \in Nat /\ x \in Nat /\ ~(y < x)
    BY <1>1, <1>2
  <2> QED BY <2>1
<1> QED BY <1>3 DEF Least

(* A finite set of positions can be put in order: an element's place is the  *)
(* number of elements up to it.                                              *)
LEMMA InOrderIs ==
    ASSUME NEW n \in Nat, NEW S \in SUBSET (1 .. n)
    PROVE  /\ Cardinality(S) \in 0 .. n
           /\ InOrder(S) \in [1 .. Cardinality(S) -> S]
           /\ \A i, j \in 1 .. Cardinality(S) : i < j => InOrder(S)[i] < InOrder(S)[j]
<1> DEFINE c == Cardinality(S)
           UpTo(i) == {j \in S : j <= i}
           rank == [i \in S |-> Cardinality(UpTo(i))]
<1>1. IsFiniteSet(1 .. n) /\ Cardinality(1 .. n) = n
  BY FS_Interval
<1>2. IsFiniteSet(S) /\ c \in Nat /\ c <= n
  BY <1>1, FS_Subset, FS_CardinalityType
<1>3. \A i \in S : IsFiniteSet(UpTo(i)) /\ Cardinality(UpTo(i)) \in 1 .. c
  <2> SUFFICES ASSUME NEW i \in S
               PROVE  IsFiniteSet(UpTo(i)) /\ Cardinality(UpTo(i)) \in 1 .. c
    OBVIOUS
  <2>1. UpTo(i) \in SUBSET S /\ i \in UpTo(i)
    OBVIOUS
  <2>2. IsFiniteSet(UpTo(i)) /\ Cardinality(UpTo(i)) <= c /\ Cardinality(UpTo(i)) \in Nat
    BY <2>1, <1>2, FS_Subset, FS_CardinalityType
  <2>3. Cardinality(UpTo(i)) # 0
    BY <2>1, <2>2, FS_EmptySet
  <2> QED BY <2>2, <2>3, <1>2
<1>4. \A i, j \in S : i < j => rank[i] < rank[j]
  <2> SUFFICES ASSUME NEW i \in S, NEW j \in S, i < j PROVE rank[i] < rank[j]
    OBVIOUS
  <2>1. UpTo(i) \in SUBSET UpTo(j) /\ j \in UpTo(j) /\ j \notin UpTo(i)
    <3>1. i \in Nat /\ j \in Nat /\ \A k \in S : k \in Nat
      BY SMT
    <3>2. \A k \in S : k <= i => k <= j
      BY <3>1
    <3>3. j <= j /\ ~(j <= i)
      BY <3>1
    <3> QED BY <3>2, <3>3
  <2>2. /\ Cardinality(UpTo(i)) <= Cardinality(UpTo(j))
        /\ Cardinality(UpTo(i)) # Cardinality(UpTo(j))
    <3> HIDE DEF UpTo
    <3> QED BY <2>1, <1>3, FS_Subset
  <2>3. Cardinality(UpTo(i)) \in Nat /\ Cardinality(UpTo(j)) \in Nat
    BY <1>3
  <2> HIDE DEF UpTo
  <2> QED BY <2>2, <2>3
<1>5. rank \in [S -> 1 .. c]
  BY <1>3
<1> HIDE DEF rank, UpTo
<1>6. rank \in Injection(S, 1 .. c)
  <2>1. \A i, j \in S : rank[i] = rank[j] => i = j
    <3> SUFFICES ASSUME NEW i \in S, NEW j \in S, rank[i] = rank[j] PROVE i = j
      OBVIOUS
    <3>1. ~(i < j) /\ ~(j < i)
      BY <1>4, <1>5, <1>2
    <3> QED BY <3>1
  <2> QED BY <2>1, <1>5 DEF Injection, IsInjective
<1>7. rank \in Surjection(S, 1 .. c)
  <2>1. IsFiniteSet(1 .. c) /\ Cardinality(1 .. c) = c
    BY <1>2, FS_Interval
  <2> QED BY <2>1, <1>2, <1>6, FS_Injection
<1> DEFINE f == [k \in 1 .. c |-> CHOOSE i \in S : rank[i] = k]
<1>8. \A k \in 1 .. c : f[k] \in S /\ rank[f[k]] = k
  <2>1. \A k \in 1 .. c : \E i \in S : rank[i] = k
    BY <1>7 DEF Surjection
  <2> QED BY <2>1
<1>9. f \in [1 .. c -> S]
  BY <1>8
<1> HIDE DEF f
<1>10. \A i, j \in DOMAIN f : i < j => f[i] < f[j]
  <2> SUFFICES ASSUME NEW i \in 1 .. c, NEW j \in 1 .. c, i < j PROVE f[i] < f[j]
    BY <1>9
  <2>1. f[i] \in S /\ f[j] \in S /\ rank[f[i]] = i /\ rank[f[j]] = j
    BY <1>8
  <2>2. f[i] # f[j]
    BY <2>1
  <2>3. ~(f[j] < f[i])
    <3>1. f[j] < f[i] => j < i
      BY <2>1, <1>4
    <3> QED BY <3>1, <1>2
  <2>4. f[i] \in Nat /\ f[j] \in Nat
    <3>1. S \subseteq Nat
      OBVIOUS
    <3> QED BY <2>1, <3>1
  <2> QED BY <2>2, <2>3, <2>4
<1>11. \E h \in [1 .. c -> S] : \A i, j \in DOMAIN h : i < j => h[i] < h[j]
  BY <1>9, <1>10
<1>12. /\ InOrder(S) \in [1 .. c -> S]
       /\ \A i, j \in DOMAIN InOrder(S) : i < j => InOrder(S)[i] < InOrder(S)[j]
  BY <1>11, Zenon DEF InOrder
<1> QED BY <1>2, <1>12

(* What a filter keeps, it keeps in order.                                   *)
LEMMA SinceIs ==
    ASSUME NEW s \in Seq(Segment), NEW cutoff \in Int
    PROVE  /\ Since(s, cutoff) \in Seq(Segment)
           /\ Len(Since(s, cutoff)) <= Len(s)
           /\ \A i \in DOMAIN Since(s, cutoff) : \E j \in DOMAIN s : Since(s, cutoff)[i] = s[j]
           /\ \A i, j \in DOMAIN Since(s, cutoff) : i < j =>
                 \E k, l \in DOMAIN s : /\ k < l
                                        /\ Since(s, cutoff)[i] = s[k]
                                        /\ Since(s, cutoff)[j] = s[l]
<1> DEFINE S == {i \in DOMAIN s : s[i].end >= cutoff}
           f == InOrder(S)
           c == Cardinality(S)
<1>1. Len(s) \in Nat /\ DOMAIN s = 1 .. Len(s) /\ S \in SUBSET (1 .. Len(s))
  OBVIOUS
<1>2. c \in 0 .. Len(s) /\ f \in [1 .. c -> S] /\ \A i, j \in 1 .. c : i < j => f[i] < f[j]
  BY <1>1, InOrderIs
<1>3. Since(s, cutoff) = [k \in 1 .. c |-> s[f[k]]]
  BY <1>2 DEF Since
<1> HIDE DEF S, f, c
<1>4. \A k \in 1 .. c : f[k] \in DOMAIN s /\ s[f[k]] \in Segment
  <2>1. \A k \in 1 .. c : f[k] \in S
    BY <1>2
  <2>2. \A k \in DOMAIN s : s[k] \in Segment
    OBVIOUS
  <2> QED BY <2>1, <2>2, <1>1
<1>5. Since(s, cutoff) \in Seq(Segment) /\ Len(Since(s, cutoff)) = c
  BY <1>2, <1>3, <1>4
<1>6. DOMAIN Since(s, cutoff) = 1 .. c /\ \A k \in 1 .. c : Since(s, cutoff)[k] = s[f[k]]
  BY <1>3
<1>7. \A i, j \in 1 .. c : i < j =>
          \E k, l \in DOMAIN s : k < l /\ s[f[i]] = s[k] /\ s[f[j]] = s[l]
  BY <1>2, <1>4
<1> QED BY <1>1, <1>2, <1>4, <1>5, <1>6, <1>7

\* Trimming cuts the beginning, up to the first segment that is recent enough.
LEMMA LatelyIs ==
    ASSUME NEW s \in Seq(Segment), NEW cutoff \in Int,
           NEW n \in DOMAIN s, s[n].end >= cutoff
    PROVE  \E m \in 1 .. n :
              /\ Lately(s, cutoff) = SubSeq(s, m, Len(s)) /\ s[m].end >= cutoff
              /\ Lately(s, cutoff) \in Seq(Segment)
              /\ Len(Lately(s, cutoff)) = Len(s) - m + 1
              /\ \A i \in 1 .. Len(s) - m + 1 : Lately(s, cutoff)[i] = s[i + m - 1]
<1> DEFINE S == {i \in DOMAIN s : s[i].end >= cutoff}
           m == Least(S)
<1>1. S \subseteq Nat /\ n \in S
  OBVIOUS
<1>2. m \in S /\ m <= n
  BY <1>1, LeastIs
<1>3. Lately(s, cutoff) = SubSeq(s, m, Len(s))
  BY DEF Lately
<1>4. m \in 1 .. n /\ s[m].end >= cutoff /\ n <= Len(s) /\ Len(s) \in Nat
  BY <1>2
<1> HIDE DEF m
<1>5. /\ SubSeq(s, m, Len(s)) \in Seq(Segment)
      /\ Len(SubSeq(s, m, Len(s))) = Len(s) - m + 1
      /\ \A i \in 1 .. Len(s) - m + 1 : SubSeq(s, m, Len(s))[i] = s[i + m - 1]
  BY <1>4
<1> QED BY <1>3, <1>4, <1>5

-----------------------------------------------------------------------------
\* What observe() does, step by step: it may close a conversation because the
\* session is another one, because of a silence, and because it has become long.

StationState == [session : Nat, open : BOOLEAN, id : Nat \X Nat, segments : Seq(Segment),
                 preroll : Seq(Segment), last : Nat, seen : SUBSET Nat,
                 missing : SUBSET Nat, lastEnd : Nat]

Reasons == {"disconnect", "silence", "music", "max_duration", "shutdown"}
SilenceReason(g) == IF g.class = "music" THEN "music" ELSE "silence"

Turned(g) == IF NewSession(station, g) THEN Reset(station) ELSE station
ClosedByTurn(g) ==
    IF NewSession(station, g) THEN closed \o Emitted(station, "disconnect") ELSE closed
InSession(g) == [Turned(g) EXCEPT !.session = g.session]
Silent(g) == InSession(g).open /\ GapAtLeast(InSession(g), g)
BeforeFold(g) == IF Silent(g) THEN Reset(InSession(g)) ELSE InSession(g)
ClosedBefore(g) ==
    IF Silent(g) THEN ClosedByTurn(g) \o Emitted(InSession(g), SilenceReason(g))
    ELSE ClosedByTurn(g)
FoldOf(s, g) == [Folded(Recorded(s, g), g) EXCEPT !.lastEnd = g.end]

LEMMA EmittedType ==
    ASSUME NEW s \in StationState, NEW reason \in Reasons
    PROVE  Emitted(s, reason) \in Seq(Conversation)
<1>1. [id |-> s.id, segments |-> s.segments, reason |-> reason, missing |-> s.missing]
        \in Conversation
  BY DEF StationState, Conversation, Reasons
<1> QED BY <1>1 DEF Emitted

LEMMA ResetIs ==
    ASSUME NEW s \in StationState
    PROVE  /\ Reset(s) \in StationState
           /\ ~Reset(s).open /\ Reset(s).segments = << >>
           /\ Reset(s).preroll = s.preroll /\ Reset(s).session = s.session
           /\ Reset(s).last = s.last /\ Reset(s).seen = s.seen /\ Reset(s).lastEnd = s.lastEnd
<1>1. << >> \in Seq(Segment) /\ <<0, 0>> \in Nat \X Nat /\ {} \in SUBSET Nat
  OBVIOUS
<1> QED BY <1>1 DEF Reset, StationState

LEMMA ObserveSplit ==
    ASSUME station \in StationState, closed \in Seq(Conversation), NEW g \in Segment,
           Observe(g), Accepts(station, g)
    PROVE  LET t == FoldOf(BeforeFold(g), g) IN
           /\ station' = IF Exhausted(t) THEN Reset(t) ELSE t
           /\ closed' = IF Exhausted(t) THEN ClosedBefore(g) \o Emitted(t, "max_duration")
                        ELSE ClosedBefore(g)
<1> DEFINE s1 == AfterSession(station, g)
           s2 == AfterSilence(s1, g)
           t == [Folded(Recorded(s2, g), g) EXCEPT !.lastEnd = g.end]
           atSession == IF NewSession(station, g) THEN Emitted(station, "disconnect") ELSE << >>
           atSilence == IF s1.open /\ ~s2.open THEN Emitted(s1, SilenceReason(g)) ELSE << >>
           atLimit == IF Exhausted(t) THEN Emitted(t, "max_duration") ELSE << >>
<1>1. /\ station' = IF Exhausted(t) THEN Reset(t) ELSE t
      /\ closed' = closed \o atSession \o atSilence \o atLimit
  BY DEF Observe, SilenceReason
<1>2. s1 = InSession(g)
  BY DEF AfterSession, InSession, Turned
<1>3. Turned(g) \in StationState
  BY ResetIs DEF Turned
<1>4. s1 \in StationState
  BY <1>2, <1>3 DEF InSession, StationState, Segment
<1> HIDE DEF s1
<1>5. s2 = BeforeFold(g) /\ (s1.open /\ ~s2.open <=> Silent(g))
  BY <1>2, <1>4, ResetIs DEF AfterSilence, BeforeFold, Silent
<1> HIDE DEF s2
<1>6. t = FoldOf(BeforeFold(g), g)
  BY <1>5 DEF FoldOf
<1> HIDE DEF t
<1>7. closed \o atSession = ClosedByTurn(g) /\ ClosedByTurn(g) \in Seq(Conversation)
  <2>1. Emitted(station, "disconnect") \in Seq(Conversation)
    BY EmittedType DEF Reasons
  <2> HIDE DEF Emitted
  <2> QED BY <2>1 DEF ClosedByTurn
<1>8. closed \o atSession \o atSilence = ClosedBefore(g) /\ ClosedBefore(g) \in Seq(Conversation)
  <2>1. Emitted(s1, SilenceReason(g)) \in Seq(Conversation)
    BY <1>4, EmittedType DEF Reasons, SilenceReason
  <2> HIDE DEF atSession
  <2>2. CASE Silent(g)
    BY <2>1, <2>2, <1>2, <1>5, <1>7 DEF ClosedBefore
  <2>3. CASE ~Silent(g)
    BY <2>3, <1>5, <1>7 DEF ClosedBefore
  <2> QED BY <2>2, <2>3
<1> HIDE DEF atSession, atSilence
<1>9. closed \o atSession \o atSilence \o atLimit
        = IF Exhausted(t) THEN ClosedBefore(g) \o Emitted(t, "max_duration") ELSE ClosedBefore(g)
  BY <1>8
<1> QED BY <1>1, <1>6, <1>9

\* The three ways a segment is folded in: it goes on a conversation, it opens
\* one, or it is kept as a possible lead-in.
GoesOn(s, t, g) ==
    /\ s.open /\ t.open
    /\ t.segments = Append(s.segments, g)
    /\ t.preroll = s.preroll /\ t.id = s.id

Opens(s, t, g) ==
    LET whole == Append(Since(s.preroll, g.start - PreKeyword), g)
    IN  /\ ~s.open /\ g.hit /\ t.open
        /\ t.segments = whole
        /\ t.id = <<g.session, Head(whole).seq>>
        /\ t.preroll = << >>

KeptFor(s, t, g) ==
    LET p == Newest(Append(s.preroll, g))
    IN  /\ ~s.open /\ ~g.hit /\ ~t.open
        /\ t.segments = s.segments
        /\ p \in Seq(Segment) /\ Len(p) >= 1
        /\ t.preroll = Lately(p, Last(p).end - PreKeyword)

LEMMA FoldIs ==
    ASSUME AssemblerAssumption, NEW s \in StationState, NEW g \in Segment, NEW t, t = FoldOf(s, g)
    PROVE  /\ t \in StationState
           /\ t.session = s.session /\ t.last = g.seq /\ t.lastEnd = g.end
           /\ g.seq \in t.seen
           /\ \A k \in s.seen : k \in t.seen \/ k <= g.seq - 2 * MaxSegments
           /\ GoesOn(s, t, g) \/ Opens(s, t, g) \/ KeptFor(s, t, g)
<1> DEFINE r == Recorded(s, g)
<1>1. /\ r \in StationState
      /\ r.session = s.session /\ r.last = g.seq /\ r.lastEnd = s.lastEnd
      /\ g.seq \in r.seen
      /\ \A k \in s.seen : k \in r.seen \/ k <= g.seq - 2 * MaxSegments
      /\ r.open = s.open /\ r.segments = s.segments /\ r.preroll = s.preroll /\ r.id = s.id
  <2> DEFINE all == s.seen \cup {g.seq}
             seen == IF Cardinality(all) > 4 * MaxSegments
                     THEN {n \in all : n > g.seq - 2 * MaxSegments} ELSE all
             missing == IF s.last # 0 THEN s.missing \cup (s.last + 1 .. g.seq - 1) ELSE s.missing
  <2>1. g.seq \in Nat /\ MaxSegments \in Nat /\ MaxSegments >= 1
    BY DEF AssemblerAssumption, Segment
  <2>2. /\ seen \in SUBSET Nat /\ g.seq \in seen
        /\ \A k \in s.seen : k \in seen \/ k <= g.seq - 2 * MaxSegments
    <3>1. s.seen \subseteq Nat /\ all \subseteq Nat /\ g.seq \in all /\ s.seen \subseteq all
      BY <2>1 DEF StationState
    <3>2. g.seq > g.seq - 2 * MaxSegments
      BY <2>1
    <3>3. CASE Cardinality(all) > 4 * MaxSegments
      <4>1. seen = {n \in all : n > g.seq - 2 * MaxSegments}
        BY <3>3
      <4>2. \A k \in all : k > g.seq - 2 * MaxSegments \/ k <= g.seq - 2 * MaxSegments
        BY <3>1, <2>1
      <4> HIDE DEF all, seen
      <4> QED BY <3>1, <3>2, <4>1, <4>2
    <3>4. CASE ~(Cardinality(all) > 4 * MaxSegments)
      <4>1. seen = all
        BY <3>4
      <4> HIDE DEF all, seen
      <4> QED BY <3>1, <4>1
    <3> QED BY <3>3, <3>4
  <2>3. missing \in SUBSET Nat
    <3>1. s.last \in Nat /\ s.missing \subseteq Nat
      BY DEF StationState
    <3>2. s.last + 1 .. g.seq - 1 \subseteq Nat
      BY <2>1, <3>1
    <3> QED BY <3>1, <3>2
  <2>4. r = [s EXCEPT !.missing = missing, !.last = g.seq, !.seen = seen]
    BY DEF Recorded
  <2> HIDE DEF seen, missing, r
  <2> QED BY <2>1, <2>2, <2>3, <2>4 DEF StationState
<1> HIDE DEF r
<1>2. t = [Folded(r, g) EXCEPT !.lastEnd = g.end]
  BY DEF FoldOf, r
<1>3. g.end \in Nat /\ g.start \in Nat /\ g.seq \in Nat /\ g.session \in Nat
  BY DEF Segment
<1>4. CASE s.open
  <2>1. Folded(r, g) = [r EXCEPT !.segments = Append(@, g)]
    BY <1>1, <1>4 DEF Folded
  <2>2. Append(r.segments, g) \in Seq(Segment)
    BY <1>1 DEF StationState
  <2> DEFINE more == Append(r.segments, g)
  <2> HIDE DEF more
  <2>3. t = [r EXCEPT !.segments = more, !.lastEnd = g.end]
    BY <1>1, <1>2, <2>1 DEF more, StationState
  <2>4. /\ t \in StationState
        /\ t.session = r.session /\ t.last = r.last /\ t.lastEnd = g.end /\ t.seen = r.seen
        /\ t.open = r.open /\ t.segments = more /\ t.preroll = r.preroll /\ t.id = r.id
    BY <1>1, <1>3, <2>2, <2>3 DEF StationState, more
  <2>5. more = Append(s.segments, g)
    BY <1>1 DEF more
  <2>6. GoesOn(s, t, g)
    BY <1>1, <1>4, <2>4, <2>5, Zenon DEF GoesOn
  <2> QED BY <1>1, <2>4, <2>6, Zenon
<1>5. CASE ~s.open /\ g.hit
  <2> DEFINE lead == Since(r.preroll, g.start - PreKeyword)
             whole == Append(lead, g)
  <2>1. lead \in Seq(Segment)
    <3>1. r.preroll \in Seq(Segment)
      BY <1>1 DEF StationState
    <3>2. g.start - PreKeyword \in Int
      BY <1>3 DEF AssemblerAssumption
    <3> QED BY <3>1, <3>2, SinceIs
  <2>2. whole \in Seq(Segment) /\ whole # << >>
    BY <2>1
  <2>3. Head(whole) \in Segment
    BY <2>2
  <2>4. <<g.session, Head(whole).seq>> \in Nat \X Nat
    BY <2>3, <1>3 DEF Segment
  <2>5. Folded(r, g) = [r EXCEPT !.open = TRUE, !.id = <<g.session, Head(whole).seq>>,
                                 !.segments = whole, !.preroll = << >>]
    BY <1>1, <1>5 DEF Folded, Opened, IdFor, WithLead
  <2>6. << >> \in Seq(Segment)
    OBVIOUS
  <2> HIDE DEF whole
  <2>7. /\ t \in StationState
        /\ t.session = s.session /\ t.last = g.seq /\ t.lastEnd = g.end /\ t.seen = r.seen
        /\ t.open /\ t.segments = whole /\ t.id = <<g.session, Head(whole).seq>>
        /\ t.preroll = << >>
    <3> DEFINE id == <<g.session, Head(whole).seq>>
               nothing == << >>
    <3>1. id \in Nat \X Nat /\ nothing \in Seq(Segment)
      BY <2>4
    <3> HIDE DEF id, nothing
    <3>2. t = [r EXCEPT !.open = TRUE, !.id = id, !.segments = whole, !.preroll = nothing,
                        !.lastEnd = g.end]
      BY <1>1, <1>2, <2>5 DEF id, nothing, StationState
    <3>3. /\ t \in StationState
          /\ t.session = r.session /\ t.last = r.last /\ t.lastEnd = g.end /\ t.seen = r.seen
          /\ t.open /\ t.segments = whole /\ t.id = id /\ t.preroll = nothing
      BY <1>1, <1>3, <2>2, <3>1, <3>2 DEF StationState
    <3> QED BY <1>1, <3>3 DEF id, nothing
  <2>8. whole = Append(Since(s.preroll, g.start - PreKeyword), g)
    BY <1>1 DEF whole
  <2>9. Opens(s, t, g)
    BY <1>5, <2>7, <2>8, Zenon DEF Opens
  <2> QED BY <1>1, <2>7, <2>9
<1>6. CASE ~s.open /\ ~g.hit
  <2> DEFINE p == Newest(Append(r.preroll, g))
             q == Lately(p, Last(p).end - PreKeyword)
  <2>1. r.preroll \in Seq(Segment)
    BY <1>1 DEF StationState
  <2>2. p \in Seq(Segment) /\ Len(p) >= 1 /\ Len(p) \in Nat
    <3>1. /\ Append(r.preroll, g) \in Seq(Segment)
          /\ Len(Append(r.preroll, g)) = Len(r.preroll) + 1 /\ Len(r.preroll) \in Nat
      BY <2>1
    <3>2. MaxPreroll \in Nat /\ MaxPreroll >= 1
      BY DEF AssemblerAssumption
    <3>3. CASE Len(Append(r.preroll, g)) > MaxPreroll
      BY <3>1, <3>2, <3>3 DEF Newest
    <3>4. CASE ~(Len(Append(r.preroll, g)) > MaxPreroll)
      BY <3>1, <3>2, <3>4 DEF Newest
    <3> QED BY <3>3, <3>4
  <2> HIDE DEF p
  <2>3. Len(p) \in DOMAIN p /\ p[Len(p)].end \in Nat /\ PreKeyword \in Nat
    <3>1. Len(p) \in DOMAIN p
      BY <2>2
    <3>2. p[Len(p)] \in Segment
      BY <2>2, <3>1
    <3> QED BY <3>1, <3>2 DEF Segment, AssemblerAssumption
  <2>4. q \in Seq(Segment)
    <3>1. Last(p).end - PreKeyword \in Int /\ p[Len(p)].end >= Last(p).end - PreKeyword
      BY <2>3 DEF Last
    <3> QED BY <2>2, <2>3, <3>1, LatelyIs
  <2>5. Folded(r, g) = [r EXCEPT !.preroll = q]
    BY <1>1, <1>6 DEF Folded, Kept, p
  <2> HIDE DEF q
  <2>6. /\ t \in StationState
        /\ t.session = s.session /\ t.last = g.seq /\ t.lastEnd = g.end /\ t.seen = r.seen
        /\ t.open = s.open /\ t.segments = s.segments /\ t.preroll = q
    <3>1. t = [r EXCEPT !.preroll = q, !.lastEnd = g.end]
      BY <1>1, <1>2, <2>5 DEF StationState
    <3>2. /\ t \in StationState
          /\ t.session = r.session /\ t.last = r.last /\ t.lastEnd = g.end /\ t.seen = r.seen
          /\ t.open = r.open /\ t.segments = r.segments /\ t.preroll = q
      BY <1>1, <1>3, <2>4, <3>1 DEF StationState
    <3> QED BY <1>1, <3>2
  <2>7. p = Newest(Append(s.preroll, g)) /\ q = Lately(p, Last(p).end - PreKeyword)
    BY <1>1 DEF p, q
  <2>8. ~t.open
    BY <1>6, <2>6
  <2>9. KeptFor(s, t, g)
    BY <1>1, <1>6, <2>2, <2>6, <2>7, <2>8, Zenon DEF KeptFor
  <2> QED BY <1>1, <2>6, <2>9
<1> QED BY <1>4, <1>5, <1>6

LEMMA ConstantsAre ==
    ASSUME AssemblerAssumption
    PROVE  /\ PreKeyword \in Nat /\ SilenceEnd \in Nat /\ MaxDuration \in Nat
           /\ MaxSegments \in Nat /\ MaxPreroll \in Nat
           /\ 1 <= MaxPreroll /\ MaxPreroll + 1 <= MaxSegments /\ PreKeyword < 2 * MaxSegments
<1>1. /\ PreKeyword \in Nat /\ SilenceEnd \in Nat /\ MaxDuration \in Nat /\ MaxSegments \in Nat
      /\ MaxPreroll \in 1 .. MaxSegments - 1 /\ PreKeyword < 2 * MaxSegments
  BY DEF AssemblerAssumption
<1> QED BY <1>1

LEMMA SegmentIs ==
    ASSUME NEW g \in Segment
    PROVE  /\ g.session \in Nat /\ g.seq \in Nat /\ g.start \in Nat /\ g.end \in Nat
           /\ g.hit \in BOOLEAN
BY DEF Segment

LEMMA StationIs ==
    ASSUME NEW s \in StationState
    PROVE  /\ s.session \in Nat /\ s.open \in BOOLEAN /\ s.segments \in Seq(Segment)
           /\ s.preroll \in Seq(Segment) /\ s.last \in Nat /\ s.seen \subseteq Nat
           /\ s.lastEnd \in Nat /\ s.id \in Nat \X Nat /\ s.missing \subseteq Nat
BY DEF StationState

\* What is kept for a lead-in is the end of the preroll, the new segment last.
LEMMA KeptIs ==
    ASSUME AssemblerAssumption, NEW s \in StationState, Len(s.preroll) <= MaxPreroll,
           NEW g \in Segment, NEW t \in StationState, KeptFor(s, t, g)
    PROVE  /\ Len(t.preroll) <= MaxPreroll
           /\ t.preroll[1].end >= g.end - PreKeyword
           /\ \E d \in 0 .. Len(s.preroll) :
                 /\ Len(t.preroll) = Len(s.preroll) + 1 - d
                 /\ \A i \in 1 .. Len(s.preroll) + 1 - d :
                       t.preroll[i] = Append(s.preroll, g)[i + d]
<1> DEFINE all == Append(s.preroll, g)
           p == Newest(all)
           n == Len(s.preroll)
<1>1. /\ s.preroll \in Seq(Segment) /\ n \in Nat /\ n <= MaxPreroll
      /\ all \in Seq(Segment) /\ Len(all) = n + 1 /\ all[n + 1] = g
      /\ MaxPreroll \in Nat /\ MaxPreroll >= 1 /\ PreKeyword \in Nat
  <2>1. s.preroll \in Seq(Segment)
    BY StationIs
  <2>2. MaxPreroll \in Nat /\ MaxPreroll >= 1 /\ PreKeyword \in Nat
    BY ConstantsAre
  <2> QED BY <2>1, <2>2
<1> HIDE DEF all, n
<1>2. PICK e \in 0 .. n : /\ p \in Seq(Segment) /\ Len(p) = n + 1 - e /\ Len(p) <= MaxPreroll
                          /\ \A i \in 1 .. n + 1 - e : p[i] = all[i + e]
  <2>1. CASE Len(all) > MaxPreroll
    <3>1. p = Tail(all)
      BY <2>1 DEF Newest
    <3>2. /\ p \in Seq(Segment) /\ Len(p) = n + 1 - 1 /\ Len(p) <= MaxPreroll
          /\ \A i \in 1 .. n + 1 - 1 : p[i] = all[i + 1]
      BY <3>1, <1>1
    <3>3. 1 \in 0 .. n
      BY <2>1, <1>1
    <3> QED BY <3>2, <3>3
  <2>2. CASE ~(Len(all) > MaxPreroll)
    <3>1. p = all /\ 0 \in 0 .. n
      BY <2>2, <1>1 DEF Newest
    <3>2. \A i \in 1 .. n + 1 - 0 : i + 0 = i
      BY <1>1
    <3>3. /\ p \in Seq(Segment) /\ Len(p) = n + 1 - 0 /\ Len(p) <= MaxPreroll
          /\ \A i \in 1 .. n + 1 - 0 : p[i] = all[i + 0]
      BY <3>1, <3>2, <2>2, <1>1
    <3> QED BY <3>1, <3>3
  <2> QED BY <2>1, <2>2
<1> HIDE DEF p
<1>3. Len(p) \in DOMAIN p /\ Last(p) = g
  BY <1>1, <1>2 DEF Last
<1>4. g.end \in Nat /\ g.end - PreKeyword \in Int /\ p[Len(p)].end >= g.end - PreKeyword
  <2>1. g.end \in Nat /\ p[Len(p)] = g
    BY <1>3, SegmentIs DEF Last
  <2> QED BY <1>1, <2>1
<1>5. t.preroll = Lately(p, g.end - PreKeyword)
  BY <1>3 DEF KeptFor, p, all
<1>6. PICK m \in 1 .. Len(p) :
              /\ p[m].end >= g.end - PreKeyword
              /\ Len(t.preroll) = Len(p) - m + 1
              /\ \A i \in 1 .. Len(p) - m + 1 : t.preroll[i] = p[i + m - 1]
  <2>1. PICK cut \in Int : cut = g.end - PreKeyword
    BY <1>4
  <2>2. PICK len \in DOMAIN p : len = Len(p)
    BY <1>3
  <2>3. PICK m \in 1 .. len :
              /\ Lately(p, cut) = SubSeq(p, m, Len(p)) /\ p[m].end >= cut
              /\ Len(Lately(p, cut)) = Len(p) - m + 1
              /\ \A i \in 1 .. Len(p) - m + 1 : Lately(p, cut)[i] = p[i + m - 1]
    <3>1. p[len].end >= cut
      BY <1>4, <2>1, <2>2
    <3> QED BY <1>2, <3>1, LatelyIs
  <2> QED BY <1>5, <2>1, <2>2, <2>3
<1> DEFINE d == e + m - 1
<1>7. d \in 0 .. n /\ Len(t.preroll) = n + 1 - d /\ Len(t.preroll) <= MaxPreroll
  BY <1>1, <1>2, <1>6
<1>8. \A i \in 1 .. n + 1 - d : t.preroll[i] = all[i + d]
  <2> SUFFICES ASSUME NEW i \in 1 .. n + 1 - d PROVE t.preroll[i] = all[i + d]
    OBVIOUS
  <2>1. i \in 1 .. Len(p) - m + 1 /\ i + m - 1 \in 1 .. n + 1 - e /\ i + m - 1 + e = i + d
    BY <1>1, <1>2, <1>6
  <2> HIDE DEF d
  <2> QED BY <2>1, <1>2, <1>6
<1>9. t.preroll[1].end >= g.end - PreKeyword
  <2>1. Len(p) \in Nat /\ m \in Nat /\ m <= Len(p) /\ 1 <= m
    BY <1>2, <1>6
  <2>2. 1 \in 1 .. Len(p) - m + 1 /\ 1 + m - 1 = m
    BY <2>1
  <2> QED BY <2>2, <1>6
<1> QED BY <1>7, <1>8, <1>9 DEF all, n

-----------------------------------------------------------------------------
\* Conversations end in time, and no hit is dropped: for any order of delivery.

InTime(q) ==
    /\ Len(q) <= MaxSegments
    /\ \A i \in 1 .. Len(q) - 1 :
          (\E j \in 1 .. i : q[j].hit) =>
              /\ q[i].end - q[1].start < MaxDuration
              /\ q[i + 1].start - q[i].end < SilenceEnd

Sound(s) ==
    /\ s.open => /\ s.segments # << >> /\ InTime(s.segments)
                 /\ s.lastEnd = Last(s.segments).end /\ s.lastEnd # 0
    /\ Len(s.preroll) <= MaxPreroll
    /\ \A i \in DOMAIN s.preroll : ~s.preroll[i].hit

Good(s, c) ==
    /\ s \in StationState /\ c \in Seq(Conversation)
    /\ Sound(s)
    /\ \A i \in DOMAIN c : InTime(c[i].segments)

Placed(h, s, c) ==
    \/ \E i \in DOMAIN c : h \in Elements(c[i].segments)
    \/ s.open /\ h \in Elements(s.segments)

LEMMA CloseGood ==
    ASSUME NEW s, NEW c, Good(s, c), NEW reason \in Reasons
    PROVE  /\ Good(Reset(s), c \o Emitted(s, reason))
           /\ ~Exhausted(Reset(s))
           /\ \A h : h.hit /\ Placed(h, s, c) => Placed(h, Reset(s), c \o Emitted(s, reason))
<1>1. /\ s \in StationState /\ c \in Seq(Conversation)
      /\ Emitted(s, reason) \in Seq(Conversation)
  BY EmittedType DEF Good
<1>2. /\ Reset(s) \in StationState /\ ~Reset(s).open /\ Reset(s).preroll = s.preroll
  BY <1>1, ResetIs
<1>3. Sound(Reset(s))
  BY <1>2 DEF Good, Sound
<1>4. ~Exhausted(Reset(s))
  BY <1>2 DEF Exhausted
<1> DEFINE conv == [id |-> s.id, segments |-> s.segments, reason |-> reason, missing |-> s.missing]
           d == c \o Emitted(s, reason)
<1>5. CASE s.open /\ Hits(s.segments) # {}
  <2>1. Emitted(s, reason) = <<conv>>
    BY <1>5 DEF Emitted
  <2>2. conv.segments = s.segments
    OBVIOUS
  <2>3. /\ d \in Seq(Conversation) /\ Len(d) = Len(c) + 1 /\ Len(c) \in Nat
        /\ \A i \in 1 .. Len(c) : d[i] = c[i]
        /\ d[Len(c) + 1] = conv
        /\ DOMAIN c = 1 .. Len(c) /\ DOMAIN d = 1 .. Len(c) + 1
    <3> HIDE DEF conv
    <3> QED BY <1>1, <2>1
  <2> HIDE DEF conv, d
  <2>4. \A i \in DOMAIN d : InTime(d[i].segments)
    <3>1. InTime(conv.segments)
      BY <1>5, <2>2 DEF Good, Sound
    <3>2. \A i \in 1 .. Len(c) + 1 : i \in 1 .. Len(c) \/ i = Len(c) + 1
      BY <2>3
    <3> QED BY <2>3, <3>1, <3>2 DEF Good
  <2>5. ASSUME NEW h, Placed(h, s, c) PROVE Placed(h, Reset(s), d)
    <3>1. CASE s.open /\ h \in Elements(s.segments)
      <4>1. Len(c) + 1 \in DOMAIN d /\ h \in Elements(d[Len(c) + 1].segments)
        BY <3>1, <2>2, <2>3
      <4> QED BY <4>1 DEF Placed
    <3>2. ASSUME NEW i \in DOMAIN c, h \in Elements(c[i].segments) PROVE Placed(h, Reset(s), d)
      <4>1. i \in DOMAIN d /\ d[i] = c[i]
        BY <3>2, <2>3
      <4> QED BY <4>1, <3>2 DEF Placed
    <3> QED BY <2>5, <3>1, <3>2 DEF Placed
  <2> QED BY <1>2, <1>3, <1>4, <2>3, <2>4, <2>5 DEF Good, d
<1>6. CASE ~(s.open /\ Hits(s.segments) # {})
  <2>1. Emitted(s, reason) = << >>
    BY <1>6 DEF Emitted
  <2>2. d = c
    BY <2>1, <1>1
  <2>3. ASSUME NEW h, h.hit, Placed(h, s, c) PROVE Placed(h, Reset(s), d)
    BY <2>2, <2>3, <1>6, Zenon DEF Placed, Hits
  <2> HIDE DEF d
  <2> QED BY <1>2, <1>3, <1>4, <2>2, <2>3 DEF Good, d
<1> QED BY <1>5, <1>6

LEMMA FoldGood ==
    ASSUME AssemblerAssumption, NEW s, NEW c, Good(s, c), ~Exhausted(s),
           NEW g \in Segment, g.end # 0, ~(s.open /\ GapAtLeast(s, g))
    PROVE  /\ Good(FoldOf(s, g), c)
           /\ \A h : Placed(h, s, c) => Placed(h, FoldOf(s, g), c)
           /\ g.hit => Placed(g, FoldOf(s, g), c)
<1>1. PICK t : t = FoldOf(s, g)
  OBVIOUS
<1>2. s \in StationState /\ c \in Seq(Conversation) /\ Sound(s)
  BY DEF Good
<1>3. /\ t \in StationState /\ t.lastEnd = g.end
      /\ GoesOn(s, t, g) \/ Opens(s, t, g) \/ KeptFor(s, t, g)
  BY <1>1, <1>2, FoldIs
<1>4. /\ g.end \in Nat /\ g.start \in Nat /\ s.lastEnd \in Nat /\ SilenceEnd \in Nat
      /\ MaxDuration \in Nat /\ MaxSegments \in Nat /\ MaxPreroll \in Nat
      /\ MaxPreroll + 1 <= MaxSegments
      /\ s.segments \in Seq(Segment) /\ s.preroll \in Seq(Segment)
  BY <1>2, ConstantsAre, SegmentIs, StationIs
<1> DEFINE Goal == /\ Sound(t)
                   /\ \A h : Placed(h, s, c) => Placed(h, t, c)
                   /\ g.hit => Placed(g, t, c)
<1>5. ASSUME GoesOn(s, t, g) PROVE Goal
  <2> DEFINE q == s.segments
             n == Len(q)
             u == Append(q, g)
  <2>1. t.open /\ s.open /\ t.segments = u /\ t.preroll = s.preroll
    BY <1>5 DEF GoesOn
  <2>2. /\ u \in Seq(Segment) /\ Len(u) = n + 1 /\ Elements(u) = Elements(q) \cup {g}
        /\ Last(u) = g /\ \A i \in 1 .. n : u[i] = q[i]
    BY <1>4, ElementsOfAppend
  <2>3. n \in Nat /\ n >= 1 /\ q # << >> /\ u[n + 1] = g
    BY <1>2, <1>4, <2>1 DEF Sound
  <2>4. q[n].end - q[1].start < MaxDuration /\ n < MaxSegments
    <3>1. Last(q) = q[n] /\ Head(q) = q[1]
      BY <1>4, <2>3 DEF Last
    <3>2. q[n] \in Segment /\ q[1] \in Segment
      BY <1>4, <2>3
    <3>3. q[n].end \in Nat /\ q[1].start \in Nat
      BY <3>2 DEF Segment
    <3>4. ~(Last(q).end - Head(q).start >= MaxDuration \/ n >= MaxSegments)
      BY <2>1 DEF Exhausted
    <3> HIDE DEF q
    <3>5. PICK a \in Nat : a = q[n].end
      BY <3>3
    <3>6. PICK b \in Nat : b = q[1].start
      BY <3>3
    <3>7. ~(a - b >= MaxDuration \/ n >= MaxSegments)
      BY <3>1, <3>4, <3>5, <3>6
    <3>8. a - b < MaxDuration /\ n < MaxSegments
      <4> HIDE DEF n
      <4> QED BY <3>7, <1>4, <2>3
    <3> QED BY <3>5, <3>6, <3>8
  <2>5. g.start - q[n].end < SilenceEnd
    <3>1. s.lastEnd = q[n].end /\ s.lastEnd # 0
      BY <1>2, <2>1 DEF Sound, Last
    <3>2. ~(Greatest(0, g.start - s.lastEnd) >= SilenceEnd)
      BY <3>1, <2>1 DEF GapAtLeast
    <3> QED BY <3>1, <3>2, <1>4 DEF Greatest
  <2> HIDE DEF q, n, u
  <2>6. InTime(u)
    <3>1. SUFFICES ASSUME NEW i \in 1 .. n, \E j \in 1 .. i : u[j].hit
                   PROVE  /\ u[i].end - u[1].start < MaxDuration
                          /\ u[i + 1].start - u[i].end < SilenceEnd
      BY <1>4, <2>2, <2>3, <2>4 DEF InTime
    <3>2. u[1] = q[1] /\ u[i] = q[i]
      BY <2>2, <2>3
    <3>3. CASE i = n
      BY <3>2, <3>3, <2>3, <2>4, <2>5
    <3>4. CASE i # n
      <4>1. i \in 1 .. n - 1 /\ i + 1 \in 1 .. n
        BY <3>4, <2>3
      <4>2. \E j \in 1 .. i : q[j].hit
        <5>1. \A j \in 1 .. i : u[j] = q[j]
          BY <2>2, <2>3
        <5> QED BY <3>1, <5>1
      <4>3. InTime(q)
        BY <1>2, <2>1 DEF Sound, q
      <4>4. q[i].end - q[1].start < MaxDuration /\ q[i + 1].start - q[i].end < SilenceEnd
        BY <4>1, <4>2, <4>3 DEF InTime, n
      <4>5. u[i + 1] = q[i + 1]
        BY <4>1, <2>2
      <4> QED BY <3>2, <4>4, <4>5
    <3> QED BY <3>3, <3>4
  <2>7. Sound(t)
    <3>1. u # << >>
      BY <2>2, <2>3
    <3> QED BY <1>2, <1>3, <2>1, <2>2, <2>6, <3>1 DEF Sound
  <2>8. \A h : Placed(h, s, c) => Placed(h, t, c)
    BY <2>1, <2>2, Zenon DEF Placed, q
  <2>9. Placed(g, t, c)
    BY <2>1, <2>2 DEF Placed
  <2> QED BY <2>7, <2>8, <2>9
<1>6. ASSUME Opens(s, t, g) PROVE Goal
  <2> DEFINE lead == Since(s.preroll, g.start - PreKeyword)
             n == Len(lead)
             u == Append(lead, g)
  <2>1. t.open /\ ~s.open /\ t.segments = u /\ t.preroll = << >>
    BY <1>6 DEF Opens
  <2>2. /\ lead \in Seq(Segment) /\ n <= Len(s.preroll) /\ n \in Nat
        /\ \A i \in 1 .. n : \E j \in DOMAIN s.preroll : lead[i] = s.preroll[j]
    <3>1. PICK cut \in Int : cut = g.start - PreKeyword
      BY <1>4, ConstantsAre
    <3>2. lead = Since(s.preroll, cut)
      BY <3>1
    <3>3. /\ Since(s.preroll, cut) \in Seq(Segment) /\ Len(Since(s.preroll, cut)) <= Len(s.preroll)
          /\ \A i \in DOMAIN Since(s.preroll, cut) :
                \E j \in DOMAIN s.preroll : Since(s.preroll, cut)[i] = s.preroll[j]
      BY <1>4, SinceIs
    <3> HIDE DEF lead
    <3> QED BY <3>2, <3>3
  <2>3. \A i \in 1 .. n : ~lead[i].hit
    BY <2>2, <1>2 DEF Sound
  <2>4. n <= MaxPreroll
    <3>1. Len(s.preroll) \in Nat /\ Len(s.preroll) <= MaxPreroll
      BY <1>2, <1>4 DEF Sound
    <3> QED BY <3>1, <2>2, <1>4
  <2> HIDE DEF lead
  <2>5. /\ u \in Seq(Segment) /\ Len(u) = n + 1 /\ Elements(u) = Elements(lead) \cup {g}
        /\ Last(u) = g /\ \A i \in 1 .. n : u[i] = lead[i]
    BY <2>2, ElementsOfAppend
  <2> HIDE DEF n, u
  <2>6. InTime(u)
    <3>1. \A i \in 1 .. n : \A j \in 1 .. i : ~u[j].hit
      <4>1. \A i \in 1 .. n : \A j \in 1 .. i : j \in 1 .. n
        BY <2>2
      <4> QED BY <4>1, <2>3, <2>5
    <3>2. Len(u) - 1 = n /\ Len(u) <= MaxSegments
      BY <1>4, <2>2, <2>4, <2>5
    <3> QED BY <3>1, <3>2 DEF InTime
  <2>7. Sound(t)
    <3>1. u # << >>
      BY <2>2, <2>5
    <3>2. Len(t.preroll) <= MaxPreroll /\ DOMAIN t.preroll = {}
      BY <2>1, <1>4
    <3> QED BY <1>3, <2>1, <2>5, <2>6, <3>1, <3>2 DEF Sound
  <2>8. \A h : Placed(h, s, c) => Placed(h, t, c)
    BY <2>1, Zenon DEF Placed
  <2>9. Placed(g, t, c)
    BY <2>1, <2>5 DEF Placed
  <2> QED BY <2>7, <2>8, <2>9
<1>7. ASSUME KeptFor(s, t, g) PROVE Goal
  <2>1. ~t.open /\ ~s.open /\ ~g.hit
    BY <1>7 DEF KeptFor
  <2>2. Len(s.preroll) <= MaxPreroll
    BY <1>2 DEF Sound
  <2>3. Len(t.preroll) <= MaxPreroll /\ t.preroll \in Seq(Segment)
    BY <1>2, <1>3, <1>7, <2>2, KeptIs DEF StationState
  <2>4. PICK n \in Nat : n = Len(s.preroll)
    BY <1>4
  <2>5. PICK d \in 0 .. n : /\ Len(t.preroll) = n + 1 - d
                            /\ \A i \in 1 .. n + 1 - d :
                                  t.preroll[i] = Append(s.preroll, g)[i + d]
    BY <1>2, <1>3, <1>7, <2>2, <2>4, KeptIs
  <2>6. \A i \in DOMAIN t.preroll : ~t.preroll[i].hit
    <3>0. DOMAIN t.preroll = 1 .. Len(t.preroll)
      BY <2>3
    <3>1. SUFFICES ASSUME NEW i \in 1 .. n + 1 - d PROVE ~t.preroll[i].hit
      BY <3>0, <2>5
    <3>2. i + d \in 1 .. n + 1 /\ t.preroll[i] = Append(s.preroll, g)[i + d]
      <4>1. i + d \in 1 .. n + 1
        OBVIOUS
      <4> QED BY <2>5, <4>1
    <3>3. CASE i + d = n + 1
      BY <3>2, <3>3, <1>4, <2>1, <2>4
    <3>4. CASE i + d # n + 1
      <4>1. i + d \in 1 .. n
        <5>1. PICK j \in 1 .. n + 1 : j = i + d
          BY <3>2
        <5>2. j # n + 1
          BY <5>1, <3>4
        <5>3. j \in 1 .. n
          BY <5>2
        <5> QED BY <5>1, <5>3
      <4>2. t.preroll[i] = s.preroll[i + d]
        BY <4>1, <3>2, <1>4, <2>4
      <4>3. DOMAIN s.preroll = 1 .. n
        BY <1>4, <2>4
      <4>4. \A k \in DOMAIN s.preroll : ~s.preroll[k].hit
        BY <1>2 DEF Sound
      <4>5. ~s.preroll[i + d].hit
        BY <4>1, <4>3, <4>4
      <4> QED BY <4>2, <4>5
    <3> QED BY <3>3, <3>4
  <2>7. \A h : Placed(h, s, c) => Placed(h, t, c)
    BY <2>1, Zenon DEF Placed
  <2> QED BY <2>1, <2>3, <2>6, <2>7 DEF Sound
<1> HIDE DEF Goal
<1>8. Goal
  BY <1>3, <1>5, <1>6, <1>7
<1> QED BY <1>1, <1>2, <1>3, <1>8 DEF Goal, Good

LEMMA ObserveGood ==
    ASSUME AssemblerAssumption, Good(station, closed), ~Exhausted(station),
           NEW g \in Segment, g.end # 0, Observe(g)
    PROVE  /\ Good(station', closed') /\ ~Exhausted(station')
           /\ \A h : h.hit /\ Placed(h, station, closed) => Placed(h, station', closed')
           /\ g.hit /\ Accepts(station, g) => Placed(g, station', closed')
<1> DEFINE Goal == /\ Good(station', closed') /\ ~Exhausted(station')
                   /\ \A h : h.hit /\ Placed(h, station, closed) => Placed(h, station', closed')
                   /\ g.hit /\ Accepts(station, g) => Placed(g, station', closed')
<1>1. CASE ~Accepts(station, g)
  <2>1. station' = station /\ closed' = closed
    BY <1>1 DEF Observe
  <2> QED BY <2>1, <1>1
<1>2. ASSUME Accepts(station, g) PROVE Goal
  <2>1. station \in StationState /\ closed \in Seq(Conversation)
    BY DEF Good
  <2> DEFINE Moves(s, c, t, d) ==
                 /\ Good(t, d) /\ ~Exhausted(t)
                 /\ \A h : h.hit /\ Placed(h, s, c) => Placed(h, t, d)
  <2>2. Moves(station, closed, Turned(g), ClosedByTurn(g))
    <3>1. CASE NewSession(station, g)
      <4>1. "disconnect" \in Reasons
        BY DEF Reasons
      <4> QED BY <3>1, <4>1, CloseGood, Zenon DEF Turned, ClosedByTurn
    <3>2. CASE ~NewSession(station, g)
      BY <3>2, Zenon DEF Turned, ClosedByTurn
    <3> QED BY <3>1, <3>2
  <2>3. Moves(station, closed, InSession(g), ClosedByTurn(g))
    <3>1. PICK u : u = Turned(g)
      OBVIOUS
    <3>2. u \in StationState
      BY <2>2, <3>1 DEF Good
    <3>3. InSession(g) = [u EXCEPT !.session = g.session] /\ g.session \in Nat
      BY <3>1, SegmentIs DEF InSession
    <3>4. PICK v : v = InSession(g)
      OBVIOUS
    <3>5. /\ v \in StationState /\ v.open = u.open /\ v.segments = u.segments
          /\ v.preroll = u.preroll /\ v.lastEnd = u.lastEnd
      BY <3>2, <3>3, <3>4 DEF StationState
    <3>6. Sound(v) /\ ~Exhausted(v)
      BY <2>2, <3>1, <3>5 DEF Good, Sound, Exhausted
    <3>7. Good(v, ClosedByTurn(g))
      BY <2>2, <3>5, <3>6 DEF Good
    <3>8. \A h : Placed(h, u, ClosedByTurn(g)) => Placed(h, v, ClosedByTurn(g))
      BY <3>5, Zenon DEF Placed
    <3> QED BY <2>2, <3>1, <3>4, <3>6, <3>7, <3>8, Zenon
  <2>4. /\ Moves(station, closed, BeforeFold(g), ClosedBefore(g))
        /\ ~(BeforeFold(g).open /\ GapAtLeast(BeforeFold(g), g))
    <3>1. CASE Silent(g)
      <4>1. SilenceReason(g) \in Reasons
        BY DEF SilenceReason, Reasons
      <4>2. /\ Good(Reset(InSession(g)), ClosedByTurn(g) \o Emitted(InSession(g), SilenceReason(g)))
            /\ ~Exhausted(Reset(InSession(g)))
            /\ \A h : h.hit /\ Placed(h, InSession(g), ClosedByTurn(g)) =>
                  Placed(h, Reset(InSession(g)),
                         ClosedByTurn(g) \o Emitted(InSession(g), SilenceReason(g)))
        BY <2>3, <4>1, CloseGood
      <4>3. ~Reset(InSession(g)).open
        BY <2>3, ResetIs DEF Good
      <4> QED BY <3>1, <2>3, <4>2, <4>3, Zenon DEF BeforeFold, ClosedBefore
    <3>2. CASE ~Silent(g)
      BY <3>2, <2>3, Zenon DEF BeforeFold, ClosedBefore, Silent
    <3> QED BY <3>1, <3>2
  <2>5. PICK s, c, t : s = BeforeFold(g) /\ c = ClosedBefore(g) /\ t = FoldOf(s, g)
    OBVIOUS
  <2>6. /\ Good(t, c)
        /\ \A h : Placed(h, s, c) => Placed(h, t, c)
        /\ g.hit => Placed(g, t, c)
    BY <2>4, <2>5, FoldGood
  <2>7. /\ station' = IF Exhausted(t) THEN Reset(t) ELSE t
        /\ closed' = IF Exhausted(t) THEN c \o Emitted(t, "max_duration") ELSE c
    BY <1>2, <2>1, <2>5, ObserveSplit
  <2>8. CASE Exhausted(t)
    <3>1. "max_duration" \in Reasons
      BY DEF Reasons
    <3>2. /\ Good(Reset(t), c \o Emitted(t, "max_duration"))
          /\ ~Exhausted(Reset(t))
          /\ \A h : h.hit /\ Placed(h, t, c) =>
                Placed(h, Reset(t), c \o Emitted(t, "max_duration"))
      BY <3>1, <2>6, CloseGood
    <3>3. station' = Reset(t) /\ closed' = c \o Emitted(t, "max_duration")
      BY <2>7, <2>8
    <3> QED BY <3>2, <3>3, <2>4, <2>5, <2>6, Zenon
  <2>9. CASE ~Exhausted(t)
    <3>1. station' = t /\ closed' = c
      BY <2>7, <2>9
    <3> QED BY <3>1, <2>4, <2>5, <2>6, <2>9, Zenon
  <2> QED BY <2>8, <2>9
<1> QED BY <1>1, <1>2

-----------------------------------------------------------------------------
\* The segments on air and on their way, whatever the queue does with them.

Traffic ==
    /\ aired \in Seq(Segment) /\ pending \in Seq(Segment)
    /\ Elements(pending) \subseteq Elements(aired)
    /\ session \in Nat /\ seq \in Nat /\ stretch \in Nat /\ now \in Nat
    /\ \A g \in Elements(aired) : g.end # 0

HitsHaveAPlace ==
    \A g \in Elements(aired) :
        g.hit => g \in Elements(pending) \/ g \in refused \/ Placed(g, station, closed)

KeepingHits == Traffic /\ Good(station, closed) /\ ~Exhausted(station) /\ HitsHaveAPlace

\* The segment _flush_segment() emits.
LEMMA AirIs ==
    ASSUME AssemblerAssumption, Traffic, Air
    PROVE  \E g \in Segment :
              /\ aired' = Append(aired, g) /\ pending' = Append(pending, g)
              /\ g.session = session /\ g.seq = seq + 1 /\ seq' = seq + 1
              /\ g.start >= now /\ g.end >= g.start + 1 /\ now' = g.end
              /\ station' = station /\ closed' = closed /\ refused' = refused
              /\ session' = session /\ stretch' = stretch
<1>1. PICK gap \in Gaps, class \in Classes, hit \in BOOLEAN :
          LET g == [session |-> session, seq |-> seq + 1, start |-> now + gap,
                    end |-> now + gap + 1, class |-> class, hit |-> hit, stretch |-> stretch]
          IN  aired' = Append(aired, g) /\ pending' = Append(pending, g) /\ now' = g.end
  BY DEF Air
<1> DEFINE g == [session |-> session, seq |-> seq + 1, start |-> now + gap,
                 end |-> now + gap + 1, class |-> class, hit |-> hit, stretch |-> stretch]
<1>2. gap \in Nat
  BY DEF AssemblerAssumption
<1>3. session \in Nat /\ seq + 1 \in Nat /\ now \in Nat /\ now + gap \in Nat
      /\ now + gap + 1 \in Nat /\ stretch \in Nat
  BY <1>2 DEF Traffic
<1>4. g \in Segment
  BY <1>3 DEF Segment
<1>5. /\ aired' = Append(aired, g) /\ pending' = Append(pending, g) /\ now' = g.end
  BY <1>1
<1>6. /\ g.session = session /\ g.seq = seq + 1
      /\ g.start >= now /\ g.end >= g.start + 1
  BY <1>2, <1>3
<1>7. /\ seq' = seq + 1 /\ station' = station /\ closed' = closed /\ refused' = refused
      /\ session' = session /\ stretch' = stretch
  BY DEF Air
<1> HIDE DEF g
<1> QED BY <1>4, <1>5, <1>6, <1>7

\* What is delivered leaves the queue, and nothing else does.
LEMMA DeliverIs ==
    ASSUME Traffic, Deliver
    PROVE  \E g \in Elements(pending) :
              /\ g \in Segment /\ Observe(g)
              /\ refused' = IF Accepts(station, g) THEN refused ELSE refused \cup {g}
              /\ pending' \in Seq(Segment)
              /\ Elements(pending') \subseteq Elements(pending)
              /\ Elements(pending) \subseteq Elements(pending') \cup {g}
              /\ UNCHANGED <<aired, session, seq, stretch, now>>
<1>1. PICK i \in DOMAIN pending :
          /\ Observe(pending[i])
          /\ refused' = IF Accepts(station, pending[i]) THEN refused ELSE refused \cup {pending[i]}
          /\ pending' = SubSeq(pending, 1, i - 1) \o SubSeq(pending, i + 1, Len(pending))
          /\ UNCHANGED <<aired, session, seq, stretch, now, repeats>>
  BY DEF Deliver
<1>2. pending \in Seq(Segment) /\ Len(pending) \in Nat /\ DOMAIN pending = 1 .. Len(pending)
  BY DEF Traffic
<1>3. pending[i] \in Segment /\ pending[i] \in Elements(pending)
  BY <1>2 DEF Elements
<1> DEFINE p == SubSeq(pending, 1, i - 1)
           q == SubSeq(pending, i + 1, Len(pending))
<1>4. /\ p \in Seq(Segment) /\ Len(p) = i - 1 /\ \A k \in 1 .. i - 1 : p[k] = pending[k]
      /\ q \in Seq(Segment) /\ Len(q) = Len(pending) - i
      /\ \A k \in 1 .. Len(pending) - i : q[k] = pending[i + k]
  BY <1>2
<1> HIDE DEF p, q
<1>5. p \o q \in Seq(Segment) /\ Elements(p \o q) = Elements(p) \cup Elements(q)
  BY <1>4, ElementsOfConcat
<1>6. Elements(p) \subseteq Elements(pending)
  BY <1>2, <1>4 DEF Elements
<1>7. Elements(q) \subseteq Elements(pending)
  <2>1. \A k \in 1 .. Len(pending) - i : i + k \in 1 .. Len(pending)
    BY <1>2
  <2> QED BY <1>2, <1>4, <2>1 DEF Elements
<1>8. Elements(pending) \subseteq Elements(p) \cup Elements(q) \cup {pending[i]}
  <2> SUFFICES ASSUME NEW k \in 1 .. Len(pending)
               PROVE  pending[k] \in Elements(p) \cup Elements(q) \cup {pending[i]}
    BY <1>2 DEF Elements
  <2>1. CASE k < i
    <3>1. k \in 1 .. i - 1
      BY <2>1, <1>2
    <3>2. p[k] = pending[k] /\ DOMAIN p = 1 .. i - 1
      BY <3>1, <1>2, <1>4
    <3>3. pending[k] \in Elements(p)
      BY <3>1, <3>2 DEF Elements
    <3> QED BY <3>3
  <2>2. CASE k = i
    BY <2>2
  <2>3. CASE k > i
    <3>1. k - i \in 1 .. Len(pending) - i /\ i + (k - i) = k
      BY <2>3, <1>2
    <3>2. q[k - i] = pending[k]
      BY <3>1, <1>4
    <3> QED BY <3>1, <3>2, <1>4 DEF Elements
  <2> QED BY <2>1, <2>2, <2>3, <1>2
<1>9. pending' = p \o q
  BY <1>1 DEF p, q
<1> QED BY <1>1, <1>3, <1>5, <1>6, <1>7, <1>8, <1>9

LEMMA RepeatIs ==
    ASSUME Traffic, Repeat
    PROVE  \E g \in Elements(aired) \ Elements(pending) :
              /\ g \in Segment /\ Observe(g) /\ (AcrossSessions \/ g.session = session)
              /\ UNCHANGED <<aired, session, seq, stretch, now, pending, refused>>
<1>1. PICK g \in Elements(aired) \ Elements(pending) :
          (AcrossSessions \/ g.session = session) /\ Observe(g)
  BY DEF Repeat
<1>2. g \in Segment
  BY DEF Traffic, Elements
<1> QED BY <1>1, <1>2 DEF Repeat

LEMMA KeepingHitsInit ==
    ASSUME AssemblerAssumption, Init
    PROVE  KeepingHits
<1>1. << >> \in Seq(Segment) /\ << >> \in Seq(Conversation) /\ Elements(<< >>) = {}
  BY DEF Elements
<1>2. Traffic
  BY <1>1 DEF Traffic, Init
<1>3. Idle \in StationState /\ ~Idle.open /\ Idle.preroll = << >>
  BY <1>1 DEF Idle, StationState
<1>4. Good(Idle, << >>) /\ ~Exhausted(Idle)
  BY <1>1, <1>3, ConstantsAre DEF Good, Sound, Exhausted
<1> QED BY <1>1, <1>2, <1>4 DEF Init, KeepingHits, HitsHaveAPlace

LEMMA KeepingHitsNext ==
    ASSUME AssemblerAssumption, KeepingHits, [Next]_vars
    PROVE  KeepingHits'
<1>1. /\ Traffic /\ Good(station, closed) /\ ~Exhausted(station) /\ HitsHaveAPlace
  BY DEF KeepingHits
<1>2. CASE Air
  <2>1. PICK g \in Segment :
              /\ aired' = Append(aired, g) /\ pending' = Append(pending, g)
              /\ g.session = session /\ g.seq = seq + 1 /\ seq' = seq + 1
              /\ g.start >= now /\ g.end >= g.start + 1 /\ now' = g.end
              /\ station' = station /\ closed' = closed /\ refused' = refused
              /\ session' = session /\ stretch' = stretch
    BY <1>1, <1>2, AirIs
  <2>2. /\ aired' \in Seq(Segment) /\ Elements(aired') = Elements(aired) \cup {g}
        /\ pending' \in Seq(Segment) /\ Elements(pending') = Elements(pending) \cup {g}
    BY <1>1, <2>1, ElementsOfAppend DEF Traffic
  <2>3. g.end # 0 /\ g.end \in Nat /\ seq' \in Nat
    <3>1. g.end \in Nat /\ g.start \in Nat /\ seq \in Nat
      BY <1>1, SegmentIs DEF Traffic
    <3> QED BY <2>1, <3>1
  <2>4. Traffic'
    BY <1>1, <2>1, <2>2, <2>3 DEF Traffic
  <2>5. HitsHaveAPlace'
    BY <1>1, <2>1, <2>2 DEF HitsHaveAPlace
  <2>6. Good(station', closed') /\ ~Exhausted(station')
    BY <1>1, <2>1
  <2> QED BY <2>4, <2>5, <2>6 DEF KeepingHits
<1>3. CASE Deliver
  <2>1. PICK g \in Elements(pending) :
              /\ g \in Segment /\ Observe(g)
              /\ refused' = IF Accepts(station, g) THEN refused ELSE refused \cup {g}
              /\ pending' \in Seq(Segment)
              /\ Elements(pending') \subseteq Elements(pending)
              /\ Elements(pending) \subseteq Elements(pending') \cup {g}
              /\ UNCHANGED <<aired, session, seq, stretch, now>>
    BY <1>1, <1>3, DeliverIs
  <2>2. g.end # 0
    BY <1>1, <2>1 DEF Traffic
  <2>3. /\ Good(station', closed') /\ ~Exhausted(station')
        /\ \A h : h.hit /\ Placed(h, station, closed) => Placed(h, station', closed')
        /\ g.hit /\ Accepts(station, g) => Placed(g, station', closed')
    BY <1>1, <2>1, <2>2, ObserveGood
  <2>4. Traffic'
    BY <1>1, <2>1 DEF Traffic
  <2>5. HitsHaveAPlace'
    <3> SUFFICES ASSUME NEW h \in Elements(aired), h.hit
                 PROVE  h \in Elements(pending') \/ h \in refused' \/ Placed(h, station', closed')
      BY <2>1 DEF HitsHaveAPlace
    <3>1. h \in Elements(pending) \/ h \in refused \/ Placed(h, station, closed)
      BY <1>1 DEF HitsHaveAPlace
    <3>2. CASE h = g
      BY <3>2, <2>1, <2>3
    <3>3. CASE h # g
      BY <3>1, <3>3, <2>1, <2>3
    <3> QED BY <3>2, <3>3
  <2> QED BY <2>3, <2>4, <2>5 DEF KeepingHits
<1>4. CASE Repeat
  <2>1. PICK g \in Elements(aired) \ Elements(pending) :
              /\ g \in Segment /\ Observe(g)
              /\ UNCHANGED <<aired, session, seq, stretch, now, pending, refused>>
    BY <1>1, <1>4, RepeatIs
  <2>2. g.end # 0
    BY <1>1, <2>1 DEF Traffic
  <2>3. /\ Good(station', closed') /\ ~Exhausted(station')
        /\ \A h : h.hit /\ Placed(h, station, closed) => Placed(h, station', closed')
    BY <1>1, <2>1, <2>2, ObserveGood
  <2>4. Traffic'
    BY <1>1, <2>1 DEF Traffic
  <2>5. HitsHaveAPlace'
    BY <1>1, <2>1, <2>3 DEF HitsHaveAPlace
  <2> QED BY <2>3, <2>4, <2>5 DEF KeepingHits
<1>5. CASE Shutdown
  <2>1. /\ closed' = closed \o Emitted(station, "shutdown") /\ station' = Reset(station)
        /\ UNCHANGED <<aired, session, seq, stretch, now, pending, repeats, refused>>
    BY <1>5 DEF Shutdown
  <2>2. "shutdown" \in Reasons
    BY DEF Reasons
  <2>3. /\ Good(station', closed') /\ ~Exhausted(station')
        /\ \A h : h.hit /\ Placed(h, station, closed) => Placed(h, station', closed')
    BY <1>1, <2>1, <2>2, CloseGood
  <2>4. Traffic'
    BY <1>1, <2>1 DEF Traffic
  <2>5. HitsHaveAPlace'
    BY <1>1, <2>1, <2>3 DEF HitsHaveAPlace
  <2> QED BY <2>3, <2>4, <2>5 DEF KeepingHits
<1>6. CASE Reconnect \/ NewTurn \/ UNCHANGED vars
  <2>1. /\ UNCHANGED <<station, aired, pending, refused, closed>>
        /\ session' \in Nat /\ seq' \in Nat /\ stretch' \in Nat /\ now' \in Nat
    <3>1. session \in Nat /\ seq \in Nat /\ stretch \in Nat /\ now \in Nat
      BY <1>1 DEF Traffic
    <3>2. CASE Reconnect
      BY <3>1, <3>2 DEF Reconnect
    <3>3. CASE NewTurn
      BY <3>1, <3>3 DEF NewTurn
    <3>4. CASE UNCHANGED vars
      BY <3>1, <3>4 DEF vars
    <3> QED BY <1>6, <3>2, <3>3, <3>4
  <2>2. Traffic' /\ HitsHaveAPlace'
    BY <1>1, <2>1 DEF Traffic, HitsHaveAPlace
  <2>3. Good(station', closed') /\ ~Exhausted(station')
    BY <1>1, <2>1
  <2> QED BY <2>2, <2>3 DEF KeepingHits
<1> QED BY <1>2, <1>3, <1>4, <1>5, <1>6 DEF Next

\* The conversation that is open, as Conversations lists it.
OpenOne == [id |-> station.id, segments |-> station.segments, reason |-> "shutdown",
            missing |-> station.missing]

(* A keyword hit in a segment the worker accepted is never dropped, for any  *)
(* order of delivery: it is in an emitted conversation or in the open one.   *)
THEOREM NoHitIsDropped == Spec => []NoHitDropped
<1>1. Init => KeepingHits
  BY AssemblerAssumption, KeepingHitsInit
<1>2. KeepingHits /\ [Next]_vars => KeepingHits'
  BY AssemblerAssumption, KeepingHitsNext
<1>3. KeepingHits => NoHitDropped
  <2> SUFFICES ASSUME KeepingHits,
                      NEW g \in Elements(aired), g.hit, g \notin Elements(pending), g \notin refused
               PROVE  \E c \in Conversations : g \in Elements(c.segments)
    BY DEF NoHitDropped, Hits
  <2>1. Placed(g, station, closed)
    BY DEF KeepingHits, HitsHaveAPlace
  <2>2. CASE \E i \in DOMAIN closed : g \in Elements(closed[i].segments)
    <3>1. PICK i \in DOMAIN closed : g \in Elements(closed[i].segments)
      BY <2>2
    <3>2. closed[i] \in Conversations
      BY DEF Conversations, Elements
    <3> QED BY <3>1, <3>2
  <2>3. CASE station.open /\ g \in Elements(station.segments)
    <3>1. OpenOne \in Conversations /\ OpenOne.segments = station.segments
      BY <2>3 DEF Conversations, OpenOne
    <3> QED BY <2>3, <3>1
  <2> QED BY <2>1, <2>2, <2>3 DEF Placed
<1> QED BY <1>1, <1>2, <1>3, PTL DEF Spec

(* A conversation ends in time: never more than MaxSegments segments, and    *)
(* once its keyword was said no longer than MaxDuration and no silence of    *)
(* SilenceEnd inside it.                                                     *)
THEOREM ConversationsEndInTime == Spec => []EndsInTime
<1>1. Init => KeepingHits
  BY AssemblerAssumption, KeepingHitsInit
<1>2. KeepingHits /\ [Next]_vars => KeepingHits'
  BY AssemblerAssumption, KeepingHitsNext
<1>3. KeepingHits => EndsInTime
  <2> SUFFICES ASSUME KeepingHits, NEW c \in Conversations PROVE InTime(c.segments)
    BY Zenon DEF EndsInTime, InTime
  <2>1. Good(station, closed)
    BY DEF KeepingHits
  <2>2. CASE c \in Elements(closed)
    BY <2>1, <2>2 DEF Good, Elements
  <2>3. CASE station.open /\ c = OpenOne
    <3>1. c.segments = station.segments
      BY <2>3 DEF OpenOne
    <3> QED BY <2>1, <2>3, <3>1 DEF Good, Sound
  <2> QED BY <2>2, <2>3 DEF Conversations, OpenOne
<1> QED BY <1>1, <1>2, <1>3, PTL DEF Spec

-----------------------------------------------------------------------------
(* What is told, is told in order and once, when a session's segments arrive *)
(* before the next session begins.                                           *)

\* The order in which the listener numbered two segments.
Before(a, b) == a.session < b.session \/ (a.session = b.session /\ a.seq < b.seq)

Chain(q) == \A i, j \in DOMAIN q : i < j => Before(q[i], q[j])
Precedes(p, q) == \A a \in Elements(p), b \in Elements(q) : Before(a, b)

\* A segment is told when a conversation has it or when it is kept as a lead-in.
Told(h, s, c) == Placed(h, s, c) \/ h \in Elements(s.preroll)

Woven(s, c) ==
    /\ \A i \in DOMAIN c : Chain(c[i].segments) /\ Precedes(c[i].segments, s.preroll)
    /\ \A i, j \in DOMAIN c : i < j => Precedes(c[i].segments, c[j].segments)
    /\ Chain(s.preroll)
    /\ s.open => /\ Chain(s.segments) /\ s.preroll = << >>
                 /\ \A i \in DOMAIN c : Precedes(c[i].segments, s.segments)

LEMMA NothingPrecedes == Elements(<< >>) = {} /\ Chain(<< >>) /\ \A q : Precedes(q, << >>)
BY DEF Elements, Chain, Precedes

LEMMA ChainOfAppend ==
    ASSUME NEW q \in Seq(Segment), Chain(q), NEW g \in Segment,
           \A h \in Elements(q) : Before(h, g)
    PROVE  Chain(Append(q, g))
<1>1. PICK n \in Nat : n = Len(q)
  OBVIOUS
<1>2. PICK u : u = Append(q, g)
  OBVIOUS
<1>3. /\ DOMAIN q = 1 .. n /\ DOMAIN u = 1 .. n + 1
      /\ \A i \in 1 .. n : u[i] = q[i] /\ q[i] \in Elements(q)
      /\ u[n + 1] = g
  <2>1. u \in Seq(Segment) /\ Len(u) = n + 1 /\ Last(u) = g /\ \A i \in 1 .. n : u[i] = q[i]
    BY <1>1, <1>2, ElementsOfAppend
  <2>2. DOMAIN q = 1 .. n
    BY <1>1
  <2> QED BY <2>1, <2>2 DEF Last, Elements
<1>4. \A i, j \in 1 .. n + 1 : i < j => Before(u[i], u[j])
  <2> SUFFICES ASSUME NEW i \in 1 .. n + 1, NEW j \in 1 .. n + 1, i < j
               PROVE  Before(u[i], u[j])
    OBVIOUS
  <2>1. i \in 1 .. n
    OBVIOUS
  <2>2. CASE j = n + 1
    BY <2>1, <2>2, <1>3
  <2>3. CASE j # n + 1
    <3>1. j \in 1 .. n
      BY <2>3
    <3>2. Before(q[i], q[j])
      BY <2>1, <3>1, <1>3 DEF Chain
    <3> QED BY <2>1, <3>1, <3>2, <1>3
  <2> QED BY <2>2, <2>3
<1> QED BY <1>2, <1>3, <1>4 DEF Chain

\* A lead-in is part of what was kept, in the same order.
LEMMA ChainOfSince ==
    ASSUME NEW q \in Seq(Segment), Chain(q), NEW cutoff \in Int
    PROVE  Chain(Since(q, cutoff)) /\ Elements(Since(q, cutoff)) \subseteq Elements(q)
<1>1. PICK u : u = Since(q, cutoff)
  OBVIOUS
<1>2. /\ \A i \in DOMAIN u : \E j \in DOMAIN q : u[i] = q[j]
      /\ \A i, j \in DOMAIN u : i < j =>
            \E k, l \in DOMAIN q : k < l /\ u[i] = q[k] /\ u[j] = q[l]
  BY <1>1, SinceIs
<1>3. Chain(u)
  BY <1>2 DEF Chain
<1>4. Elements(u) \subseteq Elements(q)
  BY <1>2 DEF Elements
<1> QED BY <1>1, <1>3, <1>4

\* What is kept is the end of a chain.
LEMMA ChainOfWindow ==
    ASSUME NEW q \in Seq(Segment), Chain(q), NEW u \in Seq(Segment),
           NEW m \in Nat, NEW d \in Nat, Len(q) = m + d, Len(u) = m,
           \A i \in 1 .. m : u[i] = q[i + d]
    PROVE  Chain(u) /\ Elements(u) \subseteq Elements(q)
<1>1. DOMAIN q = 1 .. m + d /\ DOMAIN u = 1 .. m
  OBVIOUS
<1>2. \A i \in 1 .. m : i + d \in 1 .. m + d
  OBVIOUS
<1>3. Elements(u) \subseteq Elements(q)
  BY <1>1, <1>2 DEF Elements
<1>4. ASSUME NEW i \in 1 .. m, NEW j \in 1 .. m, i < j PROVE Before(u[i], u[j])
  <2>1. i + d < j + d
    BY <1>4
  <2>2. Before(q[i + d], q[j + d])
    BY <1>1, <1>2, <2>1 DEF Chain
  <2> QED BY <2>2
<1> QED BY <1>1, <1>3, <1>4 DEF Chain

LEMMA KeptChain ==
    ASSUME AssemblerAssumption, NEW s \in StationState, Len(s.preroll) <= MaxPreroll,
           NEW g \in Segment, NEW t \in StationState, KeptFor(s, t, g),
           Chain(s.preroll), \A h \in Elements(s.preroll) : Before(h, g)
    PROVE  Chain(t.preroll) /\ Elements(t.preroll) \subseteq Elements(s.preroll) \cup {g}
<1>1. PICK q : q = Append(s.preroll, g)
  OBVIOUS
<1>2. PICK n \in Nat : n = Len(s.preroll)
  BY StationIs
<1>3. PICK d \in 0 .. n : /\ Len(t.preroll) = n + 1 - d
                          /\ \A i \in 1 .. n + 1 - d : t.preroll[i] = q[i + d]
  BY <1>1, <1>2, KeptIs
<1>4. q \in Seq(Segment) /\ Len(q) = n + 1 /\ Chain(q)
      /\ Elements(q) = Elements(s.preroll) \cup {g}
  BY <1>1, <1>2, StationIs, ElementsOfAppend, ChainOfAppend
<1>5. PICK m \in Nat : m = n + 1 - d
  OBVIOUS
<1>6. d \in Nat /\ Len(q) = m + d /\ Len(t.preroll) = m
      /\ \A i \in 1 .. m : t.preroll[i] = q[i + d]
  BY <1>3, <1>4, <1>5
<1>7. t.preroll \in Seq(Segment)
  BY StationIs
<1>8. Chain(t.preroll) /\ Elements(t.preroll) \subseteq Elements(q)
  BY <1>4, <1>6, <1>7, ChainOfWindow
<1> QED BY <1>4, <1>8

LEMMA CloseWoven ==
    ASSUME NEW s \in StationState, NEW c \in Seq(Conversation), Woven(s, c),
           NEW reason \in Reasons
    PROVE  /\ Woven(Reset(s), c \o Emitted(s, reason))
           /\ \A h : Told(h, Reset(s), c \o Emitted(s, reason)) => Told(h, s, c)
<1>1. PICK r, d : r = Reset(s) /\ d = c \o Emitted(s, reason)
  OBVIOUS
<1>2. ~r.open /\ r.preroll = s.preroll
  BY <1>1, ResetIs
<1> DEFINE conv == [id |-> s.id, segments |-> s.segments, reason |-> reason, missing |-> s.missing]
<1>3. CASE s.open /\ Hits(s.segments) # {}
  <2>1. Emitted(s, reason) = <<conv>> /\ conv.segments = s.segments
    BY <1>3 DEF Emitted
  <2>2. Emitted(s, reason) \in Seq(Conversation)
    BY EmittedType
  <2>3. PICK n \in Nat : n = Len(c)
    OBVIOUS
  <2> HIDE DEF conv
  <2>4. /\ DOMAIN c = 1 .. n /\ DOMAIN d = 1 .. n + 1
        /\ \A i \in 1 .. n : d[i] = c[i]
        /\ d[n + 1].segments = s.segments
    BY <1>1, <2>1, <2>2, <2>3
  <2>5. s.preroll = << >> /\ Chain(s.segments)
        /\ \A i \in DOMAIN c : Precedes(c[i].segments, s.segments)
    BY <1>3 DEF Woven
  <2>6. \A i \in 1 .. n + 1 : i \in 1 .. n \/ i = n + 1
    OBVIOUS
  <2>7. \A i \in DOMAIN d : Chain(d[i].segments) /\ Precedes(d[i].segments, r.preroll)
    BY <2>4, <2>5, <2>6, <1>2, NothingPrecedes DEF Woven
  <2>8. ASSUME NEW i \in DOMAIN d, NEW j \in DOMAIN d, i < j
        PROVE  Precedes(d[i].segments, d[j].segments)
    <3>1. i \in 1 .. n
      BY <2>4, <2>8
    <3>2. CASE j = n + 1
      BY <3>1, <3>2, <2>4, <2>5
    <3>3. CASE j \in 1 .. n
      BY <3>1, <3>3, <2>4, <2>8 DEF Woven
    <3> QED BY <3>2, <3>3, <2>4, <2>6
  <2>9. Woven(r, d)
    BY <2>7, <2>8, <1>2 DEF Woven
  <2>10. ASSUME NEW h, Told(h, r, d) PROVE Told(h, s, c)
    <3>1. CASE h \in Elements(r.preroll)
      BY <3>1, <1>2 DEF Told
    <3>2. ASSUME NEW i \in DOMAIN d, h \in Elements(d[i].segments) PROVE Told(h, s, c)
      <4>1. CASE i = n + 1
        BY <4>1, <3>2, <2>4, <1>3 DEF Told, Placed
      <4>2. CASE i \in 1 .. n
        BY <4>2, <3>2, <2>4 DEF Told, Placed
      <4> QED BY <4>1, <4>2, <2>4, <2>6
    <3> QED BY <2>10, <3>1, <3>2, <1>2 DEF Told, Placed
  <2> QED BY <1>1, <2>9, <2>10
<1>4. CASE ~(s.open /\ Hits(s.segments) # {})
  <2>1. d = c
    BY <1>1, <1>4 DEF Emitted
  <2>2. Woven(r, c)
    BY <1>2, Zenon DEF Woven
  <2>3. \A h : Told(h, r, c) => Told(h, s, c)
    BY <1>2, Zenon DEF Told, Placed
  <2> QED BY <1>1, <2>1, <2>2, <2>3
<1> QED BY <1>3, <1>4

LEMMA FoldWoven ==
    ASSUME AssemblerAssumption, NEW s \in StationState, NEW c \in Seq(Conversation), Woven(s, c),
           Len(s.preroll) <= MaxPreroll,
           NEW g \in Segment, \A h : Told(h, s, c) => Before(h, g)
    PROVE  /\ Woven(FoldOf(s, g), c)
           /\ \A h : Told(h, FoldOf(s, g), c) => Told(h, s, c) \/ h = g
<1>1. PICK t : t = FoldOf(s, g)
  OBVIOUS
<1>2. t \in StationState /\ (GoesOn(s, t, g) \/ Opens(s, t, g) \/ KeptFor(s, t, g))
  BY <1>1, FoldIs
<1>3. s.segments \in Seq(Segment) /\ s.preroll \in Seq(Segment)
  BY StationIs
<1>4. /\ \A h \in Elements(s.preroll) : Before(h, g)
      /\ \A i \in DOMAIN c : \A h \in Elements(c[i].segments) : Before(h, g)
  BY DEF Told, Placed
<1> DEFINE Goal == /\ Woven(t, c)
                   /\ \A h : Told(h, t, c) => Told(h, s, c) \/ h = g
<1>5. ASSUME GoesOn(s, t, g) PROVE Goal
  <2>1. t.open /\ s.open /\ t.segments = Append(s.segments, g) /\ t.preroll = s.preroll
    BY <1>5 DEF GoesOn
  <2>2. /\ Chain(s.segments) /\ s.preroll = << >>
        /\ \A i \in DOMAIN c : Precedes(c[i].segments, s.segments)
    BY <2>1 DEF Woven
  <2>3. \A h \in Elements(s.segments) : Before(h, g)
    BY <2>1 DEF Told, Placed
  <2>4. Elements(t.segments) = Elements(s.segments) \cup {g} /\ Chain(t.segments)
    BY <1>3, <2>1, <2>2, <2>3, ElementsOfAppend, ChainOfAppend
  <2>5. \A i \in DOMAIN c : Precedes(c[i].segments, t.segments)
    BY <1>4, <2>2, <2>4 DEF Precedes
  <2>6. Woven(t, c)
    BY <2>1, <2>2, <2>4, <2>5, Zenon DEF Woven
  <2>7. \A h : Told(h, t, c) => Told(h, s, c) \/ h = g
    <3>1. \A h \in Elements(t.segments) : h \in Elements(s.segments) \/ h = g
      BY <2>4
    <3> QED BY <2>1, <3>1, Zenon DEF Told, Placed
  <2> QED BY <2>6, <2>7
<1>6. ASSUME Opens(s, t, g) PROVE Goal
  <2>1. PICK cut \in Int : cut = g.start - PreKeyword
    BY ConstantsAre, SegmentIs
  <2>2. PICK lead : lead = Since(s.preroll, cut)
    OBVIOUS
  <2>3. t.open /\ ~s.open /\ t.segments = Append(lead, g) /\ t.preroll = << >>
    BY <1>6, <2>1, <2>2 DEF Opens
  <2>4. lead \in Seq(Segment) /\ Chain(lead) /\ Elements(lead) \subseteq Elements(s.preroll)
    BY <1>3, <2>2, SinceIs, ChainOfSince DEF Woven
  <2>5. Elements(t.segments) = Elements(lead) \cup {g} /\ Chain(t.segments)
    BY <1>4, <2>3, <2>4, ElementsOfAppend, ChainOfAppend
  <2>6. \A i \in DOMAIN c : Precedes(c[i].segments, t.segments)
    <3>1. \A i \in DOMAIN c : Precedes(c[i].segments, s.preroll)
      BY DEF Woven
    <3> QED BY <1>4, <2>4, <2>5, <3>1 DEF Precedes
  <2>7. Woven(t, c)
    <3>1. Chain(t.preroll) /\ \A i \in DOMAIN c : Precedes(c[i].segments, t.preroll)
      BY <2>3, NothingPrecedes
    <3>2. /\ \A i \in DOMAIN c : Chain(c[i].segments)
          /\ \A i, j \in DOMAIN c : i < j => Precedes(c[i].segments, c[j].segments)
      BY DEF Woven
    <3> QED BY <2>3, <2>5, <2>6, <3>1, <3>2, Zenon DEF Woven
  <2>8. \A h : Told(h, t, c) => Told(h, s, c) \/ h = g
    <3>1. \A h \in Elements(t.segments) : h \in Elements(s.preroll) \/ h = g
      BY <2>4, <2>5
    <3>2. Elements(t.preroll) = {}
      BY <2>3, NothingPrecedes
    <3> QED BY <2>3, <3>1, <3>2 DEF Told, Placed
  <2> QED BY <2>7, <2>8
<1>7. ASSUME KeptFor(s, t, g) PROVE Goal
  <2>1. ~t.open /\ ~s.open
    BY <1>7 DEF KeptFor
  <2>2. Chain(t.preroll) /\ Elements(t.preroll) \subseteq Elements(s.preroll) \cup {g}
    BY <1>2, <1>4, <1>7, KeptChain DEF Woven
  <2>3. \A i \in DOMAIN c : Precedes(c[i].segments, t.preroll)
    <3>1. \A i \in DOMAIN c : Precedes(c[i].segments, s.preroll)
      BY DEF Woven
    <3> QED BY <1>4, <2>2, <3>1 DEF Precedes
  <2>4. Woven(t, c)
    <3>1. /\ \A i \in DOMAIN c : Chain(c[i].segments)
          /\ \A i, j \in DOMAIN c : i < j => Precedes(c[i].segments, c[j].segments)
      BY DEF Woven
    <3> QED BY <2>1, <2>2, <2>3, <3>1, Zenon DEF Woven
  <2>5. \A h : Told(h, t, c) => Told(h, s, c) \/ h = g
    <3>1. \A h \in Elements(t.preroll) : h \in Elements(s.preroll) \/ h = g
      BY <2>2
    <3> QED BY <2>1, <3>1, Zenon DEF Told, Placed
  <2> QED BY <2>4, <2>5
<1> HIDE DEF Goal
<1>8. Goal
  BY <1>2, <1>5, <1>6, <1>7
<1> QED BY <1>1, <1>8 DEF Goal

-----------------------------------------------------------------------------
(* Ids.  A conversation is named by the session it opened in and the number  *)
(* of its first segment, which may be a lead-in from an earlier session.  A  *)
(* name is not given again because its number stays among those seen, or     *)
(* below the last one, as long as the session lasts.                         *)

Ids(s, c) == {c[i].id : i \in DOMAIN c} \cup (IF s.open THEN {s.id} ELSE {})

Named(s, c) ==
    /\ \A d \in Ids(s, c) : d[1] <= s.session
    /\ \A d \in Ids(s, c) : d[1] = s.session => d[2] \in s.seen \/ d[2] < s.last
    /\ \A d \in Ids(s, c) : \A p \in Elements(s.preroll) : d # <<s.session, p.seq>>
    /\ \A i, j \in DOMAIN c : c[i].id = c[j].id => i = j
    /\ s.open => \A i \in DOMAIN c : c[i].id # s.id
    /\ \A p \in Elements(s.preroll) : p.seq \in s.seen

\* The number of g names no conversation of g's session, and none will be reused.
Clear(s, c, g) ==
    \A d \in Ids(s, c) : d[1] = g.session => d[2] # g.seq /\ (d[2] \in s.seen \/ d[2] < g.seq)

LEMMA IdsTyped ==
    ASSUME NEW s \in StationState, NEW c \in Seq(Conversation)
    PROVE  \A d \in Ids(s, c) : d \in Nat \X Nat
<1>1. \A i \in DOMAIN c : c[i] \in Conversation
  OBVIOUS
<1>2. \A i \in DOMAIN c : c[i].id \in Nat \X Nat
  BY <1>1 DEF Conversation
<1> QED BY <1>2, StationIs DEF Ids

LEMMA CloseNamed ==
    ASSUME NEW s \in StationState, NEW c \in Seq(Conversation), Woven(s, c), Named(s, c),
           NEW reason \in Reasons
    PROVE  /\ Named(Reset(s), c \o Emitted(s, reason))
           /\ Ids(Reset(s), c \o Emitted(s, reason)) \subseteq Ids(s, c)
<1>1. PICK r, d : r = Reset(s) /\ d = c \o Emitted(s, reason)
  OBVIOUS
<1>2. /\ ~r.open /\ r.preroll = s.preroll /\ r.session = s.session
      /\ r.last = s.last /\ r.seen = s.seen
  BY <1>1, ResetIs
<1> DEFINE conv == [id |-> s.id, segments |-> s.segments, reason |-> reason, missing |-> s.missing]
<1>3. /\ Ids(r, d) \subseteq Ids(s, c)
      /\ \A i, j \in DOMAIN d : d[i].id = d[j].id => i = j
  <2>1. CASE s.open /\ Hits(s.segments) # {}
    <3>1. Emitted(s, reason) = <<conv>> /\ conv.id = s.id
      BY <2>1 DEF Emitted
    <3>2. Emitted(s, reason) \in Seq(Conversation)
      BY EmittedType
    <3>3. PICK n \in Nat : n = Len(c)
      OBVIOUS
    <3> HIDE DEF conv
    <3>4. /\ DOMAIN c = 1 .. n /\ DOMAIN d = 1 .. n + 1
          /\ \A i \in 1 .. n : d[i] = c[i]
          /\ d[n + 1].id = s.id
      BY <1>1, <3>1, <3>2, <3>3
    <3>5. \A i \in 1 .. n + 1 : i \in 1 .. n \/ i = n + 1
      OBVIOUS
    <3>6. \A i \in DOMAIN d : d[i].id \in Ids(s, c)
      BY <2>1, <3>4, <3>5 DEF Ids
    <3>7. Ids(r, d) \subseteq Ids(s, c)
      BY <3>6, <1>2 DEF Ids
    <3>8. \A i, j \in DOMAIN d : d[i].id = d[j].id => i = j
      BY <2>1, <3>4, <3>5, Zenon DEF Named
    <3> QED BY <3>7, <3>8
  <2>2. CASE ~(s.open /\ Hits(s.segments) # {})
    <3>1. d = c
      BY <1>1, <2>2 DEF Emitted
    <3> QED BY <3>1, <1>2, Zenon DEF Ids, Named
  <2> QED BY <2>1, <2>2
<1>4. Named(r, d)
  BY <1>2, <1>3, Zenon DEF Named
<1> QED BY <1>1, <1>3, <1>4

LEMMA FoldNamed ==
    ASSUME AssemblerAssumption, NEW s \in StationState, NEW c \in Seq(Conversation),
           Woven(s, c), Named(s, c), Len(s.preroll) <= MaxPreroll,
           NEW g \in Segment, g.session = s.session, Clear(s, c, g),
           \A h : Told(h, s, c) => Before(h, g),
           \A a, b \in Elements(s.preroll) \cup {g} :
               Before(a, b) => /\ a.end <= b.end
                               /\ a.seq <= b.seq - 2 * MaxSegments =>
                                      a.end + 2 * MaxSegments <= b.end
    PROVE  Named(FoldOf(s, g), c)
<1>1. PICK t : t = FoldOf(s, g)
  OBVIOUS
<1>2. /\ t \in StationState /\ t.session = s.session /\ t.last = g.seq /\ g.seq \in t.seen
      /\ \A k \in s.seen : k \in t.seen \/ k <= g.seq - 2 * MaxSegments
      /\ GoesOn(s, t, g) \/ Opens(s, t, g) \/ KeptFor(s, t, g)
  BY <1>1, FoldIs
<1>3. /\ s.preroll \in Seq(Segment) /\ t.preroll \in Seq(Segment) /\ s.seen \subseteq Nat
      /\ g.seq \in Nat /\ g.end \in Nat /\ g.start \in Nat
      /\ PreKeyword \in Nat /\ MaxSegments \in Nat /\ PreKeyword < 2 * MaxSegments
      /\ 0 < 2 * MaxSegments
  BY <1>2, StationIs, SegmentIs, ConstantsAre
<1>4. \A k \in s.seen : k \in t.seen \/ k < g.seq
  <2> SUFFICES ASSUME NEW k \in s.seen, k \notin t.seen PROVE k < g.seq
    OBVIOUS
  <2>1. k <= g.seq - 2 * MaxSegments /\ k \in Nat
    BY <1>2, <1>3
  <2> QED BY <2>1, <1>3
<1>5. \A d \in Ids(s, c) : d[1] = t.session => d[2] \in t.seen \/ d[2] < t.last
  <2> SUFFICES ASSUME NEW d \in Ids(s, c), d[1] = t.session PROVE d[2] \in t.seen \/ d[2] < t.last
    OBVIOUS
  <2>1. d[2] \in s.seen \/ d[2] < g.seq
    BY <1>2 DEF Clear
  <2> QED BY <2>1, <1>2, <1>4
<1>6. \A d \in Ids(s, c) : d # <<t.session, g.seq>>
  BY <1>2 DEF Clear
<1>7. /\ \A i, j \in DOMAIN c : c[i].id = c[j].id => i = j
      /\ \A d \in Ids(s, c) : d[1] <= t.session
      /\ \A i \in DOMAIN c : c[i].id \in Ids(s, c)
  BY <1>2 DEF Named, Ids
<1>8. CASE GoesOn(s, t, g)
  <2>1. s.open /\ t.open /\ t.id = s.id /\ t.preroll = << >>
    BY <1>8 DEF GoesOn, Woven
  <2>2. Ids(t, c) = Ids(s, c) /\ Elements(t.preroll) = {}
    BY <2>1, NothingPrecedes DEF Ids
  <2>3. \A i \in DOMAIN c : c[i].id # t.id
    BY <2>1 DEF Named
  <2>4. Named(t, c)
    BY <1>5, <1>7, <2>2, <2>3, Zenon DEF Named
  <2> QED BY <1>1, <2>4
<1>9. CASE Opens(s, t, g)
  <2>1. PICK cut \in Int : cut = g.start - PreKeyword
    BY <1>3
  <2>2. PICK lead : lead = Since(s.preroll, cut)
    OBVIOUS
  <2>3. PICK f : f = Head(Append(lead, g))
    OBVIOUS
  <2>4. /\ ~s.open /\ t.open /\ t.preroll = << >> /\ t.id = <<g.session, f.seq>>
    BY <1>9, <2>1, <2>2, <2>3 DEF Opens
  <2>5. f = g \/ f \in Elements(s.preroll)
    <3>1. lead \in Seq(Segment) /\ Elements(lead) \subseteq Elements(s.preroll)
      BY <1>3, <2>2, SinceIs, ChainOfSince DEF Woven
    <3>2. CASE lead = << >>
      BY <2>3, <3>2
    <3>3. CASE lead # << >>
      <4>1. 1 \in DOMAIN lead /\ f = lead[1]
        BY <2>3, <3>1, <3>3
      <4> QED BY <4>1, <3>1 DEF Elements
    <3> QED BY <3>2, <3>3
  <2>6. \A d \in Ids(s, c) : d # t.id
    BY <1>2, <1>6, <2>4, <2>5 DEF Named
  <2>7. f.seq \in t.seen \/ f.seq < t.last
    BY <1>2, <1>4, <2>5 DEF Named
  <2>8. Ids(t, c) = Ids(s, c) \cup {t.id} /\ Elements(t.preroll) = {}
    BY <2>4, NothingPrecedes DEF Ids
  <2>9. t.id[1] = t.session /\ t.id[2] = f.seq
    BY <1>2, <2>4
  <2>10. t.id[1] <= t.session
    BY <1>2, <2>9, StationIs
  <2>11. \A i \in DOMAIN c : c[i].id # t.id
    BY <1>7, <2>6
  <2>12. \A d \in Ids(t, c) : d[1] <= t.session
    BY <1>7, <2>8, <2>10
  <2>13. \A d \in Ids(t, c) : d[1] = t.session => d[2] \in t.seen \/ d[2] < t.last
    BY <1>5, <2>7, <2>8, <2>9
  <2>14. Named(t, c)
    BY <1>7, <2>8, <2>11, <2>12, <2>13, Zenon DEF Named
  <2> QED BY <1>1, <2>14
<1>10. CASE KeptFor(s, t, g)
  <2>1. ~s.open /\ ~t.open
    BY <1>10 DEF KeptFor
  <2>2. Ids(t, c) = Ids(s, c)
    BY <2>1 DEF Ids
  <2>3. \A h \in Elements(s.preroll) : Before(h, g)
    BY DEF Told
  <2>4. Chain(t.preroll) /\ Elements(t.preroll) \subseteq Elements(s.preroll) \cup {g}
    BY <1>2, <1>10, <2>3, KeptChain DEF Woven
  <2>5. \A d \in Ids(t, c) : \A p \in Elements(t.preroll) : d # <<t.session, p.seq>>
    BY <1>2, <1>6, <2>2, <2>4 DEF Named
  <2>6. ASSUME NEW i \in DOMAIN t.preroll PROVE t.preroll[i].seq \in t.seen
    <3>1. PICK p : p = t.preroll[i]
      OBVIOUS
    <3>2. PICK a : a = t.preroll[1]
      OBVIOUS
    <3>3. /\ i \in Nat /\ 1 <= i /\ 1 \in DOMAIN t.preroll /\ p \in Segment /\ a \in Segment
          /\ p \in Elements(t.preroll) /\ a \in Elements(t.preroll)
      <4>1. PICK n \in Nat : DOMAIN t.preroll = 1 .. n
        <5>1. DOMAIN t.preroll = 1 .. Len(t.preroll) /\ Len(t.preroll) \in Nat
          BY <1>3
        <5> QED BY <5>1
      <4>2. i \in 1 .. n
        BY <4>1
      <4>3. i \in Nat /\ 1 <= i /\ 1 \in 1 .. n
        BY <4>2
      <4>4. p \in Segment /\ a \in Segment
        BY <1>3, <4>1, <4>3, <3>1, <3>2
      <4> QED BY <4>1, <4>3, <4>4, <3>1, <3>2 DEF Elements
    <3>4. a.end \in Nat /\ p.end \in Nat /\ p.seq \in Nat
      BY <3>3, SegmentIs
    <3>5. a.end >= g.end - PreKeyword
      BY <1>2, <1>10, <3>2, KeptIs
    <3>6. a.end <= p.end
      <4>1. CASE i = 1
        BY <4>1, <3>1, <3>2, <3>4
      <4>2. CASE i # 1
        <5>1. 1 < i
          BY <3>3, <4>2
        <5>2. Before(a, p)
          BY <5>1, <3>1, <3>2, <3>3, <2>4 DEF Chain
        <5> QED BY <5>2, <3>3, <2>4
      <4> QED BY <4>1, <4>2
    <3>7. CASE p = g
      BY <3>1, <3>7, <1>2
    <3>8. CASE p # g
      <4>1. p \in Elements(s.preroll)
        BY <3>3, <3>8, <2>4
      <4>2. p.seq \in s.seen /\ Before(p, g)
        BY <4>1, <2>3 DEF Named
      <4>3. ~(p.seq <= g.seq - 2 * MaxSegments)
        <5>1. p.seq <= g.seq - 2 * MaxSegments => p.end + 2 * MaxSegments <= g.end
          BY <4>1, <4>2
        <5>2. PICK w \in Nat : w = 2 * MaxSegments
          BY <1>3
        <5>3. PICK k \in Nat : k = PreKeyword
          BY <1>3
        <5>4. k < w
          BY <1>3, <5>2, <5>3
        <5>5. PICK x \in Nat : x = a.end
          BY <3>4
        <5>6. PICK y \in Nat : y = p.end
          BY <3>4
        <5>7. PICK z \in Nat : z = g.end
          BY <1>3
        <5>8. x >= z - k /\ x <= y
          BY <3>5, <3>6, <5>3, <5>5, <5>6, <5>7
        <5>9. ~(y + w <= z)
          BY <5>4, <5>8
        <5> QED BY <5>1, <5>2, <5>6, <5>7, <5>9
      <4> QED BY <4>2, <4>3, <1>2, <3>1
    <3> QED BY <3>7, <3>8
  <2>7. \A p \in Elements(t.preroll) : p.seq \in t.seen
    BY <2>6 DEF Elements
  <2>8. Named(t, c)
    BY <1>5, <1>7, <2>1, <2>2, <2>5, <2>7, Zenon DEF Named
  <2> QED BY <1>1, <2>8
<1> QED BY <1>2, <1>8, <1>9, <1>10

-----------------------------------------------------------------------------
\* The listener's clock and numbering: a segment lasts, so numbers bound times.

TimeKept ==
    /\ session # 0
    /\ \A a \in Elements(aired) :
          /\ a.session <= session
          /\ a.session = session => a.seq <= seq /\ a.end + (seq - a.seq) <= now
          /\ a.session < session => a.end + seq <= now
    /\ \A a, b \in Elements(aired) : Before(a, b) =>
          /\ a.end <= b.start
          /\ a.session = b.session => a.end + (b.seq - a.seq) <= b.end
          /\ a.session < b.session => a.end + b.seq <= b.end

\* What is told has been on air, and is not newer than the station has seen.
Behind(s, c) ==
    /\ s.session <= session
    /\ s.session # 0 => s.last \in s.seen
    /\ \A h : Told(h, s, c) =>
          /\ h \in Elements(aired)
          /\ h.session < s.session \/ (h.session = s.session /\ h.seq <= s.last)

LEMMA TurnNamed ==
    ASSUME NEW u \in StationState, NEW v, NEW c \in Seq(Conversation), Named(u, c),
           NEW n \in Nat, u.session <= n, v = [u EXCEPT !.session = n]
    PROVE  /\ v \in StationState /\ v.session = n /\ v.open = u.open /\ v.segments = u.segments
           /\ v.preroll = u.preroll /\ v.seen = u.seen /\ v.id = u.id
           /\ Named(v, c) /\ Ids(v, c) = Ids(u, c)
<1>1. /\ v \in StationState /\ v.session = n /\ v.open = u.open /\ v.segments = u.segments
      /\ v.preroll = u.preroll /\ v.seen = u.seen /\ v.id = u.id /\ v.last = u.last
  BY DEF StationState
<1>2. Ids(v, c) = Ids(u, c)
  BY <1>1 DEF Ids
<1>3. CASE u.session = n
  <2>1. Named(v, c)
    BY <1>1, <1>2, <1>3, Zenon DEF Named
  <2> QED BY <1>1, <1>2, <2>1
<1>4. CASE u.session # n
  <2>1. \A d \in Ids(u, c) : d[1] <= n /\ d[1] # n
    <3> SUFFICES ASSUME NEW d \in Ids(u, c) PROVE d[1] <= n /\ d[1] # n
      OBVIOUS
    <3>1. d[1] \in Nat
      BY IdsTyped
    <3>2. d[1] <= u.session
      BY DEF Named
    <3>3. u.session \in Nat
      BY StationIs
    <3> QED BY <3>1, <3>2, <3>3, <1>4
  <2>2. \A d \in Ids(u, c) : \A p \in Elements(u.preroll) : d # <<n, p.seq>>
    BY <2>1
  <2>3. Named(v, c)
    BY <1>1, <1>2, <2>1, <2>2, Zenon DEF Named
  <2> QED BY <1>1, <1>2, <2>3
<1> QED BY <1>3, <1>4

LEMMA ObserveInTurn ==
    ASSUME AssemblerAssumption, Traffic, Good(station, closed), TimeKept,
           Behind(station, closed), Woven(station, closed), Named(station, closed),
           NEW g \in Elements(aired), g.session = session, Observe(g)
    PROVE  Behind(station', closed') /\ Woven(station', closed') /\ Named(station', closed')
<1> DEFINE Goal == Behind(station', closed') /\ Woven(station', closed') /\ Named(station', closed')
<1>1. CASE ~Accepts(station, g)
  <2>1. station' = station /\ closed' = closed
    BY <1>1 DEF Observe
  <2> QED BY <2>1
<1>2. ASSUME Accepts(station, g) PROVE Goal
  <2>1. /\ station \in StationState /\ closed \in Seq(Conversation)
        /\ Len(station.preroll) <= MaxPreroll
    BY DEF Good, Sound
  <2>2. \A h \in Elements(aired) : h \in Segment
    BY DEF Traffic, Elements
  <2>3. /\ g \in Segment /\ g.seq \in Nat /\ g.session \in Nat /\ g.session # 0
        /\ station.session \in Nat /\ station.last \in Nat /\ station.seen \subseteq Nat
        /\ station.session <= g.session
    BY <2>1, <2>2, SegmentIs, StationIs DEF TimeKept, Behind
  <2>4. station.session = g.session => g.seq \notin station.seen /\ station.last < g.seq
    <3> SUFFICES ASSUME station.session = g.session
                 PROVE  g.seq \notin station.seen /\ station.last < g.seq
      OBVIOUS
    <3>1. g.seq \notin station.seen /\ (station.last = 0 \/ g.seq >= station.last)
      BY <1>2 DEF Accepts
    <3>2. station.last \in station.seen
      BY <2>3 DEF Behind
    <3>3. g.seq # station.last
      BY <3>1, <3>2
    <3> QED BY <3>1, <3>3, <2>3
  <2>5. \A h : Told(h, station, closed) => Before(h, g)
    <3> SUFFICES ASSUME NEW h, Told(h, station, closed) PROVE Before(h, g)
      OBVIOUS
    <3>1. /\ h \in Elements(aired)
          /\ h.session < station.session \/ (h.session = station.session /\ h.seq <= station.last)
      BY DEF Behind
    <3>2. h.session \in Nat /\ h.seq \in Nat
      BY <3>1, <2>2, SegmentIs
    <3>3. CASE station.session = g.session
      BY <3>1, <3>2, <3>3, <2>3, <2>4 DEF Before
    <3>4. CASE station.session # g.session
      BY <3>1, <3>2, <3>4, <2>3 DEF Before
    <3> QED BY <3>3, <3>4
  <2>6. Clear(station, closed, g)
    <3> SUFFICES ASSUME NEW d \in Ids(station, closed), d[1] = g.session
                 PROVE  d[2] # g.seq /\ (d[2] \in station.seen \/ d[2] < g.seq)
      BY DEF Clear
    <3>1. d[1] \in Nat /\ d[2] \in Nat
      BY <2>1, IdsTyped
    <3>2. d[1] <= station.session
      BY DEF Named
    <3>3. station.session = g.session
      BY <3>1, <3>2, <2>3
    <3>4. d[2] \in station.seen \/ d[2] < station.last
      BY <3>3 DEF Named
    <3> QED BY <3>1, <3>3, <3>4, <2>3, <2>4
  <2> DEFINE Comes(s, c) ==
                 /\ s \in StationState /\ c \in Seq(Conversation)
                 /\ s.preroll = station.preroll /\ s.seen = station.seen
                 /\ Woven(s, c) /\ Named(s, c)
                 /\ Ids(s, c) \subseteq Ids(station, closed)
                 /\ \A h : Told(h, s, c) => Told(h, station, closed)
  <2>7. ASSUME NEW s, NEW c, Comes(s, c), NEW reason \in Reasons
        PROVE  Comes(Reset(s), c \o Emitted(s, reason)) /\ Reset(s).session = s.session
    <3>1. c \o Emitted(s, reason) \in Seq(Conversation)
      <4>1. PICK e \in Seq(Conversation) : e = Emitted(s, reason)
        BY <2>7, EmittedType
      <4> QED BY <2>7, <4>1
    <3>2. /\ Reset(s) \in StationState /\ Reset(s).preroll = s.preroll /\ Reset(s).seen = s.seen
          /\ Reset(s).session = s.session
      BY <2>7, ResetIs
    <3>3. /\ Woven(Reset(s), c \o Emitted(s, reason))
          /\ \A h : Told(h, Reset(s), c \o Emitted(s, reason)) => Told(h, s, c)
      BY <2>7, CloseWoven
    <3>4. /\ Named(Reset(s), c \o Emitted(s, reason))
          /\ Ids(Reset(s), c \o Emitted(s, reason)) \subseteq Ids(s, c)
      BY <2>7, CloseNamed
    <3> QED BY <2>7, <3>1, <3>2, <3>3, <3>4, Zenon
  <2>8. Comes(station, closed)
    BY <2>1
  <2>9. Comes(Turned(g), ClosedByTurn(g)) /\ Turned(g).session = station.session
    <3>1. CASE NewSession(station, g)
      <4>1. "disconnect" \in Reasons
        BY DEF Reasons
      <4> HIDE DEF Comes
      <4> QED BY <3>1, <4>1, <2>7, <2>8, Zenon DEF Turned, ClosedByTurn
    <3>2. CASE ~NewSession(station, g)
      <4> HIDE DEF Comes
      <4> QED BY <3>2, <2>8, Zenon DEF Turned, ClosedByTurn
    <3> QED BY <3>1, <3>2
  <2>10. Comes(InSession(g), ClosedByTurn(g)) /\ InSession(g).session = g.session
    <3>1. PICK u, v, c : u = Turned(g) /\ v = InSession(g) /\ c = ClosedByTurn(g)
      OBVIOUS
    <3>2. /\ u \in StationState /\ c \in Seq(Conversation) /\ Named(u, c) /\ Woven(u, c)
          /\ u.session <= g.session /\ v = [u EXCEPT !.session = g.session]
      BY <3>1, <2>3, <2>9 DEF InSession
    <3>3. /\ v \in StationState /\ v.session = g.session /\ v.open = u.open
          /\ v.segments = u.segments /\ v.preroll = u.preroll /\ v.seen = u.seen /\ v.id = u.id
          /\ Named(v, c) /\ Ids(v, c) = Ids(u, c)
      BY <3>2, <2>3, TurnNamed
    <3>4. Woven(v, c)
      BY <3>2, <3>3, Zenon DEF Woven
    <3>5. \A h : Told(h, v, c) => Told(h, u, c)
      BY <3>3, Zenon DEF Told, Placed
    <3>6. Comes(u, c)
      BY <2>9, <3>1
    <3>7. Comes(v, c)
      BY <3>2, <3>3, <3>4, <3>5, <3>6, Zenon
    <3> HIDE DEF Comes
    <3> QED BY <3>1, <3>3, <3>7
  <2>11. Comes(BeforeFold(g), ClosedBefore(g)) /\ BeforeFold(g).session = g.session
    <3>1. CASE Silent(g)
      <4>1. SilenceReason(g) \in Reasons
        BY DEF SilenceReason, Reasons
      <4> HIDE DEF Comes
      <4> QED BY <3>1, <4>1, <2>7, <2>10, Zenon DEF BeforeFold, ClosedBefore
    <3>2. CASE ~Silent(g)
      <4> HIDE DEF Comes
      <4> QED BY <3>2, <2>10, Zenon DEF BeforeFold, ClosedBefore
    <3> QED BY <3>1, <3>2
  <2>12. PICK s, c, t : s = BeforeFold(g) /\ c = ClosedBefore(g) /\ t = FoldOf(s, g)
    OBVIOUS
  <2>13. Comes(s, c) /\ s.session = g.session
    <3> HIDE DEF Comes
    <3> QED BY <2>11, <2>12
  <2>14. /\ Woven(t, c)
         /\ \A h : Told(h, t, c) => Told(h, station, closed) \/ h = g
    <3>1. \A h : Told(h, s, c) => Before(h, g)
      BY <2>5, <2>13
    <3>2. Len(s.preroll) <= MaxPreroll
      BY <2>1, <2>13
    <3>3. /\ Woven(FoldOf(s, g), c)
          /\ \A h : Told(h, FoldOf(s, g), c) => Told(h, s, c) \/ h = g
      BY <2>3, <2>13, <3>1, <3>2, FoldWoven
    <3> QED BY <2>12, <2>13, <3>3, Zenon
  <2>15. Named(t, c)
    <3>1. \A h : Told(h, s, c) => Before(h, g)
      BY <2>5, <2>13
    <3>2. Len(s.preroll) <= MaxPreroll
      BY <2>1, <2>13
    <3>3. Clear(s, c, g)
      BY <2>6, <2>13 DEF Clear
    <3>4. \A a, b \in Elements(s.preroll) \cup {g} :
               Before(a, b) => /\ a.end <= b.end
                               /\ a.seq <= b.seq - 2 * MaxSegments =>
                                      a.end + 2 * MaxSegments <= b.end
      <4> SUFFICES ASSUME NEW a \in Elements(s.preroll) \cup {g},
                          NEW b \in Elements(s.preroll) \cup {g}, Before(a, b)
                   PROVE  /\ a.end <= b.end
                          /\ a.seq <= b.seq - 2 * MaxSegments => a.end + 2 * MaxSegments <= b.end
        OBVIOUS
      <4>1. a \in Elements(aired) /\ b \in Elements(aired)
        BY <2>13 DEF Behind, Told
      <4>2. /\ a.end \in Nat /\ a.seq \in Nat /\ b.end \in Nat /\ b.seq \in Nat
            /\ a.session \in Nat /\ b.session \in Nat
        BY <4>1, <2>2, SegmentIs
      <4>3. PICK w \in Nat : w = 2 * MaxSegments
        BY ConstantsAre
      <4>4. CASE a.session = b.session
        <5>1. a.seq < b.seq
          BY <4>2, <4>4 DEF Before
        <5>2. a.end + (b.seq - a.seq) <= b.end
          BY <4>1, <4>4 DEF TimeKept
        <5>3. a.end <= b.end /\ (a.seq <= b.seq - w => a.end + w <= b.end)
          BY <5>1, <5>2, <4>2
        <5> QED BY <5>3, <4>3
      <4>5. CASE a.session # b.session
        <5>1. a.session < b.session
          BY <4>5 DEF Before
        <5>2. a.end + b.seq <= b.end
          BY <4>1, <5>1 DEF TimeKept
        <5>3. a.end <= b.end /\ (a.seq <= b.seq - w => a.end + w <= b.end)
          BY <5>2, <4>2
        <5> QED BY <5>3, <4>3
      <4> QED BY <4>4, <4>5
    <3>5. Named(FoldOf(s, g), c)
      BY <2>3, <2>13, <3>1, <3>2, <3>3, <3>4, FoldNamed
    <3> QED BY <2>12, <3>5
  <2>16. t \in StationState /\ t.session = g.session /\ t.last = g.seq /\ g.seq \in t.seen
    BY <2>3, <2>12, <2>13, FoldIs
  <2>17. /\ station' = IF Exhausted(t) THEN Reset(t) ELSE t
         /\ closed' = IF Exhausted(t) THEN c \o Emitted(t, "max_duration") ELSE c
    BY <1>2, <2>1, <2>3, <2>12, ObserveSplit
  <2>18. /\ Woven(station', closed') /\ Named(station', closed')
         /\ \A h : Told(h, station', closed') => Told(h, t, c)
         /\ station'.session = t.session /\ station'.last = t.last /\ station'.seen = t.seen
    <3>1. CASE Exhausted(t)
      <4>1. "max_duration" \in Reasons
        BY DEF Reasons
      <4>2. station' = Reset(t) /\ closed' = c \o Emitted(t, "max_duration")
        BY <2>17, <3>1
      <4>3. c \in Seq(Conversation)
        BY <2>13
      <4>4. /\ Woven(Reset(t), c \o Emitted(t, "max_duration"))
            /\ \A h : Told(h, Reset(t), c \o Emitted(t, "max_duration")) => Told(h, t, c)
        BY <2>14, <2>16, <4>1, <4>3, CloseWoven
      <4>5. Named(Reset(t), c \o Emitted(t, "max_duration"))
        BY <2>14, <2>15, <2>16, <4>1, <4>3, CloseNamed
      <4>6. Reset(t).session = t.session /\ Reset(t).last = t.last /\ Reset(t).seen = t.seen
        BY <2>16, ResetIs
      <4> QED BY <4>2, <4>4, <4>5, <4>6
    <3>2. CASE ~Exhausted(t)
      <4>1. station' = t /\ closed' = c
        BY <2>17, <3>2
      <4> QED BY <4>1, <2>14, <2>15
    <3> QED BY <3>1, <3>2
  <2>19. Behind(station', closed')
    <3>1. station'.session <= session /\ station'.last \in station'.seen
      BY <2>3, <2>16, <2>18
    <3>2. ASSUME NEW h, Told(h, station', closed')
          PROVE  /\ h \in Elements(aired)
                 /\ h.session < station'.session
                    \/ (h.session = station'.session /\ h.seq <= station'.last)
      <4>1. Told(h, station, closed) \/ h = g
        BY <3>2, <2>14, <2>18
      <4>2. CASE h = g
        BY <4>2, <2>3, <2>16, <2>18
      <4>3. CASE Told(h, station, closed)
        <5>1. h \in Elements(aired) /\ Before(h, g)
          BY <4>3, <2>5 DEF Behind
        <5>2. h.seq \in Nat
          BY <5>1, <2>2, SegmentIs
        <5> QED BY <5>1, <5>2, <2>3, <2>16, <2>18 DEF Before
      <4> QED BY <4>1, <4>2, <4>3
    <3> QED BY <3>1, <3>2 DEF Behind
  <2> QED BY <2>18, <2>19
<1> QED BY <1>1, <1>2

\* What holds when every segment arrives before its session ends.
InTurn ==
    /\ TimeKept
    /\ \A g \in Elements(pending) : g.session = session
    /\ Behind(station, closed)
    /\ Woven(station, closed)
    /\ Named(station, closed)

LEMMA InTurnInit ==
    ASSUME Init
    PROVE  InTurn
<1>1. /\ station = Idle /\ closed = << >> /\ aired = << >> /\ pending = << >> /\ session = 1
  BY DEF Init
<1>2. /\ Idle.preroll = << >> /\ ~Idle.open /\ Idle.session = 0
  BY DEF Idle
<1>3. Elements(<< >>) = {} /\ DOMAIN << >> = {}
  BY DEF Elements
<1>4. TimeKept /\ \A g \in Elements(pending) : g.session = session
  BY <1>1, <1>3 DEF TimeKept
<1>5. Woven(Idle, << >>) /\ \A h : ~Told(h, Idle, << >>)
  BY <1>2, <1>3, NothingPrecedes DEF Woven, Told, Placed
<1>6. Ids(Idle, << >>) = {}
  BY <1>2, <1>3 DEF Ids
<1>7. Named(Idle, << >>)
  BY <1>2, <1>3, <1>6 DEF Named
<1>8. Behind(Idle, << >>)
  BY <1>1, <1>2, <1>5 DEF Behind
<1> QED BY <1>1, <1>4, <1>5, <1>7, <1>8 DEF InTurn

LEMMA AirKeepsTime ==
    ASSUME AssemblerAssumption, Traffic, TimeKept, Air
    PROVE  TimeKept' /\ Elements(aired) \subseteq Elements(aired')
<1>1. PICK g \in Segment :
              /\ aired' = Append(aired, g) /\ pending' = Append(pending, g)
              /\ g.session = session /\ g.seq = seq + 1 /\ seq' = seq + 1
              /\ g.start >= now /\ g.end >= g.start + 1 /\ now' = g.end
              /\ station' = station /\ closed' = closed /\ refused' = refused
              /\ session' = session /\ stretch' = stretch
  BY AirIs
<1>2. Elements(aired') = Elements(aired) \cup {g}
  BY <1>1, ElementsOfAppend DEF Traffic
<1>3. /\ g.end \in Nat /\ g.start \in Nat /\ session \in Nat /\ seq \in Nat /\ now \in Nat
      /\ now <= g.start /\ now + 1 <= g.end
  <2>1. g.end \in Nat /\ g.start \in Nat /\ session \in Nat /\ seq \in Nat /\ now \in Nat
    BY SegmentIs DEF Traffic
  <2>2. g.start >= now /\ g.end >= g.start + 1
    BY <1>1
  <2>3. PICK x \in Nat, y \in Nat : x = g.start /\ y = g.end
    BY <2>1
  <2>4. now <= x /\ now + 1 <= y
    BY <2>1, <2>2, <2>3
  <2> QED BY <2>1, <2>3, <2>4
<1>4. PICK m \in Nat, e \in Nat : m = seq + 1 /\ e = g.end /\ now + 1 <= e
  <2>1. seq + 1 \in Nat
    BY <1>3
  <2> QED BY <1>3, <2>1
<1>5. ASSUME NEW a \in Elements(aired)
      PROVE  /\ a.session \in Nat /\ a.seq \in Nat /\ a.end \in Nat /\ a.session <= session
             /\ a.end <= now
             /\ a.session = session => a.seq <= seq /\ a.end + (m - a.seq) <= e
             /\ a.session < session => a.end + m <= e
  <2>1. a.session \in Nat /\ a.seq \in Nat /\ a.end \in Nat
    <3>1. a \in Segment
      BY DEF Traffic, Elements
    <3> QED BY <3>1, SegmentIs
  <2>2. /\ a.session <= session
        /\ a.session = session => a.seq <= seq /\ a.end + (seq - a.seq) <= now
        /\ a.session < session => a.end + seq <= now
    BY DEF TimeKept
  <2> QED BY <2>1, <2>2, <1>3, <1>4
<1>6. g.session = session /\ g.seq = m /\ seq' = m /\ now' = e /\ session' = session
  BY <1>1, <1>4
<1>7. ASSUME NEW a \in Elements(aired')
      PROVE  /\ a.session <= session
             /\ a.session = session => a.seq <= m /\ a.end + (m - a.seq) <= e
             /\ a.session < session => a.end + m <= e
  <2>1. CASE a = g
    <3>1. a.session = session /\ a.seq = m /\ a.end = e
      BY <2>1, <1>4, <1>6
    <3> QED BY <3>1, <1>3
  <2>2. CASE a \in Elements(aired)
    <3>1. /\ a.session \in Nat /\ a.seq \in Nat /\ a.end \in Nat /\ a.session <= session
          /\ a.session = session => a.seq <= seq /\ a.end + (m - a.seq) <= e
          /\ a.session < session => a.end + m <= e
      BY <2>2, <1>5, <1>4
    <3>2. a.seq <= seq => a.seq <= m
      BY <3>1, <1>3, <1>4
    <3> QED BY <3>1, <3>2
  <2> QED BY <2>1, <2>2, <1>2
<1>8. ASSUME NEW a \in Elements(aired'), NEW b \in Elements(aired'), Before(a, b)
      PROVE  /\ a.end <= b.start
             /\ a.session = b.session => a.end + (b.seq - a.seq) <= b.end
             /\ a.session < b.session => a.end + b.seq <= b.end
  <2>1. CASE a \in Elements(aired) /\ b \in Elements(aired)
    BY <2>1, <1>8 DEF TimeKept
  <2>2. CASE a \in Elements(aired) /\ b = g
    <3>1. /\ a.end \in Nat /\ a.end <= now
          /\ a.session = session => a.end + (m - a.seq) <= e
          /\ a.session < session => a.end + m <= e
      BY <2>2, <1>5, <1>4
    <3>2. a.end <= g.start
      <4>1. PICK x \in Nat : x = g.start
        BY <1>3
      <4>2. a.end <= x
        BY <3>1, <4>1, <1>3
      <4> QED BY <4>1, <4>2
    <3>3. b.session = session /\ b.seq = m /\ b.end = e
      BY <2>2, <1>4, <1>6
    <3> QED BY <2>2, <3>1, <3>2, <3>3
  <2>3. a # g
    <3> SUFFICES ASSUME a = g PROVE FALSE
      OBVIOUS
    <3>1. session < b.session \/ (session = b.session /\ m < b.seq)
      BY <1>6, <1>8 DEF Before
    <3>2. /\ b.session <= session
          /\ b.session = session => b.seq <= m
      BY <1>7
    <3>3. b.session \in Nat /\ b.seq \in Nat
      <4>1. CASE b = g
        BY <4>1, <1>3, <1>4, <1>6
      <4>2. CASE b \in Elements(aired)
        BY <4>2, <1>5
      <4> QED BY <4>1, <4>2, <1>2
    <3> QED BY <3>1, <3>2, <3>3, <1>3
  <2> QED BY <2>1, <2>2, <2>3, <1>2
<1>9. session' # 0
  BY <1>1 DEF TimeKept
<1> QED BY <1>2, <1>6, <1>7, <1>8, <1>9 DEF TimeKept

\* Time passes, and a new turn begins its numbering afresh.
LEMMA DropoutKeepsTime ==
    ASSUME Traffic, TimeKept, Reconnect \/ NewTurn
    PROVE  TimeKept'
<1>1. session \in Nat /\ seq \in Nat /\ now \in Nat /\ aired' = aired /\ now' = now + 1
  BY DEF Traffic, Reconnect, NewTurn
<1>2. ASSUME NEW a \in Elements(aired)
      PROVE  /\ a.session \in Nat /\ a.seq \in Nat /\ a.end \in Nat /\ a.session <= session
             /\ a.session = session => a.seq <= seq /\ a.end + (seq - a.seq) <= now
             /\ a.session < session => a.end + seq <= now
  <2>1. a \in Segment
    BY DEF Traffic, Elements
  <2> QED BY <2>1, SegmentIs DEF TimeKept
<1>3. CASE Reconnect
  <2>1. session' = session /\ seq' = seq
    BY <1>3 DEF Reconnect
  <2>2. ASSUME NEW a \in Elements(aired)
        PROVE  /\ a.session <= session
               /\ a.session = session => a.seq <= seq /\ a.end + (seq - a.seq) <= now + 1
               /\ a.session < session => a.end + seq <= now + 1
    BY <1>1, <1>2
  <2> QED BY <1>1, <2>1, <2>2 DEF TimeKept
<1>4. CASE NewTurn
  <2>1. session' = session + 1 /\ seq' = 0
    BY <1>4 DEF NewTurn
  <2>2. ASSUME NEW a \in Elements(aired)
        PROVE  /\ a.session <= session + 1
               /\ a.session # session + 1
               /\ a.end + 0 <= now + 1
    <3>1. /\ a.session \in Nat /\ a.seq \in Nat /\ a.end \in Nat /\ a.session <= session
          /\ a.session = session => a.seq <= seq /\ a.end + (seq - a.seq) <= now
          /\ a.session < session => a.end + seq <= now
      BY <1>2
    <3> QED BY <3>1, <1>1
  <2>3. session' # 0
    BY <1>1, <2>1
  <2> QED BY <1>1, <2>1, <2>2, <2>3 DEF TimeKept
<1> QED BY <1>3, <1>4

LEMMA InTurnNext ==
    ASSUME AssemblerAssumption, ~AcrossSessions, KeepingHits, InTurn, [Next]_vars
    PROVE  InTurn'
<1>1. /\ Traffic /\ Good(station, closed) /\ ~Exhausted(station)
      /\ TimeKept /\ Behind(station, closed) /\ Woven(station, closed) /\ Named(station, closed)
      /\ \A g \in Elements(pending) : g.session = session
  BY DEF KeepingHits, InTurn
<1>2. ASSUME station' = station, closed' = closed, session <= session',
             Elements(aired) \subseteq Elements(aired')
      PROVE  (Behind(station, closed) /\ Woven(station, closed) /\ Named(station, closed))'
  <2>1. station.session <= session'
    <3>1. station.session \in Nat /\ session \in Nat /\ station.session <= session
      BY <1>1, StationIs DEF Good, Traffic, Behind
    <3>2. CASE session' = session
      BY <3>1, <3>2
    <3>3. CASE session' = session + 1
      BY <3>1, <3>3
    <3>4. session' = session \/ session' = session + 1
      BY DEF Next, Air, Reconnect, NewTurn, Deliver, Repeat, Shutdown, vars
    <3> QED BY <3>2, <3>3, <3>4
  <2>2. Behind(station, closed)'
    BY <1>1, <1>2, <2>1 DEF Behind
  <2> QED BY <1>1, <1>2, <2>2
<1>3. CASE Air
  <2>1. TimeKept' /\ Elements(aired) \subseteq Elements(aired')
    BY <1>1, <1>3, AirKeepsTime
  <2>2. PICK g \in Segment :
              /\ aired' = Append(aired, g) /\ pending' = Append(pending, g)
              /\ g.session = session /\ g.seq = seq + 1 /\ seq' = seq + 1
              /\ g.start >= now /\ g.end >= g.start + 1 /\ now' = g.end
              /\ station' = station /\ closed' = closed /\ refused' = refused
              /\ session' = session /\ stretch' = stretch
    BY <1>1, <1>3, AirIs
  <2>3. Elements(pending') = Elements(pending) \cup {g}
    BY <1>1, <2>2, ElementsOfAppend DEF Traffic
  <2>4. \A h \in Elements(pending') : h.session = session'
    BY <1>1, <2>2, <2>3
  <2>5. session <= session'
    BY <1>1, <2>2 DEF Traffic
  <2> QED BY <1>2, <2>1, <2>2, <2>4, <2>5 DEF InTurn
<1>4. CASE Reconnect \/ NewTurn
  <2>1. TimeKept'
    BY <1>1, <1>4, DropoutKeepsTime
  <2>2. session <= session'
    BY <1>1, <1>4 DEF Reconnect, NewTurn, Traffic
  <2>3. \A h \in Elements(pending') : h.session = session'
    <3>1. CASE Reconnect
      BY <1>1, <3>1 DEF Reconnect
    <3>2. CASE NewTurn
      <4>1. pending' = << >>
        BY <3>2 DEF NewTurn
      <4> QED BY <4>1, NothingPrecedes
    <3> QED BY <1>4, <3>1, <3>2
  <2>4. station' = station /\ closed' = closed /\ aired' = aired
    BY <1>4 DEF Reconnect, NewTurn
  <2> QED BY <1>2, <2>1, <2>2, <2>3, <2>4 DEF InTurn
<1>5. ASSUME NEW g \in Elements(aired), g.session = session, Observe(g),
             Elements(pending') \subseteq Elements(pending),
             UNCHANGED <<aired, session, seq, stretch, now>>
      PROVE  InTurn'
  <2>1. Behind(station', closed') /\ Woven(station', closed') /\ Named(station', closed')
    BY <1>1, <1>5, ObserveInTurn
  <2>2. Behind(station, closed)'
    BY <2>1, <1>5 DEF Behind
  <2>3. TimeKept' /\ \A h \in Elements(pending') : h.session = session'
    BY <1>1, <1>5 DEF TimeKept
  <2> QED BY <2>1, <2>2, <2>3 DEF InTurn
<1>6. CASE Deliver
  <2>1. PICK g \in Elements(pending) :
              /\ g \in Segment /\ Observe(g)
              /\ Elements(pending') \subseteq Elements(pending)
              /\ UNCHANGED <<aired, session, seq, stretch, now>>
    BY <1>1, <1>6, DeliverIs
  <2>2. g \in Elements(aired) /\ g.session = session
    BY <1>1, <2>1 DEF Traffic
  <2> QED BY <1>5, <2>1, <2>2
<1>7. CASE Repeat
  <2>1. PICK g \in Elements(aired) \ Elements(pending) :
              /\ g \in Segment /\ Observe(g) /\ (AcrossSessions \/ g.session = session)
              /\ UNCHANGED <<aired, session, seq, stretch, now, pending, refused>>
    BY <1>1, <1>7, RepeatIs
  <2> QED BY <1>5, <2>1
<1>8. CASE Shutdown
  <2>1. /\ closed' = closed \o Emitted(station, "shutdown") /\ station' = Reset(station)
        /\ UNCHANGED <<aired, session, seq, stretch, now, pending, repeats, refused>>
    BY <1>8 DEF Shutdown
  <2>2. "shutdown" \in Reasons
    BY DEF Reasons
  <2>3. station \in StationState /\ closed \in Seq(Conversation)
    BY <1>1 DEF Good
  <2>4. /\ Woven(station', closed') /\ Named(station', closed')
        /\ \A h : Told(h, station', closed') => Told(h, station, closed)
    BY <1>1, <2>1, <2>2, <2>3, CloseWoven, CloseNamed
  <2>5. /\ station'.session = station.session /\ station'.last = station.last
        /\ station'.seen = station.seen
    BY <2>1, <2>3, ResetIs
  <2>6. Behind(station, closed)'
    BY <1>1, <2>1, <2>4, <2>5 DEF Behind
  <2>7. TimeKept' /\ \A h \in Elements(pending') : h.session = session'
    BY <1>1, <2>1 DEF TimeKept
  <2> QED BY <2>4, <2>6, <2>7 DEF InTurn
<1>9. CASE UNCHANGED vars
  <2>1. /\ UNCHANGED <<aired, session, seq, now, pending>>
        /\ station' = station /\ closed' = closed
    BY <1>9 DEF vars
  <2>2. TimeKept' /\ \A h \in Elements(pending') : h.session = session'
    BY <1>1, <2>1 DEF TimeKept
  <2>3. session <= session'
    BY <1>1, <2>1 DEF Traffic
  <2> QED BY <1>2, <2>1, <2>2, <2>3 DEF InTurn
<1> QED BY <1>3, <1>4, <1>6, <1>7, <1>8, <1>9 DEF Next

(* If every segment arrives before its session ends, a transcript tells what *)
(* was said in the order it was said, and no segment is told twice, however  *)
(* the queue reorders and repeats the segments of a session.                 *)
THEOREM ToldInOrder == ~AcrossSessions => (Spec => []ToldInOrderOnce)
<1> SUFFICES ASSUME ~AcrossSessions PROVE Spec => []ToldInOrderOnce
  OBVIOUS
<1>1. Init => KeepingHits /\ InTurn
  BY AssemblerAssumption, KeepingHitsInit, InTurnInit
<1>2. KeepingHits /\ InTurn /\ [Next]_vars => (KeepingHits /\ InTurn)'
  BY AssemblerAssumption, KeepingHitsNext, InTurnNext
<1>3. KeepingHits /\ InTurn => ToldInOrderOnce
  <2> SUFFICES ASSUME KeepingHits, InTurn PROVE ToldInOrderOnce
    OBVIOUS
  <2>1. /\ Traffic /\ TimeKept /\ Woven(station, closed) /\ Behind(station, closed)
        /\ station \in StationState /\ closed \in Seq(Conversation)
    BY DEF KeepingHits, InTurn, Good
  <2>2. \A c \in Conversations : c \in Elements(closed) \/ (station.open /\ c = OpenOne)
    BY DEF Conversations, OpenOne
  <2>3. OpenOne.segments = station.segments
    BY DEF OpenOne
  <2>4. ASSUME NEW h \in Elements(aired) PROVE ~Before(h, h)
    <3>1. h \in Segment
      BY <2>1 DEF Traffic, Elements
    <3>2. h.session \in Nat /\ h.seq \in Nat
      BY <3>1, SegmentIs
    <3> QED BY <3>2 DEF Before
  <2>5. ASSUME NEW c \in Conversations
        PROVE  Chain(c.segments) /\ \A h \in Elements(c.segments) : h \in Elements(aired)
    <3>1. CASE c \in Elements(closed)
      <4>1. PICK i \in DOMAIN closed : c = closed[i]
        BY <3>1 DEF Elements
      <4>2. Chain(c.segments)
        BY <2>1, <4>1 DEF Woven
      <4>3. \A h \in Elements(c.segments) : Told(h, station, closed)
        BY <4>1 DEF Told, Placed
      <4> QED BY <2>1, <4>2, <4>3 DEF Behind
    <3>2. CASE station.open /\ c = OpenOne
      <4>1. Chain(c.segments)
        BY <2>1, <2>3, <3>2 DEF Woven
      <4>2. \A h \in Elements(c.segments) : Told(h, station, closed)
        BY <2>3, <3>2 DEF Told, Placed
      <4> QED BY <2>1, <4>1, <4>2 DEF Behind
    <3> QED BY <2>2, <3>1, <3>2
  <2>6. ASSUME NEW c \in Conversations, NEW i \in DOMAIN c.segments, NEW j \in DOMAIN c.segments,
               i < j
        PROVE  c.segments[i].end <= c.segments[j].start
    <3>1. Before(c.segments[i], c.segments[j])
      BY <2>5, <2>6 DEF Chain
    <3>2. c.segments[i] \in Elements(aired) /\ c.segments[j] \in Elements(aired)
      BY <2>5 DEF Elements
    <3> QED BY <2>1, <3>1, <3>2 DEF TimeKept
  <2>7. ASSUME NEW c \in Conversations, NEW d \in Conversations,
               NEW h \in Elements(c.segments), h \in Elements(d.segments)
        PROVE  c = d
    <3>1. h \in Elements(aired) /\ ~Before(h, h)
      BY <2>4, <2>5
    <3>2. CASE c \in Elements(closed) /\ d \in Elements(closed)
      <4>1. PICK i, j \in DOMAIN closed : c = closed[i] /\ d = closed[j]
        BY <3>2 DEF Elements
      <4>2. i \in Nat /\ j \in Nat
        <5>1. DOMAIN closed = 1 .. Len(closed) /\ Len(closed) \in Nat
          BY <2>1
        <5> QED BY <5>1
      <4>3. ~(i < j) /\ ~(j < i)
        BY <2>1, <2>7, <3>1, <4>1 DEF Woven, Precedes
      <4>4. i = j
        BY <4>2, <4>3
      <4> QED BY <4>1, <4>4
    <3>3. \A x \in Elements(closed) :
              h \in Elements(x.segments) /\ h \in Elements(station.segments) => ~station.open
      <4>1. \A i \in DOMAIN closed :
                station.open => Precedes(closed[i].segments, station.segments)
        BY <2>1 DEF Woven
      <4> QED BY <3>1, <4>1 DEF Precedes, Elements
    <3>4. CASE c \in Elements(closed) /\ station.open /\ d = OpenOne
      BY <3>3, <3>4, <2>3, <2>7
    <3>5. CASE station.open /\ c = OpenOne /\ d \in Elements(closed)
      BY <3>3, <3>5, <2>3, <2>7
    <3>6. CASE c = OpenOne /\ d = OpenOne
      BY <3>6
    <3> QED BY <2>2, <3>2, <3>4, <3>5, <3>6
  <2> QED BY <2>6, <2>7, Zenon DEF ToldInOrderOnce
<1> QED BY <1>1, <1>2, <1>3, PTL DEF Spec

(* If every segment arrives before its session ends, two emitted             *)
(* conversations never have the same id: none of them vanishes as a          *)
(* duplicate of another, although a lead-in may come from an earlier session.*)
THEOREM IdsAreDistinct == ~AcrossSessions => (Spec => []DistinctIds)
<1> SUFFICES ASSUME ~AcrossSessions PROVE Spec => []DistinctIds
  OBVIOUS
<1>1. Init => KeepingHits /\ InTurn
  BY AssemblerAssumption, KeepingHitsInit, InTurnInit
<1>2. KeepingHits /\ InTurn /\ [Next]_vars => (KeepingHits /\ InTurn)'
  BY AssemblerAssumption, KeepingHitsNext, InTurnNext
<1>3. KeepingHits /\ InTurn => DistinctIds
  BY DEF InTurn, Named, DistinctIds
<1> QED BY <1>1, <1>2, <1>3, PTL DEF Spec

-----------------------------------------------------------------------------
(* The record of a mention: texts. *)

LEMMA LowestNumber ==
    ASSUME NEW T, T \subseteq Nat, T # {}
    PROVE  \E x \in T : \A y \in T : x <= y
<1>1. PICK x \in T : \A y \in T : <<y, x>> \notin OpToRel(<, Nat)
    BY NatLessThanWellFounded, WFMin
<1>2. \A y \in T : y < x => <<y, x>> \in OpToRel(<, Nat)
    BY DEF OpToRel
<1>3. ASSUME NEW y \in T
      PROVE  x <= y
    <2>1. x \in Nat /\ y \in Nat /\ ~(y < x)
        BY <1>1, <1>2
    <2>2. QED
        BY <2>1
<1>4. QED
    BY <1>3

LEMMA HighestNumber ==
    ASSUME NEW T, NEW n \in Nat, T \subseteq 0 .. n, T # {}
    PROVE  \E x \in T : \A y \in T : y <= x
<1> DEFINE below == {k \in 0 .. n : n - k \in T}
<1>1. below \subseteq Nat
    OBVIOUS
<1>2. below # {}
    <2>1. PICK x \in T : TRUE
        OBVIOUS
    <2>2. n - x \in 0 .. n /\ n - (n - x) = x
        BY <2>1
    <2>3. QED
        BY <2>1, <2>2
<1>3. PICK k \in below : \A j \in below : k <= j
    <2> HIDE DEF below
    <2>1. QED
        BY <1>1, <1>2, LowestNumber
<1>4. ASSUME NEW y \in T
      PROVE  y <= n - k
    <2>1. n - y \in 0 .. n /\ n - (n - y) = y
        BY <1>4
    <2>2. k <= n - y
        BY <1>3, <1>4, <2>1
    <2>3. QED
        BY <1>3, <2>1, <2>2
<1>5. QED
    BY <1>3, <1>4

\* What str.strip() leaves of a text with a word in it.
LEMMA TrimIs ==
    ASSUME NEW text \in Seq(Characters), WordsAt(text) # {}
    PROVE  \E first, last \in DOMAIN text :
             /\ text[first] # Blank /\ text[last] # Blank
             /\ \A i \in WordsAt(text) : first <= i /\ i <= last
             /\ LeftTrim(text) = first - 1
             /\ Strip(text) = SubSeq(text, first, last)
<1>1. DOMAIN text = 1 .. Len(text) /\ Len(text) \in Nat
    OBVIOUS
<1>2. WordsAt(text) \subseteq 0 .. Len(text) /\ WordsAt(text) \subseteq Nat
    BY <1>1 DEF WordsAt
<1>3. PICK first \in WordsAt(text) : \A i \in WordsAt(text) : first <= i
    BY <1>2, LowestNumber
<1>4. PICK last \in WordsAt(text) : \A i \in WordsAt(text) : i <= last
    BY <1>1, <1>2, HighestNumber
<1>5. first \in DOMAIN text /\ last \in DOMAIN text /\ text[first] # Blank /\ text[last] # Blank
    BY DEF WordsAt
<1>6. LeftTrim(text) = first - 1
    <2> DEFINE P(n) == \A i \in DOMAIN text : (i <= n => text[i] = Blank)
                                           /\ (i = n + 1 => text[i] # Blank)
    <2>1. first - 1 \in 0 .. Len(text) /\ P(first - 1)
        BY <1>1, <1>3, <1>5 DEF WordsAt
    <2>2. ASSUME NEW n \in 0 .. Len(text), P(n)
          PROVE  n = first - 1
        <3>1. ~(first <= n)
            BY <1>1, <1>5, <2>2
        <3>2. n + 1 \in DOMAIN text => n + 1 \in WordsAt(text)
            BY <1>1, <2>2 DEF WordsAt
        <3>3. n + 1 \in DOMAIN text
            BY <1>1, <1>5, <3>1
        <3>4. QED
            BY <1>1, <1>3, <1>5, <3>1, <3>2, <3>3
    <2>3. LeftTrim(text) = CHOOSE n \in 0 .. Len(text) : P(n)
        BY DEF LeftTrim
    <2> HIDE DEF P
    <2>4. QED
        BY <2>1, <2>2, <2>3
<1>7. (CHOOSE i \in WordsAt(text) : \A j \in WordsAt(text) : j <= i) = last
    <2> DEFINE P(i) == \A j \in WordsAt(text) : j <= i
    <2>1. P(last) /\ \A i \in WordsAt(text) : P(i) => i = last
        BY <1>2, <1>4
    <2> HIDE DEF P
    <2>2. (CHOOSE i \in WordsAt(text) : P(i)) = last
        BY <2>1
    <2>3. QED
        BY <2>2 DEF P
<1>8. Strip(text) = SubSeq(text, first, last)
    <2>1. first \in Nat /\ LeftTrim(text) + 1 = first
        BY <1>1, <1>5, <1>6
    <2>2. Strip(text) = SubSeq(text, LeftTrim(text) + 1, last)
        BY <1>7, Zenon DEF Strip
    <2>3. QED
        BY <2>1, <2>2
<1>9. QED
    BY <1>3, <1>4, <1>5, <1>6, <1>8

LEMMA StripIs ==
    ASSUME NEW text \in Seq(Characters)
    PROVE  /\ Strip(text) \in Seq(Characters)
           /\ Strip(text) = << >> <=> WordsAt(text) = {}
           /\ \A i \in WordsAt(text) :
                /\ i \in Nat /\ LeftTrim(text) \in Nat /\ LeftTrim(text) < i
                /\ i - LeftTrim(text) \in DOMAIN Strip(text)
                /\ Strip(text)[i - LeftTrim(text)] = text[i]
<1>1. CASE WordsAt(text) = {}
    BY <1>1 DEF Strip
<1>2. CASE WordsAt(text) # {}
    <2>1. PICK first, last \in DOMAIN text :
             /\ \A i \in WordsAt(text) : first <= i /\ i <= last
             /\ LeftTrim(text) = first - 1
             /\ Strip(text) = SubSeq(text, first, last)
        BY <1>2, TrimIs
    <2>2. first \in 1 .. Len(text) /\ last \in 1 .. Len(text) /\ Len(text) \in Nat
          /\ WordsAt(text) \subseteq 1 .. Len(text)
        BY DEF WordsAt
    <2>3. first <= last
        BY <1>2, <2>1, <2>2
    <2>4. \A i \in first .. last : text[i] \in Characters
        BY <2>2
    <2>5. first \in Int /\ last \in Int
        BY <2>2
    <2>6. PICK s : s = Strip(text)
        OBVIOUS
    <2>7. /\ s \in Seq(Characters) /\ Len(s) = last - first + 1
          /\ \A i \in 1 .. last - first + 1 : s[i] = text[first + i - 1]
        BY <2>1, <2>3, <2>4, <2>5, <2>6, SubSeqProperties
    <2>8. s # << >>
        BY <2>2, <2>3, <2>7
    <2>9. ASSUME NEW i \in WordsAt(text)
          PROVE  /\ i \in Nat /\ first - 1 \in Nat /\ first - 1 < i
                 /\ i - (first - 1) \in DOMAIN s /\ s[i - (first - 1)] = text[i]
        <3>1. i \in Nat /\ first - 1 \in Nat /\ first <= i /\ i <= last
            BY <2>1, <2>2
        <3>2. i - (first - 1) \in 1 .. last - first + 1 /\ first + (i - (first - 1)) - 1 = i
            BY <2>2, <3>1
        <3>3. PICK j : j = i - (first - 1)
            OBVIOUS
        <3>4. j \in DOMAIN s /\ s[j] = text[i]
            <4>1. j \in 1 .. last - first + 1 /\ first + j - 1 = i
                BY <3>2, <3>3
            <4>2. DOMAIN s = 1 .. last - first + 1
                BY <2>7
            <4>3. QED
                BY <2>7, <4>1, <4>2
        <3>5. QED
            BY <2>2, <3>1, <3>3, <3>4
    <2>10. QED
        BY <1>2, <2>1, <2>6, <2>7, <2>8, <2>9
<1>3. QED
    BY <1>1, <1>2

\* Where the text after n characters begins.
After(n) == n + One(n > 0)

\* A text stands in another one, after its first n characters.
Carries(long, n, text) == \A i \in DOMAIN text : n + i \in DOMAIN long /\ long[n + i] = text[i]

LEMMA GlueIs ==
    ASSUME NEW X, NEW before \in Seq(X), NEW text \in Seq(X), NEW separator \in X
    PROVE  /\ Glue(before, text, separator) \in Seq(X)
           /\ Len(before) <= Len(Glue(before, text, separator))
           /\ \A i \in DOMAIN before : Glue(before, text, separator)[i] = before[i]
           /\ Carries(Glue(before, text, separator), After(Len(before)), text)
<1>1. DOMAIN before = 1 .. Len(before) /\ Len(before) \in Nat
      /\ DOMAIN text = 1 .. Len(text) /\ Len(text) \in Nat
    OBVIOUS
<1>2. CASE text = << >>
    BY <1>1, <1>2 DEF Glue, Carries
<1>3. CASE text # << >> /\ before = << >>
    <2>1. Glue(before, text, separator) = text /\ Len(before) = 0 /\ After(Len(before)) = 0
        BY <1>3 DEF Glue, One, After
    <2>2. QED
        BY <1>1, <1>3, <2>1 DEF Carries
<1>4. CASE text # << >> /\ before # << >>
    <2>1. PICK g, h, s : /\ s = <<separator>> /\ h = before \o s /\ g = h \o text
        OBVIOUS
    <2>2. Glue(before, text, separator) = g
        BY <1>4, <2>1 DEF Glue
    <2>3. Len(before) > 0 /\ After(Len(before)) = Len(before) + 1
        BY <1>1, <1>4, EmptySeq DEF One, After
    <2>4. s \in Seq(X) /\ Len(s) = 1
        BY <2>1
    <2>5. /\ h \in Seq(X) /\ Len(h) = Len(before) + 1
          /\ \A i \in 1 .. Len(before) : h[i] = before[i]
        BY <1>1, <2>1, <2>4, ConcatProperties
    <2>6. /\ g \in Seq(X) /\ Len(g) = Len(before) + 1 + Len(text)
          /\ \A i \in 1 .. Len(before) + 1 : g[i] = h[i]
          /\ \A i \in 1 .. Len(text) : g[Len(before) + 1 + i] = text[i]
        <3>1. /\ g \in Seq(X) /\ Len(g) = Len(h) + Len(text)
              /\ \A i \in 1 .. Len(h) + Len(text) : g[i] = IF i <= Len(h) THEN h[i] ELSE text[i - Len(h)]
            BY <2>1, <2>5, ConcatProperties
        <3>2. ASSUME NEW i \in 1 .. Len(text)
              PROVE  g[Len(before) + 1 + i] = text[i]
            <4>1. PICK j : j = Len(before) + 1 + i
                OBVIOUS
            <4>2. j \in 1 .. Len(h) + Len(text) /\ ~(j <= Len(h)) /\ j - Len(h) = i
                BY <1>1, <2>5, <4>1
            <4>3. QED
                BY <3>1, <4>1, <4>2
        <3>3. QED
            BY <1>1, <2>5, <3>1, <3>2
    <2>7. DOMAIN g = 1 .. Len(before) + 1 + Len(text)
        BY <2>6
    <2>8. \A i \in 1 .. Len(before) : g[i] = before[i]
        BY <1>1, <2>5, <2>6
    <2>9. QED
        BY <1>1, <2>2, <2>3, <2>6, <2>7, <2>8 DEF Carries
<1>5. QED
    BY <1>2, <1>3, <1>4

\* Joining texts one after the other: there is such a function.
Joins(f, texts, separator) ==
    f = [k \in Nat |-> IF k = 0 THEN << >> ELSE Glue(f[k - 1], texts[k], separator)]

LEMMA JoinExists ==
    ASSUME NEW X, NEW texts \in [Nat -> Seq(X)], NEW separator \in X
    PROVE  \E f : Joins(f, texts, separator)
<1> DEFINE Upto(m) == {h \in [0 .. m -> Seq(X)] :
                          h[0] = << >> /\ \A k \in 1 .. m : h[k] = Glue(h[k - 1], texts[k], separator)}
<1>1. \A m \in Nat : Upto(m) # {}
    <2> DEFINE bad == {m \in Nat : Upto(m) = {}}
    <2>1. SUFFICES ASSUME bad # {} PROVE FALSE
        OBVIOUS
    <2>2. PICK x \in bad : \A y \in bad : x <= y
        <3>1. bad \subseteq Nat
            OBVIOUS
        <3> HIDE DEF bad
        <3>2. QED
            BY <2>1, <3>1, LowestNumber
    <2>3. x \in Nat /\ Upto(x) = {}
        OBVIOUS
    <2>4. CASE x = 0
        <3>1. [k \in 0 .. 0 |-> << >>] \in Upto(0)
            OBVIOUS
        <3>2. QED
            BY <2>3, <2>4, <3>1
    <2>5. CASE x # 0
        <3>1. x - 1 \in Nat /\ ~(x <= x - 1)
            BY <2>3, <2>5
        <3>2. Upto(x - 1) # {}
            BY <2>2, <3>1
        <3>3. PICK h \in [0 .. x - 1 -> Seq(X)] :
                 h[0] = << >> /\ \A k \in 1 .. x - 1 : h[k] = Glue(h[k - 1], texts[k], separator)
            BY <3>2
        <3>4. PICK next : next = Glue(h[x - 1], texts[x], separator)
            OBVIOUS
        <3>5. next \in Seq(X)
            <4>1. h[x - 1] \in Seq(X) /\ texts[x] \in Seq(X)
                BY <2>3, <3>1, <3>3
            <4>2. QED
                BY <3>4, <4>1, GlueIs
        <3>6. PICK g : g = [k \in 0 .. x |-> IF k = x THEN next ELSE h[k]]
            OBVIOUS
        <3>7. g \in [0 .. x -> Seq(X)] /\ g[0] = << >>
            BY <2>3, <2>5, <3>1, <3>3, <3>5, <3>6
        <3>8. ASSUME NEW k \in 1 .. x
              PROVE  g[k] = Glue(g[k - 1], texts[k], separator)
            <4>1. k - 1 \in 0 .. x - 1 /\ k - 1 # x /\ k - 1 \in 0 .. x
                BY <2>3
            <4>2. g[k - 1] = h[k - 1]
                BY <3>6, <4>1
            <4>3. CASE k = x
                BY <2>3, <3>4, <3>6, <4>2, <4>3
            <4>4. CASE k # x
                <5>1. k \in 1 .. x - 1 /\ k \in 0 .. x
                    BY <2>3, <4>4
                <5>2. QED
                    BY <3>3, <3>6, <4>2, <4>4, <5>1
            <4>5. QED
                BY <4>3, <4>4
        <3>9. g \in Upto(x)
            BY <3>7, <3>8
        <3>10. QED
            BY <2>3, <3>9
    <2>6. QED
        BY <2>4, <2>5
<1>2. ASSUME NEW m \in Nat, NEW n \in Nat, m <= n, NEW h \in Upto(m), NEW g \in Upto(n)
      PROVE  \A k \in 0 .. m : h[k] = g[k]
    <2> DEFINE differ == {k \in 0 .. m : h[k] # g[k]}
    <2>1. SUFFICES ASSUME differ # {} PROVE FALSE
        OBVIOUS
    <2>2. PICK d \in differ : \A e \in differ : d <= e
        <3>1. differ \subseteq Nat
            OBVIOUS
        <3> HIDE DEF differ
        <3>2. QED
            BY <2>1, <3>1, LowestNumber
    <2>3. d \in 0 .. m /\ h[d] # g[d] /\ h[0] = g[0]
        OBVIOUS
    <2>4. d \in 1 .. m /\ d \in 1 .. n /\ d - 1 \in 0 .. m /\ ~(d <= d - 1)
        <3>1. d # 0
            BY <2>3
        <3> HIDE DEF Upto, differ
        <3>2. QED
            BY <1>2, <2>3, <3>1
    <2>5. h[d - 1] = g[d - 1]
        BY <2>2, <2>4
    <2>6. h[d] = Glue(h[d - 1], texts[d], separator) /\ g[d] = Glue(g[d - 1], texts[d], separator)
        BY <2>4
    <2>7. QED
        BY <2>3, <2>5, <2>6
<1> DEFINE Chosen(m) == CHOOSE h : h \in Upto(m)
<1>3. \A m \in Nat : Chosen(m) \in Upto(m)
    <2> HIDE DEF Upto
    <2>1. QED
        BY <1>1
<1>4. PICK f : f = [m \in Nat |-> Chosen(m)[m]]
    OBVIOUS
<1>5. f[0] = << >>
    <2>1. f[0] = Chosen(0)[0]
        BY <1>4
    <2>2. Chosen(0)[0] = << >>
        <3> HIDE DEF Chosen
        <3>1. QED
            BY <1>3
    <2>3. QED
        BY <2>1, <2>2
<1>6. ASSUME NEW k \in Nat, k # 0
      PROVE  f[k] = Glue(f[k - 1], texts[k], separator)
    <2>1. k - 1 \in Nat /\ k - 1 <= k /\ k \in 1 .. k /\ k - 1 \in 0 .. k - 1
        BY <1>6
    <2>2. f[k] = Chosen(k)[k] /\ f[k - 1] = Chosen(k - 1)[k - 1]
        BY <1>4, <2>1
    <2> HIDE DEF Chosen
    <2>3. Chosen(k) \in Upto(k) /\ Chosen(k - 1) \in Upto(k - 1)
        BY <1>3, <2>1
    <2>4. Chosen(k)[k] = Glue(Chosen(k)[k - 1], texts[k], separator)
        BY <2>1, <2>3
    <2>5. Chosen(k - 1)[k - 1] = Chosen(k)[k - 1]
        <3> HIDE DEF Upto
        <3>1. QED
            BY <1>2, <2>1, <2>3
    <2>6. QED
        BY <2>2, <2>4, <2>5
<1>7. QED
    <2>1. PICK g : g = [k \in Nat |-> IF k = 0 THEN << >> ELSE Glue(f[k - 1], texts[k], separator)]
        OBVIOUS
    <2>2. \A k \in Nat : f[k] = g[k]
        BY <1>5, <1>6, <2>1
    <2>3. f = g
        BY <1>4, <2>1, <2>2
    <2>4. QED
        BY <2>1, <2>3 DEF Joins

\* What such a function is like: a text joined later leaves what is there.
LEMMA JoinedIs ==
    ASSUME NEW X, NEW texts \in [Nat -> Seq(X)], NEW separator \in X, NEW f,
           Joins(f, texts, separator)
    PROVE  /\ \A k \in Nat : f[k] \in Seq(X)
           /\ f[0] = << >>
           /\ \A m, n \in Nat : m <= n =>
                /\ Len(f[m]) <= Len(f[n])
                /\ \A i \in DOMAIN f[m] : i \in DOMAIN f[n] /\ f[n][i] = f[m][i]
           /\ \A k, n \in Nat : 0 < k /\ k <= n => Carries(f[n], After(Len(f[k - 1])), texts[k])
<1>1. f[0] = << >> /\ \A k \in Nat : k # 0 => f[k] = Glue(f[k - 1], texts[k], separator)
    BY DEF Joins
<1>2. \A k \in Nat : f[k] \in Seq(X)
    <2> DEFINE bad == {m \in Nat : f[m] \notin Seq(X)}
    <2>1. SUFFICES ASSUME bad # {} PROVE FALSE
        OBVIOUS
    <2>2. PICK x \in bad : \A y \in bad : x <= y
        <3>1. bad \subseteq Nat
            OBVIOUS
        <3> HIDE DEF bad
        <3>2. QED
            BY <2>1, <3>1, LowestNumber
    <2>3. x \in Nat /\ f[x] \notin Seq(X) /\ x # 0
        <3>1. << >> \in Seq(X)
            OBVIOUS
        <3>2. x \in Nat /\ f[x] \notin Seq(X)
            OBVIOUS
        <3>3. QED
            BY <1>1, <3>1, <3>2
    <2>4. x - 1 \in Nat /\ ~(x <= x - 1)
        BY <2>3
    <2>5. f[x - 1] \in Seq(X)
        BY <2>2, <2>4
    <2>6. texts[x] \in Seq(X) /\ f[x] = Glue(f[x - 1], texts[x], separator)
        BY <1>1, <2>3
    <2>7. Glue(f[x - 1], texts[x], separator) \in Seq(X)
        BY <2>5, <2>6, GlueIs
    <2>8. QED
        BY <2>3, <2>6, <2>7
<1>3. ASSUME NEW m \in Nat, NEW n \in Nat, m <= n
      PROVE  /\ Len(f[m]) <= Len(f[n])
             /\ \A i \in DOMAIN f[m] : i \in DOMAIN f[n] /\ f[n][i] = f[m][i]
    <2> DEFINE Keeps(k) == /\ Len(f[m]) <= Len(f[k])
                           /\ \A i \in DOMAIN f[m] : f[k][i] = f[m][i]
               bad == {k \in Nat : m <= k /\ ~Keeps(k)}
    <2>0. \A k \in Nat : Len(f[k]) \in Nat /\ DOMAIN f[k] = 1 .. Len(f[k])
        <3>1. ASSUME NEW k \in Nat
              PROVE  Len(f[k]) \in Nat /\ DOMAIN f[k] = 1 .. Len(f[k])
            <4>1. PICK t \in Seq(X) : t = f[k]
                BY <1>2
            <4>2. Len(t) \in Nat /\ DOMAIN t = 1 .. Len(t)
                OBVIOUS
            <4>3. QED
                BY <4>1, <4>2
        <3>2. QED
            BY <3>1
    <2>1. SUFFICES Keeps(n)
        <3>1. ASSUME Keeps(n), NEW i \in DOMAIN f[m]
              PROVE  i \in DOMAIN f[n]
            <4>1. PICK a \in Nat, b \in Nat : a = Len(f[m]) /\ b = Len(f[n])
                BY <2>0
            <4>2. i \in 1 .. Len(f[n])
                <5>1. i \in 1 .. a /\ a <= b
                    BY <2>0, <3>1, <4>1
                <5>2. i \in 1 .. b
                    BY <5>1
                <5>3. QED
                    BY <4>1, <5>2
            <4>3. QED
                BY <2>0, <4>2
        <3>2. QED
            BY <3>1
    <2>2. SUFFICES ASSUME bad # {} PROVE FALSE
        BY <1>3
    <2>3. PICK x \in bad : \A y \in bad : x <= y
        <3>1. bad \subseteq Nat
            OBVIOUS
        <3> HIDE DEF bad
        <3>2. QED
            BY <2>2, <3>1, LowestNumber
    <2>4. x \in Nat /\ m <= x /\ ~Keeps(x)
        OBVIOUS
    <2>5. Keeps(m)
        BY <2>0
    <2>6. x # m /\ x # 0 /\ x - 1 \in Nat /\ m <= x - 1 /\ ~(x <= x - 1)
        <3>1. x # m
            BY <2>4, <2>5
        <3> HIDE DEF Keeps, bad
        <3>2. QED
            BY <2>4, <3>1
    <2>7. Keeps(x - 1)
        <3> HIDE DEF Keeps
        <3>1. QED
            BY <2>3, <2>6
    <2>8. /\ Len(f[x - 1]) <= Len(f[x])
          /\ \A i \in DOMAIN f[x - 1] : f[x][i] = f[x - 1][i]
        <3>1. f[x - 1] \in Seq(X) /\ texts[x] \in Seq(X) /\ f[x] = Glue(f[x - 1], texts[x], separator)
            BY <1>1, <1>2, <2>4, <2>6
        <3>2. PICK before \in Seq(X), text \in Seq(X) : before = f[x - 1] /\ text = texts[x]
            BY <3>1
        <3>3. f[x] = Glue(before, text, separator)
            BY <3>1, <3>2
        <3>4. /\ Len(before) <= Len(Glue(before, text, separator))
              /\ \A i \in DOMAIN before : Glue(before, text, separator)[i] = before[i]
            BY GlueIs
        <3>5. QED
            BY <3>2, <3>3, <3>4
    <2>9. \A i \in DOMAIN f[m] : i \in DOMAIN f[x - 1]
        <3>1. PICK a \in Nat, b \in Nat : a = Len(f[m]) /\ b = Len(f[x - 1])
            BY <2>0, <2>6
        <3>2. a <= b
            BY <2>7, <3>1
        <3>3. DOMAIN f[m] = 1 .. a /\ DOMAIN f[x - 1] = 1 .. b
            BY <2>0, <2>6, <3>1
        <3>4. \A i \in 1 .. a : i \in 1 .. b
            BY <3>2
        <3>5. QED
            BY <3>3, <3>4
    <2>10. Len(f[m]) <= Len(f[x])
        <3>1. PICK a \in Nat, b \in Nat, c \in Nat : a = Len(f[m]) /\ b = Len(f[x - 1]) /\ c = Len(f[x])
            BY <2>0, <2>4, <2>6
        <3>2. a <= b /\ b <= c
            BY <2>7, <2>8, <3>1
        <3>3. a <= c
            BY <3>2
        <3>4. QED
            BY <3>1, <3>3
    <2>11. \A i \in DOMAIN f[m] : f[x][i] = f[m][i]
        BY <2>7, <2>8, <2>9
    <2>12. QED
        BY <2>4, <2>10, <2>11
<1>4. ASSUME NEW k \in Nat, NEW n \in Nat, 0 < k, k <= n
      PROVE  Carries(f[n], After(Len(f[k - 1])), texts[k])
    <2>1. k - 1 \in Nat /\ k # 0
        BY <1>4
    <2>2. f[k - 1] \in Seq(X) /\ texts[k] \in Seq(X) /\ f[k] = Glue(f[k - 1], texts[k], separator)
        BY <1>1, <1>2, <2>1
    <2>3. PICK before \in Seq(X), text \in Seq(X) : before = f[k - 1] /\ text = texts[k]
        BY <2>2
    <2>4. Carries(Glue(before, text, separator), After(Len(before)), text)
        BY GlueIs
    <2>5. Carries(f[k], After(Len(f[k - 1])), texts[k])
        BY <2>2, <2>3, <2>4
    <2>6. \A i \in DOMAIN f[k] : i \in DOMAIN f[n] /\ f[n][i] = f[k][i]
        BY <1>3, <1>4
    <2>7. QED
        BY <2>5, <2>6 DEF Carries
<1>5. QED
    BY <1>1, <1>2, <1>3, <1>4

\* separator.join over the segments: the words of segment k in S stand where
\* they stood in the join of the segments before it.
LEMMA JoinIs ==
    ASSUME NEW S, NEW separator, NEW X, Characters \subseteq X, separator \in X,
           \A p \in DOMAIN parts : parts[p].text \in Seq(Characters),
           S \subseteq DOMAIN parts
    PROVE  /\ \A n \in Nat : Join(S, n, separator) \in Seq(X)
           /\ \A k, n \in Nat : 0 < k /\ k <= n /\ k \in S =>
                Carries(Join(S, n, separator), After(Len(Join(S, k - 1, separator))),
                        Strip(parts[k].text))
<1>1. PICK texts : texts = [k \in Nat |-> Piece(S, k)]
    OBVIOUS
<1>2. texts \in [Nat -> Seq(X)]
    <2>1. ASSUME NEW k \in Nat
          PROVE  Piece(S, k) \in Seq(X)
        <3>1. CASE k \in S
            <4>1. PICK t \in Seq(Characters) : t = parts[k].text
                BY <3>1
            <4>2. Strip(t) \in Seq(Characters)
                BY StripIs
            <4>3. Strip(t) \in Seq(X)
                <5>1. PICK u \in Seq(Characters) : u = Strip(t)
                    BY <4>2
                <5>2. u \in Seq(X)
                    OBVIOUS
                <5>3. QED
                    BY <5>1, <5>2
            <4>4. QED
                BY <3>1, <4>1, <4>3 DEF Piece
        <3>2. CASE k \notin S
            BY <3>2 DEF Piece
        <3>3. QED
            BY <3>1, <3>2
    <2>2. QED
        BY <1>1, <2>1
<1> DEFINE F(f) == [k \in Nat |-> IF k = 0 THEN << >> ELSE Glue(f[k - 1], Piece(S, k), separator)]
<1>3. \E f : f = F(f)
    <2>1. PICK f : Joins(f, texts, separator)
        BY <1>2, JoinExists
    <2>2. \A k \in Nat : texts[k] = Piece(S, k)
        BY <1>1
    <2>3. f = F(f)
        BY <2>1, <2>2 DEF Joins
    <2>4. QED
        BY <2>3
<1>4. PICK f : f = CHOOSE g : g = F(g)
    OBVIOUS
<1>5. \A n : Join(S, n, separator) = f[n]
    BY <1>4 DEF Join
<1>6. Joins(f, texts, separator)
    <2>1. f = F(f)
        <3> HIDE DEF F
        <3>1. QED
            BY <1>3, <1>4
    <2>2. QED
        BY <1>1, <2>1 DEF Joins
<1> HIDE DEF F
<1>7. /\ \A k \in Nat : f[k] \in Seq(X)
      /\ \A k, n \in Nat : 0 < k /\ k <= n => Carries(f[n], After(Len(f[k - 1])), texts[k])
    BY <1>2, <1>6, JoinedIs
<1>8. \A k \in Nat : k \in S => texts[k] = Strip(parts[k].text)
    BY <1>1 DEF Piece
<1>9. QED
    BY <1>5, <1>7, <1>8

-----------------------------------------------------------------------------
(* The record of a mention: the content type.                              *)

LEMMA CueHitsAreCounted ==
    ASSUME NEW text \in Seq(Characters), NEW type
    PROVE  CueHits(text, type) \in Nat /\ (WordsAt(text) = {} => CueHits(text, type) = 0)
<1>1. PICK f : f = [i \in WordsAt(text) |-> text[i]]
    OBVIOUS
<1>2. PICK said : said = {text[i] : i \in WordsAt(text)}
    OBVIOUS
<1>3. PICK hits : hits = {w \in said : Cue[w] = type}
    OBVIOUS
<1>4. IsFiniteSet(WordsAt(text))
    <2>1. WordsAt(text) \subseteq 1 .. Len(text) /\ Len(text) \in Nat
        BY DEF WordsAt
    <2>2. IsFiniteSet(1 .. Len(text))
        BY <2>1, FS_Interval
    <2>3. QED
        BY <2>1, <2>2, FS_Subset
<1>5. IsFiniteSet(said)
    <2>1. f \in Surjection(WordsAt(text), said)
        BY <1>1, <1>2 DEF Surjection
    <2>2. QED
        BY <1>4, <2>1, FS_Surjection
<1>6. IsFiniteSet(hits) /\ CueHits(text, type) = Cardinality(hits)
    <2>1. hits \subseteq said
        BY <1>3
    <2>2. QED
        BY <1>2, <1>3, <1>5, <2>1, FS_Subset DEF CueHits
<1>7. WordsAt(text) = {} => hits = {}
    BY <1>2, <1>3
<1>8. QED
    BY <1>6, <1>7, FS_CardinalityType, FS_EmptySet

\* Of seven scores one is the first of the highest.
LEMMA SomeScoreIsBest ==
    ASSUME NEW score \in [1 .. 7 -> Nat]
    PROVE  \E i \in 1 .. 7 : \A j \in 1 .. 7 : score[j] <= score[i] /\ (j < i => score[j] < score[i])
<1>1. PICK top \in 1 .. 7 : \A j \in 1 .. 7 : score[j] <= score[top]
    <2>1. PICK a, b, c, d, e, f, g : /\ a = score[1] /\ b = score[2] /\ c = score[3] /\ d = score[4]
                                     /\ e = score[5] /\ f = score[6] /\ g = score[7]
        OBVIOUS
    <2>2. {a, b, c, d, e, f, g} \subseteq Nat
        BY <2>1
    <2>3. \E m \in {a, b, c, d, e, f, g} : \A n \in {a, b, c, d, e, f, g} : n <= m
        BY <2>2
    <2>4. \A j : j \in 1 .. 7 <=> j \in {1, 2, 3, 4, 5, 6, 7}
        OBVIOUS
    <2>5. QED
        BY <2>1, <2>3, <2>4
<1>2. PICK best : best = {i \in 1 .. 7 : score[i] = score[top]}
    OBVIOUS
<1>3. PICK i \in best : \A j \in best : i <= j
    <2>1. best \subseteq Nat /\ best # {}
        BY <1>2
    <2>2. QED
        BY <2>1, LowestNumber
<1>4. i \in 1 .. 7 /\ score[i] = score[top]
    BY <1>2, <1>3
<1>5. ASSUME NEW j \in 1 .. 7, j < i
      PROVE  score[j] < score[i]
    <2>1. j \notin best
        BY <1>3, <1>4, <1>5
    <2>2. score[j] # score[i] /\ score[j] <= score[i] /\ score[j] \in Nat /\ score[i] \in Nat
        BY <1>1, <1>2, <1>4, <2>1
    <2>3. QED
        BY <2>2
<1>6. QED
    BY <1>1, <1>4, <1>5

\* A score is a count, and a cue or the class is behind it.
LEMMA ScoresAreCounts ==
    ASSUME NEW text \in Seq(Characters), NEW class, NEW type
    PROVE  /\ Score(text, class, type) \in Nat
           /\ type # "advertisement" => Score(text, class, type) = CueHits(text, type)
           /\ Score(text, class, type) > 0 => Grounds(text, class, type)
           /\ class = "speech_over_music" => Score(text, class, "advertisement") > 0
<1>1. CueHits(text, type) \in Nat /\ CueHits(text, "price") \in Nat /\ CueHits(text, "advertisement") \in Nat
    BY CueHitsAreCounted
<1>2. QED
    BY <1>1 DEF Score, One, Grounds

\* A conversation with emergency vocabulary is an emergency, and any type
\* that a policy may exclude is assumed on some grounds.
LEMMA TypesHaveGrounds ==
    ASSUME NEW text \in Seq(Characters), NEW class
    PROVE  /\ CueHits(text, "emergency_alert") > 0 => Classify(text, class) = "emergency_alert"
           /\ Classify(text, class) # "unknown" => Grounds(text, class, Classify(text, class))
<1>1. \A type : CueHits(text, type) \in Nat /\ (WordsAt(text) = {} => CueHits(text, type) = 0)
    BY CueHitsAreCounted
<1>2. \A type : /\ Score(text, class, type) \in Nat
                /\ type # "advertisement" => Score(text, class, type) = CueHits(text, type)
                /\ Score(text, class, type) > 0 => Grounds(text, class, type)
    BY ScoresAreCounts
<1>3. CASE WordsAt(text) = {}
    BY <1>1, <1>3 DEF Classify
<1>4. CASE WordsAt(text) # {} /\ Score(text, class, "emergency_alert") > 0
    BY <1>2, <1>4 DEF Classify
<1>5. CASE /\ WordsAt(text) # {} /\ ~(Score(text, class, "emergency_alert") > 0)
           /\ class \in {"singing", "music"}
    <2>1. Classify(text, class) = Sung(text, class) /\ ~(CueHits(text, "emergency_alert") > 0)
        BY <1>2, <1>5 DEF Classify
    <2>2. Score(text, class, "announcement") = CueHits(text, "announcement")
        BY <1>2
    <2>3. Grounds(text, class, Sung(text, class))
        BY <1>2, <1>5, <2>2 DEF Sung, Grounds
    <2>4. QED
        BY <2>1, <2>3
<1>6. CASE /\ WordsAt(text) # {} /\ ~(Score(text, class, "emergency_alert") > 0)
           /\ class \notin {"singing", "music"} /\ Cardinality(WordsAt(text)) < MinWords
    <2>1. Classify(text, class) = ShortIdent(text, class) /\ ~(CueHits(text, "emergency_alert") > 0)
        BY <1>2, <1>6 DEF Classify
    <2>2. ShortIdent(text, class) # "unknown" => Grounds(text, class, ShortIdent(text, class))
        BY <1>2 DEF ShortIdent, Grounds
    <2>3. QED
        BY <2>1, <2>2
<1>7. CASE /\ WordsAt(text) # {} /\ ~(Score(text, class, "emergency_alert") > 0)
           /\ class \notin {"singing", "music"} /\ ~(Cardinality(WordsAt(text)) < MinWords)
    <2>1. Classify(text, class) = ByCues(text, class) /\ ~(CueHits(text, "emergency_alert") > 0)
        BY <1>2, <1>7 DEF Classify
    <2>2. PICK best : best = BestCue(text, class)
        OBVIOUS
    <2>3. PICK words : words = Cardinality(WordsAt(text))
        OBVIOUS
    <2>4. words \in Nat
        <3>1. WordsAt(text) \subseteq 1 .. Len(text) /\ Len(text) \in Nat
            BY DEF WordsAt
        <3>2. IsFiniteSet(1 .. Len(text))
            BY <3>1, FS_Interval
        <3>3. IsFiniteSet(WordsAt(text))
            BY <3>1, <3>2, FS_Subset
        <3>4. QED
            BY <2>3, <3>3, FS_CardinalityType
    <2>5. class = "speech_over_music" => Score(text, class, Priority[best]) # 0
        <3>1. PICK score : score = [i \in 1 .. 7 |-> Score(text, class, Priority[i])]
            OBVIOUS
        <3>2. score \in [1 .. 7 -> Nat]
            BY <1>2, <3>1
        <3>3. DOMAIN Priority = 1 .. 7 /\ Priority[2] = "advertisement"
            BY DEF Priority
        <3> DEFINE P(i) == \A j \in 1 .. 7 : score[j] <= score[i] /\ (j < i => score[j] < score[i])
        <3>4. \E i \in 1 .. 7 : P(i)
            BY <3>2, SomeScoreIsBest
        <3>5. best = CHOOSE i \in 1 .. 7 : P(i)
            <4>1. best = CHOOSE i \in 1 .. 7 : \A j \in 1 .. 7 :
                            /\ Score(text, class, Priority[j]) <= Score(text, class, Priority[i])
                            /\ j < i => Score(text, class, Priority[j]) < Score(text, class, Priority[i])
                BY <2>2, <3>3 DEF BestCue
            <4>2. \A i \in 1 .. 7 : score[i] = Score(text, class, Priority[i])
                BY <3>1
            <4>3. QED
                BY <4>1, <4>2
        <3>6. best \in 1 .. 7 /\ P(best)
            <4> HIDE DEF P
            <4>1. QED
                BY <3>4, <3>5
        <3>7. score[2] <= score[best] /\ score[2] \in Nat /\ score[best] \in Nat
            BY <3>2, <3>6
        <3>8. score[2] = Score(text, class, "advertisement")
              /\ score[best] = Score(text, class, Priority[best])
            BY <3>1, <3>3, <3>6
        <3>9. class = "speech_over_music" => Score(text, class, "advertisement") > 0
            BY ScoresAreCounts
        <3>10. QED
            BY <3>7, <3>8, <3>9
    <2>6. PICK type : type = Priority[best]
        OBVIOUS
    <2>7. PICK score : score = Score(text, class, type)
        OBVIOUS
    <2>8. score \in Nat /\ (score > 0 => Grounds(text, class, type))
        BY <1>2, <2>7
    <2>9. ByCues(text, class) =
             CASE score = 0 -> Fallback(class, words)
               [] type = "station_identification" /\ words > IdentWords /\ score > 0 ->
                    (IF class = "speech_over_music" THEN "dj_commentary" ELSE "discussion")
               [] OTHER -> type
        BY <2>2, <2>3, <2>6, <2>7, Zenon DEF ByCues
    <2>10. CASE score = 0
        <3>1. class # "speech_over_music"
            BY <2>5, <2>6, <2>7, <2>10
        <3>2. ByCues(text, class) = Fallback(class, words)
            BY <2>9, <2>10
        <3>3. Fallback(class, words) = "unknown" \/ (Fallback(class, words) = "discussion" /\ words >= LongWords)
            BY <3>1 DEF Fallback
        <3>4. words >= LongWords => words > IdentWords
            BY <2>4, RecordAssumption
        <3>5. QED
            BY <2>1, <2>3, <3>2, <3>3, <3>4 DEF Grounds
    <2>11. CASE score # 0 /\ type = "station_identification" /\ words > IdentWords
        <3>1. ByCues(text, class) = IF class = "speech_over_music" THEN "dj_commentary" ELSE "discussion"
            BY <2>8, <2>9, <2>11
        <3>2. QED
            BY <2>1, <2>3, <2>11, <3>1 DEF Grounds
    <2>12. CASE score # 0 /\ ~(type = "station_identification" /\ words > IdentWords)
        <3>1. ByCues(text, class) = type
            BY <2>9, <2>12
        <3>2. QED
            BY <2>1, <2>8, <2>12, <3>1
    <2>13. QED
        BY <2>10, <2>11, <2>12
<1>8. QED
    BY <1>3, <1>4, <1>5, <1>6, <1>7

-----------------------------------------------------------------------------
(* The record of a mention: the invariant.                                 *)

Matches == [keyword : Keys, level : DOMAIN LevelConfidence, owners : SUBSET Campaigns,
            word : DOMAIN Surface, from : Nat, to : Nat]
Parts == [text : Seq(Characters), class : {seg.class : seg \in SpokenParts},
          timed : {seg.timed : seg \in SpokenParts}, matches : SUBSET Matches,
          length : {2}, start : Nat]

\* The word of a match is a surface form of its keyword, and somebody has it.
Spelled(m) ==
    /\ m.word \in DOMAIN Surface
    /\ Surface[m.word] = [keyword |-> m.keyword, level |-> m.level]
    /\ m.owners # {}

HeardParts ==
    /\ parts \in Seq(Parts)
    /\ parts # << >> => parts[1].start = 0
    /\ \A p \in DOMAIN parts : \A m \in parts[p].matches : SaidAt(m, parts[p].text) /\ Spelled(m)
    /\ \A u : u \in uttered <=> \E p \in DOMAIN parts : u \in parts[p].matches
    /\ pruned \subseteq DOMAIN parts /\ \A p \in pruned : parts[p].matches = {}

\* A match of the conversation is one of a segment; its time is that of the
\* segment, or it has none.
StemsFrom(m, u) ==
    m.keyword = u.keyword /\ m.level = u.level /\ m.word = u.word /\ m.owners = u.owners
IsOfAPart(m, untimed) ==
    \E p \in DOMAIN parts : /\ \E u \in parts[p].matches : StemsFrom(m, u)
                            /\ m.at = untimed \/ m.at = parts[p].start - parts[1].start
HasShape(m) == m = [keyword |-> m.keyword, level |-> m.level, owners |-> m.owners, word |-> m.word,
                    from |-> m.from, to |-> m.to, at |-> m.at]

RowFacts ==
    /\ row.text \in Seq(Characters) /\ row.duration \in Nat /\ row.duration > 0
    /\ CueHits(row.text, "emergency_alert") > 0 => row.type = "emergency_alert"
    /\ row.type # "unknown" => Grounds(row.text, LastPart.class, row.type)

JobFacts ==
    /\ job.campaigns = CampaignsOf(job.matches)
    /\ \A m \in job.matches : SaidAt(m, row.text) /\ Spelled(m) /\ IsOfAPart(m, 0) /\ HasShape(m)
    /\ \A u \in uttered : \E m \in job.matches : m.keyword = u.keyword
    /\ \A u \in uttered, m \in job.matches :
          u.keyword = m.keyword => LevelConfidence[u.level] <= LevelConfidence[m.level]

\* A row of mention_keywords tells of one of the matches.
Tells(r, m) ==
    /\ r.word = m.word /\ r.from = m.from /\ r.to = m.to /\ r.at = m.at /\ r.level = m.level
    /\ r.confirmed = ~NeedsConfirmation(m.level) /\ r.campaign \in m.owners

MentionFacts ==
    /\ DOMAIN mention.campaigns = job.campaigns
    /\ \A c \in job.campaigns : ~mention.campaigns[c] =>
          row.type \in DOMAIN PolicyFlag /\ ~Flag(policies[c], PolicyFlag[row.type])
    /\ DOMAIN mention.keywords = {m.keyword : m \in job.matches}
    /\ \A k \in DOMAIN mention.keywords :
          \E m \in job.matches : m.keyword = k /\ Tells(mention.keywords[k], m)

RecordInv ==
    /\ owners \in [Keys -> SUBSET Campaigns]
    /\ HeardParts
    /\ row = NoRow => job = NoRow /\ mention = NoRow /\ pruned = {}
    /\ row # NoRow => parts # << >> /\ RowFacts /\ JobFacts
    /\ mention = NoRow => analysis = NoRow
    /\ mention # NoRow => MentionFacts /\ QuotesWereBroadcast

LEMMA PartsAre ==
    ASSUME HeardParts
    PROVE  /\ DOMAIN parts = 1 .. Len(parts) /\ Len(parts) \in Nat
           /\ \A p \in DOMAIN parts : parts[p] \in Parts /\ parts[p].text \in Seq(Characters)
           /\ \A p \in DOMAIN parts : \A m \in parts[p].matches : m \in Matches
           /\ parts # << >> => LastPart \in Parts /\ 1 \in DOMAIN parts
<1>1. parts \in Seq(Parts)
    BY DEF HeardParts
<1>2. DOMAIN parts = 1 .. Len(parts) /\ Len(parts) \in Nat
    BY <1>1
<1>3. \A p \in DOMAIN parts : parts[p] \in Parts
    BY <1>1, <1>2
<1>4. \A q \in Parts : q.text \in Seq(Characters) /\ q.matches \subseteq Matches
    BY DEF Parts
<1>5. parts # << >> => LastPart \in Parts /\ 1 \in DOMAIN parts
    <2>1. parts # << >> => Len(parts) > 0
        BY <1>1, <1>2, EmptySeq
    <2>2. QED
        BY <1>2, <1>3, <2>1 DEF LastPart
<1>6. QED
    BY <1>2, <1>3, <1>4, <1>5

\* A word that was said is in what strip() leaves of its segment.
LEMMA MatchInStrip ==
    ASSUME HeardParts, NEW p \in DOMAIN parts, NEW m \in parts[p].matches
    PROVE  /\ m.to \in Nat /\ m.from = m.to - 1 /\ LeftTrim(parts[p].text) \in Nat
           /\ LeftTrim(parts[p].text) < m.to
           /\ m.to - LeftTrim(parts[p].text) \in DOMAIN Strip(parts[p].text)
           /\ Strip(parts[p].text)[m.to - LeftTrim(parts[p].text)] = m.word
           /\ Strip(parts[p].text) # << >>
<1>1. PICK text \in Seq(Characters) : text = parts[p].text
    BY PartsAre
<1>2. m.to \in DOMAIN text /\ m.from = m.to - 1 /\ text[m.to] = m.word /\ m.word \in DOMAIN Surface
    BY <1>1 DEF HeardParts, SaidAt, Spelled
<1>3. m.word # Blank
    BY <1>2, RecordAssumption
<1>4. m.to \in WordsAt(text)
    BY <1>2, <1>3 DEF WordsAt
<1>5. QED
    BY <1>1, <1>2, <1>4, StripIs

LEMMA PiecesAreJoined ==
    ASSUME HeardParts, NEW S, S \subseteq DOMAIN parts, NEW separator
    PROVE  /\ \A n \in Nat : Join(S, n, separator) \in Seq(Characters \cup {separator})
           /\ \A k, n \in Nat : 0 < k /\ k <= n /\ k \in S =>
                Carries(Join(S, n, separator), After(Len(Join(S, k - 1, separator))),
                        Strip(parts[k].text))
<1>1. PICK X : X = Characters \cup {separator}
    OBVIOUS
<1>2. Characters \subseteq X /\ separator \in X /\ \A p \in DOMAIN parts : parts[p].text \in Seq(Characters)
    BY <1>1, PartsAre
<1>3. QED
    BY <1>1, <1>2, JoinIs

\* _rebase_matches: a match of the conversation is said in the transcript at
\* its offsets.
LEMMA RebasedIs ==
    ASSUME HeardParts
    PROVE  /\ \A x \in Rebased : /\ SaidAt(x, Transcript(Len(parts))) /\ Spelled(x)
                                 /\ IsOfAPart(x, NoTime) /\ HasShape(x) /\ x.from \in Nat
                                 /\ x.level \in DOMAIN LevelConfidence
           /\ \A p \in DOMAIN parts : \A u \in parts[p].matches :
                 \E x \in Rebased : StemsFrom(x, u)
           /\ Transcript(Len(parts)) \in Seq(Characters)
<1>1. DOMAIN parts = 1 .. Len(parts) /\ Len(parts) \in Nat
    BY PartsAre
<1>2. Characters \cup {Blank} = Characters
    BY DEF Characters
<1>3. PICK text : text = Transcript(Len(parts))
    OBVIOUS
<1>4. \A n \in Nat : Transcript(n) \in Seq(Characters)
    BY <1>2, PiecesAreJoined DEF Transcript
<1>5. ASSUME NEW n \in DOMAIN parts
      PROVE  /\ Carries(text, CharBase(n), Strip(parts[n].text))
             /\ CharBase(n) \in Nat
    <2>1. n \in Nat /\ 0 < n /\ n <= Len(parts) /\ n - 1 \in Nat
        BY <1>1
    <2>2. Carries(Transcript(Len(parts)), After(Len(Transcript(n - 1))), Strip(parts[n].text))
        BY <1>1, <2>1, PiecesAreJoined DEF Transcript
    <2>3. Len(Transcript(n - 1)) \in Nat
        BY <1>4, <2>1
    <2>4. CharBase(n) = After(Len(Transcript(n - 1)))
        BY DEF CharBase, After
    <2>5. After(Len(Transcript(n - 1))) \in Nat
        BY <2>3 DEF After, One
    <2>6. QED
        BY <1>3, <2>2, <2>4, <2>5
<1>6. ASSUME NEW n \in DOMAIN parts, NEW m \in parts[n].matches, NEW x,
             x.keyword = m.keyword, x.level = m.level, x.owners = m.owners, x.word = m.word,
             x.from = CharBase(n) + NotNegative(m.from - LeftTrim(parts[n].text)),
             x.to = CharBase(n) + NotNegative(m.to - LeftTrim(parts[n].text))
      PROVE  SaidAt(x, text) /\ Spelled(x) /\ x.from \in Nat /\ x.level \in DOMAIN LevelConfidence
    <2>1. PICK i \in Nat, trim \in Nat : i = m.to /\ trim = LeftTrim(parts[n].text) /\ trim < i
        BY MatchInStrip
    <2>2. m.from = i - 1 /\ i - trim \in DOMAIN Strip(parts[n].text)
          /\ Strip(parts[n].text)[i - trim] = m.word
        BY <2>1, MatchInStrip
    <2>3. NotNegative(i - trim) = i - trim /\ NotNegative(i - 1 - trim) = i - 1 - trim
        BY <2>1 DEF NotNegative
    <2>4. PICK base \in Nat : base = CharBase(n)
        BY <1>5
    <2>5. x.from = base + (i - 1 - trim) /\ x.to = base + (i - trim)
        BY <1>6, <2>1, <2>2, <2>3, <2>4
    <2>6. x.from \in Nat /\ x.from = x.to - 1
        BY <2>1, <2>5
    <2>7. x.to \in DOMAIN text /\ text[x.to] = m.word
        BY <1>5, <2>2, <2>4, <2>5 DEF Carries
    <2>8. m.level \in DOMAIN LevelConfidence /\ Spelled(m)
        <3>1. m \in Matches
            BY PartsAre
        <3>2. Spelled(m)
            BY DEF HeardParts
        <3>3. QED
            BY <3>1, <3>2 DEF Matches
    <2>9. QED
        BY <1>6, <2>6, <2>7, <2>8 DEF SaidAt, Spelled
<1>7. ASSUME NEW x \in Rebased
      PROVE  SaidAt(x, text) /\ Spelled(x) /\ IsOfAPart(x, NoTime) /\ HasShape(x) /\ x.from \in Nat
             /\ x.level \in DOMAIN LevelConfidence
    <2>1. PICK n \in DOMAIN parts : x \in RebasedIn(n)
        BY DEF Rebased
    <2>2. PICK at : at = IF parts[n].timed THEN parts[n].start - parts[1].start ELSE NoTime
        OBVIOUS
    <2>3. PICK m \in parts[n].matches :
             x = [keyword |-> m.keyword, level |-> m.level, owners |-> m.owners, word |-> m.word,
                  from |-> CharBase(n) + NotNegative(m.from - LeftTrim(parts[n].text)),
                  to |-> CharBase(n) + NotNegative(m.to - LeftTrim(parts[n].text)), at |-> at]
        BY <2>1, <2>2 DEF RebasedIn
    <2>4. SaidAt(x, text) /\ Spelled(x) /\ x.from \in Nat /\ x.level \in DOMAIN LevelConfidence
        BY <1>6, <2>3
    <2>5. HasShape(x)
        BY <2>3 DEF HasShape
    <2>6. StemsFrom(x, m) /\ (x.at = NoTime \/ x.at = parts[n].start - parts[1].start)
        BY <2>2, <2>3 DEF StemsFrom
    <2>7. QED
        BY <2>4, <2>5, <2>6 DEF IsOfAPart
<1>8. ASSUME NEW p \in DOMAIN parts, NEW u \in parts[p].matches
      PROVE  \E x \in Rebased : StemsFrom(x, u)
    <2>1. PICK x : x \in RebasedIn(p) /\ StemsFrom(x, u)
        <3>1. PICK at : at = IF parts[p].timed THEN parts[p].start - parts[1].start ELSE NoTime
            OBVIOUS
        <3>2. PICK x : x = [keyword |-> u.keyword, level |-> u.level, owners |-> u.owners, word |-> u.word,
                            from |-> CharBase(p) + NotNegative(u.from - LeftTrim(parts[p].text)),
                            to |-> CharBase(p) + NotNegative(u.to - LeftTrim(parts[p].text)), at |-> at]
            OBVIOUS
        <3>3. x \in RebasedIn(p)
            BY <3>1, <3>2 DEF RebasedIn
        <3>4. StemsFrom(x, u)
            BY <3>2 DEF StemsFrom
        <3>5. QED
            BY <3>3, <3>4
    <2>2. Strip(parts[p].text) # << >>
        BY MatchInStrip
    <2>3. x \in Rebased
        BY <2>1, <2>2 DEF Rebased
    <2>4. QED
        BY <2>1, <2>3
<1>9. QED
    BY <1>1, <1>3, <1>4, <1>7, <1>8

\* Of the matches of a keyword one of the strongest is kept, and nothing else.
LEMMA DeduplicatedIs ==
    ASSUME HeardParts
    PROVE  /\ Deduplicated \subseteq Rebased
           /\ \A x \in Rebased : \E d \in Deduplicated : d.keyword = x.keyword
           /\ \A d \in Deduplicated, x \in Rebased :
                 x.keyword = d.keyword => LevelConfidence[x.level] <= LevelConfidence[d.level]
<1>1. PICK all : all = Rebased
    OBVIOUS
<1>2. \A x \in all : x.from \in Nat /\ LevelConfidence[x.level] \in 0 .. 100
    <2>1. \A l \in DOMAIN LevelConfidence : LevelConfidence[l] \in 0 .. 100
        BY DEF LevelConfidence
    <2>2. QED
        BY <1>1, <2>1, RebasedIs
<1>3. \A d : d \in Deduplicated <=> d \in all /\ ~\E y \in all : y.keyword = d.keyword /\ Stronger(y, d)
    BY <1>1 DEF Deduplicated
<1>4. ASSUME NEW x \in all
      PROVE  \E d \in Deduplicated : d.keyword = x.keyword
    <2>1. PICK same : same = {y \in all : y.keyword = x.keyword}
        OBVIOUS
    <2>2. PICK levels : levels = {LevelConfidence[y.level] : y \in same}
        OBVIOUS
    <2>3. levels \subseteq 0 .. 100 /\ levels # {}
        BY <1>2, <2>1, <2>2
    <2>4. PICK top \in levels : \A l \in levels : l <= top
        BY <2>3, HighestNumber
    <2>5. PICK best : best = {y \in same : LevelConfidence[y.level] = top}
        OBVIOUS
    <2>6. PICK places : places = {y.from : y \in best}
        OBVIOUS
    <2>7. places \subseteq Nat /\ places # {}
        BY <1>2, <2>1, <2>2, <2>4, <2>5, <2>6
    <2>8. PICK first \in places : \A f \in places : first <= f
        BY <2>7, LowestNumber
    <2>9. PICK d \in best : d.from = first
        BY <2>6
    <2>10. d \in all /\ d.keyword = x.keyword /\ LevelConfidence[d.level] = top
        BY <2>1, <2>5
    <2>11. ASSUME NEW y \in all, y.keyword = d.keyword, Stronger(y, d)
           PROVE  FALSE
        <3>1. y \in same
            BY <2>1, <2>10, <2>11
        <3>2. LevelConfidence[y.level] <= top /\ LevelConfidence[y.level] \in Nat /\ top \in Nat
            BY <1>2, <2>2, <2>3, <2>4, <3>1
        <3>3. LevelConfidence[y.level] = top /\ y.from < d.from
            BY <2>10, <2>11, <3>2 DEF Stronger
        <3>4. y.from \in places
            BY <2>5, <2>6, <3>1, <3>3
        <3>5. d.from <= y.from /\ d.from \in Nat /\ y.from \in Nat
            BY <1>2, <2>8, <2>9, <2>10, <3>4
        <3>6. QED
            BY <3>3, <3>5
    <2>12. QED
        BY <1>3, <2>10, <2>11
<1>5. ASSUME NEW d \in Deduplicated, NEW x \in all, x.keyword = d.keyword
      PROVE  LevelConfidence[x.level] <= LevelConfidence[d.level]
    <2>1. d \in all /\ ~Stronger(x, d)
        BY <1>3, <1>5
    <2>2. LevelConfidence[x.level] \in Nat /\ LevelConfidence[d.level] \in Nat
        BY <1>2, <2>1
    <2>3. QED
        BY <2>1, <2>2 DEF Stronger
<1>6. QED
    BY <1>1, <1>3, <1>4, <1>5

\* What a worker makes of the message of this version is what was sent.
LEMMA LoadedIs ==
    ASSUME JobFacts
    PROVE  LoadedMatches = job.matches
<1>1. ASSUME NEW m \in job.matches
      PROVE  [m EXCEPT !.owners = ResolvedCampaigns(m, job.campaigns)] = m
    <2>1. PICK q : q = [m EXCEPT !.owners = ResolvedCampaigns(m, job.campaigns)]
        OBVIOUS
    <2>2. ResolvedCampaigns(m, job.campaigns) = m.owners
        BY DEF JobFacts, Spelled, ResolvedCampaigns
    <2>3. m = [keyword |-> m.keyword, level |-> m.level, owners |-> m.owners, word |-> m.word,
               from |-> m.from, to |-> m.to, at |-> m.at]
        BY DEF JobFacts, HasShape
    <2>4. q = m
        BY <2>1, <2>2, <2>3
    <2>5. QED
        BY <2>1, <2>4
<1>2. QED
    BY <1>1 DEF LoadedMatches

\* _validated_evidence: what is kept of the quotes was broadcast.
LEMMA ResultsAre ==
    ASSUME row # NoRow => RowFacts, row # NoRow, NEW result \in Results
    PROVE  \A q \in result.evidence :
              /\ OccursIn(q.text, row.text) /\ q.text # << >>
              /\ 0 <= q.start /\ q.start <= q.end /\ q.end <= row.duration
<1>1. row.duration \in Nat /\ row.duration > 0
    BY DEF RowFacts
<1>2. CASE result = FallbackResult
    BY <1>2 DEF FallbackResult
<1>3. CASE result # FallbackResult
    <2>1. PICK r \in Replies : result = ParseAndValidate(r)
        BY <1>3 DEF Results
    <2>2. result.evidence = ValidatedEvidence(DropBlank(r.quotes))
        BY <2>1 DEF ParseAndValidate
    <2>3. ASSUME NEW q \in result.evidence
          PROVE  /\ OccursIn(q.text, row.text) /\ q.text # << >>
                 /\ 0 <= q.start /\ q.start <= q.end /\ q.end <= row.duration
        <3>1. PICK p \in DropBlank(r.quotes) : Genuine(p) /\ q = Clamped(p)
            BY <2>2 DEF ValidatedEvidence
        <3>2. p \in r.quotes /\ Strip(p.text) # << >>
            BY DEF DropBlank
        <3>3. p.start \in Nat /\ p.end \in Int
            BY <3>2, RecordAssumption
        <3>4. q.text = Strip(p.text) /\ q.start = p.start
              /\ q.end = Smaller(Larger(p.start, p.end), row.duration)
            BY <1>1, <3>1 DEF Clamped
        <3>5. OccursIn(Strip(p.text), row.text) /\ p.start <= row.duration
            BY <1>1, <3>1 DEF Genuine
        <3>6. p.start <= q.end /\ q.end <= row.duration
            BY <1>1, <3>3, <3>4, <3>5 DEF Smaller, Larger
        <3>7. QED
            BY <3>2, <3>3, <3>4, <3>5, <3>6
    <2>4. QED
        BY <2>3
<1>4. QED
    BY <1>2, <1>3

\* What the listener hears of a segment.
LEMMA ScanIs ==
    ASSUME owners \in [Keys -> SUBSET Campaigns], \A k \in Keys : owners[k] # {},
           NEW text \in Seq(Characters)
    PROVE  \A m \in ScanOf(text) : m \in Matches /\ SaidAt(m, text) /\ Spelled(m)
<1>1. SUFFICES ASSUME NEW m \in ScanOf(text)
               PROVE  m \in Matches /\ SaidAt(m, text) /\ Spelled(m)
    OBVIOUS
<1>2. PICK i \in DOMAIN text :
         /\ text[i] \in DOMAIN Surface
         /\ m = [keyword |-> Surface[text[i]].keyword, level |-> Surface[text[i]].level,
                 owners |-> owners[Surface[text[i]].keyword], word |-> text[i],
                 from |-> i - 1, to |-> i]
    BY DEF ScanOf
<1>3. PICK w \in DOMAIN Surface : w = text[i]
    BY <1>2
<1>4. Surface[w].keyword \in Keys
    BY DEF Keys
<1>5. Surface[w] = [keyword |-> Surface[w].keyword, level |-> Surface[w].level]
      /\ Surface[w].level \in DOMAIN LevelConfidence
    BY RecordAssumption
<1>6. PICK k, l, who : k = Surface[w].keyword /\ l = Surface[w].level /\ who = owners[k]
    OBVIOUS
<1>7. m = [keyword |-> k, level |-> l, owners |-> who, word |-> w, from |-> i - 1, to |-> i]
    BY <1>2, <1>3, <1>6
<1>8. i \in Nat /\ i - 1 \in Nat /\ DOMAIN text = 1 .. Len(text)
    OBVIOUS
<1>9. k \in Keys /\ l \in DOMAIN LevelConfidence /\ who \subseteq Campaigns /\ who # {}
    BY <1>4, <1>5, <1>6
<1>10. m \in Matches
    BY <1>7, <1>8, <1>9 DEF Matches
<1>11. SaidAt(m, text) /\ Spelled(m)
    BY <1>3, <1>5, <1>6, <1>7, <1>8, <1>9 DEF SaidAt, Spelled
<1>12. QED
    BY <1>10, <1>11

\* The facts about a conversation at the moment it is committed.
CommittedFacts(text, type, duration, sent, campaigns) ==
    /\ text \in Seq(Characters) /\ duration \in Nat /\ duration > 0
    /\ CueHits(text, "emergency_alert") > 0 => type = "emergency_alert"
    /\ type # "unknown" => Grounds(text, LastPart.class, type)
    /\ campaigns = CampaignsOf(sent)
    /\ \A m \in sent : SaidAt(m, text) /\ Spelled(m) /\ IsOfAPart(m, 0) /\ HasShape(m)
    /\ \A u \in uttered : \E m \in sent : m.keyword = u.keyword
    /\ \A u \in uttered, m \in sent :
          u.keyword = m.keyword => LevelConfidence[u.level] <= LevelConfidence[m.level]

LEMMA CommittedIs ==
    ASSUME HeardParts, parts # << >>, NEW text, NEW type, NEW duration, NEW sent, NEW campaigns,
           text = Transcript(Len(parts)), type = Classify(text, LastPart.class),
           duration = EndOf(LastPart) - parts[1].start,
           sent = {MatchedKeywordRef(m) : m \in Deduplicated}, campaigns = CampaignsOf(Deduplicated)
    PROVE  CommittedFacts(text, type, duration, sent, campaigns)
<1>1. text \in Seq(Characters)
    BY RebasedIs
<1>2. duration \in Nat /\ duration > 0
    <2>1. parts[1].start = 0
        BY DEF HeardParts
    <2>2. LastPart.start \in Nat /\ LastPart.length = 2
        BY PartsAre DEF Parts
    <2>3. QED
        BY <2>1, <2>2 DEF EndOf
<1>3. (CueHits(text, "emergency_alert") > 0 => type = "emergency_alert")
      /\ (type # "unknown" => Grounds(text, LastPart.class, type))
    <2>1. PICK class : class = LastPart.class
        OBVIOUS
    <2>2. QED
        BY <1>1, <2>1, TypesHaveGrounds
<1>4. ASSUME NEW d \in Deduplicated, NEW m, m = MatchedKeywordRef(d)
      PROVE  /\ SaidAt(m, text) /\ Spelled(m) /\ IsOfAPart(m, 0) /\ HasShape(m)
             /\ m.keyword = d.keyword /\ m.level = d.level /\ m.owners = d.owners
    <2>1. /\ SaidAt(d, text) /\ Spelled(d) /\ IsOfAPart(d, NoTime) /\ HasShape(d)
        BY DeduplicatedIs, RebasedIs
    <2>2. m = [d EXCEPT !.at = IF d.at = NoTime THEN 0 ELSE d.at]
        BY <1>4 DEF MatchedKeywordRef
    <2>3. d = [keyword |-> d.keyword, level |-> d.level, owners |-> d.owners, word |-> d.word,
               from |-> d.from, to |-> d.to, at |-> d.at]
        BY <2>1 DEF HasShape
    <2>4. HasShape(m) /\ m.keyword = d.keyword /\ m.level = d.level /\ m.owners = d.owners
          /\ m.word = d.word /\ m.from = d.from /\ m.to = d.to
          /\ m.at = IF d.at = NoTime THEN 0 ELSE d.at
        BY <2>2, <2>3 DEF HasShape
    <2>5. SaidAt(m, text) /\ Spelled(m)
        BY <2>1, <2>4 DEF SaidAt, Spelled
    <2>6. IsOfAPart(m, 0)
        BY <2>1, <2>4 DEF IsOfAPart, StemsFrom
    <2>7. QED
        BY <2>4, <2>5, <2>6
<1>5. ASSUME NEW m \in sent
      PROVE  /\ SaidAt(m, text) /\ Spelled(m) /\ IsOfAPart(m, 0) /\ HasShape(m)
             /\ \E d \in Deduplicated : m.keyword = d.keyword /\ m.level = d.level /\ m.owners = d.owners
    <2>1. PICK d \in Deduplicated : m = MatchedKeywordRef(d)
        OBVIOUS
    <2>2. QED
        BY <1>4, <2>1
<1>6. ASSUME NEW d \in Deduplicated
      PROVE  \E m \in sent : m.keyword = d.keyword /\ m.owners = d.owners
    <2>1. PICK m : m = MatchedKeywordRef(d)
        OBVIOUS
    <2>2. m \in sent
        BY <2>1
    <2>3. QED
        BY <1>4, <2>1, <2>2
<1>7. campaigns = CampaignsOf(sent)
    <2>1. \A c : c \in campaigns <=> \E d \in Deduplicated : c \in d.owners
        BY DEF CampaignsOf
    <2>2. \A c : c \in CampaignsOf(sent) <=> \E m \in sent : c \in m.owners
        BY DEF CampaignsOf
    <2>3. \A c : c \in campaigns <=> c \in CampaignsOf(sent)
        BY <1>5, <1>6, <2>1, <2>2
    <2>4. QED
        BY <2>3 DEF CampaignsOf
<1>8. ASSUME NEW u \in uttered
      PROVE  \E x \in Rebased : x.keyword = u.keyword /\ x.level = u.level
    <2>1. PICK p \in DOMAIN parts : u \in parts[p].matches
        BY DEF HeardParts
    <2>2. QED
        BY <2>1, RebasedIs DEF StemsFrom
<1>9. ASSUME NEW u \in uttered
      PROVE  \E m \in sent : m.keyword = u.keyword
    <2>1. PICK x \in Rebased : x.keyword = u.keyword
        BY <1>8
    <2>2. PICK d \in Deduplicated : d.keyword = x.keyword
        BY DeduplicatedIs
    <2>3. QED
        BY <1>6, <2>1, <2>2
<1>10. ASSUME NEW u \in uttered, NEW m \in sent, u.keyword = m.keyword
       PROVE  LevelConfidence[u.level] <= LevelConfidence[m.level]
    <2>1. PICK d \in Deduplicated : m.keyword = d.keyword /\ m.level = d.level
        BY <1>5
    <2>2. PICK x \in Rebased : x.keyword = u.keyword /\ x.level = u.level
        BY <1>8
    <2>3. LevelConfidence[x.level] <= LevelConfidence[d.level]
        BY <1>10, <2>1, <2>2, DeduplicatedIs
    <2>4. QED
        BY <2>1, <2>2, <2>3
<1>11. QED
    BY <1>1, <1>2, <1>3, <1>5, <1>7, <1>9, <1>10 DEF CommittedFacts

-----------------------------------------------------------------------------
(* The record of a mention: every step keeps the invariant.                *)

LEMMA RecordInitHolds ==
    RecordInit => RecordInv
<1>1. SUFFICES ASSUME RecordInit PROVE RecordInv
    OBVIOUS
<1>2. owners \in [Keys -> SUBSET Campaigns]
    BY <1>1 DEF RecordInit
<1>3. HeardParts
    BY <1>1 DEF RecordInit, HeardParts
<1>4. QED
    BY <1>1, <1>2, <1>3 DEF RecordInit, RecordInv

\* The facts about what does not change.
LEMMA HeardFrame ==
    ASSUME HeardParts, UNCHANGED <<parts, uttered, pruned>>
    PROVE  HeardParts'
BY DEF HeardParts

LEMMA RowFrame ==
    ASSUME RowFacts, UNCHANGED <<parts, row>>
    PROVE  RowFacts'
BY DEF RowFacts, LastPart

LEMMA JobFrame ==
    ASSUME JobFacts, UNCHANGED <<parts, row, job, uttered>>
    PROVE  JobFacts'
BY DEF JobFacts, IsOfAPart

LEMMA MentionFrame ==
    ASSUME MentionFacts, UNCHANGED <<row, job, mention, policies>>
    PROVE  MentionFacts'
BY DEF MentionFacts

LEMMA HearPartKeeps ==
    ASSUME RecordInv, NEW seg \in SpokenParts, HearPart(seg)
    PROVE  RecordInv'
<1>1. row = NoRow /\ (\A k \in Keys : owners[k] # {}) /\ owners \in [Keys -> SUBSET Campaigns]
      /\ HeardParts /\ mention = NoRow /\ job = NoRow /\ analysis = NoRow /\ pruned = {}
    BY DEF HearPart, RecordInv
<1>2. PICK q, text, class, timed, start :
         /\ text = seg.text /\ class = seg.class /\ timed = seg.timed
         /\ start = IF parts = << >> THEN 0 ELSE EndOf(LastPart) + seg.gap
         /\ q = [text |-> text, class |-> class, timed |-> timed, matches |-> ScanOf(text),
                 length |-> 2, start |-> start]
    OBVIOUS
<1>3. parts' = Append(parts, q) /\ uttered' = uttered \cup ScanOf(text)
    BY <1>2 DEF HearPart
<1>4. PICK found : found = ScanOf(text)
    OBVIOUS
<1>5. text \in Seq(Characters) /\ seg.gap \in Nat
    BY <1>2, RecordAssumption
<1>6. \A m \in found : m \in Matches /\ SaidAt(m, text) /\ Spelled(m)
    BY <1>1, <1>4, <1>5, ScanIs
<1>7. start \in Nat /\ (parts = << >> => start = 0)
    <2>1. parts # << >> => LastPart.start \in Nat /\ LastPart.length = 2
        BY <1>1, PartsAre DEF Parts
    <2>2. QED
        BY <1>2, <1>5, <2>1 DEF EndOf
<1>8. q \in Parts /\ q.text = text /\ q.matches = found /\ q.start = start
    BY <1>2, <1>4, <1>5, <1>6, <1>7 DEF Parts
<1>9. parts \in Seq(Parts) /\ Len(parts) \in Nat /\ DOMAIN parts = 1 .. Len(parts)
    BY <1>1, PartsAre DEF HeardParts
<1>10. PICK n \in Nat : n = Len(parts)
    BY <1>9
<1>11. /\ parts' \in Seq(Parts) /\ DOMAIN parts' = 1 .. n + 1
       /\ \A p \in 1 .. n : parts'[p] = parts[p]
       /\ parts'[n + 1] = q
    BY <1>3, <1>8, <1>9, <1>10, AppendProperties
<1>12. parts'[1].start = 0
    <2>1. CASE n = 0
        <3>1. parts = << >>
            BY <1>9, <1>10, <2>1, EmptySeq
        <3>2. QED
            BY <1>7, <1>8, <1>11, <2>1, <3>1
    <2>2. CASE n # 0
        <3>1. parts # << >> /\ 1 \in 1 .. n
            BY <1>9, <1>10, <2>2, EmptySeq
        <3>2. parts[1].start = 0
            BY <1>1, <3>1 DEF HeardParts
        <3>3. QED
            BY <1>11, <3>1, <3>2
    <2>3. QED
        BY <2>1, <2>2
<1>13. ASSUME NEW p \in DOMAIN parts', NEW m \in parts'[p].matches
       PROVE  SaidAt(m, parts'[p].text) /\ Spelled(m)
    <2>1. CASE p = n + 1
        BY <1>6, <1>8, <1>11, <2>1
    <2>2. CASE p # n + 1
        <3>1. p \in 1 .. n
            BY <1>11, <2>2
        <3>2. p \in DOMAIN parts /\ parts'[p] = parts[p]
            BY <1>9, <1>10, <1>11, <3>1
        <3>3. QED
            BY <1>1, <3>2 DEF HeardParts
    <2>3. QED
        BY <2>1, <2>2
<1>14. \A u : u \in uttered' <=> \E p \in DOMAIN parts' : u \in parts'[p].matches
    <2>1. \A u : u \in uttered <=> \E p \in 1 .. n : u \in parts[p].matches
        BY <1>1, <1>9, <1>10 DEF HeardParts
    <2>2. \A p : p \in 1 .. n + 1 <=> p \in 1 .. n \/ p = n + 1
        OBVIOUS
    <2>3. \A u : u \in uttered' <=> u \in uttered \/ u \in found
        BY <1>3, <1>4
    <2>4. QED
        BY <1>8, <1>11, <2>1, <2>2, <2>3
<1>15. HeardParts'
    <2>1. pruned' = {}
        BY <1>1 DEF HearPart
    <2>2. QED
        BY <1>11, <1>12, <1>13, <1>14, <2>1 DEF HeardParts
<1>16. QED
    BY <1>1, <1>15 DEF HearPart, RecordInv

LEMMA IndexKeeps ==
    ASSUME RecordInv, FirstIndex \/ \E k \in Keys, c \in Campaigns : Register(k, c)
    PROVE  RecordInv'
<1>1. owners' \in [Keys -> SUBSET Campaigns]
    <2>1. CASE FirstIndex
        BY <2>1 DEF FirstIndex
    <2>2. ASSUME NEW k \in Keys, NEW c \in Campaigns, Register(k, c)
          PROVE  owners' \in [Keys -> SUBSET Campaigns]
        BY <2>2 DEF RecordInv, Register
    <2>3. QED
        BY <2>1, <2>2
<1>2. UNCHANGED <<parts, row, job, mention, analysis, pruned, policies, uttered>>
    BY DEF FirstIndex, Register
<1>3. HeardParts'
    BY <1>2, HeardFrame DEF RecordInv
<1>4. row # NoRow => RowFacts' /\ JobFacts'
    BY <1>2, RowFrame, JobFrame DEF RecordInv
<1>5. mention # NoRow => MentionFacts' /\ QuotesWereBroadcast'
    <2>1. QuotesWereBroadcast => QuotesWereBroadcast'
        BY <1>2 DEF QuotesWereBroadcast
    <2>2. QED
        BY <1>2, <2>1, MentionFrame DEF RecordInv
<1>6. QED
    BY <1>1, <1>2, <1>3, <1>4, <1>5 DEF RecordInv

LEMMA CommitKeeps ==
    ASSUME RecordInv, Commit
    PROVE  RecordInv'
<1>1. row = NoRow /\ parts # << >> /\ HeardParts /\ mention = NoRow /\ analysis = NoRow
      /\ UNCHANGED <<owners, parts, mention, analysis, pruned, policies, uttered>>
    BY DEF Commit, RecordInv
<1>2. PICK text, type, duration, sent, campaigns :
         /\ text = Transcript(Len(parts)) /\ type = Classify(text, LastPart.class)
         /\ duration = EndOf(LastPart) - parts[1].start
         /\ sent = {MatchedKeywordRef(m) : m \in Deduplicated}
         /\ campaigns = CampaignsOf(Deduplicated)
    OBVIOUS
<1>3. row' = [text |-> text, type |-> type, duration |-> duration]
    BY <1>2, Zenon DEF Commit
<1>4. job' = [matches |-> sent, campaigns |-> campaigns]
    BY <1>2, Zenon DEF Commit, AnalysisJob
<1>5. CommittedFacts(text, type, duration, sent, campaigns)
    BY <1>1, <1>2, CommittedIs
<1>6. row'.text = text /\ row'.type = type /\ row'.duration = duration
      /\ job'.matches = sent /\ job'.campaigns = campaigns
    BY <1>3, <1>4
<1>7. RowFacts'
    <2>1. LastPart' = LastPart
        BY <1>1 DEF LastPart
    <2>2. QED
        BY <1>5, <1>6, <2>1 DEF CommittedFacts, RowFacts
<1>8. JobFacts'
    <2>1. \A m : IsOfAPart(m, 0) => IsOfAPart(m, 0)'
        BY <1>1 DEF IsOfAPart
    <2>2. QED
        BY <1>1, <1>5, <1>6, <2>1 DEF CommittedFacts, JobFacts
<1>9. HeardParts'
    BY <1>1, HeardFrame
<1>10. row' # NoRow
    <2>1. DOMAIN row' = {"text", "type", "duration"}
        BY <1>3
    <2>2. DOMAIN NoRow = {}
        BY DEF NoRow
    <2>3. QED
        BY <2>1, <2>2
<1>11. QED
    BY <1>1, <1>7, <1>8, <1>9, <1>10 DEF RecordInv

LEMMA DropConversationKeeps ==
    ASSUME RecordInv, DropConversation
    PROVE  RecordInv'
<1>1. row = NoRow /\ mention = NoRow /\ analysis = NoRow /\ pruned = {} /\ job = NoRow
      /\ parts' = << >> /\ uttered' = {}
      /\ UNCHANGED <<owners, row, job, mention, analysis, pruned, policies>>
    BY DEF DropConversation, RecordInv
<1>2. HeardParts'
    BY <1>1 DEF HeardParts
<1>3. QED
    BY <1>1, <1>2 DEF RecordInv

LEMMA AnalyseKeeps ==
    ASSUME RecordInv, Analyse
    PROVE  RecordInv'
<1>1. /\ job # NoRow /\ mention = NoRow /\ row # NoRow /\ analysis = NoRow
      /\ UNCHANGED <<owners, parts, row, job, pruned, uttered>>
    BY DEF Analyse, RecordInv
<1>2. RowFacts /\ JobFacts /\ HeardParts
    BY <1>1 DEF RecordInv
<1>3. LoadedMatches = job.matches
    BY <1>2, LoadedIs
<1>4. PICK stored : /\ mention' = [campaigns |-> CampaignRows(stored), keywords |-> KeywordRows]
                    /\ policies' = stored
    BY DEF Analyse
<1>5. PICK result \in Results : analysis' = result
    BY <1>1 DEF Analyse, WriteAnalysis
<1>6. QuotesWereBroadcast'
    <2>1. \A q \in result.evidence :
              /\ OccursIn(q.text, row.text) /\ q.text # << >>
              /\ 0 <= q.start /\ q.start <= q.end /\ q.end <= row.duration
        BY <1>1, <1>2, ResultsAre
    <2>2. QED
        BY <1>1, <1>5, <2>1 DEF QuotesWereBroadcast
<1>7. PICK sent, campaigns, type : sent = job.matches /\ campaigns = job.campaigns /\ type = row.type
    OBVIOUS
<1>8. PICK told, rows : told = CampaignRows(stored) /\ rows = KeywordRows
    OBVIOUS
<1>9. DOMAIN told = campaigns /\ \A c \in campaigns : told[c] = Included(type, stored[c])
    <2>1. CampaignsOf(LoadedMatches) = campaigns
        BY <1>2, <1>3, <1>7 DEF JobFacts
    <2>2. QED
        BY <1>7, <1>8, <2>1 DEF CampaignRows
<1>10. \A c \in campaigns : ~told[c] => type \in DOMAIN PolicyFlag /\ ~Flag(stored[c], PolicyFlag[type])
    BY <1>9 DEF Included
<1>11. DOMAIN rows = {m.keyword : m \in sent}
    BY <1>3, <1>7, <1>8 DEF KeywordRows
<1>12. ASSUME NEW k \in DOMAIN rows
       PROVE  \E m \in sent : m.keyword = k /\ Tells(rows[k], m)
    <2>1. PICK m : m = CHOOSE n \in sent : n.keyword = k
        OBVIOUS
    <2>2. m \in sent /\ m.keyword = k
        BY <1>11, <2>1
    <2>3. rows[k] = [word |-> m.word, from |-> m.from, to |-> m.to, at |-> m.at, level |-> m.level,
                     confirmed |-> ~NeedsConfirmation(m.level), campaign |-> FirstOf(m.owners)]
        BY <1>3, <1>7, <1>8, <1>11, <2>1 DEF KeywordRows
    <2>4. m.owners # {}
        BY <1>2, <1>7, <2>2 DEF JobFacts, Spelled
    <2>5. FirstOf(m.owners) \in m.owners
        BY <2>4 DEF FirstOf
    <2>6. Tells(rows[k], m)
        BY <2>3, <2>5 DEF Tells
    <2>7. QED
        BY <2>2, <2>6
<1>13. mention'.campaigns = told /\ mention'.keywords = rows /\ policies' = stored
       /\ job'.matches = sent /\ job'.campaigns = campaigns /\ row'.type = type
    BY <1>1, <1>4, <1>7, <1>8
<1>14. MentionFacts'
    BY <1>9, <1>10, <1>11, <1>12, <1>13 DEF MentionFacts
<1>15. mention' # NoRow
    <2>1. DOMAIN mention' = {"campaigns", "keywords"}
        BY <1>4
    <2>2. DOMAIN NoRow = {}
        BY DEF NoRow
    <2>3. QED
        BY <2>1, <2>2
<1>16. RowFacts' /\ JobFacts' /\ HeardParts'
    BY <1>1, <1>2, RowFrame, JobFrame, HeardFrame
<1>17. QED
    BY <1>1, <1>6, <1>14, <1>15, <1>16 DEF RecordInv

LEMMA HealKeeps ==
    ASSUME RecordInv, Heal
    PROVE  RecordInv'
<1>1. /\ analysis # NoRow /\ mention # NoRow /\ row # NoRow
      /\ UNCHANGED <<owners, parts, row, job, mention, pruned, policies, uttered>>
    BY DEF Heal, RecordInv
<1>2. RowFacts /\ JobFacts /\ HeardParts /\ MentionFacts /\ QuotesWereBroadcast
    BY <1>1 DEF RecordInv
<1>3. QuotesWereBroadcast'
    <2>1. CASE UNCHANGED analysis
        BY <1>1, <1>2, <2>1 DEF QuotesWereBroadcast
    <2>2. CASE ~UNCHANGED analysis
        <3>1. PICK r \in Replies : WriteAnalysis(ParseAndValidate(r))
            BY <2>2 DEF Heal
        <3>2. PICK result : result = ParseAndValidate(r) /\ result \in Results
            BY DEF Results
        <3>3. \A q \in result.evidence :
                  /\ OccursIn(q.text, row.text) /\ q.text # << >>
                  /\ 0 <= q.start /\ q.start <= q.end /\ q.end <= row.duration
            BY <1>1, <1>2, <3>2, ResultsAre
        <3>4. PICK type, relevant, evidence, review, status :
                 result = [status |-> status, type |-> type, relevant |-> relevant,
                           evidence |-> evidence, review |-> review]
            BY <3>2 DEF ParseAndValidate
        <3>5. PICK a, b : a = analysis.type /\ b = analysis.relevant
            OBVIOUS
        <3>6. analysis' = [result EXCEPT !.type = a, !.relevant = b]
            BY <1>1, <3>1, <3>2, <3>5 DEF WriteAnalysis
        <3>7. analysis'.evidence = result.evidence
            BY <3>4, <3>6
        <3>8. QED
            BY <1>1, <3>3, <3>7 DEF QuotesWereBroadcast
    <2>3. QED
        BY <2>1, <2>2
<1>4. HeardParts' /\ RowFacts' /\ JobFacts' /\ MentionFacts'
    BY <1>1, <1>2, HeardFrame, RowFrame, JobFrame, MentionFrame
<1>5. QED
    BY <1>1, <1>3, <1>4 DEF RecordInv

LEMMA PruneKeeps ==
    ASSUME RecordInv, NEW p \in DOMAIN parts, Prune(p)
    PROVE  RecordInv'
<1>1. /\ mention # NoRow /\ row # NoRow /\ parts[p].matches = {} /\ pruned' = pruned \cup {p}
      /\ UNCHANGED <<owners, parts, row, job, mention, analysis, policies, uttered>>
    BY DEF Prune, RecordInv
<1>2. RowFacts /\ JobFacts /\ HeardParts /\ MentionFacts /\ QuotesWereBroadcast
    BY <1>1 DEF RecordInv
<1>3. HeardParts'
    BY <1>1, <1>2 DEF HeardParts
<1>4. RowFacts' /\ JobFacts' /\ MentionFacts'
    BY <1>1, <1>2, RowFrame, JobFrame, MentionFrame
<1>5. QuotesWereBroadcast'
    BY <1>1, <1>2 DEF QuotesWereBroadcast
<1>6. QED
    BY <1>1, <1>3, <1>4, <1>5 DEF RecordInv

LEMMA RecordIdleKeeps ==
    ASSUME RecordInv, UNCHANGED recordVars
    PROVE  RecordInv'
<1>1. UNCHANGED <<owners, parts, row, job, mention, analysis, pruned, policies, uttered>>
    BY DEF recordVars
<1>2. HeardParts' /\ (row # NoRow => RowFacts' /\ JobFacts') /\ (mention # NoRow => MentionFacts')
    BY <1>1, HeardFrame, RowFrame, JobFrame, MentionFrame DEF RecordInv
<1>3. QuotesWereBroadcast => QuotesWereBroadcast'
    BY <1>1 DEF QuotesWereBroadcast
<1>4. QED
    BY <1>1, <1>2, <1>3 DEF RecordInv

\* What holds of the record of every conversation.
THEOREM RecordInvariant == RecordSpec => []RecordInv
<1>1. RecordInit => RecordInv
    BY RecordInitHolds
<1>2. RecordInv /\ [RecordNext]_recordVars => RecordInv'
    <2>1. SUFFICES ASSUME RecordInv, [RecordNext]_recordVars PROVE RecordInv'
        OBVIOUS
    <2>2. ASSUME NEW seg \in SpokenParts, HearPart(seg) PROVE RecordInv'
        BY <2>1, <2>2, HearPartKeeps
    <2>3. CASE FirstIndex \/ \E k \in Keys, c \in Campaigns : Register(k, c)
        BY <2>1, <2>3, IndexKeeps
    <2>4. CASE Commit
        BY <2>1, <2>4, CommitKeeps
    <2>5. CASE DropConversation
        BY <2>1, <2>5, DropConversationKeeps
    <2>6. CASE Analyse
        BY <2>1, <2>6, AnalyseKeeps
    <2>7. CASE Heal
        BY <2>1, <2>7, HealKeeps
    <2>8. ASSUME NEW p \in DOMAIN parts, Prune(p) PROVE RecordInv'
        BY <2>1, <2>8, PruneKeeps
    <2>9. CASE UNCHANGED recordVars
        BY <2>1, <2>9, RecordIdleKeeps
    <2>10. QED
        BY <2>1, <2>2, <2>3, <2>4, <2>5, <2>6, <2>7, <2>8, <2>9 DEF RecordNext
<1>3. QED
    BY <1>1, <1>2, PTL DEF RecordSpec

-----------------------------------------------------------------------------
(* The record of a mention: what is stored and who is told.                *)

\* The detail view shows the word of a keyword, whatever has been pruned.
LEMMA WordsAreShown ==
    ASSUME RecordInv, mention # NoRow, NEW m \in job.matches
    PROVE  \E i : i \in FirstAt(m.word, DetailText)
<1>1. JobFacts /\ HeardParts /\ row # NoRow
    BY DEF RecordInv
<1>2. PICK p \in DOMAIN parts : \E v \in parts[p].matches : StemsFrom(m, v)
    BY <1>1 DEF JobFacts, IsOfAPart
<1>3. PICK u \in parts[p].matches : StemsFrom(m, u)
    BY <1>2
<1>4. p \notin pruned
    BY <1>1, <1>3 DEF HeardParts
<1>5. Strip(parts[p].text) # << >>
    BY <1>1, <1>3, MatchInStrip
<1>6. p \in Transcripts /\ Transcripts \subseteq DOMAIN parts
    BY <1>4, <1>5 DEF Transcripts
<1>7. PICK text : text = DetailText
    OBVIOUS
<1>8. text = Join(Transcripts, Len(parts), NewLine)
    BY <1>6, <1>7 DEF DetailText
<1>9. DOMAIN parts = 1 .. Len(parts) /\ Len(parts) \in Nat
    BY <1>1, PartsAre
<1>10. text \in Seq(Characters \cup {NewLine})
    BY <1>1, <1>6, <1>8, <1>9, PiecesAreJoined
<1>11. PICK n : Carries(text, n, Strip(parts[p].text))
    <2>1. p \in Nat /\ 0 < p /\ p <= Len(parts)
        BY <1>9
    <2>2. QED
        BY <1>1, <1>6, <1>8, <1>9, <2>1, PiecesAreJoined
<1>12. PICK j \in DOMAIN Strip(parts[p].text) : Strip(parts[p].text)[j] = m.word
    BY <1>1, <1>3, MatchInStrip DEF StemsFrom
<1>13. PICK places : places = {i \in DOMAIN text : text[i] = m.word}
    OBVIOUS
<1>14. places # {}
    BY <1>11, <1>12, <1>13 DEF Carries
<1>15. DOMAIN text = 1 .. Len(text) /\ Len(text) \in Nat
    BY <1>10
<1>16. places \subseteq Nat
    BY <1>13, <1>15
<1>17. PICK i \in places : \A k \in places : i <= k
    BY <1>14, <1>16, LowestNumber
<1>18. ASSUME NEW k \in 1 .. i - 1
       PROVE  text[k] # m.word
    <2>1. i \in 1 .. Len(text)
        BY <1>13, <1>15
    <2>2. k \in DOMAIN text /\ ~(i <= k)
        BY <1>15, <2>1
    <2>3. QED
        BY <1>13, <1>17, <2>2
<1>19. i \in FirstAt(m.word, text)
    BY <1>13, <1>18 DEF FirstAt
<1>20. QED
    BY <1>7, <1>19

LEMMA StoredIfInv ==
    RecordInv => StoredWordsWereSaid
<1>1. SUFFICES ASSUME RecordInv, mention # NoRow
               PROVE  KeywordsPointAtWords /\ QuotesWereBroadcast /\ HitsAreHighlighted
    BY DEF StoredWordsWereSaid
<1>2. RowFacts /\ JobFacts /\ HeardParts /\ MentionFacts /\ QuotesWereBroadcast
    BY <1>1 DEF RecordInv
<1>3. LoadedMatches = job.matches
    BY <1>2, LoadedIs
<1>4. \A m \in TranscriptDocument.matches : SaidAt(m, TranscriptDocument.text)
    BY <1>2, <1>3 DEF TranscriptDocument, JobFacts
<1>5. ASSUME NEW k \in DOMAIN mention.keywords
      PROVE  LET r == mention.keywords[k]
             IN  /\ SaidAt(r, row.text)
                 /\ Surface[r.word] = [keyword |-> k, level |-> r.level]
                 /\ r.at = 0 \/ \E p \in DOMAIN parts :
                       /\ r.at = parts[p].start - parts[1].start
                       /\ \E i \in DOMAIN parts[p].text : parts[p].text[i] = r.word
    <2>1. PICK r : r = mention.keywords[k]
        OBVIOUS
    <2>2. PICK m \in job.matches : m.keyword = k /\ Tells(r, m)
        BY <1>2, <2>1 DEF MentionFacts
    <2>3. SaidAt(m, row.text) /\ Spelled(m) /\ IsOfAPart(m, 0)
        BY <1>2 DEF JobFacts
    <2>4. SaidAt(r, row.text) /\ Surface[r.word] = [keyword |-> k, level |-> r.level]
        BY <2>2, <2>3 DEF SaidAt, Spelled, Tells
    <2>5. PICK p \in DOMAIN parts :
             /\ \E v \in parts[p].matches : StemsFrom(m, v)
             /\ m.at = 0 \/ m.at = parts[p].start - parts[1].start
        BY <2>3 DEF IsOfAPart
    <2>6. PICK u \in parts[p].matches : StemsFrom(m, u)
        BY <2>5
    <2>7. SaidAt(u, parts[p].text)
        BY <1>2 DEF HeardParts
    <2>8. u.to \in DOMAIN parts[p].text /\ parts[p].text[u.to] = r.word
        BY <2>2, <2>6, <2>7 DEF SaidAt, StemsFrom, Tells
    <2>9. r.at = 0 \/ r.at = parts[p].start - parts[1].start
        BY <2>2, <2>5 DEF Tells
    <2>10. QED
        BY <2>1, <2>4, <2>8, <2>9
<1>6. HitsAreHighlighted
    <2>1. \A h \in Highlights : h.keyword \in DOMAIN mention.keywords
        BY DEF Highlights
    <2>2. ASSUME NEW k \in DOMAIN mention.keywords
          PROVE  \E h \in Highlights : h.keyword = k
        <3>1. PICK m \in job.matches : mention.keywords[k].word = m.word
            BY <1>2 DEF MentionFacts, Tells
        <3>2. PICK i : i \in FirstAt(mention.keywords[k].word, DetailText)
            BY <1>1, <3>1, WordsAreShown
        <3>3. [keyword |-> k, at |-> i] \in Highlights
            BY <3>2 DEF Highlights
        <3>4. [keyword |-> k, at |-> i].keyword = k
            OBVIOUS
        <3>5. QED
            BY <3>3, <3>4
    <2>3. \A k : k \in {h.keyword : h \in Highlights} <=> k \in DOMAIN mention.keywords
        BY <2>1, <2>2
    <2>4. QED
        BY <2>3 DEF HitsAreHighlighted
<1>7. QED
    BY <1>2, <1>4, <1>5, <1>6 DEF KeywordsPointAtWords

\* A match that needs no confirmation is stronger than one that does.
LEMMA ConfirmedIs ==
    ASSUME NEW a \in DOMAIN LevelConfidence, NEW b \in DOMAIN LevelConfidence,
           LevelConfidence[a] <= LevelConfidence[b], ~NeedsConfirmation(a)
    PROVE  ~NeedsConfirmation(b)
BY DEF LevelConfidence, NeedsConfirmation

\* The feed has a row of the campaign to name, if there is any.
LEMMA FeedIs ==
    ASSUME RecordInv, mention # NoRow, NEW c, OwnRows(c) # {}
    PROVE  FeedKeyword(c) \in OwnRows(c)
<1>1. JobFacts /\ MentionFacts /\ RowFacts
    BY DEF RecordInv
<1>2. PICK own : own = OwnRows(c)
    OBVIOUS
<1>3. own # {} /\ own \subseteq DOMAIN mention.keywords
    BY <1>2 DEF OwnRows
<1>4. PICK places : places = [k \in own |-> mention.keywords[k].from]
    OBVIOUS
<1>5. \A k \in own : places[k] \in Nat
    <2>1. ASSUME NEW k \in own
          PROVE  places[k] \in Nat
        <3>1. PICK m \in job.matches : mention.keywords[k].from = m.from
            BY <1>1, <1>3 DEF MentionFacts, Tells
        <3>2. m.to \in DOMAIN row.text /\ m.from = m.to - 1
            BY <1>1 DEF JobFacts, SaidAt
        <3>3. PICK text \in Seq(Characters) : text = row.text
            BY <1>1 DEF RowFacts
        <3>4. m.to \in 1 .. Len(text)
            BY <3>2, <3>3
        <3>5. QED
            BY <1>4, <3>1, <3>2, <3>4
    <2>2. QED
        BY <2>1
<1>6. PICK sure : sure = {k \in own : mention.keywords[k].confirmed}
    OBVIOUS
<1>7. PICK best : best = IF sure = {} THEN own ELSE sure
    OBVIOUS
<1>8. PICK at : at = {places[k] : k \in best}
    OBVIOUS
<1>9. at \subseteq Nat /\ at # {}
    BY <1>3, <1>5, <1>6, <1>7, <1>8
<1>10. PICK f \in at : \A g \in at : f <= g
    BY <1>9, LowestNumber
<1>11. PICK k \in best : places[k] = f
    BY <1>8
<1>12. k \in own /\ \A j \in best : places[k] <= places[j]
    BY <1>6, <1>7, <1>8, <1>10, <1>11
<1>13. \A j \in own : mention.keywords[j].confirmed \in BOOLEAN
    <2>1. ASSUME NEW j \in own
          PROVE  mention.keywords[j].confirmed \in BOOLEAN
        <3>1. PICK m \in job.matches : mention.keywords[j].confirmed = ~NeedsConfirmation(m.level)
            BY <1>1, <1>3 DEF MentionFacts, Tells
        <3>2. QED
            BY <3>1
    <2>2. QED
        BY <2>1
<1>14. ASSUME NEW j \in own
       PROVE  Foremost(k, j)
    <2>1. places[j] = mention.keywords[j].from /\ places[k] = mention.keywords[k].from
        BY <1>4, <1>12
    <2>2. CASE j \in best
        <3>1. places[k] <= places[j]
            BY <1>12, <2>2
        <3>2. mention.keywords[k].confirmed = mention.keywords[j].confirmed
            BY <1>6, <1>7, <1>11, <1>12, <1>13, <2>2
        <3>3. QED
            BY <2>1, <3>1, <3>2 DEF Foremost
    <2>3. CASE j \notin best
        <3>1. k \in sure /\ j \notin sure
            BY <1>7, <1>11, <2>3
        <3>2. mention.keywords[k].confirmed /\ ~mention.keywords[j].confirmed
            BY <1>6, <3>1
        <3>3. QED
            BY <3>2 DEF Foremost
    <2>4. QED
        BY <2>2, <2>3
<1>15. FeedKeyword(c) = CHOOSE i \in own : \A j \in own : Foremost(i, j)
    BY <1>2, <1>3 DEF FeedKeyword
<1>16. FeedKeyword(c) \in own
    BY <1>12, <1>14, <1>15
<1>17. QED
    BY <1>2, <1>16

LEMMA ToldIfInv ==
    RecordInv => OwnersAreTold
<1>1. SUFFICES ASSUME RecordInv, mention # NoRow PROVE OwnersAreTold
    BY DEF OwnersAreTold
<1>2. RowFacts /\ JobFacts /\ HeardParts /\ MentionFacts
    BY <1>1 DEF RecordInv
<1>3. LoadedMatches = job.matches
    BY <1>2, LoadedIs
<1>4. \A m \in job.matches : \E u \in uttered : StemsFrom(m, u)
    BY <1>2 DEF JobFacts, IsOfAPart, HeardParts
<1>5. DOMAIN mention.keywords = {m.keyword : m \in job.matches}
      /\ DOMAIN mention.campaigns = job.campaigns /\ job.campaigns = CampaignsOf(job.matches)
    BY <1>2 DEF MentionFacts, JobFacts
<1>6. DOMAIN mention.keywords = {u.keyword : u \in uttered}
    <2>1. \A k : k \in DOMAIN mention.keywords <=> \E m \in job.matches : m.keyword = k
        BY <1>5
    <2>2. \A k : (\E m \in job.matches : m.keyword = k) <=> \E u \in uttered : u.keyword = k
        BY <1>2, <1>4 DEF JobFacts, StemsFrom
    <2>3. \A k : k \in DOMAIN mention.keywords <=> k \in {u.keyword : u \in uttered}
        BY <2>1, <2>2
    <2>4. QED
        BY <2>3
<1>7. \A u \in uttered : u.level \in DOMAIN LevelConfidence
    BY <1>2, PartsAre DEF HeardParts, Matches
<1>8. ASSUME NEW k \in DOMAIN mention.keywords
      PROVE  mention.keywords[k].confirmed = \E u \in uttered : u.keyword = k /\ ~NeedsConfirmation(u.level)
    <2>1. PICK m \in job.matches : m.keyword = k /\ Tells(mention.keywords[k], m)
        BY <1>2 DEF MentionFacts
    <2>2. PICK v \in uttered : StemsFrom(m, v)
        BY <1>4
    <2>3. ~NeedsConfirmation(m.level) => \E u \in uttered : u.keyword = k /\ ~NeedsConfirmation(u.level)
        BY <2>1, <2>2 DEF StemsFrom
    <2>4. ASSUME NEW u \in uttered, u.keyword = k, ~NeedsConfirmation(u.level)
          PROVE  ~NeedsConfirmation(m.level)
        <3>1. LevelConfidence[u.level] <= LevelConfidence[m.level]
            BY <1>2, <2>1, <2>4 DEF JobFacts
        <3>2. m.level \in DOMAIN LevelConfidence /\ u.level \in DOMAIN LevelConfidence
            BY <1>7, <2>2 DEF StemsFrom
        <3>3. QED
            BY <2>4, <3>1, <3>2, ConfirmedIs
    <2>5. ~NeedsConfirmation(m.level) <=> \E u \in uttered : u.keyword = k /\ ~NeedsConfirmation(u.level)
        BY <2>3, <2>4
    <2>6. mention.keywords[k].confirmed = ~NeedsConfirmation(m.level)
        BY <2>1 DEF Tells
    <2>7. QED
        BY <2>5, <2>6
<1>9. DOMAIN mention.campaigns \subseteq UNION {u.owners : u \in uttered}
    BY <1>4, <1>5 DEF CampaignsOf, StemsFrom
<1>10. ASSUME NEW k \in DOMAIN mention.keywords, NEW c \in Campaigns,
              \A u \in uttered : u.keyword = k => c \in u.owners
       PROVE  c \in DOMAIN mention.campaigns
    <2>1. PICK m \in job.matches : m.keyword = k
        BY <1>5
    <2>2. PICK u \in uttered : StemsFrom(m, u)
        BY <1>4
    <2>3. c \in m.owners
        BY <1>10, <2>1, <2>2 DEF StemsFrom
    <2>4. QED
        BY <1>5, <2>3 DEF CampaignsOf
<1>11. ASSUME NEW c \in DOMAIN mention.campaigns, ~mention.campaigns[c]
       PROVE  IF CueHits(row.text, "emergency_alert") > 0
              THEN ~Flag(policies[c], "include_emergency_alerts")
              ELSE /\ Grounds(row.text, LastPart.class, row.type)
                   /\ ~Flag(policies[c], PolicyFlag[row.type])
    <2>1. row.type \in DOMAIN PolicyFlag /\ ~Flag(policies[c], PolicyFlag[row.type])
        BY <1>2, <1>5, <1>11 DEF MentionFacts
    <2>2. PolicyFlag["emergency_alert"] = "include_emergency_alerts"
          /\ "unknown" \notin DOMAIN PolicyFlag
        BY DEF PolicyFlag
    <2>3. CueHits(row.text, "emergency_alert") > 0 => row.type = "emergency_alert"
        BY <1>2 DEF RowFacts
    <2>4. Grounds(row.text, LastPart.class, row.type)
        BY <1>2, <2>1, <2>2 DEF RowFacts
    <2>5. QED
        BY <2>1, <2>2, <2>3, <2>4
<1>12. ASSUME NEW c \in DOMAIN Feed, Feed[c] # ""
       PROVE  \E u \in uttered : u.keyword = Feed[c] /\ c \in u.owners
    <2>1. Feed[c] = FeedKeyword(c)
        BY DEF Feed
    <2>2. OwnRows(c) # {}
        BY <1>12, <2>1 DEF FeedKeyword
    <2>3. PICK k \in OwnRows(c) : Feed[c] = k
        BY <1>1, <2>1, <2>2, FeedIs
    <2>4. k \in DOMAIN mention.keywords /\ mention.keywords[k].campaign = c
        BY DEF OwnRows
    <2>5. PICK m \in job.matches : m.keyword = k /\ Tells(mention.keywords[k], m)
        BY <1>2, <2>4 DEF MentionFacts
    <2>6. PICK u \in uttered : StemsFrom(m, u)
        BY <1>4
    <2>7. QED
        BY <2>3, <2>4, <2>5, <2>6 DEF Tells, StemsFrom
<1>13. MetadataDocument.campaigns = DOMAIN mention.campaigns
       /\ MetadataDocument.keywords = DOMAIN mention.keywords
    BY <1>3, <1>5 DEF MetadataDocument
<1>14. QED
    BY <1>6, <1>8, <1>9, <1>10, <1>11, <1>12, <1>13 DEF OwnersAreTold

\* What is stored as evidence was broadcast, and it is shown.
THEOREM WordsWereSaid == RecordSpec => []StoredWordsWereSaid
<1>1. RecordInv => StoredWordsWereSaid
    BY StoredIfInv
<1>2. QED
    BY <1>1, RecordInvariant, PTL

\* Every keyword has its row and every owner the mention.
THEOREM OwnersKnow == RecordSpec => []OwnersAreTold
<1>1. RecordInv => OwnersAreTold
    BY ToldIfInv
<1>2. QED
    BY <1>1, RecordInvariant, PTL
=============================================================================
