--------------------------- MODULE Capture_proofs ---------------------------
(***************************************************************************)
(* Proofs about what becomes of the audio of a station, from the stream to *)
(* the matches in its transcript, for every value of the constants.        *)
(*                                                                         *)
(* 1. The ring buffer, for every capacity: the array holds at index        *)
(*    a % capacity the sample at offset a, for every offset still held,    *)
(*    and a read across the wrap returns exactly the samples asked for.    *)
(* 2. The listening session, for every size of the ring, the window, the   *)
(*    chunk, the overlap and the lead that SessionAssumption allows: what  *)
(*    it hands over is exactly the audio it says it is.  An open segment   *)
(*    is shorter than a chunk and ends at most one window and one read     *)
(*    before the head of the stream, so that it is still in the ring when  *)
(*    it is cut.                                                           *)
(*    What was kept reaches the transcription in one piece: where the      *)
(*    windows of the connection have been decided, the open segment ends   *)
(*    and reaches back over the kept samples as far as the overlap does.   *)
(* 3. The audio policy: its counters drop exactly what all that was heard  *)
(*    on the connection shows to be dispensable, and a detected voice is   *)
(*    never taken for a song.                                              *)
(* 4. The rollout of a keyword index: a segment is scanned with an index   *)
(*    of its own station, at least as new as the one it was stamped with.  *)
(* 5. The turns of the stations: never more sessions than slots, and who   *)
(*    waits is not overtaken twice.                                        *)
(* 6. The scan of a transcript, for every set of keywords and every text:  *)
(*    a failure link is the longest proper end of its node that is a node, *)
(*    so that the automaton is always at the longest node the text ends    *)
(*    in, and has found all the patterns that end where it is.  A normal   *)
(*    form is in the order of the characters it comes from, so that what a *)
(*    match quotes, normalised by itself, says the pattern again.  And     *)
(*    _deduplicate() keeps, for every match it drops, one of the keyword   *)
(*    at least as long that overlaps it.                                   *)
(***************************************************************************)
EXTENDS StationSession, AudioPolicy, IndexRollout, StreamRotation, KeywordMatching,
        FiniteSetTheorems, SequenceTheorems, WellFoundedInduction, TLAPS

-----------------------------------------------------------------------------
\* 1. The ring buffer.

(* Division with remainder. *)
LEMMA RemainderRange ==
    ASSUME NEW x \in Int, NEW C \in Nat \ {0}
    PROVE  x % C \in 0 .. C - 1
OBVIOUS

LEMMA QuotientType ==
    ASSUME NEW x \in Int, NEW C \in Nat \ {0}
    PROVE  x \div C \in Int
OBVIOUS

LEMMA Division ==
    ASSUME NEW x \in Int, NEW C \in Nat \ {0}
    PROVE  x = C * (x \div C) + (x % C)
OBVIOUS

LEMMA MultipleAtLeast ==
    ASSUME NEW p \in Int, NEW C \in Nat \ {0}, p >= 1
    PROVE  C * p >= C
OBVIOUS

(* The remainder is the only number below the divisor that fits. *)
LEMMA RemainderUnique ==
    ASSUME NEW C \in Nat \ {0}, NEW q \in Int, NEW s \in Int,
           NEW r \in 0 .. C - 1, NEW t \in 0 .. C - 1,
           C * q + r = C * s + t
    PROVE  r = t
<1>1. C * (q - s) = t - r /\ C * (s - q) = r - t
  OBVIOUS
<1>2. ~(q - s >= 1)
  BY <1>1, MultipleAtLeast
<1>3. ~(s - q >= 1)
  BY <1>1, MultipleAtLeast
<1> QED BY <1>2, <1>3

(* Going on by less than a whole turn wraps once at most. *)
LEMMA RemainderShift ==
    ASSUME NEW C \in Nat \ {0}, NEW x \in Int, NEW j \in 0 .. C - 1
    PROVE  (x + j) % C = IF (x % C) + j < C THEN (x % C) + j ELSE (x % C) + j - C
<1> DEFINE q == x \div C
           s == (x + j) \div C
           r == x % C
           t == (x + j) % C
<1>1. q \in Int /\ s \in Int /\ r \in 0 .. C - 1 /\ t \in 0 .. C - 1
  BY RemainderRange, QuotientType
<1>2. x = C * q + r /\ x + j = C * s + t
  BY Division
<1> HIDE DEF q, s, r, t
<1>3. CASE r + j < C
  <2>1. C * q + (r + j) = C * s + t
    BY <1>1, <1>2
  <2>2. r + j \in 0 .. C - 1
    BY <1>1, <1>3
  <2> QED BY <2>1, <2>2, <1>1, <1>3, RemainderUnique DEF r, t
<1>4. CASE r + j >= C
  <2>1. C * (q + 1) + (r + j - C) = C * s + t
    BY <1>1, <1>2
  <2>2. r + j - C \in 0 .. C - 1 /\ q + 1 \in Int
    BY <1>1, <1>4
  <2>3. r + j - C = t
    BY <2>1, <2>2, <1>1, RemainderUnique
  <2> QED BY <2>3, <1>1, <1>4 DEF r, t
<1> QED BY <1>1, <1>3, <1>4

-----------------------------------------------------------------------------
BufferInv == BufferTypeOK /\ Faithful

(* Where append() starts to write, and what the array holds after it. *)
LEMMA AppendType ==
    ASSUME BufferAssumption, BufferTypeOK, capacity > 0, NEW n \in Nat \ {0}, Append_(n)
    PROVE  BufferTypeOK'
<1> USE DEF BufferAssumption
<1>1. capacity = Capacity /\ capacity' = Capacity /\ total' = total + n /\ generation' = generation
  BY DEF BufferTypeOK, Append_
<1>2. DOMAIN ring' = 0 .. capacity - 1
  BY DEF Append_
<1> QED BY <1>1, <1>2 DEF BufferTypeOK

LEMMA AppendFaithful ==
    ASSUME BufferAssumption, BufferInv, capacity > 0, NEW n \in Nat \ {0}, Append_(n)
    PROVE  Faithful'
<1> USE DEF BufferAssumption
<1> DEFINE C == capacity
           k == Kept(n)
           b == total + n - k
           w == b % C
           g == generation
           data(j) == <<generation, total + n - k + j>>
<1>1. /\ C \in Nat \ {0} /\ total \in Nat /\ k \in 1 .. C /\ k <= n /\ b \in Nat
      /\ (k = n \/ k = C) /\ w \in 0 .. C - 1
  <2>1. C \in Nat \ {0} /\ total \in Nat /\ k \in 1 .. C /\ k <= n /\ b \in Nat /\ (k = n \/ k = C)
    BY DEF BufferInv, BufferTypeOK, Kept
  <2> HIDE DEF b
  <2>2. b % C \in 0 .. C - 1
    <3>1. b \in Int
      BY <2>1
    <3> QED BY <2>1, <3>1, RemainderRange, Zenon
  <2> QED BY <2>1, <2>2
<1>2. capacity' = C /\ total' = total + n /\ generation' = g
  BY DEF Append_
<1>3. w = WriteAt(n)
  BY DEF WriteAt
<1>4. \A i \in 0 .. C - 1 :
        ring'[i] = IF w + k <= C
                   THEN IF i \in w .. w + k - 1 THEN data(i - w) ELSE ring[i]
                   ELSE IF i >= w THEN data(i - w)
                        ELSE IF i < k - (C - w) THEN data(C - w + i)
                        ELSE ring[i]
  BY <1>3, Zenon DEF Append_
<1> SUFFICES ASSUME NEW a \in Floor' .. total' - 1
             PROVE  ring'[a % C] = <<g, a>>
  BY <1>2 DEF Faithful
<1>5. a \in Nat /\ a < total + n /\ a >= total + n - C
  BY <1>1, <1>2 DEF Floor
<1>6. a % C \in 0 .. C - 1
  BY <1>1, <1>5, RemainderRange
<1> HIDE DEF C, k, b, w, g
\* Offsets that have just been written.
<1>7. CASE a >= b
  <2> DEFINE j == a - b
  <2>1. j \in 0 .. C - 1 /\ j < k /\ a = b + j
    BY <1>1, <1>5, <1>7 DEF b
  <2>2. a % C = IF w + j < C THEN w + j ELSE w + j - C
    <3> HIDE DEF j
    <3>1. (b + j) % C = IF (b % C) + j < C THEN (b % C) + j ELSE (b % C) + j - C
      <4>1. b \in Int
        BY <1>1
      <4> QED BY <4>1, <1>1, <2>1, RemainderShift, Zenon
    <3> QED BY <2>1, <3>1 DEF w
  <2> HIDE DEF j
  <2>3. ring'[a % C] = data(j)
    <3>1. CASE w + j < C
      <4>1. a % C = w + j /\ (a % C) - w = j
        BY <1>1, <2>1, <2>2, <3>1
      <4>2. a % C \in w .. w + k - 1 /\ a % C >= w
        BY <1>1, <2>1, <4>1
      <4>3. ring'[a % C] = data((a % C) - w)
        BY <1>4, <1>6, <4>2
      <4> QED BY <4>1, <4>3
    <3>2. CASE w + j >= C
      <4>1. a % C = w + j - C /\ C - w + (a % C) = j
        BY <1>1, <2>1, <2>2, <3>2
      <4>2. ~(w + k <= C) /\ ~(a % C >= w) /\ a % C < k - (C - w)
        BY <1>1, <2>1, <4>1, <3>2
      <4>3. ring'[a % C] = data(C - w + (a % C))
        BY <1>4, <1>6, <4>2
      <4> QED BY <4>1, <4>3
    <3> QED BY <3>1, <3>2, <1>1, <2>1
  <2>4. data(j) = <<g, a>>
    BY <2>1, <1>1 DEF g, b
  <2> QED BY <2>3, <2>4
\* Offsets held before: nothing was written over them.
<1>8. CASE a < b
  <2> DEFINE j == b - a
  <2>1. k = n /\ b = total
    BY <1>1, <1>5, <1>8 DEF b
  <2>2. j \in 1 .. C - n /\ b = a + j
    BY <1>1, <1>5, <1>8, <2>1
  <2>3. w = IF (a % C) + j < C THEN (a % C) + j ELSE (a % C) + j - C
    <3> HIDE DEF j
    <3>1. j \in 0 .. C - 1
      BY <2>2, <1>1
    <3>2. (a + j) % C = IF (a % C) + j < C THEN (a % C) + j ELSE (a % C) + j - C
      <4>1. a \in Int
        BY <1>5
      <4> QED BY <4>1, <3>1, <1>1, RemainderShift, Zenon
    <3> QED BY <2>2, <3>2 DEF w
  <2> HIDE DEF j
  <2>4. ring'[a % C] = ring[a % C]
    <3>1. CASE w + k <= C
      <4>1. ~(a % C \in w .. w + k - 1)
        BY <1>1, <1>6, <2>1, <2>2, <2>3
      <4> QED BY <1>4, <1>6, <3>1, <4>1
    <3>2. CASE w + k > C
      <4>1. ~(a % C >= w) /\ ~(a % C < k - (C - w)) /\ ~(w + k <= C)
        BY <1>1, <1>6, <2>1, <2>2, <2>3, <3>2
      <4> QED BY <1>4, <1>6, <4>1
    <3> QED BY <3>1, <3>2, <1>1
  <2>5. a \in Floor .. total - 1
    BY <1>1, <1>5, <1>8, <2>1 DEF Floor, C
  <2>6. ring[a % C] = <<g, a>>
    BY <2>5 DEF BufferInv, Faithful, g, C
  <2> QED BY <2>4, <2>6
<1> QED BY <1>1, <1>5, <1>7, <1>8

-----------------------------------------------------------------------------
LEMMA InitInv ==
    ASSUME BufferAssumption, BufferInit
    PROVE  BufferInv
<1> USE DEF BufferAssumption
<1>1. capacity = Capacity /\ total = 0 /\ generation = 1 /\ ring = Blank
  BY DEF BufferInit
<1>2. DOMAIN ring = 0 .. capacity - 1
  BY <1>1 DEF Blank
<1>3. BufferTypeOK
  BY <1>1, <1>2 DEF BufferTypeOK
<1>4. Faithful
  BY <1>1 DEF Faithful, Floor
<1> QED BY <1>3, <1>4 DEF BufferInv

\* The steps that empty the buffer.
LEMMA EmptyInv ==
    ASSUME BufferAssumption, BufferInv, Reset \/ Clear \/ Reopen
    PROVE  BufferInv'
<1> USE DEF BufferAssumption
<1>1. total' = 0 /\ capacity' \in {0, Capacity} /\ generation' \in Nat \ {0}
  BY DEF BufferInv, BufferTypeOK, Reset, Clear, Reopen
<1>2. DOMAIN ring' = 0 .. capacity' - 1
  <2>1. CASE Reset
    BY <2>1 DEF Reset, BufferInv, BufferTypeOK
  <2>2. CASE Clear
    BY <2>2 DEF Clear
  <2>3. CASE Reopen
    BY <2>3 DEF Reopen, Blank
  <2> QED BY <2>1, <2>2, <2>3
<1>3. BufferTypeOK'
  BY <1>1, <1>2 DEF BufferTypeOK
<1>4. Faithful'
  <2>1. Floor' = 0
    <3>1. ~(total' > capacity')
      BY <1>1
    <3> QED BY <3>1 DEF Floor
  <2>2. Floor' .. total' - 1 = {}
    BY <1>1, <2>1
  <2> QED BY <2>2 DEF Faithful
<1> QED BY <1>3, <1>4 DEF BufferInv

LEMMA BufferInvStep ==
    ASSUME BufferInv, [BufferNext]_buffer
    PROVE  BufferInv'
<1>1. CASE \E n \in 1 .. MaxAppend : capacity > 0 /\ Append_(n)
  <2>1. PICK n \in 1 .. MaxAppend : capacity > 0 /\ Append_(n)
    BY <1>1
  <2>2. n \in Nat \ {0}
    BY BufferAssumption DEF BufferAssumption
  <2> QED BY <2>1, <2>2, BufferAssumption, AppendType, AppendFaithful DEF BufferInv
<1>2. CASE Reset \/ Clear \/ Reopen
  BY <1>2, BufferAssumption, EmptyInv
<1>3. CASE UNCHANGED buffer
  BY <1>3 DEF buffer, BufferInv, BufferTypeOK, Faithful, Floor
<1> QED BY <1>1, <1>2, <1>3 DEF BufferNext

(* The array is faithful in every state of the buffer's life, whatever its   *)
(* capacity and however long the pieces it is given: appended, wrapped,      *)
(* overrun by one oversized piece, reset by a reconnect, released, reopened. *)
THEOREM AlwaysFaithful == BufferSpec => [](BufferTypeOK /\ Faithful)
<1>1. BufferInit => BufferInv
  BY BufferAssumption, InitInv
<1>2. BufferInv /\ [BufferNext]_buffer => BufferInv'
  BY BufferInvStep
<1>3. BufferInv => BufferTypeOK /\ Faithful
  BY DEF BufferInv
<1> QED BY <1>1, <1>2, <1>3, PTL DEF BufferSpec

-----------------------------------------------------------------------------
LEMMA SliceIs ==
    ASSUME NEW lo, NEW hi
    PROVE  Slice(lo, hi) = [j \in 1 .. hi - lo |-> ring[lo + j - 1]]
BY DEF Slice

LEMMA ReadIs ==
    ASSUME NEW start, NEW end, NEW begin, NEW finish,
           begin = start % capacity, finish = begin + (end - start)
    PROVE  Read(start, end) = IF finish <= capacity THEN Slice(begin, finish)
                              ELSE Slice(begin, capacity) \o Slice(0, finish - capacity)
BY DEF Read

(* What a read returns: the samples start .. end-1 of this connection, each  *)
(* once and in order, wherever the array wraps between them.                 *)
THEOREM ReadIsExact ==
    ASSUME BufferTypeOK, Faithful, capacity > 0,
           NEW start \in Nat, NEW end \in Nat,
           Floor <= start, start < end, end <= total
    PROVE  Read(start, end) = Samples(generation, start, end)
<1> DEFINE C == capacity
           len == end - start
           begin == start % C
           head == C - begin
<1> USE DEF BufferAssumption
<1>1. C \in Nat \ {0} /\ total \in Nat
  BY BufferAssumption DEF BufferTypeOK
<1>2. start \in Int
  OBVIOUS
<1> HIDE DEF C
<1>3. start % C \in 0 .. C - 1
  BY <1>1, <1>2, RemainderRange, Zenon
<1>4. len \in 1 .. C
  BY <1>1 DEF Floor, C
<1> HIDE DEF len, begin
<1>5. begin \in 0 .. C - 1
  BY <1>3 DEF begin
<1>6. \A j \in 0 .. len - 1 :
        ring[IF begin + j < C THEN begin + j ELSE begin + j - C] = <<generation, start + j>>
  <2> SUFFICES ASSUME NEW j \in 0 .. len - 1
               PROVE  ring[IF begin + j < C THEN begin + j ELSE begin + j - C]
                        = <<generation, start + j>>
    OBVIOUS
  <2>1. j \in 0 .. C - 1
    BY <1>1, <1>4
  <2>2. (start + j) % C = IF begin + j < C THEN begin + j ELSE begin + j - C
    BY <1>1, <1>2, <2>1, RemainderShift, Zenon DEF begin
  <2>3. start + j \in Floor .. total - 1
    BY <1>1 DEF Floor, len, C
  <2>4. ring[(start + j) % C] = <<generation, start + j>>
    BY <2>3 DEF Faithful, C
  <2> QED BY <2>2, <2>4
<1>7. Samples(generation, start, end) = [j \in 1 .. len |-> <<generation, start + j - 1>>]
  BY DEF Samples, len
<1> DEFINE finish == begin + len
           over == finish - C
<1>7a. Read(start, end) = IF finish <= C THEN Slice(begin, finish)
                          ELSE Slice(begin, C) \o Slice(0, over)
  <2>1. begin = start % capacity /\ finish = begin + (end - start)
    BY DEF begin, len, C
  <2> HIDE DEF finish
  <2> QED BY <2>1, ReadIs, Zenon DEF C
<1> HIDE DEF finish, over
<1>7b. /\ Slice(begin, finish) = [j \in 1 .. finish - begin |-> ring[begin + j - 1]]
       /\ Slice(0, over) = [j \in 1 .. over - 0 |-> ring[0 + j - 1]]
  BY SliceIs, Zenon
<1>7c. finish = begin + len /\ finish - begin = len /\ over - 0 = len - (C - begin)
  BY <1>1, <1>4, <1>5 DEF finish, over
<1>8. CASE finish <= C
  <2>1. Read(start, end) = [j \in 1 .. finish - begin |-> ring[begin + j - 1]]
    BY <1>8, <1>7a, <1>7b, Zenon
  <2>2. finish - begin = len
    BY <1>7c
  <2>3. \A j \in 1 .. len : ring[begin + j - 1] = <<generation, start + j - 1>>
    <3> SUFFICES ASSUME NEW j \in 1 .. len
                 PROVE  ring[begin + j - 1] = <<generation, start + j - 1>>
      OBVIOUS
    <3>1. j - 1 \in 0 .. len - 1 /\ begin + (j - 1) < C
      BY <1>1, <1>4, <1>5, <1>7c, <1>8
    <3>2. ring[begin + (j - 1)] = <<generation, start + (j - 1)>>
      BY <1>6, <3>1
    <3>3. begin + (j - 1) = begin + j - 1 /\ start + (j - 1) = start + j - 1
      BY <1>1, <1>4, <1>5
    <3> QED BY <3>2, <3>3
  <2> QED BY <1>7, <2>1, <2>2, <2>3
<1>9. CASE ~(finish <= C)
  <2> DEFINE first == [j \in 1 .. head |-> ring[begin + j - 1]]
             rest == [j \in 1 .. len - head |-> ring[j - 1]]
  <2>1. head \in 1 .. len - 1 /\ head \in Nat /\ len \in Nat
    BY <1>1, <1>4, <1>5, <1>7c, <1>9
  <2>2. Read(start, end) = first \o rest
    <3>1. Slice(begin, C) = first
      BY SliceIs
    <3>2. over - 0 = len - head
      BY <1>7c
    <3>3. \A j \in 1 .. len - head : ring[0 + j - 1] = ring[j - 1]
      BY <2>1
    <3>4. Slice(0, over) = rest
      <4>1. [j \in 1 .. len - head |-> ring[0 + j - 1]] = rest
        BY <3>3
      <4> QED BY <3>2, <4>1, <1>7b, Zenon
    <3> QED BY <1>7a, <1>9, <3>1, <3>4, Zenon
  <2>3. \A j \in 1 .. head : first[j] = <<generation, start + j - 1>>
    <3> SUFFICES ASSUME NEW j \in 1 .. head
                 PROVE  first[j] = <<generation, start + j - 1>>
      OBVIOUS
    <3>1. j - 1 \in 0 .. len - 1 /\ begin + (j - 1) < C
      BY <1>1, <1>4, <1>5, <2>1
    <3>2. ring[begin + (j - 1)] = <<generation, start + (j - 1)>>
      BY <1>6, <3>1
    <3>3. begin + (j - 1) = begin + j - 1 /\ start + (j - 1) = start + j - 1
      BY <1>1, <1>4, <1>5, <2>1
    <3> QED BY <3>2, <3>3
  <2>4. \A j \in 1 .. len - head : rest[j] = <<generation, start + head + j - 1>>
    <3> SUFFICES ASSUME NEW j \in 1 .. len - head
                 PROVE  rest[j] = <<generation, start + head + j - 1>>
      OBVIOUS
    <3>1. /\ head + j - 1 \in 0 .. len - 1 /\ ~(begin + (head + j - 1) < C)
          /\ begin + (head + j - 1) - C = j - 1
      BY <1>1, <1>4, <1>5, <2>1
    <3>2. ring[begin + (head + j - 1) - C] = <<generation, start + (head + j - 1)>>
      BY <1>6, <3>1
    <3>3. start + (head + j - 1) = start + head + j - 1
      BY <1>1, <1>4, <1>5, <2>1
    <3> QED BY <3>1, <3>2, <3>3
  <2> HIDE DEF head
  <2>5. first \o rest = [j \in 1 .. len |-> <<generation, start + j - 1>>]
    <3>1. Len(first) = head /\ Len(rest) = len - head /\ len - head \in Nat
      BY <2>1
    <3>2. first \o rest = [j \in 1 .. len |-> IF j <= head THEN first[j] ELSE rest[j - head]]
      BY <2>1, <3>1
    <3> HIDE DEF first, rest
    <3>3. ASSUME NEW j \in 1 .. len
          PROVE  (IF j <= head THEN first[j] ELSE rest[j - head]) = <<generation, start + j - 1>>
      <4>1. CASE j <= head
        <5>1. j \in 1 .. head
          BY <2>1, <4>1
        <5> QED BY <2>3, <4>1, <5>1
      <4>2. CASE j > head
        <5>1. j - head \in 1 .. len - head /\ ~(j <= head)
          BY <2>1, <4>2
        <5>2. rest[j - head] = <<generation, start + head + (j - head) - 1>>
          BY <2>4, <5>1
        <5>3. start + head + (j - head) - 1 = start + j - 1
          BY <2>1
        <5> QED BY <5>1, <5>2, <5>3
      <4> QED BY <2>1, <4>1, <4>2
    <3> QED BY <3>2, <3>3
  <2> QED BY <1>7, <2>2, <2>5
<1> QED BY <1>8, <1>9

-----------------------------------------------------------------------------
\* 2. The listening session.

LEMMA Constants ==
    /\ Capacity \in Nat \ {0} /\ MaxAppend \in Nat \ {0}
    /\ WindowLen \in Nat \ {0} /\ Chunk \in Nat \ {0}
    /\ Overlap \in Nat /\ Overlap < Chunk /\ Lead \in Nat
    /\ Chunk + 2 * WindowLen + MaxAppend <= Capacity
BY BufferAssumption, SessionAssumption DEF BufferAssumption, SessionAssumption

\* Where the session stands in the stream.
Progress ==
    /\ pc \in Awaits \cup {"ended", "stopping", "stopped"}
    /\ open \in BOOLEAN
    /\ classified \in Nat /\ segStart \in Nat /\ segEnd \in Nat
    /\ pc # "stopped" => capacity = Capacity /\ classified <= total
    /\ pc \in {"connecting", "streaming"} => total - classified < WindowLen
    /\ pc \in {"classifying", "emitting"} => total - classified < MaxAppend

\* The open segment is still in the ring.
OpenInRing ==
    /\ open => /\ segStart <= segEnd /\ segEnd <= total
               /\ segEnd - segStart < Chunk
               /\ total - segEnd < WindowLen + MaxAppend
    /\ pc \in {"connecting", "emitting", "backoff", "stopped"} => ~open
    /\ pc = "emitting" => segEnd = classified
    /\ pc = "streaming" /\ open => segEnd = classified
    /\ pc = "classifying" => WindowLen <= classified
    /\ pc = "classifying" /\ open => segEnd = classified - WindowLen

SessionInv == BufferTypeOK /\ Faithful /\ Progress /\ OpenInRing

\* What is cut out of the ring while it is still there is exact.
LEMMA EmitExact ==
    ASSUME BufferTypeOK, Faithful, capacity > 0, SegmentsAreExact,
           NEW from \in Nat, NEW to \in Nat, NEW class,
           Floor <= from, to <= total, Emit(from, to, class)
    PROVE  SegmentsAreExact'
<1>1. CASE to <= from \/ Window(from, to) = << >>
  <2>1. sent' = sent
    BY <1>1 DEF Emit
  <2> QED BY <2>1 DEF SegmentsAreExact, Samples
<1>2. CASE ~(to <= from \/ Window(from, to) = << >>)
  <2>1. total \in Nat /\ Floor \in Nat
    BY DEF BufferTypeOK, Floor
  <2>2. from < to
    BY <1>2
  <2>3. WindowFrom(from) = from /\ WindowTo(to) = to
    BY <2>1 DEF WindowFrom, WindowTo
  <2>4. Window(from, to) = Read(from, to)
    BY <1>2, <2>3 DEF Window
  <2>5. Window(from, to) = Samples(generation, from, to)
    BY <2>2, <2>4, ReadIsExact
  <2>6. sent' = sent \cup {[generation |-> generation, from |-> from, to |-> to,
                            pcm |-> Window(from, to), label |-> class]}
    BY <1>2 DEF Emit
  <2>7. SUFFICES ASSUME NEW s \in sent'
                 PROVE  s.from < s.to /\ s.pcm = Samples(s.generation, s.from, s.to)
    BY DEF SegmentsAreExact, Samples
  <2>8. CASE s \in sent
    BY <2>8 DEF SegmentsAreExact
  <2>9. CASE s = [generation |-> generation, from |-> from, to |-> to,
                  pcm |-> Window(from, to), label |-> class]
    BY <2>9, <2>2, <2>5
  <2> QED BY <2>6, <2>8, <2>9
<1> QED BY <1>1, <1>2

LEMMA FlushExact ==
    ASSUME SessionInv, pc # "stopped", SegmentsAreExact, Flush
    PROVE  SegmentsAreExact' /\ open' \in BOOLEAN /\ ~open'
<1>1. CASE open
  <2>1. Emit(segStart, segEnd, label)
    BY <1>1 DEF Flush
  <2>2. capacity = Capacity /\ total \in Nat /\ segStart \in Nat /\ segEnd \in Nat
    BY DEF SessionInv, Progress, BufferTypeOK
  <2>3. /\ segEnd <= total /\ segEnd - segStart < Chunk
        /\ total - segEnd < WindowLen + MaxAppend
    BY <1>1 DEF SessionInv, OpenInRing
  <2>4. capacity > 0 /\ Floor <= segStart
    BY <2>2, <2>3, Constants DEF Floor
  <2>5. BufferTypeOK /\ Faithful
    BY DEF SessionInv
  <2> QED BY <2>1, <2>2, <2>3, <2>4, <2>5, EmitExact DEF Flush
<1>2. CASE ~open
  BY <1>2 DEF Flush, SegmentsAreExact, Samples
<1> QED BY <1>1, <1>2

-----------------------------------------------------------------------------
\* The steps of the session are steps of the buffer, or leave it alone.
LEMMA BufferSteps ==
    ASSUME SessionInv, [Next]_vars
    PROVE  [BufferNext]_buffer
<1>1. ASSUME NEW n \in 1 .. MaxAppend, ReadAudio(n)
      PROVE  BufferNext
  <2>1. capacity > 0
    BY <1>1, Constants DEF ReadAudio, SessionInv, Progress
  <2> QED BY <1>1, <2>1 DEF ReadAudio, BufferNext
<1>2. Reconnect => [BufferNext]_buffer
  BY DEF Reconnect, NewGeneration, BufferNext
<1>3. Shutdown => BufferNext
  BY DEF Shutdown, BufferNext
<1>4. ASSUME NEW class \in Classes, Keep(class)
      PROVE  UNCHANGED buffer
  BY <1>4 DEF Keep
<1>5. Connected \/ Discard \/ Reopen_Segment \/ StreamEnds \/ Disconnect \/ RequestStop
        \/ Cancel => UNCHANGED buffer
  BY DEF Connected, Discard, Reopen_Segment, StreamEnds, Disconnect, RequestStop, Cancel
<1> QED BY <1>1, <1>2, <1>3, <1>4, <1>5 DEF Next, vars

LEMMA BufferPreserved ==
    ASSUME SessionInv, [Next]_vars
    PROVE  (BufferTypeOK /\ Faithful)'
BY BufferSteps, BufferInvStep DEF SessionInv, BufferInv

-----------------------------------------------------------------------------
LEMMA OneWindowLess ==
    ASSUME NEW to \in Nat, NEW head \in Nat, to <= head, head - to < WindowLen + MaxAppend
    PROVE  /\ head - to >= WindowLen =>
                 to + WindowLen <= head /\ head - (to + WindowLen) < MaxAppend
           /\ ~(head - to >= WindowLen) => head - to < WindowLen
BY Constants

\* Where the loop over the ready windows leaves the session.
LEMMA AfterWindowStep ==
    ASSUME NEW to \in Nat, total' \in Nat, to <= total',
           total' - to < WindowLen + MaxAppend, AfterWindow(to)
    PROVE  \/ /\ pc' = "classifying" /\ classified' = to + WindowLen
              /\ classified' <= total' /\ total' - classified' < MaxAppend
           \/ /\ pc' \in {"ended", "streaming"} /\ classified' = to
              /\ total' - classified' < WindowLen
<1>1. /\ total' - to >= WindowLen =>
            to + WindowLen <= total' /\ total' - (to + WindowLen) < MaxAppend
      /\ ~(total' - to >= WindowLen) => total' - to < WindowLen
  BY OneWindowLess, Zenon
<1>2. CASE total' - to >= WindowLen
  <2>1. pc' = "classifying" /\ classified' = to + WindowLen
    BY <1>2 DEF AfterWindow
  <2> QED BY <1>1, <1>2, <2>1, Zenon
<1>3. CASE ~(total' - to >= WindowLen)
  <2>1. pc' \in {"ended", "streaming"} /\ classified' = to
    BY <1>3 DEF AfterWindow
  <2> QED BY <1>1, <1>3, <2>1, Zenon
<1> QED BY <1>2, <1>3, Zenon

\* Audio is only ever added where the session reads it.
LEMMA ReadAudioStep ==
    ASSUME SessionInv, SegmentsAreExact, NEW n \in 1 .. MaxAppend, ReadAudio(n)
    PROVE  Progress' /\ OpenInRing' /\ SegmentsAreExact'
<1>1. /\ pc = "streaming" /\ total' = total + n /\ capacity' = capacity
      /\ open' = open /\ segStart' = segStart /\ segEnd' = segEnd /\ sent' = sent
  BY DEF ReadAudio, Append_
<1>2. /\ total \in Nat /\ classified \in Nat /\ segStart \in Nat /\ segEnd \in Nat
      /\ open \in BOOLEAN /\ n \in Nat /\ n <= MaxAppend /\ n >= 1
      /\ classified <= total /\ total - classified < WindowLen /\ capacity = Capacity
  BY <1>1, Constants DEF SessionInv, Progress, BufferTypeOK
<1>3. open => segEnd = classified /\ segStart <= segEnd /\ segEnd - segStart < Chunk
  BY <1>1 DEF SessionInv, OpenInRing
<1>4. AfterWindow(classified)
  BY DEF ReadAudio
<1>5. total' \in Nat /\ classified <= total' /\ total' - classified < WindowLen + MaxAppend
  BY <1>1, <1>2, Constants
<1>6. \/ /\ pc' = "classifying" /\ classified' = classified + WindowLen
         /\ classified' <= total' /\ total' - classified' < MaxAppend
      \/ /\ pc' \in {"ended", "streaming"} /\ classified' = classified
         /\ total' - classified' < WindowLen
  BY <1>2, <1>4, <1>5, AfterWindowStep
<1>7. Progress'
  BY <1>1, <1>2, <1>5, <1>6, Constants DEF Progress, Awaits
<1>8. OpenInRing'
  BY <1>1, <1>2, <1>3, <1>5, <1>6, Constants DEF OpenInRing
<1> QED BY <1>1, <1>7, <1>8 DEF SegmentsAreExact, Samples

LEMMA DiscardStep ==
    ASSUME SessionInv, SegmentsAreExact, Discard
    PROVE  Progress' /\ OpenInRing' /\ SegmentsAreExact'
<1>1. /\ pc = "classifying" /\ total' = total /\ capacity' = capacity
      /\ segStart' = segStart /\ segEnd' = segEnd /\ Flush /\ AfterWindow(classified)
  BY DEF Discard, buffer
<1>2. SegmentsAreExact' /\ open' \in BOOLEAN /\ ~open'
  BY <1>1, FlushExact
<1>3. /\ total \in Nat /\ classified \in Nat /\ segStart \in Nat /\ segEnd \in Nat
      /\ classified <= total /\ total - classified < MaxAppend /\ capacity = Capacity
      /\ WindowLen <= classified
  BY <1>1 DEF SessionInv, Progress, OpenInRing, BufferTypeOK
<1>4. \/ /\ pc' = "classifying" /\ classified' = classified + WindowLen
         /\ classified' <= total' /\ total' - classified' < MaxAppend
      \/ /\ pc' \in {"ended", "streaming"} /\ classified' = classified
         /\ total' - classified' < WindowLen
  BY <1>1, <1>3, Constants, AfterWindowStep
<1>5. Progress'
  BY <1>1, <1>2, <1>3, <1>4, Constants DEF Progress, Awaits
<1>6. OpenInRing'
  BY <1>1, <1>2, <1>3, <1>4, Constants DEF OpenInRing
<1> QED BY <1>2, <1>5, <1>6

\* Where the segment starts that a kept window belongs to.
SegmentStart == IF open THEN segStart ELSE LeadStart(classified - WindowLen)

LEMMA SegmentStartInRing ==
    ASSUME SessionInv, pc = "classifying"
    PROVE  /\ SegmentStart \in Nat /\ Floor <= SegmentStart /\ SegmentStart < classified
           /\ total - SegmentStart <= Capacity
<1>1. /\ total \in Nat /\ classified \in Nat /\ segStart \in Nat /\ segEnd \in Nat
      /\ classified <= total /\ total - classified < MaxAppend /\ capacity = Capacity
      /\ WindowLen <= classified /\ open \in BOOLEAN
  BY DEF SessionInv, Progress, OpenInRing, BufferTypeOK
<1>2. Floor \in Nat /\ total - Floor <= Capacity /\ Floor < classified
  BY <1>1, Constants DEF Floor
<1>3. CASE open
  <2>1. segEnd = classified - WindowLen /\ segStart <= segEnd /\ segEnd - segStart < Chunk
    BY <1>3 DEF SessionInv, OpenInRing
  <2>2. SegmentStart = segStart
    BY <1>3 DEF SegmentStart
  <2>3. total - segStart <= Capacity /\ segStart < classified
    BY <1>1, <2>1, Constants
  <2>4. Floor <= segStart
    BY <1>1, <2>3, Constants DEF Floor
  <2> QED BY <1>1, <2>2, <2>3, <2>4
<1>4. CASE ~open
  <2> DEFINE wanted == classified - WindowLen - Lead
  <2>1. SegmentStart = IF Floor > wanted THEN Floor ELSE wanted
    BY <1>4 DEF SegmentStart, LeadStart, Later
  <2>2. wanted \in Int /\ wanted < classified
    BY <1>1, Constants
  <2> HIDE DEF wanted
  <2>3. SegmentStart \in Nat /\ Floor <= SegmentStart /\ SegmentStart < classified
    <3>1. CASE Floor > wanted
      BY <1>2, <2>1, <3>1
    <3>2. CASE ~(Floor > wanted)
      BY <1>2, <2>1, <2>2, <3>2
    <3> QED BY <3>1, <3>2
  <2> QED BY <1>1, <1>2, <2>3, Constants
<1> QED BY <1>1, <1>3, <1>4

LEMMA KeepStep ==
    ASSUME SessionInv, SegmentsAreExact, NEW class \in Classes, Keep(class)
    PROVE  Progress' /\ OpenInRing' /\ SegmentsAreExact'
<1> DEFINE from == SegmentStart
           full == classified - from >= Chunk
<1>1. /\ pc = "classifying" /\ total' = total /\ capacity' = capacity
      /\ segStart' = from /\ segEnd' = classified /\ open' = ~full
  BY DEF Keep, buffer, SegmentStart
<1>2. /\ from \in Nat /\ Floor <= from /\ from < classified /\ total - from <= Capacity
  BY <1>1, SegmentStartInRing
<1>3. /\ total \in Nat /\ classified \in Nat /\ capacity = Capacity
      /\ classified <= total /\ total - classified < MaxAppend /\ WindowLen <= classified
  BY <1>1 DEF SessionInv, Progress, OpenInRing, BufferTypeOK
<1>4. CASE full
  <2>1. Emit(from, classified, Cautious(class)) /\ pc' = "emitting" /\ classified' = classified
    BY <1>4 DEF Keep, SegmentStart
  <2> HIDE DEF from, full
  <2>2. SegmentsAreExact'
    <3>1. capacity > 0 /\ BufferTypeOK /\ Faithful
      BY <1>3, Constants DEF SessionInv
    <3> QED BY <1>2, <1>3, <2>1, <3>1, EmitExact
  <2>3. Progress'
    BY <1>1, <1>2, <1>3, <1>4, <2>1, Constants DEF Progress, Awaits
  <2>4. OpenInRing'
    BY <1>1, <1>2, <1>3, <1>4, <2>1 DEF OpenInRing
  <2> QED BY <2>2, <2>3, <2>4
<1>5. CASE ~full
  <2>1. AfterWindow(classified) /\ sent' = sent
    BY <1>5 DEF Keep, SegmentStart
  <2>2. classified - from < Chunk
    BY <1>2, <1>3, <1>5, Constants
  <2>3. \/ /\ pc' = "classifying" /\ classified' = classified + WindowLen
           /\ classified' <= total' /\ total' - classified' < MaxAppend
        \/ /\ pc' \in {"ended", "streaming"} /\ classified' = classified
           /\ total' - classified' < WindowLen
    BY <1>1, <1>3, <2>1, Constants, AfterWindowStep
  <2> HIDE DEF from, full
  <2>4. Progress'
    BY <1>1, <1>2, <1>3, <2>3, Constants DEF Progress, Awaits
  <2>5. OpenInRing'
    BY <1>1, <1>2, <1>3, <2>2, <2>3, Constants DEF OpenInRing
  <2> QED BY <2>1, <2>4, <2>5 DEF SegmentsAreExact, Samples
<1> QED BY <1>4, <1>5

LEMMA ReopenStep ==
    ASSUME SessionInv, SegmentsAreExact, Reopen_Segment
    PROVE  Progress' /\ OpenInRing' /\ SegmentsAreExact'
<1>1. /\ pc = "emitting" /\ total' = total /\ capacity' = capacity /\ open' = TRUE
      /\ segStart' = OverlapStart /\ segEnd' = segEnd /\ sent' = sent
      /\ AfterWindow(classified)
  BY DEF Reopen_Segment, buffer
<1>2. /\ total \in Nat /\ classified \in Nat /\ segEnd = classified /\ capacity = Capacity
      /\ classified <= total /\ total - classified < MaxAppend
  BY <1>1 DEF SessionInv, Progress, OpenInRing, BufferTypeOK
<1>3. Floor \in Nat /\ Floor <= classified
  BY <1>2, Constants DEF Floor
<1>4. OverlapStart \in Nat /\ OverlapStart <= segEnd /\ segEnd - OverlapStart < Chunk
  <2>1. OverlapStart = IF Floor > segEnd - Overlap THEN Floor ELSE segEnd - Overlap
    BY DEF OverlapStart, Later
  <2> QED BY <1>2, <1>3, <2>1, Constants
<1>5. \/ /\ pc' = "classifying" /\ classified' = classified + WindowLen
         /\ classified' <= total' /\ total' - classified' < MaxAppend
      \/ /\ pc' \in {"ended", "streaming"} /\ classified' = classified
         /\ total' - classified' < WindowLen
  BY <1>1, <1>2, Constants, AfterWindowStep
<1>6. Progress'
  BY <1>1, <1>2, <1>4, <1>5, Constants DEF Progress, Awaits
<1>7. OpenInRing'
  BY <1>1, <1>2, <1>4, <1>5, Constants DEF OpenInRing
<1> QED BY <1>1, <1>6, <1>7 DEF SegmentsAreExact, Samples

\* The end of a connection and of the session.
LEMMA DisconnectStep ==
    ASSUME SessionInv, SegmentsAreExact, Disconnect
    PROVE  Progress' /\ OpenInRing' /\ SegmentsAreExact'
<1>1. /\ pc = "ended" /\ total' = total /\ capacity' = capacity /\ classified' = classified
      /\ segStart' = segStart /\ segEnd' = segEnd
  BY DEF Disconnect, buffer
<1>2. CASE stop
  <2>1. pc' = "stopping" /\ open' = open /\ sent' = sent
    BY <1>2 DEF Disconnect
  <2> QED BY <1>1, <2>1 DEF SessionInv, Progress, OpenInRing, Awaits, SegmentsAreExact, Samples
<1>3. CASE ~stop
  <2>1. pc' = "backoff" /\ Flush
    BY <1>3 DEF Disconnect
  <2>2. SegmentsAreExact' /\ open' \in BOOLEAN /\ ~open'
    BY <1>1, <2>1, FlushExact
  <2>3. Progress'
    BY <1>1, <2>1, <2>2 DEF SessionInv, Progress, Awaits
  <2>4. OpenInRing'
    BY <1>1, <2>1, <2>2 DEF OpenInRing
  <2> QED BY <2>2, <2>3, <2>4
<1> QED BY <1>2, <1>3

LEMMA ReconnectStep ==
    ASSUME SessionInv, SegmentsAreExact, Reconnect
    PROVE  Progress' /\ OpenInRing' /\ SegmentsAreExact'
<1>1. /\ pc = "backoff" /\ segStart' = segStart /\ segEnd' = segEnd /\ sent' = sent /\ ~open
  BY DEF Reconnect, SessionInv, OpenInRing
<1>2. SegmentsAreExact'
  BY <1>1 DEF SegmentsAreExact, Samples
<1>3. CASE stop
  <2>1. /\ pc' = "stopping" /\ open' = open /\ classified' = classified
        /\ total' = total /\ capacity' = capacity
    BY <1>3 DEF Reconnect, buffer
  <2> QED BY <1>1, <1>2, <2>1 DEF SessionInv, Progress, OpenInRing, Awaits
<1>4. CASE ~stop
  <2>1. /\ pc' = "connecting" /\ open' = FALSE /\ classified' = 0
        /\ total' = 0 /\ capacity' = capacity
    BY <1>4 DEF Reconnect, NewGeneration, Reset
  <2>2. open' \in BOOLEAN /\ ~open'
    BY <2>1
  <2>3. total' - classified' < WindowLen /\ classified' <= total' /\ classified' \in Nat
    BY <2>1, Constants
  <2>4. Progress'
    BY <1>1, <2>1, <2>2, <2>3 DEF SessionInv, Progress, Awaits
  <2>5. OpenInRing'
    BY <1>1, <2>1, <2>2 DEF OpenInRing
  <2> QED BY <1>2, <2>4, <2>5
<1> QED BY <1>3, <1>4

LEMMA ShutdownStep ==
    ASSUME SessionInv, SegmentsAreExact, Shutdown
    PROVE  Progress' /\ OpenInRing' /\ SegmentsAreExact'
<1>1. /\ pc = "stopping" /\ Flush /\ pc' = "stopped" /\ classified' = classified
      /\ segStart' = segStart /\ segEnd' = segEnd
  BY DEF Shutdown
<1>2. SegmentsAreExact' /\ open' \in BOOLEAN /\ ~open'
  BY <1>1, FlushExact
<1>3. Progress'
  BY <1>1, <1>2 DEF SessionInv, Progress, Awaits
<1>4. OpenInRing'
  BY <1>1, <1>2 DEF OpenInRing
<1> QED BY <1>2, <1>3, <1>4

\* Steps that only move the session on.
LEMMA OtherSteps ==
    ASSUME SessionInv, SegmentsAreExact,
           Connected \/ StreamEnds \/ RequestStop \/ Cancel \/ UNCHANGED vars
    PROVE  Progress' /\ OpenInRing' /\ SegmentsAreExact'
<1>1. /\ total' = total /\ capacity' = capacity /\ open' = open /\ classified' = classified
      /\ segStart' = segStart /\ segEnd' = segEnd /\ sent' = sent
  BY DEF Connected, StreamEnds, RequestStop, Cancel, vars, session, buffer
<1>2. \/ pc = "connecting" /\ pc' \in {"ended", "streaming"}
      \/ pc \in {"connecting", "streaming", "classifying"} /\ pc' = "ended"
      \/ pc \in Awaits /\ pc' = "stopping"
      \/ pc' = pc
  BY DEF Connected, StreamEnds, RequestStop, Cancel, vars, session
<1>3. Progress'
  BY <1>1, <1>2 DEF SessionInv, Progress, Awaits
<1>4. OpenInRing'
  BY <1>1, <1>2 DEF SessionInv, OpenInRing, Awaits
<1> QED BY <1>1, <1>3, <1>4 DEF SegmentsAreExact, Samples

LEMMA SessionStep ==
    ASSUME SessionInv, SegmentsAreExact, [Next]_vars
    PROVE  SessionInv' /\ SegmentsAreExact'
<1>1. (BufferTypeOK /\ Faithful)'
  BY BufferPreserved
<1>2. Progress' /\ OpenInRing' /\ SegmentsAreExact'
  <2>1. ASSUME NEW n \in 1 .. MaxAppend, ReadAudio(n)
        PROVE  Progress' /\ OpenInRing' /\ SegmentsAreExact'
    BY <2>1, ReadAudioStep
  <2>2. ASSUME NEW class \in Classes, Keep(class)
        PROVE  Progress' /\ OpenInRing' /\ SegmentsAreExact'
    BY <2>2, KeepStep
  <2>3. CASE Discard
    BY <2>3, DiscardStep
  <2>4. CASE Reopen_Segment
    BY <2>4, ReopenStep
  <2>5. CASE Disconnect
    BY <2>5, DisconnectStep
  <2>6. CASE Reconnect
    BY <2>6, ReconnectStep
  <2>7. CASE Shutdown
    BY <2>7, ShutdownStep
  <2>8. CASE Connected \/ StreamEnds \/ RequestStop \/ Cancel \/ UNCHANGED vars
    BY <2>8, OtherSteps
  <2> QED BY <2>1, <2>2, <2>3, <2>4, <2>5, <2>6, <2>7, <2>8 DEF Next
<1> QED BY <1>1, <1>2 DEF SessionInv

LEMMA SessionInit ==
    ASSUME Init
    PROVE  SessionInv /\ SegmentsAreExact
<1>1. BufferTypeOK /\ Faithful
  BY BufferAssumption, InitInv DEF Init, BufferInv
<1>2. /\ pc = "connecting" /\ open = FALSE /\ classified = 0 /\ segStart = 0 /\ segEnd = 0
      /\ total = 0 /\ capacity = Capacity /\ sent = {}
  BY DEF Init, BufferInit
<1>3. open \in BOOLEAN /\ ~open
  BY <1>2
<1>4. total - classified < WindowLen /\ classified <= total
  BY <1>2, Constants
<1>5. Progress
  BY <1>2, <1>3, <1>4 DEF Progress, Awaits
<1>6. OpenInRing
  BY <1>2, <1>3 DEF OpenInRing
<1>7. SegmentsAreExact
  BY <1>2 DEF SegmentsAreExact
<1> QED BY <1>1, <1>5, <1>6, <1>7 DEF SessionInv

(* Every segment a session hands over is, sample for sample, the audio of    *)
(* one connection between its bounds, whatever is decided of its windows,    *)
(* wherever the stream breaks and whenever the session is stopped or         *)
(* cancelled; in between, the ring stays faithful.                           *)
THEOREM ExactSegments == Spec => [](Faithful /\ SegmentsAreExact)
<1>1. Init => SessionInv /\ SegmentsAreExact
  BY SessionInit
<1>2. SessionInv /\ SegmentsAreExact /\ [Next]_vars => SessionInv' /\ SegmentsAreExact'
  BY SessionStep
<1>3. SessionInv => Faithful
  BY DEF SessionInv
<1> QED BY <1>1, <1>2, <1>3, PTL DEF Spec

(* A session uses its ring as a ring: it implements BufferSpec, so that what *)
(* is proved of the buffer holds of the session's.                           *)
THEOREM SessionImplementsBuffer == Spec => BufferSpec
<1>1. Init => BufferInit
  BY DEF Init
<1>2. SessionInv /\ [Next]_vars => [BufferNext]_buffer
  BY BufferSteps
<1>3. Spec => []SessionInv
  <2>1. Init => SessionInv /\ SegmentsAreExact
    BY SessionInit
  <2>2. SessionInv /\ SegmentsAreExact /\ [Next]_vars => SessionInv' /\ SegmentsAreExact'
    BY SessionStep
  <2> QED BY <2>1, <2>2, PTL DEF Spec
<1> QED BY <1>1, <1>2, <1>3, PTL DEF Spec, BufferSpec

-----------------------------------------------------------------------------
(* What was said survives.  Up to where the windows of this connection have  *)
(* been decided, each sample that is kept is in a segment; the open segment  *)
(* ends there, and it reaches back over the kept samples before its end as   *)
(* far as the overlap does.                                                  *)

Going == {"connecting", "streaming", "classifying", "emitting"}
Decided == IF pc = "classifying" THEN classified - WindowLen ELSE classified

KeptTyped == \A w \in kept : w \in Nat \X Nat \X Classes /\ w[1] <= generation

\* Windows do not overlap: the last one ends where it was decided last, any
\* other at least a window before.
WindowsBehind ==
    \A w \in kept : w[1] = generation =>
        /\ w[2] + WindowLen <= Decided
        /\ pc \in Going => w[2] + WindowLen = Decided \/ w[2] + 2 * WindowLen <= Decided

\* A segment is open exactly while the last window was kept.
OpenWhileKept ==
    /\ pc \in Going \ {"emitting"} /\ SampleKept(generation, Decided - 1) => open
    /\ pc \in Going /\ (open \/ pc = "emitting") => SampleKept(generation, Decided - 1)

ReachesBack ==
    open => \A a \in Nat :
                /\ a >= segEnd - Overlap /\ a < segEnd
                /\ \A x \in a .. segEnd - 1 : SampleKept(generation, x)
                => segStart <= a

PieceInv == KeptTyped /\ WindowsBehind /\ OpenWhileKept /\ ReachesBack /\ InOnePiece

\* A segment that was handed over is behind what is still to be decided, and the
\* label of the open one is that of the most doubtful window inside it, also while
\* it is handed over, because the next one takes the label on.
SentBehind ==
    /\ open => segEnd <= Decided
    /\ pc = "emitting" => segEnd - segStart >= Chunk
    /\ \A s \in sent : /\ s.generation \in Nat /\ s.generation <= generation /\ s.to \in Nat
                       /\ s.generation = generation => s.to <= Decided

LabelCovers ==
    open \/ pc = "emitting" =>
        \A w \in kept : /\ w[1] = generation /\ w[3] = "speech_over_music"
                        /\ segStart <= w[2] /\ w[2] + WindowLen <= segEnd
                        => label = "speech_over_music"

LabelInv == SentBehind /\ LabelCovers /\ CautiousLabel

LEMMA SampleIs ==
    ASSUME KeptTyped, NEW g, NEW a \in Int
    PROVE  SampleKept(g, a) <=> \E w \in kept : w[1] = g /\ w[2] <= a /\ a < w[2] + WindowLen
<1>1. WindowLen \in Nat /\ WindowLen > 0
  BY Constants
<1>2. ASSUME SampleKept(g, a)
      PROVE  \E w \in kept : w[1] = g /\ w[2] <= a /\ a < w[2] + WindowLen
  <2>1. PICK d \in 0 .. WindowLen - 1, class \in Classes : <<g, a - d, class>> \in kept
    BY <1>2 DEF SampleKept, WindowKept
  <2>2. PICK w \in kept : w = <<g, a - d, class>>
    BY <2>1
  <2>3. w[1] = g /\ w[2] = a - d
    BY <2>2
  <2> QED BY <1>1, <2>1, <2>3
<1>3. ASSUME NEW w \in kept, w[1] = g, w[2] <= a, a < w[2] + WindowLen
      PROVE  SampleKept(g, a)
  <2>1. w[2] \in Nat /\ w[3] \in Classes /\ w = <<g, w[2], w[3]>>
    BY <1>3 DEF KeptTyped
  <2>2. PICK d \in Int : d = a - w[2]
    BY <2>1
  <2>3. d \in 0 .. WindowLen - 1 /\ a - d = w[2]
    BY <1>1, <1>3, <2>1, <2>2
  <2>4. <<g, a - d, w[3]>> \in kept
    BY <2>1, <2>3, <1>3
  <2> QED BY <2>1, <2>3, <2>4 DEF SampleKept, WindowKept
<1> QED BY <1>2, <1>3

LEMMA SameSamples ==
    ASSUME UNCHANGED kept, NEW g, NEW a
    PROVE  SampleKept(g, a)' <=> SampleKept(g, a)
BY DEF SampleKept, WindowKept

\* Past what was decided nothing is kept yet.
LEMMA NoSampleAhead ==
    ASSUME KeptTyped, WindowsBehind, Decided \in Int, NEW a \in Int, a >= Decided
    PROVE  ~SampleKept(generation, a)
<1>1. WindowLen \in Nat
  BY Constants
<1> SUFFICES ASSUME NEW w \in kept, w[1] = generation, w[2] <= a, a < w[2] + WindowLen
             PROVE  FALSE
  BY SampleIs
<1>2. w[2] \in Nat /\ w[2] + WindowLen <= Decided
  BY DEF KeptTyped, WindowsBehind
<1> QED BY <1>1, <1>2

LEMMA DecidedIs ==
    ASSUME SessionInv
    PROVE  /\ Decided \in Int /\ Decided <= classified
           /\ generation \in Nat /\ segStart \in Nat /\ segEnd \in Nat /\ classified \in Nat
           /\ WindowLen \in Nat /\ WindowLen > 0
<1>1. classified \in Nat /\ WindowLen \in Nat /\ WindowLen > 0
  BY Constants DEF SessionInv, Progress
<1>2. Decided \in Int /\ Decided <= classified
  BY <1>1 DEF Decided
<1> QED BY <1>1, <1>2 DEF SessionInv, Progress, BufferTypeOK

\* The loop over the ready windows goes on from where it is.
LEMMA AfterWindowDecides ==
    ASSUME NEW to \in Nat, AfterWindow(to)
    PROVE  Decided' = to /\ pc' \in {"classifying", "ended", "streaming"}
<1>1. WindowLen \in Nat
  BY Constants
<1>2. CASE total' - to >= WindowLen
  <2>1. pc' = "classifying" /\ classified' = to + WindowLen
    BY <1>2 DEF AfterWindow
  <2>2. Decided' = classified' - WindowLen
    BY <2>1 DEF Decided
  <2>3. PICK k \in Nat : k = to + WindowLen
    BY <1>1
  <2>4. k - WindowLen = to
    BY <1>1, <2>3
  <2> QED BY <2>1, <2>2, <2>3, <2>4
<1>3. CASE ~(total' - to >= WindowLen)
  <2>1. pc' \in {"ended", "streaming"} /\ classified' = to
    BY <1>3 DEF AfterWindow
  <2> QED BY <2>1 DEF Decided
<1> QED BY <1>2, <1>3

-----------------------------------------------------------------------------
\* What a step does to all this.

\* It moves the session on and leaves the segment alone.
Moves ==
    /\ UNCHANGED <<kept, generation, open, segStart, segEnd, label, sent>>
    /\ Decided' \in Int /\ Decided' >= Decided
    /\ pc' \in Going => /\ pc \in Going /\ Decided' = Decided
                        /\ pc' = "emitting" <=> pc = "emitting"
    /\ pc' = "emitting" => pc = "emitting"

\* It hands the open segment over.
Flushes ==
    /\ UNCHANGED <<kept, generation, segStart, segEnd, label>>
    /\ Flush /\ ~open'
    /\ Decided' \in Int /\ Decided' >= Decided
    /\ pc' # "emitting"
    /\ pc' \in Going => pc \in Going /\ Decided' = Decided + WindowLen

LEMMA StepMoves ==
    ASSUME SessionInv, NEW n, \/ Connected \/ StreamEnds \/ RequestStop \/ Cancel
                              \/ ReadAudio(n)
                              \/ stop /\ (Disconnect \/ Reconnect)
                              \/ UNCHANGED vars
    PROVE  Moves
<1>1. /\ Decided \in Int /\ Decided <= classified /\ classified \in Nat
  BY DecidedIs
<1>2. CASE Connected
  BY <1>1, <1>2 DEF Connected, Moves, Decided, Going, buffer
<1>3. CASE StreamEnds
  BY <1>1, <1>3 DEF StreamEnds, Moves, Decided, Going, buffer
<1>4. CASE RequestStop
  BY <1>1, <1>4 DEF RequestStop, Moves, Decided, Going, buffer
<1>5. CASE Cancel
  BY <1>1, <1>5 DEF Cancel, Moves, Decided, Going, buffer
<1>6. CASE ReadAudio(n)
  <2>1. pc = "streaming" /\ AfterWindow(classified)
        /\ UNCHANGED <<kept, generation, open, segStart, segEnd, label, sent>>
    BY <1>6 DEF ReadAudio, Append_
  <2>2. Decided' = classified /\ pc' \in {"classifying", "ended", "streaming"}
    BY <1>1, <2>1, AfterWindowDecides
  <2>3. Decided = classified
    BY <2>1 DEF Decided
  <2> QED BY <1>1, <2>1, <2>2, <2>3 DEF Moves, Going
<1>7. CASE stop /\ (Disconnect \/ Reconnect)
  BY <1>1, <1>7 DEF Disconnect, Reconnect, Moves, Decided, Going, buffer
<1>8. CASE UNCHANGED vars
  BY <1>1, <1>8 DEF vars, session, buffer, Moves, Decided, Going
<1> QED BY <1>2, <1>3, <1>4, <1>5, <1>6, <1>7, <1>8

LEMMA StepFlushes ==
    ASSUME SessionInv, Discard \/ (~stop /\ Disconnect) \/ Shutdown
    PROVE  Flushes /\ pc # "stopped"
<1>1. /\ Decided \in Int /\ Decided <= classified /\ classified \in Nat
      /\ WindowLen \in Nat
  BY DecidedIs
<1>2. CASE Discard
  <2>1. pc = "classifying" /\ AfterWindow(classified) /\ Flush
        /\ UNCHANGED <<kept, generation, segStart, segEnd, label>>
    BY <1>2 DEF Discard, buffer
  <2>2. Decided' = classified /\ pc' \in {"classifying", "ended", "streaming"}
    BY <1>1, <2>1, AfterWindowDecides
  <2>3. Decided = classified - WindowLen
    BY <2>1 DEF Decided
  <2>4. ~open'
    BY <2>1 DEF Flush
  <2>5. Decided' \in Int /\ Decided' >= Decided /\ Decided' = Decided + WindowLen
    BY <1>1, <2>2, <2>3
  <2> QED BY <2>1, <2>2, <2>4, <2>5 DEF Flushes, Going
<1>3. CASE ~stop /\ Disconnect
  BY <1>1, <1>3 DEF Disconnect, Flush, Flushes, Decided, Going, buffer
<1>4. CASE Shutdown
  BY <1>1, <1>4 DEF Shutdown, Flush, Clear, Flushes, Decided, Going
<1> QED BY <1>2, <1>3, <1>4

-----------------------------------------------------------------------------
\* What is handed over is in a segment for good.

LEMMA EmitSends ==
    ASSUME BufferTypeOK, Faithful, capacity > 0,
           NEW from \in Nat, NEW to \in Nat, NEW class,
           Floor <= from, to <= total, Emit(from, to, class)
    PROVE  \/ ~(from < to) /\ sent' = sent
           \/ /\ from < to
              /\ \E s : /\ sent' = sent \cup {s}
                        /\ s.generation = generation /\ s.from = from /\ s.to = to
                        /\ s.label = class
<1>1. CASE to <= from
  BY <1>1 DEF Emit
<1>2. CASE ~(to <= from)
  <2>1. total \in Nat /\ Floor \in Nat
    BY DEF BufferTypeOK, Floor
  <2>2. WindowFrom(from) = from /\ WindowTo(to) = to
    BY <2>1 DEF WindowFrom, WindowTo
  <2>3. Window(from, to) = Samples(generation, from, to)
    BY <1>2, <2>2, ReadIsExact DEF Window
  <2>4. Window(from, to) # << >>
    <3>1. Samples(generation, from, to) # << >>
      <4>1. PICK n \in Nat \ {0} : n = to - from
        BY <1>2
      <4>2. Samples(generation, from, to) = [j \in 1 .. n |-> <<generation, from + j - 1>>]
        BY <4>1 DEF Samples
      <4>3. 1 \in DOMAIN [j \in 1 .. n |-> <<generation, from + j - 1>>]
        BY <4>1
      <4>4. DOMAIN << >> = {}
        OBVIOUS
      <4> QED BY <4>2, <4>3, <4>4
    <3> QED BY <2>3, <3>1
  <2>5. PICK s : s = [generation |-> generation, from |-> from, to |-> to,
                      pcm |-> Window(from, to), label |-> class]
    OBVIOUS
  <2>6. sent' = sent \cup {s}
    BY <1>2, <2>4, <2>5 DEF Emit
  <2>7. s.generation = generation /\ s.from = from /\ s.to = to /\ s.label = class
    BY <2>5
  <2> QED BY <1>2, <2>6, <2>7
<1> QED BY <1>1, <1>2

LEMMA FlushSends ==
    ASSUME SessionInv, pc # "stopped", Flush
    PROVE  \/ (~open \/ ~(segStart < segEnd)) /\ sent' = sent
           \/ /\ open /\ segStart < segEnd
              /\ \E s : /\ sent' = sent \cup {s}
                        /\ s.generation = generation /\ s.from = segStart /\ s.to = segEnd
                        /\ s.label = label
<1>1. CASE open
  <2>1. Emit(segStart, segEnd, label)
    BY <1>1 DEF Flush
  <2>2. capacity = Capacity /\ total \in Nat /\ segStart \in Nat /\ segEnd \in Nat
    BY DEF SessionInv, Progress, BufferTypeOK
  <2>3. /\ segEnd <= total /\ segEnd - segStart < Chunk
        /\ total - segEnd < WindowLen + MaxAppend
    BY <1>1 DEF SessionInv, OpenInRing
  <2>4. capacity > 0 /\ Floor <= segStart
    BY <2>2, <2>3, Constants DEF Floor
  <2>5. BufferTypeOK /\ Faithful
    BY DEF SessionInv
  <2> QED BY <1>1, <2>1, <2>2, <2>3, <2>4, <2>5, EmitSends
<1>2. CASE ~open
  BY <1>2 DEF Flush
<1> QED BY <1>1, <1>2

\* No piece that was in one segment is torn apart.
LEMMA PiecesStay ==
    ASSUME SessionInv, sent \subseteq sent',
           \/ ~open
           \/ /\ open' /\ UNCHANGED <<generation, segStart>>
              /\ segEnd' \in Nat /\ segEnd <= segEnd'
           \/ \E s \in sent' : s.generation = generation /\ s.from = segStart
                               /\ s.to \in Nat /\ segEnd <= s.to
           \/ ~(segStart < segEnd)
    PROVE  \A g, a, b \in Nat : a < b /\ InOneSegment(g, a, b) => InOneSegment(g, a, b)'
<1> SUFFICES ASSUME NEW g \in Nat, NEW a \in Nat, NEW b \in Nat, a < b, InOneSegment(g, a, b)
             PROVE  InOneSegment(g, a, b)'
  OBVIOUS
<1>1. CASE \E s \in sent : s.generation = g /\ s.from <= a /\ b <= s.to
  BY <1>1 DEF InOneSegment
<1>2. CASE open /\ generation = g /\ segStart <= a /\ b <= segEnd
  <2>1. segStart \in Nat /\ segEnd \in Nat /\ segStart < segEnd
    BY <1>2, DecidedIs
  <2>2. CASE open' /\ UNCHANGED <<generation, segStart>> /\ segEnd' \in Nat /\ segEnd <= segEnd'
    <3>1. b <= segEnd'
      BY <1>2, <2>1, <2>2
    <3> QED BY <1>2, <2>2, <3>1 DEF InOneSegment
  <2>3. ASSUME NEW s \in sent', s.generation = generation, s.from = segStart,
               s.to \in Nat, segEnd <= s.to
        PROVE  InOneSegment(g, a, b)'
    <3>1. s.from <= a /\ b <= s.to
      BY <1>2, <2>1, <2>3
    <3> QED BY <1>2, <2>3, <3>1 DEF InOneSegment
  <2> QED BY <1>2, <2>1, <2>2, <2>3
<1> QED BY <1>1, <1>2 DEF InOneSegment

\* What a window is promised: each run of kept samples that starts in it, and its
\* lead when it comes first.
RunKept(g, a, b) == \A x \in a .. b - 1 : SampleKept(g, x)
RunsWhole(w) ==
    \A a \in w[2] .. w[2] + WindowLen - 1 :
        RunKept(w[1], a, a + Overlap + 1) => InOneSegment(w[1], a, a + Overlap + 1)
LeadWhole(w) ==
    ~SampleKept(w[1], w[2] - 1) => InOneSegment(w[1], Later(0, w[2] - Lead), w[2] + 1)

LEMMA OnePieceIs ==
    /\ InOnePiece <=> \A w \in kept : RunsWhole(w) /\ LeadWhole(w)
    /\ InOnePiece' <=> \A w \in kept' : RunsWhole(w)' /\ LeadWhole(w)'
<1>1. InOnePiece <=> \A w \in kept : RunsWhole(w) /\ LeadWhole(w)
  BY Zenon DEF InOnePiece, RunsWhole, LeadWhole, RunKept
<1>2. InOnePiece' <=> \A w \in kept' : RunsWhole(w)' /\ LeadWhole(w)'
  BY Zenon DEF InOnePiece, RunsWhole, LeadWhole, RunKept
<1> QED BY <1>1, <1>2

\* A window whose runs are no longer than they were keeps what it was promised.
LEMMA WindowStays ==
    ASSUME KeptTyped, NEW w \in kept, RunsWhole(w), LeadWhole(w),
           \A a \in w[2] .. w[2] + WindowLen - 1 :
               RunKept(w[1], a, a + Overlap + 1)' => RunKept(w[1], a, a + Overlap + 1),
           ~SampleKept(w[1], w[2] - 1)' => ~SampleKept(w[1], w[2] - 1),
           \A g, a, b \in Nat : a < b /\ InOneSegment(g, a, b) => InOneSegment(g, a, b)'
    PROVE  RunsWhole(w)' /\ LeadWhole(w)'
<1>1. w[1] \in Nat /\ w[2] \in Nat /\ WindowLen \in Nat /\ Overlap \in Nat /\ Lead \in Nat
  BY Constants DEF KeptTyped
<1>2. ASSUME NEW a \in w[2] .. w[2] + WindowLen - 1,
             RunKept(w[1], a, a + Overlap + 1)'
      PROVE  InOneSegment(w[1], a, a + Overlap + 1)'
  <2>1. InOneSegment(w[1], a, a + Overlap + 1)
    BY <1>2 DEF RunsWhole
  <2>2. a \in Nat
    BY <1>1, <1>2
  <2>3. PICK b \in Nat : b = a + Overlap + 1 /\ a < b
    BY <1>1, <2>2
  <2> QED BY <1>1, <2>1, <2>2, <2>3
<1>3. ASSUME ~SampleKept(w[1], w[2] - 1)'
      PROVE  InOneSegment(w[1], Later(0, w[2] - Lead), w[2] + 1)'
  <2>1. InOneSegment(w[1], Later(0, w[2] - Lead), w[2] + 1)
    BY <1>3 DEF LeadWhole
  <2>2. PICK a \in Nat : a = Later(0, w[2] - Lead) /\ a < w[2] + 1
    BY <1>1 DEF Later
  <2>3. PICK b \in Nat : b = w[2] + 1
    BY <1>1
  <2>4. InOneSegment(w[1], a, b)
    BY <2>1, <2>2, <2>3
  <2>5. InOneSegment(w[1], a, b)'
    BY <1>1, <2>2, <2>3, <2>4
  <2> QED BY <2>2, <2>3, <2>5
<1> QED BY <1>2, <1>3, Zenon DEF RunsWhole, LeadWhole

\* With the windows nothing changes but the segments they are in.
LEMMA OnePieceStays ==
    ASSUME KeptTyped, InOnePiece, UNCHANGED kept,
           \A g, a, b \in Nat : a < b /\ InOneSegment(g, a, b) => InOneSegment(g, a, b)'
    PROVE  InOnePiece'
<1> SUFFICES ASSUME NEW w \in kept
             PROVE  RunsWhole(w)' /\ LeadWhole(w)'
  BY OnePieceIs
<1>1. RunsWhole(w) /\ LeadWhole(w)
  BY OnePieceIs
<1>2. \A g, a, b : RunKept(g, a, b)' => RunKept(g, a, b)
  BY SameSamples DEF RunKept
<1>3. ~SampleKept(w[1], w[2] - 1)' => ~SampleKept(w[1], w[2] - 1)
  BY SameSamples
<1> QED BY <1>1, <1>2, <1>3, WindowStays

-----------------------------------------------------------------------------
\* Steps that keep no window.

LEMMA MovesInOnePiece ==
    ASSUME SessionInv, PieceInv, Moves
    PROVE  PieceInv'
<1>1. /\ Decided \in Int /\ generation \in Nat /\ segStart \in Nat /\ segEnd \in Nat
      /\ WindowLen \in Nat
  BY DecidedIs
<1>2. KeptTyped'
  BY DEF PieceInv, KeptTyped, Moves
<1>3. WindowsBehind'
  <2> SUFFICES ASSUME NEW w \in kept, w[1] = generation
               PROVE  /\ w[2] + WindowLen <= Decided'
                      /\ pc' \in Going => \/ w[2] + WindowLen = Decided'
                                          \/ w[2] + 2 * WindowLen <= Decided'
    BY DEF WindowsBehind, Moves
  <2>1. w[2] \in Nat /\ w[2] + WindowLen <= Decided
    BY DEF PieceInv, KeptTyped, WindowsBehind
  <2>2. w[2] + WindowLen <= Decided'
    BY <1>1, <2>1 DEF Moves
  <2>3. pc' \in Going => w[2] + WindowLen = Decided' \/ w[2] + 2 * WindowLen <= Decided'
    BY DEF PieceInv, WindowsBehind, Moves
  <2> QED BY <2>2, <2>3
<1>4. OpenWhileKept'
  <2>1. \A a : SampleKept(generation, a)' <=> SampleKept(generation, a)
    BY DEF SampleKept, WindowKept, Moves
  <2>2. pc' \in Going => /\ pc \in Going /\ Decided' = Decided /\ open' = open
                         /\ pc' = "emitting" <=> pc = "emitting"
    BY DEF Moves
  <2>3. OpenWhileKept
    BY DEF PieceInv
  <2> QED BY <2>1, <2>2, <2>3 DEF OpenWhileKept
<1>5. ReachesBack'
  BY SameSamples DEF PieceInv, ReachesBack, Moves, SampleKept, WindowKept
<1>6. InOnePiece'
  <2>1. \A g, a, b \in Nat : a < b /\ InOneSegment(g, a, b) => InOneSegment(g, a, b)'
    BY DEF InOneSegment, Moves
  <2> QED BY <2>1, OnePieceStays DEF PieceInv, Moves
<1> QED BY <1>2, <1>3, <1>4, <1>5, <1>6 DEF PieceInv

LEMMA FlushesInOnePiece ==
    ASSUME SessionInv, PieceInv, Flushes, pc # "stopped"
    PROVE  PieceInv'
<1>1. /\ Decided \in Int /\ generation \in Nat /\ segStart \in Nat /\ segEnd \in Nat
      /\ WindowLen \in Nat /\ WindowLen > 0
  BY DecidedIs
<1>2. KeptTyped'
  BY DEF PieceInv, KeptTyped, Flushes
<1>3. WindowsBehind'
  <2> SUFFICES ASSUME NEW w \in kept, w[1] = generation
               PROVE  /\ w[2] + WindowLen <= Decided'
                      /\ pc' \in Going => \/ w[2] + WindowLen = Decided'
                                          \/ w[2] + 2 * WindowLen <= Decided'
    BY DEF WindowsBehind, Flushes
  <2>1. w[2] \in Nat /\ w[2] + WindowLen <= Decided
    BY DEF PieceInv, KeptTyped, WindowsBehind
  <2>2. w[2] + WindowLen <= Decided'
    BY <1>1, <2>1 DEF Flushes
  <2>3. pc' \in Going => w[2] + 2 * WindowLen <= Decided'
    BY <1>1, <2>1 DEF Flushes
  <2> QED BY <2>2, <2>3
<1>4. OpenWhileKept'
  <2>1. ASSUME pc' \in Going PROVE ~SampleKept(generation, Decided' - 1)
    <3>1. Decided' - 1 \in Int /\ Decided' - 1 >= Decided
      BY <1>1, <2>1 DEF Flushes
    <3> QED BY <1>1, <3>1, NoSampleAhead DEF PieceInv
  <2>2. \A a : SampleKept(generation, a)' <=> SampleKept(generation, a)
    BY DEF SampleKept, WindowKept, Flushes
  <2>3. ~open' /\ pc' # "emitting" /\ generation' = generation
    BY DEF Flushes
  <2> QED BY <2>1, <2>2, <2>3 DEF OpenWhileKept
<1>5. ReachesBack'
  BY DEF ReachesBack, Flushes
<1>6. InOnePiece'
  <2>1. Flush
    BY DEF Flushes
  <2>2. \A g, a, b \in Nat : a < b /\ InOneSegment(g, a, b) => InOneSegment(g, a, b)'
    <3>1. CASE ~open \/ ~(segStart < segEnd)
      BY <2>1, <3>1, FlushSends, PiecesStay
    <3>2. CASE open /\ segStart < segEnd
      <4>1. PICK s : /\ sent' = sent \cup {s}
                     /\ s.generation = generation /\ s.from = segStart /\ s.to = segEnd
        BY <2>1, <3>2, FlushSends
      <4>2. s \in sent' /\ s.to \in Nat /\ segEnd <= s.to
        BY <1>1, <4>1
      <4> QED BY <4>1, <4>2, PiecesStay
    <3> QED BY <3>1, <3>2
  <2> QED BY <2>2, OnePieceStays DEF PieceInv, Flushes
<1> QED BY <1>2, <1>3, <1>4, <1>5, <1>6 DEF PieceInv


-----------------------------------------------------------------------------
\* The next segment begins: it overlaps the one that was handed over.

LEMMA ReopenInOnePiece ==
    ASSUME SessionInv, PieceInv, Reopen_Segment
    PROVE  PieceInv'
<1>1. /\ generation \in Nat /\ segStart \in Nat /\ segEnd \in Nat /\ classified \in Nat
      /\ WindowLen \in Nat /\ WindowLen > 0 /\ Decided \in Int
  BY DecidedIs
<1>2. /\ pc = "emitting" /\ open' /\ segStart' = OverlapStart /\ AfterWindow(classified)
      /\ UNCHANGED <<kept, generation, segEnd, sent>>
  BY DEF Reopen_Segment, buffer
<1>3. Decided' = classified /\ pc' \in {"classifying", "ended", "streaming"}
  BY <1>1, <1>2, AfterWindowDecides
<1>4. Decided = classified /\ segEnd = classified /\ ~open
  BY <1>2 DEF Decided, SessionInv, OpenInRing
<1>5. KeptTyped'
  BY <1>2 DEF PieceInv, KeptTyped
<1>6. WindowsBehind'
  BY <1>2, <1>3, <1>4 DEF PieceInv, WindowsBehind, Going
<1>7. OpenWhileKept'
  <2>1. SampleKept(generation, Decided - 1)
    BY <1>2 DEF PieceInv, OpenWhileKept, Going
  <2>2. SampleKept(generation, Decided - 1)' /\ Decided' = Decided
    BY <1>2, <1>3, <1>4, <2>1, SameSamples
  <2> QED BY <1>2, <2>1, <2>2 DEF OpenWhileKept
<1>8. ReachesBack'
  <2> SUFFICES ASSUME NEW a \in Nat, a >= segEnd - Overlap
               PROVE  OverlapStart <= a
    BY <1>2 DEF ReachesBack
  <2>1. total \in Nat /\ capacity = Capacity /\ total - classified < MaxAppend
    BY <1>2 DEF SessionInv, Progress, BufferTypeOK
  <2>2. Floor <= a
    BY <1>1, <1>4, <2>1, Constants DEF Floor
  <2> QED BY <2>2 DEF OverlapStart, Later
<1>9. InOnePiece'
  <2>1. \A g, a, b \in Nat : a < b /\ InOneSegment(g, a, b) => InOneSegment(g, a, b)'
    BY <1>2, <1>4, PiecesStay
  <2> QED BY <1>2, <2>1, OnePieceStays DEF PieceInv
<1> QED BY <1>5, <1>6, <1>7, <1>8, <1>9 DEF PieceInv

\* A new connection: nothing of it is kept yet.
LEMMA ReconnectInOnePiece ==
    ASSUME SessionInv, PieceInv, Reconnect, ~stop
    PROVE  PieceInv'
<1>1. /\ pc = "backoff" /\ pc' = "connecting" /\ ~open' /\ classified' = 0
      /\ generation' = generation + 1 /\ UNCHANGED <<kept, sent>>
  BY DEF Reconnect, NewGeneration, Reset
<1>2. ~open /\ generation \in Nat
  BY <1>1 DEF SessionInv, OpenInRing, BufferTypeOK
<1>3. \A w \in kept : w[1] \in Nat /\ w[1] <= generation
  BY DEF PieceInv, KeptTyped
<1>4. \A w \in kept : w[1] <= generation' /\ w[1] # generation'
  BY <1>1, <1>2, <1>3
<1>5. KeptTyped'
  BY <1>1, <1>4 DEF PieceInv, KeptTyped
<1>6. WindowsBehind'
  BY <1>1, <1>4 DEF WindowsBehind
<1>7. OpenWhileKept'
  <2>1. PICK x \in Int : x = 0 - 1
    OBVIOUS
  <2>2. Decided' = 0
    BY <1>1 DEF Decided
  <2>3. Decided' - 1 = x
    BY <2>1, <2>2
  <2>4. ~SampleKept(generation', x)
    BY <1>4, SampleIs DEF PieceInv
  <2>5. PICK g : g = generation'
    OBVIOUS
  <2>6. SampleKept(g, x)' <=> SampleKept(g, x)
    BY <1>1, SameSamples
  <2>7. ~SampleKept(generation, Decided - 1)'
    BY <2>3, <2>4, <2>5, <2>6
  <2> QED BY <1>1, <2>7 DEF OpenWhileKept
<1>8. ReachesBack'
  BY <1>1 DEF ReachesBack
<1>9. InOnePiece'
  <2>1. \A g, a, b \in Nat : a < b /\ InOneSegment(g, a, b) => InOneSegment(g, a, b)'
    BY <1>1, <1>2, PiecesStay
  <2> QED BY <1>1, <2>1, OnePieceStays DEF PieceInv
<1> QED BY <1>5, <1>6, <1>7, <1>8, <1>9 DEF PieceInv

-----------------------------------------------------------------------------
\* A window is kept.

\* What the window joins, and where the session stands then.
LEMMA Keeping ==
    ASSUME SessionInv, NEW class \in Classes, Keep(class)
    PROVE  /\ pc = "classifying" /\ classified = Decided + WindowLen /\ Decided \in Nat
           /\ kept' = kept \cup {<<generation, Decided, class>>}
           /\ generation' = generation /\ segStart' = SegmentStart /\ segEnd' = classified
           /\ label' = Cautious(class) /\ Decided' = classified
           /\ open' \/ pc' = "emitting"
           /\ open' => pc' # "emitting" /\ sent' = sent
           /\ pc' = "emitting" => classified - SegmentStart >= Chunk
           /\ pc' # "stopped"
<1>1. pc = "classifying"
  BY DEF Keep
<1>2. classified \in Nat /\ WindowLen \in Nat /\ WindowLen <= classified
  BY <1>1, DecidedIs DEF SessionInv, OpenInRing
<1>3. Decided = classified - WindowLen
  BY <1>1 DEF Decided
<1>4. Decided \in Nat /\ classified = Decided + WindowLen
  BY <1>2, <1>3
<1>5. /\ kept' = kept \cup {<<generation, Decided, class>>}
      /\ generation' = generation /\ segStart' = SegmentStart /\ segEnd' = classified
      /\ label' = Cautious(class)
  BY <1>3 DEF Keep, SegmentStart, buffer
<1>6. CASE classified - SegmentStart >= Chunk
  <2>1. pc' = "emitting" /\ classified' = classified /\ ~open'
    BY <1>6 DEF Keep, SegmentStart
  <2> QED BY <1>1, <1>4, <1>5, <1>6, <2>1 DEF Decided
<1>7. CASE ~(classified - SegmentStart >= Chunk)
  <2>1. AfterWindow(classified) /\ sent' = sent /\ open'
    BY <1>7 DEF Keep, SegmentStart
  <2>2. Decided' = classified /\ pc' \in {"classifying", "ended", "streaming"}
    BY <1>2, <2>1, AfterWindowDecides
  <2> QED BY <1>1, <1>4, <1>5, <2>1, <2>2
<1> QED BY <1>6, <1>7

\* The segment it joins is handed over or stays open.
LEMMA KeepSends ==
    ASSUME SessionInv, NEW class \in Classes, Keep(class)
    PROVE  \/ open' /\ sent' = sent
           \/ \E s : /\ sent' = sent \cup {s}
                     /\ s.generation = generation /\ s.from = SegmentStart
                     /\ s.to = classified /\ s.label = Cautious(class)
<1>1. CASE classified - SegmentStart >= Chunk
  <2>1. Emit(SegmentStart, classified, Cautious(class)) /\ pc = "classifying"
    BY <1>1 DEF Keep, SegmentStart
  <2>2. SegmentStart \in Nat /\ Floor <= SegmentStart /\ SegmentStart < classified
    BY <2>1, SegmentStartInRing
  <2>3. classified \in Nat /\ classified <= total /\ capacity > 0 /\ BufferTypeOK /\ Faithful
    BY <2>1, Constants DEF SessionInv, Progress
  <2> QED BY <2>1, <2>2, <2>3, EmitSends
<1>2. CASE ~(classified - SegmentStart >= Chunk)
  BY <1>2 DEF Keep, SegmentStart
<1> QED BY <1>1, <1>2

\* Everything from its start to the end of the window is in that segment, and
\* nothing that was in one is torn apart.
LEMMA KeepCovers ==
    ASSUME SessionInv, NEW class \in Classes, Keep(class), NEW g \in Nat, g = generation
    PROVE  /\ \A a, b \in Nat : SegmentStart <= a /\ b <= classified
                 => InOneSegment(g, a, b)'
           /\ \A h, a, b \in Nat : a < b /\ InOneSegment(h, a, b) => InOneSegment(h, a, b)'
<1>1. /\ pc = "classifying" /\ generation' = generation /\ segStart' = SegmentStart
      /\ segEnd' = classified
  BY Keeping
<1>2. /\ classified \in Nat /\ segStart \in Nat /\ segEnd \in Nat /\ generation \in Nat
      /\ WindowLen \in Nat
  BY DecidedIs
<1>3. open => SegmentStart = segStart /\ segEnd <= classified
  <2>1. open => segEnd = classified - WindowLen
    BY <1>1 DEF SessionInv, OpenInRing
  <2> QED BY <1>2, <2>1 DEF SegmentStart
<1>4. CASE open' /\ sent' = sent
  <2>1. \A a, b \in Nat : SegmentStart <= a /\ b <= classified
              => InOneSegment(g, a, b)'
    BY <1>1, <1>4 DEF InOneSegment
  <2>2. \A h, a, b \in Nat : a < b /\ InOneSegment(h, a, b) => InOneSegment(h, a, b)'
    BY <1>1, <1>2, <1>3, <1>4, PiecesStay
  <2> QED BY <2>1, <2>2
<1>5. ASSUME NEW s, sent' = sent \cup {s}, s.generation = generation,
             s.from = SegmentStart, s.to = classified
      PROVE  /\ \A a, b \in Nat : SegmentStart <= a /\ b <= classified
                   => InOneSegment(g, a, b)'
             /\ \A h, a, b \in Nat : a < b /\ InOneSegment(h, a, b) => InOneSegment(h, a, b)'
  <2>1. ASSUME NEW a \in Nat, NEW b \in Nat, SegmentStart <= a, b <= classified
        PROVE  InOneSegment(g, a, b)'
    <3>1. s \in sent' /\ s.generation = g /\ s.from <= a /\ b <= s.to
      BY <1>1, <1>5, <2>1
    <3> QED BY <3>1, Zenon DEF InOneSegment
  <2>2. s \in sent' /\ sent \subseteq sent' /\ s.to \in Nat
    BY <1>2, <1>5
  <2>3. \A h, a, b \in Nat : a < b /\ InOneSegment(h, a, b) => InOneSegment(h, a, b)'
    <3>1. CASE ~open
      BY <2>2, <3>1, PiecesStay
    <3>2. CASE open
      <4>1. s.from = segStart /\ segEnd <= s.to
        BY <1>3, <1>5, <3>2
      <4> QED BY <1>5, <2>2, <4>1, PiecesStay
    <3> QED BY <3>1, <3>2
  <2> QED BY <2>1, <2>3
<1> QED BY <1>4, <1>5, KeepSends

\* That segment reaches back over what was kept before the window.
LEMMA KeptBack ==
    ASSUME SessionInv, PieceInv, pc = "classifying", NEW a \in Nat, a >= Decided - Overlap,
           \A x \in a .. Decided - 1 : SampleKept(generation, x)
    PROVE  SegmentStart <= a
<1>1. /\ classified \in Nat /\ segStart \in Nat /\ segEnd \in Nat
      /\ WindowLen \in Nat /\ Decided \in Int
  BY DecidedIs
<1>2. Decided = classified - WindowLen /\ pc \in Going \ {"emitting"}
  BY DEF Decided, Going
<1>3. CASE open
  <2>1. SegmentStart = segStart /\ segEnd = Decided /\ segStart <= segEnd
    BY <1>2, <1>3 DEF SegmentStart, SessionInv, OpenInRing
  <2>2. CASE a >= Decided
    BY <1>1, <2>1, <2>2
  <2>3. CASE a < Decided
    BY <1>3, <2>1, <2>3 DEF PieceInv, ReachesBack
  <2> QED BY <1>1, <2>2, <2>3
<1>4. CASE ~open
  <2>1. ~SampleKept(generation, Decided - 1)
    BY <1>2, <1>4 DEF PieceInv, OpenWhileKept
  <2>2. a >= Decided
    <3> SUFFICES ASSUME a < Decided PROVE FALSE
      BY <1>1
    <3>1. Decided - 1 \in a .. Decided - 1
      BY <1>1
    <3> QED BY <2>1, <3>1
  <2>3. total \in Nat /\ capacity = Capacity /\ total - classified < MaxAppend
    BY DEF SessionInv, Progress, BufferTypeOK
  <2>4. Floor <= a
    BY <1>1, <1>2, <2>2, <2>3, Constants DEF Floor
  <2>5. Decided - Lead <= a
    BY <1>1, <2>2, Constants
  <2>6. SegmentStart = Later(Floor, Decided - Lead)
    BY <1>2, <1>4 DEF SegmentStart, LeadStart
  <2> QED BY <2>4, <2>5, <2>6 DEF Later
<1> QED BY <1>3, <1>4


LEMMA KeepInOnePiece ==
    ASSUME SessionInv, PieceInv, NEW class \in Classes, Keep(class)
    PROVE  PieceInv'
<1>0. PICK g \in Nat, D \in Nat, e \in Nat, new \in Nat \X Nat \X Classes :
        e = classified /\ g = generation /\ D = Decided /\ new = <<g, D, class>>
  BY DecidedIs, Keeping
<1>1. /\ pc = "classifying" /\ e = D + WindowLen
      /\ kept' = kept \cup {new} /\ generation' = g
      /\ segStart' = SegmentStart /\ segEnd' = e /\ Decided' = e
      /\ open' \/ pc' = "emitting"
  BY <1>0, Keeping
<1>2. g \in Nat /\ WindowLen \in Nat /\ WindowLen > 0 /\ Overlap \in Nat /\ Lead \in Nat
  BY DecidedIs, Constants
<1>3. new[1] = g /\ new[2] = D /\ new[3] = class /\ new \in Nat \X Nat \X Classes
  BY <1>0
<1>4. KeptTyped'
  <2> SUFFICES ASSUME NEW w \in kept'
               PROVE  w \in Nat \X Nat \X Classes /\ w[1] <= g
    BY <1>1 DEF KeptTyped
  <2>1. CASE w \in kept
    BY <1>0, <2>1 DEF PieceInv, KeptTyped
  <2>2. CASE w = new
    BY <1>2, <1>3, <2>2
  <2> QED BY <1>1, <2>1, <2>2
<1>5. WindowsBehind'
  <2> SUFFICES ASSUME NEW w \in kept', w[1] = g
               PROVE  /\ w[2] + WindowLen <= D + WindowLen
                      /\ w[2] + WindowLen = D + WindowLen \/ w[2] + 2 * WindowLen <= D + WindowLen
    BY <1>1 DEF WindowsBehind
  <2>1. CASE w \in kept
    <3>1. w[2] \in Nat /\ w[2] + WindowLen <= D
      BY <1>0, <2>1 DEF PieceInv, KeptTyped, WindowsBehind
    <3> QED BY <1>1, <1>2, <3>1
  <2>2. CASE w = new
    BY <1>1, <1>2, <1>3, <2>2
  <2> QED BY <1>1, <2>1, <2>2
\* What was kept before stays so; before the window nothing new is kept, in it
\* everything, and past it nothing.
<1>6. \A h : \A x \in Int : SampleKept(h, x) => SampleKept(h, x)'
  BY <1>1, Zenon DEF SampleKept, WindowKept
<1>7. \A h : \A x \in Int : SampleKept(h, x)' =>
         \E w \in kept' : w[1] = h /\ w[2] <= x /\ x < w[2] + WindowLen
  <2> SUFFICES ASSUME NEW h, NEW x \in Int, SampleKept(h, x)'
               PROVE  \E w \in kept' : w[1] = h /\ w[2] <= x /\ x < w[2] + WindowLen
    OBVIOUS
  <2>1. PICK d \in 0 .. WindowLen - 1, c \in Classes : <<h, x - d, c>> \in kept'
    BY DEF SampleKept, WindowKept
  <2>2. PICK w \in kept' : w = <<h, x - d, c>>
    BY <2>1
  <2>3. w[1] = h /\ w[2] = x - d
    BY <2>2
  <2> QED BY <1>2, <2>1, <2>3
<1>8. \A h : \A x \in Int : SampleKept(h, x)' /\ (h # g \/ x < D) => SampleKept(h, x)
  <2> SUFFICES ASSUME NEW h, NEW x \in Int, SampleKept(h, x)', h # g \/ x < D
               PROVE  SampleKept(h, x)
    OBVIOUS
  <2>1. PICK w \in kept' : w[1] = h /\ w[2] <= x /\ x < w[2] + WindowLen
    BY <1>7
  <2>2. w # new
    BY <1>1, <1>3, <2>1
  <2>3. w \in kept
    BY <1>1, <2>2
  <2> QED BY <2>1, <2>3, SampleIs DEF PieceInv
<1>9. \A x \in Int : SampleKept(g, x)' => x < e
  <2> SUFFICES ASSUME NEW x \in Int, SampleKept(g, x)'
               PROVE  x < e
    OBVIOUS
  <2>1. PICK w \in kept' : w[1] = g /\ w[2] <= x /\ x < w[2] + WindowLen
    BY <1>7
  <2>2. w[2] + WindowLen <= e /\ w[2] \in Nat
    BY <1>1, <1>4, <1>5, <2>1 DEF WindowsBehind, KeptTyped
  <2> QED BY <1>1, <1>2, <2>1, <2>2
<1>10. SampleKept(g, e - 1)'
  <2>1. PICK d \in Int : d = WindowLen - 1
    BY <1>2
  <2>2. d \in 0 .. WindowLen - 1 /\ (e - 1) - d = D
    BY <1>1, <1>2, <2>1
  <2>3. <<g, (e - 1) - d, class>> \in kept'
    BY <1>0, <1>1, <2>2
  <2> QED BY <2>2, <2>3 DEF SampleKept, WindowKept
<1>11. OpenWhileKept'
  <2>1. PICK x \in Int : x = e - 1
    BY <1>1, <1>2
  <2>2. SampleKept(g, x)'
    BY <1>10, <2>1
  <2>3. Decided' - 1 = x
    BY <1>1, <2>1
  <2>4. SampleKept(generation, Decided - 1)'
    BY <1>1, <2>2, <2>3
  <2> QED BY <1>1, <2>4 DEF OpenWhileKept
\* A run of kept samples that ends in the window starts in its segment.
<1>12. ASSUME NEW a \in Nat, a >= D - Overlap,
              \A x \in a .. D - 1 : SampleKept(g, x)'
       PROVE  SegmentStart <= a
  <2>1. \A x \in a .. D - 1 : SampleKept(g, x)
    BY <1>1, <1>8, <1>12
  <2> QED BY <1>1, <1>12, <2>1, <1>0, KeptBack
<1>13. ReachesBack'
  <2> SUFFICES ASSUME NEW a \in Nat, a >= e - Overlap, a < e,
                      \A x \in a .. e - 1 : SampleKept(g, x)'
               PROVE  SegmentStart <= a
    BY <1>1 DEF ReachesBack
  <2>1. a >= D - Overlap /\ \A x \in a .. D - 1 : x \in a .. e - 1
    BY <1>1, <1>2
  <2> QED BY <1>12, <2>1
<1>14. /\ \A a, b \in Nat : SegmentStart <= a /\ b <= e => InOneSegment(g, a, b)'
       /\ \A h, a, b \in Nat : a < b /\ InOneSegment(h, a, b) => InOneSegment(h, a, b)'
  BY <1>0, KeepCovers
<1>15. ASSUME NEW w \in kept', NEW a \in w[2] .. w[2] + WindowLen - 1,
              RunKept(w[1], a, a + Overlap + 1)'
       PROVE  InOneSegment(w[1], a, a + Overlap + 1)'
  <2>1. w[1] \in Nat /\ w[2] \in Nat
    BY <1>4 DEF KeptTyped
  <2>2. PICK b \in Nat : b = a + Overlap + 1
    BY <1>2, <2>1
  <2>3. a \in Nat /\ a < b
    BY <1>2, <2>1, <2>2
  <2>4. \A x \in a .. b - 1 : SampleKept(w[1], x)'
    BY <1>15, <2>2 DEF RunKept
  <2>5. CASE w[1] = g /\ b > D
    <3>1. b <= e
      <4>1. b - 1 \in a .. b - 1
        BY <2>2, <2>3
      <4>2. b - 1 < e
        BY <1>9, <2>4, <2>5, <4>1
      <4> QED BY <1>1, <1>2, <4>2
    <3>2. a >= D - Overlap /\ \A x \in a .. D - 1 : x \in a .. b - 1
      BY <1>1, <1>2, <2>2, <2>3, <2>5
    <3>3. SegmentStart <= a
      BY <1>12, <2>3, <2>4, <2>5, <3>2
    <3> QED BY <1>14, <2>2, <2>3, <2>5, <3>1, <3>3
  <2>6. CASE w[1] # g \/ ~(b > D)
    <3>1. w # new
      BY <1>1, <1>2, <1>3, <2>1, <2>2, <2>3, <2>6
    <3>2. w \in kept
      BY <1>1, <3>1
    <3>3. \A x \in a .. b - 1 : SampleKept(w[1], x)
      BY <1>1, <1>8, <2>3, <2>4, <2>6
    <3>4. RunKept(w[1], a, a + Overlap + 1)
      BY <2>2, <3>3 DEF RunKept
    <3>5. InOneSegment(w[1], a, a + Overlap + 1)
      BY <3>2, <3>4, OnePieceIs DEF PieceInv, RunsWhole
    <3> QED BY <1>14, <2>1, <2>2, <2>3, <3>5
  <2> QED BY <2>5, <2>6
<1>16. ASSUME NEW w \in kept', ~SampleKept(w[1], w[2] - 1)'
       PROVE  InOneSegment(w[1], Later(0, w[2] - Lead), w[2] + 1)'
  <2>1. w[1] \in Nat /\ w[2] \in Nat
    BY <1>4 DEF KeptTyped
  <2>2. PICK a \in Nat : a = Later(0, w[2] - Lead) /\ a < w[2] + 1
    BY <1>2, <2>1 DEF Later
  <2>3. PICK b \in Nat : b = w[2] + 1
    BY <2>1
  <2>4. ~SampleKept(w[1], w[2] - 1)
    BY <1>6, <1>16, <2>1
  <2>5. CASE w \in kept
    <3>1. InOneSegment(w[1], Later(0, w[2] - Lead), w[2] + 1)
      BY <2>4, <2>5, OnePieceIs DEF PieceInv, LeadWhole
    <3>2. InOneSegment(w[1], a, b)
      BY <2>2, <2>3, <3>1
    <3>3. InOneSegment(w[1], a, b)'
      BY <1>14, <2>1, <2>2, <2>3, <3>2
    <3> QED BY <2>2, <2>3, <3>3
  <2>6. CASE w = new
    <3>1. ~open
      <4>1. ~SampleKept(g, D - 1)
        BY <1>3, <2>4, <2>6
      <4> QED BY <1>0, <1>1, <4>1 DEF PieceInv, OpenWhileKept, Going
    <3>2. total \in Nat /\ capacity = Capacity /\ total - classified < MaxAppend
      BY <1>1 DEF SessionInv, Progress, BufferTypeOK
    <3>3. Floor <= a
      <4>1. Lead <= Chunk
        BY SessionAssumption DEF SessionAssumption
      <4>2. a >= D - Lead
        BY <1>1, <1>2, <1>3, <2>2, <2>6 DEF Later
      <4> QED BY <1>1, <1>2, <2>2, <1>0, <3>2, <4>1, <4>2, Constants DEF Floor
    <3>4. SegmentStart <= a
      <4>1. SegmentStart = Later(Floor, D - Lead)
        BY <1>0, <1>1, <1>2, <3>1 DEF SegmentStart, LeadStart
      <4>2. D - Lead <= a
        BY <1>1, <1>2, <1>3, <2>2, <2>6 DEF Later
      <4> QED BY <3>3, <4>1, <4>2 DEF Later
    <3>5. b <= e
      BY <1>1, <1>2, <1>3, <2>3, <2>6
    <3>6. InOneSegment(g, a, b)'
      BY <1>14, <3>4, <3>5
    <3> QED BY <1>3, <2>2, <2>3, <2>6, <3>6
  <2> QED BY <1>1, <2>5, <2>6
<1>17. InOnePiece'
  <2>1. \A w \in kept' : RunsWhole(w)' /\ LeadWhole(w)'
    BY <1>15, <1>16, Zenon DEF RunsWhole, LeadWhole
  <2> QED BY <2>1, OnePieceIs
<1> QED BY <1>4, <1>5, <1>11, <1>13, <1>17 DEF PieceInv

LEMMA PieceStep ==
    ASSUME SessionInv, PieceInv, [Next]_vars
    PROVE  PieceInv'
<1>1. ASSUME NEW n \in 1 .. MaxAppend, ReadAudio(n)
      PROVE  PieceInv'
  BY <1>1, StepMoves, MovesInOnePiece
<1>2. ASSUME NEW class \in Classes, Keep(class)
      PROVE  PieceInv'
  BY <1>2, KeepInOnePiece
<1>3. CASE Reopen_Segment
  BY <1>3, ReopenInOnePiece
<1>4. CASE Reconnect /\ ~stop
  BY <1>4, ReconnectInOnePiece
<1>5. CASE Discard \/ (~stop /\ Disconnect) \/ Shutdown
  BY <1>5, StepFlushes, FlushesInOnePiece
<1>6. CASE \/ Connected \/ StreamEnds \/ RequestStop \/ Cancel
           \/ stop /\ (Disconnect \/ Reconnect)
           \/ UNCHANGED vars
  BY <1>6, StepMoves, MovesInOnePiece
<1> QED BY <1>1, <1>2, <1>3, <1>4, <1>5, <1>6 DEF Next

LEMMA PieceInit ==
    ASSUME Init
    PROVE  PieceInv
<1>1. /\ kept = {} /\ pc = "connecting" /\ open = FALSE
  BY DEF Init
<1>2. KeptTyped /\ WindowsBehind /\ InOnePiece
  BY <1>1 DEF KeptTyped, WindowsBehind, InOnePiece
<1>3. OpenWhileKept
  BY <1>1 DEF OpenWhileKept, SampleKept, WindowKept
<1>4. ReachesBack
  BY <1>1 DEF ReachesBack
<1> QED BY <1>2, <1>3, <1>4 DEF PieceInv


-----------------------------------------------------------------------------
\* The label.

\* What is handed over is behind what was decided if the open segment is.
LEMMA SentStaysBehind ==
    ASSUME SessionInv, SentBehind, NEW D \in Int, D >= Decided,
           \/ sent' = sent
           \/ \E s : /\ sent' = sent \cup {s} /\ s.to \in Nat
                     /\ s.generation = generation /\ s.to <= D
    PROVE  \A s \in sent' : /\ s.generation \in Nat /\ s.generation <= generation /\ s.to \in Nat
                            /\ s.generation = generation => s.to <= D
<1>1. Decided \in Int /\ generation \in Nat
  BY DecidedIs
<1>2. ASSUME NEW s \in sent
      PROVE  /\ s.generation \in Nat /\ s.generation <= generation /\ s.to \in Nat
             /\ s.generation = generation => s.to <= D
  BY <1>1 DEF SentBehind
<1>3. CASE sent' = sent
  BY <1>2, <1>3
<1>4. ASSUME NEW t, sent' = sent \cup {t}, t.to \in Nat, t.generation = generation, t.to <= D
      PROVE  \A s \in sent' :
                 /\ s.generation \in Nat /\ s.generation <= generation /\ s.to \in Nat
                 /\ s.generation = generation => s.to <= D
  BY <1>1, <1>2, <1>4
<1> QED BY <1>3, <1>4

\* A segment may join that is labelled as the windows inside it ask for, and a
\* window that is not inside a segment that was handed over.
LEMMA CautiousStays ==
    ASSUME CautiousLabel,
           \A s \in sent : \A w \in kept' :
               w \in kept \/ w[1] # s.generation \/ ~(w[2] + WindowLen <= s.to),
           \/ sent' = sent
           \/ \E s : /\ sent' = sent \cup {s}
                     /\ \A w \in kept' : /\ w[1] = s.generation /\ w[3] = "speech_over_music"
                                         /\ s.from <= w[2] /\ w[2] + WindowLen <= s.to
                                         => s.label = "speech_over_music"
    PROVE  CautiousLabel'
<1>1. \A s \in sent : \A w \in kept' :
          /\ w[1] = s.generation /\ s.from <= w[2] /\ w[2] + WindowLen <= s.to
          /\ w[3] = "speech_over_music"
          => s.label = "speech_over_music"
  BY DEF CautiousLabel
<1>2. CASE sent' = sent
  BY <1>1, <1>2 DEF CautiousLabel
<1>3. ASSUME NEW s, sent' = sent \cup {s},
             \A w \in kept' : /\ w[1] = s.generation /\ w[3] = "speech_over_music"
                              /\ s.from <= w[2] /\ w[2] + WindowLen <= s.to
                              => s.label = "speech_over_music"
      PROVE  CautiousLabel'
  BY <1>1, <1>3 DEF CautiousLabel
<1> QED BY <1>2, <1>3

LEMMA MovesLabelled ==
    ASSUME SessionInv, LabelInv, Moves
    PROVE  LabelInv'
<1>1. PICK D \in Int : D = Decided'
  BY DEF Moves
<1>2. Decided \in Int /\ segEnd \in Nat /\ D >= Decided
  BY <1>1, DecidedIs DEF Moves
<1>3. \A s \in sent' : /\ s.generation \in Nat /\ s.generation <= generation /\ s.to \in Nat
                       /\ s.generation = generation => s.to <= D
  BY <1>2, SentStaysBehind DEF LabelInv, Moves
<1>4. open => segEnd <= D
  BY <1>2 DEF LabelInv, SentBehind
<1>5. SentBehind'
  BY <1>1, <1>3, <1>4 DEF SentBehind, LabelInv, Moves
<1>6. LabelCovers'
  BY DEF LabelCovers, LabelInv, Moves
<1>7. CautiousLabel'
  BY DEF CautiousLabel, LabelInv, Moves
<1> QED BY <1>5, <1>6, <1>7 DEF LabelInv

LEMMA FlushesLabelled ==
    ASSUME SessionInv, LabelInv, Flushes, pc # "stopped"
    PROVE  LabelInv'
<1>1. PICK D \in Int : D = Decided'
  BY DEF Flushes
<1>2. Decided \in Int /\ segEnd \in Nat /\ D >= Decided /\ generation \in Nat
  BY <1>1, DecidedIs DEF Flushes
<1>3. /\ kept' = kept /\ generation' = generation /\ ~open' /\ pc' # "emitting" /\ Flush
  BY DEF Flushes
<1>4. LabelCovers'
  BY <1>3 DEF LabelCovers
<1>5. CASE sent' = sent
  <2>1. \A s \in sent' : /\ s.generation \in Nat /\ s.generation <= generation /\ s.to \in Nat
                         /\ s.generation = generation => s.to <= D
    BY <1>2, <1>5, SentStaysBehind DEF LabelInv
  <2>2. SentBehind'
    BY <1>1, <1>3, <2>1 DEF SentBehind
  <2>3. CautiousLabel'
    BY <1>3, <1>5 DEF CautiousLabel, LabelInv
  <2> QED BY <1>4, <2>2, <2>3 DEF LabelInv
<1>6. ASSUME open,
             NEW s, sent' = sent \cup {s}, s.generation = generation, s.from = segStart,
             s.to = segEnd, s.label = label
      PROVE  LabelInv'
  <2>1. segEnd <= D
    BY <1>2, <1>6 DEF LabelInv, SentBehind
  <2>2. \A t \in sent' : /\ t.generation \in Nat /\ t.generation <= generation /\ t.to \in Nat
                         /\ t.generation = generation => t.to <= D
    BY <1>2, <1>6, <2>1, SentStaysBehind DEF LabelInv
  <2>3. SentBehind'
    BY <1>1, <1>3, <2>2 DEF SentBehind
  <2>4. \A w \in kept' : /\ w[1] = s.generation /\ w[3] = "speech_over_music"
                         /\ s.from <= w[2] /\ w[2] + WindowLen <= s.to
                         => s.label = "speech_over_music"
    BY <1>3, <1>6 DEF LabelInv, LabelCovers
  <2>5. CautiousLabel'
    BY <1>3, <1>6, <2>4, CautiousStays DEF LabelInv
  <2> QED BY <1>4, <2>3, <2>5 DEF LabelInv
<1> QED BY <1>3, <1>5, <1>6, FlushSends

LEMMA ReopenLabelled ==
    ASSUME SessionInv, PieceInv, LabelInv, Reopen_Segment
    PROVE  LabelInv'
<1>1. /\ generation \in Nat /\ segStart \in Nat /\ segEnd \in Nat /\ classified \in Nat
      /\ Overlap \in Nat /\ Overlap < Chunk /\ Chunk \in Nat /\ WindowLen \in Nat
  BY DecidedIs, Constants
<1>2. /\ pc = "emitting" /\ open' /\ segStart' = OverlapStart /\ AfterWindow(classified)
      /\ UNCHANGED <<kept, generation, segEnd, sent, label>>
  BY DEF Reopen_Segment, buffer
<1>3. Decided' = classified /\ pc' \in {"classifying", "ended", "streaming"}
  BY <1>1, <1>2, AfterWindowDecides
<1>4. Decided = classified /\ segEnd = classified
  BY <1>2 DEF Decided, SessionInv, OpenInRing
<1>5. SentBehind'
  BY <1>1, <1>2, <1>3, <1>4 DEF LabelInv, SentBehind
<1>6. LabelCovers'
  <2>1. PICK o \in Int : o = OverlapStart /\ segStart <= o
    <3>1. segEnd - segStart >= Chunk
      BY <1>2 DEF LabelInv, SentBehind
    <3>2. Floor \in Nat
      BY DEF SessionInv, BufferTypeOK, Floor
    <3> QED BY <1>1, <3>1, <3>2 DEF OverlapStart, Later
  <2> SUFFICES ASSUME NEW w \in kept, w[1] = generation, w[3] = "speech_over_music",
                      o <= w[2], w[2] + WindowLen <= segEnd
               PROVE  label = "speech_over_music"
    BY <1>2, <2>1 DEF LabelCovers
  <2>2. w[2] \in Nat
    BY DEF PieceInv, KeptTyped
  <2>3. segStart <= w[2]
    BY <1>1, <2>1, <2>2
  <2> QED BY <1>2, <2>3 DEF LabelInv, LabelCovers
<1>7. CautiousLabel'
  BY <1>2 DEF CautiousLabel, LabelInv
<1> QED BY <1>5, <1>6, <1>7 DEF LabelInv

LEMMA ReconnectLabelled ==
    ASSUME SessionInv, LabelInv, Reconnect, ~stop
    PROVE  LabelInv'
<1>1. /\ pc' = "connecting" /\ ~open' /\ generation' = generation + 1
      /\ UNCHANGED <<kept, sent>>
  BY DEF Reconnect, NewGeneration, Reset
<1>2. generation \in Nat
  BY DecidedIs
<1>3. \A s \in sent : s.generation \in Nat /\ s.generation <= generation /\ s.to \in Nat
  BY DEF LabelInv, SentBehind
<1>4. \A s \in sent : s.generation <= generation' /\ s.generation # generation'
  BY <1>1, <1>2, <1>3
<1>5. SentBehind'
  BY <1>1, <1>3, <1>4 DEF SentBehind
<1>6. LabelCovers'
  BY <1>1 DEF LabelCovers
<1>7. CautiousLabel'
  BY <1>1 DEF CautiousLabel, LabelInv
<1> QED BY <1>5, <1>6, <1>7 DEF LabelInv

\* A window that opens a segment finds none before it that was kept in the lead:
\* the last one was dropped, and the lead does not reach over two.
LEMMA KeepLabelled ==
    ASSUME Lead < 2 * WindowLen, SessionInv, PieceInv, LabelInv,
           NEW class \in Classes, Keep(class)
    PROVE  LabelInv'
<1>0. PICK g \in Nat, D \in Nat, e \in Nat, new \in Nat \X Nat \X Classes :
        e = classified /\ g = generation /\ D = Decided /\ new = <<g, D, class>>
  BY DecidedIs, Keeping
<1>1. /\ pc = "classifying" /\ e = D + WindowLen
      /\ kept' = kept \cup {new} /\ generation' = g
      /\ segStart' = SegmentStart /\ segEnd' = e /\ Decided' = e
      /\ label' = Cautious(class)
      /\ open' \/ pc' = "emitting"
      /\ pc' = "emitting" => e - SegmentStart >= Chunk
  BY <1>0, Keeping
<1>2. WindowLen \in Nat /\ WindowLen > 0 /\ Lead \in Nat
  BY Constants
<1>3. new[1] = g /\ new[2] = D /\ new[3] = class
  BY <1>0
<1>4. SegmentStart \in Nat
  BY <1>1, SegmentStartInRing
<1>5. PICK f \in Nat : f = SegmentStart
  BY <1>4
<1>6. ASSUME NEW w \in kept', w[1] = g, w[3] = "speech_over_music",
             f <= w[2], w[2] + WindowLen <= e
      PROVE  Cautious(class) = "speech_over_music"
  <2>1. CASE w = new
    BY <1>3, <1>6, <2>1 DEF Cautious
  <2>2. CASE w \in kept
    <3>1. /\ w[2] \in Nat
          /\ w[2] + WindowLen = D \/ w[2] + 2 * WindowLen <= D
      BY <1>0, <1>1, <1>6, <2>2 DEF PieceInv, KeptTyped, WindowsBehind, Going
    <3>2. CASE open
      <4>1. segEnd = D
        BY <1>0, <1>1, <3>2 DEF SessionInv, OpenInRing, Decided
      <4>2. w[2] + WindowLen <= segEnd
        BY <1>2, <3>1, <4>1
      <4>3. label = "speech_over_music"
        BY <1>0, <1>5, <1>6, <2>2, <3>2, <4>2 DEF LabelInv, LabelCovers, SegmentStart
      <4> QED BY <3>2, <4>3 DEF Cautious
    <3>3. CASE ~open
      <4>1. ~SampleKept(g, D - 1)
        BY <1>0, <1>1, <3>3 DEF PieceInv, OpenWhileKept, Going
      <4>2. w[2] + WindowLen # D
        <5>1. D - 1 \in Int
          BY <1>0
        <5>2. ~(w[2] <= D - 1 /\ D - 1 < w[2] + WindowLen)
          BY <1>6, <2>2, <4>1, <5>1, SampleIs DEF PieceInv
        <5> QED BY <1>0, <1>2, <3>1, <5>2
      <4>3. f = Later(Floor, D - Lead)
        <5>1. classified - WindowLen = D
          BY <1>0, <1>1, <1>2
        <5>2. SegmentStart = LeadStart(D)
          BY <3>3, <5>1 DEF SegmentStart
        <5> QED BY <1>5, <5>2 DEF LeadStart
      <4>4. D - Lead <= f
        <5>1. Floor \in Nat
          BY DEF SessionInv, BufferTypeOK, Floor
        <5> QED BY <1>0, <1>2, <4>3, <5>1 DEF Later
      <4> QED BY <1>0, <1>2, <1>5, <1>6, <3>1, <4>2, <4>4
    <3> QED BY <3>2, <3>3
  <2> QED BY <1>1, <2>1, <2>2
<1>7. LabelCovers'
  BY <1>1, <1>5, <1>6 DEF LabelCovers
<1>8. \/ sent' = sent
      \/ \E s : /\ sent' = sent \cup {s} /\ s.generation = g /\ s.from = f /\ s.to = e
                /\ s.label = Cautious(class)
  BY <1>0, <1>5, KeepSends
<1>9. SentBehind'
  <2>1. D <= e /\ e <= e
    BY <1>0, <1>1, <1>2
  <2>2. \A s \in sent' : /\ s.generation \in Nat /\ s.generation <= generation /\ s.to \in Nat
                         /\ s.generation = generation => s.to <= e
    <3>1. \/ sent' = sent
          \/ \E s : /\ sent' = sent \cup {s} /\ s.to \in Nat
                    /\ s.generation = generation /\ s.to <= e
      BY <1>0, <1>8, <2>1
    <3> QED BY <1>0, <2>1, <3>1, SentStaysBehind DEF LabelInv
  <2> QED BY <1>0, <1>1, <2>1, <2>2 DEF SentBehind
<1>10. CautiousLabel'
  <2>1. ASSUME NEW s \in sent, NEW w \in kept', w \notin kept, w[1] = s.generation
        PROVE  ~(w[2] + WindowLen <= s.to)
    <3>1. w = new
      BY <1>1, <2>1
    <3>2. s.to \in Nat /\ s.to <= D
      BY <1>0, <1>3, <2>1, <3>1 DEF LabelInv, SentBehind
    <3> QED BY <1>0, <1>2, <1>3, <3>1, <3>2
  <2>2. CASE sent' = sent
    BY <2>1, <2>2, CautiousStays DEF LabelInv
  <2>3. ASSUME NEW s, sent' = sent \cup {s}, s.generation = g, s.from = f, s.to = e,
               s.label = Cautious(class)
        PROVE  CautiousLabel'
    <3>1. \A w \in kept' : /\ w[1] = s.generation /\ w[3] = "speech_over_music"
                           /\ s.from <= w[2] /\ w[2] + WindowLen <= s.to
                           => s.label = "speech_over_music"
      BY <1>6, <2>3
    <3> QED BY <2>1, <2>3, <3>1, CautiousStays DEF LabelInv
  <2> QED BY <1>8, <2>2, <2>3
<1> QED BY <1>7, <1>9, <1>10 DEF LabelInv

LEMMA LabelStep ==
    ASSUME Lead < 2 * WindowLen, SessionInv, PieceInv, LabelInv, [Next]_vars
    PROVE  LabelInv'
<1>1. ASSUME NEW n \in 1 .. MaxAppend, ReadAudio(n)
      PROVE  LabelInv'
  BY <1>1, StepMoves, MovesLabelled
<1>2. ASSUME NEW class \in Classes, Keep(class)
      PROVE  LabelInv'
  BY <1>2, KeepLabelled
<1>3. CASE Reopen_Segment
  BY <1>3, ReopenLabelled
<1>4. CASE Reconnect /\ ~stop
  BY <1>4, ReconnectLabelled
<1>5. CASE Discard \/ (~stop /\ Disconnect) \/ Shutdown
  BY <1>5, StepFlushes, FlushesLabelled
<1>6. CASE \/ Connected \/ StreamEnds \/ RequestStop \/ Cancel
           \/ stop /\ (Disconnect \/ Reconnect)
           \/ UNCHANGED vars
  BY <1>6, StepMoves, MovesLabelled
<1> QED BY <1>1, <1>2, <1>3, <1>4, <1>5, <1>6 DEF Next

LEMMA LabelInit ==
    ASSUME Init
    PROVE  LabelInv
<1>1. /\ sent = {} /\ kept = {} /\ pc = "connecting" /\ open = FALSE
  BY DEF Init
<1> QED BY <1>1 DEF LabelInv, SentBehind, LabelCovers, CautiousLabel

(* Whatever is decided of the windows, wherever the chunks are cut, the      *)
(* stream breaks or the session is stopped: what was kept, and is longer     *)
(* than the overlap by no more than a sample, is in one segment, and the     *)
(* first window of a stretch of speech has its lead.                         *)
THEOREM NothingIsClipped == Spec => []InOnePiece
<1>1. Init => SessionInv /\ SegmentsAreExact /\ PieceInv
  BY SessionInit, PieceInit
<1>2. SessionInv /\ SegmentsAreExact /\ PieceInv /\ [Next]_vars
      => SessionInv' /\ SegmentsAreExact' /\ PieceInv'
  BY SessionStep, PieceStep
<1>3. PieceInv => InOnePiece
  BY DEF PieceInv
<1> QED BY <1>1, <1>2, <1>3, PTL DEF Spec

(* It reaches the transcription under a label that is not too mild, too, if  *)
(* the lead does not reach over two windows.  That hypothesis is needed:     *)
(* the window before the one that opens a segment was dropped, but the one   *)
(* before that may have been kept, under a more doubtful label.              *)
THEOREM SpeechIsKept == Lead < 2 * WindowLen => (Spec => []SpeechSurvives)
<1> SUFFICES ASSUME Lead < 2 * WindowLen PROVE Spec => []SpeechSurvives
  OBVIOUS
<1>1. Init => SessionInv /\ SegmentsAreExact /\ PieceInv /\ LabelInv
  BY SessionInit, PieceInit, LabelInit
<1>2. SessionInv /\ SegmentsAreExact /\ PieceInv /\ LabelInv /\ [Next]_vars
      => SessionInv' /\ SegmentsAreExact' /\ PieceInv' /\ LabelInv'
  BY SessionStep, PieceStep, LabelStep
<1>3. PieceInv /\ LabelInv => SpeechSurvives
  BY DEF PieceInv, LabelInv, SpeechSurvives
<1> QED BY <1>1, <1>2, <1>3, PTL DEF Spec

-----------------------------------------------------------------------------
\* 3. The audio policy.

AudioClasses == {"silence", "speech", "speech_over_music", "music", "singing", "unknown"}

(* What Decide() can answer, and what it cannot when a voice was detected. *)
LEMMA DecideRange ==
    ASSUME NEW f \in Features, NEW vote \in Votes
    PROVE  /\ Decide(f, vote) \in AudioClasses
           /\ vote = "voice" => Decide(f, vote) \notin Songs
<1> DEFINE speechy == Speechy(f, vote)
           musical == Musical(f)
           voiced == Voiced(f, vote)
<1>1. vote = "voice" /\ musical => speechy
  BY DEF Speechy, OverMusic
<1>2. Decide(f, vote) =
        CASE f.silent -> "silence"
          [] ~f.silent /\ speechy /\ musical -> "speech_over_music"
          [] ~f.silent /\ speechy /\ ~musical -> "speech"
          [] ~f.silent /\ ~speechy /\ musical -> (IF voiced THEN "singing" ELSE "music")
          [] OTHER -> "unknown"
  BY DEF Decide
<1> HIDE DEF speechy, musical, voiced
<1> QED BY <1>1, <1>2 DEF AudioClasses, Songs

LEMMA VerdictRange ==
    ASSUME NEW vote \in Votes, NEW class \in Verdicts[vote]
    PROVE  class \in AudioClasses /\ (vote = "voice" => class \notin Songs)
<1>1. PICK f \in Features : class = Decide(f, vote)
  BY DEF Verdicts
<1> QED BY <1>1, DecideRange

-----------------------------------------------------------------------------
LEMMA VoiceStep ==
    ASSUME VoiceIsKept, AudioNext
    PROVE  VoiceIsKept'
<1>1. ASSUME NEW vote \in Votes, NEW class \in Verdicts[vote], HearWindow(vote, class)
      PROVE  VoiceIsKept'
  <2>1. class \in AudioClasses /\ (vote = "voice" => class \notin Songs)
    BY <1>1, VerdictRange
  <2>2. /\ last' = [vote |-> vote, class |-> class, keep |-> ShouldKeep(class)]
        /\ settings' = settings
    BY <1>1 DEF HearWindow, Observe
  <2>3. ASSUME vote = "voice", class # "silence", settings.overMusic, settings.uncertain
        PROVE  ShouldKeep(class)
    BY <2>1, <2>3 DEF ShouldKeep, AudioClasses, Songs
  <2> DEFINE keep == ShouldKeep(class)
  <2>4. last'.vote = vote /\ last'.class = class /\ last'.keep = keep
    BY <2>2
  <2> HIDE DEF keep
  <2>5. vote = "voice" /\ class # "silence" /\ settings.overMusic /\ settings.uncertain => keep
    BY <2>3 DEF keep
  <2> QED BY <2>2, <2>4, <2>5, Zenon DEF VoiceIsKept
<1>2. ASSUME PassWindow PROVE VoiceIsKept'
  BY <1>2 DEF PassWindow, Observe, VoiceIsKept
<1>3. ASSUME Dropout PROVE VoiceIsKept'
  BY <1>3 DEF Dropout, VoiceIsKept
<1> QED BY <1>1, <1>2, <1>3 DEF AudioNext

(* When the detector says that there is a voice, no weighing of the other    *)
(* features, at whatever level they are, makes the window a song: it is lost *)
(* as silence or not at all by the default configuration.                    *)
THEOREM VoicesAreKept == AudioSpec => []VoiceIsKept
<1>1. AudioInit => VoiceIsKept
  BY DEF AudioInit, VoiceIsKept
<1>2. VoiceIsKept /\ [AudioNext]_audioVars => VoiceIsKept'
  BY VoiceStep DEF VoiceIsKept, audioVars
<1> QED BY <1>1, <1>2, PTL DEF AudioSpec

-----------------------------------------------------------------------------
\* The counters of the policy tell what was heard on the connection.
CountersTell ==
    /\ heard \in Seq(AudioClasses)
    /\ position = Len(heard)
    /\ heard = << >> => run = NoRun
    /\ heard # << >> =>
          /\ run.class = heard[Len(heard)]
          /\ run.length \in 1 .. Len(heard)
          /\ LastRun(heard) = Len(heard) - run.length + 1 .. Len(heard)
    /\ \/ speechEnd = Never /\ \A i \in DOMAIN heard : heard[i] \notin Spoken
       \/ /\ speechEnd \in DOMAIN heard /\ heard[speechEnd] \in Spoken
          /\ \A i \in DOMAIN heard : heard[i] \in Spoken => i <= speechEnd

AudioInv == CountersTell /\ DropsOnlyTheDispensable

(* The run at the end of what was heard, when one window more is heard. *)
LEMMA LastRunGrows ==
    ASSUME NEW h \in Seq(AudioClasses), NEW c \in AudioClasses, NEW n \in Nat,
           h # << >> => n \in 1 .. Len(h) /\ LastRun(h) = Len(h) - n + 1 .. Len(h),
           NEW m \in Nat,
           m = IF h # << >> /\ c = h[Len(h)] THEN n + 1 ELSE 1
    PROVE  /\ m \in 1 .. Len(h) + 1
           /\ LastRun(Append(h, c)) = Len(h) + 2 - m .. Len(h) + 1
<1> DEFINE L == Len(h)
           g == Append(h, c)
<1>1. /\ L \in Nat /\ Len(g) = L + 1 /\ DOMAIN g = 1 .. L + 1
      /\ \A i \in 1 .. L : g[i] = h[i]
      /\ g[L + 1] = c
      /\ DOMAIN h = 1 .. L
      /\ h # << >> <=> L > 0
  OBVIOUS
<1> HIDE DEF L, g
<1>2. LastRun(g) = {i \in 1 .. L + 1 : \A j \in i .. L + 1 : g[j] = c}
  BY <1>1 DEF LastRun
<1>3. LastRun(h) = {i \in 1 .. L : \A j \in i .. L : h[j] = h[L]}
  BY <1>1 DEF LastRun, L
<1>4. ASSUME h # << >>, c = h[L] PROVE LastRun(g) = L - n + 1 .. L + 1
  <2>1. n \in 1 .. L /\ LastRun(h) = L - n + 1 .. L
    BY <1>4 DEF L
  <2>2. ASSUME NEW i \in LastRun(g) PROVE i \in L - n + 1 .. L + 1
    <3>1. i \in 1 .. L + 1 /\ \A j \in i .. L + 1 : g[j] = c
      BY <1>2, <2>2
    <3>2. CASE i = L + 1
      BY <3>2, <2>1, <1>1
    <3>3. CASE i \in 1 .. L
      <4>1. \A j \in i .. L : h[j] = h[L]
        BY <3>1, <3>3, <1>1, <1>4
      <4>2. i \in LastRun(h)
        BY <4>1, <3>3, <1>3
      <4> QED BY <4>2, <2>1, <1>1
    <3> QED BY <3>1, <3>2, <3>3, <1>1
  <2>3. ASSUME NEW i \in L - n + 1 .. L + 1 PROVE i \in LastRun(g)
    <3>1. i \in 1 .. L + 1
      BY <2>1, <2>3, <1>1
    <3>2. \A j \in i .. L + 1 : g[j] = c
      <4>1. CASE i = L + 1
        BY <4>1, <1>1
      <4>2. CASE i \in L - n + 1 .. L
        <5>1. \A j \in i .. L : h[j] = h[L]
          BY <4>2, <2>1, <1>3
        <5>2. \A j \in i .. L + 1 : j = L + 1 \/ j \in i .. L
          BY <1>1, <3>1
        <5>3. \A j \in i .. L : j \in 1 .. L
          BY <1>1, <3>1
        <5> QED BY <5>1, <5>2, <5>3, <1>1, <1>4
      <4> QED BY <4>1, <4>2, <2>1, <2>3, <1>1
    <3> QED BY <3>1, <3>2, <1>2
  <2> QED BY <2>2, <2>3
<1>5. ASSUME ~(h # << >> /\ c = h[L]) PROVE LastRun(g) = L + 1 .. L + 1
  <2>1. ASSUME NEW i \in LastRun(g) PROVE i = L + 1
    <3>1. i \in 1 .. L + 1 /\ \A j \in i .. L + 1 : g[j] = c
      BY <1>2, <2>1
    <3>2. ASSUME i \in 1 .. L PROVE FALSE
      <4>1. L \in i .. L + 1 /\ L \in 1 .. L
        BY <3>2, <1>1
      <4>2. h[L] = c /\ L > 0
        BY <4>1, <3>1, <1>1
      <4> QED BY <4>2, <1>5, <1>1
    <3> QED BY <3>1, <3>2, <1>1
  <2>2. L + 1 \in LastRun(g)
    BY <1>1, <1>2
  <2>3. L + 1 .. L + 1 = {L + 1}
    BY <1>1
  <2> QED BY <2>1, <2>2, <2>3
<1>6. CASE h # << >> /\ c = h[Len(h)]
  <2>1. m = n + 1 /\ n \in 1 .. L
    BY <1>6 DEF L
  <2>2. Len(h) + 2 - m = L - n + 1
    BY <2>1, <1>1 DEF L
  <2>3. m \in 1 .. Len(h) + 1
    BY <2>1, <1>1 DEF L
  <2>4. LastRun(g) = L - n + 1 .. L + 1
    BY <1>4, <1>6 DEF L
  <2> QED BY <2>2, <2>3, <2>4 DEF L, g
<1>7. CASE ~(h # << >> /\ c = h[Len(h)])
  <2>1. m = 1 /\ Len(h) + 2 - m = L + 1 /\ m \in 1 .. Len(h) + 1
    BY <1>7, <1>1 DEF L
  <2>2. LastRun(g) = L + 1 .. L + 1
    BY <1>5, <1>7, Zenon DEF L
  <2> QED BY <2>1, <2>2, Zenon DEF L, g
<1> QED BY <1>6, <1>7

(* A song may be a jingle by the counters exactly if it may be one by what  *)
(* was heard.                                                               *)
LEMMA JingleByCounters ==
    ASSUME PolicyAssumption, CountersTell, NEW class \in Songs,
           NEW g, g = Append(heard, class), NEW m \in 1 .. Len(heard) + 1,
           m = Lasted(class), Cardinality(LastRun(g)) = m,
           LastRun(g) = Len(heard) + 2 - m .. Len(heard) + 1
    PROVE  JingleContext(class) <=> MayBeJingle(g)
<1> DEFINE L == Len(heard)
<1>1. /\ heard \in Seq(AudioClasses) /\ L \in Nat /\ position = L /\ Adjacency \in Nat
      /\ class \in AudioClasses /\ class \notin Spoken
      /\ m \in 1 .. L + 1 /\ speechEnd \in Int
  BY DEF CountersTell, PolicyAssumption, Songs, AudioClasses, Spoken, Never
<1>2. /\ Len(g) = L + 1 /\ DOMAIN g = 1 .. L + 1 /\ DOMAIN heard = 1 .. L
      /\ \A i \in 1 .. L : g[i] = heard[i]
      /\ g[L + 1] = class
  BY <1>1
<1>3. \A i \in 1 .. L + 1 : i > L + 1 - m => g[i] \notin Spoken
  <2>1. SUFFICES ASSUME NEW i \in 1 .. L + 1, i > L + 1 - m PROVE g[i] = class
    BY <1>1
  <2>2. i \in LastRun(g)
    BY <2>1, <1>1
  <2> QED BY <2>2, <1>1, <1>2 DEF LastRun
<1> HIDE DEF L
<1>4. PICK q \in Int : q = L + 1 - m
  BY <1>1
<1>5. ASSUME speechEnd # Never, q - speechEnd \in 0 .. Adjacency
      PROVE  \E i \in DOMAIN g : g[i] \in Spoken /\ q - i <= Adjacency
  <2>1. speechEnd \in 1 .. L /\ heard[speechEnd] \in Spoken
    BY <1>2, <1>5 DEF CountersTell
  <2>2. speechEnd \in DOMAIN g /\ g[speechEnd] \in Spoken
    BY <2>1, <1>1, <1>2
  <2>3. q - speechEnd <= Adjacency
    BY <1>1, <1>5
  <2> QED BY <2>2, <2>3
<1>6. ASSUME NEW i \in DOMAIN g, g[i] \in Spoken, q - i <= Adjacency
      PROVE  speechEnd # Never /\ q - speechEnd \in 0 .. Adjacency
  <2>1. i \in 1 .. L /\ heard[i] \in Spoken
    <3>1. i # L + 1
      BY <1>1, <1>2, <1>6
    <3>2. i \in 1 .. L
      BY <3>1, <1>1, <1>2, <1>6
    <3> QED BY <3>2, <1>2, <1>6
  <2>2. /\ speechEnd \in 1 .. L /\ speechEnd # Never
        /\ heard[speechEnd] \in Spoken /\ i <= speechEnd
    BY <1>1, <1>2, <2>1 DEF CountersTell, Never
  <2>3. ~(speechEnd > q)
    BY <1>1, <1>2, <1>3, <1>4, <2>2
  <2>4. /\ i \in Int /\ speechEnd \in Int /\ Adjacency \in Int /\ speechEnd <= q
        /\ q - speechEnd \in Int
    BY <2>1, <2>2, <2>3, <1>1
  <2>5. q - speechEnd <= Adjacency /\ q - speechEnd >= 0
    BY <2>2, <2>4, <1>6
  <2> QED BY <2>2, <2>4, <2>5
<1>7. Len(g) - Cardinality(LastRun(g)) = q /\ (position + 1) - m = q
  BY <1>1, <1>2, <1>4
<1>8. JingleContext(class) <=> /\ settings.jingles /\ m <= JingleMax
                               /\ speechEnd # Never /\ q - speechEnd \in 0 .. Adjacency
  BY <1>7, Zenon DEF JingleContext
<1>9. MayBeJingle(g) <=> /\ settings.jingles /\ m <= JingleMax
                         /\ \E i \in DOMAIN g : g[i] \in Spoken /\ q - i <= Adjacency
  <2>1. Cardinality(LastRun(g)) = m
    OBVIOUS
  <2> QED BY <2>1, <1>7, Zenon DEF MayBeJingle
<1> QED BY <1>5, <1>6, <1>8, <1>9

\* The policy, from its counters, keeps what what was heard says is to be kept.
LEMMA KeepsByCounters ==
    ASSUME PolicyAssumption, CountersTell, NEW class \in AudioClasses,
           NEW g, g = Append(heard, class), NEW m \in 1 .. Len(heard) + 1,
           m = Lasted(class), Cardinality(LastRun(g)) = m,
           LastRun(g) = Len(heard) + 2 - m .. Len(heard) + 1
    PROVE  ShouldKeep(class) <=> ~Dispensable(g)
<1>1. g[Len(g)] = class
  BY DEF CountersTell
<1>2. class \in Songs => (JingleContext(class) <=> MayBeJingle(g))
  BY JingleByCounters
<1>3. m \in Int /\ SilenceEnd \in Int /\ MusicDiscard \in Int
  BY DEF CountersTell, PolicyAssumption
<1> DEFINE jingle == MayBeJingle(g)
           context == JingleContext(class)
<1>4. ShouldKeep(class) <=>
          \/ class = "speech"
          \/ class = "speech_over_music" /\ settings.overMusic
          \/ class = "unknown" /\ settings.uncertain
          \/ class = "silence" /\ m < SilenceEnd
          \/ /\ class \in Songs
             /\ \/ m < MusicDiscard
                \/ context
                \/ class = "singing" /\ settings.singing
  BY Zenon DEF ShouldKeep
<1>5. Dispensable(g) <=>
          \/ class = "silence" /\ m >= SilenceEnd
          \/ /\ class \in Songs /\ m >= MusicDiscard
             /\ ~jingle
             /\ ~(class = "singing" /\ settings.singing)
          \/ class = "speech_over_music" /\ ~settings.overMusic
          \/ class = "unknown" /\ ~settings.uncertain
  BY <1>1, Zenon DEF Dispensable
<1>6. (m < SilenceEnd <=> ~(m >= SilenceEnd)) /\ (m < MusicDiscard <=> ~(m >= MusicDiscard))
  BY <1>3
<1> HIDE DEF jingle, context
<1>7. class \in Songs => (context <=> jingle)
  BY <1>2 DEF jingle, context
<1> QED BY <1>4, <1>5, <1>6, <1>7 DEF AudioClasses, Songs

LEMMA ObserveStep ==
    ASSUME PolicyAssumption, CountersTell, NEW class \in AudioClasses, NEW vote,
           Observe(vote, class), UNCHANGED settings
    PROVE  CountersTell' /\ DropsOnlyTheDispensable'
<1>0. PICK g : g = Append(heard, class)
  OBVIOUS
<1> DEFINE m == Lasted(class)
           L == Len(heard)
<1>1. /\ heard \in Seq(AudioClasses) /\ L \in Nat /\ position = L
      /\ g \in Seq(AudioClasses) /\ Len(g) = L + 1
      /\ DOMAIN g = 1 .. L + 1 /\ DOMAIN heard = 1 .. L
      /\ \A i \in 1 .. L : g[i] = heard[i]
      /\ g[L + 1] = class /\ g # << >>
  BY <1>0 DEF CountersTell
<1>2. m = IF class = run.class THEN run.length + 1 ELSE 1
  BY DEF Lasted, Continued
<1>3. /\ run.length \in Nat
      /\ m \in Nat
      /\ heard # << >> => run.length \in 1 .. L /\ LastRun(heard) = L - run.length + 1 .. L
      /\ m = IF heard # << >> /\ class = heard[L] THEN run.length + 1 ELSE 1
  <2>1. CASE heard = << >>
    BY <2>1, <1>1, <1>2 DEF CountersTell, NoRun
  <2>2. CASE heard # << >>
    BY <2>2, <1>1, <1>2 DEF CountersTell
  <2> QED BY <2>1, <2>2
<1> HIDE DEF m, L
<1>4. m \in 1 .. L + 1 /\ LastRun(g) = L + 2 - m .. L + 1
  <2>1. /\ heard # << >> => /\ run.length \in 1 .. Len(heard)
                            /\ LastRun(heard) = Len(heard) - run.length + 1 .. Len(heard)
        /\ m = IF heard # << >> /\ class = heard[Len(heard)] THEN run.length + 1 ELSE 1
    BY <1>3 DEF L
  <2>2. /\ m \in 1 .. Len(heard) + 1
        /\ LastRun(Append(heard, class)) = Len(heard) + 2 - m .. Len(heard) + 1
    <3>1. /\ heard \in Seq(AudioClasses) /\ run.length \in Nat /\ m \in Nat
          /\ heard # << >> => /\ run.length \in 1 .. Len(heard)
                              /\ LastRun(heard) = Len(heard) - run.length + 1 .. Len(heard)
      BY <2>1, <1>1, <1>3
    <3>2. PICK k \in Nat : k = m
      BY <3>1
    <3>3. PICK n \in Nat : n = run.length
      BY <3>1
    <3>4. PICK h \in Seq(AudioClasses) : h = heard
      BY <3>1
    <3>5. h # << >> => n \in 1 .. Len(h) /\ LastRun(h) = Len(h) - n + 1 .. Len(h)
      BY <3>1, <3>3, <3>4
    <3>6. k = IF h # << >> /\ class = h[Len(h)] THEN n + 1 ELSE 1
      BY <2>1, <3>2, <3>3, <3>4
    <3>7. /\ k \in 1 .. Len(h) + 1
          /\ LastRun(Append(h, class)) = Len(h) + 2 - k .. Len(h) + 1
      BY <3>5, <3>6, LastRunGrows
    <3> QED BY <3>2, <3>4, <3>7
  <2> QED BY <2>2, <1>0 DEF L
<1>5. Cardinality(LastRun(g)) = m
  <2>1. L + 2 - m \in Int /\ L + 1 \in Int /\ ~(L + 2 - m > L + 1) /\ (L + 1) - (L + 2 - m) + 1 = m
    BY <1>1, <1>4
  <2>2. Cardinality(L + 2 - m .. L + 1) = (L + 1) - (L + 2 - m) + 1
    BY <2>1, FS_Interval
  <2> QED BY <2>1, <2>2, <1>4
<1>6. ShouldKeep(class) <=> ~Dispensable(g)
  BY <1>4, <1>5, KeepsByCounters, <1>0 DEF m, L
<1>7. /\ position' = L + 1 /\ heard' = g
      /\ run' = [class |-> class, length |-> m]
      /\ speechEnd' = IF class \in Spoken THEN L + 1 ELSE speechEnd
      /\ last' = [vote |-> vote, class |-> class, keep |-> ShouldKeep(class)]
  BY <1>0, <1>1 DEF Observe, Continued, m, Lasted
<1>8. last'.keep = ShouldKeep(class)
  BY <1>7
<1>9. settings' = settings
  OBVIOUS
<1>10. Dispensable(g)' <=> Dispensable(g)
  BY <1>7, <1>9 DEF Dispensable, MayBeJingle
<1>11. DropsOnlyTheDispensable'
  BY <1>1, <1>6, <1>7, <1>8, <1>10, Zenon DEF DropsOnlyTheDispensable
<1>12. /\ LastRun(heard') = Len(heard') - run'.length + 1 .. Len(heard')
       /\ run'.length \in 1 .. Len(heard') /\ run'.class = heard'[Len(heard')]
  <2>1. run'.length = m /\ run'.class = class
    BY <1>7
  <2>2. L + 2 - m = L + 1 - m + 1
    BY <1>1, <1>4
  <2>3. heard' = g /\ Len(g) = L + 1
    BY <1>1, <1>7
  <2>4. LastRun(g) = Len(g) - run'.length + 1 .. Len(g)
    <3>1. Len(g) - run'.length + 1 = L + 2 - m
      BY <1>1, <1>4, <2>1, <2>3
    <3> QED BY <3>1, <1>4, <2>3, Zenon
  <2>5. run'.length \in 1 .. Len(g) /\ run'.class = g[Len(g)]
    BY <1>1, <1>4, <2>1, <2>3
  <2> QED BY <2>3, <2>4, <2>5, Zenon
<1>13. \/ speechEnd' = Never /\ \A i \in DOMAIN heard' : heard'[i] \notin Spoken
       \/ /\ speechEnd' \in DOMAIN heard' /\ heard'[speechEnd'] \in Spoken
          /\ \A i \in DOMAIN heard' : heard'[i] \in Spoken => i <= speechEnd'
  <2>1. CASE class \in Spoken
    BY <2>1, <1>1, <1>7
  <2>2. CASE class \notin Spoken /\ speechEnd = Never
    BY <2>2, <1>1, <1>7 DEF CountersTell, Never
  <2>3. ASSUME class \notin Spoken, speechEnd # Never
        PROVE  /\ speechEnd' \in DOMAIN heard' /\ heard'[speechEnd'] \in Spoken
               /\ \A i \in DOMAIN heard' : heard'[i] \in Spoken => i <= speechEnd'
    <3>1. /\ speechEnd \in 1 .. L /\ heard[speechEnd] \in Spoken
          /\ \A i \in 1 .. L : heard[i] \in Spoken => i <= speechEnd
      BY <2>3, <1>1 DEF CountersTell
    <3>2. \A i \in 1 .. L + 1 : i \in 1 .. L \/ i = L + 1
      BY <1>1
    <3> QED BY <3>1, <3>2, <2>3, <1>1, <1>7
  <2> QED BY <2>1, <2>2, <2>3
<1> QED BY <1>1, <1>7, <1>11, <1>12, <1>13 DEF CountersTell

LEMMA AudioStep ==
    ASSUME PolicyAssumption, AudioInv, AudioNext
    PROVE  AudioInv'
<1>1. ASSUME NEW vote \in Votes, NEW class \in Verdicts[vote], HearWindow(vote, class)
      PROVE  AudioInv'
  BY <1>1, VerdictRange, ObserveStep DEF HearWindow, AudioInv
<1>2. ASSUME PassWindow PROVE AudioInv'
  BY <1>2, ObserveStep DEF PassWindow, AudioInv, AudioClasses
<1>3. ASSUME Dropout PROVE AudioInv'
  <2>1. heard' = << >> /\ run' = NoRun /\ position' = 0 /\ speechEnd' = Never
    BY <1>3 DEF Dropout, Fresh
  <2> QED BY <2>1 DEF AudioInv, CountersTell, DropsOnlyTheDispensable
<1> QED BY <1>1, <1>2, <1>3 DEF AudioNext

(* For every setting, duration and length of a connection: what the counters *)
(* of the policy drop, window by window and over dropouts, is what the whole *)
(* of the connection shows to be dispensable, no more and no less.           *)
THEOREM OnlyTheDispensableIsDropped == AudioSpec => []DropsOnlyTheDispensable
<1>1. AudioInit => AudioInv
  BY DEF AudioInit, AudioInv, CountersTell, DropsOnlyTheDispensable
<1>2. AudioInv /\ [AudioNext]_audioVars => AudioInv'
  <2>1. ASSUME AudioInv, UNCHANGED audioVars PROVE AudioInv'
    <3>1. UNCHANGED <<settings, run, speechEnd, position, heard, last>>
      BY <2>1 DEF audioVars, policyVars
    <3>2. CountersTell' /\ LastRun(heard)' = LastRun(heard)
      BY <2>1, <3>1 DEF AudioInv, CountersTell, LastRun
    <3>3. Dispensable(heard)' = Dispensable(heard)
      BY <3>1 DEF Dispensable, MayBeJingle
    <3> QED BY <2>1, <3>1, <3>2, <3>3, Zenon DEF AudioInv, DropsOnlyTheDispensable
  <2> QED BY <2>1, AudioStep, PolicyAssumption
<1>3. AudioInv => DropsOnlyTheDispensable
  BY DEF AudioInv
<1> QED BY <1>1, <1>2, <1>3, PTL DEF AudioSpec

-----------------------------------------------------------------------------
\* 4. The rollout of a keyword index.

Job == [station : Stations, stamp : Int, wanted : BOOLEAN]

RolloutTyped ==
    /\ versions \in [Stations -> Seq(Contents)]
    /\ subscribed \subseteq Stations
    /\ pass.at \in {"idle", "upsert", "publish"}
    /\ pass = [at |-> pass.at, desired |-> pass.desired, todo |-> pass.todo]
    /\ DOMAIN pass.desired \subseteq Stations
    /\ \A s \in DOMAIN pass.desired : pass.desired[s] \in Contents
    /\ pass.todo \subseteq DOMAIN pass.desired
    /\ stamp \in [Stations -> Int]
    /\ outbox \in Seq(Job) /\ queue \in Seq(Job)

\* A session, and a job of it, carry no version that there is not; a station
\* that a campaign asks for has one by the time its jobs are dispatched.
StampsExist ==
    /\ \A s \in Stations : stamp[s] <= Newest(s)
    /\ \A i \in DOMAIN outbox : outbox[i].stamp <= Newest(outbox[i].station)
    /\ \A i \in DOMAIN queue : queue[i].stamp <= Newest(queue[i].station)
    /\ \A i \in DOMAIN queue : queue[i].wanted => Newest(queue[i].station) >= 1
    /\ pass.at = "publish" => \A s \in DOMAIN pass.desired \ pass.todo : Newest(s) >= 1

\* The matcher that is kept is no older than the stamp it is kept for.
MatcherNewEnough ==
    matcher # NoMatcher =>
        /\ matcher.key \in Stations \X Int
        /\ matcher.version \in Nat /\ matcher.version >= 1
        /\ matcher.version >= matcher.key[2]

ScanCurrent ==
    /\ scanned.of \in {scanned.station, "none"}
    /\ scanned.wanted => scanned.version >= 1
    /\ scanned.version >= scanned.stamp

RolloutInv == RolloutTyped /\ StampsExist /\ MatcherNewEnough /\ ScanCurrent

\* Nothing but PublishIndex changes the versions, and it adds one.
VersionsGrow ==
    /\ versions' \in [Stations -> Seq(Contents)]
    /\ \A s \in Stations : Newest(s) \in Nat /\ Newest(s)' \in Nat /\ Newest(s)' >= Newest(s)

LEMMA Unpublished ==
    ASSUME RolloutTyped, UNCHANGED versions
    PROVE  VersionsGrow
BY DEF RolloutTyped, VersionsGrow, Newest

LEMMA Published ==
    ASSUME RolloutTyped, NEW s \in Stations, PublishIndex(s)
    PROVE  VersionsGrow /\ Newest(s)' >= 1
<1>0. s \in DOMAIN pass.desired
  BY DEF PublishIndex, RolloutTyped
<1>1. CASE UNCHANGED versions /\ Newest(s) > 0
  BY <1>1, Unpublished DEF RolloutTyped, VersionsGrow, Newest
<1>2. CASE versions' = [versions EXCEPT ![s] = Append(@, pass.desired[s])]
  <2>1. versions[s] \in Seq(Contents) /\ pass.desired[s] \in Contents
    BY <1>0 DEF RolloutTyped
  <2>2. /\ Append(versions[s], pass.desired[s]) \in Seq(Contents)
        /\ Len(Append(versions[s], pass.desired[s])) = Len(versions[s]) + 1
    BY <2>1
  <2>3. versions' \in [Stations -> Seq(Contents)]
    BY <1>2, <2>2 DEF RolloutTyped
  <2>4. \A t \in Stations : versions'[t] = IF t = s THEN Append(versions[s], pass.desired[s])
                                           ELSE versions[t]
    BY <1>2 DEF RolloutTyped
  <2>5. \A t \in Stations : Len(versions[t]) \in Nat
    BY DEF RolloutTyped
  <2> QED BY <2>2, <2>3, <2>4, <2>5 DEF VersionsGrow, Newest
<1> QED BY <1>1, <1>2 DEF PublishIndex

\* What stays true of jobs and of the matcher while versions are added.
LEMMA JobsKeep ==
    ASSUME RolloutTyped, VersionsGrow, NEW job \in Job,
           job.stamp <= Newest(job.station),
           job.wanted => Newest(job.station) >= 1
    PROVE  /\ job.stamp <= Newest(job.station)'
           /\ job.wanted => Newest(job.station)' >= 1
BY DEF Job, VersionsGrow

LEMMA QueueKeeps ==
    ASSUME RolloutTyped, StampsExist, VersionsGrow, UNCHANGED <<outbox, queue>>
    PROVE  /\ outbox' \in Seq(Job) /\ queue' \in Seq(Job)
           /\ \A i \in DOMAIN outbox' : outbox'[i].stamp <= Len(versions'[outbox'[i].station])
           /\ \A i \in DOMAIN queue' : queue'[i].stamp <= Len(versions'[queue'[i].station])
           /\ \A i \in DOMAIN queue' : queue'[i].wanted => Len(versions'[queue'[i].station]) >= 1
<1>1. \A i \in DOMAIN outbox : outbox[i] \in Job
  BY DEF RolloutTyped
<1>2. \A i \in DOMAIN queue : queue[i] \in Job
  BY DEF RolloutTyped
<1>3. outbox' = outbox /\ queue' = queue
  OBVIOUS
<1>4. \A i \in DOMAIN outbox : outbox[i].stamp <= Newest(outbox[i].station)'
  BY <1>1 DEF Job, VersionsGrow, StampsExist, Newest
<1>5. \A i \in DOMAIN queue : queue[i].stamp <= Newest(queue[i].station)'
  BY <1>2 DEF Job, VersionsGrow, StampsExist, Newest
<1>6. \A i \in DOMAIN queue : queue[i].wanted => Newest(queue[i].station)' >= 1
  BY <1>2 DEF Job, VersionsGrow, StampsExist, Newest
<1> QED BY <1>3, <1>4, <1>5, <1>6 DEF RolloutTyped, Newest

\* The steps of the planner and of the sessions, which leave the queue alone.
LEMMA PlannerSteps ==
    ASSUME RolloutInv,
           \/ ReadCampaigns \/ EndUpserts \/ PlannerFails
           \/ \E s \in Stations : UpsertRow(s) \/ PublishIndex(s)
    PROVE  RolloutInv'
<1> USE DEF RolloutInv
<1>1. ASSUME ReadCampaigns PROVE RolloutInv'
  <2>1. VersionsGrow
    BY <1>1, Unpublished DEF ReadCampaigns
  <2>2. PICK asked \in SUBSET Stations : \E desired \in [asked -> Contents] :
            pass' = [at |-> "upsert", desired |-> desired, todo |-> asked]
    BY <1>1 DEF ReadCampaigns
  <2>3. PICK desired \in [asked -> Contents] :
            pass' = [at |-> "upsert", desired |-> desired, todo |-> asked]
    BY <2>2
  <2>4. RolloutTyped'
    BY <1>1, <2>1, <2>3 DEF ReadCampaigns, RolloutTyped, VersionsGrow
  <2>5. StampsExist'
    BY <1>1, <2>1, <2>3, QueueKeeps DEF ReadCampaigns, StampsExist, RolloutTyped, Newest
  <2> QED BY <1>1, <2>4, <2>5 DEF ReadCampaigns, MatcherNewEnough, ScanCurrent
<1>2. ASSUME EndUpserts PROVE RolloutInv'
  <2>1. VersionsGrow
    BY <1>2, Unpublished DEF EndUpserts
  <2>2. pass' = [at |-> "publish", desired |-> pass.desired, todo |-> DOMAIN pass.desired]
    BY <1>2 DEF EndUpserts, RolloutTyped
  <2>4. RolloutTyped'
    BY <1>2, <2>1, <2>2 DEF EndUpserts, RolloutTyped, VersionsGrow
  <2>5. StampsExist'
    BY <1>2, <2>1, <2>2, QueueKeeps DEF EndUpserts, StampsExist, RolloutTyped, Newest
  <2> QED BY <1>2, <2>4, <2>5 DEF EndUpserts, MatcherNewEnough, ScanCurrent
<1>3. ASSUME PlannerFails PROVE RolloutInv'
  <2>1. VersionsGrow
    BY <1>3, Unpublished DEF PlannerFails
  <2>2. pass' = Idle /\ DOMAIN Idle.desired = {}
    BY <1>3 DEF PlannerFails, Idle
  <2>4. RolloutTyped'
    BY <1>3, <2>1, <2>2 DEF PlannerFails, RolloutTyped, VersionsGrow, Idle
  <2>5. StampsExist'
    BY <1>3, <2>1, <2>2, QueueKeeps DEF PlannerFails, StampsExist, RolloutTyped, Newest, Idle
  <2> QED BY <1>3, <2>4, <2>5 DEF PlannerFails, MatcherNewEnough, ScanCurrent
<1>4. ASSUME NEW s \in Stations, UpsertRow(s) PROVE RolloutInv'
  <2>1. VersionsGrow
    BY <1>4, Unpublished DEF UpsertRow
  <2>2. pass' = [at |-> "upsert", desired |-> pass.desired, todo |-> pass.todo \ {s}]
    BY <1>4 DEF UpsertRow, RolloutTyped
  <2>4. RolloutTyped'
    BY <1>4, <2>1, <2>2 DEF UpsertRow, RolloutTyped, VersionsGrow
  <2>5. StampsExist'
    BY <1>4, <2>1, <2>2, QueueKeeps DEF UpsertRow, StampsExist, RolloutTyped, Newest
  <2> QED BY <1>4, <2>4, <2>5 DEF UpsertRow, MatcherNewEnough, ScanCurrent
<1>5. ASSUME NEW s \in Stations, PublishIndex(s) PROVE RolloutInv'
  <2>1. VersionsGrow /\ Newest(s)' >= 1
    BY <1>5, Published
  <2>2. pass' = [at |-> "publish", desired |-> pass.desired, todo |-> pass.todo \ {s}]
    BY <1>5 DEF PublishIndex, RolloutTyped
  <2>3. UNCHANGED <<subscribed, stamp, outbox, queue, matcher, scanned, restarts>>
    BY <1>5 DEF PublishIndex
  <2>4. RolloutTyped'
    BY <2>1, <2>2, <2>3 DEF RolloutTyped, VersionsGrow
  <2>5. \A t \in DOMAIN pass'.desired \ pass'.todo : Newest(t)' >= 1
    <3>1. SUFFICES ASSUME NEW t \in DOMAIN pass'.desired \ pass'.todo, t # s
                   PROVE  Newest(t)' >= 1
      BY <2>1
    <3>2. t \in Stations /\ Newest(t) >= 1
      BY <1>5, <2>2, <3>1 DEF StampsExist, PublishIndex, RolloutTyped
    <3> QED BY <2>1, <3>2 DEF VersionsGrow
  <2>6. \A t \in Stations : stamp'[t] <= Newest(t)'
    BY <1>5, <2>1 DEF PublishIndex, StampsExist, RolloutTyped, VersionsGrow
  <2>7. StampsExist'
    BY <2>1, <2>3, <2>5, <2>6, QueueKeeps DEF StampsExist, Newest
  <2> QED BY <1>5, <2>4, <2>7 DEF PublishIndex, MatcherNewEnough, ScanCurrent
<1> QED BY <1>1, <1>2, <1>3, <1>4, <1>5

LEMMA SessionSteps ==
    ASSUME RolloutInv, NEW s \in Stations,
           AdoptVersion(s) \/ StopSession(s) \/ CaptureSegment(s)
    PROVE  RolloutInv'
<1> USE DEF RolloutInv
<1>0. VersionsGrow /\ versions' = versions /\ pass' = pass
  BY Unpublished DEF AdoptVersion, StopSession, CaptureSegment
<1>1. ASSUME AdoptVersion(s) PROVE RolloutInv'
  <2>1. RolloutTyped'
    BY <1>1, <1>0 DEF AdoptVersion, RolloutTyped, VersionsGrow
  <2>2. StampsExist'
    BY <1>1, <1>0, QueueKeeps DEF AdoptVersion, StampsExist, RolloutTyped, VersionsGrow, Newest
  <2> QED BY <1>1, <2>1, <2>2 DEF AdoptVersion, MatcherNewEnough, ScanCurrent
<1>2. ASSUME StopSession(s) PROVE RolloutInv'
  <2>1. RolloutTyped'
    BY <1>2, <1>0 DEF StopSession, RolloutTyped, VersionsGrow, NoSession
  <2>2. StampsExist'
    BY <1>2, <1>0, QueueKeeps
       DEF StopSession, StampsExist, RolloutTyped, VersionsGrow, Newest, NoSession
  <2> QED BY <1>2, <2>1, <2>2 DEF StopSession, MatcherNewEnough, ScanCurrent
<1>3. ASSUME CaptureSegment(s) PROVE RolloutInv'
  <2> DEFINE job == [station |-> s, stamp |-> stamp[s], wanted |-> FALSE]
  <2>1. job \in Job /\ job.stamp <= Newest(job.station)
    BY DEF Job, RolloutTyped, StampsExist
  <2> HIDE DEF job
  <2>2. outbox \in Seq(Job) /\ outbox' = Append(outbox, job)
    BY <1>3 DEF CaptureSegment, RolloutTyped, job
  <2>3. outbox' \in Seq(Job) /\ Len(outbox') = Len(outbox) + 1
    BY <2>1, <2>2
  <2>4. \A i \in DOMAIN outbox' : outbox'[i] = IF i = Len(outbox) + 1 THEN job ELSE outbox[i]
    BY <2>1, <2>2
  <2>5. \A i \in DOMAIN outbox' : outbox'[i].stamp <= Newest(outbox'[i].station)
    <3>1. \A i \in DOMAIN outbox' : i = Len(outbox) + 1 \/ i \in DOMAIN outbox
      BY <2>2, <2>3
    <3> QED BY <3>1, <2>1, <2>4 DEF StampsExist
  <2>6. RolloutTyped'
    BY <1>3, <1>0, <2>3 DEF CaptureSegment, RolloutTyped, VersionsGrow
  <2>7. StampsExist'
    BY <1>3, <1>0, <2>5 DEF CaptureSegment, StampsExist, Newest
  <2> QED BY <1>3, <2>6, <2>7 DEF CaptureSegment, MatcherNewEnough, ScanCurrent
<1> QED BY <1>1, <1>2, <1>3

\* At the end of a planning pass every job that a campaign still wants has an
\* index waiting for it.
LEMMA DispatchStep ==
    ASSUME RolloutInv, DispatchOutbox
    PROVE  RolloutInv'
<1> USE DEF RolloutInv
<1>1. PICK n \in 0 .. Len(outbox) :
          /\ queue' = queue \o [i \in 1 .. n |->
                [outbox[i] EXCEPT !.wanted = outbox[i].station \in DOMAIN pass.desired]]
          /\ outbox' = SubSeq(outbox, n + 1, Len(outbox))
  BY DEF DispatchOutbox
<1> DEFINE Sent(i) == [outbox[i] EXCEPT !.wanted = outbox[i].station \in DOMAIN pass.desired]
           batch == [i \in 1 .. n |-> Sent(i)]
<1>2. VersionsGrow /\ versions' = versions
  BY Unpublished DEF DispatchOutbox
<1>3. \A i \in 1 .. n : outbox[i] \in Job /\ i \in DOMAIN outbox
  BY DEF RolloutTyped
<1>4. \A i \in 1 .. n : /\ Sent(i) \in Job
                        /\ Sent(i).station = outbox[i].station
                        /\ Sent(i).stamp = outbox[i].stamp
                        /\ Sent(i).wanted <=> outbox[i].station \in DOMAIN pass.desired
  <2> SUFFICES ASSUME NEW i \in 1 .. n
               PROVE  /\ Sent(i) \in Job
                      /\ Sent(i).station = outbox[i].station
                      /\ Sent(i).stamp = outbox[i].stamp
                      /\ Sent(i).wanted <=> outbox[i].station \in DOMAIN pass.desired
    OBVIOUS
  <2> DEFINE wanted == outbox[i].station \in DOMAIN pass.desired
  <2>1. wanted \in BOOLEAN
    OBVIOUS
  <2>2. Sent(i) = [outbox[i] EXCEPT !.wanted = wanted]
    OBVIOUS
  <2> HIDE DEF Sent, wanted
  <2>3. /\ Sent(i) \in Job /\ Sent(i).station = outbox[i].station
        /\ Sent(i).stamp = outbox[i].stamp /\ Sent(i).wanted = wanted
    BY <1>3, <2>1, <2>2 DEF Job
  <2> QED BY <2>3 DEF wanted
<1>5. \A i \in 1 .. n : /\ Sent(i).stamp <= Newest(Sent(i).station)
                        /\ Sent(i).wanted => Newest(Sent(i).station) >= 1
  <2>1. \A s \in DOMAIN pass.desired : Newest(s) >= 1
    BY DEF DispatchOutbox, PlanningDone, StampsExist
  <2> QED BY <2>1, <1>3, <1>4 DEF StampsExist
<1> HIDE DEF Sent
<1>6. batch \in Seq(Job) /\ Len(batch) = n /\ \A i \in 1 .. n : batch[i] = Sent(i)
  BY <1>4
<1>7. queue' = queue \o batch
  BY <1>1 DEF Sent
<1> HIDE DEF batch
<1>8. queue' \in Seq(Job) /\ Len(queue') = Len(queue) + n
  BY <1>6, <1>7 DEF RolloutTyped
<1>9. \A i \in DOMAIN queue' : \/ i \in DOMAIN queue /\ queue'[i] = queue[i]
                               \/ \E j \in 1 .. n : queue'[i] = Sent(j)
  <2>1. SUFFICES ASSUME NEW i \in DOMAIN queue', i \notin DOMAIN queue
                 PROVE  i - Len(queue) \in 1 .. n /\ queue'[i] = Sent(i - Len(queue))
    BY <1>6, <1>7 DEF RolloutTyped
  <2>2. i \in 1 .. Len(queue) + n /\ i > Len(queue) /\ Len(queue) \in Nat
    BY <2>1, <1>8 DEF RolloutTyped
  <2> QED BY <2>2, <1>6, <1>7 DEF RolloutTyped
<1>10. /\ \A i \in DOMAIN queue' : queue'[i].stamp <= Newest(queue'[i].station)
       /\ \A i \in DOMAIN queue' : queue'[i].wanted => Newest(queue'[i].station) >= 1
  BY <1>5, <1>9 DEF StampsExist
<1>11. /\ outbox' \in Seq(Job)
       /\ \A i \in DOMAIN outbox' : \E j \in DOMAIN outbox : outbox'[i] = outbox[j]
  <2>1. outbox \in Seq(Job)
    BY DEF RolloutTyped
  <2>2. Len(outbox') = Len(outbox) - n /\ \A i \in 1 .. Len(outbox) - n : outbox'[i] = outbox[n + i]
    BY <1>1, <2>1
  <2>3. outbox' \in Seq(Job)
    BY <1>1, <2>1
  <2>4. \A i \in DOMAIN outbox' : n + i \in DOMAIN outbox
    BY <2>1, <2>2, <2>3
  <2> QED BY <2>2, <2>3, <2>4
<1>12. \A i \in DOMAIN outbox' : outbox'[i].stamp <= Newest(outbox'[i].station)
  BY <1>11 DEF StampsExist
<1>13. pass' = Idle /\ DOMAIN Idle.desired = {}
  BY DEF DispatchOutbox, Idle
<1>14. RolloutTyped'
  BY <1>2, <1>8, <1>11, <1>13 DEF DispatchOutbox, RolloutTyped, VersionsGrow, Idle
<1>15. StampsExist'
  BY <1>2, <1>10, <1>12, <1>13 DEF DispatchOutbox, StampsExist, Newest, Idle
<1> QED BY <1>14, <1>15 DEF DispatchOutbox, MatcherNewEnough, ScanCurrent

LEMMA ScanStep ==
    ASSUME RolloutInv, NEW i \in DOMAIN queue, ScanSegment(i)
    PROVE  RolloutInv'
<1> USE DEF RolloutInv
<1> DEFINE job == queue[i]
           chosen == MatcherFor(job)
<1>1. job \in Job /\ job.stamp <= Newest(job.station) /\ (job.wanted => Newest(job.station) >= 1)
  BY DEF RolloutTyped, StampsExist
<1>2. /\ scanned' = [station |-> job.station, stamp |-> job.stamp, wanted |-> job.wanted,
                     version |-> chosen.version,
                     of |-> IF chosen = NoMatcher THEN "none" ELSE chosen.key[1]]
      /\ matcher' = IF chosen = NoMatcher THEN matcher ELSE chosen
      /\ queue' = [j \in 1 .. Len(queue) - 1 |-> IF j < i THEN queue[j] ELSE queue[j + 1]]
      /\ UNCHANGED <<versions, subscribed, pass, stamp, outbox, restarts>>
  BY DEF ScanSegment
<1> HIDE DEF job
<1>3. VersionsGrow
  BY <1>2, Unpublished
<1>4. Newest(job.station) \in Nat /\ Key(job) \in Stations \X Int
  BY <1>1, <1>3 DEF VersionsGrow, Job, Key
<1>5. ASSUME matcher.key = Key(job) PROVE ScanCurrent' /\ MatcherNewEnough'
  <2>1. chosen = matcher /\ matcher # NoMatcher
    BY <1>4, <1>5 DEF MatcherFor, NoMatcher
  <2>2. matcher.key[1] = job.station /\ matcher.key[2] = job.stamp
    BY <1>5 DEF Key
  <2> HIDE DEF chosen
  <2>3. ScanCurrent' /\ matcher' = matcher
    BY <1>2, <2>1, <2>2 DEF ScanCurrent, MatcherNewEnough
  <2>4. MatcherNewEnough'
    BY <2>3 DEF MatcherNewEnough
  <2> QED BY <2>3, <2>4
<1>6. ASSUME matcher.key # Key(job), Newest(job.station) > 0 PROVE ScanCurrent' /\ MatcherNewEnough'
  <2>1. chosen = [key |-> Key(job), version |-> Newest(job.station)]
    BY <1>6 DEF MatcherFor
  <2>2. Key(job)[1] = job.station /\ Key(job)[2] = job.stamp
    BY DEF Key
  <2>3. chosen # NoMatcher
    BY <2>1, <1>6 DEF NoMatcher
  <2> HIDE DEF chosen
  <2>4. matcher' = chosen /\ MatcherNewEnough'
    BY <1>1, <1>2, <1>4, <1>6, <2>1, <2>2, <2>3 DEF MatcherNewEnough
  <2>5. ScanCurrent'
    BY <1>1, <1>2, <1>6, <2>1, <2>2, <2>3 DEF ScanCurrent
  <2> QED BY <2>4, <2>5
<1>7. ASSUME matcher.key # Key(job), ~(Newest(job.station) > 0)
      PROVE  ScanCurrent' /\ MatcherNewEnough'
  <2>1. chosen = NoMatcher
    BY <1>7 DEF MatcherFor
  <2> HIDE DEF chosen
  <2>2. ScanCurrent' /\ matcher' = matcher
    BY <1>1, <1>2, <1>4, <1>7, <2>1 DEF ScanCurrent, NoMatcher, Job
  <2> QED BY <2>2 DEF MatcherNewEnough
<1>8. ScanCurrent' /\ MatcherNewEnough'
  BY <1>5, <1>6, <1>7
<1>9. queue' \in Seq(Job) /\ \A j \in DOMAIN queue' : \E k \in DOMAIN queue : queue'[j] = queue[k]
  <2>1. queue \in Seq(Job) /\ Len(queue) - 1 \in Nat /\ Len(queue) \in Nat
    BY DEF RolloutTyped
  <2>2. \A j \in 1 .. Len(queue) - 1 : j \in DOMAIN queue /\ j + 1 \in DOMAIN queue
    BY <2>1
  <2>3. \A k \in DOMAIN queue : queue[k] \in Job
    BY <2>1
  <2>4. DOMAIN queue' = 1 .. Len(queue) - 1 /\ \A j \in 1 .. Len(queue) - 1 : queue'[j] \in Job
    BY <1>2, <2>2, <2>3
  <2>5. queue' \in Seq(Job)
    BY <1>2, <2>1, <2>2, <2>3
  <2> QED BY <1>2, <2>2, <2>4, <2>5
<1>10. RolloutTyped'
  BY <1>2, <1>3, <1>9 DEF RolloutTyped, VersionsGrow
<1>11. StampsExist'
  BY <1>2, <1>9 DEF StampsExist, Newest
<1> QED BY <1>8, <1>10, <1>11

LEMMA RestartStep ==
    ASSUME RolloutInv, WorkerRestarts
    PROVE  RolloutInv'
<1>1. VersionsGrow
  BY Unpublished DEF WorkerRestarts, RolloutInv
<1> QED BY <1>1, QueueKeeps DEF RolloutInv, WorkerRestarts, RolloutTyped, VersionsGrow, StampsExist,
                                Newest, MatcherNewEnough, ScanCurrent

LEMMA RolloutStarts == RolloutInit => RolloutInv
<1> SUFFICES ASSUME RolloutInit PROVE RolloutInv
  OBVIOUS
<1>1. DOMAIN Idle.desired = {}
  BY DEF Idle
<1>2. RolloutTyped
  BY <1>1 DEF RolloutInit, RolloutTyped, Idle, NoSession
<1>3. StampsExist
  BY <1>1 DEF RolloutInit, StampsExist, Newest, NoSession, Idle
<1> QED BY <1>2, <1>3 DEF RolloutInit, RolloutInv, MatcherNewEnough, ScanCurrent, NoScan

(* However many stations, versions, restarts and segments on their way: a    *)
(* segment is scanned with an index of its station no older than its stamp,  *)
(* and with one at all if a campaign asked for the station when it was       *)
(* dispatched.                                                               *)
THEOREM MatchedWithTheRightIndex == RolloutSpec => []MatcherIsCurrent
<1>1. RolloutInv /\ [RolloutNext]_rolloutVars => RolloutInv'
  <2> SUFFICES ASSUME RolloutInv, [RolloutNext]_rolloutVars PROVE RolloutInv'
    OBVIOUS
  <2>1. CASE UNCHANGED rolloutVars
    BY <2>1 DEF rolloutVars, RolloutInv, RolloutTyped, StampsExist, MatcherNewEnough, ScanCurrent,
                Newest
  <2>2. CASE RolloutNext
    BY <2>2, PlannerSteps, SessionSteps, DispatchStep, ScanStep, RestartStep DEF RolloutNext
  <2> QED BY <2>1, <2>2
<1>2. RolloutInv => MatcherIsCurrent
  BY DEF RolloutInv, ScanCurrent, MatcherIsCurrent
<1> QED BY <1>1, <1>2, RolloutStarts, PTL DEF RolloutSpec

-----------------------------------------------------------------------------
\* 5. The turns of the stations.

RotationTyped ==
    /\ assigned \subseteq StationIds /\ sessions \subseteq StationIds /\ dead \subseteq sessions
    /\ served \in [StationIds -> Nat]
    /\ ahead \subseteq StationIds \X StationIds
    /\ IsFiniteSet(sessions) /\ Cardinality(sessions) <= Slots

\* Who has got a turn since another one waits was served later than that one.
AheadServedLater ==
    \A p \in ahead : p[2] \notin sessions /\ served[p[2]] < served[p[1]]

RotationInv == RotationTyped /\ AheadServedLater

LEMMA RotationConstants ==
    /\ StationIds \subseteq Nat /\ IsFiniteSet(StationIds) /\ Slots \in Nat
BY RotationAssumption DEF RotationAssumption

LEMMA SomeStations ==
    ASSUME NEW S, S \subseteq StationIds
    PROVE  IsFiniteSet(S) /\ Cardinality(S) \in Nat
BY RotationConstants, FS_Subset, FS_CardinalityType

LEMMA ProperSubset ==
    ASSUME NEW T, IsFiniteSet(T), NEW S, S \subseteq T, NEW x \in T, x \notin S
    PROVE  Cardinality(S) \in Nat /\ Cardinality(T) \in Nat /\ Cardinality(S) < Cardinality(T)
<1>1. IsFiniteSet(S) /\ Cardinality(S) <= Cardinality(T) /\ Cardinality(S) # Cardinality(T)
  BY FS_Subset
<1> QED BY <1>1, FS_CardinalityType

\* The queue for a turn is one: no two stations stand at the same place.
LEMMA QueueIsOne ==
    ASSUME RotationTyped, NEW q \in StationIds, NEW r \in StationIds, NEW s \in StationIds
    PROVE  /\ ~Before(r, r)
           /\ Before(q, r) /\ Before(r, s) => Before(q, s)
           /\ r # s => Before(r, s) \/ Before(s, r)
<1>1. /\ served[q] \in Nat /\ served[r] \in Nat /\ served[s] \in Nat
      /\ q \in Nat /\ r \in Nat /\ s \in Nat
  BY RotationConstants DEF RotationTyped
<1> QED BY <1>1 DEF Before

\* Fewer stand before who stands further in front.
LEMMA FewerBefore ==
    ASSUME RotationTyped, NEW S, S \subseteq StationIds, NEW r \in S, NEW s \in S, Before(s, r)
    PROVE  Cardinality({q \in S : Before(q, s)}) < Cardinality({q \in S : Before(q, r)})
<1> DEFINE A == {q \in S : Before(q, s)}
           B == {q \in S : Before(q, r)}
<1>1. A \subseteq B /\ s \in B /\ s \notin A
  BY QueueIsOne
<1>2. IsFiniteSet(B)
  BY SomeStations
<1> HIDE DEF A, B
<1>3. Cardinality(A) < Cardinality(B)
  BY <1>1, <1>2, ProperSubset
<1> QED BY <1>3 DEF A, B

\* Who is behind another one is not taken before it.
LEMMA FirstInOrder ==
    ASSUME RotationTyped, NEW S, S \subseteq StationIds, NEW n \in Int,
           NEW r \in First(S, n), NEW s \in S, Before(s, r)
    PROVE  s \in First(S, n)
<1> DEFINE a == Cardinality({q \in S : Before(q, s)})
           b == Cardinality({q \in S : Before(q, r)})
<1>1. r \in S /\ b < n
  BY DEF First
<1>2. a < b
  BY <1>1, FewerBefore
<1>3. a \in Nat /\ b \in Nat
  BY SomeStations
<1>4. a < n
  <2> HIDE DEF a, b
  <2> QED BY <1>1, <1>2, <1>3
<1> QED BY <1>4 DEF First

\* No more are taken than there is room for: the places in the queue differ.
LEMMA FirstFit ==
    ASSUME RotationTyped, NEW S, S \subseteq StationIds, NEW n \in Nat
    PROVE  IsFiniteSet(First(S, n)) /\ Cardinality(First(S, n)) <= n
<1> DEFINE F == First(S, n)
           place == [s \in F |-> 1 + Cardinality({q \in S : Before(q, s)})]
<1>1. F \subseteq S /\ IsFiniteSet(F)
  BY SomeStations DEF First
<1>2. \A s \in F : /\ Cardinality({q \in S : Before(q, s)}) \in Nat
                   /\ Cardinality({q \in S : Before(q, s)}) < n
  BY SomeStations DEF First
<1>3. place \in [F -> 1 .. n]
  <2> SUFFICES ASSUME NEW s \in F
               PROVE  1 + Cardinality({q \in S : Before(q, s)}) \in 1 .. n
    OBVIOUS
  <2>1. PICK k \in Nat : k = Cardinality({q \in S : Before(q, s)}) /\ k < n
    BY <1>2
  <2>2. 1 + k \in 1 .. n
    BY <2>1
  <2> QED BY <2>1, <2>2
<1>4. ASSUME NEW r \in F, NEW s \in F, r # s
      PROVE  place[r] # place[s]
  <2>1. PICK a \in Nat, b \in Nat : /\ a = Cardinality({q \in S : Before(q, r)})
                                    /\ b = Cardinality({q \in S : Before(q, s)})
    BY <1>2
  <2>2. a < b \/ b < a
    <3>1. r \in S /\ s \in S /\ r \in StationIds /\ s \in StationIds
      BY <1>1
    <3>2. CASE Before(r, s)
      BY <2>1, <3>1, <3>2, FewerBefore
    <3>3. CASE Before(s, r)
      BY <2>1, <3>1, <3>3, FewerBefore
    <3> QED BY <1>4, <3>1, <3>2, <3>3, QueueIsOne
  <2>3. place[r] = 1 + a /\ place[s] = 1 + b
    BY <2>1
  <2> HIDE DEF place
  <2> QED BY <2>1, <2>2, <2>3
<1>5. place \in Injection(F, 1 .. n)
  BY <1>3, <1>4 DEF Injection, IsInjective
<1>6. IsFiniteSet(1 .. n) /\ Cardinality(1 .. n) = n
  BY FS_Interval
<1>7. Cardinality(F) <= Cardinality(1 .. n)
  BY <1>5, <1>6, FS_Injection, Zenon
<1> QED BY <1>1, <1>6, <1>7

\* The ledger tells the stations apart as before, and who was served now is
\* after all the others.
LEMMA LedgerInOrder ==
    ASSUME NEW ledger \in [StationIds -> Nat], NEW later, later \subseteq StationIds
    PROVE  /\ Reranked(ledger, later) \in [StationIds -> Nat]
           /\ \A r, s \in StationIds :
                  s \notin later /\ (r \in later \/ ledger[s] < ledger[r])
                  => Reranked(ledger, later)[s] < Reranked(ledger, later)[r]
<1> DEFINE old == {ledger[s] : s \in StationIds \ later} \cup {NotServed}
           below(v) == {w \in old : w < v}
<1>1. IsFiniteSet(old) /\ old \subseteq Nat
  <2>1. IsFiniteSet(StationIds \ later)
    BY SomeStations
  <2>2. IsFiniteSet({ledger[s] : s \in StationIds \ later})
    <3> DEFINE T == {ledger[s] : s \in StationIds \ later}
               f == [s \in StationIds \ later |-> ledger[s]]
    <3>1. f \in Surjection(StationIds \ later, T)
      BY DEF Surjection
    <3> HIDE DEF f, T
    <3>2. IsFiniteSet(T)
      BY <2>1, <3>1, FS_Surjection
    <3> QED BY <3>2 DEF T
  <2>3. IsFiniteSet(old)
    BY <2>2, FS_AddElement
  <2> QED BY <2>3 DEF NotServed
<1>2. \A v : IsFiniteSet(below(v)) /\ Cardinality(below(v)) \in Nat
  BY <1>1, FS_Subset, FS_CardinalityType
<1>3. Cardinality(old) \in Nat
  BY <1>1, FS_CardinalityType
<1>4. \A v \in old : Cardinality(below(v)) < Cardinality(old)
  <2> SUFFICES ASSUME NEW v \in old
               PROVE  Cardinality(below(v)) < Cardinality(old)
    OBVIOUS
  <2>1. below(v) \subseteq old /\ v \notin below(v)
    BY <1>1
  <2> HIDE DEF old, below
  <2> QED BY <1>1, <2>1, ProperSubset
<1>5. \A v \in old, u \in Nat : v < u => Cardinality(below(v)) < Cardinality(below(u))
  <2> SUFFICES ASSUME NEW v \in old, NEW u \in Nat, v < u
               PROVE  Cardinality(below(v)) < Cardinality(below(u))
    OBVIOUS
  <2>1. below(v) \subseteq below(u) /\ v \in below(u) /\ v \notin below(v)
    BY <1>1
  <2>2. IsFiniteSet(below(u))
    BY <1>2
  <2> HIDE DEF old, below
  <2> QED BY <2>1, <2>2, ProperSubset
<1>6. \A s \in StationIds : Reranked(ledger, later)[s] =
          IF s \in later THEN Cardinality(old) ELSE Cardinality(below(ledger[s]))
  BY DEF Reranked
<1>7. \A s \in StationIds \ later : ledger[s] \in old
  OBVIOUS
<1>8. Reranked(ledger, later) = [s \in StationIds |->
          IF s \in later THEN Cardinality(old) ELSE Cardinality(below(ledger[s]))]
  BY DEF Reranked
<1> HIDE DEF old, below
<1>9. Reranked(ledger, later) \in [StationIds -> Nat]
  BY <1>2, <1>3, <1>8
<1>10. ASSUME NEW r \in StationIds, NEW s \in StationIds, s \notin later,
              r \in later \/ ledger[s] < ledger[r]
       PROVE  Reranked(ledger, later)[s] < Reranked(ledger, later)[r]
  <2>1. Reranked(ledger, later)[s] = Cardinality(below(ledger[s])) /\ ledger[s] \in old
    BY <1>6, <1>7, <1>10
  <2>2. CASE r \in later
    BY <1>4, <1>6, <2>1, <2>2
  <2>3. CASE r \notin later
    BY <1>5, <1>6, <1>10, <2>1, <2>3
  <2> QED BY <2>2, <2>3
<1> QED BY <1>9, <1>10

\* What one cycle does.
LEMMA CycleIs ==
    ASSUME RotationTyped, NEW lag, NEW hold, Reconcile(lag, hold)
    PROVE  \E rotated, started, free, ledger :
              /\ rotated \subseteq sessions \cap assigned
              /\ free \in Nat /\ started = First(assigned \ sessions, free)
              /\ Cardinality((sessions \cap assigned) \ rotated) + free <= Slots
              /\ ledger \in [StationIds -> Nat] /\ \A s \in assigned : ledger[s] = served[s]
              /\ sessions' = (((sessions \cap assigned) \ rotated) \cup started) \ dead
              /\ served' = Reranked(ledger, rotated \cup started)
              /\ ahead' = {p \in (ahead \cup (started \X ((assigned \ sessions) \ started))) :
                              p[1] \in assigned /\ p[2] \in (assigned \ sessions) \ started}
              /\ dead' = {} /\ assigned' = assigned
<1> DEFINE staying == sessions \cap assigned
           waiting == assigned \ sessions
           at == [s \in StationIds |-> Min({elapsed[s] + lag, MaxListenerSlice})]
           going(R) == Cardinality(staying \ R)
           free(R) == Max({Slots - going(R), 0})
           ledger == [s \in StationIds |-> IF s \in assigned THEN served[s] ELSE NotServed]
<1>1. PICK rotated \in Rotations(staying, waiting, at, hold) :
         /\ sessions' = ((staying \ rotated) \cup First(waiting, free(rotated))) \ dead
         /\ served' = Reranked(ledger, rotated \cup First(waiting, free(rotated)))
         /\ ahead' = {p \in (ahead \cup (First(waiting, free(rotated))
                                            \X (waiting \ First(waiting, free(rotated))))) :
                         p[1] \in assigned /\ p[2] \in waiting \ First(waiting, free(rotated))}
         /\ dead' = {} /\ assigned' = assigned
  BY Zenon DEF Reconcile
<1>2. rotated \subseteq staying
  BY DEF Rotations
<1>3. going(rotated) \in Nat /\ going(rotated) <= Slots
  <2>1. IsFiniteSet(sessions) /\ Cardinality(sessions) <= Slots /\ Cardinality(sessions) \in Nat
    BY FS_CardinalityType DEF RotationTyped
  <2>2. /\ Cardinality(staying \ rotated) \in Nat
        /\ Cardinality(staying \ rotated) <= Cardinality(sessions)
    BY <2>1, FS_Subset, FS_CardinalityType
  <2> QED BY <2>1, <2>2, RotationConstants
<1>4. free(rotated) = Slots - going(rotated)
  <2>1. PICK k \in Nat : k = going(rotated) /\ k <= Slots
    BY <1>3
  <2>2. PICK m \in Nat : m = Slots - k
    BY <2>1, RotationConstants
  <2>3. Max({m, 0}) = m
    BY <2>2 DEF Max
  <2> QED BY <2>1, <2>2, <2>3
<1>5. free(rotated) \in Nat /\ going(rotated) + free(rotated) <= Slots
  BY <1>3, <1>4, RotationConstants
<1>6. ledger \in [StationIds -> Nat] /\ \A s \in assigned : ledger[s] = served[s]
  BY DEF RotationTyped, NotServed
<1> HIDE DEF ledger, free
<1>7. PICK f, started, l : f = free(rotated) /\ started = First(waiting, f) /\ l = ledger
  OBVIOUS
<1>8. Cardinality(staying \ rotated) + f <= Slots /\ f \in Nat
  BY <1>5, <1>7
<1> QED BY <1>1, <1>2, <1>6, <1>7, <1>8

LEMMA CycleStep ==
    ASSUME RotationInv, NEW lag, NEW hold, Reconcile(lag, hold)
    PROVE  /\ RotationInv'
           /\ \A r, s : /\ <<r, s>> \in ahead /\ s \in assigned \ (sessions \cup sessions')
                        /\ r \in sessions'
                        => r \in sessions
<1>1. PICK rotated, started, free, ledger :
         /\ rotated \subseteq sessions \cap assigned
         /\ free \in Nat /\ started = First(assigned \ sessions, free)
         /\ Cardinality((sessions \cap assigned) \ rotated) + free <= Slots
         /\ ledger \in [StationIds -> Nat] /\ \A s \in assigned : ledger[s] = served[s]
         /\ sessions' = (((sessions \cap assigned) \ rotated) \cup started) \ dead
         /\ served' = Reranked(ledger, rotated \cup started)
         /\ ahead' = {p \in (ahead \cup (started \X ((assigned \ sessions) \ started))) :
                         p[1] \in assigned /\ p[2] \in (assigned \ sessions) \ started}
         /\ dead' = {} /\ assigned' = assigned
  BY CycleIs DEF RotationInv
<1> DEFINE waiting == assigned \ sessions
           staying == (sessions \cap assigned) \ rotated
<1>2. /\ assigned \subseteq StationIds /\ sessions \subseteq StationIds /\ dead \subseteq sessions
      /\ served \in [StationIds -> Nat] /\ ahead \subseteq StationIds \X StationIds
  BY DEF RotationInv, RotationTyped
<1>3. started \subseteq waiting
  BY <1>1 DEF First
<1>4. rotated \cup started \subseteq StationIds
  BY <1>1, <1>2, <1>3
<1>5. /\ served' \in [StationIds -> Nat]
      /\ \A r, s \in StationIds :
             s \notin rotated \cup started /\ (r \in rotated \cup started \/ ledger[s] < ledger[r])
             => served'[s] < served'[r]
  BY <1>1, <1>4, LedgerInOrder
<1>6. IsFiniteSet(sessions') /\ Cardinality(sessions') <= Slots
  <2>1. IsFiniteSet(staying) /\ Cardinality(staying) \in Nat
    BY <1>2, SomeStations
  <2>2. waiting \subseteq StationIds /\ RotationTyped
    BY <1>2 DEF RotationInv
  <2>3. IsFiniteSet(started) /\ Cardinality(started) <= free
    BY <1>1, <2>2, FirstFit
  <2>4. staying \cap started = {}
    BY <1>3
  <2>5. IsFiniteSet(staying \cup started)
        /\ Cardinality(staying \cup started) = Cardinality(staying) + Cardinality(started)
    <3>1. Cardinality(staying \cap started) = 0
      BY <2>4, FS_EmptySet
    <3>2. Cardinality(started) \in Nat
      BY <2>3, FS_CardinalityType
    <3> HIDE DEF staying
    <3>3. /\ IsFiniteSet(staying \cup started)
          /\ Cardinality(staying \cup started) =
                Cardinality(staying) + Cardinality(started) - Cardinality(staying \cap started)
      BY <2>1, <2>3, FS_Union
    <3> QED BY <2>1, <3>1, <3>2, <3>3
  <2>6. sessions' \subseteq staying \cup started
    BY <1>1
  <2>7. /\ IsFiniteSet(sessions') /\ Cardinality(sessions') \in Nat
        /\ Cardinality(sessions') <= Cardinality(staying \cup started)
    BY <2>5, <2>6, FS_Subset, FS_CardinalityType
  <2>8. Cardinality(staying) + free <= Slots
    BY <1>1
  <2>9. Cardinality(started) \in Nat
    BY <2>3, FS_CardinalityType
  <2> HIDE DEF staying
  <2> QED BY <1>1, <2>1, <2>3, <2>5, <2>7, <2>8, <2>9, RotationConstants
<1>7. RotationTyped'
  <2>1. sessions' \subseteq StationIds /\ dead' \subseteq sessions' /\ assigned' \subseteq StationIds
    BY <1>1, <1>2, <1>3
  <2>2. ahead' \subseteq StationIds \X StationIds
    BY <1>1, <1>2, <1>3
  <2> QED BY <1>5, <1>6, <2>1, <2>2 DEF RotationTyped
<1>8. AheadServedLater'
  <2> SUFFICES ASSUME NEW p \in ahead'
               PROVE  p[2] \notin sessions' /\ served'[p[2]] < served'[p[1]]
    BY DEF AheadServedLater
  <2>1. p[1] \in assigned /\ p[2] \in waiting \ started
        /\ (p \in ahead \/ p \in started \X (waiting \ started))
    BY <1>1
  <2>2. p[2] \notin sessions' /\ p[2] \notin rotated \cup started
    BY <1>1, <2>1
  <2>3. p[1] \in StationIds /\ p[2] \in StationIds
    BY <1>2, <2>1
  <2>4. CASE p \in started \X (waiting \ started)
    <3>1. p[1] \in started
      BY <2>4
    <3> QED BY <1>5, <2>2, <2>3, <3>1
  <2>5. CASE p \in ahead
    <3>1. served[p[2]] < served[p[1]]
      BY <2>5 DEF RotationInv, AheadServedLater
    <3>2. ledger[p[2]] < ledger[p[1]]
      BY <1>1, <2>1, <3>1
    <3> QED BY <1>5, <2>2, <2>3, <3>2
  <2> QED BY <2>1, <2>4, <2>5
<1>9. ASSUME NEW r, NEW s, <<r, s>> \in ahead, s \in assigned \ (sessions \cup sessions'),
             r \in sessions', r \notin sessions
      PROVE  FALSE
  <2>1. r \in started /\ s \in waiting /\ r \in StationIds /\ s \in StationIds
    BY <1>1, <1>2, <1>3, <1>9
  <2>2. served[s] < served[r]
    BY <1>9 DEF RotationInv, AheadServedLater
  <2>3. Before(s, r)
    BY <2>2 DEF Before
  <2>4. s \in started
    <3>1. waiting \subseteq StationIds /\ free \in Int /\ RotationTyped
      BY <1>1, <1>2 DEF RotationInv
    <3> QED BY <1>1, <2>1, <2>3, <3>1, FirstInOrder
  <2>5. s \in sessions'
    BY <1>1, <1>2, <2>1, <2>4
  <2> QED BY <1>9, <2>5
<1> QED BY <1>7, <1>8, <1>9 DEF RotationInv

LEMMA RotationStep ==
    ASSUME RotationInv, [RotationNext]_rotationVars
    PROVE  /\ RotationInv'
           /\ \A r, s : /\ <<r, s>> \in ahead /\ s \in assigned \ (sessions \cup sessions')
                        /\ r \in sessions'
                        => r \in sessions
<1>1. CASE Cycle
  BY <1>1, CycleStep DEF Cycle
<1>2. ASSUME NEW s \in StationIds, TaskEnds(s)
      PROVE  RotationInv' /\ sessions' = sessions
  BY <1>2 DEF TaskEnds, RotationInv, RotationTyped, AheadServedLater
<1>3. ASSUME NEW S \in SUBSET StationIds, Reassign(S)
      PROVE  RotationInv' /\ sessions' = sessions
  BY <1>3 DEF Reassign, RotationInv, RotationTyped, AheadServedLater
<1>4. CASE UNCHANGED rotationVars
  BY <1>4 DEF rotationVars, RotationInv, RotationTyped, AheadServedLater
<1>5. UNCHANGED rotationVars => sessions' = sessions
  BY DEF rotationVars
<1> QED BY <1>1, <1>2, <1>3, <1>4, <1>5 DEF RotationNext

LEMMA RotationStarts == RotationInit => RotationInv
<1> SUFFICES ASSUME RotationInit PROVE RotationInv
  OBVIOUS
<1>1. sessions = {} /\ ahead = {} /\ dead = {} /\ assigned \subseteq StationIds
      /\ served \in [StationIds -> Nat]
  BY DEF RotationInit, NotServed
<1>2. IsFiniteSet(sessions) /\ Cardinality(sessions) <= Slots
  BY <1>1, FS_EmptySet, RotationConstants
<1> QED BY <1>1, <1>2 DEF RotationInv, RotationTyped, AheadServedLater

(* However many stations share however many slots, and whatever dies, holds  *)
(* on or is added in between: the listener never runs more sessions than it  *)
(* has slots for (RADIO_LISTENER_MAX_SESSIONS).                              *)
THEOREM SlotsAreEnough == RotationSpec => [](Cardinality(sessions) <= Slots)
<1>1. RotationInv /\ [RotationNext]_rotationVars => RotationInv'
  BY RotationStep
<1>2. RotationInv => Cardinality(sessions) <= Slots
  BY DEF RotationInv, RotationTyped
<1> QED BY <1>1, <1>2, RotationStarts, PTL DEF RotationSpec

(* While a station waits, no other one that stays assigned gets two turns:   *)
(* the ledger puts it behind after the first.                                *)
THEOREM NobodyIsOvertaken == RotationSpec => NoOvertaking
<1>1. RotationInv /\ [RotationNext]_rotationVars => RotationInv'
  BY RotationStep
<1>2. RotationInv /\ [RotationNext]_rotationVars =>
         [\A r, s \in StationIds :
             <<r, s>> \in ahead /\ s \in assigned \ (sessions \cup sessions') =>
                 ~(r \in sessions' /\ r \notin sessions)]_rotationVars
  BY RotationStep
<1> QED BY <1>1, <1>2, RotationStarts, PTL DEF RotationSpec, NoOvertaking

-----------------------------------------------------------------------------
\* 6. The scan of a transcript.  Ends of a text.

(* A set of numbers has a lowest and, where it is bounded, a highest one:      *)
(* what the proofs below use for an induction.                               *)
LEMMA LowestNumber ==
    ASSUME NEW T, T \subseteq Nat, T # {}
    PROVE  \E x \in T : \A y \in T : x <= y
<1>1. PICK x \in T : \A y \in T : <<y, x>> \notin OpToRel(<, Nat)
    BY NatLessThanWellFounded, WFMin
<1>2. \A y \in T : y < x => <<y, x>> \in OpToRel(<, Nat)
    BY DEF OpToRel
<1>3. ASSUME NEW y \in T
      PROVE  x <= y
    <2>1. x \in Nat /\ y \in Nat /\ ~(y < x)
        BY <1>1, <1>2
    <2>2. QED
        BY <2>1
<1>4. QED
    BY <1>3

LEMMA HighestNumber ==
    ASSUME NEW T, NEW n \in Nat, T \subseteq 0 .. n, T # {}
    PROVE  \E x \in T : \A y \in T : y <= x
<1> DEFINE below == {k \in 0 .. n : n - k \in T}
<1>1. below \subseteq Nat
    OBVIOUS
<1>2. below # {}
    <2>1. PICK x \in T : TRUE
        OBVIOUS
    <2>2. n - x \in 0 .. n /\ n - (n - x) = x
        BY <2>1
    <2>3. QED
        BY <2>1, <2>2
<1>3. PICK k \in below : \A j \in below : k <= j
    <2> HIDE DEF below
    <2>1. QED
        BY <1>1, <1>2, LowestNumber
<1>4. ASSUME NEW y \in T
      PROVE  y <= n - k
    <2>1. n - y \in 0 .. n /\ n - (n - y) = y
        BY <1>4
    <2>2. k <= n - y
        BY <1>3, <1>4, <2>1
    <2>3. QED
        BY <1>3, <2>1, <2>2
<1>5. QED
    BY <1>3, <1>4

-----------------------------------------------------------------------------
\* x is what s ends in.
EndsIn(x, s) ==
    /\ Len(x) <= Len(s)
    /\ \A i \in 1 .. Len(x) : x[i] = s[Len(s) - Len(x) + i]

LEMMA EndsInItself ==
    ASSUME NEW V, NEW s \in Seq(V)
    PROVE  EndsIn(s, s) /\ EndsIn(Root, s)
BY DEF EndsIn, Root

\* A text may end in several others: they are ordered by length.
LEMMA EndsInTransitive ==
    ASSUME NEW V, NEW x \in Seq(V), NEW y \in Seq(V), NEW s \in Seq(V), EndsIn(x, y), EndsIn(y, s)
    PROVE  EndsIn(x, s)
<1>1. Len(x) \in Nat /\ Len(y) \in Nat /\ Len(s) \in Nat
    OBVIOUS
<1>2. ASSUME NEW i \in 1 .. Len(x)
      PROVE  x[i] = s[Len(s) - Len(x) + i]
    <2>1. PICK j : j = Len(y) - Len(x) + i
        OBVIOUS
    <2>2. j \in 1 .. Len(y) /\ Len(s) - Len(y) + j = Len(s) - Len(x) + i
        BY <1>1, <2>1 DEF EndsIn
    <2>3. x[i] = y[j] /\ y[j] = s[Len(s) - Len(y) + j]
        BY <2>1, <2>2 DEF EndsIn
    <2>4. QED
        BY <2>2, <2>3
<1>3. QED
    BY <1>1, <1>2 DEF EndsIn

LEMMA EndsInNested ==
    ASSUME NEW V, NEW x \in Seq(V), NEW y \in Seq(V), NEW s \in Seq(V),
           EndsIn(x, s), EndsIn(y, s), Len(x) <= Len(y)
    PROVE  EndsIn(x, y)
<1>1. Len(x) \in Nat /\ Len(y) \in Nat /\ Len(s) \in Nat
    OBVIOUS
<1>2. ASSUME NEW i \in 1 .. Len(x)
      PROVE  x[i] = y[Len(y) - Len(x) + i]
    <2>1. PICK j : j = Len(y) - Len(x) + i
        OBVIOUS
    <2>2. j \in 1 .. Len(y) /\ Len(s) - Len(y) + j = Len(s) - Len(x) + i
        BY <1>1, <2>1 DEF EndsIn
    <2>3. x[i] = s[Len(s) - Len(x) + i] /\ y[j] = s[Len(s) - Len(y) + j]
        BY <2>1, <2>2 DEF EndsIn
    <2>4. QED
        BY <2>1, <2>2, <2>3
<1>3. QED
    BY <1>1, <1>2 DEF EndsIn

LEMMA EndsInSame ==
    ASSUME NEW V, NEW x \in Seq(V), NEW y \in Seq(V), NEW s \in Seq(V),
           EndsIn(x, s), EndsIn(y, s), Len(x) = Len(y)
    PROVE  x = y
<1>1. \A i \in 1 .. Len(x) : x[i] = y[i]
    BY DEF EndsIn
<1>2. QED
    BY <1>1, SeqEqual

\* Ends grow with the text by a symbol, and shrink with it.
LEMMA EndsInGrow ==
    ASSUME NEW V, NEW x \in Seq(V), NEW s \in Seq(V), NEW c \in V, EndsIn(x, s)
    PROVE  EndsIn(Append(x, c), Append(s, c))
<1>1. /\ Len(Append(x, c)) = Len(x) + 1 /\ Len(Append(s, c)) = Len(s) + 1
      /\ Len(x) \in Nat /\ Len(s) \in Nat
      /\ Append(x, c)[Len(x) + 1] = c /\ Append(s, c)[Len(s) + 1] = c
      /\ \A i \in 1 .. Len(x) : Append(x, c)[i] = x[i]
      /\ \A i \in 1 .. Len(s) : Append(s, c)[i] = s[i]
    BY AppendProperties
<1>2. ASSUME NEW i \in 1 .. Len(x) + 1
      PROVE  Append(x, c)[i] = Append(s, c)[Len(s) - Len(x) + i]
    <2>1. CASE i = Len(x) + 1
        <3>1. Len(s) - Len(x) + i = Len(s) + 1
            BY <1>1, <2>1
        <3>2. QED
            BY <1>1, <2>1, <3>1
    <2>2. CASE i # Len(x) + 1
        <3>1. i \in 1 .. Len(x) /\ Len(s) - Len(x) + i \in 1 .. Len(s)
            BY <1>1, <2>2 DEF EndsIn
        <3>2. x[i] = s[Len(s) - Len(x) + i]
            BY <3>1 DEF EndsIn
        <3>3. QED
            BY <1>1, <3>1, <3>2
    <2>3. QED
        BY <2>1, <2>2
<1>3. Len(x) + 1 <= Len(s) + 1 /\ \A i : (Len(s) + 1) - (Len(x) + 1) + i = Len(s) - Len(x) + i
    BY <1>1 DEF EndsIn
<1>4. QED
    BY <1>1, <1>2, <1>3 DEF EndsIn

LEMMA FrontIs ==
    ASSUME NEW V, NEW y \in Seq(V), y # << >>
    PROVE  /\ Front(y) \in Seq(V) /\ Len(y) \in Nat /\ Len(y) >= 1
           /\ Len(Front(y)) = Len(y) - 1
           /\ Last(y) \in V /\ y = Append(Front(y), Last(y))
           /\ \A i \in 1 .. Len(y) - 1 : Front(y)[i] = y[i]
<1>1. Len(y) \in Nat /\ Len(y) >= 1
    BY EmptySeq
<1>2. Front(y) \in Seq(V) /\ Len(Front(y)) = Len(y) - 1 /\ \A i \in 1 .. Len(y) - 1 : Front(y)[i] = y[i]
    <2>1. 1 \in Int /\ Len(y) - 1 \in Int /\ \A i \in 1 .. Len(y) - 1 : y[i] \in V
        BY <1>1, ElementOfSeq
    <2>2. /\ SubSeq(y, 1, Len(y) - 1) \in Seq(V)
          /\ Len(SubSeq(y, 1, Len(y) - 1)) = IF 1 <= Len(y) - 1 THEN Len(y) - 1 - 1 + 1 ELSE 0
          /\ \A i \in 1 .. Len(y) - 1 - 1 + 1 : SubSeq(y, 1, Len(y) - 1)[i] = y[1 + i - 1]
        BY <2>1, SubSeqProperties
    <2>3. Len(y) - 1 - 1 + 1 = Len(y) - 1 /\ \A i \in 1 .. Len(y) - 1 : 1 + i - 1 = i
        BY <1>1
    <2>4. Len(SubSeq(y, 1, Len(y) - 1)) = Len(y) - 1
        <3>1. PICK d : d = Len(SubSeq(y, 1, Len(y) - 1))
            OBVIOUS
        <3>2. d = IF 1 <= Len(y) - 1 THEN Len(y) - 1 - 1 + 1 ELSE 0
            BY <2>2, <3>1
        <3>3. d = Len(y) - 1
            <4>1. CASE 1 <= Len(y) - 1
                <5>1. d = Len(y) - 1 - 1 + 1
                    BY <3>2, <4>1
                <5>2. QED
                    BY <1>1, <5>1
            <4>2. CASE ~(1 <= Len(y) - 1)
                <5>1. PICK l \in Nat : l = Len(y)
                    BY <1>1
                <5>2. d = 0 /\ l = 1
                    BY <1>1, <3>2, <4>2, <5>1
                <5>3. QED
                    BY <5>1, <5>2
            <4>3. QED
                BY <4>1, <4>2
        <3>4. QED
            BY <3>1, <3>3
    <2>5. QED
        BY <2>2, <2>3, <2>4 DEF Front
<1>3. Last(y) \in V
    BY <1>1, ElementOfSeq DEF Last
<1>4. \A i \in 1 .. Len(y) : y[i] = Append(Front(y), Last(y))[i]
    BY <1>1, <1>2, <1>3, AppendProperties DEF Last
<1>5. Append(Front(y), Last(y)) \in Seq(V) /\ Len(Append(Front(y), Last(y))) = Len(y)
    BY <1>1, <1>2, <1>3, AppendProperties
<1>6. QED
    BY <1>1, <1>2, <1>3, <1>4, <1>5, SeqEqual

LEMMA EndsInShrink ==
    ASSUME NEW V, NEW y \in Seq(V), y # << >>, NEW s \in Seq(V), NEW c \in V, EndsIn(y, Append(s, c))
    PROVE  y = Append(Front(y), c) /\ EndsIn(Front(y), s)
<1>1. /\ Front(y) \in Seq(V) /\ Len(y) \in Nat /\ Len(y) >= 1 /\ Len(Front(y)) = Len(y) - 1
      /\ y = Append(Front(y), Last(y)) /\ \A i \in 1 .. Len(y) - 1 : Front(y)[i] = y[i]
    BY FrontIs
<1>2. /\ Len(s) \in Nat /\ Len(Append(s, c)) = Len(s) + 1 /\ Append(s, c)[Len(s) + 1] = c
      /\ \A i \in 1 .. Len(s) : Append(s, c)[i] = s[i]
    BY AppendProperties
<1>3. Len(y) <= Len(s) + 1 /\ \A i \in 1 .. Len(y) : y[i] = Append(s, c)[Len(s) + 1 - Len(y) + i]
    BY <1>2 DEF EndsIn
<1>4. Last(y) = c
    <2>1. Len(y) \in 1 .. Len(y) /\ Len(s) + 1 - Len(y) + Len(y) = Len(s) + 1
        BY <1>1, <1>2
    <2>2. QED
        BY <1>2, <1>3, <2>1 DEF Last
<1>5. ASSUME NEW i \in 1 .. Len(y) - 1
      PROVE  Front(y)[i] = s[Len(s) - (Len(y) - 1) + i]
    <2>1. PICK j : j = Len(s) - (Len(y) - 1) + i
        OBVIOUS
    <2>2. i \in 1 .. Len(y) /\ j \in 1 .. Len(s) /\ Len(s) + 1 - Len(y) + i = j
        BY <1>1, <1>2, <1>3, <2>1
    <2>3. y[i] = Append(s, c)[j]
        BY <1>3, <2>2
    <2>4. QED
        BY <1>1, <1>2, <2>1, <2>2, <2>3
<1>6. QED
    BY <1>1, <1>2, <1>3, <1>4, <1>5 DEF EndsIn

-----------------------------------------------------------------------------
\* The automaton: find() and its way back along the failure links.

\* The nodes of a trie over the symbols V.
Trie(N, V) == N \subseteq Seq(V) /\ Root \in N /\ \A n \in N : n # Root => Front(n) \in N

\* x is the longest node, of at most k symbols, that s ends in.
LongestEnd(x, s, k, N) ==
    /\ x \in N /\ EndsIn(x, s) /\ Len(x) <= k
    /\ \A y \in N : EndsIn(y, s) /\ Len(y) <= k => Len(y) <= Len(x)

\* There is exactly one.
LEMMA LongestEndIsOne ==
    ASSUME NEW V, NEW N, N \subseteq Seq(V), NEW s \in Seq(V), NEW k,
           NEW x, NEW y, LongestEnd(x, s, k, N), LongestEnd(y, s, k, N)
    PROVE  x = y
<1>1. x \in Seq(V) /\ y \in Seq(V) /\ EndsIn(x, s) /\ EndsIn(y, s)
    BY DEF LongestEnd
<1>2. Len(x) <= Len(y) /\ Len(y) <= Len(x)
    BY DEF LongestEnd
<1>3. Len(x) = Len(y)
    BY <1>1, <1>2
<1>4. QED
    BY <1>1, <1>3, EndsInSame

LEMMA LongestEndExists ==
    ASSUME NEW V, NEW N, Trie(N, V), NEW s \in Seq(V), NEW k \in Nat
    PROVE  \E x : LongestEnd(x, s, k, N)
<1> DEFINE T == {Len(y) : y \in {z \in N : EndsIn(z, s) /\ Len(z) <= k}}
<1>1. T \subseteq 0 .. k
    BY DEF Trie
<1>2. Root \in N /\ EndsIn(Root, s) /\ Len(Root) <= k
    BY EndsInItself DEF Trie, Root
<1>3. T # {}
    BY <1>2
<1>4. PICK n \in T : \A m \in T : m <= n
    <2> HIDE DEF T
    <2>1. QED
        BY <1>1, <1>3, HighestNumber
<1>5. PICK x \in {z \in N : EndsIn(z, s) /\ Len(z) <= k} : n = Len(x)
    OBVIOUS
<1>6. LongestEnd(x, s, k, N)
    BY <1>4, <1>5 DEF LongestEnd
<1>7. QED
    BY <1>6

\* Every link leads to the longest node its node ends in, itself left aside.
Linked(fail, N) ==
    /\ DOMAIN fail \subseteq N
    /\ \A n \in DOMAIN fail :
          n # Root => fail[n] \in DOMAIN fail /\ LongestEnd(fail[n], n, Len(n) - 1, N)

\* x is the longest node that n ends in from which the symbol c leads on.
LeadsOn(x, n, c, N) ==
    /\ x \in N /\ EndsIn(x, n)
    /\ x = Root \/ Append(x, c) \in N
    /\ \A y \in N : EndsIn(y, n) /\ Append(y, c) \in N => Len(y) <= Len(x)

\* The walk back of Step.
Walks(back, N, fail, c) ==
    back = [n \in DOMAIN fail |->
               IF n # Root /\ Append(n, c) \notin N THEN back[fail[n]] ELSE n]

\* There is exactly one, and it is the same one seen from the link.
LEMMA LeadsOnExists ==
    ASSUME NEW V, NEW N, Trie(N, V), NEW n \in N, NEW c
    PROVE  \E x : LeadsOn(x, n, c, N)
<1> DEFINE S == {z \in N : EndsIn(z, n) /\ Append(z, c) \in N}
           T == {Len(y) : y \in S}
<1>1. T \subseteq 0 .. Len(n) /\ Len(n) \in Nat
    BY DEF Trie, EndsIn
<1>2. CASE S = {}
    <2>1. Root \in N /\ EndsIn(Root, n)
        BY EndsInItself DEF Trie
    <2>2. LeadsOn(Root, n, c, N)
        BY <1>2, <2>1 DEF LeadsOn
    <2>3. QED
        BY <2>2
<1>3. CASE S # {}
    <2>1. T # {}
        BY <1>3
    <2>2. PICK m \in T : \A k \in T : k <= m
        <3> HIDE DEF T
        <3>1. QED
            BY <1>1, <2>1, HighestNumber
    <2>3. PICK x \in S : m = Len(x)
        OBVIOUS
    <2>4. LeadsOn(x, n, c, N)
        BY <2>2, <2>3 DEF LeadsOn
    <2>5. QED
        BY <2>4
<1>4. QED
    BY <1>2, <1>3

LEMMA LeadsOnIsOne ==
    ASSUME NEW V, NEW N, Trie(N, V), NEW n \in N, NEW c, NEW x, NEW y,
           LeadsOn(x, n, c, N), LeadsOn(y, n, c, N)
    PROVE  x = y
<1>1. x \in Seq(V) /\ y \in Seq(V) /\ n \in Seq(V) /\ EndsIn(x, n) /\ EndsIn(y, n)
    BY DEF LeadsOn, Trie
<1>2. Len(x) \in Nat /\ Len(y) \in Nat /\ Len(Root) = 0
    BY <1>1 DEF Root
<1>3. Len(x) <= Len(y)
    BY <1>2 DEF LeadsOn
<1>4. Len(y) <= Len(x)
    BY <1>2 DEF LeadsOn
<1>5. QED
    BY <1>1, <1>2, <1>3, <1>4, EndsInSame

LEMMA LeadsOnFromLink ==
    ASSUME NEW V, NEW N, Trie(N, V), NEW n \in N, NEW c, Append(n, c) \notin N,
           NEW f, LongestEnd(f, n, Len(n) - 1, N), NEW x, LeadsOn(x, f, c, N)
    PROVE  LeadsOn(x, n, c, N)
<1>1. x \in Seq(V) /\ f \in Seq(V) /\ n \in Seq(V) /\ EndsIn(x, f) /\ EndsIn(f, n)
    BY DEF LeadsOn, Trie, LongestEnd
<1>2. EndsIn(x, n)
    BY <1>1, EndsInTransitive
<1>3. ASSUME NEW y \in N, EndsIn(y, n), Append(y, c) \in N
      PROVE  Len(y) <= Len(x)
    <2>1. y \in Seq(V) /\ Len(y) \in Nat /\ Len(n) \in Nat /\ Len(y) <= Len(n)
        BY <1>1, <1>3 DEF Trie, EndsIn
    <2>2. Len(y) # Len(n)
        BY <1>1, <1>3, <2>1, EndsInSame, EndsInItself
    <2>3. Len(y) <= Len(n) - 1
        BY <2>1, <2>2
    <2>4. Len(y) <= Len(f)
        BY <1>3, <2>3 DEF LongestEnd
    <2>5. EndsIn(y, f)
        BY <1>1, <1>3, <2>1, <2>4, EndsInNested
    <2>6. QED
        BY <1>3, <2>5 DEF LeadsOn
<1>4. QED
    BY <1>2, <1>3 DEF LeadsOn

\* The walk is defined, for every link is shorter, and it stops at the node wanted.
LEMMA WalkExists ==
    ASSUME NEW V, NEW N, Trie(N, V), NEW fail, Linked(fail, N), NEW c
    PROVE  \E back : Walks(back, N, fail, c)
<1> DEFINE D == DOMAIN fail
           Best(n) == CHOOSE x : LeadsOn(x, n, c, N)
<1>1. D \subseteq N
    BY DEF Linked
<1>2. \A n \in D : LeadsOn(Best(n), n, c, N)
    BY <1>1, LeadsOnExists
<1>3. PICK back : back = [n \in D |-> Best(n)]
    OBVIOUS
<1>4. ASSUME NEW n \in D, n # Root /\ Append(n, c) \notin N
      PROVE  Best(n) = Best(fail[n])
    <2>1. fail[n] \in D /\ LongestEnd(fail[n], n, Len(n) - 1, N)
        BY <1>4 DEF Linked
    <2>2. LeadsOn(Best(fail[n]), fail[n], c, N)
        BY <1>2, <2>1
    <2> HIDE DEF Best
    <2>3. n \in N /\ LeadsOn(Best(fail[n]), n, c, N)
        BY <1>1, <1>4, <2>1, <2>2, LeadsOnFromLink
    <2>4. QED
        BY <1>2, <2>3, LeadsOnIsOne
<1>5. ASSUME NEW n \in D, ~(n # Root /\ Append(n, c) \notin N)
      PROVE  Best(n) = n
    <2>1. n \in N /\ n \in Seq(V)
        BY <1>1 DEF Trie
    <2>2. EndsIn(n, n) /\ \A y \in N : EndsIn(y, n) => Len(y) <= Len(n)
        BY <2>1, EndsInItself DEF EndsIn
    <2>3. LeadsOn(n, n, c, N)
        BY <1>5, <2>1, <2>2 DEF LeadsOn
    <2> HIDE DEF Best
    <2>4. QED
        BY <1>2, <2>1, <2>3, LeadsOnIsOne
<1>6. \A n \in D : back[n] = IF n # Root /\ Append(n, c) \notin N THEN back[fail[n]] ELSE n
    <2> HIDE DEF Best
    <2>1. \A n \in D : n # Root => fail[n] \in D
        BY DEF Linked
    <2>2. QED
        BY <1>3, <1>4, <1>5, <2>1
<1>7. Walks(back, N, fail, c)
    <2> HIDE DEF Best
    <2>1. QED
        BY <1>3, <1>6 DEF Walks
<1>8. QED
    BY <1>7

LEMMA WalkLeadsOn ==
    ASSUME NEW V, NEW N, Trie(N, V), NEW fail, Linked(fail, N), NEW c,
           NEW back, Walks(back, N, fail, c)
    PROVE  \A n \in DOMAIN fail : LeadsOn(back[n], n, c, N)
<1> DEFINE bad == {n \in DOMAIN fail : ~LeadsOn(back[n], n, c, N)}
           T == {Len(n) : n \in bad}
<1>1. DOMAIN fail \subseteq N /\ N \subseteq Seq(V)
    BY DEF Linked, Trie
<1>2. T \subseteq Nat
    BY <1>1
<1>3. SUFFICES ASSUME bad # {} PROVE FALSE
    OBVIOUS
<1>4. T # {}
    BY <1>3
<1>5. PICK m \in T : \A k \in T : m <= k
    <2> HIDE DEF T
    <2>1. QED
        BY <1>2, <1>4, LowestNumber
<1>6. PICK n \in bad : m = Len(n)
    OBVIOUS
<1>7. n \in DOMAIN fail /\ n \in N /\ n \in Seq(V) /\ Len(n) \in Nat /\ ~LeadsOn(back[n], n, c, N)
    BY <1>1, <1>6
<1>8. back[n] = IF n # Root /\ Append(n, c) \notin N THEN back[fail[n]] ELSE n
    BY <1>7 DEF Walks
<1>9. CASE n # Root /\ Append(n, c) \notin N
    <2>1. fail[n] \in DOMAIN fail /\ LongestEnd(fail[n], n, Len(n) - 1, N)
        BY <1>7, <1>9 DEF Linked
    <2>2. Len(fail[n]) <= Len(n) - 1 /\ Len(fail[n]) \in Nat
        BY <1>1, <2>1 DEF LongestEnd
    <2>3. fail[n] \notin bad
        <3>1. fail[n] \in bad => Len(n) <= Len(fail[n])
            BY <1>5, <1>6
        <3>2. QED
            BY <1>7, <2>2, <3>1
    <2>4. LeadsOn(back[fail[n]], fail[n], c, N)
        BY <2>1, <2>3
    <2>5. LeadsOn(back[fail[n]], n, c, N)
        BY <1>7, <1>9, <2>1, <2>4, LeadsOnFromLink
    <2>6. QED
        BY <1>7, <1>8, <1>9, <2>5
<1>10. CASE ~(n # Root /\ Append(n, c) \notin N)
    <2>1. EndsIn(n, n) /\ \A y \in N : EndsIn(y, n) => Len(y) <= Len(n)
        BY <1>7, EndsInItself DEF EndsIn
    <2>2. LeadsOn(n, n, c, N)
        BY <1>7, <1>10, <2>1 DEF LeadsOn
    <2>3. QED
        BY <1>7, <1>8, <1>10, <2>2
<1>11. QED
    BY <1>9, <1>10

\* One step of the automaton: what it stands on stays the longest node that
\* the text read ends in.
LEMMA StepIs ==
    ASSUME NEW V, NEW N, Trie(N, V), NEW fail, Linked(fail, N), NEW from \in DOMAIN fail,
           NEW s \in Seq(V), NEW c \in V, NEW k \in Nat, LongestEnd(from, s, k, N)
    PROVE  LongestEnd(Step(N, fail, from, c), Append(s, c), k + 1, N)
<1> DEFINE F(g) == [n \in DOMAIN fail |->
                       IF n # Root /\ Append(n, c) \notin N THEN g[fail[n]] ELSE n]
<1>1. PICK back : back = CHOOSE g : g = F(g)
    OBVIOUS
<1>2. Step(N, fail, from, c) = IF Append(back[from], c) \in N THEN Append(back[from], c) ELSE Root
    BY <1>1 DEF Step
<1>3. Walks(back, N, fail, c)
    <2>1. PICK g : Walks(g, N, fail, c)
        BY WalkExists
    <2>2. g = F(g)
        BY <2>1 DEF Walks
    <2>3. back = F(back)
        <3> HIDE DEF F
        <3>1. QED
            BY <1>1, <2>2
    <2>4. QED
        BY <2>3 DEF Walks
<1> HIDE DEF F
<1>4. PICK x : x = back[from]
    OBVIOUS
<1>5. LeadsOn(x, from, c, N)
    BY <1>3, <1>4, WalkLeadsOn
<1>6. from \in N /\ from \in Seq(V) /\ x \in N /\ x \in Seq(V) /\ EndsIn(from, s) /\ Len(from) <= k
    BY <1>5 DEF LeadsOn, Linked, Trie, LongestEnd
<1>7. Append(s, c) \in Seq(V) /\ Len(x) \in Nat /\ Len(from) \in Nat /\ Len(Root) = 0
    BY <1>6 DEF Root
<1>8. EndsIn(Append(x, c), Append(s, c)) /\ Len(Append(x, c)) = Len(x) + 1 /\ Len(x) <= Len(from)
    <2>1. EndsIn(x, s)
        BY <1>5, <1>6, EndsInTransitive DEF LeadsOn
    <2>2. EndsIn(Append(x, c), Append(s, c))
        BY <1>6, <2>1, EndsInGrow
    <2>3. Len(x) <= Len(from)
        BY <1>5 DEF LeadsOn, EndsIn
    <2>4. QED
        BY <1>6, <2>2, <2>3, AppendProperties
<1>9. ASSUME NEW y \in N, y # Root, EndsIn(y, Append(s, c)), Len(y) <= k + 1
      PROVE  Append(x, c) \in N /\ Len(y) <= Len(x) + 1
    <2>1. y \in Seq(V) /\ Front(y) \in N /\ Front(y) \in Seq(V)
        BY <1>9 DEF Trie
    <2>2. y = Append(Front(y), c) /\ EndsIn(Front(y), s) /\ Len(Front(y)) = Len(y) - 1 /\ Len(y) \in Nat
        BY <1>9, <2>1, EndsInShrink, FrontIs DEF Root
    <2>3. Len(Front(y)) <= Len(from)
        BY <1>9, <2>1, <2>2 DEF LongestEnd
    <2>4. EndsIn(Front(y), from)
        BY <1>6, <2>1, <2>2, <2>3, EndsInNested
    <2>5. Len(Front(y)) <= Len(x)
        BY <1>5, <1>9, <2>1, <2>2, <2>4 DEF LeadsOn
    <2>6. Append(x, c) \in N
        <3>1. CASE x = Root
            <4>1. Len(Front(y)) = 0
                BY <1>7, <2>1, <2>5, <3>1
            <4>2. Front(y) = Root
                BY <2>1, <4>1 DEF Root
            <4>3. QED
                BY <1>9, <2>2, <3>1, <4>2
        <3>2. CASE x # Root
            BY <1>5, <3>2 DEF LeadsOn
        <3>3. QED
            BY <3>1, <3>2
    <2>7. QED
        BY <1>7, <2>2, <2>5, <2>6
<1>10. CASE Append(x, c) \in N
    <2>1. Step(N, fail, from, c) = Append(x, c)
        BY <1>2, <1>4, <1>10
    <2>2. \A y \in N : EndsIn(y, Append(s, c)) /\ Len(y) <= k + 1 => Len(y) <= Len(x) + 1
        BY <1>7, <1>9
    <2>3. Len(x) + 1 <= k + 1
        BY <1>6, <1>7, <1>8
    <2>4. QED
        BY <1>8, <1>10, <2>1, <2>2, <2>3 DEF LongestEnd
<1>11. CASE Append(x, c) \notin N
    <2>1. Step(N, fail, from, c) = Root
        BY <1>2, <1>4, <1>11
    <2>2. \A y \in N : EndsIn(y, Append(s, c)) /\ Len(y) <= k + 1 => Len(y) <= Len(Root)
        BY <1>7, <1>9, <1>11
    <2>3. Root \in N /\ EndsIn(Root, Append(s, c))
        BY <1>7, EndsInItself DEF Trie
    <2>4. Len(Root) <= k + 1
        BY <1>7
    <2>5. QED
        BY <2>1, <2>2, <2>3, <2>4 DEF LongestEnd
<1>12. QED
    BY <1>10, <1>11

-----------------------------------------------------------------------------
\* The automaton: how AhoCorasick.__init__() builds it.

\* The first symbols of a sequence.
LEMMA PrefixIs ==
    ASSUME NEW V, NEW p \in Seq(V), NEW n \in 0 .. Len(p)
    PROVE  /\ SubSeq(p, 1, n) \in Seq(V) /\ Len(SubSeq(p, 1, n)) = n
           /\ \A i \in 1 .. n : SubSeq(p, 1, n)[i] = p[i]
<1>1. Len(p) \in Nat /\ 1 \in Int /\ n \in Int /\ \A i \in 1 .. n : p[i] \in V
    BY ElementOfSeq
<1>2. PICK q : q = SubSeq(p, 1, n)
    OBVIOUS
<1>3. /\ q \in Seq(V) /\ Len(q) = IF 1 <= n THEN n - 1 + 1 ELSE 0
      /\ \A i \in 1 .. n - 1 + 1 : q[i] = p[1 + i - 1]
    BY <1>1, <1>2, SubSeqProperties
<1>4. n - 1 + 1 = n /\ \A i \in 1 .. n : 1 + i - 1 = i
    BY <1>1
<1>5. Len(q) = n
    BY <1>1, <1>3
<1>6. QED
    BY <1>2, <1>3, <1>4, <1>5

\* AhoCorasick.__init__() builds a trie.
LEMMA NodesAreATrie ==
    ASSUME NEW V, NEW P, P \subseteq Seq(V)
    PROVE  Trie(Nodes(P), V) /\ P \subseteq Nodes(P)
<1>1. Nodes(P) \subseteq Seq(V)
    <2>1. ASSUME NEW p \in P, NEW n \in Prefixes(p)
          PROVE  n \in Seq(V)
        BY <2>1, PrefixIs DEF Prefixes
    <2>2. Root \in Seq(V)
        BY DEF Root
    <2>3. QED
        BY <2>1, <2>2 DEF Nodes
<1>2. ASSUME NEW n \in Nodes(P), n # Root
      PROVE  Front(n) \in Nodes(P)
    <2>1. PICK p \in P : n \in Prefixes(p)
        BY <1>2 DEF Nodes
    <2>2. PICK l \in 0 .. Len(p) : n = SubSeq(p, 1, l)
        BY <2>1 DEF Prefixes
    <2>3. p \in Seq(V) /\ n \in Seq(V) /\ Len(n) = l /\ \A i \in 1 .. l : n[i] = p[i]
        BY <2>2, PrefixIs
    <2>4. Front(n) \in Seq(V) /\ Len(Front(n)) = l - 1 /\ l >= 1 /\ \A i \in 1 .. l - 1 : Front(n)[i] = n[i]
        BY <1>2, <2>3, FrontIs DEF Root
    <2>5. l - 1 \in 0 .. Len(p)
        BY <2>4
    <2>6. /\ SubSeq(p, 1, l - 1) \in Seq(V) /\ Len(SubSeq(p, 1, l - 1)) = l - 1
          /\ \A i \in 1 .. l - 1 : SubSeq(p, 1, l - 1)[i] = p[i]
        BY <2>3, <2>5, PrefixIs
    <2>7. \A i \in 1 .. l - 1 : Front(n)[i] = SubSeq(p, 1, l - 1)[i]
        BY <2>3, <2>4, <2>6
    <2>8. Front(n) = SubSeq(p, 1, l - 1)
        BY <2>4, <2>6, <2>7, SeqEqual
    <2>9. Front(n) \in Prefixes(p)
        BY <2>5, <2>8 DEF Prefixes
    <2>10. QED
        BY <2>9 DEF Nodes
<1>3. ASSUME NEW p \in P
      PROVE  p \in Nodes(P)
    <2>1. p \in Seq(V) /\ Len(p) \in 0 .. Len(p)
        OBVIOUS
    <2>2. p = SubSeq(p, 1, Len(p))
        BY <2>1, PrefixIs, SeqEqual
    <2>3. p \in Prefixes(p)
        BY <2>1, <2>2 DEF Prefixes
    <2>4. QED
        BY <2>3 DEF Nodes
<1>4. QED
    BY <1>1, <1>2, <1>3 DEF Trie, Nodes

-----------------------------------------------------------------------------
\* The links g of the nodes above n, as _build_failure_links() has them when it
\* comes to n.
AboveOf(g, n, N) == [m \in {x \in N : Len(x) < Len(n)} |-> g[m]]

(* _build_failure_links(): a link that is found with those of the nodes      *)
(* above it is the longest proper end of its node.                           *)
LEMMA NextLinkIs ==
    ASSUME NEW V, NEW N, Trie(N, V), NEW n \in N, Len(n) > 1, NEW g,
           \A m \in N : Len(m) < Len(n) /\ m # Root => LongestEnd(g[m], m, Len(m) - 1, N)
    PROVE  LongestEnd(Step(N, AboveOf(g, n, N), AboveOf(g, n, N)[Front(n)], Last(n)),
                      n, Len(n) - 1, N)
<1>1. PICK above : above = AboveOf(g, n, N)
    OBVIOUS
<1>2. /\ DOMAIN above = {x \in N : Len(x) < Len(n)}
      /\ \A m \in N : Len(m) < Len(n) => above[m] = g[m]
    BY <1>1 DEF AboveOf
<1>3. N \subseteq Seq(V) /\ Root \in N /\ n \in Seq(V) /\ n # Root /\ Len(n) \in Nat /\ Len(Root) = 0
    BY DEF Trie, Root
<1>4. Linked(above, N)
    <2>1. ASSUME NEW m \in DOMAIN above, m # Root
          PROVE  above[m] \in DOMAIN above /\ LongestEnd(above[m], m, Len(m) - 1, N)
        <3>1. m \in N /\ Len(m) < Len(n) /\ above[m] = g[m]
            BY <1>2
        <3>2. LongestEnd(g[m], m, Len(m) - 1, N)
            BY <2>1, <3>1
        <3>3. g[m] \in N /\ Len(g[m]) <= Len(m) - 1
            BY <3>2 DEF LongestEnd
        <3>4. Len(g[m]) \in Nat /\ Len(m) \in Nat
            BY <1>3, <3>1, <3>3
        <3>5. Len(g[m]) < Len(n)
            BY <1>3, <3>1, <3>3, <3>4
        <3>6. QED
            BY <1>2, <3>1, <3>2, <3>3, <3>5
    <2>2. QED
        BY <1>2, <2>1 DEF Linked
<1>5. /\ Front(n) \in N /\ Front(n) \in Seq(V) /\ Len(Front(n)) = Len(n) - 1
      /\ Last(n) \in V /\ n = Append(Front(n), Last(n))
    BY <1>3, FrontIs DEF Trie, Root
<1>6. Front(n) # Root /\ Len(Front(n)) < Len(n) /\ Len(n) - 2 \in Nat
    BY <1>3, <1>5
<1>7. /\ Front(n) \in DOMAIN above
      /\ above[Front(n)] \in DOMAIN above
      /\ LongestEnd(above[Front(n)], Front(n), Len(Front(n)) - 1, N)
    BY <1>2, <1>4, <1>5, <1>6 DEF Linked
<1>8. Len(Front(n)) - 1 = Len(n) - 2 /\ (Len(n) - 2) + 1 = Len(n) - 1
    BY <1>3, <1>5
<1>9. LongestEnd(above[Front(n)], Front(n), Len(n) - 2, N)
    BY <1>7, <1>8
<1>10. LongestEnd(Step(N, above, above[Front(n)], Last(n)), Append(Front(n), Last(n)), (Len(n) - 2) + 1, N)
    BY <1>4, <1>5, <1>6, <1>7, <1>9, StepIs
<1>11. QED
    BY <1>1, <1>5, <1>8, <1>10

\* The nodes next to the root are linked to it.
LEMMA FirstLinkIs ==
    ASSUME NEW V, NEW N, Trie(N, V), NEW n \in N, n # Root, Len(n) <= 1
    PROVE  LongestEnd(Root, n, Len(n) - 1, N)
<1>1. N \subseteq Seq(V) /\ Root \in N /\ n \in Seq(V) /\ Len(Root) = 0
    BY DEF Trie, Root
<1>2. Len(n) = 1
    <2>1. PICK l \in Nat \ {0} : l = Len(n)
        BY <1>1, EmptySeq DEF Root
    <2>2. QED
        BY <2>1
<1>3. EndsIn(Root, n)
    BY <1>1, EndsInItself
<1>4. Len(n) - 1 = 0
    BY <1>2
<1>5. QED
    BY <1>1, <1>3, <1>4 DEF LongestEnd

\* What FailureLinks is the solution of.
Links(fail, N) ==
    fail = [n \in N |-> IF Len(n) <= 1 THEN Root
                        ELSE Step(N, AboveOf(fail, n, N), AboveOf(fail, n, N)[Front(n)], Last(n))]

\* The links are defined, and they are what find() needs.
LEMMA LinksExist ==
    ASSUME NEW V, NEW N, Trie(N, V)
    PROVE  \E fail : Links(fail, N)
<1> DEFINE Best(n) == IF Len(n) <= 1 THEN Root ELSE CHOOSE x : LongestEnd(x, n, Len(n) - 1, N)
<1>1. PICK h : h = [n \in N |-> Best(n)]
    OBVIOUS
<1>2. \A n \in N : n \in Seq(V) /\ Len(n) \in Nat
    BY DEF Trie
<1>3. ASSUME NEW m \in N, m # Root
      PROVE  LongestEnd(h[m], m, Len(m) - 1, N)
    <2>1. CASE Len(m) <= 1
        BY <1>1, <1>3, <2>1, FirstLinkIs
    <2>2. CASE ~(Len(m) <= 1)
        <3>1. Len(m) - 1 \in Nat
            BY <1>2, <2>2
        <3>2. \E x : LongestEnd(x, m, Len(m) - 1, N)
            BY <1>2, <3>1, LongestEndExists
        <3>3. h[m] = CHOOSE x : LongestEnd(x, m, Len(m) - 1, N)
            BY <1>1, <2>2
        <3>4. QED
            BY <3>2, <3>3
    <2>3. QED
        BY <2>1, <2>2
<1>4. ASSUME NEW n \in N
      PROVE  h[n] = IF Len(n) <= 1 THEN Root
                    ELSE Step(N, AboveOf(h, n, N), AboveOf(h, n, N)[Front(n)], Last(n))
    <2>1. CASE Len(n) <= 1
        BY <1>1, <2>1
    <2>2. CASE ~(Len(n) <= 1)
        <3>1. n # Root /\ Len(n) > 1
            BY <1>2, <2>2 DEF Root
        <3>2. LongestEnd(h[n], n, Len(n) - 1, N)
            BY <1>3, <3>1
        <3> HIDE DEF Best
        <3>3. LongestEnd(Step(N, AboveOf(h, n, N), AboveOf(h, n, N)[Front(n)], Last(n)), n, Len(n) - 1, N)
            BY <1>3, <3>1, NextLinkIs
        <3>4. N \subseteq Seq(V)
            BY DEF Trie
        <3>5. h[n] = Step(N, AboveOf(h, n, N), AboveOf(h, n, N)[Front(n)], Last(n))
            BY <1>2, <3>2, <3>3, <3>4, LongestEndIsOne
        <3>6. QED
            BY <2>2, <3>5
    <2>3. QED
        BY <2>1, <2>2
<1>5. Links(h, N)
    <2>1. h = [n \in N |-> h[n]]
        BY <1>1
    <2> HIDE DEF Best
    <2>2. QED
        BY <1>4, <2>1 DEF Links
<1>6. QED
    BY <1>5

LEMMA LinksLink ==
    ASSUME NEW V, NEW N, Trie(N, V), NEW fail, Links(fail, N)
    PROVE  DOMAIN fail = N /\ Linked(fail, N)
<1> DEFINE bad == {n \in N : n # Root /\ ~LongestEnd(fail[n], n, Len(n) - 1, N)}
           T == {Len(n) : n \in bad}
<1>1. /\ DOMAIN fail = N
      /\ \A n \in N : fail[n] = IF Len(n) <= 1 THEN Root
                                ELSE Step(N, AboveOf(fail, n, N), AboveOf(fail, n, N)[Front(n)], Last(n))
    BY DEF Links
<1>2. \A n \in N : n \in Seq(V) /\ Len(n) \in Nat
    BY DEF Trie
<1>3. bad = {}
    <2>1. SUFFICES ASSUME bad # {} PROVE FALSE
        OBVIOUS
    <2>2. T \subseteq Nat /\ T # {}
        BY <1>2, <2>1
    <2>3. PICK l \in T : \A k \in T : l <= k
        <3> HIDE DEF T
        <3>1. QED
            BY <2>2, LowestNumber
    <2>4. PICK n \in bad : l = Len(n)
        OBVIOUS
    <2>5. n \in N /\ n # Root /\ ~LongestEnd(fail[n], n, Len(n) - 1, N)
        BY <2>4
    <2>6. ASSUME NEW m \in N, Len(m) < Len(n), m # Root
          PROVE  LongestEnd(fail[m], m, Len(m) - 1, N)
        <3>1. m \in bad => Len(n) <= Len(m)
            BY <2>3, <2>4
        <3>2. QED
            BY <1>2, <2>5, <2>6, <3>1
    <2>7. CASE Len(n) <= 1
        BY <1>1, <2>5, <2>7, FirstLinkIs
    <2>8. CASE ~(Len(n) <= 1)
        <3>1. Len(n) > 1
            BY <1>2, <2>5, <2>8
        <3>2. LongestEnd(Step(N, AboveOf(fail, n, N), AboveOf(fail, n, N)[Front(n)], Last(n)), n, Len(n) - 1, N)
            BY <2>5, <2>6, <3>1, NextLinkIs
        <3>3. QED
            BY <1>1, <2>5, <2>8, <3>2
    <2>9. QED
        BY <2>7, <2>8
<1>4. \A n \in N : n # Root => LongestEnd(fail[n], n, Len(n) - 1, N)
    BY <1>3
<1>5. QED
    BY <1>1, <1>4 DEF Linked, LongestEnd

\* The links of the compiled automaton.
LEMMA FailureLinksLink ==
    ASSUME NEW V, NEW N, Trie(N, V)
    PROVE  DOMAIN FailureLinks(N) = N /\ Linked(FailureLinks(N), N)
<1> DEFINE F(g) == [n \in N |-> LET above == [m \in {x \in N : Len(x) < Len(n)} |-> g[m]]
                                IN  IF Len(n) <= 1 THEN Root ELSE Step(N, above, above[Front(n)], Last(n))]
<1>1. FailureLinks(N) = CHOOSE g : g = F(g)
    BY DEF FailureLinks
<1>2. \A g : F(g) = [n \in N |-> IF Len(n) <= 1 THEN Root
                        ELSE Step(N, AboveOf(g, n, N), AboveOf(g, n, N)[Front(n)], Last(n))]
    BY DEF AboveOf
<1> HIDE DEF F
<1>3. PICK h : Links(h, N)
    BY LinksExist
<1>4. h = F(h)
    BY <1>2, <1>3 DEF Links
<1>5. PICK fail : fail = FailureLinks(N)
    OBVIOUS
<1>6. fail = F(fail)
    BY <1>1, <1>4, <1>5
<1>7. Links(fail, N)
    BY <1>2, <1>6 DEF Links
<1>8. QED
    BY <1>5, <1>7, LinksLink

-----------------------------------------------------------------------------
\* The patterns a node ends in are itself and those its link ends in.
LEMMA EndsOfNode ==
    ASSUME NEW V, NEW N, Trie(N, V), NEW fail, DOMAIN fail = N, Linked(fail, N),
           NEW P, P \subseteq N, NEW n \in N
    PROVE  {p \in P : EndsIn(p, n)} =
             (P \cap {n}) \cup (IF n = Root THEN {} ELSE {p \in P : EndsIn(p, fail[n])})
<1>1. N \subseteq Seq(V) /\ n \in Seq(V) /\ EndsIn(n, n) /\ Len(n) \in Nat /\ Len(Root) = 0
    BY EndsInItself DEF Trie, Root
<1>2. ASSUME NEW p \in P, EndsIn(p, n), p # n
      PROVE  n # Root /\ EndsIn(p, fail[n])
    <2>1. p \in N /\ p \in Seq(V) /\ Len(p) \in Nat /\ Len(p) <= Len(n)
        BY <1>1, <1>2 DEF EndsIn
    <2>2. Len(p) # Len(n)
        BY <1>1, <1>2, <2>1, EndsInSame
    <2>3. n # Root /\ Len(p) <= Len(n) - 1
        BY <1>1, <2>1, <2>2
    <2>4. LongestEnd(fail[n], n, Len(n) - 1, N)
        BY <2>3 DEF Linked
    <2>5. fail[n] \in Seq(V) /\ EndsIn(fail[n], n) /\ Len(p) <= Len(fail[n])
        BY <1>1, <1>2, <2>1, <2>3, <2>4 DEF LongestEnd
    <2>6. QED
        BY <1>1, <1>2, <2>1, <2>3, <2>5, EndsInNested
<1>3. ASSUME NEW p \in P, n # Root, EndsIn(p, fail[n])
      PROVE  EndsIn(p, n)
    <2>1. LongestEnd(fail[n], n, Len(n) - 1, N)
        BY <1>3 DEF Linked
    <2>2. fail[n] \in Seq(V) /\ EndsIn(fail[n], n) /\ p \in Seq(V)
        BY <1>1, <2>1 DEF LongestEnd
    <2>3. QED
        BY <1>1, <1>3, <2>2, EndsInTransitive
<1>4. QED
    BY <1>1, <1>2, <1>3

\* A node puts out the patterns it ends in.
LEMMA OutputsAre ==
    ASSUME NEW V, NEW N, Trie(N, V), NEW fail, DOMAIN fail = N, Linked(fail, N), NEW P, P \subseteq N
    PROVE  \A n \in N : Outputs(N, fail, P)[n] = {p \in P : EndsIn(p, n)}
<1> DEFINE F(g) == [n \in N |-> (P \cap {n}) \cup (IF n = Root THEN {} ELSE g[fail[n]])]
           Ends(n) == {p \in P : EndsIn(p, n)}
<1>1. Outputs(N, fail, P) = CHOOSE g : g = F(g)
    BY DEF Outputs
<1>2. PICK h : h = [n \in N |-> Ends(n)]
    OBVIOUS
<1>3. \A n \in N : n # Root => fail[n] \in N /\ Len(fail[n]) <= Len(n) - 1
    BY DEF Linked, LongestEnd
<1>4. h = F(h)
    <2>1. \A n \in N : h[n] = (P \cap {n}) \cup (IF n = Root THEN {} ELSE h[fail[n]])
        <3>1. \A n \in N : Ends(n) = (P \cap {n}) \cup (IF n = Root THEN {} ELSE Ends(fail[n]))
            BY EndsOfNode
        <3> HIDE DEF Ends
        <3>2. QED
            BY <1>2, <1>3, <3>1
    <2>2. QED
        BY <1>2, <2>1
<1>5. PICK f : f = Outputs(N, fail, P)
    OBVIOUS
<1>6. f = F(f)
    <2> HIDE DEF F
    <2>1. QED
        BY <1>1, <1>4, <1>5
<1>7. \A n \in N : f[n] = (P \cap {n}) \cup (IF n = Root THEN {} ELSE f[fail[n]])
    BY <1>6
<1> DEFINE bad == {n \in N : f[n] # Ends(n)}
           T == {Len(n) : n \in bad}
<1>8. \A n \in N : n \in Seq(V) /\ Len(n) \in Nat
    BY DEF Trie
<1>9. bad = {}
    <2>1. SUFFICES ASSUME bad # {} PROVE FALSE
        OBVIOUS
    <2>2. T \subseteq Nat /\ T # {}
        BY <1>8, <2>1
    <2>3. PICK l \in T : \A k \in T : l <= k
        <3> HIDE DEF T
        <3>1. QED
            BY <2>2, LowestNumber
    <2>4. PICK n \in bad : l = Len(n)
        OBVIOUS
    <2>5. n \in N /\ f[n] # Ends(n)
        BY <2>4
    <2>6. n # Root => f[fail[n]] = Ends(fail[n])
        <3>1. fail[n] \in bad => Len(n) <= Len(fail[n])
            BY <2>3, <2>4
        <3> HIDE DEF Ends
        <3>2. QED
            BY <1>3, <1>8, <2>5, <3>1
    <2>7. Ends(n) = (P \cap {n}) \cup (IF n = Root THEN {} ELSE Ends(fail[n]))
        BY <2>5, EndsOfNode
    <2> HIDE DEF Ends
    <2>8. QED
        BY <1>7, <2>5, <2>6, <2>7
<1>10. QED
    BY <1>5, <1>9

-----------------------------------------------------------------------------
\* The normal form: how normalize() builds it.

\* What a text is normalised to: symbols, each with its position in the text.
NormalSymbols == Glyphs \cup {" "}
NormalEntry == [symbol : NormalSymbols, at : Nat]

\* A separator says nothing after this.
AtBlank(done) == done = << >> \/ Last(done).symbol = " "

\* What NormalStep appends for a character.
Added(c, fold, blank) ==
    CASE c = "~" -> << >>
      [] c = "^" -> (IF fold THEN << >> ELSE <<"^">>)
      [] c = "-" -> (IF blank THEN << >> ELSE <<" ">>)
      [] OTHER -> Pieces(c)

\* done has become new by the symbols that were added for position i.
Grows(new, done, added, i) ==
    /\ new \in Seq(NormalEntry) /\ Len(new) = Len(done) + Len(added)
    /\ \A j \in 1 .. Len(done) : new[j] = done[j]
    /\ \A j \in 1 .. Len(added) : new[Len(done) + j] = [symbol |-> added[j], at |-> i]

\* Symbols that separate nothing.
Pure(added) == added \in Seq(NormalSymbols) /\ \A j \in 1 .. Len(added) : added[j] # " "

\* What the characters become.
LEMMA PureSequences ==
    /\ Pure(<< >>) /\ \A c \in Glyphs : Pure(<<c>>) /\ Pure(Pieces(c))
    /\ <<" ">> \in Seq(NormalSymbols)
<1>1. " " \in NormalSymbols /\ " " \notin Glyphs /\ Glyphs \subseteq NormalSymbols /\ "a" \in Glyphs
    BY DEF NormalSymbols, Glyphs, Letters
<1>2. Pure(<< >>)
    BY DEF Pure
<1>3. ASSUME NEW c \in NormalSymbols
      PROVE  <<c>> \in Seq(NormalSymbols) /\ Len(<<c>>) = 1 /\ <<c>>[1] = c
    OBVIOUS
<1>4. ASSUME NEW c \in Glyphs
      PROVE  Pure(<<c>>)
    <2>1. c \in NormalSymbols /\ c # " "
        BY <1>1, <1>4
    <2>2. PICK x : x = <<c>>
        OBVIOUS
    <2>3. x \in Seq(NormalSymbols) /\ Len(x) = 1 /\ x[1] # " "
        BY <1>3, <2>1, <2>2
    <2>4. \A j \in 1 .. Len(x) : x[j] # " "
        <3>1. ASSUME NEW j \in 1 .. Len(x)
              PROVE  x[j] # " "
            <4>1. 1 .. Len(x) = 1 .. 1
                BY <2>3, Zenon
            <4>2. j = 1
                <5>1. j \in 1 .. 1
                    BY <3>1, <4>1, Zenon
                <5>2. QED
                    BY <5>1
            <4>3. QED
                BY <2>3, <4>2, Zenon
        <3>2. QED
            BY <3>1
    <2>5. QED
        BY <2>2, <2>3, <2>4 DEF Pure
<1>5. <<"a", "a">> \in Seq(NormalSymbols) /\ Len(<<"a", "a">>) = 2 /\ \A j \in 1 .. 2 : <<"a", "a">>[j] = "a"
    <2>1. "a" \in NormalSymbols
        BY <1>1
    <2>2. QED
        BY <2>1
<1>6. Pure(<<"a", "a">>)
    BY <1>5 DEF Pure
<1>7. ASSUME NEW c \in Glyphs
      PROVE  Pure(Pieces(c))
    <2>1. CASE c = "w"
        BY <1>6, <2>1 DEF Pieces
    <2>2. CASE c # "w"
        BY <1>4, <2>2 DEF Pieces
    <2>3. QED
        BY <2>1, <2>2
<1>8. QED
    BY <1>1, <1>2, <1>3, <1>4, <1>7

LEMMA AddedIs ==
    ASSUME NEW c \in Glyphs, NEW fold \in BOOLEAN, NEW blank \in BOOLEAN
    PROVE  /\ Added(c, fold, blank) \in Seq(NormalSymbols)
           /\ c # "-" => Pure(Added(c, fold, blank)) /\ Added(c, fold, blank) = Added(c, fold, TRUE)
           /\ c = "-" => Added(c, fold, blank) = IF blank THEN << >> ELSE <<" ">>
<1>1. CASE c = "-"
    <2>1. Added(c, fold, blank) = IF blank THEN << >> ELSE <<" ">>
        BY <1>1 DEF Added
    <2>2. << >> \in Seq(NormalSymbols)
        BY PureSequences DEF Pure
    <2>3. QED
        BY <1>1, <2>1, <2>2, PureSequences
<1>2. CASE c # "-"
    <2>1. Added(c, fold, blank) = Added(c, fold, TRUE)
        BY <1>2, Zenon DEF Added
    <2>2. Pure(Added(c, fold, blank))
        <3>1. CASE c = "~"
            <4>1. Added(c, fold, blank) = << >>
                BY <3>1 DEF Added
            <4>2. QED
                BY <4>1, PureSequences
        <3>2. CASE c = "^"
            <4>1. Added(c, fold, blank) = IF fold THEN << >> ELSE <<c>>
                BY <3>2 DEF Added
            <4>2. QED
                BY <4>1, PureSequences
        <3>3. CASE c \notin {"~", "^", "-"}
            <4>1. Added(c, fold, blank) = Pieces(c)
                BY <3>3 DEF Added
            <4>2. QED
                BY <4>1, PureSequences
        <3>4. QED
            BY <1>2, <3>1, <3>2, <3>3
    <2>3. QED
        BY <1>2, <2>1, <2>2 DEF Pure
<1>3. QED
    BY <1>1, <1>2

\* NormalStep() appends, one way or another.
LEMMA AppendGrows ==
    ASSUME NEW done \in Seq(NormalEntry), NEW c \in NormalSymbols, NEW i \in Nat
    PROVE  Grows(Append(done, [symbol |-> c, at |-> i]), done, <<c>>, i)
<1>1. [symbol |-> c, at |-> i] \in NormalEntry
    BY DEF NormalEntry
<1>2. Len(<<c>>) = 1 /\ <<c>>[1] = c
    OBVIOUS
<1>3. PICK e : e = [symbol |-> c, at |-> i]
    OBVIOUS
<1>4. /\ Append(done, e) \in Seq(NormalEntry) /\ Len(Append(done, e)) = Len(done) + 1
      /\ \A j \in 1 .. Len(done) : Append(done, e)[j] = done[j]
      /\ Append(done, e)[Len(done) + 1] = e
    BY <1>1, <1>3, AppendProperties
<1>5. QED
    BY <1>2, <1>3, <1>4 DEF Grows

LEMMA ConcatGrows ==
    ASSUME NEW done \in Seq(NormalEntry), NEW added \in Seq(NormalSymbols), NEW i \in Nat
    PROVE  Grows(done \o [j \in DOMAIN added |-> [symbol |-> added[j], at |-> i]], done, added, i)
<1>1. PICK more : more = [j \in DOMAIN added |-> [symbol |-> added[j], at |-> i]]
    OBVIOUS
<1>2. DOMAIN added = 1 .. Len(added) /\ Len(added) \in Nat /\ Len(done) \in Nat
    OBVIOUS
<1>3. \A j \in 1 .. Len(added) : [symbol |-> added[j], at |-> i] \in NormalEntry
    BY <1>2, ElementOfSeq DEF NormalEntry
<1>4. more \in Seq(NormalEntry) /\ Len(more) = Len(added)
    BY <1>1, <1>2, <1>3
<1>5. /\ done \o more \in Seq(NormalEntry) /\ Len(done \o more) = Len(done) + Len(more)
      /\ \A j \in 1 .. Len(done) + Len(more) :
            (done \o more)[j] = IF j <= Len(done) THEN done[j] ELSE more[j - Len(done)]
    BY <1>4, ConcatProperties
<1>6. \A j \in 1 .. Len(done) : (done \o more)[j] = done[j]
    BY <1>2, <1>4, <1>5
<1>7. ASSUME NEW j \in 1 .. Len(added)
      PROVE  (done \o more)[Len(done) + j] = [symbol |-> added[j], at |-> i]
    <2>1. /\ Len(done) + j \in 1 .. Len(done) + Len(more) /\ ~(Len(done) + j <= Len(done))
          /\ Len(done) + j - Len(done) = j
        BY <1>2, <1>4
    <2>2. (done \o more)[Len(done) + j] = more[j]
        BY <1>5, <2>1
    <2>3. QED
        BY <1>1, <1>2, <2>2
<1>8. QED
    BY <1>1, <1>4, <1>5, <1>6, <1>7 DEF Grows

LEMMA NothingGrows ==
    ASSUME NEW done \in Seq(NormalEntry), NEW i \in Nat
    PROVE  Grows(done, done, << >>, i)
BY DEF Grows

\* One turn of the loop of normalize().
LEMMA NormalStepIs ==
    ASSUME NEW text \in Seq(Glyphs), NEW i \in 1 .. Len(text), NEW fold \in BOOLEAN,
           NEW done \in Seq(NormalEntry)
    PROVE  Grows(NormalStep(text, fold, done, i), done, Added(text[i], fold, AtBlank(done)), i)
<1>1. PICK c : c = text[i]
    OBVIOUS
<1>2. c \in {"a", "w", "k", "^", "~", "-"} /\ i \in Nat /\ c \in Glyphs
    BY <1>1, ElementOfSeq DEF Glyphs, Letters
<1>3. Grows(done, done, << >>, i)
    BY <1>2, NothingGrows
<1>4. CASE c = "~"
    BY <1>1, <1>3, <1>4 DEF NormalStep, Added
<1>5. CASE c = "^"
    <2>1. Added(c, fold, AtBlank(done)) = IF fold THEN << >> ELSE <<"^">>
        BY <1>5 DEF Added
    <2>2. NormalStep(text, fold, done, i) = IF fold THEN done ELSE Append(done, [symbol |-> "^", at |-> i])
        BY <1>1, <1>5 DEF NormalStep
    <2>3. Grows(Append(done, [symbol |-> "^", at |-> i]), done, <<"^">>, i)
        BY <1>2, AppendGrows DEF NormalSymbols, Glyphs
    <2>4. QED
        BY <1>1, <1>3, <2>1, <2>2, <2>3
<1>6. CASE c = "-"
    <2>1. Added(c, fold, AtBlank(done)) = IF AtBlank(done) THEN << >> ELSE <<" ">>
        BY <1>6 DEF Added
    <2>2. NormalStep(text, fold, done, i) = IF AtBlank(done) THEN done ELSE Append(done, [symbol |-> " ", at |-> i])
        BY <1>1, <1>6 DEF NormalStep, AtBlank
    <2>3. Grows(Append(done, [symbol |-> " ", at |-> i]), done, <<" ">>, i)
        BY <1>2, AppendGrows DEF NormalSymbols
    <2>4. QED
        BY <1>1, <1>3, <2>1, <2>2, <2>3
<1>7. CASE c \notin {"~", "^", "-"}
    <2>1. Added(c, fold, AtBlank(done)) = Pieces(c)
        BY <1>7 DEF Added
    <2>2. NormalStep(text, fold, done, i) = done \o [j \in DOMAIN Pieces(c) |-> [symbol |-> Pieces(c)[j], at |-> i]]
        BY <1>1, <1>7 DEF NormalStep
    <2>3. Pieces(c) \in Seq(NormalSymbols)
        BY <1>2, PureSequences DEF Pure
    <2>4. QED
        BY <1>1, <1>2, <2>1, <2>2, <2>3, ConcatGrows
<1>8. QED
    BY <1>4, <1>5, <1>6, <1>7

\* What normalize() has after each character of the text.
Builds(done, text, fold) ==
    /\ done[0] = << >>
    /\ \A i \in 0 .. Len(text) : done[i] \in Seq(NormalEntry)
    /\ \A i \in 1 .. Len(text) :
          Grows(done[i], done[i - 1], Added(text[i], fold, AtBlank(done[i - 1])), i)

\* The loop is defined, and builds the normal form.
LEMMA BuildExists ==
    ASSUME NEW text \in Seq(Glyphs), NEW fold \in BOOLEAN
    PROVE  \E h : h = [i \in 0 .. Len(text) |->
                         IF i = 0 THEN << >> ELSE NormalStep(text, fold, h[i - 1], i)]
<1> DEFINE Upto(m) == {h \in [0 .. m -> Seq(NormalEntry)] :
                          h[0] = << >> /\ \A k \in 1 .. m : h[k] = NormalStep(text, fold, h[k - 1], k)}
           bad == {m \in 0 .. Len(text) : Upto(m) = {}}
<1>1. Len(text) \in Nat
    OBVIOUS
<1>2. bad = {}
    <2>1. SUFFICES ASSUME bad # {} PROVE FALSE
        OBVIOUS
    <2>2. PICK x \in bad : \A y \in bad : x <= y
        <3>1. bad \subseteq Nat
            OBVIOUS
        <3> HIDE DEF bad
        <3>2. QED
            BY <2>1, <3>1, LowestNumber
    <2>3. x \in 0 .. Len(text) /\ Upto(x) = {}
        OBVIOUS
    <2>4. CASE x = 0
        <3>1. [k \in 0 .. 0 |-> << >>] \in Upto(0)
            OBVIOUS
        <3>2. QED
            BY <2>3, <2>4, <3>1
    <2>5. CASE x # 0
        <3>1. x - 1 \in 0 .. Len(text) /\ x \in 1 .. Len(text) /\ ~(x <= x - 1)
            BY <1>1, <2>3, <2>5
        <3>2. Upto(x - 1) # {}
            BY <2>2, <3>1
        <3>3. PICK h \in [0 .. x - 1 -> Seq(NormalEntry)] :
                 h[0] = << >> /\ \A k \in 1 .. x - 1 : h[k] = NormalStep(text, fold, h[k - 1], k)
            BY <3>2
        <3>4. PICK next : next = NormalStep(text, fold, h[x - 1], x)
            OBVIOUS
        <3>5. next \in Seq(NormalEntry)
            <4>1. h[x - 1] \in Seq(NormalEntry)
                BY <3>1, <3>3
            <4>2. QED
                BY <3>1, <3>4, <4>1, NormalStepIs DEF Grows
        <3>6. PICK g : g = [k \in 0 .. x |-> IF k = x THEN next ELSE h[k]]
            OBVIOUS
        <3>7. g \in [0 .. x -> Seq(NormalEntry)] /\ g[0] = << >>
            BY <2>3, <2>5, <3>1, <3>3, <3>5, <3>6
        <3>8. ASSUME NEW k \in 1 .. x
              PROVE  g[k] = NormalStep(text, fold, g[k - 1], k)
            <4>1. k - 1 \in 0 .. x /\ k - 1 # x /\ k \in 0 .. x
                BY <3>1
            <4>2. g[k - 1] = h[k - 1]
                BY <3>6, <4>1
            <4>3. CASE k = x
                BY <3>4, <3>6, <4>1, <4>2, <4>3
            <4>4. CASE k # x
                <5>1. k \in 1 .. x - 1
                    BY <3>1, <4>4
                <5>2. QED
                    BY <3>3, <3>6, <4>1, <4>2, <4>4, <5>1
            <4>5. QED
                BY <4>3, <4>4
        <3>9. g \in Upto(x)
            BY <3>7, <3>8
        <3>10. QED
            BY <2>3, <3>9
    <2>6. QED
        BY <2>4, <2>5
<1>3. Upto(Len(text)) # {}
    <2> HIDE DEF Upto
    <2>1. QED
        BY <1>1, <1>2
<1>4. PICK h \in [0 .. Len(text) -> Seq(NormalEntry)] :
         h[0] = << >> /\ \A k \in 1 .. Len(text) : h[k] = NormalStep(text, fold, h[k - 1], k)
    BY <1>3
<1>5. \A i \in 0 .. Len(text) : h[i] = IF i = 0 THEN << >> ELSE NormalStep(text, fold, h[i - 1], i)
    BY <1>1, <1>4
<1>6. h = [i \in 0 .. Len(text) |-> h[i]]
    BY <1>4
<1>7. h = [i \in 0 .. Len(text) |-> IF i = 0 THEN << >> ELSE NormalStep(text, fold, h[i - 1], i)]
    BY <1>5, <1>6
<1>8. QED
    BY <1>7

LEMMA NormalizeBuilds ==
    ASSUME NEW text \in Seq(Glyphs), NEW fold \in BOOLEAN
    PROVE  \E done : Builds(done, text, fold) /\ NormalizeWith(text, fold) = Trimmed(done[Len(text)])
<1> DEFINE F(h) == [i \in 0 .. Len(text) |-> IF i = 0 THEN << >> ELSE NormalStep(text, fold, h[i - 1], i)]
<1>1. PICK done : done = CHOOSE h : h = F(h)
    OBVIOUS
<1>2. NormalizeWith(text, fold) = Trimmed(done[Len(text)])
    BY <1>1 DEF NormalizeWith
<1>3. done = F(done)
    <2>1. \E h : h = F(h)
        BY BuildExists
    <2> HIDE DEF F
    <2>2. QED
        BY <1>1, <2>1
<1>4. /\ done[0] = << >>
      /\ \A i \in 1 .. Len(text) : done[i] = NormalStep(text, fold, done[i - 1], i)
    <2>1. \A i \in 0 .. Len(text) : done[i] = IF i = 0 THEN << >> ELSE NormalStep(text, fold, done[i - 1], i)
        BY <1>3
    <2>2. QED
        BY <2>1
<1> HIDE DEF F
<1> DEFINE bad == {m \in 0 .. Len(text) : done[m] \notin Seq(NormalEntry)}
<1>5. bad = {}
    <2>1. SUFFICES ASSUME bad # {} PROVE FALSE
        OBVIOUS
    <2>2. PICK x \in bad : \A y \in bad : x <= y
        <3>1. bad \subseteq Nat
            OBVIOUS
        <3> HIDE DEF bad
        <3>2. QED
            BY <2>1, <3>1, LowestNumber
    <2>3. x \in 0 .. Len(text) /\ done[x] \notin Seq(NormalEntry)
        OBVIOUS
    <2>4. x # 0
        BY <1>4, <2>3, EmptySeq
    <2>5. x \in 1 .. Len(text) /\ x - 1 \in 0 .. Len(text) /\ ~(x <= x - 1)
        BY <2>3, <2>4
    <2>6. done[x - 1] \in Seq(NormalEntry)
        BY <2>2, <2>5
    <2>7. QED
        BY <1>4, <2>3, <2>5, <2>6, NormalStepIs DEF Grows
<1>6. ASSUME NEW i \in 1 .. Len(text)
      PROVE  Grows(done[i], done[i - 1], Added(text[i], fold, AtBlank(done[i - 1])), i)
    <2>1. i - 1 \in 0 .. Len(text)
        OBVIOUS
    <2>2. done[i - 1] \in Seq(NormalEntry)
        BY <1>5, <2>1
    <2>3. QED
        BY <1>4, <2>2, NormalStepIs
<1>7. QED
    BY <1>2, <1>4, <1>5, <1>6 DEF Builds

-----------------------------------------------------------------------------
\* The normal form is in order, and what is there already stays.

\* The first k characters of a text, normalised: in order, and never two
\* separators together or one at the start.
Sorted(done, k) ==
    /\ \A j \in 1 .. Len(done) : done[j].at \in 1 .. k
    /\ \A i, j \in 1 .. Len(done) : i <= j => done[i].at <= done[j].at
    /\ \A j \in 1 .. Len(done) : done[j].symbol = " " => j > 1 /\ done[j - 1].symbol # " "

\* An entry is an old one or comes from the character just read.
LEMMA GrownEntry ==
    ASSUME NEW done \in Seq(NormalEntry), NEW added \in Seq(NormalSymbols), NEW i \in Nat, NEW new,
           Grows(new, done, added, i), NEW j \in 1 .. Len(new)
    PROVE  \/ j \in 1 .. Len(done) /\ new[j] = done[j]
           \/ /\ j > Len(done) /\ j - Len(done) \in 1 .. Len(added)
              /\ new[j].at = i /\ new[j].symbol = added[j - Len(done)]
<1>1. Len(done) \in Nat /\ Len(added) \in Nat /\ Len(new) = Len(done) + Len(added)
    BY DEF Grows
<1>2. CASE j <= Len(done)
    BY <1>1, <1>2 DEF Grows
<1>3. CASE j > Len(done)
    <2>1. PICK m : m = j - Len(done)
        OBVIOUS
    <2>2. m \in 1 .. Len(added) /\ j = Len(done) + m
        BY <1>1, <1>3, <2>1
    <2>3. new[j] = [symbol |-> added[m], at |-> i]
        BY <2>2 DEF Grows
    <2>4. new[j].at = i /\ new[j].symbol = added[m]
        BY <2>3
    <2>5. QED
        BY <1>3, <2>1, <2>2, <2>4, Zenon
<1>4. QED
    BY <1>1, <1>2, <1>3

\* One separator.
Separates(added) == added \in Seq(NormalSymbols) /\ Len(added) = 1

\* The order is kept, ...
LEMMA GrowsSorted ==
    ASSUME NEW k \in Nat, k > 0, NEW done \in Seq(NormalEntry), Sorted(done, k - 1),
           NEW added \in Seq(NormalSymbols), NEW new, Grows(new, done, added, k),
           Pure(added) \/ (Separates(added) /\ ~AtBlank(done))
    PROVE  Sorted(new, k)
<1>1. /\ Len(done) \in Nat /\ Len(added) \in Nat /\ Len(new) = Len(done) + Len(added)
      /\ new \in Seq(NormalEntry) /\ Len(added) >= 0 /\ Len(done) >= 0
    BY DEF Grows
<1>2. \A j \in 1 .. Len(new) :
        \/ j \in 1 .. Len(done) /\ new[j] = done[j]
        \/ /\ j > Len(done) /\ j - Len(done) \in 1 .. Len(added)
           /\ new[j].at = k /\ new[j].symbol = added[j - Len(done)]
    BY GrownEntry
<1>3. ASSUME NEW j \in 1 .. Len(new)
      PROVE  new[j].at \in 1 .. k /\ (j > Len(done) => new[j].at = k)
    <2>1. CASE j \in 1 .. Len(done) /\ new[j] = done[j]
        <3>1. done[j].at \in 1 .. k - 1
            BY <2>1 DEF Sorted
        <3>2. ~(j > Len(done))
            BY <1>1, <2>1
        <3>3. QED
            BY <2>1, <3>1, <3>2
    <2>2. CASE j > Len(done) /\ new[j].at = k
        BY <2>2
    <2>3. QED
        BY <1>2, <2>1, <2>2
<1>4. ASSUME NEW i \in 1 .. Len(new), NEW j \in 1 .. Len(new), i <= j
      PROVE  new[i].at <= new[j].at
    <2>1. CASE j > Len(done)
        BY <1>3, <2>1
    <2>2. CASE ~(j > Len(done))
        <3>1. i \in 1 .. Len(done) /\ j \in 1 .. Len(done)
            BY <1>1, <1>4, <2>2
        <3>2. new[i] = done[i] /\ new[j] = done[j]
            BY <1>1, <1>2, <3>1
        <3>3. QED
            BY <1>4, <3>1, <3>2 DEF Sorted
    <2>3. QED
        BY <2>1, <2>2
<1>5. ASSUME NEW j \in 1 .. Len(new), new[j].symbol = " "
      PROVE  j > 1 /\ new[j - 1].symbol # " "
    <2>1. CASE j \in 1 .. Len(done) /\ new[j] = done[j]
        <3>1. j > 1 /\ done[j - 1].symbol # " "
            BY <1>5, <2>1 DEF Sorted
        <3>2. j - 1 \in 1 .. Len(done) /\ j - 1 \in 1 .. Len(new)
            <4>1. PICK d \in Nat, n \in Nat : d = Len(done) /\ n = Len(new) /\ d <= n
                BY <1>1
            <4>2. j \in 1 .. d /\ j > 1
                BY <2>1, <3>1, <4>1, Zenon
            <4>3. j - 1 \in 1 .. d /\ j - 1 \in 1 .. n
                BY <4>1, <4>2
            <4>4. QED
                BY <4>1, <4>3, Zenon
        <3>3. new[j - 1] = done[j - 1]
            BY <1>1, <1>2, <3>2
        <3>4. QED
            BY <3>1, <3>3
    <2>2. CASE j > Len(done) /\ j - Len(done) \in 1 .. Len(added) /\ new[j].symbol = added[j - Len(done)]
        <3>1. ~Pure(added)
            BY <1>5, <2>2 DEF Pure
        <3>2. Separates(added) /\ ~AtBlank(done)
            BY <3>1
        <3>4. Len(added) = 1
            BY <3>2 DEF Separates
        <3>5. j = Len(done) + 1
            BY <1>1, <2>2, <3>4
        <3>6. done # << >> /\ done[Len(done)].symbol # " "
            BY <3>2 DEF AtBlank, Last
        <3>7. Len(done) \in 1 .. Len(done)
            <4>1. PICK l \in Nat \ {0} : l = Len(done)
                BY <3>6, EmptySeq
            <4>2. l \in 1 .. l
                OBVIOUS
            <4>3. QED
                BY <4>1, <4>2, Zenon
        <3>8. Len(done) \in 1 .. Len(new) /\ ~(Len(done) > Len(done))
            BY <1>1, <3>7
        <3>9. new[Len(done)] = done[Len(done)]
            BY <1>2, <3>8
        <3>10. j - 1 = Len(done) /\ j > 1
            BY <1>1, <3>5, <3>7
        <3>11. QED
            BY <3>6, <3>9, <3>10
    <2>3. QED
        BY <1>2, <2>1, <2>2
<1>6. QED
    BY <1>3, <1>4, <1>5 DEF Sorted

\* What is done after i characters is the beginning of what is done after k;
\* the rest comes from later characters.
Begins(done, i, k) ==
    /\ Len(done[i]) <= Len(done[k])
    /\ \A j \in 1 .. Len(done[i]) : done[k][j] = done[i][j]
    /\ \A j \in 1 .. Len(done[k]) : j > Len(done[i]) => done[k][j].at > i

\* ... and so is what is there already, ...
LEMMA GrowsBegins ==
    ASSUME NEW done, NEW i \in Nat, NEW k \in Nat, i < k, done[i] \in Seq(NormalEntry),
           done[k - 1] \in Seq(NormalEntry),
           Begins(done, i, k - 1), NEW added \in Seq(NormalSymbols), Grows(done[k], done[k - 1], added, k)
    PROVE  Begins(done, i, k)
<1>1. PICK old, new, first : old = done[k - 1] /\ new = done[k] /\ first = done[i]
    OBVIOUS
<1>2. /\ Len(first) \in Nat /\ Len(old) \in Nat /\ Len(added) \in Nat /\ Len(new) = Len(old) + Len(added)
      /\ old \in Seq(NormalEntry) /\ Grows(new, old, added, k) /\ Len(first) <= Len(old)
    BY <1>1 DEF Grows, Begins
<1>3. \A j \in 1 .. Len(new) :
        \/ j \in 1 .. Len(old) /\ new[j] = old[j]
        \/ j > Len(old) /\ new[j].at = k
    <2>1. ASSUME NEW j \in 1 .. Len(new)
          PROVE  \/ j \in 1 .. Len(old) /\ new[j] = old[j]
                 \/ j > Len(old) /\ new[j].at = k
        <3>1. old \in Seq(NormalEntry) /\ Grows(new, old, added, k)
            BY <1>2
        <3>2. \/ j \in 1 .. Len(old) /\ new[j] = old[j]
              \/ /\ j > Len(old) /\ j - Len(old) \in 1 .. Len(added)
                 /\ new[j].at = k /\ new[j].symbol = added[j - Len(old)]
            BY <3>1, GrownEntry
        <3>3. QED
            BY <3>2, Zenon
    <2>2. QED
        BY <2>1
<1>4. ASSUME NEW j \in 1 .. Len(first)
      PROVE  new[j] = first[j]
    <2>1. j \in 1 .. Len(new) /\ j \in 1 .. Len(old)
        BY <1>2
    <2>2. new[j] = old[j]
        BY <1>2, <1>3, <2>1
    <2>3. old[j] = first[j]
        BY <1>1 DEF Begins
    <2>4. QED
        BY <2>2, <2>3
<1>5. ASSUME NEW j \in 1 .. Len(new), j > Len(first)
      PROVE  new[j].at > i
    <2>1. CASE j \in 1 .. Len(old) /\ new[j] = old[j]
        <3>1. old[j].at > i
            BY <1>1, <1>5, <2>1 DEF Begins
        <3>2. QED
            BY <2>1, <3>1
    <2>2. CASE new[j].at = k
        BY <2>2
    <2>3. QED
        BY <1>3, <2>1, <2>2
<1>6. QED
    BY <1>1, <1>2, <1>4, <1>5 DEF Begins

\* ... all the way.
LEMMA BuildIsSorted ==
    ASSUME NEW text \in Seq(Glyphs), NEW fold \in BOOLEAN, NEW done, Builds(done, text, fold)
    PROVE  \A k \in 0 .. Len(text) : Sorted(done[k], k) /\ \A i \in 0 .. k : Begins(done, i, k)
<1> DEFINE P(k) == Sorted(done[k], k) /\ \A i \in 0 .. k : Begins(done, i, k)
           bad == {k \in 0 .. Len(text) : ~P(k)}
<1>1. SUFFICES ASSUME bad # {} PROVE FALSE
    OBVIOUS
<1>2. PICK k \in bad : \A y \in bad : k <= y
    <2>1. bad \subseteq Nat
        OBVIOUS
    <2> HIDE DEF bad
    <2>2. QED
        BY <1>1, <2>1, LowestNumber
<1>3. k \in 0 .. Len(text) /\ ~P(k) /\ Len(text) \in Nat
    OBVIOUS
<1>4. k # 0
    <2>1. 1 .. Len(done[0]) = {} /\ Len(done[0]) <= Len(done[0])
        <3>1. done[0] = << >> /\ Len(<< >>) = 0
            BY DEF Builds
        <3>2. Len(done[0]) = 0
            BY <3>1, Zenon
        <3>3. 1 .. 0 = {} /\ 0 <= 0
            OBVIOUS
        <3>4. QED
            BY <3>2, <3>3, Zenon
    <2>2. Sorted(done[0], 0)
        BY <2>1, Zenon DEF Sorted
    <2>3. Begins(done, 0, 0)
        BY <2>1, Zenon DEF Begins
    <2>4. P(0)
        BY <2>2, <2>3
    <2> HIDE DEF P
    <2>5. QED
        BY <1>3, <2>4
<1>5. k \in 1 .. Len(text) /\ k - 1 \in 0 .. Len(text) /\ ~(k <= k - 1) /\ k \in Nat /\ k > 0
    BY <1>3, <1>4
<1>6. P(k - 1)
    <2> HIDE DEF P
    <2>1. QED
        BY <1>2, <1>5
<1>7. PICK added : added = Added(text[k], fold, AtBlank(done[k - 1]))
    OBVIOUS
<1>8. done[k - 1] \in Seq(NormalEntry) /\ done[k] \in Seq(NormalEntry) /\ Grows(done[k], done[k - 1], added, k)
    BY <1>3, <1>5, <1>7 DEF Builds
<1>9. text[k] \in Glyphs /\ AtBlank(done[k - 1]) \in BOOLEAN
    BY <1>5, ElementOfSeq DEF AtBlank
<1>10. /\ added \in Seq(NormalSymbols)
       /\ text[k] # "-" => Pure(added)
       /\ text[k] = "-" => added = IF AtBlank(done[k - 1]) THEN << >> ELSE <<" ">>
    BY <1>7, <1>9, AddedIs
<1>11. Pure(added) \/ (Separates(added) /\ ~AtBlank(done[k - 1]))
    <2>1. CASE text[k] # "-"
        BY <1>10, <2>1
    <2>2. CASE text[k] = "-" /\ AtBlank(done[k - 1])
        BY <1>10, <2>2, PureSequences
    <2>3. CASE text[k] = "-" /\ ~AtBlank(done[k - 1])
        <3>1. added = <<" ">>
            BY <1>10, <2>3
        <3>2. Len(<<" ">>) = 1
            OBVIOUS
        <3>3. Separates(added)
            BY <1>10, <3>1, <3>2, Zenon DEF Separates
        <3>4. QED
            BY <2>3, <3>3
    <2>4. QED
        BY <2>1, <2>2, <2>3
<1>12. Sorted(done[k], k)
    BY <1>5, <1>6, <1>8, <1>10, <1>11, GrowsSorted
<1>13. ASSUME NEW i \in 0 .. k
       PROVE  Begins(done, i, k)
    <2>1. CASE i = k
        BY <2>1 DEF Begins
    <2>2. CASE i # k
        <3>1. i \in 0 .. k - 1 /\ i \in Nat /\ i < k /\ i \in 0 .. Len(text)
            BY <1>5, <2>2
        <3>2. Begins(done, i, k - 1) /\ done[i] \in Seq(NormalEntry)
            BY <1>6, <3>1 DEF Builds
        <3>3. QED
            BY <1>5, <1>8, <1>10, <3>1, <3>2, GrowsBegins
    <2>3. QED
        BY <2>1, <2>2
<1>14. QED
    BY <1>3, <1>12, <1>13

-----------------------------------------------------------------------------
\* The normal form and the keys of a keyword neither start nor end with a separator.

\* A separator at the end is cut off and nothing else.
Trims(t, done) ==
    /\ t \in Seq(NormalEntry) /\ Len(t) <= Len(done)
    /\ \A j \in 1 .. Len(t) : t[j] = done[j]
    /\ \A j \in 1 .. Len(done) : done[j].symbol # " " => j <= Len(t)

\* Trimmed() does this.
LEMMA TrimmedTrims ==
    ASSUME NEW done \in Seq(NormalEntry)
    PROVE  Trims(Trimmed(done), done)
<1>1. CASE done # << >> /\ Last(done).symbol = " "
    <2>1. Trimmed(done) = Front(done)
        BY <1>1 DEF Trimmed
    <2>2. PICK t, l : t = Front(done) /\ l = Len(done)
        OBVIOUS
    <2>3. /\ t \in Seq(NormalEntry) /\ l \in Nat /\ l >= 1 /\ Len(t) = l - 1
          /\ \A i \in 1 .. l - 1 : t[i] = done[i]
        BY <1>1, <2>2, FrontIs
    <2>4. done[l].symbol = " "
        BY <1>1, <2>2 DEF Last
    <2>5. ASSUME NEW j \in 1 .. l, done[j].symbol # " "
          PROVE  j <= l - 1
        <3>1. j # l
            BY <2>4, <2>5
        <3>2. QED
            BY <2>3, <3>1
    <2>6. l - 1 <= l
        BY <2>3
    <2>7. QED
        BY <2>1, <2>2, <2>3, <2>5, <2>6, Zenon DEF Trims
<1>2. CASE ~(done # << >> /\ Last(done).symbol = " ")
    <2>1. Trimmed(done) = done
        BY <1>2 DEF Trimmed
    <2>2. Trims(done, done)
        <3>1. PICK l \in Nat : l = Len(done)
            OBVIOUS
        <3>2. l <= l /\ \A j \in 1 .. l : j <= l
            BY <3>1
        <3>3. QED
            BY <3>1, <3>2, Zenon DEF Trims
    <2>3. QED
        BY <2>1, <2>2
<1>3. QED
    BY <1>1, <1>2

\* A normal form: in order, with separators only inside.
Formed(n, k) ==
    /\ n \in Seq(NormalEntry) /\ Sorted(n, k)
    /\ n # << >> => n[Len(n)].symbol # " "

\* normalize() returns one.
LEMMA TrimmedIsFormed ==
    ASSUME NEW done \in Seq(NormalEntry), NEW k \in Nat, Sorted(done, k)
    PROVE  Formed(Trimmed(done), k)
<1>1. PICK t : t = Trimmed(done)
    OBVIOUS
<1>2. Trims(t, done)
    BY <1>1, TrimmedTrims
<1>3. PICK l \in Nat, m \in Nat : l = Len(t) /\ m = Len(done) /\ l <= m
    <2>1. t \in Seq(NormalEntry) /\ Len(t) <= Len(done)
        BY <1>2, Zenon DEF Trims
    <2>2. Len(t) \in Nat /\ Len(done) \in Nat
        BY <2>1
    <2>3. QED
        BY <2>1, <2>2, Zenon
<1>4. /\ t \in Seq(NormalEntry) /\ \A j \in 1 .. l : t[j] = done[j] /\ j \in 1 .. m
      /\ \A j \in 1 .. m : done[j].symbol # " " => j <= l
    <2>1. \A j \in 1 .. l : j \in 1 .. m
        BY <1>3
    <2>2. QED
        BY <1>2, <1>3, <2>1, Zenon DEF Trims
<1>5. /\ \A j \in 1 .. m : done[j].at \in 1 .. k
      /\ \A i, j \in 1 .. m : i <= j => done[i].at <= done[j].at
      /\ \A j \in 1 .. m : done[j].symbol = " " => j > 1 /\ done[j - 1].symbol # " "
    BY <1>3, Zenon DEF Sorted
<1>6. Sorted(t, k)
    <2>1. \A j \in 1 .. l : t[j].at \in 1 .. k
        BY <1>4, <1>5
    <2>2. \A i, j \in 1 .. l : i <= j => t[i].at <= t[j].at
        BY <1>4, <1>5
    <2>3. ASSUME NEW j \in 1 .. l, t[j].symbol = " "
          PROVE  j > 1 /\ t[j - 1].symbol # " "
        <3>1. j > 1 /\ done[j - 1].symbol # " "
            BY <1>4, <1>5, <2>3
        <3>2. j - 1 \in 1 .. l
            <4>1. j > 1
                BY <3>1, Zenon
            <4>2. QED
                BY <1>3, <4>1
        <3>3. t[j - 1] = done[j - 1]
            BY <1>4, <3>2
        <3>4. QED
            BY <3>1, <3>3
    <2>4. QED
        BY <1>3, <2>1, <2>2, <2>3, Zenon DEF Sorted
<1>7. ASSUME t # << >>
      PROVE  t[l].symbol # " "
    <2>1. l # 0
        BY <1>3, <1>4, <1>7, EmptySeq
    <2>2. l \in 1 .. l /\ l \in 1 .. m
        BY <1>3, <2>1
    <2>3. SUFFICES ASSUME t[l].symbol = " " PROVE FALSE
        OBVIOUS
    <2>4. done[l].symbol = " "
        BY <1>4, <2>2, <2>3
    <2>5. t = Trimmed(done) /\ Len(Front(done)) = m - 1 /\ done # << >>
        <3>1. done # << >>
            <4>1. m # 0
                BY <1>3, <2>1
            <4>2. Len(<< >>) = 0
                OBVIOUS
            <4>3. QED
                BY <1>3, <4>1, <4>2, Zenon
        <3>2. QED
            BY <1>1, <1>3, <3>1, FrontIs
    <2>6. CASE l = m
        <3>1. Last(done).symbol = " "
            BY <1>3, <2>4, <2>6, Zenon DEF Last
        <3>2. t = Front(done)
            BY <2>5, <3>1, Zenon DEF Trimmed
        <3>3. l = m - 1
            BY <1>3, <2>5, <3>2, Zenon
        <3>4. QED
            BY <1>3, <2>6, <3>3
    <2>7. CASE l # m
        <3>1. PICK q \in 1 .. m : q - 1 = l /\ ~(q <= l)
            <4>1. l + 1 \in 1 .. m /\ (l + 1) - 1 = l /\ ~(l + 1 <= l)
                BY <1>3, <2>7
            <4>2. QED
                BY <4>1
        <3>2. done[q].symbol = " "
            BY <1>4, <3>1
        <3>3. done[q - 1].symbol # " "
            BY <1>5, <3>2, Zenon
        <3>4. QED
            BY <2>4, <3>1, <3>3, Zenon
    <2>8. QED
        BY <2>6, <2>7
<1>8. QED
    BY <1>1, <1>3, <1>4, <1>6, <1>7, Zenon DEF Formed

LEMMA NormalFormIsFormed ==
    ASSUME NEW text \in Seq(Glyphs), NEW fold \in BOOLEAN
    PROVE  Formed(NormalizeWith(text, fold), Len(text))
<1>1. PICK done : Builds(done, text, fold) /\ NormalizeWith(text, fold) = Trimmed(done[Len(text)])
    BY NormalizeBuilds
<1>2. Len(text) \in Nat /\ Len(text) \in 0 .. Len(text)
    OBVIOUS
<1>3. done[Len(text)] \in Seq(NormalEntry) /\ Sorted(done[Len(text)], Len(text))
    BY <1>1, <1>2, BuildIsSorted DEF Builds
<1>4. QED
    BY <1>1, <1>2, <1>3, TrimmedIsFormed

LEMMA SymbolsAre ==
    ASSUME NEW n \in Seq(NormalEntry)
    PROVE  /\ Symbols(n) \in Seq(NormalSymbols) /\ Len(Symbols(n)) = Len(n)
           /\ \A i \in 1 .. Len(n) : Symbols(n)[i] = n[i].symbol
<1>1. DOMAIN n = 1 .. Len(n) /\ Len(n) \in Nat /\ \A i \in 1 .. Len(n) : n[i] \in NormalEntry
    BY ElementOfSeq
<1>2. \A i \in 1 .. Len(n) : n[i].symbol \in NormalSymbols
    BY <1>1 DEF NormalEntry
<1>3. PICK s : s = [i \in 1 .. Len(n) |-> n[i].symbol]
    OBVIOUS
<1>4. s \in Seq(NormalSymbols) /\ Len(s) = Len(n) /\ \A i \in 1 .. Len(n) : s[i] = n[i].symbol
    BY <1>1, <1>2, <1>3
<1>5. Symbols(n) = s
    BY <1>1, <1>3, Zenon DEF Symbols
<1>6. QED
    BY <1>4, <1>5, Zenon

\* A pattern neither starts nor ends with a separator.
Pattern(p) ==
    /\ p \in Seq(NormalSymbols) /\ p # << >>
    /\ p[1] # " " /\ p[Len(p)] # " "

\* A key of a keyword is a pattern.
LEMMA KeysArePatterns ==
    ASSUME NEW text \in Seq(Glyphs), NEW p \in VariantKeys(text)
    PROVE  Pattern(p)
<1>1. PICK fold \in BOOLEAN : p = Symbols(NormalizeWith(text, fold))
    BY DEF VariantKeys
<1>2. p # << >>
    BY DEF VariantKeys
<1>3. PICK n : n = NormalizeWith(text, fold)
    OBVIOUS
<1>4. Formed(n, Len(text)) /\ p = Symbols(n)
    BY <1>1, <1>3, NormalFormIsFormed
<1>5. n \in Seq(NormalEntry) /\ Sorted(n, Len(text)) /\ (n # << >> => n[Len(n)].symbol # " ")
    BY <1>4 DEF Formed
<1>6. p \in Seq(NormalSymbols) /\ Len(p) = Len(n) /\ \A i \in 1 .. Len(n) : p[i] = n[i].symbol
    BY <1>4, <1>5, SymbolsAre
<1>7. PICK l \in Nat \ {0} : l = Len(p)
    BY <1>2, <1>6, EmptySeq
<1>8. 1 \in 1 .. l /\ l \in 1 .. l /\ l # 0 /\ ~(1 > 1)
    OBVIOUS
<1>9. n # << >>
    <2>1. Len(<< >>) = 0
        OBVIOUS
    <2>2. QED
        BY <1>6, <1>7, <1>8, <2>1, Zenon
<1>10. p[1] = n[1].symbol /\ p[l] = n[l].symbol /\ l = Len(n)
    BY <1>6, <1>7, <1>8, Zenon
<1>11. n[1].symbol # " "
    BY <1>5, <1>6, <1>7, <1>8, Zenon DEF Sorted
<1>12. QED
    BY <1>2, <1>5, <1>6, <1>7, <1>9, <1>10, <1>11, Zenon DEF Pattern

-----------------------------------------------------------------------------
\* A part of a text, normalised by itself.

\* After its first a entries, long has the symbols of short.
Matches(long, short, a) ==
    /\ Len(long) = a + Len(short)
    /\ \A i \in 1 .. Len(short) : long[a + i].symbol = short[i].symbol

\* Both grow in step, ...
LEMMA MatchGrows ==
    ASSUME NEW a \in Nat, NEW long \in Seq(NormalEntry), NEW short \in Seq(NormalEntry), Matches(long, short, a),
           NEW added \in Seq(NormalSymbols), NEW i \in Nat, NEW j \in Nat, NEW long2, NEW short2,
           Grows(long2, long, added, i), Grows(short2, short, added, j)
    PROVE  Matches(long2, short2, a)
<1>1. PICK l \in Nat, s \in Nat, m \in Nat : l = Len(long) /\ s = Len(short) /\ m = Len(added)
    OBVIOUS
<1>2. /\ Len(long2) = l + m /\ Len(short2) = s + m
      /\ \A k \in 1 .. l : long2[k] = long[k]
      /\ \A k \in 1 .. s : short2[k] = short[k]
      /\ \A k \in 1 .. m : long2[l + k] = [symbol |-> added[k], at |-> i]
      /\ \A k \in 1 .. m : short2[s + k] = [symbol |-> added[k], at |-> j]
    BY <1>1, Zenon DEF Grows
<1>3. l = a + s /\ \A k \in 1 .. s : long[a + k].symbol = short[k].symbol
    BY <1>1, Zenon DEF Matches
<1>4. ASSUME NEW k \in 1 .. s + m
      PROVE  long2[a + k].symbol = short2[k].symbol
    <2>1. CASE k <= s
        <3>1. k \in 1 .. s /\ a + k \in 1 .. l
            BY <1>1, <1>3, <2>1
        <3>2. long2[a + k] = long[a + k] /\ short2[k] = short[k]
            BY <1>2, <3>1, Zenon
        <3>3. QED
            BY <1>3, <3>1, <3>2, Zenon
    <2>2. CASE ~(k <= s)
        <3>1. PICK d \in 1 .. m : k = s + d /\ a + k = l + d
            <4>1. k - s \in 1 .. m /\ k = s + (k - s) /\ a + k = l + (k - s)
                BY <1>1, <1>3, <2>2
            <4>2. QED
                BY <4>1, Zenon
        <3>2. long2[l + d].symbol = added[d] /\ short2[s + d].symbol = added[d]
            <4>1. /\ long2[l + d] = [symbol |-> added[d], at |-> i]
                  /\ short2[s + d] = [symbol |-> added[d], at |-> j]
                BY <1>2, Zenon
            <4>2. QED
                BY <4>1
        <3>3. QED
            BY <3>1, <3>2, Zenon
    <2>3. QED
        BY <2>1, <2>2
<1>5. l + m = a + (s + m)
    BY <1>1, <1>3
<1>6. QED
    BY <1>1, <1>2, <1>4, <1>5, Zenon DEF Matches

\* ... and agree on whether a separator would be one too many.
LEMMA MatchBlank ==
    ASSUME NEW a \in Nat, NEW long \in Seq(NormalEntry), NEW short \in Seq(NormalEntry), Matches(long, short, a),
           Len(short) >= 1
    PROVE  AtBlank(long) = AtBlank(short)
<1>1. PICK l \in Nat, s \in Nat : l = Len(long) /\ s = Len(short)
    OBVIOUS
<1>2. l = a + s /\ \A k \in 1 .. s : long[a + k].symbol = short[k].symbol
    BY <1>1, Zenon DEF Matches
<1>3. s >= 1 /\ s \in 1 .. s /\ l # 0 /\ s # 0
    BY <1>1, <1>2
<1>4. long # << >> /\ short # << >>
    <2>1. Len(<< >>) = 0
        OBVIOUS
    <2>2. QED
        BY <1>1, <1>3, <2>1, Zenon
<1>5. Last(long).symbol = Last(short).symbol
    BY <1>1, <1>2, <1>3, Zenon DEF Last
<1>6. QED
    BY <1>4, <1>5 DEF AtBlank

\* The part of a text that starts at character from, normalised by itself, has
\* the symbols of the whole from there on.
Along(D, C, from, j) ==
    Matches(D[from - 1 + j], C[j], Len(D[from - 1])) /\ (j >= 1 => Len(C[j]) >= 1)

\* A part that starts with a character that leaves a symbol does so.
LEMMA PartNormalises ==
    ASSUME NEW text \in Seq(Glyphs), NEW fold \in BOOLEAN, NEW part \in Seq(Glyphs), NEW from \in 1 .. Len(text),
           Len(part) <= Len(text) - from + 1, \A j \in 1 .. Len(part) : part[j] = text[from - 1 + j],
           NEW D, NEW C, Builds(D, text, fold), Builds(C, part, fold),
           text[from] # "-", Len(D[from]) > Len(D[from - 1])
    PROVE  \A j \in 0 .. Len(part) : Along(D, C, from, j)
<1>1. PICK l \in Nat, m \in Nat : l = Len(text) /\ m = Len(part)
    OBVIOUS
<1>2. m <= l - from + 1 /\ from \in 1 .. l
    BY <1>1
<1>3. /\ \A j \in 1 .. m : part[j] = text[from - 1 + j]
      /\ D[0] = << >> /\ C[0] = << >>
      /\ \A i \in 0 .. l : D[i] \in Seq(NormalEntry)
      /\ \A j \in 0 .. m : C[j] \in Seq(NormalEntry)
      /\ \A i \in 1 .. l : Grows(D[i], D[i - 1], Added(text[i], fold, AtBlank(D[i - 1])), i)
      /\ \A j \in 1 .. m : Grows(C[j], C[j - 1], Added(part[j], fold, AtBlank(C[j - 1])), j)
    BY <1>1, Zenon DEF Builds
<1>4. PICK a \in Nat : a = Len(D[from - 1])
    <2>1. from - 1 \in 0 .. l
        BY <1>2
    <2>2. D[from - 1] \in Seq(NormalEntry)
        BY <1>3, <2>1
    <2>3. QED
        BY <2>2
<1> DEFINE bad == {j \in 0 .. m : ~Along(D, C, from, j)}
<1>5. bad = {}
    <2>1. SUFFICES ASSUME bad # {} PROVE FALSE
        OBVIOUS
    <2>2. PICK j \in bad : \A y \in bad : j <= y
        <3>1. bad \subseteq Nat
            OBVIOUS
        <3> HIDE DEF bad
        <3>2. QED
            BY <2>1, <3>1, LowestNumber
    <2>3. j \in 0 .. m /\ ~Along(D, C, from, j)
        OBVIOUS
    <2>4. j # 0
        <3>1. from - 1 + 0 = from - 1 /\ a = a + 0 /\ 1 .. 0 = {} /\ ~(0 >= 1)
            BY <1>2, <1>4
        <3>2. Len(C[0]) = 0
            <4>1. Len(<< >>) = 0
                OBVIOUS
            <4>2. QED
                BY <1>3, <4>1, Zenon
        <3>3. Matches(D[from - 1], C[0], a)
            BY <1>4, <3>1, <3>2, Zenon DEF Matches
        <3>4. Along(D, C, from, 0)
            BY <1>4, <3>1, <3>3, Zenon DEF Along
        <3>5. QED
            BY <2>3, <3>4, Zenon
    <2>5. PICK k, i, h : k = j - 1 /\ i = from - 1 + j /\ h = from - 1 + k
        OBVIOUS
    <2>6. /\ j \in 1 .. m /\ k \in 0 .. m /\ i \in 1 .. l /\ h \in 0 .. l /\ i - 1 = h /\ ~(j <= k)
          /\ k \in Nat /\ j \in Nat /\ i \in Nat /\ (k = 0 => i = from)
        BY <1>1, <1>2, <2>3, <2>4, <2>5
    <2>7. Along(D, C, from, k)
        <3>1. k \notin bad
            BY <2>2, <2>6
        <3>2. QED
            BY <2>6, <3>1
    <2>8. Matches(D[h], C[k], a) /\ (k >= 1 => Len(C[k]) >= 1)
        BY <1>4, <2>5, <2>7, Zenon DEF Along
    <2>9. PICK c : c = text[i]
        OBVIOUS
    <2>10. c \in Glyphs /\ part[j] = c
        BY <1>1, <1>3, <2>5, <2>6, <2>9, ElementOfSeq
    <2>11. /\ Grows(D[i], D[h], Added(c, fold, AtBlank(D[h])), i)
           /\ Grows(C[j], C[k], Added(c, fold, AtBlank(C[k])), j)
        BY <1>3, <2>5, <2>6, <2>9, <2>10, Zenon
    <2>12. D[h] \in Seq(NormalEntry) /\ C[k] \in Seq(NormalEntry)
        BY <1>3, <2>6, Zenon
    <2>13. AtBlank(D[h]) \in BOOLEAN /\ AtBlank(C[k]) \in BOOLEAN
        BY DEF AtBlank
    <2>14. Added(c, fold, AtBlank(D[h])) = Added(c, fold, AtBlank(C[k]))
        <3>1. CASE k = 0
            <4>1. c # "-"
                BY <2>6, <2>9, <3>1, Zenon
            <4>2. QED
                BY <2>10, <2>13, <4>1, AddedIs
        <3>2. CASE k # 0
            <4>1. k >= 1
                BY <2>6, <3>2
            <4>2. AtBlank(D[h]) = AtBlank(C[k])
                BY <2>8, <2>12, <4>1, MatchBlank
            <4>3. QED
                BY <4>2
        <3>3. QED
            BY <3>1, <3>2
    <2>15. PICK added : added = Added(c, fold, AtBlank(C[k]))
        OBVIOUS
    <2>16. added \in Seq(NormalSymbols)
        BY <2>10, <2>13, <2>15, AddedIs
    <2>17. Grows(D[i], D[h], added, i) /\ Grows(C[j], C[k], added, j)
        BY <2>11, <2>14, <2>15, Zenon
    <2>18. Matches(D[i], C[j], a) /\ Len(C[j]) = Len(C[k]) + Len(added)
        <3>1. Matches(D[h], C[k], a) /\ i \in Nat /\ j \in Nat
            BY <2>6, <2>8
        <3>2. PICK long, short, d, e : long = D[h] /\ short = C[k] /\ d = D[i] /\ e = C[j]
            OBVIOUS
        <3>3. Grows(d, long, added, i) /\ Grows(e, short, added, j)
            BY <2>17, <3>2, Zenon
        <3>4. long \in Seq(NormalEntry) /\ short \in Seq(NormalEntry) /\ Matches(long, short, a)
            BY <2>12, <3>1, <3>2, Zenon
        <3>5. Matches(d, e, a)
            BY <2>16, <3>1, <3>3, <3>4, MatchGrows
        <3>6. Len(e) = Len(short) + Len(added)
            BY <3>3, Zenon DEF Grows
        <3>7. QED
            BY <3>2, <3>5, <3>6, Zenon
    <2>19. Len(C[j]) >= 1
        <3>1. PICK u \in Nat, v \in Nat : u = Len(C[k]) /\ v = Len(added)
            BY <2>12, <2>16
        <3>2. Len(C[j]) = u + v
            BY <2>18, <3>1, Zenon
        <3>3. CASE k = 0
            <4>1. i = from /\ h = from - 1
                BY <2>6, <3>3
            <4>2. Len(D[from]) = Len(D[from - 1]) + Len(added)
                BY <2>17, <4>1, Zenon DEF Grows
            <4>3. PICK w \in Nat : w = Len(D[from])
                <5>1. D[from] \in Seq(NormalEntry)
                    BY <1>3, <2>6, <4>1
                <5>2. QED
                    BY <5>1
            <4>4. w = a + v /\ w > a
                BY <1>4, <3>1, <4>2, <4>3, Zenon
            <4>5. u + v >= 1
                BY <1>4, <3>1, <4>3, <4>4
            <4>6. QED
                BY <3>2, <4>5, Zenon
        <3>4. CASE k # 0
            <4>1. k >= 1
                BY <2>6, <3>4
            <4>2. u >= 1
                BY <2>8, <3>1, <4>1, Zenon
            <4>3. u + v >= 1
                BY <3>1, <4>2
            <4>4. QED
                BY <3>2, <4>3, Zenon
        <3>5. QED
            BY <3>3, <3>4
    <2>20. Along(D, C, from, j)
        BY <1>4, <2>5, <2>18, <2>19, Zenon DEF Along
    <2>21. QED
        BY <2>3, <2>20
<1>6. QED
    BY <1>1, <1>5

-----------------------------------------------------------------------------
\* A match is found again in the characters it quotes.

\* Entries f to t neither start nor end with a separator.
Quotable(n, f, t) ==
    /\ f \in 1 .. Len(n) /\ t \in 1 .. Len(n) /\ f <= t
    /\ n[f].symbol # " " /\ n[t].symbol # " "

\* A match is found again in the characters it quotes.
LEMMA QuoteSays ==
    ASSUME NEW text \in Seq(Glyphs), NEW fold \in BOOLEAN, NEW f, NEW t,
           Quotable(NormalizeWith(text, fold), f, t)
    PROVE  LET n == NormalizeWith(text, fold)
           IN  SubSeq(Symbols(n), f, t) \in
                 SubSeqs(Symbols(NormalizeWith(SubSeq(text, n[f].at, n[t].at), fold)))
<1>0. PICK n : n = NormalizeWith(text, fold)
    OBVIOUS
<1>1. PICK D : Builds(D, text, fold) /\ n = Trimmed(D[Len(text)])
    BY <1>0, NormalizeBuilds
<1>2. PICK l \in Nat : l = Len(text)
    OBVIOUS
<1>3. /\ \A i \in 0 .. l : D[i] \in Seq(NormalEntry)
      /\ \A i \in 1 .. l : Grows(D[i], D[i - 1], Added(text[i], fold, AtBlank(D[i - 1])), i)
    BY <1>1, <1>2, Zenon DEF Builds
<1>4. \A k \in 0 .. l : Sorted(D[k], k) /\ \A i \in 0 .. k : Begins(D, i, k)
    BY <1>1, <1>2, BuildIsSorted
<1>5. Formed(n, l)
    BY <1>0, <1>2, NormalFormIsFormed
<1>6. PICK whole : whole = D[l]
    OBVIOUS
<1>7. l \in 0 .. l /\ whole \in Seq(NormalEntry) /\ Trims(n, whole)
    BY <1>1, <1>2, <1>3, <1>6, TrimmedTrims
<1>8. PICK m \in Nat, w \in Nat : m = Len(n) /\ w = Len(whole) /\ m <= w
    <2>1. n \in Seq(NormalEntry)
        BY <1>5 DEF Formed
    <2>2. Len(n) \in Nat /\ Len(whole) \in Nat
        BY <1>7, <2>1
    <2>3. QED
        BY <1>7, <2>2, Zenon DEF Trims
<1>9. f \in 1 .. m /\ t \in 1 .. m /\ f \in 1 .. w /\ t \in 1 .. w /\ f <= t
    <2>1. f \in 1 .. m /\ t \in 1 .. m /\ f <= t
        BY <1>0, <1>8, Zenon DEF Quotable
    <2>2. QED
        BY <1>8, <2>1
<1>10. \A i \in 1 .. m : n[i] = whole[i]
    BY <1>7, <1>8, Zenon DEF Trims
<1>11. PICK from, to : from = n[f].at /\ to = n[t].at
    OBVIOUS
<1>12. from \in 1 .. l /\ to \in 1 .. l /\ from <= to
    <2>1. /\ \A j \in 1 .. m : n[j].at \in 1 .. l
          /\ \A i, j \in 1 .. m : i <= j => n[i].at <= n[j].at
        BY <1>5, <1>8, Zenon DEF Formed, Sorted
    <2>2. QED
        BY <1>9, <1>11, <2>1, Zenon
<1>13. whole[f].at = from /\ whole[t].at = to /\ whole[f].symbol # " " /\ whole[t].symbol # " "
    BY <1>0, <1>9, <1>10, <1>11, Zenon DEF Quotable
<1>14. /\ from - 1 \in 0 .. l /\ from \in 0 .. l /\ to \in 0 .. l /\ from - 1 \in 0 .. from
       /\ ~(from <= from - 1) /\ ~(from > from) /\ ~(to > to) /\ from \in Nat /\ to \in Nat
    BY <1>12
<1>15. PICK a \in Nat, b \in Nat, e \in Nat : a = Len(D[from - 1]) /\ b = Len(D[from]) /\ e = Len(D[to])
    <2>1. D[from - 1] \in Seq(NormalEntry) /\ D[from] \in Seq(NormalEntry) /\ D[to] \in Seq(NormalEntry)
        BY <1>3, <1>14
    <2>2. QED
        BY <2>1
<1>16. /\ Begins(D, from - 1, l) /\ Begins(D, from, l) /\ Begins(D, to, l)
       /\ Sorted(D[from - 1], from - 1)
    BY <1>4, <1>7, <1>14
<1>17. /\ \A j \in 1 .. a : whole[j] = D[from - 1][j] /\ D[from - 1][j].at \in 1 .. from - 1
       /\ \A j \in 1 .. b : whole[j] = D[from][j]
       /\ \A j \in 1 .. e : whole[j] = D[to][j]
       /\ \A j \in 1 .. w : j > b => whole[j].at > from
       /\ \A j \in 1 .. w : j > e => whole[j].at > to
    BY <1>6, <1>8, <1>15, <1>16, Zenon DEF Begins, Sorted
\* Its first symbol comes from its first character, ...
<1>18. f > a
    <2>1. SUFFICES ASSUME ~(f > a) PROVE FALSE
        OBVIOUS
    <2>2. f \in 1 .. a
        BY <1>9, <1>15, <2>1
    <2>3. from \in 1 .. from - 1
        BY <1>13, <1>17, <2>2, Zenon
    <2>4. QED
        BY <1>14, <2>3
<1>19. f <= b /\ t <= e
    <2>1. ~(f > b) /\ ~(t > e)
        BY <1>9, <1>13, <1>14, <1>17, Zenon
    <2>2. QED
        BY <1>9, <1>15, <2>1
<1>20. text[from] # "-"
    <2>1. PICK c, blank : c = text[from] /\ blank = AtBlank(D[from - 1])
        OBVIOUS
    <2>2. c \in Glyphs /\ blank \in BOOLEAN
        BY <1>2, <1>12, <2>1, ElementOfSeq DEF AtBlank
    <2>3. PICK added : added = Added(c, fold, blank)
        OBVIOUS
    <2>4. added \in Seq(NormalSymbols) /\ (c = "-" => added = IF blank THEN << >> ELSE <<" ">>)
        BY <2>2, <2>3, AddedIs
    <2>5. Grows(D[from], D[from - 1], added, from) /\ D[from - 1] \in Seq(NormalEntry)
        BY <1>3, <1>12, <1>14, <2>1, <2>3, Zenon
    <2>6. f \in 1 .. Len(D[from])
        BY <1>9, <1>15, <1>19
    <2>7. \/ f \in 1 .. Len(D[from - 1]) /\ D[from][f] = D[from - 1][f]
          \/ /\ f > Len(D[from - 1]) /\ f - Len(D[from - 1]) \in 1 .. Len(added)
             /\ D[from][f].at = from /\ D[from][f].symbol = added[f - Len(D[from - 1])]
        <3>1. PICK new, old : new = D[from] /\ old = D[from - 1]
            OBVIOUS
        <3>2. added \in Seq(NormalSymbols) /\ from \in Nat
            BY <1>14, <2>4, Zenon
        <3>3. old \in Seq(NormalEntry) /\ Grows(new, old, added, from) /\ f \in 1 .. Len(new)
            BY <2>5, <2>6, <3>1, Zenon
        <3>4. \/ f \in 1 .. Len(old) /\ new[f] = old[f]
              \/ /\ f > Len(old) /\ f - Len(old) \in 1 .. Len(added)
                 /\ new[f].at = from /\ new[f].symbol = added[f - Len(old)]
            BY <3>2, <3>3, GrownEntry
        <3>5. QED
            BY <3>1, <3>4, Zenon
    <2>8. f \notin 1 .. Len(D[from - 1])
        BY <1>15, <1>18
    <2>9. PICK d : d \in 1 .. Len(added) /\ D[from][f].symbol = added[d]
        BY <2>7, <2>8, Zenon
    <2>10. D[from][f].symbol # " "
        BY <1>13, <1>15, <1>17, <2>6, Zenon
    <2>11. added[d] # " "
        BY <2>9, <2>10
    <2>12. SUFFICES ASSUME c = "-" PROVE FALSE
        BY <2>1
    <2>13. CASE blank
        <3>1. added = << >> /\ 1 .. Len(<< >>) = {}
            BY <2>4, <2>12, <2>13
        <3>2. QED
            BY <2>9, <3>1, Zenon
    <2>14. CASE ~blank
        <3>1. added = <<" ">>
            BY <2>4, <2>12, <2>14
        <3>2. Len(<<" ">>) = 1 /\ <<" ">>[1] = " " /\ 1 .. 1 = {1}
            OBVIOUS
        <3>3. d \in {1}
            BY <2>9, <3>1, <3>2, Zenon
        <3>4. d = 1
            BY <3>3, Zenon
        <3>5. added[d] = " "
            BY <3>1, <3>2, <3>4, Zenon
        <3>6. QED
            BY <2>11, <3>5, Zenon
    <2>15. QED
        BY <2>13, <2>14
<1>21. b > a
    BY <1>9, <1>15, <1>18, <1>19
\* ... so the characters, normalised by themselves, have the same symbols.
<1>22. PICK part : part = SubSeq(text, from, to)
    OBVIOUS
<1>23. PICK s \in Nat : s = to - from + 1
    BY <1>12, <1>14
<1>24. part \in Seq(Glyphs) /\ Len(part) = s /\ \A j \in 1 .. s : part[j] = text[from - 1 + j]
    <2>1. from \in Int /\ to \in Int /\ \A i \in from .. to : text[i] \in Glyphs
        <3>1. \A i \in from .. to : i \in 1 .. Len(text)
            BY <1>2, <1>12, <1>14
        <3>2. QED
            BY <1>14, <3>1, ElementOfSeq
    <2>2. /\ part \in Seq(Glyphs) /\ Len(part) = IF from <= to THEN to - from + 1 ELSE 0
          /\ \A i \in 1 .. to - from + 1 : part[i] = text[from + i - 1]
        BY <1>22, <2>1, SubSeqProperties
    <2>3. Len(part) = s
        BY <1>12, <1>23, <2>2, Zenon
    <2>4. \A j \in 1 .. s : from + j - 1 = from - 1 + j
        BY <1>14, <1>23
    <2>5. \A j \in 1 .. s : part[j] = text[from + j - 1]
        BY <1>23, <2>2, Zenon
    <2>6. ASSUME NEW j \in 1 .. s
          PROVE  part[j] = text[from - 1 + j]
        <3>1. PICK p, q : p = from + j - 1 /\ q = from - 1 + j
            OBVIOUS
        <3>2. p = q
            BY <1>14, <1>23, <3>1
        <3>3. part[j] = text[p]
            BY <2>5, <3>1
        <3>4. QED
            BY <3>1, <3>2, <3>3
    <2>7. QED
        BY <2>2, <2>3, <2>6
<1>25. PICK C : Builds(C, part, fold) /\ NormalizeWith(part, fold) = Trimmed(C[Len(part)])
    BY <1>24, NormalizeBuilds
<1>26. PICK own : own = C[s]
    OBVIOUS
<1>27. own \in Seq(NormalEntry) /\ NormalizeWith(part, fold) = Trimmed(own)
    <2>1. s \in 0 .. s
        BY <1>23
    <2>2. \A i \in 0 .. s : C[i] \in Seq(NormalEntry)
        BY <1>24, <1>25, Zenon DEF Builds
    <2>3. QED
        BY <1>24, <1>25, <1>26, <2>1, <2>2, Zenon
<1>28. Matches(D[to], own, a)
    <2>1. from \in 1 .. Len(text) /\ Len(part) <= Len(text) - from + 1 /\ Len(D[from]) > Len(D[from - 1])
        <3>1. s <= l - from + 1
            BY <1>12, <1>14, <1>23
        <3>2. QED
            BY <1>2, <1>12, <1>15, <1>21, <1>24, <3>1, Zenon
    <2>2. \A j \in 1 .. Len(part) : part[j] = text[from - 1 + j]
        BY <1>24, Zenon
    <2>3. \A j \in 0 .. Len(part) : Along(D, C, from, j)
        BY <1>1, <1>20, <1>24, <1>25, <2>1, <2>2, PartNormalises
    <2>4. s \in 0 .. Len(part) /\ from - 1 + s = to
        BY <1>14, <1>23, <1>24
    <2>5. Along(D, C, from, s)
        BY <2>3, <2>4
    <2>6. QED
        BY <1>15, <1>26, <2>4, <2>5, Zenon DEF Along
<1>29. PICK o \in Nat : o = Len(own)
    BY <1>27
<1>30. e = a + o /\ \A i \in 1 .. o : D[to][a + i].symbol = own[i].symbol
    BY <1>15, <1>28, <1>29, Zenon DEF Matches
<1>31. PICK said : said = Trimmed(own)
    OBVIOUS
<1>32. Trims(said, own)
    BY <1>27, <1>31, TrimmedTrims
<1>33. PICK z \in Nat : z = Len(said)
    <2>1. said \in Seq(NormalEntry)
        BY <1>32 DEF Trims
    <2>2. QED
        BY <2>1
<1>34. /\ said \in Seq(NormalEntry) /\ z <= o
       /\ \A j \in 1 .. z : said[j] = own[j]
       /\ \A j \in 1 .. o : own[j].symbol # " " => j <= z
    BY <1>29, <1>32, <1>33, Zenon DEF Trims
<1>35. \A i \in a + 1 .. t : i - a \in 1 .. o /\ a + (i - a) = i /\ i \in 1 .. e /\ i \in 1 .. m
    BY <1>9, <1>15, <1>18, <1>19, <1>29, <1>30
<1>36. \A i \in a + 1 .. t : own[i - a].symbol = n[i].symbol
    <2>1. ASSUME NEW i \in a + 1 .. t
          PROVE  own[i - a].symbol = n[i].symbol
        <3>1. PICK d \in 1 .. o : d = i - a /\ a + d = i
            BY <1>35
        <3>2. D[to][i].symbol = own[d].symbol
            BY <1>30, <3>1, Zenon
        <3>3. whole[i] = D[to][i] /\ n[i] = whole[i]
            BY <1>10, <1>17, <1>35, Zenon
        <3>4. QED
            BY <3>1, <3>2, <3>3, Zenon
    <2>2. QED
        BY <2>1
<1>37. t \in a + 1 .. t /\ f \in a + 1 .. t
    BY <1>9, <1>15, <1>18
<1>38. t - a <= z
    <2>1. own[t - a].symbol # " " /\ t - a \in 1 .. o
        BY <1>9, <1>10, <1>13, <1>35, <1>36, <1>37, Zenon
    <2>2. QED
        BY <1>34, <2>1, Zenon
<1>39. PICK sym, quote : sym = Symbols(n) /\ quote = Symbols(said)
    OBVIOUS
<1>40. /\ sym \in Seq(NormalSymbols) /\ Len(sym) = m /\ \A i \in 1 .. m : sym[i] = n[i].symbol
       /\ quote \in Seq(NormalSymbols) /\ Len(quote) = z /\ \A i \in 1 .. z : quote[i] = said[i].symbol
    <2>1. n \in Seq(NormalEntry) /\ said \in Seq(NormalEntry)
        BY <1>5, <1>34, Zenon DEF Formed
    <2>2. QED
        BY <1>8, <1>33, <1>39, <2>1, SymbolsAre
<1>41. \A i \in a + 1 .. t : quote[i - a] = sym[i]
    <2>1. ASSUME NEW i \in a + 1 .. t
          PROVE  quote[i - a] = sym[i]
        <3>1. PICK d \in 1 .. z : d = i - a
            <4>1. i - a \in 1 .. z
                BY <1>9, <1>15, <1>33, <1>35, <1>38
            <4>2. QED
                BY <4>1
        <3>2. quote[d] = own[d].symbol
            BY <1>34, <1>40, <3>1, Zenon
        <3>3. sym[i] = n[i].symbol
            BY <1>35, <1>40, Zenon
        <3>4. QED
            BY <1>36, <3>1, <3>2, <3>3, Zenon
    <2>2. QED
        BY <2>1
<1>42. SubSeq(sym, f, t) = SubSeq(quote, f - a, t - a)
    <2>1. /\ f \in Int /\ t \in Int /\ f - a \in Int /\ t - a \in Int
          /\ t - f + 1 = (t - a) - (f - a) + 1 /\ f <= t /\ f - a <= t - a
        BY <1>9, <1>15
    <2>2. PICK g, h : g = f - a /\ h = t - a
        OBVIOUS
    <2>3. /\ \A i \in f .. t : i \in 1 .. m
          /\ \A i \in g .. h : i \in 1 .. z
        BY <1>8, <1>9, <1>15, <1>18, <1>33, <1>38, <2>2
    <2>4. /\ \A i \in f .. t : sym[i] \in NormalSymbols
          /\ \A i \in g .. h : quote[i] \in NormalSymbols
        <3>1. \A i \in 1 .. m : sym[i] \in NormalSymbols
            BY <1>40, ElementOfSeq
        <3>2. \A i \in 1 .. z : quote[i] \in NormalSymbols
            BY <1>40, ElementOfSeq
        <3>3. QED
            BY <2>3, <3>1, <3>2
    <2>5. PICK x, y : x = SubSeq(sym, f, t) /\ y = SubSeq(quote, g, h)
        OBVIOUS
    <2>6. g \in Int /\ h \in Int
        BY <2>1, <2>2
    <2>7. /\ x \in Seq(NormalSymbols) /\ Len(x) = IF f <= t THEN t - f + 1 ELSE 0
          /\ \A i \in 1 .. t - f + 1 : x[i] = sym[f + i - 1]
        BY <2>1, <2>4, <2>5, SubSeqProperties
    <2>8. /\ y \in Seq(NormalSymbols) /\ Len(y) = IF g <= h THEN h - g + 1 ELSE 0
          /\ \A i \in 1 .. h - g + 1 : y[i] = quote[g + i - 1]
        BY <2>4, <2>5, <2>6, SubSeqProperties
    <2>9. Len(x) = t - f + 1 /\ Len(y) = t - f + 1 /\ h - g + 1 = t - f + 1
        BY <2>1, <2>2, <2>7, <2>8, Zenon
    <2>10. ASSUME NEW i \in 1 .. t - f + 1
           PROVE  x[i] = y[i]
        <3>1. PICK p, q : p = f + i - 1 /\ q = g + i - 1
            OBVIOUS
        <3>2. p \in a + 1 .. t /\ q = p - a
            BY <1>9, <1>15, <1>18, <2>2, <3>1
        <3>3. x[i] = sym[p] /\ y[i] = quote[q]
            BY <2>7, <2>8, <2>9, <3>1, Zenon
        <3>4. QED
            BY <1>41, <3>2, <3>3
    <2>11. x = y
        BY <2>7, <2>8, <2>9, <2>10, SeqEqual
    <2>12. QED
        BY <2>2, <2>5, <2>11
<1>43. SubSeq(quote, f - a, t - a) \in SubSeqs(quote)
    <2>1. PICK g \in 0 .. z, h \in 0 .. z : g + 1 = f - a /\ h = t - a
        <3>1. f - a - 1 \in 0 .. z /\ t - a \in 0 .. z /\ (f - a - 1) + 1 = f - a
            BY <1>9, <1>15, <1>18, <1>33, <1>38
        <3>2. QED
            BY <3>1
    <2>2. g \in 0 .. Len(quote) /\ h \in 0 .. Len(quote)
        BY <1>40, <2>1, Zenon
    <2>3. SubSeq(quote, g + 1, h) \in SubSeqs(quote)
        BY <2>2 DEF SubSeqs
    <2>4. QED
        BY <2>1, <2>3, Zenon
<1>44. QED
    BY <1>0, <1>11, <1>22, <1>27, <1>31, <1>39, <1>42, <1>43, Zenon

-----------------------------------------------------------------------------
\* _deduplicate().

\* A match in a text of l characters.
InText(m, l) == m.from \in 1 .. l /\ m.to \in 1 .. l /\ m.from <= m.to

\* What the order of _deduplicate() compares.
LEMMA LengthIs ==
    ASSUME NEW l \in Nat, NEW m, InText(m, l)
    PROVE  Length(m) \in 0 .. l
<1>1. PICK a, b : a = m.from /\ b = m.to
    OBVIOUS
<1>2. a \in 1 .. l /\ b \in 1 .. l /\ a <= b
    BY <1>1, Zenon DEF InText
<1>3. b - a \in 0 .. l
    BY <1>2
<1>4. QED
    BY <1>1, <1>3, Zenon DEF Length

LEMMA ConfidenceIs ==
    ASSUME NEW kind
    PROVE  Confidence(kind) \in 0 .. 100
<1>1. 100 \in 0 .. 100 /\ 50 \in 0 .. 100 /\ 95 \in 0 .. 100
    OBVIOUS
<1>2. QED
    BY <1>1, Zenon DEF Confidence

\* Some match is outranked by none.
LEMMA BestExists ==
    ASSUME NEW l \in Nat, NEW S, S # {}, \A m \in S : InText(m, l)
    PROVE  \E m \in S : \A n \in S : ~Outranks(n, m)
<1> DEFINE lengths == {Length(m) : m \in S}
<1>1. PICK x \in lengths : \A y \in lengths : y <= x
    <2>1. lengths \subseteq 0 .. l /\ lengths # {}
        BY LengthIs
    <2> HIDE DEF lengths
    <2>2. QED
        BY <2>1, HighestNumber
<1> DEFINE longest == {m \in S : Length(m) = x}
           levels == {Confidence(m.kind) : m \in longest}
<1>2. PICK c \in levels : \A y \in levels : y <= c
    <2>1. levels \subseteq 0 .. 100 /\ levels # {}
        BY ConfidenceIs
    <2> HIDE DEF levels
    <2>2. QED
        BY <2>1, HighestNumber
<1> DEFINE surest == {m \in longest : Confidence(m.kind) = c}
           starts == {m.from : m \in surest}
<1>3. PICK f \in starts : \A y \in starts : f <= y
    <2>1. starts \subseteq Nat /\ starts # {}
        BY DEF InText
    <2> HIDE DEF starts
    <2>2. QED
        BY <2>1, LowestNumber
<1>4. PICK m \in surest : m.from = f
    OBVIOUS
<1>5. m \in S /\ Length(m) = x /\ Confidence(m.kind) = c
    OBVIOUS
<1>6. ASSUME NEW n \in S, Outranks(n, m)
      PROVE  FALSE
    <2>1. Length(n) <= x
        BY <1>1
    <2>2. Length(n) \in Int /\ x \in Int /\ Confidence(n.kind) \in Int /\ c \in Int /\ n.from \in Int /\ f \in Int
        <3>1. InText(n, l) /\ InText(m, l)
            BY <1>5
        <3>2. n.from \in Int /\ m.from \in Int
            BY <3>1 DEF InText
        <3>3. Length(n) \in Int /\ Length(m) \in Int
            BY <3>1, LengthIs
        <3>4. Confidence(n.kind) \in Int /\ Confidence(m.kind) \in Int
            BY ConfidenceIs
        <3>5. QED
            BY <1>4, <1>5, <3>2, <3>3, <3>4, Zenon
    <2>3. ~(Length(n) > x)
        BY <2>1, <2>2
    <2>4. /\ Length(n) = x
          /\ Confidence(n.kind) > c \/ (Confidence(n.kind) = c /\ n.from < f)
        BY <1>4, <1>5, <1>6, <2>3, Zenon DEF Outranks
    <2>5. Confidence(n.kind) <= c
        BY <1>2, <2>4
    <2>6. Confidence(n.kind) = c /\ n.from < f
        BY <2>2, <2>4, <2>5
    <2>7. f <= n.from
        BY <1>3, <2>4, <2>6
    <2>8. QED
        BY <2>2, <2>6, <2>7
<1>7. QED
    BY <1>5, <1>6

\* What _deduplicate() takes next, and what it leaves to look at.
Best(S) == CHOOSE m \in S : \A n \in S : ~Outranks(n, m)
Rest(S) == {m \in S : m.keyword # Best(S).keyword \/ ~Overlaps(m, Best(S))} \ {Best(S)}

\* Matches to thin out.
Matched(M, l) == l \in Nat /\ IsFiniteSet(M) /\ \A m \in M : InText(m, l)

\* There is a best match, and the rest is fewer.
LEMMA RestIsLess ==
    ASSUME NEW M, NEW l, Matched(M, l), NEW S \in SUBSET M, S # {}
    PROVE  /\ Best(S) \in S /\ \A n \in S : ~Outranks(n, Best(S))
           /\ Rest(S) \in SUBSET M /\ Rest(S) \subseteq S
           /\ IsFiniteSet(S) /\ Cardinality(S) \in Nat /\ Cardinality(Rest(S)) \in Nat
           /\ Cardinality(Rest(S)) < Cardinality(S)
<1>1. l \in Nat /\ IsFiniteSet(M) /\ \A m \in S : InText(m, l)
    BY DEF Matched
<1>2. Best(S) \in S /\ \A n \in S : ~Outranks(n, Best(S))
    <2>1. \E m \in S : \A n \in S : ~Outranks(n, m)
        BY <1>1, BestExists
    <2>2. QED
        BY <2>1 DEF Best
<1>3. Rest(S) \subseteq S \ {Best(S)}
    BY DEF Rest
<1>4. IsFiniteSet(S)
    BY <1>1, FS_Subset
<1>5. /\ IsFiniteSet(S \ {Best(S)}) /\ Cardinality(S) \in Nat
      /\ Cardinality(S \ {Best(S)}) = Cardinality(S) - 1
    BY <1>2, <1>4, FS_RemoveElement, FS_CardinalityType
<1>6. /\ IsFiniteSet(Rest(S)) /\ Cardinality(Rest(S)) \in Nat
      /\ Cardinality(Rest(S)) <= Cardinality(S \ {Best(S)})
    <2>1. IsFiniteSet(Rest(S)) /\ Cardinality(Rest(S)) <= Cardinality(S \ {Best(S)})
        BY <1>3, <1>5, FS_Subset
    <2>2. QED
        BY <2>1, FS_CardinalityType
<1>7. Cardinality(Rest(S)) < Cardinality(S)
    BY <1>5, <1>6
<1>8. QED
    BY <1>2, <1>3, <1>4, <1>5, <1>6, <1>7

\* The turn of _deduplicate() on the matches S.
Turn(thin, S) == IF S = {} THEN {} ELSE {Best(S)} \cup thin[Rest(S)]

\* The loop is defined, for every turn leaves fewer matches.
LEMMA ThinExists ==
    ASSUME NEW M, NEW l, Matched(M, l)
    PROVE  \E thin : thin = [S \in SUBSET M |-> Turn(thin, S)]
<1> DEFINE Small(k) == {S \in SUBSET M : Cardinality(S) <= k}
           Upto(k) == {h \in [SUBSET M -> SUBSET M] : \A S \in Small(k) : h[S] = Turn(h, S)}
           bad == {k \in Nat : Upto(k) = {}}
<1>1. \A S \in SUBSET M : IsFiniteSet(S) /\ Cardinality(S) \in Nat
    BY FS_Subset, FS_CardinalityType DEF Matched
<1>2. bad = {}
    <2>1. SUFFICES ASSUME bad # {} PROVE FALSE
        OBVIOUS
    <2>2. PICK x \in bad : \A y \in bad : x <= y
        <3>1. bad \subseteq Nat
            OBVIOUS
        <3> HIDE DEF bad
        <3>2. QED
            BY <2>1, <3>1, LowestNumber
    <2>3. x \in Nat /\ Upto(x) = {}
        OBVIOUS
    <2>4. x # 0
        <3>1. SUFFICES ASSUME x = 0 PROVE FALSE
            OBVIOUS
        <3>2. \A S \in Small(0) : S = {}
            <4>1. ASSUME NEW S \in Small(0)
                  PROVE  S = {}
                <5>1. IsFiniteSet(S) /\ Cardinality(S) \in Nat /\ Cardinality(S) <= 0
                    BY <1>1
                <5>2. Cardinality(S) = 0
                    BY <5>1
                <5>3. QED
                    BY <5>1, <5>2, FS_EmptySet
            <4>2. QED
                BY <4>1
        <3>3. PICK h : h = [S \in SUBSET M |-> {}]
            OBVIOUS
        <3>4. h \in [SUBSET M -> SUBSET M] /\ h[{}] = {}
            BY <3>3
        <3>5. h \in Upto(0)
            <4> HIDE DEF Small
            <4>1. \A S \in Small(0) : h[S] = Turn(h, S)
                BY <3>2, <3>4 DEF Turn
            <4>2. QED
                BY <3>4, <4>1
        <3>6. QED
            BY <2>3, <3>1, <3>5
    <2>5. x - 1 \in Nat /\ ~(x <= x - 1)
        BY <2>3, <2>4
    <2>6. Upto(x - 1) # {}
        BY <2>2, <2>5
    <2>7. PICK h \in [SUBSET M -> SUBSET M] : \A S \in Small(x - 1) : h[S] = Turn(h, S)
        BY <2>6
    <2>8. PICK g : g = [S \in SUBSET M |-> IF S \in Small(x - 1) THEN h[S] ELSE Turn(h, S)]
        OBVIOUS
    <2>9. \A S \in SUBSET M : S # {} => Best(S) \in M /\ Rest(S) \in SUBSET M
        BY RestIsLess
    <2>10. g \in [SUBSET M -> SUBSET M]
        <3>1. \A S \in SUBSET M : Turn(h, S) \in SUBSET M
            BY <2>9 DEF Turn
        <3> HIDE DEF Small
        <3>2. QED
            BY <2>8, <3>1
    <2>11. ASSUME NEW S \in Small(x)
           PROVE  g[S] = Turn(g, S)
        <3>1. S \in SUBSET M /\ Cardinality(S) <= x
            OBVIOUS
        <3>2. S # {} => Rest(S) \in SUBSET M /\ Cardinality(Rest(S)) \in Nat
                        /\ Cardinality(S) \in Nat /\ Cardinality(Rest(S)) < Cardinality(S)
            BY <3>1, RestIsLess
        <3>3. S # {} => Rest(S) \in Small(x - 1)
            <4>1. S # {} => Cardinality(Rest(S)) <= x - 1
                BY <2>3, <3>1, <3>2
            <4>2. QED
                BY <3>2, <4>1
        <3> HIDE DEF Small
        <3>4. S # {} => g[Rest(S)] = h[Rest(S)]
            BY <2>8, <3>2, <3>3
        <3>5. Turn(g, S) = Turn(h, S)
            BY <3>4 DEF Turn
        <3>6. g[S] = Turn(h, S)
            BY <2>7, <2>8, <3>1
        <3>7. QED
            BY <3>5, <3>6
    <2>12. g \in Upto(x)
        <3> HIDE DEF Small
        <3>1. QED
            BY <2>10, <2>11
    <2>13. QED
        BY <2>3, <2>12
<1>3. IsFiniteSet(M) /\ Cardinality(M) \in Nat
    BY FS_CardinalityType DEF Matched
<1>4. \A S \in SUBSET M : S \in Small(Cardinality(M))
    BY <1>3, FS_Subset
<1>5. Upto(Cardinality(M)) # {}
    BY <1>2, <1>3
<1>6. PICK h \in [SUBSET M -> SUBSET M] : \A S \in Small(Cardinality(M)) : h[S] = Turn(h, S)
    BY <1>5
<1> HIDE DEF Small
<1>7. \A S \in SUBSET M : h[S] = Turn(h, S)
    BY <1>4, <1>6
<1>8. h = [S \in SUBSET M |-> h[S]]
    BY <1>6
<1>9. h = [S \in SUBSET M |-> Turn(h, S)]
    BY <1>7, <1>8
<1>10. QED
    BY <1>9

\* T thins S out: a match of a keyword overlaps one that is kept and at least
\* as long, and no two that are kept overlap.
ThinsOut(T, S) ==
    /\ T \subseteq S
    /\ \A m \in S : \E k \in T : k.keyword = m.keyword /\ Overlaps(k, m) /\ Length(k) >= Length(m)
    /\ \A m1, m2 \in T : m1.keyword = m2.keyword /\ Overlaps(m1, m2) => m1 = m2

\* A turn thins out if the turns after it do, ...
LEMMA TurnThinsOut ==
    ASSUME NEW M, NEW l, Matched(M, l), NEW S \in SUBSET M, S # {}, NEW T, ThinsOut(T, Rest(S))
    PROVE  ThinsOut({Best(S)} \cup T, S)
<1>1. PICK best : best = Best(S)
    OBVIOUS
<1>2. best \in S /\ (\A n \in S : ~Outranks(n, best)) /\ Rest(S) \subseteq S
    BY <1>1, RestIsLess
<1>3. (\A m \in S : InText(m, l)) /\ l \in Nat
    BY DEF Matched
<1>4. \A m \in Rest(S) : m.keyword # best.keyword \/ ~Overlaps(m, best)
    BY <1>1 DEF Rest
<1>5. \A m \in S : (m.keyword = best.keyword /\ Overlaps(m, best)) \/ m \in Rest(S) \/ m = best
    BY <1>1 DEF Rest
<1>6. \A m, n : Overlaps(m, n) => Overlaps(n, m)
    BY DEF Overlaps
<1>7. T \subseteq Rest(S)
    BY DEF ThinsOut
<1>8. ASSUME NEW m \in S
      PROVE  Length(best) >= Length(m)
    <2>1. ~(Length(m) > Length(best))
        BY <1>2, Zenon DEF Outranks
    <2>2. Length(m) \in Int /\ Length(best) \in Int
        BY <1>2, <1>3, LengthIs
    <2>3. QED
        BY <2>1, <2>2
<1>9. Overlaps(best, best)
    BY <1>2, <1>3 DEF Overlaps, InText
<1>10. ASSUME NEW m \in S
       PROVE  \E k \in {best} \cup T : k.keyword = m.keyword /\ Overlaps(k, m) /\ Length(k) >= Length(m)
    <2>1. CASE m \in Rest(S)
        BY <2>1 DEF ThinsOut
    <2>2. CASE m = best
        BY <1>8, <1>9, <2>2
    <2>3. CASE m.keyword = best.keyword /\ Overlaps(m, best)
        BY <1>6, <1>8, <2>3
    <2>4. QED
        BY <1>5, <2>1, <2>2, <2>3
<1>11. ASSUME NEW m1 \in {best} \cup T, NEW m2 \in {best} \cup T, m1.keyword = m2.keyword, Overlaps(m1, m2)
       PROVE  m1 = m2
    <2>1. CASE m1 \in T /\ m2 \in T
        BY <1>11, <2>1 DEF ThinsOut
    <2>2. CASE m1 = best /\ m2 \in T
        BY <1>4, <1>6, <1>7, <1>11, <2>2, Zenon
    <2>3. CASE m2 = best /\ m1 \in T
        BY <1>4, <1>6, <1>7, <1>11, <2>3, Zenon
    <2>4. CASE m1 = best /\ m2 = best
        BY <2>4
    <2>5. QED
        BY <2>1, <2>2, <2>3, <2>4
<1>12. {best} \cup T \subseteq S
    BY <1>2, <1>7
<1>13. QED
    BY <1>1, <1>10, <1>11, <1>12, Zenon DEF ThinsOut

\* ... and so _deduplicate() does.
LEMMA ThinnedThinsOut ==
    ASSUME NEW M, NEW l, Matched(M, l)
    PROVE  ThinsOut(Thinned(M), M)
<1> DEFINE F(h) == [S \in SUBSET M |->
                      IF S = {} THEN {}
                      ELSE LET best == CHOOSE m \in S : \A n \in S : ~Outranks(n, m)
                           IN  {best} \cup h[{m \in S : m.keyword # best.keyword \/ ~Overlaps(m, best)} \ {best}]]
<1>1. PICK thin : thin = CHOOSE h : h = F(h)
    OBVIOUS
<1>2. Thinned(M) = thin[M]
    BY <1>1 DEF Thinned
<1>3. \A h : F(h) = [S \in SUBSET M |-> Turn(h, S)]
    BY Zenon DEF Turn, Best, Rest
<1>4. PICK some : some = [S \in SUBSET M |-> Turn(some, S)]
    BY ThinExists
<1>5. some = F(some)
    BY <1>3, <1>4, Zenon
<1> HIDE DEF F
<1>6. thin = F(thin)
    BY <1>1, <1>5
<1>7. thin = [S \in SUBSET M |-> Turn(thin, S)]
    BY <1>3, <1>6, Zenon
<1>8. \A S \in SUBSET M : thin[S] = Turn(thin, S)
    BY <1>7
<1> DEFINE bad == {S \in SUBSET M : ~ThinsOut(thin[S], S)}
           sizes == {Cardinality(S) : S \in bad}
<1>9. \A S \in SUBSET M : IsFiniteSet(S) /\ Cardinality(S) \in Nat
    BY FS_Subset, FS_CardinalityType DEF Matched
<1>10. bad = {}
    <2>1. SUFFICES ASSUME bad # {} PROVE FALSE
        OBVIOUS
    <2>2. sizes \subseteq Nat /\ sizes # {}
        BY <1>9, <2>1
    <2>3. PICK x \in sizes : \A y \in sizes : x <= y
        <3> HIDE DEF sizes
        <3>1. QED
            BY <2>2, LowestNumber
    <2>4. PICK S \in bad : x = Cardinality(S)
        OBVIOUS
    <2>5. S \in SUBSET M /\ ~ThinsOut(thin[S], S)
        BY <2>4
    <2>6. CASE S = {}
        <3>1. thin[S] = {}
            BY <1>8, <2>5, <2>6 DEF Turn
        <3>2. ThinsOut({}, {})
            BY DEF ThinsOut
        <3>3. QED
            BY <2>5, <2>6, <3>1, <3>2
    <2>7. CASE S # {}
        <3>1. /\ Rest(S) \in SUBSET M /\ Cardinality(Rest(S)) \in Nat /\ Cardinality(S) \in Nat
              /\ Cardinality(Rest(S)) < Cardinality(S)
            BY <2>5, <2>7, RestIsLess
        <3>2. Rest(S) \notin bad
            <4>1. Rest(S) \in bad => Cardinality(S) <= Cardinality(Rest(S))
                BY <2>3, <2>4
            <4>2. ~(Cardinality(S) <= Cardinality(Rest(S)))
                BY <3>1
            <4>3. QED
                BY <4>1, <4>2
        <3>3. ThinsOut(thin[Rest(S)], Rest(S))
            BY <3>1, <3>2
        <3>4. thin[S] = {Best(S)} \cup thin[Rest(S)]
            BY <1>8, <2>5, <2>7 DEF Turn
        <3>5. ThinsOut({Best(S)} \cup thin[Rest(S)], S)
            BY <2>5, <2>7, <3>3, TurnThinsOut
        <3>6. QED
            BY <2>5, <3>4, <3>5
    <2>8. QED
        BY <2>6, <2>7
<1>11. QED
    BY <1>2, <1>10

-----------------------------------------------------------------------------
\* What a text ends in.

\* A part of a sequence.
LEMMA PartIs ==
    ASSUME NEW V, NEW s \in Seq(V), NEW f \in 1 .. Len(s), NEW t \in 1 .. Len(s), f <= t
    PROVE  /\ SubSeq(s, f, t) \in Seq(V) /\ Len(SubSeq(s, f, t)) = t - f + 1
           /\ \A i \in 1 .. t - f + 1 : SubSeq(s, f, t)[i] = s[f + i - 1]
<1>1. /\ \A i \in f .. t : i \in 1 .. Len(s)
      /\ f \in Int /\ t \in Int
    OBVIOUS
<1>2. \A i \in f .. t : s[i] \in V
    BY <1>1, ElementOfSeq
<1>3. /\ SubSeq(s, f, t) \in Seq(V)
      /\ Len(SubSeq(s, f, t)) = IF f <= t THEN t - f + 1 ELSE 0
      /\ \A i \in 1 .. t - f + 1 : SubSeq(s, f, t)[i] = s[f + i - 1]
    BY <1>1, <1>2, SubSeqProperties
<1>4. QED
    BY <1>3, Zenon

\* What a text ends in is a part of it, ...
LEMMA EndIsPart ==
    ASSUME NEW V, NEW s \in Seq(V), NEW p \in Seq(V), p # << >>, NEW t \in 1 .. Len(s),
           EndsIn(p, SubSeq(s, 1, t))
    PROVE  /\ t - Len(p) + 1 \in 1 .. t /\ p = SubSeq(s, t - Len(p) + 1, t)
           /\ s[t - Len(p) + 1] = p[1] /\ s[t] = p[Len(p)]
<1>1. PICK l \in Nat, n \in Nat, f \in Int : l = Len(p) /\ n = Len(s) /\ f = t - l + 1
    OBVIOUS
<1>2. t \in 1 .. n /\ 1 \in 1 .. n /\ 1 <= t /\ t - 1 + 1 = t
    BY <1>1
<1>3. PICK begin : begin = SubSeq(s, 1, t)
    OBVIOUS
<1>4. Len(begin) = t /\ \A i \in 1 .. t : begin[i] = s[i]
    <2>1. t \in 0 .. Len(s)
        OBVIOUS
    <2>2. QED
        BY <1>3, <2>1, PrefixIs
<1>5. l <= t /\ \A i \in 1 .. l : p[i] = begin[t - l + i]
    BY <1>1, <1>3, <1>4, Zenon DEF EndsIn
<1>6. l # 0
    BY <1>1, EmptySeq
<1>7. f \in 1 .. t /\ f \in 1 .. n /\ t - f + 1 = l /\ f <= t /\ 1 \in 1 .. l /\ l \in 1 .. l
    BY <1>1, <1>2, <1>5, <1>6
<1>8. ASSUME NEW i \in 1 .. l
      PROVE  p[i] = s[f + i - 1]
    <2>1. PICK j \in 1 .. t : j = t - l + i /\ j = f + i - 1
        <3>1. t - l + i \in 1 .. t /\ t - l + i = f + i - 1
            BY <1>1, <1>5
        <3>2. QED
            BY <3>1
    <2>2. p[i] = begin[j]
        BY <1>5, <2>1, Zenon
    <2>3. QED
        BY <1>4, <2>1, <2>2, Zenon
<1>9. PICK part : part = SubSeq(s, f, t)
    OBVIOUS
<1>10. part \in Seq(V) /\ Len(part) = l /\ \A i \in 1 .. l : part[i] = s[f + i - 1]
    <2>1. f \in 1 .. Len(s)
        BY <1>1, <1>7
    <2>2. /\ part \in Seq(V) /\ Len(part) = t - f + 1
          /\ \A i \in 1 .. t - f + 1 : part[i] = s[f + i - 1]
        BY <1>7, <1>9, <2>1, PartIs
    <2>3. QED
        BY <1>7, <2>2, Zenon
<1>11. \A i \in 1 .. l : p[i] = part[i]
    BY <1>8, <1>10
<1>12. p = part
    BY <1>1, <1>10, <1>11, SeqEqual
<1>13. s[f] = p[1] /\ s[t] = p[l]
    <2>1. f + 1 - 1 = f /\ f + l - 1 = t
        BY <1>1
    <2>2. PICK i, j : i = f + 1 - 1 /\ j = f + l - 1
        OBVIOUS
    <2>3. p[1] = s[i] /\ p[l] = s[j]
        BY <1>7, <1>8, <2>2
    <2>4. QED
        BY <2>1, <2>2, <2>3
<1>14. QED
    BY <1>1, <1>7, <1>9, <1>12, <1>13

\* ... and the other way round.
LEMMA PartIsEnd ==
    ASSUME NEW V, NEW s \in Seq(V), NEW f \in 1 .. Len(s), NEW t \in 1 .. Len(s), f <= t
    PROVE  EndsIn(SubSeq(s, f, t), SubSeq(s, 1, t))
<1>1. PICK p, begin, l : p = SubSeq(s, f, t) /\ begin = SubSeq(s, 1, t) /\ l = t - f + 1
    OBVIOUS
<1>2. Len(p) = l /\ \A i \in 1 .. l : p[i] = s[f + i - 1]
    BY <1>1, PartIs, Zenon
<1>3. t \in 0 .. Len(s) /\ l \in Nat /\ l <= t
    BY <1>1
<1>4. Len(begin) = t /\ \A i \in 1 .. t : begin[i] = s[i]
    BY <1>1, <1>3, PrefixIs
<1>5. ASSUME NEW i \in 1 .. l
      PROVE  p[i] = begin[t - l + i]
    <2>1. PICK j \in 1 .. t : j = t - l + i /\ j = f + i - 1
        <3>1. t - l + i \in 1 .. t /\ t - l + i = f + i - 1
            BY <1>1, <1>3
        <3>2. QED
            BY <3>1
    <2>2. p[i] = s[j]
        BY <1>2, <2>1, Zenon
    <2>3. QED
        BY <1>4, <2>1, <2>2, Zenon
<1>6. EndsIn(p, begin)
    BY <1>2, <1>3, <1>4, <1>5, Zenon DEF EndsIn
<1>7. QED
    BY <1>1, <1>6

-----------------------------------------------------------------------------
\* The index: terms, patterns and automaton.

\* The forms of a keyword.
LEMMA FormsAre ==
    ASSUME NEW b \in Keywords, NEW form \in Forms(b)
    PROVE  form.value \in Seq(Glyphs) /\ form.kind \in {"canonical", "alias", "translation", "phonetic"}
<1>1. /\ b.value \in Seq(Glyphs)
      /\ \A a \in b.aliases : a.value \in Seq(Glyphs) /\ a.kind \in {"alias", "translation", "phonetic"}
    BY KeywordAssumption
<1>2. CASE form \in b.aliases
    BY <1>1, <1>2
<1>3. CASE form = [value |-> b.value, kind |-> "canonical"]
    BY <1>1, <1>3
<1>4. QED
    BY <1>2, <1>3 DEF Forms

\* Whose term the key is.
OwnersOf(B, key) ==
    {b \in B : \E f \in Forms(b) : f.kind = key.kind /\ key.symbols \in VariantKeys(f.value)}
KeysOf(B) ==
    UNION {{[symbols |-> n, kind |-> f.kind] : n \in VariantKeys(f.value)} : f \in UNION {Forms(b) : b \in B}}
TermOf(B, key) ==
    [symbols |-> key.symbols, kind |-> key.kind, owners |-> OwnersOf(B, key),
     words |-> WholeWordsFor(OwnersOf(B, key))]

\* build_index(): the terms, told by their keys.
LEMMA TermsAre ==
    ASSUME NEW B
    PROVE  Terms(B) = {TermOf(B, key) : key \in KeysOf(B)}
BY Zenon DEF Terms, TermOf, OwnersOf, KeysOf

\* A term is a form of each of its owners, ...
LEMMA TermIs ==
    ASSUME NEW B \in SUBSET Keywords, NEW t \in Terms(B)
    PROVE  /\ Pattern(t.symbols)
           /\ t.kind \in {"canonical", "alias", "translation", "phonetic"}
           /\ \A o \in t.owners :
                 o \in B /\ \E f \in Forms(o) : f.kind = t.kind /\ t.symbols \in VariantKeys(f.value)
<1>1. PICK key \in KeysOf(B) : t = TermOf(B, key)
    BY TermsAre, Zenon
<1>2. t.symbols = key.symbols /\ t.kind = key.kind /\ t.owners = OwnersOf(B, key)
    BY <1>1 DEF TermOf
<1>3. PICK b, f, n : /\ b \in B /\ f \in Forms(b) /\ n \in VariantKeys(f.value)
                     /\ key = [symbols |-> n, kind |-> f.kind]
    BY DEF KeysOf
<1>4. key.symbols = n /\ key.kind = f.kind
    BY <1>3
<1>5. b \in Keywords
    BY <1>3
<1>6. f.value \in Seq(Glyphs) /\ f.kind \in {"canonical", "alias", "translation", "phonetic"}
    BY <1>3, <1>5, FormsAre
<1>7. Pattern(n)
    BY <1>3, <1>6, KeysArePatterns
<1>8. \A o \in t.owners :
         o \in B /\ \E g \in Forms(o) : g.kind = t.kind /\ t.symbols \in VariantKeys(g.value)
    BY <1>2, Zenon DEF OwnersOf
<1>9. QED
    BY <1>2, <1>4, <1>6, <1>7, <1>8, Zenon

\* ... and every form of a keyword is a term that asks no more of it.
LEMMA FormHasTerm ==
    ASSUME NEW B \in SUBSET Keywords, NEW b \in B, NEW f \in Forms(b), NEW p \in VariantKeys(f.value)
    PROVE  \E t \in Terms(B) : /\ t.symbols = p /\ t.kind = f.kind /\ b \in t.owners
                               /\ t.words => b.tokens
<1>1. PICK key : key = [symbols |-> p, kind |-> f.kind]
    OBVIOUS
<1>2. key.symbols = p /\ key.kind = f.kind
    BY <1>1
<1>3. key \in KeysOf(B)
    <2>1. f \in UNION {Forms(c) : c \in B}
        OBVIOUS
    <2>2. key \in {[symbols |-> n, kind |-> f.kind] : n \in VariantKeys(f.value)}
        BY <1>1
    <2>3. QED
        BY <2>1, <2>2 DEF KeysOf
<1>4. PICK t : t = TermOf(B, key)
    OBVIOUS
<1>5. t \in Terms(B)
    BY <1>3, <1>4, TermsAre, Zenon
<1>6. t.symbols = p /\ t.kind = f.kind /\ t.owners = OwnersOf(B, key) /\ t.words = WholeWordsFor(OwnersOf(B, key))
    BY <1>2, <1>4 DEF TermOf
<1>7. b \in OwnersOf(B, key)
    BY <1>2, Zenon DEF OwnersOf
<1>8. WholeWordsFor(OwnersOf(B, key)) => b.tokens
    BY <1>7, Zenon DEF WholeWordsFor
<1>9. QED
    BY <1>5, <1>6, <1>7, <1>8, Zenon

Patterns == {t.symbols : t \in terms}

\* An automaton that finds the patterns P.
Reads(A, P) ==
    /\ Trie(A.nodes, NormalSymbols) /\ P \subseteq A.nodes
    /\ DOMAIN A.fail = A.nodes /\ Linked(A.fail, A.nodes)
    /\ \A n \in A.nodes : A.output[n] = {p \in P : EndsIn(p, n)}

\* The patterns that a node puts out are those the text ends in.
LEMMA NodePutsOut ==
    ASSUME NEW A, NEW P, Reads(A, P), NEW s \in Seq(NormalSymbols), NEW x, LongestEnd(x, s, Len(s), A.nodes)
    PROVE  A.output[x] = {p \in P : EndsIn(p, s)}
<1>1. /\ A.nodes \subseteq Seq(NormalSymbols) /\ P \subseteq A.nodes
      /\ \A n \in A.nodes : A.output[n] = {p \in P : EndsIn(p, n)}
    BY Zenon DEF Reads, Trie
<1>2. /\ x \in A.nodes /\ EndsIn(x, s)
      /\ \A y \in A.nodes : EndsIn(y, s) /\ Len(y) <= Len(s) => Len(y) <= Len(x)
    BY Zenon DEF LongestEnd
<1>3. ASSUME NEW p \in P
      PROVE  EndsIn(p, x) <=> EndsIn(p, s)
    <2>1. p \in Seq(NormalSymbols) /\ x \in Seq(NormalSymbols) /\ p \in A.nodes
        BY <1>1, <1>2
    <2>2. EndsIn(p, x) => EndsIn(p, s)
        BY <1>2, <2>1, EndsInTransitive
    <2>3. EndsIn(p, s) => Len(p) <= Len(s)
        BY Zenon DEF EndsIn
    <2>4. EndsIn(p, s) => EndsIn(p, x)
        BY <1>2, <2>1, <2>3, EndsInNested
    <2>5. QED
        BY <2>2, <2>4
<1>4. A.output[x] = {p \in P : EndsIn(p, x)}
    BY <1>1, <1>2
<1>5. QED
    BY <1>3, <1>4

\* compile_index() makes such an automaton.
LEMMA CompiledReads ==
    ASSUME NEW P, P \subseteq Seq(NormalSymbols), NEW A,
           A = [nodes |-> Nodes(P), fail |-> FailureLinks(Nodes(P)),
                output |-> Outputs(Nodes(P), FailureLinks(Nodes(P)), P)]
    PROVE  Reads(A, P)
<1>1. PICK N : N = Nodes(P)
    OBVIOUS
<1>2. Trie(N, NormalSymbols) /\ P \subseteq N
    BY <1>1, NodesAreATrie
<1>3. PICK fail : fail = FailureLinks(N)
    OBVIOUS
<1>4. DOMAIN fail = N /\ Linked(fail, N)
    BY <1>2, <1>3, FailureLinksLink
<1>5. PICK output : output = Outputs(N, fail, P)
    OBVIOUS
<1>6. \A n \in N : output[n] = {p \in P : EndsIn(p, n)}
    BY <1>2, <1>4, <1>5, OutputsAre
<1>7. A = [nodes |-> N, fail |-> fail, output |-> output]
    BY <1>1, <1>3, <1>5
<1>8. A.nodes = N /\ A.fail = fail /\ A.output = output
    BY <1>7
<1>9. QED
    BY <1>2, <1>4, <1>6, <1>8, Zenon DEF Reads

\* Reading one symbol more.
LEMMA NextNode ==
    ASSUME NEW A, NEW P, Reads(A, P), NEW s \in Seq(NormalSymbols), NEW r \in 0 .. Len(s) - 1, NEW x,
           LongestEnd(x, SubSeq(s, 1, r), r, A.nodes)
    PROVE  LongestEnd(Step(A.nodes, A.fail, x, s[r + 1]), SubSeq(s, 1, r + 1), r + 1, A.nodes)
<1>1. Trie(A.nodes, NormalSymbols) /\ DOMAIN A.fail = A.nodes /\ Linked(A.fail, A.nodes)
    BY Zenon DEF Reads
<1>2. x \in DOMAIN A.fail
    BY <1>1, Zenon DEF LongestEnd
<1>3. PICK l \in Nat, q \in Nat : l = Len(s) /\ q = r + 1 /\ r \in 0 .. l /\ q \in 0 .. l /\ q \in 1 .. l /\ r \in Nat
    <2>1. Len(s) \in Nat /\ r + 1 \in Nat /\ r \in 0 .. Len(s) /\ r + 1 \in 0 .. Len(s) /\ r + 1 \in 1 .. Len(s)
        OBVIOUS
    <2>2. QED
        BY <2>1
<1>4. PICK old, new, c : old = SubSeq(s, 1, r) /\ new = SubSeq(s, 1, q) /\ c = s[q]
    OBVIOUS
<1>5. /\ old \in Seq(NormalSymbols) /\ Len(old) = r /\ \A i \in 1 .. r : old[i] = s[i]
      /\ new \in Seq(NormalSymbols) /\ Len(new) = q /\ \A i \in 1 .. q : new[i] = s[i]
    BY <1>3, <1>4, PrefixIs
<1>6. c \in NormalSymbols
    BY <1>3, <1>4, ElementOfSeq
<1>7. Append(old, c) = new
    <2>1. PICK more : more = Append(old, c)
        OBVIOUS
    <2>2. /\ more \in Seq(NormalSymbols) /\ Len(more) = Len(old) + 1
          /\ \A i \in 1 .. Len(old) : more[i] = old[i]
          /\ more[Len(old) + 1] = c
        BY <1>5, <1>6, <2>1, AppendProperties
    <2>3. Len(more) = q /\ more[q] = c /\ \A i \in 1 .. r : more[i] = old[i]
        BY <1>3, <1>5, <2>2
    <2>4. ASSUME NEW i \in 1 .. q
          PROVE  more[i] = new[i]
        <3>1. i \in 1 .. r \/ i = q
            BY <1>3
        <3>2. QED
            BY <1>4, <1>5, <2>3, <3>1
    <2>5. more = new
        BY <1>5, <2>2, <2>3, <2>4, SeqEqual
    <2>6. QED
        BY <2>1, <2>5
<1>8. LongestEnd(x, old, r, A.nodes)
    BY <1>4
<1>9. LongestEnd(Step(A.nodes, A.fail, x, c), Append(old, c), r + 1, A.nodes)
    BY <1>1, <1>2, <1>3, <1>5, <1>6, <1>8, StepIs
<1>10. QED
    BY <1>3, <1>4, <1>7, <1>9, Zenon

-----------------------------------------------------------------------------
\* What the automaton sees.

\* The match of a term of keyword o on the symbols f to t.
HitOf(o, kind, f, t) ==
    [keyword |-> o.id, from |-> normal[f].at, to |-> normal[t].at, kind |-> kind,
     segments |-> SaidIn(normal[f].at, normal[t].at)]
Wanted(term, o, f, t) ==
    /\ term \in terms /\ o \in term.owners /\ KindAllowed(o, term.kind)
    /\ term.words => SpansWords(Symbols(normal), f, t)

HitsAreWanted ==
    \A p, t, f : f = t - Len(p) + 1 =>
        \A m : m \in Hits(p, t) <=>
                  \E term, o : Wanted(term, o, f, t) /\ term.symbols = p /\ m = HitOf(o, term.kind, f, t)

\* _scan_exact() and _emit() find nothing else.
LEMMA HitsAre ==
    HitsAreWanted
<1> SUFFICES ASSUME NEW p, NEW t, NEW f, f = t - Len(p) + 1
             PROVE  \A m : m \in Hits(p, t) <=>
                              \E term, o : Wanted(term, o, f, t) /\ term.symbols = p
                                           /\ m = HitOf(o, term.kind, f, t)
    BY Zenon DEF HitsAreWanted
<1>1. OriginalSpan(normal, f, t)[1] = normal[f].at /\ OriginalSpan(normal, f, t)[2] = normal[t].at
    BY DEF OriginalSpan
<1> DEFINE from == t - Len(p) + 1
           span == OriginalSpan(normal, from, t)
           Hit(o, kind) ==
               [keyword |-> o.id, from |-> span[1], to |-> span[2], kind |-> kind,
                segments |-> SaidIn(span[1], span[2])]
           owned == {x \in terms : x.symbols = p /\ (x.words => SpansWords(Symbols(normal), from, t))}
<1>2. f = from
    OBVIOUS
<1>3. Hits(p, t) = UNION {{Hit(b, x.kind) : b \in {o \in x.owners : KindAllowed(o, x.kind)}} : x \in owned}
    BY Zenon DEF Hits
<1> HIDE DEF from
<1>4. \A o, kind : Hit(o, kind) = HitOf(o, kind, f, t)
    BY <1>1, <1>2, Zenon DEF HitOf
<1> HIDE DEF Hit
<1>5. ASSUME NEW m \in Hits(p, t)
      PROVE  \E term, o : Wanted(term, o, f, t) /\ term.symbols = p /\ m = HitOf(o, term.kind, f, t)
    <2>1. PICK x \in owned : m \in {Hit(b, x.kind) : b \in {o \in x.owners : KindAllowed(o, x.kind)}}
        BY <1>3, <1>5
    <2>2. PICK b \in x.owners : KindAllowed(b, x.kind) /\ m = Hit(b, x.kind)
        BY <2>1
    <2>3. Wanted(x, b, f, t) /\ x.symbols = p
        BY <1>2, <2>1, <2>2, Zenon DEF Wanted
    <2>4. QED
        BY <1>4, <2>2, <2>3, Zenon
<1>6. ASSUME NEW x, NEW o, Wanted(x, o, f, t), x.symbols = p
      PROVE  HitOf(o, x.kind, f, t) \in Hits(p, t)
    <2>1. x \in owned /\ o \in x.owners /\ KindAllowed(o, x.kind)
        BY <1>2, <1>6, Zenon DEF Wanted
    <2> HIDE DEF owned
    <2>2. Hit(o, x.kind) \in Hits(p, t)
        BY <1>3, <2>1
    <2>3. QED
        BY <1>4, <2>2, Zenon
<1>7. QED
    BY <1>5, <1>6, Zenon

\* A transcript that has been decoded and normalised.
Fragments == [number : {1, 2}, text : Seq(Glyphs)]
Told == spoken \in Seq(Fragments) /\ Len(spoken) \in 1 .. 2 /\ normal = Normalize(Text)

\* The text of a transcript, and its normal form.
LEMMA TextIs ==
    ASSUME Told
    PROVE  Text \in Seq(Glyphs) /\ Len(spoken[1].text) \in Nat
<1>1. spoken \in Seq(Fragments) /\ Len(spoken) \in 1 .. 2
    BY DEF Told
<1>2. 1 \in 1 .. Len(spoken) /\ (Len(spoken) # 1 => 2 \in 1 .. Len(spoken))
    BY <1>1
<1>3. spoken[1] \in Fragments /\ (Len(spoken) # 1 => spoken[2] \in Fragments)
    BY <1>1, <1>2, ElementOfSeq
<1>4. spoken[1].text \in Seq(Glyphs) /\ (Len(spoken) # 1 => spoken[2].text \in Seq(Glyphs))
    BY <1>3 DEF Fragments
<1>5. Len(spoken[1].text) \in Nat
    BY <1>4
<1>6. PICK a, b : a = spoken[1].text /\ b = spoken[2].text
    OBVIOUS
<1>7. Text = IF Len(spoken) = 1 THEN a ELSE a \o <<"-">> \o b
    BY <1>6, Zenon DEF Text, Joined
<1>8. a \in Seq(Glyphs) /\ (Len(spoken) # 1 => b \in Seq(Glyphs))
    BY <1>4, <1>6
<1>9. ASSUME b \in Seq(Glyphs)
      PROVE  a \o <<"-">> \o b \in Seq(Glyphs)
    <2>1. <<"-">> \in Seq(Glyphs)
        BY DEF Glyphs
    <2>2. a \o <<"-">> \in Seq(Glyphs)
        BY <1>8, <2>1, ConcatProperties
    <2>3. QED
        BY <1>9, <2>2, ConcatProperties
<1>10. QED
    BY <1>5, <1>7, <1>8, <1>9, Zenon

LEMMA NormalIs ==
    ASSUME Told
    PROVE  /\ (~MarksAreSignificant(Text)) \in BOOLEAN
           /\ normal = NormalizeWith(Text, ~MarksAreSignificant(Text))
           /\ Formed(normal, Len(Text)) /\ normal \in Seq(NormalEntry)
           /\ Symbols(normal) \in Seq(NormalSymbols) /\ Len(Symbols(normal)) = Len(normal)
           /\ \A i \in 1 .. Len(normal) : Symbols(normal)[i] = normal[i].symbol
           /\ Len(Text) \in Nat /\ Len(normal) \in Nat
           /\ \A i \in 1 .. Len(normal) : normal[i].at \in 1 .. Len(Text)
           /\ \A i, j \in 1 .. Len(normal) : i <= j => normal[i].at <= normal[j].at
<1>1. Text \in Seq(Glyphs)
    BY TextIs
<1>2. (~MarksAreSignificant(Text)) \in BOOLEAN
    BY Zenon
<1>3. normal = NormalizeWith(Text, ~MarksAreSignificant(Text))
    BY Zenon DEF Told, Normalize
<1>4. Formed(normal, Len(Text))
    BY <1>1, <1>2, <1>3, NormalFormIsFormed, Zenon
<1>5. normal \in Seq(NormalEntry)
    BY <1>4, Zenon DEF Formed
<1>6. /\ \A i \in 1 .. Len(normal) : normal[i].at \in 1 .. Len(Text)
      /\ \A i, j \in 1 .. Len(normal) : i <= j => normal[i].at <= normal[j].at
    BY <1>4, Zenon DEF Formed, Sorted
<1>7. Len(Text) \in Nat /\ Len(normal) \in Nat
    BY <1>1, <1>5
<1>8. QED
    BY <1>2, <1>3, <1>4, <1>5, <1>6, <1>7, SymbolsAre, Zenon

\* What the automaton has seen once it has read r symbols.
EndsAt(to) == {p \in Patterns : EndsIn(p, SubSeq(Symbols(normal), 1, to))}
Sighted(r) == UNION {UNION {Hits(p, to) : p \in EndsAt(to)} : to \in 1 .. r}

IndexIsBuilt ==
    /\ entries \in SUBSET Keywords
    /\ entries # {} => terms = Terms(entries) /\ Reads(automaton, Patterns)

\* A match is a term of a keyword of the index on symbols of the text.
Sighting(m, term, o, f, t) ==
    /\ f \in 1 .. Len(normal) /\ t \in 1 .. Len(normal) /\ f <= t
    /\ Wanted(term, o, f, t) /\ term.symbols = SubSeq(Symbols(normal), f, t)
    /\ m = HitOf(o, term.kind, f, t)

\* The patterns of an index neither start nor end with a separator.
LEMMA PatternsAre ==
    ASSUME IndexIsBuilt, entries # {}
    PROVE  \A p \in Patterns : Pattern(p)
<1>1. entries \in SUBSET Keywords /\ terms = Terms(entries)
    BY Zenon DEF IndexIsBuilt
<1>2. QED
    BY <1>1, TermIs DEF Patterns

\* What the automaton has seen are all the sightings so far, and no others.
LEMMA SightedAre ==
    ASSUME IndexIsBuilt, entries # {}, Told, NEW r \in 0 .. Len(normal)
    PROVE  \A m : m \in Sighted(r) <=> \E term, o, f, t : Sighting(m, term, o, f, t) /\ t <= r
<1>1. PICK s, n : s = Symbols(normal) /\ n = Len(normal)
    OBVIOUS
<1>2. s \in Seq(NormalSymbols) /\ Len(s) = n /\ n \in Nat /\ r \in 0 .. n
    BY <1>1, NormalIs, Zenon
<1>3. ASSUME NEW m \in Sighted(r)
      PROVE  \E term, o, f, t : Sighting(m, term, o, f, t) /\ t <= r
    <2>1. PICK t \in 1 .. r : m \in UNION {Hits(p, t) : p \in EndsAt(t)}
        BY <1>3 DEF Sighted
    <2>2. PICK p \in EndsAt(t) : m \in Hits(p, t)
        BY <2>1
    <2>3. p \in Patterns /\ EndsIn(p, SubSeq(s, 1, t))
        BY <1>1, <2>2 DEF EndsAt
    <2>4. p \in Seq(NormalSymbols) /\ p # << >>
        BY <2>3, PatternsAre DEF Pattern
    <2>5. t \in 1 .. Len(s)
        BY <1>2
    <2>6. PICK f : f = t - Len(p) + 1
        OBVIOUS
    <2>7. f \in 1 .. t /\ p = SubSeq(s, f, t)
        BY <1>2, <2>3, <2>4, <2>5, <2>6, EndIsPart
    <2>8. PICK term, o : Wanted(term, o, f, t) /\ term.symbols = p /\ m = HitOf(o, term.kind, f, t)
        BY <2>2, <2>6, HitsAre DEF HitsAreWanted
    <2>9. f \in 1 .. n /\ t \in 1 .. n /\ f <= t /\ t <= r
        BY <1>2, <2>7
    <2>10. Sighting(m, term, o, f, t)
        BY <1>1, <2>7, <2>8, <2>9, Zenon DEF Sighting
    <2>11. QED
        BY <2>9, <2>10
<1>4. ASSUME NEW m, NEW term, NEW o, NEW f, NEW t, Sighting(m, term, o, f, t), t <= r
      PROVE  m \in Sighted(r)
    <2>1. /\ f \in 1 .. Len(s) /\ t \in 1 .. Len(s) /\ f <= t /\ term \in terms
          /\ Wanted(term, o, f, t) /\ term.symbols = SubSeq(s, f, t) /\ m = HitOf(o, term.kind, f, t)
        BY <1>1, <1>2, <1>4, Zenon DEF Sighting, Wanted
    <2>2. PICK p : p = SubSeq(s, f, t)
        OBVIOUS
    <2>3. p \in Patterns /\ EndsIn(p, SubSeq(s, 1, t)) /\ Len(p) = t - f + 1
        <3>1. EndsIn(p, SubSeq(s, 1, t)) /\ Len(p) = t - f + 1
            BY <1>2, <2>1, <2>2, PartIs, PartIsEnd
        <3>2. p \in Patterns
            BY <2>1, <2>2 DEF Patterns
        <3>3. QED
            BY <3>1, <3>2
    <2>4. f = t - Len(p) + 1 /\ t \in 1 .. r
        BY <1>2, <1>4, <2>1, <2>3
    <2>5. m \in Hits(p, t)
        BY <2>1, <2>2, <2>4, HitsAre, Zenon DEF HitsAreWanted
    <2>6. p \in EndsAt(t)
        BY <1>1, <2>3 DEF EndsAt
    <2>7. QED
        BY <2>4, <2>5, <2>6 DEF Sighted
<1>5. QED
    BY <1>3, <1>4, Zenon

-----------------------------------------------------------------------------
\* What is in the text.

\* What a sighting says of the match.
LEMMA SightingIs ==
    ASSUME IndexIsBuilt, entries # {}, Told, NEW m, NEW term, NEW o, NEW f, NEW t, Sighting(m, term, o, f, t)
    PROVE  /\ o \in entries /\ m.keyword = o.id
           /\ term.kind \in {"canonical", "alias", "translation", "phonetic"}
           /\ m.from = normal[f].at /\ m.to = normal[t].at /\ InText(m, Len(Text))
           /\ m.segments = SaidIn(m.from, m.to)
           /\ \E form \in Forms(o) : SubSeq(Symbols(normal), f, t) \in VariantKeys(form.value)
<1>1. entries \in SUBSET Keywords /\ terms = Terms(entries)
    BY Zenon DEF IndexIsBuilt
<1>2. /\ f \in 1 .. Len(normal) /\ t \in 1 .. Len(normal) /\ f <= t
      /\ term \in terms /\ o \in term.owners /\ term.symbols = SubSeq(Symbols(normal), f, t)
      /\ m = HitOf(o, term.kind, f, t)
    BY Zenon DEF Sighting, Wanted
<1>3. /\ term.kind \in {"canonical", "alias", "translation", "phonetic"}
      /\ o \in entries /\ \E form \in Forms(o) : term.symbols \in VariantKeys(form.value)
    BY <1>1, <1>2, TermIs
<1>4. /\ m.keyword = o.id /\ m.from = normal[f].at /\ m.to = normal[t].at
      /\ m.segments = SaidIn(normal[f].at, normal[t].at)
    BY <1>2 DEF HitOf
<1>5. normal[f].at \in 1 .. Len(Text) /\ normal[t].at \in 1 .. Len(Text) /\ normal[f].at <= normal[t].at
    BY <1>2, NormalIs, Zenon
<1>6. InText(m, Len(Text))
    BY <1>4, <1>5, Zenon DEF InText
<1>7. QED
    BY <1>2, <1>3, <1>4, <1>6, Zenon

\* There are finitely many.
LEMMA SightedIsMatched ==
    ASSUME IndexIsBuilt, entries # {}, Told, NEW r \in 0 .. Len(normal)
    PROVE  Matched(Sighted(r), Len(Text))
<1>1. PICK n \in Nat, l \in Nat : n = Len(normal) /\ l = Len(Text)
    BY NormalIs
<1>2. \A m \in Sighted(r) : \E term, o, f, t : Sighting(m, term, o, f, t)
    BY SightedAre, Zenon
<1>3. \A m \in Sighted(r) : InText(m, l)
    BY <1>1, <1>2, SightingIs, Zenon
<1> DEFINE kinds == {"canonical", "alias"} \cup {"translation", "phonetic"}
           places == (1 .. n) \X (1 .. n)
           things == Keywords \X kinds
           all == things \X places
           hit == [x \in all |-> HitOf(x[1][1], x[1][2], x[2][1], x[2][2])]
           hits == {hit[x] : x \in all}
<1>4. IsFiniteSet(all)
    <2>1. IsFiniteSet(kinds)
        <3>1. IsFiniteSet({"canonical"} \cup {"alias"}) /\ IsFiniteSet({"translation"} \cup {"phonetic"})
            BY FS_Singleton, FS_AddElement
        <3>2. kinds = ({"canonical"} \cup {"alias"}) \cup ({"translation"} \cup {"phonetic"})
            OBVIOUS
        <3>3. QED
            BY <3>1, <3>2, FS_Union
    <2>2. IsFiniteSet(1 .. n)
        BY FS_Interval
    <2>3. IsFiniteSet(Keywords)
        BY KeywordAssumption
    <2> HIDE DEF kinds
    <2>4. IsFiniteSet(places) /\ IsFiniteSet(things)
        BY <2>1, <2>2, <2>3, FS_Product
    <2> HIDE DEF places, things
    <2>5. QED
        BY <2>4, FS_Product
<1>5. IsFiniteSet(hits)
    <2> HIDE DEF all
    <2>1. hit \in Surjection(all, hits)
        BY DEF Surjection
    <2> HIDE DEF hit, hits
    <2>2. QED
        BY <1>4, <2>1, FS_Surjection
<1>6. Sighted(r) \subseteq hits
    <2>1. ASSUME NEW m \in Sighted(r)
          PROVE  m \in hits
        <3>1. PICK term, o, f, t : Sighting(m, term, o, f, t)
            BY <1>2
        <3>2. /\ f \in 1 .. n /\ t \in 1 .. n /\ m = HitOf(o, term.kind, f, t)
            BY <1>1, <3>1, Zenon DEF Sighting
        <3>3. o \in Keywords /\ term.kind \in kinds
            BY <3>1, SightingIs DEF IndexIsBuilt
        <3> HIDE DEF kinds
        <3>4. PICK x : x = <<<<o, term.kind>>, <<f, t>>>>
            OBVIOUS
        <3>5. x \in all /\ x[1][1] = o /\ x[1][2] = term.kind /\ x[2][1] = f /\ x[2][2] = t
            BY <3>2, <3>3, <3>4
        <3> HIDE DEF all
        <3>6. hit[x] = m
            BY <3>2, <3>5
        <3>7. QED
            BY <3>5, <3>6
    <2>2. QED
        BY <2>1
<1>7. IsFiniteSet(Sighted(r))
    BY <1>5, <1>6, FS_Subset
<1>8. QED
    BY <1>1, <1>3, <1>7, Zenon DEF Matched

\* SaidIn() finds the segments that Origin() finds one character at a time.
LEMMA SaidWhereItWas ==
    ASSUME Told, NEW m, NEW l \in Nat, InText(m, l)
    PROVE  SaidIn(m.from, m.to) = Origin(m)
<1>1. PICK from \in Nat, to \in Nat, size \in Nat :
         from = m.from /\ to = m.to /\ size = Len(spoken[1].text) /\ from <= to
    <2>1. m.from \in Nat /\ m.to \in Nat /\ m.from <= m.to
        BY DEF InText
    <2>2. QED
        BY <2>1, TextIs
<1> DEFINE first == {j \in DOMAIN spoken : IF j = 1 THEN from < Len(spoken[1].text) + 2 - 1
                                              ELSE to >= Len(spoken[1].text) + 2}
           second == {j \in DOMAIN spoken : \E at \in from .. to : IF j = 1 THEN at <= size ELSE at > size + 1}
<1>2. first = second
    <2>1. (from < size + 2 - 1) <=> \E at \in from .. to : at <= size
        <3>1. from < size + 2 - 1 => from \in from .. to /\ from <= size
            BY <1>1
        <3>2. (\E at \in from .. to : at <= size) => from < size + 2 - 1
            BY <1>1
        <3>3. QED
            BY <3>1, <3>2
    <2>2. (to >= size + 2) <=> \E at \in from .. to : at > size + 1
        <3>1. to >= size + 2 => to \in from .. to /\ to > size + 1
            BY <1>1
        <3>2. (\E at \in from .. to : at > size + 1) => to >= size + 2
            BY <1>1
        <3>3. QED
            BY <3>1, <3>2
    <2>3. QED
        BY <1>1, <2>1, <2>2, Zenon
<1>3. SaidIn(from, to) = {spoken[i].number : i \in first}
    BY DEF SaidIn
<1>4. Origin(m) = {spoken[i].number : i \in second}
    BY <1>1, Zenon DEF Origin
<1> HIDE DEF first, second
<1>5. QED
    BY <1>1, <1>2, <1>3, <1>4, Zenon

-----------------------------------------------------------------------------
\* The report.

ScanIsSound ==
    /\ spoken = << >> => normal = << >> /\ node = Root /\ read = 0 /\ found = {} /\ report = NotYet
    /\ spoken # << >> =>
          /\ entries # {} /\ Told /\ read \in 0 .. Len(normal)
          /\ LongestEnd(node, SubSeq(Symbols(normal), 1, read), read, automaton.nodes)
          /\ found = Sighted(read)
    /\ report # NotYet => read = Len(normal) /\ report = Thinned(found)

ScanInv == IndexIsBuilt /\ ScanIsSound

\* A report thins out all that is in the text.
LEMMA ReportIs ==
    ASSUME ScanInv, report # NotYet
    PROVE  /\ IndexIsBuilt /\ entries # {} /\ Told /\ Len(normal) \in 0 .. Len(normal)
           /\ Matched(Sighted(Len(normal)), Len(Text)) /\ ThinsOut(report, Sighted(Len(normal)))
<1>1. /\ IndexIsBuilt /\ entries # {} /\ Told
      /\ found = Sighted(read) /\ read = Len(normal) /\ report = Thinned(found)
    BY Zenon DEF ScanInv, ScanIsSound
<1>2. Len(normal) \in 0 .. Len(normal)
    <2>1. Len(normal) \in Nat
        BY <1>1, NormalIs
    <2>2. QED
        BY <2>1
<1>3. Matched(Sighted(Len(normal)), Len(Text))
    BY <1>1, <1>2, SightedIsMatched
<1>4. ThinsOut(Thinned(Sighted(Len(normal))), Sighted(Len(normal)))
    BY <1>3, ThinnedThinsOut
<1>5. QED
    BY <1>1, <1>2, <1>3, <1>4, Zenon

(* No keyword is missed: an occurrence, told without terms and automaton, has *)
(* been seen.                                                                *)
LEMMA OccurrenceIsSighted ==
    ASSUME IndexIsBuilt, entries # {}, Told, NEW b \in entries, NEW o \in Occurrences(b)
    PROVE  \E m \in Sighted(Len(normal)) : m.keyword = b.id /\ m.from = o[1] /\ m.to = o[2]
<1>1. PICK s, n : s = Symbols(normal) /\ n = Len(normal)
    OBVIOUS
<1>2. s \in Seq(NormalSymbols) /\ Len(s) = n /\ n \in Nat
    BY <1>1, NormalIs, Zenon
<1>3. DOMAIN s = 1 .. n
    BY <1>2
<1>4. PICK f \in 1 .. n, t \in 1 .. n :
         /\ o = OriginalSpan(normal, f, t) /\ f <= t
         /\ \E form \in Forms(b) : /\ KindAllowed(b, form.kind)
                                   /\ SubSeq(s, f, t) \in VariantKeys(form.value)
                                   /\ b.tokens => SpansWords(s, f, t)
    <2> DEFINE Found(f, t) == \E form \in Forms(b) : /\ KindAllowed(b, form.kind)
                                                     /\ SubSeq(s, f, t) \in VariantKeys(form.value)
                                                     /\ b.tokens => SpansWords(s, f, t)
               places == {q \in (1 .. n) \X (1 .. n) : q[1] <= q[2] /\ Found(q[1], q[2])}
    <2>1. Occurrences(b) = {OriginalSpan(normal, p[1], p[2]) : p \in places}
        BY <1>1, <1>3, Zenon DEF Occurrences
    <2> HIDE DEF Found
    <2>2. PICK p \in places : o = OriginalSpan(normal, p[1], p[2])
        BY <2>1
    <2>3. PICK f, t : f = p[1] /\ t = p[2]
        OBVIOUS
    <2>4. f \in 1 .. n /\ t \in 1 .. n /\ f <= t /\ Found(f, t) /\ o = OriginalSpan(normal, f, t)
        BY <2>2, <2>3
    <2>5. QED
        BY <2>4 DEF Found
<1>5. PICK form \in Forms(b) : /\ KindAllowed(b, form.kind) /\ SubSeq(s, f, t) \in VariantKeys(form.value)
                               /\ b.tokens => SpansWords(s, f, t)
    BY <1>4
<1>6. entries \in SUBSET Keywords /\ terms = Terms(entries)
    BY Zenon DEF IndexIsBuilt
<1>7. PICK term \in Terms(entries) : /\ term.symbols = SubSeq(s, f, t) /\ term.kind = form.kind
                                     /\ b \in term.owners
                                     /\ term.words => b.tokens
    BY <1>5, <1>6, FormHasTerm
<1>8. Wanted(term, b, f, t)
    BY <1>1, <1>5, <1>6, <1>7, Zenon DEF Wanted
<1>9. PICK m : m = HitOf(b, term.kind, f, t)
    OBVIOUS
<1>10. Sighting(m, term, b, f, t)
    BY <1>1, <1>4, <1>7, <1>8, <1>9, Zenon DEF Sighting
<1>11. n \in 0 .. Len(normal) /\ t <= n
    BY <1>1, <1>2, <1>4
<1>12. m \in Sighted(n)
    BY <1>10, <1>11, SightedAre
<1>13. m.keyword = b.id /\ m.from = normal[f].at /\ m.to = normal[t].at
    BY <1>10, SightingIs
<1>14. o[1] = normal[f].at /\ o[2] = normal[t].at
    BY <1>4 DEF OriginalSpan
<1>15. QED
    BY <1>1, <1>12, <1>13, <1>14, Zenon

(* And nothing is made up: the characters a match quotes say its keyword, and *)
(* it names the segments they were said in.                                  *)
LEMMA SightedIsQuoted ==
    ASSUME IndexIsBuilt, entries # {}, Told, NEW b \in entries, NEW m \in Sighted(Len(normal)), m.keyword = b.id
    PROVE  Verbatim(m, b) /\ m.segments = Origin(m)
<1>1. Len(normal) \in 0 .. Len(normal) /\ Len(Text) \in Nat /\ Text \in Seq(Glyphs)
    <2>1. Len(normal) \in Nat /\ Len(Text) \in Nat /\ Text \in Seq(Glyphs)
        BY NormalIs, TextIs
    <2>2. QED
        BY <2>1
<1>2. PICK term, o, f, t : Sighting(m, term, o, f, t)
    BY <1>1, SightedAre
<1>3. /\ o \in entries /\ m.keyword = o.id /\ m.from = normal[f].at /\ m.to = normal[t].at
      /\ InText(m, Len(Text)) /\ m.segments = SaidIn(m.from, m.to)
      /\ \E form \in Forms(o) : SubSeq(Symbols(normal), f, t) \in VariantKeys(form.value)
    BY <1>2, SightingIs
<1>4. o = b
    <2>1. entries \in SUBSET Keywords
        BY DEF IndexIsBuilt
    <2>2. QED
        BY <1>3, <2>1, KeywordAssumption
<1>5. PICK form \in Forms(b) : SubSeq(Symbols(normal), f, t) \in VariantKeys(form.value)
    BY <1>3, <1>4
<1>6. m.segments = Origin(m)
    BY <1>1, <1>3, SaidWhereItWas, Zenon
<1>7. PICK s, p, n : s = Symbols(normal) /\ p = SubSeq(s, f, t) /\ n = Len(normal)
    OBVIOUS
<1>8. s \in Seq(NormalSymbols) /\ Len(s) = n /\ n \in Nat /\ \A i \in 1 .. n : s[i] = normal[i].symbol
    BY <1>7, NormalIs, Zenon
<1>9. /\ f \in 1 .. n /\ t \in 1 .. n /\ f <= t /\ term \in terms /\ term.symbols = p
    BY <1>2, <1>7, Zenon DEF Sighting, Wanted
<1>10. Pattern(p)
    BY <1>9, PatternsAre DEF Patterns
<1>11. /\ p \in Seq(NormalSymbols) /\ p # << >> /\ EndsIn(p, SubSeq(s, 1, t)) /\ Len(p) = t - f + 1
       /\ p[1] # " " /\ p[Len(p)] # " "
    <2>1. EndsIn(p, SubSeq(s, 1, t)) /\ Len(p) = t - f + 1
        BY <1>7, <1>8, <1>9, PartIs, PartIsEnd
    <2>2. QED
        BY <1>10, <2>1, Zenon DEF Pattern
<1>12. t - Len(p) + 1 = f
    <2>1. f \in Int /\ t \in Int
        BY <1>8, <1>9
    <2>2. PICK l \in Int : l = t - f + 1 /\ t - l + 1 = f
        BY <2>1
    <2>3. QED
        BY <1>11, <2>2, Zenon
<1>13. s[f] = p[1] /\ s[t] = p[Len(p)]
    <2>1. t \in 1 .. Len(s)
        BY <1>8, <1>9
    <2>2. s[t - Len(p) + 1] = p[1] /\ s[t] = p[Len(p)]
        BY <1>8, <1>11, <2>1, EndIsPart
    <2>3. QED
        BY <1>12, <2>2, Zenon
<1>14. Quotable(normal, f, t)
    BY <1>7, <1>8, <1>9, <1>11, <1>13, Zenon DEF Quotable
<1>15. PICK text, fold : text = Text /\ fold = ~MarksAreSignificant(Text)
    OBVIOUS
<1>16. text \in Seq(Glyphs) /\ fold \in BOOLEAN /\ normal = NormalizeWith(text, fold)
    BY <1>1, <1>15, NormalIs
<1>17. SubSeq(Symbols(normal), f, t) \in
          SubSeqs(Symbols(NormalizeWith(SubSeq(text, normal[f].at, normal[t].at), fold)))
    <2>1. Quotable(NormalizeWith(text, fold), f, t)
        BY <1>14, <1>16, Zenon
    <2>2. LET n1 == NormalizeWith(text, fold)
          IN  SubSeq(Symbols(n1), f, t) \in
                SubSeqs(Symbols(NormalizeWith(SubSeq(text, n1[f].at, n1[t].at), fold)))
        BY <1>16, <2>1, QuoteSays, Zenon
    <2>3. QED
        BY <1>16, <2>2, Zenon
<1>18. SubSeq(Symbols(normal), f, t) \in
          SubSeqs(Symbols(NormalizeWith(SubSeq(Text, m.from, m.to), ~MarksAreSignificant(Text))))
    BY <1>3, <1>15, <1>17, Zenon
<1>19. Verbatim(m, b)
    BY <1>5, <1>18, Zenon DEF Verbatim
<1>20. QED
    BY <1>6, <1>19

\* The invariant has the property.
LEMMA SoundReport ==
    ASSUME ScanInv
    PROVE  EveryUtteranceOnce
<1>1. SUFFICES ASSUME report # NotYet, NEW b \in entries
      PROVE  LET mine == {m \in report : m.keyword = b.id}
             IN  /\ \A o \in Occurrences(b) : \E m \in mine :
                       m.from <= o[2] /\ o[1] <= m.to /\ Length(m) >= o[2] - o[1]
                 /\ \A m1, m2 \in mine : Overlaps(m1, m2) => m1 = m2
                 /\ \A m \in mine : Verbatim(m, b) /\ m.segments = Origin(m)
    BY Zenon DEF EveryUtteranceOnce
<1> DEFINE mine == {m \in report : m.keyword = b.id}
<1>2. PICK S : S = Sighted(Len(normal))
    OBVIOUS
<1>3. /\ IndexIsBuilt /\ entries # {} /\ Told
      /\ report \subseteq S
      /\ \A m \in S : \E k \in report : k.keyword = m.keyword /\ Overlaps(k, m) /\ Length(k) >= Length(m)
      /\ \A m1, m2 \in report : m1.keyword = m2.keyword /\ Overlaps(m1, m2) => m1 = m2
    BY <1>1, <1>2, ReportIs, Zenon DEF ThinsOut
<1>4. ASSUME NEW o \in Occurrences(b)
      PROVE  \E m \in mine : m.from <= o[2] /\ o[1] <= m.to /\ Length(m) >= o[2] - o[1]
    <2>1. PICK m \in S : m.keyword = b.id /\ m.from = o[1] /\ m.to = o[2]
        BY <1>2, <1>3, OccurrenceIsSighted
    <2>2. PICK k \in report : k.keyword = m.keyword /\ Overlaps(k, m) /\ Length(k) >= Length(m)
        BY <1>3
    <2>3. k \in mine /\ k.from <= o[2] /\ o[1] <= k.to /\ Length(k) >= o[2] - o[1]
        BY <2>1, <2>2, Zenon DEF Overlaps, Length
    <2>4. QED
        BY <2>3
<1>5. \A m1, m2 \in mine : Overlaps(m1, m2) => m1 = m2
    BY <1>3
<1>6. \A m \in mine : Verbatim(m, b) /\ m.segments = Origin(m)
    BY <1>2, <1>3, SightedIsQuoted
<1>7. QED
    BY <1>4, <1>5, <1>6, Zenon

-----------------------------------------------------------------------------
\* The inductive invariant.

\* The invariant holds at the start, and every step keeps it.
LEMMA ScanInvInit ==
    TextInit => ScanInv
<1>1. SUFFICES ASSUME TextInit PROVE ScanInv
    OBVIOUS
<1>2. /\ entries = {} /\ spoken = << >> /\ normal = << >> /\ node = Root /\ read = 0 /\ found = {}
      /\ report = NotYet
    BY <1>1, Zenon DEF TextInit
<1>3. IndexIsBuilt
    BY <1>2 DEF IndexIsBuilt
<1>4. ScanIsSound
    BY <1>2, Zenon DEF ScanIsSound
<1>5. QED
    BY <1>3, <1>4, Zenon DEF ScanInv

LEMMA CompileKeepsScanInv ==
    ASSUME ScanInv, NEW bindings \in SUBSET Keywords, Compile(bindings)
    PROVE  ScanInv'
<1>1. entries = {} /\ entries' = bindings /\ terms' = Terms(bindings) /\ UNCHANGED scan
    BY Zenon DEF Compile
<1>2. spoken = << >> /\ ScanIsSound
    BY <1>1, Zenon DEF ScanInv, ScanIsSound
<1>3. ScanIsSound'
    BY <1>1, <1>2, Zenon DEF ScanIsSound, scan
<1>4. PICK P : P = {t.symbols : t \in Terms(bindings)}
    OBVIOUS
<1>5. automaton' = [nodes |-> Nodes(P), fail |-> FailureLinks(Nodes(P)),
                    output |-> Outputs(Nodes(P), FailureLinks(Nodes(P)), P)]
    BY <1>4, Zenon DEF Compile
<1>6. P \subseteq Seq(NormalSymbols)
    <2>1. \A t \in Terms(bindings) : t.symbols \in Seq(NormalSymbols)
        BY TermIs DEF Pattern
    <2>2. QED
        BY <1>4, <2>1
<1>7. Reads(automaton', P)
    BY <1>5, <1>6, CompiledReads
<1>8. Patterns' = P
    BY <1>1, <1>4 DEF Patterns
<1>9. Reads(automaton, Patterns)'
    BY <1>7, <1>8, Zenon DEF Reads
<1>10. IndexIsBuilt'
    BY <1>1, <1>9, Zenon DEF IndexIsBuilt
<1>11. QED
    BY <1>3, <1>10, Zenon DEF ScanInv

\* What a step leaves of the index.
LEMMA IndexStays ==
    ASSUME ScanInv, UNCHANGED index
    PROVE  IndexIsBuilt' /\ Patterns' = Patterns
<1>1. entries' = entries /\ terms' = terms /\ automaton' = automaton
    BY DEF index
<1>2. Patterns' = Patterns
    BY <1>1, Zenon DEF Patterns
<1>3. QED
    BY <1>1, <1>2, Zenon DEF ScanInv, IndexIsBuilt

\* The fragments a transcript is made of.
FragmentNumbers == {<<1>>, <<2>>, <<1, 2>>}

LEMMA DecodeKeepsScanInv ==
    ASSUME ScanInv, NEW numbers \in FragmentNumbers, NEW segments \in [DOMAIN numbers -> Segments],
           Decode(numbers, segments)
    PROVE  ScanInv'
<1>1. /\ entries # {} /\ spoken = << >>
      /\ spoken' = [i \in DOMAIN numbers |-> [number |-> numbers[i], text |-> segments[i]]]
      /\ normal' = Normalize(Joined(spoken')) /\ UNCHANGED index
      /\ node' = node /\ read' = read /\ found' = found /\ report' = report
    BY Zenon DEF Decode
<1>2. /\ IndexIsBuilt' /\ entries' = entries /\ automaton' = automaton
    BY <1>1, IndexStays DEF index
<1>3. node = Root /\ read = 0 /\ found = {} /\ report = NotYet
    BY <1>1, Zenon DEF ScanInv, ScanIsSound
<1>4. spoken' \in Seq(Fragments) /\ Len(spoken') \in 1 .. 2
    <2>1. /\ DOMAIN numbers = 1 .. Len(numbers) /\ Len(numbers) \in 1 .. 2
          /\ \A i \in DOMAIN numbers : numbers[i] \in {1, 2}
        BY DEF FragmentNumbers
    <2>2. \A i \in DOMAIN numbers : segments[i] \in Seq(Glyphs)
        <3>1. Segments \subseteq Seq(Glyphs)
            BY KeywordAssumption DEF Segments
        <3>2. QED
            BY <3>1
    <2>3. \A i \in DOMAIN numbers : [number |-> numbers[i], text |-> segments[i]] \in Fragments
        BY <2>1, <2>2 DEF Fragments
    <2>4. QED
        BY <1>1, <2>1, <2>3
<1>5. Told'
    BY <1>1, <1>4, Zenon DEF Told, Text
<1>6. Symbols(normal') \in Seq(NormalSymbols) /\ Len(normal') \in Nat
    <2>1. (Symbols(normal) \in Seq(NormalSymbols) /\ Len(normal) \in Nat)'
        BY <1>5, NormalIs, PTL
    <2>2. QED
        BY <2>1
<1>7. LongestEnd(Root, SubSeq(Symbols(normal'), 1, 0), 0, automaton'.nodes)
    <2>1. PICK s : s = Symbols(normal')
        OBVIOUS
    <2>2. SubSeq(s, 1, 0) = << >>
        BY <1>6, <2>1
    <2>3. Root \in automaton'.nodes
        BY <1>1, <1>2, Zenon DEF ScanInv, IndexIsBuilt, Reads, Trie
    <2>4. Len(Root) = 0 /\ 0 <= 0 /\ EndsIn(Root, << >>)
        BY DEF Root, EndsIn
    <2>5. QED
        BY <2>1, <2>2, <2>3, <2>4, Zenon DEF LongestEnd
<1>8. Sighted(0)' = {}
    BY DEF Sighted
<1>9. spoken' # << >>
    <2>1. Len(<< >>) = 0 /\ 0 \notin 1 .. 2
        OBVIOUS
    <2>2. QED
        BY <1>4, <2>1, Zenon
<1>10. read' \in 0 .. Len(normal')
    BY <1>1, <1>3, <1>6
<1>11. ScanIsSound'
    BY <1>1, <1>2, <1>3, <1>5, <1>7, <1>8, <1>9, <1>10, Zenon DEF ScanIsSound
<1>12. QED
    BY <1>2, <1>11, Zenon DEF ScanInv

\* Nothing changes what the text and the index make of a position.
LEMMA SightedStays ==
    ASSUME Patterns' = Patterns, terms' = terms, spoken' = spoken, normal' = normal
    PROVE  \A r : Sighted(r)' = Sighted(r)
<1>0. HitsAreWanted'
    BY HitsAre, PTL
<1>1. \A from, to : SaidIn(from, to)' = SaidIn(from, to)
    BY Zenon DEF SaidIn
<1>2. ASSUME NEW p, NEW to
      PROVE  Hits(p, to)' = Hits(p, to)
    <2>1. PICK from : from = to - Len(p) + 1
        OBVIOUS
    <2>2. \A m : m \in Hits(p, to) <=>
                   \E term, o : Wanted(term, o, from, to) /\ term.symbols = p /\ m = HitOf(o, term.kind, from, to)
        BY <2>1, HitsAre DEF HitsAreWanted
    <2>3. \A m : m \in Hits(p, to)' <=>
                   \E term, o : Wanted(term, o, from, to)' /\ term.symbols = p /\ m = HitOf(o, term.kind, from, to)'
        BY <1>0, <2>1 DEF HitsAreWanted
    <2>4. \A term, o : Wanted(term, o, from, to)' <=> Wanted(term, o, from, to)
        BY Zenon DEF Wanted
    <2>5. \A o, kind : HitOf(o, kind, from, to)' = HitOf(o, kind, from, to)
        BY <1>1, Zenon DEF HitOf
    <2>6. ASSUME NEW m
          PROVE  m \in Hits(p, to)' <=> m \in Hits(p, to)
        <3>1. ASSUME m \in Hits(p, to) PROVE m \in Hits(p, to)'
            <4>1. PICK term, o : /\ Wanted(term, o, from, to) /\ term.symbols = p
                                 /\ m = HitOf(o, term.kind, from, to)
                BY <2>2, <3>1
            <4>2. Wanted(term, o, from, to)' /\ m = HitOf(o, term.kind, from, to)'
                BY <2>4, <2>5, <4>1, Zenon
            <4>3. QED
                BY <2>3, <4>1, <4>2, Zenon
        <3>2. ASSUME m \in Hits(p, to)' PROVE m \in Hits(p, to)
            <4>1. PICK term, o : /\ Wanted(term, o, from, to)' /\ term.symbols = p
                                 /\ m = HitOf(o, term.kind, from, to)'
                BY <2>3, <3>2
            <4>2. Wanted(term, o, from, to) /\ m = HitOf(o, term.kind, from, to)
                BY <2>4, <2>5, <4>1, Zenon
            <4>3. QED
                BY <2>2, <4>1, <4>2, Zenon
        <3>3. QED
            BY <3>1, <3>2
    <2>7. QED
        BY <2>6
<1>3. \A to : EndsAt(to)' = EndsAt(to)
    BY Zenon DEF EndsAt
<1>4. ASSUME NEW r
      PROVE  Sighted(r)' = Sighted(r)
    <2>1. \A m : m \in Sighted(r) <=> \E to \in 1 .. r : \E p \in EndsAt(to) : m \in Hits(p, to)
        BY DEF Sighted
    <2>2. \A m : m \in Sighted(r)' <=> \E to \in 1 .. r : \E p \in EndsAt(to)' : m \in Hits(p, to)'
        BY DEF Sighted
    <2>3. \A m : m \in Sighted(r)' <=> m \in Sighted(r)
        BY <1>2, <1>3, <2>1, <2>2, Zenon
    <2>4. QED
        BY <2>3
<1>5. QED
    BY <1>4

LEMMA ReadSymbolKeepsScanInv ==
    ASSUME ScanInv, ReadSymbol
    PROVE  ScanInv'
<1>1. PICK c, next : c = normal[read + 1].symbol /\ next = Step(automaton.nodes, automaton.fail, node, c)
    OBVIOUS
<1>2. /\ spoken # << >> /\ read < Len(normal)
      /\ node' = next /\ read' = read + 1
      /\ found' = found \cup UNION {Hits(p, read + 1) : p \in automaton.output[next]}
      /\ UNCHANGED index /\ spoken' = spoken /\ normal' = normal /\ report' = report
    BY <1>1, Zenon DEF ReadSymbol
<1>3. /\ IndexIsBuilt /\ entries # {} /\ Told /\ read \in 0 .. Len(normal)
      /\ LongestEnd(node, SubSeq(Symbols(normal), 1, read), read, automaton.nodes)
      /\ found = Sighted(read)
      /\ report # NotYet => read = Len(normal)
    BY <1>2, Zenon DEF ScanInv, ScanIsSound
<1>4. IndexIsBuilt' /\ Patterns' = Patterns /\ entries' = entries /\ terms' = terms /\ automaton' = automaton
    BY <1>2, IndexStays DEF index
<1>5. PICK s, n : s = Symbols(normal) /\ n = Len(normal)
    OBVIOUS
<1>6. /\ s \in Seq(NormalSymbols) /\ Len(s) = n /\ n \in Nat
      /\ \A i \in 1 .. n : s[i] = normal[i].symbol
    BY <1>3, <1>5, NormalIs, Zenon
<1>7. PICK q \in 1 .. n : q = read + 1 /\ read \in 0 .. n - 1 /\ q \in 0 .. n /\ read # n /\ read \in Nat
    <2>1. /\ read + 1 \in 1 .. n /\ read \in 0 .. n - 1 /\ read + 1 \in 0 .. n /\ read # n
          /\ read \in Nat
        BY <1>2, <1>3, <1>5, <1>6
    <2>2. QED
        BY <2>1
<1>8. c = s[q]
    BY <1>1, <1>6, <1>7, Zenon
<1>9. Reads(automaton, Patterns)
    BY <1>3, Zenon DEF IndexIsBuilt
<1>10. LongestEnd(next, SubSeq(s, 1, q), q, automaton.nodes)
    <2>1. LongestEnd(node, SubSeq(s, 1, read), read, automaton.nodes) /\ read \in 0 .. Len(s) - 1
        BY <1>3, <1>5, <1>6, <1>7, Zenon
    <2>2. LongestEnd(Step(automaton.nodes, automaton.fail, node, s[read + 1]), SubSeq(s, 1, read + 1), read + 1,
                     automaton.nodes)
        BY <1>6, <1>9, <2>1, NextNode
    <2>3. QED
        BY <1>1, <1>7, <1>8, <2>2, Zenon
<1>11. automaton.output[next] = EndsAt(q)
    <2>1. q \in 0 .. Len(s)
        BY <1>6, <1>7, Zenon
    <2>2. PICK begin, P, A : begin = SubSeq(s, 1, q) /\ P = Patterns /\ A = automaton
        OBVIOUS
    <2>3. begin \in Seq(NormalSymbols) /\ Len(begin) = q
        BY <1>6, <2>1, <2>2, PrefixIs
    <2>4. LongestEnd(next, begin, Len(begin), A.nodes) /\ Reads(A, P)
        BY <1>9, <1>10, <2>2, <2>3, Zenon
    <2>5. A.output[next] = {p \in P : EndsIn(p, begin)}
        BY <2>3, <2>4, NodePutsOut
    <2>6. QED
        BY <1>5, <2>2, <2>5, Zenon DEF EndsAt
<1>12. found' = Sighted(q)
    <2>1. 1 .. q = (1 .. read) \cup {q}
        BY <1>7
    <2> DEFINE At(to) == UNION {Hits(p, to) : p \in EndsAt(to)}
    <2>2. Sighted(q) = UNION {At(to) : to \in 1 .. q} /\ Sighted(read) = UNION {At(to) : to \in 1 .. read}
        BY Zenon DEF Sighted
    <2>3. found' = Sighted(read) \cup At(q)
        BY <1>2, <1>3, <1>7, <1>11, Zenon
    <2> HIDE DEF At
    <2>4. QED
        BY <2>1, <2>2, <2>3
<1>13. Sighted(q)' = Sighted(q)
    BY <1>2, <1>4, SightedStays, Zenon
<1>14. Told'
    BY <1>2, <1>3, Zenon DEF Told, Text
<1>15. report' = NotYet
    BY <1>2, <1>3, <1>5, <1>7, Zenon
<1>16. ScanIsSound'
    <2>1. q = read' /\ s = Symbols(normal)' /\ n = Len(normal)' /\ entries' # {} /\ spoken' # << >>
        BY <1>2, <1>3, <1>4, <1>5, <1>7, Zenon
    <2>2. LongestEnd(node, SubSeq(Symbols(normal), 1, read), read, automaton.nodes)'
        BY <1>2, <1>4, <1>10, <2>1, Zenon DEF LongestEnd
    <2>3. found' = Sighted(read)'
        BY <1>12, <1>13, <2>1, Zenon
    <2>4. (read \in 0 .. Len(normal))'
        BY <1>7, <2>1, Zenon
    <2>5. QED
        BY <1>14, <1>15, <2>1, <2>2, <2>3, <2>4, Zenon DEF ScanIsSound
<1>17. QED
    BY <1>4, <1>16, Zenon DEF ScanInv

LEMMA ScanInvNext ==
    ScanInv /\ [TextNext]_textVars => ScanInv'
<1>1. SUFFICES ASSUME ScanInv, [TextNext]_textVars PROVE ScanInv'
    OBVIOUS
<1>2. CASE \E bindings \in SUBSET Keywords : Cardinality(bindings) <= MaxKeywords /\ Compile(bindings)
    BY <1>1, <1>2, CompileKeepsScanInv
<1>3. CASE \E numbers \in {<<1>>, <<2>>, <<1, 2>>} : \E segments \in [DOMAIN numbers -> Segments] :
              Decode(numbers, segments)
    BY <1>1, <1>3, DecodeKeepsScanInv, Zenon DEF FragmentNumbers
<1>4. CASE ReadSymbol
    BY <1>1, <1>4, ReadSymbolKeepsScanInv
<1>5. CASE Report
    <2>1. /\ spoken # << >> /\ read = Len(normal) /\ report' = Thinned(found) /\ UNCHANGED index
          /\ spoken' = spoken /\ normal' = normal /\ node' = node /\ read' = read /\ found' = found
        BY <1>5, Zenon DEF Report
    <2>2. /\ IndexIsBuilt' /\ Patterns' = Patterns /\ entries' = entries /\ terms' = terms
          /\ automaton' = automaton
        BY <1>1, <2>1, IndexStays DEF index
    <2>3. /\ entries # {} /\ Told /\ read \in 0 .. Len(normal)
          /\ LongestEnd(node, SubSeq(Symbols(normal), 1, read), read, automaton.nodes)
          /\ found = Sighted(read)
        BY <1>1, <2>1, Zenon DEF ScanInv, ScanIsSound
    <2>4. \A r : Sighted(r)' = Sighted(r)
        BY <2>1, <2>2, SightedStays
    <2>5. found' = Sighted(read)'
        BY <2>1, <2>3, <2>4, Zenon
    <2>6. Told'
        BY <2>1, <2>3, Zenon DEF Told, Text
    <2>7. LongestEnd(node, SubSeq(Symbols(normal), 1, read), read, automaton.nodes)'
        BY <2>1, <2>2, <2>3, Zenon DEF LongestEnd
    <2>8. ScanIsSound'
        BY <2>1, <2>2, <2>3, <2>5, <2>6, <2>7, Zenon DEF ScanIsSound
    <2>9. QED
        BY <2>2, <2>8, Zenon DEF ScanInv
<1>6. CASE NextTranscript
    <2>1. /\ spoken' = << >> /\ normal' = << >> /\ node' = Root /\ read' = 0 /\ found' = {}
          /\ report' = NotYet /\ UNCHANGED index
        BY <1>6, Zenon DEF NextTranscript
    <2>2. IndexIsBuilt'
        BY <1>1, <2>1, IndexStays
    <2>3. ScanIsSound'
        BY <2>1, Zenon DEF ScanIsSound
    <2>4. QED
        BY <2>2, <2>3, Zenon DEF ScanInv
<1>7. CASE UNCHANGED textVars
    <2>1. /\ UNCHANGED index /\ spoken' = spoken /\ normal' = normal /\ node' = node /\ read' = read
          /\ found' = found /\ report' = report
        BY <1>7 DEF textVars, scan
    <2>2. /\ IndexIsBuilt' /\ Patterns' = Patterns /\ entries' = entries /\ terms' = terms
          /\ automaton' = automaton
        BY <1>1, <2>1, IndexStays DEF index
    <2>3. \A r : Sighted(r)' = Sighted(r)
        BY <2>1, <2>2, SightedStays
    <2>4. Told' <=> Told
        BY <2>1, Zenon DEF Told, Text
    <2>5. ScanIsSound'
        <3>1. ScanIsSound
            BY <1>1, Zenon DEF ScanInv
        <3>2. Sighted(read)' = Sighted(read)
            BY <2>1, <2>3, Zenon
        <3>3. LongestEnd(node, SubSeq(Symbols(normal), 1, read), read, automaton.nodes)'
              <=> LongestEnd(node, SubSeq(Symbols(normal), 1, read), read, automaton.nodes)
            BY <2>1, <2>2, Zenon DEF LongestEnd
        <3>4. QED
            BY <2>1, <2>2, <2>4, <3>1, <3>2, <3>3, Zenon DEF ScanIsSound
    <2>6. QED
        BY <2>2, <2>5, Zenon DEF ScanInv
<1>8. QED
    BY <1>1, <1>2, <1>3, <1>4, <1>5, <1>6, <1>7, Zenon DEF TextNext

(* The index is compiled as _build_failure_links() means it to be: a failure  *)
(* link is the longest proper end of its node that is a node, and a node puts *)
(* out all the patterns it ends in.  And the scan is always at the longest    *)
(* node that the text ends in, so that it has found every match that ends in  *)
(* what it has read.                                                          *)
THEOREM ScanFindsAll == TextSpec => []ScanInv
<1>1. TextInit => ScanInv
    BY ScanInvInit
<1>2. ScanInv /\ [TextNext]_textVars => ScanInv'
    BY ScanInvNext
<1>3. QED
    BY <1>1, <1>2, PTL DEF TextSpec

(* For every set of keywords and every transcript: whatever other keywords    *)
(* share the index, no occurrence of a keyword is missed, none is reported    *)
(* twice, and what is reported quotes characters that say the keyword, with   *)
(* the segments they were said in.                                            *)
THEOREM UtterancesAreReportedOnce == TextSpec => []EveryUtteranceOnce
<1>1. ScanInv => EveryUtteranceOnce
    BY SoundReport
<1>2. QED
    BY <1>1, ScanFindsAll, PTL
=============================================================================
