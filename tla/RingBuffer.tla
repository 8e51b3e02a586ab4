----------------------------- MODULE RingBuffer -----------------------------
(***************************************************************************)
(* The circular PCM buffer of one station session                          *)
(* (app/services/ring_buffer.py).                                          *)
(*                                                                         *)
(* The unit is the sample.  A sample is the pair <<g, a>>: the one at      *)
(* offset a of the audio of connection (generation) g.  Offsets in the     *)
(* code are bytes inside and milliseconds at its interface; both are       *)
(* multiples of a sample, and rounding to milliseconds is left out.        *)
(***************************************************************************)
EXTENDS Integers, Sequences

CONSTANTS
    Capacity,  \* sample_rate * seconds
    MaxAppend  \* the longest piece of audio handed to append() at once

ASSUME BufferAssumption == Capacity \in Nat \ {0} /\ MaxAppend \in Nat \ {0}

VARIABLES
    ring,       \* _buffer
    capacity,   \* _capacity: Capacity, or 0 once the memory is released
    total,      \* _total: samples written since the last reset
    generation  \* _generation

buffer == <<ring, capacity, total, generation>>

Silence == <<0, 0>>
Blank == [i \in 0 .. Capacity - 1 |-> Silence]

BufferInit ==
    /\ ring = Blank
    /\ capacity = Capacity
    /\ total = 0
    /\ generation = 1

-----------------------------------------------------------------------------
\* The offset of the oldest sample still held.
Floor == IF total > capacity THEN total - capacity ELSE 0

\* append() of the next n samples of the stream: the last of them that fit are
\* copied in one slice, or in two around the end of the array.
Kept(n) == IF n > capacity THEN capacity ELSE n
WriteAt(n) == (total + n - Kept(n)) % capacity

Append_(n) ==
    LET kept == Kept(n)
        at == WriteAt(n)
        data(j) == <<generation, total + n - kept + j>>
    IN  /\ ring' = IF at + kept <= capacity
                   THEN [i \in 0 .. capacity - 1 |->
                           IF i \in at .. at + kept - 1 THEN data(i - at) ELSE ring[i]]
                   ELSE [i \in 0 .. capacity - 1 |->
                           IF i >= at THEN data(i - at)
                           ELSE IF i < kept - (capacity - at) THEN data(capacity - at + i)
                           ELSE ring[i]]
        /\ total' = total + n
        /\ UNCHANGED <<capacity, generation>>

\* reset(): the array keeps its contents, the offsets start again.
Reset ==
    /\ total' = 0
    /\ generation' = generation + 1
    /\ UNCHANGED <<ring, capacity>>

\* clear(): the memory is given back.
Clear ==
    /\ ring' = << >>
    /\ capacity' = 0
    /\ total' = 0
    /\ UNCHANGED generation

\* reopen(): allocated again, in a new generation.
Reopen ==
    /\ ring' = Blank
    /\ capacity' = Capacity
    /\ total' = 0
    /\ generation' = generation + 1

BufferNext ==
    \/ \E n \in 1 .. MaxAppend : capacity > 0 /\ Append_(n)
    \/ Reset
    \/ Clear
    \/ Reopen

BufferSpec == BufferInit /\ [][BufferNext]_buffer

-----------------------------------------------------------------------------
\* ring[lo..hi-1], a Python slice.
Slice(lo, hi) == [j \in 1 .. hi - lo |-> ring[lo + j - 1]]

\* _read_absolute(): the samples start .. end-1, across the wrap.
Read(start, end) ==
    LET begin == start % capacity
        finish == begin + (end - start)
    IN  IF finish <= capacity
        THEN Slice(begin, finish)
        ELSE Slice(begin, capacity) \o Slice(0, finish - capacity)

\* window(): what is asked for, clamped to what is held.
WindowFrom(start) == IF start > Floor THEN start ELSE Floor
WindowTo_Head(end) == total
WindowTo(end) == IF end < total THEN end ELSE total

Window(start, end) ==
    LET from == WindowFrom(start)
        to == WindowTo(end)
    IN  IF to <= from THEN << >> ELSE Read(from, to)

-----------------------------------------------------------------------------
Samples(g, start, end) == [j \in 1 .. end - start |-> <<g, start + j - 1>>]

BufferTypeOK ==
    /\ capacity \in {0, Capacity}
    /\ DOMAIN ring = 0 .. capacity - 1
    /\ total \in Nat
    /\ generation \in Nat \ {0}
    /\ capacity = 0 => total = 0

(* "The whole read path depends on one invariant: the byte at absolute       *)
(* offset A lives at physical index A % capacity" (ring_buffer.py:186), for  *)
(* every offset still held, whatever was written, wrapped or reset before.   *)
Faithful == \A a \in Floor .. total - 1 : ring[a % capacity] = <<generation, a>>
=============================================================================
