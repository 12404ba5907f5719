-------------------------- MODULE RingBufferCalls ---------------------------
(***************************************************************************)
(* A caller of the ring buffer that writes at positions of its choice, and *)
(* what the buffer ought to hold: "last N samples retrieved from receiver  *)
(* or written to sender" (ring_buffer.hpp:17), silence where nothing was   *)
(* written.                                                                *)
(***************************************************************************)
EXTENDS RingBuffer

CONSTANTS
    MaxWrite,       \* the longest write, in samples
    MaxLag,         \* how far behind the tail a write may begin
    MaxGap,         \* how far beyond the tail a write may begin
    MaxPosition,    \* bound: the last position used
    Takes           \* values that tell a rewritten sample from the first one

ASSUME CallsAssumption ==
    MaxWrite \in Nat /\ MaxLag \in Nat /\ MaxGap \in Nat /\ MaxPosition \in Nat

VARIABLES
    ring,           \* the ring buffer
    written         \* what was last written at each position since the restart

vars == <<ring, written>>

Positions == 0..MaxPosition

\* A sample knows the position it was written for.
SampleAt(position, take) == <<position, take>>
Samples == {SampleAt(p, t) : p \in Positions, t \in Takes} \cup {Silence}

Init ==
    /\ ring = Restarted
    /\ written = [position \in Positions |-> Silence]

Restart ==
    /\ ring' = Restarted
    /\ written' = [position \in Positions |-> Silence]

\* After the first write, writes begin near the tail.
Near(ts) ==
    ~ring.first_write => ts >= ring.tail - MaxLag /\ ts <= ring.tail + MaxGap

\* Nothing is remembered of a write that the buffer drops.
Write(ts, n, take) ==
    /\ Near(ts)
    /\ ~WriteAborts(ring, ts, n)
    /\ LET samples == [k \in 1..n |-> SampleAt(ts + k - 1, take)]
       IN  /\ ring' = Written(ring, ts, samples)
           /\ written' = [position \in Positions |->
                  IF ~Dropped(ring, ts, n) /\ position \in ts..(ts + n - 1)
                  THEN samples[position - ts + 1]
                  ELSE written[position]]

Next ==
    \/ Restart
    \/ \E ts \in Positions, n \in 0..MaxWrite, take \in Takes :
            ts + n - 1 <= MaxPosition /\ Write(ts, n, take)

Spec == Init /\ [][Next]_vars

-----------------------------------------------------------------------------
TypeOK ==
    /\ ring \in Rings(Samples)
    /\ written \in [Positions -> Samples]

\* The buffer holds the last N samples, never less: the window has the size of the
\* buffer, and each of its positions is kept at its own offset and has the sample
\* last written there, across wrap-arounds, overlapping writes and restarts.
HoldsLastSamples ==
    ~ring.first_write =>
        /\ ring.tail = ring.head + BufSize
        /\ \A position \in Positions :
             position >= ring.head /\ position < ring.tail
                 => ring.data[Offset(ring, position)] = written[position]

\* The write that test_ring_buffer.cpp makes everywhere, near the tail and shorter
\* than the buffer, never trips the assertion of copy_to_buffer_.
WritesFit ==
    \A ts \in Positions, n \in 1..MaxWrite :
        Near(ts) => ~WriteAborts(ring, ts, n)

\* A read that touches or meets the window yields what was written there, and
\* silence on either side.
ReadsWhatWasWritten ==
    \A ts \in Positions, n \in 1..(BufSize - 1) :
        ts + n - 1 \in Positions /\ ~ReadOverruns(ring, ts, n)
            => LET got == ReadInto(ring, ts, n, [k \in 1..n |-> "untouched"])
               IN  \A k \in 1..n :
                     got[k] = IF ts + k - 1 < ring.head THEN Silence
                              ELSE written[ts + k - 1]

=============================================================================
