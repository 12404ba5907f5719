------------------------ MODULE RingBufferCallsProofs ------------------------
(***************************************************************************)
(* Proofs about the caller of the ring buffer: of a buffer of any size and *)
(* writes at any positions, what the window holds and what a read finds.   *)
(***************************************************************************)
EXTENDS RingBufferCalls, RingBufferProofs

\* Nothing but silence was written beyond the window, and nothing at all before
\* the first write.
SilentBeyond ==
    /\ ring.first_write => \A offset \in Offsets : ring.data[offset] = Silence
    /\ \A position \in Positions :
         ring.first_write \/ position >= ring.tail => written[position] = Silence

WindowInv == TypeOK /\ Whole(ring, Samples) /\ SilentBeyond

\* Writes that the buffer takes completely and without a gap.  A longer one
\* transfers nothing or its beginning only, and after a gap the window has what
\* was at the skipped offsets before.
ShortAndClose == MaxWrite < BufSize /\ MaxGap = 0

-----------------------------------------------------------------------------
(* Types.                                                                  *)

LEMMA ConstantsTyped ==
    /\ BufSize \in Nat /\ BufSize > 0 /\ MaxWrite \in Nat /\ MaxLag \in Nat
    /\ MaxGap \in Nat /\ MaxPosition \in Nat
  BY SizeIsPositive, CallsAssumption

\* What one write hands over.
LEMMA SamplesTyped ==
    ASSUME NEW ts \in Positions, NEW n \in Nat, ts + n - 1 <= MaxPosition, NEW take \in Takes
    PROVE  LET samples == [k \in 1..n |-> SampleAt(ts + k - 1, take)]
           IN  samples \in Seq(Samples) /\ Len(samples) = n
<1> DEFINE samples == [k \in 1..n |-> SampleAt(ts + k - 1, take)]
<1>1. ASSUME NEW k \in 1..n
      PROVE  SampleAt(ts + k - 1, take) \in Samples
  <2>1. ts + k - 1 \in Positions
    BY ConstantsTyped DEF Positions
  <2> QED
    BY <2>1 DEF Samples
<1>2. samples \in [1..n -> Samples]
  BY <1>1
<1> HIDE DEF samples
<1>3. samples \in Seq(Samples)
  BY <1>2
<1>4. Len(samples) = n
  BY <1>2, <1>3
<1> QED
  BY <1>3, <1>4 DEF samples

LEMMA InitWindow == Init => WindowInv
<1> SUFFICES ASSUME Init PROVE WindowInv
  OBVIOUS
<1>1. Silence \in Samples
  BY DEF Samples
<1>2. ring = Restarted /\ Whole(ring, Samples) /\ ring.first_write
  BY <1>1, RestartedIsWhole DEF Init
<1>3. written \in [Positions -> Samples] /\ \A p \in Positions : written[p] = Silence
  BY <1>1 DEF Init
<1>4. \A offset \in Offsets : ring.data[offset] = Silence
  BY <1>2 DEF Restarted
<1> QED
  BY <1>2, <1>3, <1>4 DEF WindowInv, TypeOK, SilentBeyond, Whole

LEMMA RestartWindow ==
    ASSUME Restart
    PROVE  WindowInv'
<1>1. Silence \in Samples
  BY DEF Samples
<1>2. ring' = Restarted /\ Whole(ring', Samples) /\ ring'.first_write
  BY <1>1, RestartedIsWhole DEF Restart
<1>3. written' \in [Positions -> Samples] /\ \A p \in Positions : written'[p] = Silence
  BY <1>1 DEF Restart
<1>4. \A offset \in Offsets : ring'.data[offset] = Silence
  BY <1>2 DEF Restarted
<1> QED
  BY <1>2, <1>3, <1>4 DEF WindowInv, TypeOK, SilentBeyond, Whole

\* A write that the buffer drops changes nothing.
LEMMA DroppedWrite ==
    ASSUME NEW ts, NEW n, NEW take, Write(ts, n, take), Dropped(ring, ts, n),
           WindowInv, [k \in 1..n |-> SampleAt(ts + k - 1, take)] \in Seq(Samples),
           Len([k \in 1..n |-> SampleAt(ts + k - 1, take)]) = n
    PROVE  ring' = ring /\ written' = written
<1> DEFINE samples == [k \in 1..n |-> SampleAt(ts + k - 1, take)]
<1>1. ring' = ring
  BY DEF Write, Written
<1>2. written' = [position \in Positions |-> written[position]]
  BY DEF Write
<1> QED
  BY <1>1, <1>2 DEF WindowInv, TypeOK

\* A write that the buffer takes.
LEMMA TakenWrite ==
    ASSUME NEW ts \in Positions, NEW n \in Nat, ts + n - 1 <= MaxPosition, NEW take \in Takes,
           Write(ts, n, take), ~Dropped(ring, ts, n), WindowInv
    PROVE  LET samples == [k \in 1..n |-> SampleAt(ts + k - 1, take)]
           IN  /\ ts \in Nat /\ n > 0
               /\ samples \in Seq(Samples) /\ Len(samples) = n
               /\ ring' = Written(ring, ts, samples)
               /\ Whole(ring', Samples) /\ ~ring'.first_write
               /\ ring'.tail = EndAfter(ring, ts, n) /\ ring'.head = ring'.tail - BufSize
               /\ ring'.head \in Nat /\ ring'.tail \in Nat
               /\ written' \in [Positions -> Samples]
               /\ \A position \in Positions :
                    written'[position] = IF position \in ts..(ts + n - 1)
                                         THEN SampleAt(position, take)
                                         ELSE written[position]
<1> DEFINE samples == [k \in 1..n |-> SampleAt(ts + k - 1, take)]
<1>1. samples \in Seq(Samples) /\ Len(samples) = n
  BY SamplesTyped
<1>2. ring' = Written(ring, ts, samples)
  BY DEF Write
<1>3. ts \in Nat /\ n > 0
  BY DEF Positions, Dropped
<1>4. Whole(ring, Samples)
  BY DEF WindowInv
<1>5. /\ Whole(ring', Samples) /\ ~ring'.first_write
      /\ ring'.tail = EndAfter(ring, ts, n)
  <2> HIDE DEF samples
  <2>1. ~Dropped(ring, ts, Len(samples))
    BY <1>1
  <2>2. /\ Whole(Written(ring, ts, samples), Samples)
        /\ ~Written(ring, ts, samples).first_write
        /\ Written(ring, ts, samples).tail = EndAfter(ring, ts, Len(samples))
    BY <1>1, <1>3, <1>4, <2>1, WriteEnds
  <2> QED
    BY <1>1, <1>2, <2>2
<1>6. ring'.head = ring'.tail - BufSize /\ ring'.head \in Nat /\ ring'.tail \in Nat
  <2>1. ring'.head \in Nat /\ ring'.tail \in Nat
    BY <1>5, RingFields DEF Whole
  <2>2. ring'.tail = ring'.head + BufSize
    BY <1>5 DEF Whole
  <2> QED
    BY <2>1, <2>2, ConstantsTyped
<1>7. written' = [position \in Positions |->
                    IF position \in ts..(ts + n - 1) THEN samples[position - ts + 1]
                    ELSE written[position]]
  BY DEF Write
<1>8. \A position \in ts..(ts + n - 1) : samples[position - ts + 1] = SampleAt(position, take)
  <2> TAKE position \in ts..(ts + n - 1)
  <2>1. position - ts + 1 \in 1..n /\ ts + (position - ts + 1) - 1 = position
    BY <1>3
  <2> QED
    BY <2>1
<1> HIDE DEF samples
<1>9. \A position \in Positions :
        written'[position] = IF position \in ts..(ts + n - 1) THEN SampleAt(position, take)
                             ELSE written[position]
  BY <1>7, <1>8
<1>10. written' \in [Positions -> Samples]
  <2>1. \A position \in Positions : SampleAt(position, take) \in Samples
    BY DEF Samples
  <2>2. \A position \in Positions : written[position] \in Samples
    BY DEF WindowInv, TypeOK
  <2>3. written' = [position \in Positions |-> written'[position]]
    BY <1>7
  <2> QED
    BY <1>9, <2>1, <2>2, <2>3
<1> QED
  BY <1>1, <1>2, <1>3, <1>5, <1>6, <1>9, <1>10 DEF samples

LEMMA WriteWindow ==
    ASSUME NEW ts \in Positions, NEW n \in 0..MaxWrite, ts + n - 1 <= MaxPosition,
           NEW take \in Takes, Write(ts, n, take), WindowInv
    PROVE  WindowInv'
<1>1. n \in Nat
  OBVIOUS
<1>2. CASE Dropped(ring, ts, n)
  <2>1. ring' = ring /\ written' = written
    BY <1>1, <1>2, DroppedWrite, SamplesTyped
  <2> QED
    BY <2>1 DEF WindowInv, TypeOK, SilentBeyond
<1>3. CASE ~Dropped(ring, ts, n)
  <2>1. /\ ts \in Nat /\ n > 0 /\ Whole(ring', Samples) /\ ~ring'.first_write
        /\ ring'.tail = EndAfter(ring, ts, n) /\ written' \in [Positions -> Samples]
        /\ \A position \in Positions :
             written'[position] = IF position \in ts..(ts + n - 1)
                                  THEN SampleAt(position, take)
                                  ELSE written[position]
    BY <1>1, <1>3, TakenWrite
  <2>2. ASSUME NEW position \in Positions, position >= ring'.tail
        PROVE  written'[position] = Silence
    <3>1. position \in Int /\ ring.tail \in Nat
      BY RingFields DEF Positions, WindowInv, Whole
    <3>2. position >= ts + n /\ (ring.first_write \/ position >= ring.tail)
      BY <1>1, <2>1, <2>2, <3>1 DEF EndAfter, Larger
    <3>3. position \notin ts..(ts + n - 1)
      BY <1>1, <2>1, <3>1, <3>2
    <3>4. written[position] = Silence
      BY <3>2 DEF WindowInv, SilentBeyond
    <3> QED
      BY <2>1, <3>3, <3>4
  <2> QED
    BY <2>1, <2>2 DEF WindowInv, TypeOK, SilentBeyond, Whole
<1> QED
  BY <1>2, <1>3

LEMMA NextWindow == WindowInv /\ [Next]_vars => WindowInv'
<1> SUFFICES ASSUME WindowInv, [Next]_vars PROVE WindowInv'
  OBVIOUS
<1>1. CASE Restart
  BY <1>1, RestartWindow
<1>2. ASSUME NEW ts \in Positions, NEW n \in 0..MaxWrite, NEW take \in Takes,
             ts + n - 1 <= MaxPosition, Write(ts, n, take)
      PROVE  WindowInv'
  BY <1>2, WriteWindow
<1>3. CASE UNCHANGED vars
  BY <1>3 DEF vars, WindowInv, TypeOK, SilentBeyond
<1> QED
  BY <1>1, <1>2, <1>3 DEF Next

\* In every state the ring and the record of what was written have their types.
THEOREM CallsTyped == Spec => []TypeOK
<1>1. WindowInv => TypeOK
  BY DEF WindowInv
<1> QED
  BY <1>1, InitWindow, NextWindow, PTL DEF Spec

LEMMA AlwaysWindow == Spec => []WindowInv
  BY InitWindow, NextWindow, PTL DEF Spec

-----------------------------------------------------------------------------
(* What the window holds.                                                  *)

LEMMA WriteHolds ==
    ASSUME ShortAndClose, NEW ts \in Positions, NEW n \in 0..MaxWrite,
           ts + n - 1 <= MaxPosition, NEW take \in Takes, Write(ts, n, take),
           WindowInv, HoldsLastSamples
    PROVE  HoldsLastSamples'
<1>1. n \in Nat /\ n < BufSize
  BY ConstantsTyped DEF ShortAndClose
<1>2. CASE Dropped(ring, ts, n)
  <2>1. ring' = ring /\ written' = written
    BY <1>1, <1>2, DroppedWrite, SamplesTyped
  <2> QED
    BY <2>1 DEF HoldsLastSamples
<1>3. CASE ~Dropped(ring, ts, n)
  <2> DEFINE samples == [k \in 1..n |-> SampleAt(ts + k - 1, take)]
  <2>1. /\ ts \in Nat /\ n > 0 /\ samples \in Seq(Samples) /\ Len(samples) = n
        /\ ring' = Written(ring, ts, samples) /\ Whole(ring', Samples) /\ ~ring'.first_write
        /\ ring'.head \in Nat /\ ring'.tail \in Nat
        /\ \A position \in Positions :
             written'[position] = IF position \in ts..(ts + n - 1)
                                  THEN SampleAt(position, take)
                                  ELSE written[position]
    BY <1>1, <1>3, TakenWrite
  <2>2. Whole(ring, Samples) /\ ~WriteAborts(ring, ts, n)
    BY DEF WindowInv, Write
  <2>3. ts <= ring.tail \/ ring.first_write
    <3>1. ring.tail \in Nat /\ ring.first_write \in BOOLEAN
      BY <2>2, RingFields DEF Whole
    <3>2. Near(ts)
      BY DEF Write
    <3> QED
      BY <2>1, <3>1, <3>2 DEF Near, ShortAndClose
  <2>4. \A k \in 1..n : samples[k] = SampleAt(ts + k - 1, take)
    OBVIOUS
  <2> HIDE DEF samples
  <2>5. ASSUME NEW position \in Positions, position >= ring'.head, position < ring'.tail
        PROVE  ring'.data[Offset(ring', position)] = written'[position]
    <3>1. position \in Int
      BY DEF Positions
    <3>2. CASE position \in ts..(ts + n - 1)
      <4>1. ring'.data[Offset(ring', position)] = samples[position - ts + 1]
        <5>1. /\ Whole(ring, Samples) /\ ts \in Nat /\ samples \in Seq(Samples)
              /\ Len(samples) < BufSize /\ ~Dropped(ring, ts, Len(samples))
              /\ ~WriteAborts(ring, ts, Len(samples))
          BY <1>1, <1>3, <2>1, <2>2
        <5>2. LET after == Written(ring, ts, samples)
              IN  after.data[Offset(after, position)] = samples[position - ts + 1]
          <6>1. position \in ts..(ts + Len(samples) - 1)
            BY <2>1, <3>2
          <6> QED
            BY <5>1, <6>1, SampleLands
        <5> QED
          BY <2>1, <5>2
      <4>2. position - ts + 1 \in 1..n /\ ts + (position - ts + 1) - 1 = position
        BY <1>1, <2>1, <3>2
      <4> QED
        BY <2>1, <2>4, <3>2, <4>1, <4>2
    <3>3. CASE position \notin ts..(ts + n - 1)
      <4>1. IF ring.first_write
            THEN \E offset \in Offsets : ring'.data[Offset(ring', position)] = ring.data[offset]
            ELSE /\ position >= ring.head /\ position < ring.tail
                 /\ ring'.data[Offset(ring', position)] = ring.data[Offset(ring, position)]
        BY <1>1, <1>3, <2>1, <2>2, <2>3, <2>5, <3>1, <3>3, WriteKeeps
      <4>2. written'[position] = written[position]
        BY <2>1, <3>3
      <4>3. CASE ring.first_write
        <5>1. written[position] = Silence /\ \A offset \in Offsets : ring.data[offset] = Silence
          BY <4>3 DEF WindowInv, SilentBeyond
        <5> QED
          BY <4>1, <4>2, <4>3, <5>1
      <4>4. CASE ~ring.first_write
        BY <4>1, <4>2, <4>4 DEF HoldsLastSamples
      <4> QED
        BY <4>3, <4>4
    <3> QED
      BY <3>2, <3>3
  <2> QED
    BY <2>1, <2>5 DEF HoldsLastSamples, Whole
<1> QED
  BY <1>2, <1>3

\* The buffer holds the last N samples: whatever is written next to what was there,
\* in whatever order, each position of the window has the sample written last.
THEOREM BufferHoldsLastSamples ==
    ASSUME ShortAndClose
    PROVE  Spec => []HoldsLastSamples
<1>1. Init => HoldsLastSamples
  BY DEF Init, HoldsLastSamples, Restarted
<1>2. WindowInv /\ HoldsLastSamples /\ [Next]_vars => HoldsLastSamples'
  <2> SUFFICES ASSUME WindowInv, HoldsLastSamples, [Next]_vars PROVE HoldsLastSamples'
    OBVIOUS
  <2>1. CASE Restart
    BY <2>1 DEF Restart, HoldsLastSamples, Restarted
  <2>2. ASSUME NEW ts \in Positions, NEW n \in 0..MaxWrite, NEW take \in Takes,
               ts + n - 1 <= MaxPosition, Write(ts, n, take)
        PROVE  HoldsLastSamples'
    BY <2>2, WriteHolds
  <2>3. CASE UNCHANGED vars
    BY <2>3 DEF vars, HoldsLastSamples
  <2> QED
    BY <2>1, <2>2, <2>3 DEF Next
<1> QED
  BY <1>1, <1>2, AlwaysWindow, PTL DEF Spec

\* A write that begins no further behind the tail than the buffer is long, and is
\* no longer than it, never begins before the window that it makes.
THEOREM CallsFit ==
    ASSUME MaxWrite <= BufSize, MaxLag <= BufSize
    PROVE  Spec => []WritesFit
<1>1. ASSUME WindowInv, NEW ts \in Positions, NEW n \in 1..MaxWrite, Near(ts)
      PROVE  ~WriteAborts(ring, ts, n)
  <2>1. ts \in Nat /\ n \in Nat /\ n <= BufSize /\ Whole(ring, Samples)
    BY <1>1, ConstantsTyped DEF Positions, WindowInv
  <2>2. ring.tail \in Nat
    BY <2>1, RingFields DEF Whole
  <2>3. ~ring.first_write => ts >= ring.tail - BufSize
    BY <1>1, <2>1, <2>2, ConstantsTyped DEF Near
  <2> QED
    BY <2>1, <2>3, WriteFits
<1>2. WindowInv => WritesFit
  BY <1>1 DEF WritesFit
<1> QED
  BY <1>2, AlwaysWindow, PTL

\* A read that does not overrun the caller's buffer gives what was written at each
\* position of the window, and silence on either side.
THEOREM ReadsAreFaithful ==
    ASSUME ShortAndClose
    PROVE  Spec => []ReadsWhatWasWritten
<1>1. ASSUME WindowInv, HoldsLastSamples, NEW ts \in Positions, NEW n \in 1..(BufSize - 1),
             ts + n - 1 \in Positions, ~ReadOverruns(ring, ts, n), NEW k \in 1..n
      PROVE  ReadInto(ring, ts, n, [j \in 1..n |-> "untouched"])[k] =
               IF ts + k - 1 < ring.head THEN Silence ELSE written[ts + k - 1]
  <2> DEFINE position == ts + k - 1
             got == ReadInto(ring, ts, n, [j \in 1..n |-> "untouched"])[k]
  <2>1. ts \in Nat /\ n \in Nat /\ n < BufSize /\ Whole(ring, Samples)
    BY <1>1, ConstantsTyped DEF Positions, WindowInv
  <2>2. got = IF ring.first_write \/ position < ring.head \/ position >= ring.tail
              THEN Silence ELSE ring.data[Offset(ring, position)]
    BY <1>1, <2>1, ReadFinds
  <2>3. position \in Positions
    BY <1>1, <2>1, ConstantsTyped DEF Positions
  <2>4. ring.head \in Nat /\ ring.tail \in Nat /\ position \in Int
    BY <2>1, RingFields DEF Whole
  <2> HIDE DEF got, position
  <2>5. CASE ring.first_write \/ position >= ring.tail
    <3>1. written[position] = Silence
      BY <1>1, <2>3, <2>5 DEF WindowInv, SilentBeyond
    <3> QED
      BY <2>2, <2>5, <3>1 DEF got, position
  <2>6. CASE position < ring.head
    BY <2>2, <2>6 DEF got, position
  <2>7. CASE ~ring.first_write /\ ~(position >= ring.tail) /\ ~(position < ring.head)
    <3>1. ring.data[Offset(ring, position)] = written[position]
      BY <1>1, <2>3, <2>4, <2>7 DEF HoldsLastSamples
    <3> QED
      BY <2>2, <2>7, <3>1 DEF got, position
  <2> QED
    BY <2>5, <2>6, <2>7
<1>2. WindowInv /\ HoldsLastSamples => ReadsWhatWasWritten
  BY <1>1 DEF ReadsWhatWasWritten
<1>3. Spec => []HoldsLastSamples
  BY BufferHoldsLastSamples
<1> QED
  BY <1>2, <1>3, AlwaysWindow, PTL

=============================================================================
