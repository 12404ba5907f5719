-------------------------- MODULE ReceiverIOProofs ---------------------------
(***************************************************************************)
(* Proofs about the I/O of a receiver: with a ring buffer of any size and  *)
(* requests that stay close to the HAL's clock, every request is served    *)
(* with the stream's samples at its positions, and apps that ask for the   *)
(* same positions hear the same, whether the network fails or not.         *)
(***************************************************************************)
EXTENDS ReceiverIO, RingBufferProofs, SequenceTheorems

\* What the requests are like: none is as long as the ring buffer, and from the
\* begin of one to the end of the next it is never more than the ring buffer.
CloseRequests == MaxRead < BufSize /\ MaxLag + MaxAdvance + MaxRead <= BufSize

\* The window ends where the requests do.
WindowKeepsPace == clock - MaxLag < ring.tail /\ ring.tail <= clock + MaxRead

\* What is in the window is the stream.
WindowIsStream ==
    /\ ring.tail = origin.ts + fetched - origin.id + 1 /\ origin.ts <= ring.tail
    /\ \A position \in Nat :
         position >= ring.head /\ position < ring.tail
            => ring.data[Offset(ring, position)] = Expected(position)

\* What the last request was answered with is in the window, and will be when the
\* next request has been served.
AnswerInWindow ==
    \A k \in 1..Len(answer.samples) :
        /\ answer.ts >= clock - MaxLag
        /\ answer.ts + k - 1 >= ring.head /\ answer.ts + k - 1 < ring.tail
        /\ answer.samples[k] = ring.data[Offset(ring, answer.ts + k - 1)]

ReceiverInv ==
    /\ running \in BOOLEAN
    /\ Whole(ring, Samples)
    /\ io_buf \in Seq(Samples)
    /\ fetched \in Nat
    /\ failed \in BOOLEAN
    /\ clock \in 0..MaxClock
    /\ origin \in [ts : Nat, id : Ids]
    /\ answer.served = TRUE /\ answer.ts \in Positions /\ Len(answer.samples) \in Nat
    /\ ring.first_write => \A offset \in Offsets : ring.data[offset] = Silence
    /\ ~ring.first_write =>
         WindowKeepsPace /\ (~failed => WindowIsStream) /\ AnswerInWindow

-----------------------------------------------------------------------------
(* Types.                                                                  *)

LEMMA ConstantsTyped ==
    /\ BufSize \in Nat /\ BufSize > 0 /\ MaxRead \in Nat /\ MaxRead > 0 /\ MaxLag \in Nat
    /\ MaxAdvance \in Nat /\ MaxClock \in Nat /\ MaxFetched \in Nat
  BY SizeIsPositive, ReceiverAssumption

LEMMA SilenceTyped == Silence \in Samples /\ Silence.id = 0
  BY ReceiverAssumption, ConstantsTyped DEF Samples, Ids

LEMMA SampleTyped ==
    ASSUME NEW id \in Ids \ {0}, NEW gain \in 0..2
    PROVE  Sample(id, gain) \in Samples /\ Sample(id, gain) # Silence
<1>1. Sample(id, gain) \in Samples /\ Sample(id, gain).id = id
  BY DEF Sample, Samples
<1> QED
  BY <1>1, SilenceTyped

LEMMA AmplifiedTyped ==
    ASSUME NEW sample \in Samples
    PROVE  Amplified(sample) \in Samples
<1>1. sample.gain \in 0..2 /\ sample.id \in Ids
  BY DEF Samples
<1>2. Smaller(sample.gain + 1, 2) \in 0..2
  BY <1>1 DEF Smaller
<1>3. [sample EXCEPT !.gain = Smaller(@ + 1, 2)] \in Samples
  BY <1>2 DEF Samples
<1> QED
  BY <1>3 DEF Amplified

LEMMA SampleIsAmplified ==
    ASSUME NEW id \in Ids \ {0}
    PROVE  Amplified(Sample(id, 0)) = Sample(id, 1)
<1>1. Sample(id, 0) # Silence
  BY SampleTyped
<1>2. [Sample(id, 0) EXCEPT !.gain = Smaller(@ + 1, 2)] = Sample(id, 1)
  BY DEF Sample, Smaller
<1> QED
  BY <1>1, <1>2 DEF Amplified

\* A sequence given element by element.
LEMMA Listed ==
    ASSUME NEW S, NEW n \in Nat, NEW f, f = [k \in 1..n |-> f[k]], \A k \in 1..n : f[k] \in S
    PROVE  f \in Seq(S) /\ Len(f) = n
<1>1. f \in [1..n -> S]
  OBVIOUS
<1>2. f \in Seq(S)
  BY <1>1
<1> QED
  BY <1>1, <1>2

\* io_buf_ after a request that appended the samples in front of it.
LEMMA BufferRefilled ==
    ASSUME NEW front \in Seq(Samples), NEW n \in Nat, NEW buf \in Seq(Samples)
    PROVE  front \o SubSeq(buf, n + 1, Len(buf)) \in Seq(Samples)
<1>1. \A k \in (n + 1)..Len(buf) : buf[k] \in Samples
  OBVIOUS
<1>2. SubSeq(buf, n + 1, Len(buf)) \in Seq(Samples)
  BY <1>1, SubSeqProperties
<1> QED
  BY <1>2, ConcatProperties

-----------------------------------------------------------------------------
(* One request.                                                            *)

\* What Serve works with.
FetchCount(ts, n) == IF ring.first_write THEN n ELSE NeedWrite(ring, ts + n)
AppendAt(ts) == IF ring.first_write THEN ts ELSE ring.tail
Appended(ts, n, ok) ==
    [k \in 1..FetchCount(ts, n) |-> Amplified(NetRead(FetchCount(ts, n), ok)[k])]
RingAfter(ts, n, ok) == Written(ring, AppendAt(ts), Appended(ts, n, ok))
Answered(ts, n, ok) ==
    ReadInto(RingAfter(ts, n, ok), ts, n, [k \in 1..n |-> Untouched])

LEMMA RequestSteps ==
    ASSUME NEW ts, NEW n, NEW ok, Serve(ts, n, ok)
    PROVE  /\ ring' = RingAfter(ts, n, ok)
           /\ io_buf' = Appended(ts, n, ok) \o SubSeq(io_buf, FetchCount(ts, n) + 1,
                                                      Len(io_buf))
           /\ fetched' = fetched + (IF ok THEN FetchCount(ts, n) ELSE 0)
           /\ origin' = IF ring.first_write /\ ~RingAfter(ts, n, ok).first_write
                        THEN [ts |-> ts, id |-> fetched + 1] ELSE origin
  BY DEF Serve, RingAfter, FetchCount, AppendAt, Appended

LEMMA RequestFails ==
    ASSUME NEW ts, NEW n, NEW ok \in BOOLEAN, Serve(ts, n, ok)
    PROVE  failed' \in BOOLEAN /\ (~failed' => ~failed /\ ok)
  BY DEF Serve

LEMMA RequestAnswered ==
    ASSUME NEW ts, NEW n, NEW ok, Serve(ts, n, ok),
           ~WriteAborts(ring, AppendAt(ts), FetchCount(ts, n)),
           ~ReadOverruns(RingAfter(ts, n, ok), ts, n)
    PROVE  answer' = [ts |-> ts, samples |-> Answered(ts, n, ok), served |-> TRUE]
  BY DEF Serve, RingAfter, FetchCount, AppendAt, Appended, Answered

\* A request at the clock's new position now.
Timely(now, ts, n) ==
    /\ now \in 0..MaxClock /\ ts \in Nat /\ n \in 1..MaxRead
    /\ clock <= now /\ now <= clock + MaxAdvance
    /\ now - MaxLag <= ts /\ ts <= now

\* What is fetched for it fits in the ring buffer, and closes the gap between the
\* window and the end of the request.
LEMMA FetchFits ==
    ASSUME CloseRequests, ReceiverInv, NEW now, NEW ts, NEW n, Timely(now, ts, n)
    PROVE  /\ FetchCount(ts, n) \in Nat /\ FetchCount(ts, n) < BufSize
           /\ AppendAt(ts) \in Nat
           /\ ring.first_write => FetchCount(ts, n) = n /\ AppendAt(ts) = ts
           /\ ~ring.first_write =>
                /\ AppendAt(ts) = ring.tail
                /\ ring.tail + FetchCount(ts, n) = Larger(ring.tail, ts + n)
           /\ ~WriteAborts(ring, AppendAt(ts), FetchCount(ts, n))
<1> DEFINE count == FetchCount(ts, n)
           at == AppendAt(ts)
<1>1. /\ Whole(ring, Samples) /\ ring.tail \in Nat /\ ring.first_write \in BOOLEAN
      /\ clock \in Nat
  BY ConstantsTyped, RingFields DEF ReceiverInv, Whole
<1>2. /\ now \in Nat /\ ts \in Nat /\ n \in Nat /\ n > 0 /\ n <= MaxRead
      /\ now <= clock + MaxAdvance /\ ts <= now
  BY ConstantsTyped DEF Timely
<1>3. MaxRead < BufSize /\ MaxLag + MaxAdvance + MaxRead <= BufSize
  BY DEF CloseRequests
<1>4. CASE ring.first_write
  <2>1. count = n /\ at = ts /\ count < BufSize
    BY <1>2, <1>3, <1>4, ConstantsTyped DEF FetchCount, AppendAt
  <2> HIDE DEF count, at
  <2>2. ~WriteAborts(ring, at, count)
    BY <1>1, <1>2, <1>4, <2>1, ConstantsTyped, WriteFits
  <2> QED
    BY <1>2, <1>4, <2>1, <2>2 DEF count, at
<1>5. CASE ~ring.first_write
  <2>1. at = ring.tail /\ count = NeedWrite(ring, ts + n)
    BY <1>5 DEF FetchCount, AppendAt
  <2>2. clock - MaxLag < ring.tail
    BY <1>5 DEF ReceiverInv, WindowKeepsPace
  <2>3. ts + n - ring.tail < BufSize
    BY <1>1, <1>2, <1>3, <2>2, ConstantsTyped
  <2>4. count = IF ts + n < ring.tail THEN 0 ELSE ts + n - ring.tail
    BY <1>1, <1>2, <1>5, <2>1, <2>3, ConstantsTyped DEF NeedWrite, Smaller
  <2> HIDE DEF count, at
  <2>5. /\ count \in Nat /\ count < BufSize
        /\ ring.tail + count = Larger(ring.tail, ts + n)
    BY <1>1, <1>2, <2>3, <2>4, ConstantsTyped DEF Larger
  <2>6. ~WriteAborts(ring, at, count)
    BY <1>1, <2>1, <2>5, ConstantsTyped, WriteFits
  <2> QED
    BY <1>1, <1>5, <2>1, <2>5, <2>6 DEF count, at
<1> QED
  BY <1>1, <1>4, <1>5

\* The samples that are appended: those of the network that come next, amplified
\* once, when it delivers.
LEMMA AppendedTyped ==
    ASSUME CloseRequests, ReceiverInv, NEW now, NEW ts, NEW n, Timely(now, ts, n),
           NEW ok \in BOOLEAN, fetched + BufSize <= MaxFetched
    PROVE  /\ Appended(ts, n, ok) \in Seq(Samples)
           /\ Len(Appended(ts, n, ok)) = FetchCount(ts, n)
           /\ ok => \A k \in 1..FetchCount(ts, n) :
                      Appended(ts, n, ok)[k] = Sample(fetched + k, 1)
<1> DEFINE count == FetchCount(ts, n)
           net == NetRead(count, ok)
           out == Appended(ts, n, ok)
<1>1. count \in Nat /\ count < BufSize /\ fetched \in Nat /\ io_buf \in Seq(Samples)
  BY FetchFits DEF ReceiverInv
<1>2. out = [k \in 1..count |-> Amplified(net[k])]
  BY DEF Appended
<1> HIDE DEF count, out
<1>3. ASSUME NEW k \in 1..count
      PROVE  fetched + k \in Ids \ {0}
  BY <1>1, ConstantsTyped DEF Ids
<1>4. ASSUME NEW k \in 1..count
      PROVE  /\ net[k] \in Samples
             /\ ok => net[k] = Sample(fetched + k, 0)
  <2>1. net[k] = IF ok THEN Sample(fetched + k, 0)
                 ELSE IF k <= Len(io_buf) THEN io_buf[k] ELSE Silence
    BY DEF NetRead
  <2>2. Sample(fetched + k, 0) \in Samples
    BY <1>3, SampleTyped
  <2>3. k <= Len(io_buf) => io_buf[k] \in Samples
    BY <1>1
  <2> QED
    BY <2>1, <2>2, <2>3, SilenceTyped
<1> HIDE DEF net
<1>5. \A k \in 1..count : out[k] \in Samples
  BY <1>2, <1>4, AmplifiedTyped
<1>6. out \in Seq(Samples) /\ Len(out) = count
  <2>1. out = [k \in 1..count |-> out[k]]
    BY <1>2
  <2> QED
    BY <1>1, <1>5, <2>1, Listed
<1>7. ok => \A k \in 1..count : out[k] = Sample(fetched + k, 1)
  BY <1>2, <1>3, <1>4, SampleIsAmplified
<1> QED
  BY <1>6, <1>7 DEF count, out

\* The window after a request: the request is inside it, what was in it and still is
\* has not changed, and what is new is what was appended.
LEMMA WindowAfter ==
    ASSUME CloseRequests, ReceiverInv, NEW now, NEW ts, NEW n, Timely(now, ts, n),
           NEW ok \in BOOLEAN, fetched + BufSize <= MaxFetched,
           ring.first_write => ~Dropped(ring, ts, n)
    PROVE  LET after == RingAfter(ts, n, ok)
               at == AppendAt(ts)
           IN  /\ Whole(after, Samples) /\ ~after.first_write
               /\ after.tail = at + FetchCount(ts, n) /\ after.tail >= ts + n
               /\ now - MaxLag < after.tail /\ after.tail <= now + MaxRead
               /\ after.head <= now - MaxLag
               /\ ~ring.first_write => after.head <= clock - MaxLag
               /\ \A position \in Nat :
                    position >= after.head /\ position < after.tail =>
                      IF position >= at
                      THEN after.data[Offset(after, position)]
                             = Appended(ts, n, ok)[position - at + 1]
                      ELSE IF ring.first_write
                           THEN after.data[Offset(after, position)] = Silence
                           ELSE /\ position >= ring.head /\ position < ring.tail
                                /\ after.data[Offset(after, position)]
                                     = ring.data[Offset(ring, position)]
<1> DEFINE count == FetchCount(ts, n)
           at == AppendAt(ts)
           out == Appended(ts, n, ok)
           after == RingAfter(ts, n, ok)
<1>1. /\ count \in Nat /\ count < BufSize /\ at \in Nat
      /\ ring.first_write => count = n /\ at = ts
      /\ ~ring.first_write => at = ring.tail /\ ring.tail + count = Larger(ring.tail, ts + n)
      /\ ~WriteAborts(ring, at, count)
  BY FetchFits
<1>2. out \in Seq(Samples) /\ Len(out) = count
  BY AppendedTyped
<1>3. /\ Whole(ring, Samples) /\ ring.tail \in Nat /\ ring.head \in Nat
      /\ ring.first_write \in BOOLEAN /\ clock \in Nat
      /\ ~ring.first_write => ring.tail = ring.head + BufSize
  BY ConstantsTyped, RingFields DEF ReceiverInv, Whole
<1>4. /\ now \in Nat /\ ts \in Nat /\ n \in Nat /\ n > 0 /\ n <= MaxRead
      /\ clock <= now /\ now <= clock + MaxAdvance /\ now - MaxLag <= ts /\ ts <= now
      /\ MaxRead < BufSize /\ MaxLag + MaxAdvance + MaxRead <= BufSize
  BY ConstantsTyped DEF Timely, CloseRequests
<1>5. ~ring.first_write => clock - MaxLag < ring.tail /\ ring.tail <= clock + MaxRead
  BY DEF ReceiverInv, WindowKeepsPace
<1>6. after = Written(ring, at, out)
  BY DEF RingAfter
<1> HIDE DEF count, at, out, after
<1>7. CASE Dropped(ring, at, count)
  <2>1. after = ring /\ count = 0 /\ ~ring.first_write
    BY <1>1, <1>2, <1>6, <1>7 DEF Written, Dropped
  <2>2. after.tail = at + count /\ after.tail >= ts + n
    BY <1>1, <1>3, <1>4, <2>1 DEF Larger
  <2>3. after.head <= clock - MaxLag /\ after.head <= now - MaxLag
    BY <1>3, <1>4, <1>5, <2>1, ConstantsTyped
  <2>4. now - MaxLag < after.tail /\ after.tail <= now + MaxRead
    BY <1>3, <1>4, <1>5, <2>1, <2>2, ConstantsTyped
  <2>5. \A position \in Nat : position < after.tail => ~(position >= at)
    BY <1>1, <2>1
  <2> QED
    BY <1>3, <2>1, <2>2, <2>3, <2>4, <2>5 DEF count, at, out, after
<1>8. CASE ~Dropped(ring, at, count)
  <2>1. /\ ~Dropped(ring, at, Len(out)) /\ ~WriteAborts(ring, at, Len(out))
        /\ Len(out) < BufSize
    BY <1>1, <1>2, <1>8
  <2>2. Whole(after, Samples) /\ ~after.first_write /\ after.tail = EndAfter(ring, at, count)
    <3>1. /\ Whole(Written(ring, at, out), Samples) /\ ~Written(ring, at, out).first_write
          /\ Written(ring, at, out).tail = EndAfter(ring, at, Len(out))
      <4>1. at \in Nat /\ out \in Seq(Samples) /\ Whole(ring, Samples)
        BY <1>1, <1>2, <1>3
      <4> QED
        BY <2>1, <4>1, WriteEnds
    <3> QED
      BY <1>2, <1>6, <3>1
  <2>3. after.head \in Nat /\ after.tail \in Nat /\ after.tail = after.head + BufSize
    BY <2>2, RingFields DEF Whole
  <2>4. after.tail = at + count /\ after.tail >= ts + n
    BY <1>1, <1>3, <1>4, <2>2 DEF EndAfter, Larger
  <2>5. now - MaxLag < after.tail /\ after.tail <= now + MaxRead
    <3>1. CASE ring.first_write
      BY <1>1, <1>4, <2>4, <3>1, ConstantsTyped
    <3>2. CASE ~ring.first_write
      <4>1. after.tail = Larger(ring.tail, ts + n)
        BY <1>1, <2>4, <3>2
      <4> QED
        BY <1>3, <1>4, <1>5, <2>4, <3>2, <4>1, ConstantsTyped DEF Larger
    <3> QED
      BY <3>1, <3>2
  <2>6. after.head <= now - MaxLag
    BY <1>4, <2>3, <2>4, <2>5, ConstantsTyped
  <2>7. ~ring.first_write => after.head <= clock - MaxLag
    BY <1>3, <1>4, <2>3, <2>5, ConstantsTyped
  <2>8. ASSUME NEW position \in Nat, position >= after.head, position < after.tail
        PROVE  IF position >= at
               THEN after.data[Offset(after, position)] = out[position - at + 1]
               ELSE IF ring.first_write
                    THEN after.data[Offset(after, position)] = Silence
                    ELSE /\ position >= ring.head /\ position < ring.tail
                         /\ after.data[Offset(after, position)]
                              = ring.data[Offset(ring, position)]
    <3>1. CASE position >= at
      <4>1. position \in at..(at + Len(out) - 1)
        BY <1>1, <1>2, <2>4, <2>8, <3>1
      <4>2. after.data[Offset(after, position)] = out[position - at + 1]
        <5>1. Whole(ring, Samples) /\ at \in Nat /\ out \in Seq(Samples)
          BY <1>1, <1>2, <1>3
        <5>2. LET ring1 == Written(ring, at, out)
              IN  ring1.data[Offset(ring1, position)] = out[position - at + 1]
          BY <2>1, <4>1, <5>1, SampleLands
        <5> QED
          BY <1>6, <5>2
      <4> QED
        BY <3>1, <4>2
    <3>2. CASE ~(position >= at)
      <4>1. position \notin at..(at + Len(out) - 1) /\ position \in Int
        BY <1>1, <3>2
      <4>2. at <= ring.tail \/ ring.first_write
        BY <1>1, <1>3
      <4>3. IF ring.first_write
            THEN \E offset \in Offsets : after.data[Offset(after, position)] = ring.data[offset]
            ELSE /\ position >= ring.head /\ position < ring.tail
                 /\ after.data[Offset(after, position)] = ring.data[Offset(ring, position)]
        <5>1. \A p \in Int :
                /\ p >= after.head /\ p < after.tail
                /\ p \notin at..(at + Len(out) - 1)
                => IF ring.first_write
                   THEN \E offset \in Offsets :
                          after.data[Offset(after, p)] = ring.data[offset]
                   ELSE /\ p >= ring.head /\ p < ring.tail
                        /\ after.data[Offset(after, p)] = ring.data[Offset(ring, p)]
          BY <1>1, <1>2, <1>3, <1>6, <2>1, <4>2, WriteKeeps
        <5> QED
          BY <2>8, <4>1, <5>1
      <4>4. ring.first_write => \A offset \in Offsets : ring.data[offset] = Silence
        BY DEF ReceiverInv
      <4> QED
        BY <3>2, <4>3, <4>4
    <3> QED
      BY <3>1, <3>2
  <2> QED
    BY <2>2, <2>4, <2>5, <2>6, <2>7, <2>8 DEF count, at, out, after
<1> QED
  BY <1>7, <1>8

\* The whole answer is read inside the window.
LEMMA AnswerRead ==
    ASSUME CloseRequests, ReceiverInv, NEW now, NEW ts, NEW n, Timely(now, ts, n),
           NEW ok \in BOOLEAN, fetched + BufSize <= MaxFetched,
           ring.first_write => ~Dropped(ring, ts, n)
    PROVE  LET after == RingAfter(ts, n, ok)
           IN  /\ ~ReadOverruns(after, ts, n)
               /\ Len(Answered(ts, n, ok)) = n
               /\ \A k \in 1..n :
                    /\ ts + k - 1 >= after.head /\ ts + k - 1 < after.tail
                    /\ Answered(ts, n, ok)[k] = after.data[Offset(after, ts + k - 1)]
<1> DEFINE after == RingAfter(ts, n, ok)
<1>1. /\ Whole(after, Samples) /\ ~after.first_write
      /\ after.tail >= ts + n /\ after.head <= now - MaxLag
  BY WindowAfter
<1>2. /\ now \in Nat /\ ts \in Nat /\ n \in Nat /\ n > 0 /\ n < BufSize /\ now - MaxLag <= ts
  BY ConstantsTyped DEF Timely, CloseRequests
<1>3. Answered(ts, n, ok) = ReadInto(after, ts, n, [k \in 1..n |-> Untouched])
  BY DEF Answered
<1> HIDE DEF after
<1>4. after.head \in Nat /\ after.tail \in Nat
  BY <1>1, RingFields DEF Whole
<1>5. after.head <= ts
  BY <1>1, <1>2, <1>4, ConstantsTyped
<1>6. ~ReadOverruns(after, ts, n)
  <2>1. To(after, ts, n) = ts + n /\ From(after, ts) = ts
    BY <1>1, <1>2, <1>4, <1>5 DEF To, From, Smaller, Larger
  <2> QED
    BY <1>2, <2>1 DEF ReadOverruns
<1>7. \A k \in 1..n :
        ReadInto(after, ts, n, [j \in 1..n |-> Untouched])[k] =
          IF \/ after.first_write \/ ts + k - 1 < after.head \/ ts + k - 1 >= after.tail
          THEN Silence ELSE after.data[Offset(after, ts + k - 1)]
  BY <1>1, <1>2, <1>6, ReadFinds
<1>8. ASSUME NEW k \in 1..n
      PROVE  /\ ts + k - 1 >= after.head /\ ts + k - 1 < after.tail
             /\ Answered(ts, n, ok)[k] = after.data[Offset(after, ts + k - 1)]
  <2>1. /\ ts + k - 1 >= after.head /\ ts + k - 1 < after.tail
        /\ ~(ts + k - 1 < after.head) /\ ~(ts + k - 1 >= after.tail)
    BY <1>1, <1>2, <1>4, <1>5
  <2> QED
    BY <1>1, <1>3, <1>7, <2>1
<1>9. Len(Answered(ts, n, ok)) = n
  BY <1>2, <1>3 DEF ReadInto
<1> QED
  BY <1>6, <1>8, <1>9 DEF after

\* The stream goes on where it was, or starts at the request.
LEMMA StreamGoesOn ==
    ASSUME CloseRequests, ReceiverInv, NEW ts, NEW n, Timely(clock', ts, n),
           NEW ok \in BOOLEAN, fetched + BufSize <= MaxFetched,
           ring.first_write => ~Dropped(ring, ts, n), Serve(ts, n, ok), ~failed'
    PROVE  WindowIsStream'
<1> DEFINE count == FetchCount(ts, n)
           at == AppendAt(ts)
           out == Appended(ts, n, ok)
           after == RingAfter(ts, n, ok)
<1>1. ok /\ ~failed
  BY RequestFails
<1>2. /\ count \in Nat /\ at \in Nat
      /\ ring.first_write => count = n /\ at = ts
      /\ ~ring.first_write => at = ring.tail
  BY FetchFits
<1>3. \A k \in 1..count : out[k] = Sample(fetched + k, 1)
  BY <1>1, AppendedTyped
<1>4. /\ Whole(after, Samples) /\ ~after.first_write /\ after.tail = at + count
      /\ \A position \in Nat :
           position >= after.head /\ position < after.tail =>
             IF position >= at
             THEN after.data[Offset(after, position)] = out[position - at + 1]
             ELSE IF ring.first_write
                  THEN after.data[Offset(after, position)] = Silence
                  ELSE /\ position >= ring.head /\ position < ring.tail
                       /\ after.data[Offset(after, position)]
                            = ring.data[Offset(ring, position)]
  BY WindowAfter
<1>5. /\ ring' = after
      /\ fetched' = fetched + (IF ok THEN count ELSE 0)
      /\ origin' = IF ring.first_write /\ ~after.first_write
                   THEN [ts |-> ts, id |-> fetched + 1] ELSE origin
  BY RequestSteps
<1> HIDE DEF count, at, out, after
<1>6. fetched \in Nat /\ fetched' = fetched + count /\ ts \in Nat
      /\ origin.ts \in Nat /\ origin.id \in Nat /\ ring.first_write \in BOOLEAN
  BY <1>1, <1>5, RingFields DEF ReceiverInv, Whole, Timely, Ids
<1>7. /\ at = origin'.ts + fetched - origin'.id + 1 /\ origin'.ts <= at
      /\ origin'.ts \in Nat /\ origin'.id \in Nat
      /\ ring.first_write => at = origin'.ts
      /\ ~ring.first_write => origin' = origin
  <2>1. CASE ring.first_write
    <3>1. origin'.ts = ts /\ origin'.id = fetched + 1
      BY <1>4, <1>5, <2>1
    <3> QED
      BY <1>2, <1>6, <2>1, <3>1
  <2>2. CASE ~ring.first_write
    <3>1. origin' = origin
      BY <1>5, <2>2
    <3>2. ring.tail = origin.ts + fetched - origin.id + 1 /\ origin.ts <= ring.tail
      BY <1>1, <2>2 DEF ReceiverInv, WindowIsStream
    <3> QED
      BY <1>2, <1>6, <2>2, <3>1, <3>2
  <2> QED
    BY <2>1, <2>2
<1>8. ring'.tail = origin'.ts + fetched' - origin'.id + 1 /\ origin'.ts <= ring'.tail
  BY <1>2, <1>4, <1>5, <1>6, <1>7
<1>9. ASSUME NEW position \in Nat, position >= ring'.head, position < ring'.tail
      PROVE  ring'.data[Offset(ring', position)] = Expected(position)'
  <2>1. CASE position >= at
    <3>1. position - at + 1 \in 1..count
      BY <1>2, <1>4, <1>5, <1>9, <2>1
    <3>2. ring'.data[Offset(ring', position)] = Sample(fetched + (position - at + 1), 1)
      BY <1>3, <1>4, <1>5, <1>9, <2>1, <3>1
    <3>3. ~(position < origin'.ts)
      BY <1>2, <1>7, <2>1
    <3>4. fetched + (position - at + 1) = origin'.id + position - origin'.ts
      BY <1>2, <1>6, <1>7
    <3> QED
      BY <3>2, <3>3, <3>4 DEF Expected, Sample
  <2>2. CASE ~(position >= at) /\ ring.first_write
    <3>1. ring'.data[Offset(ring', position)] = Silence
      BY <1>4, <1>5, <1>9, <2>2
    <3>2. position < origin'.ts
      BY <1>2, <1>7, <2>2
    <3> QED
      BY <3>1, <3>2 DEF Expected
  <2>3. CASE ~(position >= at) /\ ~ring.first_write
    <3>1. /\ position >= ring.head /\ position < ring.tail
          /\ ring'.data[Offset(ring', position)] = ring.data[Offset(ring, position)]
      BY <1>4, <1>5, <1>9, <2>3
    <3>2. ring.data[Offset(ring, position)] = Expected(position)
      BY <1>1, <2>3, <3>1 DEF ReceiverInv, WindowIsStream
    <3>3. Expected(position)' = Expected(position)
      BY <1>7, <2>3 DEF Expected, Sample
    <3> QED
      BY <3>1, <3>2, <3>3
  <2> QED
    BY <2>1, <2>2, <2>3
<1> QED
  BY <1>8, <1>9 DEF WindowIsStream

\* A first request that ends before the first window could is answered with silence.
LEMMA DroppedRequest ==
    ASSUME CloseRequests, ReceiverInv, NEW ts, NEW n, Timely(clock', ts, n),
           NEW ok \in BOOLEAN, fetched + BufSize <= MaxFetched,
           ring.first_write, Dropped(ring, ts, n), Serve(ts, n, ok),
           running' \in BOOLEAN
    PROVE  ReceiverInv' /\ ring'.first_write
<1> DEFINE out == Appended(ts, n, ok)
           after == RingAfter(ts, n, ok)
<1>1. /\ FetchCount(ts, n) = n /\ AppendAt(ts) = ts
      /\ ~WriteAborts(ring, AppendAt(ts), FetchCount(ts, n))
  BY FetchFits
<1>2. out \in Seq(Samples) /\ Len(out) = n
  BY <1>1, AppendedTyped
<1>3. after = ring
  BY <1>1, <1>2 DEF RingAfter, Written
<1>4. Answered(ts, n, ok) = ReadInto(after, ts, n, [k \in 1..n |-> Untouched])
  BY DEF Answered
<1>5. /\ ring' = after
      /\ io_buf' = out \o SubSeq(io_buf, FetchCount(ts, n) + 1, Len(io_buf))
      /\ fetched' = fetched + (IF ok THEN FetchCount(ts, n) ELSE 0)
      /\ origin' = IF ring.first_write /\ ~after.first_write
                   THEN [ts |-> ts, id |-> fetched + 1] ELSE origin
  BY RequestSteps
<1> HIDE DEF out, after
<1>6. ring' = ring /\ origin' = origin
  BY <1>3, <1>5
<1>7. ~ReadOverruns(after, ts, n)
  BY <1>3 DEF ReadOverruns
<1>8. answer' = [ts |-> ts, samples |-> Answered(ts, n, ok), served |-> TRUE]
  BY <1>1, <1>7, RequestAnswered DEF after
<1>9. n \in Nat /\ clock' \in 0..MaxClock /\ ts \in Positions
  BY ConstantsTyped DEF Timely, Positions
<1>10. answer'.served = TRUE /\ answer'.ts \in Positions /\ Len(answer'.samples) \in Nat
  BY <1>4, <1>8, <1>9 DEF ReadInto
<1>11. io_buf' \in Seq(Samples)
  BY <1>1, <1>2, <1>5, <1>9, BufferRefilled DEF ReceiverInv
<1>12. fetched' \in Nat
  BY <1>1, <1>5, <1>9 DEF ReceiverInv
<1>13. failed' \in BOOLEAN
  BY RequestFails
<1> QED
  BY <1>6, <1>9, <1>10, <1>11, <1>12, <1>13 DEF ReceiverInv

\* Any other request moves the window and is answered from it.
LEMMA RequestTaken ==
    ASSUME CloseRequests, ReceiverInv, NEW ts, NEW n, Timely(clock', ts, n),
           NEW ok \in BOOLEAN, fetched + BufSize <= MaxFetched,
           ring.first_write => ~Dropped(ring, ts, n), Serve(ts, n, ok),
           running' \in BOOLEAN
    PROVE  ReceiverInv' /\ ~ring'.first_write
<1> DEFINE count == FetchCount(ts, n)
           out == Appended(ts, n, ok)
           after == RingAfter(ts, n, ok)
<1>1. /\ count \in Nat /\ count < BufSize
      /\ ~WriteAborts(ring, AppendAt(ts), FetchCount(ts, n))
  BY FetchFits
<1>2. out \in Seq(Samples)
  BY AppendedTyped
<1>3. /\ Whole(after, Samples) /\ ~after.first_write
      /\ clock' - MaxLag < after.tail /\ after.tail <= clock' + MaxRead
  BY WindowAfter
<1>4. /\ ~ReadOverruns(after, ts, n)
      /\ Len(Answered(ts, n, ok)) = n
      /\ \A k \in 1..n :
           /\ ts + k - 1 >= after.head /\ ts + k - 1 < after.tail
           /\ Answered(ts, n, ok)[k] = after.data[Offset(after, ts + k - 1)]
  BY AnswerRead
<1>5. /\ ring' = after
      /\ io_buf' = out \o SubSeq(io_buf, count + 1, Len(io_buf))
      /\ fetched' = fetched + (IF ok THEN count ELSE 0)
      /\ origin' = IF ring.first_write /\ ~after.first_write
                   THEN [ts |-> ts, id |-> fetched + 1] ELSE origin
  BY RequestSteps
<1>6. answer' = [ts |-> ts, samples |-> Answered(ts, n, ok), served |-> TRUE]
  BY <1>1, <1>4, RequestAnswered
<1>7. ~failed' => WindowIsStream'
  BY StreamGoesOn
<1> HIDE DEF count, out, after
<1>8. /\ n \in Nat /\ clock' \in 0..MaxClock /\ ts \in Nat /\ ts \in Positions
      /\ ts >= clock' - MaxLag
  <2>1. clock' \in 0..MaxClock /\ ts \in Nat /\ ts <= clock' /\ clock' - MaxLag <= ts
    BY DEF Timely
  <2>2. n \in Nat
    BY ConstantsTyped DEF Timely
  <2>3. clock' \in Nat /\ clock' <= MaxClock
    BY <2>1, ConstantsTyped
  <2>4. ts <= MaxClock + MaxRead
    BY <2>1, <2>3, ConstantsTyped
  <2>5. ts \in Positions
    BY <2>1, <2>4, ConstantsTyped DEF Positions
  <2>6. ts >= clock' - MaxLag
    BY <2>1, <2>3, ConstantsTyped
  <2> QED
    BY <2>1, <2>2, <2>5, <2>6
<1>9. answer'.served = TRUE /\ answer'.ts \in Positions /\ Len(answer'.samples) \in Nat
  BY <1>4, <1>6, <1>8
<1>10. io_buf' \in Seq(Samples)
  BY <1>1, <1>2, <1>5, BufferRefilled DEF ReceiverInv
<1>11. fetched' \in Nat
  BY <1>1, <1>5 DEF ReceiverInv
<1>12. origin' \in [ts : Nat, id : Ids]
  <2>1. fetched + 1 \in Ids
    BY ConstantsTyped DEF ReceiverInv, Ids
  <2>2. [ts |-> ts, id |-> fetched + 1] \in [ts : Nat, id : Ids]
    BY <1>8, <2>1
  <2> QED
    BY <1>5, <2>2 DEF ReceiverInv
<1>13. failed' \in BOOLEAN
  BY RequestFails
<1>14. WindowKeepsPace'
  BY <1>3, <1>5 DEF WindowKeepsPace
<1>15. AnswerInWindow'
  BY <1>4, <1>5, <1>6, <1>8 DEF AnswerInWindow
<1>16. Whole(ring', Samples) /\ ~ring'.first_write
  BY <1>3, <1>5
<1> QED
  BY <1>7, <1>8, <1>9, <1>10, <1>11, <1>12, <1>13, <1>14, <1>15, <1>16 DEF ReceiverInv

-----------------------------------------------------------------------------
(* The steps of the receiver.                                              *)

LEMMA InitReceiver == Init => ReceiverInv
<1> SUFFICES ASSUME Init PROVE ReceiverInv
  OBVIOUS
<1>1. Whole(ring, Samples) /\ ring.first_write
  BY SilenceTyped, RestartedIsWhole DEF Init
<1>2. \A offset \in Offsets : ring.data[offset] = Silence
  BY DEF Init, Restarted
<1>3. io_buf \in Seq(Samples)
  <2>1. io_buf = [k \in 1..BufSize |-> io_buf[k]] /\ \A k \in 1..BufSize : io_buf[k] \in Samples
    BY SilenceTyped DEF Init
  <2> QED
    BY <2>1, ConstantsTyped, Listed
<1>4. origin \in [ts : Nat, id : Ids] /\ clock \in 0..MaxClock
  BY ConstantsTyped DEF Init, NoOrigin, Ids
<1>5. answer.served = TRUE /\ answer.ts \in Positions /\ Len(answer.samples) \in Nat
  BY ConstantsTyped DEF Init, Nothing, Positions
<1> QED
  BY <1>1, <1>2, <1>3, <1>4, <1>5 DEF Init, ReceiverInv

\* What is known of a request that is made.
LEMMA RequestMade ==
    ASSUME ReceiverInv, NEW advance \in 0..MaxAdvance, NEW lag \in 0..MaxLag,
           NEW n \in 1..MaxRead, OnReadClientInput(advance, lag, n)
    PROVE  \E ok \in BOOLEAN :
             /\ Serve(clock' - lag, n, ok)
             /\ Timely(clock', clock' - lag, n)
             /\ fetched + BufSize <= MaxFetched
             /\ running' \in BOOLEAN
<1>1. PICK ok \in {TRUE} \cup (IF "network" \in Faults THEN {FALSE} ELSE {}) :
        Serve(clock' - lag, n, ok)
  BY DEF OnReadClientInput
<1>2. ok \in BOOLEAN
  BY <1>1
<1>3. clock' = clock + advance /\ clock + advance <= MaxClock /\ clock + advance >= lag
  BY DEF OnReadClientInput
<1>4. Timely(clock', clock' - lag, n)
  BY <1>3, ConstantsTyped DEF Timely, ReceiverInv
<1>5. fetched + BufSize <= MaxFetched /\ running' \in BOOLEAN
  BY DEF OnReadClientInput, ReceiverInv
<1> QED
  BY <1>1, <1>2, <1>4, <1>5

LEMMA ReceiverStarts ==
    ASSUME ReceiverInv, OnStartIO
    PROVE  ReceiverInv' /\ ring'.first_write
<1>1. Whole(ring', Samples) /\ ring'.first_write
  BY SilenceTyped, RestartedIsWhole DEF OnStartIO
<1>2. \A offset \in Offsets : (ring.data[offset] = Silence)'
  BY DEF OnStartIO, Restarted
<1>3. clock' \in 0..MaxClock
  BY ReceiverAssumption DEF OnStartIO
<1>4. origin' \in [ts : Nat, id : Ids] /\ fetched' \in Nat
  BY ConstantsTyped DEF OnStartIO, NoOrigin, Ids
<1>5. answer'.served = TRUE /\ answer'.ts \in Positions /\ Len(answer'.samples) \in Nat
  BY ConstantsTyped DEF OnStartIO, Nothing, Positions
<1>6. running' = TRUE /\ failed' = FALSE /\ io_buf' = io_buf
  BY DEF OnStartIO
<1> QED
  BY <1>1, <1>2, <1>3, <1>4, <1>5, <1>6 DEF ReceiverInv

\* A step that leaves everything but running as it is.
LEMMA ReceiverRests ==
    ASSUME ReceiverInv, running' \in BOOLEAN,
           UNCHANGED <<ring, io_buf, fetched, failed, clock, origin, answer>>
    PROVE  ReceiverInv'
<1>1. WindowKeepsPace' <=> WindowKeepsPace
  BY DEF WindowKeepsPace
<1>2. WindowIsStream' <=> WindowIsStream
  BY DEF WindowIsStream, Expected
<1>3. AnswerInWindow' <=> AnswerInWindow
  BY DEF AnswerInWindow
<1> QED
  BY <1>1, <1>2, <1>3 DEF ReceiverInv

LEMMA NextReceiver ==
    ASSUME CloseRequests
    PROVE  ReceiverInv /\ [Next]_vars => ReceiverInv'
<1> SUFFICES ASSUME ReceiverInv, [Next]_vars PROVE ReceiverInv'
  OBVIOUS
<1>1. CASE OnStartIO
  BY <1>1, ReceiverStarts
<1>2. CASE OnStopIO
  BY <1>2, ReceiverRests DEF OnStopIO
<1>3. ASSUME NEW advance \in 0..MaxAdvance, NEW lag \in 0..MaxLag, NEW n \in 1..MaxRead,
             OnReadClientInput(advance, lag, n)
      PROVE  ReceiverInv'
  <2>1. PICK ok \in BOOLEAN : /\ Serve(clock' - lag, n, ok)
                              /\ Timely(clock', clock' - lag, n)
                              /\ fetched + BufSize <= MaxFetched
                              /\ running' \in BOOLEAN
    BY <1>3, RequestMade
  <2>2. CASE ring.first_write /\ Dropped(ring, clock' - lag, n)
    BY <2>1, <2>2, DroppedRequest
  <2>3. CASE ring.first_write => ~Dropped(ring, clock' - lag, n)
    BY <2>1, <2>3, RequestTaken
  <2> QED
    BY <2>2, <2>3
<1>4. CASE UNCHANGED vars
  BY <1>4, ReceiverRests DEF vars, ReceiverInv
<1> QED
  BY <1>1, <1>2, <1>3, <1>4 DEF Next

\* In every state of the receiver ReceiverInv holds: no request meets an assertion of
\* the ring buffer or leaves the client's buffer, and the window is the stream.
THEOREM ReceiverIsInStep ==
    ASSUME CloseRequests
    PROVE  Spec => []ReceiverInv
<1>1. ReceiverInv /\ [Next]_vars => ReceiverInv'
  BY NextReceiver
<1> QED
  BY <1>1, InitReceiver, PTL DEF Spec

\* The variables of the receiver have their types.
THEOREM ReceiverTyped ==
    ASSUME CloseRequests
    PROVE  Spec => []TypeOK
<1>1. ReceiverInv => TypeOK
  BY DEF ReceiverInv, TypeOK, Whole
<1>2. Spec => []ReceiverInv
  BY ReceiverIsInStep
<1> QED
  BY <1>1, <1>2, PTL

\* Every request is served, and while the network delivers it finds exactly the
\* stream's samples at its positions, however the requests of several apps overlap.
THEOREM RequestsAreServed ==
    ASSUME CloseRequests
    PROVE  Spec => []RequestsServed
<1>1. ReceiverInv => RequestsServed
  <2> SUFFICES ASSUME ReceiverInv, NEW k \in 1..Len(answer.samples),
                      ~ring.first_write, ~failed
               PROVE  answer.samples[k] = Expected(answer.ts + k - 1)
    BY DEF RequestsServed, AlwaysServed, ReceiverInv
  <2>1. /\ answer.ts + k - 1 >= ring.head /\ answer.ts + k - 1 < ring.tail
        /\ answer.samples[k] = ring.data[Offset(ring, answer.ts + k - 1)]
    BY DEF ReceiverInv, AnswerInWindow
  <2>2. answer.ts + k - 1 \in Nat
    BY ConstantsTyped DEF ReceiverInv, Positions
  <2>3. ring.data[Offset(ring, answer.ts + k - 1)] = Expected(answer.ts + k - 1)
    BY <2>1, <2>2 DEF ReceiverInv, WindowIsStream
  <2> QED
    BY <2>1, <2>3
<1>2. Spec => []ReceiverInv
  BY ReceiverIsInStep
<1> QED
  BY <1>1, <1>2, PTL

\* The network is read no faster than the HAL's clock, and nothing that was fetched is
\* skipped or repeated.
THEOREM NetworkIsPaced ==
    ASSUME CloseRequests
    PROVE  Spec => []NetworkKeepsPace
<1>1. ReceiverInv => NetworkKeepsPace
  BY DEF ReceiverInv, NetworkKeepsPace, WindowKeepsPace, WindowIsStream
<1>2. Spec => []ReceiverInv
  BY ReceiverIsInStep
<1> QED
  BY <1>1, <1>2, PTL

-----------------------------------------------------------------------------
(* Two requests.                                                           *)

\* Where two requests overlap they are answered with the same samples.
LEMMA AnswersAgree ==
    ASSUME CloseRequests, ReceiverInv, NEW ts, NEW n, Timely(clock', ts, n),
           NEW ok \in BOOLEAN, fetched + BufSize <= MaxFetched,
           ~ring.first_write, Serve(ts, n, ok),
           NEW j \in 1..Len(answer.samples), NEW k \in 1..Len(answer'.samples),
           answer.ts + j = answer'.ts + k
    PROVE  answer'.samples[k] = answer.samples[j]
<1> DEFINE after == RingAfter(ts, n, ok)
           position == answer.ts + j - 1
<1>1. /\ ~WriteAborts(ring, AppendAt(ts), FetchCount(ts, n))
      /\ AppendAt(ts) = ring.tail
  BY FetchFits
<1>2. /\ ~ReadOverruns(after, ts, n)
      /\ Len(Answered(ts, n, ok)) = n
      /\ \A i \in 1..n : /\ ts + i - 1 >= after.head /\ ts + i - 1 < after.tail
                         /\ Answered(ts, n, ok)[i] = after.data[Offset(after, ts + i - 1)]
  BY AnswerRead
<1>3. answer' = [ts |-> ts, samples |-> Answered(ts, n, ok), served |-> TRUE]
  BY <1>1, <1>2, RequestAnswered
<1>4. \A p \in Nat :
        p >= after.head /\ p < after.tail /\ ~(p >= ring.tail)
          => after.data[Offset(after, p)] = ring.data[Offset(ring, p)]
  BY <1>1, WindowAfter
<1>5. /\ position >= ring.head /\ position < ring.tail
      /\ answer.samples[j] = ring.data[Offset(ring, position)]
  BY DEF ReceiverInv, AnswerInWindow
<1> HIDE DEF after
<1>6. k \in 1..n /\ answer'.ts = ts
  BY <1>2, <1>3
<1>7. ts \in Nat /\ n \in Nat /\ k \in Nat /\ j \in Nat /\ answer.ts \in Nat
  <2>1. ts \in Nat /\ n \in Nat
    BY ConstantsTyped DEF Timely
  <2>2. answer.ts \in Nat /\ Len(answer.samples) \in Nat
    BY ConstantsTyped DEF ReceiverInv, Positions
  <2> QED
    BY <1>6, <2>1, <2>2
<1>8. ts + k - 1 = position /\ position \in Nat
  BY <1>6, <1>7
<1>9. answer'.samples[k] = after.data[Offset(after, ts + k - 1)]
  BY <1>2, <1>3, <1>6
<1>10. position >= after.head /\ position < after.tail
  BY <1>2, <1>6, <1>8
<1> HIDE DEF position
<1>11. ring.tail \in Nat
  BY RingFields DEF ReceiverInv, Whole
<1>12. after.data[Offset(after, position)] = ring.data[Offset(ring, position)]
  BY <1>4, <1>5, <1>8, <1>10, <1>11
<1> QED
  BY <1>5, <1>8, <1>9, <1>12

\* Apps that ask for the same position one after the other hear the same sample, even
\* when a read from the network fails.
THEOREM AppsHearTheSame ==
    ASSUME CloseRequests
    PROVE  Spec => ClientsAgree
<1> DEFINE Agree ==
        ~ring.first_write =>
            \A j \in 1..Len(answer.samples), k \in 1..Len(answer'.samples) :
                answer.ts + j = answer'.ts + k
                    => answer'.samples[k] = answer.samples[j]
<1>1. ReceiverInv /\ [Next]_vars => [Agree]_vars
  <2> SUFFICES ASSUME ReceiverInv, Next, ~ring.first_write,
                      NEW j \in 1..Len(answer.samples), NEW k \in 1..Len(answer'.samples),
                      answer.ts + j = answer'.ts + k
               PROVE  answer'.samples[k] = answer.samples[j]
    OBVIOUS
  <2>1. CASE OnStartIO
    <3>1. Len(answer'.samples) = 0
      BY <2>1 DEF OnStartIO, Nothing
    <3> QED
      BY <3>1
  <2>2. CASE OnStopIO
    <3>1. answer' = answer
      BY <2>2 DEF OnStopIO
    <3>2. answer.ts \in Nat /\ Len(answer.samples) \in Nat
      BY ConstantsTyped DEF ReceiverInv, Positions
    <3>3. j = k
      BY <3>1, <3>2
    <3> QED
      BY <3>1, <3>3
  <2>3. ASSUME NEW advance \in 0..MaxAdvance, NEW lag \in 0..MaxLag, NEW n \in 1..MaxRead,
               OnReadClientInput(advance, lag, n)
        PROVE  answer'.samples[k] = answer.samples[j]
    <3>1. PICK ok \in BOOLEAN : /\ Serve(clock' - lag, n, ok)
                                /\ Timely(clock', clock' - lag, n)
                                /\ fetched + BufSize <= MaxFetched
                                /\ running' \in BOOLEAN
      BY <2>3, RequestMade
    <3> QED
      BY <3>1, AnswersAgree
  <2> QED
    BY <2>1, <2>2, <2>3 DEF Next
<1>2. Spec => []ReceiverInv
  BY ReceiverIsInStep
<1> QED
  BY <1>1, <1>2, PTL DEF Spec, ClientsAgree

=============================================================================
