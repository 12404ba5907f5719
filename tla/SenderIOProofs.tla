--------------------------- MODULE SenderIOProofs ----------------------------
(***************************************************************************)
(* Proofs about the I/O of a sender: with a ring buffer of any size and    *)
(* requests that follow each other closely, the network is given every     *)
(* mixed sample that the buffer accepted, once and in order.               *)
(***************************************************************************)
EXTENDS SenderIO, RingBufferProofs, SequenceTheorems

\* What the HAL's requests are like: shorter than the ring buffer, none begins
\* before its window or beyond the furthest end so far.
CloseRequests == MaxWrite < BufSize /\ MaxLag <= BufSize /\ MaxGap = 0

\* The samples from position first on, each amplified once.
IsRun(samples, first) ==
    \A k \in 1..Len(samples) : samples[k] = Sample(first + k - 1, 1)

\* What was sent ends where the window ends.
SentUpTo(tail) == \E first \in Nat : first + Len(sent) = tail /\ IsRun(sent, first)

\* Before the first write of a session that is not dropped nothing was sent, and
\* the requests have not reached the size of the buffer; from then on the window,
\* the requests, ring_buf_pos_ and what was sent all end at the same position.
SenderInv ==
    /\ running \in BOOLEAN
    /\ Whole(ring, Samples)
    /\ ring_buf_pos \in Nat
    /\ io_buf \in Seq(Samples)
    /\ last_end \in Nat \cup {NoEnd}
    /\ sent \in Seq(Samples)
    /\ served = TRUE
    /\ ring.first_write => sent = <<>> /\ last_end < BufSize
    /\ ~ring.first_write =>
         /\ ring_buf_pos = ring.tail /\ last_end = ring.tail
         /\ Len(sent) > 0 /\ SentUpTo(ring.tail)

-----------------------------------------------------------------------------
(* Types.                                                                  *)

LEMMA ConstantsTyped ==
    /\ BufSize \in Nat /\ BufSize > 0 /\ MaxWrite \in Nat /\ MaxLag \in Nat
    /\ MaxGap \in Nat /\ MaxPosition \in Nat
  BY SizeIsPositive, SenderAssumption

LEMMA SampleTyped ==
    ASSUME NEW position \in Positions, NEW gain \in 0..1
    PROVE  Sample(position, gain) \in Samples /\ Sample(position, gain) # Silence
<1>1. Sample(position, gain) \in [position : Positions, gain : 0..1]
  BY DEF Sample
<1> QED
  BY <1>1, SenderAssumption DEF Samples, Positions

LEMMA SampleIsAmplified ==
    ASSUME NEW position \in Positions
    PROVE  Amplified(Sample(position, 0)) = Sample(position, 1)
<1>1. Sample(position, 0) # Silence
  BY SampleTyped
<1> QED
  BY <1>1 DEF Amplified, Sample

LEMMA SilenceTyped == Silence \in Samples
  BY DEF Samples

\* A sequence given element by element.
LEMMA Listed ==
    ASSUME NEW S, NEW n \in Nat, NEW f, f = [k \in 1..n |-> f[k]], \A k \in 1..n : f[k] \in S
    PROVE  f \in Seq(S) /\ Len(f) = n
<1>1. f \in [1..n -> S]
  OBVIOUS
<1>2. f \in Seq(S)
  BY <1>1
<1> QED
  BY <1>1, <1>2

LEMMA ResizedTyped ==
    ASSUME NEW n \in Nat, NEW buf \in Seq(Samples)
    PROVE  Resized(buf, n) \in Seq(Samples) /\ Len(Resized(buf, n)) >= n
<1> DEFINE longer == Larger(n, Len(buf))
           out == Resized(buf, n)
<1>1. longer \in Nat /\ longer >= n
  BY DEF Larger
<1>2. \A k \in 1..longer : (IF k <= Len(buf) THEN buf[k] ELSE Silence) \in Samples
  BY SilenceTyped
<1>3. out = [k \in 1..longer |-> IF k <= Len(buf) THEN buf[k] ELSE Silence]
  BY DEF Resized
<1> HIDE DEF longer, out
<1>4. out = [k \in 1..longer |-> out[k]] /\ \A k \in 1..longer : out[k] \in Samples
  BY <1>2, <1>3
<1>5. out \in Seq(Samples) /\ Len(out) = longer
  BY <1>1, <1>4, Listed
<1> QED
  BY <1>1, <1>5 DEF out

\* io_buf_ after a request that took the samples in front of it.
LEMMA BufferRefilled ==
    ASSUME NEW front \in Seq(Samples), NEW n \in Nat, NEW buf \in Seq(Samples)
    PROVE  front \o SubSeq(buf, n + 1, Len(buf)) \in Seq(Samples)
<1>1. \A k \in (n + 1)..Len(buf) : buf[k] \in Samples
  OBVIOUS
<1>2. SubSeq(buf, n + 1, Len(buf)) \in Seq(Samples)
  BY <1>1, SubSeqProperties
<1> QED
  BY <1>2, ConcatProperties

\* A run that goes on where the one before it ended.
LEMMA RunsJoin ==
    ASSUME NEW one \in Seq(Samples), NEW two \in Seq(Samples), NEW first \in Nat,
           IsRun(one, first), IsRun(two, first + Len(one))
    PROVE  one \o two \in Seq(Samples) /\ Len(one \o two) = Len(one) + Len(two)
           /\ IsRun(one \o two, first)
<1>1. /\ one \o two \in Seq(Samples) /\ Len(one \o two) = Len(one) + Len(two)
      /\ \A k \in 1..(Len(one) + Len(two)) :
           (one \o two)[k] = IF k <= Len(one) THEN one[k] ELSE two[k - Len(one)]
  BY ConcatProperties
<1>2. ASSUME NEW k \in 1..(Len(one) + Len(two))
      PROVE  (one \o two)[k] = Sample(first + k - 1, 1)
  <2>1. CASE k <= Len(one)
    BY <1>1, <2>1 DEF IsRun
  <2>2. CASE k > Len(one)
    <3>1. k - Len(one) \in 1..Len(two)
      BY <2>2
    <3>2. two[k - Len(one)] = Sample(first + Len(one) + (k - Len(one)) - 1, 1)
      BY <3>1 DEF IsRun
    <3>3. first + Len(one) + (k - Len(one)) - 1 = first + k - 1
      OBVIOUS
    <3> QED
      BY <1>1, <2>2, <3>2, <3>3
  <2> QED
    BY <2>1, <2>2
<1> QED
  BY <1>1, <1>2 DEF IsRun

-----------------------------------------------------------------------------
(* One request.                                                            *)

\* What OnWriteMixedOutput works with.
Mixed(ts, n) == [k \in 1..n |-> Sample(ts + k - 1, 0)]
RingAfter(ts, n) == Written(ring, ts, Mixed(ts, n))
ReadFrom(ts) == IF ring.first_write THEN ts ELSE ring_buf_pos
ReadCount(ts, n) == CanRead(RingAfter(ts, n), ReadFrom(ts))
Buffer(ts, n) == Resized(io_buf, ReadCount(ts, n))
Taken(ts, n) == ReadInto(RingAfter(ts, n), ReadFrom(ts), ReadCount(ts, n), Buffer(ts, n))
Outgoing(ts, n) == [k \in 1..ReadCount(ts, n) |-> Amplified(Taken(ts, n)[k])]

LEMMA RequestSteps ==
    ASSUME NEW ts, NEW n, OnWriteMixedOutput(ts, n)
    PROVE  /\ running /\ Near(ts)
           /\ ring' = RingAfter(ts, n)
           /\ ring_buf_pos' = ReadFrom(ts) + ReadCount(ts, n)
           /\ io_buf' = Outgoing(ts, n) \o SubSeq(Buffer(ts, n), ReadCount(ts, n) + 1,
                                                  Len(Buffer(ts, n)))
           /\ sent' = sent \o Outgoing(ts, n)
           /\ last_end' = Larger(last_end, ts + n)
           /\ running' = running
  BY DEF OnWriteMixedOutput, Mixed, RingAfter, ReadFrom, ReadCount, Buffer, Taken, Outgoing

LEMMA RequestServed ==
    ASSUME NEW ts, NEW n, OnWriteMixedOutput(ts, n), ~WriteAborts(ring, ts, n),
           ~ReadOverruns(RingAfter(ts, n), ReadFrom(ts), ReadCount(ts, n))
    PROVE  served' = TRUE
  BY DEF OnWriteMixedOutput, Mixed, RingAfter, ReadFrom, ReadCount

LEMMA MixedTyped ==
    ASSUME NEW ts \in Positions, NEW n \in 1..MaxWrite, ts + n - 1 <= MaxPosition
    PROVE  Mixed(ts, n) \in Seq(Samples) /\ Len(Mixed(ts, n)) = n
<1>1. ASSUME NEW k \in 1..n
      PROVE  Mixed(ts, n)[k] \in Samples
  <2>1. ts + k - 1 \in Positions
    BY ConstantsTyped DEF Positions
  <2>2. Mixed(ts, n)[k] = Sample(ts + k - 1, 0)
    BY DEF Mixed
  <2> QED
    BY <2>1, <2>2, SampleTyped
<1>2. Mixed(ts, n) = [k \in 1..n |-> Mixed(ts, n)[k]] /\ n \in Nat
  BY ConstantsTyped DEF Mixed
<1> QED
  BY <1>1, <1>2, Listed

LEMMA RequestFits ==
    ASSUME CloseRequests, SenderInv, NEW ts \in Positions, NEW n \in 1..MaxWrite, Near(ts)
    PROVE  ~WriteAborts(ring, ts, n)
<1>1. ts \in Nat /\ n \in Nat /\ n <= BufSize /\ Whole(ring, Samples)
  BY ConstantsTyped DEF Positions, SenderInv, CloseRequests
<1>2. ring.first_write \/ ts >= ring.tail - BufSize
  <2>1. ring.tail \in Nat
    BY <1>1, RingFields DEF Whole
  <2>2. CASE ~ring.first_write
    <3>1. last_end = ring.tail /\ last_end # NoEnd
      BY <2>1, <2>2 DEF SenderInv, NoEnd
    <3> QED
      BY <1>1, <2>1, <3>1, ConstantsTyped DEF Near, CloseRequests
  <2> QED
    BY <2>2
<1> QED
  BY <1>1, <1>2, WriteFits

\* A request that the ring buffer drops sends nothing.
LEMMA DroppedRequest ==
    ASSUME CloseRequests, SenderInv, NEW ts \in Positions, NEW n \in 1..MaxWrite,
           ts + n - 1 <= MaxPosition, OnWriteMixedOutput(ts, n), Dropped(ring, ts, n)
    PROVE  SenderInv'
<1>1. /\ n \in Nat /\ n > 0 /\ ts \in Nat /\ ring.first_write /\ ts + n < BufSize
  BY ConstantsTyped DEF Positions, Dropped
<1>2. RingAfter(ts, n) = ring
  <2>1. Len(Mixed(ts, n)) = n
    BY MixedTyped
  <2> QED
    BY <2>1 DEF RingAfter, Written
<1>3. ReadCount(ts, n) = 0 /\ ReadFrom(ts) = ts
  BY <1>1, <1>2 DEF ReadCount, CanRead, ReadFrom
<1>4. Outgoing(ts, n) = <<>>
  BY <1>3 DEF Outgoing
<1>5. io_buf' \in Seq(Samples)
  <2>1. Buffer(ts, n) \in Seq(Samples)
    BY <1>3, ResizedTyped DEF Buffer, SenderInv
  <2>2. io_buf' = Outgoing(ts, n) \o SubSeq(Buffer(ts, n), 0 + 1, Len(Buffer(ts, n)))
    BY <1>3, RequestSteps
  <2>3. Outgoing(ts, n) \in Seq(Samples)
    BY <1>4
  <2> QED
    BY <2>1, <2>2, <2>3, BufferRefilled
<1>6. sent' = <<>>
  <2>1. sent = <<>> /\ sent' = sent \o <<>>
    BY <1>1, <1>4, RequestSteps DEF SenderInv
  <2> QED
    BY <2>1
<1>7. last_end' \in Nat /\ last_end' < BufSize
  <2>1. last_end \in Nat \cup {-1} /\ last_end < BufSize
    BY <1>1 DEF SenderInv, NoEnd
  <2>2. last_end' = Larger(last_end, ts + n)
    BY RequestSteps
  <2> QED
    BY <1>1, <2>1, <2>2, ConstantsTyped DEF Larger
<1>8. served' = TRUE
  <2>1. ~ReadOverruns(RingAfter(ts, n), ReadFrom(ts), ReadCount(ts, n))
    BY <1>3 DEF ReadOverruns
  <2>2. ~WriteAborts(ring, ts, n)
    BY DEF WriteAborts
  <2> QED
    BY <2>1, <2>2, RequestServed
<1>9. ring' = ring /\ ring_buf_pos' \in Nat /\ running' = running
  <2>1. ring' = RingAfter(ts, n) /\ ring_buf_pos' = ReadFrom(ts) + ReadCount(ts, n)
        /\ running' = running
    BY RequestSteps
  <2> QED
    BY <1>1, <1>2, <1>3, <2>1
<1> QED
  BY <1>1, <1>5, <1>6, <1>7, <1>8, <1>9 DEF SenderInv

\* A request that the ring buffer takes: what can be read are the last samples of
\* the request, those that end beyond all that was sent.
LEMMA TakenRequest ==
    ASSUME CloseRequests, SenderInv, NEW ts \in Positions, NEW n \in 1..MaxWrite,
           ts + n - 1 <= MaxPosition, OnWriteMixedOutput(ts, n), ~Dropped(ring, ts, n)
    PROVE  LET after == RingAfter(ts, n)
               pos == ReadFrom(ts)
               count == ReadCount(ts, n)
           IN  /\ Whole(after, Samples) /\ ~after.first_write
               /\ after.tail = Larger(last_end, ts + n)
               /\ pos \in Nat /\ count \in Nat /\ count < BufSize /\ pos + count = after.tail
               /\ ring.first_write => pos = ts /\ count > 0
               /\ ~ReadOverruns(after, pos, count)
               /\ \A k \in 1..count : /\ pos + k - 1 \in Positions
                                      /\ Taken(ts, n)[k] = Sample(pos + k - 1, 0)
<1> DEFINE after == RingAfter(ts, n)
           pos == ReadFrom(ts)
           count == ReadCount(ts, n)
<1>1. /\ n \in Nat /\ n > 0 /\ n < BufSize /\ ts \in Nat /\ BufSize \in Nat
      /\ Mixed(ts, n) \in Seq(Samples) /\ Len(Mixed(ts, n)) = n
      /\ Whole(ring, Samples) /\ Near(ts) /\ ~WriteAborts(ring, ts, n)
  <2>1. n \in Nat /\ n > 0 /\ n < BufSize /\ ts \in Nat /\ BufSize \in Nat
    BY ConstantsTyped DEF Positions, CloseRequests
  <2>2. Mixed(ts, n) \in Seq(Samples) /\ Len(Mixed(ts, n)) = n
    BY MixedTyped
  <2>3. Whole(ring, Samples) /\ Near(ts)
    BY RequestSteps DEF SenderInv
  <2>4. ~WriteAborts(ring, ts, n)
    BY <2>3, RequestFits
  <2> QED
    BY <2>1, <2>2, <2>3, <2>4
<1>2. /\ Whole(after, Samples) /\ ~after.first_write /\ after.tail = EndAfter(ring, ts, n)
      /\ after.head = Moved(ring, ts, n).head
  <2> DEFINE out == Mixed(ts, n)
  <2>1. out \in Seq(Samples) /\ Len(out) = n /\ after = Written(ring, ts, out)
    BY <1>1 DEF RingAfter
  <2> HIDE DEF out, after
  <2>2. /\ Whole(Written(ring, ts, out), Samples) /\ ~Written(ring, ts, out).first_write
        /\ Written(ring, ts, out).tail = EndAfter(ring, ts, Len(out))
        /\ Written(ring, ts, out).head = Moved(ring, ts, Len(out)).head
    <3>1. ts \in Nat /\ Whole(ring, Samples) /\ ~Dropped(ring, ts, Len(out))
      BY <1>1, <2>1
    <3> QED
      BY <2>1, <3>1, WriteEnds
  <2> QED
    BY <2>1, <2>2
<1>3. /\ after.head \in Nat /\ after.tail \in Nat /\ after.tail = after.head + BufSize
      /\ ring.tail \in Nat /\ ring.first_write \in BOOLEAN
  BY <1>1, <1>2, RingFields DEF Whole
<1>4. after.head <= ts
  BY <1>1, <1>2, <1>3 DEF WriteAborts
<1>5. /\ ring.first_write => last_end \in Nat \cup {-1} /\ last_end < BufSize
      /\ ring.first_write => ts + n >= BufSize
      /\ ~ring.first_write => last_end = ring.tail /\ ring_buf_pos = ring.tail
                              /\ ts <= ring.tail
  <2>1. CASE ring.first_write
    <3>1. ts + n >= BufSize
      BY <1>1, <2>1 DEF Dropped
    <3> QED
      BY <2>1, <3>1 DEF SenderInv, NoEnd
  <2>2. CASE ~ring.first_write
    <3>1. last_end = ring.tail /\ ring_buf_pos = ring.tail
      BY <2>2 DEF SenderInv
    <3>2. ts <= last_end
      BY <1>1, <1>3, <3>1 DEF Near, NoEnd, CloseRequests
    <3> QED
      BY <2>2, <3>1, <3>2
  <2> QED
    BY <2>1, <2>2
<1> HIDE DEF after
<1>6. after.tail = Larger(last_end, ts + n) /\ after.tail >= ts + n
  BY <1>1, <1>2, <1>3, <1>5 DEF EndAfter, Larger
<1>7. /\ pos \in Nat /\ pos >= ts /\ pos <= after.tail
      /\ ring.first_write => pos = ts /\ after.tail = ts + n
      /\ pos < after.tail => after.tail = ts + n
  BY <1>1, <1>2, <1>3, <1>5, <1>6 DEF ReadFrom, EndAfter, Larger
<1>8. /\ count \in Nat /\ count < BufSize /\ pos + count = after.tail
      /\ count > 0 => after.tail = ts + n
  <2>1. count = IF pos >= after.tail THEN 0 ELSE Smaller(after.tail - pos, BufSize)
    BY <1>2 DEF ReadCount, CanRead, after
  <2> HIDE DEF count, pos
  <2>2. CASE pos >= after.tail
    BY <1>1, <1>3, <1>7, <2>1, <2>2
  <2>3. CASE pos < after.tail
    <3>1. after.tail - pos <= n /\ after.tail - pos \in Nat
      BY <1>1, <1>7, <2>3
    <3>2. count = after.tail - pos
      BY <1>1, <1>3, <1>7, <2>1, <2>3, <3>1 DEF Smaller
    <3> QED
      BY <1>1, <1>3, <1>7, <2>3, <3>1, <3>2
  <2> QED
    BY <1>3, <1>7, <2>2, <2>3
<1> HIDE DEF pos, count
<1>9. ~ReadOverruns(after, pos, count)
  <2>1. To(after, pos, count) = after.tail /\ From(after, pos) = pos
    BY <1>1, <1>3, <1>4, <1>7, <1>8 DEF To, From, Smaller, Larger
  <2> QED
    BY <1>3, <1>7, <2>1 DEF ReadOverruns
<1>10. ASSUME NEW k \in 1..count
       PROVE  /\ pos + k - 1 \in Positions
              /\ Taken(ts, n)[k] = Sample(pos + k - 1, 0)
  <2> DEFINE position == pos + k - 1
  <2>1. /\ position \in Int /\ position >= after.head /\ position < after.tail
        /\ position \in ts..(ts + n - 1)
    BY <1>1, <1>3, <1>4, <1>7, <1>8
  <2>2. Taken(ts, n)[k] =
          IF \/ after.first_write \/ position < after.head \/ position >= after.tail
          THEN Silence ELSE after.data[Offset(after, position)]
    <3>1. \A j \in 1..count :
            ReadInto(after, pos, count, Buffer(ts, n))[j] =
              IF \/ after.first_write
                 \/ pos + j - 1 < after.head \/ pos + j - 1 >= after.tail
              THEN Silence
              ELSE after.data[Offset(after, pos + j - 1)]
      BY <1>2, <1>7, <1>8, <1>9, ReadFinds
    <3>2. Taken(ts, n) = ReadInto(after, pos, count, Buffer(ts, n))
      BY DEF Taken, after, pos, count
    <3> QED
      BY <3>1, <3>2
  <2> HIDE DEF position
  <2>3. Taken(ts, n)[k] = after.data[Offset(after, position)]
    BY <1>2, <1>3, <2>1, <2>2
  <2>4. after.data[Offset(after, position)] = Mixed(ts, n)[position - ts + 1]
    <3>1. /\ Len(Mixed(ts, n)) < BufSize /\ ~Dropped(ring, ts, Len(Mixed(ts, n)))
          /\ ~WriteAborts(ring, ts, Len(Mixed(ts, n)))
      BY <1>1
    <3>2. after = Written(ring, ts, Mixed(ts, n))
      BY DEF after, RingAfter
    <3>3. position \in ts..(ts + Len(Mixed(ts, n)) - 1)
      BY <1>1, <2>1
    <3>4. LET ring1 == Written(ring, ts, Mixed(ts, n))
          IN  ring1.data[Offset(ring1, position)] = Mixed(ts, n)[position - ts + 1]
      <4>1. Whole(ring, Samples) /\ ts \in Nat /\ Mixed(ts, n) \in Seq(Samples)
        BY <1>1
      <4> QED
        BY <3>1, <3>3, <4>1, SampleLands
    <3> QED
      BY <3>2, <3>4
  <2>5. Mixed(ts, n)[position - ts + 1] = Sample(position, 0)
    <3>1. position - ts + 1 \in 1..n /\ ts + (position - ts + 1) - 1 = position
      BY <1>1, <2>1
    <3> QED
      BY <3>1 DEF Mixed
  <2>6. position \in Positions
    BY <1>1, <2>1, ConstantsTyped DEF Positions
  <2> QED
    BY <2>3, <2>4, <2>5, <2>6 DEF position
<1> QED
  BY <1>2, <1>6, <1>7, <1>8, <1>9, <1>10, ConstantsTyped DEF after, pos, count

\* What is taken goes on where what was sent ended.
LEMMA RequestSent ==
    ASSUME CloseRequests, SenderInv, NEW ts \in Positions, NEW n \in 1..MaxWrite,
           ts + n - 1 <= MaxPosition, OnWriteMixedOutput(ts, n), ~Dropped(ring, ts, n)
    PROVE  SenderInv'
<1> DEFINE after == RingAfter(ts, n)
           pos == ReadFrom(ts)
           count == ReadCount(ts, n)
           out == Outgoing(ts, n)
<1>1. /\ Whole(after, Samples) /\ ~after.first_write
      /\ after.tail = Larger(last_end, ts + n)
      /\ pos \in Nat /\ count \in Nat /\ count < BufSize /\ pos + count = after.tail
      /\ ring.first_write => pos = ts /\ count > 0
      /\ ~ReadOverruns(after, pos, count)
      /\ \A k \in 1..count : /\ pos + k - 1 \in Positions
                             /\ Taken(ts, n)[k] = Sample(pos + k - 1, 0)
  BY TakenRequest
<1>2. ~WriteAborts(ring, ts, n)
  BY RequestFits, RequestSteps
<1>3. served' = TRUE
  BY <1>1, <1>2, RequestServed
<1>4. /\ running' = running /\ ring' = after /\ ring_buf_pos' = pos + count
      /\ io_buf' = out \o SubSeq(Buffer(ts, n), count + 1, Len(Buffer(ts, n)))
      /\ sent' = sent \o out
      /\ last_end' = Larger(last_end, ts + n)
  BY RequestSteps
<1>5. Buffer(ts, n) \in Seq(Samples)
  <2>1. io_buf \in Seq(Samples)
    BY DEF SenderInv
  <2> QED
    BY <1>1, <2>1, ResizedTyped DEF Buffer
<1>6. out = [k \in 1..count |-> Amplified(Taken(ts, n)[k])]
  BY DEF Outgoing
<1> HIDE DEF after, pos, count, out
<1>7. \A k \in 1..count : out[k] = Sample(pos + k - 1, 1) /\ out[k] \in Samples
  <2> TAKE k \in 1..count
  <2>1. out[k] = Amplified(Sample(pos + k - 1, 0)) /\ pos + k - 1 \in Positions
    BY <1>1, <1>6
  <2> QED
    BY <2>1, SampleIsAmplified, SampleTyped
<1>8. out \in Seq(Samples) /\ Len(out) = count
  <2>1. out = [k \in 1..count |-> out[k]]
    BY <1>6
  <2> QED
    BY <1>1, <1>7, <2>1, Listed
<1>9. IsRun(out, pos)
  BY <1>7, <1>8 DEF IsRun
<1>10. io_buf' \in Seq(Samples)
  BY <1>1, <1>4, <1>5, <1>8, BufferRefilled
<1>11. sent \in Seq(Samples) /\ last_end \in Nat \cup {-1} /\ ts \in Nat /\ n \in Nat
  BY ConstantsTyped DEF SenderInv, NoEnd, Positions
<1>12. \E first \in Nat : first + Len(sent) = pos /\ IsRun(sent, first)
  <2>1. CASE ring.first_write
    <3>1. sent = <<>>
      BY <2>1 DEF SenderInv
    <3>2. pos + Len(sent) = pos /\ IsRun(sent, pos)
      BY <1>1, <3>1 DEF IsRun
    <3> QED
      BY <1>1, <3>2
  <2>2. CASE ~ring.first_write
    BY <2>2 DEF SenderInv, SentUpTo, pos, ReadFrom
  <2> QED
    BY <2>1, <2>2
<1>13. PICK first \in Nat : first + Len(sent) = pos /\ IsRun(sent, first)
  BY <1>12
<1>14. /\ sent' \in Seq(Samples) /\ Len(sent') = Len(sent) + count
       /\ IsRun(sent', first)
  BY <1>4, <1>8, <1>9, <1>11, <1>13, RunsJoin
<1>15. Len(sent') > 0
  <2>1. CASE ring.first_write
    BY <1>1, <1>11, <1>14, <2>1
  <2>2. CASE ~ring.first_write
    <3>1. Len(sent) > 0
      BY <2>2 DEF SenderInv
    <3> QED
      BY <1>1, <1>11, <1>14, <3>1
  <2> QED
    BY <2>1, <2>2
<1>16. SentUpTo(ring.tail)'
  <2>1. first + Len(sent') = after.tail
    <3>1. Len(sent) \in Nat
      BY <1>11
    <3>2. Len(sent') = Len(sent) + count /\ first + Len(sent) = pos
      BY <1>13, <1>14
    <3>3. pos \in Nat /\ count \in Nat /\ pos + count = after.tail
      BY <1>1
    <3> QED
      BY <3>1, <3>2, <3>3
  <2>2. first + Len(sent') = ring'.tail /\ IsRun(sent', first)
    BY <1>4, <1>14, <2>1
  <2> QED
    BY <2>2 DEF SentUpTo, IsRun
<1>17. /\ ring_buf_pos' = ring'.tail /\ last_end' = ring'.tail /\ ring'.tail \in Nat
       /\ Whole(ring', Samples) /\ ~ring'.first_write
  <2>1. after.tail \in Nat
    BY <1>1, RingFields DEF Whole
  <2> QED
    BY <1>1, <1>4, <2>1
<1> QED
  <2>1. running' \in BOOLEAN
    BY <1>4 DEF SenderInv
  <2>2. ring_buf_pos' \in Nat /\ last_end' \in Nat \cup {NoEnd}
    BY <1>17
  <2> QED
    BY <1>3, <1>10, <1>14, <1>15, <1>16, <1>17, <2>1, <2>2 DEF SenderInv

-----------------------------------------------------------------------------
(* The invariant and what follows from it.                                 *)

LEMMA InitSender == Init => SenderInv
<1> SUFFICES ASSUME Init PROVE SenderInv
  OBVIOUS
<1>1. Whole(ring, Samples) /\ ring.first_write
  BY SilenceTyped, RestartedIsWhole DEF Init
<1>2. io_buf \in Seq(Samples)
  <2>1. io_buf = [k \in 1..BufSize |-> io_buf[k]] /\ \A k \in 1..BufSize : io_buf[k] \in Samples
    BY SilenceTyped DEF Init
  <2> QED
    BY <2>1, ConstantsTyped, Listed
<1>3. sent = <<>> /\ sent \in Seq(Samples) /\ last_end = NoEnd /\ last_end < BufSize
  BY ConstantsTyped DEF Init, NoEnd
<1> QED
  BY <1>1, <1>2, <1>3 DEF Init, SenderInv

LEMMA NextSender ==
    ASSUME CloseRequests
    PROVE  SenderInv /\ [Next]_vars => SenderInv'
<1> SUFFICES ASSUME SenderInv, [Next]_vars PROVE SenderInv'
  OBVIOUS
<1>1. CASE OnStartIO
  <2>1. Whole(ring', Samples) /\ ring'.first_write
    BY <1>1, SilenceTyped, RestartedIsWhole DEF OnStartIO
  <2>2. sent' = <<>> /\ sent' \in Seq(Samples) /\ last_end' = NoEnd /\ last_end' < BufSize
    BY <1>1, ConstantsTyped DEF OnStartIO, NoEnd
  <2>3. running' = TRUE /\ UNCHANGED <<ring_buf_pos, io_buf, served>>
    BY <1>1 DEF OnStartIO
  <2> QED
    BY <2>1, <2>2, <2>3 DEF SenderInv
<1>2. CASE OnStopIO
  BY <1>2 DEF OnStopIO, SenderInv, SentUpTo, IsRun
<1>3. ASSUME NEW ts \in Positions, NEW n \in 1..MaxWrite, ts + n - 1 <= MaxPosition,
             OnWriteMixedOutput(ts, n)
      PROVE  SenderInv'
  BY <1>3, DroppedRequest, RequestSent
<1>4. CASE UNCHANGED vars
  BY <1>4 DEF vars, SenderInv, SentUpTo, IsRun
<1> QED
  BY <1>1, <1>2, <1>3, <1>4 DEF Next

\* In every state of the sender SenderInv holds: no request meets an assertion of the
\* ring buffer or leaves a buffer, and what was sent ends where the window ends.
THEOREM SenderIsInStep ==
    ASSUME CloseRequests
    PROVE  Spec => []SenderInv
<1>1. SenderInv /\ [Next]_vars => SenderInv'
  BY NextSender
<1> QED
  BY <1>1, InitSender, PTL DEF Spec

\* The variables of the sender have their types.
THEOREM SenderTyped ==
    ASSUME CloseRequests
    PROVE  Spec => []TypeOK
<1>1. SenderInv => TypeOK
  BY DEF SenderInv, TypeOK, Whole
<1>2. Spec => []SenderInv
  BY SenderIsInStep
<1> QED
  BY <1>1, <1>2, PTL

\* The network gets consecutive positions, each amplified once, whatever requests the
\* HAL makes and however they overlap.
THEOREM SamplesGoInOrder ==
    ASSUME CloseRequests
    PROVE  Spec => []SentInOrder
<1>1. SenderInv => SentInOrder
  <2> SUFFICES ASSUME SenderInv, NEW k \in 1..Len(sent)
               PROVE  sent[k] = Sample(sent[1].position + k - 1, 1)
    BY DEF SentInOrder
  <2>1. ring.first_write \in BOOLEAN /\ sent \in Seq(Samples)
    BY RingFields DEF SenderInv, Whole
  <2>2. ~ring.first_write
    BY <2>1 DEF SenderInv
  <2>3. PICK first \in Nat : IsRun(sent, first)
    BY <2>2 DEF SenderInv, SentUpTo
  <2>4. sent[1] = Sample(first + 1 - 1, 1) /\ sent[k] = Sample(first + k - 1, 1)
    BY <2>1, <2>3 DEF IsRun
  <2>5. sent[1].position = first
    BY <2>4 DEF Sample
  <2> QED
    BY <2>4, <2>5
<1>2. Spec => []SenderInv
  BY SenderIsInStep
<1> QED
  BY <1>1, <1>2, PTL

\* After each request everything that the ring buffer accepted has been sent.
THEOREM NothingWaits ==
    ASSUME CloseRequests
    PROVE  Spec => []AllSent
<1>1. SenderInv => AllSent
  <2> SUFFICES ASSUME SenderInv, ~ring.first_write
               PROVE  /\ ring_buf_pos = ring.tail
                      /\ sent # <<>>
                      /\ sent[Len(sent)].position = ring.tail - 1
    BY DEF AllSent
  <2>1. sent \in Seq(Samples) /\ Len(sent) > 0 /\ ring_buf_pos = ring.tail
    BY DEF SenderInv
  <2>2. PICK first \in Nat : first + Len(sent) = ring.tail /\ IsRun(sent, first)
    BY DEF SenderInv, SentUpTo
  <2>3. sent[Len(sent)] = Sample(first + Len(sent) - 1, 1)
    BY <2>1, <2>2 DEF IsRun
  <2>4. sent[Len(sent)].position = ring.tail - 1
    BY <2>1, <2>2, <2>3 DEF Sample
  <2> QED
    BY <2>1, <2>4
<1>2. Spec => []SenderInv
  BY SenderIsInStep
<1> QED
  BY <1>1, <1>2, PTL

\* No request runs into an assertion of the ring buffer or out of a buffer.
THEOREM SenderRequestsFit ==
    ASSUME CloseRequests
    PROVE  Spec => []RequestsFit
<1>1. SenderInv => RequestsFit
  BY DEF SenderInv, RequestsFit
<1>2. Spec => []SenderInv
  BY SenderIsInStep
<1> QED
  BY <1>1, <1>2, PTL

=============================================================================
