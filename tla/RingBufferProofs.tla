-------------------------- MODULE RingBufferProofs ---------------------------
(***************************************************************************)
(* What the operations of the ring buffer do to the samples in its window, *)
(* whatever its size: each position of the window has an offset of its     *)
(* own, a write replaces its own samples and no others, a read finds what  *)
(* is kept at its positions and silence on either side.                    *)
(***************************************************************************)
EXTENDS RingBuffer, TLAPS

-----------------------------------------------------------------------------
(* Positions around the end of the data.                                   *)

LEMMA SizeIsPositive == BufSize \in Nat /\ BufSize > 0
  BY BufSizeAssumption

LEMMA Division ==
    ASSUME NEW n \in Nat \ {0}, NEW a \in Int
    PROVE  a \div n \in Int /\ a % n \in 0..(n - 1) /\ a % n = a - n * (a \div n)
  OBVIOUS

LEMMA Remainder ==
    ASSUME NEW n \in Nat \ {0}, NEW q \in Int, NEW r \in 0..(n - 1)
    PROVE  (n * q + r) % n = r
  OBVIOUS

LEMMA RemainderOfSmall ==
    ASSUME NEW n \in Nat \ {0}, NEW a \in 0..(n - 1)
    PROVE  a % n = a
  OBVIOUS

LEMMA RemainderOfNegative ==
    ASSUME NEW n \in Nat \ {0}, NEW a \in Int, a < 0, a >= -n
    PROVE  a % n = a + n
<1>1. n * (-1) + (a + n) = a
  OBVIOUS
<1>2. a + n \in 0..(n - 1)
  OBVIOUS
<1>3. (n * (-1) + (a + n)) % n = a + n
  BY <1>2, Remainder
<1> QED
  BY <1>1, <1>3

\* Taking the remainder early changes nothing.
LEMMA RemainderOfSum ==
    ASSUME NEW n \in Nat \ {0}, NEW a \in Int, NEW b \in Int
    PROVE  ((a % n) + b) % n = (a + b) % n
<1> DEFINE p == (a + b) \div n
           q == a \div n
           r == (a + b) % n
<1>1. q \in Int /\ a % n = a - n * q /\ p \in Int /\ r \in 0..(n - 1) /\ r = (a + b) - n * p
  BY Division
<1> HIDE DEF p, q, r
<1>2. (a % n) + b = n * (p - q) + r /\ p - q \in Int
  BY <1>1
<1>3. (n * (p - q) + r) % n = r
  BY <1>1, <1>2, Remainder
<1> QED
  BY <1>2, <1>3 DEF r

LEMMA RemainderOfDifference ==
    ASSUME NEW n \in Nat \ {0}, NEW a \in Int, NEW b \in Int
    PROVE  ((a % n) - (b % n)) % n = (a - b) % n
<1> DEFINE p == (a - b) \div n
           q == a \div n
           s == b \div n
           r == (a - b) % n
<1>1. /\ q \in Int /\ a % n = a - n * q /\ s \in Int /\ b % n = b - n * s
      /\ p \in Int /\ r \in 0..(n - 1) /\ r = (a - b) - n * p
  <2>1. q \in Int /\ a % n = a - n * q
    BY Division
  <2>2. s \in Int /\ b % n = b - n * s
    BY Division
  <2>3. p \in Int /\ r \in 0..(n - 1) /\ r = (a - b) - n * p
    BY Division
  <2> QED
    BY <2>1, <2>2, <2>3
<1> HIDE DEF p, q, r, s
<1>2. (a % n) - (b % n) = n * (p - q + s) + r /\ p - q + s \in Int
  <2>1. n * (p - q + s) = n * p - n * q + n * s
    BY <1>1
  <2>2. n * p \in Int /\ n * q \in Int /\ n * s \in Int
    BY <1>1
  <2> QED
    BY <1>1, <2>1, <2>2
<1>3. (n * (p - q + s) + r) % n = r
  BY <1>1, <1>2, Remainder
<1> QED
  BY <1>2, <1>3 DEF r

-----------------------------------------------------------------------------
(* The window and its offsets.                                             *)

\* A ring whose window, once there is one, has the size of the buffer.
Whole(ring, Samples) ==
    /\ ring \in Rings(Samples)
    /\ ~ring.first_write => ring.tail = ring.head + BufSize

LEMMA RingFields ==
    ASSUME NEW S, NEW ring \in Rings(S)
    PROVE  /\ ring.off \in Nat /\ ring.off < BufSize
           /\ ring.head \in Nat /\ ring.tail \in Nat /\ ring.first_write \in BOOLEAN
           /\ ring.data \in [Offsets -> S]
  BY SizeIsPositive DEF Rings, Offsets

LEMMA OffsetInData ==
    ASSUME NEW ring, ring.off \in Int, ring.head \in Int, NEW position \in Int
    PROVE  Offset(ring, position) \in Offsets
<1>1. ring.off + position - ring.head \in Int
  OBVIOUS
<1> QED
  BY <1>1, BufSizeAssumption, Division DEF Offset, Offsets

LEMMA RestartedIsWhole ==
    ASSUME NEW S, Silence \in S
    PROVE  Whole(Restarted, S) /\ Restarted.first_write
  BY SizeIsPositive DEF Whole, Restarted, Rings, Offsets

\* How far offset of a position is from that of ts.
LEMMA PlaceOfPosition ==
    ASSUME NEW ring, ring.off \in Int, ring.head \in Int,
           NEW ts \in Int, NEW position \in Int
    PROVE  (Offset(ring, position) - Offset(ring, ts)) % BufSize = (position - ts) % BufSize
<1> DEFINE a == ring.off + position - ring.head
           b == ring.off + ts - ring.head
<1>1. a \in Int /\ b \in Int /\ a - b = position - ts
  OBVIOUS
<1>2. Offset(ring, position) = a % BufSize /\ Offset(ring, ts) = b % BufSize
  BY DEF Offset
<1> HIDE DEF a, b
<1>3. ((a % BufSize) - (b % BufSize)) % BufSize = (a - b) % BufSize
  BY <1>1, BufSizeAssumption, RemainderOfDifference
<1> QED
  BY <1>1, <1>2, <1>3

-----------------------------------------------------------------------------
(* A write.                                                                *)

\* Where the window ends after a write of n samples at ts.
EndAfter(ring, ts, n) == IF ring.first_write THEN ts + n ELSE Larger(ring.tail, ts + n)

\* A write that is not dropped makes a window, or moves it without moving any of
\* its samples.
LEMMA WindowMoves ==
    ASSUME NEW S, NEW ring, Whole(ring, S), NEW ts \in Nat, NEW n \in Nat,
           ~Dropped(ring, ts, n)
    PROVE  /\ Whole(Moved(ring, ts, n), S)
           /\ ~Moved(ring, ts, n).first_write
           /\ Moved(ring, ts, n).data = ring.data
           /\ Moved(ring, ts, n).tail = EndAfter(ring, ts, n)
           /\ ~ring.first_write =>
                 \A position \in Int :
                   Offset(Moved(ring, ts, n), position) = Offset(ring, position)
<1> DEFINE moved == Moved(ring, ts, n)
<1>1. /\ ring \in Rings(S) /\ n > 0
      /\ ring.first_write => ts + n >= BufSize
      /\ ~ring.first_write => ring.tail = ring.head + BufSize
  BY SizeIsPositive DEF Whole, Dropped
<1>2. /\ ring.off \in Nat /\ ring.off < BufSize
      /\ ring.head \in Nat /\ ring.tail \in Nat /\ ring.first_write \in BOOLEAN
      /\ ring.data \in [Offsets -> S]
  BY <1>1, RingFields
<1>3. ring = [data |-> ring.data, off |-> ring.off, head |-> ring.head, tail |-> ring.tail,
              first_write |-> ring.first_write]
  BY <1>1 DEF Rings
<1>4. CASE ring.first_write
  <2>1. moved = [data |-> ring.data, off |-> 0, head |-> ts + n - BufSize, tail |-> ts + n,
                 first_write |-> FALSE]
    BY <1>3, <1>4 DEF Moved, FirstMoved
  <2>2. ts + n - BufSize \in Nat /\ ts + n \in Nat /\ 0 \in Offsets
    BY <1>1, <1>4, SizeIsPositive DEF Offsets
  <2> HIDE DEF moved
  <2>3. Whole(moved, S)
    BY <1>2, <2>1, <2>2, SizeIsPositive DEF Whole, Rings
  <2>4. moved.tail = EndAfter(ring, ts, n) /\ moved.data = ring.data /\ ~moved.first_write
    BY <1>4, <2>1 DEF EndAfter
  <2> QED
    BY <1>4, <2>3, <2>4 DEF moved
<1>5. CASE ~ring.first_write
  <2> DEFINE tail == Larger(ring.tail, ts + n)
             head == Larger(ring.head, tail - BufSize)
  <2>1. moved = [data |-> ring.data, off |-> (ring.off + head - ring.head) % BufSize,
                 head |-> head, tail |-> tail, first_write |-> FALSE]
    BY <1>2, <1>3, <1>5 DEF Moved
  <2>2. tail \in Nat /\ tail >= ring.tail /\ head = tail - BufSize /\ head \in Nat
    BY <1>1, <1>2, <1>5, SizeIsPositive DEF Larger
  <2>3. tail = EndAfter(ring, ts, n)
    BY <1>5 DEF EndAfter
  <2> HIDE DEF tail, head
  <2>4. (ring.off + head - ring.head) % BufSize \in Offsets
    <3>1. ring.off + head - ring.head \in Int
      BY <1>2, <2>2
    <3> QED
      BY <3>1, BufSizeAssumption, Division DEF Offsets
  <2> HIDE DEF moved
  <2>5. Whole(moved, S)
    BY <1>2, <2>1, <2>2, <2>4, SizeIsPositive DEF Whole, Rings
  <2>6. moved.tail = EndAfter(ring, ts, n) /\ moved.data = ring.data /\ ~moved.first_write
    BY <2>1, <2>3
  <2>7. ASSUME NEW position \in Int
        PROVE  Offset(moved, position) = Offset(ring, position)
    <3> DEFINE turned == ring.off + head - ring.head
               rest == position - head
    <3>1. turned \in Int /\ rest \in Int /\ turned + rest = ring.off + position - ring.head
      BY <1>2, <2>2
    <3>2. (turned % BufSize) \in Int
      BY <2>4 DEF Offsets
    <3>3. Offset(moved, position) = ((turned % BufSize) + position - head) % BufSize
      BY <2>1 DEF Offset
    <3>4. (turned % BufSize) + position - head = (turned % BufSize) + rest
      BY <2>2, <3>2
    <3> HIDE DEF turned, rest
    <3>5. ((turned % BufSize) + rest) % BufSize = (turned + rest) % BufSize
      BY <3>1, BufSizeAssumption, RemainderOfSum
    <3> QED
      BY <3>1, <3>3, <3>4, <3>5 DEF Offset
  <2> QED
    BY <1>5, <2>5, <2>6, <2>7 DEF moved
<1> QED
  BY <1>4, <1>5

\* In the window after the write, the places counted from ts on come before the
\* end of the samples exactly at the samples' own positions.
LEMMA PlacesOfSamples ==
    ASSUME NEW ts \in Int, NEW n \in Nat, n < BufSize,
           NEW head \in Int, head <= ts, ts + n <= head + BufSize,
           NEW position \in Int, position >= head, position < head + BufSize
    PROVE  /\ (position - ts) % BufSize < n <=> position \in ts..(ts + n - 1)
           /\ position >= ts => (position - ts) % BufSize = position - ts
<1>1. BufSize \in Nat \ {0}
  BY BufSizeAssumption
<1>2. CASE position >= ts
  <2>1. position - ts \in 0..(BufSize - 1)
    BY <1>1, <1>2
  <2>2. (position - ts) % BufSize = position - ts
    BY <1>1, <2>1, RemainderOfSmall
  <2> QED
    BY <1>2, <2>2
<1>3. CASE position < ts
  <2>1. position - ts \in Int /\ position - ts < 0 /\ position - ts >= -BufSize
    BY <1>1, <1>3
  <2>2. (position - ts) % BufSize = position - ts + BufSize
    BY <1>1, <2>1, RemainderOfNegative
  <2>3. position - ts + BufSize >= n
    BY <1>1
  <2> QED
    BY <1>1, <1>3, <2>2, <2>3
<1> QED
  BY <1>2, <1>3

LEMMA DataReplaced ==
    ASSUME NEW S, NEW ring \in Rings(S), NEW data
    PROVE  [ring EXCEPT !.data = data]
             = [data |-> data, off |-> ring.off, head |-> ring.head, tail |-> ring.tail,
                first_write |-> ring.first_write]
  BY DEF Rings

\* A write no longer than the buffer, which begins no further behind the tail than
\* the buffer is long, does not begin before the window that it makes.
LEMMA WriteFits ==
    ASSUME NEW S, NEW ring, Whole(ring, S), NEW ts \in Nat, NEW n \in Nat, n <= BufSize,
           ring.first_write \/ ts >= ring.tail - BufSize
    PROVE  ~WriteAborts(ring, ts, n)
<1> SUFFICES ASSUME ~Dropped(ring, ts, n)
             PROVE  ~(ts < Moved(ring, ts, n).head)
  BY DEF WriteAborts
<1> DEFINE moved == Moved(ring, ts, n)
<1>1. Whole(moved, S) /\ ~moved.first_write /\ moved.tail = EndAfter(ring, ts, n)
  BY WindowMoves
<1> HIDE DEF moved
<1>2. moved.head \in Nat /\ moved.tail \in Nat /\ moved.tail = moved.head + BufSize
  BY <1>1, RingFields DEF Whole
<1>3. ring.tail \in Nat /\ ring.first_write \in BOOLEAN
  BY RingFields DEF Whole
<1>4. ~(ts < moved.head)
  BY <1>1, <1>2, <1>3, SizeIsPositive DEF EndAfter, Larger
<1> QED
  BY <1>4 DEF moved

LEMMA TransferredIsShort ==
    ASSUME NEW n \in Nat
    PROVE  /\ Transferred(Smaller(n, BufSize)) \in 0..n
           /\ n < BufSize => Transferred(Smaller(n, BufSize)) = n
<1>1. BufSize \in Nat \ {0}
  BY BufSizeAssumption
<1>2. CASE n < BufSize
  <2>1. n \in 0..(BufSize - 1) /\ Smaller(n, BufSize) = n
    BY <1>1, <1>2 DEF Smaller
  <2>2. Transferred(n) = n
    BY <1>1, <2>1, RemainderOfSmall DEF Transferred
  <2> QED
    BY <2>1, <2>2
<1>3. CASE n >= BufSize
  <2>1. Smaller(n, BufSize) = BufSize
    BY <1>1, <1>3 DEF Smaller
  <2>2. BufSize % BufSize \in 0..(BufSize - 1)
    BY <1>1, Division
  <2> QED
    BY <1>1, <1>3, <2>1, <2>2 DEF Transferred
<1> QED
  BY <1>1, <1>2, <1>3

\* Whatever is written, the ring stays whole and moves as its window does.
LEMMA WriteIsWhole ==
    ASSUME NEW S, NEW ring, Whole(ring, S), NEW ts \in Nat,
           NEW samples \in Seq(S), ~Dropped(ring, ts, Len(samples))
    PROVE  LET n == Len(samples)
               moved == Moved(ring, ts, n)
               after == Written(ring, ts, samples)
               Place(offset) == (offset - Offset(moved, ts)) % BufSize
           IN  /\ Whole(after, S) /\ ~after.first_write
               /\ after.tail = EndAfter(ring, ts, n)
               /\ after.head = moved.head /\ after.off = moved.off
               /\ \A offset \in Offsets :
                     after.data[offset] =
                       IF Place(offset) < Transferred(Smaller(n, BufSize))
                       THEN samples[Place(offset) + 1] ELSE ring.data[offset]
<1> DEFINE n == Len(samples)
           moved == Moved(ring, ts, n)
           after == Written(ring, ts, samples)
           begin == Offset(moved, ts)
           Place(offset) == (offset - begin) % BufSize
           m == Transferred(Smaller(n, BufSize))
           data == [offset \in Offsets |->
                      IF Place(offset) < m THEN samples[Place(offset) + 1]
                      ELSE moved.data[offset]]
<1>1. /\ n \in Nat /\ BufSize \in Nat \ {0} /\ m \in 0..n
      /\ \A k \in 1..n : samples[k] \in S
  <2>1. n \in Nat /\ \A k \in 1..n : samples[k] \in S
    OBVIOUS
  <2> HIDE DEF n
  <2>2. m \in 0..n
    BY <2>1, TransferredIsShort
  <2> QED
    BY <2>1, <2>2, BufSizeAssumption
<1>2. /\ Whole(moved, S) /\ ~moved.first_write /\ moved.data = ring.data
      /\ moved.tail = EndAfter(ring, ts, n)
  BY <1>1, WindowMoves
<1>3. /\ moved.off \in Nat /\ moved.off < BufSize /\ moved.head \in Nat /\ moved.tail \in Nat
      /\ moved.data \in [Offsets -> S] /\ moved.tail = moved.head + BufSize
  BY <1>2, RingFields DEF Whole
<1>4. after = [moved EXCEPT !.data = data]
  BY DEF Written
<1>5. begin \in Int
  <2>1. begin \in Offsets
    BY <1>3, OffsetInData
  <2> QED
    BY <1>1, <2>1 DEF Offsets
<1>6. moved \in Rings(S) /\ moved.first_write = FALSE
  <2>1. moved \in Rings(S) /\ ~moved.first_write
    BY <1>2 DEF Whole
  <2> HIDE DEF moved
  <2> QED
    BY <2>1 DEF Rings
<1>7. after = [data |-> data, off |-> moved.off, head |-> moved.head,
               tail |-> moved.tail, first_write |-> moved.first_write]
  <2> HIDE DEF data, moved, after
  <2> QED
    BY <1>4, <1>6, DataReplaced
<1> HIDE DEF moved, after, begin, n, m
<1>8. data \in [Offsets -> S]
  <2>1. \A offset \in Offsets : Place(offset) \in Nat
    <3> TAKE offset \in Offsets
    <3>1. offset - begin \in Int
      BY <1>1, <1>5 DEF Offsets
    <3>2. (offset - begin) % BufSize \in 0..(BufSize - 1)
      BY <1>1, <3>1, Division
    <3> QED
      BY <1>1, <3>2
  <2> HIDE DEF Place
  <2>2. \A offset \in Offsets :
          (IF Place(offset) < m THEN samples[Place(offset) + 1] ELSE moved.data[offset]) \in S
    BY <1>1, <1>3, <2>1
  <2> QED
    BY <2>2
<1>9. /\ Whole(after, S) /\ ~after.first_write /\ after.tail = moved.tail
      /\ after.head = moved.head /\ after.off = moved.off
  <2> HIDE DEF data
  <2>1. moved.off \in Offsets
    BY <1>1, <1>3 DEF Offsets
  <2> QED
    BY <1>3, <1>6, <1>7, <1>8, <2>1 DEF Whole, Rings
<1>10. \A offset \in Offsets :
         after.data[offset] = IF Place(offset) < m THEN samples[Place(offset) + 1]
                              ELSE ring.data[offset]
  <2> HIDE DEF Place
  <2> QED
    BY <1>2, <1>7
<1> HIDE DEF Place, data
<1> USE DEF m, begin
<1>11. /\ Whole(after, S) /\ ~after.first_write
       /\ after.tail = EndAfter(ring, ts, n)
       /\ after.head = moved.head /\ after.off = moved.off
  BY <1>2, <1>9
<1> QED
  BY <1>10, <1>11 DEF n, moved, after, Place

\* The window that it leaves.
LEMMA WriteEnds ==
    ASSUME NEW S, NEW ring, Whole(ring, S), NEW ts \in Nat,
           NEW samples \in Seq(S), ~Dropped(ring, ts, Len(samples))
    PROVE  /\ Whole(Written(ring, ts, samples), S)
           /\ ~Written(ring, ts, samples).first_write
           /\ Written(ring, ts, samples).tail = EndAfter(ring, ts, Len(samples))
           /\ Written(ring, ts, samples).head = Moved(ring, ts, Len(samples)).head
  BY WriteIsWhole

\* A write that is neither dropped nor aborted, of fewer samples than the buffer
\* has, puts each sample at its position and leaves the rest of the window alone.
LEMMA WriteLands ==
    ASSUME NEW S, NEW ring, Whole(ring, S), NEW ts \in Nat,
           NEW samples \in Seq(S), Len(samples) < BufSize,
           ~Dropped(ring, ts, Len(samples)), ~WriteAborts(ring, ts, Len(samples))
    PROVE  LET n == Len(samples)
               moved == Moved(ring, ts, n)
               after == Written(ring, ts, samples)
           IN  \A position \in Int :
                 position >= after.head /\ position < after.tail =>
                   after.data[Offset(after, position)] =
                     IF position \in ts..(ts + n - 1) THEN samples[position - ts + 1]
                     ELSE ring.data[Offset(moved, position)]
<1> DEFINE n == Len(samples)
           moved == Moved(ring, ts, n)
           after == Written(ring, ts, samples)
           Place(offset) == (offset - Offset(moved, ts)) % BufSize
<1>1. n \in Nat /\ n < BufSize /\ Transferred(Smaller(n, BufSize)) = n
  BY TransferredIsShort
<1>2. /\ Whole(after, S) /\ ~after.first_write /\ after.tail = EndAfter(ring, ts, n)
      /\ after.head = moved.head /\ after.off = moved.off
      /\ \A offset \in Offsets :
            after.data[offset] = IF Place(offset) < n THEN samples[Place(offset) + 1]
                                 ELSE ring.data[offset]
  BY <1>1, WriteIsWhole
<1>3. /\ after.off \in Nat /\ after.head \in Nat /\ after.tail = after.head + BufSize
      /\ ring.tail \in Nat /\ after.head <= ts
  <2>1. after.off \in Nat /\ after.head \in Nat /\ after.tail = after.head + BufSize
    BY <1>2, RingFields DEF Whole
  <2>2. ~(ts < moved.head)
    BY DEF WriteAborts
  <2>3. ring.tail \in Nat
    BY RingFields DEF Whole
  <2> HIDE DEF after, moved
  <2> QED
    BY <1>2, <2>1, <2>2, <2>3
<1>4. ts + n <= after.head + BufSize
  <2>1. EndAfter(ring, ts, n) >= ts + n
    BY <1>1, <1>3 DEF EndAfter, Larger
  <2> HIDE DEF n, after
  <2> QED
    BY <1>2, <1>3, <2>1
<1> HIDE DEF moved, after, n
<1>5. ASSUME NEW position \in Int, position >= after.head, position < after.tail
      PROVE  after.data[Offset(after, position)] =
               IF position \in ts..(ts + n - 1) THEN samples[position - ts + 1]
               ELSE ring.data[Offset(moved, position)]
  <2>1. Offset(after, position) = Offset(moved, position)
    BY <1>2 DEF Offset
  <2>2. Offset(moved, position) \in Offsets
    BY <1>2, <1>3, OffsetInData
  <2>3. Place(Offset(moved, position)) = (position - ts) % BufSize
    BY <1>2, <1>3, PlaceOfPosition
  <2>4. /\ (position - ts) % BufSize < n <=> position \in ts..(ts + n - 1)
        /\ position >= ts => (position - ts) % BufSize = position - ts
    <3>1. position >= after.head /\ position < after.head + BufSize
      BY <1>3, <1>5
    <3>2. /\ ts \in Int /\ n \in Nat /\ n < BufSize /\ after.head \in Int
          /\ after.head <= ts /\ ts + n <= after.head + BufSize
      BY <1>1, <1>3, <1>4
    <3> QED
      BY <3>1, <3>2, PlacesOfSamples
  <2>5. after.data[Offset(moved, position)] =
          IF Place(Offset(moved, position)) < n
          THEN samples[Place(Offset(moved, position)) + 1]
          ELSE ring.data[Offset(moved, position)]
    BY <1>2, <2>2
  <2> HIDE DEF Place
  <2>6. CASE position \in ts..(ts + n - 1)
    BY <2>1, <2>3, <2>4, <2>5, <2>6
  <2>7. CASE position \notin ts..(ts + n - 1)
    BY <2>1, <2>3, <2>4, <2>5, <2>7
  <2> QED
    BY <2>6, <2>7
<1> QED
  BY <1>5 DEF n, moved, after

\* The samples of a write are all in the window after it.
LEMMA SampleLands ==
    ASSUME NEW S, NEW ring, Whole(ring, S), NEW ts \in Nat,
           NEW samples \in Seq(S), Len(samples) < BufSize,
           ~Dropped(ring, ts, Len(samples)), ~WriteAborts(ring, ts, Len(samples)),
           NEW position \in ts..(ts + Len(samples) - 1)
    PROVE  LET after == Written(ring, ts, samples)
           IN  /\ position >= after.head /\ position < after.tail
               /\ after.data[Offset(after, position)] = samples[position - ts + 1]
<1> DEFINE n == Len(samples)
           after == Written(ring, ts, samples)
<1>1. n \in Nat /\ position \in Int /\ position >= ts /\ position < ts + n
  OBVIOUS
<1>2. /\ Whole(after, S) /\ ~after.first_write /\ after.tail = EndAfter(ring, ts, n)
      /\ after.head = Moved(ring, ts, n).head
  BY WriteEnds
<1>3. ~(ts < after.head)
  BY <1>2 DEF WriteAborts
<1>4. after.head \in Nat /\ after.tail \in Nat /\ ring.tail \in Nat
  BY <1>2, RingFields DEF Whole
<1>5. /\ \A p \in Int :
           p >= after.head /\ p < after.tail =>
             after.data[Offset(after, p)] =
               IF p \in ts..(ts + n - 1) THEN samples[p - ts + 1]
               ELSE ring.data[Offset(Moved(ring, ts, n), p)]
  BY WriteLands
<1> HIDE DEF after, n
<1>6. position >= after.head /\ position < after.tail
  BY <1>1, <1>2, <1>3, <1>4 DEF EndAfter, Larger
<1>7. position \in ts..(ts + n - 1)
  BY DEF n
<1>8. after.data[Offset(after, position)] = samples[position - ts + 1]
  BY <1>1, <1>5, <1>6, <1>7
<1> QED
  BY <1>6, <1>8 DEF after

\* What a write leaves where it was: the samples of the old window that it does not
\* replace, and before the first write the silence that the buffer starts with.
LEMMA WriteKeeps ==
    ASSUME NEW S, NEW ring, Whole(ring, S), NEW ts \in Nat,
           NEW samples \in Seq(S), Len(samples) < BufSize,
           ~Dropped(ring, ts, Len(samples)), ~WriteAborts(ring, ts, Len(samples)),
           ts <= ring.tail \/ ring.first_write
    PROVE  LET after == Written(ring, ts, samples)
           IN  \A position \in Int :
                 /\ position >= after.head /\ position < after.tail
                 /\ position \notin ts..(ts + Len(samples) - 1)
                 => IF ring.first_write
                    THEN \E offset \in Offsets :
                           after.data[Offset(after, position)] = ring.data[offset]
                    ELSE /\ position >= ring.head /\ position < ring.tail
                         /\ after.data[Offset(after, position)]
                              = ring.data[Offset(ring, position)]
<1> DEFINE n == Len(samples)
           moved == Moved(ring, ts, n)
           after == Written(ring, ts, samples)
<1>1. n \in Nat /\ BufSize \in Nat \ {0}
  BY BufSizeAssumption
<1>2. /\ Whole(after, S) /\ ~after.first_write /\ after.tail = EndAfter(ring, ts, n)
      /\ \A position \in Int :
           position >= after.head /\ position < after.tail =>
             after.data[Offset(after, position)] =
               IF position \in ts..(ts + n - 1) THEN samples[position - ts + 1]
               ELSE ring.data[Offset(moved, position)]
  BY WriteLands, WriteIsWhole
<1>3. /\ Whole(moved, S)
      /\ ~ring.first_write =>
           \A position \in Int : Offset(moved, position) = Offset(ring, position)
  <2>1. ~Dropped(ring, ts, n)
    OBVIOUS
  <2> QED
    BY <1>1, <2>1, WindowMoves
<1>4. moved.off \in Int /\ moved.head \in Int
  BY <1>3, RingFields DEF Whole
<1>5. /\ ring.head \in Nat /\ ring.tail \in Nat
      /\ ~ring.first_write => ring.tail = ring.head + BufSize
      /\ after.head \in Nat /\ after.tail \in Nat /\ after.tail = after.head + BufSize
  BY <1>2, RingFields DEF Whole
<1> HIDE DEF n, moved, after
<1> SUFFICES ASSUME NEW position \in Int, position >= after.head, position < after.tail,
                    position \notin ts..(ts + n - 1)
             PROVE  IF ring.first_write
                    THEN \E offset \in Offsets :
                           after.data[Offset(after, position)] = ring.data[offset]
                    ELSE /\ position >= ring.head /\ position < ring.tail
                         /\ after.data[Offset(after, position)]
                              = ring.data[Offset(ring, position)]
  BY DEF n, after
<1>6. after.data[Offset(after, position)] = ring.data[Offset(moved, position)]
  BY <1>2
<1>7. CASE ring.first_write
  <2>1. Offset(moved, position) \in Offsets
    BY <1>4, OffsetInData
  <2> QED
    BY <1>6, <1>7, <2>1
<1>8. CASE ~ring.first_write
  <2>1. Offset(moved, position) = Offset(ring, position)
    BY <1>3, <1>8
  <2>2. after.tail = IF ring.tail > ts + n THEN ring.tail ELSE ts + n
    BY <1>2, <1>8 DEF EndAfter, Larger
  <2>3. ts <= ring.tail
    BY <1>8
  <2>4. ring.tail = ring.head + BufSize /\ ring.head \in Nat /\ ring.tail \in Nat
    BY <1>5, <1>8
  <2>5. position >= ring.head /\ position < ring.tail
    <3>1. CASE ring.tail > ts + n
      BY <1>1, <1>5, <2>2, <2>4, <3>1
    <3>2. CASE ~(ring.tail > ts + n)
      <4>1. after.tail = ts + n /\ after.head >= ring.head
        BY <1>1, <1>5, <2>2, <2>4, <3>2
      <4>2. position < ts
        BY <1>1, <4>1
      <4> QED
        BY <1>5, <2>3, <2>4, <4>1, <4>2
    <3> QED
      BY <3>1, <3>2
  <2> QED
    BY <1>6, <1>8, <2>1, <2>5
<1> QED
  BY <1>7, <1>8

-----------------------------------------------------------------------------
(* A read.                                                                 *)

\* A read of fewer samples than the buffer has, which does not overrun the
\* caller's buffer, fills all of it: with what is kept at the positions inside the
\* window, with silence at the others.
LEMMA ReadFinds ==
    ASSUME NEW S, NEW ring, Whole(ring, S), NEW ts \in Nat, NEW n \in Nat, n < BufSize,
           ~ReadOverruns(ring, ts, n), NEW target
    PROVE  \A k \in 1..n :
             ReadInto(ring, ts, n, target)[k] =
               IF \/ ring.first_write
                  \/ ts + k - 1 < ring.head \/ ts + k - 1 >= ring.tail
               THEN Silence
               ELSE ring.data[Offset(ring, ts + k - 1)]
<1> SUFFICES ASSUME NEW k \in 1..n
             PROVE  ReadInto(ring, ts, n, target)[k] =
                      IF \/ ring.first_write
                         \/ ts + k - 1 < ring.head \/ ts + k - 1 >= ring.tail
                      THEN Silence
                      ELSE ring.data[Offset(ring, ts + k - 1)]
  OBVIOUS
<1> DEFINE position == ts + k - 1
           from == From(ring, ts)
           to == To(ring, ts, n)
<1>1. /\ position \in Int /\ position >= ts /\ position < ts + n /\ n > 0
      /\ BufSize \in Nat \ {0} /\ ring.head \in Nat /\ ring.tail \in Nat
  BY BufSizeAssumption, RingFields DEF Whole
<1>2. ReadInto(ring, ts, n, target)[k] =
        IF ring.first_write \/ position < from \/ position >= to THEN Silence
        ELSE IF position - from < Transferred(to - from)
             THEN ring.data[Offset(ring, position)]
        ELSE target[position - ts + 1]
  BY DEF ReadInto
<1>3. CASE ring.first_write
  BY <1>2, <1>3
<1>4. CASE ~ring.first_write
  <2>1. /\ from \in Int /\ to \in Int /\ from >= ts /\ to <= ts + n
        /\ position < from <=> position < ring.head
        /\ position >= to <=> position >= ring.tail
    BY <1>1 DEF From, To, Larger, Smaller
  <2>2. ~(to < from)
    BY <1>1, <1>4 DEF ReadOverruns
  <2> HIDE DEF from, to, position
  <2>3. to - from \in 0..(BufSize - 1)
    BY <1>1, <2>1, <2>2
  <2>4. Transferred(to - from) = to - from
    BY <1>1, <2>3, RemainderOfSmall DEF Transferred
  <2>5. ReadInto(ring, ts, n, target)[k] =
          IF position < ring.head \/ position >= ring.tail THEN Silence
          ELSE ring.data[Offset(ring, position)]
    BY <1>1, <1>2, <1>4, <2>1, <2>4
  <2> QED
    BY <1>4, <2>5 DEF position
<1> QED
  BY <1>3, <1>4

=============================================================================
