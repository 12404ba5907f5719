---------------------------- MODULE RingBuffer -----------------------------
(***************************************************************************)
(* The ring buffer between the HAL and roc, driver/ring_buffer.cpp, as     *)
(* operators on a ring:                                                    *)
(*   data           buf_data_, by physical offset                          *)
(*   off            buf_off_, the physical offset of the logical head      *)
(*   head, tail     head_ts_ and tail_ts_: the window [head, tail)         *)
(*   first_write    first_write_, nothing was written since the restart    *)
(* Timestamps are absolute sample positions; those of the code have 64     *)
(* bits and do not come near their limit.                                  *)
(***************************************************************************)
EXTENDS Integers, Sequences

CONSTANTS
    BufSize,        \* buf_size_
    Silence         \* the sample 0

ASSUME BufSizeAssumption == BufSize \in Nat \ {0}

Smaller(a, b) == IF a < b THEN a ELSE b
Larger(a, b) == IF a > b THEN a ELSE b

Offsets == 0..(BufSize - 1)

Rings(Samples) ==
    [data : [Offsets -> Samples], off : Offsets, head : Nat, tail : Nat,
     first_write : BOOLEAN]

\* restart(), which the constructor calls too.
Restarted ==
    [data |-> [offset \in Offsets |-> Silence], off |-> 0, head |-> 0, tail |-> 0,
     first_write |-> TRUE]

\* Mutation: one sample more than is needed.
NeedWriteOneMore(ring, ts) ==
    IF ring.first_write \/ ts < ring.tail THEN 0
    ELSE Smaller(ts - ring.tail + 1, BufSize)

\* n_need_write: how much to append so that samples up to ts can be read.
NeedWrite(ring, ts) ==
    IF ring.first_write \/ ts < ring.tail THEN 0
    ELSE Smaller(ts - ring.tail, BufSize)

\* Mutation: the last sample is left for the next call.
CanReadOneLess(ring, ts) ==
    IF ring.first_write \/ ts >= ring.tail THEN 0
    ELSE Smaller(ring.tail - ts - 1, BufSize)

\* n_can_read: how much was written since ts.
CanRead(ring, ts) ==
    IF ring.first_write \/ ts >= ring.tail THEN 0
    ELSE Smaller(ring.tail - ts, BufSize)

\* Where the sample at position ts is kept.
Offset(ring, ts) == (ring.off + ts - ring.head) % BufSize

\* copy_to_buffer_ and copy_from_buffer_ go from offset begin up to offset
\* (begin + n) % buf_size_, around the end of the data if need be: they transfer
\* n samples when n is less than the size, and none when n equals it.
Transferred(n) == n % BufSize

\* A first write that ends before position buf_size_ is dropped: the head of the
\* window would be negative.
Dropped(ring, ts, n) == n = 0 \/ (ring.first_write /\ ts + n < BufSize)

FirstMoved(ring, ts, n) ==
    [ring EXCEPT !.tail = ts + n, !.head = ts + n - BufSize, !.off = 0,
                 !.first_write = FALSE]

\* Mutation: buf_off_ is not wrapped around.
MovedUnwrapped(ring, ts, n) ==
    IF ring.first_write THEN FirstMoved(ring, ts, n)
    ELSE LET tail == Larger(ring.tail, ts + n)
             head == Larger(ring.head, tail - BufSize)
         IN  [ring EXCEPT !.tail = tail, !.head = head,
                          !.off = @ + head - ring.head]

\* Mutation: the head moves and its offset does not.
MovedWithoutOffset(ring, ts, n) ==
    IF ring.first_write THEN FirstMoved(ring, ts, n)
    ELSE LET tail == Larger(ring.tail, ts + n)
         IN  [ring EXCEPT !.tail = tail, !.head = Larger(ring.head, tail - BufSize)]

\* Mutation: every write extends the window by its length.
MovedByLength(ring, ts, n) ==
    IF ring.first_write THEN FirstMoved(ring, ts, n)
    ELSE [ring EXCEPT !.tail = @ + n, !.head = @ + n, !.off = (@ + n) % BufSize]

\* The window after a write of n samples at ts: the tail never goes back, and the
\* head follows it at a distance of buf_size_.
Moved(ring, ts, n) ==
    IF ring.first_write THEN FirstMoved(ring, ts, n)
    ELSE LET tail == Larger(ring.tail, ts + n)
             head == Larger(ring.head, tail - BufSize)
         IN  [ring EXCEPT !.tail = tail, !.head = head,
                          !.off = (@ + head - ring.head) % BufSize]

\* write() aborts on the assertion of copy_to_buffer_ when the samples begin
\* before the window: it is then too late for them, or they do not fit.
WriteAborts(ring, ts, n) ==
    ~Dropped(ring, ts, n) /\ ts < Moved(ring, ts, n).head

\* write() in the other cases; it cuts n_samples to the size of the buffer.
Written(ring, ts, samples) ==
    LET n == Len(samples)
        moved == Moved(ring, ts, n)
        begin == Offset(moved, ts)
        Place(offset) == (offset - begin) % BufSize
    IN  IF Dropped(ring, ts, n) THEN ring
        ELSE [moved EXCEPT !.data = [offset \in Offsets |->
                IF Place(offset) < Transferred(Smaller(n, BufSize))
                THEN samples[Place(offset) + 1]
                ELSE moved.data[offset]]]

\* Mutation: what lies before the window is read too.
FromAnywhere(ring, ts) == ts

\* The part of [ts, ts + n) inside the window.  It is empty in two ways: next to
\* the window, and away from it, and then the code's unsigned difference
\* to_ts - from_ts wraps around.
From(ring, ts) == Larger(ts, ring.head)
To(ring, ts, n) == Smaller(ts + n, ring.tail)

\* The silence before and after the window exceeds the caller's n samples.
ReadOverruns(ring, ts, n) ==
    /\ n > 0
    /\ ~ring.first_write
    /\ To(ring, ts, n) < From(ring, ts)

\* read() in the other cases: what the caller finds in the n samples that held
\* target before.
ReadInto(ring, ts, n, target) ==
    LET from == From(ring, ts)
        to == To(ring, ts, n)
        At(position) ==
            IF ring.first_write \/ position < from \/ position >= to THEN Silence
            ELSE IF position - from < Transferred(to - from)
                 THEN ring.data[Offset(ring, position)]
            ELSE target[position - ts + 1]
    IN  [k \in 1..n |-> At(ts + k - 1)]

=============================================================================
