------------------------------ MODULE SenderIO ------------------------------
(***************************************************************************)
(* The I/O of a sender device (virtual speakers):                          *)
(* RequestHandler::OnWriteMixedOutput with the ring buffer and the network *)
(* sender.  The HAL writes the samples that it mixed from all apps; what   *)
(* is new in the ring buffer goes to the network.                          *)
(*                                                                         *)
(* A sample is the position it is played at and the number of times the    *)
(* volume was applied to it.                                               *)
(***************************************************************************)
EXTENDS RingBuffer

CONSTANTS
    MaxWrite,       \* the longest request, in samples
    MaxLag,         \* how far before the furthest end so far a request may begin
    MaxGap,         \* how far beyond it
    MaxPosition     \* bound: the last position written

ASSUME SenderAssumption ==
    /\ MaxWrite \in Nat \ {0} /\ MaxLag \in Nat /\ MaxGap \in Nat /\ MaxPosition \in Nat
    \* A sample of the HAL is told from the silence of the ring buffer.
    /\ Silence \notin [position : 0..MaxPosition, gain : 0..1]

VARIABLES
    running,        \* between OnStartIO and OnStopIO
    ring,           \* ring_buf_
    ring_buf_pos,   \* ring_buf_pos_: what is before it was sent
    io_buf,         \* io_buf_
    last_end,       \* the furthest end of the HAL's requests in the session
    sent,           \* what the network sender was given in this session
    served          \* no request ran into an assertion or out of a buffer

vars == <<running, ring, ring_buf_pos, io_buf, last_end, sent, served>>

Positions == 0..MaxPosition

Sample(position, gain) == [position |-> position, gain |-> gain]

Amplified(sample) ==
    IF sample = Silence THEN sample ELSE [sample EXCEPT !.gain = @ + 1]

\* No request has been made in this session.
NoEnd == -1

Init ==
    /\ running = FALSE
    /\ ring = Restarted
    /\ ring_buf_pos = 0
    /\ io_buf = [k \in 1..BufSize |-> Silence]
    /\ last_end = NoEnd
    /\ sent = <<>>
    /\ served = TRUE

\* Mutation: the ring buffer keeps the window of the last session.
OnStartIOKeepingWindow ==
    /\ ~running
    /\ running' = TRUE
    /\ last_end' = NoEnd
    /\ sent' = <<>>
    /\ UNCHANGED <<ring, ring_buf_pos, io_buf, served>>

\* The ring buffer starts from a clean state; ring_buf_pos_ and io_buf_ keep what
\* they have.
OnStartIO ==
    /\ ~running
    /\ running' = TRUE
    /\ ring' = Restarted
    /\ last_end' = NoEnd
    /\ sent' = <<>>
    /\ UNCHANGED <<ring_buf_pos, io_buf, served>>

OnStopIO ==
    /\ running
    /\ running' = FALSE
    /\ UNCHANGED <<ring, ring_buf_pos, io_buf, last_end, sent, served>>

\* Requests of a session follow each other closely.
Near(ts) ==
    last_end # NoEnd => ts >= last_end - MaxLag /\ ts <= last_end + MaxGap

\* io_buf_ grows to hold n samples.
Resized(buf, n) ==
    [k \in 1..Larger(n, Len(buf)) |-> IF k <= Len(buf) THEN buf[k] ELSE Silence]

\* The samples are copied to the ring buffer; then all that can be read since the
\* position reached last is taken from it, amplified and sent.
OnWriteMixedOutput(ts, n) ==
    LET samples == [k \in 1..n |-> Sample(ts + k - 1, 0)]
        pos == IF ring.first_write THEN ts ELSE ring_buf_pos
        ring1 == Written(ring, ts, samples)
        rd_samples == CanRead(ring1, pos)
        buf == Resized(io_buf, rd_samples)
        taken == ReadInto(ring1, pos, rd_samples, buf)
        amplified == [k \in 1..rd_samples |-> Amplified(taken[k])]
    IN  /\ running
        /\ served
        /\ Near(ts)
        /\ ring' = ring1
        /\ ring_buf_pos' = pos + rd_samples
        /\ io_buf' = amplified \o SubSeq(buf, rd_samples + 1, Len(buf))
        /\ sent' = sent \o amplified
        /\ last_end' = Larger(last_end, ts + n)
        /\ served' = /\ ~WriteAborts(ring, ts, n)
                     /\ ~ReadOverruns(ring1, pos, rd_samples)
        /\ UNCHANGED running

Next ==
    \/ OnStartIO
    \/ OnStopIO
    \/ \E ts \in Positions, n \in 1..MaxWrite :
            ts + n - 1 <= MaxPosition /\ OnWriteMixedOutput(ts, n)

Spec == Init /\ [][Next]_vars

-----------------------------------------------------------------------------
Samples == [position : Positions, gain : 0..1] \cup {Silence}

TypeOK ==
    /\ running \in BOOLEAN
    /\ ring \in Rings(Samples)
    /\ ring_buf_pos \in Nat
    /\ io_buf \in Seq(Samples)
    /\ last_end \in Nat \cup {NoEnd}
    /\ sent \in Seq(Samples)
    /\ served \in BOOLEAN

\* The network gets the mixed samples in the order of their positions, without a
\* gap, each once and amplified once, however the HAL's requests overlap and
\* wherever a session starts: a sample that was sent is not sent again when a
\* later request writes its position anew.
SentInOrder ==
    \A k \in 1..Len(sent) : sent[k] = Sample(sent[1].position + k - 1, 1)

\* Nothing waits in the ring buffer between requests: after each one everything
\* that the buffer accepted has been sent, from the first sample accepted on.
AllSent ==
    running /\ ~ring.first_write =>
        /\ ring_buf_pos = ring.tail
        /\ sent # <<>>
        /\ sent[Len(sent)].position = ring.tail - 1

\* Requests that follow each other closely never meet the assertions of the ring
\* buffer or leave the buffers.
RequestsFit == served

=============================================================================
