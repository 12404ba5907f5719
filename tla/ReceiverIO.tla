----------------------------- MODULE ReceiverIO -----------------------------
(***************************************************************************)
(* The I/O of a receiver device (virtual microphone):                      *)
(* RequestHandler::OnReadClientInput with the ring buffer and the network  *)
(* receiver.  Several apps read the same device; their requests are        *)
(* serialised by libASPL, but come at positions that overlap or leave gaps *)
(* (the comment at request_handler.cpp:78).                                *)
(*                                                                         *)
(* The network delivers a sequence of samples, numbered by id; gain counts *)
(* how often the volume was applied to a sample.                           *)
(***************************************************************************)
EXTENDS RingBuffer

CONSTANTS
    MaxRead,        \* the longest request, in samples
    MaxLag,         \* how far behind the HAL's clock a request may begin
    MaxAdvance,     \* how far the clock moves from one request to the next
    Starts,         \* the positions at which the clock may be when I/O starts
    MaxClock,       \* bound: the last value of the clock
    MaxFetched,     \* bound: the most samples fetched in a session
    Faults,         \* "network": a read from the network may fail
    Untouched       \* what is in a client's buffer before it is filled

ASSUME ReceiverAssumption ==
    /\ MaxRead \in Nat \ {0} /\ MaxLag \in Nat /\ MaxAdvance \in Nat
    /\ MaxClock \in Nat /\ MaxFetched \in Nat
    /\ Starts \subseteq 0..MaxClock
    /\ Faults \subseteq {"network"}
    \* The network's samples are numbered from 1.
    /\ Silence \in [id : {0}, gain : 0..2]

VARIABLES
    running,        \* between OnStartIO and OnStopIO
    ring,           \* ring_buf_
    io_buf,         \* io_buf_
    fetched,        \* how many samples the network has delivered
    failed,         \* whether a read from the network failed
    clock,          \* the HAL's position
    origin,         \* the position of the first sample kept, and its id
    answer          \* the last request and what the client found in its buffer

vars == <<running, ring, io_buf, fetched, failed, clock, origin, answer>>

Positions == 0..(MaxClock + MaxRead)
Ids == 0..MaxFetched

Sample(id, gain) == [id |-> id, gain |-> gain]

\* In io_buf_ a failed read leaves samples that were amplified before.  Twice and
\* more often are not told apart.
Amplified(sample) ==
    IF sample = Silence THEN sample
    ELSE [sample EXCEPT !.gain = Smaller(@ + 1, 2)]

Nothing == [ts |-> 0, samples |-> <<>>, served |-> TRUE]
NoOrigin == [ts |-> MaxClock + MaxRead + 1, id |-> 0]

Init ==
    /\ running = FALSE
    /\ ring = Restarted
    /\ io_buf = [k \in 1..BufSize |-> Silence]
    /\ fetched = 0
    /\ failed = FALSE
    /\ clock = 0
    /\ origin = NoOrigin
    /\ answer = Nothing

\* Mutation: the buffer keeps the window of the last session.
OnStartIOKeepingWindow ==
    /\ ~running
    /\ running' = TRUE
    /\ clock' \in Starts
    /\ fetched' = 0
    /\ failed' = FALSE
    /\ origin' = NoOrigin
    /\ answer' = Nothing
    /\ UNCHANGED <<ring, io_buf>>

\* The first app connects.  The buffer starts from a clean state, whatever the
\* positions of the last session were; io_buf_ is not cleared.
OnStartIO ==
    /\ ~running
    /\ running' = TRUE
    /\ ring' = Restarted
    /\ clock' \in Starts
    /\ fetched' = 0
    /\ failed' = FALSE
    /\ origin' = NoOrigin
    /\ answer' = Nothing
    /\ UNCHANGED io_buf

\* The last app disconnects; pausing the receiver is not implemented.
OnStopIO ==
    /\ running
    /\ running' = FALSE
    /\ UNCHANGED <<ring, io_buf, fetched, failed, clock, origin, answer>>

\* Receiver::read: the first n samples of io_buf_ are replaced, or, when roc
\* reports an error, left as they are.
NetRead(n, ok) ==
    [k \in 1..n |-> IF ok THEN Sample(fetched + k, 0)
                    ELSE IF k <= Len(io_buf) THEN io_buf[k] ELSE Silence]

\* Enough samples are fetched, amplified and appended for the request to be
\* served; then it is served from the buffer.
Serve(ts, n, ok) ==
    LET first == ring.first_write
        wr_samples == IF first THEN n ELSE NeedWrite(ring, ts + n)
        net == NetRead(wr_samples, ok)
        appended == [k \in 1..wr_samples |-> Amplified(net[k])]
        at == IF first THEN ts ELSE ring.tail
        ring1 == Written(ring, at, appended)
        served == ~WriteAborts(ring, at, wr_samples) /\ ~ReadOverruns(ring1, ts, n)
        samples == IF ~served THEN <<>>
                   ELSE ReadInto(ring1, ts, n, [k \in 1..n |-> Untouched])
    IN  /\ ring' = ring1
        /\ io_buf' = appended \o SubSeq(io_buf, wr_samples + 1, Len(io_buf))
        /\ fetched' = fetched + (IF ok THEN wr_samples ELSE 0)
        /\ failed' = (failed \/ ~ok)
        /\ origin' = IF first /\ ~ring1.first_write
                     THEN [ts |-> ts, id |-> fetched + 1] ELSE origin
        /\ answer' = [ts |-> ts, samples |-> samples, served |-> served]

\* A request of an app: the clock has moved on, and the app lags behind it.
OnReadClientInput(advance, lag, n) ==
    /\ running
    /\ answer.served
    /\ fetched + BufSize <= MaxFetched
    /\ clock + advance <= MaxClock
    /\ clock + advance >= lag
    /\ clock' = clock + advance
    /\ \E ok \in {TRUE} \cup (IF "network" \in Faults THEN {FALSE} ELSE {}) :
            Serve(clock' - lag, n, ok)
    /\ UNCHANGED running

Next ==
    \/ OnStartIO
    \/ OnStopIO
    \/ \E advance \in 0..MaxAdvance, lag \in 0..MaxLag, n \in 1..MaxRead :
            OnReadClientInput(advance, lag, n)

Spec == Init /\ [][Next]_vars

-----------------------------------------------------------------------------
Samples == [id : Ids, gain : 0..2]

TypeOK ==
    /\ running \in BOOLEAN
    /\ ring \in Rings(Samples)
    /\ io_buf \in Seq(Samples)
    /\ fetched \in Nat
    /\ failed \in BOOLEAN
    /\ clock \in 0..MaxClock
    /\ origin \in [ts : Nat, id : Ids]
    /\ answer.served \in BOOLEAN /\ answer.ts \in Positions

\* The stream on the HAL's time line: once the first sample has got a position,
\* every later sample of the network follows at the next position.
Expected(position) ==
    IF position < origin.ts THEN Silence
    ELSE Sample(origin.id + position - origin.ts, 1)

\* "Overlapping or sparse read requests are possible" (request_handler.cpp:78):
\* however sparse they are, the handler fills the client's buffer and no more.
AlwaysServed == answer.served

\* While the network delivers, every request is served with exactly the stream's
\* samples at its positions, each amplified once: none is skipped, repeated or
\* shifted, however the requests of several apps overlap
\* (request_handler.cpp:77-79).  When it fails, requests are still served.
RequestsServed ==
    /\ AlwaysServed
    /\ \A k \in 1..Len(answer.samples) :
            ~ring.first_write /\ ~failed => answer.samples[k] = Expected(answer.ts + k - 1)

\* The network is read no faster than the HAL's clock, failed reads included, and
\* what was fetched is what the time line has room for.
NetworkKeepsPace ==
    ~ring.first_write =>
        /\ ~failed => ring.tail = origin.ts + fetched - origin.id + 1
        /\ ring.tail <= clock + MaxRead

\* Apps that ask for the same position one after the other hear the same sample,
\* even when a read from the network fails.
ClientsAgree ==
    [][ ~ring.first_write =>
            \A j \in 1..Len(answer.samples), k \in 1..Len(answer'.samples) :
                answer.ts + j = answer'.ts + k
                    => answer'.samples[k] = answer.samples[j] ]_vars

=============================================================================
