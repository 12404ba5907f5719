------------------------- MODULE LogStreamingProofs -------------------------
(* A streamer is written to only while its handler runs, the driver is         *)
(* destroyed after its handlers, and a client misses nothing of the log but    *)
(* what the full queue drops, for any number of clients and any queue.         *)
EXTENDS LogStreaming, SequenceTheorems, TLAPS

\* A run of logcat asks for a stream only when the driver has forgotten the last
\* stream of that run.
SessionsStartAlone ==
    \A c \in Clients : client[c] \in {"retrying", "connected"} => handler[c] = "none"

\* The inductive invariant.
StreamingInv ==
    /\ TypeOK
    /\ StreamersHaveHandlers
    /\ DestroyedAlone
    /\ SessionsStartAlone

-----------------------------------------------------------------------------
(* The queue.                                                              *)

\* What may be logged next are messages.
LEMMA NextNumbersAreMessages ==
    ASSUME emitted \in Messages, NEW n \in {1, 2}, NEW numbers \in NextNumbers(n)
    PROVE  numbers \in [1..n -> Messages] /\ numbers[n] \in Messages
<1>1. MaxMessages \in Nat /\ Late = MaxMessages + 1
  BY LogAssumption DEF Late
<1>2. CASE numbers = [i \in 1..n |-> IF emitted + i < Late THEN emitted + i ELSE Late]
  BY <1>1, <1>2 DEF Messages
<1>3. CASE numbers = [i \in 1..n |-> 0]
  BY <1>1, <1>3 DEF Messages
<1> QED
  BY <1>2, <1>3 DEF NextNumbers

\* The end of a sequence that is too long by some elements.
LEMMA TailOfBacklog ==
    ASSUME NEW S, NEW backlog \in Seq(S), NEW size \in Nat, Len(backlog) > size
    PROVE  /\ SubSeq(backlog, Len(backlog) - size + 1, Len(backlog)) \in Seq(S)
           /\ Len(SubSeq(backlog, Len(backlog) - size + 1, Len(backlog))) = size
<1> DEFINE first == Len(backlog) - size + 1
<1>1. first \in Int /\ Len(backlog) \in Int /\ first >= 1
  OBVIOUS
<1>2. \A i \in first..Len(backlog) : backlog[i] \in S
  BY <1>1, ElementOfSeq
<1>3. /\ SubSeq(backlog, first, Len(backlog)) \in Seq(S)
      /\ Len(SubSeq(backlog, first, Len(backlog)))
           = IF first <= Len(backlog) THEN Len(backlog) - first + 1 ELSE 0
  BY <1>1, <1>2, SubSeqProperties
<1> QED
  BY <1>1, <1>3

\* Logging keeps the queue within its size and what it drops among the messages.
LEMMA PostKeepsLog ==
    ASSUME emitted \in Messages, queue \in Seq(Messages), Len(queue) <= QueueSize,
           dropped \subseteq 1..MaxMessages, NEW n \in {1, 2}, Post(n)
    PROVE  /\ emitted' \in Messages
           /\ queue' \in Seq(Messages) /\ Len(queue') <= QueueSize
           /\ dropped' \subseteq 1..MaxMessages
<1> PICK numbers \in NextNumbers(n) :
        LET backlog == queue \o numbers
            excess == Len(backlog) - QueueSize
        IN  /\ emitted' = numbers[n]
            /\ queue' = IF excess > 0 THEN SubSeq(backlog, excess + 1, Len(backlog))
                                      ELSE backlog
            /\ dropped' = dropped \cup ({backlog[i] : i \in 1..excess} \cap 1..MaxMessages)
  BY DEF Post
<1> DEFINE backlog == queue \o numbers
<1>1. numbers \in [1..n -> Messages] /\ numbers[n] \in Messages
  BY NextNumbersAreMessages
<1>2. numbers \in Seq(Messages)
  BY <1>1, IsASeq
<1>3. backlog \in Seq(Messages) /\ Len(backlog) \in Nat
  BY <1>2, ConcatProperties, LenProperties
<1>4. QueueSize \in Nat
  BY LogAssumption
<1>5. queue' \in Seq(Messages) /\ Len(queue') <= QueueSize
  <2>1. CASE Len(backlog) > QueueSize
    <3>1. /\ SubSeq(backlog, Len(backlog) - QueueSize + 1, Len(backlog)) \in Seq(Messages)
          /\ Len(SubSeq(backlog, Len(backlog) - QueueSize + 1, Len(backlog))) = QueueSize
      BY <1>3, <1>4, <2>1, TailOfBacklog
    <3> QED
      BY <1>3, <1>4, <2>1, <3>1
  <2>2. CASE ~(Len(backlog) > QueueSize)
    BY <1>3, <1>4, <2>2
  <2> QED
    BY <2>1, <2>2
<1> QED
  BY <1>1, <1>5

-----------------------------------------------------------------------------
(* The dist sink.                                                          *)

\* What remove_sink leaves: every streamer but the one at i, in the same order.
LEMMA RemoveSink ==
    ASSUME NEW S, NEW s \in Seq(S), NEW i \in 1..Len(s)
    PROVE  /\ RemoveAt(s, i) \in Seq(S)
           /\ Len(RemoveAt(s, i)) = Len(s) - 1
           /\ \A j \in 1..Len(s) - 1 : RemoveAt(s, i)[j] = IF j < i THEN s[j] ELSE s[j + 1]
<1> DEFINE before == SubSeq(s, 1, i - 1)
           after == SubSeq(s, i + 1, Len(s))
<1>1. Len(s) \in Nat /\ \A j \in 1..Len(s) : s[j] \in S
  BY LenProperties, ElementOfSeq
<1>2. /\ before \in Seq(S) /\ Len(before) = i - 1
      /\ \A j \in 1..i - 1 : before[j] = s[j]
  <2>1. \A j \in 1..i - 1 : s[j] \in S
    BY <1>1
  <2>2. /\ before \in Seq(S)
        /\ Len(before) = IF 1 <= i - 1 THEN (i - 1) - 1 + 1 ELSE 0
        /\ \A j \in 1..(i - 1) - 1 + 1 : before[j] = s[1 + j - 1]
    BY <1>1, <2>1, SubSeqProperties
  <2> QED
    BY <1>1, <2>2
<1>3. /\ after \in Seq(S) /\ Len(after) = Len(s) - i
      /\ \A j \in 1..Len(s) - i : after[j] = s[i + j]
  <2>1. \A j \in i + 1..Len(s) : s[j] \in S
    BY <1>1
  <2>2. /\ after \in Seq(S)
        /\ Len(after) = IF i + 1 <= Len(s) THEN Len(s) - (i + 1) + 1 ELSE 0
        /\ \A j \in 1..Len(s) - (i + 1) + 1 : after[j] = s[(i + 1) + j - 1]
    BY <1>1, <2>1, SubSeqProperties
  <2> QED
    BY <1>1, <2>2
<1>4. RemoveAt(s, i) = before \o after
  BY DEF RemoveAt
<1> HIDE DEF before, after
<1>5. /\ before \o after \in Seq(S)
      /\ Len(before \o after) = Len(before) + Len(after)
      /\ \A j \in 1..Len(before) + Len(after) :
           (before \o after)[j] = IF j <= Len(before) THEN before[j] ELSE after[j - Len(before)]
  BY <1>2, <1>3, ConcatProperties
<1>6. \A j \in 1..Len(s) - 1 :
        (before \o after)[j] = IF j < i THEN s[j] ELSE s[j + 1]
  <2> TAKE j \in 1..Len(s) - 1
  <2>1. (before \o after)[j] = IF j <= i - 1 THEN before[j] ELSE after[j - (i - 1)]
    BY <1>1, <1>2, <1>3, <1>5
  <2>2. CASE j < i
    BY <1>1, <1>2, <2>1, <2>2
  <2>3. CASE ~(j < i)
    <3>1. j - (i - 1) \in 1..Len(s) - i /\ ~(j <= i - 1) /\ i + (j - (i - 1)) = j + 1
      BY <1>1, <2>3
    <3>2. after[j - (i - 1)] = s[i + (j - (i - 1))]
      BY <1>3, <3>1
    <3> QED
      BY <2>1, <2>3, <3>1, <3>2
  <2> QED
    BY <2>2, <2>3
<1> QED
  BY <1>1, <1>2, <1>3, <1>4, <1>5, <1>6

\* The streamer that is being written to is one of the dist sink.
LEMMA WriterIsClient ==
    ASSUME TypeOK, cursor # 0
    PROVE  Writer \in Clients
  BY ElementOfSeq DEF TypeOK, Writer

LEMMA NextSinkInRange ==
    ASSUME TypeOK
    PROVE  NextSink \in 0..Len(sinks)
  BY LenProperties DEF TypeOK, NextSink

-----------------------------------------------------------------------------
(* The steps.                                                              *)

\* What is left of the invariant for a step that changes no handler, streamer or
\* session, and not the life of the driver.
LEMMA SessionsUndisturbed ==
    ASSUME StreamingInv, UNCHANGED <<driver, sinks, handler, client>>
    PROVE  StreamersHaveHandlers' /\ DestroyedAlone' /\ SessionsStartAlone'
  BY DEF StreamingInv, StreamersHaveHandlers, DestroyedAlone, SessionsStartAlone

LEMMA LoggingThreadKeepsInv ==
    ASSUME StreamingInv, LoggingThread
    PROVE  StreamingInv'
<1>1. NextSink \in 0..Len(sinks) /\ (cursor # 0 => Writer \in Clients)
  BY WriterIsClient, NextSinkInRange DEF StreamingInv
<1>2. UNCHANGED <<driver, sinks, handler, client>>
  BY DEF LoggingThread, TakeMessage, SkipStopped, Write, WriteFails, server, readers
<1>3. StreamersHaveHandlers' /\ DestroyedAlone' /\ SessionsStartAlone'
  BY <1>2, SessionsUndisturbed
<1>4. TypeOK'
  <2>1. CASE TakeMessage
    <3>1. /\ delivered' \in Messages /\ queue' \in Seq(Messages)
          /\ Len(queue') <= QueueSize
      <4>1. queue \in Seq(Messages) /\ queue # <<>> /\ Len(queue) <= QueueSize
        BY <2>1 DEF TakeMessage, StreamingInv, TypeOK
      <4>2. /\ Head(queue) \in Messages /\ Tail(queue) \in Seq(Messages)
            /\ Len(Tail(queue)) = Len(queue) - 1
        BY <4>1, HeadTailProperties
      <4> QED
        BY <2>1, <4>1, <4>2, LenProperties, LogAssumption DEF TakeMessage
    <3> QED
      BY <1>1, <2>1, <3>1 DEF TakeMessage, StreamingInv, TypeOK, server, readers
  <2>2. CASE SkipStopped
    BY <1>1, <2>2 DEF SkipStopped, StreamingInv, TypeOK, log, server, readers
  <2>3. CASE Write
    <3>1. /\ stream' \in [Clients -> Seq(Messages)]
          /\ \A c \in Clients : Len(stream'[c]) <= StreamWindow
      <4>1. /\ stream \in [Clients -> Seq(Messages)] /\ Writer \in Clients
            /\ \A c \in Clients : Len(stream[c]) <= StreamWindow
            /\ delivered \in Messages
            /\ Len(stream[Writer]) < StreamWindow
            /\ stream' = [stream EXCEPT ![Writer] = Append(stream[Writer], delivered)]
        BY <1>1, <2>3 DEF Write, StreamingInv, TypeOK
      <4>2. /\ Append(stream[Writer], delivered) \in Seq(Messages)
            /\ Len(Append(stream[Writer], delivered)) = Len(stream[Writer]) + 1
        BY <4>1, AppendProperties
      <4>3. \A c \in Clients : Len(stream[c]) \in Nat
        BY <4>1, LenProperties
      <4> HIDE DEF Writer
      <4> QED
        BY <4>1, <4>2, <4>3, LogAssumption
    <3> QED
      BY <1>1, <2>3, <3>1 DEF Write, StreamingInv, TypeOK, log, server
  <2>4. CASE WriteFails
    <3>1. /\ emitted' \in Messages
          /\ queue' \in Seq(Messages) /\ Len(queue') <= QueueSize
          /\ dropped' \subseteq 1..MaxMessages
      BY <2>4, PostKeepsLog DEF WriteFails, StreamingInv, TypeOK
    <3> QED
      BY <1>1, <2>4, <3>1 DEF WriteFails, StreamingInv, TypeOK, readers
  <2> QED
    BY <2>1, <2>2, <2>3, <2>4 DEF LoggingThread
<1> QED
  BY <1>3, <1>4 DEF StreamingInv

\* A streamer is added once, since its handler had not added one before.
LEMMA AttachKeepsInv ==
    ASSUME StreamingInv, NEW c \in Clients, AttachStreamer(c)
    PROVE  StreamingInv'
<1>1. /\ sinks \in Seq(Clients) /\ Len(sinks) \in Nat
      /\ \A i \in 1..Len(sinks) : sinks[i] \in Clients /\ sinks[i] # c
      /\ DOMAIN sinks = 1..Len(sinks)
  <2>1. sinks \in Seq(Clients) /\ Len(sinks) \in Nat /\ DOMAIN sinks = 1..Len(sinks)
    BY LenProperties DEF StreamingInv, TypeOK
  <2>2. \A i \in 1..Len(sinks) : sinks[i] \in Clients
    BY <2>1, ElementOfSeq
  <2>3. \A i \in 1..Len(sinks) : sinks[i] # c
    BY <2>1 DEF StreamingInv, StreamersHaveHandlers, AttachStreamer
  <2> QED
    BY <2>1, <2>2, <2>3
<1>2. /\ sinks' \in Seq(Clients) /\ Len(sinks') = Len(sinks) + 1
      /\ \A i \in 1..Len(sinks) : sinks'[i] = sinks[i]
      /\ sinks'[Len(sinks) + 1] = c
      /\ DOMAIN sinks' = 1..Len(sinks) + 1
  BY <1>1, AppendProperties, LenProperties DEF AttachStreamer
<1>3. handler \in [Clients -> {"none", "attaching", "waiting", "detaching"}]
  BY DEF StreamingInv, TypeOK
<1>4. handler[c] = "attaching" /\ handler' = [handler EXCEPT ![c] = "waiting"]
  BY DEF AttachStreamer
<1>5. TypeOK'
  <2>1. handler' \in [Clients -> {"none", "attaching", "waiting", "detaching"}]
    BY <1>3, <1>4
  <2>2. last_read' \in [Clients -> Messages]
    BY DEF AttachStreamer, StreamingInv, TypeOK, thread
  <2>3. cursor' \in 0..Len(sinks')
    BY <1>1, <1>2 DEF AttachStreamer, thread
  <2>4. UNCHANGED <<driver, log, thread, stopped, client, stream>>
    BY DEF AttachStreamer
  <2> QED
    BY <1>2, <2>1, <2>2, <2>3, <2>4 DEF StreamingInv, TypeOK, log, thread
<1>6. StreamersHaveHandlers'
  <2>1. \A i \in DOMAIN sinks' : handler'[sinks'[i]] \in {"waiting", "detaching"}
    BY <1>1, <1>2, <1>3, <1>4 DEF StreamingInv, StreamersHaveHandlers
  <2>2. ASSUME NEW d \in Clients, handler'[d] \in {"waiting", "detaching"}
        PROVE  \E i \in DOMAIN sinks' : sinks'[i] = d
    <3>1. CASE d = c
      <4>1. Len(sinks) + 1 \in DOMAIN sinks'
        BY <1>1, <1>2
      <4> QED
        BY <1>2, <3>1, <4>1
    <3>2. CASE d # c
      <4>1. PICK i \in DOMAIN sinks : sinks[i] = d
        BY <1>3, <1>4, <2>2, <3>2 DEF StreamingInv, StreamersHaveHandlers
      <4> QED
        BY <1>1, <1>2, <4>1
    <3> QED
      BY <3>1, <3>2
  <2>3. \A i, j \in DOMAIN sinks' : sinks'[i] = sinks'[j] => i = j
    BY <1>1, <1>2 DEF StreamingInv, StreamersHaveHandlers
  <2> QED
    BY <2>1, <2>2, <2>3 DEF StreamersHaveHandlers
<1>7. DestroyedAlone'
  BY <1>3, <1>4 DEF AttachStreamer, StreamingInv, DestroyedAlone, NoHandlers
<1>8. SessionsStartAlone'
  BY <1>3, <1>4 DEF AttachStreamer, StreamingInv, SessionsStartAlone
<1> QED
  BY <1>5, <1>6, <1>7, <1>8 DEF StreamingInv

LEMMA DisconnectKeepsInv ==
    ASSUME StreamingInv, NEW c \in Clients, ClientDisconnected(c)
    PROVE  StreamingInv'
<1>1. /\ emitted' \in Messages
      /\ queue' \in Seq(Messages) /\ Len(queue') <= QueueSize
      /\ dropped' \subseteq 1..MaxMessages
  BY PostKeepsLog DEF ClientDisconnected, StreamingInv, TypeOK
<1>2. /\ handler \in [Clients -> {"none", "attaching", "waiting", "detaching"}]
      /\ handler[c] = "waiting" /\ handler' = [handler EXCEPT ![c] = "detaching"]
      /\ UNCHANGED <<driver, sinks, client>>
  BY DEF ClientDisconnected, StreamingInv, TypeOK, readers
<1>3. TypeOK'
  BY <1>1 DEF ClientDisconnected, StreamingInv, TypeOK, thread, readers
<1>4. StreamersHaveHandlers'
  BY <1>2, ElementOfSeq DEF StreamingInv, TypeOK, StreamersHaveHandlers
<1>5. DestroyedAlone'
  BY <1>2 DEF StreamingInv, DestroyedAlone, NoHandlers
<1>6. SessionsStartAlone'
  BY <1>2 DEF StreamingInv, SessionsStartAlone
<1> QED
  BY <1>3, <1>4, <1>5, <1>6 DEF StreamingInv

\* The only streamer of the handler goes, the others keep theirs.
LEMMA DetachKeepsInv ==
    ASSUME StreamingInv, NEW c \in Clients, DetachStreamer(c)
    PROVE  StreamingInv'
<1>1. /\ sinks \in Seq(Clients) /\ Len(sinks) \in Nat
      /\ DOMAIN sinks = 1..Len(sinks)
      /\ \A j \in 1..Len(sinks) : sinks[j] \in Clients
      /\ \A j, k \in 1..Len(sinks) : sinks[j] = sinks[k] => j = k
  BY ElementOfSeq, LenProperties DEF StreamingInv, TypeOK, StreamersHaveHandlers
<1>2. PICK i \in 1..Len(sinks) : sinks[i] = c /\ sinks' = RemoveAt(sinks, i)
  BY <1>1 DEF DetachStreamer
<1>3. /\ sinks' \in Seq(Clients) /\ Len(sinks') = Len(sinks) - 1
      /\ \A j \in 1..Len(sinks) - 1 : sinks'[j] = IF j < i THEN sinks[j] ELSE sinks[j + 1]
  BY <1>1, <1>2, RemoveSink
<1>4. DOMAIN sinks' = 1..Len(sinks) - 1
  BY <1>3, LenProperties
<1>5. /\ handler \in [Clients -> {"none", "attaching", "waiting", "detaching"}]
      /\ handler[c] = "detaching" /\ handler' = [handler EXCEPT ![c] = "none"]
      /\ cursor = 0 /\ UNCHANGED <<driver, client>>
  BY DEF DetachStreamer, StreamingInv, TypeOK, readers
<1>6. /\ emitted' \in Messages
      /\ queue' \in Seq(Messages) /\ Len(queue') <= QueueSize
      /\ dropped' \subseteq 1..MaxMessages
  BY PostKeepsLog DEF DetachStreamer, StreamingInv, TypeOK
<1>7. TypeOK'
  BY <1>1, <1>2, <1>3, <1>5, <1>6 DEF DetachStreamer, StreamingInv, TypeOK, thread, readers
<1>8. StreamersHaveHandlers'
  <2>1. ASSUME NEW j \in 1..Len(sinks) - 1
        PROVE  \E k \in 1..Len(sinks) :
                 k # i /\ sinks'[j] = sinks[k] /\ k = IF j < i THEN j ELSE j + 1
    BY <1>1, <1>2, <1>3
  <2>2. ASSUME NEW j \in DOMAIN sinks'
        PROVE  handler'[sinks'[j]] \in {"waiting", "detaching"}
    <3>1. PICK k \in 1..Len(sinks) : k # i /\ sinks'[j] = sinks[k]
      BY <1>4, <2>1, <2>2
    <3>2. sinks[k] # c /\ sinks[k] \in Clients
      BY <1>1, <1>2, <3>1
    <3> QED
      BY <1>1, <1>5, <3>1, <3>2 DEF StreamingInv, StreamersHaveHandlers
  <2>3. ASSUME NEW d \in Clients, handler'[d] \in {"waiting", "detaching"}
        PROVE  \E j \in DOMAIN sinks' : sinks'[j] = d
    <3>1. d # c /\ handler[d] \in {"waiting", "detaching"}
      BY <1>5, <2>3
    <3>2. PICK k \in 1..Len(sinks) : sinks[k] = d
      BY <1>1, <3>1 DEF StreamingInv, StreamersHaveHandlers
    <3>3. k # i
      BY <1>2, <3>1, <3>2
    <3>4. CASE k < i
      BY <1>1, <1>3, <1>4, <3>2, <3>4
    <3>5. CASE k > i
      <4>1. k - 1 \in 1..Len(sinks) - 1 /\ ~(k - 1 < i) /\ (k - 1) + 1 = k
        BY <1>1, <3>5
      <4> QED
        BY <1>3, <1>4, <3>2, <4>1
    <3> QED
      BY <3>3, <3>4, <3>5
  <2>4. ASSUME NEW j \in DOMAIN sinks', NEW k \in DOMAIN sinks', sinks'[j] = sinks'[k]
        PROVE  j = k
    BY <1>1, <1>3, <1>4, <2>4
  <2> QED
    BY <2>2, <2>3, <2>4 DEF StreamersHaveHandlers
<1>9. DestroyedAlone'
  BY <1>5 DEF StreamingInv, DestroyedAlone, NoHandlers
<1>10. SessionsStartAlone'
  BY <1>5 DEF StreamingInv, SessionsStartAlone
<1> QED
  BY <1>7, <1>8, <1>9, <1>10 DEF StreamingInv

LEMMA LogcatKeepsInv ==
    ASSUME StreamingInv, NEW c \in Clients, Logcat(c)
    PROVE  StreamingInv'
<1>1. CASE Connect(c)
  <2>1. /\ emitted' \in Messages
        /\ queue' \in Seq(Messages) /\ Len(queue') <= QueueSize
        /\ dropped' \subseteq 1..MaxMessages
    BY <1>1, PostKeepsLog DEF Connect, StreamingInv, TypeOK
  <2>2. TypeOK'
    BY <1>1, <2>1 DEF Connect, StreamingInv, TypeOK, thread, server
  <2> QED
    BY <1>1, <2>2 DEF Connect, StreamingInv, TypeOK, StreamersHaveHandlers, DestroyedAlone,
                      SessionsStartAlone, server
<1>2. CASE OpenStream(c)
  <2>1. /\ handler \in [Clients -> {"none", "attaching", "waiting", "detaching"}]
        /\ client \in [Clients -> {"off", "retrying", "connected", "streaming", "suspended"}]
        /\ client[c] = "connected" /\ client' = [client EXCEPT ![c] = "streaming"]
        /\ handler[c] = "none"
        /\ UNCHANGED <<driver, sinks>>
    BY <1>2 DEF OpenStream, StreamingInv, TypeOK, SessionsStartAlone
  <2>2. CASE UNCHANGED <<handler, log>>
    <3>1. TypeOK'
      BY <1>2, <2>2 DEF OpenStream, StreamingInv, TypeOK, log, thread
    <3>2. StreamersHaveHandlers' /\ DestroyedAlone'
      BY <2>1, <2>2 DEF StreamingInv, StreamersHaveHandlers, DestroyedAlone
    <3>3. SessionsStartAlone'
      BY <2>1, <2>2 DEF StreamingInv, SessionsStartAlone
    <3> QED
      BY <3>1, <3>2, <3>3 DEF StreamingInv
  <2>3. CASE driver = "serving" /\ handler' = [handler EXCEPT ![c] = "attaching"] /\ Post(2)
    <3>1. /\ emitted' \in Messages
          /\ queue' \in Seq(Messages) /\ Len(queue') <= QueueSize
          /\ dropped' \subseteq 1..MaxMessages
      BY <2>3, PostKeepsLog DEF StreamingInv, TypeOK
    <3>2. TypeOK'
      BY <1>2, <2>3, <3>1 DEF OpenStream, StreamingInv, TypeOK, thread
    <3>3. StreamersHaveHandlers'
      BY <2>1, <2>3, ElementOfSeq DEF StreamingInv, TypeOK, StreamersHaveHandlers
    <3>4. DestroyedAlone'
      BY <2>1, <2>3 DEF DestroyedAlone
    <3>5. SessionsStartAlone'
      BY <2>1, <2>3 DEF StreamingInv, SessionsStartAlone
    <3> QED
      BY <3>2, <3>3, <3>4, <3>5 DEF StreamingInv
  <2> QED
    BY <1>2, <2>2, <2>3 DEF OpenStream
<1>3. CASE Read(c)
  <2>1. /\ stream \in [Clients -> Seq(Messages)] /\ stream[c] # <<>>
        /\ \A d \in Clients : Len(stream[d]) <= StreamWindow /\ Len(stream[d]) \in Nat
    BY <1>3, LenProperties DEF Read, StreamingInv, TypeOK
  <2>2. /\ Head(stream[c]) \in Messages /\ Tail(stream[c]) \in Seq(Messages)
        /\ Len(Tail(stream[c])) = Len(stream[c]) - 1
    BY <2>1, HeadTailProperties
  <2>3. /\ stream' \in [Clients -> Seq(Messages)]
        /\ \A d \in Clients : Len(stream'[d]) <= StreamWindow
    BY <1>3, <2>1, <2>2, LogAssumption DEF Read
  <2>4. TypeOK'
    BY <1>3, <2>2, <2>3 DEF Read, StreamingInv, TypeOK, log, thread, server
  <2> QED
    BY <1>3, <2>4, SessionsUndisturbed DEF Read, StreamingInv, server
<1>4. CASE ReadFails(c)
  <2>1. TypeOK'
    BY <1>4, LogAssumption, EmptySeq
       DEF ReadFails, StreamingInv, TypeOK, Messages, Late, log, thread, server
  <2> QED
    BY <1>4, <2>1 DEF ReadFails, StreamingInv, TypeOK, StreamersHaveHandlers, DestroyedAlone,
                      SessionsStartAlone, server
<1> QED
  BY <1>1, <1>2, <1>3, <1>4 DEF Logcat

LEMMA UserKeepsInv ==
    ASSUME StreamingInv, NEW c \in Clients, User(c)
    PROVE  StreamingInv'
<1>1. UNCHANGED <<driver, log, thread, server>>
  BY DEF User, Start, Suspend, Resume, Quit
<1>2. /\ client' \in [Clients -> {"off", "retrying", "connected", "streaming", "suspended"}]
      /\ stream' \in [Clients -> Seq(Messages)]
      /\ \A d \in Clients : Len(stream'[d]) <= StreamWindow
      /\ last_read' \in [Clients -> Messages]
  <2>1. 0 \in Messages /\ 0 <= StreamWindow
    BY LogAssumption DEF Messages, Late
  <2>2. <<>> \in Seq(Messages) /\ Len(<<>>) = 0
    BY EmptySeq
  <2>3. CASE Quit(c)
    BY <2>1, <2>2, <2>3 DEF Quit, StreamingInv, TypeOK
  <2>4. CASE Start(c) \/ Suspend(c) \/ Resume(c)
    BY <2>4 DEF Start, Suspend, Resume, StreamingInv, TypeOK
  <2> QED
    BY <2>3, <2>4 DEF User
<1>3. TypeOK'
  BY <1>1, <1>2 DEF StreamingInv, TypeOK, log, thread, server
<1>4. StreamersHaveHandlers' /\ DestroyedAlone'
  BY <1>1 DEF StreamingInv, StreamersHaveHandlers, DestroyedAlone, server
<1>5. SessionsStartAlone'
  BY <1>1 DEF StreamingInv, TypeOK, SessionsStartAlone, User, Start, Suspend, Resume, Quit,
              server
<1> QED
  BY <1>3, <1>4, <1>5 DEF StreamingInv

LEMMA LifeKeepsInv ==
    ASSUME StreamingInv, Boot \/ Shutdown \/ ServerDown \/ Exit \/ Crash
    PROVE  StreamingInv'
<1>1. TypeOK'
  <2>1. 0 \in Messages /\ 0 <= QueueSize
    BY LogAssumption DEF Messages, Late
  <2>2. <<>> \in Seq(Messages) /\ <<>> \in Seq(Clients) /\ Len(<<>>) = 0
    BY EmptySeq
  <2>3. CASE Boot \/ Shutdown \/ ServerDown
    BY <2>3 DEF StreamingInv, TypeOK, Boot, Shutdown, ServerDown, log, thread, server, readers
  <2>4. CASE Exit
    BY <2>1, <2>2, <2>4 DEF StreamingInv, TypeOK, Exit, server, readers
  <2>5. CASE Crash
    BY <2>1, <2>2, <2>5 DEF StreamingInv, TypeOK, Crash, NoHandlers, readers
  <2> QED
    BY <2>3, <2>4, <2>5
<1>2. StreamersHaveHandlers'
  BY EmptySeq DEF StreamingInv, StreamersHaveHandlers, Boot, Shutdown, ServerDown, Exit, Crash,
         NoHandlers, server
<1>3. DestroyedAlone'
  <2>1. CASE ServerDown
    <3>1. \A i \in DOMAIN sinks : FALSE
      <4> SUFFICES ASSUME NEW i \in DOMAIN sinks PROVE FALSE
        OBVIOUS
      <4>1. sinks \in Seq(Clients) /\ i \in 1..Len(sinks)
        BY LenProperties DEF StreamingInv, TypeOK
      <4>2. sinks[i] \in Clients
        BY <4>1, ElementOfSeq
      <4>3. handler[sinks[i]] \in {"waiting", "detaching"}
        BY DEF StreamingInv, StreamersHaveHandlers
      <4> QED
        BY <2>1, <4>2, <4>3 DEF ServerDown, NoHandlers
    <3>2. sinks = <<>>
      <4>1. sinks \in Seq(Clients)
        BY DEF StreamingInv, TypeOK
      <4>2. Len(sinks) \in Nat /\ DOMAIN sinks = 1..Len(sinks)
        BY <4>1, LenProperties
      <4>3. Len(sinks) = 0
        BY <3>1, <4>2
      <4> QED
        BY <4>1, <4>3, EmptySeq
    <3> QED
      BY <2>1, <3>2 DEF ServerDown, DestroyedAlone, server, NoHandlers
  <2>2. CASE Boot \/ Shutdown \/ Exit \/ Crash
    BY <2>2 DEF StreamingInv, DestroyedAlone, Boot, Shutdown, Exit, Crash, server, NoHandlers
  <2> QED
    BY <2>1, <2>2
<1>4. SessionsStartAlone'
  BY DEF StreamingInv, SessionsStartAlone, Boot, Shutdown, ServerDown, Exit, Crash,
         NoHandlers, server, readers
<1> QED
  BY <1>1, <1>2, <1>3, <1>4 DEF StreamingInv

LEMMA EmitKeepsInv ==
    ASSUME StreamingInv, Emit
    PROVE  StreamingInv'
<1>1. /\ emitted' \in Messages
      /\ queue' \in Seq(Messages) /\ Len(queue') <= QueueSize
      /\ dropped' \subseteq 1..MaxMessages
  BY PostKeepsLog DEF Emit, StreamingInv, TypeOK
<1>2. TypeOK'
  BY <1>1 DEF Emit, StreamingInv, TypeOK, thread, server, readers
<1> QED
  BY <1>2, SessionsUndisturbed DEF Emit, StreamingInv, server, readers

-----------------------------------------------------------------------------
(* The theorems.                                                           *)

\* The inductive invariant of the log stream: whatever messages are logged, clients
\* come, stall and go, and however the driver ends.
THEOREM StreamingInvariant == Spec => []StreamingInv
<1>1. Init => StreamingInv
  <2> SUFFICES ASSUME Init PROVE StreamingInv
    OBVIOUS
  <2>1. TypeOK
    BY LogAssumption, EmptySeq, LenProperties
       DEF Init, NewLog, TypeOK, Messages, Late, NoHandlers
  <2> QED
    BY <2>1, EmptySeq DEF Init, NewLog, StreamingInv, StreamersHaveHandlers, DestroyedAlone,
                          SessionsStartAlone, NoHandlers
<1>2. StreamingInv /\ [Next]_vars => StreamingInv'
  <2> SUFFICES ASSUME StreamingInv, [Next]_vars PROVE StreamingInv'
    OBVIOUS
  <2>1. CASE Emit
    BY <2>1, EmitKeepsInv
  <2>2. CASE LoggingThread
    BY <2>2, LoggingThreadKeepsInv
  <2>3. ASSUME NEW c \in Clients, AttachStreamer(c) PROVE StreamingInv'
    BY <2>3, AttachKeepsInv
  <2>4. ASSUME NEW c \in Clients, ClientDisconnected(c) PROVE StreamingInv'
    BY <2>4, DisconnectKeepsInv
  <2>5. ASSUME NEW c \in Clients, DetachStreamer(c) PROVE StreamingInv'
    BY <2>5, DetachKeepsInv
  <2>6. ASSUME NEW c \in Clients, Logcat(c) PROVE StreamingInv'
    BY <2>6, LogcatKeepsInv
  <2>7. ASSUME NEW c \in Clients, User(c) PROVE StreamingInv'
    BY <2>7, UserKeepsInv
  <2>8. CASE Boot \/ Shutdown \/ ServerDown \/ Exit \/ Crash
    BY <2>8, LifeKeepsInv
  <2>9. CASE UNCHANGED vars
    <3>1. TypeOK'
      BY <2>9 DEF StreamingInv, TypeOK, vars, log, thread, server, readers
    <3> QED
      BY <2>9, <3>1, SessionsUndisturbed DEF StreamingInv, vars, server, readers
  <2> QED
    BY <2>1, <2>2, <2>3, <2>4, <2>5, <2>6, <2>7, <2>8, <2>9
       DEF Next, LoggingThread, Logcat, User
<1> QED
  BY <1>1, <1>2, PTL DEF Spec

\* The logging thread never writes through a stream writer whose handler has
\* returned: log_manager.cpp:121 takes the streamer out under the mutex that the
\* thread holds.
THEOREM StreamersAlwaysHaveHandlers == Spec => []StreamersHaveHandlers
<1>1. StreamingInv => StreamersHaveHandlers
  BY DEF StreamingInv
<1> QED
  BY <1>1, StreamingInvariant, PTL

\* ~Driver destroys the devices and the log after the last handler (driver.cpp:57).
THEOREM AlwaysDestroyedAlone == Spec => []DestroyedAlone
<1>1. StreamingInv => DestroyedAlone
  BY DEF StreamingInv
<1> QED
  BY <1>1, StreamingInvariant, PTL

\* The queue and every stream stay within their bounds.
THEOREM StreamingTypeOK == Spec => []TypeOK
<1>1. StreamingInv => TypeOK
  BY DEF StreamingInv
<1> QED
  BY <1>1, StreamingInvariant, PTL
-----------------------------------------------------------------------------
(* Nobody waits in a circle.                                               *)

\* The thread has a message to take or a streamer that it can deal with: the
\* conditions of TakeMessage, SkipStopped, WriteFails and Write.
ThreadCanGoOn ==
    \/ cursor = 0 /\ queue # <<>>
    \/ /\ cursor # 0
       /\ \/ stopped[Writer]
          \/ ~Listening(Writer)
          \/ Len(stream[Writer]) < StreamWindow

\* The conditions of AttachStreamer, ClientDisconnected and DetachStreamer.
HandlerCanGoOn(c) ==
    \/ handler[c] = "attaching" /\ cursor = 0
    \/ handler[c] = "waiting" /\ stopped[c]
    \/ handler[c] = "detaching" /\ cursor = 0 /\ \E i \in DOMAIN sinks : sinks[i] = c

\* The condition of Read.
ClientCanRead(c) == client[c] = "streaming" /\ stream[c] # <<>>

\* While handlers run, the thread, a handler or a client can go on, unless the thread
\* writes to a client that is suspended, or nothing is logged and every handler waits
\* for a client that the thread has not found gone.
NobodyWaitsInACircle ==
    handler # NoHandlers =>
        \/ ThreadCanGoOn
        \/ \E c \in Clients : HandlerCanGoOn(c) \/ ClientCanRead(c)
        \/ cursor # 0 /\ client[Writer] = "suspended"
        \/ /\ cursor = 0 /\ queue = <<>>
           /\ \A c \in Clients :
                handler[c] # "none" => handler[c] = "waiting" /\ ~stopped[c]

\* The logging thread holds the dist sink's mutex and waits for a client, handlers wait
\* for the mutex or for the thread, and ~Driver waits for the handlers: what all of
\* them may wait for is a client that does not read, or one that does not go.
THEOREM NoCircle == Spec => []NobodyWaitsInACircle
<1>1. ASSUME StreamingInv, cursor # 0, ~ThreadCanGoOn
      PROVE  \/ \E c \in Clients : ClientCanRead(c)
             \/ client[Writer] = "suspended"
  <2>1. Writer \in Clients
    BY <1>1, WriterIsClient DEF StreamingInv
  <2>2. client[Writer] \in {"streaming", "suspended"}
    BY <1>1 DEF ThreadCanGoOn, Listening
  <2>3. stream[Writer] # <<>>
    <3>1. ~(Len(stream[Writer]) < StreamWindow)
      BY <1>1 DEF ThreadCanGoOn
    <3>2. Len(<<>>) = 0
      OBVIOUS
    <3> QED
      BY <3>1, <3>2, LogAssumption
  <2> QED
    BY <2>1, <2>2, <2>3 DEF ClientCanRead
<1>2. ASSUME StreamingInv, cursor = 0, ~ThreadCanGoOn,
             \A c \in Clients : ~HandlerCanGoOn(c)
      PROVE  /\ queue = <<>>
             /\ \A c \in Clients :
                    handler[c] # "none" => handler[c] = "waiting" /\ ~stopped[c]
  <2>1. queue = <<>>
    BY <1>2 DEF ThreadCanGoOn
  <2>2. ASSUME NEW c \in Clients, handler[c] # "none"
        PROVE  handler[c] = "waiting" /\ ~stopped[c]
    <3>1. handler[c] \in {"attaching", "waiting", "detaching"}
      BY <1>2, <2>2 DEF StreamingInv, TypeOK
    <3>2. handler[c] = "detaching" => \E i \in DOMAIN sinks : sinks[i] = c
      BY <1>2 DEF StreamingInv, StreamersHaveHandlers
    <3> QED
      BY <1>2, <3>1, <3>2 DEF HandlerCanGoOn
  <2> QED
    BY <2>1, <2>2
<1>3. StreamingInv => NobodyWaitsInACircle
  BY <1>1, <1>2 DEF NobodyWaitsInACircle
<1> QED
  BY <1>3, StreamingInvariant, PTL

-----------------------------------------------------------------------------
(* The order of the entries.                                               *)

\* x may be logged before y.  Only the numbered messages are told apart.
Earlier(x, y) == x < y \/ (x = y /\ x \in {0, Late})

InQueue(m) == \E i \in 1..Len(queue) : queue[i] = m
InStream(c, m) == \E i \in 1..Len(stream[c]) : stream[c][i] = m

\* The logging thread has still to write the message it has taken to this client.
Pending(c) == cursor # 0 /\ \E i \in cursor..Len(sinks) : sinks[i] = c

\* The queue follows the message that was taken last, in the order of logging.
QueueInOrder ==
    /\ delivered <= emitted
    /\ \A i \in 1..Len(queue) : Earlier(delivered, queue[i]) /\ queue[i] <= emitted
    /\ \A i, j \in 1..Len(queue) : i < j => Earlier(queue[i], queue[j])

\* So do the entry that a client read last, its stream and the entry to be written.
StreamInOrder(c) ==
    /\ last_read[c] <= delivered
    /\ \A i \in 1..Len(stream[c]) :
            Earlier(last_read[c], stream[c][i]) /\ stream[c][i] <= delivered
    /\ \A i, j \in 1..Len(stream[c]) : i < j => Earlier(stream[c][i], stream[c][j])
    /\ Pending(c) =>
            /\ Earlier(last_read[c], delivered)
            /\ \A i \in 1..Len(stream[c]) : Earlier(stream[c][i], delivered)

\* What a client has not read was dropped or is on its way to it.
NothingLost(c) ==
    \A m \in 1..MaxMessages :
        last_read[c] < m /\ m <= emitted =>
            \/ m \in dropped \/ InStream(c, m) \/ InQueue(m)
            \/ Pending(c) /\ m = delivered

\* Neither is what was logged after the message that was taken last.
NothingSkipped ==
    \A m \in 1..MaxMessages :
        delivered < m /\ m <= emitted => m \in dropped \/ InQueue(m)

\* A client whose session is not lost.
Attached(c) == handler[c] = "waiting" /\ Listening(c)

\* A session begins with an empty stream.
IdleStreamsEmpty ==
    \A c \in Clients :
        client[c] \in {"off", "retrying", "connected"} \/ handler[c] = "attaching"
            => stream[c] = <<>>

\* A streamer is stopped only when its client has gone.
StoppedHaveGone ==
    \A c \in Clients : stopped[c] => client[c] = "off" /\ handler[c] # "none"

\* The inductive invariant of the delivery.
DeliveryInv ==
    /\ IdleStreamsEmpty
    /\ StoppedHaveGone
    /\ QueueInOrder
    /\ NothingSkipped
    /\ \A c \in Clients : Attached(c) => StreamInOrder(c) /\ NothingLost(c)

\* What may become of the log while a client's stream is left alone: nothing that
\* is on its way disappears but by being dropped.
LogGrows ==
    /\ emitted <= emitted' /\ dropped \subseteq dropped'
    /\ \A m \in 1..MaxMessages :
         InQueue(m) \/ (emitted < m /\ m <= emitted') => m \in dropped' \/ InQueue(m)'

LEMMA MessagesAreNumbers ==
    /\ MaxMessages \in Nat /\ Late = MaxMessages + 1 /\ Late \in Nat
    /\ Messages = 0..Late /\ Messages \subseteq Nat
  BY LogAssumption DEF Late, Messages

\* The next messages follow all that were logged before, and no number is left out.
LEMMA NumbersFollow ==
    ASSUME emitted \in Messages, NEW n \in {1, 2}, NEW numbers \in NextNumbers(n)
    PROVE  /\ emitted <= numbers[n]
           /\ \A i \in 1..n : numbers[i] \in Messages /\ numbers[i] <= numbers[n]
           /\ \A i \in 1..n : \A x \in Messages : x <= emitted => Earlier(x, numbers[i])
           /\ \A i, j \in 1..n : i < j => Earlier(numbers[i], numbers[j])
           /\ \A m \in 1..MaxMessages :
                emitted < m /\ m <= numbers[n] => \E i \in 1..n : numbers[i] = m
<1>1. CASE numbers = [i \in 1..n |-> IF emitted + i < Late THEN emitted + i ELSE Late]
  <2>1. /\ emitted \in Nat /\ emitted <= Late
        /\ \A i \in 1..n : numbers[i] = IF emitted + i < Late THEN emitted + i ELSE Late
    BY <1>1, MessagesAreNumbers
  <2>2. /\ emitted <= numbers[n]
        /\ \A i \in 1..n : numbers[i] \in Messages /\ numbers[i] <= numbers[n]
    BY <2>1, MessagesAreNumbers
  <2>3. \A i \in 1..n : \A x \in Messages : x <= emitted => Earlier(x, numbers[i])
    BY <2>1, MessagesAreNumbers DEF Earlier
  <2>4. \A i, j \in 1..n : i < j => Earlier(numbers[i], numbers[j])
    BY <2>1, MessagesAreNumbers DEF Earlier
  <2>5. ASSUME NEW m \in 1..MaxMessages, emitted < m, m <= numbers[n]
        PROVE  \E i \in 1..n : numbers[i] = m
    <3>1. m - emitted \in 1..n /\ emitted + (m - emitted) = m /\ m < Late
      BY <2>1, <2>5, MessagesAreNumbers
    <3>2. numbers[m - emitted] = m
      BY <2>1, <3>1
    <3> QED
      BY <3>1, <3>2
  <2> QED
    BY <2>2, <2>3, <2>4, <2>5
<1>2. CASE emitted = 0 /\ numbers = [i \in 1..n |-> 0]
  BY <1>2, MessagesAreNumbers DEF Earlier
<1> QED
  BY <1>1, <1>2 DEF NextNumbers

\* Logging keeps the queue in order, and what it pushes out it counts as dropped.
LEMMA PostKeepsOrder ==
    ASSUME StreamingInv, QueueInOrder, NEW n \in {1, 2}, Post(n), delivered' = delivered
    PROVE  QueueInOrder' /\ LogGrows
<1>0. PICK numbers \in NextNumbers(n) :
        LET backlog == queue \o numbers
            excess == Len(backlog) - QueueSize
        IN  /\ emitted' = numbers[n]
            /\ queue' = IF excess > 0 THEN SubSeq(backlog, excess + 1, Len(backlog))
                                      ELSE backlog
            /\ dropped' = dropped \cup ({backlog[i] : i \in 1..excess} \cap 1..MaxMessages)
  BY DEF Post
<1> DEFINE backlog == queue \o numbers
           last == numbers[n]
<1>1. /\ emitted \in Messages /\ delivered \in Messages /\ queue \in Seq(Messages)
      /\ Len(queue) \in Nat /\ \A i \in 1..Len(queue) : queue[i] \in Messages
      /\ QueueSize \in Nat
  BY LenProperties, ElementOfSeq, LogAssumption DEF StreamingInv, TypeOK
<1>2. /\ numbers \in Seq(Messages) /\ Len(numbers) = n
  <2>1. numbers \in [1..n -> Messages]
    BY <1>1, NextNumbersAreMessages
  <2>2. n \in Nat
    OBVIOUS
  <2> QED
    BY <2>1, <2>2, IsASeq, LenProperties
<1>3. /\ emitted <= last /\ last \in Nat
      /\ \A i \in 1..n : numbers[i] \in Messages /\ numbers[i] <= last
      /\ \A i \in 1..n : \A x \in Messages : x <= emitted => Earlier(x, numbers[i])
      /\ \A i, j \in 1..n : i < j => Earlier(numbers[i], numbers[j])
      /\ \A m \in 1..MaxMessages :
           emitted < m /\ m <= last => \E i \in 1..n : numbers[i] = m
  <2>1. numbers[n] \in Nat
    BY <1>1, NextNumbersAreMessages, MessagesAreNumbers
  <2> QED
    BY <1>1, <2>1, NumbersFollow
<1>4. /\ backlog \in Seq(Messages) /\ Len(backlog) = Len(queue) + n
      /\ \A i \in 1..Len(queue) : backlog[i] = queue[i]
      /\ \A i \in 1..n : backlog[Len(queue) + i] = numbers[i]
  <2>1. /\ backlog \in Seq(Messages) /\ Len(backlog) = Len(queue) + n
        /\ \A i \in 1..(Len(queue) + n) :
             backlog[i] = IF i <= Len(queue) THEN queue[i] ELSE numbers[i - Len(queue)]
    BY <1>1, <1>2, ConcatProperties
  <2>2. ASSUME NEW i \in 1..n
        PROVE  backlog[Len(queue) + i] = numbers[i]
    <3>1. /\ Len(queue) + i \in 1..(Len(queue) + n) /\ ~(Len(queue) + i <= Len(queue))
          /\ Len(queue) + i - Len(queue) = i
      BY <1>1
    <3> QED
      BY <2>1, <3>1
  <2>3. \A i \in 1..Len(queue) : backlog[i] = queue[i]
    BY <1>1, <2>1
  <2> QED
    BY <2>1, <2>2, <2>3
<1>5. /\ emitted' = last
      /\ queue' = IF Len(backlog) - QueueSize > 0
                  THEN SubSeq(backlog, Len(backlog) - QueueSize + 1, Len(backlog)) ELSE backlog
      /\ dropped' = dropped \cup
           ({backlog[i] : i \in 1..(Len(backlog) - QueueSize)} \cap 1..MaxMessages)
  BY <1>0
<1> HIDE DEF backlog, last
<1>6. /\ \A k \in 1..Len(backlog) : Earlier(delivered, backlog[k]) /\ backlog[k] <= last
      /\ \A k, l \in 1..Len(backlog) : k < l => Earlier(backlog[k], backlog[l])
  <2>1. ASSUME NEW k \in 1..Len(backlog)
        PROVE  \/ k \in 1..Len(queue) /\ backlog[k] = queue[k]
               \/ k - Len(queue) \in 1..n /\ backlog[k] = numbers[k - Len(queue)]
    <3>1. CASE k <= Len(queue)
      BY <1>1, <1>4, <3>1
    <3>2. CASE ~(k <= Len(queue))
      <4>1. k - Len(queue) \in 1..n /\ Len(queue) + (k - Len(queue)) = k
        BY <1>1, <1>4, <3>2
      <4> QED
        BY <1>4, <4>1
    <3> QED
      BY <3>1, <3>2
  <2>2. /\ delivered <= emitted
        /\ \A i \in 1..Len(queue) : Earlier(delivered, queue[i]) /\ queue[i] <= emitted
        /\ \A i, j \in 1..Len(queue) : i < j => Earlier(queue[i], queue[j])
    BY DEF QueueInOrder
  <2>3. \A i \in 1..Len(queue) : queue[i] <= last
    <3>1. emitted \in Nat /\ \A i \in 1..Len(queue) : queue[i] \in Nat
      BY <1>1, MessagesAreNumbers
    <3>2. last \in Nat /\ emitted <= last
      BY <1>3
    <3> QED
      BY <2>2, <3>1, <3>2
  <2>4. ASSUME NEW k \in 1..Len(backlog)
        PROVE  Earlier(delivered, backlog[k]) /\ backlog[k] <= last
    BY <1>1, <1>3, <2>1, <2>2, <2>3
  <2>5. ASSUME NEW k \in 1..Len(backlog), NEW l \in 1..Len(backlog), k < l
        PROVE  Earlier(backlog[k], backlog[l])
    <3>1. CASE k \in 1..Len(queue) /\ l \in 1..Len(queue)
      BY <1>4, <2>2, <2>5, <3>1
    <3>2. CASE k \in 1..Len(queue) /\ ~(l \in 1..Len(queue))
      <4>1. l - Len(queue) \in 1..n /\ backlog[l] = numbers[l - Len(queue)]
        BY <2>1, <3>2
      <4>2. backlog[k] = queue[k] /\ queue[k] \in Messages /\ queue[k] <= emitted
        BY <1>1, <1>4, <2>2, <3>2
      <4> QED
        BY <1>3, <4>1, <4>2
    <3>3. CASE ~(k \in 1..Len(queue))
      <4>1. k - Len(queue) \in 1..n /\ backlog[k] = numbers[k - Len(queue)]
        BY <2>1, <3>3
      <4>2. ~(l \in 1..Len(queue))
        BY <1>1, <2>5, <3>3
      <4>3. l - Len(queue) \in 1..n /\ backlog[l] = numbers[l - Len(queue)]
        BY <2>1, <4>2
      <4>4. k - Len(queue) < l - Len(queue)
        BY <1>1, <2>5
      <4> QED
        BY <1>3, <4>1, <4>3, <4>4
    <3> QED
      BY <3>1, <3>2, <3>3
  <2> QED
    BY <2>4, <2>5
<1>7. PICK shift \in Nat :
        /\ Len(queue') \in Nat /\ Len(queue') + shift = Len(backlog)
        /\ \A i \in 1..Len(queue') : queue'[i] = backlog[i + shift]
        /\ \A k \in 1..shift : backlog[k] \in 1..MaxMessages => backlog[k] \in dropped'
  <2>1. Len(backlog) \in Nat
    BY <1>1, <1>4
  <2>2. CASE Len(backlog) - QueueSize > 0
    <3> DEFINE excess == Len(backlog) - QueueSize
    <3>1. excess \in Nat /\ excess + 1 \in Int /\ excess + 1 <= Len(backlog) + 1
      BY <1>1, <2>1, <2>2
    <3>2. \A i \in (excess + 1)..Len(backlog) : backlog[i] \in Messages
      <4>1. \A i \in 1..Len(backlog) : backlog[i] \in Messages
        BY <1>4, ElementOfSeq
      <4> QED
        BY <2>1, <3>1, <4>1
    <3>3. queue' = SubSeq(backlog, excess + 1, Len(backlog))
      BY <1>5, <2>2
    <3>4. /\ Len(queue') = IF excess + 1 <= Len(backlog)
                           THEN Len(backlog) - (excess + 1) + 1 ELSE 0
          /\ \A i \in 1..(Len(backlog) - (excess + 1) + 1) :
               queue'[i] = backlog[(excess + 1) + i - 1]
      BY <2>1, <3>1, <3>2, <3>3, SubSeqProperties
    <3>5. \A k \in 1..excess : backlog[k] \in 1..MaxMessages => backlog[k] \in dropped'
      BY <1>5
    <3> HIDE DEF excess
    <3>6. Len(queue') \in Nat /\ Len(queue') + excess = Len(backlog)
      BY <2>1, <3>1, <3>4
    <3>7. ASSUME NEW i \in 1..Len(queue')
          PROVE  queue'[i] = backlog[i + excess]
      <4>1. i \in 1..(Len(backlog) - (excess + 1) + 1) /\ (excess + 1) + i - 1 = i + excess
        BY <2>1, <3>1, <3>6
      <4> QED
        BY <3>4, <4>1
    <3> QED
      BY <3>1, <3>5, <3>6, <3>7
  <2>3. CASE ~(Len(backlog) - QueueSize > 0)
    <3>1. queue' = backlog
      BY <1>5, <2>3
    <3>2. /\ 0 \in Nat /\ Len(queue') + 0 = Len(backlog)
          /\ \A i \in 1..Len(queue') : queue'[i] = backlog[i + 0]
          /\ \A k \in 1..0 : backlog[k] \in 1..MaxMessages => backlog[k] \in dropped'
      BY <2>1, <3>1
    <3> QED
      BY <2>1, <3>1, <3>2
  <2> QED
    BY <2>2, <2>3
<1>8. \A i \in 1..Len(queue') : i + shift \in 1..Len(backlog)
  BY <1>7
<1>9. QueueInOrder'
  <2>1. delivered' <= emitted'
    <3>1. delivered \in Nat /\ emitted \in Nat /\ delivered <= emitted
      BY <1>1, MessagesAreNumbers DEF QueueInOrder
    <3> QED
      BY <1>3, <1>5, <3>1
  <2>2. \A i \in 1..Len(queue') : Earlier(delivered', queue'[i]) /\ queue'[i] <= emitted'
    BY <1>5, <1>6, <1>7, <1>8
  <2>3. \A i, j \in 1..Len(queue') : i < j => Earlier(queue'[i], queue'[j])
    <3>1. ASSUME NEW i \in 1..Len(queue'), NEW j \in 1..Len(queue'), i < j
          PROVE  Earlier(queue'[i], queue'[j])
      <4>1. i + shift < j + shift
        BY <1>7, <3>1
      <4> QED
        BY <1>6, <1>7, <1>8, <4>1
    <3> QED
      BY <3>1
  <2> QED
    BY <2>1, <2>2, <2>3 DEF QueueInOrder, Earlier
<1>10. LogGrows
  <2>1. ASSUME NEW m \in 1..MaxMessages, InQueue(m) \/ (emitted < m /\ m <= emitted')
        PROVE  m \in dropped' \/ InQueue(m)'
    <3>1. \E k \in 1..Len(backlog) : backlog[k] = m
      <4>1. CASE InQueue(m)
        BY <1>1, <1>4, <4>1 DEF InQueue
      <4>2. CASE emitted < m /\ m <= emitted'
        <5>1. PICK i \in 1..n : numbers[i] = m
          BY <1>3, <1>5, <4>2
        <5>2. Len(queue) + i \in 1..Len(backlog)
          BY <1>1, <1>4
        <5> QED
          BY <1>4, <5>1, <5>2
      <4> QED
        BY <2>1, <4>1, <4>2
    <3>2. PICK k \in 1..Len(backlog) : backlog[k] = m
      BY <3>1
    <3>3. CASE k <= shift
      BY <1>7, <3>2, <3>3
    <3>4. CASE ~(k <= shift)
      <4>1. k - shift \in 1..Len(queue') /\ (k - shift) + shift = k
        BY <1>7, <3>4
      <4>2. queue'[k - shift] = m
        BY <1>7, <3>2, <4>1
      <4> QED
        BY <4>1, <4>2 DEF InQueue
    <3> QED
      BY <3>3, <3>4
  <2>2. emitted <= emitted' /\ dropped \subseteq dropped'
    BY <1>3, <1>5
  <2> QED
    BY <2>1, <2>2 DEF LogGrows
<1> QED
  BY <1>9, <1>10

LEMMA LogRests ==
    ASSUME StreamingInv, UNCHANGED log
    PROVE  LogGrows
<1>1. emitted \in Nat
  BY MessagesAreNumbers DEF StreamingInv, TypeOK
<1>2. \A m : InQueue(m)' <=> InQueue(m)
  BY DEF log, InQueue
<1>3. emitted' = emitted /\ dropped' = dropped
  BY DEF log
<1> QED
  BY <1>1, <1>2, <1>3 DEF LogGrows

\* Nothing changes for a client when the log grows and its stream is left alone.
LEMMA StreamRests ==
    ASSUME StreamingInv, NEW c \in Clients, StreamInOrder(c), NothingLost(c), LogGrows,
           stream'[c] = stream[c], last_read'[c] = last_read[c],
           UNCHANGED delivered, Pending(c)' <=> Pending(c)
    PROVE  StreamInOrder(c)' /\ NothingLost(c)'
<1>1. StreamInOrder(c)'
  BY DEF StreamInOrder, Earlier
<1>2. \A m : InStream(c, m)' <=> InStream(c, m)
  BY DEF InStream
<1>3. emitted \in Nat
  BY MessagesAreNumbers DEF StreamingInv, TypeOK
<1>4. ASSUME NEW m \in 1..MaxMessages, last_read'[c] < m, m <= emitted'
      PROVE  \/ m \in dropped' \/ InStream(c, m)' \/ InQueue(m)'
             \/ Pending(c)' /\ m = delivered'
  <2>1. m <= emitted \/ emitted < m
    BY <1>3
  <2>2. CASE emitted < m
    BY <1>4, <2>2 DEF LogGrows
  <2>3. CASE m <= emitted
    <3>1. \/ m \in dropped \/ InStream(c, m) \/ InQueue(m)
          \/ Pending(c) /\ m = delivered
      BY <1>4, <2>3 DEF NothingLost
    <3>2. m \in dropped => m \in dropped'
      BY DEF LogGrows
    <3>3. InQueue(m) => m \in dropped' \/ InQueue(m)'
      BY DEF LogGrows
    <3> QED
      BY <1>2, <3>1, <3>2, <3>3
  <2> QED
    BY <2>1, <2>2, <2>3
<1> QED
  BY <1>1, <1>4 DEF NothingLost

LEMMA NothingSkippedRests ==
    ASSUME StreamingInv, NothingSkipped, LogGrows, UNCHANGED delivered
    PROVE  NothingSkipped'
<1>1. emitted \in Nat
  BY MessagesAreNumbers DEF StreamingInv, TypeOK
<1>2. ASSUME NEW m \in 1..MaxMessages, delivered' < m, m <= emitted'
      PROVE  m \in dropped' \/ InQueue(m)'
  <2>1. CASE m <= emitted
    <3>1. m \in dropped \/ InQueue(m)
      BY <1>2, <2>1 DEF NothingSkipped
    <3> QED
      BY <3>1 DEF LogGrows
  <2>2. CASE ~(m <= emitted)
    BY <1>1, <1>2, <2>2 DEF LogGrows
  <2> QED
    BY <2>1, <2>2
<1> QED
  BY <1>2 DEF NothingSkipped

\* What is true of every step that leaves the order of the streams alone.
LEMMA OrderRests ==
    ASSUME StreamingInv, DeliveryInv, QueueInOrder', LogGrows,
           IdleStreamsEmpty', StoppedHaveGone', UNCHANGED delivered,
           \A c \in Clients : Attached(c)' =>
                /\ Attached(c)
                /\ stream'[c] = stream[c] /\ last_read'[c] = last_read[c]
                /\ Pending(c)' <=> Pending(c)
    PROVE  DeliveryInv'
  BY StreamRests, NothingSkippedRests DEF DeliveryInv

\* The client's place among the streamers, when the thread goes to the next one.
LEMMA PendingMoves ==
    ASSUME StreamingInv, cursor # 0, UNCHANGED sinks, cursor' = NextSink, NEW c \in Clients
    PROVE  IF c = Writer THEN Pending(c) /\ ~Pending(c)' ELSE Pending(c)' <=> Pending(c)
<1>1. /\ Len(sinks) \in Nat /\ DOMAIN sinks = 1..Len(sinks) /\ cursor \in 1..Len(sinks)
      /\ \A i, j \in 1..Len(sinks) : sinks[i] = sinks[j] => i = j
  BY LenProperties DEF StreamingInv, TypeOK, StreamersHaveHandlers
<1>2. Writer = sinks[cursor]
  BY DEF Writer
<1>3. /\ cursor \in cursor..Len(sinks)
      /\ Pending(c) <=> \E i \in cursor..Len(sinks) : sinks[i] = c
  BY <1>1 DEF Pending
<1>4. CASE cursor < Len(sinks)
  <2>1. cursor' = cursor + 1 /\ cursor' # 0
    BY <1>1, <1>4 DEF NextSink
  <2>2. Pending(c)' <=> \E i \in (cursor + 1)..Len(sinks) : sinks[i] = c
    BY <2>1 DEF Pending
  <2>3. \A i \in (cursor + 1)..Len(sinks) :
          i \in cursor..Len(sinks) /\ sinks[i] # sinks[cursor]
    BY <1>1
  <2>4. \A i \in cursor..Len(sinks) : i = cursor \/ i \in (cursor + 1)..Len(sinks)
    BY <1>1
  <2> QED
    BY <1>2, <1>3, <2>2, <2>3, <2>4
<1>5. CASE ~(cursor < Len(sinks))
  <2>1. cursor' = 0 /\ cursor = Len(sinks)
    <3>1. Len(sinks) \in Nat /\ cursor \in 1..Len(sinks)
      BY <1>1
    <3>2. cursor = Len(sinks)
      BY <1>5, <3>1
    <3> QED
      BY <1>5, <3>2 DEF NextSink
  <2>2. ~Pending(c)'
    BY <2>1 DEF Pending
  <2>3. \A i \in cursor..Len(sinks) : i = cursor
    <3>1. Len(sinks) \in Nat
      BY <1>1
    <3> QED
      BY <2>1, <3>1
  <2> QED
    BY <1>2, <1>3, <2>2, <2>3
<1> QED
  BY <1>4, <1>5

\* A client that is attached has a streamer that has not stopped.
LEMMA AttachedHasStreamer ==
    ASSUME StreamingInv, DeliveryInv, NEW c \in Clients, Attached(c)
    PROVE  ~stopped[c] /\ \E i \in 1..Len(sinks) : sinks[i] = c
<1>1. DOMAIN sinks = 1..Len(sinks)
  BY LenProperties DEF StreamingInv, TypeOK
<1> QED
  BY <1>1 DEF Attached, Listening, DeliveryInv, StoppedHaveGone, StreamingInv,
              StreamersHaveHandlers

-----------------------------------------------------------------------------
(* The steps of the delivery.                                              *)

\* The message that the thread takes is one that every client is owed.
LEMMA TakeKeepsOrder ==
    ASSUME StreamingInv, DeliveryInv, TakeMessage
    PROVE  DeliveryInv'
<1>1. /\ queue \in Seq(Messages) /\ queue # <<>> /\ Len(queue) \in Nat
      /\ \A i \in 1..Len(queue) : queue[i] \in Messages /\ queue[i] \in Nat
      /\ emitted \in Nat /\ delivered \in Messages /\ delivered \in Nat
  BY LenProperties, ElementOfSeq, MessagesAreNumbers DEF TakeMessage, StreamingInv, TypeOK
<1>2. /\ Len(queue) > 0 /\ delivered' = queue[1]
      /\ Len(queue') = Len(queue) - 1
      /\ \A i \in 1..Len(queue') : queue'[i] = queue[i + 1]
  BY <1>1, HeadTailProperties DEF TakeMessage
<1>3. /\ cursor = 0 /\ cursor' = NextSink
      /\ UNCHANGED <<driver, emitted, dropped, sinks, handler, stopped, client, stream,
                     last_read>>
  BY DEF TakeMessage, server, readers
<1>4. /\ delivered <= emitted
      /\ \A i \in 1..Len(queue) : Earlier(delivered, queue[i]) /\ queue[i] <= emitted
      /\ \A i, j \in 1..Len(queue) : i < j => Earlier(queue[i], queue[j])
  BY DEF DeliveryInv, QueueInOrder
<1>5. 1 \in 1..Len(queue) /\ \A i \in 1..Len(queue') : i + 1 \in 1..Len(queue) /\ 1 < i + 1
  BY <1>1, <1>2
<1>6. QueueInOrder'
  <2>1. delivered' <= emitted'
    BY <1>2, <1>3, <1>4, <1>5
  <2>2. \A i \in 1..Len(queue') : Earlier(delivered', queue'[i]) /\ queue'[i] <= emitted'
    BY <1>2, <1>3, <1>4, <1>5
  <2>3. ASSUME NEW i \in 1..Len(queue'), NEW j \in 1..Len(queue'), i < j
        PROVE  Earlier(queue'[i], queue'[j])
    <3>1. i + 1 < j + 1
      BY <2>3
    <3> QED
      BY <1>2, <1>4, <1>5, <3>1
  <2> QED
    BY <2>1, <2>2, <2>3 DEF QueueInOrder, Earlier
<1>7. ASSUME NEW c \in Clients, Attached(c)'
      PROVE  StreamInOrder(c)' /\ NothingLost(c)'
  <2>1. Attached(c)
    BY <1>3, <1>7 DEF Attached, Listening
  <2>2. /\ last_read[c] <= delivered
        /\ \A i \in 1..Len(stream[c]) :
             Earlier(last_read[c], stream[c][i]) /\ stream[c][i] <= delivered
        /\ \A i, j \in 1..Len(stream[c]) : i < j => Earlier(stream[c][i], stream[c][j])
    BY <2>1 DEF DeliveryInv, StreamInOrder
  <2>3. /\ last_read[c] \in Messages
        /\ \A i \in 1..Len(stream[c]) : stream[c][i] \in Messages
    BY ElementOfSeq DEF StreamingInv, TypeOK
  <2>4. \A x \in Messages : x <= delivered => Earlier(x, queue[1]) /\ x <= queue[1]
    <3>1. Earlier(delivered, queue[1]) /\ queue[1] \in Messages
      BY <1>1, <1>4, <1>5
    <3> QED
      BY <1>1, <3>1, MessagesAreNumbers DEF Earlier
  <2>5. StreamInOrder(c)'
    <3>1. /\ last_read[c] <= queue[1] /\ Earlier(last_read[c], queue[1])
          /\ \A i \in 1..Len(stream[c]) :
               stream[c][i] <= queue[1] /\ Earlier(stream[c][i], queue[1])
      BY <2>2, <2>3, <2>4
    <3> QED
      BY <1>2, <1>3, <2>2, <3>1 DEF StreamInOrder, Earlier
  <2>6. Pending(c)'
    <3>1. PICK i \in 1..Len(sinks) : sinks[i] = c
      BY <2>1, AttachedHasStreamer
    <3>2. Len(sinks) \in Nat
      BY LenProperties DEF StreamingInv, TypeOK
    <3>3. cursor' = 1
      BY <1>3, <3>1, <3>2 DEF NextSink
    <3> QED
      BY <1>3, <3>1, <3>3 DEF Pending
  <2>7. ASSUME NEW m \in 1..MaxMessages, last_read'[c] < m, m <= emitted'
        PROVE  m \in dropped' \/ InStream(c, m)' \/ InQueue(m)' \/ m = delivered'
    <3>1. ~Pending(c)
      BY <1>3 DEF Pending
    <3>2. m \in dropped \/ InStream(c, m) \/ InQueue(m)
      BY <1>3, <2>1, <2>7, <3>1 DEF DeliveryInv, NothingLost
    <3>3. ASSUME InQueue(m)
          PROVE  InQueue(m)' \/ m = delivered'
      <4>1. PICK i \in 1..Len(queue) : queue[i] = m
        BY <3>3 DEF InQueue
      <4>2. CASE i = 1
        BY <1>2, <4>1, <4>2
      <4>3. CASE i # 1
        <5>1. i - 1 \in 1..Len(queue') /\ (i - 1) + 1 = i
          BY <1>1, <1>2, <4>3
        <5>2. queue'[i - 1] = m
          BY <1>2, <4>1, <5>1
        <5> QED
          BY <5>1, <5>2 DEF InQueue
      <4> QED
        BY <4>2, <4>3
    <3>4. InStream(c, m) => InStream(c, m)'
      BY <1>3 DEF InStream
    <3> QED
      BY <1>3, <3>2, <3>3, <3>4
  <2>8. NothingLost(c)'
    BY <2>6, <2>7 DEF NothingLost
  <2> QED
    BY <2>5, <2>8
<1>8. IdleStreamsEmpty' /\ StoppedHaveGone'
  BY <1>3 DEF DeliveryInv, IdleStreamsEmpty, StoppedHaveGone
<1>9. NothingSkipped'
  <2>1. ASSUME NEW m \in 1..MaxMessages, delivered' < m, m <= emitted'
        PROVE  m \in dropped' \/ InQueue(m)'
    <3>1. Earlier(delivered, queue[1]) /\ queue[1] \in Nat /\ queue[1] < m
      BY <1>1, <1>2, <1>4, <1>5, <2>1
    <3>2. delivered < m
      BY <1>1, <3>1 DEF Earlier
    <3>3. m \in dropped \/ InQueue(m)
      BY <1>3, <2>1, <3>2 DEF DeliveryInv, NothingSkipped
    <3>4. ASSUME InQueue(m)
          PROVE  InQueue(m)'
      <4>1. PICK i \in 1..Len(queue) : queue[i] = m
        BY <3>4 DEF InQueue
      <4>2. i # 1
        BY <3>1, <4>1
      <4>3. i - 1 \in 1..Len(queue') /\ (i - 1) + 1 = i
        BY <1>1, <1>2, <4>2
      <4>4. queue'[i - 1] = m
        BY <1>2, <4>1, <4>3
      <4> QED
        BY <4>3, <4>4 DEF InQueue
    <3> QED
      BY <1>3, <3>3, <3>4
  <2> QED
    BY <2>1 DEF NothingSkipped
<1> QED
  BY <1>6, <1>7, <1>8, <1>9 DEF DeliveryInv

\* The entry that is written is later than all that the client has or had.
LEMMA WriteKeepsOrder ==
    ASSUME StreamingInv, DeliveryInv, Write
    PROVE  DeliveryInv'
<1>0. Writer \in Clients /\ cursor # 0
  BY WriterIsClient DEF Write, StreamingInv
<1>1. PICK w \in Clients : w = Writer
  BY <1>0
<1>2. /\ Listening(w) /\ cursor' = NextSink
      /\ stream' = [stream EXCEPT ![w] = Append(@, delivered)]
      /\ UNCHANGED <<driver, emitted, queue, dropped, delivered, sinks, handler, stopped,
                     client, last_read>>
  BY <1>1 DEF Write, log, server
<1>3. /\ Pending(w) /\ ~Pending(w)'
      /\ \A c \in Clients : c # w => (Pending(c)' <=> Pending(c))
  BY <1>0, <1>1, <1>2, PendingMoves
<1>4. handler[w] \in {"waiting", "detaching"}
  <2>1. cursor \in DOMAIN sinks
    BY <1>0, LenProperties DEF StreamingInv, TypeOK
  <2> QED
    BY <1>1, <2>1 DEF StreamingInv, StreamersHaveHandlers, Writer
<1>5. /\ stream \in [Clients -> Seq(Messages)] /\ delivered \in Messages
      /\ last_read \in [Clients -> Messages]
  BY DEF StreamingInv, TypeOK
<1>6. LogGrows /\ QueueInOrder'
  <2>1. LogGrows
    BY <1>2, LogRests DEF log
  <2> QED
    BY <1>2, <2>1 DEF DeliveryInv, QueueInOrder
<1>7. ASSUME NEW c \in Clients, Attached(c)', c # w
      PROVE  StreamInOrder(c)' /\ NothingLost(c)'
  <2>1. Attached(c)
    BY <1>2, <1>7 DEF Attached, Listening
  <2>2. StreamInOrder(c) /\ NothingLost(c)
    BY <2>1 DEF DeliveryInv
  <2>3. /\ stream'[c] = stream[c] /\ last_read'[c] = last_read[c] /\ UNCHANGED delivered
        /\ Pending(c)' <=> Pending(c)
    BY <1>2, <1>3, <1>5, <1>7
  <2> QED
    BY <1>6, <2>2, <2>3, StreamRests
<1>8. ASSUME Attached(w)'
      PROVE  StreamInOrder(w)' /\ NothingLost(w)'
  <2> DEFINE old == stream[w]
             new == Append(old, delivered)
  <2>1. Attached(w)
    BY <1>2, <1>8 DEF Attached, Listening
  <2>2. StreamInOrder(w) /\ NothingLost(w)
    BY <1>1, <2>1 DEF DeliveryInv
  <2>3. old \in Seq(Messages) /\ stream'[w] = new
    BY <1>1, <1>2, <1>5
  <2>4. /\ Len(old) \in Nat /\ Len(new) = Len(old) + 1
        /\ \A i \in 1..Len(old) : new[i] = old[i]
        /\ new[Len(old) + 1] = delivered
    BY <1>5, <2>3, AppendProperties, LenProperties
  <2>5. /\ last_read[w] <= delivered /\ Earlier(last_read[w], delivered)
        /\ \A i \in 1..Len(old) : /\ Earlier(last_read[w], old[i]) /\ old[i] <= delivered
                                  /\ Earlier(old[i], delivered)
        /\ \A i, j \in 1..Len(old) : i < j => Earlier(old[i], old[j])
    BY <1>3, <2>2 DEF StreamInOrder
  <2> HIDE DEF old, new
  <2>6. \A i \in 1..Len(new) : i \in 1..Len(old) \/ i = Len(old) + 1
    BY <2>4
  <2>7. delivered <= delivered
    BY <1>5, MessagesAreNumbers
  <2>8. \A i \in 1..Len(new) : Earlier(last_read[w], new[i]) /\ new[i] <= delivered
    BY <2>4, <2>5, <2>6, <2>7
  <2>9. ASSUME NEW i \in 1..Len(new), NEW j \in 1..Len(new), i < j
        PROVE  Earlier(new[i], new[j])
    <3>1. i \in 1..Len(old)
      BY <2>4, <2>9
    <3> QED
      BY <2>4, <2>5, <2>6, <2>9, <3>1
  <2>10. StreamInOrder(w)'
    <3>1. /\ stream'[w] = new /\ last_read'[w] = last_read[w] /\ UNCHANGED delivered
          /\ ~Pending(w)'
      BY <1>2, <1>3, <2>3
    <3>2. \A x, y : Earlier(x, y)' <=> Earlier(x, y)
      BY DEF Earlier
    <3> QED
      BY <2>5, <2>8, <2>9, <3>1, <3>2 DEF StreamInOrder
  <2>11. ASSUME NEW m \in 1..MaxMessages, last_read'[w] < m, m <= emitted'
         PROVE  m \in dropped' \/ InStream(w, m)' \/ InQueue(m)'
    <3>1. m \in dropped \/ InStream(w, m) \/ InQueue(m) \/ m = delivered
      BY <1>2, <2>2, <2>11 DEF NothingLost
    <3>2. InStream(w, m) => InStream(w, m)'
      BY <2>3, <2>4 DEF InStream, old
    <3>3. m = delivered => InStream(w, m)'
      <4>1. Len(old) + 1 \in 1..Len(new)
        BY <2>4
      <4> QED
        BY <2>3, <2>4, <4>1 DEF InStream
    <3>4. InQueue(m) => InQueue(m)'
      BY <1>2 DEF InQueue
    <3> QED
      BY <1>2, <3>1, <3>2, <3>3, <3>4
  <2>12. NothingLost(w)'
    BY <2>11 DEF NothingLost
  <2> QED
    BY <2>10, <2>12
<1>9. IdleStreamsEmpty'
  BY <1>1, <1>2, <1>4, <1>5 DEF DeliveryInv, IdleStreamsEmpty, Listening
<1>10. StoppedHaveGone'
  BY <1>2 DEF DeliveryInv, StoppedHaveGone
<1>11. NothingSkipped'
  BY <1>2, <1>6, NothingSkippedRests DEF DeliveryInv
<1> QED
  BY <1>6, <1>7, <1>8, <1>9, <1>10, <1>11 DEF DeliveryInv

\* Whatever is logged, while the thread takes nothing.
LEMMA LogKeepsOrder ==
    ASSUME StreamingInv, DeliveryInv, UNCHANGED delivered,
           UNCHANGED log \/ Post(1) \/ Post(2)
    PROVE  QueueInOrder' /\ LogGrows
<1>1. CASE UNCHANGED log
  <2>1. QueueInOrder'
    BY <1>1 DEF DeliveryInv, QueueInOrder, Earlier, log
  <2> QED
    BY <1>1, <2>1, LogRests
<1>2. CASE Post(1)
  BY <1>2, PostKeepsOrder DEF DeliveryInv
<1>3. CASE Post(2)
  BY <1>3, PostKeepsOrder DEF DeliveryInv
<1> QED
  BY <1>1, <1>2, <1>3

\* The thread writes to nobody, before and after, or to the same streamer.
LEMMA PendingRests ==
    ASSUME UNCHANGED cursor, cursor = 0 \/ UNCHANGED sinks, NEW c
    PROVE  Pending(c)' <=> Pending(c)
  BY DEF Pending

\* The thread passes over the streamer of a client that has gone.
LEMMA PassKeepsOrder ==
    ASSUME StreamingInv, DeliveryInv, SkipStopped \/ WriteFails
    PROVE  DeliveryInv'
<1>1. /\ Writer \in Clients /\ cursor # 0 /\ cursor' = NextSink
      /\ UNCHANGED <<sinks, handler, client, stream, last_read, delivered>>
      /\ UNCHANGED log \/ Post(1)
  BY WriterIsClient DEF SkipStopped, WriteFails, StreamingInv, server, readers
<1>2. QueueInOrder' /\ LogGrows
  BY <1>1, LogKeepsOrder
<1>3. ~Attached(Writer)
  BY <1>1, AttachedHasStreamer DEF SkipStopped, WriteFails, Attached
<1>4. ASSUME NEW c \in Clients, Attached(c)'
      PROVE  /\ Attached(c)
             /\ stream'[c] = stream[c] /\ last_read'[c] = last_read[c]
             /\ Pending(c)' <=> Pending(c)
  <2>1. Attached(c)
    BY <1>1, <1>4 DEF Attached, Listening
  <2>2. c # Writer
    BY <1>3, <2>1
  <2> QED
    BY <1>1, <2>1, <2>2, PendingMoves
<1>5. IdleStreamsEmpty'
  BY <1>1 DEF DeliveryInv, IdleStreamsEmpty
<1>6. StoppedHaveGone'
  <2>1. CASE SkipStopped
    BY <2>1 DEF SkipStopped, DeliveryInv, StoppedHaveGone, server, readers
  <2>2. CASE WriteFails
    <3>1. cursor \in DOMAIN sinks
      BY <1>1, LenProperties DEF StreamingInv, TypeOK
    <3>2. handler[Writer] \in {"waiting", "detaching"}
      BY <3>1 DEF StreamingInv, StreamersHaveHandlers, Writer
    <3>3. client[Writer] = "off"
      BY <1>1, <2>2, <3>2
         DEF WriteFails, Listening, StreamingInv, TypeOK, SessionsStartAlone
    <3>4. /\ stopped \in [Clients -> BOOLEAN]
          /\ stopped' = [stopped EXCEPT ![Writer] = TRUE]
      BY <2>2 DEF WriteFails, StreamingInv, TypeOK
    <3>5. ASSUME NEW c \in Clients, stopped'[c]
          PROVE  client[c] = "off" /\ handler[c] # "none"
      <4>1. CASE c = Writer
        BY <3>2, <3>3, <4>1
      <4>2. CASE c # Writer
        BY <3>4, <3>5, <4>2 DEF DeliveryInv, StoppedHaveGone
      <4> QED
        BY <4>1, <4>2
    <3> QED
      BY <1>1, <3>5 DEF StoppedHaveGone
  <2> QED
    BY <2>1, <2>2
<1> QED
  BY <1>1, <1>2, <1>4, <1>5, <1>6, OrderRests

\* A client is owed what was not taken yet when its streamer was added.
LEMMA AttachKeepsOrder ==
    ASSUME StreamingInv, DeliveryInv, NEW c \in Clients, AttachStreamer(c)
    PROVE  DeliveryInv'
<1>1. /\ handler[c] = "attaching" /\ handler' = [handler EXCEPT ![c] = "waiting"]
      /\ handler \in [Clients -> {"none", "attaching", "waiting", "detaching"}]
      /\ last_read' = [last_read EXCEPT ![c] = delivered]
      /\ last_read \in [Clients -> Messages]
      /\ cursor = 0 /\ cursor' = 0
      /\ UNCHANGED <<log, delivered, cursor, stopped, client, stream>>
  BY DEF AttachStreamer, StreamingInv, TypeOK, thread
<1>2. QueueInOrder' /\ LogGrows
  BY <1>1, LogKeepsOrder
<1>3. NothingSkipped'
  BY <1>1, <1>2, NothingSkippedRests DEF DeliveryInv
<1>4. \A d : ~Pending(d)' /\ ~Pending(d)
  BY <1>1 DEF Pending
<1>5. ASSUME NEW d \in Clients, Attached(d)', d # c
      PROVE  StreamInOrder(d)' /\ NothingLost(d)'
  <2>1. Attached(d)
    BY <1>1, <1>5 DEF Attached, Listening
  <2>2. stream'[d] = stream[d] /\ last_read'[d] = last_read[d]
    BY <1>1, <1>5
  <2>3. StreamInOrder(d) /\ NothingLost(d)
    BY <2>1 DEF DeliveryInv
  <2>4. UNCHANGED delivered /\ (Pending(d)' <=> Pending(d))
    BY <1>1, <1>4
  <2> QED
    BY <1>2, <2>2, <2>3, <2>4, StreamRests
<1>6. StreamInOrder(c)' /\ NothingLost(c)'
  <2>1. stream[c] = <<>>
    BY <1>1 DEF DeliveryInv, IdleStreamsEmpty
  <2>2. last_read'[c] = delivered' /\ stream'[c] = <<>> /\ delivered' <= delivered'
    <3>1. delivered \in Nat
      BY MessagesAreNumbers DEF StreamingInv, TypeOK
    <3> QED
      BY <1>1, <2>1, <3>1
  <2>3. Len(stream'[c]) = 0
    BY <2>2, EmptySeq
  <2>4. StreamInOrder(c)'
    BY <1>4, <2>2, <2>3 DEF StreamInOrder
  <2>5. NothingLost(c)'
    BY <1>3, <2>2 DEF NothingLost, NothingSkipped
  <2> QED
    BY <2>4, <2>5
<1>7. IdleStreamsEmpty' /\ StoppedHaveGone'
  BY <1>1 DEF DeliveryInv, IdleStreamsEmpty, StoppedHaveGone
<1> QED
  BY <1>2, <1>3, <1>5, <1>6, <1>7 DEF DeliveryInv

\* The handler of a client that has gone returns.
LEMMA LeaveKeepsOrder ==
    ASSUME StreamingInv, DeliveryInv, NEW c \in Clients,
           ClientDisconnected(c) \/ DetachStreamer(c)
    PROVE  DeliveryInv'
<1>1. /\ handler \in [Clients -> {"none", "attaching", "waiting", "detaching"}]
      /\ stopped \in [Clients -> BOOLEAN]
      /\ \/ handler' = [handler EXCEPT ![c] = "detaching"] /\ UNCHANGED stopped
         \/ /\ handler' = [handler EXCEPT ![c] = "none"]
            /\ stopped' = [stopped EXCEPT ![c] = FALSE]
      /\ UNCHANGED <<delivered, cursor, client, stream, last_read>>
      /\ cursor = 0 \/ UNCHANGED sinks
      /\ Post(1)
  BY DEF ClientDisconnected, DetachStreamer, StreamingInv, TypeOK, thread, readers
<1>2. QueueInOrder' /\ LogGrows
  BY <1>1, LogKeepsOrder
<1>3. ASSUME NEW d \in Clients, Attached(d)'
      PROVE  /\ Attached(d)
             /\ stream'[d] = stream[d] /\ last_read'[d] = last_read[d]
             /\ Pending(d)' <=> Pending(d)
  <2>1. Attached(d)
    BY <1>1, <1>3 DEF Attached, Listening
  <2>2. Pending(d)' <=> Pending(d)
    BY <1>1, PendingRests
  <2> QED
    BY <1>1, <2>1, <2>2
<1>4. IdleStreamsEmpty' /\ StoppedHaveGone'
  BY <1>1 DEF DeliveryInv, IdleStreamsEmpty, StoppedHaveGone
<1> QED
  BY <1>1, <1>2, <1>3, <1>4, OrderRests

\* An entry that is read is the next one of the client.
LEMMA ReadKeepsOrder ==
    ASSUME StreamingInv, DeliveryInv, NEW c \in Clients, Read(c)
    PROVE  DeliveryInv'
<1>1. /\ stream \in [Clients -> Seq(Messages)] /\ last_read \in [Clients -> Messages]
      /\ stream[c] # <<>> /\ client[c] = "streaming"
      /\ stream' = [stream EXCEPT ![c] = Tail(@)]
      /\ last_read' = [last_read EXCEPT ![c] = Head(stream[c])]
      /\ UNCHANGED <<log, delivered, cursor, sinks, handler, stopped, client>>
  BY DEF Read, StreamingInv, TypeOK, thread, server
<1>2. QueueInOrder' /\ LogGrows
  BY <1>1, LogKeepsOrder
<1>3. NothingSkipped'
  BY <1>1, <1>2, NothingSkippedRests DEF DeliveryInv
<1>4. \A d : Pending(d)' <=> Pending(d)
  BY <1>1, PendingRests
<1>5. ASSUME NEW d \in Clients, Attached(d)', d # c
      PROVE  StreamInOrder(d)' /\ NothingLost(d)'
  <2>1. Attached(d)
    BY <1>1, <1>5 DEF Attached, Listening
  <2>2. stream'[d] = stream[d] /\ last_read'[d] = last_read[d]
    BY <1>1, <1>5
  <2>3. StreamInOrder(d) /\ NothingLost(d)
    BY <2>1 DEF DeliveryInv
  <2>4. UNCHANGED delivered /\ (Pending(d)' <=> Pending(d))
    BY <1>1, <1>4
  <2> QED
    BY <1>2, <2>2, <2>3, <2>4, StreamRests
<1>6. ASSUME Attached(c)'
      PROVE  StreamInOrder(c)' /\ NothingLost(c)'
  <2> DEFINE old == stream[c]
             new == Tail(old)
  <2>1. Attached(c)
    BY <1>1, <1>6 DEF Attached, Listening
  <2>2. StreamInOrder(c) /\ NothingLost(c)
    BY <2>1 DEF DeliveryInv
  <2>3. old \in Seq(Messages) /\ old # <<>> /\ stream'[c] = new /\ last_read'[c] = Head(old)
    BY <1>1
  <2>4. /\ Len(old) \in Nat /\ Len(old) > 0 /\ Len(new) = Len(old) - 1
        /\ Head(old) = old[1]
        /\ \A i \in 1..Len(new) : new[i] = old[i + 1]
    BY <2>3, HeadTailProperties, LenProperties
  <2>5. /\ \A i \in 1..Len(old) : Earlier(last_read[c], old[i]) /\ old[i] <= delivered
        /\ \A i, j \in 1..Len(old) : i < j => Earlier(old[i], old[j])
        /\ Pending(c) => \A i \in 1..Len(old) : Earlier(old[i], delivered)
    BY <2>2 DEF StreamInOrder
  <2>6. /\ last_read[c] \in Messages /\ \A i \in 1..Len(old) : old[i] \in Messages
    BY <1>1, <2>3, ElementOfSeq
  <2>7. \A m \in 1..MaxMessages :
          last_read[c] < m /\ m <= emitted =>
            \/ m \in dropped \/ InStream(c, m) \/ InQueue(m)
            \/ Pending(c) /\ m = delivered
    BY <2>2 DEF NothingLost
  <2>8. \A m : InStream(c, m) <=> \E i \in 1..Len(old) : old[i] = m
    BY DEF InStream
  <2> HIDE DEF old, new
  <2>9. 1 \in 1..Len(old) /\ \A i \in 1..Len(new) : i + 1 \in 1..Len(old) /\ 1 < i + 1
    BY <2>4
  <2>10. StreamInOrder(c)'
    <3>1. old[1] <= delivered /\ (Pending(c) => Earlier(old[1], delivered))
      BY <2>5, <2>9
    <3>2. /\ \A i \in 1..Len(new) : Earlier(old[1], new[i]) /\ new[i] <= delivered
          /\ Pending(c) => \A i \in 1..Len(new) : Earlier(new[i], delivered)
      BY <2>4, <2>5, <2>9
    <3>3. ASSUME NEW i \in 1..Len(new), NEW j \in 1..Len(new), i < j
          PROVE  Earlier(new[i], new[j])
      <4>1. i + 1 < j + 1
        BY <3>3
      <4> QED
        BY <2>4, <2>5, <2>9, <4>1
    <3>4. /\ stream'[c] = new /\ last_read'[c] = old[1] /\ UNCHANGED delivered
          /\ Pending(c)' <=> Pending(c)
      BY <1>1, <1>4, <2>3, <2>4
    <3>5. \A x, y : Earlier(x, y)' <=> Earlier(x, y)
      BY DEF Earlier
    <3> QED
      BY <3>1, <3>2, <3>3, <3>4, <3>5 DEF StreamInOrder
  <2>11. ASSUME NEW m \in 1..MaxMessages, last_read'[c] < m, m <= emitted'
         PROVE  \/ m \in dropped' \/ InStream(c, m)' \/ InQueue(m)'
                \/ Pending(c)' /\ m = delivered'
    <3>1. last_read[c] < m /\ m <= emitted /\ old[1] # m
      <4>1. Earlier(last_read[c], old[1]) /\ old[1] \in Nat /\ last_read[c] \in Nat
        BY <2>5, <2>6, <2>9, MessagesAreNumbers
      <4>2. old[1] < m /\ m <= emitted
        BY <1>1, <2>3, <2>4, <2>11 DEF log
      <4> QED
        BY <4>1, <4>2 DEF Earlier
    <3>2. \/ m \in dropped \/ InStream(c, m) \/ InQueue(m)
          \/ Pending(c) /\ m = delivered
      BY <2>7, <3>1
    <3>3. ASSUME InStream(c, m)
          PROVE  InStream(c, m)'
      <4>1. PICK i \in 1..Len(old) : old[i] = m
        BY <2>8, <3>3
      <4>2. i # 1
        BY <3>1, <4>1
      <4>3. i - 1 \in 1..Len(new) /\ (i - 1) + 1 = i
        BY <2>4, <4>2
      <4>4. new[i - 1] = m
        BY <2>4, <4>1, <4>3
      <4> QED
        BY <2>3, <4>3, <4>4 DEF InStream
    <3>4. (m \in dropped => m \in dropped') /\ (InQueue(m) => m \in dropped' \/ InQueue(m)')
      BY <1>2 DEF LogGrows
    <3> QED
      BY <1>1, <1>4, <3>2, <3>3, <3>4
  <2>12. NothingLost(c)'
    BY <2>11 DEF NothingLost
  <2> QED
    BY <2>10, <2>12
<1>7. IdleStreamsEmpty' /\ StoppedHaveGone'
  <2>1. \/ client[c] \notin {"off", "retrying", "connected"} /\ handler[c] # "attaching"
        \/ stream[c] = <<>>
    BY DEF DeliveryInv, IdleStreamsEmpty
  <2> QED
    BY <1>1, <2>1 DEF DeliveryInv, IdleStreamsEmpty, StoppedHaveGone
<1> QED
  BY <1>2, <1>3, <1>5, <1>6, <1>7 DEF DeliveryInv

\* A run of logcat gets to a stream, or loses it.
LEMMA SessionKeepsOrder ==
    ASSUME StreamingInv, DeliveryInv, NEW c \in Clients,
           Connect(c) \/ OpenStream(c) \/ ReadFails(c) \/ User(c)
    PROVE  DeliveryInv'
<1>1. /\ handler \in [Clients -> {"none", "attaching", "waiting", "detaching"}]
      /\ client \in [Clients -> {"off", "retrying", "connected", "streaming", "suspended"}]
      /\ stream \in [Clients -> Seq(Messages)] /\ last_read \in [Clients -> Messages]
  BY DEF StreamingInv, TypeOK
<1>2. UNCHANGED log \/ Post(1) \/ Post(2)
  BY DEF Connect, OpenStream, ReadFails, User, Start, Suspend, Resume, Quit
<1>3. UNCHANGED <<delivered, cursor, sinks, stopped>>
  BY DEF Connect, OpenStream, ReadFails, User, Start, Suspend, Resume, Quit, thread, server
<1>4. QueueInOrder' /\ LogGrows
  BY <1>2, <1>3, LogKeepsOrder
<1>5. \A d : Pending(d)' <=> Pending(d)
  BY <1>3, PendingRests
<1>6. ASSUME NEW d \in Clients, Attached(d)'
      PROVE  Attached(d) /\ stream'[d] = stream[d] /\ last_read'[d] = last_read[d]
  <2>1. CASE Connect(c) \/ Start(c) \/ Suspend(c) \/ Resume(c)
    BY <1>1, <1>6, <2>1 DEF Connect, Start, Suspend, Resume, Attached, Listening, server
  <2>2. CASE OpenStream(c)
    BY <1>1, <1>6, <2>2
       DEF OpenStream, Attached, Listening, StreamingInv, SessionsStartAlone
  <2>3. CASE ReadFails(c) \/ Quit(c)
    BY <1>1, <1>6, <2>3 DEF ReadFails, Quit, Attached, Listening, server
  <2> QED
    BY <2>1, <2>2, <2>3 DEF User
<1>7. IdleStreamsEmpty'
  <2>1. CASE Connect(c) \/ Start(c) \/ Suspend(c) \/ Resume(c)
    BY <1>1, <2>1 DEF Connect, Start, Suspend, Resume, DeliveryInv, IdleStreamsEmpty, server
  <2>2. CASE OpenStream(c)
    BY <1>1, <2>2 DEF OpenStream, DeliveryInv, IdleStreamsEmpty
  <2>3. CASE ReadFails(c) \/ Quit(c)
    BY <1>1, <2>3 DEF ReadFails, Quit, DeliveryInv, IdleStreamsEmpty, server
  <2> QED
    BY <2>1, <2>2, <2>3 DEF User
<1>8. StoppedHaveGone'
  <2>1. \A d \in Clients : stopped[d] => client[d] = "off" /\ handler[d] # "none"
    BY DEF DeliveryInv, StoppedHaveGone
  <2>2. CASE OpenStream(c)
    BY <1>1, <1>3, <2>1, <2>2 DEF OpenStream, StoppedHaveGone
  <2>3. CASE Connect(c) \/ ReadFails(c) \/ User(c)
    BY <1>1, <1>3, <2>1, <2>3
       DEF Connect, ReadFails, User, Start, Suspend, Resume, Quit, StoppedHaveGone, server
  <2> QED
    BY <2>2, <2>3
<1> QED
  BY <1>3, <1>4, <1>5, <1>6, <1>7, <1>8, OrderRests

\* A life of the driver begins and ends without sessions.
LEMMA LifeKeepsOrder ==
    ASSUME StreamingInv, DeliveryInv, Boot \/ Shutdown \/ ServerDown \/ Exit \/ Crash
    PROVE  DeliveryInv'
<1>1. CASE Boot \/ Shutdown \/ ServerDown
  <2>1. UNCHANGED <<log, delivered, cursor, sinks, handler, stopped, client, stream, last_read>>
    BY <1>1 DEF Boot, Shutdown, ServerDown, thread, server, readers
  <2>2. QueueInOrder' /\ LogGrows
    BY <2>1, LogKeepsOrder
  <2>3. ASSUME NEW c \in Clients, Attached(c)'
        PROVE  /\ Attached(c)
               /\ stream'[c] = stream[c] /\ last_read'[c] = last_read[c]
               /\ Pending(c)' <=> Pending(c)
    BY <2>1, <2>3, PendingRests DEF Attached, Listening
  <2>4. IdleStreamsEmpty' /\ StoppedHaveGone'
    BY <2>1 DEF DeliveryInv, IdleStreamsEmpty, StoppedHaveGone
  <2> QED
    BY <2>1, <2>2, <2>3, <2>4, OrderRests
<1>2. CASE Exit \/ Crash
  <2>1. /\ emitted' = 0 /\ queue' = <<>> /\ delivered' = 0 /\ handler' = NoHandlers
        /\ UNCHANGED <<client, stream, last_read>>
    BY <1>2 DEF Exit, Crash, server, readers, StreamingInv, DestroyedAlone
  <2>2. QueueInOrder' /\ NothingSkipped'
    <3>1. Len(queue') = 0
      BY <2>1, EmptySeq
    <3> QED
      BY <2>1, <3>1, MessagesAreNumbers DEF QueueInOrder, NothingSkipped
  <2>3. \A c \in Clients : handler'[c] = "none"
    BY <2>1 DEF NoHandlers
  <2>4. \A c \in Clients : ~Attached(c)'
    BY <2>3 DEF Attached
  <2>5. IdleStreamsEmpty'
    BY <2>1, <2>3 DEF DeliveryInv, IdleStreamsEmpty
  <2>6. StoppedHaveGone'
    <3>1. CASE Exit
      <4>1. handler = NoHandlers /\ UNCHANGED stopped
        BY <3>1 DEF Exit, server, StreamingInv, DestroyedAlone
      <4> QED
        BY <2>1, <4>1 DEF DeliveryInv, StoppedHaveGone, NoHandlers
    <3>2. CASE Crash
      BY <3>2 DEF Crash, StoppedHaveGone
    <3> QED
      BY <1>2, <3>1, <3>2
  <2> QED
    BY <2>2, <2>4, <2>5, <2>6 DEF DeliveryInv
<1> QED
  BY <1>1, <1>2

LEMMA EmitKeepsOrder ==
    ASSUME StreamingInv, DeliveryInv, Emit
    PROVE  DeliveryInv'
<1>1. /\ Post(1)
      /\ UNCHANGED <<delivered, cursor, sinks, handler, stopped, client, stream, last_read>>
  BY DEF Emit, thread, server, readers
<1>2. QueueInOrder' /\ LogGrows
  BY <1>1, LogKeepsOrder
<1>3. ASSUME NEW c \in Clients, Attached(c)'
      PROVE  /\ Attached(c)
             /\ stream'[c] = stream[c] /\ last_read'[c] = last_read[c]
             /\ Pending(c)' <=> Pending(c)
  BY <1>1, <1>3, PendingRests DEF Attached, Listening
<1>4. IdleStreamsEmpty' /\ StoppedHaveGone'
  BY <1>1 DEF DeliveryInv, IdleStreamsEmpty, StoppedHaveGone
<1> QED
  BY <1>1, <1>2, <1>3, <1>4, OrderRests

\* In every state what a client has still to get is in order and complete: in its
\* stream, in the hand of the logging thread, in the queue, in this order.
THEOREM DeliveryInvariant == Spec => []DeliveryInv
<1>1. Init => DeliveryInv
  <2> SUFFICES ASSUME Init PROVE DeliveryInv
    OBVIOUS
  <2>1. /\ emitted = 0 /\ delivered = 0 /\ Len(queue) = 0
        /\ \A c \in Clients : handler[c] = "none" /\ stream[c] = <<>> /\ ~stopped[c]
    BY EmptySeq DEF Init, NewLog, NoHandlers
  <2> QED
    BY <2>1, MessagesAreNumbers
       DEF DeliveryInv, IdleStreamsEmpty, StoppedHaveGone, QueueInOrder, NothingSkipped,
           Attached
<1>2. StreamingInv /\ DeliveryInv /\ [Next]_vars => DeliveryInv'
  <2> SUFFICES ASSUME StreamingInv, DeliveryInv, [Next]_vars PROVE DeliveryInv'
    OBVIOUS
  <2>1. CASE Emit
    BY <2>1, EmitKeepsOrder
  <2>2. CASE TakeMessage
    BY <2>2, TakeKeepsOrder
  <2>3. CASE SkipStopped \/ WriteFails
    BY <2>3, PassKeepsOrder
  <2>4. CASE Write
    BY <2>4, WriteKeepsOrder
  <2>5. ASSUME NEW c \in Clients, AttachStreamer(c) PROVE DeliveryInv'
    BY <2>5, AttachKeepsOrder
  <2>6. ASSUME NEW c \in Clients, ClientDisconnected(c) \/ DetachStreamer(c) PROVE DeliveryInv'
    BY <2>6, LeaveKeepsOrder
  <2>7. ASSUME NEW c \in Clients, Read(c) PROVE DeliveryInv'
    BY <2>7, ReadKeepsOrder
  <2>8. ASSUME NEW c \in Clients, Connect(c) \/ OpenStream(c) \/ ReadFails(c) \/ User(c)
        PROVE  DeliveryInv'
    BY <2>8, SessionKeepsOrder
  <2>9. CASE Boot \/ Shutdown \/ ServerDown \/ Exit \/ Crash
    BY <2>9, LifeKeepsOrder
  <2>10. CASE UNCHANGED vars
    <3>1. UNCHANGED <<log, delivered, cursor, sinks, handler, stopped, client, stream, last_read>>
      BY <2>10 DEF vars, thread, server, readers
    <3>2. QueueInOrder' /\ LogGrows
      BY <3>1, LogKeepsOrder
    <3>3. ASSUME NEW c \in Clients, Attached(c)'
          PROVE  /\ Attached(c)
                 /\ stream'[c] = stream[c] /\ last_read'[c] = last_read[c]
                 /\ Pending(c)' <=> Pending(c)
      BY <3>1, <3>3, PendingRests DEF Attached, Listening
    <3>4. IdleStreamsEmpty' /\ StoppedHaveGone'
      BY <3>1 DEF DeliveryInv, IdleStreamsEmpty, StoppedHaveGone
    <3> QED
      BY <3>1, <3>2, <3>3, <3>4, OrderRests
  <2> QED
    BY <2>1, <2>2, <2>3, <2>4, <2>5, <2>6, <2>7, <2>8, <2>9, <2>10 DEF Next, User
<1> QED
  BY <1>1, <1>2, StreamingInvariant, PTL DEF Spec

\* The next entry that a client reads is the next one of the log that was not dropped.
LEMMA ReadsNextEntry ==
    ASSUME StreamingInv, DeliveryInv, NEW c \in Clients, Read(c), handler[c] = "waiting"
    PROVE  /\ \/ last_read[c] < last_read'[c]
              \/ last_read[c] = last_read'[c] /\ last_read[c] \in {0, Late}
           /\ \A m \in last_read[c] + 1 .. last_read'[c] - 1 : m \in dropped
<1> DEFINE old == last_read[c]
           new == Head(stream[c])
<1>1. /\ last_read'[c] = new /\ old \in Messages /\ Attached(c)
      /\ stream[c] \in Seq(Messages) /\ stream[c] # <<>>
      /\ delivered \in Messages /\ emitted \in Messages /\ queue \in Seq(Messages)
  BY DEF Read, Attached, Listening, StreamingInv, TypeOK
<1>2. /\ Len(stream[c]) \in Nat /\ Len(stream[c]) > 0 /\ new = stream[c][1]
      /\ \A i \in 1..Len(stream[c]) : stream[c][i] \in Messages
      /\ \A i \in 1..Len(queue) : queue[i] \in Messages
  BY <1>1, HeadTailProperties, LenProperties, ElementOfSeq
<1>3. /\ \A i \in 1..Len(stream[c]) : Earlier(old, stream[c][i]) /\ stream[c][i] <= delivered
      /\ \A i, j \in 1..Len(stream[c]) : i < j => Earlier(stream[c][i], stream[c][j])
  BY <1>1 DEF DeliveryInv, StreamInOrder
<1>4. \A m \in 1..MaxMessages :
        old < m /\ m <= emitted =>
          \/ m \in dropped \/ InStream(c, m) \/ InQueue(m)
          \/ Pending(c) /\ m = delivered
  BY <1>1 DEF DeliveryInv, NothingLost
<1>5. delivered <= emitted /\ \A i \in 1..Len(queue) : Earlier(delivered, queue[i])
  BY DEF DeliveryInv, QueueInOrder
<1> HIDE DEF old, new
<1>6. 1 \in 1..Len(stream[c])
  BY <1>2
<1>7. Earlier(old, new) /\ new <= delivered /\ new \in Nat /\ old \in Nat
  BY <1>1, <1>2, <1>3, <1>6, MessagesAreNumbers
<1>8. delivered \in Nat /\ emitted \in Nat /\ delivered <= emitted /\ new <= Late
  BY <1>1, <1>2, <1>5, <1>6, MessagesAreNumbers
<1>9. ASSUME NEW m \in old + 1 .. new - 1
      PROVE  m \in dropped
  <2>1. m \in 1..MaxMessages /\ old < m /\ m < new /\ m <= emitted /\ m < delivered
    BY <1>7, <1>8, MessagesAreNumbers
  <2>2. ~InStream(c, m)
    <3> SUFFICES ASSUME NEW i \in 1..Len(stream[c]), stream[c][i] = m PROVE FALSE
      BY DEF InStream
    <3>1. i = 1 \/ 1 < i
      BY <1>2
    <3>2. CASE i = 1
      BY <1>2, <1>7, <2>1, <3>2
    <3>3. CASE 1 < i
      <4>1. Earlier(new, m)
        BY <1>2, <1>3, <1>6, <3>3
      <4> QED
        BY <1>7, <2>1, <4>1 DEF Earlier
    <3> QED
      BY <3>1, <3>2, <3>3
  <2>3. ~InQueue(m)
    <3> SUFFICES ASSUME NEW i \in 1..Len(queue), queue[i] = m PROVE FALSE
      BY DEF InQueue
    <3>1. Earlier(delivered, m)
      BY <1>5
    <3> QED
      BY <1>8, <2>1, <3>1 DEF Earlier
  <2>4. m # delivered
    BY <1>8, <2>1
  <2> QED
    BY <1>4, <2>1, <2>2, <2>3, <2>4
<1>10. old < new \/ (old = new /\ old \in {0, Late})
  BY <1>7 DEF Earlier
<1> QED
  BY <1>1, <1>9, <1>10 DEF old

\* Duplicates of the log reach a client in order, none twice, and between two of them
\* only what the full queue dropped is missing, whoever else comes, stalls or goes.
THEOREM EntriesAlwaysFollow == Spec => EntriesFollow
<1> DEFINE Follow ==
        \A c \in Clients :
            Read(c) /\ handler[c] = "waiting" =>
                /\ \/ last_read[c] < last_read'[c]
                   \/ last_read[c] = last_read'[c] /\ last_read[c] \in {0, Late}
                /\ \A m \in last_read[c] + 1 .. last_read'[c] - 1 : m \in dropped
<1>1. StreamingInv /\ DeliveryInv /\ [Next]_vars => [Follow]_vars
  BY ReadsNextEntry
<1> QED
  BY <1>1, StreamingInvariant, DeliveryInvariant, PTL DEF Spec, EntriesFollow
=============================================================================
