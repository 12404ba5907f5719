---------------------------- MODULE LogStreaming -----------------------------
(***************************************************************************)
(* The driver's log and its clients: the queue of the asynchronous logger  *)
(* and its one logging thread (log_manager.cpp), the streamers that the    *)
(* thread writes through (log_streamer.cpp), the stream_logs handlers that *)
(* attach and detach them (driver_service.cpp), the life of the driver     *)
(* around them (driver.cpp), and `roc-vad logcat`, which reads a stream    *)
(* and reconnects when it ends (cmd_logcat.cpp, connector.cpp).            *)
(*                                                                         *)
(* The logging thread holds the mutex of the dist sink while it writes one *)
(* message to every streamer in turn; attaching and detaching take that    *)
(* mutex.  A write to a slow client blocks, a write to a client that has   *)
(* gone fails.  Messages are told apart by their number: any message may   *)
(* be the first that has one, the next ones count up to MaxMessages, those *)
(* before have 0 and those after are all Late.                             *)
(***************************************************************************)
EXTENDS Integers, Sequences, SequencesExt

CONSTANTS
    Clients,            \* runs of `roc-vad logcat`
    QueueSize,          \* messages the logger's queue holds (10000 in the code)
    StreamWindow,       \* entries gRPC takes for a client that does not read
    MaxMessages         \* messages that are told apart in one life of the driver

ASSUME LogAssumption ==
    /\ QueueSize \in Nat \ {0}
    /\ StreamWindow \in Nat \ {0}
    /\ MaxMessages \in Nat

Late == MaxMessages + 1

\* The messages before the first number, the numbered ones, and those after them.
Messages == 0..Late

VARIABLES
    driver,             \* the life of the driver: see TypeOK
    emitted,            \* the number of the last message
    queue,              \* the queue of the logger's thread pool
    dropped,            \* the numbered messages the queue dropped when it was full
    delivered,          \* the message the logging thread took last
    sinks,              \* the streamers of dist_sink_, by client
    cursor,             \* the streamer being written to; not 0: the thread has the mutex
    handler,            \* how far the stream_logs handler of a client is
    stopped,            \* LogStreamer::stopped_
    client,             \* how far the run of logcat is
    stream,             \* entries written to a client that it has not read
    last_read           \* the entry that a client read last

log == <<emitted, queue, dropped>>
thread == <<delivered, cursor>>
server == <<sinks, handler, stopped>>
readers == <<client, stream, last_read>>
vars == <<driver, log, thread, server, readers>>

NoHandlers == [c \in Clients |-> "none"]
-----------------------------------------------------------------------------
NewLog ==
    /\ emitted = 0 /\ queue = <<>> /\ dropped = {}
    /\ delivered = 0 /\ cursor = 0
    /\ sinks = <<>> /\ handler = NoHandlers /\ stopped = [c \in Clients |-> FALSE]

Init ==
    /\ driver = "serving"
    /\ NewLog
    /\ client = [c \in Clients |-> "off"]
    /\ stream = [c \in Clients |-> <<>>]
    /\ last_read = [c \in Clients |-> 0]

\* The numbers that the next n messages may have: counting starts with any message.
NextNumbers(n) ==
    LET From(first) == [i \in 1..n |-> IF first + i < Late THEN first + i ELSE Late]
    IN  {From(emitted)} \cup (IF emitted = 0 THEN {[i \in 1..n |-> 0]} ELSE {})

\* Mutation: a thread that logs waits for a place in the queue.
PostOrWait(n) ==
    /\ Len(queue) < QueueSize
    /\ \E numbers \in NextNumbers(n) :
        LET backlog == queue \o numbers
            excess == Len(backlog) - QueueSize
        IN  /\ emitted' = numbers[n]
            /\ queue' = IF excess > 0 THEN SubSeq(backlog, excess + 1, Len(backlog))
                                      ELSE backlog
            /\ dropped' = dropped \cup ({backlog[i] : i \in 1..excess} \cap 1..MaxMessages)

\* A call of spdlog never waits: when the queue is full the oldest message goes.
Post(n) ==
    \E numbers \in NextNumbers(n) :
        LET backlog == queue \o numbers
            excess == Len(backlog) - QueueSize
        IN  /\ emitted' = numbers[n]
            /\ queue' = IF excess > 0 THEN SubSeq(backlog, excess + 1, Len(backlog))
                                      ELSE backlog
            /\ dropped' = dropped \cup ({backlog[i] : i \in 1..excess} \cap 1..MaxMessages)

\* Any other thread of the driver logs something.
Emit ==
    /\ driver \in {"serving", "unserved", "stopping"}
    /\ Post(1)
    /\ UNCHANGED <<driver, thread, server, readers>>

-----------------------------------------------------------------------------
(* The logging thread.                                                     *)

Writer == sinks[cursor]
NextSink == IF cursor < Len(sinks) THEN cursor + 1 ELSE 0
Listening(c) == client[c] \in {"streaming", "suspended"}

TakeMessage ==
    /\ cursor = 0 /\ queue # <<>>
    /\ delivered' = Head(queue)
    /\ queue' = Tail(queue)
    /\ cursor' = NextSink
    /\ UNCHANGED <<driver, emitted, dropped, server, readers>>

\* A streamer that has stopped takes no more messages.
SkipStopped ==
    /\ cursor # 0 /\ stopped[Writer]
    /\ cursor' = NextSink
    /\ UNCHANGED <<driver, log, delivered, server, readers>>

\* Mutation: an entry that gRPC does not take at once is skipped.
WriteOrSkip ==
    /\ cursor # 0 /\ ~stopped[Writer]
    /\ Listening(Writer)
    /\ stream' = IF Len(stream[Writer]) < StreamWindow
                 THEN [stream EXCEPT ![Writer] = Append(@, delivered)] ELSE stream
    /\ cursor' = NextSink
    /\ UNCHANGED <<driver, log, delivered, server, client, last_read>>

\* Write returns as soon as gRPC has taken the entry.
Write ==
    /\ cursor # 0 /\ ~stopped[Writer]
    /\ Listening(Writer) /\ Len(stream[Writer]) < StreamWindow
    /\ stream' = [stream EXCEPT ![Writer] = Append(@, delivered)]
    /\ cursor' = NextSink
    /\ UNCHANGED <<driver, log, delivered, server, client, last_read>>

\* Mutation: a write that fails leaves the streamer as it is.
WriteFailsUnnoticed ==
    /\ cursor # 0 /\ ~stopped[Writer] /\ ~Listening(Writer)
    /\ Post(1)
    /\ cursor' = NextSink
    /\ UNCHANGED <<driver, delivered, server, readers>>

\* The client has gone.  The logging thread logs that, in its own queue, stops
\* the streamer and wakes the handler up.
WriteFails ==
    /\ cursor # 0 /\ ~stopped[Writer] /\ ~Listening(Writer)
    /\ Post(1)
    /\ stopped' = [stopped EXCEPT ![Writer] = TRUE]
    /\ cursor' = NextSink
    /\ UNCHANGED <<driver, delivered, sinks, handler, readers>>

LoggingThread == TakeMessage \/ SkipStopped \/ Write \/ WriteFails

-----------------------------------------------------------------------------
(* The stream_logs handlers.                                               *)

\* attach_streamer makes a streamer and adds it to the dist sink, whose mutex it
\* waits for; the client is owed what is delivered from then on.
AttachStreamer(c) ==
    /\ handler[c] = "attaching" /\ cursor = 0
    /\ sinks' = Append(sinks, c)
    /\ handler' = [handler EXCEPT ![c] = "waiting"]
    /\ last_read' = [last_read EXCEPT ![c] = delivered]
    /\ UNCHANGED <<driver, log, thread, stopped, client, stream>>

\* wait_client_disconnect returns.
ClientDisconnected(c) ==
    /\ handler[c] = "waiting" /\ stopped[c]
    /\ Post(1)
    /\ handler' = [handler EXCEPT ![c] = "detaching"]
    /\ UNCHANGED <<driver, thread, sinks, stopped, readers>>

\* Mutation: remove_sink does not wait for the message that is being written.
DetachAtOnce(c) ==
    /\ handler[c] = "detaching"
    /\ \E i \in DOMAIN sinks : sinks[i] = c /\ sinks' = RemoveAt(sinks, i)
    /\ Post(1)
    /\ handler' = [handler EXCEPT ![c] = "none"]
    /\ stopped' = [stopped EXCEPT ![c] = FALSE]
    /\ UNCHANGED <<driver, thread, readers>>

\* Mutation: the handler returns without detaching its streamer.
DetachForgotten(c) ==
    /\ handler[c] = "detaching" /\ cursor = 0
    /\ Post(1)
    /\ handler' = [handler EXCEPT ![c] = "none"]
    /\ stopped' = [stopped EXCEPT ![c] = FALSE]
    /\ UNCHANGED <<driver, sinks, thread, readers>>

\* detach_streamer waits for the dist sink's mutex; then the handler returns, and
\* with it goes the stream writer that the streamer refers to.
DetachStreamer(c) ==
    /\ handler[c] = "detaching" /\ cursor = 0
    /\ \E i \in DOMAIN sinks : sinks[i] = c /\ sinks' = RemoveAt(sinks, i)
    /\ Post(1)
    /\ handler' = [handler EXCEPT ![c] = "none"]
    /\ stopped' = [stopped EXCEPT ![c] = FALSE]
    /\ UNCHANGED <<driver, thread, readers>>

Handler(c) == AttachStreamer(c) \/ ClientDisconnected(c) \/ DetachStreamer(c)

-----------------------------------------------------------------------------
(* The clients: CmdLogcat::run_ and the user who runs it.                  *)

\* Somebody runs `roc-vad logcat`.  A run that is started while the driver still
\* has the handler of an earlier run is another client.
Start(c) ==
    /\ client[c] = "off" /\ handler[c] = "none"
    /\ client' = [client EXCEPT ![c] = "retrying"]
    /\ UNCHANGED <<driver, log, thread, server, stream, last_read>>

\* Connector::connect pings the driver; when nobody answers, run_ sleeps and tries
\* again, which changes nothing.
Connect(c) ==
    /\ client[c] = "retrying" /\ driver = "serving"
    /\ Post(2)
    /\ client' = [client EXCEPT ![c] = "connected"]
    /\ UNCHANGED <<driver, thread, server, stream, last_read>>

\* session_ calls stream_logs.  A driver that takes the call starts a handler,
\* which logs that it runs and that it attaches a streamer.
OpenStream(c) ==
    /\ client[c] = "connected"
    /\ client' = [client EXCEPT ![c] = "streaming"]
    /\ \/ /\ driver = "serving"
          /\ handler' = [handler EXCEPT ![c] = "attaching"]
          /\ Post(2)
       \/ /\ driver # "serving"
          /\ UNCHANGED <<handler, log>>
    /\ UNCHANGED <<driver, thread, sinks, stopped, stream, last_read>>

Read(c) ==
    /\ client[c] = "streaming" /\ stream[c] # <<>>
    /\ last_read' = [last_read EXCEPT ![c] = Head(stream[c])]
    /\ stream' = [stream EXCEPT ![c] = Tail(@)]
    /\ UNCHANGED <<driver, log, thread, server, client>>

\* Mutation: session_ does not return when Read fails.
ReadsOn(c) ==
    /\ client[c] = "streaming" /\ handler[c] = "none"
    /\ stream' = [stream EXCEPT ![c] = <<>>]
    /\ UNCHANGED <<driver, log, thread, server, client, last_read>>

\* Read returns false: the driver has gone, and what it wrote last may be lost.
ReadFails(c) ==
    /\ client[c] = "streaming" /\ handler[c] = "none"
    /\ client' = [client EXCEPT ![c] = "retrying"]
    /\ stream' = [stream EXCEPT ![c] = <<>>]
    /\ last_read' = [last_read EXCEPT ![c] = 0]
    /\ UNCHANGED <<driver, log, thread, server>>

\* The output of logcat is not read (a pager, a stopped terminal), or is again.
Suspend(c) ==
    /\ client[c] = "streaming"
    /\ client' = [client EXCEPT ![c] = "suspended"]
    /\ UNCHANGED <<driver, log, thread, server, stream, last_read>>

Resume(c) ==
    /\ client[c] = "suspended"
    /\ client' = [client EXCEPT ![c] = "streaming"]
    /\ UNCHANGED <<driver, log, thread, server, stream, last_read>>

\* logcat never ends by itself: it is killed.
Quit(c) ==
    /\ client[c] # "off"
    /\ client' = [client EXCEPT ![c] = "off"]
    /\ stream' = [stream EXCEPT ![c] = <<>>]
    /\ last_read' = [last_read EXCEPT ![c] = 0]
    /\ UNCHANGED <<driver, log, thread, server>>

Logcat(c) == Connect(c) \/ OpenStream(c) \/ Read(c) \/ ReadFails(c)
User(c) == Start(c) \/ Suspend(c) \/ Resume(c) \/ Quit(c)

-----------------------------------------------------------------------------
(* The life of the driver.                                                 *)

\* coreaudiod loads the plugin.  OnInitialize reports success also when the RPC
\* server could not be started.
Boot ==
    /\ driver = "down"
    /\ driver' \in {"serving", "unserved"}
    /\ UNCHANGED <<log, thread, server, readers>>

\* ~Driver: the server, if there is one, takes no more calls.
Shutdown ==
    /\ driver \in {"serving", "unserved"}
    /\ driver' = "stopping"
    /\ UNCHANGED <<log, thread, server, readers>>

\* Mutation: the server is dropped with its calls in progress.
ServerDropped ==
    /\ driver = "stopping"
    /\ driver' = "draining"
    /\ UNCHANGED <<log, thread, server, readers>>

\* Shutdown has no deadline: it returns when every handler has.  The service, the
\* devices and the HAL objects go, and ~LogManager closes the queue.
ServerDown ==
    /\ driver = "stopping" /\ handler = NoHandlers
    /\ driver' = "draining"
    /\ UNCHANGED <<log, thread, server, readers>>

\* The logging thread ends with the last message of the queue, and the process
\* with it.
Exit ==
    /\ driver = "draining" /\ queue = <<>> /\ cursor = 0
    /\ driver' = "down"
    /\ emitted' = 0 /\ queue' = <<>> /\ dropped' = {}
    /\ delivered' = 0 /\ UNCHANGED <<cursor, server, readers>>

\* The process of the driver is killed, as restarting coreaudiod does.
Crash ==
    /\ driver # "down"
    /\ driver' = "down"
    /\ emitted' = 0 /\ queue' = <<>> /\ dropped' = {}
    /\ delivered' = 0 /\ cursor' = 0
    /\ sinks' = <<>> /\ handler' = NoHandlers /\ stopped' = [c \in Clients |-> FALSE]
    /\ UNCHANGED readers

Next ==
    \/ Emit \/ TakeMessage \/ SkipStopped \/ Write \/ WriteFails
    \/ \E c \in Clients : \/ AttachStreamer(c) \/ ClientDisconnected(c) \/ DetachStreamer(c)
                          \/ Connect(c) \/ OpenStream(c) \/ Read(c) \/ ReadFails(c)
                          \/ Start(c) \/ Suspend(c) \/ Resume(c) \/ Quit(c)
    \/ Boot \/ Shutdown \/ ServerDown \/ Exit \/ Crash

Spec == Init /\ [][Next]_vars

\* What runs, runs on: the logging thread, ~Driver, and, whenever again and again
\* they can, the handlers (the dist sink's mutex is released after each message)
\* and logcat (a suspended one is resumed).  Nothing makes another thread log, a
\* user act, or the driver start or stop.
Fairness ==
    /\ WF_vars(LoggingThread)
    /\ \A c \in Clients : SF_vars(Handler(c)) /\ SF_vars(Logcat(c))
    /\ WF_vars(ServerDown \/ Exit)

FairSpec == Spec /\ Fairness

-----------------------------------------------------------------------------
TypeOK ==
    /\ driver \in {"serving", "unserved", "stopping", "draining", "down"}
    /\ emitted \in Messages /\ delivered \in Messages
    /\ queue \in Seq(Messages) /\ Len(queue) <= QueueSize
    /\ dropped \subseteq 1..MaxMessages
    /\ sinks \in Seq(Clients) /\ cursor \in 0..Len(sinks)
    /\ handler \in [Clients -> {"none", "attaching", "waiting", "detaching"}]
    /\ stopped \in [Clients -> BOOLEAN]
    /\ client \in [Clients -> {"off", "retrying", "connected", "streaming", "suspended"}]
    /\ stream \in [Clients -> Seq(Messages)]
    /\ \A c \in Clients : Len(stream[c]) <= StreamWindow
    /\ last_read \in [Clients -> Messages]

\* A streamer is in the dist sink exactly while its handler is between attaching
\* and detaching it, and once, also while the logging thread goes through the
\* streamers: it never writes through a stream writer whose handler has returned.
StreamersHaveHandlers ==
    /\ \A i \in DOMAIN sinks : handler[sinks[i]] \in {"waiting", "detaching"}
    /\ \A c \in Clients : handler[c] \in {"waiting", "detaching"}
                            => \E i \in DOMAIN sinks : sinks[i] = c
    /\ \A i, j \in DOMAIN sinks : sinks[i] = sinks[j] => i = j

\* When the devices and the log manager are destroyed no handler runs that uses
\* them, and no client can hold up the logging thread, which is being joined.
DestroyedAlone ==
    driver \in {"draining", "down"} => sinks = <<>> /\ handler = NoHandlers

\* "Duplicates all logs from spdlog to gRPC stream" (log_manager.hpp:51): a client
\* gets the entries in the order in which they were logged and none twice, and what
\* it does not get between two of them, or after it was attached, is what the full
\* queue dropped; other clients that come, are slow or go cost it nothing.
EntriesFollow ==
    [][ \A c \in Clients :
            Read(c) /\ handler[c] = "waiting" =>
                /\ \/ last_read[c] < last_read'[c]
                   \/ last_read[c] = last_read'[c] /\ last_read[c] \in {0, Late}
                /\ \A m \in last_read[c] + 1 .. last_read'[c] - 1 : m \in dropped ]_vars

\* Nobody keeps the logging thread waiting for ever.
NoClientStalls == \A c \in Clients : []<>(client[c] # "suspended")

\* The handler of a client that has gone returns, as long as there are messages to
\* notice it by and no other client stalls.
GoneClientsDetached ==
    NoClientStalls /\ []<>(queue # <<>>)
        => \A c \in Clients : (client[c] = "off" /\ handler[c] # "none")
                                ~> (handler[c] = "none")

\* A message logged while a client is attached reaches it or is dropped by the
\* full queue, unless the session ends; with no client that stalls nothing in the
\* log waits for ever, the logging thread's own messages included.
MessagesArrive ==
    NoClientStalls
        => \A c \in Clients, i \in 1..QueueSize :
             \A m \in 1..MaxMessages :
                (client[c] = "streaming" /\ handler[c] = "waiting"
                   /\ i \in DOMAIN queue /\ queue[i] = m)
                  ~> (last_read[c] >= m \/ m \in dropped \/ client[c] = "off"
                        \/ driver = "down")

\* The destructor of the driver comes to its end if every logcat is ended and
\* something is logged to notice it by.  It waits for those that are not.
DriverStops ==
    /\ \A c \in Clients : []<>(client[c] \notin {"streaming", "suspended"})
    /\ []<>(driver = "stopping" => queue # <<>>)
    => (driver = "stopping") ~> (driver \in {"draining", "down"})

\* logcat survives the driver: while the driver serves, a run of logcat whose
\* session was lost streams again.
LogcatReconnects ==
    NoClientStalls
        => \A c \in Clients :
             (client[c] # "off" /\ driver = "serving")
               ~> (handler[c] = "waiting" \/ client[c] = "off" \/ driver # "serving")
=============================================================================
