# Verification of roc-vad

TLA+ models of roc-vad, a virtual audio device for macOS: a CoreAudio plugin
(the *driver*, `driver/`) that publishes virtual devices and streams their audio
over the network with roc-toolkit, and a command-line tool (`tool/`) that
controls the driver over gRPC.  Paths below are relative to the repository.

Contents: [inventory](#inventory), [plan](#plan), [modules](#modules),
[runs](#runs), [what the runs found](#what-the-runs-found), [proofs](#proofs),
[what is not modelled](#what-is-not-modelled).

## Inventory

| component | state | operations | talks to |
|---|---|---|---|
| index allocator (`index_allocator.cpp`) | a bitset of used indices that grows by 64-bit chunks, how many are used, the last one allocated, a desired maximum | allocate, acquire, release | called by the device's constructor and destructor |
| uid generator (`uid_generator.cpp`) | the uids it has generated | generate | called by the device's constructor |
| device (`device.cpp`) | settings (index, uid, type, enabled, endpoints, ...), the HAL device, the transceiver, the request handler | construct, destroy, toggle, bind, connect | allocator, generator, HAL plugin, transceiver |
| device manager (`device_manager.cpp`) | two tables of devices, by index and by uid; the allocator, the generator and the storage | add, delete, toggle, bind, connect, get, load at construction | devices, storage; one mutex around every operation |
| device storage (`device_storage.cpp`) | the list of devices in the HAL's persistent storage | load, save the whole list | HAL storage, serialization |
| RPC serialization (`rpc_serdes.cpp`) | none | settings to and from protobuf, with validation | service, storage |
| driver service (`driver_service.cpp`) | none | one handler per RPC, on gRPC threads | device manager, log manager |
| driver (`driver.cpp`) | the plugin, the manager, the service, the RPC server | construct, initialize (load, then serve), destroy | everything |
| log manager, log streamer (`log_*.cpp`) | an asynchronous queue, a list of sinks; per client a stopped flag | attach, detach, log, wait for disconnect | gRPC handlers and one logging thread |
| request handler (`request_handler.cpp`) | ring buffer, position, scratch buffer | start and stop I/O, read input, write output | HAL real-time threads, transceiver |
| ring buffer (`ring_buffer.cpp`) | samples, window of timestamps, offset of the window's head | restart, write, read | request handler |
| sender, receiver (`sender.cpp`, `receiver.cpp`) | roc handles | open, bind or connect, write or read, close | roc-toolkit |
| volume control (`volume_control.cpp`) | none | slider to gain | request handler |
| tool (`tool/`) | how far a run is | a ping, then one or several RPCs for a command; `uninstall` removes files | driver service |
| `logcat` (`cmd_logcat.cpp`, `connector.cpp`) | a connection, a stream | connect, stream, start over | driver service |

How they interact.  A gRPC thread enters `DriverService`, which calls one
operation of `DeviceManager`.  The manager locks its mutex, changes devices and
tables, saves the whole list and unlocks.  HAL threads enter `RequestHandler`
through libASPL, which serialises the calls for a device; they share only the
thread-safe transceiver with the gRPC threads.  The audio server may kill and
restart the driver at any moment; only the stored list survives.

What is hard here:

* allocator books that live across explicit and automatic indices, growth of the
  bitset, wrap-around of `index_t`;
* a failing constructor after some of its effects, in a request and while
  loading;
* four copies of what a device is (two tables, the HAL's set, the storage) that
  must change together;
* restarts at any point, loading included, with a save after each loaded device;
* a circular buffer addressed by timestamps, with requests that overlap, leave
  gaps and start over at another position, and unsigned arithmetic at its edges;
* reads of the network that fail;
* one logging thread that writes to every client while clients come, stall and go,
  shutting down while handlers wait for clients;
* settings that pass through options, messages, the device and the stored list,
  each with its own checks and defaults;
* commands of several calls, next to other runs of the tool and to a driver that
  goes away between a call and its answer.

What makes each component correct: the *allocator* never gives an index to two
holders and postpones reuse; the *manager* is a registry whose content changes
on request only, with tables, HAL, allocator and storage consistent; the
*driver* always comes back; the *ring buffer* holds the last N samples; the
*receiver path* gives every app the stream at its position, the *sender path*
sends every mixed sample once, in order; the *log stream* loses only what the
full queue drops, it ends when its client leaves, and the driver can shut down; a
*setting* ends up where it was meant, and comes back after a restart; a *command*
reports what was done.

## Plan

The core first:

1. `IndexPool`, `IndexAllocator` and its proofs (done).
2. `DeviceRegistry`, `DeviceManager` and its proofs (done).
3. `RingBuffer`, `RingBufferCalls`, `ReceiverIO`, `SenderIO` (done).
4. `LogStreaming`: the log, its clients, `logcat` and the life of the driver around
   them (done).
5. `DeviceConfig`: from options through messages to a device, and back from the
   stored list (done).
6. `ToolCommands`: runs of the tool over the abstract registry (done).
7. Theorems: `LogStreaming`'s safety and the order of the log, `DeviceConfig`'s round
   trip and options, the ring buffer's window, the paths of the samples, the reports
   of `ToolCommands` (done).
8. `DeviceIO`: a device's HAL object, toggled and deleted while I/O runs.  It needs
   assumptions about the locking of libASPL, which is not in the repository.

Abstract specifications: a pool of indices (1), a registry of devices (2), a
stream of samples on a time line (3).  `ToolCommands` runs on the registry instead
of the manager, which `DeviceManager` is proved to implement.

## Modules

| module | models | notes |
|---|---|---|
| `IndexPool` | the promise of the allocator | abstract |
| `IndexAllocator` | `index_allocator.cpp` | `used` and `chunks` are the bitset |
| `DeviceRegistry` | the promise of the driver (README.md, "Device persistence") | abstract |
| `DeviceManager` | `device_manager.cpp`, `device.cpp`, `device_storage.cpp`, `uid_generator.cpp`, `Driver::OnInitialize` | extends `IndexAllocator`, whose variables are part of its state |
| `DeviceManagerProofs` | | theorems of the allocator and of the manager |
| `RingBuffer` | `ring_buffer.cpp` | operators on a record, no state of its own |
| `RingBufferProofs` | | lemmas on the operators of `RingBuffer` |
| `RingBufferCalls` | a caller of the ring buffer | remembers what was written |
| `RingBufferCallsProofs` | | theorems |
| `ReceiverIO`, `SenderIO` | `request_handler.cpp` with `receiver.cpp`, `sender.cpp` | extend `RingBuffer` |
| `ReceiverIOProofs`, `SenderIOProofs` | | theorems |
| `LogStreaming` | `log_manager.cpp`, `log_streamer.cpp`, `DriverService::stream_logs`, `driver.cpp`, `cmd_logcat.cpp`, `connector.cpp` | |
| `LogStreamingProofs` | | theorems |
| `DeviceConfig` | `rpc_serdes.cpp`, `enum_map.cpp`, `driver_protocol.proto`, `device_defs.hpp`, the constructor of `Device`, `cmd_device_add_*.cpp` | follows one device |
| `DeviceConfigProofs` | | theorems |
| `ToolCommands` | the other `cmd_*.cpp`, `main.cpp`, `cmd_uninstall.cpp` | instantiates `DeviceRegistry` |
| `ToolCommandsProofs` | | theorems |
| `MC*` | | instances for TLC |

`IndexAllocator`.  The vector of chunks is modelled as the set of the bits that
are 1 and the number of chunks.  `find_free_` is given in closed form, `Ahead` and
`FindFree`, and chunk by chunk as the loop goes, `Visit` and `FindFreeScan`; the
run compares the two in every reachable bitset, and they are proved equal.  `MaxHeld` is the model's own
bound: the code assumes there are fewer than 2^32 devices.

`DeviceManager`.  Each operation of the manager is one step because it holds the
mutex from end to end.  Only a restart can separate the change of the table from
the save, and then the effect is that of no operation at all, so it needs no step
of its own.  An operation that throws before its first change is no step.
`status` says whether the driver is down, in the loop of `load_devices_` or
serving; each turn of the loop is a step, because a restart between two turns
is visible in the storage.  `Faults` switches the failures of the environment:

| fault | in the code |
|---|---|
| `construct` | the constructor of a requested device throws after it took its index (`device.cpp:151`) |
| `load` | the same for a stored device, skipped at `device_manager.cpp:233` |
| `save` | `WriteBytes` fails (`device_storage.cpp:71`) |
| `unreadable` | the list cannot be read or parsed (`device_storage.cpp:27-57`) |
| `early_restart` | the audio server restarts while the driver loads |

Endpoints stand for a slot and an interface, of which roc accepts one binding
each; names, encodings and network settings are left out, since the table treats
them as one value.  `GenerateUid` assumes that random digits do not hit a uid
that was loaded or chosen by a client.

`RingBuffer`.  `Transferred(n) = n % BufSize` is what the code's comparison of
offsets makes of a copy of n samples.  `WriteAborts` is the assertion at
`ring_buffer.cpp:142`; `ReadOverruns` says that the window and the request do not
meet, so that `to_ts - from_ts` wraps around.  A model that reaches either stops
there: what an optimised build does then is undefined.

`ReceiverIO` and `SenderIO`.  A sample is numbered, so that skipping, repeating
and shifting show, and carries how often the volume was applied.  Start, stop,
and a request are the actions; libASPL serialises them.  Samples of one channel
are modelled: with more, all positions are multiples of the channel count.

`LogStreaming`.  The logging thread takes a message (`TakeMessage`) and then goes
through the streamers with the dist sink's mutex held: `cursor` is the streamer
whose `write` is running, and 0 when the mutex is free, which is when handlers may
attach and detach.  Each of `stream_logs`, `write` and `logcat` is cut where it
blocks: at the mutex, at `wait_client_disconnect`, at a stream that is full, in
`Read`.  What these parts log themselves goes through the same queue (`Post`), so
that the thread that empties the queue also fills it.  A message is its number:
counting starts with any message and stops at `MaxMessages`, which makes one
message out of an unbounded log the one that is watched.  `Crash` is the killing of
the driver's process; `Shutdown`, `ServerDown` and `Exit` are `~Driver`,
`~DeviceManager` and `~LogManager`.

`DeviceConfig`.  `CommandAccepted` and `ToolRequest` are the tool, `Accepted` and
`InfoFromRpc` are `device_info_from_rpc`, `Construct` is the constructor of `Device`
and `InfoToRpc` is `device_info_to_rpc`, of which `stored` is the last result.
`Requests` are messages that the tool does not send and another client may.
The tables of `enum_map.cpp` are sets of names and a number that a table lacks is
`"unmapped"`.  An option whose text does not parse is `Malformed`.

`ToolCommands`.  `phase` says how far the run in a terminal is.  A call is two steps,
the driver's (`Attach`, `Toggle`, `Delete`, `Add`, `Show`, `ListOrInfo`, or
`Refused`) and the arrival of the answer (`Answered`); a driver that stops in
between leaves the effect and takes the answer.  `effects` records what each run
did and to which device, by a number that nobody in the system sees, so that a
device that got the index of a deleted one is told from it.  `bundle` and `binary`
are the installed files: `remove_all` may leave the bundle `"damaged"`.

Definitions whose comment begins with "Mutation" are not part of the models.
Each is a variant of the definition that follows, with a plausible bug; replacing
the one by the other makes the property named in `PROJECT.json` fail, which shows
that the property can fail.

## Runs

| run | shows | bounds |
|---|---|---|
| `index_allocator` | the books agree, search as in the code, reuse postponed, the pool implemented | 4 chunks of 4 bits, desired maximum 5, up to 4 holders: the bitset grows, the maximum is raised once and then may not be (it would overflow), the candidate wraps around |
| `device_manager` | the registry implemented: restarts change nothing, the stored list follows the table | 3 indices (all may be taken), 3 uids, 1 endpoint, requests may fail |
| `device_manager_faults` | tables, HAL, allocator and storage agree under every fault; the driver comes back | 2 uids, no endpoints, no symmetry |
| `ring_buffer` | the last N samples are held and read | 4 samples, positions to 10, writes to 3 samples beginning up to 2 before the tail, two values for each position |
| `receiver_io` | requests served from the stream, the network read at the pace of the clock, apps agree, failing reads included | 4 samples, requests to 2 samples, lag 1, advance 1: together they fit the buffer; one start whose first request may be dropped |
| `sender_io` | samples sent in order, once, at once | 5 samples, positions to 12, writes to 3 samples, up to 2 before the furthest end |
| `log_streaming` | order, losses by overrun only, handlers that end, a driver that stops, `logcat` that comes back | 2 clients, a queue of 1, 1 entry taken for a client that does not read, 1 watched message |
| `device_config` | what is accepted is usable, what is stored makes the same device, each option has its effect | commands and requests that leave the plainest one of their type in one group of fields: identity, encoding, packet encoding with packet size, each setting, endpoints |
| `tool_commands` | reports are true, a command stays with its device, one winner, an uninstallation can be repeated | 2 terminals, 11 kinds of commands, 2 indices, 2 uids, 2 devices ever added |

With a queue of one message every burst overruns it, and with a window of one
entry a client that stops reading blocks the thread at once; with two clients one
can stall, come or go while the other is written to, and each can be first or last
in the dist sink.  The message that is watched may be any of the log.  In
`device_config` the groups are what the code checks together; apart from the type, no line
of it looks at fields of two groups.  Two devices are enough in `tool_commands` for the second to
take the place of the first.

The bounds are small and enough to reach what matters: every counter that can
wrap wraps, every table can be full, buffers turn around at least twice, and two
sessions of I/O or two lives of the driver follow each other.  What the code does
depends on equality of indices and uids and on differences of positions, not on
their size.

Deadlock is checked in every run but `tool_commands`, where everything may be
uninstalled and then nothing happens any more.

Fairness.  Two runs assume any.  `device_manager_faults`: weak fairness of starting
the driver (the audio server restarts its plugins), of each turn of the load loop
and of starting the RPC server (the driver's own thread runs on).  Restarts,
requests and failures are never obliged to happen, nor to stop.  An audio server
that always restarts the driver before it has loaded its list never sees it serve;
`EventuallyServes` names this exception.

`log_streaming`: weak fairness of the logging thread and of `~Driver`, which run on
while they can; strong fairness of the handlers, since they wait for a mutex that
is released after every message and taken again, and of `logcat`, which a user may
suspend and resume again and again.  Nothing makes a thread log, a client start,
read for ever or quit, or the audio server start or stop the driver.  What the
code cannot promise without them is in the properties as an antecedent: that no
client stays suspended (`NoClientStalls`: one that does stops the log of all, since
`Write` has no deadline), that there are messages by which a client that has gone is
noticed, and, in `DriverStops`, that the runs of `logcat` end.  The last is not a
weakness of the model: `Shutdown()` has no deadline, and a `logcat` that keeps
reading holds up the destructor of the driver.

## What the runs found

These runs check a sentence of the documentation or of a comment and find it
violated; `PROJECT.json` quotes the sentence.

| run | what happens |
|---|---|
| `index_leak` | a constructor that throws leaves its index acquired; a later request for that index is refused although no device has it (`device.cpp:151`) |
| `early_restart` | a restart while loading loses the devices not loaded yet (`device_manager.cpp:88` from `:231`) |
| `receiver_io_sparse` | a request further than N samples beyond the tail makes `read` fill more than the request (`ring_buffer.cpp:120`) |

More that the models show, without a run of their own:

* A stored device that fails to load once is skipped (`device_manager.cpp:233`) and the
  next save forgets it: `RestartsLoseNothing` with `Faults = {"load"}`.
* A write of exactly N samples to the ring buffer copies nothing, since its offsets are
  those of no samples (`ring_buffer.cpp:146`): `HoldsLastSamples` with `MaxWrite = 4`.
* A search that starts in a chunk beyond the bitset wraps around
  (`index_allocator.cpp:92`) and returns an old index although the candidate is below
  the desired maximum: `ReusePostponed` names this case beside the one that the
  comment at `index_allocator.hpp:48` gives.
* With `MaxGap = 1`, `HoldsLastSamples` fails: a write that leaves a gap moves the
  window over it without clearing it, and samples of N positions earlier reappear.
* The packet encoding 255 is refused (`rpc_serdes.cpp:529`), although README.md:557 and
  the message of the refusal say "in range [1; 255]".
* With one option for the packet encoding the others are zero when they are not given:
  an id or a rate of zero is refused, a format becomes `s16`, a layout mono.
* `--max-packet-size` of a receiver is ignored unless there is an option for the packet
  encoding (`cmd_device_add_receiver.cpp:197`); the sender has no such condition.
  `OptionsTakeEffect` names this exception.
* A command that bound its first endpoint and failed at the second cannot be completed
  by repeating it: the first is then in use, and the command stops there.

## Proofs

`DeviceManagerProofs` begins with the allocator, whose variables are part of the
manager's.  For every chunk size, number of chunks, first desired maximum and bound
on the holders allowed by `AllocatorAssumption`:

* `AllocatorInvariant`: `AllocatorSpec => []AllocatorInv`.  `AllocatorInv` is the type invariant, the
  agreement of the books (the count is the number of bits set, index 0 is set,
  every bit set lies in the bitset) and the bound on holders.  All three are
  needed: the count decides nothing about safety by itself, but that bits lie in
  the bitset makes it finite, and finiteness with the bound is what shows that
  the search past a full bitset does not wrap around to index 0
  (`FindFreeIsFree`).
* `SearchIsTheLoop`: `AllocatorSpec => []FindFreeMatchesScan`.  The loop is a
  quantification over its visits, the first of which that sees a free bit returns the
  smallest it sees (`ScanFindsFree`).  `VisitedChunk` says which chunk a visit looks at,
  `WhatVisitsSee` that the visits before the end of the bitset and those after the
  turn see, between them, what the closed form compares.
* `AllocatorImplementsPool`: `AllocatorSpec => ImplementsPool`, by the mapping of the held
  indices to the bits set and the number of holders to `num_allocated_`, 0 aside.
  The step lemma rests on `NextIndexIsFree`.
* `ReuseIsPostponed`: `AllocatorSpec => ReusePostponed`, from `FindFreeGoesForward`: a
  search that starts inside the bitset does not go back while something is free
  ahead, and `GoesBackOnlyWhen`, which the manager needs as well.

The assumption on the bound, `MaxHeld \in 1..(MaxIndex + 1)`, is the code's own:
with every index taken, `find_free_` would return 0.

Of the manager it proves, for every set of uids, endpoints and faults and every
allocator, from `ManagerAssumption` (the sentinels are not values) as well:

* `ManagerInvariant`: `Spec => []ManagerInv`, the inductive invariant, with one
  lemma for each action.  The properties the runs check are not inductive by
  themselves.  That a new device gets a free uid follows from `TablesAgree`, but
  that it gets a free index follows from the table's indices being held in the
  allocator, which needs `AllocatorInv` and its lemmas (`AcquiredIndexWasFree`).
  That loading meets no conflict (`LoadingIsFresh`) needs what one life of the
  driver leaves to the next, `LivesAreSeparate`: the stored list has no two
  devices with the same uid, and a life begins with empty tables and an allocator
  that holds index 0 only.  A list without duplicates is stored because the
  table that is saved has two lookups that agree (`AgreementIsDistinct`).
* `ManagerTypeOK`, `ManagerTablesAgree`, `ManagerHoldsIndices`, `ManagerPublishes` and
  `ManagerLoadsFresh`, from it, under all faults and restarts at any point.
* `LoadingNeverBlocks`: what one life could hold the next can load.  In each turn of the
  load loop the next device is refused neither by the allocator, which has room for
  it, nor by `add_device`, and `LoadNextTakesOne` says that a turn takes one device from
  the list, whether its constructor returns or throws.  It needs `RoomInv`: the stored
  list is smaller than the bound on holders, because nothing but a table is ever stored
  (`OnlyTheTableIsStored`), and what has been tried and what is left fit it together.
  This is the part of `EventuallyServes` that is not about fairness.
* `ManagerUsesAllocator` and `ManagerPostponesReuse`: every step of the driver is an
  operation of the allocator that its clients may use, or makes a new allocator, so
  that the allocator's theorems hold in the driver, under all faults.
* `OnlyConstructorsLeak`: `RefusedOnlyIfTaken`, which the run `index_leak` finds violated,
  holds if no constructor throws, whatever else fails.
* `ManagerStorageFollows`: `Spec => []StorageFollows`, strengthened with what the
  storage is while the list is loaded (`StorageInv`): the list itself until the
  first device is added, what is loaded so far after that.
* `ManagerImplementsRegistry`: under `NoLoss` (`Faults` within `construct`), `Spec
  => ImplementsRegistry`.  The mapping is `Known`: the stored list when the driver
  is down, the table when it serves, the table and what is still to be loaded
  in between.  Creation, update and removal map to the registry's; a turn of
  the load loop maps to nothing, because the device it adds was known before
  (`LoadingKeepsOrForgets`).  `NoLoss` cannot be weakened much: the run
  `early_restart` is a counterexample without it, and so is a load that fails.
* `ManagerLosesNothing`: under `NoLoss`, `Spec => RestartsLoseNothing`, the sentence of
  README.md that `early_restart` refutes when restarts may come earlier.
* What remains of the registry when anything may fail.  `ManagerRequestsAreRegistrySteps`:
  while requests are served every step is one of the registry, under all faults.
  `ManagerRestartsChangeNoDevice`: if the list can be written (`"save" \notin Faults`), a
  device that is known before and after a step of the driver's life has the same
  settings; it may be forgotten, or come back.  The invariant is `StorageAgrees`: a stored device
  is known with the settings that are stored, or not at all.  Without the hypothesis
  it is false: after a write that failed the next life has older settings.
* `ManagerUidsNameDevices`: no two devices that the driver knows, in the table, in what is
  still to be loaded or in the stored list, have the same uid, under all faults.  This
  is what `ToolCommands` takes from the driver beyond the registry: its `UidIsFree`.

`LogStreamingProofs` proves, for every number of messages, size of the queue and set
of clients allowed by `LogAssumption`:

* `StreamingInvariant`: `Spec => []StreamingInv`.  That a streamer in the dist sink
  has a handler that waits (`StreamersAlwaysHaveHandlers`) and that the log is
  destroyed after the last handler (`AlwaysDestroyedAlone`) are inductive only
  with the type invariant and with `SessionsStartAlone`: a run of `logcat` asks for a
  stream only when the driver has forgotten the last one of that run, so a handler
  does not add a second streamer.
* `StreamingTypeOK`: the queue stays within its size, whatever overruns it.  It
  rests on lemmas about what logging leaves of the queue (`PostKeepsLog`) and what
  `remove_sink` leaves of the streamers.
* `EntriesAlwaysFollow`: `Spec => EntriesFollow`, from `DeliveryInvariant`.  What a client
  may still get is in the queue, in the hand of the thread, or in the stream, and an
  entry in each is older than those in the one before.  `DeliveryInv` says that the
  stream and the queue are in order (`StreamInOrder`, `QueueInOrder`) and that a
  message missing from them was overrun (`NothingLost`, `NothingSkipped`).  A new run of
  `logcat` must not read what the last one left, so a session begins with an empty
  stream (`IdleStreamsEmpty`); and since a stopped streamer writes no more, one is
  stopped only when its client has gone (`StoppedHaveGone`).
* `NoCircle`: `Spec => []NobodyWaitsInACircle`.  The thread holds the mutex and waits for a
  client, handlers wait for the mutex or for the thread, the destructor waits for the
  handlers.  With the conditions of their actions written out (`ThreadCanGoOn`,
  `HandlerCanGoOn`, `ClientCanRead`), one of them can go on while handlers run, or the
  client that the thread writes to is suspended, or nothing is logged and all handlers
  wait for clients that are not known to have gone.  These two exceptions are the
  antecedents of the liveness properties.

`DeviceConfigProofs` proves, for every set of options, messages and endpoints that
the protocol allows (`ConfigAssumption`, `CommandsAssumption`):

* `ConfigInvariant`: `Spec => []ConfigInv`.  The invariant says that what is stored is
  what `device_info_to_rpc` writes of the device, and that the device is `Usable`:
  what the constructor computed (channels, samples) fits what it was computed from,
  and the number of tracks of each packet encoding fits its layout.  The second is
  needed because neither is in the stored message.
* `RestartAlwaysKeepsDevice`: `Spec => RestartKeepsDevice`.  `AnswerAccepted` shows that
  `device_info_from_rpc` takes what `device_info_to_rpc` writes, `DeviceComesBack` that
  the constructor makes the same device of it, field by field.
* `ConfigTypeOK`: a device has values of its type and an answer leaves nothing open
  (`AnswerIsComplete`).
* `OptionsAlwaysTakeEffect`: `Spec => OptionsTakeEffect`, for any combination of options,
  where the run takes one group of them at a time.

`RingBufferProofs` states what the operators of the buffer do to any buffer that is
typed: where a write ends, which slots it leaves alone (`WriteKeeps`), that a read gives
what the slots hold and silence elsewhere.  The lemmas have no variables, so that the
three modules with a buffer use them.

`RingBufferCallsProofs` proves for every size of the buffer and every bound on the
positions, `CallsAssumption`:

* `BufferHoldsLastSamples`: `Spec => []HoldsLastSamples`, under `ShortAndClose`: a write is
  shorter than the buffer and begins no later than the last one ended.  Both are the
  code's: a write as long as the buffer copies nothing, and a gap is not cleared (see
  above).  The inductive invariant `WindowInv` adds to the type that the window is whole
  and that what lies outside it is silent.
* `ReadsAreFaithful` and `CallsFit`: a read gives what was written at each of its
  positions, silence for the rest, and no call reaches the assertion of `write` or runs
  past the request in `read`.
* `CallsTyped`: without any condition.

`SenderIOProofs` proves, for writes that are shorter than the buffer, begin no further
than its length behind the furthest end and leave no gap (`CloseRequests`), that samples
are sent in order and once (`SamplesGoInOrder`), that nothing written waits after a
request (`NothingWaits`) and that no request meets an assertion or leaves a buffer
(`SenderRequestsFit`).  The invariant, `SenderInv`, says that from the first write of
a session that is not dropped on, the window, the requests, `ring_buf_pos_` and what
was sent all end at the same position; until then nothing was sent, and the requests
have not reached the size of the buffer.

`ReceiverIOProofs` proves, for requests that are shorter than the buffer and, with the
distance they may have, within it (`CloseRequests`), that every request is answered
from the stream (`RequestsAreServed`), that the network is read at the pace of the clock
(`NetworkIsPaced`) and that apps that ask for the same position hear the same
(`AppsHearTheSame`).  `ReceiverInv` says that the tail of the buffer follows the clock
(`WindowKeepsPace`), that a slot of the window holds the sample of the stream for its position
(`WindowIsStream`) and that the last answer agrees with the window as far as it is still
there (`AnswerInWindow`), which is what two answers are compared by.  `CloseRequests` is
necessary: `receiver_io_sparse` is the counterexample.

Of their constants the proofs about samples assume that the bounds are natural numbers and that
silence is none of the samples.  The instances of the passing runs satisfy every
hypothesis named here.

`ToolCommandsProofs` proves, for every number of terminals, commands and devices allowed
by `ToolAssumption`: that no command reports more or less than what it did, the call
whose answer was lost aside (`ReportsAreTrue`); that the calls of a command go to one device
unless that device was deleted in between (`RunsKeepTheirDevice`); that of several
commands that bind or connect the same interface of a device at most one succeeds
(`PlacesHaveOneWinner`); and that the binary is removed only after the bundle
(`ToolIsRemovedLast`).  The inductive invariant of the calls, `CallsInv`, adds to the
type and the properties:

* `Progress`: what a run has done is the first part of its calls, and its phase says
  how much of it, also when the driver stopped before it answered.
* `OnRecord`: a device on the record of a run that still exists is found where the
  command looks for it, and has the endpoints that the record says: a place that was
  taken stays taken.
* `NumbersDiffer`: no two devices share a number; that a new one is larger than all on
  record makes sure that a deleted device is not mistaken for the one that took its index.
* That uids differ, which is in `TypeOK`: a command that names its device by uid stays
  with it only because of that.

`FilesInv` adds that a run gets to remove the binary only when the bundle is gone.

`ToolUsesRegistry` joins the tool to the driver: every step of `ToolCommands` is, in the
variables that are the driver's, an operation of `DeviceRegistry` with values that the
registry has, or none.

`StringAssumption` says that the names of the model are strings, which TLC evaluates
and the provers cannot see.

Model-checked only: liveness (`EventuallyServes`, `GoneClientsDetached`,
`MessagesArrive`, `DriverStops`, `LogcatReconnects`), which rests on fairness and on what
is enabled, and neither is in the prover's reach.  `LoadingNeverBlocks` and `NoCircle` are
what can be proved of it: that there is always a step to be fair to.

## What is not modelled

* The HAL object of a device under concurrent I/O: which calls may run at the same
  time is decided by libASPL, not by this code.
* The order in which the members of `DeviceManager` are destroyed: the tables after the
  allocator that the devices in them use.  It is undefined behaviour at the end of the
  process, without a state after it.
* roc's configuration and its handles: the parameters are handed on; an endpoint that
  is not deallocated when `bind` or `connect` throws (`receiver.cpp:124`) changes no
  state that the driver reads.
* The volume curve: floating-point arithmetic without state, tested by
  `test/test_volume_control.cpp`.
* The syslog sink, which only takes messages.
* roc-toolkit, libASPL, gRPC, spdlog: external; what the code relies on is stated
  where it is used.
* The digits of numbers and durations in options (`parse.cpp`), the layout of what the
  tool prints (`print.cpp`, `format.cpp`), versions and timestamps, build files.
* The stubs that protoc generates (`rpc/*.pb.*`): they are two thirds of the lines under
  `src/` and hold no logic of this program.
