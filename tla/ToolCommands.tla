---------------------------- MODULE ToolCommands -----------------------------
(***************************************************************************)
(* Runs of `roc-vad` next to each other: what a run asks of the driver,    *)
(* call by call, what it reports, and what it leaves behind when a call    *)
(* fails or the driver goes away (cmd_device_*.cpp, cmd_info.cpp,          *)
(* connector.cpp, main.cpp), and `roc-vad uninstall` (cmd_uninstall.cpp).  *)
(* `roc-vad logcat` is in LogStreaming, the options of `device add` are in *)
(* DeviceConfig.                                                           *)
(*                                                                         *)
(* The driver is the registry that DeviceManager is shown to implement     *)
(* (DeviceRegistry): each call is one step of it.  Devices are numbered in *)
(* the order in which they are added, which nobody sees: an index or a uid *)
(* of one that was deleted may be given to another.  A place for an        *)
(* endpoint is its interface (slots only multiply the places), and its URI *)
(* is either empty, or one that roc takes or refuses.                      *)
(***************************************************************************)
EXTENDS Integers, Sequences, SequencesExt

CONSTANTS
    Tools,              \* terminals in which the tool is run, one run at a time
    Commands,           \* what is run, see CommandLines
    Indices,            \* the indices a device can have
    Uids,               \* the uids a device can have
    MaxDevices,         \* devices that are ever added
    NoDevice            \* the absence of a device

Sides == {"source", "repair", "control"}

Devices ==
    [number : 1..MaxDevices, uid : Uids, type : {"sender", "receiver"},
     enabled : BOOLEAN, endpoints : SUBSET Sides]

\* The device argument: an index, or a uid after --uid.
Selectors == [by : {"index"}, key : {0} \cup Indices] \cup [by : {"uid"}, key : Uids]

\* given are the endpoint options that there are, empty those with an empty URI.
CommandLines ==
    {c \in [op : {"bind", "connect"}, device : Selectors,
            given : SUBSET Sides, empty : SUBSET Sides] : c.empty \subseteq c.given}
      \cup [op : {"enable", "disable", "delete", "show"}, device : Selectors]
      \cup [op : {"add sender", "add receiver", "list", "info", "uninstall"}]

ASSUME ToolAssumption ==
    /\ Commands \subseteq CommandLines
    /\ Indices \subseteq Nat \ {0}
    /\ MaxDevices \in Nat
    /\ NoDevice \notin Devices

VARIABLES
    registry,           \* the devices of the driver, by index
    serving,            \* whether the driver runs
    added,              \* the number of the last device added
    bundle,             \* the driver's files
    binary,             \* whether the tool is installed
    phase,              \* how far the run in a terminal is, or how the last one ended
    command,            \* what the run was started with
    answered,           \* how many calls of the run were answered with success
    effects             \* what the run changed: device numbers and sides, in order

driver == <<registry, serving, added>>
files == <<bundle, binary>>
runs == <<phase, command, answered, effects>>
vars == <<driver, files, runs>>

Driver == INSTANCE DeviceRegistry WITH Infos <- Devices

Idle == {"off", "success", "failure"}
Phases == Idle \cup {"connecting", "calling", "answering", "removing bundle", "removing tool"}

Init ==
    /\ registry = [i \in Indices |-> NoDevice] /\ serving = TRUE /\ added = 0
    /\ bundle = "installed" /\ binary = TRUE
    /\ phase = [t \in Tools |-> "off"]
    /\ command = [t \in Tools |-> [op |-> "info"]]
    /\ answered = [t \in Tools |-> 0]
    /\ effects = [t \in Tools |-> <<>>]

Goes(t, next) == phase' = [phase EXCEPT ![t] = next]

-----------------------------------------------------------------------------
(* A run starts, and connects.                                             *)

IsAttach(c) == c.op \in {"bind", "connect"}
HasDevice(c) == c.op \in {"bind", "connect", "enable", "disable", "delete", "show"}

\* execute refuses the arguments before it connects.
Malformed(c) ==
    \/ HasDevice(c) /\ c.device.by = "index" /\ c.device.key = 0
    \/ IsAttach(c) /\ (c.given = {} \/ c.empty # {})

Run(t, c) ==
    /\ phase[t] \in Idle /\ binary
    /\ command' = [command EXCEPT ![t] = c]
    /\ answered' = [answered EXCEPT ![t] = 0]
    /\ effects' = [effects EXCEPT ![t] = <<>>]
    /\ \/ /\ c.op # "uninstall"
          /\ Goes(t, IF Malformed(c) THEN "failure" ELSE "connecting")
       \/ /\ c.op = "uninstall"     \* with root privileges or without
          /\ Goes(t, "removing bundle") \/ Goes(t, "failure")
    /\ UNCHANGED <<driver, files>>

\* Connector::connect pings the driver, once.
Connect(t) ==
    /\ phase[t] = "connecting"
    /\ Goes(t, IF serving THEN "calling" ELSE "failure")
    /\ UNCHANGED <<driver, files, command, answered, effects>>

-----------------------------------------------------------------------------
(* The calls.                                                              *)

Endpoint(c, side) == IF side \in c.given THEN <<side>> ELSE <<>>

\* One call for each endpoint, or the one call of any other command.
Calls(c) ==
    IF IsAttach(c)
    THEN Endpoint(c, "source") \o Endpoint(c, "repair") \o Endpoint(c, "control")
    ELSE <<c.op>>

ThisCall(t) == Calls(command[t])[answered[t] + 1]

\* Mutation: an index is a place in the list of devices.
SelectedByPlace(selector) ==
    {i \in Indices : /\ registry[i] # NoDevice
                     /\ IF selector.by = "index"
                        THEN selector.key
                               = Cardinality({j \in Indices : j <= i /\ registry[j] # NoDevice})
                        ELSE registry[i].uid = selector.key}

\* The device that the driver finds, if there is one.
Selected(selector) ==
    {i \in Indices : /\ registry[i] # NoDevice
                     /\ IF selector.by = "index" THEN i = selector.key
                                                 ELSE registry[i].uid = selector.key}

\* The driver has carried out a call, what it changed is on record.
Served(t, ops) ==
    /\ phase[t] = "calling" /\ command[t].op \in ops
    /\ Goes(t, "answering")
    /\ UNCHANGED <<files, command, answered>>

\* Mutation: the result of roc_receiver_bind or roc_sender_connect is not looked at.
AttachUnchecked(t) ==
    /\ Served(t, {"bind", "connect"})
    /\ \E i \in Selected(command[t].device) :
        /\ registry[i].type = IF command[t].op = "bind" THEN "receiver" ELSE "sender"
        /\ Driver!Update(i, [registry[i] EXCEPT !.endpoints = @ \cup {ThisCall(t)}])
        /\ effects' = [effects EXCEPT ![t] = Append(@, <<registry[i].number, ThisCall(t)>>)]
    /\ UNCHANGED added

\* bind of a receiver, connect of a sender; roc has one endpoint in a place.
Attach(t) ==
    /\ Served(t, {"bind", "connect"})
    /\ \E i \in Selected(command[t].device) :
        /\ registry[i].type = IF command[t].op = "bind" THEN "receiver" ELSE "sender"
        /\ ThisCall(t) \notin registry[i].endpoints
        /\ Driver!Update(i, [registry[i] EXCEPT !.endpoints = @ \cup {ThisCall(t)}])
        /\ effects' = [effects EXCEPT ![t] = Append(@, <<registry[i].number, ThisCall(t)>>)]
    /\ UNCHANGED added

Toggle(t) ==
    /\ Served(t, {"enable", "disable"})
    /\ \E i \in Selected(command[t].device) :
        /\ Driver!Update(i, [registry[i] EXCEPT !.enabled = (command[t].op = "enable")])
        /\ effects' = [effects EXCEPT ![t] = Append(@, <<registry[i].number, ThisCall(t)>>)]
    /\ UNCHANGED added

Delete(t) ==
    /\ Served(t, {"delete"})
    /\ \E i \in Selected(command[t].device) :
        /\ Driver!Remove(i)
        /\ effects' = [effects EXCEPT ![t] = Append(@, <<registry[i].number, ThisCall(t)>>)]
    /\ UNCHANGED added

\* Mutation: a uid that is given is not looked up.
UidUnchecked(uid) == TRUE

\* A uid that is given or generated is one that no device has.
UidIsFree(uid) == Selected([by |-> "uid", key |-> uid]) = {}

Add(t) ==
    /\ Served(t, {"add sender", "add receiver"})
    /\ added < MaxDevices /\ added' = added + 1
    /\ \E i \in Indices, uid \in Uids :
        /\ UidIsFree(uid)
        /\ Driver!Create(i, [number |-> added', uid |-> uid, enabled |-> TRUE,
                             type |-> IF command[t].op = "add sender" THEN "sender"
                                                                      ELSE "receiver",
                             endpoints |-> {}])
    /\ effects' = [effects EXCEPT ![t] = Append(@, <<added', ThisCall(t)>>)]

\* get_device, get_all_devices and driver_info only read.
Show(t) ==
    /\ Served(t, {"show"})
    /\ serving /\ Selected(command[t].device) # {}
    /\ effects' = [effects EXCEPT ![t] = Append(@, <<0, ThisCall(t)>>)]
    /\ UNCHANGED driver

ListOrInfo(t) ==
    /\ Served(t, {"list", "info"})
    /\ serving
    /\ effects' = [effects EXCEPT ![t] = Append(@, <<0, ThisCall(t)>>)]
    /\ UNCHANGED driver

\* Mutation: the command goes on with its next endpoint.
RefusedAndOn(t) ==
    /\ phase[t] = "calling"
    /\ answered' = [answered EXCEPT ![t] = @ + 1]
    /\ Goes(t, IF answered'[t] = Len(Calls(command[t])) THEN "failure" ELSE "calling")
    /\ UNCHANGED <<driver, files, command, effects>>

\* There is no such device, roc cannot do it, or the call does not get through: the
\* driver is down, or was, and the channel has not taken up the connection again.
Refused(t) ==
    /\ phase[t] = "calling"
    /\ Goes(t, "failure")
    /\ UNCHANGED <<driver, files, command, answered, effects>>

\* The answer arrives, and the next call is made or the run ends.
Answered(t) ==
    /\ phase[t] = "answering"
    /\ answered' = [answered EXCEPT ![t] = @ + 1]
    /\ Goes(t, IF answered'[t] = Len(Calls(command[t])) THEN "success" ELSE "calling")
    /\ UNCHANGED <<driver, files, command, effects>>

-----------------------------------------------------------------------------
(* CmdUninstall::execute.                                                  *)

\* Mutation: the tool is removed although the driver could not be.
RemoveBundleAndOn(t) ==
    /\ phase[t] = "removing bundle"
    /\ \/ bundle' = "removed"
       \/ bundle = "installed" /\ bundle' \in {"installed", "damaged"}
       \/ bundle = "damaged" /\ bundle' = bundle
    /\ Goes(t, "removing tool")
    /\ UNCHANGED <<driver, binary, command, answered, effects>>

\* remove_all removes everything, or fails with some of the files removed: then
\* the tool is kept.  A bundle that is not there is as good as removed.
RemoveBundle(t) ==
    /\ phase[t] = "removing bundle"
    /\ \/ bundle' = "removed" /\ Goes(t, "removing tool")
       \/ /\ bundle # "removed" /\ bundle' \in {bundle, "damaged"}
          /\ Goes(t, "failure")
    /\ UNCHANGED <<driver, binary, command, answered, effects>>

RemoveTool(t) ==
    /\ phase[t] = "removing tool"
    /\ \/ binary' = FALSE /\ Goes(t, "success")
       \/ binary /\ UNCHANGED binary /\ Goes(t, "failure")
    /\ UNCHANGED <<driver, bundle, command, answered, effects>>

-----------------------------------------------------------------------------
(* The driver.                                                             *)

\* It stops or crashes.  A call that is being answered fails: its effect stays.
Stop ==
    /\ Driver!Stop
    /\ phase' = [t \in Tools |-> IF phase[t] = "answering" THEN "failure" ELSE phase[t]]
    /\ UNCHANGED <<added, files, command, answered, effects>>

\* Of a damaged bundle the plugin may be there or not.
Start ==
    /\ bundle # "removed"
    /\ Driver!Start
    /\ UNCHANGED <<added, files, runs>>

Tool(t) ==
    \/ Connect(t)
    \/ Attach(t) \/ Toggle(t) \/ Delete(t) \/ Add(t) \/ Show(t) \/ ListOrInfo(t)
    \/ Refused(t) \/ Answered(t) \/ RemoveBundle(t) \/ RemoveTool(t)

Next ==
    \/ \E t \in Tools : \/ \E c \in Commands : Run(t, c)
                        \/ Tool(t)
    \/ Stop
    \/ Start

Spec == Init /\ [][Next]_vars

-----------------------------------------------------------------------------
TypeOK ==
    /\ registry \in [Indices -> Devices \cup {NoDevice}] /\ serving \in BOOLEAN
    /\ added \in 0..MaxDevices
    /\ \A i, j \in Indices :
         /\ registry[i] # NoDevice => registry[i].number <= added
         /\ {registry[i], registry[j]} \subseteq Devices /\ i # j
              => registry[i].uid # registry[j].uid
    /\ bundle \in {"installed", "damaged", "removed"} /\ binary \in BOOLEAN
    /\ phase \in [Tools -> Phases] /\ command \in [Tools -> CommandLines]
    /\ answered \in [Tools -> 0..3]
    /\ effects \in [Tools -> Seq((0..MaxDevices) \X (Sides \cup
            {"enable", "disable", "delete", "add sender", "add receiver",
             "show", "list", "info"}))]

\* A run that ends well has done all that was asked for, one that fails has done
\* the first part of it, in the order source, repair, control: everything that it
\* reported, and at most one call more, whose answer the driver did not survive.
\* Nothing is done twice.
ReportsWhatWasDone ==
    \A t \in Tools : command[t].op # "uninstall" =>
        LET done == [k \in DOMAIN effects[t] |-> effects[t][k][2]]
        IN  /\ IsPrefix(done, Calls(command[t]))
            /\ Len(done) \in {answered[t], answered[t] + 1}
            /\ Len(done) > answered[t] => phase[t] \in {"answering", "failure"}
            /\ phase[t] = "success" => done = Calls(command[t])

Live == {registry[i].number : i \in {j \in Indices : registry[j] # NoDevice}}

\* The calls of one run all reach the same device, however many other runs there
\* are, unless that device was deleted between them: "after device is removed, its
\* index may be reused soon" (README.md:374), and so may a uid that was given.
OneDevice ==
    \A t \in Tools : \A j, k \in DOMAIN effects[t] :
        j < k /\ effects[t][j][1] # effects[t][k][1] => effects[t][j][1] \notin Live

\* Of several runs that bind or connect the same interface of a device only one is
\* told that it did: what a run was told is in use stays in use.
OneWinner ==
    \A t, u \in Tools : t # u =>
        \A j \in DOMAIN effects[t], k \in DOMAIN effects[u] :
            effects[t][j] = effects[u][k] => effects[t][j][2] \notin Sides

\* As long as some of the driver is installed there is a tool to remove it with.
ToolOutlivesDriver == ~binary => bundle = "removed"
=============================================================================
