------------------------- MODULE ToolCommandsProofs -------------------------
(* What holds of runs of the tool next to each other, for every number of      *)
(* terminals, whatever is run in them and whenever the driver goes away.       *)
EXTENDS ToolCommands, TLAPS

Ops == {"enable", "disable", "delete", "add sender", "add receiver", "show", "list", "info"}
Effects == (0..MaxDevices) \X (Sides \cup Ops)

Exists(i) == registry[i] # NoDevice

\* Devices that exist have different numbers.
NumbersDiffer ==
    \A i, j \in Indices :
        Exists(i) /\ Exists(j) /\ registry[i].number = registry[j].number => i = j

\* What a run has done is the first part of what it was started for, and how much of
\* it is told by how far the run is.
Progress(t) ==
    /\ Len(effects[t]) <= Len(Calls(command[t]))
    /\ \A k \in 1..Len(effects[t]) : effects[t][k][2] = Calls(command[t])[k]
    /\ \/ Len(effects[t]) = answered[t]
       \/ Len(effects[t]) = answered[t] + 1 /\ phase[t] \in {"answering", "failure"}
    /\ phase[t] \in {"connecting", "calling"} =>
         Len(effects[t]) = answered[t] /\ answered[t] < Len(Calls(command[t]))
    /\ phase[t] = "connecting" => answered[t] = 0
    /\ phase[t] = "answering" => Len(effects[t]) = answered[t] + 1
    /\ phase[t] = "success" /\ command[t].op # "uninstall" =>
         Len(effects[t]) = Len(Calls(command[t]))
    /\ phase[t] \in {"connecting", "calling", "answering"} => command[t].op # "uninstall"
    /\ phase[t] \in {"removing bundle", "removing tool"} => command[t].op = "uninstall"

\* A device on record that still exists is where the command looks for it, and has
\* the endpoints that it was given.
OnRecord(t) ==
    \A k \in 1..Len(effects[t]) :
        /\ effects[t][k][1] <= added
        /\ \A i \in Indices :
             Exists(i) /\ registry[i].number = effects[t][k][1] =>
                /\ IsAttach(command[t]) => i \in Selected(command[t].device)
                /\ effects[t][k][2] \in Sides => effects[t][k][2] \in registry[i].endpoints

\* The inductive invariant of the calls.
CallsInv ==
    /\ TypeOK
    /\ NumbersDiffer
    /\ \A t \in Tools : Progress(t) /\ OnRecord(t)
    /\ OneDevice
    /\ OneWinner

\* The inductive invariant of the files.
FilesInv ==
    /\ phase \in [Tools -> Phases]
    /\ ToolOutlivesDriver
    /\ \A t \in Tools : phase[t] = "removing tool" => bundle = "removed"

-----------------------------------------------------------------------------
(* Commands and their calls.                                               *)

\* What the operation of a command is.
LEMMA CommandShape ==
    ASSUME NEW c \in CommandLines
    PROVE  /\ IsAttach(c) => c.given \subseteq Sides
           /\ ~IsAttach(c) /\ c.op # "uninstall" => c.op \in Ops
           /\ c.op \in Ops => ~IsAttach(c)
  BY DEF CommandLines, IsAttach, Ops

LEMMA EmptySequence ==
    ASSUME NEW S
    PROVE  <<>> \in Seq(S) /\ Len(<<>>) = 0
  OBVIOUS

\* What changing a function at one place makes of it.
LEMMA ChangedAt ==
    ASSUME NEW S, NEW T, NEW f \in [S -> T], NEW a \in S, NEW b \in T
    PROVE  /\ [f EXCEPT ![a] = b] \in [S -> T]
           /\ [f EXCEPT ![a] = b][a] = b
           /\ \A u \in S : u # a => [f EXCEPT ![a] = b][u] = f[u]
  OBVIOUS

LEMMA EndpointShape ==
    ASSUME NEW c, NEW side \in Sides
    PROVE  /\ Endpoint(c, side) \in Seq(Sides)
           /\ Len(Endpoint(c, side)) \in Nat /\ Len(Endpoint(c, side)) <= 1
           /\ side \in c.given => Len(Endpoint(c, side)) = 1
<1>1. CASE side \in c.given
  <2>1. <<side>> \in Seq(Sides) /\ Len(<<side>>) = 1
    OBVIOUS
  <2> QED
    BY <1>1, <2>1 DEF Endpoint
<1>2. CASE side \notin c.given
  <2>1. <<>> \in Seq(Sides) /\ Len(<<>>) = 0
    OBVIOUS
  <2> QED
    BY <1>2, <2>1 DEF Endpoint
<1> QED
  BY <1>1, <1>2

\* A command has at most three calls: its endpoints, or itself.
LEMMA CallsShape ==
    ASSUME NEW c \in CommandLines
    PROVE  /\ Len(Calls(c)) \in 0..3
           /\ IsAttach(c) => /\ Calls(c) \in Seq(Sides)
                             /\ c.given # {} => Len(Calls(c)) > 0
           /\ ~IsAttach(c) => Calls(c) = <<c.op>> /\ Len(Calls(c)) = 1
<1>1. CASE IsAttach(c)
  <2> DEFINE source == Endpoint(c, "source")
             repair == Endpoint(c, "repair")
             control == Endpoint(c, "control")
  <2>1. /\ source \in Seq(Sides) /\ repair \in Seq(Sides) /\ control \in Seq(Sides)
        /\ Len(source) \in Nat /\ Len(repair) \in Nat /\ Len(control) \in Nat
        /\ Len(source) <= 1 /\ Len(repair) <= 1 /\ Len(control) <= 1
    BY EndpointShape DEF Sides
  <2>2. c.given # {} => Len(source) = 1 \/ Len(repair) = 1 \/ Len(control) = 1
    BY <1>1, CommandShape, EndpointShape DEF Sides
  <2>3. Calls(c) = source \o repair \o control
    BY <1>1 DEF Calls
  <2> HIDE DEF source, repair, control
  <2>4. /\ source \o repair \in Seq(Sides)
        /\ Len(source \o repair) = Len(source) + Len(repair)
    BY <2>1
  <2>5. /\ source \o repair \o control \in Seq(Sides)
        /\ Len(source \o repair \o control) = Len(source) + Len(repair) + Len(control)
    BY <2>1, <2>4
  <2>6. /\ Calls(c) \in Seq(Sides)
        /\ Len(Calls(c)) = Len(source) + Len(repair) + Len(control)
    BY <2>3, <2>5
  <2>7. Len(Calls(c)) \in 0..3
    BY <2>1, <2>6
  <2>8. c.given # {} => Len(Calls(c)) > 0
    BY <2>1, <2>2, <2>6
  <2> QED
    BY <1>1, <2>6, <2>7, <2>8
<1>2. CASE ~IsAttach(c)
  BY <1>2 DEF Calls
<1> QED
  BY <1>1, <1>2

\* The next call of a run: an endpoint, or the one call of another command.
LEMMA ThisCallShape ==
    ASSUME CallsInv, NEW t \in Tools, phase[t] = "calling"
    PROVE  /\ Len(effects[t]) \in Nat
           /\ ThisCall(t) = Calls(command[t])[Len(effects[t]) + 1]
           /\ Len(effects[t]) + 1 <= Len(Calls(command[t]))
           /\ IsAttach(command[t]) => ThisCall(t) \in Sides
           /\ ~IsAttach(command[t]) =>
                /\ ThisCall(t) = command[t].op /\ ThisCall(t) \in Ops
                /\ effects[t] = <<>>
<1>1. /\ command[t] \in CommandLines /\ answered[t] \in 0..3 /\ effects[t] \in Seq(Effects)
      /\ Progress(t)
  BY DEF CallsInv, TypeOK, Effects, Ops
<1>2. /\ Len(effects[t]) = answered[t] /\ answered[t] < Len(Calls(command[t]))
      /\ command[t].op # "uninstall"
  BY <1>1 DEF Progress
<1>3. /\ Len(Calls(command[t])) \in 0..3
      /\ IsAttach(command[t]) => Calls(command[t]) \in Seq(Sides)
      /\ ~IsAttach(command[t]) =>
           Calls(command[t]) = <<command[t].op>> /\ Len(Calls(command[t])) = 1
  BY <1>1, CallsShape
<1>4. ThisCall(t) = Calls(command[t])[answered[t] + 1]
  BY DEF ThisCall
<1>5. ASSUME IsAttach(command[t])
      PROVE  ThisCall(t) \in Sides
  <2>1. answered[t] + 1 \in 1..Len(Calls(command[t]))
    BY <1>1, <1>2, <1>3
  <2> QED
    BY <1>3, <1>4, <1>5, <2>1
<1>6. ASSUME ~IsAttach(command[t])
      PROVE  /\ ThisCall(t) = command[t].op /\ ThisCall(t) \in Ops
             /\ effects[t] = <<>>
  <2>1. answered[t] = 0
    BY <1>1, <1>2, <1>3, <1>6
  <2>2. command[t].op \in Ops
    BY <1>1, <1>2, <1>6, CommandShape
  <2> QED
    BY <1>1, <1>2, <1>3, <1>4, <1>6, <2>1, <2>2
<1> QED
  BY <1>1, <1>2, <1>3, <1>4, <1>5, <1>6

\* A device is selected by what no other device has.
LEMMA SelectedIsOne ==
    ASSUME TypeOK, NEW selector, NEW i \in Selected(selector), NEW j \in Selected(selector)
    PROVE  i = j
<1>1. /\ i \in Indices /\ j \in Indices
      /\ registry[i] # NoDevice /\ registry[j] # NoDevice
  BY DEF Selected
<1>2. {registry[i], registry[j]} \subseteq Devices
  BY <1>1 DEF TypeOK
<1>3. i # j => registry[i].uid # registry[j].uid
  BY <1>1, <1>2 DEF TypeOK
<1> QED
  BY <1>3 DEF Selected

-----------------------------------------------------------------------------
(* A call changes the registry, and leaves a record.                       *)

\* The registry and its numbers.
RegistryInv ==
    /\ registry \in [Indices -> Devices \cup {NoDevice}] /\ serving \in BOOLEAN
    /\ added \in 0..MaxDevices
    /\ \A i, j \in Indices :
         /\ Exists(i) => registry[i].number <= added
         /\ Exists(i) /\ Exists(j) /\ i # j => registry[i].uid # registry[j].uid
    /\ NumbersDiffer

\* A device has what it had, or is a new one.
Lasts ==
    /\ added <= added'
    /\ \A i \in Indices : Exists(i)' =>
         \/ registry'[i].number > added
         \/ /\ Exists(i)
            /\ registry'[i].number = registry[i].number
            /\ registry'[i].uid = registry[i].uid
            /\ registry[i].endpoints \subseteq registry'[i].endpoints

\* A call of the run in t is carried out on device number n.
Recorded(t, n) ==
    /\ phase[t] = "calling" /\ Goes(t, "answering")
    /\ effects' = [effects EXCEPT ![t] = Append(@, <<n, ThisCall(t)>>)]
    /\ UNCHANGED <<files, command, answered>>
    /\ n \in 0..MaxDevices /\ n <= added'

\* The place of the call was free on the device that is selected, and is taken now.
Taken(t, n) ==
    \E i \in Selected(command[t].device) :
        /\ registry[i].number = n /\ ThisCall(t) \notin registry[i].endpoints
        /\ Exists(i)' /\ registry'[i].number = n /\ ThisCall(t) \in registry'[i].endpoints

\* What a call does.
CallDone(t) ==
    /\ RegistryInv' /\ Lasts
    /\ \E n \in 0..MaxDevices :
        Recorded(t, n) /\ (IsAttach(command[t]) => Taken(t, n))

LEMMA RegistryIsTyped ==
    ASSUME TypeOK, NumbersDiffer
    PROVE  RegistryInv
  BY ToolAssumption DEF TypeOK, RegistryInv, Exists

LEMMA RegistryStays ==
    ASSUME RegistryInv, UNCHANGED <<registry, added>>, serving' \in BOOLEAN
    PROVE  RegistryInv' /\ Lasts
<1>1. RegistryInv'
  BY DEF RegistryInv, NumbersDiffer, Exists
<1>2. Lasts
  <2>1. added <= added'
    BY ToolAssumption DEF RegistryInv
  <2> QED
    BY <2>1 DEF Lasts, Exists
<1> QED
  BY <1>1, <1>2

\* A device is replaced by one with the same number and uid.
LEMMA UpdateLasts ==
    ASSUME RegistryInv, UNCHANGED added, NEW i \in Indices, NEW device \in Devices,
           Driver!Update(i, device),
           device.number = registry[i].number, device.uid = registry[i].uid,
           registry[i].endpoints \subseteq device.endpoints
    PROVE  RegistryInv' /\ Lasts /\ Exists(i)' /\ registry'[i] = device
<1>1. /\ registry' = [registry EXCEPT ![i] = device] /\ UNCHANGED serving
      /\ Exists(i) /\ device # NoDevice
  BY ToolAssumption DEF Driver!Update, Exists
<1>2. /\ registry' \in [Indices -> Devices \cup {NoDevice}]
      /\ registry'[i] = device
      /\ \A j \in Indices : j # i => registry'[j] = registry[j]
  BY <1>1 DEF RegistryInv
<1>3. \A j \in Indices :
        /\ Exists(j)' <=> Exists(j)
        /\ registry'[j].number = registry[j].number
        /\ registry'[j].uid = registry[j].uid
        /\ registry[j].endpoints \subseteq registry'[j].endpoints
  BY <1>1, <1>2 DEF Exists
<1>4. RegistryInv'
  BY <1>1, <1>2, <1>3 DEF RegistryInv, NumbersDiffer
<1>5. Lasts
  <2>1. added <= added'
    BY ToolAssumption DEF RegistryInv
  <2> QED
    BY <1>3, <2>1 DEF Lasts
<1> QED
  BY <1>1, <1>2, <1>4, <1>5 DEF Exists

\* bind and connect: one more place of one device is taken.
LEMMA AttachIsDone ==
    ASSUME CallsInv, NEW t \in Tools, Attach(t)
    PROVE  CallDone(t)
<1>1. /\ phase[t] = "calling" /\ command[t].op \in {"bind", "connect"}
      /\ Goes(t, "answering") /\ UNCHANGED <<files, command, answered>>
      /\ UNCHANGED added
  BY DEF Attach, Served
<1>2. PICK i \in Selected(command[t].device) :
        /\ ThisCall(t) \notin registry[i].endpoints
        /\ Driver!Update(i, [registry[i] EXCEPT !.endpoints = @ \cup {ThisCall(t)}])
        /\ effects' = [effects EXCEPT ![t] = Append(@, <<registry[i].number, ThisCall(t)>>)]
  BY DEF Attach
<1> DEFINE device == [registry[i] EXCEPT !.endpoints = @ \cup {ThisCall(t)}]
<1>3. RegistryInv
  BY RegistryIsTyped DEF CallsInv
<1>4. i \in Indices /\ Exists(i) /\ registry[i] \in Devices
  BY <1>2, <1>3 DEF Selected, Exists, RegistryInv
<1>5. ThisCall(t) \in Sides /\ IsAttach(command[t])
  BY <1>1, ThisCallShape DEF IsAttach
<1>6. /\ device \in Devices
      /\ device.number = registry[i].number /\ device.uid = registry[i].uid
      /\ device.endpoints = registry[i].endpoints \cup {ThisCall(t)}
  BY <1>4, <1>5 DEF Devices
<1>7. Driver!Update(i, device)
  BY <1>2
<1> HIDE DEF device
<1>8. RegistryInv' /\ Lasts /\ Exists(i)' /\ registry'[i] = device
  BY <1>1, <1>3, <1>4, <1>6, <1>7, UpdateLasts
<1>9. Taken(t, registry[i].number)
  BY <1>2, <1>6, <1>8 DEF Taken
<1>10. registry[i].number \in 0..MaxDevices /\ registry[i].number <= added'
  BY <1>1, <1>3, <1>4, ToolAssumption DEF RegistryInv, Devices
<1>11. Recorded(t, registry[i].number)
  BY <1>1, <1>2, <1>10 DEF Recorded
<1> QED
  BY <1>8, <1>9, <1>10, <1>11 DEF CallDone

\* enable and disable leave the number, the uid and the endpoints of the device.
LEMMA ToggleIsDone ==
    ASSUME CallsInv, NEW t \in Tools, Toggle(t)
    PROVE  CallDone(t)
<1>1. /\ phase[t] = "calling" /\ command[t].op \in {"enable", "disable"}
      /\ Goes(t, "answering") /\ UNCHANGED <<files, command, answered>>
      /\ UNCHANGED added
  BY DEF Toggle, Served
<1>2. PICK i \in Selected(command[t].device) :
        /\ Driver!Update(i, [registry[i] EXCEPT !.enabled = (command[t].op = "enable")])
        /\ effects' = [effects EXCEPT ![t] = Append(@, <<registry[i].number, ThisCall(t)>>)]
  BY DEF Toggle
<1> DEFINE device == [registry[i] EXCEPT !.enabled = (command[t].op = "enable")]
<1>3. RegistryInv
  BY RegistryIsTyped DEF CallsInv
<1>4. i \in Indices /\ Exists(i) /\ registry[i] \in Devices
  BY <1>2, <1>3 DEF Selected, Exists, RegistryInv
<1>5. /\ device \in Devices
      /\ device.number = registry[i].number /\ device.uid = registry[i].uid
      /\ device.endpoints = registry[i].endpoints
  BY <1>4 DEF Devices
<1>6. Driver!Update(i, device)
  BY <1>2
<1> HIDE DEF device
<1>7. RegistryInv' /\ Lasts
  BY <1>1, <1>3, <1>4, <1>5, <1>6, UpdateLasts
<1>8. registry[i].number \in 0..MaxDevices /\ registry[i].number <= added'
  BY <1>1, <1>3, <1>4, ToolAssumption DEF RegistryInv, Devices
<1>9. Recorded(t, registry[i].number)
  BY <1>1, <1>2, <1>8 DEF Recorded
<1> QED
  BY <1>1, <1>7, <1>8, <1>9 DEF CallDone, IsAttach

\* delete: the device is no more.
LEMMA DeleteIsDone ==
    ASSUME CallsInv, NEW t \in Tools, Delete(t)
    PROVE  CallDone(t)
<1>1. /\ phase[t] = "calling" /\ command[t].op = "delete"
      /\ Goes(t, "answering") /\ UNCHANGED <<files, command, answered>>
      /\ UNCHANGED added
  BY DEF Delete, Served
<1>2. PICK i \in Selected(command[t].device) :
        /\ Driver!Remove(i)
        /\ effects' = [effects EXCEPT ![t] = Append(@, <<registry[i].number, ThisCall(t)>>)]
  BY DEF Delete
<1>3. RegistryInv
  BY RegistryIsTyped DEF CallsInv
<1>4. i \in Indices /\ Exists(i) /\ registry[i] \in Devices
  BY <1>2, <1>3 DEF Selected, Exists, RegistryInv
<1>5. /\ registry' = [registry EXCEPT ![i] = NoDevice] /\ UNCHANGED serving
  BY <1>2 DEF Driver!Remove
<1>6. /\ registry' \in [Indices -> Devices \cup {NoDevice}]
      /\ \A j \in Indices : Exists(j)' => Exists(j) /\ registry'[j] = registry[j]
  BY <1>3, <1>4, <1>5 DEF RegistryInv, Exists
<1>7. RegistryInv'
  BY <1>1, <1>3, <1>5, <1>6 DEF RegistryInv, NumbersDiffer
<1>8. Lasts
  <2>1. added <= added'
    BY <1>1, <1>3, ToolAssumption DEF RegistryInv
  <2> QED
    BY <1>6, <2>1 DEF Lasts
<1>9. registry[i].number \in 0..MaxDevices /\ registry[i].number <= added'
  BY <1>1, <1>3, <1>4, ToolAssumption DEF RegistryInv, Devices
<1>10. Recorded(t, registry[i].number)
  BY <1>1, <1>2, <1>9 DEF Recorded
<1> QED
  BY <1>1, <1>7, <1>8, <1>9, <1>10 DEF CallDone, IsAttach

\* add: the new device has a number and a uid of its own.
LEMMA AddIsDone ==
    ASSUME CallsInv, NEW t \in Tools, Add(t)
    PROVE  CallDone(t)
<1>1. /\ phase[t] = "calling" /\ command[t].op \in {"add sender", "add receiver"}
      /\ Goes(t, "answering") /\ UNCHANGED <<files, command, answered>>
      /\ added < MaxDevices /\ added' = added + 1
      /\ effects' = [effects EXCEPT ![t] = Append(@, <<added', ThisCall(t)>>)]
  BY DEF Add, Served
<1> DEFINE New(uid) ==
        [number |-> added', uid |-> uid, enabled |-> TRUE,
         type |-> IF command[t].op = "add sender" THEN "sender" ELSE "receiver",
         endpoints |-> {}]
<1>2. PICK i \in Indices, uid \in Uids : UidIsFree(uid) /\ Driver!Create(i, New(uid))
  BY DEF Add
<1>3. RegistryInv
  BY RegistryIsTyped DEF CallsInv
<1>4. added \in Nat /\ added' \in 1..MaxDevices /\ added' > added
  <2>1. added \in Nat /\ MaxDevices \in Nat
    BY <1>3, ToolAssumption DEF RegistryInv
  <2>2. added < MaxDevices /\ added' = added + 1
    BY <1>1
  <2> QED
    BY <2>1, <2>2
<1>5. /\ New(uid) \in Devices /\ New(uid).number = added' /\ New(uid).uid = uid
  BY <1>4 DEF Devices
<1>6. registry' = [registry EXCEPT ![i] = New(uid)] /\ UNCHANGED serving
  BY <1>2 DEF Driver!Create
<1> HIDE DEF New
<1>7. /\ registry' \in [Indices -> Devices \cup {NoDevice}]
      /\ registry'[i].number = added' /\ registry'[i].uid = uid
      /\ \A j \in Indices : j # i => registry'[j] = registry[j]
  BY <1>3, <1>5, <1>6 DEF RegistryInv
<1>8. \A j \in Indices : Exists(j) => registry[j].uid # uid /\ registry[j].number <= added
  BY <1>2, <1>3 DEF UidIsFree, Selected, Exists, RegistryInv
<1>9. \A j \in Indices : Exists(j) => registry[j].number \in Nat
  BY <1>3 DEF RegistryInv, Exists, Devices
<1>10. RegistryInv'
  <2>1. ASSUME NEW j \in Indices, Exists(j)'
        PROVE  registry'[j].number <= added'
    <3>1. CASE j = i
      BY <1>4, <1>7, <3>1
    <3>2. CASE j # i
      BY <1>4, <1>7, <1>8, <1>9, <2>1, <3>2 DEF Exists
    <3> QED
      BY <3>1, <3>2
  <2>2. ASSUME NEW j \in Indices, NEW k \in Indices, Exists(j)', Exists(k)', j # k
        PROVE  registry'[j].uid # registry'[k].uid
    BY <1>3, <1>7, <1>8, <2>2 DEF Exists, RegistryInv
  <2>3. ASSUME NEW j \in Indices, Exists(j)', j # i
        PROVE  registry'[j].number # added'
    BY <1>4, <1>7, <1>8, <1>9, <2>3 DEF Exists
  <2>4. NumbersDiffer'
    <3> SUFFICES ASSUME NEW j \in Indices, NEW k \in Indices, Exists(j)', Exists(k)',
                        registry'[j].number = registry'[k].number
                 PROVE  j = k
      BY DEF NumbersDiffer
    <3>1. CASE j # i /\ k # i
      BY <1>3, <1>7, <3>1 DEF Exists, RegistryInv, NumbersDiffer
    <3>2. CASE j = i \/ k = i
      BY <1>7, <2>3, <3>2
    <3> QED
      BY <3>1, <3>2
  <2>5. added' \in 0..MaxDevices /\ serving' \in BOOLEAN
    BY <1>3, <1>4, <1>6 DEF RegistryInv
  <2> QED
    BY <1>7, <2>1, <2>2, <2>4, <2>5 DEF RegistryInv
<1>11. Lasts
  <2>1. \A j \in Indices : Exists(j)' => \/ registry'[j].number > added
                                         \/ Exists(j) /\ registry'[j] = registry[j]
    BY <1>4, <1>7 DEF Exists
  <2> QED
    BY <1>4, <2>1 DEF Lasts
<1>12. added' \in 0..MaxDevices /\ added' <= added'
  BY <1>4
<1>13. Recorded(t, added')
  BY <1>1, <1>12 DEF Recorded
<1> QED
  BY <1>1, <1>10, <1>11, <1>12, <1>13 DEF CallDone, IsAttach

\* show, list and info read.
LEMMA ReadIsDone ==
    ASSUME CallsInv, NEW t \in Tools, Show(t) \/ ListOrInfo(t)
    PROVE  CallDone(t)
<1>1. /\ phase[t] = "calling" /\ command[t].op \in {"show", "list", "info"}
      /\ Goes(t, "answering") /\ UNCHANGED <<files, command, answered>>
      /\ UNCHANGED driver
      /\ effects' = [effects EXCEPT ![t] = Append(@, <<0, ThisCall(t)>>)]
  BY DEF Show, ListOrInfo, Served
<1>2. RegistryInv
  BY RegistryIsTyped DEF CallsInv
<1>3. serving' \in BOOLEAN
  BY <1>1, <1>2 DEF RegistryInv, driver
<1>4. RegistryInv' /\ Lasts
  BY <1>1, <1>2, <1>3, RegistryStays DEF driver
<1>5. 0 \in 0..MaxDevices /\ 0 <= added'
  BY <1>4, ToolAssumption DEF RegistryInv
<1>6. Recorded(t, 0)
  BY <1>1, <1>5 DEF Recorded
<1> QED
  BY <1>1, <1>4, <1>5, <1>6 DEF CallDone, IsAttach

-----------------------------------------------------------------------------
(* The invariant of the calls.                                             *)

LEMMA RunsTyped ==
    ASSUME TypeOK, NEW t \in Tools
    PROVE  /\ phase[t] \in Phases /\ command[t] \in CommandLines
           /\ answered[t] \in 0..3 /\ effects[t] \in Seq(Effects)
           /\ Len(effects[t]) \in Nat
           /\ Len(Calls(command[t])) \in 0..3
           /\ \A k \in 1..Len(effects[t]) : effects[t][k][1] \in 0..MaxDevices
<1>1. /\ phase[t] \in Phases /\ command[t] \in CommandLines
      /\ answered[t] \in 0..3 /\ effects[t] \in Seq(Effects)
  BY DEF TypeOK, Effects, Ops
<1>2. Len(effects[t]) \in Nat /\ Len(Calls(command[t])) \in 0..3
  BY <1>1, CallsShape
<1>3. \A k \in 1..Len(effects[t]) : effects[t][k] \in Effects
  BY <1>1
<1>4. \A k \in 1..Len(effects[t]) : effects[t][k][1] \in 0..MaxDevices
  BY <1>3 DEF Effects
<1> QED
  BY <1>1, <1>2, <1>4

\* A device that exists after a call, with a number on record, existed before.
LEMMA OldDevices ==
    ASSUME CallsInv, Lasts, RegistryInv', NEW t \in Tools, NEW k \in 1..Len(effects[t]),
           NEW i \in Indices, Exists(i)', registry'[i].number = effects[t][k][1]
    PROVE  /\ Exists(i) /\ registry[i].number = effects[t][k][1]
           /\ registry'[i].uid = registry[i].uid
           /\ registry[i].endpoints \subseteq registry'[i].endpoints
<1>1. effects[t][k][1] <= added /\ effects[t][k][1] \in 0..MaxDevices /\ added \in 0..MaxDevices
  BY RunsTyped DEF CallsInv, OnRecord, TypeOK
<1>2. ~(registry'[i].number > added)
  BY <1>1, ToolAssumption
<1> QED
  BY <1>2 DEF Lasts

\* What is on record stays true while the devices last.
LEMMA RecordLasts ==
    ASSUME CallsInv, Lasts, RegistryInv', NEW t \in Tools, NEW k \in 1..Len(effects[t]),
           command'[t] = command[t]
    PROVE  /\ effects[t][k][1] <= added'
           /\ \A i \in Indices :
                Exists(i)' /\ registry'[i].number = effects[t][k][1] =>
                   /\ IsAttach(command[t]) => i \in Selected(command[t].device)'
                   /\ effects[t][k][2] \in Sides
                        => effects[t][k][2] \in registry'[i].endpoints
<1>1. OnRecord(t)
  BY DEF CallsInv
<1>2. effects[t][k][1] <= added'
  <2>1. effects[t][k][1] <= added /\ effects[t][k][1] \in 0..MaxDevices
    BY <1>1, RunsTyped DEF CallsInv, OnRecord
  <2>2. added <= added' /\ added \in 0..MaxDevices /\ added' \in 0..MaxDevices
    BY DEF Lasts, RegistryInv, CallsInv, TypeOK
  <2> QED
    BY <2>1, <2>2, ToolAssumption
<1>3. ASSUME NEW i \in Indices, Exists(i)', registry'[i].number = effects[t][k][1]
      PROVE  /\ IsAttach(command[t]) => i \in Selected(command[t].device)'
             /\ effects[t][k][2] \in Sides => effects[t][k][2] \in registry'[i].endpoints
  <2>1. /\ Exists(i) /\ registry[i].number = effects[t][k][1]
        /\ registry'[i].uid = registry[i].uid
        /\ registry[i].endpoints \subseteq registry'[i].endpoints
    BY <1>3, OldDevices
  <2>2. /\ IsAttach(command[t]) => i \in Selected(command[t].device)
        /\ effects[t][k][2] \in Sides => effects[t][k][2] \in registry[i].endpoints
    BY <1>1, <2>1 DEF OnRecord
  <2> QED
    BY <1>3, <2>1, <2>2 DEF Selected, Exists
<1> QED
  BY <1>2, <1>3

\* The records of a run that does nothing.
LEMMA RecordsLast ==
    ASSUME CallsInv, Lasts, RegistryInv', NEW t \in Tools,
           effects'[t] = effects[t], command'[t] = command[t]
    PROVE  OnRecord(t)'
  BY RecordLasts DEF OnRecord

\* A number on record that is live was live.
LEMMA LiveWas ==
    ASSUME CallsInv, Lasts, RegistryInv', NEW t \in Tools, NEW k \in 1..Len(effects[t]),
           effects[t][k][1] \in Live'
    PROVE  effects[t][k][1] \in Live
<1>1. PICK i \in Indices : Exists(i)' /\ registry'[i].number = effects[t][k][1]
  BY DEF Live, Exists
<1>2. Exists(i) /\ registry[i].number = effects[t][k][1]
  BY <1>1, OldDevices
<1> QED
  BY <1>2 DEF Live, Exists

\* What a step has to keep next to the registry.
LEMMA TypedAgain ==
    ASSUME RegistryInv',
           bundle' \in {"installed", "damaged", "removed"}, binary' \in BOOLEAN,
           phase' \in [Tools -> Phases], command' \in [Tools -> CommandLines],
           answered' \in [Tools -> 0..3], effects' \in [Tools -> Seq(Effects)]
    PROVE  TypeOK' /\ NumbersDiffer'
<1>1. \A i, j \in Indices :
        {registry'[i], registry'[j]} \subseteq Devices /\ i # j
           => registry'[i].uid # registry'[j].uid
  BY ToolAssumption DEF RegistryInv, Exists
<1> QED
  BY <1>1 DEF RegistryInv, TypeOK, Effects, Ops, Exists

\* A step in which no call is carried out: the runs keep their records, or begin anew.
LEMMA QuietStep ==
    ASSUME CallsInv, RegistryInv', Lasts,
           \A t \in Tools : \/ effects'[t] = effects[t] /\ command'[t] = command[t]
                            \/ effects'[t] = <<>>,
           bundle' \in {"installed", "damaged", "removed"}, binary' \in BOOLEAN,
           phase' \in [Tools -> Phases], command' \in [Tools -> CommandLines],
           answered' \in [Tools -> 0..3], effects' \in [Tools -> Seq(Effects)],
           \A t \in Tools : Progress(t)'
    PROVE  CallsInv'
<1>1. TypeOK' /\ NumbersDiffer'
  BY TypedAgain
<1>2. ASSUME NEW t \in Tools
      PROVE  OnRecord(t)'
  <2>1. CASE effects'[t] = <<>>
    BY <2>1 DEF OnRecord
  <2>2. CASE effects'[t] = effects[t] /\ command'[t] = command[t]
    BY <2>2, RecordsLast
  <2> QED
    BY <2>1, <2>2
<1>3. OneDevice'
  <2> SUFFICES ASSUME NEW t \in Tools, NEW j \in DOMAIN effects'[t],
                      NEW k \in DOMAIN effects'[t], j < k,
                      effects'[t][j][1] # effects'[t][k][1], effects'[t][j][1] \in Live'
               PROVE  FALSE
    BY DEF OneDevice
  <2>1. effects'[t] = effects[t]
    OBVIOUS
  <2>2. effects[t] \in Seq(Effects)
    BY RunsTyped DEF CallsInv
  <2>3. effects[t][j][1] \in Live
    BY <2>1, <2>2, LiveWas
  <2> QED
    BY <2>1, <2>3 DEF CallsInv, OneDevice
<1>4. OneWinner'
  <2> SUFFICES ASSUME NEW t \in Tools, NEW u \in Tools, t # u,
                      NEW j \in DOMAIN effects'[t], NEW k \in DOMAIN effects'[u],
                      effects'[t][j] = effects'[u][k]
               PROVE  effects'[t][j][2] \notin Sides
    BY DEF OneWinner
  <2>1. effects'[t] = effects[t] /\ effects'[u] = effects[u]
    OBVIOUS
  <2> QED
    BY <2>1 DEF CallsInv, OneWinner
<1> QED
  BY <1>1, <1>2, <1>3, <1>4 DEF CallsInv

\* A call that is carried out adds one record, which is the next that is asked for.
LEMMA CallRecorded ==
    ASSUME CallsInv, NEW t \in Tools, NEW n \in 0..MaxDevices, Recorded(t, n)
    PROVE  /\ effects' \in [Tools -> Seq(Effects)]
           /\ phase' \in [Tools -> Phases]
           /\ \A u \in Tools : u # t => effects'[u] = effects[u] /\ phase'[u] = phase[u]
           /\ phase'[t] = "answering"
           /\ Len(effects'[t]) = Len(effects[t]) + 1
           /\ \A k \in 1..Len(effects[t]) : effects'[t][k] = effects[t][k]
           /\ effects'[t][Len(effects[t]) + 1] = <<n, ThisCall(t)>>
<1>1. /\ phase[t] = "calling" /\ phase' = [phase EXCEPT ![t] = "answering"]
      /\ effects' = [effects EXCEPT ![t] = Append(@, <<n, ThisCall(t)>>)]
  BY DEF Recorded, Goes
<1>2. /\ phase \in [Tools -> Phases] /\ effects \in [Tools -> Seq(Effects)]
  BY DEF CallsInv, TypeOK, Effects, Ops
<1>3. <<n, ThisCall(t)>> \in Effects
  BY <1>1, ThisCallShape DEF Effects
<1>4. Append(effects[t], <<n, ThisCall(t)>>) \in Seq(Effects)
  BY <1>2, <1>3
<1>5. /\ effects' \in [Tools -> Seq(Effects)]
      /\ effects'[t] = Append(effects[t], <<n, ThisCall(t)>>)
      /\ \A u \in Tools : u # t => effects'[u] = effects[u]
  BY <1>1, <1>2, <1>4
<1>6. /\ phase' \in [Tools -> Phases] /\ phase'[t] = "answering"
      /\ \A u \in Tools : u # t => phase'[u] = phase[u]
  BY <1>1, <1>2 DEF Phases
<1>7. effects[t] \in Seq(Effects)
  BY <1>2
<1> QED
  BY <1>3, <1>5, <1>6, <1>7

\* How far each run is after a call.
LEMMA CallProgress ==
    ASSUME CallsInv, NEW t \in Tools, NEW n \in 0..MaxDevices, Recorded(t, n),
           NEW u \in Tools
    PROVE  Progress(u)'
<1>1. answered' = answered /\ command' = command
  BY DEF Recorded
<1>2. Progress(u)
  BY DEF CallsInv
<1>3. CASE u # t
  <2>1. effects'[u] = effects[u] /\ phase'[u] = phase[u]
    BY <1>3, CallRecorded
  <2> QED
    BY <1>1, <1>2, <2>1 DEF Progress
<1>4. CASE u = t
  <2>1. /\ phase'[t] = "answering"
        /\ Len(effects'[t]) = Len(effects[t]) + 1
        /\ \A k \in 1..Len(effects[t]) : effects'[t][k] = effects[t][k]
        /\ effects'[t][Len(effects[t]) + 1] = <<n, ThisCall(t)>>
    BY CallRecorded
  <2>2. phase[t] = "calling"
    BY DEF Recorded
  <2>3. /\ Len(effects[t]) \in Nat
        /\ ThisCall(t) = Calls(command[t])[Len(effects[t]) + 1]
        /\ Len(effects[t]) + 1 <= Len(Calls(command[t]))
    BY <2>2, ThisCallShape
  <2>4. /\ Len(effects[t]) = answered[t] /\ command[t].op # "uninstall"
        /\ \A k \in 1..Len(effects[t]) : effects[t][k][2] = Calls(command[t])[k]
    BY <1>2, <1>4, <2>2 DEF Progress
  <2>5. \A k \in 1..Len(effects'[t]) : effects'[t][k][2] = Calls(command[t])[k]
    <3> TAKE k \in 1..Len(effects'[t])
    <3>1. k \in 1..Len(effects[t]) \/ k = Len(effects[t]) + 1
      BY <2>1, <2>3
    <3>2. CASE k \in 1..Len(effects[t])
      BY <2>1, <2>4, <3>2
    <3>3. CASE k = Len(effects[t]) + 1
      <4>1. effects'[t][k] = <<n, ThisCall(t)>>
        BY <2>1, <3>3
      <4>2. effects'[t][k][2] = ThisCall(t)
        BY <4>1
      <4> QED
        BY <2>3, <3>3, <4>2
    <3> QED
      BY <3>1, <3>2, <3>3
  <2> QED
    BY <1>1, <1>4, <2>1, <2>3, <2>4, <2>5 DEF Progress
<1> QED
  BY <1>3, <1>4

\* A call of bind or connect is on record with the device that it was for.
LEMMA CallOnRecord ==
    ASSUME CallsInv, NEW t \in Tools, NEW n \in 0..MaxDevices, Recorded(t, n),
           IsAttach(command[t]) => Taken(t, n), RegistryInv', Lasts, NEW u \in Tools
    PROVE  OnRecord(u)'
<1>1. command' = command
  BY DEF Recorded
<1>2. CASE u # t
  <2>1. effects'[u] = effects[u]
    BY <1>2, CallRecorded
  <2> QED
    BY <1>1, <2>1, RecordsLast
<1>3. CASE u = t
  <2>1. /\ Len(effects'[t]) = Len(effects[t]) + 1
        /\ \A k \in 1..Len(effects[t]) : effects'[t][k] = effects[t][k]
        /\ effects'[t][Len(effects[t]) + 1] = <<n, ThisCall(t)>>
    BY CallRecorded
  <2>2. /\ Len(effects[t]) \in Nat
        /\ IsAttach(command[t]) \/ ThisCall(t) \in Ops
    BY ThisCallShape DEF Recorded
  <2>3. Ops \cap Sides = {}
    BY DEF Ops, Sides
  <2>4. ASSUME NEW k \in 1..Len(effects'[t])
        PROVE  /\ effects'[t][k][1] <= added'
               /\ \A i \in Indices :
                    Exists(i)' /\ registry'[i].number = effects'[t][k][1] =>
                       /\ IsAttach(command[t]) => i \in Selected(command[t].device)'
                       /\ effects'[t][k][2] \in Sides
                            => effects'[t][k][2] \in registry'[i].endpoints
    <3>1. CASE k \in 1..Len(effects[t])
      <4>1. effects'[t][k] = effects[t][k]
        BY <2>1, <3>1
      <4> QED
        BY <1>1, <3>1, <4>1, RecordLasts
    <3>2. CASE k = Len(effects[t]) + 1
      <4>1. effects'[t][k] = <<n, ThisCall(t)>>
        BY <2>1, <3>2
      <4>2. n <= added'
        BY DEF Recorded
      <4>3. ASSUME NEW i \in Indices, Exists(i)', registry'[i].number = n,
                   IsAttach(command[t])
            PROVE  /\ i \in Selected(command[t].device)'
                   /\ ThisCall(t) \in registry'[i].endpoints
        <5>1. PICK j \in Selected(command[t].device) :
                /\ registry[j].number = n /\ Exists(j)' /\ registry'[j].number = n
                /\ ThisCall(t) \in registry'[j].endpoints
          BY <4>3 DEF Taken
        <5>2. j \in Indices /\ i = j
          BY <4>3, <5>1 DEF Selected, RegistryInv, NumbersDiffer
        <5>3. ~(registry'[j].number > added)
          <6>1. registry[j].number <= added /\ registry[j].number \in 0..MaxDevices
                /\ added \in 0..MaxDevices
            BY <5>1, <5>2 DEF Selected, CallsInv, TypeOK
          <6> QED
            BY <5>1, <6>1, ToolAssumption
        <5>4. registry'[j].uid = registry[j].uid
          BY <5>1, <5>2, <5>3 DEF Lasts
        <5> QED
          BY <1>1, <5>1, <5>2, <5>4 DEF Selected, Exists
      <4>4. ASSUME NEW i \in Indices, Exists(i)', registry'[i].number = n
            PROVE  /\ IsAttach(command[t]) => i \in Selected(command[t].device)'
                   /\ ThisCall(t) \in Sides => ThisCall(t) \in registry'[i].endpoints
        BY <2>2, <2>3, <4>3, <4>4
      <4> QED
        BY <4>1, <4>2, <4>4
    <3> QED
      BY <2>1, <2>2, <3>1, <3>2
  <2> QED
    BY <1>1, <1>3, <2>4 DEF OnRecord
<1> QED
  BY <1>2, <1>3

\* A run that finds another device where its last one was finds that one gone.
LEMMA CallOneDevice ==
    ASSUME CallsInv, NEW t \in Tools, NEW n \in 0..MaxDevices, Recorded(t, n),
           IsAttach(command[t]) => Taken(t, n), RegistryInv', Lasts
    PROVE  OneDevice'
<1> SUFFICES ASSUME NEW u \in Tools, NEW j \in DOMAIN effects'[u], NEW k \in DOMAIN effects'[u],
                    j < k, effects'[u][j][1] # effects'[u][k][1],
                    effects'[u][j][1] \in Live'
             PROVE  FALSE
  BY DEF OneDevice
<1>1. effects' \in [Tools -> Seq(Effects)] /\ effects[u] \in Seq(Effects)
  BY CallRecorded, RunsTyped DEF CallsInv
<1>2. j \in 1..Len(effects'[u]) /\ k \in 1..Len(effects'[u])
  BY <1>1
<1>3. CASE u # t
  <2>1. effects'[u] = effects[u]
    BY <1>3, CallRecorded
  <2>2. effects[u][j][1] \in Live
    BY <1>2, <2>1, LiveWas
  <2> QED
    BY <2>1, <2>2 DEF CallsInv, OneDevice
<1>4. CASE u = t
  <2>1. /\ Len(effects'[t]) = Len(effects[t]) + 1
        /\ \A m \in 1..Len(effects[t]) : effects'[t][m] = effects[t][m]
        /\ effects'[t][Len(effects[t]) + 1] = <<n, ThisCall(t)>>
    BY CallRecorded
  <2>2. /\ Len(effects[t]) \in Nat
        /\ ~IsAttach(command[t]) => effects[t] = <<>>
    BY ThisCallShape DEF Recorded
  <2>3. j \in 1..Len(effects[t])
    BY <1>2, <1>4, <2>1, <2>2
  <2>4. effects'[t][j] = effects[t][j]
    BY <2>1, <2>3
  <2>5. effects[t][j][1] \in Live
    BY <1>4, <2>3, <2>4, LiveWas
  <2>6. CASE k \in 1..Len(effects[t])
    <3>1. effects'[t][k] = effects[t][k]
      BY <2>1, <2>6
    <3>2. j \in DOMAIN effects[t] /\ k \in DOMAIN effects[t]
      BY <1>1, <1>4, <2>3, <2>6
    <3> QED
      BY <1>4, <2>4, <2>5, <3>1, <3>2 DEF CallsInv, OneDevice
  <2>7. CASE k = Len(effects[t]) + 1
    <3>1. IsAttach(command[t])
      BY <2>2, <2>3
    <3>2. PICK i \in Selected(command[t].device) : registry[i].number = n
      BY <3>1 DEF Taken
    <3>3. PICK m \in Indices : Exists(m) /\ registry[m].number = effects[t][j][1]
      BY <2>5 DEF Live, Exists
    <3>4. m \in Selected(command[t].device)
      BY <2>3, <3>1, <3>3 DEF CallsInv, OnRecord
    <3>5. m = i
      BY <3>2, <3>4, SelectedIsOne DEF CallsInv
    <3> QED
      BY <1>4, <2>1, <2>4, <2>7, <3>2, <3>3, <3>5
  <2> QED
    BY <1>2, <1>4, <2>1, <2>2, <2>6, <2>7
<1> QED
  BY <1>3, <1>4

\* A place that another run has on record is not free.
LEMMA CallOneWinner ==
    ASSUME CallsInv, NEW t \in Tools, NEW n \in 0..MaxDevices, Recorded(t, n),
           IsAttach(command[t]) => Taken(t, n)
    PROVE  OneWinner'
<1>1. /\ Len(effects[t]) \in Nat
      /\ IsAttach(command[t]) \/ ThisCall(t) \in Ops
  BY ThisCallShape DEF Recorded
<1>2. /\ effects' \in [Tools -> Seq(Effects)]
      /\ Len(effects'[t]) = Len(effects[t]) + 1
      /\ \A m \in 1..Len(effects[t]) : effects'[t][m] = effects[t][m]
      /\ effects'[t][Len(effects[t]) + 1] = <<n, ThisCall(t)>>
      /\ \A u \in Tools : u # t => effects'[u] = effects[u]
  BY CallRecorded
<1>3. ASSUME NEW u \in Tools, u # t, NEW k \in 1..Len(effects[u]),
             effects[u][k] = <<n, ThisCall(t)>>
      PROVE  ThisCall(t) \notin Sides
  <2>1. CASE IsAttach(command[t])
    <3>1. PICK i \in Selected(command[t].device) :
            registry[i].number = n /\ ThisCall(t) \notin registry[i].endpoints
      BY <2>1 DEF Taken
    <3>2. i \in Indices /\ Exists(i)
      BY DEF Selected, Exists
    <3>3. effects[u][k][1] = n /\ effects[u][k][2] = ThisCall(t)
      BY <1>3
    <3> QED
      BY <1>3, <3>1, <3>2, <3>3 DEF CallsInv, OnRecord
  <2>2. CASE ThisCall(t) \in Ops
    BY <2>2 DEF Ops, Sides
  <2> QED
    BY <1>1, <2>1, <2>2
<1>4. ASSUME NEW u \in Tools, u # t, NEW j \in DOMAIN effects'[t], NEW k \in DOMAIN effects'[u],
             effects'[t][j] = effects'[u][k]
      PROVE  effects'[t][j][2] \notin Sides
  <2>1. effects'[u] = effects[u] /\ effects[u] \in Seq(Effects) /\ effects[t] \in Seq(Effects)
    BY <1>2, <1>4, RunsTyped DEF CallsInv
  <2>2. k \in 1..Len(effects[u]) /\ j \in 1..(Len(effects[t]) + 1)
    BY <1>2, <2>1
  <2>3. CASE j \in 1..Len(effects[t])
    <3>1. j \in DOMAIN effects[t] /\ k \in DOMAIN effects[u]
      BY <2>1, <2>2, <2>3
    <3>2. effects'[t][j] = effects[t][j]
      BY <1>2, <2>3
    <3> QED
      BY <1>4, <2>1, <3>1, <3>2 DEF CallsInv, OneWinner
  <2>4. CASE j = Len(effects[t]) + 1
    <3>1. effects[u][k] = <<n, ThisCall(t)>> /\ effects'[t][j] = <<n, ThisCall(t)>>
      BY <1>2, <1>4, <2>1, <2>4
    <3> QED
      BY <1>3, <1>4, <2>2, <3>1
  <2> QED
    BY <1>1, <2>2, <2>3, <2>4
<1> SUFFICES ASSUME NEW u \in Tools, NEW v \in Tools, u # v,
                    NEW j \in DOMAIN effects'[u], NEW k \in DOMAIN effects'[v],
                    effects'[u][j] = effects'[v][k]
             PROVE  effects'[u][j][2] \notin Sides
  BY DEF OneWinner
<1>5. CASE u = t
  BY <1>4, <1>5
<1>6. CASE v = t
  BY <1>4, <1>6
<1>7. CASE u # t /\ v # t
  BY <1>2, <1>7 DEF CallsInv, OneWinner
<1> QED
  BY <1>5, <1>6, <1>7

\* A call that is carried out keeps the invariant.
LEMMA CallKeepsInv ==
    ASSUME CallsInv, NEW t \in Tools, CallDone(t)
    PROVE  CallsInv'
<1>1. PICK n \in 0..MaxDevices : Recorded(t, n) /\ (IsAttach(command[t]) => Taken(t, n))
  BY DEF CallDone
<1>2. RegistryInv' /\ Lasts
  BY DEF CallDone
<1>3. effects' \in [Tools -> Seq(Effects)] /\ phase' \in [Tools -> Phases]
  BY <1>1, CallRecorded
<1>4. /\ bundle' \in {"installed", "damaged", "removed"} /\ binary' \in BOOLEAN
      /\ command' \in [Tools -> CommandLines] /\ answered' \in [Tools -> 0..3]
  BY <1>1 DEF Recorded, files, CallsInv, TypeOK
<1>5. TypeOK' /\ NumbersDiffer'
  BY <1>2, <1>3, <1>4, TypedAgain
<1>6. \A u \in Tools : Progress(u)'
  BY <1>1, CallProgress
<1>7. \A u \in Tools : OnRecord(u)'
  BY <1>1, <1>2, CallOnRecord
<1>8. OneDevice'
  BY <1>1, <1>2, CallOneDevice
<1>9. OneWinner'
  BY <1>1, CallOneWinner
<1> QED
  BY <1>5, <1>6, <1>7, <1>8, <1>9 DEF CallsInv

\* The variables of a step that leaves the driver and the records alone.
LEMMA StepsOfOne ==
    ASSUME CallsInv, UNCHANGED driver, UNCHANGED <<command, effects>>,
           NEW t \in Tools, NEW next \in Phases, Goes(t, next),
           bundle' \in {"installed", "damaged", "removed"}, binary' \in BOOLEAN,
           answered' \in [Tools -> 0..3],
           \A u \in Tools : u # t => answered'[u] = answered[u],
           Progress(t)'
    PROVE  CallsInv'
<1>1. /\ phase \in [Tools -> Phases] /\ command' \in [Tools -> CommandLines]
      /\ effects' \in [Tools -> Seq(Effects)]
  BY DEF CallsInv, TypeOK, Effects, Ops
<1>2. /\ phase' \in [Tools -> Phases] /\ phase'[t] = next
      /\ \A u \in Tools : u # t => phase'[u] = phase[u]
  BY <1>1 DEF Goes
<1>3. RegistryInv
  BY RegistryIsTyped DEF CallsInv
<1>4. RegistryInv' /\ Lasts
  <2>1. serving' \in BOOLEAN
    BY <1>3 DEF RegistryInv, driver
  <2> QED
    BY <1>3, <2>1, RegistryStays DEF driver
<1>5. \A u \in Tools : Progress(u)'
  <2> SUFFICES ASSUME NEW u \in Tools, u # t
               PROVE  Progress(u)'
    OBVIOUS
  <2>1. Progress(u)
    BY DEF CallsInv
  <2>2. /\ phase'[u] = phase[u] /\ answered'[u] = answered[u]
        /\ command' = command /\ effects' = effects
    BY <1>2
  <2> QED
    BY <2>1, <2>2 DEF Progress
<1> QED
  BY <1>1, <1>2, <1>4, <1>5, QuietStep

LEMMA RunKeepsInv ==
    ASSUME CallsInv, NEW t \in Tools, NEW c \in Commands, Run(t, c)
    PROVE  CallsInv'
<1>1. c \in CommandLines
  BY ToolAssumption
<1>2. /\ command' = [command EXCEPT ![t] = c] /\ answered' = [answered EXCEPT ![t] = 0]
      /\ effects' = [effects EXCEPT ![t] = <<>>] /\ UNCHANGED <<driver, files>>
  BY DEF Run
<1>3. PICK next \in Phases :
        /\ phase' = [phase EXCEPT ![t] = next]
        /\ next = "connecting" \/ next = "failure" \/ next = "removing bundle"
        /\ next = "connecting" => c.op # "uninstall" /\ ~Malformed(c)
        /\ next = "removing bundle" => c.op = "uninstall"
  BY DEF Run, Goes, Phases, Idle
<1>4. /\ phase \in [Tools -> Phases] /\ command \in [Tools -> CommandLines]
      /\ answered \in [Tools -> 0..3] /\ effects \in [Tools -> Seq(Effects)]
      /\ bundle \in {"installed", "damaged", "removed"} /\ binary \in BOOLEAN
  BY DEF CallsInv, TypeOK, Effects, Ops
<1>5. /\ command' \in [Tools -> CommandLines] /\ answered' \in [Tools -> 0..3]
      /\ phase' \in [Tools -> Phases] /\ effects' \in [Tools -> Seq(Effects)]
      /\ bundle' \in {"installed", "damaged", "removed"} /\ binary' \in BOOLEAN
      /\ \A u \in Tools : u # t => /\ command'[u] = command[u] /\ answered'[u] = answered[u]
                                   /\ effects'[u] = effects[u] /\ phase'[u] = phase[u]
      /\ command'[t] = c /\ answered'[t] = 0 /\ effects'[t] = <<>> /\ phase'[t] = next
  <2>1. /\ command' \in [Tools -> CommandLines] /\ command'[t] = c
        /\ \A u \in Tools : u # t => command'[u] = command[u]
    BY <1>1, <1>2, <1>4, ChangedAt
  <2>2. /\ phase' \in [Tools -> Phases] /\ phase'[t] = next
        /\ \A u \in Tools : u # t => phase'[u] = phase[u]
    BY <1>3, <1>4, ChangedAt
  <2>3. bundle' \in {"installed", "damaged", "removed"} /\ binary' \in BOOLEAN
    BY <1>2, <1>4 DEF files
  <2>4. /\ answered' \in [Tools -> 0..3] /\ answered'[t] = 0
        /\ \A u \in Tools : u # t => answered'[u] = answered[u]
    <3>1. 0 \in 0..3
      OBVIOUS
    <3> QED
      BY <1>2, <1>4, <3>1, ChangedAt
  <2>5. /\ effects' \in [Tools -> Seq(Effects)] /\ effects'[t] = <<>>
        /\ \A u \in Tools : u # t => effects'[u] = effects[u]
    <3>1. <<>> \in Seq(Effects)
      BY EmptySequence
    <3> QED
      BY <1>2, <1>4, <3>1, ChangedAt
  <2> QED
    BY <2>1, <2>2, <2>3, <2>4, <2>5
<1>6. RegistryInv
  BY RegistryIsTyped DEF CallsInv
<1>7. RegistryInv' /\ Lasts
  <2>1. serving' \in BOOLEAN
    BY <1>2, <1>6 DEF RegistryInv, driver
  <2> QED
    BY <1>2, <1>6, <2>1, RegistryStays DEF driver
<1>8. ASSUME NEW u \in Tools
      PROVE  Progress(u)'
  <2>1. CASE u # t
    <3>1. Progress(u)
      BY DEF CallsInv
    <3> QED
      BY <1>5, <2>1, <3>1 DEF Progress
  <2>2. CASE u = t
    <3>1. /\ \/ phase'[t] = "connecting" \/ phase'[t] = "failure"
             \/ phase'[t] = "removing bundle"
          /\ phase'[t] = "connecting" => c.op # "uninstall" /\ ~Malformed(c)
          /\ phase'[t] = "removing bundle" => c.op = "uninstall"
      BY <1>3, <1>5
    <3>2. Len(Calls(c)) \in 0..3
      BY <1>1, CallsShape
    <3>3. ~Malformed(c) => Len(Calls(c)) > 0
      <4>1. CASE IsAttach(c)
        BY <1>1, <4>1, CallsShape DEF Malformed
      <4>2. CASE ~IsAttach(c)
        BY <1>1, <4>2, CallsShape
      <4> QED
        BY <4>1, <4>2
    <3>4. /\ Len(effects'[t]) = 0 /\ answered'[t] = 0 /\ command'[t] = c
          /\ Len(Calls(command'[t])) \in 0..3
      BY <1>5, <3>2, EmptySequence
    <3>5. \A k \in 1..Len(effects'[t]) : effects'[t][k][2] = Calls(command'[t])[k]
      BY <3>4
    <3>6. phase'[t] = "connecting" => 0 < Len(Calls(command'[t]))
      BY <3>1, <3>3, <3>4
    <3>7. /\ phase'[t] = "connecting" => command'[t].op # "uninstall"
          /\ phase'[t] = "removing bundle" => command'[t].op = "uninstall"
      BY <3>1, <3>4
    <3>8. Len(effects'[t]) <= Len(Calls(command'[t]))
      BY <3>4
    <3>9. /\ phase'[t] # "answering" /\ phase'[t] # "success" /\ phase'[t] # "calling"
          /\ phase'[t] # "removing tool"
      BY <3>1
    <3>10. Progress(t)'
      BY <3>4, <3>5, <3>6, <3>7, <3>8, <3>9 DEF Progress
    <3> QED
      BY <2>2, <3>10
  <2> QED
    BY <2>1, <2>2
<1> QED
  BY <1>5, <1>7, <1>8, QuietStep

LEMMA ConnectKeepsInv ==
    ASSUME CallsInv, NEW t \in Tools, Connect(t)
    PROVE  CallsInv'
<1>1. /\ phase[t] = "connecting" /\ UNCHANGED <<driver, files, command, answered, effects>>
  BY DEF Connect
<1>2. PICK next \in {"calling", "failure"} : Goes(t, next)
  BY DEF Connect
<1>3. Progress(t) /\ phase \in [Tools -> Phases] /\ TypeOK
  BY DEF CallsInv, TypeOK
<1>4. phase'[t] = next
  BY <1>2, <1>3 DEF Goes
<1>5. Progress(t)'
  BY <1>1, <1>3, <1>4 DEF Progress
<1>6. answered' \in [Tools -> 0..3] /\ bundle' \in {"installed", "damaged", "removed"}
      /\ binary' \in BOOLEAN
  BY <1>1, <1>3 DEF TypeOK, files
<1> QED
  BY <1>1, <1>2, <1>5, <1>6, StepsOfOne DEF Phases, Idle

LEMMA RefusedKeepsInv ==
    ASSUME CallsInv, NEW t \in Tools, Refused(t)
    PROVE  CallsInv'
<1>1. /\ phase[t] = "calling" /\ Goes(t, "failure")
      /\ UNCHANGED <<driver, files, command, answered, effects>>
  BY DEF Refused
<1>2. Progress(t) /\ phase \in [Tools -> Phases] /\ TypeOK
  BY DEF CallsInv, TypeOK
<1>3. phase'[t] = "failure"
  BY <1>1, <1>2 DEF Goes
<1>4. Progress(t)'
  BY <1>1, <1>2, <1>3 DEF Progress
<1>5. answered' \in [Tools -> 0..3] /\ bundle' \in {"installed", "damaged", "removed"}
      /\ binary' \in BOOLEAN
  BY <1>1, <1>2 DEF TypeOK, files
<1> QED
  BY <1>1, <1>4, <1>5, StepsOfOne DEF Phases, Idle

LEMMA AnsweredKeepsInv ==
    ASSUME CallsInv, NEW t \in Tools, Answered(t)
    PROVE  CallsInv'
<1>1. /\ phase[t] = "answering" /\ answered' = [answered EXCEPT ![t] = @ + 1]
      /\ UNCHANGED <<driver, files, command, effects>>
  BY DEF Answered
<1>2. Goes(t, IF answered'[t] = Len(Calls(command[t])) THEN "success" ELSE "calling")
  BY DEF Answered
<1>3. Progress(t) /\ phase \in [Tools -> Phases] /\ answered \in [Tools -> 0..3] /\ TypeOK
  BY DEF CallsInv, TypeOK
<1>4. /\ answered'[t] = answered[t] + 1
      /\ phase'[t] = IF answered'[t] = Len(Calls(command[t])) THEN "success" ELSE "calling"
  BY <1>1, <1>2, <1>3 DEF Goes
<1>5. /\ answered[t] \in 0..3 /\ Len(Calls(command[t])) \in 0..3
      /\ Len(effects[t]) = answered[t] + 1 /\ Len(effects[t]) <= Len(Calls(command[t]))
  BY <1>1, <1>3, RunsTyped DEF Progress
<1>6. answered' \in [Tools -> 0..3]
  <2>1. answered[t] + 1 \in 0..3
    <3>1. \A a, l \in 0..3 : a + 1 <= l => a + 1 \in 0..3
      OBVIOUS
    <3> QED
      BY <1>5, <3>1
  <2> QED
    BY <1>1, <1>3, <2>1, ChangedAt
<1>7. Progress(t)'
  <2>1. /\ \A k \in 1..Len(effects[t]) : effects[t][k][2] = Calls(command[t])[k]
        /\ command[t].op # "uninstall" /\ command' = command /\ effects' = effects
    BY <1>1, <1>3 DEF Progress
  <2>2. Len(effects[t]) = answered'[t] /\ answered'[t] \in Nat
    BY <1>4, <1>5
  <2>3. \/ phase'[t] = "success" /\ answered'[t] = Len(Calls(command[t]))
        \/ phase'[t] = "calling" /\ answered'[t] < Len(Calls(command[t]))
    BY <1>4, <1>5
  <2> QED
    BY <1>5, <2>1, <2>2, <2>3 DEF Progress
<1>8. bundle' \in {"installed", "damaged", "removed"} /\ binary' \in BOOLEAN
  BY <1>1, <1>3 DEF TypeOK, files
<1>9. \A u \in Tools : u # t => answered'[u] = answered[u]
  BY <1>1, <1>3
<1>10. UNCHANGED driver /\ UNCHANGED <<command, effects>>
  BY <1>1
<1>11. PICK next \in {"success", "calling"} : Goes(t, next)
  BY <1>2
<1> QED
  BY <1>6, <1>7, <1>8, <1>9, <1>10, <1>11, StepsOfOne DEF Phases, Idle

LEMMA RemovalKeepsInv ==
    ASSUME CallsInv, NEW t \in Tools, RemoveBundle(t) \/ RemoveTool(t)
    PROVE  CallsInv'
<1>1. /\ phase[t] \in {"removing bundle", "removing tool"}
      /\ UNCHANGED <<driver, command, answered, effects>>
  BY DEF RemoveBundle, RemoveTool
<1>2. PICK next \in {"removing tool", "success", "failure"} : Goes(t, next)
  BY DEF RemoveBundle, RemoveTool
<1>3. Progress(t) /\ phase \in [Tools -> Phases] /\ TypeOK
  BY DEF CallsInv, TypeOK
<1>4. phase'[t] = next
  BY <1>2, <1>3 DEF Goes
<1>5. Progress(t)'
  BY <1>1, <1>3, <1>4 DEF Progress
<1>6. bundle' \in {"installed", "damaged", "removed"} /\ binary' \in BOOLEAN
  BY <1>3 DEF RemoveBundle, RemoveTool, TypeOK
<1>7. answered' \in [Tools -> 0..3] /\ answered' = answered
  BY <1>1, <1>3 DEF TypeOK
<1> QED
  BY <1>1, <1>2, <1>5, <1>6, <1>7, StepsOfOne DEF Phases, Idle

\* A driver that stops takes the answer of a call and leaves its record.
LEMMA DriverKeepsInv ==
    ASSUME CallsInv, Stop \/ Start
    PROVE  CallsInv'
<1>1. /\ UNCHANGED <<registry, added, files, command, answered, effects>>
      /\ serving' \in BOOLEAN
  BY DEF Stop, Start, Driver!Stop, Driver!Start, runs
<1>2. \A t \in Tools : \/ phase'[t] = phase[t]
                       \/ phase[t] = "answering" /\ phase'[t] = "failure"
  <2>1. CASE Stop
    BY <2>1 DEF Stop
  <2>2. CASE Start
    BY <2>2 DEF Start, runs
  <2> QED
    BY <2>1, <2>2
<1>3. /\ phase \in [Tools -> Phases] /\ command \in [Tools -> CommandLines]
      /\ answered \in [Tools -> 0..3] /\ effects \in [Tools -> Seq(Effects)]
      /\ bundle \in {"installed", "damaged", "removed"} /\ binary \in BOOLEAN
  BY DEF CallsInv, TypeOK, Effects, Ops
<1>4. phase' \in [Tools -> Phases]
  BY <1>3 DEF Stop, Start, runs, Phases, Idle
<1>5. RegistryInv' /\ Lasts
  <2>1. RegistryInv
    BY RegistryIsTyped DEF CallsInv
  <2> QED
    BY <1>1, <2>1, RegistryStays
<1>6. ASSUME NEW t \in Tools
      PROVE  Progress(t)'
  <2>1. Progress(t)
    BY DEF CallsInv
  <2>2. /\ command' = command /\ answered' = answered /\ effects' = effects
        /\ \/ phase'[t] = phase[t]
           \/ phase[t] = "answering" /\ phase'[t] = "failure"
    BY <1>1, <1>2
  <2> QED
    BY <2>1, <2>2 DEF Progress
<1> QED
  BY <1>1, <1>3, <1>4, <1>5, <1>6, QuietStep DEF files

LEMMA StutterKeepsInv ==
    ASSUME CallsInv, UNCHANGED vars
    PROVE  CallsInv'
<1>1. /\ UNCHANGED <<registry, serving, added, files, phase, command, answered, effects>>
      /\ UNCHANGED <<bundle, binary>>
  BY DEF vars, driver, files, runs
<1>2. /\ phase' \in [Tools -> Phases] /\ command' \in [Tools -> CommandLines]
      /\ answered' \in [Tools -> 0..3] /\ effects' \in [Tools -> Seq(Effects)]
      /\ bundle' \in {"installed", "damaged", "removed"} /\ binary' \in BOOLEAN
  BY <1>1 DEF CallsInv, TypeOK, Effects, Ops
<1>3. RegistryInv' /\ Lasts
  <2>1. RegistryInv
    BY RegistryIsTyped DEF CallsInv
  <2>2. serving' \in BOOLEAN
    BY <1>1, <2>1 DEF RegistryInv
  <2> QED
    BY <1>1, <2>1, <2>2, RegistryStays
<1>4. \A t \in Tools : Progress(t)'
  BY <1>1 DEF CallsInv, Progress
<1> QED
  BY <1>1, <1>2, <1>3, <1>4, QuietStep

LEMMA InitCalls == Init => CallsInv
<1> SUFFICES ASSUME Init
             PROVE  CallsInv
  OBVIOUS
<1>1. /\ registry = [i \in Indices |-> NoDevice] /\ serving = TRUE /\ added = 0
      /\ bundle = "installed" /\ binary = TRUE
      /\ phase = [t \in Tools |-> "off"] /\ command = [t \in Tools |-> [op |-> "info"]]
      /\ answered = [t \in Tools |-> 0] /\ effects = [t \in Tools |-> <<>>]
  BY DEF Init
<1>2. <<>> \in Seq(Effects) /\ Len(<<>>) = 0
  BY EmptySequence
<1>3. [op |-> "info"] \in CommandLines
  BY DEF CommandLines
<1>4. 0 \in 0..MaxDevices
  BY ToolAssumption
<1>5. \A i \in Indices : ~Exists(i) /\ registry[i] \notin Devices
  BY <1>1, ToolAssumption DEF Exists
<1>6. \A t \in Tools : effects[t] = <<>> /\ answered[t] = 0 /\ phase[t] = "off"
                       /\ command[t] = [op |-> "info"]
  BY <1>1
<1>7. TypeOK
  <2>1. registry \in [Indices -> Devices \cup {NoDevice}] /\ serving \in BOOLEAN
    BY <1>1
  <2>2. added \in 0..MaxDevices
    BY <1>1, <1>4
  <2>3. \A i, j \in Indices :
          /\ registry[i] # NoDevice => registry[i].number <= added
          /\ {registry[i], registry[j]} \subseteq Devices /\ i # j
               => registry[i].uid # registry[j].uid
    BY <1>5 DEF Exists
  <2>4. bundle \in {"installed", "damaged", "removed"} /\ binary \in BOOLEAN
    BY <1>1
  <2>5. phase \in [Tools -> Phases] /\ command \in [Tools -> CommandLines]
    BY <1>1, <1>3 DEF Phases, Idle
  <2>6. answered \in [Tools -> 0..3]
    <3>1. 0 \in 0..3
      OBVIOUS
    <3> QED
      BY <1>1, <3>1
  <2>7. effects \in [Tools -> Seq(Effects)]
    BY <1>1, <1>2
  <2> QED
    BY <2>1, <2>2, <2>3, <2>4, <2>5, <2>6, <2>7 DEF TypeOK, Effects, Ops
<1>8. NumbersDiffer
  BY <1>5 DEF NumbersDiffer
<1>9. ASSUME NEW t \in Tools
      PROVE  Progress(t) /\ OnRecord(t)
  <2>1. /\ effects[t] = <<>> /\ answered[t] = 0 /\ phase[t] = "off" /\ Len(effects[t]) = 0
        /\ Len(Calls(command[t])) \in 0..3
    BY <1>2, <1>6, <1>7, RunsTyped
  <2>2. \A k \in 1..Len(effects[t]) : FALSE
    BY <2>1
  <2>3. Progress(t)
    <3>1. Len(effects[t]) <= Len(Calls(command[t]))
      BY <2>1
    <3> QED
      BY <2>1, <2>2, <3>1 DEF Progress
  <2>4. OnRecord(t)
    BY <2>2 DEF OnRecord
  <2> QED
    BY <2>3, <2>4
<1>10. OneDevice /\ OneWinner
  <2>1. \A t \in Tools : DOMAIN effects[t] = {}
    BY <1>6
  <2> QED
    BY <2>1 DEF OneDevice, OneWinner
<1> QED
  BY <1>7, <1>8, <1>9, <1>10 DEF CallsInv

LEMMA NextKeepsInv ==
    ASSUME CallsInv, [Next]_vars
    PROVE  CallsInv'
<1>1. ASSUME NEW t \in Tools, NEW c \in Commands, Run(t, c)
      PROVE  CallsInv'
  BY <1>1, RunKeepsInv
<1>2. ASSUME NEW t \in Tools, Tool(t)
      PROVE  CallsInv'
  <2>1. CASE Connect(t)
    BY <2>1, ConnectKeepsInv
  <2>2. CASE Attach(t)
    BY <2>2, AttachIsDone, CallKeepsInv
  <2>3. CASE Toggle(t)
    BY <2>3, ToggleIsDone, CallKeepsInv
  <2>4. CASE Delete(t)
    BY <2>4, DeleteIsDone, CallKeepsInv
  <2>5. CASE Add(t)
    BY <2>5, AddIsDone, CallKeepsInv
  <2>6. CASE Show(t) \/ ListOrInfo(t)
    BY <2>6, ReadIsDone, CallKeepsInv
  <2>7. CASE Refused(t)
    BY <2>7, RefusedKeepsInv
  <2>8. CASE Answered(t)
    BY <2>8, AnsweredKeepsInv
  <2>9. CASE RemoveBundle(t) \/ RemoveTool(t)
    BY <2>9, RemovalKeepsInv
  <2> QED
    BY <1>2, <2>1, <2>2, <2>3, <2>4, <2>5, <2>6, <2>7, <2>8, <2>9 DEF Tool
<1>3. CASE Stop \/ Start
  BY <1>3, DriverKeepsInv
<1>4. CASE UNCHANGED vars
  BY <1>4, StutterKeepsInv
<1> QED
  BY <1>1, <1>2, <1>3, <1>4 DEF Next

-----------------------------------------------------------------------------
(* Theorems.                                                               *)

\* A sequence that another one continues is a prefix of it.
LEMMA PrefixOf ==
    ASSUME NEW S, NEW T, NEW s \in Seq(S), NEW q \in Seq(T), Len(s) <= Len(q),
           \A k \in 1..Len(s) : s[k] = q[k]
    PROVE  IsPrefix(s, q)
<1>1. Len(s) \in Nat /\ Len(q) \in Nat
  OBVIOUS
<1>2. /\ SubSeq(s, 1, Len(s)) = [k \in 1..Len(s) |-> s[k]]
      /\ SubSeq(q, 1, Len(s)) = [k \in 1..Len(s) |-> q[k]]
  BY <1>1
<1> QED
  BY <1>2 DEF IsPrefix

LEMMA SameSequence ==
    ASSUME NEW S, NEW T, NEW s \in Seq(S), NEW q \in Seq(T), Len(s) = Len(q),
           \A k \in 1..Len(s) : s[k] = q[k]
    PROVE  s = q
<1>1. s = [k \in 1..Len(s) |-> s[k]] /\ q = [k \in 1..Len(q) |-> q[k]]
  OBVIOUS
<1> QED
  BY <1>1

\* The calls of all runs are on record, in every state.
THEOREM CallsInvariant == Spec => []CallsInv
<1>1. CallsInv /\ [Next]_vars => CallsInv'
  BY NextKeepsInv
<1> QED
  BY <1>1, InitCalls, PTL DEF Spec

\* The variables have their types: no two devices get the same uid, however many
\* runs add devices.
THEOREM CommandsTyped == Spec => []TypeOK
<1>1. CallsInv => TypeOK
  BY DEF CallsInv
<1> QED
  BY <1>1, CallsInvariant, PTL

\* What a run reports is what it did: all of it if it ends well, and otherwise the
\* first part and at most one call more.
THEOREM ReportsAreTrue == Spec => []ReportsWhatWasDone
<1>1. CallsInv => ReportsWhatWasDone
  <2> SUFFICES ASSUME CallsInv, NEW t \in Tools, command[t].op # "uninstall"
               PROVE  LET done == [k \in DOMAIN effects[t] |-> effects[t][k][2]]
                      IN  /\ IsPrefix(done, Calls(command[t]))
                          /\ Len(done) \in {answered[t], answered[t] + 1}
                          /\ Len(done) > answered[t] => phase[t] \in {"answering", "failure"}
                          /\ phase[t] = "success" => done = Calls(command[t])
    BY DEF ReportsWhatWasDone
  <2> DEFINE done == [k \in DOMAIN effects[t] |-> effects[t][k][2]]
  <2> DEFINE calls == Calls(command[t])
  <2>1. /\ effects[t] \in Seq(Effects) /\ Len(effects[t]) \in Nat /\ answered[t] \in 0..3
        /\ command[t] \in CommandLines
    BY RunsTyped DEF CallsInv
  <2>2. calls \in Seq(Sides) \/ calls = <<command[t].op>>
    BY <2>1, CallsShape
  <2>3. DOMAIN effects[t] = 1..Len(effects[t])
    BY <2>1
  <2>4. /\ done \in Seq({effects[t][k][2] : k \in DOMAIN effects[t]})
        /\ Len(done) = Len(effects[t])
        /\ \A k \in 1..Len(effects[t]) : done[k] = effects[t][k][2]
    BY <2>1, <2>3
  <2> HIDE DEF done, calls
  <2>5. Progress(t)
    BY DEF CallsInv
  <2>6. Len(done) <= Len(calls) /\ \A k \in 1..Len(done) : done[k] = calls[k]
    BY <2>1, <2>4, <2>5 DEF Progress, calls
  <2>7. IsPrefix(done, calls)
    <3>1. CASE calls \in Seq(Sides)
      BY <2>4, <2>6, <3>1, PrefixOf
    <3>2. CASE calls = <<command[t].op>>
      <4>1. calls \in Seq({command[t].op})
        BY <3>2
      <4> QED
        BY <2>4, <2>6, <4>1, PrefixOf
    <3> QED
      BY <2>2, <3>1, <3>2
  <2>8. /\ Len(done) \in {answered[t], answered[t] + 1}
        /\ Len(done) > answered[t] => phase[t] \in {"answering", "failure"}
    <3>1. \/ Len(done) = answered[t]
          \/ Len(done) = answered[t] + 1 /\ phase[t] \in {"answering", "failure"}
      BY <2>4, <2>5 DEF Progress
    <3>2. ~(answered[t] > answered[t])
      BY <2>1
    <3> QED
      BY <3>1, <3>2
  <2>9. ASSUME phase[t] = "success"
        PROVE  done = calls
    <3>1. Len(done) = Len(calls)
      BY <2>4, <2>5, <2>9 DEF Progress, calls
    <3>2. CASE calls \in Seq(Sides)
      BY <2>4, <2>6, <3>1, <3>2, SameSequence
    <3>3. CASE calls = <<command[t].op>>
      <4>1. calls \in Seq({command[t].op})
        BY <3>3
      <4> QED
        BY <2>4, <2>6, <3>1, <4>1, SameSequence
    <3> QED
      BY <2>2, <3>2, <3>3
  <2> QED
    BY <2>7, <2>8, <2>9 DEF done, calls
<1> QED
  BY <1>1, CallsInvariant, PTL

\* The calls of a run reach one device, or find the last one deleted.
THEOREM RunsKeepTheirDevice == Spec => []OneDevice
<1>1. CallsInv => OneDevice
  BY DEF CallsInv
<1> QED
  BY <1>1, CallsInvariant, PTL

\* Of the runs that want the same place of a device one is told that it has it.
THEOREM PlacesHaveOneWinner == Spec => []OneWinner
<1>1. CallsInv => OneWinner
  BY DEF CallsInv
<1> QED
  BY <1>1, CallsInvariant, PTL

\* The tool uses the driver as a registry: each call is one of its operations, with a
\* device that it can hold, at an index that it has.
UsesRegistry == [][Driver!Next]_(Driver!vars)

\* A device that a call changes is a device of the registry, with settings of one.
LEMMA CallUsesRegistry ==
    ASSUME CallsInv, NEW t \in Tools, Tool(t)
    PROVE  [Driver!Next]_(Driver!vars)
<1>1. RegistryInv
  BY RegistryIsTyped DEF CallsInv
<1>2. ASSUME NEW i \in Selected(command[t].device)
      PROVE  i \in Indices /\ registry[i] \in Devices
  BY <1>1 DEF Selected, RegistryInv
<1>3. CASE Attach(t)
  <2>1. PICK i \in Selected(command[t].device) :
           Driver!Update(i, [registry[i] EXCEPT !.endpoints = @ \cup {ThisCall(t)}])
    BY <1>3 DEF Attach
  <2>2. ThisCall(t) \in Sides
    BY <1>3, ThisCallShape DEF Attach, Served, IsAttach
  <2>3. [registry[i] EXCEPT !.endpoints = @ \cup {ThisCall(t)}] \in Devices
    BY <1>2, <2>2 DEF Devices
  <2> QED
    BY <1>2, <2>1, <2>3 DEF Driver!Next
<1>4. CASE Toggle(t)
  <2>1. PICK i \in Selected(command[t].device) :
           Driver!Update(i, [registry[i] EXCEPT !.enabled = (command[t].op = "enable")])
    BY <1>4 DEF Toggle
  <2>2. [registry[i] EXCEPT !.enabled = (command[t].op = "enable")] \in Devices
    BY <1>2 DEF Devices
  <2> QED
    BY <1>2, <2>1, <2>2 DEF Driver!Next
<1>5. CASE Delete(t)
  BY <1>2, <1>5 DEF Delete, Driver!Next
<1>6. CASE Add(t)
  <2> DEFINE New(uid) ==
          [number |-> added', uid |-> uid, enabled |-> TRUE,
           type |-> IF command[t].op = "add sender" THEN "sender" ELSE "receiver",
           endpoints |-> {}]
  <2>1. PICK i \in Indices, uid \in Uids : Driver!Create(i, New(uid))
    BY <1>6 DEF Add
  <2>2. added' \in 1..MaxDevices
    <3>1. added \in Nat /\ MaxDevices \in Nat
      BY <1>1, ToolAssumption DEF RegistryInv
    <3>2. added < MaxDevices /\ added' = added + 1
      BY <1>6 DEF Add
    <3> QED
      BY <3>1, <3>2
  <2>3. New(uid) \in Devices
    BY <2>2 DEF Devices
  <2> HIDE DEF New
  <2> QED
    BY <2>1, <2>3 DEF Driver!Next
<1>7. CASE \/ Connect(t) \/ Show(t) \/ ListOrInfo(t) \/ Refused(t) \/ Answered(t)
           \/ RemoveBundle(t) \/ RemoveTool(t)
  <2>1. UNCHANGED driver
    BY <1>7 DEF Connect, Show, ListOrInfo, Refused, Answered, RemoveBundle, RemoveTool
  <2> QED
    BY <2>1 DEF driver, Driver!vars
<1> QED
  BY <1>3, <1>4, <1>5, <1>6, <1>7 DEF Tool

\* Runs of the tool next to each other, and the driver's stops and starts between their
\* calls, are operations of the registry that DeviceManager implements.
THEOREM ToolUsesRegistry == Spec => UsesRegistry
<1>1. ASSUME CallsInv, [Next]_vars
      PROVE  [Driver!Next]_(Driver!vars)
  <2>1. ASSUME NEW t \in Tools, NEW c \in Commands, Run(t, c)
        PROVE  UNCHANGED Driver!vars
    BY <2>1 DEF Run, driver, Driver!vars
  <2>2. CASE Stop \/ Start
    BY <2>2 DEF Stop, Start, Driver!Next
  <2>3. CASE UNCHANGED vars
    BY <2>3 DEF vars, driver, Driver!vars
  <2> QED
    BY <1>1, <2>1, <2>2, <2>3, CallUsesRegistry DEF Next
<1>2. CallsInv /\ [Next]_vars => [Driver!Next]_(Driver!vars)
  BY <1>1
<1> QED
  BY <1>2, CallsInvariant, PTL DEF Spec, UsesRegistry

\* While files of the driver are installed there is a tool to remove them, however
\* many uninstallations run at once and whatever fails in them.
THEOREM ToolIsRemovedLast == Spec => []ToolOutlivesDriver
<1>1. Init => FilesInv
  BY DEF Init, FilesInv, ToolOutlivesDriver, Phases, Idle
<1>2. FilesInv /\ [Next]_vars => FilesInv'
  <2> SUFFICES ASSUME FilesInv, [Next]_vars
               PROVE  FilesInv'
    OBVIOUS
  <2>1. ASSUME NEW t \in Tools, RemoveBundle(t)
        PROVE  FilesInv'
    BY <2>1 DEF RemoveBundle, FilesInv, ToolOutlivesDriver, Goes, Phases, Idle
  <2>2. ASSUME NEW t \in Tools, RemoveTool(t)
        PROVE  FilesInv'
    BY <2>2 DEF RemoveTool, FilesInv, ToolOutlivesDriver, Goes, Phases, Idle
  <2>3. ASSUME UNCHANGED files, phase' \in [Tools -> Phases],
               \A t \in Tools : phase'[t] = "removing tool" => phase[t] = "removing tool"
        PROVE  FilesInv'
    BY <2>3 DEF FilesInv, ToolOutlivesDriver, files
  <2>4. ASSUME NEW t \in Tools, NEW next \in Phases, next # "removing tool", UNCHANGED files,
               Goes(t, next)
        PROVE  FilesInv'
    <3>1. phase' \in [Tools -> Phases]
      BY <2>4, ChangedAt DEF Goes, FilesInv
    <3>2. \A u \in Tools : phase'[u] = "removing tool" => phase[u] = "removing tool"
      BY <2>4 DEF Goes, FilesInv
    <3> QED
      BY <2>3, <2>4, <3>1, <3>2
  <2>5. ASSUME NEW t \in Tools, NEW c \in Commands, Run(t, c)
        PROVE  FilesInv'
    BY <2>4, <2>5 DEF Run, files, Phases, Idle
  <2>6. ASSUME NEW t \in Tools, Connect(t)
        PROVE  FilesInv'
    BY <2>4, <2>6 DEF Connect, files, Phases, Idle
  <2>7. ASSUME NEW t \in Tools,
               \/ Attach(t) \/ Toggle(t) \/ Delete(t) \/ Add(t) \/ Show(t) \/ ListOrInfo(t)
        PROVE  FilesInv'
    <3>1. Goes(t, "answering") /\ UNCHANGED files
      BY <2>7 DEF Attach, Toggle, Delete, Add, Show, ListOrInfo, Served
    <3> QED
      BY <2>4, <3>1 DEF Phases
  <2>8. ASSUME NEW t \in Tools, Refused(t) \/ Answered(t)
        PROVE  FilesInv'
    BY <2>4, <2>8 DEF Refused, Answered, files, Phases, Idle
  <2>9. CASE Stop
    BY <2>3, <2>9 DEF Stop, FilesInv, files, Phases, Idle
  <2>10. CASE Start
    BY <2>3, <2>10 DEF Start, FilesInv, files, runs
  <2>11. CASE UNCHANGED vars
    BY <2>3, <2>11 DEF vars, FilesInv, files, runs
  <2> QED
    BY <2>1, <2>2, <2>5, <2>6, <2>7, <2>8, <2>9, <2>10, <2>11 DEF Next, Tool
<1>3. FilesInv => ToolOutlivesDriver
  BY DEF FilesInv
<1> QED
  BY <1>1, <1>2, <1>3, PTL DEF Spec
=============================================================================
