--------------------------- MODULE DeviceRegistry ---------------------------
(***************************************************************************)
(* What the driver promises of its devices (README.md, "Persistence"; the  *)
(* "Persistent state" section of HACKING.md): a registry of devices that   *)
(* changes only on request.  Stopping and starting the driver changes what *)
(* can be asked of it and not what it knows.                               *)
(***************************************************************************)
CONSTANTS
    Indices,        \* the indices a device can have
    Infos,          \* the settings a device can have
    NoDevice        \* the settings of an absent device, not in Infos

VARIABLES
    registry,       \* the settings of the device at each index
    serving         \* whether requests are answered

vars == <<registry, serving>>

Init ==
    /\ registry = [index \in Indices |-> NoDevice]
    /\ serving = FALSE

Create(index, info) ==
    /\ serving
    /\ registry[index] = NoDevice
    /\ registry' = [registry EXCEPT ![index] = info]
    /\ UNCHANGED serving

Update(index, info) ==
    /\ serving
    /\ registry[index] # NoDevice
    /\ registry' = [registry EXCEPT ![index] = info]
    /\ UNCHANGED serving

Remove(index) ==
    /\ serving
    /\ registry[index] # NoDevice
    /\ registry' = [registry EXCEPT ![index] = NoDevice]
    /\ UNCHANGED serving

Stop ==
    /\ serving
    /\ serving' = FALSE
    /\ UNCHANGED registry

Start ==
    /\ ~serving
    /\ serving' = TRUE
    /\ UNCHANGED registry

Next ==
    \/ \E index \in Indices, info \in Infos : Create(index, info)
    \/ \E index \in Indices, info \in Infos : Update(index, info)
    \/ \E index \in Indices : Remove(index)
    \/ Stop
    \/ Start

Spec == Init /\ [][Next]_vars

=============================================================================
