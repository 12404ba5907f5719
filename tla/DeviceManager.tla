--------------------------- MODULE DeviceManager ----------------------------
(***************************************************************************)
(* The table of devices (driver/device_manager.cpp) with the devices in it *)
(* (device.cpp), the index allocator, the generator of uids and the        *)
(* persistent device list (device_storage.cpp), over the life of the       *)
(* driver: it starts with an empty table, loads the stored list one device *)
(* at a time, serves requests, and is restarted at any point.              *)
(*                                                                         *)
(* Every operation of the manager holds its mutex from end to end, and so  *)
(* is one step; only a restart can come between a change of the table and  *)
(* the save that follows it, and the storage is then what it was before    *)
(* the operation.  An operation that throws before it changes anything is  *)
(* no step.                                                                *)
(***************************************************************************)
EXTENDS IndexAllocator

CONSTANTS
    Uids,               \* device uids
    NoUid,              \* the uid of a request that leaves the choice to the driver
    NoDevice,           \* the absence of a device in a table
    Endpoints,          \* endpoints: a slot and an interface each
    Faults              \* the failures that the environment causes

Types == {"sender", "receiver"}

\* What a device is, as far as the table is concerned.  endpoints are the local
\* endpoints of a receiver and the remote ones of a sender: a device of the
\* other kind is never constructed, its transceiver throws.
Infos == [type : Types, uid : Uids, enabled : BOOLEAN, endpoints : SUBSET Endpoints]

FaultKinds == {
    "construct",        \* the constructor of a requested device throws
    "load",             \* the constructor of a stored device throws
    "save",             \* WriteBytes fails
    "unreadable",       \* ReadBytes fails, or what it reads is not a device list
    "early_restart" }   \* the driver is restarted before it has loaded its list

VARIABLES
    status,             \* "down", "loading" (load_devices_) or "running"
    pending,            \* the part of the loaded list still to be added
    device_by_index,    \* device_by_index_ and the info_ of its devices
    device_by_uid,      \* device_by_uid_: the index of the device, 0 if there is none
    hal_devices,        \* the devices that hal_plugin_ has, by index
    uids,               \* UidGenerator::uids_
    storage             \* the device list in the HAL's storage

vars == <<status, pending, device_by_index, device_by_uid, hal_devices, uids,
          storage, allocator>>

DeviceIndices == Indices \ {0}

ASSUME ManagerAssumption ==
    /\ NoUid \notin Uids
    /\ NoDevice \notin Infos
    /\ Faults \subseteq FaultKinds

\* The device list is saved in the order of indices and indices are unique, so a
\* list is a table.
Tables == [DeviceIndices -> Infos \cup {NoDevice}]

EmptyTable == [index \in DeviceIndices |-> NoDevice]

Present(table) == {index \in DeviceIndices : table[index] # NoDevice}

-----------------------------------------------------------------------------
Init ==
    /\ status = "down"
    /\ pending = EmptyTable
    /\ device_by_index = EmptyTable
    /\ device_by_uid = [uid \in Uids |-> 0]
    /\ hal_devices = {}
    /\ uids = {}
    /\ storage = EmptyTable
    /\ AllocatorInit

\* save_devices_ writes the whole table; a failed write is logged and forgotten.
SaveDevices(table) ==
    \/ storage' = table
    \/ "save" \in Faults /\ UNCHANGED storage

\* generate() never returns a uid it returned before.  That the random digits do
\* not hit the uid of a loaded or explicitly named device is assumed.
GenerateUid(uid) ==
    /\ uid \in Uids \ uids
    /\ device_by_uid[uid] = 0
    /\ uids' = uids \cup {uid}

ChooseUid(requested, uid) ==
    IF requested = NoUid THEN GenerateUid(uid)
    ELSE uid = requested /\ UNCHANGED uids

AcquireIndex(requested, index) ==
    IF requested = 0 THEN index = NextIndex /\ AllocateAndAcquire
    ELSE index = requested /\ Acquire(requested)

\* Mutation: the uid is registered before the constructor has returned.
FailedConstructorRegistered(request) ==
    /\ \E index \in DeviceIndices, uid \in Uids :
            /\ AcquireIndex(request.index, index)
            /\ ChooseUid(request.uid, uid)
            /\ device_by_uid' = [device_by_uid EXCEPT ![uid] = index]
    /\ UNCHANGED <<device_by_index, hal_devices, storage>>

\* The device constructor acquires the index and chooses the uid first.  When it
\* throws later the destructor does not run: the index stays acquired.
FailedConstructor(request) ==
    /\ \E index \in DeviceIndices : AcquireIndex(request.index, index)
    /\ \E uid \in Uids : ChooseUid(request.uid, uid)
    /\ UNCHANGED <<device_by_index, device_by_uid, hal_devices, storage>>

\* Mutation: the table keeps the uid of the request, not the one it was given.
ConstructAndRegisterRequest(request) ==
    \E index \in DeviceIndices, uid \in Uids :
        LET info == [type |-> request.type, uid |-> request.uid,
                     enabled |-> request.enabled, endpoints |-> request.endpoints]
        IN  /\ AcquireIndex(request.index, index)
            /\ ChooseUid(request.uid, uid)
            /\ device_by_index' = [device_by_index EXCEPT ![index] = info]
            /\ device_by_uid' = [device_by_uid EXCEPT ![uid] = index]
            /\ hal_devices' = hal_devices \cup (IF info.enabled THEN {index} ELSE {})
            /\ SaveDevices(device_by_index')

\* The rest of the constructor opens the transceiver, attaches the endpoints and
\* hands an enabled device to the HAL; then the manager registers the device
\* under both names and saves.
ConstructAndRegister(request) ==
    \E index \in DeviceIndices, uid \in Uids :
        LET info == [type |-> request.type, uid |-> uid,
                     enabled |-> request.enabled, endpoints |-> request.endpoints]
        IN  /\ AcquireIndex(request.index, index)
            /\ ChooseUid(request.uid, uid)
            /\ device_by_index' = [device_by_index EXCEPT ![index] = info]
            /\ device_by_uid' = [device_by_uid EXCEPT ![uid] = index]
            /\ hal_devices' = hal_devices \cup (IF info.enabled THEN {index} ELSE {})
            /\ SaveDevices(device_by_index')

\* Mutation: add_device looks the device up by index only.
NotTakenByIndex(request) ==
    request.index # 0 => device_by_index[request.index] = NoDevice

\* add_device refuses an index or a uid that another device has.
NotTaken(request) ==
    /\ request.index # 0 => device_by_index[request.index] = NoDevice
    /\ request.uid # NoUid => device_by_uid[request.uid] = 0

-----------------------------------------------------------------------------
(* Requests.                                                               *)

Requests == [type : Types, index : Indices, uid : Uids \cup {NoUid},
             enabled : BOOLEAN, endpoints : SUBSET Endpoints]

AddDevice(request) ==
    /\ status = "running"
    /\ NotTaken(request)
    /\ \/ ConstructAndRegister(request)
       \/ "construct" \in Faults /\ FailedConstructor(request)
    /\ UNCHANGED <<status, pending>>

\* A request names a device by index or by uid; it is found in either table.
Selectable ==
    {index \in DeviceIndices : \/ device_by_index[index] # NoDevice
                               \/ \E uid \in Uids : device_by_uid[uid] = index}

\* Mutation: the table is saved before the device is erased from it.
DeleteDeviceAfterSave(index) ==
    /\ status = "running"
    /\ device_by_index' = [device_by_index EXCEPT ![index] = NoDevice]
    /\ device_by_uid' = [device_by_uid EXCEPT ![device_by_index[index].uid] = 0]
    /\ SaveDevices(device_by_index)
    /\ hal_devices' = hal_devices \ {index}
    /\ Release(index)
    /\ UNCHANGED <<status, pending, uids>>

\* Mutation: the destructor does not take the device out of the HAL.
DeleteDeviceStillPublished(index) ==
    /\ status = "running"
    /\ device_by_index' = [device_by_index EXCEPT ![index] = NoDevice]
    /\ device_by_uid' = [device_by_uid EXCEPT ![device_by_index[index].uid] = 0]
    /\ SaveDevices(device_by_index')
    /\ Release(index)
    /\ UNCHANGED <<status, pending, hal_devices, uids>>

\* Both names are erased and the table saved, then the device is destroyed: it
\* leaves the HAL and its index is released.
DeleteDevice(index) ==
    /\ status = "running"
    /\ device_by_index' = [device_by_index EXCEPT ![index] = NoDevice]
    /\ device_by_uid' = [device_by_uid EXCEPT ![device_by_index[index].uid] = 0]
    /\ SaveDevices(device_by_index')
    /\ hal_devices' = hal_devices \ {index}
    /\ Release(index)
    /\ UNCHANGED <<status, pending, uids>>

ToggleDevice(index, enabled) ==
    /\ status = "running"
    /\ device_by_index' = [device_by_index EXCEPT ![index].enabled = enabled]
    /\ hal_devices' = IF enabled THEN hal_devices \cup {index}
                                 ELSE hal_devices \ {index}
    /\ SaveDevices(device_by_index')
    /\ UNCHANGED <<status, pending, device_by_uid, uids, allocator>>

\* bind and connect: the transceiver attaches the endpoint or throws, then it is
\* added to the list and the table saved.  roc takes one endpoint for each slot
\* and interface.
AttachEndpoint(index, endpoint) ==
    /\ status = "running"
    /\ endpoint \notin device_by_index[index].endpoints
    /\ device_by_index' =
            [device_by_index EXCEPT ![index].endpoints = @ \cup {endpoint}]
    /\ SaveDevices(device_by_index')
    /\ UNCHANGED <<status, pending, device_by_uid, hal_devices, uids, allocator>>

\* A sender cannot be bound and a receiver cannot be connected.
BindDevice(index, endpoint) ==
    device_by_index[index].type = "receiver" /\ AttachEndpoint(index, endpoint)

ConnectDevice(index, endpoint) ==
    device_by_index[index].type = "sender" /\ AttachEndpoint(index, endpoint)

-----------------------------------------------------------------------------
(* The life of the driver.                                                 *)

\* OnInitialize constructs the manager, whose constructor reads the whole list.  A
\* list that cannot be read is taken for an empty one.
Initialize ==
    /\ status = "down"
    /\ status' = "loading"
    /\ \/ pending' = storage
       \/ "unreadable" \in Faults /\ pending' = EmptyTable
    /\ UNCHANGED <<device_by_index, device_by_uid, hal_devices, uids, storage,
                   allocator>>

\* Mutation: the endpoints of a stored device are not passed on.
LoadNextWithoutEndpoints ==
    /\ status = "loading"
    /\ Present(pending) # {}
    /\ LET index == Min(Present(pending))
           request == [type |-> pending[index].type, index |-> index,
                       uid |-> pending[index].uid,
                       enabled |-> pending[index].enabled, endpoints |-> {}]
       IN  /\ NotTaken(request)
           /\ ConstructAndRegister(request)
           /\ pending' = [pending EXCEPT ![index] = NoDevice]
    /\ UNCHANGED status

\* Mutation: a device that cannot be constructed is tried again, not skipped.
LoadNextRetrying ==
    /\ status = "loading"
    /\ Present(pending) # {}
    /\ LET index == Min(Present(pending))
           request == [type |-> pending[index].type, index |-> index,
                       uid |-> pending[index].uid,
                       enabled |-> pending[index].enabled,
                       endpoints |-> pending[index].endpoints]
       IN  /\ NotTaken(request)
           /\ \/ /\ ConstructAndRegister(request)
                 /\ pending' = [pending EXCEPT ![index] = NoDevice]
              \/ /\ "load" \in Faults /\ FailedConstructor(request)
                 /\ UNCHANGED pending
    /\ UNCHANGED status

\* load_devices_ adds the devices in the order of the list.  add_device saves
\* the table each time: the stored list is replaced by what is loaded so far.
\* A device that cannot be added is skipped; the list has no two devices with the
\* same name (LoadingIsFresh), so it is never refused, only its constructor fails.
LoadNext ==
    /\ status = "loading"
    /\ Present(pending) # {}
    /\ LET index == Min(Present(pending))
           request == [type |-> pending[index].type, index |-> index,
                       uid |-> pending[index].uid,
                       enabled |-> pending[index].enabled,
                       endpoints |-> pending[index].endpoints]
       IN  /\ NotTaken(request)
           /\ \/ ConstructAndRegister(request)
              \/ "load" \in Faults /\ FailedConstructor(request)
           /\ pending' = [pending EXCEPT ![index] = NoDevice]
    /\ UNCHANGED status

\* The RPC server is started when the list has been loaded.
StartServer ==
    /\ status = "loading"
    /\ Present(pending) = {}
    /\ status' = "running"
    /\ UNCHANGED <<pending, device_by_index, device_by_uid, hal_devices, uids,
                   storage, allocator>>

\* The audio server goes away, whatever the driver is doing; only the storage
\* survives.
Restart ==
    /\ \/ status = "running"
       \/ status = "loading" /\ "early_restart" \in Faults
    /\ status' = "down"
    /\ pending' = EmptyTable
    /\ device_by_index' = EmptyTable
    /\ device_by_uid' = [uid \in Uids |-> 0]
    /\ hal_devices' = {}
    /\ uids' = {}
    /\ Construct
    /\ UNCHANGED storage

Next ==
    \/ \E request \in Requests : AddDevice(request)
    \/ \E index \in Selectable : DeleteDevice(index)
    \/ \E index \in Selectable, enabled \in BOOLEAN : ToggleDevice(index, enabled)
    \/ \E index \in Selectable, endpoint \in Endpoints : BindDevice(index, endpoint)
    \/ \E index \in Selectable, endpoint \in Endpoints : ConnectDevice(index, endpoint)
    \/ Initialize
    \/ LoadNext
    \/ StartServer
    \/ Restart

Spec == Init /\ [][Next]_vars

\* The audio server starts the driver again, and the driver's own thread goes on
\* loading until the server is up.  Nobody is obliged to send requests.
Fairness == WF_vars(Initialize) /\ WF_vars(LoadNext) /\ WF_vars(StartServer)

FairSpec == Spec /\ Fairness

-----------------------------------------------------------------------------
TypeOK ==
    /\ status \in {"down", "loading", "running"}
    /\ pending \in Tables
    /\ device_by_index \in Tables
    /\ device_by_uid \in [Uids -> Indices]
    /\ hal_devices \subseteq DeviceIndices
    /\ uids \subseteq Uids
    /\ storage \in Tables
    /\ AllocatorTypeOK

Live == Present(device_by_index)

\* A device is found by its uid exactly when it is found by its index, and the
\* two lookups reach the same device: no two devices have the same uid.
TablesAgree ==
    \A uid \in Uids, index \in DeviceIndices :
        device_by_uid[uid] = index
            <=> index \in Live /\ device_by_index[index].uid = uid

\* The allocator holds the index of every device, so that it cannot give it to
\* another, and its books are right.
IndicesHeld ==
    /\ Live \subseteq used
    /\ BooksAgree

\* The HAL has exactly the devices that are enabled, through creation, loading,
\* toggling in any order and deletion.
PublishedIfEnabled ==
    hal_devices = {index \in Live : device_by_index[index].enabled}

\* While requests are served the stored list is the table, unless the list could
\* not be read, loaded or written: no operation forgets to save, and none saves
\* too early.
StorageFollows ==
    status = "running" /\ Faults \cap {"load", "save", "unreadable"} = {}
        => storage = device_by_index

\* A device still to be loaded has an index and a uid that nothing loaded so far
\* has taken: neither add_device nor the allocator refuses it, and loading in
\* one life what was saved in another never meets a conflict.
LoadingIsFresh ==
    \A index \in Present(pending) :
        /\ index \notin used
        /\ device_by_uid[pending[index].uid] = 0

\* "device index {} is already in use" (index_allocator.cpp:68) is said of an
\* index that some device uses.
RefusedOnlyIfTaken ==
    used \subseteq Live \cup {0}

\* The driver comes back: after a restart it loads its list to the end and
\* serves, even if stored devices cannot be constructed or the storage fails,
\* unless the audio server keeps restarting it before it has loaded its list.
EventuallyServes ==
    \/ status # "running" ~> status = "running"
    \/ []<><<status = "loading" /\ Restart>>_vars

-----------------------------------------------------------------------------
\* What the driver knows: the list it will load, when it is down; while it loads,
\* what is loaded and what is still to be.
Known ==
    IF status = "down" THEN storage
    ELSE [index \in DeviceIndices |->
            IF index \in Live THEN device_by_index[index] ELSE pending[index]]

Registry ==
    INSTANCE DeviceRegistry WITH Indices <- DeviceIndices, registry <- Known,
                                 serving <- (status = "running")

\* The driver implements the registry: an operation changes the device it names
\* and no other, and a restart, whenever it comes, loses nothing and invents
\* nothing.
ImplementsRegistry == Registry!Spec

\* "All created devices and all their settings are stored persistently.  If you
\* restart audio server or reboot, roc-vad will recreate them" (README.md:408).
RestartsLoseNothing ==
    [][status # "running" \/ status' # "running" => UNCHANGED Known]_vars

=============================================================================
