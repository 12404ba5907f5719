----------------------------- MODULE DeviceConfig -----------------------------
(***************************************************************************)
(* What becomes of the settings of a device: the options of `roc-vad       *)
(* device add` (cmd_device_add_sender.cpp, cmd_device_add_receiver.cpp),   *)
(* the RvDeviceInfo message that the tool or another client sends          *)
(* (driver_protocol.proto), the checks and conversions of rpc_serdes.cpp,  *)
(* the defaults of device_defs.hpp and of the constructor of Device, and   *)
(* the way back into the stored list, from which a restart makes the       *)
(* device again.                                                           *)
(*                                                                         *)
(* One device is followed; DeviceManager has the table.  Numbers and       *)
(* durations that are only handed on are strings: converting one and back  *)
(* gives the same one (a negative packet length becomes a huge unsigned    *)
(* one on the way).  Endpoints are a set: the driver keeps them sorted.    *)
(***************************************************************************)
EXTENDS Integers, Sequences

CONSTANTS
    Unset,              \* an optional field or option that is not there
    SampleFormats,      \* the names in sample_format_map
    NoDevice,           \* the absence of the device
    TicksPerSecond,     \* the unit of buffer lengths
    Indices,            \* what the index allocator may give
    GeneratedUids,      \* what the uid generator may give
    Commands,           \* options of `device add`, see Options
    Requests,           \* messages of other clients, see Messages
    NewEndpoints        \* what clients bind and connect, see EndpointMessages

-----------------------------------------------------------------------------
(* The messages of the protocol.                                           *)

Types == {"sender", "receiver"}
Layouts == {"mono", "stereo", "multitrack"}
Interfaces == {"consolidated", "audiosrc", "audiorpr", "audioctl"}
TrackCounts == 1..1024

\* Settings with a table of their values in enum_map.cpp.
Enums == [
    fec_encoding          |-> {"disable", "default", "rs8m", "ldpc"},
    latency_tuner_backend |-> {"default", "niq"},
    latency_tuner_profile |->
        {"default", "intact", "responsive", "gradual", "second-order"},
    resampler_backend     |-> {"default", "builtin", "speex", "speexdec"},
    resampler_profile     |-> {"default", "high", "medium", "low"}]

CommonSettings ==
    {"max_packet_size", "target_latency", "latency_tolerance", "latency_tuner_backend",
     "latency_tuner_profile", "resampler_backend", "resampler_profile"}

SettingsOf(type) ==
    IF type = "sender"
    THEN CommonSettings \cup {"packet_length", "fec_encoding",
                              "fec_block_source_packets", "fec_block_repair_packets"}
    ELSE CommonSettings \cup {"no_playback_timeout", "choppy_playback_timeout"}

Settings == SettingsOf("sender") \cup SettingsOf("receiver")

\* protobuf passes on the numbers of enum values that a table does not have.
Unmapped == {"unmapped"}

Optional(values) == {Unset} \cup values

PacketEncodingMessages ==
    [id : Nat, rate : Nat, format : SampleFormats \cup Unmapped,
     layout : Layouts \cup Unmapped, tracks : Optional(Nat)]

EndpointMessages ==
    [slot : Optional(Nat), interface : Interfaces \cup Unmapped, uri : STRING]

\* config says which member of the oneof NetworkConfig there is: without one there is
\* no place for its fields.  A sender has one packet encoding at most.
Messages ==
    {in \in [type : Types \cup Unmapped, index : Optional(Nat), uid : Optional(STRING),
             name : Optional(STRING), enabled : Optional(BOOLEAN), rate : Optional(Nat),
             layout : Optional(Layouts \cup Unmapped), tracks : Optional(Nat),
             buffer : Optional(Int), config : Optional(Types),
             packet_encodings : Seq(PacketEncodingMessages),
             settings : [Settings -> Optional(STRING)],
             local_endpoints : SUBSET EndpointMessages,
             remote_endpoints : SUBSET EndpointMessages] :
        in.config = Unset =>
            in.packet_encodings = <<>> /\ \A s \in Settings : in.settings[s] = Unset}

-----------------------------------------------------------------------------
(* What the driver keeps.                                                  *)

PacketEncodings ==
    [id : 1..254, rate : Nat \ {0}, format : SampleFormats, layout : Layouts,
     tracks : {0} \cup TrackCounts]

EndpointInfos == [slot : Nat, interface : Interfaces, uri : STRING \ {""}]

Infos ==
    [type : Types, index : Nat, uid : STRING, name : STRING, enabled : BOOLEAN,
     rate : Nat \ {0}, layout : Layouts, channels : Nat, buffer : Int, samples : Nat,
     packet_encodings : Seq(PacketEncodings),
     settings : [SettingsOf("sender") -> STRING] \cup [SettingsOf("receiver") -> STRING],
     local_endpoints : SUBSET EndpointInfos, remote_endpoints : SUBSET EndpointInfos]

ASSUME ConfigAssumption ==
    /\ Unset \notin Nat /\ Unset \notin Int /\ Unset \notin STRING /\ Unset \notin BOOLEAN
    /\ NoDevice \notin Infos /\ NoDevice \notin Messages
    /\ "s16" \in SampleFormats /\ SampleFormats \subseteq STRING \ Unmapped
    /\ TicksPerSecond \in Nat \ {0}
    /\ Indices \subseteq Nat \ {0} /\ GeneratedUids \subseteq STRING \ {""}
    /\ Requests \subseteq Messages /\ NewEndpoints \subseteq EndpointMessages

\* What the provers are not told of literals.
ASSUME StringAssumption ==
    /\ Types \cup Layouts \cup Interfaces \cup Unmapped \subseteq STRING
    /\ \A s \in DOMAIN Enums : Enums[s] \subseteq STRING
    /\ {"", "0", "Roc Virtual Device"} \subseteq STRING

VARIABLES
    device,             \* Device::info_, or NoDevice
    stored              \* its entry in the stored list, or NoDevice

vars == <<device, stored>>

-----------------------------------------------------------------------------
(* device_info_from_rpc.                                                   *)

\* The value of an optional field.
OrElse(field, default) == IF field = Unset THEN default ELSE field

Default(setting) ==
    CASE setting = "fec_encoding" -> "rs8m"
      [] setting \in DOMAIN Enums \ {"fec_encoding"} -> "default"
      [] OTHER -> "0"

\* 60 ms
DefaultBuffer == (60 * TicksPerSecond) \div 1000

\* multitrack goes with a number of tracks, the other layouts with none.
TracksFit(layout, tracks) ==
    IF layout = "multitrack" THEN tracks \in TrackCounts ELSE tracks = Unset

PacketEncodingAccepted(in) ==
    /\ in.id \in 1..254
    /\ in.rate # 0
    /\ in.format \in SampleFormats
    /\ in.layout \in Layouts
    /\ TracksFit(in.layout, in.tracks)

PacketEncodingFromRpc(in) ==
    [id |-> in.id, rate |-> in.rate, format |-> in.format, layout |-> in.layout,
     tracks |-> OrElse(in.tracks, 0)]

EndpointAccepted(in) == in.interface \in Interfaces /\ in.uri # ""

EndpointFromRpc(in) ==
    [slot |-> OrElse(in.slot, 0), interface |-> in.interface, uri |-> in.uri]

\* Mutation: the number of tracks is not checked.
AcceptedAnyTracks(in) ==
    /\ in.type \in Types /\ in.config \in {Unset, in.type}
    /\ in.index # 0 /\ in.uid # "" /\ in.name # ""
    /\ OrElse(in.layout, "stereo") \in Layouts
    /\ in.config # Unset =>
        /\ \A i \in DOMAIN in.packet_encodings :
             PacketEncodingAccepted(in.packet_encodings[i])
        /\ \A s \in SettingsOf(in.type) \cap DOMAIN Enums :
             in.settings[s] \in Optional(Enums[s])
    /\ \A e \in in.local_endpoints \cup in.remote_endpoints : EndpointAccepted(e)

\* Without one of these device_info_from_rpc throws.
Accepted(in) ==
    /\ in.type \in Types
    /\ in.config \in {Unset, in.type}
    /\ in.index # 0 /\ in.uid # "" /\ in.name # ""
    /\ OrElse(in.layout, "stereo") \in Layouts
    /\ TracksFit(OrElse(in.layout, "stereo"), in.tracks)
    /\ in.config # Unset =>
        /\ \A i \in DOMAIN in.packet_encodings :
             PacketEncodingAccepted(in.packet_encodings[i])
        /\ \A s \in SettingsOf(in.type) \cap DOMAIN Enums :
             in.settings[s] \in Optional(Enums[s])
    /\ \A e \in in.local_endpoints \cup in.remote_endpoints : EndpointAccepted(e)

\* A rate of zero counts as none.
RateFromRpc(in) == IF in.rate \in {Unset, 0} THEN 44100 ELSE in.rate

SettingsFromRpc(in) ==
    [s \in SettingsOf(in.type) |-> OrElse(in.settings[s], Default(s))]

\* What the message leaves open keeps the default of device_defs.hpp.  The number
\* of channels and of samples is left to the constructor, tracks aside.
InfoFromRpc(in) ==
    [type |-> in.type,
     index |-> OrElse(in.index, 0), uid |-> OrElse(in.uid, ""),
     name |-> OrElse(in.name, ""), enabled |-> OrElse(in.enabled, TRUE),
     rate |-> RateFromRpc(in),
     layout |-> OrElse(in.layout, "stereo"), channels |-> OrElse(in.tracks, 0),
     buffer |-> OrElse(in.buffer, DefaultBuffer), samples |-> 0,
     packet_encodings |-> [i \in DOMAIN in.packet_encodings |->
                             PacketEncodingFromRpc(in.packet_encodings[i])],
     settings |-> SettingsFromRpc(in),
     local_endpoints |-> {EndpointFromRpc(e) : e \in in.local_endpoints},
     remote_endpoints |-> {EndpointFromRpc(e) : e \in in.remote_endpoints}]

-----------------------------------------------------------------------------
(* device_info_to_rpc.                                                     *)

\* Mutation: a number of tracks is always sent.
TracksToRpcAlways(layout, tracks) == tracks

TracksToRpc(layout, tracks) == IF layout = "multitrack" THEN tracks ELSE Unset

SettingsToRpc(out) ==
    [s \in Settings |-> IF s \in SettingsOf(out.type) THEN out.settings[s] ELSE Unset]

PacketEncodingToRpc(out) ==
    [id |-> out.id, rate |-> out.rate, format |-> out.format, layout |-> out.layout,
     tracks |-> TracksToRpc(out.layout, out.tracks)]

EndpointToRpc(out) == [slot |-> out.slot, interface |-> out.interface, uri |-> out.uri]

\* The number of samples is not sent, that of channels for multitrack only.
InfoToRpc(out) ==
    [type |-> out.type, index |-> out.index, uid |-> out.uid, name |-> out.name,
     enabled |-> out.enabled, rate |-> out.rate, layout |-> out.layout,
     tracks |-> TracksToRpc(out.layout, out.channels),
     buffer |-> out.buffer, config |-> out.type,
     packet_encodings |-> [i \in DOMAIN out.packet_encodings |->
                             PacketEncodingToRpc(out.packet_encodings[i])],
     settings |-> SettingsToRpc(out),
     local_endpoints |-> {EndpointToRpc(e) : e \in out.local_endpoints},
     remote_endpoints |-> {EndpointToRpc(e) : e \in out.remote_endpoints}]

-----------------------------------------------------------------------------
(* The device.                                                             *)

\* round(buffer_length_ns / 1e9 * sample_rate)
BufferSamples(buffer, rate) ==
    (2 * buffer * rate + TicksPerSecond) \div (2 * TicksPerSecond)

ChannelCount(layout, tracks) ==
    CASE layout = "mono" -> 1
      [] layout = "stereo" -> 2
      [] layout = "multitrack" -> tracks

GeneratedName == "Roc Virtual Device"

\* roc has one endpoint of each interface in a slot.  A sender does not bind and a
\* receiver does not connect.
EndpointsUsable(info) ==
    /\ IF info.type = "sender" THEN info.local_endpoints = {}
                               ELSE info.remote_endpoints = {}
    /\ \A e1, e2 \in info.local_endpoints \cup info.remote_endpoints :
         e1.slot = e2.slot /\ e1.interface = e2.interface => e1 = e2

\* The constructor throws, whatever the environment does.
NotConstructible(info) == info.buffer <= 0 \/ ~EndpointsUsable(info)

\* The constructor of Device fills in what is still open.
Filled(value, open, given) == IF value = open THEN given ELSE value

Construct(info, index, uid) ==
    [info EXCEPT !.index = Filled(@, 0, index),
                 !.uid = Filled(@, "", uid),
                 !.name = Filled(@, "", GeneratedName),
                 !.channels = ChannelCount(info.layout, @),
                 !.samples = BufferSamples(info.buffer, info.rate)]

SaveDevice == stored' = IF device' = NoDevice THEN NoDevice ELSE InfoToRpc(device')

-----------------------------------------------------------------------------
(* The tool.                                                               *)

\* The options of `device add sender` and `device add receiver`.  Those that are
\* parsed (names of values, durations) may be Malformed.
Malformed == "malformed"

Options ==
    [type : Types, uid : Optional(STRING), name : Optional(STRING),
     disabled : Optional(BOOLEAN), rate : Optional(Nat), layout : Optional(STRING),
     tracks : Optional(Nat), buffer : Optional(Int),
     packet_id : Optional(Nat), packet_rate : Optional(Nat),
     packet_format : Optional(STRING), packet_layout : Optional(STRING),
     packet_tracks : Optional(Nat), settings : [Settings -> Optional(STRING)]]

ASSUME CommandsAssumption == Commands \subseteq Options

\* Whether some option asks for a packet encoding.
WithPacketEncoding(o) ==
    \/ o.packet_id # Unset \/ o.packet_rate # Unset
    \/ o.packet_format # Unset \/ o.packet_layout # Unset \/ o.packet_tracks # Unset

ParsesTo(option, values) == option \in Optional(values)

\* Without one of these the tool sends nothing.
CommandAccepted(o) ==
    /\ ParsesTo(o.layout, Layouts)
    /\ (o.layout = "multitrack") <=> (o.tracks # Unset)
    /\ ParsesTo(o.packet_format, SampleFormats)
    /\ ParsesTo(o.packet_layout, Layouts)
    /\ (o.packet_layout = "multitrack") <=> (o.packet_tracks # Unset)
    /\ \A s \in SettingsOf(o.type) :
         IF s \in DOMAIN Enums THEN ParsesTo(o.settings[s], Enums[s])
                               ELSE o.settings[s] # Malformed

\* Mutation: a packet size is sent together with a packet encoding only.
ToolSettingsWithEncoding(o) ==
    [s \in Settings |->
        IF \/ s \notin SettingsOf(o.type)
           \/ s = "max_packet_size" /\ ~WithPacketEncoding(o)
        THEN Unset ELSE o.settings[s]]

\* The receiver's packet size is only looked at when there is an option for the
\* packet encoding as well.
ToolSettings(o) ==
    [s \in Settings |->
        IF \/ s \notin SettingsOf(o.type)
           \/ s = "max_packet_size" /\ o.type = "receiver" /\ ~WithPacketEncoding(o)
        THEN Unset ELSE o.settings[s]]

\* The fields of a packet encoding are not optional: what is not given is zero,
\* which is s16 and mono.
ToolPacketEncodings(o) ==
    IF ~WithPacketEncoding(o) THEN <<>>
    ELSE <<[id |-> OrElse(o.packet_id, 0), rate |-> OrElse(o.packet_rate, 0),
            format |-> OrElse(o.packet_format, "s16"),
            layout |-> OrElse(o.packet_layout, "mono"), tracks |-> o.packet_tracks]>>

ToolRequest(o) ==
    [type |-> o.type, index |-> Unset, uid |-> o.uid, name |-> o.name,
     enabled |-> IF o.disabled = Unset THEN Unset ELSE ~o.disabled,
     rate |-> o.rate, layout |-> o.layout, tracks |-> o.tracks, buffer |-> o.buffer,
     config |-> IF \/ WithPacketEncoding(o)
                   \/ \E s \in Settings : ToolSettings(o)[s] # Unset
                THEN o.type ELSE Unset,
     packet_encodings |-> ToolPacketEncodings(o), settings |-> ToolSettings(o),
     local_endpoints |-> {}, remote_endpoints |-> {}]

-----------------------------------------------------------------------------
Init == device = NoDevice /\ stored = NoDevice

\* add_device.  A refused request changes nothing.
CreateDevice(in) ==
    /\ device = NoDevice
    /\ Accepted(in)
    /\ ~NotConstructible(InfoFromRpc(in))
    /\ \E index \in Indices, uid \in GeneratedUids :
         device' = Construct(InfoFromRpc(in), index, uid)
    /\ SaveDevice

AddByTool(o) == CommandAccepted(o) /\ CreateDevice(ToolRequest(o))

Toggle(enabled) ==
    /\ device # NoDevice
    /\ device' = [device EXCEPT !.enabled = enabled]
    /\ SaveDevice

\* bind for a receiver, connect for a sender; roc refuses an interface of a slot
\* that has its endpoint.
Attach(in) ==
    /\ device # NoDevice
    /\ EndpointAccepted(in)
    /\ LET endpoint == EndpointFromRpc(in)
       IN  /\ endpoint \notin device.remote_endpoints \cup device.local_endpoints
           /\ IF device.type = "sender"
              THEN device' = [device EXCEPT !.remote_endpoints = @ \cup {endpoint}]
              ELSE device' = [device EXCEPT !.local_endpoints = @ \cup {endpoint}]
    /\ EndpointsUsable(device')
    /\ SaveDevice

Delete ==
    /\ device # NoDevice
    /\ device' = NoDevice
    /\ SaveDevice

\* The driver is restarted.  A list that device_list_from_rpc rejects counts as
\* empty, a device whose constructor throws is skipped.
Restart ==
    IF stored # NoDevice /\ Accepted(stored) /\ ~NotConstructible(InfoFromRpc(stored))
    THEN /\ \E index \in Indices, uid \in GeneratedUids :
              device' = Construct(InfoFromRpc(stored), index, uid)
         /\ SaveDevice
    ELSE device' = NoDevice /\ UNCHANGED stored

Next ==
    \/ \E o \in Commands : AddByTool(o)
    \/ \E in \in Requests : CreateDevice(in)
    \/ \E enabled \in BOOLEAN : Toggle(enabled)
    \/ \E in \in NewEndpoints : Attach(in)
    \/ Delete
    \/ Restart

Spec == Init /\ [][Next]_vars

-----------------------------------------------------------------------------
\* "When retrieving device info, always present" (driver_protocol.proto:98-124):
\* what is answered and stored leaves nothing to a default, which may be another in
\* the version that reads it.
Answers ==
    {out \in Messages :
        /\ out.index \notin {Unset, 0} /\ out.uid \notin {Unset, ""}
        /\ out.name \notin {Unset, ""}
        /\ Unset \notin {out.enabled, out.rate, out.layout, out.buffer}
        /\ out.config = out.type
        /\ \A s \in SettingsOf(out.type) : out.settings[s] # Unset
        /\ \A e \in out.local_endpoints \cup out.remote_endpoints : e.slot # Unset}

\* Whatever a client asks for, a device is one the rest of the driver can work
\* with: it has an identity, at least one channel and the settings of its type,
\* all with values that roc knows.
TypeOK ==
    /\ device = NoDevice \/
        /\ device \in Infos
        /\ device.index # 0 /\ device.uid # "" /\ device.name # ""
        /\ device.channels \in TrackCounts /\ device.buffer > 0
        /\ DOMAIN device.settings = SettingsOf(device.type)
        /\ \A s \in SettingsOf(device.type) \cap DOMAIN Enums :
             device.settings[s] \in Enums[s]
        /\ EndpointsUsable(device)
    /\ stored \in Answers \cup {NoDevice}

\* "All created devices and all their settings (including bound and connected
\* endpoints) are stored persistently" (README.md:408): what device_info_to_rpc
\* writes passes the checks of device_info_from_rpc, and every field comes back,
\* those the message leaves to be computed included.  (What becomes of a device
\* whose restart fails for another reason is in DeviceManager.)
RestartKeepsDevice == [][Restart => device' = device]_vars

\* A field has what its option says, or the default.
Has(field, option, default) == field = OrElse(option, default)

EncodingTakesEffect(o, encoding) ==
    /\ encoding.id = o.packet_id /\ encoding.rate = o.packet_rate
    /\ Has(encoding.format, o.packet_format, "s16")
    /\ Has(encoding.layout, o.packet_layout, "mono")
    /\ Has(encoding.tracks, o.packet_tracks, 0)

TakesEffect(o, made) ==
    /\ made.type = o.type
    /\ o.uid # Unset => made.uid = o.uid
    /\ o.name # Unset => made.name = o.name
    /\ (made.enabled = FALSE) <=> (o.disabled = TRUE)
    /\ o.rate # 0 => Has(made.rate, o.rate, 44100)
    /\ Has(made.layout, o.layout, "stereo")
    /\ o.layout = "multitrack" => made.channels = o.tracks
    /\ Has(made.buffer, o.buffer, DefaultBuffer)
    /\ Len(made.packet_encodings) = IF WithPacketEncoding(o) THEN 1 ELSE 0
    /\ WithPacketEncoding(o) => EncodingTakesEffect(o, made.packet_encodings[1])
    /\ \A s \in SettingsOf(o.type) :
          \/ Has(made.settings[s], o.settings[s], Default(s))
          \/ s = "max_packet_size" /\ o.type = "receiver" /\ ~WithPacketEncoding(o)

\* The device that `roc-vad device add` makes has each option that was given, in
\* the field it was given for, and the default elsewhere ("Sender options" and
\* "Receiver options" in README.md).  The exception is the code's: it forgets
\* --max-packet-size of a receiver without an option for the packet encoding.
OptionsTakeEffect ==
    [][ device = NoDevice =>
          \A o \in Commands : AddByTool(o) => TakesEffect(o, device') ]_vars
=============================================================================
