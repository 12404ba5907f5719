------------------------- MODULE DeviceConfigProofs -------------------------
(* What is stored of a device makes the same device again, for all settings,   *)
(* endpoints and packet encodings.                                             *)
EXTENDS DeviceConfig, SequenceTheorems, TLAPS

\* A packet encoding has a number of tracks exactly if its layout needs one.
EncodingWellFormed(encoding) ==
    /\ encoding \in PacketEncodings
    /\ IF encoding.layout = "multitrack" THEN encoding.tracks \in TrackCounts
                                         ELSE encoding.tracks = 0

\* A device that the constructor has made: what it has computed fits what it was
\* computed from.
Usable(info) ==
    /\ info \in Infos
    /\ info.index # 0 /\ info.uid # "" /\ info.name # ""
    /\ info.channels \in TrackCounts
    /\ info.channels = ChannelCount(info.layout, info.channels)
    /\ info.buffer > 0 /\ info.samples = BufferSamples(info.buffer, info.rate)
    /\ info.settings \in [SettingsOf(info.type) -> STRING]
    /\ \A s \in SettingsOf(info.type) \cap DOMAIN Enums : info.settings[s] \in Enums[s]
    /\ \A i \in DOMAIN info.packet_encodings : EncodingWellFormed(info.packet_encodings[i])
    /\ EndpointsUsable(info)

\* The inductive invariant.
ConfigInv ==
    IF device = NoDevice THEN stored = NoDevice
    ELSE Usable(device) /\ stored = InfoToRpc(device)

-----------------------------------------------------------------------------
(* There and back.                                                         *)

LEMMA Sentinels ==
    /\ Unset \notin Nat /\ Unset \notin Int /\ Unset \notin STRING /\ Unset \notin BOOLEAN
    /\ NoDevice \notin Infos /\ NoDevice \notin Messages
  BY ConfigAssumption

\* A field that has a value is not unset.
LEMMA ValuesAreSet ==
    /\ Unset \notin Types /\ Unset \notin Layouts /\ Unset \notin Interfaces
    /\ Unset # 0 /\ Unset # ""
<1>1. Types \subseteq STRING /\ Layouts \subseteq STRING /\ Interfaces \subseteq STRING
  BY StringAssumption
<1>2. "" \in STRING
  BY StringAssumption
<1>3. Unset # 0
  BY Sentinels
<1>4. Unset # ""
  BY <1>2, Sentinels
<1> QED
  BY <1>1, <1>3, <1>4, Sentinels

LEMMA EndpointComesBack ==
    ASSUME NEW endpoint \in EndpointInfos
    PROVE  /\ EndpointAccepted(EndpointToRpc(endpoint))
           /\ EndpointFromRpc(EndpointToRpc(endpoint)) = endpoint
           /\ EndpointToRpc(endpoint) \in EndpointMessages
           /\ EndpointToRpc(endpoint).slot # Unset
<1>1. endpoint.slot \in Nat /\ endpoint.slot # Unset
  BY Sentinels DEF EndpointInfos
<1>2. endpoint.interface \in Interfaces /\ endpoint.uri \in STRING /\ endpoint.uri # ""
  BY DEF EndpointInfos
<1>3. endpoint = [slot |-> endpoint.slot, interface |-> endpoint.interface,
                  uri |-> endpoint.uri]
  BY DEF EndpointInfos
<1> QED
  BY <1>1, <1>2, <1>3
     DEF EndpointAccepted, EndpointFromRpc, EndpointToRpc, EndpointMessages, OrElse, Optional

LEMMA EndpointsComeBack ==
    ASSUME NEW endpoints \in SUBSET EndpointInfos
    PROVE  /\ {EndpointFromRpc(e) : e \in {EndpointToRpc(f) : f \in endpoints}} = endpoints
           /\ {EndpointToRpc(f) : f \in endpoints} \subseteq EndpointMessages
           /\ \A e \in {EndpointToRpc(f) : f \in endpoints} :
                EndpointAccepted(e) /\ e.slot # Unset
<1>1. \A f \in endpoints : /\ EndpointAccepted(EndpointToRpc(f))
                           /\ EndpointFromRpc(EndpointToRpc(f)) = f
                           /\ EndpointToRpc(f) \in EndpointMessages
                           /\ EndpointToRpc(f).slot # Unset
  BY EndpointComesBack
<1> QED
  BY <1>1

LEMMA EncodingComesBack ==
    ASSUME NEW encoding, EncodingWellFormed(encoding)
    PROVE  /\ PacketEncodingAccepted(PacketEncodingToRpc(encoding))
           /\ PacketEncodingFromRpc(PacketEncodingToRpc(encoding)) = encoding
           /\ PacketEncodingToRpc(encoding) \in PacketEncodingMessages
<1>1. /\ encoding.id \in 1..254 /\ encoding.rate \in Nat \ {0}
      /\ encoding.format \in SampleFormats /\ encoding.layout \in Layouts
      /\ encoding.tracks \in {0} \cup TrackCounts
      /\ encoding.layout = "multitrack" => encoding.tracks \in TrackCounts
      /\ encoding.layout # "multitrack" => encoding.tracks = 0
  BY DEF EncodingWellFormed, PacketEncodings
<1>2. encoding = [id |-> encoding.id, rate |-> encoding.rate, format |-> encoding.format,
                  layout |-> encoding.layout, tracks |-> encoding.tracks]
  BY DEF EncodingWellFormed, PacketEncodings
<1>3. encoding.tracks \in Nat /\ encoding.tracks # Unset
  BY <1>1, Sentinels DEF TrackCounts
<1>4. PacketEncodingAccepted(PacketEncodingToRpc(encoding))
  BY <1>1, <1>3 DEF PacketEncodingAccepted, PacketEncodingToRpc, TracksToRpc, TracksFit
<1>5. OrElse(TracksToRpc(encoding.layout, encoding.tracks), 0) = encoding.tracks
  BY <1>1, <1>3 DEF OrElse, TracksToRpc
<1>6. PacketEncodingFromRpc(PacketEncodingToRpc(encoding)) = encoding
  BY <1>2, <1>5 DEF PacketEncodingFromRpc, PacketEncodingToRpc
<1>7. TracksToRpc(encoding.layout, encoding.tracks) \in Optional(Nat)
  BY <1>3 DEF TracksToRpc, Optional
<1> QED
  BY <1>1, <1>4, <1>6, <1>7 DEF PacketEncodingToRpc, PacketEncodingMessages

\* The settings of a device's type, with the defaults of nobody.
LEMMA SettingsComeBack ==
    ASSUME NEW info, Usable(info)
    PROVE  /\ SettingsFromRpc(InfoToRpc(info)) = info.settings
           /\ \A s \in SettingsOf(info.type) : InfoToRpc(info).settings[s] = info.settings[s]
           /\ InfoToRpc(info).settings \in [Settings -> Optional(STRING)]
<1>1. info.type \in Types /\ info.settings \in [SettingsOf(info.type) -> STRING]
  BY DEF Usable, Infos
<1>2. SettingsOf(info.type) \subseteq Settings
  BY <1>1 DEF Settings, Types
<1>3. InfoToRpc(info).settings = SettingsToRpc(info) /\ InfoToRpc(info).type = info.type
  BY DEF InfoToRpc
<1>4. \A s \in SettingsOf(info.type) : SettingsToRpc(info)[s] = info.settings[s]
  BY <1>2 DEF SettingsToRpc
<1>5. \A s \in SettingsOf(info.type) : OrElse(info.settings[s], Default(s)) = info.settings[s]
  BY <1>1, Sentinels DEF OrElse
<1>6. SettingsFromRpc(InfoToRpc(info)) = info.settings
  BY <1>1, <1>3, <1>4, <1>5 DEF SettingsFromRpc
<1>7. SettingsToRpc(info) \in [Settings -> Optional(STRING)]
  BY <1>1 DEF SettingsToRpc, Optional
<1> QED
  BY <1>3, <1>4, <1>6, <1>7

LEMMA TracksComeBack ==
    ASSUME NEW info, Usable(info)
    PROVE  LET tracks == TracksToRpc(info.layout, info.channels)
           IN  /\ TracksFit(info.layout, tracks)
               /\ tracks \in Optional(Nat)
               /\ ChannelCount(info.layout, OrElse(tracks, 0)) = info.channels
<1>1. /\ info.layout \in Layouts /\ info.channels \in TrackCounts
      /\ info.channels \in Nat /\ info.channels # Unset
      /\ info.channels = ChannelCount(info.layout, info.channels)
  <2>1. /\ info \in Infos /\ info.channels \in TrackCounts
        /\ info.channels = ChannelCount(info.layout, info.channels)
    BY DEF Usable
  <2>2. info.layout \in Layouts
    BY <2>1 DEF Infos
  <2>3. info.channels \in Nat
    BY <2>1 DEF TrackCounts
  <2> QED
    BY <2>1, <2>2, <2>3, Sentinels
<1>2. CASE info.layout = "multitrack"
  BY <1>1, <1>2 DEF TracksToRpc, TracksFit, Optional, OrElse
<1>3. CASE info.layout # "multitrack"
  <2>1. TracksToRpc(info.layout, info.channels) = Unset
    BY <1>3 DEF TracksToRpc
  <2>2. ChannelCount(info.layout, 0) = info.channels
    BY <1>1, <1>3 DEF Layouts, ChannelCount
  <2> QED
    BY <1>3, <2>1, <2>2 DEF TracksFit, Optional, OrElse
<1> QED
  BY <1>2, <1>3

\* device_info_from_rpc takes what device_info_to_rpc writes.
LEMMA AnswerAccepted ==
    ASSUME NEW info, Usable(info)
    PROVE  Accepted(InfoToRpc(info))
<1> DEFINE out == InfoToRpc(info)
<1>1. /\ info.type \in Types /\ info.layout \in Layouts
      /\ info.index # 0 /\ info.uid # "" /\ info.name # ""
      /\ info.local_endpoints \in SUBSET EndpointInfos
      /\ info.remote_endpoints \in SUBSET EndpointInfos
  BY DEF Usable, Infos
<1>2. /\ out.type = info.type /\ out.config = info.type /\ out.layout = info.layout
      /\ out.index = info.index /\ out.uid = info.uid /\ out.name = info.name
      /\ out.tracks = TracksToRpc(info.layout, info.channels)
      /\ out.packet_encodings = [i \in DOMAIN info.packet_encodings |->
                                   PacketEncodingToRpc(info.packet_encodings[i])]
      /\ out.local_endpoints = {EndpointToRpc(e) : e \in info.local_endpoints}
      /\ out.remote_endpoints = {EndpointToRpc(e) : e \in info.remote_endpoints}
  BY DEF InfoToRpc
<1>3. OrElse(out.layout, "stereo") = info.layout
  BY <1>1, <1>2, ValuesAreSet DEF OrElse
<1>4. TracksFit(OrElse(out.layout, "stereo"), out.tracks)
  BY <1>2, <1>3, TracksComeBack
<1>5. \A i \in DOMAIN out.packet_encodings : PacketEncodingAccepted(out.packet_encodings[i])
  <2>1. \A i \in DOMAIN info.packet_encodings : EncodingWellFormed(info.packet_encodings[i])
    BY DEF Usable
  <2>2. \A i \in DOMAIN info.packet_encodings :
          PacketEncodingAccepted(PacketEncodingToRpc(info.packet_encodings[i]))
    BY <2>1, EncodingComesBack
  <2>3. out.packet_encodings = [i \in DOMAIN info.packet_encodings |->
                                  PacketEncodingToRpc(info.packet_encodings[i])]
    BY <1>2
  <2> HIDE DEF out
  <2> QED
    BY <2>2, <2>3
<1>6. \A s \in SettingsOf(out.type) \cap DOMAIN Enums :
        out.settings[s] \in Optional(Enums[s])
  <2>1. \A s \in SettingsOf(info.type) : out.settings[s] = info.settings[s]
    BY SettingsComeBack
  <2>2. \A s \in SettingsOf(info.type) \cap DOMAIN Enums : info.settings[s] \in Enums[s]
    BY DEF Usable
  <2>3. out.type = info.type
    BY <1>2
  <2> HIDE DEF out
  <2> QED
    BY <2>1, <2>2, <2>3 DEF Optional
<1>7. \A e \in out.local_endpoints \cup out.remote_endpoints : EndpointAccepted(e)
  <2>1. \A e \in out.local_endpoints : EndpointAccepted(e)
    BY <1>1, <1>2, EndpointsComeBack
  <2>2. \A e \in out.remote_endpoints : EndpointAccepted(e)
    BY <1>1, <1>2, EndpointsComeBack
  <2> QED
    BY <2>1, <2>2
<1> HIDE DEF out
<1>8. Accepted(out)
  BY <1>1, <1>2, <1>3, <1>4, <1>5, <1>6, <1>7 DEF Accepted
<1> QED
  BY <1>8 DEF out

\* The fields of a device, and those that the constructor fills in.
Fields == {"type", "index", "uid", "name", "enabled", "rate", "layout", "channels",
           "buffer", "samples", "packet_encodings", "settings", "local_endpoints",
           "remote_endpoints"}
FilledIn == {"index", "uid", "name", "channels", "samples"}

\* Two devices that differ at most in what the constructor fills in.
SameRequest(from, to) ==
    /\ from = [f \in Fields |-> from[f]] /\ to = [f \in Fields |-> to[f]]
    /\ \A f \in Fields \ FilledIn : from[f] = to[f]

FilledFrom(from, to) ==
    [from EXCEPT !.index = to.index, !.uid = to.uid, !.name = to.name,
                 !.channels = to.channels, !.samples = to.samples]

LEMMA FieldsOverwritten ==
    ASSUME NEW from, NEW to, SameRequest(from, to)
    PROVE  FilledFrom(from, to) = to
<1>1. FilledIn \subseteq Fields
  BY DEF Fields, FilledIn
<1>2. FilledFrom(from, to) = [f \in Fields |-> FilledFrom(from, to)[f]]
  BY DEF SameRequest, FilledFrom
<1>3. \A f \in Fields : FilledFrom(from, to)[f] = to[f]
  BY <1>1 DEF SameRequest, FilledFrom, FilledIn
<1> QED
  BY <1>2, <1>3 DEF SameRequest

\* The constructor's result, field by field.
Made(info, index, uid) ==
    [type |-> info.type,
     index |-> Filled(info.index, 0, index),
     uid |-> Filled(info.uid, "", uid),
     name |-> Filled(info.name, "", GeneratedName),
     enabled |-> info.enabled, rate |-> info.rate, layout |-> info.layout,
     channels |-> ChannelCount(info.layout, info.channels),
     buffer |-> info.buffer, samples |-> BufferSamples(info.buffer, info.rate),
     packet_encodings |-> info.packet_encodings, settings |-> info.settings,
     local_endpoints |-> info.local_endpoints, remote_endpoints |-> info.remote_endpoints]

LEMMA ConstructedFields ==
    ASSUME NEW in, NEW index, NEW uid
    PROVE  LET info == InfoFromRpc(in)
           IN  Construct(info, index, uid) = Made(info, index, uid)
<1> DEFINE info == InfoFromRpc(in)
           made == Made(info, index, uid)
<1>1. info = [f \in Fields |-> info[f]]
  BY DEF InfoFromRpc, Fields
<1> HIDE DEF info
<1>2. made = [f \in Fields |-> made[f]]
  BY DEF Made, Fields
<1>3. /\ made.index = Filled(info.index, 0, index)
      /\ made.uid = Filled(info.uid, "", uid)
      /\ made.name = Filled(info.name, "", GeneratedName)
      /\ made.channels = ChannelCount(info.layout, info.channels)
      /\ made.samples = BufferSamples(info.buffer, info.rate)
  BY DEF Made
<1>4. /\ made.type = info.type /\ made.enabled = info.enabled /\ made.rate = info.rate
      /\ made.layout = info.layout /\ made.buffer = info.buffer
      /\ made.packet_encodings = info.packet_encodings
      /\ made.settings = info.settings
      /\ made.local_endpoints = info.local_endpoints
      /\ made.remote_endpoints = info.remote_endpoints
  BY DEF Made
<1> HIDE DEF made
<1>5. \A f \in Fields \ FilledIn : info[f] = made[f]
  BY <1>4 DEF Fields, FilledIn
<1>6. FilledFrom(info, made) = made
  BY <1>1, <1>2, <1>5, FieldsOverwritten DEF SameRequest
<1>7. Construct(info, index, uid) = FilledFrom(info, made)
  BY <1>3 DEF Construct, FilledFrom
<1> QED
  BY <1>6, <1>7 DEF made, info

\* The device that the constructor makes of what was stored is the one that was
\* there, and it has no reason to throw.
LEMMA DeviceComesBack ==
    ASSUME NEW info, Usable(info), NEW index, NEW uid
    PROVE  /\ ~NotConstructible(InfoFromRpc(InfoToRpc(info)))
           /\ Construct(InfoFromRpc(InfoToRpc(info)), index, uid) = info
<1> DEFINE back == InfoFromRpc(InfoToRpc(info))
<1>1. /\ info.type \in Types /\ info.layout \in Layouts
      /\ info.index \in Nat /\ info.index # 0
      /\ info.uid \in STRING /\ info.uid # "" /\ info.name \in STRING /\ info.name # ""
      /\ info.enabled \in BOOLEAN /\ info.rate \in Nat \ {0}
      /\ info.buffer \in Int /\ info.buffer > 0
      /\ info.packet_encodings \in Seq(PacketEncodings)
      /\ info.local_endpoints \in SUBSET EndpointInfos
      /\ info.remote_endpoints \in SUBSET EndpointInfos
  BY DEF Usable, Infos
<1>2. /\ back.type = info.type /\ back.index = info.index /\ back.uid = info.uid
      /\ back.name = info.name /\ back.enabled = info.enabled /\ back.rate = info.rate
      /\ back.layout = info.layout /\ back.buffer = info.buffer
      /\ back.channels = OrElse(TracksToRpc(info.layout, info.channels), 0)
  <2> DEFINE out == InfoToRpc(info)
  <2>1. /\ out.type = info.type /\ out.index = info.index /\ out.uid = info.uid
        /\ out.name = info.name /\ out.enabled = info.enabled /\ out.rate = info.rate
        /\ out.layout = info.layout /\ out.buffer = info.buffer
        /\ out.tracks = TracksToRpc(info.layout, info.channels)
    BY DEF InfoToRpc
  <2>2. /\ out.index # Unset /\ out.uid # Unset /\ out.name # Unset /\ out.enabled # Unset
        /\ out.rate \notin {Unset, 0} /\ out.layout # Unset /\ out.buffer # Unset
    BY <1>1, <2>1, Sentinels, ValuesAreSet
  <2> HIDE DEF out
  <2>3. LET in == out
        IN  /\ InfoFromRpc(in).type = in.type /\ InfoFromRpc(in).index = in.index
            /\ InfoFromRpc(in).uid = in.uid /\ InfoFromRpc(in).name = in.name
            /\ InfoFromRpc(in).enabled = in.enabled /\ InfoFromRpc(in).rate = in.rate
            /\ InfoFromRpc(in).layout = in.layout /\ InfoFromRpc(in).buffer = in.buffer
            /\ InfoFromRpc(in).channels = OrElse(in.tracks, 0)
    BY <2>2 DEF InfoFromRpc, RateFromRpc, OrElse
  <2> QED
    BY <2>1, <2>3 DEF out
<1>3. back.packet_encodings = info.packet_encodings
  <2>1. \A i \in DOMAIN info.packet_encodings :
          PacketEncodingFromRpc(PacketEncodingToRpc(info.packet_encodings[i]))
            = info.packet_encodings[i]
    BY EncodingComesBack DEF Usable
  <2>2. back.packet_encodings =
          [i \in DOMAIN info.packet_encodings |->
             PacketEncodingFromRpc(PacketEncodingToRpc(info.packet_encodings[i]))]
    BY DEF InfoFromRpc, InfoToRpc
  <2>3. info.packet_encodings = [i \in DOMAIN info.packet_encodings |-> info.packet_encodings[i]]
    BY <1>1, LenProperties
  <2> QED
    BY <2>1, <2>2, <2>3
<1>4. back.settings = info.settings
  BY SettingsComeBack DEF InfoFromRpc
<1>5. /\ back.local_endpoints = info.local_endpoints
      /\ back.remote_endpoints = info.remote_endpoints
  <2>1. /\ back.local_endpoints =
             {EndpointFromRpc(e) : e \in {EndpointToRpc(f) : f \in info.local_endpoints}}
        /\ back.remote_endpoints =
             {EndpointFromRpc(e) : e \in {EndpointToRpc(f) : f \in info.remote_endpoints}}
    BY DEF InfoFromRpc, InfoToRpc
  <2> HIDE DEF back
  <2> QED
    BY <1>1, <2>1, EndpointsComeBack
<1>6. ~NotConstructible(back)
  <2>1. EndpointsUsable(info)
    BY DEF Usable
  <2> HIDE DEF back
  <2>2. EndpointsUsable(back)
    BY <1>2, <1>5, <2>1 DEF EndpointsUsable
  <2>3. info.buffer \in Int /\ info.buffer > 0 /\ back.buffer = info.buffer
    BY <1>1, <1>2
  <2> QED
    BY <2>2, <2>3 DEF NotConstructible
<1>7. Construct(back, index, uid) = info
  <2>1. ChannelCount(back.layout, back.channels) = info.channels
    BY <1>2, TracksComeBack
  <2>2. BufferSamples(back.buffer, back.rate) = info.samples
    BY <1>2 DEF Usable
  <2>3. info = [f \in Fields |-> info[f]]
    BY DEF Usable, Infos, Fields
  <2>4. back = [f \in Fields |-> back[f]]
    BY DEF InfoFromRpc, Fields
  <2> HIDE DEF back
  <2>5. \A f \in Fields \ FilledIn : back[f] = info[f]
    BY <1>2, <1>3, <1>4, <1>5 DEF Fields, FilledIn
  <2>6. FilledFrom(back, info) = info
    BY <2>3, <2>4, <2>5, FieldsOverwritten DEF SameRequest
  <2>7. /\ Filled(back.index, 0, index) = info.index
        /\ Filled(back.uid, "", uid) = info.uid
        /\ Filled(back.name, "", GeneratedName) = info.name
    BY <1>1, <1>2 DEF Filled
  <2>8. Construct(back, index, uid) = FilledFrom(back, info)
    BY <2>1, <2>2, <2>7 DEF Construct, FilledFrom
  <2> QED
    BY <2>6, <2>8 DEF back
<1> QED
  BY <1>6, <1>7
-----------------------------------------------------------------------------
(* What a client asks for becomes a usable device.                         *)

LEMMA EndpointBecomesInfo ==
    ASSUME NEW endpoint \in EndpointMessages, EndpointAccepted(endpoint)
    PROVE  EndpointFromRpc(endpoint) \in EndpointInfos
<1>1. /\ endpoint.slot \in Optional(Nat) /\ endpoint.interface \in Interfaces
      /\ endpoint.uri \in STRING /\ endpoint.uri # ""
  BY DEF EndpointMessages, EndpointAccepted
<1>2. OrElse(endpoint.slot, 0) \in Nat
  BY <1>1 DEF OrElse, Optional
<1> QED
  BY <1>1, <1>2 DEF EndpointFromRpc, EndpointInfos

LEMMA EncodingBecomesWellFormed ==
    ASSUME NEW encoding \in PacketEncodingMessages, PacketEncodingAccepted(encoding)
    PROVE  EncodingWellFormed(PacketEncodingFromRpc(encoding))
<1>1. /\ encoding.id \in 1..254 /\ encoding.rate \in Nat \ {0}
      /\ encoding.format \in SampleFormats /\ encoding.layout \in Layouts
      /\ encoding.tracks \in Optional(Nat)
      /\ TracksFit(encoding.layout, encoding.tracks)
  BY DEF PacketEncodingMessages, PacketEncodingAccepted
<1>2. IF encoding.layout = "multitrack" THEN OrElse(encoding.tracks, 0) \in TrackCounts
                                        ELSE OrElse(encoding.tracks, 0) = 0
  BY <1>1, Sentinels DEF TracksFit, OrElse, Optional, TrackCounts
<1>3. OrElse(encoding.tracks, 0) \in {0} \cup TrackCounts
  BY <1>2
<1> QED
  BY <1>1, <1>2, <1>3 DEF PacketEncodingFromRpc, EncodingWellFormed, PacketEncodings

\* The defaults are values that the settings may have.
LEMMA DefaultsAreValues ==
    /\ \A s \in DOMAIN Enums : Default(s) \in Enums[s]
    /\ \A s \in Settings : Default(s) \in STRING
<1>1. \A s \in DOMAIN Enums : Default(s) \in Enums[s]
  BY DEF Default, Enums
<1>2. \A s \in Settings : s \notin DOMAIN Enums => Default(s) = "0"
  BY DEF Default, Enums
<1> QED
  BY <1>1, <1>2, StringAssumption

LEMMA SettingsBecomeValues ==
    ASSUME NEW in \in Messages, Accepted(in)
    PROVE  /\ SettingsFromRpc(in) \in [SettingsOf(in.type) -> STRING]
           /\ \A s \in SettingsOf(in.type) \cap DOMAIN Enums :
                SettingsFromRpc(in)[s] \in Enums[s]
<1>1. /\ in.type \in Types
      /\ in.settings \in [Settings -> Optional(STRING)]
      /\ in.config = Unset => \A s \in Settings : in.settings[s] = Unset
  BY DEF Messages, Accepted
<1>2. SettingsOf(in.type) \subseteq Settings
  BY <1>1 DEF Settings, Types
<1>3. \A s \in SettingsOf(in.type) \cap DOMAIN Enums :
        in.settings[s] \in Optional(Enums[s])
  <2>1. CASE in.config = Unset
    BY <1>1, <1>2, <2>1 DEF Optional
  <2>2. CASE in.config # Unset
    BY <2>2 DEF Accepted
  <2> QED
    BY <2>1, <2>2
<1>4. \A s \in SettingsOf(in.type) : OrElse(in.settings[s], Default(s)) \in STRING
  BY <1>1, <1>2, DefaultsAreValues DEF OrElse, Optional
<1>5. \A s \in SettingsOf(in.type) \cap DOMAIN Enums :
        OrElse(in.settings[s], Default(s)) \in Enums[s]
  BY <1>3, DefaultsAreValues DEF OrElse, Optional
<1> QED
  BY <1>4, <1>5 DEF SettingsFromRpc

\* A number of channels that a device can have.
LEMMA ChannelsAreCounted ==
    ASSUME NEW layout \in Layouts, NEW tracks \in Optional(Nat), TracksFit(layout, tracks)
    PROVE  LET channels == ChannelCount(layout, OrElse(tracks, 0))
           IN  channels \in TrackCounts /\ channels = ChannelCount(layout, channels)
<1>1. CASE layout = "mono"
  BY <1>1 DEF ChannelCount, TrackCounts
<1>2. CASE layout = "stereo"
  BY <1>2 DEF ChannelCount, TrackCounts
<1>3. CASE layout = "multitrack"
  BY <1>3, Sentinels DEF ChannelCount, TrackCounts, TracksFit, OrElse
<1> QED
  BY <1>1, <1>2, <1>3 DEF Layouts

LEMMA ProductIsNatural ==
    ASSUME NEW m \in Nat, NEW n \in Nat
    PROVE  m * n \in Nat
  OBVIOUS

LEMMA QuotientIsNatural ==
    ASSUME NEW m \in Nat, NEW n \in Nat \ {0}
    PROVE  m \div n \in Nat
  OBVIOUS

LEMMA DefaultBufferIsInt == DefaultBuffer \in Int
<1>1. TicksPerSecond \in Nat
  BY ConfigAssumption
<1>2. 60 * TicksPerSecond \in Nat
  BY <1>1
<1> QED
  BY <1>2, QuotientIsNatural DEF DefaultBuffer

LEMMA SamplesAreNatural ==
    ASSUME NEW buffer \in Nat, NEW rate \in Nat
    PROVE  BufferSamples(buffer, rate) \in Nat
<1>1. buffer * rate \in Nat /\ TicksPerSecond \in Nat \ {0}
  BY ProductIsNatural, ConfigAssumption
<1>2. 2 * buffer * rate \in Nat
  BY ProductIsNatural
<1>3. 2 * buffer * rate + TicksPerSecond \in Nat /\ 2 * TicksPerSecond \in Nat \ {0}
  BY <1>1, <1>2
<1> QED
  BY <1>3, QuotientIsNatural DEF BufferSamples
\* The steps of add_device, which the provers must not replace by their results.
IsInfoOf(info, in) == info = InfoFromRpc(in)
IsMadeOf(made, info, index, uid) == made = Construct(info, index, uid)

\* The requests that add_device takes: the constructor's result is usable.
LEMMA RequestBecomesUsable ==
    ASSUME NEW in \in Messages, Accepted(in),
           NEW info, IsInfoOf(info, in), ~NotConstructible(info),
           NEW index \in Indices, NEW uid \in GeneratedUids,
           NEW made, IsMadeOf(made, info, index, uid)
    PROVE  Usable(made)
<1>1. /\ in.type \in Types /\ in.index \in Optional(Nat) /\ in.index # 0
      /\ in.uid \in Optional(STRING) /\ in.uid # ""
      /\ in.name \in Optional(STRING) /\ in.name # ""
      /\ in.enabled \in Optional(BOOLEAN) /\ in.rate \in Optional(Nat)
      /\ in.layout \in Optional(Layouts \cup Unmapped)
      /\ OrElse(in.layout, "stereo") \in Layouts
      /\ in.tracks \in Optional(Nat) /\ in.buffer \in Optional(Int)
      /\ TracksFit(OrElse(in.layout, "stereo"), in.tracks)
      /\ in.packet_encodings \in Seq(PacketEncodingMessages)
      /\ in.local_endpoints \in SUBSET EndpointMessages
      /\ in.remote_endpoints \in SUBSET EndpointMessages
      /\ \A e \in in.local_endpoints \cup in.remote_endpoints : EndpointAccepted(e)
  BY DEF Messages, Accepted
<1>2. /\ info.type = in.type /\ info.index = OrElse(in.index, 0)
      /\ info.uid = OrElse(in.uid, "") /\ info.name = OrElse(in.name, "")
      /\ info.enabled = OrElse(in.enabled, TRUE) /\ info.rate = RateFromRpc(in)
      /\ info.layout = OrElse(in.layout, "stereo")
      /\ info.channels = OrElse(in.tracks, 0)
      /\ info.buffer = OrElse(in.buffer, DefaultBuffer)
      /\ info.packet_encodings = [i \in DOMAIN in.packet_encodings |->
                                    PacketEncodingFromRpc(in.packet_encodings[i])]
      /\ info.settings = SettingsFromRpc(in)
      /\ info.local_endpoints = {EndpointFromRpc(e) : e \in in.local_endpoints}
      /\ info.remote_endpoints = {EndpointFromRpc(e) : e \in in.remote_endpoints}
  BY DEF InfoFromRpc, IsInfoOf
<1>3. made = Made(info, index, uid)
  BY ConstructedFields DEF IsInfoOf, IsMadeOf
<1>4. /\ made.type = info.type /\ made.enabled = info.enabled /\ made.rate = info.rate
      /\ made.layout = info.layout /\ made.buffer = info.buffer
      /\ made.channels = ChannelCount(info.layout, info.channels)
      /\ made.samples = BufferSamples(info.buffer, info.rate)
      /\ made.packet_encodings = info.packet_encodings /\ made.settings = info.settings
      /\ made.local_endpoints = info.local_endpoints
      /\ made.remote_endpoints = info.remote_endpoints
  BY <1>3 DEF Made
<1>5. made.type \in Types /\ made.layout \in Layouts /\ made.enabled \in BOOLEAN
  BY <1>1, <1>2, <1>4 DEF OrElse, Optional
<1>6. made.index \in Nat /\ made.index # 0
  <2>1. made.index = Filled(info.index, 0, index)
    BY <1>3 DEF Made
  <2>2. info.index = OrElse(in.index, 0) /\ in.index \in Optional(Nat)
    BY <1>1, <1>2
  <2>3. info.index \in Nat
    BY <2>2 DEF OrElse, Optional
  <2> QED
    BY <2>1, <2>3, ConfigAssumption DEF Filled
<1>7. made.uid \in STRING /\ made.uid # ""
  <2>1. made.uid = Filled(info.uid, "", uid)
    BY <1>3 DEF Made
  <2>2. info.uid = "" \/ info.uid \in STRING
    BY <1>1, <1>2 DEF OrElse, Optional
  <2> QED
    BY <2>1, <2>2, ConfigAssumption DEF Filled
<1>8. made.name \in STRING /\ made.name # ""
  <2>1. made.name = Filled(info.name, "", GeneratedName)
    BY <1>3 DEF Made
  <2>2. info.name = "" \/ info.name \in STRING
    BY <1>1, <1>2 DEF OrElse, Optional
  <2>3. GeneratedName \in STRING /\ GeneratedName # ""
    BY StringAssumption DEF GeneratedName
  <2> QED
    BY <2>1, <2>2, <2>3 DEF Filled
<1>9. made.rate \in Nat \ {0}
  <2>1. made.rate = RateFromRpc(in) /\ in.rate \in Optional(Nat)
    BY <1>1, <1>2, <1>4
  <2>2. CASE in.rate \in {Unset, 0}
    BY <2>1, <2>2 DEF RateFromRpc
  <2>3. CASE in.rate \notin {Unset, 0}
    BY <2>1, <2>3 DEF RateFromRpc, Optional
  <2> QED
    BY <2>2, <2>3
<1>10. made.channels \in TrackCounts /\ made.channels = ChannelCount(made.layout, made.channels)
  <2>1. /\ made.layout \in Layouts /\ in.tracks \in Optional(Nat)
        /\ TracksFit(made.layout, in.tracks)
        /\ made.channels = ChannelCount(made.layout, OrElse(in.tracks, 0))
    BY <1>1, <1>2, <1>4, <1>5
  <2> QED
    BY <2>1, ChannelsAreCounted
<1>11. made.buffer \in Nat /\ made.buffer > 0
  <2>1. in.buffer \in Optional(Int) /\ info.buffer = made.buffer
        /\ made.buffer = OrElse(in.buffer, DefaultBuffer)
    BY <1>1, <1>2, <1>4
  <2>2. DefaultBuffer \in Int
    BY DefaultBufferIsInt
  <2>3. made.buffer \in Int
    BY <2>1, <2>2 DEF OrElse, Optional
  <2>4. ~(info.buffer <= 0)
    BY DEF NotConstructible
  <2> QED
    BY <2>1, <2>3, <2>4
<1>12. made.samples \in Nat /\ made.samples = BufferSamples(made.buffer, made.rate)
  <2>1. made.samples = BufferSamples(made.buffer, made.rate)
    BY <1>4
  <2> QED
    BY <1>9, <1>11, <2>1, SamplesAreNatural
<1>13. /\ made.settings \in [SettingsOf(made.type) -> STRING]
       /\ \A s \in SettingsOf(made.type) \cap DOMAIN Enums : made.settings[s] \in Enums[s]
  <2>1. made.settings = SettingsFromRpc(in) /\ made.type = in.type
    BY <1>2, <1>4
  <2> QED
    BY <2>1, SettingsBecomeValues
<1>14. /\ made.packet_encodings \in Seq(PacketEncodings)
       /\ \A i \in DOMAIN made.packet_encodings : EncodingWellFormed(made.packet_encodings[i])
  <2>1. \A i \in DOMAIN in.packet_encodings :
          /\ in.packet_encodings[i] \in PacketEncodingMessages
          /\ PacketEncodingAccepted(in.packet_encodings[i])
    <3>1. in.config = Unset => in.packet_encodings = <<>>
      BY DEF Messages
    <3>2. in.config # Unset => \A i \in DOMAIN in.packet_encodings :
                                 PacketEncodingAccepted(in.packet_encodings[i])
      BY DEF Accepted
    <3>3. in.packet_encodings \in Seq(PacketEncodingMessages)
      BY <1>1
    <3>4. \A i \in DOMAIN in.packet_encodings :
            in.packet_encodings[i] \in PacketEncodingMessages
      BY <3>3, ElementOfSeq, LenProperties
    <3> QED
      BY <3>1, <3>2, <3>4
  <2>2. \A i \in DOMAIN in.packet_encodings :
          EncodingWellFormed(PacketEncodingFromRpc(in.packet_encodings[i]))
    BY <2>1, EncodingBecomesWellFormed
  <2>3. \A i \in DOMAIN in.packet_encodings :
          PacketEncodingFromRpc(in.packet_encodings[i]) \in PacketEncodings
    BY <2>2 DEF EncodingWellFormed
  <2>4. /\ DOMAIN in.packet_encodings = 1..Len(in.packet_encodings)
        /\ Len(in.packet_encodings) \in Nat
    <3>1. in.packet_encodings \in Seq(PacketEncodingMessages)
      BY <1>1
    <3> QED
      BY <3>1, LenProperties
  <2>5. [i \in DOMAIN in.packet_encodings |-> PacketEncodingFromRpc(in.packet_encodings[i])]
          \in Seq(PacketEncodings)
    BY <2>3, <2>4, SeqDef
  <2>6. made.packet_encodings = [i \in DOMAIN in.packet_encodings |->
                                   PacketEncodingFromRpc(in.packet_encodings[i])]
    BY <1>2, <1>4
  <2> QED
    BY <2>2, <2>5, <2>6
<1>15. /\ made.local_endpoints \subseteq EndpointInfos
       /\ made.remote_endpoints \subseteq EndpointInfos
  <2>1. \A e \in in.local_endpoints \cup in.remote_endpoints :
          EndpointFromRpc(e) \in EndpointInfos
    BY <1>1, EndpointBecomesInfo
  <2>2. /\ made.local_endpoints = {EndpointFromRpc(e) : e \in in.local_endpoints}
        /\ made.remote_endpoints = {EndpointFromRpc(e) : e \in in.remote_endpoints}
    BY <1>2, <1>4
  <2> QED
    BY <2>1, <2>2
<1>16. EndpointsUsable(made)
  <2>1. EndpointsUsable(info)
    BY DEF NotConstructible
  <2>2. made.type = info.type /\ made.local_endpoints = info.local_endpoints
        /\ made.remote_endpoints = info.remote_endpoints
    BY <1>4
  <2> QED
    BY <2>1, <2>2 DEF EndpointsUsable
<1>17. made.settings \in [SettingsOf("sender") -> STRING] \cup [SettingsOf("receiver") -> STRING]
  BY <1>5, <1>13 DEF Types
<1>18. made \in Infos
  <2>1. made = [type |-> made.type, index |-> made.index, uid |-> made.uid,
                name |-> made.name, enabled |-> made.enabled, rate |-> made.rate,
                layout |-> made.layout, channels |-> made.channels,
                buffer |-> made.buffer, samples |-> made.samples,
                packet_encodings |-> made.packet_encodings, settings |-> made.settings,
                local_endpoints |-> made.local_endpoints,
                remote_endpoints |-> made.remote_endpoints]
    BY <1>3 DEF Made
  <2>2. made.channels \in Nat /\ made.buffer \in Int
    BY <1>10, <1>11 DEF TrackCounts
  <2> QED
    BY <1>5, <1>6, <1>7, <1>8, <1>9, <1>12, <1>14, <1>15, <1>17, <2>1, <2>2 DEF Infos
<1> QED
  BY <1>6, <1>7, <1>8, <1>10, <1>11, <1>12, <1>13, <1>14, <1>16, <1>18 DEF Usable
-----------------------------------------------------------------------------
(* What is stored is a complete answer.                                    *)

LEMMA AnswerIsComplete ==
    ASSUME NEW info, Usable(info)
    PROVE  InfoToRpc(info) \in Answers
<1> DEFINE out == InfoToRpc(info)
<1>1. /\ info.type \in Types /\ info.layout \in Layouts
      /\ info.index \in Nat /\ info.index # 0
      /\ info.uid \in STRING /\ info.uid # "" /\ info.name \in STRING /\ info.name # ""
      /\ info.enabled \in BOOLEAN /\ info.rate \in Nat /\ info.buffer \in Int
      /\ info.packet_encodings \in Seq(PacketEncodings)
      /\ info.settings \in [SettingsOf(info.type) -> STRING]
      /\ info.local_endpoints \in SUBSET EndpointInfos
      /\ info.remote_endpoints \in SUBSET EndpointInfos
  BY DEF Usable, Infos
<1>2. out = [type |-> info.type, index |-> info.index, uid |-> info.uid,
             name |-> info.name, enabled |-> info.enabled, rate |-> info.rate,
             layout |-> info.layout, tracks |-> out.tracks, buffer |-> info.buffer,
             config |-> info.type, packet_encodings |-> out.packet_encodings,
             settings |-> out.settings, local_endpoints |-> out.local_endpoints,
             remote_endpoints |-> out.remote_endpoints]
  BY DEF InfoToRpc
<1>3. out.tracks \in Optional(Nat)
  <2>1. out.tracks = TracksToRpc(info.layout, info.channels)
    BY DEF InfoToRpc
  <2> QED
    BY <2>1, TracksComeBack
<1>4. out.packet_encodings \in Seq(PacketEncodingMessages)
  <2>1. /\ DOMAIN info.packet_encodings = 1..Len(info.packet_encodings)
        /\ Len(info.packet_encodings) \in Nat
    BY <1>1, LenProperties
  <2>2. \A i \in DOMAIN info.packet_encodings :
          PacketEncodingToRpc(info.packet_encodings[i]) \in PacketEncodingMessages
    BY EncodingComesBack DEF Usable
  <2>3. out.packet_encodings = [i \in DOMAIN info.packet_encodings |->
                                  PacketEncodingToRpc(info.packet_encodings[i])]
    BY DEF InfoToRpc
  <2> HIDE DEF out
  <2> QED
    BY <2>1, <2>2, <2>3, SeqDef
<1>5. /\ out.settings \in [Settings -> Optional(STRING)]
      /\ \A s \in SettingsOf(info.type) : out.settings[s] # Unset
  <2>1. \A s \in SettingsOf(info.type) : info.settings[s] # Unset
    BY <1>1, Sentinels
  <2> QED
    BY <2>1, SettingsComeBack
<1>6. /\ out.local_endpoints \subseteq EndpointMessages
      /\ out.remote_endpoints \subseteq EndpointMessages
      /\ \A e \in out.local_endpoints \cup out.remote_endpoints : e.slot # Unset
  <2>1. /\ out.local_endpoints = {EndpointToRpc(f) : f \in info.local_endpoints}
        /\ out.remote_endpoints = {EndpointToRpc(f) : f \in info.remote_endpoints}
    BY DEF InfoToRpc
  <2> HIDE DEF out
  <2> QED
    BY <1>1, <2>1, EndpointsComeBack
<1> HIDE DEF out
<1>7. /\ out.type = info.type /\ out.index = info.index /\ out.uid = info.uid
      /\ out.name = info.name /\ out.enabled = info.enabled /\ out.rate = info.rate
      /\ out.layout = info.layout /\ out.buffer = info.buffer /\ out.config = info.type
  BY DEF out, InfoToRpc
<1>8. Unset \notin {info.index, info.uid, info.name, info.enabled, info.rate, info.layout,
                    info.buffer, info.type}
  BY <1>1, Sentinels, ValuesAreSet
<1>9. out \in Messages
  <2>1. out \in [type : Types \cup Unmapped, index : Optional(Nat), uid : Optional(STRING),
                 name : Optional(STRING), enabled : Optional(BOOLEAN),
                 rate : Optional(Nat), layout : Optional(Layouts \cup Unmapped),
                 tracks : Optional(Nat), buffer : Optional(Int), config : Optional(Types),
                 packet_encodings : Seq(PacketEncodingMessages),
                 settings : [Settings -> Optional(STRING)],
                 local_endpoints : SUBSET EndpointMessages,
                 remote_endpoints : SUBSET EndpointMessages]
    <3>1. /\ info.type \in Types \cup Unmapped /\ info.index \in Optional(Nat)
          /\ info.uid \in Optional(STRING) /\ info.name \in Optional(STRING)
          /\ info.enabled \in Optional(BOOLEAN) /\ info.rate \in Optional(Nat)
          /\ info.layout \in Optional(Layouts \cup Unmapped)
          /\ info.buffer \in Optional(Int) /\ info.type \in Optional(Types)
      BY <1>1 DEF Optional
    <3> QED
      BY <1>2, <1>3, <1>4, <1>5, <1>6, <3>1
  <2>2. out.config # Unset
    BY <1>7, <1>8
  <2> QED
    BY <2>1, <2>2 DEF Messages
<1>10. out \in Answers
  <2>1. out.index \notin {Unset, 0} /\ out.uid \notin {Unset, ""}
        /\ out.name \notin {Unset, ""} /\ out.config = out.type
    BY <1>1, <1>7, <1>8
  <2>2. Unset \notin {out.enabled, out.rate, out.layout, out.buffer}
    BY <1>7, <1>8
  <2>3. \A s \in SettingsOf(out.type) : out.settings[s] # Unset
    BY <1>5, <1>7
  <2> QED
    BY <1>6, <1>9, <2>1, <2>2, <2>3 DEF Answers
<1> QED
  BY <1>10 DEF out
-----------------------------------------------------------------------------
(* The steps.                                                              *)

\* What the tool sends is a message of the protocol.
LEMMA ToolRequestIsMessage ==
    ASSUME NEW o \in Options, CommandAccepted(o)
    PROVE  ToolRequest(o) \in Messages
<1> DEFINE in == ToolRequest(o)
<1>1. /\ o.type \in Types /\ o.uid \in Optional(STRING) /\ o.name \in Optional(STRING)
      /\ o.disabled \in Optional(BOOLEAN) /\ o.rate \in Optional(Nat)
      /\ o.tracks \in Optional(Nat) /\ o.buffer \in Optional(Int)
      /\ o.packet_id \in Optional(Nat) /\ o.packet_rate \in Optional(Nat)
      /\ o.packet_tracks \in Optional(Nat)
      /\ o.settings \in [Settings -> Optional(STRING)]
  BY DEF Options
<1>2. /\ o.layout \in Optional(Layouts) /\ o.packet_format \in Optional(SampleFormats)
      /\ o.packet_layout \in Optional(Layouts)
  BY DEF CommandAccepted, ParsesTo
<1>3. in = [type |-> o.type, index |-> Unset, uid |-> o.uid, name |-> o.name,
            enabled |-> in.enabled, rate |-> o.rate, layout |-> o.layout,
            tracks |-> o.tracks, buffer |-> o.buffer, config |-> in.config,
            packet_encodings |-> ToolPacketEncodings(o), settings |-> ToolSettings(o),
            local_endpoints |-> {}, remote_endpoints |-> {}]
  BY DEF ToolRequest
<1>4. in.enabled \in Optional(BOOLEAN)
  <2>1. in.enabled = IF o.disabled = Unset THEN Unset ELSE ~o.disabled
    BY DEF ToolRequest
  <2>2. o.disabled # Unset => o.disabled \in BOOLEAN
    BY <1>1 DEF Optional
  <2> QED
    BY <2>1, <2>2 DEF Optional
<1>5. in.config \in Optional(Types)
  BY <1>1 DEF ToolRequest, Optional
<1>6. ToolPacketEncodings(o) \in Seq(PacketEncodingMessages)
  <2>1. CASE ~WithPacketEncoding(o)
    BY <2>1 DEF ToolPacketEncodings
  <2>2. CASE WithPacketEncoding(o)
    <3>1. OrElse(o.packet_id, 0) \in Nat /\ OrElse(o.packet_rate, 0) \in Nat
      BY <1>1 DEF OrElse, Optional
    <3>2. OrElse(o.packet_format, "s16") \in SampleFormats
      BY <1>2, ConfigAssumption DEF OrElse, Optional
    <3>3. OrElse(o.packet_layout, "mono") \in Layouts
      BY <1>2 DEF OrElse, Optional, Layouts
    <3>4. [id |-> OrElse(o.packet_id, 0), rate |-> OrElse(o.packet_rate, 0),
           format |-> OrElse(o.packet_format, "s16"),
           layout |-> OrElse(o.packet_layout, "mono"), tracks |-> o.packet_tracks]
            \in PacketEncodingMessages
      BY <1>1, <3>1, <3>2, <3>3 DEF PacketEncodingMessages
    <3> QED
      BY <2>2, <3>4 DEF ToolPacketEncodings
  <2> QED
    BY <2>1, <2>2
<1>7. ToolSettings(o) \in [Settings -> Optional(STRING)]
  BY <1>1 DEF ToolSettings, Optional
<1>8. in.config = Unset =>
        in.packet_encodings = <<>> /\ \A s \in Settings : in.settings[s] = Unset
  <2>1. o.type # Unset
    BY <1>1, ValuesAreSet
  <2>2. in.config = IF \/ WithPacketEncoding(o)
                       \/ \E s \in Settings : ToolSettings(o)[s] # Unset
                    THEN o.type ELSE Unset
    BY DEF ToolRequest
  <2>3. in.packet_encodings = ToolPacketEncodings(o) /\ in.settings = ToolSettings(o)
    BY DEF ToolRequest
  <2>4. ~WithPacketEncoding(o) => ToolPacketEncodings(o) = <<>>
    BY DEF ToolPacketEncodings
  <2> HIDE DEF in
  <2> QED
    BY <2>1, <2>2, <2>3, <2>4
<1>9. in \in [type : Types \cup Unmapped, index : Optional(Nat), uid : Optional(STRING),
              name : Optional(STRING), enabled : Optional(BOOLEAN), rate : Optional(Nat),
              layout : Optional(Layouts \cup Unmapped), tracks : Optional(Nat),
              buffer : Optional(Int), config : Optional(Types),
              packet_encodings : Seq(PacketEncodingMessages),
              settings : [Settings -> Optional(STRING)],
              local_endpoints : SUBSET EndpointMessages,
              remote_endpoints : SUBSET EndpointMessages]
  <2>1. o.type \in Types \cup Unmapped /\ Unset \in Optional(Nat)
        /\ o.layout \in Optional(Layouts \cup Unmapped)
    BY <1>1, <1>2 DEF Optional
  <2> HIDE DEF in
  <2> QED
    BY <1>1, <1>3, <1>4, <1>5, <1>6, <1>7, <2>1
<1> QED
  BY <1>8, <1>9 DEF Messages

\* Whatever makes a device usable and saves it keeps the invariant.
LEMMA SavedDeviceIsKept ==
    ASSUME Usable(device'), SaveDevice
    PROVE  ConfigInv' /\ device' # NoDevice
<1>1. device' # NoDevice
  BY Sentinels DEF Usable
<1>2. stored' = InfoToRpc(device')
  BY <1>1 DEF SaveDevice
<1> QED
  BY <1>1, <1>2 DEF ConfigInv

LEMMA CreateDeviceStep ==
    ASSUME NEW in \in Messages, CreateDevice(in)
    PROVE  ConfigInv'
<1>1. PICK index \in Indices, uid \in GeneratedUids :
        device' = Construct(InfoFromRpc(in), index, uid)
  BY DEF CreateDevice
<1>2. /\ IsInfoOf(InfoFromRpc(in), in)
      /\ IsMadeOf(device', InfoFromRpc(in), index, uid)
  BY <1>1 DEF IsInfoOf, IsMadeOf
<1>3. Accepted(in) /\ ~NotConstructible(InfoFromRpc(in)) /\ SaveDevice
  BY DEF CreateDevice
<1>4. Usable(device')
  BY <1>2, <1>3, RequestBecomesUsable
<1> QED
  BY <1>3, <1>4, SavedDeviceIsKept

LEMMA ToggleStep ==
    ASSUME ConfigInv, NEW enabled \in BOOLEAN, Toggle(enabled)
    PROVE  ConfigInv'
<1>1. Usable(device) /\ SaveDevice
  BY DEF Toggle, ConfigInv
<1>2. device \in Infos
  BY <1>1 DEF Usable
<1>3. device' = [device EXCEPT !.enabled = enabled]
  BY DEF Toggle
<1>4. device' \in Infos
  BY <1>2, <1>3 DEF Infos
<1>5. /\ device'.type = device.type /\ device'.index = device.index
      /\ device'.uid = device.uid /\ device'.name = device.name
      /\ device'.rate = device.rate /\ device'.layout = device.layout
      /\ device'.channels = device.channels /\ device'.buffer = device.buffer
      /\ device'.samples = device.samples /\ device'.settings = device.settings
      /\ device'.packet_encodings = device.packet_encodings
      /\ device'.local_endpoints = device.local_endpoints
      /\ device'.remote_endpoints = device.remote_endpoints
  BY <1>2, <1>3 DEF Infos
<1>6. Usable(device')
  BY <1>1, <1>4, <1>5 DEF Usable, EndpointsUsable
<1> QED
  BY <1>1, <1>6, SavedDeviceIsKept

LEMMA AttachStep ==
    ASSUME ConfigInv, NEW in \in EndpointMessages, Attach(in)
    PROVE  ConfigInv'
<1> DEFINE endpoint == EndpointFromRpc(in)
<1>1. Usable(device) /\ SaveDevice /\ EndpointAccepted(in) /\ EndpointsUsable(device')
  BY DEF Attach, ConfigInv
<1>2. device \in Infos /\ endpoint \in EndpointInfos
  BY <1>1, EndpointBecomesInfo DEF Usable
<1> HIDE DEF endpoint
<1>3. \/ device' = [device EXCEPT !.remote_endpoints = @ \cup {endpoint}]
      \/ device' = [device EXCEPT !.local_endpoints = @ \cup {endpoint}]
  BY DEF Attach, endpoint
<1>4. device' \in Infos
  BY <1>2, <1>3 DEF Infos
<1>5. /\ device'.type = device.type /\ device'.index = device.index
      /\ device'.uid = device.uid /\ device'.name = device.name
      /\ device'.rate = device.rate /\ device'.layout = device.layout
      /\ device'.channels = device.channels /\ device'.buffer = device.buffer
      /\ device'.samples = device.samples /\ device'.settings = device.settings
      /\ device'.packet_encodings = device.packet_encodings
  BY <1>2, <1>3 DEF Infos
<1>6. Usable(device')
  BY <1>1, <1>4, <1>5 DEF Usable
<1> QED
  BY <1>1, <1>6, SavedDeviceIsKept

\* A restart makes the device again that there was.
LEMMA RestartStep ==
    ASSUME ConfigInv, Restart
    PROVE  ConfigInv' /\ device' = device
<1>1. CASE device = NoDevice
  <2>1. stored = NoDevice
    BY <1>1 DEF ConfigInv
  <2>2. device' = NoDevice /\ stored' = NoDevice
    BY <2>1 DEF Restart
  <2> QED
    BY <1>1, <2>2 DEF ConfigInv
<1>2. CASE device # NoDevice
  <2>1. Usable(device) /\ stored = InfoToRpc(device)
    BY <1>2 DEF ConfigInv
  <2>2. Accepted(stored) /\ ~NotConstructible(InfoFromRpc(stored))
    BY <2>1, AnswerAccepted, DeviceComesBack
  <2>3. stored # NoDevice
    BY <2>1, AnswerIsComplete, Sentinels DEF Answers
  <2>4. /\ \E index \in Indices, uid \in GeneratedUids :
              device' = Construct(InfoFromRpc(stored), index, uid)
        /\ SaveDevice
    BY <2>2, <2>3 DEF Restart
  <2>5. device' = device
    BY <2>1, <2>4, DeviceComesBack
  <2>6. Usable(device')
    BY <2>1, <2>5
  <2> QED
    BY <2>4, <2>5, <2>6, SavedDeviceIsKept
<1> QED
  BY <1>1, <1>2

-----------------------------------------------------------------------------
(* The theorems.                                                           *)

LEMMA ConfigInvStep ==
    ASSUME ConfigInv, [Next]_vars
    PROVE  ConfigInv'
<1>1. ASSUME NEW o \in Commands, AddByTool(o)
      PROVE  ConfigInv'
  <2>1. o \in Options /\ CommandAccepted(o) /\ CreateDevice(ToolRequest(o))
    BY <1>1, CommandsAssumption DEF AddByTool
  <2>2. ToolRequest(o) \in Messages
    BY <2>1, ToolRequestIsMessage
  <2> QED
    BY <2>1, <2>2, CreateDeviceStep
<1>2. ASSUME NEW in \in Requests, CreateDevice(in)
      PROVE  ConfigInv'
  <2>1. in \in Messages
    BY ConfigAssumption
  <2> QED
    BY <1>2, <2>1, CreateDeviceStep
<1>3. ASSUME NEW enabled \in BOOLEAN, Toggle(enabled)
      PROVE  ConfigInv'
  BY <1>3, ToggleStep
<1>4. ASSUME NEW in \in NewEndpoints, Attach(in)
      PROVE  ConfigInv'
  <2>1. in \in EndpointMessages
    BY ConfigAssumption
  <2> QED
    BY <1>4, <2>1, AttachStep
<1>5. CASE Delete
  BY <1>5 DEF Delete, SaveDevice, ConfigInv
<1>6. CASE Restart
  BY <1>6, RestartStep
<1>7. CASE UNCHANGED vars
  BY <1>7 DEF vars, ConfigInv, Usable, EndpointsUsable
<1> QED
  BY <1>1, <1>2, <1>3, <1>4, <1>5, <1>6, <1>7 DEF Next

\* For all commands, requests and endpoints: what is stored is what device_info_to_rpc
\* writes of the device that there is, and the device is one that its constructor
\* made of values that passed the checks.
THEOREM ConfigInvariant == Spec => []ConfigInv
<1>1. Init => ConfigInv
  BY DEF Init, ConfigInv
<1>2. ConfigInv /\ [Next]_vars => ConfigInv'
  BY ConfigInvStep
<1> QED
  BY <1>1, <1>2, PTL DEF Spec

\* Whatever clients ask for, a device is one that the driver can work with and an
\* answer leaves nothing open.
THEOREM ConfigTypeOK == Spec => []TypeOK
<1>1. ConfigInv => TypeOK
  <2> SUFFICES ASSUME ConfigInv PROVE TypeOK
    OBVIOUS
  <2>1. CASE device = NoDevice
    BY <2>1 DEF ConfigInv, TypeOK
  <2>2. CASE device # NoDevice
    <3>1. Usable(device) /\ stored = InfoToRpc(device)
      BY <2>2 DEF ConfigInv
    <3>2. stored \in Answers
      BY <3>1, AnswerIsComplete
    <3>3. DOMAIN device.settings = SettingsOf(device.type)
      BY <3>1 DEF Usable
    <3> QED
      BY <3>1, <3>2, <3>3 DEF TypeOK, Usable
  <2> QED
    BY <2>1, <2>2
<1> QED
  BY <1>1, ConfigInvariant, PTL

\* "All created devices and all their settings are stored persistently"
\* (README.md:408): a restart makes the same device again, whatever its settings,
\* endpoints and packet encodings.
THEOREM RestartAlwaysKeepsDevice == Spec => RestartKeepsDevice
<1>1. ConfigInv /\ [Next]_vars => [Restart => device' = device]_vars
  BY RestartStep
<1> QED
  BY <1>1, ConfigInvariant, PTL DEF Spec, RestartKeepsDevice
\* The fields of a device that `roc-vad device add` makes.
ToolFields(o, uid, made) ==
    /\ made.type = o.type /\ made.rate = RateFromRpc(ToolRequest(o))
    /\ made.uid = Filled(OrElse(o.uid, ""), "", uid)
    /\ made.name = Filled(OrElse(o.name, ""), "", GeneratedName)
    /\ made.enabled = OrElse(ToolRequest(o).enabled, TRUE)
    /\ made.layout = OrElse(o.layout, "stereo")
    /\ made.channels = ChannelCount(made.layout, OrElse(o.tracks, 0))
    /\ made.buffer = OrElse(o.buffer, DefaultBuffer)
    /\ made.packet_encodings = [i \in DOMAIN ToolPacketEncodings(o) |->
                                  PacketEncodingFromRpc(ToolPacketEncodings(o)[i])]
    /\ made.settings = SettingsFromRpc(ToolRequest(o))

LEMMA ToolDeviceFields ==
    ASSUME NEW o \in Options,
           NEW info, IsInfoOf(info, ToolRequest(o)), NEW index, NEW uid,
           NEW made, IsMadeOf(made, info, index, uid)
    PROVE  ToolFields(o, uid, made)
<1> DEFINE in == ToolRequest(o)
<1>1. /\ in.type = o.type /\ in.uid = o.uid /\ in.name = o.name /\ in.layout = o.layout
      /\ in.tracks = o.tracks /\ in.buffer = o.buffer
      /\ in.packet_encodings = ToolPacketEncodings(o)
  BY DEF ToolRequest
<1> HIDE DEF in
<1>2. /\ info.type = in.type /\ info.rate = RateFromRpc(in)
      /\ info.uid = OrElse(in.uid, "") /\ info.name = OrElse(in.name, "")
      /\ info.enabled = OrElse(in.enabled, TRUE)
      /\ info.layout = OrElse(in.layout, "stereo")
      /\ info.channels = OrElse(in.tracks, 0)
      /\ info.buffer = OrElse(in.buffer, DefaultBuffer)
      /\ info.packet_encodings = [i \in DOMAIN in.packet_encodings |->
                                    PacketEncodingFromRpc(in.packet_encodings[i])]
      /\ info.settings = SettingsFromRpc(in)
  BY DEF InfoFromRpc, IsInfoOf, in
<1>3. made = Made(info, index, uid)
  BY ConstructedFields DEF IsInfoOf, IsMadeOf
<1>4. /\ made.type = info.type /\ made.rate = info.rate
      /\ made.uid = Filled(info.uid, "", uid)
      /\ made.name = Filled(info.name, "", GeneratedName)
      /\ made.enabled = info.enabled /\ made.layout = info.layout
      /\ made.channels = ChannelCount(info.layout, info.channels)
      /\ made.buffer = info.buffer /\ made.packet_encodings = info.packet_encodings
      /\ made.settings = info.settings
  BY <1>3 DEF Made
<1> QED
  BY <1>1, <1>2, <1>4 DEF ToolFields, in
LEMMA ToolOptionsTakeEffect ==
    ASSUME NEW o \in Options, CommandAccepted(o), Accepted(ToolRequest(o)),
           NEW info, IsInfoOf(info, ToolRequest(o)), NEW index, NEW uid,
           NEW made, IsMadeOf(made, info, index, uid)
    PROVE  TakesEffect(o, made)
<1> DEFINE in == ToolRequest(o)
<1>1. ToolFields(o, uid, made)
  BY ToolDeviceFields
<1>2. /\ in.type = o.type /\ in.uid = o.uid /\ in.name = o.name /\ in.rate = o.rate
      /\ in.packet_encodings = ToolPacketEncodings(o) /\ in.settings = ToolSettings(o)
      /\ in.enabled = IF o.disabled = Unset THEN Unset ELSE ~o.disabled
      /\ in.config = IF \/ WithPacketEncoding(o)
                        \/ \E s \in Settings : ToolSettings(o)[s] # Unset
                     THEN o.type ELSE Unset
  BY DEF ToolRequest
<1> HIDE DEF in
<1>3. /\ o.type \in Types /\ o.type # Unset /\ o.disabled \in Optional(BOOLEAN)
      /\ o.rate \in Optional(Nat) /\ o.tracks \in Optional(Nat)
      /\ o.packet_id \in Optional(Nat) /\ o.packet_rate \in Optional(Nat)
      /\ o.settings \in [Settings -> Optional(STRING)]
  BY ValuesAreSet DEF Options
<1>4. o.uid # Unset => made.uid = o.uid
  <2>1. o.uid # ""
    BY <1>2 DEF Accepted, in
  <2> QED
    BY <1>1, <2>1 DEF ToolFields, OrElse, Filled
<1>5. o.name # Unset => made.name = o.name
  <2>1. o.name # ""
    BY <1>2 DEF Accepted, in
  <2> QED
    BY <1>1, <2>1 DEF ToolFields, OrElse, Filled
<1>6. (made.enabled = FALSE) <=> (o.disabled = TRUE)
  <2>1. CASE o.disabled = Unset
    <3>1. made.enabled = TRUE
      BY <1>1, <1>2, <2>1 DEF ToolFields, OrElse, in
    <3> QED
      BY <2>1, <3>1, Sentinels
  <2>2. CASE o.disabled # Unset
    <3>1. o.disabled \in BOOLEAN
      BY <1>3, <2>2 DEF Optional
    <3>2. in.enabled = ~o.disabled /\ in.enabled # Unset
      BY <1>2, <2>2, <3>1, Sentinels
    <3>3. made.enabled = ~o.disabled
      BY <1>1, <3>2 DEF ToolFields, OrElse, in
    <3> QED
      BY <3>1, <3>3
  <2> QED
    BY <2>1, <2>2
<1>7. o.rate # 0 => Has(made.rate, o.rate, 44100)
  <2>1. made.rate = RateFromRpc(in) /\ in.rate = o.rate
    BY <1>1, <1>2 DEF ToolFields, in
  <2>2. CASE o.rate = Unset
    BY <2>1, <2>2 DEF RateFromRpc, Has, OrElse
  <2>3. CASE o.rate # Unset
    BY <2>1, <2>3 DEF RateFromRpc, Has, OrElse
  <2> QED
    BY <2>2, <2>3
<1>8. o.layout = "multitrack" => made.channels = o.tracks
  <2>1. ASSUME o.layout = "multitrack" PROVE made.channels = o.tracks
    <3>1. o.tracks # Unset
      BY <2>1 DEF CommandAccepted
    <3>2. made.layout = "multitrack"
      <4>1. "multitrack" # Unset
        BY ValuesAreSet DEF Layouts
      <4> QED
        BY <1>1, <2>1, <4>1 DEF ToolFields, OrElse
    <3> QED
      BY <1>1, <3>1, <3>2 DEF ToolFields, ChannelCount, OrElse
  <2> QED
    BY <2>1
<1>9. Len(made.packet_encodings) = IF WithPacketEncoding(o) THEN 1 ELSE 0
  <2>1. made.packet_encodings = [i \in DOMAIN ToolPacketEncodings(o) |->
                                   PacketEncodingFromRpc(ToolPacketEncodings(o)[i])]
    BY <1>1 DEF ToolFields
  <2>2. /\ WithPacketEncoding(o) => DOMAIN ToolPacketEncodings(o) = 1..1
        /\ ~WithPacketEncoding(o) => DOMAIN ToolPacketEncodings(o) = 1..0
    BY DEF ToolPacketEncodings
  <2>3. CASE WithPacketEncoding(o)
    <3>1. made.packet_encodings = [i \in 1..1 |->
                                     PacketEncodingFromRpc(ToolPacketEncodings(o)[i])]
      BY <2>1, <2>2, <2>3
    <3> QED
      BY <2>3, <3>1
  <2>4. CASE ~WithPacketEncoding(o)
    <3>1. made.packet_encodings = [i \in 1..0 |->
                                     PacketEncodingFromRpc(ToolPacketEncodings(o)[i])]
      BY <2>1, <2>2, <2>4
    <3> QED
      BY <2>4, <3>1
  <2> QED
    BY <2>3, <2>4
<1>10. ASSUME WithPacketEncoding(o)
       PROVE  EncodingTakesEffect(o, made.packet_encodings[1])
  <2> DEFINE sent == ToolPacketEncodings(o)[1]
  <2>1. ToolPacketEncodings(o) =
          <<[id |-> OrElse(o.packet_id, 0), rate |-> OrElse(o.packet_rate, 0),
             format |-> OrElse(o.packet_format, "s16"),
             layout |-> OrElse(o.packet_layout, "mono"), tracks |-> o.packet_tracks]>>
    BY <1>10 DEF ToolPacketEncodings
  <2>2. /\ sent.id = OrElse(o.packet_id, 0) /\ sent.rate = OrElse(o.packet_rate, 0)
        /\ sent.format = OrElse(o.packet_format, "s16")
        /\ sent.layout = OrElse(o.packet_layout, "mono") /\ sent.tracks = o.packet_tracks
        /\ 1 \in DOMAIN ToolPacketEncodings(o)
    BY <2>1
  <2> HIDE DEF sent
  <2>3. made.packet_encodings[1] = PacketEncodingFromRpc(sent)
    BY <1>1, <2>2 DEF ToolFields, sent
  <2>4. PacketEncodingAccepted(sent)
    <3>1. in.config # Unset
      BY <1>2, <1>3, <1>10
    <3> QED
      BY <1>2, <2>2, <3>1 DEF Accepted, in, sent
  <2>5. sent.id # 0 /\ sent.rate # 0
    BY <2>4 DEF PacketEncodingAccepted
  <2>6. sent.id = o.packet_id /\ sent.rate = o.packet_rate
    BY <2>2, <2>5 DEF OrElse
  <2> QED
    BY <2>2, <2>3, <2>6 DEF PacketEncodingFromRpc, EncodingTakesEffect, Has
<1>11. ASSUME NEW s \in SettingsOf(o.type),
              ~(s = "max_packet_size" /\ o.type = "receiver" /\ ~WithPacketEncoding(o))
       PROVE  Has(made.settings[s], o.settings[s], Default(s))
  <2>1. s \in Settings
    BY <1>3 DEF Settings, Types
  <2>2. ToolSettings(o)[s] = o.settings[s]
    BY <1>11, <2>1 DEF ToolSettings
  <2>3. made.settings = [t \in SettingsOf(o.type) |-> OrElse(ToolSettings(o)[t], Default(t))]
    BY <1>1, <1>2 DEF ToolFields, SettingsFromRpc, in
  <2> QED
    BY <2>2, <2>3 DEF Has
<1>12. Has(made.layout, o.layout, "stereo") /\ Has(made.buffer, o.buffer, DefaultBuffer)
  BY <1>1 DEF ToolFields, Has
<1>13. made.type = o.type
  BY <1>1 DEF ToolFields
<1>14. WithPacketEncoding(o) => EncodingTakesEffect(o, made.packet_encodings[1])
  BY <1>10
<1>15. \A s \in SettingsOf(o.type) :
          \/ Has(made.settings[s], o.settings[s], Default(s))
          \/ s = "max_packet_size" /\ o.type = "receiver" /\ ~WithPacketEncoding(o)
  BY <1>11
<1> QED
  BY <1>4, <1>5, <1>6, <1>7, <1>8, <1>9, <1>12, <1>13, <1>14, <1>15 DEF TakesEffect

\* For all options: `roc-vad device add` makes a device that has each option that was
\* given, with the code's one exception (cmd_device_add_receiver.cpp:197).
THEOREM OptionsAlwaysTakeEffect == Spec => OptionsTakeEffect
<1>1. [Next]_vars => [ device = NoDevice =>
                         \A o \in Commands : AddByTool(o) => TakesEffect(o, device') ]_vars
  <2>1. ASSUME NEW o \in Commands, AddByTool(o)
        PROVE  TakesEffect(o, device')
    <3>1. o \in Options /\ CommandAccepted(o) /\ Accepted(ToolRequest(o))
      BY <2>1, CommandsAssumption DEF AddByTool, CreateDevice
    <3>2. PICK index \in Indices, uid \in GeneratedUids :
            device' = Construct(InfoFromRpc(ToolRequest(o)), index, uid)
      BY <2>1 DEF AddByTool, CreateDevice
    <3>3. /\ IsInfoOf(InfoFromRpc(ToolRequest(o)), ToolRequest(o))
          /\ IsMadeOf(device', InfoFromRpc(ToolRequest(o)), index, uid)
      BY <3>2 DEF IsInfoOf, IsMadeOf
    <3> QED
      BY <3>1, <3>3, ToolOptionsTakeEffect
  <2> QED
    BY <2>1
<1> QED
  BY <1>1, PTL DEF Spec, OptionsTakeEffect
=============================================================================
