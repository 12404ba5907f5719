--------------------------- MODULE MCDeviceConfig ---------------------------
(* Commands and requests that leave one group of settings after the other    *)
(* from the plainest of its type: what is checked field by field needs no     *)
(* combinations, what is checked together varies together.                    *)
EXTENDS DeviceConfig

\* The functions that differ from a record in one field, or in nothing.
Varied(record, field, values) == {[record EXCEPT ![field] = v] : v \in values}

Nothing == [s \in Settings |-> Unset]

\* Each setting of a type with each of its values, and with one that it lacks.
MCSettings(type) ==
    UNION {Varied(Nothing, s, IF s \in DOMAIN Enums THEN Enums[s] \cup Unmapped
                                                    ELSE {"0", "7"}) : s \in SettingsOf(type)}
      \cup {[s \in Settings |-> IF s \in SettingsOf(type) THEN Default(s) ELSE Unset]}

PlainCommand(type) ==
    [type |-> type, uid |-> Unset, name |-> Unset, disabled |-> Unset, rate |-> Unset,
     layout |-> Unset, tracks |-> Unset, buffer |-> Unset, packet_id |-> Unset,
     packet_rate |-> Unset, packet_format |-> Unset, packet_layout |-> Unset,
     packet_tracks |-> Unset, settings |-> Nothing]

CommandIdentities(plain) ==
    {[plain EXCEPT !.uid = uid, !.name = name, !.disabled = disabled] :
        uid \in {Unset, "", "u1"}, name \in {Unset, "", "n1"}, disabled \in Optional(BOOLEAN)}

CommandEncodings(plain) ==
    {[plain EXCEPT !.rate = rate, !.layout = layout, !.tracks = tracks, !.buffer = buffer] :
        rate \in {Unset, 0, 48000}, layout \in Optional(Layouts \cup Unmapped),
        tracks \in {Unset, 0, 1, 1024, 1025}, buffer \in {Unset, -1, 0, 25}}

CommandPackets(plain) ==
    {[plain EXCEPT !.packet_id = id, !.packet_rate = rate, !.packet_format = format,
                   !.packet_layout = layout, !.packet_tracks = tracks,
                   !.settings["max_packet_size"] = size] :
        id \in {Unset, 0, 10, 254, 255}, rate \in {Unset, 48000},
        format \in {Unset, "s24", "malformed"}, layout \in {Unset, "stereo", "multitrack"},
        tracks \in {Unset, 8}, size \in {Unset, "7"}}

MCCommands ==
    UNION {LET plain == PlainCommand(type)
           IN  CommandIdentities(plain) \cup CommandEncodings(plain)
                 \cup CommandPackets(plain)
                 \cup {[plain EXCEPT !.settings = settings] : settings \in MCSettings(type)}
           : type \in Types}

PlainRequest(type) ==
    [type |-> type, index |-> Unset, uid |-> Unset, name |-> Unset, enabled |-> Unset,
     rate |-> Unset, layout |-> Unset, tracks |-> Unset, buffer |-> Unset,
     config |-> Unset, packet_encodings |-> <<>>, settings |-> Nothing,
     local_endpoints |-> {}, remote_endpoints |-> {}]

\* What the tool does not send: indices, configurations of the other type, values
\* that no table has, endpoints.
RequestIdentities(plain) ==
    {[plain EXCEPT !.index = index, !.config = config, !.rate = rate, !.name = name] :
        index \in {Unset, 0, 3}, config \in Optional(Types), rate \in {Unset, 0},
        name \in {Unset, ""}}

RequestSettings(plain) ==
    {[plain EXCEPT !.config = plain.type, !.settings = settings] :
        settings \in MCSettings(plain.type)}

RequestEncodings(plain) ==
    {[plain EXCEPT !.config = plain.type, !.packet_encodings = encodings] :
        encodings \in
          LET one(id, layout, tracks) ==
                [id |-> id, rate |-> 48000, format |-> "s24", layout |-> layout,
                 tracks |-> tracks]
          IN  {<<one(1, "mono", Unset)>>, <<one(254, "multitrack", 1024)>>,
               <<one(7, "multitrack", Unset)>>, <<one(7, "unmapped", Unset)>>}}

MCEndpoints ==
    {[slot |-> slot, interface |-> interface, uri |-> uri] :
        slot \in {Unset, 0, 1}, interface \in {"audiosrc", "audiorpr", "unmapped"},
        uri \in {"", "a", "b"}}

RequestEndpoints(plain) ==
    {[plain EXCEPT !.local_endpoints = local, !.remote_endpoints = remote] :
        local \in {{}} \cup {{e} : e \in MCEndpoints},
        remote \in {{}} \cup {{e} : e \in MCEndpoints}}

\* Bound and connected later: the same place twice, and another one.
MCNewEndpoints ==
    {[slot |-> Unset, interface |-> "audiosrc", uri |-> "a"],
     [slot |-> 0, interface |-> "audiosrc", uri |-> "b"],
     [slot |-> 1, interface |-> "audiorpr", uri |-> "a"]}

MCRequests ==
    UNION {LET plain == PlainRequest(type)
           IN  RequestIdentities(plain) \cup RequestEncodings(plain)
                 \cup RequestSettings(plain) \cup RequestEndpoints(plain)
           : type \in Types}
      \cup {PlainRequest("unmapped")}
=============================================================================
