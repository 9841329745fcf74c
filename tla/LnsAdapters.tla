----------------------------- MODULE LnsAdapters -----------------------------
(***************************************************************************)
(* internal/lns: what the service reads in the messages of the LoRaWAN     *)
(* network servers ChirpStack, TTN and Helium, bare or wrapped in the      *)
(* field decoded_raw_data.                                                 *)
(*                                                                         *)
(* A JSON object is a record; a string, number or list in it is a sequence *)
(* of one element, so that <<>> says that a field is missing, is empty, or *)
(* has a type the code does not accept.                                    *)
(***************************************************************************)
EXTENDS Integers, Sequences, SequencesExt, TLC

LNSTypes == {"chirpstack", "ttn", "helium"}
\* ParseLNSType: any other source, and none, is "unknown", which has no handler.
ExtractLNSSource(m) ==
    IF /\ "metadata" \in DOMAIN m
       /\ "lorawan_source" \in DOMAIN m.metadata
       /\ m.metadata.lorawan_source[1] \in LNSTypes
    THEN m.metadata.lorawan_source[1]
    ELSE "unknown"

Field(o, key) == IF key \in DOMAIN o THEN o[key] ELSE <<>>
Follow(m, path) ==
    LET at[n \in 0 .. Len(path)] == IF n = 0 THEN m ELSE Field(at[n - 1], path[n])
    IN  at[Len(path)]

\* The first of the paths that leads to something.
Look(m, paths) ==
    LET hits == {n \in DOMAIN paths : Follow(m, paths[n]) # <<>>}
    IN  IF hits = {} THEN <<>> ELSE Follow(m, paths[Min(hits)])

Wrapped(m) == Field(m, "decoded_raw_data")

\* The paths tried first; then, for good, the wrapped message; else the rest.
Extract(m, before, after) ==
    LET level[n \in Nat] == IF n = 0 THEN m ELSE Wrapped(level[n - 1])
        from[n \in Nat] ==
            IF Look(level[n], before) # <<>> THEN Look(level[n], before)
            ELSE IF "decoded_raw_data" \in DOMAIN level[n] THEN from[n + 1]
            ELSE Look(level[n], after)
    IN  from[0]

Keys(keys) == [n \in DOMAIN keys |-> <<keys[n]>>]

ChirpStack ==
    [DevEUI |-> <<<<"deviceInfo", "devEui">>>>,
     FPort |-> <<<<"fPort">>, <<"uplinkEvent", "fPort">>>>,
     Frequency |-> <<<<"txInfo", "frequency">>, <<"uplinkEvent", "txInfo", "frequency">>>>,
     RxMetadata |-> <<<<"rxInfo">>, <<"uplinkEvent", "rxInfo">>>>,
     PayloadData |-> <<<<"uplinkEvent", "data">>>>,
     After |-> [DevEUI |-> <<<<"uplinkEvent", "deviceInfo", "devEui">>>>,
                PayloadData |-> <<<<"data">>>>],
     PayloadBytes |-> <<<<"uplinkEvent", "data">>, <<"decoded_raw_data", "uplinkEvent", "data">>,
                        <<"decoded_raw_data", "data">>, <<"data">>>>]

TTN ==
    [DevEUI |-> <<<<"end_device_ids", "dev_eui">>>>,
     FPort |-> <<<<"uplink_message", "f_port">>>>,
     Frequency |-> <<<<"uplink_message", "settings", "frequency">>>>,
     RxMetadata |-> <<<<"uplink_message", "rx_metadata">>>>,
     PayloadData |-> <<<<"uplink_message", "frm_payload">>>>,
     After |-> [PayloadData |-> <<<<"data">>>>],
     PayloadBytes |-> <<<<"uplink_message", "frm_payload">>,
                        <<"decoded_raw_data", "uplink_message", "frm_payload">>,
                        <<"decoded_raw_data", "data">>, <<"data">>>>]

Helium ==
    [DevEUI |-> Keys(<<"dev_eui", "device_eui", "devEui", "deviceEui">>),
     FPort |-> Keys(<<"fport", "f_port", "fPort", "port">>),
     Frequency |-> Keys(<<"frequency">>),
     RxMetadata |-> Keys(<<"hotspots", "rx_metadata", "rxInfo", "gateways">>),
     PayloadData |-> Keys(<<"payload", "data", "frm_payload">>),
     After |-> [PayloadData |-> <<>>],
     PayloadBytes |-> <<<<"payload">>, <<"decoded_raw_data", "payload">>,
                        <<"decoded_raw_data", "data">>, <<"data">>>>]

Handlers == [chirpstack |-> ChirpStack, ttn |-> TTN, helium |-> Helium]

\* ExtractDevEUI, ExtractFPort, ExtractFrequency, ExtractRxMetadata and
\* ExtractPayloadDataFromMetadata: one field of a message of a server.
ExtractField(m, lns, field) ==
    IF lns \notin LNSTypes THEN <<>>
    ELSE LET h == Handlers[lns]
         IN  Extract(m, h[field], IF field \in DOMAIN h.After THEN h.After[field] ELSE <<>>)

\* Encoded data is [ok, bytes]: the first field found decides, good base64 or not.
ExtractPayloadBytes(m, lns) ==
    IF lns \notin LNSTypes THEN <<>>
    ELSE LET found == Look(m, Handlers[lns].PayloadBytes)
         IN  IF found # <<>> /\ found[1].ok THEN <<found[1].bytes>> ELSE <<>>

\* common.ExtractBytes: the server's field, else the data already extracted.
ExtractBytes(m, lns, data) ==
    LET raw == ExtractPayloadBytes(m, lns)
    IN  IF raw # <<>> THEN raw[1]
        ELSE IF data # <<>> /\ data[1].ok THEN data[1].bytes
        ELSE <<>>

Located(gw) ==
    /\ {"location", "rssi"} \subseteq DOMAIN gw
    /\ {"latitude", "longitude"} \subseteq DOMAIN gw.location
Gateway(gw) == [lat |-> gw.location.latitude, lon |-> gw.location.longitude, rssi |-> gw.rssi]

\* TTN takes half a location, and no signal strength, for zero.
TTNGateway(gw) ==
    LET place == IF "location" \in DOMAIN gw THEN gw.location ELSE <<>>
        value(o, key) == IF key \in DOMAIN o THEN o[key] ELSE 0
    IN  [lat |-> value(place, "latitude"), lon |-> value(place, "longitude"),
         rssi |-> value(gw, "rssi")]

\* The gateways a position can be computed from; err tells an error from none.
ExtractGatewayLocations(rx, lns) ==
    LET all == IF lns = "ttn" THEN [n \in DOMAIN rx |-> TTNGateway(rx[n])] ELSE <<>>
        gws == IF lns = "ttn" THEN SelectSeq(all, LAMBDA g : g.lat # 0 \/ g.lon # 0)
               ELSE LET located == SelectSeq(rx, Located)
                    IN  [n \in DOMAIN located |-> Gateway(located[n])]
    IN  [gws |-> gws, err |-> IF lns = "ttn" THEN rx = <<>> ELSE gws = <<>>]

\* The name of the event in the query of ChirpStack's webhook, by the substring
\* the code looks for.
ChirpStackEvents ==
    [up |-> "uplink", join |-> "join", log |-> "alert", status |-> "status", ack |-> "ack",
     txack |-> "ack", location |-> "ack", integration |-> "ack"]
ChirpStackEventType(m) ==
    LET event == Follow(m, <<"metadata", "query">>)
    IN  IF event # <<>> /\ event[1] \in DOMAIN ChirpStackEvents
        THEN ChirpStackEvents[event[1]] ELSE "unknown"

\* The first of these keys the wrapped message has.
TTNEvents ==
    <<<<"uplink_message", "uplink">>, <<"join_accept", "join">>, <<"downlink_failed", "alert">>,
      <<"downlink_nack", "alert">>, <<"downlink_ack", "ack">>, <<"downlink_queued", "ack">>,
      <<"downlink_sent", "ack">>, <<"location_solved", "ack">>, <<"service_data", "ack">>>>
HeliumEvents ==
    <<<<"payload", "uplink">>, <<"hotspots", "uplink">>, <<"fport", "uplink">>>>

Classified(m, events) ==
    LET hits == {n \in DOMAIN events : events[n][1] \in DOMAIN Wrapped(m)}
    IN  IF hits = {} THEN "unknown" ELSE events[Min(hits)][2]

\* A mutant: every server's events are told by the fields of the message.
EventTypeByFields(m, lns) == Classified(m, TTNEvents)
ExtractEventType(m, lns) ==
    CASE lns = "chirpstack" -> ChirpStackEventType(m)
      [] lns = "ttn" -> Classified(m, TTNEvents)
      [] lns = "helium" -> Classified(m, HeliumEvents)
      [] OTHER -> "unknown"

\* The code of the alert in a message, <<>> where there is none.  TTN's may be "".
ExtractAlert(m, lns) ==
    LET failed == Follow(m, <<"decoded_raw_data", "downlink_failed", "error">>)
        name == Follow(failed, <<"name">>)
    IN  CASE lns = "chirpstack" -> Follow(m, <<"decoded_raw_data", "code">>)
          [] lns = "ttn" /\ DOMAIN failed # {} -> IF name = <<>> THEN <<"">> ELSE name
          [] lns = "ttn" /\ DOMAIN failed = {} /\ "downlink_nack" \in DOMAIN Wrapped(m) ->
                <<"DOWNLINK_NACK">>
          [] OTHER -> <<>>
=============================================================================
