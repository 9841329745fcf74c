------------------------------- MODULE Uplinks -------------------------------
(***************************************************************************)
(* What becomes of one delivery (mqtt/message_handler.go), step by step:   *)
(* parsed, routed if it is an event, located, and turned into entities.    *)
(* The device service and the broker answer here; module MessagePipeline   *)
(* is about what goes wrong between the steps.                             *)
(*                                                                         *)
(* A delivery is [body, profile, upper, ...]: the message, the model that  *)
(* the device's mapping names ("unknown" where it has no profile), and     *)
(* whether it names it in upper case.  The fields that follow say what the *)
(* message means; only the properties read them:                           *)
(*   kind     "uplink", "event", "api" or "cut"                            *)
(*   expect   the readings in it, by entity                                *)
(*   fix      the position in it, <<>> if there is none                    *)
(*   records  of a message cut short: the readings and the size of each    *)
(*            record it had; sent are its bytes, came how many of them came*)
(*   names    of a message of the API: the keys of its scalars, "raw_payload"*)
(*            if it has none                                               *)
(***************************************************************************)
EXTENDS Entities, ApiMessages, FiniteSetsExt

CONSTANTS
    Deliveries,     \* the messages that may come, a sequence
    Bearings,       \* what the history of positions may give as a bearing
    Estimate(_)     \* the position computed from two gateways and more

VARIABLES
    delivery,       \* the message, or NoDelivery
    phase,          \* how far it has come
    payload,        \* the message as parsed
    place,          \* what of it positions are read from: "locationPayload"
    located,        \* the position, <<>> while there is none
    entities        \* the entities published

vars == <<delivery, phase, payload, place, located, entities>>

NoDelivery == [body |-> <<>>]
Phases == {"idle", "received", "parsed", "located", "published",
           "event", "ignored", "failed", "untold"}

Idling ==
    /\ delivery = NoDelivery /\ phase = "idle"
    /\ payload = <<>> /\ place = <<>> /\ located = <<>> /\ entities = <<>>

Receive ==
    /\ phase = "idle"
    /\ \E n \in DOMAIN Deliveries : delivery' = Deliveries[n]
    /\ phase' = "received"
    /\ UNCHANGED <<payload, place, located, entities>>

\* The field "payload" may hold a message of its own as text, and "raw_data" an
\* encoded one.  A nested message is never what positions are read from.
With(message, key, value) ==
    [k \in DOMAIN message \cup {key} |-> IF k = key THEN value ELSE message[k]]
Nested(body) ==
    LET text == Follow(body, <<"payload">>)
    IN  IF text # <<>> /\ "message" \in DOMAIN text[1] THEN text[1].message ELSE body

MessageOf(body) ==
    LET outer == Nested(body)
        raw == Follow(outer, <<"raw_data">>)
    IN  IF raw # <<>> THEN With(outer, "decoded_raw_data", raw[1]) ELSE outer
PlaceOf(body) ==
    LET raw == Follow(Nested(body), <<"raw_data">>)
    IN  IF raw # <<>> THEN raw[1] ELSE body

ParseMessage ==
    /\ phase = "received"
    /\ payload' = MessageOf(delivery.body) /\ place' = PlaceOf(delivery.body)
    /\ phase' = "parsed"
    /\ UNCHANGED <<delivery, located, entities>>

LNS == ExtractLNSSource(payload)
EventType == ExtractEventType(payload, LNS)

\* A join is told to the event queue, an alert if its code can be read.
RouteEvent ==
    /\ phase = "parsed" /\ ~isAPIMessage(payload)
    /\ EventType \notin {"uplink", "unknown"}
    /\ phase' = IF EventType = "join" \/ (EventType = "alert" /\ ExtractAlert(payload, LNS) # <<>>)
                THEN "event" ELSE "ignored"
    /\ UNCHANGED <<delivery, payload, place, located, entities>>

Origin == [lat |-> 0, lon |-> 0, degree |-> 1, bearing |-> 0]

\* CalculateDeviceLocationWithLNSContext: <<>> where it returns an error.
CalculateDeviceLocation(m, lns, bearing) ==
    LET rx == ExtractField(m, lns, "RxMetadata")
        found == ExtractGatewayLocations(rx[1], lns)
        at == IF Len(found.gws) = 1 THEN found.gws[1] ELSE Estimate(found.gws)
    IN  IF \/ \E field \in {"RxMetadata", "Frequency", "DevEUI"} : ExtractField(m, lns, field) = <<>>
           \/ found.err
        THEN <<>>
        ELSE IF found.gws = <<>> THEN <<Origin>>
        ELSE <<[lat |-> at.lat, lon |-> at.lon, degree |-> 1, bearing |-> bearing]>>

\* A mutant: the heading that the device reports is not resolved.
extractGPSAsParsed(m, lns, profile, bearing) ==
    Optional(Decode(profile, RawPayload(m, lns, <<>>, <<>>)).location)
\* extractGPSFromDeviceParser: the data already extracted is not handed over.
extractGPS(m, lns, profile, bearing) ==
    LET decoded == Decode(profile, RawPayload(m, lns, <<>>, <<>>))
        parsed == Optional(decoded.location)
        device == IF parsed = <<>> THEN <<>> ELSE <<[parsed[1] EXCEPT !.bearing = bearing]>>
    IN  IF ExtractField(m, lns, "DevEUI") = <<>> THEN <<>>
        ELSE IF parsed = <<>> THEN <<Origin>>
        ELSE ResolveLocationBearing(parsed, device, decoded.readings)

\* The profile is looked up as the mapping writes it, here alone.
Resolve ==
    /\ phase = "parsed" /\ ~isAPIMessage(payload)
    /\ EventType \in {"uplink", "unknown"}
    /\ \E bearing \in Bearings :
          located' = IF delivery.upper /\ SupportsGPS(delivery.profile)
                     THEN extractGPS(place, LNS, delivery.profile, bearing)
                     ELSE CalculateDeviceLocation(place, LNS, bearing)
    /\ phase' = IF located' = <<>> THEN "failed" ELSE "located"
    /\ UNCHANGED <<delivery, payload, place, entities>>

\* processEntities, parseEntities: an invalid position is left out.
ProcessEntities ==
    /\ phase = "located"
    /\ LET at == located[1]
           device == IF ValidateCoordinates(at.lat, at.lon, at.degree) THEN located ELSE <<>>
           raw == RawPayload(payload, LNS, ExtractField(payload, LNS, "PayloadData"), <<>>)
       IN  IF CanHandle(delivery.profile)
           THEN entities' = ParseToEntities(delivery.profile, raw, device) /\ phase' = "published"
           ELSE entities' = <<>> /\ phase' = "untold"
    /\ UNCHANGED <<delivery, payload, place, located>>

\* buildAPIProfileTelemetryPayload: no server is named, so the data are the payload's.
APIRawPayload(content) ==
    LET text == content.json
    IN  [RawPayload(<<>>, "unknown", <<content>>, <<>>)
            EXCEPT !.depth = [n \in DOMAIN text |-> [k \in DOMAIN text[n] |-> text[n][k].value]]]
APIProfileEntities(content) ==
    IF CanHandle(delivery.profile)
    THEN ParseToEntities(delivery.profile, APIRawPayload(content), <<>>) ELSE <<>>

HandleAPIMessage ==
    /\ phase = "parsed" /\ isAPIMessage(payload)
    /\ LET message == extractAPIPayload(payload)
           content == message[1].Payload
       IN  IF message = <<>> \/ ~content.ok
           THEN phase' = "failed" /\ UNCHANGED entities
           ELSE /\ entities' = IF APIProfileEntities(content) # <<>>
                               THEN APIProfileEntities(content) ELSE buildAPIEntities(content)
                /\ phase' = IF entities' = <<>> THEN "failed" ELSE "published"
    /\ UNCHANGED <<delivery, payload, place, located>>

\* The consumer takes the next message.
Ended == {"published", "event", "ignored", "failed", "untold"}
NextMessage ==
    /\ phase \in Ended
    /\ delivery' = NoDelivery /\ phase' = "idle"
    /\ payload' = <<>> /\ place' = <<>> /\ located' = <<>> /\ entities' = <<>>

UplinkNext ==
    \/ Receive \/ ParseMessage \/ RouteEvent \/ Resolve \/ ProcessEntities
    \/ HandleAPIMessage \/ NextMessage

-----------------------------------------------------------------------------
Done(kind) == phase \in Ended /\ delivery.kind = kind
EntityKeys == {entities[n].key : n \in DOMAIN entities}
State(key) == entities[CHOOSE n \in DOMAIN entities : entities[n].key = key].state
\* The entities tell these readings, and no other one.
Tell(readings) ==
    /\ EntityKeys \ {"location"} = DOMAIN readings
    /\ \A key \in DOMAIN readings : State(key) = readings[key]

\* A reading of a device is published with its value, whatever server sent the
\* message and however it was wrapped (LNS adapters, decoders, definitions).
MeasurementsSurvive ==
    Done("uplink") => phase = "published" /\ Tell(delivery.expect)

\* A message that holds a position gives one location, with the bearing that the
\* resolver found for it, though the resolver and the entity parser each decode
\* the message for themselves; a message that holds none gives no "gps" location.
OneFixPerMessage ==
    Done("uplink") /\ delivery.upper =>
        IF delivery.fix = <<>>
        THEN "location" \in EntityKeys => State("location").source # "gps"
        ELSE /\ "location" \in EntityKeys
             /\ State("location").source = "gps" /\ State("location").position = located
             /\ [located[1] EXCEPT !.bearing = 0] = [delivery.fix[1] EXCEPT !.bearing = 0]

\* The entities of a device are among those its templates announced when it was
\* added, and none is told twice (ParseToEntities against GetEntityTemplates).
EntitiesAreDeclared ==
    Done("uplink") \/ Done("cut") =>
        /\ EntityKeys \subseteq ToSet(GetEntityTemplates(delivery.profile))
        /\ Cardinality(EntityKeys) = Len(entities)

\* No event that its network server marks is taken for an uplink, and no uplink for an
\* event.  (Bare TTN and Helium joins have no mark that the handlers look for.)
EventsAreRouted ==
    /\ Done("event") => phase \in {"event", "ignored"}
    /\ Done("uplink") \/ Done("cut") => phase \notin {"event", "ignored"}

\* Where each record of a message ends.
Ends(r) ==
    LET end[n \in 0 .. Len(r)] == IF n = 0 THEN 0 ELSE end[n - 1] + r[n].size
    IN  end

\* A message cut short tells all of the records that came whole and nothing of
\* the rest, wherever it was cut; CT101 alone then discards the whole message.
TailLossOnly ==
    LET r == delivery.records
        end == Ends(r)
        whole == CHOOSE n \in 0 .. Len(r) :
                    end[n] <= delivery.came /\ (n < Len(r) => end[n + 1] > delivery.came)
        left == delivery.came - end[whole]
        readings == Merged([n \in 1 .. whole |-> r[n].readings])
    IN  Done("cut") =>
            Tell(IF delivery.profile = "CT101" /\ (left >= 2 \/ delivery.came < 4)
                 THEN NoReadings ELSE readings)

\* Of a message of the HTTP API a profile tells a location if it reports one that
\* the message holds, and always if it has it computed: one without a position.
TellsLocation(d) ==
    /\ CanHandle(d.profile)
    /\ \/ SupportsGPS(d.profile) /\ d.fix # <<>>
       \/ Registry[d.profile].location = "computed"

\* A message of the HTTP API that can be decoded is reported: by the device's profile
\* if that has something to tell, else every scalar of it under its own name.  A
\* location is something to tell, even one without a position: then the scalars of a
\* message in which the profile reads nothing are not told (handleAPIMessage).
ApiMessagesAreReported ==
    Done("api") =>
        /\ phase = "published" /\ entities # <<>>
        /\ IF DOMAIN delivery.expect # {} \/ TellsLocation(delivery)
           THEN /\ Tell(delivery.expect)
                /\ "location" \in EntityKeys <=> TellsLocation(delivery)
           ELSE EntityKeys = delivery.names

-----------------------------------------------------------------------------
\* What ServiceProofs supposes of each message, and MCService assumes of its own.

\* What a network server sends has no field of the HTTP API's messages.
NoApiMessage(d) == d.kind \in {"uplink", "cut"} => ~isAPIMessage(MessageOf(d.body))

\* What a message is decoded to by the resolver, and by the entity parser.
ReadByResolver(d) ==
    Decode(d.profile, RawPayload(PlaceOf(d.body), ExtractLNSSource(MessageOf(d.body)), <<>>, <<>>))
RawByParser(d) ==
    LET m == MessageOf(d.body)
        lns == ExtractLNSSource(m)
    IN  RawPayload(m, lns, ExtractField(m, lns, "PayloadData"), <<>>)
ReadByParser(d) == Decode(d.profile, RawByParser(d))

\* The fix that an uplink is said to hold is the one read where positions are read.
FixIsRead(d) ==
    LET fix == ReadByResolver(d).location
        lns == ExtractLNSSource(MessageOf(d.body))
    IN  d.kind = "uplink" /\ d.upper =>
            IF ~SupportsGPS(d.profile) THEN d.fix = <<>>
            ELSE /\ (d.fix = <<>>) = ~fix.found
                 /\ d.fix # <<>> =>
                      /\ ValidateCoordinates(fix.lat, fix.lon, fix.degree)
                      /\ [d.fix[1] EXCEPT !.bearing = 0] = Position(fix, 0)
                      /\ ExtractField(PlaceOf(d.body), lns, "DevEUI") # <<>>
                      /\ ExtractEventType(MessageOf(d.body), lns) \in {"uplink", "unknown"}

\* An uplink comes bare, or alone in raw_data.  It is no wrapped message itself, and
\* has a JSON object in "object" and not in "decoded_payload", as the servers send
\* it, and a Helium message its data where both places look for them.
IsEnclosed(d) ==
    LET outer == Nested(d.body)
        raw == Follow(outer, <<"raw_data">>)
        m == IF raw = <<>> THEN outer ELSE raw[1]
        object == Follow(m, <<"object">>)
    IN  d.kind = "uplink" =>
            /\ IF raw = <<>> THEN outer = d.body ELSE DOMAIN outer \subseteq {"metadata", "raw_data"}
            /\ {"decoded_raw_data", "decoded_payload"} \cap DOMAIN m = {}
            /\ object = <<>> \/ object = <<object[1]>>
            /\ ExtractLNSSource(MessageOf(d.body)) = "helium" => "frm_payload" \notin DOMAIN m

\* The states told of a device that gave these readings.
StatesOf(model, readings) ==
    [key \in ToSet(Registry[model].keys) \cap DOMAIN readings |-> AlarmState(key, readings[key])]

\* Network servers mark events and uplinks: ChirpStack in the query of its webhook,
\* TTN by a field, which may also be missing in an uplink; Helium sends no events.
IsMarked(d) ==
    LET m == MessageOf(d.body)
        lns == ExtractLNSSource(m)
        event == Follow(m, <<"metadata", "query">>)
        fields == DOMAIN Wrapped(m)
        marks == {TTNEvents[n][1] : n \in DOMAIN TTNEvents} \ {"uplink_message"}
    IN  /\ d.kind = "event" =>
            /\ ~isAPIMessage(m)
            /\ \/ lns = "chirpstack" /\ event # <<>> /\ event[1] \in DOMAIN ChirpStackEvents \ {"up"}
               \/ lns = "ttn" /\ "uplink_message" \notin fields /\ fields \cap marks # {}
        /\ d.kind \in {"uplink", "cut"} =>
            \/ lns = "chirpstack" /\ (event # <<>> => event[1] = "up")
            \/ lns = "ttn" /\ ("uplink_message" \in fields \/ fields \cap marks = {})
            \/ lns = "helium"

\* An uplink of a model that has a profile names its device and, if it is to be
\* located by its gateways, what that takes.
IsComplete(d) ==
    LET m == PlaceOf(d.body)
        lns == ExtractLNSSource(MessageOf(d.body))
        rx == ExtractField(m, lns, "RxMetadata")
        has(field) == ExtractField(m, lns, field) # <<>>
    IN  d.kind \in {"uplink", "cut"} =>
            /\ CanHandle(d.profile) /\ has("DevEUI")
            /\ \/ d.upper /\ SupportsGPS(d.profile)
               \/ has("RxMetadata") /\ has("Frequency") /\ ~ExtractGatewayLocations(rx[1], lns).err

\* The readings that an uplink is said to hold are those its decoder finds.
ReadingsAreRead(d) == d.kind = "uplink" => d.expect = StatesOf(d.profile, ReadByParser(d).readings)

\* A message of the HTTP API can be decoded; what it is said to hold is what the
\* device's profile reads in it and, if those are no readings, its scalars.
ApiIsRead(d) ==
    LET m == MessageOf(d.body)
        content == extractAPIPayload(m)[1].Payload
        decoded == Decode(d.profile, APIRawPayload(content))
        scalars == {k \in DOMAIN content.json[1] : content.json[1][k].scalar}
    IN  d.kind = "api" =>
            /\ isAPIMessage(m) /\ extractAPIPayload(m) # <<>> /\ content.ok
            /\ d.expect = IF CanHandle(d.profile) THEN StatesOf(d.profile, decoded.readings)
                          ELSE NoReadings
            /\ SupportsGPS(d.profile) => (d.fix = <<>>) = ~decoded.location.found
            /\ DOMAIN d.expect = {} =>
                 /\ content.json # <<>> => IsFiniteSet(DOMAIN content.json[1])
                 /\ d.names = IF content.json = <<>> \/ scalars = {} THEN {<<"raw_payload">>}
                              ELSE {normalizeAPIEntityKey(Spelling[k]) : k \in scalars}

\* The records of the bytes b that model's decoder walks, as it is in StreamDecoders.
RecordEnd(model, b, i) ==
    CASE model = "AM307" -> AM307End(b, i) [] model = "CT101" -> CT101End(b, i)
      [] model = "TBEAM" -> TBeamEnd(b, i) [] model = "RAK2270" -> RAK2270End(b, i)
      [] model = "SENSECAP_T1000E" -> T1000EEnd(b, i)
RecordRead(model, b, i) ==
    CASE model = "AM307" -> AM307Read(b, i) [] model = "CT101" -> CT101Read(b, i)
      [] model = "TBEAM" -> TBeamRead(b, i) [] model = "RAK2270" -> RAK2270Read(b, i)
      [] model = "SENSECAP_T1000E" -> decodeFrame(b, i)

\* A message that was cut short is the beginning of one made of whole records of
\* known types, whose readings are the ones it is said to have had.
IsCut(d) ==
    LET raw == RawByParser(d)
        r == d.records
        end == Ends(r)
    IN  d.kind = "cut" =>
            /\ r \in Seq(ToSet(r))
            /\ d.profile \in {"AM307", "CT101", "TBEAM", "RAK2270", "SENSECAP_T1000E"}
            /\ raw.fPort \notin {192, 199}
            /\ d.sent \in Seq(0 .. 255) /\ d.came \in 0 .. Len(d.sent)
            /\ raw.bytes = SubSeq(d.sent, 1, d.came)
            /\ end[Len(r)] = Len(d.sent)
            /\ \A n \in DOMAIN r :
                 /\ r[n].size \in Nat \ {0}
                 /\ d.profile = "RAK2270" => At(d.sent, end[n - 1] + 1) \in {\h67, \h02}
                 /\ RecordEnd(d.profile, d.sent, end[n - 1]) = end[n]
                 /\ r[n].readings = StatesOf(d.profile, RecordRead(d.profile, d.sent, end[n - 1]))

=============================================================================
