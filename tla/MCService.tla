------------------------------ MODULE MCService ------------------------------
(***************************************************************************)
(* Messages for TLC: for every device model payloads put together from     *)
(* known readings by the layout its decoder documents, in the envelopes of *)
(* the three network servers, and some cut short; events; API messages.    *)
(***************************************************************************)
EXTENDS Service

\* Writing integers: n in size bytes, two's complement.
BE(n, size) == [i \in 1 .. size |-> (n \div 256^(size - i)) % 256]
LE(n, size) == Reverse(BE(n, size))
B32(n) == <<BE(n \div 65536, 2), BE(n % 65536, 2)>>
BE4(n) == B32(n)[1] \o B32(n)[2]
LE4(n) == Reverse(BE4(n))
Zeros(n) == [i \in 1 .. n |-> 0]
Hex(b) == LET digit(d) == IF d < 10 THEN 48 + d ELSE 87 + d
          IN  FlattenSeq([i \in DOMAIN b |-> <<digit(b[i] \div 16), digit(b[i] % 16)>>])

Nowhere == <<>>
At7(lat, lon) == <<[lat |-> lat, lon |-> lon, degree |-> 10000000, bearing |-> 0]>>
At6(lat, lon) == <<[lat |-> lat, lon |-> lon, degree |-> 1000000, bearing |-> 0]>>

Sample(profile, fPort, bytes, expect, fix) ==
    [profile |-> profile, fPort |-> fPort, bytes |-> bytes, object |-> <<>>, expect |-> expect,
     fix |-> fix]
Told(profile, object, expect, fix) ==
    [Sample(profile, 2, Zeros(3), expect, fix) EXCEPT !.object = <<object>>]

LatLE == LE4(210300000 + 14)
Tail2 == LE(12500, 2) \o LE(330, 2) \o <<249, 5>>
G62Part1 == [trip_type |-> "movement", ignition |-> TRUE, dig_in_1 |-> FALSE, dig_in_2 |-> FALSE,
             dig_out |-> TRUE, heading |-> 180000, speed |-> 60000, battery_voltage |-> 4000]
G62Part2 == [external_voltage |-> 12500, analog_input |-> 330, temperature |-> -7000,
             gps_accuracy |-> 5000]
G62Bytes1 == LatLE \o LE4(-1058500000 + 9) \o <<90, 60, 200>>

Status == LE4(100000) \o LE(\h8002, 2) \o LE4(123456) \o LE4(789) \o Zeros(8)
          \o <<3, 200, 150, 80, 100, 30>>
StatusReadings ==
    [is_sensing |-> FALSE, error_code |-> 2000, total_volume |-> 123456000,
     total_heat |-> 789000, leak_state |-> "medium", battery_active |-> 3400000,
     battery_recovered |-> 3000000, water_temperature_min |-> 20000,
     water_temperature_max |-> 30000, ambient_temperature |-> -5000]

T1000Events == [motion |-> TRUE, shock_event |-> FALSE, temperature_event |-> FALSE,
                light_event |-> FALSE, sos_alert |-> TRUE, press_once_event |-> FALSE]
HTReadings == [occupancy |-> TRUE, temperature |-> 20000,
               humidity |-> 50000, battery_voltage |-> 3800, battery |-> 100000,
               pir_trigger_count |-> 7]
AM307Bytes == <<\h01, \h75, 92, \h03, \h67>> \o LE(-15, 2) \o <<\h04, \h68, 131, \h05, 0, 1>>

Samples == <<
    Sample("ABEEWAY_INDUSTRIAL_TRACKER", 18,
        <<3, 20, 150, 46, 0, 0, 1>> \o BE4(107654321) \o BE4(-1066500000) \o <<0, 0>>
            \o BE(359, 2) \o BE(12, 2) \o <<0>>,
        [battery_voltage |-> 3500, battery_percent |-> 42000, temperature |-> 23000,
         sos_alert |-> TRUE, motion |-> TRUE, heading |-> 359000, speed |-> 12000],
        At7(107654321, -1066500000)),
    Sample("ABEEWAY_INDUSTRIAL_TRACKER", 18, <<5, 0, 40, 246, 0>>,
        [battery_voltage |-> 2400, battery_percent |-> 0, temperature |-> -5000,
         sos_alert |-> FALSE, motion |-> FALSE], Nowhere),
    Sample("R718N17", 6, <<1, \h49, 1, 128 + 36>> \o BE(500, 2) \o <<10, 0>>,
        [battery_voltage |-> 3600, low_battery |-> 1000, current_raw_ma |-> 500000,
         multiplier |-> 10000, current_ma |-> 5000000], Nowhere),
    Sample("R718N17", 7, <<\h82, \h49>> \o BE(60, 2) \o BE(3600, 2) \o BE(100, 2) \o <<0>>,
        [min_time_s |-> 60000, max_time_s |-> 3600000, current_change_ma |-> 100000], Nowhere),
    Sample("R809AG", 6, <<1, 14, 1, 1>> \o BE4(70000) \o <<0, 1, 0>>,
        [switch |-> "on", energy |-> 70000000, overcurrent_alarm |-> 0,
         dash_current_alarm |-> 1000, power_off_alarm |-> 0], Nowhere),
    Sample("R809AG", 6, <<1, 14, 2>> \o BE(230, 2) \o BE(1500, 2) \o BE(345, 2),
        [voltage |-> 230000, current |-> 1500000, power |-> 345000], Nowhere),
    Sample("LCC01LB", 2, BE(3600, 2) \o <<1>> \o BE(70000, 3) \o <<1>> \o BE(10, 2),
        [battery_voltage |-> 3600, mod |-> 1000, weight_reading |-> 70000000,
         weight_state |-> 1000, scale_factor |-> 10000, actual_weight_g |-> 700000000], Nowhere),
    Sample("LCC01LB", 5, <<\h32, 1, \h23, 15, \hff>> \o BE(3300, 2),
        [battery_voltage |-> 3300, sensor_model |-> "LCC01-LB", firmware_version |-> <<1, 2, 3>>,
         frequency_band |-> Null, sub_band |-> Null], Nowhere),
    Sample("LSN50V2_S31", 2, BE(3300, 2) \o Zeros(4) \o <<129>> \o BE(-53, 2) \o BE(605, 2),
        [battery_voltage |-> 3300, exti_trigger |-> 1000, door_status |-> 1000, work_mode |-> 0,
         temperature_sht31 |-> -5300, humidity_sht31 |-> 60500], Nowhere),
    Sample("LSN50V2_S31", 3, Zeros(11) \o Zeros(3) \o BE(251, 2) \o BE(605, 2) \o BE4(1700000000),
        [temperature_sht31 |-> 25100, humidity_sht31 |-> 60500], Nowhere),
    Sample("SEN0313", 2, <<7, \hff, 4, 210, 213, \hff, 5, 220, 224>>, [water_depth |-> 150000],
        Nowhere),
    Sample("AM307", 85, AM307Bytes, [battery |-> 92000, temperature |-> -1500,
        humidity |-> 65500, pir_sensor_value |-> 1000, occupancy |-> TRUE,
        pir_sensor_status |-> "trigger"], Nowhere),
    Sample("AM307", 85, Hex(<<\h07, \h7d>> \o LE(40000, 2) \o <<\h08, \he6>> \o LE(600, 2)),
        [co2 |-> 40000000, tvoc |-> 600000], Nowhere),
    Sample("QUANDIFY_CUBICMETER", 1, Status, StatusReadings, Nowhere),
    Sample("QUANDIFY_CUBICMETER", 6, <<0, 0, 1>> \o Status, StatusReadings, Nowhere),
    Sample("CT101", 85, <<\hff, 1, 1, 4, \h98>> \o LE(1234, 2) \o <<3, \h97>> \o LE4(100000)
                        \o <<9, \h67>> \o LE(-55, 2),
        [current |-> 12340, total_current |-> 1000000, temperature |-> -5500], Nowhere),
    Sample("CT101", 85, <<\h84, \h98>> \o LE(2000, 2) \o LE(100, 2) \o LE(1500, 2) \o <<5>>
                        \o <<\h89, \h67>> \o LE(900, 2) \o <<1>>,
        [current |-> 15000, current_alarm |-> "on", temperature |-> 90000,
         temperature_alarm |-> "on"], Nowhere),
    Sample("MCLIMATE_HT", 2, <<\h51, 6, 88, 128, 255, 7>>, HTReadings, Nowhere),
    Sample("MCLIMATE_HT", 2, Hex(<<4, 1, \h51, 0, 250, 0, 80, 0>>),
        [occupancy |-> FALSE, temperature |-> -15000, humidity |-> 0, battery_voltage |-> 2290, battery |-> 18125,
         pir_trigger_count |-> 0], Nowhere),
    Sample("RAK2270", 2, <<1, \h67>> \o BE(-25, 2) \o <<2, 2>> \o BE(360, 2),
        [temperature |-> -2500, battery_voltage |-> 3600], Nowhere),
    Sample("RAK4630", 2, <<-5, 60, 1013>> \o [i \in 1 .. 11 |-> Junk] \o <<-33, 151>>
                         \o [i \in 1 .. 5 |-> Junk] \o <<4>>,
        [temperature |-> -5000, humidity |-> 60000, pressure |-> 1013000,
         battery_voltage |-> 4000],
        <<[lat |-> -33, lon |-> 151, degree |-> 1, bearing |-> 0]>>),
    Sample("RAK7200", 8, LE4(21030000) \o LE4(-105850000) \o <<80>> \o LE(-512, 2),
        [battery |-> 80000, temperature |-> -5120], At6(21030000, -105850000)),
    Sample("SENSECAP_T1000", 5, <<6, 0, 0, 65>> \o Zeros(5) \o BE4(1058500000) \o BE4(210300000)
                                \o BE(-12, 2) \o BE(300, 2) \o <<77>>,
        T1000Events @@ [temperature |-> -1200, light |-> 300000, battery_level |-> 77000],
        At7(210300000, 1058500000)),
    Sample("SENSECAP_T1000E", 5, <<\h1f, 2, 66>> \o BE(\h8000, 2) \o BE(30, 2) \o Zeros(6)
                                 \o BE4(-105850000) \o BE4(21030000),
        [motion |-> TRUE, battery_level |-> 66000, light |-> 30000], At6(21030000, -105850000)),
    Sample("TBEAM", 1, <<1, \h67>> \o BE(-31, 2) \o <<2, \h68, 111, 5, \h88>> \o BE(-210300, 3)
                       \o BE(1058500, 3) \o BE(-10, 3),
        [temperature |-> -3100, humidity |-> 55500],
        <<[lat |-> -210300, lon |-> 1058500, degree |-> 10000, bearing |-> 0]>>),
    Told("WLBV1", [vBat |-> 3700, waterlevel_cm |-> 42500, latitude |-> 16050, longitude |-> 108200],
        [battery |-> 3700, water_depth |-> 42500],
        <<[lat |-> 16050, lon |-> 108200, degree |-> 1000, bearing |-> 0]>>),
    Told("WLBV1", [battery_voltage |-> 3500, lat |-> 95000, lng |-> 108200], [battery |-> 3500],
        Nowhere),
    Sample("YABBY_EDGE", 5, <<32, 0>> \o LE4(210300000) \o LE4(-1058500000) \o Zeros(4),
        [trip_status |-> TRUE, inactivity |-> FALSE], At7(210300000, -1058500000)),
    Sample("YABBY_EDGE", 1, <<2, 1, 90, 3, 0, 0, 0, 200, 0, 0>>,
        [firmware |-> <<2, 1>>, battery_voltage |-> 3400, battery_level |-> 88000], Nowhere),
    Sample("G62", 1, G62Bytes1 \o Tail2, G62Part1 @@ G62Part2, At7(210300000, -1058500000)),
    Sample("G62", 2, G62Bytes1, G62Part1, At7(210300000, -1058500000)),
    Sample("G62", 3, Tail2, G62Part2, Nowhere) >>

-----------------------------------------------------------------------------
\* The envelopes: the message of each server, and how it comes over MQTT.
Data(bytes) == <<[ok |-> TRUE, bytes |-> bytes]>>
Hotspot == <<[location |-> [latitude |-> 21, longitude |-> 105], rssi |-> -80]>>

Message(lns, s) ==
    (CASE lns = "chirpstack" ->
            [deviceInfo |-> [devEui |-> <<"d">>], fPort |-> <<s.fPort>>, rxInfo |-> <<Hotspot>>,
             txInfo |-> [frequency |-> <<868>>], data |-> Data(s.bytes)]
       [] lns = "ttn" ->
            [end_device_ids |-> [dev_eui |-> <<"d">>],
             uplink_message |-> [f_port |-> <<s.fPort>>, rx_metadata |-> <<Hotspot>>,
                                 settings |-> [frequency |-> <<868>>],
                                 frm_payload |-> Data(s.bytes)]]
       [] lns = "helium" ->
            [dev_eui |-> <<"d">>, fport |-> <<s.fPort>>, hotspots |-> <<Hotspot>>,
             frequency |-> <<868>>, payload |-> Data(s.bytes)])
    @@ (IF s.object = <<>> THEN [k \in {} |-> 0] ELSE [object |-> s.object])

Source(lns, event) == [metadata |-> [lorawan_source |-> <<lns>>, query |-> <<event>>]]
Bare(lns, event, m) == Source(lns, event) @@ m
RawData(lns, event, m) == Source(lns, event) @@ [raw_data |-> <<m>>]
NestedText(m) == [payload |-> <<[message |-> m]>>]

Kind(kind, s, body) ==
    [kind |-> kind, body |-> body, profile |-> s.profile, upper |-> TRUE, expect |-> s.expect,
     fix |-> s.fix]
Envelopes(lns, s) ==
    LET m == Message(lns, s)
        wrapped == RawData(lns, "up", m)
    IN  <<Kind("uplink", s, Bare(lns, "up", m)), Kind("uplink", s, wrapped),
          Kind("uplink", s, NestedText(wrapped)),
          [Kind("uplink", s, wrapped) EXCEPT !.upper = FALSE]>>

Servers == <<"chirpstack", "ttn", "helium">>
UplinkMessages ==
    FlattenSeq([n \in DOMAIN Samples |->
        FlattenSeq([l \in DOMAIN Servers |-> Envelopes(Servers[l], Samples[n])])])

-----------------------------------------------------------------------------
Record(bytes, readings) == [bytes |-> bytes, readings |-> readings]
Temperature(deg) == [temperature |-> 1000 * deg]
Streams ==
    [AM307 |-> <<Record(<<3, \h67>> \o LE(200, 2), Temperature(20)),
                 Record(<<\h20, \hce>> \o Zeros(16), NoReadings),
                 Record(<<4, \h68, 100>>, [humidity |-> 50000]),
                 Record(<<3, \h67>> \o LE(-200, 2), Temperature(-20))>>,
     CT101 |-> <<Record(<<4, \h98>> \o LE(100, 2), [current |-> 1000]),
                 Record(<<\hff, 9, 1, 2>>, NoReadings),
                 Record(<<9, \h67>> \o LE(-200, 2), Temperature(-20)),
                 Record(<<\h89, \h67>> \o LE(900, 2) \o <<1>>,
                        Temperature(90) @@ [temperature_alarm |-> "on"])>>,
     TBEAM |-> <<Record(<<1, \h67>> \o BE(200, 2), Temperature(20)),
                 Record(<<1, \h71>> \o Zeros(6), NoReadings),
                 Record(<<1, \h68, 100>>, [humidity |-> 50000]),
                 Record(<<1, \h67>> \o BE(-200, 2), Temperature(-20))>>,
     RAK2270 |-> <<Record(<<1, \h67>> \o BE(200, 2), Temperature(20)),
                   Record(<<2, 2>> \o BE(360, 2), [battery_voltage |-> 3600]),
                   Record(<<1, \h67>> \o BE(-200, 2), Temperature(-20))>>,
     SENSECAP_T1000E |->
        <<Record(<<\h23, 0, 50>> \o BE(200, 2) \o BE(1, 2) \o <<1>> \o Zeros(7),
                 [motion |-> FALSE, battery_level |-> 50000, temperature |-> 20000,
                  light |-> 1000]),
          Record(<<\h24, 1, 49>> \o BE(\h8000, 2) \o BE(2, 2) \o <<2>> \o Zeros(14),
                 [motion |-> TRUE, battery_level |-> 49000, light |-> 2000]),
          Record(<<\h26, 0, 48>> \o BE(-200, 2) \o BE(3, 2),
                 [motion |-> FALSE, battery_level |-> 48000, temperature |-> -20000,
                  light |-> 3000])>>]

Cuts(profile) ==
    LET records == Streams[profile]
        bytes == FlattenSeq([n \in DOMAIN records |-> records[n].bytes])
    IN  [came \in 1 .. Len(bytes) |->
            LET s == Sample(profile, 5, SubSeq(bytes, 1, came), NoReadings, Nowhere)
            IN  [came |-> came, sent |-> bytes,
                 records |-> [n \in DOMAIN records |->
                    [size |-> Len(records[n].bytes), readings |-> records[n].readings]]]
                @@ Kind("cut", s, RawData("ttn", "up", Message("ttn", s)))]
CutMessages ==
    FlattenSeq([n \in 1 .. 5 |->
        Cuts(<<"AM307", "CT101", "TBEAM", "RAK2270", "SENSECAP_T1000E">>[n])])

-----------------------------------------------------------------------------
\* What the servers send besides uplinks; a join of ChirpStack has an uplink's fields.
AnEvent(lns, event, m) ==
    Kind("event", Sample("TBEAM", 1, <<>>, NoReadings, Nowhere), RawData(lns, event, m))
Blank == Sample("TBEAM", 1, Zeros(4), NoReadings, Nowhere)
EventMessages ==
    [n \in 1 .. 8 |-> AnEvent("chirpstack",
        <<"join", "log", "status", "ack", "txack", "location", "integration", "log">>[n],
        IF n = 2 THEN [code |-> <<"UPLINK_CODEC">>] ELSE Message("chirpstack", Blank))]
    \o <<AnEvent("ttn", "", [join_accept |-> <<1>>]), AnEvent("ttn", "", [service_data |-> <<1>>]),
         AnEvent("ttn", "", [downlink_failed |-> [error |-> [name |-> <<"ABORTED">>]]]),
         AnEvent("ttn", "", [downlink_nack |-> <<1>>]), AnEvent("ttn", "", [downlink_sent |-> <<1>>])>>

\* Messages of the HTTP API, known by their source or by their fields.
MCSpelling == [plain |-> <<"a", "b">>, spaced |-> <<" ", "A", " ", "-", "B", " ">>,
               dashed |-> <<"_", "a", "-", "1", "$", "$">>, blank |-> <<"$", " ">>]
NormalForm == [plain |-> <<"a", "b">>, spaced |-> <<"a", "_", "_", "b">>,
               dashed |-> <<"a", "_", "1">>, blank |-> <<"value">>]
Scalar(v) == [scalar |-> TRUE, value |-> v]
Compound == [scalar |-> FALSE, value |-> 0]
Content(bytes, json) == [ok |-> TRUE, bytes |-> bytes, json |-> json]
\* {"a":1}, for every object: decoders of bytes go no further than the brace.
Object(fields) == Content(<<123, 34, 97, 34, 58, 49, 125>>, <<fields>>)
ApiBodies(content) ==
    LET m == [serialNumber |-> <<"d">>, payload |-> <<content>>]
        api == [metadata |-> [api_source |-> <<"api">>]]
    IN  <<m, api @@ m, [raw_data |-> <<m>>], api @@ [raw_data |-> <<m>>],
          NestedText(api @@ [raw_data |-> <<m>>])>>
PostsFrom(profile, content, expect, fix, names) ==
    [n \in 1 .. 5 |-> [names |-> names]
        @@ Kind("api", Sample(profile, 0, <<>>, expect, fix), ApiBodies(content)[n])]
Posts(profile, content, expect, names) == PostsFrom(profile, content, expect, Nowhere, names)
FieldSets == {{"plain"}, {"spaced", "dashed"}, {"plain", "spaced", "blank"}}
ApiMessages1(fields) ==
    Posts("unknown", Object([k \in fields |-> Scalar(1)] @@ [list |-> Compound]), NoReadings,
          {NormalForm[k] : k \in fields})
ApiMessagesAll ==
    FlattenSeq([n \in 1 .. 3 |-> ApiMessages1(SetToSeq(FieldSets)[n])])
    \o Posts("unknown", Content(<<1, 2>>, <<>>), NoReadings, {<<"raw_payload">>})
    \o Posts("CT101", Object([list |-> Compound]), NoReadings, {<<"raw_payload">>})
    \o Posts("AM307", Content(AM307Bytes, <<>>), Samples[12].expect, {})
    \o Posts("AM307", Object([plain |-> Scalar(1)]), NoReadings, {NormalForm.plain})
    \o PostsFrom("TBEAM", Content(<<5, \h88>> \o BE(-210300, 3) \o BE(1058500, 3) \o BE(-10, 3), <<>>),
                 NoReadings, <<[lat |-> -210300, lon |-> 1058500, degree |-> 10000, bearing |-> 0]>>,
                 {<<"raw_payload">>})
    \o Posts("SEN0313", Object([distance |-> Scalar(100000)]), [water_depth |-> 200000], {})
    \o <<[Posts("unknown", [ok |-> FALSE, bytes |-> <<>>, json |-> <<>>], NoReadings, {})[1]
            EXCEPT !.kind = "strange"]>>

\* Messages no property speaks of, besides data that are not base64: a nested message
\* that is not wrapped; one of a server nobody knows; one of a device whose model has
\* no profile; a log whose code cannot be read.
Strange ==
    <<Kind("strange", Blank, NestedText(Bare("ttn", "up", Message("ttn", Blank)))),
      Kind("strange", Blank, Bare("other", "up", Message("ttn", Blank))),
      [Kind("strange", Blank, RawData("ttn", "up", Message("ttn", Blank)))
          EXCEPT !.profile = "unknown"],
      Kind("strange", Blank, RawData("chirpstack", "log", Message("chirpstack", Blank)))>>

MCDeliveries == UplinkMessages \o CutMessages \o EventMessages \o ApiMessagesAll \o Strange
MCEstimate(gws) == [lat |-> gws[1].lat + 1, lon |-> gws[1].lon]

-----------------------------------------------------------------------------
MCOffsets == {-1, 0, 2, 4}
MCModels == {3, 5, 8}
MCBatches == UNION {[1 .. n -> {3, 8, 9}] : n \in 0 .. 4}
\* In decimetres, what findDistance gives for the signal strengths.
MCfindDistance == (-120) :> 117 @@ (-110) :> 66 @@ (-100) :> 37 @@ (-80) :> 12 @@ (-60) :> 4
MCStrength == (-120) :> 1 @@ (-110) :> 3 @@ (-100) :> 10 @@ (-80) :> 100 @@ (-60) :> 1000

-----------------------------------------------------------------------------
\* What the theorems of ServiceProofs suppose is so of these messages and signals.
ASSUME TheoremsApply ==
    /\ \A n \in DOMAIN Deliveries :
            /\ NoApiMessage(Deliveries[n]) /\ FixIsRead(Deliveries[n]) /\ IsEnclosed(Deliveries[n])
            /\ IsMarked(Deliveries[n]) /\ IsComplete(Deliveries[n])
            /\ ReadingsAreRead(Deliveries[n]) /\ ApiIsRead(Deliveries[n]) /\ IsCut(Deliveries[n])
    /\ SignalsInDBm
=============================================================================
