------------------------------ MODULE Entities ------------------------------
(***************************************************************************)
(* The entities a device is seen as: what each profile under               *)
(* internal/device_profiles makes of an uplink, the templates it gives     *)
(* before the first one, and the component that picks the profile.         *)
(*                                                                         *)
(* Every profile package repeats the same ParsePayload, ParseToEntities    *)
(* and GetEntityTemplates around its own list of definitions and its own   *)
(* way to a location: "reported" by the device, with the computed one as a *)
(* fallback, "computed" from the gateways, or "none".  A Profile is what   *)
(* differs; the two operators below are what is repeated.                  *)
(***************************************************************************)
EXTENDS LnsAdapters, StreamDecoders, FrameDecoders

Profile(manufacturer, location, keys) ==
    [manufacturer |-> manufacturer, location |-> location, keys |-> keys]

Abeeway == Profile("abeeway", "reported",
    <<"battery_voltage", "battery_percent", "temperature", "speed", "heading", "sos_alert",
      "motion">>)
R718N17 == Profile("netvox", "computed",
    <<"battery_voltage", "low_battery", "current_ma", "current_raw_ma", "multiplier",
      "config_status", "min_time_s", "max_time_s", "current_change_ma", "sw_version",
      "hw_version", "date_code">>)
R809AG == Profile("netvox", "none",
    <<"switch", "voltage", "current", "power", "energy", "overcurrent_alarm",
      "dash_current_alarm", "power_off_alarm">>)
LCC01LB == Profile("dragino", "none",
    <<"battery_voltage", "actual_weight_g", "weight_reading", "weight_state", "scale_factor",
      "weight_flag", "mod", "sensor_model", "firmware_version", "frequency_band", "sub_band">>)
LSN50v2 == Profile("dragino", "none",
    <<"battery_voltage", "exti_trigger", "door_status", "work_mode", "temperature_sht31",
      "humidity_sht31", "data_time", "sht_temp_min", "sht_temp_max", "sht_hum_min",
      "sht_hum_max", "firmware_version", "freq_band", "tdc_sec">>)
SEN0313 == Profile("dfrobot", "none", <<"water_depth">>)
AM307 == Profile("milesight", "computed",
    <<"temperature", "humidity", "battery", "occupancy", "pir_sensor_value",
      "pir_sensor_status", "light_level", "co2", "tvoc", "pressure">>)
Cubicmeter == Profile("quandify", "none",
    <<"total_volume", "total_heat", "ambient_temperature", "water_temperature_min",
      "water_temperature_max", "battery_active", "battery_recovered", "error_code",
      "leak_state", "is_sensing">>)
CT101 == Profile("milesight", "none",
    <<"current", "total_current", "temperature", "current_alarm", "temperature_alarm",
      "current_sensor_status", "temperature_sensor_status">>)
HT == Profile("mclimate", "computed",
    <<"temperature", "humidity", "battery_voltage", "battery", "occupancy",
      "pir_trigger_count">>)
RAK2270 == Profile("rakwireless", "computed", <<"temperature", "battery_voltage">>)
RAK4630 == Profile("rakwireless", "reported",
    <<"temperature", "humidity", "pressure", "battery_voltage">>)
RAK7200 == Profile("rakwireless", "reported", <<"battery", "temperature">>)
T1000 == Profile("seeed", "reported",
    <<"battery_level", "temperature", "light", "motion", "shock_event", "sos_alert",
      "temperature_event", "light_event", "press_once_event">>)
T1000E == Profile("seeed", "reported", <<"battery_level", "temperature", "light", "motion">>)
TBeam == Profile("lilygo", "reported",
    <<"temperature", "humidity", "pressure", "illuminance">>)
WLBV1 == Profile("dut", "reported", <<"battery", "water_depth">>)
YabbyEdge == Profile("digitalmatter", "reported",
    <<"battery_voltage", "battery_level", "trip_status", "inactivity", "trip_count",
      "firmware", "battery_stats", "downlink_ack", "connect">>)
G62 == Profile("digitalmatter", "reported",
    <<"heading", "speed", "battery_voltage", "external_voltage", "analog_input",
      "temperature", "gps_accuracy", "trip_type", "ignition", "dig_in_1", "dig_in_2",
      "dig_out", "odometer", "runtime", "firmware", "downlink_ack">>)

Registry ==
    [ABEEWAY_INDUSTRIAL_TRACKER |-> Abeeway, R718N17 |-> R718N17, R809AG |-> R809AG,
     LCC01LB |-> LCC01LB, LSN50V2_S31 |-> LSN50v2, SEN0313 |-> SEN0313, AM307 |-> AM307,
     QUANDIFY_CUBICMETER |-> Cubicmeter, CT101 |-> CT101, MCLIMATE_HT |-> HT,
     RAK2270 |-> RAK2270, RAK4630 |-> RAK4630, RAK7200 |-> RAK7200, SENSECAP_T1000 |-> T1000,
     SENSECAP_T1000E |-> T1000E, TBEAM |-> TBeam, WLBV1 |-> WLBV1, YABBY_EDGE |-> YabbyEdge,
     G62 |-> G62]

CanHandle(model) == model \in DOMAIN Registry
SupportsGPS(model) == CanHandle(model) /\ Registry[model].location = "reported"

\* What is handed to a parser: data is the field already extracted from the
\* message, text the JSON object that its bytes spell, if they do; object and depth
\* are the JSON objects among the fields that two of the parsers look into.
RawPayload(m, lns, data, text) ==
    LET fPort == ExtractField(m, lns, "FPort")
    IN  [fPort |-> IF fPort = <<>> THEN 0 ELSE fPort[1], bytes |-> ExtractBytes(m, lns, data),
         object |-> Follow(m, <<"decoded_payload">>)
                    \o Follow(m, <<"decoded_raw_data", "object">>) \o Follow(m, <<"object">>),
         depth |-> Follow(m, <<"decoded_payload">>) \o <<Wrapped(m)>>
                   \o Follow(m, <<"decoded_data">>) \o Follow(m, <<"data">>) \o text]

Decode(model, raw) ==
    LET b == raw.bytes
        fPort == raw.fPort
    IN  CASE model = "ABEEWAY_INDUSTRIAL_TRACKER" -> AbeewayDecode(b)
          [] model = "R718N17" -> R718N17Decode(fPort, b)
          [] model = "R809AG" -> R809AGDecode(fPort, b)
          [] model = "LCC01LB" -> LCC01Decode(fPort, b)
          [] model = "LSN50V2_S31" -> LSN50Decode(fPort, b)
          [] model = "SEN0313" -> SEN0313Decode(raw.depth, b)
          [] model = "AM307" -> AM307Decode(b)
          [] model = "QUANDIFY_CUBICMETER" -> CubicmeterDecode(fPort, b)
          [] model = "CT101" -> CT101Decode(b)
          [] model = "MCLIMATE_HT" -> HTDecode(b)
          [] model = "RAK2270" -> RAK2270Decode(b)
          [] model = "RAK4630" -> RAK4630Decode(b)
          [] model = "RAK7200" -> RAK7200Decode(b)
          [] model = "SENSECAP_T1000" -> T1000Decode(b)
          [] model = "SENSECAP_T1000E" -> T1000EDecode(fPort, b)
          [] model = "TBEAM" -> TBeamDecode(b)
          [] model = "WLBV1" -> WLBV1Decode(raw.object)
          [] model = "YABBY_EDGE" -> YabbyDecode(b)
          [] model = "G62" -> G62Decode(fPort, b)

\* Optional values are sequences of at most one element.
Position(fix, bearing) == [lat |-> fix.lat, lon |-> fix.lon, degree |-> fix.degree,
                           bearing |-> bearing]
Optional(fix) == IF fix.found THEN <<Position(fix, 0)>> ELSE <<>>

\* The device's heading comes first, then the bearing that was computed.
ResolveLocationBearing(parsed, device, readings) ==
    LET source == parsed \o device
        reported == SelectSeq(<<"heading", "bearing">>, LAMBDA k : k \in DOMAIN readings)
        bearing == IF reported # <<>> THEN readings[Head(reported)] % 360000
                   ELSE IF device # <<>> THEN device[1].bearing ELSE source[1].bearing
    IN  IF source = <<>> THEN <<>> ELSE <<Position(source[1], bearing)>>

Entity(key, state) == [key |-> key, state |-> state]
Sourced(source, position) == [source |-> source, position |-> position]

LocationEntity(how, decoded, device) ==
    LET parsed == Optional(decoded.location)
        resolved == ResolveLocationBearing(parsed, device, decoded.readings)
    IN  CASE how = "reported" /\ resolved # <<>> ->
                <<Entity("location", Sourced(IF parsed # <<>> THEN "gps" ELSE "gateway",
                                             resolved))>>
          [] how = "computed" -> <<Entity("location", Sourced("trilateration", device))>>
          [] OTHER -> <<>>

\* The transforms of CT101: the state of an alarm is on or off.
AlarmState(key, value) ==
    CASE key = "current_alarm" ->
            IF value.current_threshold_alarm \/ value.current_over_range_alarm
            THEN "on" ELSE "off"
      [] key = "temperature_alarm" -> IF value = "alarm" THEN "on" ELSE "off"
      [] OTHER -> value

\* A mutant: the last definition is passed over.
BuildEntitiesButLast(keys, readings) ==
    LET present == SelectSeq(Front(keys), LAMBDA k : k \in DOMAIN readings)
    IN  [n \in DOMAIN present |-> Entity(present[n], AlarmState(present[n], readings[present[n]]))]
BuildEntitiesFromState(keys, readings) ==
    LET present == FoldLeft(LAMBDA known, k : IF k \in DOMAIN readings THEN Append(known, k)
                                              ELSE known, <<>>, keys)
    IN  [n \in DOMAIN present |-> Entity(present[n], AlarmState(present[n], readings[present[n]]))]

ParseToEntities(model, raw, device) ==
    LET profile == Registry[model]
        decoded == Decode(model, raw)
    IN  LocationEntity(profile.location, decoded, device)
        \o BuildEntitiesFromState(profile.keys, decoded.readings)

\* The keys of the entities a device of the model may publish.
TemplatesWithoutLocation(model) == Registry[model].keys  \* a mutant
GetEntityTemplates(model) ==
    LET profile == Registry[model]
    IN  (IF profile.location = "none" THEN <<>> ELSE <<"location">>) \o profile.keys
=============================================================================
