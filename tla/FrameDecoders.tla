---------------------------- MODULE FrameDecoders ----------------------------
(***************************************************************************)
(* The decoders of payloads with a fixed layout, chosen by the port, by a  *)
(* type byte or by what the bytes look like.  A payload that is too short  *)
(* for its layout gives no readings.                                       *)
(***************************************************************************)
EXTENDS Bytes

None == Decoded(NoReadings, NoFix)
Readings(r) == Decoded(r, NoFix)
\* An unset key of a map of the code.
Opt(cond, readings) == IF cond THEN readings ELSE NoReadings
Warning == [warning |-> TRUE]

\* Netvox R718N17.
R718N17Report(b) ==
    IF At(b, 2) = 0 /\ Len(b) >= 9
    THEN [report_mode |-> 0, sw_version |-> Milli(At(b, 3), 10),
          hw_version |-> 1000 * At(b, 4), date_code |-> Cut(b, 5, 4)]
    ELSE IF At(b, 2) = 1 /\ Len(b) >= 7
    THEN [report_mode |-> 1000, battery_voltage |-> Milli(At(b, 3) % 128, 10),
          current_raw_ma |-> 1000 * U16BE(b, 4), multiplier |-> 1000 * At(b, 6),
          current_ma |-> 1000 * U16BE(b, 4) * At(b, 6)]
         @@ Opt(IsSet(At(b, 3), 7), [low_battery |-> 1000])
    ELSE Warning

R718N17Config(b) ==
    IF At(b, 0) = \h81
    THEN [report_mode |-> 2000, config_type |-> 1000,
          config_status |-> IF At(b, 2) = 1 THEN 1000 ELSE 0]
    ELSE IF At(b, 0) = \h82
    THEN [report_mode |-> 2000, config_type |-> 2000]
         @@ Opt(Len(b) >= 9, [min_time_s |-> 1000 * U16BE(b, 2),
                              max_time_s |-> 1000 * U16BE(b, 4),
                              current_change_ma |-> 1000 * U16BE(b, 6)])
    ELSE Warning

R718N17Decode(fPort, b) ==
    IF Len(b) < 3 THEN None
    ELSE Readings(
        [version |-> At(b, 0), device_type |-> At(b, 1), device_name |-> "R718N17"]
        @@ (IF At(b, 1) # \h49 THEN Warning
            ELSE CASE fPort = 6 -> [report_type |-> 1000 * At(b, 2)] @@ R718N17Report(b)
                   [] fPort = 7 -> R718N17Config(b)
                   [] OTHER -> NoReadings))

\* Netvox R809AG.
Alarm(byte) == IF byte = 0 THEN 0 ELSE 1000
R809AGDecode(fPort, b) ==
    IF fPort # 6 \/ Len(b) < 3 THEN None
    ELSE IF At(b, 2) = 1 /\ Len(b) >= 11
    THEN Readings([switch |-> IF At(b, 3) = 0 THEN "off" ELSE "on",
                   energy |-> 1000 * U32BE(b, 4), overcurrent_alarm |-> Alarm(At(b, 8)),
                   dash_current_alarm |-> Alarm(At(b, 9)),
                   power_off_alarm |-> Alarm(At(b, 10))])
    ELSE IF At(b, 2) = 2 /\ Len(b) >= 9
    THEN Readings([voltage |-> 1000 * U16BE(b, 3), current |-> 1000 * U16BE(b, 5),
                   power |-> 1000 * U16BE(b, 7)])
    ELSE None

\* Digital Matter G62: part 1 and part 2 of the data, or both in one payload.
G62Coordinate(b, off) ==
    I8(b, off + 3) * 16777216 + At(b, off + 2) * 65536 + At(b, off + 1) * 256
    + 16 * (At(b, off) \div 16)

tripTypeName(b) == <<"none", "ignition", "movement", "run_detect">>[1 + (At(b, 0) % 4)]

decodeDataPart1(b) ==
    Decoded([trip_type |-> tripTypeName(b), v_ext_good |-> IsSet(At(b, 0), 2),
             gps_current |-> IsSet(At(b, 0), 3), ignition |-> IsSet(At(b, 4), 0),
             dig_in_1 |-> IsSet(At(b, 4), 1), dig_in_2 |-> IsSet(At(b, 4), 2),
             dig_out |-> IsSet(At(b, 4), 3), heading |-> 2000 * At(b, 8),
             speed |-> 1000 * At(b, 9), battery_voltage |-> 20 * At(b, 10)],
            Fix(G62Coordinate(b, 0), G62Coordinate(b, 4), 10000000))

decodeDataPart2(b, off) ==
    [external_voltage |-> U16LE(b, off), analog_input |-> U16LE(b, off + 2),
     temperature |-> 1000 * I8(b, off + 4), gps_accuracy |-> 1000 * At(b, off + 5)]
    @@ Opt(Len(b) >= off + 8, [timestamp_raw |-> 1000 * U16LE(b, off + 6)])

decodeFullData(b) ==
    LET part1 == decodeDataPart1(b)
    IN  Decoded(part1.readings @@ decodeDataPart2(b, 11), part1.location)

decodeOdometer(b) ==
    LET s == U32LE(b, 0)
    IN  [runtime |-> <<s \div 86400, (s % 86400) \div 3600, (s % 3600) \div 60, s % 60>>,
         runtime_seconds |-> 1000 * s, odometer |-> 10 * U32LE(b, 4)]

decodeDownlinkAck(b) ==
    [downlink_ack |-> IsSet(At(b, 0), 7), sequence |-> 1000 * (At(b, 0) % 128),
     firmware |-> Cut(b, 1, 2)]

G62Decode(fPort, b) ==
    LET n == Len(b) IN
    CASE n = 0 -> None
      [] fPort = 1 /\ (n = 17 \/ n >= 19) -> decodeFullData(b)
      [] fPort = 2 /\ n = 11 -> decodeDataPart1(b)
      [] fPort = 3 /\ (n = 6 \/ n >= 8) -> Readings(decodeDataPart2(b, 0))
      [] fPort = 4 /\ n = 8 -> Readings(decodeOdometer(b))
      [] fPort = 5 /\ n = 3 -> Readings(decodeDownlinkAck(b))
      [] OTHER -> Readings(Warning)

\* Dragino: a sub band of 0xff, a frequency band that is unknown.
Null == -1
SubBand(byte) == IF byte = \hff THEN Null ELSE 1000 * byte

\* LSN50v2-S31: report, data log and version information.
LSN50Report(b) ==
    LET mode == (At(b, 6) % 128) \div 4
    IN  [node_type |-> "LSN50-S31", work_mode |-> 1000 * mode]
        @@ (IF mode = 31
            THEN [sht_temp_min |-> 1000 * At(b, 7), sht_temp_max |-> 1000 * At(b, 8),
                  sht_hum_min |-> 1000 * At(b, 9), sht_hum_max |-> 1000 * At(b, 10)]
            ELSE [battery_voltage |-> U16BE(b, 0), exti_trigger |-> 1000 * Bit(At(b, 6), 0),
                  door_status |-> 1000 * Bit(At(b, 6), 7),
                  temperature_sht31 |-> Milli(I16BE(b, 7), 10),
                  humidity_sht31 |-> Milli(U16BE(b, 9), 10)]
                 @@ Opt(U32BE(b, 2) > 0, [data_time |-> U32BE(b, 2)]))

LSN50Log(b) ==
    LET entries == [n \in 1 .. Len(b) \div 11 |->
            LET i == (n - 1) * 11 IN
            [temperature |-> Milli(I16BE(b, i + 3), 10),
             humidity |-> Milli(U16BE(b, i + 5), 10), timestamp |-> U32BE(b, i + 7)]]
    IN  [node_type |-> "LSN50-S31", report_mode |-> 3000]
        @@ Opt(entries # <<>>, [datalog |-> entries,
                                temperature_sht31 |-> Last(entries).temperature,
                                humidity_sht31 |-> Last(entries).humidity])

LSN50Version(b) ==
    [sub_band |-> SubBand(At(b, 1)),
     firmware_version |-> 1000 * (At(b, 2) % 16) + 100 * (At(b, 3) \div 16)
                          + 10 * (At(b, 3) % 16),
     tdc_sec |-> U24BE(b, 4)]
    @@ Opt(At(b, 0) \in 1 .. 15, [freq_band |-> At(b, 0)])

LSN50Decode(fPort, b) ==
    CASE fPort = 2 /\ Len(b) >= 11 -> Readings(LSN50Report(b))
      [] fPort = 3 /\ Len(b) > 0 -> Readings(LSN50Log(b))
      [] fPort = 5 /\ Len(b) >= 7 -> Readings(LSN50Version(b))
      [] OTHER -> None

\* LCC01-LB.
LCC01Uplink(b) ==
    [battery_voltage |-> U16BE(b, 0), mod |-> 1000 * At(b, 2),
     weight_reading |-> 1000 * U24BE(b, 3), weight_state |-> 1000 * At(b, 6),
     scale_factor |-> 1000 * U16BE(b, 7), actual_weight_g |-> 1000 * U24BE(b, 3) * U16BE(b, 7)]
    @@ Opt(At(b, 2) = 2 /\ Len(b) >= 10, [weight_flag |-> 1000 * At(b, 9)])

LCC01Config(b) ==
    [battery_voltage |-> U16BE(b, 5),
     sensor_model |-> IF At(b, 0) = \h32 THEN "LCC01-LB" ELSE "NULL",
     firmware_version |-> <<At(b, 1) % 16, At(b, 2) \div 16, At(b, 2) % 16>>,
     frequency_band |-> IF At(b, 3) \in 1 .. 14 THEN At(b, 3) ELSE Null,
     sub_band |-> SubBand(At(b, 4))]

LCC01Decode(fPort, b) ==
    CASE fPort = 2 /\ Len(b) >= 9 -> Readings(LCC01Uplink(b))
      [] fPort = 5 /\ Len(b) >= 7 -> Readings(LCC01Config(b))
      [] OTHER -> None

\* MClimate HT: a keepalive, or a response that ends in one.
HTKeepalive(b, k) ==
    LET occupied == IsSet(At(b, k + 1), 2)
        voltage == 1600 + (2200 * At(b, k + 4)) \div 255
    IN  [occupancy |-> occupied, pir_sensor_value |-> Bit(At(b, k + 1), 2),
         pir_sensor_status |-> occupied,
         temperature |-> Milli((At(b, k + 1) % 4) * 256 + At(b, k + 2) - 400, 10),
         humidity |-> Milli(100 * At(b, k + 3), 256), battery_voltage |-> voltage,
         battery |-> IF voltage >= 3600 THEN 100000 ELSE IF voltage <= 2000 THEN 0
                     ELSE Milli((voltage - 2000) * 100, 1600),
         pir_trigger_count |-> At(b, k + 5)]

HTDecode(raw) ==
    LET b == IF isHexASCII(raw) /\ Len(raw) >= 12 THEN FromHex(raw) ELSE raw
    IN  IF Len(raw) < 6 THEN None
        ELSE Readings(HTKeepalive(b, IF At(b, 0) = \h51 THEN 0 ELSE Len(b) - 6))

\* Quandify Cubicmeter: a status report, alone or inside a response.
decodeCubicTemperature(byte) == 500 * byte - 20000
decodeStatusReport(b, s) ==
    LET error == U16LE(b, s + 4) IN
    [uptime |-> 1000 * U32LE(b, s), is_sensing |-> error < \h8000,
     total_volume |-> 1000 * U32LE(b, s + 6), total_heat |-> 1000 * U32LE(b, s + 10),
     leak_state |-> CASE At(b, s + 22) = 3 -> "medium" [] At(b, s + 22) = 4 -> "large"
                      [] OTHER -> "none",
     battery_active |-> 1000 * (1800 + 8 * At(b, s + 23)),
     battery_recovered |-> 1000 * (1800 + 8 * At(b, s + 24)),
     water_temperature_min |-> decodeCubicTemperature(At(b, s + 25)),
     water_temperature_max |-> decodeCubicTemperature(At(b, s + 26)),
     ambient_temperature |-> decodeCubicTemperature(At(b, s + 27))]
    @@ Opt(error % \h8000 # 0, [error_code |-> 1000 * (error % \h8000)])

CubicmeterDecode(fPort, b) ==
    CASE fPort = 1 /\ Len(b) >= 28 -> Readings(decodeStatusReport(b, 0))
      [] fPort = 6 /\ Len(b) >= 3 ->
            Readings(Opt(At(b, 2) \in {0, 1, 2, 4}, [response_type |-> At(b, 2)])
                     @@ Opt(At(b, 2) = 1 /\ Len(b) >= 31, decodeStatusReport(b, 3)))
      [] OTHER -> None

\* RAK7200.
RAK7200Decode(b) ==
    IF Len(b) < 11 THEN None
    ELSE Decoded([battery |-> 1000 * At(b, 8), temperature |-> Milli(I16LE(b, 9), 100)],
                 Fix(I32LE(b, 0), I32LE(b, 4), 1000000))

\* Abeeway: a header of five bytes, then the data of the message.  A position
\* of 17 bytes and more has its coordinates one byte later than a short one.
parseGPSPosition(d) ==
    LET n == Len(d)
        off == IF n >= 17 THEN 2 ELSE 1
    IN  CASE n >= 9 /\ At(d, 0) \in {0, 1, 4} ->
                Decoded(Opt(n >= 17, [heading |-> 1000 * U16BE(d, 12),
                                      speed |-> 1000 * U16BE(d, 14)]),
                        Fix(I32BE(d, off), I32BE(d, off + 4), 10000000))
          [] n >= 13 /\ At(d, 0) \in {7, 9} /\ IsSet(At(d, 1), 0) ->
                Decoded(NoReadings, Fix(I32BE(d, 2), I32BE(d, 6), 10000000))
          [] OTHER -> None

AbeewayDecode(b) ==
    LET position == IF At(b, 0) \in {\h03, \h0e}
                    THEN parseGPSPosition(SubSeq(b, 6, Len(b))) ELSE None
        volts == AbeewayBatV(At(b, 2))
    IN  IF Len(b) < 5 THEN None
        ELSE Decoded([battery_voltage |-> volts,
                      battery_percent |-> LinearBatPct(volts, 3000, 4200),
                      temperature |-> Milli(I8(b, 3), 2), sos_alert |-> IsSet(At(b, 1), 4),
                      motion |-> IsSet(At(b, 1), 2)] @@ position.readings,
                     position.location)

\* RAK4630: the columns of the CSV text, Junk where a column is no number.
Junk == -2000000000
RAK4630Decode(cols) ==
    LET has(i) == i < Len(cols) /\ At(cols, i) # Junk
        column(key, i) == IF has(i) THEN key :> 1000 * At(cols, i) ELSE NoReadings
    IN  Decoded(column("temperature", 0) @@ column("humidity", 1) @@ column("pressure", 2)
                @@ column("battery_voltage", 21),
                IF has(14) /\ has(15) THEN Fix(At(cols, 14), At(cols, 15), 1) ELSE NoFix)

\* DUT WLBV1: the objects of the metadata (decoded_payload, decoded_raw_data's
\* object, object), in the order they are tried; the first that has a value wins.
ExtractGPS(src, degree) ==
    LET fixes == [n \in 1 .. 6 |->
            LET lat == <<"latitude", "lat">>[1 + ((n - 1) \div 3)]
                lon == <<"longitude", "lon", "lng">>[1 + ((n - 1) % 3)]
            IN  IF {lat, lon} \subseteq DOMAIN src THEN Fix(src[lat], src[lon], degree) ELSE NoFix]
    IN  LastFix(Reverse(fixes))

FirstOf(objects, aliases, key) ==
    LET hits == SelectSeq(objects, LAMBDA o : \E n \in DOMAIN aliases : aliases[n] \in DOMAIN o)
        present == SelectSeq(aliases, LAMBDA a : a \in DOMAIN Head(hits))
    IN  IF hits = <<>> THEN NoReadings ELSE key :> Head(hits)[Head(present)]

WLBV1Decode(objects) ==
    Decoded(FirstOf(objects, <<"vBat", "battery", "battery_voltage", "volt">>, "battery")
            @@ FirstOf(objects, <<"waterlevel_cm", "water_depth", "water_level", "distance">>,
                       "water_depth"),
            LastFix(Reverse([n \in DOMAIN objects |-> ExtractGPS(objects[n], 1000)])))

\* Seeed SenseCAP T1000: a packet's length, and where its event status, its fix,
\* its temperature (the light follows) and its battery level are; -1 where absent.
Packet(size, events, fix, temperature, battery) ==
    [size |-> size, events |-> events, fix |-> fix, temperature |-> temperature,
     battery |-> battery]
T1000Packets ==
    \h01 :> Packet(47, -1, -1, -1, 1) @@ \h02 :> Packet(16, -1, -1, -1, 1)
    @@ \h05 :> Packet(5, -1, -1, -1, 1) @@ \h06 :> Packet(22, 1, 9, 17, 21)
    @@ \h07 :> Packet(42, 1, -1, 37, 41) @@ \h08 :> Packet(35, 1, -1, 30, 34)
    @@ \h09 :> Packet(18, 1, 9, -1, 17) @@ \h0a :> Packet(38, 1, -1, -1, 37)
    @@ \h0b :> Packet(31, 1, -1, -1, 30) @@ \h11 :> Packet(14, 2, -1, 9, 13)

InRange(lat, lon, degree) == lat \in -90*degree .. 90*degree /\ lon \in -180*degree .. 180*degree
\* Coordinates that only make sense the other way round are swapped.
parseGNSSCoords(b, off) ==
    LET first == I32BE(b, off)
        second == I32BE(b, off + 4)
    IN  IF ~InRange(first, second, 10000000) /\ InRange(second, first, 10000000)
        THEN Fix(second, first, 10000000) ELSE Fix(first, second, 10000000)

T1000Read(b, p) ==
    Decoded(Opt(p.events # -1, EventStatus(At(b, p.events + 2), {0, 1}))
            @@ Opt(p.temperature # -1, [temperature |-> Milli(I16BE(b, p.temperature), 10),
                                        light |-> 1000 * U16BE(b, p.temperature + 2)])
            @@ [battery_level |-> 1000 * At(b, p.battery)],
            IF p.fix # -1 THEN parseGNSSCoords(b, p.fix) ELSE NoFix)

T1000Decode(b) ==
    CASE Len(b) >= 1 /\ At(b, 0) \in DOMAIN T1000Packets
            /\ Len(b) >= T1000Packets[At(b, 0)].size -> T1000Read(b, T1000Packets[At(b, 0)])
      [] Len(b) >= 5 /\ At(b, 0) = \h0d -> Readings([error_code |-> 1000 * U32BE(b, 1)])
      [] OTHER -> None

\* Digital Matter Yabby Edge: the kind of a message is guessed from its bytes.
\* Bits(b, o, n) reads n bits from bit o on, least significant first.
Bits(b, o, n) ==
    FoldFunctionOnSet(+, 0, [k \in 0 .. n - 1 |-> Bit(At(b, (o + k) \div 8), (o + k) % 8) * 2^k],
                      0 .. n - 1)

isFwTupleLikely(b, off) ==
    At(b, off) <= 10 /\ At(b, off + 1) <= 10 /\ At(b, off + 2) \in 80 .. 100 /\ At(b, off + 3) <= 10
isLikelyConnect(b) == Len(b) >= 11 /\ At(b, 6) \div 4 = 0 /\ isFwTupleLikely(b, 7)
isLikelyHello(b) == Len(b) >= 10 /\ At(b, 4) \div 16 = 0 /\ isFwTupleLikely(b, 0)
isLikelyAck(b) == Len(b) >= 9 /\ isFwTupleLikely(b, 1)
isLikelyStats(b) ==
    /\ Len(b) = 11
    /\ LET sum == FoldFunction(+, 0, [k \in 0 .. 4 |-> Bits(b, 58 + 6 * k, 6)])
       IN  100 * sum >= 90 * 64 /\ 100 * sum <= 110 * 64
isLikelyLocation(b) ==
    Len(b) >= 2 /\ Bits(b, 7, 3) = 0 /\ Len(b) >= 2 + 7 * Bits(b, 0, 5)

detectPort(b) ==
    CASE isLikelyConnect(b) -> 89 [] isLikelyHello(b) -> 1 [] isLikelyAck(b) -> 2
      [] isLikelyStats(b) -> 3 [] isLikelyLocation(b) -> 5 [] OTHER -> 0

YabbyBattery(raw) ==
    [battery_voltage |-> YabbyBatV(raw), battery_level |-> LinearBatPct(YabbyBatV(raw), 2000, 3600)]

\* Little-endian first, then behind a header of four bytes, then big-endian.
YabbyFix(b, nav) ==
    LET n == Len(b) - nav
        try(reads, fix) == IF reads THEN fix ELSE NoFix
    IN  LastFix(<<try(n >= 12, Fix(I32BE(b, nav), I32BE(b, nav + 4), 10000000)),
                  try(n >= 16, Fix(I32LE(b, nav + 4), I32LE(b, nav + 8), 10000000)),
                  try(n >= 12, Fix(I32LE(b, nav), I32LE(b, nav + 4), 10000000))>>)

YabbyDecode(b) ==
    LET port == detectPort(b) IN
    CASE port = 89 -> Readings([connect |-> "connected", firmware |-> Cut(b, 7, 2)])
      [] port = 1 -> Readings([firmware |-> Cut(b, 0, 2)] @@ YabbyBattery(At(b, 7)))
      [] port = 2 -> Readings([downlink_ack |-> IsSet(At(b, 0), 7), firmware |-> Cut(b, 1, 2)])
      [] port = 3 -> Readings([battery_stats |-> 2 * Bits(b, 48, 10),
                               trip_count |-> 32000 * Bits(b, 24, 14)] @@ YabbyBattery(At(b, 0)))
      [] port = 5 -> Decoded([trip_status |-> Bits(b, 5, 1) # 0, inactivity |-> Bits(b, 6, 1) # 0],
                             YabbyFix(b, 2 + 7 * Bits(b, 0, 5)))
      [] OTHER -> None
=============================================================================
