--------------------------- MODULE StreamDecoders ---------------------------
(***************************************************************************)
(* The decoders that walk a payload record by record.  A record begins at  *)
(* an offset i and ends before ends[i]; where ends[i] = i reading stops.   *)
(* Later records override the readings of earlier ones.                    *)
(***************************************************************************)
EXTENDS Bytes

Starts(ends) ==
    LET from[i \in DOMAIN ends] ==
            IF ends[i] = i THEN <<>> ELSE <<i>> \o from[ends[i]]
    IN  from[0]

Merged(records) == FoldLeft(LAMBDA out, readings : Over(readings, out), NoReadings, records)

\* The size of each type of record, of a table of sizes and the types that have them.
Sizes(table) ==
    [t \in UNION {row[2] : row \in table} |-> (CHOOSE row \in table : t \in row[2])[1]]

\* Milesight AM307: [channel][type][data], little-endian.
AM307Sizes ==
    Sizes({<<1, {<<\h01, \h75>>, <<\h04, \h68>>, <<\h05, \h00>>, <<\h06, \hcb>>}>>,
           <<2, {<<\h03, \h67>>, <<\h07, \h7d>>, <<\h08, \h7d>>, <<\h08, \he6>>,
                 <<\h09, \h73>>}>>,
           <<16, {\h20, \h21} \X {\hce}>>,
           <<1, {\hfe, \hff} \X {\h01, \h0b, \h0f}>>,
           <<2, {\hfe, \hff} \X {\h09, \h0a, \hff}>>,
           <<8, {\hfe, \hff} \X {\h16}>>})

AM307End(b, i) ==
    IF /\ i + 2 <= Len(b)
       /\ Cut(b, i, 2) \in DOMAIN AM307Sizes
       /\ i + 2 + AM307Sizes[Cut(b, i, 2)] <= Len(b)
    THEN i + 2 + AM307Sizes[Cut(b, i, 2)]
    ELSE i

TVOC(raw, ugm3) ==
    [tvoc |-> Milli(raw, IF ugm3 THEN 1 ELSE 100),
     tvoc_unit |-> IF ugm3 THEN "ugm3" ELSE "iaq"]

PIR(value) ==
    [pir_sensor_value |-> 1000 * value, occupancy |-> value = 1,
     pir_sensor_status |-> IF value = 1 THEN "trigger" ELSE "idle"]

History(b, i, ugm3) ==
    [timestamp |-> U32LE(b, i), temperature |-> Milli(I16LE(b, i + 4), 10),
     humidity |-> Milli(U16LE(b, i + 6), 2), pir |-> At(b, i + 8) = 1,
     light_level |-> 1000 * At(b, i + 9), co2 |-> 1000 * U16LE(b, i + 10),
     pressure |-> Milli(U16LE(b, i + 14), 10)] @@ TVOC(U16LE(b, i + 12), ugm3)

AM307Read(b, i) ==
    LET channel == At(b, i)
        d == i + 2
    IN  CASE channel = \h01 -> [battery |-> 1000 * At(b, d)]
          [] channel = \h03 -> [temperature |-> Milli(I16LE(b, d), 10)]
          [] channel = \h04 -> [humidity |-> Milli(At(b, d), 2)]
          [] channel = \h05 -> PIR(At(b, d))
          [] channel = \h06 -> [light_level |-> 1000 * At(b, d)]
          [] channel = \h07 -> [co2 |-> 1000 * U16LE(b, d)]
          [] channel = \h08 -> TVOC(U16LE(b, d), At(b, i + 1) = \he6)
          [] channel = \h09 -> [pressure |-> Milli(U16LE(b, d), 10)]
          [] OTHER -> NoReadings

\* The history records of a payload, in their order.
AM307History(b, starts) ==
    LET records == SelectSeq(starts, LAMBDA i : At(b, i) \in {\h20, \h21})
    IN  IF records = <<>> THEN NoReadings
        ELSE [history |-> [n \in DOMAIN records |->
                 History(b, records[n] + 2, At(b, records[n]) = \h21)]]

AM307Decode(raw) ==
    LET b == IF isHexASCII(raw) THEN FromHex(raw) ELSE raw
        starts == Starts([i \in 0 .. Len(b) |-> AM307End(b, i)])
    IN  Decoded(Over(Merged([n \in DOMAIN starts |-> AM307Read(b, starts[n])]),
                     AM307History(b, starts)), NoFix)

\* Milesight CT101: the same format; a record cut short discards everything.
CT101Sizes ==
    Sizes({<<3, {<<\hff, \h01>>}>>,
           <<4, {<<\hff, \h09>>, <<\hff, \h0a>>, <<\h04, \h98>>, <<\h09, \h67>>}>>,
           <<5, {<<\h89, \h67>>}>>, <<6, {<<\h03, \h97>>}>>,
           <<9, {<<\h84, \h98>>}>>, <<10, {<<\hff, \h16>>}>>})

CT101End(b, i) ==
    IF /\ i + 2 <= Len(b)
       /\ Cut(b, i, 2) \in DOMAIN CT101Sizes
       /\ i + CT101Sizes[Cut(b, i, 2)] <= Len(b)
    THEN i + CT101Sizes[Cut(b, i, 2)]
    ELSE i

readCurrentAlarm(value) ==
    [current_threshold_alarm |-> IsSet(value, 0),
     current_threshold_alarm_release |-> IsSet(value, 1),
     current_over_range_alarm |-> IsSet(value, 2),
     current_over_range_alarm_release |-> IsSet(value, 3)]

\* What the sensors report instead of a value.
ReadFailed == "read failed"
OverRange == "over range alarm"

CT101Read(b, i) ==
    LET key == Cut(b, i, 2)
        value == U16LE(b, i + 2)
    IN  CASE key = <<\hff, \h01>> -> [ipso_version |-> At(b, i + 2)]
          [] key = <<\hff, \h09>> ->
                [hardware_version |-> <<At(b, i + 2), At(b, i + 3) \div 16>>]
          [] key = <<\hff, \h0a>> -> [firmware_version |-> Cut(b, i + 2, 2)]
          [] key = <<\hff, \h16>> -> [serial_number |-> Cut(b, i + 2, 8)]
          [] key = <<\h03, \h97>> -> [total_current |-> Milli(U32LE(b, i + 2), 100)]
          [] key = <<\h04, \h98>> ->
                IF value = \hffff THEN [current_sensor_status |-> ReadFailed]
                ELSE [current |-> Milli(value, 100)]
          [] key = <<\h09, \h67>> ->
                IF value = \hfffd THEN [temperature_sensor_status |-> OverRange]
                ELSE IF value = \hffff THEN [temperature_sensor_status |-> ReadFailed]
                ELSE [temperature |-> Milli(I16LE(b, i + 2), 10)]
          [] key = <<\h84, \h98>> ->
                [current_max |-> Milli(value, 100),
                 current_min |-> Milli(U16LE(b, i + 4), 100),
                 current |-> Milli(U16LE(b, i + 6), 100),
                 current_alarm |-> readCurrentAlarm(At(b, i + 8))]
          [] key = <<\h89, \h67>> ->
                [temperature |-> Milli(I16LE(b, i + 2), 10),
                 temperature_alarm |-> IF At(b, i + 4) = 1 THEN "alarm" ELSE "release"]

\* A mutant: the two bytes of the type must have one after them.
CT101TruncatedLate(b, stop) == stop + 2 < Len(b) /\ Cut(b, stop, 2) \in DOMAIN CT101Sizes
\* Reading stopped inside a record whose type is known.
CT101Truncated(b, stop) ==
    /\ stop + 2 <= Len(b)
    /\ Cut(b, stop, 2) \in DOMAIN CT101Sizes

CT101Decode(b) ==
    LET starts == Starts([i \in 0 .. Len(b) |-> CT101End(b, i)])
        stop == IF starts = <<>> THEN 0 ELSE CT101End(b, Last(starts))
    IN  Decoded(IF Len(b) < 4 \/ CT101Truncated(b, stop) THEN NoReadings
                ELSE Merged([n \in DOMAIN starts |-> CT101Read(b, starts[n])]), NoFix)

\* LilyGO T-Beam: Cayenne LPP, [channel][type][data], big-endian.
TBeamSizes ==
    Sizes({<<1, {\h68, \h00, \h01, \h66}>>, <<2, {\h67, \h73, \h65, \h02, \h03}>>,
           <<4, {\h95}>>, <<6, {\h71}>>, <<9, {\h88}>>})

TBeamEnd(b, i) ==
    IF /\ i + 2 <= Len(b)
       /\ At(b, i + 1) \in DOMAIN TBeamSizes
       /\ i + 2 + TBeamSizes[At(b, i + 1)] <= Len(b)
    THEN i + 2 + TBeamSizes[At(b, i + 1)]
    ELSE i

TBeamRead(b, i) ==
    LET type == At(b, i + 1)
        d == i + 2
    IN  CASE type = \h67 -> [temperature |-> Milli(I16BE(b, d), 10)]
          [] type = \h68 -> [humidity |-> Milli(At(b, d), 2)]
          [] type = \h73 -> [pressure |-> Milli(U16BE(b, d), 10)]
          [] type = \h65 -> [illuminance |-> 1000 * U16BE(b, d)]
          [] OTHER -> NoReadings

TBeamDecode(b) ==
    LET starts == Starts([i \in 0 .. Len(b) |-> TBeamEnd(b, i)])
        gps == SelectSeq(starts, LAMBDA i : At(b, i + 1) = \h88)
    IN  Decoded(Merged([n \in DOMAIN starts |-> TBeamRead(b, starts[n])]),
                LastFix([n \in DOMAIN gps |-> Fix(ReadInt24BE(b, gps[n] + 2),
                                                  ReadInt24BE(b, gps[n] + 5), 10000)]))

\* RAK2270: an unknown type moves the reader on by a single byte.
RAK2270End(b, i) ==
    IF i + 3 >= Len(b) THEN i
    ELSE IF At(b, i + 1) \in {\h67, \h02} THEN i + 4
    ELSE i + 1

RAK2270Read(b, i) ==
    CASE At(b, i + 1) = \h67 -> [temperature |-> Milli(I16BE(b, i + 2), 10)]
      [] At(b, i + 1) = \h02 -> [battery_voltage |-> Milli(U16BE(b, i + 2), 100)]
      [] OTHER -> NoReadings

RAK2270Decode(b) ==
    LET starts == Starts([i \in 0 .. Len(b) |-> RAK2270End(b, i)])
    IN  Decoded(Merged([n \in DOMAIN starts |-> RAK2270Read(b, starts[n])]), NoFix)

\* Seeed SenseCAP T1000E: frames that begin with their type; scans vary in size.
frameSize(b, i) ==
    LET rest == Len(b) - i
        WithScan(base, countOff) ==
            IF rest > countOff /\ At(b, i + countOff) >= 1
            THEN base + (At(b, i + countOff) - 1) * 7 ELSE 0
    IN  CASE At(b, i) \in {\h1e, \h25} -> 13
          [] At(b, i) = \h1f -> 21
          [] At(b, i) \in {\h20, \h21} -> WithScan(21, 13)
          [] At(b, i) = \h22 -> 15
          [] At(b, i) \in {\h23, \h24} -> WithScan(15, 7)
          [] At(b, i) = \h26 -> 7
          [] OTHER -> 0

T1000EEnd(b, i) ==
    IF i < Len(b) /\ i + frameSize(b, i) <= Len(b) THEN i + frameSize(b, i) ELSE i

\* 0x8000 stands for no value.
Nullable(key, b, off, per) ==
    IF U16BE(b, off) = \h8000 THEN NoReadings
    ELSE [k \in {key} |-> Milli(I16BE(b, off), per)]

decodeStatus(b, d) ==
    [battery_level |-> 1000 * At(b, d), firmware_version |-> Cut(b, d + 1, 2),
     hardware_version |-> Cut(b, d + 3, 2), positioning_strategy |-> 1000 * At(b, d + 5),
     uplink_interval |-> 1000 * U16BE(b, d + 6), accelerometer_enabled |-> At(b, d + 8) # 0,
     sos_mode |-> 1000 * At(b, d + 9), wifi_scan_limit |-> 1000 * At(b, d + 10),
     beacon_scan_limit |-> 1000 * At(b, d + 11)]

decodeHeaderWithSensor(b, d) ==
    Over(EventStatus(At(b, d), {0, 1, 2}),
         Over([battery_level |-> 1000 * At(b, d + 1)],
              Over(Nullable("temperature", b, d + 2, 10), Nullable("light", b, d + 4, 1))))

\* The three keys are always there, with a null value where the sensor gave none.
ThreeAxes(b, d) ==
    LET axis(off) == IF U16BE(b, off) = \h8000 THEN <<>> ELSE <<1000 * I16BE(b, off)>>
    IN  [accelerometer_x |-> axis(d + 6), accelerometer_y |-> axis(d + 8),
         accelerometer_z |-> axis(d + 10)]

parseScan(b, off, key) ==
    LET pairs == SelectSeq([n \in 1 .. At(b, off) |-> off + 1 + (n - 1) * 7],
                           LAMBDA p : \E k \in 0 .. 5 : At(b, p + k) # \hff)
    IN  IF pairs = <<>> THEN NoReadings
        ELSE [k \in {key} |->
                 [n \in DOMAIN pairs |->
                     [mac |-> Cut(b, pairs[n], 6), rssi |-> I8(b, pairs[n] + 6)]]]

decodeFrame(b, i) ==
    LET id == At(b, i)
        d == i + 1
        sensors == IF id = \h1e THEN decodeStatus(b, d) ELSE decodeHeaderWithSensor(b, d)
        axes == IF id \in {\h1f, \h20, \h21, \h25} THEN ThreeAxes(b, d) ELSE NoReadings
        scan == CASE id = \h20 -> parseScan(b, d + 12, "wifi_scan")
                  [] id = \h21 -> parseScan(b, d + 12, "ble_scan")
                  [] id = \h23 -> parseScan(b, d + 6, "wifi_scan")
                  [] id = \h24 -> parseScan(b, d + 6, "ble_scan")
                  [] OTHER -> NoReadings
    IN  Over([packet_id |-> id], Over(sensors, Over(axes, scan)))

\* The longitude comes first.
T1000EFix(b, i) ==
    LET off == IF At(b, i) = \h1f THEN i + 13 ELSE i + 7
    IN  IF At(b, i) \in {\h1f, \h22} THEN Fix(I32BE(b, off + 4), I32BE(b, off), 1000000)
        ELSE NoFix

T1000EDecode(fPort, b) ==
    LET starts == Starts([i \in 0 .. Len(b) |-> T1000EEnd(b, i)])
    IN  IF fPort \in {199, 192} THEN Decoded([raw_system_payload |-> b], NoFix)
        ELSE Decoded(Merged([n \in DOMAIN starts |-> decodeFrame(b, starts[n])]),
                     LastFix([n \in DOMAIN starts |-> T1000EFix(b, starts[n])]))

\* DFRobot SEN0313: the last frame with a good checksum, wherever it begins.
defaultDistanceCM == 300
IsFrame(b, i) ==
    /\ At(b, i) = \hff
    /\ (At(b, i) + At(b, i + 1) + At(b, i + 2)) % 256 = At(b, i + 3)

\* The JSON objects of the metadata and of the data, in the order they are tried.
extractWaterDepthCM(m) ==
    [water_depth |-> IF "water_depth" \in DOMAIN m THEN m["water_depth"]
                     ELSE 1000 * defaultDistanceCM - m["distance"]]

SEN0313Decode(objects, b) ==
    LET json == SelectSeq(objects, LAMBDA m : {"water_depth", "distance"} \cap DOMAIN m # {})
        frames == {i \in 0 .. Len(b) - 4 : IsFrame(b, i)}
        latest == CHOOSE i \in frames : \A j \in frames : j <= i
    IN  Decoded(IF json # <<>> THEN extractWaterDepthCM(Head(json))
                ELSE IF frames = {} THEN NoReadings
                ELSE [water_depth |-> 1000 * defaultDistanceCM - 100 * U16BE(b, latest + 1)],
                NoFix)
=============================================================================
