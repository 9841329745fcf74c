-------------------------------- MODULE Bytes --------------------------------
(***************************************************************************)
(* What the device profiles share (internal/device_profiles/common): the   *)
(* integer readers, the unit conversions, the check of coordinates.        *)
(*                                                                         *)
(* A payload is a sequence of bytes; offsets count from 0 as in the code.  *)
(* Readings are a function from the sensor names of the code to values;    *)
(* a number is given in thousandths of the unit the code reports, and a    *)
(* coordinate in the unit of the device, 1/degree of a degree.             *)
(***************************************************************************)
EXTENDS Integers, Sequences, SequencesExt, TLC

At(b, off) == b[off + 1]
Cut(b, off, n) == SubSeq(b, off + 1, off + n)

Signed(n, bits) == IF n >= 2^(bits - 1) THEN n - 2^bits ELSE n
I8(b, off) == Signed(At(b, off), 8)

U16BE(b, off) == At(b, off) * 256 + At(b, off + 1)
U24BE(b, off) == At(b, off) * 65536 + U16BE(b, off + 1)
U32BE(b, off) == At(b, off) * 16777216 + U24BE(b, off + 1)
I16BE(b, off) == Signed(U16BE(b, off), 16)
ReadInt24BE(b, off) == Signed(U24BE(b, off), 24)
I32BE(b, off) == I8(b, off) * 16777216 + U24BE(b, off + 1)

U16LE(b, off) == At(b, off) + 256 * At(b, off + 1)
U32LE(b, off) == U16LE(b, off) + 65536 * U16LE(b, off + 2)
I16LE(b, off) == Signed(U16LE(b, off), 16)
I32LE(b, off) == U16LE(b, off) + 65536 * I16LE(b, off + 2)

Bit(byte, n) == (byte \div 2^n) % 2
IsSet(byte, n) == Bit(byte, n) = 1

\* A number of the code that is n / per, in thousandths.
Milli(n, per) == (n * 1000) \div per
AbeewayBatV(raw) == raw * 10 + 2000
YabbyBatV(raw) == 2000 + 7 * raw
LinearBatPct(v, minV, maxV) ==
    IF v <= minV THEN 0
    ELSE IF v >= maxV THEN 100 * 1000
    ELSE 1000 * ((200 * (v - minV) + (maxV - minV)) \div (2 * (maxV - minV)))

\* What a text that parses as "NaN" becomes: every comparison with it is false.
NaN == 2000000000
ValidateCoordinates(lat, lon, degree) ==
    /\ lat = NaN \/ lat \in -90 * degree .. 90 * degree
    /\ lon = NaN \/ lon \in -180 * degree .. 180 * degree
    /\ ~(lat = 0 /\ lon = 0)

NoFix == [found |-> FALSE]
Fix(lat, lon, degree) ==
    IF ValidateCoordinates(lat, lon, degree)
    THEN [found |-> TRUE, lat |-> lat, lon |-> lon, degree |-> degree]
    ELSE NoFix

\* The last valid fix of a sequence: an invalid one leaves an earlier one alone.
LastFix(fixes) ==
    FoldLeft(LAMBDA last, fix : IF fix.found THEN fix ELSE last, NoFix, fixes)

NoReadings == [k \in {} |-> 0]
\* These readings, and of the others those they do not replace.
Over(readings, others) ==
    [k \in DOMAIN readings \cup DOMAIN others |->
        IF k \in DOMAIN readings THEN readings[k] ELSE others[k]]
Decoded(readings, location) == [readings |-> readings, location |-> location]

EventStatus(es, moves) ==
    [motion |-> \E n \in moves : IsSet(es, n), shock_event |-> IsSet(es, 3),
     temperature_event |-> IsSet(es, 4), light_event |-> IsSet(es, 5),
     sos_alert |-> IsSet(es, 6), press_once_event |-> IsSet(es, 7)]

HexValue == [c \in (48 .. 57) \cup (65 .. 70) \cup (97 .. 102) |->
                IF c <= 57 THEN c - 48 ELSE IF c <= 70 THEN c - 55 ELSE c - 87]
isHexASCII(b) ==
    /\ Len(b) > 0 /\ Len(b) % 2 = 0
    /\ \A i \in DOMAIN b : b[i] \in DOMAIN HexValue
FromHex(b) == [i \in 1 .. Len(b) \div 2 |-> 16 * HexValue[b[2*i - 1]] + HexValue[b[2*i]]]
=============================================================================
