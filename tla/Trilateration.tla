---------------------------- MODULE Trilateration ----------------------------
(***************************************************************************)
(* The position of a device computed from the gateways that heard it       *)
(* (services/location.go): each gateway is the centre of a circle whose    *)
(* radius its signal strength gives.                                       *)
(*                                                                         *)
(* Gateways stand on one line, at whole numbers, so that distances are     *)
(* exact.  A fraction is [num, den].  The weights area * confidence of the *)
(* zones are left open: Estimates is the set of the points whose weighted  *)
(* mean is the result, one point alone for two gateways.                   *)
(***************************************************************************)
EXTENDS Integers, Sequences, FiniteSets, FiniteSetsExt

CONSTANTS
    findDistance,   \* the distance for each signal strength (in dBm)
    Strength,       \* 10^(dBm / 20) for each signal strength, to scale
    Places,         \* where gateways stand
    MaxGateways     \* how many hear a message, at most

VARIABLE gateways   \* those that heard the message

Signals == DOMAIN findDistance

ASSUME SignalAssumption ==
    /\ Signals \subseteq Int /\ Places \subseteq Int
    /\ findDistance \in [Signals -> Nat \ {0}] /\ Strength \in [Signals -> Nat \ {0}]
    /\ \A weak, strong \in Signals : weak < strong =>
            findDistance[weak] >= findDistance[strong] /\ Strength[weak] <= Strength[strong]

Size(n) == IF n < 0 THEN -n ELSE n
Apart(g, h) == Size(g.x - h.x)
Pairs(gws) == {p \in (DOMAIN gws) \X (DOMAIN gws) : p[1] < p[2]}

\* In thousandths: what brings the two circles furthest apart to overlap, and a
\* tenth more; three times at most.
expansions(gws) ==
    LET sum(p) == findDistance[gws[p[1]].rssi] + findDistance[gws[p[2]].rssi]
        gap(p) == Apart(gws[p[1]], gws[p[2]])
    IN  {(gap(p) * 1100) \div sum(p) : p \in {q \in Pairs(gws) : gap(q) > sum(q)}}
minExpansionNeeded(gws) == Min({3000, Max({1000} \cup expansions(gws))})

adaptiveFactor(rssi) ==
    IF Size(rssi) < 70 THEN 800 ELSE IF Size(rssi) > 100 THEN 1200 ELSE 1000

expandRadii(gws) ==
    [n \in DOMAIN gws |->
        (findDistance[gws[n].rssi] * ((minExpansionNeeded(gws) * adaptiveFactor(gws[n].rssi))
                                      \div 1000)) \div 1000]

IntersectInside(d, r1, r2) == d <= r1 + r2  \* a mutant: one circle may hold the other
\* Neither too far apart, nor one circle inside the other.
Intersect(d, r1, r2) == d <= r1 + r2 /\ d >= Size(r1 - r2)

\* The middle of the two points where the circles meet is on the line of the
\* centres, and so is the point it is averaged with: they are the same.
CentroidFromTheOther(x1, r1, x2, r2) ==  \* a mutant: the radii are swapped
    LET d == Size(x2 - x1)
    IN  IF d = 0 THEN [num |-> x1, den |-> 1]
        ELSE [num |-> 2 * d * d * x1 + (x2 - x1) * (r2 * r2 - r1 * r1 + d * d),
              den |-> 2 * d * d]
Centroid(x1, r1, x2, r2) ==
    LET d == Size(x2 - x1)
    IN  IF d = 0 THEN [num |-> x1, den |-> 1]
        ELSE [num |-> 2 * d * d * x1 + (x2 - x1) * (r1 * r1 - r2 * r2 + d * d),
              den |-> 2 * d * d]

Weighted(gws) ==
    [num |-> SumFunction([n \in DOMAIN gws |-> gws[n].x * Strength[gws[n].rssi]]),
     den |-> SumFunction([n \in DOMAIN gws |-> Strength[gws[n].rssi]])]

Zones(gws) ==
    LET r == expandRadii(gws)
    IN  {p \in Pairs(gws) : Intersect(Apart(gws[p[1]], gws[p[2]]), r[p[1]], r[p[2]])}

\* Three gateways and more: circles that touch from outside share no area, and
\* count for nothing (a circle that touches another from inside is shared whole,
\* and counts); without a zone the centre weighted by signal strength is taken.
Estimates(gws) ==
    LET r == expandRadii(gws)
        centroid(p) == Centroid(gws[p[1]].x, r[p[1]], gws[p[2]].x, r[p[2]])
        touching(p) == Apart(gws[p[1]], gws[p[2]]) = r[p[1]] + r[p[2]]
        zones == IF Len(gws) = 2 THEN Zones(gws) ELSE {p \in Zones(gws) : ~touching(p)}
    IN  IF Len(gws) = 1 THEN {[num |-> gws[1].x, den |-> 1]}
        ELSE IF zones = {} THEN {Weighted(gws)}
        ELSE {centroid(p) : p \in zones}

Silence == gateways = <<>>
Hear ==
    /\ Len(gateways) < MaxGateways
    /\ \E x \in Places, rssi \in Signals : gateways' = Append(gateways, [x |-> x, rssi |-> rssi])
Forget == Len(gateways) = MaxGateways /\ gateways' = <<>>

Off(point, x) == Size(point.num - x * point.den)

\* Of two gateways the device is put at least as near to the one that hears it
\* better, whether the circles meet or not (two, expandRadii, the fallback).
StrongerGatewayIsNearer ==
    Len(gateways) = 2 => \A n, m \in {1, 2}, point \in Estimates(gateways) :
        gateways[n].rssi > gateways[m].rssi =>
            Off(point, gateways[n].x) <= Off(point, gateways[m].x)

\* The corners of an estimate are inside the circles of two gateways, or between
\* two gateways: a device is never put where no signal strength allows it to be.
EstimateWithinReach ==
    LET r == expandRadii(gateways)
        inside(point, n) == Off(point, gateways[n].x) <= r[n] * point.den
        between(point) == \E n, m \in DOMAIN gateways :
            /\ gateways[n].x * point.den <= point.num
            /\ point.num <= gateways[m].x * point.den
    IN  gateways # <<>> => \A point \in Estimates(gateways) :
            between(point) \/ Cardinality({n \in DOMAIN gateways : inside(point, n)}) >= 2

\* Gateways report dBm, which are negative: adaptiveFactor goes by their magnitude,
\* and would take a signal above 100 for a weak one.
SignalsInDBm == \A signal \in Signals : signal < 70
=============================================================================
