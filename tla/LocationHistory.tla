--------------------------- MODULE LocationHistory ---------------------------
(***************************************************************************)
(* The last positions of one device (services/location_cache.go), newest   *)
(* first, from which its bearing is computed (services/bearing.go).        *)
(***************************************************************************)
EXTENDS Integers, Sequences

maxEntries == 2

\* A mutant: one entry more is kept than is asked for.
SaveLocationUntrimmed(history, position) == <<position>> \o history

SaveLocation(history, position) ==
    SubSeq(<<position>> \o history, 1, IF Len(history) < maxEntries THEN Len(history) + 1
                                       ELSE maxEntries)

\* The direction of a move; none is taken from a place to itself.
CalculateBearing(from, to) == <<from, to>>

\* A mutant: a position is saved whether the device has moved or not.
UnchangedNever(history, position) == FALSE

\* Only a history of two tells a device that stands still.
Unchanged(history, position) == Len(history) > 1 /\ Head(history) = position

\* What ProcessLocation gives as the bearing, <<>> for none.
Bearing(history, position) ==
    IF Unchanged(history, position) THEN CalculateBearing(history[2], history[1])
    ELSE IF history # <<>> THEN CalculateBearing(history[1], position)
    ELSE <<>>
=============================================================================
