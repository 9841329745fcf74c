--------------------------- MODULE DeviceMappings ---------------------------
(***************************************************************************)
(* What the workers of a transformer know of one device                    *)
(* (services/device_profile.go): the device service has the truth, Redis a *)
(* copy for some time.  Nothing tells the copy that the truth has changed. *)
(*                                                                         *)
(* A version is a position in record.  Time passes in steps much longer    *)
(* than the two timeouts of a lookup (seconds; a copy lives an hour): none *)
(* passes between an answer of the device service and its saving.          *)
(***************************************************************************)
EXTENDS Integers, Sequences

CONSTANTS
    Workers,        \* who looks the device up
    Statuses,       \* what the device service may say of the device
    DefaultCacheTTL \* how long a copy lives

ASSUME CacheAssumption == DefaultCacheTTL \in Nat \ {0}

VARIABLES
    record,     \* what the device service has said, the present last
    ended,      \* when each but the last of these ended
    now,        \* the time
    cache,      \* the copy in Redis: at most one [version, until]
    fetched     \* per worker: the answer it has yet to save, at most one

mappingVars == <<record, ended, now, cache, fetched>>

MappingsInit ==
    /\ \E status \in Statuses : record = <<status>>
    /\ ended = <<>> /\ now = 0 /\ cache = <<>>
    /\ fetched = [w \in Workers |-> <<>>]

\* Somebody changes the device: deactivates, assigns or publishes it.
Change(status) ==
    /\ record' = Append(record, status) /\ ended' = Append(ended, now)
    /\ UNCHANGED <<now, cache, fetched>>

TimePasses ==
    /\ \A w \in Workers : fetched[w] = <<>>
    /\ now' = now + 1
    /\ cache' = IF cache # <<>> /\ cache[1].until <= now + 1 THEN <<>> ELSE cache
    /\ UNCHANGED <<record, ended, fetched>>

\* A mutant: a copy lives on while it is used.
GetFromCacheKeeping ==
    /\ cache # <<>>
    /\ cache' = <<[cache[1] EXCEPT !.until = now + DefaultCacheTTL]>>
    /\ UNCHANGED <<record, ended, now, fetched>>

getFromCache == cache # <<>> /\ UNCHANGED mappingVars

\* No copy, or Redis does not answer: the device service is asked.
lookupViaDeviceService(w) ==
    /\ fetched[w] = <<>>
    /\ fetched' = [fetched EXCEPT ![w] = <<Len(record)>>]
    /\ UNCHANGED <<record, ended, now, cache>>

\* Redis may not answer: then the answer is used and no copy kept.
saveToCache(w, kept) ==
    /\ fetched[w] # <<>>
    /\ cache' = IF kept THEN <<[version |-> fetched[w][1], until |-> now + DefaultCacheTTL]>>
                ELSE cache
    /\ fetched' = [fetched EXCEPT ![w] = <<>>]
    /\ UNCHANGED <<record, ended, now>>

\* A process that ends forgets what it had to save.
Restart ==
    /\ fetched' = [w \in Workers |-> <<>>]
    /\ UNCHANGED <<record, ended, now, cache>>

MappingsNext ==
    \/ \E status \in Statuses : Change(status)
    \/ TimePasses
    \/ getFromCache \/ Restart
    \/ \E w \in Workers : lookupViaDeviceService(w) \/ \E kept \in BOOLEAN : saveToCache(w, kept)

MappingsSpec == MappingsInit /\ [][MappingsNext]_mappingVars

-----------------------------------------------------------------------------
\* A deactivation or a reassignment of a device is not seen at once, but what is
\* known of the device was true less than the lifetime of a copy ago, however the
\* lookups of the workers and the changes of the device interleave.
NoCopyOutlivesItsTime ==
    cache # <<>> =>
        \/ cache[1].version = Len(record)
        \/ now < ended[cache[1].version] + DefaultCacheTTL
=============================================================================
