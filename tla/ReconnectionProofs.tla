------------------------ MODULE ReconnectionProofs ------------------------
(***************************************************************************)
(* What Reconnection promises for every MaxAttempts, every breaker setting   *)
(* and any number of losses, refused dials and requests: its types, and,     *)
(* when the new connection lives until recovery is over, that no closure is  *)
(* lost and an open connection is served.                                    *)
(***************************************************************************)
EXTENDS Reconnection, TLAPS

\* The flag is set only while a recovery runs; a recovery that has failed to
\* dial has no connection, and one that has dialled keeps it.
RecoveryOwnsMain ==
    /\ phase \in {"idle", "draining"} => ~reconnecting
    /\ phase = "dialing" /\ attempts > 0 => main # "up"
    /\ phase \in {"tenants", "draining"} /\ ~stopping => main = "up"

\* OpenConnectionIsServed holds from the restart on, while the drain is pending;
\* its monitor has nothing to take and so no reason to leave.
ServedSinceRestart ==
    (main = "up" /\ phase \in {"idle", "draining"} /\ ~stopping) =>
        /\ current /\ listener # "ended"
        /\ watching /\ notice = {}

IInv == TypeOK /\ nextNotice = {} /\ RecoveryOwnsMain /\ ServedSinceRestart /\ NoLostClosure

-----------------------------------------------------------------------------
\* The breaker keeps its types when nothing, a failure or a reset is recorded
\* and when its timeout elapses.
LEMMA BreakerStep ==
    ASSUME Breaker!TypeOK,
           \/ UNCHANGED breaker \/ Breaker!OnFailure
           \/ Breaker!OnReset \/ Breaker!ResetTimeoutElapses
    PROVE  Breaker!TypeOK'
<1>1. consecutiveFailures' \in Nat /\ consecutiveSuccesses' \in Nat
    BY DEF Breaker!TypeOK, breaker, Breaker!OnFailure, Breaker!OnReset,
           Breaker!ResetTimeoutElapses, Breaker!cb
<1>2. state' \in Breaker!States
    BY Zenon DEF Breaker!TypeOK, Breaker!States, breaker, Breaker!OnFailure,
           Breaker!OnReset, Breaker!ResetTimeoutElapses, Breaker!cb
<1>3. timeoutElapsed' \in BOOLEAN
    BY DEF Breaker!TypeOK, breaker, Breaker!OnFailure, Breaker!OnReset,
           Breaker!ResetTimeoutElapses
<1>4. QED
    BY <1>1, <1>2, <1>3 DEF Breaker!TypeOK

\* Every step either leaves the breaker alone or is one of its operations.
LEMMA BreakerTypes ==
    ASSUME TypeOK, [Next]_vars
    PROVE  Breaker!TypeOK'
<1>1. \/ UNCHANGED breaker \/ Breaker!OnFailure
      \/ Breaker!OnReset \/ Breaker!ResetTimeoutElapses
    BY Zenon DEF Next, vars, Monitoring, MonitorNotices, MonitorStops, TenantAsks,
        RetryFires, Recovering, TakeRequest, DialFails, DialSucceeds, GiveUp,
        AbortRecovery, Restart, DrainRequests, ReconnectorStops, Listening,
        ListenerSetsUp, ListenerEnds, AskToStop, Stop, LosesConnection,
        LosesChannel, Loses, BreakerTime
<1>2. QED
    BY <1>1, BreakerStep DEF TypeOK

\* TypeOK in parts: Boolean flags, places in the code, notices and counters.
Flags ==
    /\ signal \in BOOLEAN /\ reconnecting \in BOOLEAN
    /\ watching \in BOOLEAN /\ current \in BOOLEAN
Places ==
    /\ main \in {"up", "noChannel", "down"}
    /\ shutdown \in {"no", "asked", "closed"}
    /\ phase \in Phases
    /\ listener \in {"setup", "consuming", "ended"}
NoticeSets == notice \in Notices /\ nextNotice \in Notices
Counters == attempts \in 0..MaxAttempts /\ retries \in Nat

LEMMA TypeParts ==
    TypeOK <=> Flags /\ Places /\ NoticeSets /\ Counters /\ Breaker!TypeOK
BY Zenon DEF TypeOK, Flags, Places, NoticeSets, Counters

LEMMA FlagsAndPlacesStep ==
    ASSUME Flags, Places, [Next]_vars
    PROVE  Flags' /\ Places'
<1> USE DEF Flags, Places, Phases, watch, listening, recovery, env
<1>1. CASE Monitoring \/ MonitorStops
    BY Zenon, <1>1 DEF Monitoring, MonitorNotices, MonitorStops
<1>2. CASE TenantAsks \/ RetryFires
    BY Zenon, <1>2 DEF TenantAsks, RetryFires
<1>3. CASE TakeRequest \/ GiveUp \/ AbortRecovery
    BY Zenon, <1>3 DEF TakeRequest, GiveUp, AbortRecovery, Failed
<1>4. CASE DialFails \/ DialSucceeds
    BY Zenon, <1>4 DEF DialFails, DialSucceeds
<1>5. CASE Restart \/ DrainRequests \/ ReconnectorStops
    BY Zenon, <1>5 DEF Restart, DrainRequests, ReconnectorStops
<1>6. CASE Listening
    BY Zenon, <1>6 DEF Listening, ListenerSetsUp, ListenerEnds
<1>7. CASE AskToStop \/ Stop
    BY Zenon, <1>7 DEF AskToStop, Stop
<1>8. CASE LosesConnection \/ LosesChannel
    BY Zenon, <1>8 DEF LosesConnection, LosesChannel, Loses
<1>9. CASE BreakerTime \/ UNCHANGED vars
    BY Zenon, <1>9 DEF BreakerTime, vars
<1>10. QED
    BY <1>1, <1>2, <1>3, <1>4, <1>5, <1>6, <1>7, <1>8, <1>9 DEF Next, Recovering

LEMMA NoticeSetsStep ==
    ASSUME NoticeSets, [Next]_vars
    PROVE  NoticeSets'
<1> USE DEF NoticeSets, Notices, watch
<1>1. CASE Monitoring \/ MonitorStops
    BY <1>1 DEF Monitoring, MonitorNotices, MonitorStops
<1>2. CASE DialFails \/ DialSucceeds \/ Restart
    BY <1>2 DEF DialFails, DialSucceeds, Restart
<1>3. CASE Stop
    BY <1>3 DEF Stop
<1>4. CASE LosesConnection \/ LosesChannel
    BY <1>4 DEF LosesConnection, LosesChannel, Loses
<1>5. CASE UNCHANGED watch
    BY <1>5
<1>6. QED
    BY <1>1, <1>2, <1>3, <1>4, <1>5
       DEF Next, Recovering, vars, TenantAsks, RetryFires, TakeRequest, GiveUp,
           AbortRecovery, DrainRequests, ReconnectorStops, Listening,
           ListenerSetsUp, ListenerEnds, AskToStop, BreakerTime

LEMMA CountersStep ==
    ASSUME Counters, [Next]_vars
    PROVE  Counters'
<1> USE ReconnectionAssumption DEF Counters, recovery
<1>1. CASE RetryFires
    BY <1>1 DEF RetryFires
<1>2. CASE TakeRequest
    BY <1>2 DEF TakeRequest
<1>3. CASE GiveUp \/ AbortRecovery
    BY <1>3 DEF GiveUp, AbortRecovery, Failed
<1>4. CASE DialFails
    BY <1>4 DEF DialFails
<1>5. CASE UNCHANGED <<attempts, retries>>
    BY <1>5
<1>6. QED
    BY Zenon, <1>1, <1>2, <1>3, <1>4, <1>5
       DEF Next, Recovering, vars, Monitoring, MonitorNotices, MonitorStops,
           TenantAsks, DialSucceeds, Restart, DrainRequests, ReconnectorStops,
           Listening, ListenerSetsUp, ListenerEnds, AskToStop, Stop,
           LosesConnection, LosesChannel, Loses, BreakerTime

\* The types are preserved by every step, whatever Overlap is.
LEMMA TypeStep ==
    ASSUME TypeOK, [Next]_vars
    PROVE  TypeOK'
BY TypeParts, FlagsAndPlacesStep, NoticeSetsStep, CountersStep, BreakerTypes
   DEF TypeOK, Flags, Places, NoticeSets, Counters

LEMMA TypeInit ==
    ASSUME Init
    PROVE  TypeOK
<1>1. Breaker!TypeOK
    BY DEF Init, Breaker!TypeOK, Breaker!States, Breaker!Entries
<1>2. Counters
    BY ReconnectionAssumption DEF Init, Counters
<1>3. Flags /\ Places /\ NoticeSets
    BY DEF Init, Flags, Places, NoticeSets, Phases, Notices
<1>4. QED
    BY <1>1, <1>2, <1>3, TypeParts

\* Every variable keeps its type (Reconnection!TypeOK).
THEOREM TypeCorrect == Spec => []TypeOK
BY TypeInit, TypeStep, PTL DEF Spec

-----------------------------------------------------------------------------
\* The strengthening holds at first: the connection is up and all run.
LEMMA IInvInit ==
    ASSUME Init
    PROVE  IInv
BY TypeInit DEF Init, IInv, RecoveryOwnsMain, ServedSinceRestart, NoLostClosure, stopping

\* Every step preserves the strengthening when the new connection is not lost
\* before its recovery is over.
LEMMA IInvStep ==
    ASSUME ~Overlap, IInv, [Next]_vars
    PROVE  IInv'
<1> USE DEF IInv, RecoveryOwnsMain, ServedSinceRestart, NoLostClosure, stopping,
            watch, listening, recovery, env
<1>1. TypeOK'
    BY TypeStep
<1> USE <1>1
<1>2. CASE Monitoring \/ MonitorStops
    BY <1>2 DEF Monitoring, MonitorNotices, MonitorStops
<1>3. CASE TenantAsks \/ RetryFires
    BY <1>3 DEF TenantAsks, RetryFires
<1>4. CASE TakeRequest
    BY <1>4 DEF TakeRequest
<1>5. CASE GiveUp
    \* MaxAttempts is not zero: a dial has failed, and the connection is gone.
    <2>1. attempts > 0
        BY <1>5, ReconnectionAssumption DEF GiveUp
    <2>2. retries' > 0
        BY <1>5 DEF GiveUp, Failed, TypeOK
    <2>3. QED
        BY Zenon, <1>5, <2>1, <2>2 DEF GiveUp, Failed
<1>6. CASE AbortRecovery \/ ReconnectorStops
    BY <1>6 DEF AbortRecovery, ReconnectorStops, Failed
<1>7. CASE DialFails \/ DialSucceeds
    BY <1>7 DEF DialFails, DialSucceeds, MayDial
<1>8. CASE Restart \/ DrainRequests
    BY <1>8 DEF Restart, DrainRequests
<1>9. CASE Listening
    BY <1>9 DEF Listening, ListenerSetsUp, ListenerEnds
<1>10. CASE AskToStop \/ Stop
    BY <1>10 DEF AskToStop, Stop
<1>11. CASE LosesConnection \/ LosesChannel
    BY <1>11 DEF LosesConnection, LosesChannel, Loses
<1>12. CASE BreakerTime \/ UNCHANGED vars
    BY <1>12 DEF BreakerTime, vars
<1>13. QED
    BY <1>2, <1>3, <1>4, <1>5, <1>6, <1>7, <1>8, <1>9, <1>10, <1>11, <1>12
       DEF Next, Recovering

LEMMA IInvHolds ==
    ASSUME ~Overlap
    PROVE  Spec => []IInv
<1>1. Init => IInv
    BY IInvInit
<1>2. IInv /\ [Next]_vars => IInv'
    BY IInvStep
<1>3. QED
    BY <1>1, <1>2, PTL DEF Spec

\* A closed connection or channel is never forgotten: until recovery has taken
\* it up there is a notification, a request or a sleeping retry for it.
THEOREM ClosureKept ==
    ASSUME ~Overlap
    PROVE  Spec => []NoLostClosure
BY IInvHolds, PTL DEF IInv

\* Outside recovery an open main connection has a listener and a monitor of its
\* own.
THEOREM ServedWhenOpen ==
    ASSUME ~Overlap
    PROVE  Spec => []OpenConnectionIsServed
<1>1. IInv => OpenConnectionIsServed
    BY DEF IInv, ServedSinceRestart, OpenConnectionIsServed
<1>2. QED
    BY IInvHolds, <1>1, PTL
=============================================================================
