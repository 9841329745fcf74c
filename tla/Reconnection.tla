---------------------------- MODULE Reconnection ----------------------------
(***************************************************************************)
(* The life of the main AMQP connection, the one org events arrive on:       *)
(* who notices that it is gone (monitorConnection, the tenants' loops), who  *)
(* brings it back (reconnectionMonitor running reconnectConnection, slowed   *)
(* by the circuit breaker), who listens on it (ListenToOrgEvents), and how   *)
(* all of them end.  TenantManager has what recovery does to the tenants;    *)
(* here redoing them is one long phase.                                     *)
(***************************************************************************)
EXTENDS Integers, Sequences

CONSTANTS
    MaxAttempts,        \* dials per recovery: maxAttempts of reconnectConnection
    MaxFailures,        \* the breaker's settings
    SuccessThreshold,
    Overlap,            \* TRUE: the new connection may be lost during recovery too
    MaxLosses,          \* bound: losses of the connection or of its channel
    MaxFailedDials,     \* bound: dials the broker refuses
    MaxAsks             \* bound: requests from tenants' loops

ASSUME ReconnectionAssumption ==
    /\ MaxAttempts \in Nat \ {0}
    /\ Overlap \in BOOLEAN
    /\ {MaxLosses, MaxFailedDials, MaxAsks} \subseteq Nat

VARIABLES
    main,               \* c.orgEventsConn and its channel
    watching,           \* the close monitor runs
    notice,             \* what it has not taken from its notifiers yet
    nextNotice,         \* what the notifiers of the new connection hold for the next
    signal,             \* c.reconnectChan holds a request
    phase,              \* where the goroutine of reconnectionMonitor is
    reconnecting,       \* the flag
    attempts,           \* failed dials of this recovery
    retries,            \* goroutines sleeping 10 s before they ask again
    listener,           \* where the newest ListenToOrgEvents is
    current,            \* its EventManager has the channel of the newest connection
    shutdown,           \* the root context is cancelled; Stop has closed main
    losses, failedDials, asks,  \* how often the environment struck
    state, consecutiveFailures, consecutiveSuccesses, timeoutElapsed

breaker == <<state, consecutiveFailures, consecutiveSuccesses, timeoutElapsed>>
watch == <<main, watching, notice, nextNotice>>
listening == <<listener, current>>
recovery == <<phase, reconnecting, attempts, retries>>
env == <<losses, failedDials, asks>>
vars == <<watch, signal, recovery, listening, shutdown, env, breaker>>

\* Nobody calls Execute; the results recorded are not kept.
Breaker == INSTANCE CircuitBreaker
    WITH Callers <- {}, running <- {}, log <- <<>>, MaxRecorded <- 0

stopping == shutdown # "no"

Phases == {"idle", "dialing", "tenants", "draining", "ended"}
Notices == SUBSET {"connection", "channel"}

TypeOK ==
    /\ main \in {"up", "noChannel", "down"}
    /\ watching \in BOOLEAN
    /\ notice \in Notices /\ nextNotice \in Notices
    /\ signal \in BOOLEAN /\ reconnecting \in BOOLEAN
    /\ shutdown \in {"no", "asked", "closed"}
    /\ phase \in Phases
    /\ attempts \in 0..MaxAttempts
    /\ retries \in Nat
    /\ listener \in {"setup", "consuming", "ended"} /\ current \in BOOLEAN
    /\ Breaker!TypeOK

\* After Connect, whose dial the breaker has recorded, and the first lines of
\* Start.
Init ==
    /\ main = "up"
    /\ watching = TRUE /\ notice = {} /\ nextNotice = {}
    /\ signal = FALSE
    /\ phase = "idle" /\ reconnecting = FALSE /\ attempts = 0 /\ retries = 0
    /\ listener = "setup" /\ current = TRUE
    /\ shutdown = "no"
    /\ losses = 0 /\ failedDials = 0 /\ asks = 0
    /\ state = "Closed" /\ timeoutElapsed = TRUE
    /\ consecutiveFailures = 0 /\ consecutiveSuccesses = 1

-----------------------------------------------------------------------------
\* monitorConnection takes one notification and asks for a reconnection; the
\* notifier it came through is closed, so the next select may end the monitor.
\* One whose notifiers reconnectConnection closed has nothing left to take and
\* is replaced by Restart: that it ended is not told apart.
MonitorNotices(n) ==
    /\ watching /\ n \in notice
    /\ \/ notice' = notice \ {n} /\ UNCHANGED watching
       \/ notice' = {} /\ watching' = FALSE
    /\ signal' = TRUE
    /\ UNCHANGED <<main, nextNotice, recovery, listening, shutdown, env, breaker>>

MonitorStops ==
    /\ stopping /\ watching
    /\ watching' = FALSE
    /\ UNCHANGED <<main, notice, nextNotice, signal, recovery, listening, shutdown, env, breaker>>

\* resubscribeTenant finds the main connection or a vhost connection gone.
TenantAsks ==
    /\ asks < MaxAsks
    /\ ~reconnecting
    /\ signal' = TRUE
    /\ asks' = asks + 1
    /\ UNCHANGED <<watch, recovery, listening, shutdown, losses, failedDials, breaker>>

RetryFires ==
    /\ retries > 0
    /\ retries' = retries - 1
    /\ signal' = TRUE
    /\ UNCHANGED <<watch, phase, reconnecting, attempts, listening, shutdown, env, breaker>>

-----------------------------------------------------------------------------
\* Mutant: the attempts are counted from one below.
TakeRequestOneMore ==
    /\ phase = "idle" /\ signal
    /\ signal' = FALSE
    /\ IF reconnecting THEN UNCHANGED recovery
       ELSE /\ phase' = "dialing" /\ reconnecting' = TRUE /\ attempts' = -1
            /\ UNCHANGED retries
    /\ UNCHANGED <<watch, listening, shutdown, env, breaker>>

\* reconnectionMonitor: a request that finds the flag set is dropped.
TakeRequest ==
    /\ phase = "idle" /\ signal
    /\ signal' = FALSE
    /\ IF reconnecting THEN UNCHANGED recovery
       ELSE /\ phase' = "dialing" /\ reconnecting' = TRUE /\ attempts' = 0
            /\ UNCHANGED retries
    /\ UNCHANGED <<watch, listening, shutdown, env, breaker>>

\* An open breaker makes the loop wait for ResetTimeout; it is only read.
MayDial == phase = "dialing" /\ (state = "Open" => timeoutElapsed)

\* What was left of the old connection is closed before every dial.  Closing it
\* ourselves closes the notifiers without a notification.
DialFails ==
    /\ MayDial /\ attempts < MaxAttempts
    /\ failedDials < MaxFailedDials
    /\ failedDials' = failedDials + 1
    /\ main' = "down"
    /\ attempts' = attempts + 1
    /\ Breaker!OnFailure
    /\ UNCHANGED <<watching, notice, nextNotice, signal, phase, reconnecting, retries,
                   listening, shutdown, losses, asks>>

DialSucceeds ==
    /\ MayDial /\ attempts < MaxAttempts
    /\ main' = "up" /\ nextNotice' = {}
    /\ current' = FALSE
    /\ phase' = "tenants"
    /\ Breaker!OnReset
    /\ UNCHANGED <<watching, notice, signal, reconnecting, attempts, retries, listener,
                   shutdown, env>>

\* Mutants: nobody asks again; the flag stays set.
FailedForGood ==
    /\ phase' = "idle" /\ reconnecting' = FALSE
    /\ UNCHANGED <<attempts, retries>>
FailedKeepingFlag ==
    /\ phase' = "idle"
    /\ retries' = retries + 1
    /\ UNCHANGED <<attempts, reconnecting>>

\* reconnectConnection returns an error: the flag is cleared and a goroutine
\* will ask again.
Failed ==
    /\ phase' = "idle" /\ reconnecting' = FALSE
    /\ retries' = retries + 1
    /\ UNCHANGED attempts

GiveUp ==
    /\ phase = "dialing" /\ attempts = MaxAttempts
    /\ Failed
    /\ UNCHANGED <<watch, signal, listening, shutdown, env, breaker>>

\* A wait of reconnectConnection ends by ctx.Done().  The 500 ms after the dial
\* and the redoing of the tenants that follows are one phase.
AbortRecovery ==
    /\ stopping /\ phase \in {"dialing", "tenants"}
    /\ Failed
    /\ UNCHANGED <<watch, signal, listening, shutdown, env, breaker>>

\* Mutant: the listener of the old connection is kept.
RestartMonitorOnly ==
    /\ phase = "tenants"
    /\ watching' = TRUE /\ notice' = nextNotice /\ nextNotice' = {}
    /\ phase' = "draining" /\ reconnecting' = FALSE
    /\ UNCHANGED <<main, signal, attempts, retries, listening, shutdown, env, breaker>>

\* The tenants are redone.  The old monitor is cancelled and waited for, a new
\* one watches the new notifiers; the old listener is cancelled and a new one
\* started.  reconnectConnection returns and the flag is cleared.
Restart ==
    /\ phase = "tenants"
    /\ watching' = TRUE /\ notice' = nextNotice /\ nextNotice' = {}
    /\ listener' = "setup" /\ current' = TRUE
    /\ phase' = "draining" /\ reconnecting' = FALSE
    /\ UNCHANGED <<main, signal, attempts, retries, shutdown, env, breaker>>

DrainRequests ==
    /\ phase = "draining"
    /\ signal' = FALSE
    /\ phase' = "idle"
    /\ UNCHANGED <<watch, reconnecting, attempts, retries, listening, shutdown, env, breaker>>

ReconnectorStops ==
    /\ stopping /\ phase = "idle"
    /\ phase' = "ended"
    /\ UNCHANGED <<watch, signal, reconnecting, attempts, retries, listening, shutdown,
                   env, breaker>>

-----------------------------------------------------------------------------
\* ListenToOrgEvents: declares, binds and consumes, retrying on whatever
\* channel its EventManager was made with; ends when its deliveries end.
ListenerSetsUp ==
    /\ listener = "setup"
    /\ current /\ main = "up"
    /\ listener' = "consuming"
    /\ UNCHANGED <<watch, signal, recovery, current, shutdown, env, breaker>>

\* Mutant: a listener that is still setting up does not look at its context.
ListenerEndsWhenConsuming ==
    /\ listener = "consuming"
    /\ ~(current /\ main = "up") \/ stopping
    /\ listener' = "ended"
    /\ UNCHANGED <<watch, signal, recovery, current, shutdown, env, breaker>>

ListenerEnds ==
    /\ \/ listener = "consuming" /\ ~(current /\ main = "up")
       \/ listener # "ended" /\ stopping
    /\ listener' = "ended"
    /\ UNCHANGED <<watch, signal, recovery, current, shutdown, env, breaker>>

\* runServe: cancel, then Stop.  The process may be told to stop at any time.
AskToStop ==
    /\ ~stopping
    /\ shutdown' = "asked"
    /\ UNCHANGED <<watch, signal, recovery, listening, env, breaker>>

\* Stop waits for the monitor, then closes the connection of that moment.
Stop ==
    /\ shutdown = "asked" /\ ~watching
    /\ shutdown' = "closed"
    /\ main' = "down"
    /\ UNCHANGED <<watching, notice, nextNotice, signal, recovery, listening, env,
                   breaker>>

\* The environment: what remains of the connection is lost.  The notification
\* goes to the notifiers registered on this connection.
Loses(to, closed) ==
    /\ losses < MaxLosses /\ ~stopping
    /\ Overlap \/ phase \in {"idle", "dialing"}
    /\ losses' = losses + 1
    /\ main' = to
    /\ IF phase = "tenants"
       THEN nextNotice' = nextNotice \cup closed /\ UNCHANGED notice
       ELSE /\ notice' = IF watching THEN notice \cup closed ELSE notice
            /\ UNCHANGED nextNotice
    /\ UNCHANGED <<watching, signal, recovery, listening, shutdown, failedDials, asks, breaker>>

LosesConnection ==
    \/ main = "up" /\ Loses("down", {"connection", "channel"})
    \/ main = "noChannel" /\ Loses("down", {"connection"})
LosesChannel == main = "up" /\ Loses("noChannel", {"channel"})

BreakerTime ==
    /\ Breaker!ResetTimeoutElapses
    /\ UNCHANGED <<watch, signal, recovery, listening, shutdown, env>>

Monitoring == \E n \in {"connection", "channel"} : MonitorNotices(n)
Recovering ==
    \/ TakeRequest \/ DialFails \/ DialSucceeds \/ GiveUp \/ AbortRecovery
    \/ Restart \/ DrainRequests
Listening == ListenerSetsUp \/ ListenerEnds

Next ==
    \/ Monitoring \/ MonitorStops \/ TenantAsks \/ RetryFires
    \/ Recovering \/ ReconnectorStops \/ Listening
    \/ AskToStop \/ Stop \/ LosesConnection \/ LosesChannel \/ BreakerTime

Spec == Init /\ [][Next]_vars

\* Runnable goroutines run and timers fire.  Where a select finds several cases
\* ready Go picks one at random, so a ready ctx.Done() is not passed over forever.
Fairness ==
    /\ WF_vars(Monitoring) /\ WF_vars(MonitorStops)
    /\ WF_vars(RetryFires) /\ WF_vars(BreakerTime)
    /\ WF_vars(Recovering) /\ SF_vars(ReconnectorStops)
    /\ WF_vars(Listening) /\ WF_vars(Stop)

FairSpec == Spec /\ Fairness

-----------------------------------------------------------------------------
\* A closed connection or channel is never forgotten: while no recovery is
\* under way, something is left that will start one: an untaken notification, a
\* request or a sleeping retry (connection.go:75-121, consumer.go:142-176).
NoLostClosure ==
    (main # "up" /\ phase = "idle" /\ ~stopping) =>
        \/ signal \/ retries > 0
        \/ watching /\ notice # {}

\* Outside recovery an open main connection has a listener of its own, not one
\* that retries on a channel of a dead connection (connection.go:214-226), and a
\* monitor that will hear of its end (connection.go:202-212).
OpenConnectionIsServed ==
    (main = "up" /\ phase = "idle" /\ ~stopping) =>
        /\ current /\ listener # "ended"
        /\ watching

\* A lost connection is eventually replaced and org events are consumed again,
\* unless the service stops: no order of notifications, refused dials, retries
\* and requests blocks recovery (consumer.go:135-179, connection.go:124-250).
Recovers ==
    (main # "up") ~> (stopping \/ (main = "up" /\ listener = "consuming"))

\* Once told to stop, the monitor, the reconnection goroutine and the listener
\* all end, whatever they were doing, and Stop, which waits for the monitor,
\* returns (consumer.go:138-141, 181-202).
Terminates ==
    stopping ~> /\ ~watching /\ phase = "ended" /\ listener = "ended"
                /\ shutdown = "closed"

\* "Drain stale reconnection requests (from resubscribeTenant, close handlers,
\* etc.)" (consumer.go:163): the drain takes no request that the connection just
\* made still needs, so it is up or its monitor has another notification of its
\* end.
DrainsOnlyStale ==
    [][DrainRequests /\ signal => main = "up" \/ (watching /\ notice # {})]_vars
=============================================================================
