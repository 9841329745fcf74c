--------------------------- MODULE TenantManager ---------------------------
(***************************************************************************)
(* The tenant consumers of internal/mqtt: who subscribes to an              *)
(* organization's queue, who stops it, and who brings it back when a        *)
(* channel, a vhost connection or the broker goes away.                     *)
(*                                                                          *)
(* Processes: the org-event listener of each generation (handleOrgEvent),    *)
(* one loop per tenant consumer (processTenantMessages, then                 *)
(* resubscribeTenant), the close monitor (monitorConnection), the            *)
(* reconnection goroutine (reconnectConnection) and shutdown.                *)
(* A step ends where the code gives up tenantMu or the pool's mutex, after   *)
(* it has read the main connection's state or the reconnecting flag, sends   *)
(* a request or waits.  tenantMu is a variable only where it is held over    *)
(* two calls of the pool.                                                   *)
(***************************************************************************)
EXTENDS PoolOps, FiniteSets, Sequences

CONSTANTS
    Orgs,           \* organization slugs
    VhostOf,        \* the vhost named by each organization's events
    AllowedVhosts,  \* config.AllowedVhosts
    Faults,         \* which faults the environment of this instance has
    Overlap,        \* TRUE: faults strike also during handlers and recovery
    Prompt,         \* TRUE: goroutines a fault wakes are done before tenants are redone
    MaxEvents,      \* bound: org events received
    MaxFaults,      \* bound: faults of the environment
    MaxConsumers,   \* bound: tenant consumers created
    MaxGenerations  \* bound: org-event listeners started

FaultKinds == {"tenantChannel", "vhost", "mainChannel", "main", "broker",
               "dial", "channel", "stop"}

ASSUME TenantAssumption ==
    /\ VhostOf \in [Orgs -> Vhosts]
    /\ AllowedVhosts \subseteq Vhosts
    /\ Faults \subseteq FaultKinds
    /\ {Overlap, Prompt} \subseteq BOOLEAN
    /\ MaxEvents \in Nat /\ MaxFaults \in Nat
    /\ MaxConsumers \in Nat /\ MaxGenerations \in Nat \ {0}

VARIABLES
    pool,               \* c.vhostPool
    tenantConsumers,    \* c.tenantConsumers: the consumer of an org, or None
    consumers,          \* every TenantConsumer ever made, in order
    tenantMu,           \* who holds c.tenantMu to give a connection back, or Free
    listener,           \* generation of the current org-event listener
    listening,          \* its deliveries still arrive
    handlers,           \* what each generation's handleOrgEvent is in the middle of
    main,               \* c.orgEventsConn and its channel
    notice,             \* close notifications the running monitor has not taken
    nextNotice,         \* those for the monitor not yet started
    signal,             \* c.reconnectChan holds a request
    reconnecting,       \* c.reconnecting and how far reconnectConnection is
    todo, redo,         \* reestablishTenantConnections: snapshot left, tenant in hand
    shutdown,           \* root context cancelled, stopAllConsumers calls so far
    events,             \* how many events the broker has sent
    faults              \* history: the faults of the environment, in order

tenantVars == <<pool, tenantConsumers, consumers, tenantMu>>
mainVars == <<main, notice, nextNotice>>
recVars == <<reconnecting, todo, redo, listener>>
vars == <<tenantVars, listening, handlers, mainVars, signal, recVars, shutdown,
          events, faults>>

None == 0
Ids == 1..MaxConsumers
Root == 0                               \* parent of consumers made by recovery
Free == -1
Generations == 1..MaxGenerations
Idle == [op |-> "idle"]

Consumer ==
    [ org : Orgs, conn : ConnIds,
      parent : {Root} \cup Generations, \* whose context it derives from
      cancelled : BOOLEAN,              \* Cancel was called
      channel : BOOLEAN,                \* Channel not closed on its own
      released : BOOLEAN,               \* history: Release called for it
      loop : {"running", "resubscribe", "acquiring", "releasing", "asking",
              "sending", "ended"} ]

Handler ==
    {Idle} \cup [op : {"subscribe"}, org : Orgs]
           \cup [op : {"unsubscribe"}, id : Ids]

\* Both Start and Stop call stopAllConsumers: `halted' counts the calls that
\* have emptied the map, `closed' those that have closed the pool as well.
Shutdown == [asked : BOOLEAN, halted : 0..2, closed : 0..2]

TypeOK ==
    /\ pool \in PoolType
    /\ tenantConsumers \in [Orgs -> Ids \cup {None}]
    /\ consumers \in Seq(Consumer) /\ Len(consumers) <= MaxConsumers
    /\ tenantMu \in {Free, Root} \cup Generations
    /\ listener \in Generations
    /\ listening \in BOOLEAN
    /\ handlers \in [Generations -> Handler]
    /\ main \in {"up", "noChannel", "down"}
    /\ {notice, nextNotice} \subseteq SUBSET {"connection", "channel"}
    /\ signal \in BOOLEAN
    /\ reconnecting \in {"no", "dialing", "dialed", "reestablishing"}
    /\ todo \subseteq Ids /\ redo \in Ids \cup {None}
    /\ shutdown \in Shutdown
    /\ events \in 0..MaxEvents
    /\ faults \in Seq(FaultKinds) /\ Len(faults) <= MaxFaults

Init ==
    /\ pool = EmptyPool
    /\ tenantConsumers = [o \in Orgs |-> None]
    /\ consumers = <<>> /\ tenantMu = Free
    /\ listener = 1 /\ listening = TRUE
    /\ handlers = [g \in Generations |-> Idle]
    /\ main = "up" /\ notice = {} /\ nextNotice = {}
    /\ signal = FALSE
    /\ reconnecting = "no" /\ todo = {} /\ redo = None
    /\ shutdown = [asked |-> FALSE, halted |-> 0, closed |-> 0]
    /\ events = 0 /\ faults = <<>>

-----------------------------------------------------------------------------
Made == DOMAIN consumers
OrgOf(k) == consumers[k].org
VhostOfConsumer(k) == VhostOf[OrgOf(k)]
Registered(k) == tenantConsumers[OrgOf(k)] = k
InHand(k) == \E g \in Generations : handlers[g] = [op |-> "unsubscribe", id |-> k]

\* A context is done when its own cancel or an ancestor's was called.
ContextDone(k) ==
    \/ consumers[k].cancelled
    \/ shutdown.asked
    \/ consumers[k].parent \notin {Root, listener}

\* !Channel.IsClosed(): deliveries can arrive on the consumer's channel.
ChannelOpen(k) == consumers[k].channel /\ consumers[k].conn \in pool.open

Live(k) == consumers[k].loop = "running" /\ ~ContextDone(k) /\ ChannelOpen(k)
Settled(k) == consumers[k].loop = "ended" \/ Live(k)

\* oldTenant.Cancel(), Channel.Cancel(), Channel.Close().
Halted(c) == [c EXCEPT !.cancelled = TRUE, !.channel = FALSE]

\* A TenantConsumer on the connection just acquired enters the map.
Created(o, parent) ==
    /\ CanAcquire(pool, VhostOf[o]) /\ Len(consumers) < MaxConsumers
    /\ pool' = Acquire(pool, VhostOf[o])
    /\ consumers' = Append(consumers,
         [ org |-> o, conn |-> pool'.conn[VhostOf[o]], parent |-> parent,
           cancelled |-> FALSE, channel |-> TRUE, released |-> FALSE,
           loop |-> "running" ])
    /\ tenantConsumers' = [tenantConsumers EXCEPT ![o] = Len(consumers')]

\* The channel cannot be opened, set up or consumed: tenantMu stays held, while
\* the pool's mutex does not ...
ChannelFails(o, parent) ==
    /\ "channel" \in Faults /\ CanAcquire(pool, VhostOf[o])
    /\ pool' = Acquire(pool, VhostOf[o])
    /\ tenantMu' = parent
    /\ UNCHANGED <<tenantConsumers, consumers>>

\* Mutant: an error path forgets to.
KeepConnection(o, parent) ==
    /\ tenantMu = parent
    /\ tenantMu' = Free
    /\ UNCHANGED <<pool, tenantConsumers, consumers>>

\* ... until the connection has been given back.
GiveBack(o, parent) ==
    /\ tenantMu = parent
    /\ pool' = Release(pool, VhostOf[o])
    /\ tenantMu' = Free
    /\ UNCHANGED <<tenantConsumers, consumers>>

DialFails(o) ==
    /\ "dial" \in Faults /\ CanFailAcquire(pool, VhostOf[o])
    /\ pool' = AcquireFailed(pool, VhostOf[o])
    /\ UNCHANGED <<tenantConsumers, consumers>>

\* Mutant: the map is consulted after the connection has been acquired.
SubscribeChecksLate(o, parent) ==
    /\ tenantMu = Free /\ UNCHANGED tenantMu
    /\ IF tenantConsumers[o] # None
       THEN /\ CanAcquire(pool, VhostOf[o])
            /\ pool' = Acquire(pool, VhostOf[o])
            /\ UNCHANGED <<tenantConsumers, consumers>>
       ELSE Created(o, parent) \/ DialFails(o)

\* subscribeToOrganization from the lock on, unless the channel fails.
Subscribe(o, parent) ==
    /\ tenantMu = Free /\ UNCHANGED tenantMu
    /\ IF tenantConsumers[o] # None THEN UNCHANGED <<pool, tenantConsumers, consumers>>
       ELSE Created(o, parent) \/ DialFails(o)

CannotSubscribe(o, parent) ==
    /\ tenantMu = Free /\ tenantConsumers[o] = None
    /\ ChannelFails(o, parent)

ReceiveEvent ==
    /\ listening
    /\ handlers[listener] = Idle
    /\ events < MaxEvents
    /\ events' = events + 1

\* handleOrgEvent, org.created, up to the reconnecting check.  A vhost of
\* another transformer is acknowledged; during recovery the event is requeued.
ReceiveCreated(o) ==
    /\ ReceiveEvent
    /\ handlers' =
          IF VhostOf[o] \in AllowedVhosts /\ reconnecting = "no"
          THEN [handlers EXCEPT ![listener] = [op |-> "subscribe", org |-> o]]
          ELSE handlers
    /\ UNCHANGED <<tenantVars, listening, mainVars, signal, recVars, shutdown, faults>>

HandleCreated(g) ==
    /\ handlers[g].op = "subscribe"
    /\ \/ /\ Subscribe(handlers[g].org, g) \/ GiveBack(handlers[g].org, g)
          /\ handlers' = [handlers EXCEPT ![g] = Idle]
       \/ CannotSubscribe(handlers[g].org, g) /\ UNCHANGED handlers
    /\ UNCHANGED <<listening, mainVars, signal, recVars, shutdown, events, faults>>

\* handleOrgEvent, org.deleted and org.deactivated: unsubscribeFromOrganization
\* takes the consumer out of the map ...
ReceiveDeleted(o) ==
    /\ ReceiveEvent
    /\ tenantMu = Free
    /\ tenantConsumers' = [tenantConsumers EXCEPT ![o] = None]
    /\ handlers' =
          IF tenantConsumers[o] = None THEN handlers
          ELSE [handlers EXCEPT ![listener] =
                   [op |-> "unsubscribe", id |-> tenantConsumers[o]]]
    /\ UNCHANGED <<pool, consumers, tenantMu, listening, mainVars, signal, recVars,
                   shutdown, faults>>

\* Mutant: the loop is cancelled, the channel left open.
FinishUnsubscribeNoClose(g) ==
    /\ handlers[g].op = "unsubscribe"
    /\ LET k == handlers[g].id
       IN  /\ consumers' = [consumers EXCEPT ![k].cancelled = TRUE, ![k].released = TRUE]
           /\ pool' = Release(pool, VhostOfConsumer(k))
    /\ handlers' = [handlers EXCEPT ![g] = Idle]
    /\ UNCHANGED <<tenantConsumers, tenantMu, listening, mainVars, signal, recVars,
                   shutdown, events, faults>>

\* ... and then, without the lock, stops it and releases its vhost.
FinishUnsubscribe(g) ==
    /\ handlers[g].op = "unsubscribe"
    /\ LET k == handlers[g].id
       IN  /\ consumers' = [consumers EXCEPT ![k] = [Halted(@) EXCEPT !.released = TRUE]]
           /\ pool' = Release(pool, VhostOfConsumer(k))
    /\ handlers' = [handlers EXCEPT ![g] = Idle]
    /\ UNCHANGED <<tenantConsumers, tenantMu, listening, mainVars, signal, recVars,
                   shutdown, events, faults>>

-----------------------------------------------------------------------------
\* processTenantMessages: both cases of its select may be ready at once.
LoopStops(k) ==
    /\ consumers[k].loop = "running"
    /\ ContextDone(k)
    /\ consumers' = [consumers EXCEPT ![k].loop = "ended"]
    /\ UNCHANGED <<pool, tenantConsumers, tenantMu, listening, handlers, mainVars,
                   signal, recVars, shutdown, events, faults>>

LoopSeesClosure(k) ==
    /\ consumers[k].loop = "running"
    /\ ~ChannelOpen(k)
    /\ consumers' = [consumers EXCEPT ![k].loop = "resubscribe"]
    /\ UNCHANGED <<pool, tenantConsumers, tenantMu, listening, handlers, mainVars,
                   signal, recVars, shutdown, events, faults>>

\* resubscribeTenant, first check: is the main connection closed?
ResubscribeMainDown(k) ==
    /\ consumers[k].loop = "resubscribe"
    /\ main = "down"
    /\ consumers' = [consumers EXCEPT ![k].loop = "asking"]
    /\ UNCHANGED <<pool, tenantConsumers, tenantMu, listening, handlers, mainVars,
                   signal, recVars, shutdown, events, faults>>

ResubscribeMainUp(k) ==
    /\ consumers[k].loop = "resubscribe"
    /\ main # "down"
    /\ consumers' = [consumers EXCEPT ![k].loop = "acquiring"]
    /\ UNCHANGED <<pool, tenantConsumers, tenantMu, listening, handlers, mainVars,
                   signal, recVars, shutdown, events, faults>>

\* Second check: can the vhost connection be had?
ResubscribeVhostDown(k) ==
    /\ consumers[k].loop = "acquiring"
    /\ "dial" \in Faults /\ CanFailAcquire(pool, VhostOfConsumer(k))
    /\ pool' = AcquireFailed(pool, VhostOfConsumer(k))
    /\ consumers' = [consumers EXCEPT ![k].loop = "asking"]
    /\ UNCHANGED <<tenantConsumers, tenantMu, listening, handlers, mainVars, signal,
                   recVars, shutdown, events, faults>>

ResubscribeVhostUp(k) ==
    /\ consumers[k].loop = "acquiring"
    /\ CanAcquire(pool, VhostOfConsumer(k))
    /\ pool' = Acquire(pool, VhostOfConsumer(k))
    /\ consumers' = [consumers EXCEPT ![k].loop = "releasing"]
    /\ UNCHANGED <<tenantConsumers, tenantMu, listening, handlers, mainVars, signal,
                   recVars, shutdown, events, faults>>

\* Either check failed: a recovery is asked for unless the flag says that one is
\* under way, and by the time the request is sent that one may be over.
AskForReconnect(k) ==
    /\ consumers[k].loop = "asking"
    /\ consumers' = [consumers EXCEPT
                        ![k].loop = IF reconnecting = "no" THEN "sending" ELSE "ended"]
    /\ UNCHANGED <<pool, tenantConsumers, tenantMu, listening, handlers, mainVars,
                   signal, recVars, shutdown, events, faults>>

\* A full reconnectChan absorbs the request.
SendRequest(k) ==
    /\ consumers[k].loop = "sending"
    /\ signal' = TRUE
    /\ consumers' = [consumers EXCEPT ![k].loop = "ended"]
    /\ UNCHANGED <<pool, tenantConsumers, tenantMu, listening, handlers, mainVars,
                   recVars, shutdown, events, faults>>

\* Release, Cancel the old consumer, close its channel.  The context the
\* goroutine waits on is the one oldTenant.Cancel() has just cancelled, so the
\* first select of the retry loop returns: nothing after it runs.
ResubscribeReturns(k) ==
    /\ consumers[k].loop = "releasing"
    /\ pool' = Release(pool, VhostOfConsumer(k))
    /\ consumers' = [consumers EXCEPT ![k] = [Halted(@) EXCEPT !.loop = "ended"]]
    /\ UNCHANGED <<tenantConsumers, tenantMu, listening, handlers, mainVars, signal,
                   recVars, shutdown, events, faults>>

-----------------------------------------------------------------------------
\* monitorConnection.  A notifier is closed after its one notification, so the
\* next round of the select may leave through it and miss the other notifier's.
Noticed(n) == n \in notice /\ notice' \in {notice \ {n}, {}}

HandleConnectionClosed ==
    /\ Noticed("connection")
    /\ pool' = InvalidateAll(pool)
    /\ signal' = TRUE
    /\ UNCHANGED <<tenantConsumers, consumers, tenantMu, listening, handlers, main,
                   nextNotice, recVars, shutdown, events, faults>>

HandleChannelClosed ==
    /\ Noticed("channel")
    /\ signal' = TRUE
    /\ UNCHANGED <<tenantVars, listening, handlers, main, nextNotice, recVars, shutdown,
                   events, faults>>

\* reconnectionMonitor takes a request and sets the flag.
ReconnectStarts ==
    /\ signal
    /\ reconnecting = "no"
    /\ signal' = FALSE
    /\ reconnecting' = "dialing"
    /\ UNCHANGED <<tenantVars, listening, handlers, mainVars, todo, redo, listener,
                   shutdown, events, faults>>

\* All attempts fail; after 10 s the retry goroutine asks again.
ReconnectFails ==
    /\ reconnecting = "dialing"
    /\ "dial" \in Faults
    /\ main' = "down" /\ listening' = FALSE
    /\ reconnecting' = "no"
    /\ signal' = TRUE
    /\ UNCHANGED <<tenantVars, handlers, notice, nextNotice, todo, redo, listener,
                   shutdown, events, faults>>

\* An attempt succeeds: what was left of the old connection is closed.
ReconnectDials ==
    /\ reconnecting = "dialing"
    /\ listener < MaxGenerations
    /\ main' = "up" /\ nextNotice' = {} /\ listening' = FALSE
    /\ reconnecting' = "dialed"
    /\ UNCHANGED <<tenantVars, handlers, notice, signal, todo, redo, listener,
                   shutdown, events, faults>>

\* Shutdown cancels the context reconnectConnection waits on: an error too.
ReconnectAborts ==
    /\ shutdown.asked
    /\ reconnecting \in {"dialing", "dialed"}
    /\ reconnecting' = "no"
    /\ signal' = TRUE
    /\ UNCHANGED <<tenantVars, listening, handlers, mainVars, todo, redo, listener,
                   shutdown, events, faults>>

\* Mutant: the snapshot has an entry for organizations without a consumer.
SnapshotWithNils ==
    /\ reconnecting = "dialed"
    /\ todo' = {tenantConsumers[o] : o \in Orgs}
    /\ reconnecting' = "reestablishing"
    /\ UNCHANGED <<tenantVars, listening, handlers, mainVars, signal, redo, listener,
                   shutdown, events, faults>>

\* After "a moment for connection to stabilize" (500 ms), which nothing enforces
\* but Prompt trusts, reestablishTenantConnections: snapshot of the map, ...
SnapshotTenants ==
    /\ reconnecting = "dialed" /\ tenantMu = Free
    /\ Prompt => notice = {} /\ \A k \in Made : Settled(k)
    /\ todo' = {tenantConsumers[o] : o \in Orgs} \ {None}
    /\ reconnecting' = "reestablishing"
    /\ UNCHANGED <<tenantVars, listening, handlers, mainVars, signal, redo, listener,
                   shutdown, events, faults>>

\* ... then for each tenant: delete whatever the map holds for its slug, ...
DropTenant(k) ==
    /\ redo = None /\ k \in todo /\ tenantMu = Free
    /\ tenantConsumers' = [tenantConsumers EXCEPT ![OrgOf(k)] = None]
    /\ todo' = todo \ {k}
    /\ redo' = k
    /\ UNCHANGED <<pool, consumers, tenantMu, listening, handlers, mainVars, signal,
                   reconnecting, listener, shutdown, events, faults>>

\* Mutants: the old consumer is put back; the new one lives under the context of
\* the listener that is about to be replaced.
RedoTenantPutsBack ==
    /\ redo # None
    /\ tenantConsumers' = [tenantConsumers EXCEPT ![OrgOf(redo)] = redo]
    /\ redo' = None
    /\ UNCHANGED <<pool, consumers, tenantMu, listening, handlers, mainVars, signal,
                   reconnecting, todo, listener, shutdown, events, faults>>
RedoTenantUnderListener ==
    /\ redo # None
    /\ Subscribe(OrgOf(redo), listener)
    /\ redo' = None
    /\ UNCHANGED <<listening, handlers, mainVars, signal, reconnecting, todo,
                   listener, shutdown, events, faults>>

\* ... and subscribe again, on the root context; a failure is only logged.
RedoTenant ==
    /\ redo # None
    /\ \/ /\ Subscribe(OrgOf(redo), Root) \/ GiveBack(OrgOf(redo), Root)
          /\ redo' = None
       \/ CannotSubscribe(OrgOf(redo), Root) /\ UNCHANGED redo
    /\ UNCHANGED <<listening, handlers, mainVars, signal, reconnecting, todo,
                   listener, shutdown, events, faults>>

\* The monitor and the listener are replaced, the old listener's context is
\* cancelled, the flag is cleared and pending requests are drained.
ReconnectDone ==
    /\ reconnecting = "reestablishing" /\ todo = {} /\ redo = None
    /\ listener' = listener + 1
    /\ listening' = (main = "up")
    /\ notice' = nextNotice /\ nextNotice' = {}
    /\ reconnecting' = "no"
    /\ signal' = FALSE
    /\ UNCHANGED <<tenantVars, handlers, main, todo, redo, shutdown, events, faults>>

\* runServe cancels the root context, then stopAllConsumers runs in Start and
\* in Stop.  It halts what the map holds under tenantMu ...
AskToStop ==
    /\ "stop" \in Faults
    /\ ~shutdown.asked
    /\ shutdown' = [shutdown EXCEPT !.asked = TRUE]
    /\ UNCHANGED <<tenantVars, listening, handlers, mainVars, signal, recVars, events,
                   faults>>

StopAllConsumers ==
    /\ shutdown.asked /\ shutdown.halted < 2 /\ tenantMu = Free
    /\ LET registered == {tenantConsumers[o] : o \in Orgs} \ {None}
           of(v) == Cardinality({k \in registered : VhostOfConsumer(k) = v})
       IN  /\ consumers' = [k \in Made |->
                  IF k \in registered
                  THEN [Halted(consumers[k]) EXCEPT !.released = TRUE]
                  ELSE consumers[k]]
           /\ pool' = ReleaseEach(pool, [v \in Vhosts |-> of(v)])
    /\ tenantConsumers' = [o \in Orgs |-> None]
    /\ shutdown' = [shutdown EXCEPT !.halted = @ + 1]
    /\ UNCHANGED <<tenantMu, listening, handlers, mainVars, signal, recVars, events, faults>>

\* ... and closes the pool without it.  Stop goes on to close the main connection.
ClosePool ==
    /\ shutdown.closed < shutdown.halted
    /\ pool' = CloseAll(pool)
    /\ shutdown' = [shutdown EXCEPT !.closed = @ + 1]
    /\ main' = IF shutdown'.closed = 2 THEN "down" ELSE main
    /\ listening' = (listening /\ main' = main)
    /\ UNCHANGED <<tenantConsumers, consumers, tenantMu, handlers, notice, nextNotice,
                   signal, recVars, events, faults>>

\* The listener's select notices the cancelled context sooner or later.
ListenerStops ==
    /\ shutdown.asked /\ listening
    /\ listening' = FALSE
    /\ UNCHANGED <<tenantVars, handlers, mainVars, signal, recVars, shutdown, events,
                   faults>>

-----------------------------------------------------------------------------
\* The environment.  Without Overlap a fault waits until the previous one has
\* been recovered from: no handler, loop or recovery has anything left to do.
Calm ==
    /\ main = "up" /\ notice = {} /\ ~signal /\ reconnecting = "no"
    /\ \A g \in Generations : handlers[g] = Idle
    /\ \A k \in Made : Settled(k)

Fault(kind) ==
    /\ kind \in Faults
    /\ Len(faults) < MaxFaults
    /\ Overlap \/ Calm
    /\ ~shutdown.asked
    /\ faults' = Append(faults, kind)

\* A closed connection closes its channel.  Who hears of it: the running monitor, or, once the
\* notifiers are those of the new connection, the one started after recovery.
Notify(closed) ==
    IF reconnecting \in {"no", "dialing"}
    THEN notice' = closed /\ UNCHANGED nextNotice
    ELSE nextNotice' = closed /\ UNCHANGED notice

TenantChannelLost(k) ==
    /\ Fault("tenantChannel")
    /\ ChannelOpen(k)
    /\ consumers' = [consumers EXCEPT ![k].channel = FALSE]
    /\ UNCHANGED <<pool, tenantConsumers, tenantMu, listening, handlers, mainVars,
                   signal, recVars, shutdown, events>>

VhostConnectionLost(c) ==
    /\ Fault("vhost")
    /\ c \in pool.open
    /\ pool' = ConnectionsLost(pool, {c})
    /\ UNCHANGED <<tenantConsumers, consumers, tenantMu, listening, handlers, mainVars,
                   signal, recVars, shutdown, events>>

MainChannelLost ==
    /\ Fault("mainChannel")
    /\ main = "up"
    /\ main' = "noChannel" /\ listening' = FALSE
    /\ Notify({"channel"})
    /\ UNCHANGED <<tenantVars, handlers, signal, recVars, shutdown, events>>

MainConnectionLost ==
    /\ Fault("main")
    /\ main = "up"
    /\ main' = "down" /\ listening' = FALSE
    /\ Notify({"connection", "channel"})
    /\ UNCHANGED <<tenantVars, handlers, signal, recVars, shutdown, events>>

\* The broker restarts: every connection of the process is gone.
BrokerRestarts ==
    /\ Fault("broker")
    /\ main = "up"
    /\ main' = "down" /\ listening' = FALSE
    /\ Notify({"connection", "channel"})
    /\ pool' = ConnectionsLost(pool, pool.open)
    /\ UNCHANGED <<tenantConsumers, consumers, tenantMu, handlers, signal, recVars,
                   shutdown, events>>

Listening == \E o \in Orgs : ReceiveCreated(o) \/ ReceiveDeleted(o)
Handling == \E g \in Generations : HandleCreated(g) \/ FinishUnsubscribe(g)
Looping(k) ==
    \/ LoopStops(k) \/ LoopSeesClosure(k)
    \/ ResubscribeMainDown(k) \/ ResubscribeMainUp(k)
    \/ ResubscribeVhostDown(k) \/ ResubscribeVhostUp(k) \/ ResubscribeReturns(k)
    \/ AskForReconnect(k) \/ SendRequest(k)
Monitoring == HandleConnectionClosed \/ HandleChannelClosed
Reconnecting ==
    \/ ReconnectStarts \/ ReconnectFails \/ ReconnectDials \/ ReconnectAborts
    \/ SnapshotTenants \/ RedoTenant \/ ReconnectDone
    \/ \E k \in todo : DropTenant(k)
Stopping == AskToStop \/ StopAllConsumers \/ ClosePool \/ ListenerStops
Failing ==
    \/ \E k \in Made : TenantChannelLost(k)
    \/ \E c \in pool.open : VhostConnectionLost(c)
    \/ MainChannelLost \/ MainConnectionLost \/ BrokerRestarts

Next ==
    \/ Listening \/ Handling \/ Monitoring \/ Reconnecting \/ Stopping
    \/ \E k \in Made : Looping(k)
    \/ Failing

Spec == Init /\ [][Next]_vars

\* Go's scheduler runs every goroutine that can run; the broker's events,
\* faults and the shutdown signal are under no obligation.
Fairness ==
    /\ WF_vars(Handling) /\ WF_vars(Monitoring) /\ WF_vars(Reconnecting)
    /\ \A k \in Ids : WF_vars(k \in Made /\ Looping(k))

FairSpec == Spec /\ Fairness

-----------------------------------------------------------------------------
\* The map only ever holds the newest consumer made for its organization, so
\* no recovery, redelivered event or resubscription brings an older one back
\* (tenant_manager.go:48-105, 116-120; connection.go:262-269).
NewestRegistered ==
    \A o \in Orgs : tenantConsumers[o] # None =>
        /\ tenantConsumers[o] \in Made
        /\ OrgOf(tenantConsumers[o]) = o
        /\ \A j \in Made : OrgOf(j) = o => j <= tenantConsumers[o]

\* What still owes the pool a Release of v.
Debtors(v) ==
    {k \in Made : VhostOfConsumer(k) = v /\ ~consumers[k].released}
Borrowers(v) ==
    {k \in Made : VhostOfConsumer(k) = v /\ consumers[k].loop = "releasing"}
OrgGivenUp == IF tenantMu = Root THEN OrgOf(redo) ELSE handlers[tenantMu].org
GivingBack(v) == IF tenantMu # Free /\ VhostOf[OrgGivenUp] = v THEN 1 ELSE 0

\* No vhost is counted more often than there are consumers that have not
\* released it and resubscriptions and failed subscriptions about to, whatever
\* interleaving of events, recovery and shutdown made them
\* (tenant_manager.go:55-91, 133, 194, 221-235).
CountsCovered ==
    \A v \in Vhosts :
        pool.refs[v] <= Cardinality(Debtors(v)) + Cardinality(Borrowers(v))
                        + GivingBack(v)

\* Until a connection is lost, recovery replaces tenants or shutdown begins, the
\* count is exactly the registered consumers, those being unsubscribed, the
\* resubscriptions and the subscription that has just failed: channels that close
\* or cannot be opened and dials that fail all give back what they took
\* (tenant_manager.go:55-91, 221-235).
CountsExact ==
    (/\ \A i \in DOMAIN faults : faults[i] = "tenantChannel"
     /\ listener = 1 /\ reconnecting # "reestablishing" /\ ~shutdown.asked) =>
        \A v \in Vhosts :
            pool.refs[v] = Cardinality({k \in Made : VhostOfConsumer(k) = v
                                           /\ (Registered(k) \/ InHand(k))})
                           + Cardinality(Borrowers(v)) + GivingBack(v)

\* An open channel belongs to the registered consumer of its organization, or
\* to one being unsubscribed: the broker delivers to nobody who has been
\* replaced or unsubscribed (tenant_manager.go:113-136; connection.go:253-280).
NoAbandonedChannel ==
    \A k \in Made : ChannelOpen(k) => Registered(k) \/ InHand(k)

\* A registered organization is eventually consumed, unless it is unsubscribed
\* or the service stops: recovery
\* leaves no consumer that is in the map and will never receive a message
\* again (connection.go:197-198, tenant_manager.go:205-288).
Served ==
    \A o \in Orgs : tenantConsumers[o] # None ~>
        (tenantConsumers[o] = None \/ shutdown.asked \/ Live(tenantConsumers[o]))

-----------------------------------------------------------------------------
\* What comments of the code promise and its steps do not keep.

\* "resubscribeTenant resubscribes to a tenant's queue after a channel closure"
\* (tenant_manager.go:205): a registered organization whose channel has closed
\* is eventually consumed again, or is no longer registered.
ResubscribesAfterClosure ==
    \A o \in Orgs :
        (tenantConsumers[o] # None /\ ~ChannelOpen(tenantConsumers[o])) ~>
        (tenantConsumers[o] = None \/ shutdown.asked \/ Live(tenantConsumers[o]))

\* "Invalidate all pooled vhost connections since they're also closed"
\* (connection.go:102): no pooled connection is open when the pool forgets it.
InvalidatesOnlyClosed ==
    [][HandleConnectionClosed => Stored(pool) \cap pool.open = {}]_vars

\* "unsubscribeFromOrganization stops consuming from an organization's queue"
\* (tenant_manager.go:113): once it returns no loop of the organization is left
\* that receives from an open channel.
UnsubscribeStopsConsuming ==
    [][\A g \in Generations : FinishUnsubscribe(g) =>
          \A k \in Made : OrgOf(k) = OrgOf(handlers[g].id) => ~Live(k)']_vars
=============================================================================
