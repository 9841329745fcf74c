# TLA+ models of transformer-service

`transformer-service` takes raw LNS (LoRaWAN network server) messages of many
organizations from RabbitMQ, decodes and locates devices, and publishes
transformed entities back. Each organization ("tenant") has a virtual host and a
queue; a main AMQP connection carries organization events that say which tenants
exist. The service starts and stops one consumer per tenant, shares one
connection per vhost through a reference-counted pool, and re-creates everything
after a broker failure.

The modules here are translated from the Go source (`src/internal/...`). Paths
without a directory below are in `src/internal/mqtt`.

## 1. Inventory

| component | source | state | operations | hard behaviour | correct when |
|---|---|---|---|---|---|
| Vhost pool | `vhostpool/pool.go` | vhost -> connection, reference count | `Acquire`, `Release`, `InvalidateAll`, `CloseAll` | lost connections, `Release` names a vhost and not a connection, clearing while in use | counts cover the users left; nothing in use is closed; nothing leaks |
| Circuit breaker | `internal/circuitbreaker` | state, two counters, last failure | `Execute`, `Record*`, `Reset` | late results of concurrent calls, timeout, boundaries | trips and recovers exactly at the thresholds, holds while open |
| Tenant manager | `tenant_manager.go`, `connection.go:252-280`, loop of `message_handler.go:18-65` | `tenantConsumers`, each consumer's context, channel and vhost, `reconnecting` | subscribe, unsubscribe, resubscribe, re-establish, stop | five kinds of goroutine, check outside the lock, partial failures | newest consumer registered, references returned, registered tenants served |
| Connection recovery | `connection.go`, `consumer.go:134-202` | main connection, close monitor, request channel, flag, listener | monitor, reconnect, drain, retry, stop | duplicate and lost notifications, drain, sleeping retries, shutdown | no loss forgotten, recovery and shutdown end |
| Org-event listener | `rabbitmq/events.go`, `tenant_manager.go:138-181` | deliveries of each channel | consume, handle, ack, nack with requeue | reordering, redelivery, malformed events, restarts | nothing lost, last event wins, nobody starved |
| Message pipeline | `message_handler.go`, `publisher.go`, `api.go`, `entity_parser.go`, `payload/`, `helpers/` | none of its own; ack per delivery | parse, route, resolve, identify, publish | asks about the device six times and keeps no answer; acknowledged after failure; partial publishes; redelivery | an acknowledged message was published where it had to be; a deactivated device falls silent; readings survive from payload to entity |
| Resolver | `resolver/resolver.go` | none | `Resolve`, `extractGPS` | fallbacks GPS / gateways / none | one position at most, and the device's own if it has one |
| Location service | `services/location.go` | none | circles, zones, centroids | circles that do not meet or touch, gateways in one place | inside what the signals allow, nearer to the stronger gateway |
| Location history | `services/location_cache.go`, `bearing.go` | last two positions per device, in Redis | read, save, bearing | read-then-write by two consumers of one queue, expiry, redelivery | the bearing of a device that stands still tells how it came there |
| Device mapping cache | `services/device_profile*.go` | copies of mappings with a TTL | lookups | copies nobody invalidates, failed lookups | a copy is no staler than its lifetime |
| Transform service | `services/transform.go` | none | `Transform` | looks the device up once more | with the pipeline |
| LNS adapters | `internal/lns` | none | classify and extract for ChirpStack, TTN, Helium | wrapped and nested messages, field fallbacks | events and uplinks are never taken for each other |
| Decoders and entities | `internal/device_profiles` | none | 19 profiles: decoder, entities, templates, location | widths, sign, scale, frames cut short | every reading arrives with its value; a short frame loses its tail and nothing else |
| HTTP API | `internal/api` | none | list, batch, templates | listings in map order, offsets at the ends | pages cover each model once |
| Logger, identifier detection, config, telemetry, start-up | `services/logger.go`, `internal/devices`, `config`, `telemetry`, `cmd` | files, flags | - | shutdown order | - |

**Interactions.** `serve.go` creates the consumer, calls `Connect` (through the
breaker's `Execute`) and `Start`. `Start` runs `reconnectionMonitor` and
`ListenToOrgEvents`; the listener calls `handleOrgEvent`, which subscribes
(acquiring from the pool) or unsubscribes (releasing). Each tenant runs
`processTenantMessages`; when its channel closes it goes through
`resubscribeTenant`, which may ask for a reconnection. `monitorConnection`
hears of the main connection's end, clears the pool and asks too.
`reconnectConnection` dials under the breaker, re-subscribes every tenant, and
restarts monitor and listener. The body of each delivery goes from the tenant's
loop through `handleMessage`: parsed (`payload`), classified (`lns`), looked up
(`services`), decoded (`device_profiles`), located (`resolver`, `services`) and
published on up to five topics. Shared state: the tenant map under `tenantMu`, the
pool under its own mutex, the flag `reconnecting` (atomic), a one-place request
channel, the connection fields, which recovery writes without a lock, and, over
processes, the mappings and positions in Redis.

The hazards this gives rise to, each with its line, are in `PROJECT.json`.

## 2. Modules

| module | models | composes |
|---|---|---|
| `PoolOps` | the pool's methods as operators on a record | |
| `VhostPool` | the pool under arbitrary clients, losses and clears | `PoolOps` |
| `CircuitBreaker` | the breaker under concurrent callers | |
| `TenantManager` | tenant consumers, events, loops, recovery, shutdown | `PoolOps` |
| `Reconnection` | the main connection's life: monitor, requests, dials, listener, shutdown | `CircuitBreaker` (as `Breaker`) |
| `OrgEvents` | the event queue, deliveries and acknowledgements | |
| `DeviceMappings` | what the workers know of one device: the truth, its copy, answers on their way | |
| `LocationHistory` | the two last positions and the bearing | |
| `MessagePipeline` | one device's messages from the queue to the acknowledgement, with what goes wrong between the steps | `DeviceMappings`, `LocationHistory` |
| `Bytes` | reading integers, strings and positions of payloads | |
| `FrameDecoders`, `StreamDecoders` | the decoders of fixed frames; those that walk records | `Bytes` |
| `Entities` | the entities and templates of the 19 profiles | both decoders |
| `LnsAdapters` | the messages of ChirpStack, TTN and Helium | `Bytes` |
| `ApiMessages` | messages that come through the HTTP API of the platform | `Bytes` |
| `Uplinks` | one delivery step by step: parsed, routed, located, turned into entities | `Entities`, `LnsAdapters`, `ApiMessages` |
| `DeviceModelsApi` | a client reading the device models page by page or by id | |
| `Trilateration` | the position computed from gateways, on a line | |
| `Service` | `Uplinks`, `DeviceModelsApi` and `Trilateration`, which share no state | the three |
| `PoolOpsProofs` | lemmas on the pool's operators | `PoolOps` |
| `VhostPoolProofs`, `TenantManagerProofs`, `CircuitBreakerProofs`, `ReconnectionProofs`, `OrgEventsProofs`, `MessagePipelineProofs`, `ServiceProofs` | theorems | the module named |
| `MC*` | model values, symmetry, messages and scenarios for TLC | the module named |

Operators named as mutations in a comment (`ReleaseOneLate`, `FailedForGood`, ...)
are plausible bugs. None of them is part of a specification; each is used to show
that a property can fail.

### PoolOps, VhostPool
A pool is a record: `conn` and `refs` are `connections[vhost]`, `open` is the set
of live TCP connections, `dialled` counts them (`MaxDials` bounds it). A method is
one step, because each holds the mutex throughout, dial included
(`pool.go:35, 65, 80, 94`). `Acquire` on a dead entry forgets it and dials;
if that fails the entry stays forgotten (`AcquireFailed`). `VhostPool` adds
clients who remember what they were given, as tenant consumers do, and the
environment that breaks connections; `faults` records what happened, so that
properties can say under which conditions they hold.

### CircuitBreaker
One action per method; `Execute` is an admission (`Admit`, `AdmitProbe`) and a
later result (`Fails`, `Succeeds`), because the function runs outside the mutex.
Time is one bit: whether `ResetTimeout` has passed since the last failure. `log`
is a history of results that the properties count independently of the code's
counters. Concurrent callers and late results are what the type allows; the program
itself calls it from start-up and recovery, one after the other.

### TenantManager
A consumer is a record of what `TenantConsumer` and its goroutine hold: context
done, channel, loop position, whether it has released the pool. A step ends where
`tenantMu` or the pool's mutex is given up, the flag is read, or the code waits.
`ReceiveCreated` reads the flag and `HandleCreated` takes the lock later, so a
subscription can slip into recovery as it can in the code
(`tenant_manager.go:43` and `:48`). `unsubscribeFromOrganization` is two steps
(map, then channel and `Release`). `resubscribeTenant` is a step for each of: the
test of the main connection, `Acquire`, the load of the flag (`AskForReconnect`), the
send (`SendRequest`), `Release` with what follows. A subscription that gets its
connection and then no channel holds `tenantMu` from `Acquire` to `Release`, during
which others may use the pool: `ChannelFails` and `GiveBack`, with `tenantMu` saying
who holds the lock; everywhere else the lock is held within one step. Recovery is dialling, the 500 ms pause, the snapshot
(`SnapshotTenants`), and per tenant `DropTenant` and `RedoTenant`. `ReconnectDone`
clears the flag and drains the requests in one step: a tenant's request sent in between
is drained, as if its loop had found the flag set. Shutdown is
`AskToStop`, `StopAllConsumers` (which runs from `Start` and from `Stop`) and
`ClosePool`.

### Reconnection
`watching`, `notice` and `nextNotice` are the monitor and its notifiers: a loss
goes to the notifiers registered on that connection, and each notifier delivers
once. `signal` is the one-place `reconnectChan`. `phase` is where the goroutine of
`reconnectionMonitor` is. `retries` counts the goroutines that sleep 10 s after a
failed recovery. `current` tells a listener on the newest channel from one that
retries on a dead one. The tenants' part of recovery is the phase `"tenants"`. The
old monitor, after recovery has closed its notifiers, is not told apart from one
that has ended: it has nothing left to take, and `Restart` waits for it.

### OrgEvents
An event is its place in the order of publication, so that RabbitMQ's requeueing
at the original position makes `ready` a set. The channel has no `Qos`, so all that
is ready is delivered at once. `listener[c]` is the buffer and the delivery in
hand on connection `c`; handling and settling are separate steps, so a connection
may be lost between them, and a listener of an old connection may finish a
delivery the new one also has. Kind `"other"` stands for everything
`handleOrgEvent` accepts without effect: unknown types, among them
`org.discovery.response`, and creations without a vhost or with one not in
`AllowedVhosts`.

### DeviceMappings, LocationHistory, MessagePipeline
`record` is what the device service has said of one device, the present last, and
`ended` when each earlier status ended; a version is a position in it, so that a
copy, or an answer a worker still holds, is told from the truth by its version.
`FindCopy`, `AskService`, `NoAnswer` and `KeepCopy` are the ways a lookup goes
(`device_profile.go`): Redis has it, the service answers, neither does, the answer
is saved. Time passes in units much longer than the timeouts of a lookup and not
while an answer is on its way.

In `MessagePipeline` a worker is the goroutine of one subscription. When its
channel closes the broker delivers the message again, to the next worker, while
the first one still works on it: that is how one message comes to be handled by
two. The steps in `Asking` are the six places that look the device up, each anew;
a failed lookup lets the message go on as an unknown or active device, and `blind`
remembers it for the properties. `Publish` is one topic at a time, in the order of
`handleMessage`; a publication on a closed channel fails, and so does the
acknowledgement after it. `history` is read before and saved after the position is
known, in two steps (`ProcessLocation`). `HistoryExpires` is Redis's TTL, `Crash`
the process. What may go wrong is a `budget` of each scenario.

### Bytes to Service
These are functions of a message, so they are checked on messages rather than on
interleavings. Payloads are bytes; numbers are integers in thousandths, since TLC
has no fractions; a JSON document is a record with the fields the code looks at.
Every decoder is an operator with the name of its Go package. A delivery of
`MCService` is put together from readings by the layout the decoder documents, put
into an envelope of each network server, and comes with what was meant
(`expect`, `fix`, `records`), which only the properties read. Estimates
in `Trilateration` are over gateways on a line, where distances are whole numbers;
how zones weigh against each other is left open, and `Estimates` is all the points
whose mean the result is. Circles that touch from outside have a lens without area
and drop out; a circle that touches another from inside is a zone as any other
(`location.go:442-445`), and the places of the run have both.

## 3. Runs

| run | instance | shows |
|---|---|---|
| `VhostPool` | 3 clients, 2 vhosts, 4 dials, symmetry | counts, ownership, no premature close, who leaks |
| `CircuitBreaker` | 3 callers, thresholds 2/2, 8 records | thresholds, exact tripping, holding while open |
| `TenantsAnyFault` | 2 organizations on 1 vhost, 2 events, 1 fault of any kind at any moment | `NewestRegistered`, `CountsCovered`, `CountsExact` |
| `TenantsRecovery` | the same, 3 events, 2 faults among broker restarts and channels that cannot be opened, fairness | `NoAbandonedChannel`, `Served` |
| `Reconnection` | 2 dials per recovery, breaker 2/2, 2 losses, 3 refused dials, 1 tenant request, shutdown | `NoLostClosure`, `OpenConnectionIsServed`, `Recovers`, `Terminates` |
| `OrgEvents` | 1 organization, 3 events of 4 kinds, 2 connections, 2 failures, 1 crash | `NothingLost`, `FollowsTheLastEvent`, `ProperEventsHandled` |
| `Pipeline` | 2 workers; 7 scenarios of up to 3 messages (a device that moves and stands still, uplink, event, API message) with channel closures, crashes, Redis and service failures, expiry, changes of the device and hours | `AckedIsAccountedFor`, `HistoryTellsTheMove`, `DeactivationTakesEffect`, `NoCopyOutlivesItsTime`, `EveryMessageAnswered` |
| `Service` | messages of all 19 profiles in 3 servers' envelopes, cut at every byte for the record decoders; API messages in 5 envelopes; 3 models, pages of 0-2; 3 gateways on 5 places with 5 signal strengths | `MeasurementsSurvive`, `OneFixPerMessage`, `EntitiesAreDeclared`, `EventsAreRouted`, `TailLossOnly`, `ApiMessagesAreReported`, `PagesCoverModels`, `StrongerGatewayIsNearer`, `EstimateWithinReach` |
| `DocResubscribe` | violation | a closed tenant channel is never reopened by `resubscribeTenant` |
| `DocInvalidate` | violation | `InvalidateAll` forgets open connections |
| `DocUnsubscribe` | violation | a replaced consumer goes on after unsubscription |
| `DocDrain` | violation | the drain takes the new connection's own request |

**Bounds.** Two clients suffice to close a connection in use and a third shows a
count of two left; four dials give every vhost a replacement. In the breaker eight
records cover trip, half-open entry, failure or recovery, and a second trip with
late results. With tenants, two organizations on one vhost are the smallest
instance in which one tenant's release can hurt another; three consumers give a
replacement while both exist, two dials a connection and the one that replaces it.
`TenantsRecovery` needs eight consumers so that two
recoveries of both tenants never run out: a bound that disables a step of the code
would invent a liveness failure (or hide one). In `Reconnection`, three refused
dials let a recovery give up with the breaker open and the next one be refused
too; two losses give a second recovery, and a channel loss followed by the
connection's. In `OrgEvents`, three events give create, delete and one between
them to be requeued; two connections give an old listener beside a new one.
Organizations do not interact there: an event of another organization does no
more than `"other"`. In `Pipeline` two workers are all who can handle one message
at a time after one closure; each scenario has the faults that can matter to its
messages, since all faults on all messages is beyond a run, and a copy lives for
two units of time, so that one made before a change is seen alive after it and dead later.
In `Service` every decoder sees messages of the layouts it documents, and
3 gateways give zones of two, of three, and none.

**Deadlock** is not checked where bounded environments end a behaviour: with every
event, fault, dial and message used up the service legitimately waits. It is
checked in `Service`, which always has another message or request.

**Fairness.** Runnable goroutines run and timers fire: weak fairness on handlers,
loops, monitor and recovery (`go` statements, `time.After`). Go's `select`
picks among ready cases at random, so a ready `ctx.Done()` is not passed over for
ever: strong fairness on `ReconnectorStops`, the only place a busy loop could do
so. The broker delivers, and it refuses only finitely many dials
(`MaxFailedDials`): without that nobody could promise recovery. Every call of
`handleMessage` has a timeout, so each worker of `Pipeline` goes on: weak fairness
on its steps, with no promise that a lookup or a publication succeeds. Nothing is
assumed of faults, events or the shutdown signal.

**Assumptions named by constants.** `Overlap = FALSE` means the environment does
not strike again until handlers and recovery are done; `Prompt = TRUE` that the
goroutines a fault wakes finish before tenants are redone. That includes
their requests for a recovery. The code relies on a
500 ms pause for the latter (`connection.go:189-195`) and enforces neither. The
safety properties of `TenantsAnyFault` do without both; `CountsCovered` is an upper bound, so it does not
say that a connection `InvalidateAll` forgot is closed, nor that a recovery was called
for. `Served` counts an organization as served once it is out of the map, as it is when
its subscription fails in recovery. `Served` needs them:
without `Prompt` a resubscription of an already unsubscribed organization that
acquired the old connection releases, and closes, the new one (`Release` names a
vhost); with `Overlap` a subscription made between a restart and `InvalidateAll`
is forgotten by it. `NoAbandonedChannel` needs `Prompt` for the late request of
section 4. `NoLostClosure`, `OpenConnectionIsServed` and `Recovers` need
`Overlap = FALSE`; `DocDrain` shows what happens otherwise.

## 4. Findings

1. `resubscribeTenant` cancels, through `oldTenant.Cancel()`, the context its own
   retry loop waits on (`tenant_manager.go:238` and `:249-253`); it returns, the
   dead consumer stays registered and a new `org.created` does nothing.
   `Served` holds in `TenantsRecovery` because a broker restart brings the tenants
   back through recovery instead.
2. `InvalidateAll` after the loss of the main connection forgets vhost connections
   that are other TCP connections and may be open (`connection.go:102-103`).
3. `reestablishTenantConnections` replaces consumers without stopping them
   (`connection.go:261-269`); over healthy vhost connections two consume.
4. The drain after recovery takes a request about the new connection
   (`consumer.go:163-175`).

Known and not counted as findings, because nothing in the repository promises
otherwise: a loop that has found the main connection closed may load the flag and send its
request only after the recovery's drain (`tenant_manager.go:208-217`), so that a
second recovery runs over healthy connections and replaces consumers whose channels
stay open, as in finding 3, though only the broker failed once
(with `Prompt = FALSE`, `TenantsRecovery` ends so, in 19 steps);
a failing dial for one tenant, even one already unsubscribed, starts a recovery of
all; a requeued creation can be handled after the deletion that followed it;
tenants whose subscription fails during recovery are dropped; after a restart
tenants depend on the console's reaction to the discovery request, whose declared
response type is ignored; a malformed event circulates for ever without delay.


Met while translating, and modelled as the code has it:

* A message is acknowledged whatever `handleMessage` returned, so a failed lookup
  or a position that cannot be found costs the topics that follow; a publication
  that fails because the channel closed does not, as the acknowledgement fails too.
* API messages are published for deactivated devices as well; `mapping.Skip` is
  never set by a lookup. The location history's 24 hours count from the last save,
  and a device that stands still saves nothing: it loses its history.
* `ValidateCoordinates` lets NaN pass. RAK4630's text `NaN` would, and the message
  is then lost in `json.Marshal` after it has been acknowledged.
* `expandRadii` says it ensures that circles intersect; with its factor of 0.8 and
  its cap of three it does not. A TTN gateway without `rssi` counts as the
  strongest. `LocationCalculated` is false on the equator and on the meridian.
* Documentation of payloads that the decoders disagree with: LSN50v2's
  `SHTEMP_MIN` (signed there, unsigned here), R718N17's byte offsets, RAK2270's
  records of unknown type (4 bytes there, one skipped here), the scale of AM307's
  examples. Abeeway reads a short GPS frame at other offsets than a whole one.
  T1000E decodes alarms that no entity tells.
* The device's type is upper-cased for entities but not in the resolver, so a
  mapping in lower case is decoded and not located. A nested message
  without `raw_data` has its positions read from the outer message. A Helium
  message with `frm_payload` alone has data for the entities and none for the
  resolver, and an object in `decoded_payload` is seen by the parser in the outer
  message alone and by the resolver in the inner. Bare TTN and Helium joins are unknown events and go on as uplinks.
* API entities whose names normalise alike share an id. A profile whose position
  is only computed (AM307, R718N17, MCLIMATE_HT, RAK2270) publishes of an API message
  that it cannot read a location entity without a position; as that is an entity,
  the scalars of the message are not told (`api.go:83`), though without a profile they
  would have been. `ApiMessagesAreReported` states it so. The error "produced no telemetry entities" in `api.go`
  cannot be reached. `SlicePage` adds offset and limit without regard to overflow.
  The comment at `handler.go:38` says that models are listed by name; they are listed
  by their type (the key of the map), which is what `PagesCoverModels` checks.

## 5. Proofs

For every value of the constants, from the assumptions declared beside them
(`PoolAssumption`, `ClientsAssumption`, `ConfigAssumption`,
`ReconnectionAssumption`, `TenantAssumption`, `OrgEventsAssumption`,
`CacheAssumption`, `MessagesAssumption`, `SignalAssumption`, `ModelsAssumption`):

* `VhostPoolProofs`: `TypeCorrect`, `EntriesCorrect`, `CountsBounded`,
  `NoPrematureClose`, `NoLeakWithoutInvalidate`. What each method does to a pool
  is in `PoolOpsProofs`, for this module and `TenantManagerProofs`. The invariant adds to the checked ones that
  connection numbers are fresh (a redial cannot give two vhosts one connection)
  and that, unless `InvalidateAll` was called, every live entry is in the map.
  The counting step is a lemma on the cardinality of a vhost's holders when one
  client is added or removed.
* `CircuitBreakerProofs`: `TypeCorrect`, `ThresholdsCorrect`, `OpenHolds`, `TripsExactly`. The
  invariant `CountersMatchLog` ties each counter to the run of equal results at
  the end of the history; without it the action property is not inductive.
* `ReconnectionProofs`: `TypeCorrect` without conditions; `ClosureKept` and
  `ServedWhenOpen` for `~Overlap`. The strengthening says who owns the main
  connection in each phase: the flag is set only inside recovery, a recovery with
  failed dials has none, one that has dialled keeps it, and from the restart on
  the monitor has nothing to take, hence no reason to leave, while the connection
  is up.

* `TenantManagerProofs`: `TypeCorrect`, `NewestStaysRegistered`,
  `CountsStayCovered`, `CountsStayExact`, with every fault at any moment. All the steps of the program
  come to a dozen ways of changing the pool, the map, the lock and the consumers; each is a
  lemma (`CreatedCore`, `ReleasingCore`, `LoopMoves`, `StopAllCore`, ...), and
  `CoreStep` sorts the actions among them. `Held(v)` counts who still owes a
  release of `v`; a subscription about to give back what it took
  counts too, and `LockInv` says that whoever holds the lock has one in hand;
  every step changes `pool.refs[v]` by no more than it changes
  `Held(v)`, or sets it to nothing. The invariant adds that a vhost without an
  entry has no count (`Release` gives nothing back there), and `RestInv` that a
  tenant in hand is one that was made. `CountsExact` is not inductive: a release can
  find its entry closed. `Quiet` says that nothing but consumers touches the pool as
  long as only channels of tenants were lost, `Counted` that the pool is then `Sane`
  (open, distinct connections, no count without an entry) and each count is the
  number of consumers registered or in hand plus the resubscriptions and the failed subscription.
  `NoChannelIsAbandoned` is proved for `OnlyTheBroker`: no two recoveries overlap,
  connections and channels of tenants are lost by the broker's doing, and the loops that
  this wakes are through before tenants are redone (`Prompt`). Each part is needed:
  without `Prompt`, or with any one of the faults it leaves out (the main connection
  or its channel alone, a failed dial, a stop), TLC finds a channel abandoned in
  `TenantsRecovery`, as recovery clears the map without closing what
  survived (section 4). `RecoveryInv` follows the recovery
  through its phases: from the fault until tenants are redone nobody listens and no
  channel is open (`Recovering`); while they are redone every one left is registered and
  has no open channel, so what leaves the map receives nothing; and, as a connection is
  the number of its dial (`Fresh`), no channel opens again. A loop that is about to ask
  for a recovery (`Asking`) does so while one is under way and has not come to the
  tenants, so that the drain takes its request.
* `OrgEventsProofs`: `EventsSurvive` and `TypeCorrect`, for any number of events,
  connections, losses and crashes, and `LastEventDecides`. `NothingLost` is not
  inductive, as an acknowledgement takes an event
  from where it would be found: the invariant adds that a delivery about to be
  acknowledged was handled (`Honest`). `FollowsTheLastEvent` needs an order: on the first
  connection, events never given back were handled before those in hand were
  published, those in hand before those in the buffer, and these before those ready
  (`InOrder`), so the last one handled of an organization is its latest so far, and what
  is registered is what that one asked for (`LastSays`).
* `MessagePipelineProofs`: `CopiesAreRecent`, of `DeviceMappings`. That a copy is alive
  says little, as it may have been saved by a worker that asked before the change; the
  invariant adds that an answer on its way is true or ended just now
  (`AnswersAreFresh`) and that a copy of an ended version expires a lifetime after the
  end (`CopiesExpire`). `PipelineImplementsMappings` is the refinement
  `PipelineSpec => MappingsSpec`, by which `PipelineCopiesAreRecent` carries
  `CopiesAreRecent` over. `AcknowledgedWasPublished` needs to know of each message
  on its way which topics it must have been published on by now (`Due`),
  `DeactivationWorks` that the answer which let it pass still counts
  (`CheckCounts`); both are in the invariant of each worker (`Sound`), and a lemma
  per action shows that the others stay sound. `TypeCorrect` completes the types, and
  `MovesAreRemembered` shows `HistoryTellsTheMove`: unless disturbed, a worker about to
  save still holds the history it read (or it has expired), and the position is not
  one `Unchanged` would drop (`AboutToSave`), so what it saves keeps a place
  other than the newest (`Kept`).

* `ServiceProofs`: `EstimatesStayWithinReach`, `StrongerStaysNearer`,
  `PagesStayComplete`, `EntitiesStayDeclared`, `OneFixIsTold`, `EventsStayRouted`,
  `MeasurementsStay`, `ApiMessagesStayReported` and `TailLossStays`: every property of the
  run, for any number of gateways, any places on a line, any strengths, calibration,
  models, limits, offsets, batches and messages. Loops are folds of the community modules, defined
  by recursion over finite sets; the library's induction theorems take an operator and
  cannot be used, so induction is stated of a set of subsets (`SubsetInduction`, from
  the library's `WFMin`), which gives the sums (`TotalSums`) and the rounds of a loop
  (`RoundsOf`). An estimate is one gateway, the weighted mean, or the centroid of two
  circles that meet (`EstimatesAre`): a weighted mean is between its extremes
  (`MeanBetween`), and a centroid in reach of both centres, nearer to the smaller circle
  (`Meeting`, `CentroidReach`). `StrongerStaysNearer` is proved for `SignalsInDBm`:
  `adaptiveFactor` goes by the magnitude of a signal, which a strong signal of 70 and
  more would not outlive; radio signals are negative, and every run's are. For the
  pages, `RequestsInv` says that what was read is the listing from the first offset to
  the offset of the next page. It holds from request to request because the order does not
  depend on how the map is walked (`SameOnEveryRequest`) and because a page ends where
  the next begins (`PageFollows`). A batch is followed id by id (`BatchIs`).
  `EntitiesStayDeclared` holds for any bytes and any readings a decoder makes of them,
  as each loop over a profile's definitions keeps some of them in order
  (`ReadingsAreNamed`) and "location" is none of their names (`KeysAreNamedOnce`);
  `ToldInv` carries that through the steps. Its hypothesis, `UplinksAreNoApiMessages`,
  is that the network servers' messages lack the fields by which the API's are told.
  `OneFixIsTold` follows the position from the resolver, which decodes the part of the
  message that positions are read from, to the parser, which decodes the whole message
  again: the bearing chosen from the device's readings or the history is chosen once
  more and stays (`ResolvedTwice`), the position is valid twice, and it is told under
  the source "gps" and no other entity is called "location" (`LocationIsToldOnce`).
  That both decode the same is not supposed but proved (`DecodedAlike`): the resolver
  looks into `locationPayload`, the parser into the message that wraps it and is handed
  the data besides. `FollowIs`, `LookIs` and `ExtractIs` say what a path, a list of
  paths and a field come to; with them the port, the bytes and the objects that a
  decoder sees are the same in both, whichever server sent the message
  (`FieldOfWrapped`, `DataOfBare`, `DataOfWrapped`, `BytesAre`). The hypotheses are
  about the message alone. `UplinksHoldTheirFix` says what "holds a fix" means: that
  the model's decoder finds one where positions are read, a valid one, in a message that
  names its device. `UplinksAreEnclosed` is how messages come: bare, or alone in
  `raw_data`, wrapped once, without `decoded_payload` and, from Helium, without
  `frm_payload`. Outside it the two readings do differ (section 4).

  The other four follow a message to its end, and their hypotheses are again about the
  message alone. `EventsStayRouted` needs `MessagesAreMarked`: ChirpStack marks events in
  the webhook's query, TTN by a field, Helium sends none. That the handlers' own rules
  then tell the two apart is `TakenForWhatItIs`, and `RoutedInv` keeps an event from
  being located and an uplink from being routed. `MeasurementsStay` adds
  `UplinksAreComplete` (an uplink of a known model names its device and has what its way of
  being located asks for), so that no step of it fails, and `ReadingsAreKnown`, which says what
  "the readings of an uplink" means: those its decoder finds. `PublishedInv` adds to
  `RoutedInv` that what is published is what `ParseToEntities` makes of the message; each
  reading the profile defines is then told once, with its state, whichever loop of the
  entity builder tells it (`TellsItsReadings`). `ApiMessagesStayReported` has
  `ApiMessagesAreRead` and `ApiInv`: a message of the API keeps away from the
  network servers' steps, and is told by its profile if that reads something or has a
  location to tell (`LocationsOfApi`, `NothingToTell`), else by its scalars or as the raw
  payload. A computed location counts although it has no position: the scalars of such a
  message are lost, which the property says and section 4 repeats.
  `TailLossStays` has `CutMessagesAreCut`: the message is the beginning of one made
  of whole records, each of a type its decoder knows. That the decoder ends and reads each record
  the same in both is `RecordsEndAlike` and `RecordsReadAlike`; its walk over the cut
  message, a recursive function, is the sequence of the records that came whole
  (`WalksExist`, `CutIsWalked`), the readings of these are merged to the same states
  (`StatesOfMerged`), and `CutIsNoticed` gives CT101 its exception. The hypothesis asks that
  a RAK2270 record be of one of its two types, as an unknown one is skipped by a single byte
  (section 4), so that a cut inside it is read differently.

  `MCService` assumes all eight hypotheses of its own messages, and that of
  `StrongerStaysNearer` of its signals (`TheoremsApply`), and TLC evaluates them with
  every run: 90 of its messages hold a fix.

Only model-checked:

* Liveness, as fairness and `ENABLED` are outside the prover: `ProperEventsHandled`,
  `EveryMessageAnswered`, `Served`, `Terminates` and `Recovers`.
* What each decoder makes of given bytes: `ReadingsAreKnown` asks that it finds the
  readings a message is said to hold, and TLC evaluates the 19 decoders on the messages of
  `MCService`, whose readings are written there by hand from the devices' formats. Over
  all bytes there is nothing to compare a decoder with but itself.

## 6. Not modelled

* The plane in `location.go`: areas of intersections, confidences and
  trigonometry need real numbers, which TLC does not have. On a line the choice of
  zones, the expansion of radii and the fallback are the code's own.
* Names, units, icons, timestamps, topics' wording, logging and tracing, and the
  metadata that `Transform` copies: no property tells them apart.
* `internal/devices` (identifier detection by patterns), `message_processor.go`,
  `device_registry.go`, `plugin_loader.go` and `DeviceRegistryCache` in
  `device_profile_cache.go`: nothing that `serve` starts calls them.
* The raw data logger: one mutex around a file. (Its size limits stay zero, so that
  it reopens the file for every entry.)
* Reading settings, set-up of HTTP and tracing. The order of shutdown is in
  `TenantManager` and `Reconnection`.
* A tenant whose subscription fails in recovery is dropped for good, and a restart
  depends on the console's answer to the discovery request: both are in the model,
  and no property, as nothing here promises otherwise.
