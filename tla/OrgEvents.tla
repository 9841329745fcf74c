----------------------------- MODULE OrgEvents -----------------------------
(***************************************************************************)
(* How organization events reach the tenant manager: the durable queue of    *)
(* the broker, the client's buffer of deliveries (no Qos: no prefetch        *)
(* limit), and ListenToOrgEvents, which handles one delivery at a time and   *)
(* acknowledges it or, if handling failed, gives it back to the queue.       *)
(*                                                                          *)
(* An event is known by its place in the order of publication; a requeued    *)
(* one goes back to that place, so the queue is a set of numbers of which    *)
(* the least are delivered first.  Each connection has a listener; one of an   *)
(* old connection may still be handling what it was given.                   *)
(***************************************************************************)
EXTENDS Integers, Sequences, FiniteSets, SequencesExt, FiniteSetsExt

CONSTANTS
    Orgs, NoOrg,        \* NoOrg is not an organization
    MaxEvents,          \* bound: events published
    MaxConnections,     \* bound: connections made, those after a crash included
    MaxFailures,        \* bound: subscriptions that fail
    MaxCrashes          \* bound: crashes of the service

ASSUME OrgEventsAssumption ==
    /\ {MaxEvents, MaxFailures, MaxCrashes} \subseteq Nat
    /\ MaxConnections \in Nat \ {0}
    /\ IsFiniteSet(Orgs) /\ NoOrg \notin Orgs

VARIABLES
    published,          \* the events, in order
    ready,              \* waiting in the queue
    connection,         \* the newest connection
    up,                 \* it has not been lost
    listener,           \* what each connection's listener holds
    registered,         \* organizations in tenantConsumers
    failures, crashes,  \* how often the environment struck
    handled,            \* history: events handled without an error
    requeued            \* history: events given back by a Nack

queue == <<published, ready>>
env == <<failures, crashes>>
vars == <<published, ready, connection, up, listener, registered, failures, crashes,
          handled, requeued>>

\* A body that is not an org event is "junk"; "other" stands for the types
\* handleOrgEvent ignores, the discovery response among them, and for created
\* events without a vhost or with one this transformer is not assigned.
Events == [org : Orgs, kind : {"created", "deleted"}]
            \cup {[org |-> NoOrg, kind |-> k] : k \in {"junk", "other"}}
Published == DOMAIN published

\* A delivery is "taken" and handled; then its result waits to be settled.
Idle == [buffer |-> <<>>, stage |-> "waiting", event |-> 0]

TypeOK ==
    /\ published \in Seq(Events)
    /\ ready \subseteq Published
    /\ connection \in 1..MaxConnections
    /\ up \in BOOLEAN
    /\ listener \in [1..MaxConnections ->
                        [buffer : Seq(Published),
                         stage : {"waiting", "taken", "ok", "failed"},
                         event : Published \cup {0}]]
    /\ registered \subseteq Orgs
    /\ {failures, crashes} \subseteq Nat
    /\ handled \subseteq Published
    /\ requeued \subseteq Published

\* Deliveries of connection c that were neither acknowledged nor given back.
Held(c) ==
    ToSet(listener[c].buffer) \cup
    (IF listener[c].stage = "waiting" THEN {} ELSE {listener[c].event})
Unacked == IF up THEN Held(connection) ELSE {}

\* ListenToOrgEvents has declared and bound the queue and consumes.
Init ==
    /\ published = <<>> /\ ready = {}
    /\ connection = 1 /\ up = TRUE
    /\ listener = [c \in 1..MaxConnections |-> Idle]
    /\ registered = {}
    /\ failures = 0 /\ crashes = 0
    /\ handled = {} /\ requeued = {}

-----------------------------------------------------------------------------
\* The console publishes; the queue is durable.
Publish(e) ==
    /\ Len(published) < MaxEvents
    /\ published' = Append(published, e)
    /\ ready' = ready \cup {Len(published) + 1}
    /\ UNCHANGED <<connection, up, listener, registered, env, handled, requeued>>

\* Without a prefetch limit everything that is ready is sent at once, in order.
Deliver ==
    /\ up /\ ready # {}
    /\ ready' = {}
    /\ \E sent \in [1..Cardinality(ready) -> ready] :
          /\ ToSet(sent) = ready
          /\ \A m, n \in DOMAIN sent : m < n => sent[m] < sent[n]
          /\ listener' = [listener EXCEPT ![connection].buffer = @ \o sent]
    /\ UNCHANGED <<published, connection, up, registered, env, handled, requeued>>

Take(c) ==
    /\ listener[c].stage = "waiting" /\ listener[c].buffer # <<>>
    /\ listener' = [listener EXCEPT ![c] =
            [buffer |-> Tail(@.buffer), stage |-> "taken", event |-> Head(@.buffer)]]
    /\ UNCHANGED <<queue, connection, up, registered, env, handled, requeued>>

\* Mutants: whatever is not a deletion creates; a subscription that cannot be
\* made now is not an error.
HandleWellUnparsed(c) ==
    /\ listener[c].stage = "taken"
    /\ LET n == listener[c].event
           e == published[n] IN
       /\ registered' = IF e.kind = "deleted" THEN registered \ {e.org}
                        ELSE registered \cup {e.org}
       /\ handled' = handled \cup {n}
    /\ listener' = [listener EXCEPT ![c].stage = "ok"]
    /\ UNCHANGED <<queue, connection, up, env, requeued>>
HandleWellOrNot(c) ==
    /\ listener[c].stage = "taken"
    /\ published[listener[c].event].kind # "junk"
    /\ handled' = handled \cup {listener[c].event}
    /\ UNCHANGED registered
    /\ listener' = [listener EXCEPT ![c].stage = "ok"]
    /\ UNCHANGED <<queue, connection, up, env, requeued>>

\* handleOrgEvent returns nil; it may have had nothing to do.
HandleWell(c) ==
    /\ listener[c].stage = "taken"
    /\ LET n == listener[c].event
           e == published[n] IN
       /\ e.kind # "junk"
       /\ registered' = CASE e.kind = "created" -> registered \cup {e.org}
                          [] e.kind = "deleted" -> registered \ {e.org}
                          [] OTHER -> registered
       /\ handled' = handled \cup {n}
    /\ listener' = [listener EXCEPT ![c].stage = "ok"]
    /\ UNCHANGED <<queue, connection, up, env, requeued>>

\* The body does not parse, or the subscription fails: a reconnection is under
\* way, the vhost cannot be dialled, its channel or its consumer fails.
HandleBadly(c) ==
    /\ listener[c].stage = "taken"
    /\ LET e == published[listener[c].event] IN
       \/ e.kind = "junk" /\ UNCHANGED failures
       \/ /\ e.kind = "created"
          /\ failures < MaxFailures
          /\ failures' = failures + 1
    /\ listener' = [listener EXCEPT ![c].stage = "failed"]
    /\ UNCHANGED <<queue, connection, up, registered, crashes, handled, requeued>>

Settled(c) == listener' = [listener EXCEPT ![c].stage = "waiting", ![c].event = 0]

Ack(c) ==
    /\ listener[c].stage = "ok"
    /\ Settled(c)
    /\ UNCHANGED <<queue, connection, up, registered, env, handled, requeued>>

\* Mutants: the event is rejected without requeueing; it is tried again at once.
NackForGood(c) ==
    /\ listener[c].stage = "failed"
    /\ Settled(c)
    /\ UNCHANGED <<queue, connection, up, registered, env, handled, requeued>>
RetryInPlace(c) ==
    /\ listener[c].stage = "failed"
    /\ listener' = [listener EXCEPT ![c].stage = "taken"]
    /\ UNCHANGED <<queue, connection, up, registered, env, handled, requeued>>

\* Nack with requeue.  On a connection that is gone neither it nor an Ack
\* reaches the broker.
Nack(c) ==
    /\ listener[c].stage = "failed"
    /\ IF up /\ c = connection
       THEN /\ ready' = ready \cup {listener[c].event}
            /\ requeued' = requeued \cup {listener[c].event}
       ELSE UNCHANGED <<ready, requeued>>
    /\ Settled(c)
    /\ UNCHANGED <<published, connection, up, registered, env, handled>>

\* The deliveries of a lost connection end, or its context is cancelled.
ListenerEnds(c) ==
    /\ c < connection \/ ~up
    /\ listener[c].stage = "waiting" /\ listener[c].buffer # <<>>
    /\ listener' = [listener EXCEPT ![c].buffer = <<>>]
    /\ UNCHANGED <<queue, connection, up, registered, env, handled, requeued>>

\* The broker gives every delivery that is not settled back to the queue.
LosesConnection ==
    /\ up /\ connection < MaxConnections
    /\ up' = FALSE
    /\ ready' = ready \cup Unacked
    /\ UNCHANGED <<published, connection, listener, registered, env, handled, requeued>>

\* Recovery: a new channel and a new listener.  A tenant whose subscription
\* fails while it is redone is dropped (reestablishTenantConnections).
Recover ==
    /\ ~up
    /\ up' = TRUE /\ connection' = connection + 1
    /\ \E dropped \in SUBSET registered :
          /\ failures + Cardinality(dropped) <= MaxFailures
          /\ failures' = failures + Cardinality(dropped)
          /\ registered' = registered \ dropped
    /\ UNCHANGED <<published, ready, listener, crashes, handled, requeued>>

\* The process dies and is started again.
Crash ==
    /\ crashes < MaxCrashes /\ connection < MaxConnections
    /\ crashes' = crashes + 1
    /\ ready' = ready \cup Unacked
    /\ up' = TRUE /\ connection' = connection + 1
    /\ listener' = [c \in 1..MaxConnections |-> Idle]
    /\ registered' = {}
    /\ UNCHANGED <<published, failures, handled, requeued>>

Console == \E e \in Events : Publish(e)
Works(c) == Take(c) \/ HandleWell(c) \/ HandleBadly(c) \/ Ack(c) \/ Nack(c)

Next ==
    \/ Console \/ Deliver
    \/ \E c \in 1..MaxConnections : Works(c) \/ ListenerEnds(c)
    \/ LosesConnection \/ Recover \/ Crash

Spec == Init /\ [][Next]_vars

\* The broker delivers, the listeners run, a lost connection is recovered.
FairSpec ==
    /\ Spec
    /\ WF_vars(Deliver) /\ WF_vars(Recover)
    /\ \A c \in 1..MaxConnections : WF_vars(Works(c))

-----------------------------------------------------------------------------
\* No event is lost: one that was published is in the queue, delivered and not
\* settled, or has been handled without an error, whatever connections were
\* lost and wherever the service crashed (events.go:117-130).
NothingLost ==
    Published = ready \cup Unacked \cup handled

Touching(o) == {n \in Published : published[n].org = o}
Quiet(o) == Touching(o) \cap (ready \cup Unacked) = {}

\* When the events of an organization have all been settled, it is registered
\* exactly if the last one created it -- on the first connection and as long as
\* none of them was given back: a requeued event is handled after later ones
\* (events.go:122-124 with tenant_manager.go:159-176).
FollowsTheLastEvent ==
    connection = 1 /\ up =>
        \A o \in Orgs :
            (Quiet(o) /\ Touching(o) # {} /\ Touching(o) \cap requeued = {}) =>
                (o \in registered <=> published[Max(Touching(o))].kind = "created")

\* An event that can be handled is, in the end: a malformed one, which is given
\* back and delivered again for ever, blocks nobody (events.go:108-131).
ProperEventsHandled ==
    \A n \in 1..MaxEvents :
        (n \in Published /\ published[n].kind # "junk") ~> n \in handled
=============================================================================
