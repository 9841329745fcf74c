--------------------------- MODULE OrgEventsProofs ---------------------------
(***************************************************************************)
(* No organization event is lost, and the last one decides, for any number *)
(* of events, connections, failures and crashes.                           *)
(*                                                                         *)
(* An acknowledgement takes an event away from where NothingLost would     *)
(* find it, so the invariant adds that a delivery waiting for one has been *)
(* handled (and, for the types, that a lost connection can be replaced).    *)
(*                                                                         *)
(* That the last event decides needs the order of what is still to come    *)
(* (InOrder: on the first connection, what is in hand was published before *)
(* what is buffered, and that before what is ready, but for what was given *)
(* back) and what each handled event has left behind (LastSays).           *)
(***************************************************************************)
EXTENDS OrgEvents, FiniteSetTheorems, SequenceTheorems, TLAPS

Connections == 1..MaxConnections
Stages == {"waiting", "taken", "ok", "failed"}
Holdings == [buffer : Seq(Published), stage : Stages, event : Published \cup {0}]

\* What a listener holds was published, and what it acknowledges was handled.
Honest(l) ==
    /\ l \in Holdings
    /\ l.stage # "waiting" => l.event \in Published
    /\ l.stage = "ok" => l.event \in handled

EventsInv ==
    /\ TypeOK /\ NothingLost
    /\ up \/ connection < MaxConnections
    /\ \A c \in Connections : Honest(listener[c])

\* What a listener holds, as Held(c) says of the listener of c.
Holds(l) == ToSet(l.buffer) \cup (IF l.stage = "waiting" THEN {} ELSE {l.event})

LEMMA HeldHolds == \A c : Held(c) = Holds(listener[c])
  BY DEF Held, Holds

LEMMA HoldsPublished ==
    ASSUME NEW l, Honest(l)
    PROVE  Holds(l) \subseteq Published
  BY DEF Honest, Holdings, Holds, ToSet

\* The listener of one connection changes into l; the others and what was
\* published stay.
LEMMA ListenerStep ==
    ASSUME EventsInv, NEW c \in Connections, NEW l,
           listener' = [listener EXCEPT ![c] = l], published' = published,
           handled \subseteq handled', handled' \subseteq Published, Honest(l)'
    PROVE  /\ listener' \in [Connections -> Holdings]
           /\ \A d \in Connections : Honest(listener[d])'
           /\ \A d \in Connections \ {c} : Held(d)' = Held(d)
           /\ Held(c)' = Holds(l)
  <1>1. listener \in [Connections -> Holdings]
    BY DEF EventsInv, TypeOK, Connections, Holdings, Stages
  <1>2. l \in Holdings
    BY DEF Honest, Holdings, Published
  <1>3. listener'[c] = l /\ \A d \in Connections \ {c} : listener'[d] = listener[d]
    BY <1>1
  <1>4. ASSUME NEW d \in Connections PROVE Honest(listener[d])'
    BY <1>3 DEF EventsInv, Honest, Holdings, Published
  <1> QED
    BY <1>1, <1>2, <1>3, <1>4 DEF Held, Holds

-----------------------------------------------------------------------------
\* The steps of a listener: it lets go only of what was handled or given back.
LEMMA WorkStep ==
    ASSUME EventsInv, NEW c \in Connections, NEW l,
           listener' = [listener EXCEPT ![c] = l],
           UNCHANGED <<published, connection, up, crashes>>, Honest(l)',
           ready \subseteq ready', ready' \subseteq Published,
           handled \subseteq handled', handled' \subseteq Published,
           requeued' \subseteq Published, registered' \subseteq Orgs, failures' \in Nat,
           up /\ c = connection => Holds(listener[c]) \subseteq Holds(l) \cup handled' \cup ready'
    PROVE  EventsInv'
  <1>1. Published' = Published
    BY DEF Published
  <1>2. /\ listener' \in [Connections -> Holdings]
        /\ \A d \in Connections : Honest(listener[d])'
        /\ \A d \in Connections \ {c} : Held(d)' = Held(d)
        /\ Held(c)' = Holds(l)
    BY ListenerStep
  <1>3. TypeOK'
    BY <1>1, <1>2 DEF EventsInv, TypeOK, Connections, Holdings, Stages
  <1>4. connection \in Connections /\ connection' = connection /\ up' = up
    BY DEF EventsInv, TypeOK, Connections
  <1>5. Held(connection)' \subseteq Published
    BY <1>1, <1>2, <1>4, HoldsPublished, HeldHolds DEF Honest, Holdings, Holds, Held, ToSet
  <1>6. up => Held(connection) \subseteq Held(connection)' \cup handled' \cup ready'
    BY <1>2, <1>4, HeldHolds
  <1>7. Unacked = (IF up THEN Held(connection) ELSE {})
        /\ Unacked' = (IF up THEN Held(connection)' ELSE {})
    BY <1>4 DEF Unacked
  <1>8. NothingLost'
    BY <1>1, <1>5, <1>6, <1>7 DEF EventsInv, NothingLost
  <1> QED
    BY <1>2, <1>3, <1>8 DEF EventsInv

LEMMA TakeInv ==
    ASSUME EventsInv, NEW c \in Connections, Take(c)
    PROVE  EventsInv'
  <1>1. /\ listener[c].stage = "waiting" /\ listener[c].buffer # <<>>
        /\ listener' = [listener EXCEPT ![c] =
                [buffer |-> Tail(@.buffer), stage |-> "taken", event |-> Head(@.buffer)]]
        /\ UNCHANGED <<queue, connection, up, registered, env, handled, requeued>>
    BY Zenon DEF Take
  <1>2. PICK b \in Seq(Published) : b = listener[c].buffer
    BY DEF EventsInv, Honest, Holdings
  <1>3. PICK l : l = [buffer |-> Tail(b), stage |-> "taken", event |-> Head(b)]
    OBVIOUS
  <1>4. /\ Head(b) \in Published /\ Tail(b) \in Seq(Published)
        /\ Len(Tail(b)) = Len(b) - 1
        /\ \A i \in 1 .. Len(Tail(b)) : Tail(b)[i] = b[i + 1]
    BY <1>1, <1>2, HeadTailProperties
  <1>5. ToSet(b) \subseteq ToSet(Tail(b)) \cup {Head(b)}
    <2>1. ASSUME NEW i \in DOMAIN b PROVE b[i] \in ToSet(Tail(b)) \cup {Head(b)}
      <3>1. CASE i = 1
        BY <1>1, <1>2, <3>1
      <3>2. CASE i # 1
        <4>1. PICK j \in 1 .. Len(Tail(b)) : i = j + 1
          BY <1>4, <2>1, <3>2
        <4>2. Tail(b)[j] = b[i] /\ j \in DOMAIN Tail(b)
          BY <1>4, <4>1
        <4> QED
          BY <4>2 DEF ToSet
      <3> QED
        BY <3>1, <3>2
    <2> QED
      BY <2>1, Zenon DEF ToSet
  <1>6. listener' = [listener EXCEPT ![c] = l]
    BY <1>1, <1>2, <1>3
  <1>7. Honest(l)'
    BY <1>1, <1>3, <1>4 DEF Honest, Holdings, Stages, Published, queue
  <1>8. Holds(listener[c]) \subseteq Holds(l)
    BY <1>1, <1>2, <1>3, <1>5 DEF Holds
  <1>9. /\ ready \subseteq Published /\ handled \subseteq Published
        /\ requeued \subseteq Published /\ registered \subseteq Orgs /\ failures \in Nat
    BY DEF EventsInv, TypeOK
  <1> QED
    BY <1>1, <1>6, <1>7, <1>8, <1>9, WorkStep DEF queue, env

\* The stage of a delivery changes, and with it nothing of what is held.
LEMMA StageStep ==
    ASSUME EventsInv, NEW c \in Connections, NEW stage \in {"ok", "failed"},
           listener[c].stage = "taken",
           listener' = [listener EXCEPT ![c].stage = stage],
           handled' \subseteq Published, handled \subseteq handled',
           stage = "ok" => listener[c].event \in handled',
           UNCHANGED <<queue, connection, up, crashes, requeued>>,
           registered' \subseteq Orgs, failures' \in Nat
    PROVE  EventsInv'
  <1>1. PICK l : l = [listener[c] EXCEPT !.stage = stage]
    OBVIOUS
  <1>2. Honest(listener[c])
    BY DEF EventsInv
  <1>3. l \in Holdings /\ l.stage = stage /\ l.event = listener[c].event
        /\ l.buffer = listener[c].buffer
    BY <1>1, <1>2 DEF Honest, Holdings, Stages
  <1>4. listener' = [listener EXCEPT ![c] = l]
    BY <1>1
  <1>5. Honest(l)'
    BY <1>2, <1>3 DEF Honest, Holdings, Published, queue
  <1>6. Holds(listener[c]) = Holds(l)
    BY <1>3 DEF Holds
  <1>7. ready \subseteq Published /\ requeued \subseteq Published
    BY DEF EventsInv, TypeOK
  <1> QED
    BY <1>4, <1>5, <1>6, <1>7, WorkStep DEF queue

LEMMA HandleInv ==
    ASSUME EventsInv, NEW c \in Connections, HandleWell(c) \/ HandleBadly(c)
    PROVE  EventsInv'
  <1> DEFINE n == listener[c].event
  <1>1. listener[c].stage = "taken" /\ n \in Published
    BY DEF HandleWell, HandleBadly, EventsInv, Honest
  <1>2. registered \subseteq Orgs /\ handled \subseteq Published /\ failures \in Nat
    BY DEF EventsInv, TypeOK
  <1>3. CASE HandleWell(c)
    <2>1. /\ listener' = [listener EXCEPT ![c].stage = "ok"] /\ handled' = handled \cup {n}
          /\ UNCHANGED <<queue, connection, up, env, requeued>>
      BY <1>3 DEF HandleWell
    <2>2. published[n] \in Events
      BY <1>1 DEF EventsInv, TypeOK, Published
    <2>3. registered' \subseteq Orgs
      BY <1>2, <1>3, <2>2 DEF HandleWell, Events
    <2> QED
      BY <1>1, <1>2, <2>1, <2>3, StageStep DEF env
  <1>4. CASE HandleBadly(c)
    <2>1. /\ listener' = [listener EXCEPT ![c].stage = "failed"]
          /\ UNCHANGED <<queue, connection, up, registered, crashes, handled, requeued>>
      BY <1>4, Zenon DEF HandleBadly
    <2>2. failures' \in Nat
      BY <1>2, <1>4 DEF HandleBadly
    <2> QED
      BY <1>1, <1>2, <2>1, <2>2, StageStep
  <1> QED
    BY <1>3, <1>4

\* A delivery is settled: handled, or given back if the broker can be told.
LEMMA SettleInv ==
    ASSUME EventsInv, NEW c \in Connections, Ack(c) \/ Nack(c)
    PROVE  EventsInv'
  <1> DEFINE n == listener[c].event
  <1>0. PICK l : l = [listener[c] EXCEPT !.stage = "waiting", !.event = 0]
    OBVIOUS
  <1>1. /\ listener' = [listener EXCEPT ![c] = l]
        /\ UNCHANGED <<published, connection, up, registered, env, handled>>
        /\ listener[c].stage \in {"ok", "failed"}
    BY <1>0 DEF Ack, Nack, Settled, queue
  <1>2. Honest(listener[c])
    BY DEF EventsInv
  <1>3. n \in Published
    BY <1>1, <1>2 DEF Honest
  <1>4. l \in Holdings /\ l.stage = "waiting" /\ l.buffer = listener[c].buffer
    BY <1>0, <1>2 DEF Honest, Holdings, Stages
  <1>5. Honest(l)'
    BY <1>1, <1>4 DEF Honest, Holdings, Published
  <1>6. Holds(listener[c]) \subseteq Holds(l) \cup {n}
    BY <1>4 DEF Holds
  <1>7. /\ ready \subseteq ready' /\ ready' \subseteq Published
        /\ requeued' \subseteq Published
        /\ up /\ c = connection => n \in handled \cup ready'
    <2>1. ready \subseteq Published /\ requeued \subseteq Published
      BY DEF EventsInv, TypeOK
    <2>2. CASE Ack(c)
      BY <1>2, <2>1, <2>2 DEF Ack, Honest, queue
    <2>3. CASE Nack(c)
      BY <1>3, <2>1, <2>3 DEF Nack
    <2> QED
      BY <2>2, <2>3
  <1>8. handled \subseteq Published /\ registered \subseteq Orgs /\ failures \in Nat
    BY DEF EventsInv, TypeOK
  <1> QED
    BY <1>1, <1>5, <1>6, <1>7, <1>8, WorkStep DEF env

LEMMA ListenerEndsInv ==
    ASSUME EventsInv, NEW c \in Connections, ListenerEnds(c)
    PROVE  EventsInv'
  <1>0. PICK l : l = [listener[c] EXCEPT !.buffer = <<>>]
    OBVIOUS
  <1>1. /\ listener' = [listener EXCEPT ![c] = l] /\ ~(up /\ c = connection)
        /\ UNCHANGED <<queue, connection, up, registered, env, handled, requeued>>
    BY <1>0 DEF ListenerEnds, EventsInv, TypeOK, Connections
  <1>2. Honest(listener[c])
    BY DEF EventsInv
  <1>3. l \in Holdings /\ l.stage = listener[c].stage /\ l.event = listener[c].event
    <2>1. <<>> \in Seq(Published)
      OBVIOUS
    <2> QED
      BY <1>0, <1>2, <2>1 DEF Honest, Holdings
  <1>4. Honest(l)'
    BY <1>1, <1>2, <1>3 DEF Honest, Holdings, Published, queue
  <1>5. /\ ready \subseteq Published /\ handled \subseteq Published
        /\ requeued \subseteq Published /\ registered \subseteq Orgs /\ failures \in Nat
    BY DEF EventsInv, TypeOK
  <1> QED
    BY <1>1, <1>4, <1>5, WorkStep DEF queue, env

-----------------------------------------------------------------------------
\* A buffer to which deliveries are added holds these and what it held.
LEMMA ConcatContents ==
    ASSUME NEW S, NEW b \in Seq(S), NEW sent \in Seq(S)
    PROVE  b \o sent \in Seq(S) /\ ToSet(b \o sent) = ToSet(b) \cup ToSet(sent)
  <1> DEFINE both == b \o sent
  <1>1. /\ both \in Seq(S) /\ Len(both) = Len(b) + Len(sent)
        /\ \A i \in 1 .. Len(both) : both[i] = IF i <= Len(b) THEN b[i] ELSE sent[i - Len(b)]
    BY ConcatProperties
  <1> HIDE DEF both
  <1>2. /\ DOMAIN both = 1 .. Len(both) /\ DOMAIN b = 1 .. Len(b)
        /\ DOMAIN sent = 1 .. Len(sent) /\ Len(b) \in Nat /\ Len(sent) \in Nat
    BY <1>1
  <1>3. ASSUME NEW i \in DOMAIN both PROVE both[i] \in ToSet(b) \cup ToSet(sent)
    <2>1. CASE i <= Len(b)
      BY <1>1, <1>2, <2>1 DEF ToSet
    <2>2. CASE ~(i <= Len(b))
      <3>1. i - Len(b) \in DOMAIN sent /\ both[i] = sent[i - Len(b)]
        BY <1>1, <1>2, <2>2
      <3> QED
        BY <3>1 DEF ToSet
    <2> QED
      BY <2>1, <2>2
  <1>4. ASSUME NEW i \in DOMAIN b PROVE b[i] \in ToSet(both)
    <2>1. i \in DOMAIN both /\ both[i] = b[i]
      BY <1>1, <1>2
    <2> QED
      BY <2>1 DEF ToSet
  <1>5. ASSUME NEW i \in DOMAIN sent PROVE sent[i] \in ToSet(both)
    <2>1. PICK k \in DOMAIN both : k = Len(b) + i
      BY <1>1, <1>2
    <2>2. ~(k <= Len(b)) /\ k - Len(b) = i
      BY <1>2, <2>1
    <2>3. both[k] = sent[i]
      BY <1>1, <1>2, <2>2
    <2> QED
      BY <2>3 DEF ToSet
  <1>6. ToSet(both) = ToSet(b) \cup ToSet(sent)
    BY <1>3, <1>4, <1>5, Zenon DEF ToSet
  <1> QED
    BY <1>1, <1>6 DEF both

\* The steps of the console, the broker and the connection.
LEMMA PublishInv ==
    ASSUME EventsInv, NEW e \in Events, Publish(e)
    PROVE  EventsInv'
  <1>1. /\ published' = Append(published, e)
        /\ ready' = ready \cup {Len(published) + 1}
        /\ UNCHANGED <<connection, up, listener, registered, env, handled, requeued>>
    BY Zenon DEF Publish
  <1>2. TypeOK /\ published \in Seq(Events) /\ published' \in Seq(Events)
    BY <1>1 DEF EventsInv, TypeOK
  <1>3. Published' = Published \cup {Len(published) + 1} /\ 0 \notin Published
    BY <1>1, <1>2 DEF Published
  <1>4. ASSUME NEW l, l \in Holdings PROVE l \in Holdings'
    <2>1. l.buffer \in Seq(Published')
      BY <1>3, <1>4 DEF Holdings
    <2> QED
      BY <1>3, <1>4, <2>1 DEF Holdings
  <1>5. TypeOK'
    <2>1. listener' \in [Connections -> Holdings']
      BY <1>1, <1>2, <1>4 DEF TypeOK, Connections, Holdings, Stages
    <2> QED
      BY <1>1, <1>2, <1>3, <2>1 DEF TypeOK, Connections, Holdings, Stages, env
  <1>6. \A c \in Connections : Honest(listener[c])'
    BY <1>1, <1>3, <1>4 DEF EventsInv, Honest
  <1>7. Unacked' = Unacked
    BY <1>1 DEF Unacked, Held
  <1>8. NothingLost'
    BY <1>1, <1>3, <1>7 DEF EventsInv, NothingLost
  <1> QED
    BY <1>1, <1>5, <1>6, <1>8 DEF EventsInv

LEMMA DeliverInv ==
    ASSUME EventsInv, Deliver
    PROVE  EventsInv'
  <1> DEFINE c == connection
             old == listener[c]
  <1>1. PICK sent \in [1..Cardinality(ready) -> ready] :
            /\ ToSet(sent) = ready
            /\ listener' = [listener EXCEPT ![c].buffer = @ \o sent]
    BY DEF Deliver
  <1>2. /\ up /\ ready' = {}
        /\ UNCHANGED <<published, connection, up, registered, env, handled, requeued>>
    BY DEF Deliver
  <1>3. TypeOK /\ c \in Connections /\ Honest(old)
    BY DEF EventsInv, TypeOK, Connections
  <1>4. PICK b \in Seq(Published) : b = old.buffer
    BY <1>3 DEF Honest, Holdings
  <1>5. sent \in Seq(Published)
    <2>1. IsFiniteSet(Published)
      BY <1>3, FS_Interval DEF TypeOK, Published
    <2>2. Cardinality(ready) \in Nat
      BY <1>3, <2>1, FS_Subset, FS_CardinalityType DEF TypeOK
    <2>3. ready \subseteq Published
      BY <1>3 DEF TypeOK
    <2> QED
      BY <1>1, <2>2, <2>3
  <1>6. b \o sent \in Seq(Published) /\ ToSet(b \o sent) = ToSet(b) \cup ready
    BY <1>1, <1>4, <1>5, ConcatContents
  <1>7. PICK l : l = [old EXCEPT !.buffer = b \o sent]
    OBVIOUS
  <1>8. /\ l \in Holdings /\ l.buffer = b \o sent
        /\ l.stage = old.stage /\ l.event = old.event
    BY <1>3, <1>6, <1>7 DEF Honest, Holdings
  <1>9. listener' = [listener EXCEPT ![c] = l]
    BY <1>1, <1>4, <1>7
  <1>10. Honest(l)'
    BY <1>2, <1>3, <1>8 DEF Honest, Holdings, Published
  <1>11. /\ listener' \in [Connections -> Holdings]
         /\ \A d \in Connections : Honest(listener[d])'
         /\ Held(c)' = Holds(l)
    BY <1>2, <1>3, <1>9, <1>10, ListenerStep DEF TypeOK
  <1>12. Holds(l) = Holds(old) \cup ready
    BY <1>4, <1>6, <1>8 DEF Holds
  <1>13. Unacked' = Unacked \cup ready
    BY <1>2, <1>11, <1>12, HeldHolds DEF Unacked, Held
  <1>14. NothingLost'
    BY <1>2, <1>13 DEF EventsInv, NothingLost, Published
  <1>15. TypeOK'
    BY <1>2, <1>3, <1>11 DEF TypeOK, Connections, Holdings, Stages, Published, env
  <1> QED
    BY <1>2, <1>11, <1>14, <1>15 DEF EventsInv

\* What the lost connection had not settled is in the queue again.
LEMMA LosesConnectionInv ==
    ASSUME EventsInv, LosesConnection
    PROVE  EventsInv'
  <1>1. /\ up = TRUE /\ up' = FALSE /\ ready' = ready \cup Unacked
        /\ connection < MaxConnections
        /\ UNCHANGED <<published, connection, listener, registered, env, handled, requeued>>
    BY DEF LosesConnection, EventsInv, TypeOK
  <1>2. Unacked \subseteq Published /\ Unacked' = {}
    BY <1>1 DEF EventsInv, NothingLost, Unacked
  <1>3. TypeOK' /\ NothingLost'
    BY <1>1, <1>2 DEF EventsInv, TypeOK, NothingLost, Published, env
  <1>4. \A c \in Connections : Honest(listener[c])'
    BY <1>1 DEF EventsInv, Honest, Holdings, Published
  <1> QED
    BY <1>1, <1>3, <1>4 DEF EventsInv

LEMMA RecoverInv ==
    ASSUME EventsInv, Recover
    PROVE  EventsInv'
  <1>1. /\ ~up /\ up' = TRUE /\ connection' = connection + 1
        /\ UNCHANGED <<published, ready, listener, crashes, handled, requeued>>
    BY DEF Recover
  <1>2. PICK dropped \in SUBSET registered :
            failures' = failures + Cardinality(dropped) /\ registered' = registered \ dropped
    BY DEF Recover
  <1>3. TypeOK /\ connection' \in Connections
    BY <1>1, OrgEventsAssumption DEF EventsInv, TypeOK, Connections
  <1>4. failures' \in Nat /\ registered' \subseteq Orgs
    <2>1. dropped \in SUBSET Orgs /\ failures \in Nat
      BY <1>3 DEF TypeOK
    <2>2. Cardinality(dropped) \in Nat
      BY <2>1, OrgEventsAssumption, FS_Subset, FS_CardinalityType
    <2> QED
      BY <1>2, <1>3, <2>1, <2>2 DEF TypeOK
  <1>5. TypeOK'
    BY <1>1, <1>3, <1>4 DEF TypeOK, Connections, Published
  <1>6. \A c \in Connections : Honest(listener[c])'
    BY <1>1 DEF EventsInv, Honest, Holdings, Published
  <1>7. Unacked = {} /\ Unacked' \subseteq Published
    <2>1. Unacked = {} /\ Unacked' = Holds(listener[connection'])
      BY <1>1, HeldHolds DEF Unacked, Held, Holds
    <2> QED
      BY <1>3, <2>1, HoldsPublished DEF EventsInv
  <1>8. NothingLost'
    BY <1>1, <1>7 DEF EventsInv, NothingLost, Published
  <1> QED
    BY <1>1, <1>5, <1>6, <1>8 DEF EventsInv

LEMMA IdleIsHonest == Honest(Idle) /\ Holds(Idle) = {} /\ Idle \in Holdings
  <1>1. <<>> \in Seq(Published)
    OBVIOUS
  <1> QED
    BY <1>1 DEF Honest, Holds, Holdings, Stages, Idle, ToSet

LEMMA CrashInv ==
    ASSUME EventsInv, Crash
    PROVE  EventsInv'
  <1>1. /\ connection < MaxConnections /\ connection' = connection + 1
        /\ ready' = ready \cup Unacked /\ up' = TRUE /\ registered' = {}
        /\ listener' = [c \in Connections |-> Idle] /\ crashes' = crashes + 1
        /\ UNCHANGED <<published, failures, handled, requeued>>
    BY DEF Crash, Connections
  <1>2. TypeOK /\ Unacked \subseteq Published /\ connection' \in Connections
    BY <1>1, OrgEventsAssumption DEF EventsInv, TypeOK, NothingLost, Connections
  <1>3. \A c \in Connections : listener'[c] = Idle
    BY <1>1
  <1>4. TypeOK'
    BY <1>1, <1>2, IdleIsHonest DEF TypeOK, Connections, Holdings, Stages, Published
  <1>5. \A c \in Connections : Honest(listener[c])'
    BY <1>1, <1>3, IdleIsHonest DEF Honest, Holdings, Published, Idle
  <1>6. Unacked' = {}
    BY <1>1, <1>2, <1>3, IdleIsHonest DEF Unacked, Held, Holds, Idle
  <1>7. NothingLost'
    BY <1>1, <1>2, <1>6 DEF EventsInv, NothingLost, Published
  <1> QED
    BY <1>1, <1>4, <1>5, <1>7 DEF EventsInv

-----------------------------------------------------------------------------
LEMMA EventsInitInv == Init => EventsInv
  <1> SUFFICES ASSUME Init PROVE EventsInv
    OBVIOUS
  <1> USE DEF Init
  <1>1. Published = {} /\ \A c \in Connections : listener[c] = Idle
    BY DEF Published, Connections
  <1>2. TypeOK
    BY IdleIsHonest, OrgEventsAssumption DEF TypeOK, Holdings, Stages
  <1>3. Unacked = {}
    BY <1>1, OrgEventsAssumption, IdleIsHonest, HeldHolds DEF Unacked, Connections
  <1>4. NothingLost
    BY <1>1, <1>3 DEF NothingLost
  <1> QED
    BY <1>1, <1>2, <1>4, IdleIsHonest DEF EventsInv

LEMMA EventsStepInv == EventsInv /\ [Next]_vars => EventsInv'
  <1> SUFFICES ASSUME EventsInv, [Next]_vars PROVE EventsInv'
    OBVIOUS
  <1>1. ASSUME NEW c \in Connections, Works(c) \/ ListenerEnds(c) PROVE EventsInv'
    BY <1>1, TakeInv, HandleInv, SettleInv, ListenerEndsInv DEF Works
  <1>2. CASE UNCHANGED vars
    <2>1. TypeOK' /\ NothingLost'
      BY <1>2 DEF EventsInv, TypeOK, NothingLost, Unacked, Held, Published, vars
    <2> QED
      BY <1>2, <2>1 DEF EventsInv, Honest, Holdings, Published, vars
  <1> QED
    BY <1>1, <1>2, PublishInv, DeliverInv, LosesConnectionInv, RecoverInv, CrashInv
    DEF Next, Console, Connections

\* Every event that was published is in the queue, delivered and not settled, or
\* has been handled, whatever connections are lost and wherever the service
\* crashes (ListenToOrgEvents).
THEOREM EventsSurvive == Spec => [](TypeOK /\ NothingLost)
  <1>1. EventsInv => TypeOK /\ NothingLost
    BY DEF EventsInv
  <1> QED
    BY <1>1, EventsInitInv, EventsStepInv, PTL DEF Spec

-----------------------------------------------------------------------------
\* FollowsTheLastEvent.  On the first connection the events that were never given
\* back (Fresh) keep the order of publication, wherever they are: handled, in the
\* listener's hands, in its buffer or in the queue (InOrder).  So one that is handled
\* is the last of its organization so far, and decides (LastSays).
Fresh == Published \ requeued
Before(A, B, fresh) == \A x \in A \cap fresh, y \in B \cap fresh : x < y
Active(l) == IF l.stage \in {"taken", "failed"} THEN {l.event} ELSE {}

InOrder(l) ==
    /\ \A i, j \in DOMAIN l.buffer : i < j => Before({l.buffer[i]}, {l.buffer[j]}, Fresh)
    /\ Before(handled, Active(l) \cup ToSet(l.buffer) \cup ready, Fresh)
    /\ Before(Active(l), ToSet(l.buffer) \cup ready, Fresh)
    /\ Before(ToSet(l.buffer), ready, Fresh)

Done(o) == Touching(o) \cap handled
LastSays(o) ==
    Touching(o) \cap requeued = {} /\ Done(o) # {} =>
        \E n \in Done(o) : /\ \A m \in Done(o) : m <= n
                           /\ o \in registered <=> published[n].kind = "created"

FirstConnection ==
    connection = 1 /\ up =>
        /\ \A c \in Connections \ {1} : listener[c] = Idle
        /\ InOrder(listener[1])
        /\ \A o \in Orgs : LastSays(o)

FirstInv == EventsInv /\ FirstConnection

\* The listener that alone has something to do, and what it has.
LEMMA FirstListener ==
    ASSUME FirstInv, connection = 1, up
    PROVE  /\ 1 \in Connections /\ listener[1] \in Holdings
           /\ listener[1].buffer \in Seq(Published)
           /\ \A c \in Connections \ {1} : listener[c] = Idle
           /\ InOrder(listener[1]) /\ \A o \in Orgs : LastSays(o)
           /\ Active(listener[1]) \subseteq Published
           /\ ToSet(listener[1].buffer) \subseteq Published
           /\ ready \subseteq Published /\ handled \subseteq Published
           /\ Published \subseteq Nat
  <1>1. 1 \in Connections /\ Honest(listener[1])
    BY OrgEventsAssumption DEF FirstInv, EventsInv, Connections
  <1>2. listener[1] \in Holdings /\ listener[1].buffer \in Seq(Published)
    BY <1>1 DEF Honest, Holdings
  <1>3. Active(listener[1]) \subseteq Published
    BY <1>1 DEF Honest, Active
  <1>4. ToSet(listener[1].buffer) \subseteq Published
    BY <1>2 DEF ToSet
  <1>5. ready \subseteq Published /\ handled \subseteq Published /\ Published \subseteq Nat
    BY DEF FirstInv, EventsInv, TypeOK, Published
  <1> QED
    BY <1>1, <1>2, <1>3, <1>4, <1>5 DEF FirstInv, FirstConnection

\* What the organizations are told stays true when no event is handled.
LEMMA SaysStill ==
    ASSUME FirstInv, connection = 1, up, NEW o \in Orgs,
           UNCHANGED <<published, registered, handled>>, requeued \subseteq requeued'
    PROVE  LastSays(o)'
  <1>1. LastSays(o)
    BY FirstListener
  <1>2. Touching(o)' = Touching(o) /\ Done(o)' = Done(o)
    BY DEF Touching, Done, Published
  <1> QED
    BY <1>1, <1>2 DEF LastSays

LEMMA PublishFirst ==
    ASSUME FirstInv, connection = 1, up, NEW e \in Events, Publish(e)
    PROVE  FirstConnection'
  <1> DEFINE n == Len(published) + 1
             l == listener[1]
  <1>1. /\ published' = Append(published, e) /\ ready' = ready \cup {n}
        /\ UNCHANGED <<connection, up, listener, registered, handled, requeued>>
    BY DEF Publish, env
  <1>2. published \in Seq(Events) /\ requeued \subseteq Published
    BY DEF FirstInv, EventsInv, TypeOK
  <1>3. /\ Published' = Published \cup {n} /\ n \in Nat /\ \A m \in Published : m < n
        /\ \A m \in Published : published'[m] = published[m]
    BY <1>1, <1>2 DEF Published
  <1>4. Fresh' = Fresh \cup {n} /\ Fresh \subseteq Published /\ n \notin Published
    BY <1>1, <1>2, <1>3 DEF Fresh
  <1>5. InOrder(l)'
    <2>1. ASSUME NEW A, NEW B, A \subseteq Published, Before(A, B, Fresh)
          PROVE  Before(A, B \cup {n}, Fresh \cup {n})
      BY <1>3, <1>4, <2>1 DEF Before
    <2>2. ASSUME NEW i \in DOMAIN l.buffer, NEW j \in DOMAIN l.buffer, i < j
          PROVE  Before({l.buffer[i]}, {l.buffer[j]}, Fresh \cup {n})
      <3>1. Before({l.buffer[i]}, {l.buffer[j]}, Fresh)
        BY <2>2, FirstListener DEF InOrder
      <3>2. l.buffer[i] \in Published /\ l.buffer[j] \in Published
        BY FirstListener
      <3> QED
        BY <1>3, <1>4, <3>1, <3>2 DEF Before
    <2>3. Before(handled, Active(l) \cup ToSet(l.buffer) \cup (ready \cup {n}), Fresh \cup {n})
      <3>1. Before(handled, (Active(l) \cup ToSet(l.buffer) \cup ready) \cup {n}, Fresh \cup {n})
        BY <2>1, FirstListener DEF InOrder
      <3> QED
        BY <3>1 DEF Before
    <2>4. Before(Active(l), ToSet(l.buffer) \cup (ready \cup {n}), Fresh \cup {n})
      <3>1. Before(Active(l), (ToSet(l.buffer) \cup ready) \cup {n}, Fresh \cup {n})
        BY <2>1, FirstListener DEF InOrder
      <3> QED
        BY <3>1 DEF Before
    <2>5. Before(ToSet(l.buffer), ready \cup {n}, Fresh \cup {n})
      BY <2>1, FirstListener DEF InOrder
    <2> QED
      BY <1>1, <1>4, <2>2, <2>3, <2>4, <2>5 DEF InOrder, Active
  <1>6. ASSUME NEW o \in Orgs PROVE LastSays(o)'
    <2>1. Touching(o) \subseteq Touching(o)' /\ Touching(o)' \subseteq Touching(o) \cup {n}
      BY <1>3 DEF Touching
    <2>2. Done(o)' = Done(o) /\ Done(o) \subseteq Published
      BY <1>1, <1>4, <2>1, FirstListener DEF Done
    <2>3. LastSays(o)
      BY FirstListener
    <2> QED
      BY <1>1, <1>3, <2>1, <2>2, <2>3 DEF LastSays
  <1>7. \A c \in Connections \ {1} : listener'[c] = Idle
    BY <1>1, FirstListener
  <1> QED
    BY <1>1, <1>5, <1>6, <1>7 DEF FirstConnection

LEMMA DeliverFirst ==
    ASSUME FirstInv, connection = 1, up, Deliver
    PROVE  FirstConnection'
  <1> DEFINE l == listener[1]
  <1>1. PICK sent \in [1..Cardinality(ready) -> ready] :
            /\ ToSet(sent) = ready
            /\ \A m, n \in DOMAIN sent : m < n => sent[m] < sent[n]
            /\ listener' = [listener EXCEPT ![1].buffer = @ \o sent]
    BY DEF Deliver
  <1>2. /\ ready' = {}
        /\ UNCHANGED <<published, connection, up, registered, handled, requeued>>
    BY DEF Deliver, env
  <1>3. Cardinality(ready) \in Nat
    <2>1. IsFiniteSet(Published)
      BY FS_Interval DEF FirstInv, EventsInv, TypeOK, Published
    <2> QED
      BY <2>1, FirstListener, FS_Subset, FS_CardinalityType
  <1>4. PICK b \in Seq(Published) : b = l.buffer
    BY FirstListener
  <1>5. sent \in Seq(Published)
    <2>1. ready \subseteq Published
      BY FirstListener
    <2> QED
      BY <1>1, <1>3, <2>1
  <1> DEFINE both == b \o sent
  <1>6. /\ Len(both) = Len(b) + Len(sent) /\ DOMAIN both = 1 .. Len(both)
        /\ \A i \in 1 .. Len(both) : both[i] = IF i <= Len(b) THEN b[i] ELSE sent[i - Len(b)]
        /\ DOMAIN b = 1 .. Len(b) /\ DOMAIN sent = 1 .. Len(sent)
        /\ Len(b) \in Nat /\ Len(sent) \in Nat
    BY <1>4, <1>5, ConcatProperties
  <1>7. ToSet(both) = ToSet(b) \cup ready
    BY <1>1, <1>4, <1>5, ConcatContents
  <1> HIDE DEF both
  <1>8. /\ listener'[1].buffer = both /\ Active(listener[1])' = Active(l)
        /\ \A c \in Connections \ {1} : listener'[c] = Idle
    BY <1>1, <1>4, FirstListener DEF both, Active, FirstInv, EventsInv, TypeOK, Connections,
       Holdings
  <1>9. Fresh' = Fresh
    BY <1>2 DEF Fresh, Published
  <1>10. ASSUME NEW i \in DOMAIN both, NEW j \in DOMAIN both, i < j
         PROVE  Before({both[i]}, {both[j]}, Fresh)
    <2>1. CASE j <= Len(b)
      <3>1. i \in DOMAIN b /\ j \in DOMAIN b /\ both[i] = b[i] /\ both[j] = b[j]
        BY <1>6, <1>10, <2>1
      <3> QED
        BY <1>4, <1>10, <3>1, FirstListener DEF InOrder
    <2>2. CASE i <= Len(b) /\ ~(j <= Len(b))
      <3>1. /\ i \in DOMAIN b /\ both[i] = b[i]
            /\ j - Len(b) \in DOMAIN sent /\ both[j] = sent[j - Len(b)]
        BY <1>6, <2>2
      <3>2. both[i] \in ToSet(b) /\ both[j] \in ready
        BY <1>1, <3>1 DEF ToSet
      <3>3. Before(ToSet(b), ready, Fresh)
        BY <1>4, FirstListener DEF InOrder
      <3> QED
        BY <3>2, <3>3 DEF Before
    <2>3. CASE ~(i <= Len(b))
      <3>1. /\ i - Len(b) \in DOMAIN sent /\ both[i] = sent[i - Len(b)]
            /\ j - Len(b) \in DOMAIN sent /\ both[j] = sent[j - Len(b)]
            /\ i - Len(b) < j - Len(b)
        BY <1>6, <1>10, <2>3
      <3>2. both[i] < both[j]
        BY <1>1, <3>1
      <3> QED
        BY <3>2 DEF Before
    <2> QED
      BY <1>6, <2>1, <2>2, <2>3
  <1>11. /\ Before(handled, Active(l) \cup ToSet(both) \cup {}, Fresh)
         /\ Before(Active(l), ToSet(both) \cup {}, Fresh)
         /\ Before(ToSet(both), {}, Fresh)
    BY <1>4, <1>7, FirstListener DEF InOrder, Before
  <1>12. InOrder(listener[1])'
    BY <1>2, <1>8, <1>9, <1>10, <1>11 DEF InOrder
  <1> QED
    BY <1>2, <1>8, <1>12, SaysStill DEF FirstConnection

LEMMA TakeFirst ==
    ASSUME FirstInv, connection = 1, up, Take(1)
    PROVE  FirstConnection'
  <1> DEFINE l == listener[1]
  <1>1. /\ l.buffer # <<>>
        /\ listener' = [listener EXCEPT ![1] =
                [buffer |-> Tail(@.buffer), stage |-> "taken", event |-> Head(@.buffer)]]
        /\ UNCHANGED <<published, ready, connection, up, registered, handled, requeued>>
    BY DEF Take, queue, env
  <1>2. PICK b \in Seq(Published) : b = l.buffer
    BY FirstListener
  <1> DEFINE t == Tail(b)
             h == Head(b)
  <1>3. /\ h = b[1] /\ Len(b) \in Nat /\ 1 \in DOMAIN b /\ DOMAIN t = 1 .. Len(t)
        /\ \A i \in DOMAIN t : i \in Int /\ i >= 1 /\ t[i] = b[i + 1] /\ i + 1 \in DOMAIN b
    BY <1>1, <1>2, HeadTailProperties
  <1> HIDE DEF t, h
  <1>4. /\ listener'[1].buffer = t /\ Active(listener[1])' = {h}
        /\ \A c \in Connections \ {1} : listener'[c] = Idle
    BY <1>1, <1>2, FirstListener DEF t, h, Active, FirstInv, EventsInv, TypeOK, Connections
  <1>5. {h} \cup ToSet(t) \subseteq ToSet(b)
    BY <1>3 DEF ToSet
  <1>6. Before({h}, ToSet(t), Fresh)
    <2> SUFFICES ASSUME NEW i \in DOMAIN t PROVE Before({h}, {t[i]}, Fresh)
      BY DEF Before, ToSet
    <2>1. 1 < i + 1
      BY <1>3
    <2> QED
      BY <1>2, <1>3, <2>1, FirstListener DEF InOrder
  <1>7. ASSUME NEW i \in DOMAIN t, NEW j \in DOMAIN t, i < j
        PROVE  Before({t[i]}, {t[j]}, Fresh)
    <2>1. i + 1 < j + 1
      BY <1>3, <1>7
    <2> QED
      BY <1>2, <1>3, <2>1, FirstListener DEF InOrder
  <1>8. /\ Before(handled, {h} \cup ToSet(t) \cup ready, Fresh)
        /\ Before({h}, ToSet(t) \cup ready, Fresh)
        /\ Before(ToSet(t), ready, Fresh)
    BY <1>2, <1>5, <1>6, FirstListener DEF InOrder, Before
  <1>9. Fresh' = Fresh
    BY <1>1 DEF Fresh, Published
  <1>10. InOrder(listener[1])'
    <2>1. handled' = handled /\ ready' = ready
      BY <1>1
    <2> QED
      BY <1>4, <1>7, <1>8, <1>9, <2>1 DEF InOrder
  <1> QED
    BY <1>1, <1>4, <1>10, SaysStill DEF FirstConnection

\* An event that is handled is the last one of its organization so far.
LEMMA HandleWellFirst ==
    ASSUME FirstInv, connection = 1, up, HandleWell(1)
    PROVE  FirstConnection'
  <1> DEFINE l == listener[1]
             n == l.event
             e == published[n]
  <1>1. /\ l.stage = "taken" /\ e.kind # "junk" /\ handled' = handled \cup {n}
        /\ registered' = CASE e.kind = "created" -> registered \cup {e.org}
                           [] e.kind = "deleted" -> registered \ {e.org}
                           [] OTHER -> registered
        /\ listener' = [listener EXCEPT ![1].stage = "ok"]
        /\ UNCHANGED <<published, ready, connection, up, requeued>>
    BY DEF HandleWell, queue, env
  <1>2. Active(l) = {n} /\ n \in Published
    BY <1>1, FirstListener DEF Active
  <1>3. /\ listener'[1].buffer = l.buffer /\ Active(listener[1])' = {}
        /\ \A c \in Connections \ {1} : listener'[c] = Idle
    BY <1>1, FirstListener DEF Active, FirstInv, EventsInv, TypeOK, Connections, Holdings
  <1>4. Fresh' = Fresh
    BY <1>1 DEF Fresh, Published
  <1>5. /\ Before(handled, {n} \cup ToSet(l.buffer) \cup ready, Fresh)
        /\ Before({n}, ToSet(l.buffer) \cup ready, Fresh)
        /\ Before(ToSet(l.buffer), ready, Fresh)
    BY <1>2, FirstListener DEF InOrder
  <1>6. /\ Before(handled', {} \cup ToSet(l.buffer) \cup ready, Fresh)
        /\ Before({}, ToSet(l.buffer) \cup ready, Fresh)
    BY <1>1, <1>5 DEF Before
  <1>7. InOrder(listener[1])'
    BY <1>1, <1>3, <1>4, <1>5, <1>6, FirstListener DEF InOrder
  <1>8. ASSUME NEW o \in Orgs PROVE LastSays(o)'
    <2>1. Touching(o)' = Touching(o) /\ LastSays(o)
      BY <1>1, FirstListener DEF Touching, Published
    <2>2. e \in Events
      BY <1>2 DEF FirstInv, EventsInv, TypeOK, Published
    <2>3. CASE n \notin Touching(o)
      <3>1. e.org # o /\ Done(o)' = Done(o)
        BY <1>1, <1>2, <2>1, <2>3 DEF Done, Touching
      <3>2. o \in registered' <=> o \in registered
        BY <1>1, <3>1
      <3> QED
        BY <1>1, <2>1, <3>1, <3>2 DEF LastSays
    <2>4. CASE n \in Touching(o)
      <3> SUFFICES ASSUME Touching(o) \cap requeued = {}
                   PROVE  \E m \in Done(o)' : /\ \A k \in Done(o)' : k <= m
                                              /\ o \in registered' <=> published[m].kind = "created"
        BY <1>1, <2>1 DEF LastSays
      <3>1. Touching(o) \subseteq Fresh
        BY DEF Touching, Fresh
      <3>2. Done(o)' = Done(o) \cup {n} /\ n \in Nat
        BY <1>1, <1>2, <2>1, <2>4, FirstListener DEF Done
      <3>3. \A k \in Done(o) : k < n
        BY <1>5, <2>4, <3>1 DEF Before, Done
      <3>4. \A k \in Done(o) : k \in Nat
        BY FirstListener DEF Done
      <3>5. \A k \in Done(o)' : k <= n
        BY <3>2, <3>3, <3>4
      <3>6. e.org = o /\ e.kind \in {"created", "deleted"}
        BY <2>2, <2>4, OrgEventsAssumption DEF Events, Touching
      <3>7. o \in registered' <=> e.kind = "created"
        BY <1>1, <3>6
      <3> QED
        BY <3>2, <3>5, <3>7
    <2> QED
      BY <2>3, <2>4
  <1> QED
    BY <1>1, <1>3, <1>7, <1>8 DEF FirstConnection

LEMMA HandleBadlyFirst ==
    ASSUME FirstInv, connection = 1, up, HandleBadly(1)
    PROVE  FirstConnection'
  <1> DEFINE l == listener[1]
  <1>1. /\ l.stage = "taken" /\ listener' = [listener EXCEPT ![1].stage = "failed"]
        /\ UNCHANGED <<published, ready, connection, up, registered, handled, requeued>>
    BY DEF HandleBadly, queue
  <1>2. /\ listener'[1].buffer = l.buffer /\ Active(listener[1])' = Active(l)
        /\ \A c \in Connections \ {1} : listener'[c] = Idle
    BY <1>1, FirstListener DEF Active, FirstInv, EventsInv, TypeOK, Connections, Holdings
  <1>3. Fresh' = Fresh
    BY <1>1 DEF Fresh, Published
  <1>4. InOrder(listener[1])'
    BY <1>1, <1>2, <1>3, FirstListener DEF InOrder
  <1> QED
    BY <1>1, <1>2, <1>4, SaysStill DEF FirstConnection

\* One that is given back is no longer fresh.
LEMMA SettleFirst ==
    ASSUME FirstInv, connection = 1, up, Ack(1) \/ Nack(1)
    PROVE  FirstConnection'
  <1> DEFINE l == listener[1]
             n == l.event
  <1>1. /\ listener' = [listener EXCEPT ![1].stage = "waiting", ![1].event = 0]
        /\ UNCHANGED <<published, connection, up, registered, handled>>
    BY DEF Ack, Nack, Settled, queue, env
  <1>2. /\ listener'[1].buffer = l.buffer /\ Active(listener[1])' = {}
        /\ \A c \in Connections \ {1} : listener'[c] = Idle
    BY <1>1, FirstListener DEF Active, FirstInv, EventsInv, TypeOK, Connections, Holdings
  <1>3. \/ requeued' = requeued /\ ready' = ready
        \/ requeued' = requeued \cup {n} /\ ready' = ready \cup {n}
    BY Zenon DEF Ack, Nack, queue
  <1>4. requeued \subseteq requeued' /\ Fresh' \subseteq Fresh /\ ready' \cap Fresh' \subseteq ready
    BY <1>1, <1>3 DEF Fresh, Published
  <1>5. ASSUME NEW A, NEW B, NEW C, NEW D, Before(A, B, Fresh),
               C \subseteq A, D \cap Fresh' \subseteq B
        PROVE  Before(C, D, Fresh')
    BY <1>4, <1>5 DEF Before
  <1>6. \A i, j \in DOMAIN l.buffer : i < j => Before({l.buffer[i]}, {l.buffer[j]}, Fresh')
    BY <1>4, FirstListener DEF InOrder, Before
  <1>7. /\ Before(handled, {} \cup ToSet(l.buffer) \cup ready', Fresh')
        /\ Before({}, ToSet(l.buffer) \cup ready', Fresh')
        /\ Before(ToSet(l.buffer), ready', Fresh')
    BY <1>4, <1>5, FirstListener DEF InOrder, Before
  <1>8. InOrder(listener[1])'
    BY <1>1, <1>2, <1>6, <1>7 DEF InOrder
  <1> QED
    BY <1>1, <1>2, <1>4, <1>8, SaysStill DEF FirstConnection

LEMMA FirstInitInv == Init => FirstInv
  <1> SUFFICES ASSUME Init PROVE FirstConnection
    BY EventsInitInv DEF FirstInv
  <1>1. /\ handled = {} /\ ready = {} /\ 1 \in Connections
        /\ \A c \in Connections : listener[c] = Idle
    BY OrgEventsAssumption DEF Init, Connections
  <1>2. InOrder(Idle)
    BY <1>1 DEF InOrder, Idle, Before, Active, ToSet
  <1>3. \A o \in Orgs : LastSays(o)
    BY <1>1 DEF LastSays, Done
  <1> QED
    BY <1>1, <1>2, <1>3 DEF FirstConnection

LEMMA FirstStepInv == FirstInv /\ [Next]_vars => FirstInv'
  <1> SUFFICES ASSUME FirstInv, [Next]_vars, connection' = 1, up' PROVE FirstConnection'
    BY EventsStepInv DEF FirstInv, FirstConnection
  <1>1. connection \in Nat \ {0}
    BY OrgEventsAssumption DEF FirstInv, EventsInv, TypeOK
  <1>2. ~LosesConnection /\ ~Recover /\ ~Crash
    BY <1>1 DEF LosesConnection, Recover, Crash
  <1>3. connection = 1 /\ up
    BY <1>2 DEF Next, Console, Publish, Deliver, Works, Take, HandleWell, HandleBadly, Ack,
       Nack, ListenerEnds, vars
  <1>4. ASSUME NEW c \in Connections, Works(c) \/ ListenerEnds(c) PROVE FirstConnection'
    <2>1. c = 1
      <3> SUFFICES ASSUME listener[c] = Idle PROVE FALSE
        BY <1>3, FirstListener
      <3> QED
        BY <1>4 DEF Works, Take, HandleWell, HandleBadly, Ack, Nack, ListenerEnds, Idle
    <2>2. ~ListenerEnds(c)
      BY <1>3, <2>1 DEF ListenerEnds
    <2> QED
      BY <1>3, <1>4, <2>1, <2>2, TakeFirst, HandleWellFirst, HandleBadlyFirst, SettleFirst
      DEF Works
  <1>5. CASE UNCHANGED vars
    <2>1. InOrder(listener[1])'
      BY <1>3, <1>5, FirstListener DEF InOrder, Active, Fresh, Published, vars, queue
    <2>2. \A o \in Orgs : LastSays(o)'
      BY <1>3, <1>5, SaysStill DEF vars
    <2> QED
      BY <1>3, <1>5, <2>1, <2>2, FirstListener DEF FirstConnection, vars
  <1> QED
    BY <1>2, <1>3, <1>4, <1>5, PublishFirst, DeliverFirst DEF Next, Console, Connections

\* On the first connection an organization whose events have all been settled, none
\* of them given back, is registered exactly if the last one created it: the buffer
\* and the queue keep them in order, however many there are (handleOrgEvent).
THEOREM LastEventDecides == Spec => []FollowsTheLastEvent
  <1>1. ASSUME FirstInv, connection = 1, up, NEW o \in Orgs,
               Quiet(o), Touching(o) # {}, Touching(o) \cap requeued = {}
        PROVE  o \in registered <=> published[Max(Touching(o))].kind = "created"
    <2>1. Touching(o) \subseteq Published /\ Published \subseteq Nat
      BY <1>1, FirstListener DEF Touching
    <2>2. Done(o) = Touching(o)
      BY <1>1, <2>1 DEF FirstInv, EventsInv, NothingLost, Quiet, Done
    <2>3. PICK n \in Touching(o) : /\ \A m \in Touching(o) : m <= n
                                   /\ o \in registered <=> published[n].kind = "created"
      BY <1>1, <2>2, FirstListener DEF LastSays
    <2>4. Max(Touching(o)) = n
      <3>1. ASSUME NEW x \in Touching(o), \A y \in Touching(o) : x >= y PROVE x = n
        <4>1. x \in Nat /\ n \in Nat /\ x <= n /\ x >= n
          BY <2>1, <2>3, <3>1
        <4> QED
          BY <4>1
      <3>2. \A y \in Touching(o) : n >= y
        BY <2>1, <2>3
      <3> QED
        BY <3>1, <3>2 DEF Max
    <2> QED
      BY <2>3, <2>4
  <1>2. FirstInv => FollowsTheLastEvent
    BY <1>1 DEF FollowsTheLastEvent
  <1> QED
    BY <1>2, FirstInitInv, FirstStepInv, PTL DEF Spec

\* The events' state keeps its types: no listener settles what was never published.
THEOREM TypeCorrect == Spec => []TypeOK
  BY EventsSurvive, PTL
=============================================================================
