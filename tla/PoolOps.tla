------------------------------ MODULE PoolOps ------------------------------
(***************************************************************************)
(* The vhost connection pool of internal/mqtt/vhostpool/pool.go as a value: *)
(* one operator per method, from the pool before the call to the pool       *)
(* after it.  The pool mutex makes each call one step, so a component that  *)
(* calls the pool writes pool' = Release(pool, v).                          *)
(*                                                                          *)
(* An AMQP connection is the number of the dial that made it.  `open' is    *)
(* what the broker and the client library know (conn.IsClosed()), the rest  *)
(* is the map of the Go struct.                                             *)
(***************************************************************************)
EXTENDS Integers

CONSTANTS
    Vhosts,     \* the broker's virtual hosts
    MaxDials    \* bound: connections dialled in one behaviour

ASSUME PoolAssumption == MaxDials \in Nat

NoConn == 0
ConnIds == 1..MaxDials

PoolType ==
    [ conn   : [Vhosts -> ConnIds \cup {NoConn}],  \* connections[vhost].conn
      refs   : [Vhosts -> Nat],                    \* connections[vhost].refCount
      open   : SUBSET ConnIds,                     \* dialled and not closed
      dialed : 0..MaxDials ]

EmptyPool ==
    [ conn |-> [v \in Vhosts |-> NoConn], refs |-> [v \in Vhosts |-> 0],
      open |-> {}, dialed |-> 0 ]

Stored(p) == {p.conn[v] : v \in Vhosts} \ {NoConn}

\* Delete the entry of v, leaving its connection as it is.
Forget(p, v) == [p EXCEPT !.conn[v] = NoConn, !.refs[v] = 0]

\* Acquire finds a pooled connection that IsClosed() says is alive.
Reusable(p, v) == p.conn[v] # NoConn /\ p.conn[v] \in p.open
\* Mutant: a reused connection is not counted again.
ReuseUncounted(p, v) == p
Reuse(p, v) == [p EXCEPT !.refs[v] = @ + 1]

\* Acquire finds none, or a closed one it overwrites: amqp.Dial succeeds.
CanDial(p, v) == ~Reusable(p, v) /\ p.dialed < MaxDials
Dial(p, v) ==
    [p EXCEPT !.conn[v] = p.dialed + 1, !.refs[v] = 1,
              !.open = @ \cup {p.dialed + 1}, !.dialed = @ + 1]

CanAcquire(p, v) == Reusable(p, v) \/ CanDial(p, v)
Acquire(p, v) == IF Reusable(p, v) THEN Reuse(p, v) ELSE Dial(p, v)

\* amqp.Dial fails: the closed entry is gone, nothing replaces it.
CanFailAcquire(p, v) == ~Reusable(p, v)
AcquireFailed(p, v) == Forget(p, v)

\* Mutants: the entry is not looked up; the count is compared with 0 instead
\* of 1; a closed connection is not released; the last release does not close.
ReleaseWithoutLookup(p, v) ==
    IF p.refs[v] # 1 THEN [p EXCEPT !.refs[v] = @ - 1]
    ELSE [Forget(p, v) EXCEPT !.open = @ \ {p.conn[v]}]
ReleaseOneLate(p, v) ==
    IF p.conn[v] = NoConn THEN p
    ELSE IF p.refs[v] > 0 THEN [p EXCEPT !.refs[v] = @ - 1]
    ELSE [Forget(p, v) EXCEPT !.open = @ \ {p.conn[v]}]
ReleaseOnlyOpen(p, v) ==
    IF p.conn[v] \notin p.open THEN p
    ELSE IF p.refs[v] > 1 THEN [p EXCEPT !.refs[v] = @ - 1]
    ELSE [Forget(p, v) EXCEPT !.open = @ \ {p.conn[v]}]
ReleaseWithoutClose(p, v) ==
    IF p.conn[v] = NoConn THEN p
    ELSE IF p.refs[v] > 1 THEN [p EXCEPT !.refs[v] = @ - 1]
    ELSE Forget(p, v)

Release(p, v) ==
    IF p.conn[v] = NoConn THEN p
    ELSE IF p.refs[v] > 1 THEN [p EXCEPT !.refs[v] = @ - 1]
    ELSE [Forget(p, v) EXCEPT !.open = @ \ {p.conn[v]}]

\* n[v] calls of Release for every v.
ReleaseEach(p, n) ==
    LET last(v) == p.conn[v] # NoConn /\ n[v] > 0 /\ n[v] >= p.refs[v]
    IN  [p EXCEPT
            !.conn = [v \in Vhosts |-> IF last(v) THEN NoConn ELSE @[v]],
            !.refs = [v \in Vhosts |-> IF last(v) THEN 0
                                       ELSE IF n[v] >= @[v] THEN @[v] ELSE @[v] - n[v]],
            !.open = @ \ {p.conn[v] : v \in {u \in Vhosts : last(u)}}]

\* The map is replaced; whatever connection was open stays open.
InvalidateAll(p) ==
    [p EXCEPT !.conn = EmptyPool.conn, !.refs = EmptyPool.refs]

CloseAll(p) == [InvalidateAll(p) EXCEPT !.open = @ \ Stored(p)]

\* The broker or the network ends the connections K.
ConnectionsLost(p, K) == [p EXCEPT !.open = @ \ K]
=============================================================================
