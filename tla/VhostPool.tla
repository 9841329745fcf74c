----------------------------- MODULE VhostPool -----------------------------
(***************************************************************************)
(* The pool under its protocol: a client acquires the connection of one     *)
(* vhost, uses it, and releases the vhost once.  Connections may be lost at *)
(* any time, and the owner of the pool may forget or close all of them, as  *)
(* handleConnectionClosed (connection.go) and stopAllConsumers              *)
(* (tenant_manager.go) do.                                                  *)
(***************************************************************************)
EXTENDS PoolOps, FiniteSets

CONSTANT Clients    \* callers of Acquire / Release, one subscription each

ASSUME ClientsAssumption == IsFiniteSet(Clients)

VARIABLES
    pool,       \* the Pool
    holding,    \* holding[c]: the vhost and connection client c still uses
    faults      \* history: which calls or events broke the protocol's calm

vars == <<pool, holding, faults>>

Nothing == [vhost |-> "none", conn |-> NoConn]
Hold == {Nothing} \cup [vhost : Vhosts, conn : ConnIds]
Holders(v) == {c \in Clients : holding[c] # Nothing /\ holding[c].vhost = v}

TypeOK ==
    /\ pool \in PoolType
    /\ holding \in [Clients -> Hold]
    /\ faults \subseteq {"lost", "invalidated", "closedAll"}

Init ==
    /\ pool = EmptyPool
    /\ holding = [c \in Clients |-> Nothing]
    /\ faults = {}

ClientAcquires(c, v) ==
    /\ holding[c] = Nothing
    /\ CanAcquire(pool, v)
    /\ pool' = Acquire(pool, v)
    /\ holding' = [holding EXCEPT ![c] = [vhost |-> v, conn |-> pool'.conn[v]]]
    /\ UNCHANGED faults

ClientFailsToAcquire(c, v) ==
    /\ holding[c] = Nothing
    /\ CanFailAcquire(pool, v)
    /\ pool' = AcquireFailed(pool, v)
    /\ UNCHANGED <<holding, faults>>

\* Release names the vhost, not the connection the client was given.
ClientReleases(c) ==
    /\ holding[c] # Nothing
    /\ pool' = Release(pool, holding[c].vhost)
    /\ holding' = [holding EXCEPT ![c] = Nothing]
    /\ UNCHANGED faults

ConnectionLost(k) ==
    /\ k \in pool.open
    /\ pool' = ConnectionsLost(pool, {k})
    /\ faults' = faults \cup {"lost"}
    /\ UNCHANGED holding

OwnerInvalidates ==
    /\ pool' = InvalidateAll(pool)
    /\ faults' = faults \cup {"invalidated"}
    /\ UNCHANGED holding

OwnerClosesAll ==
    /\ pool' = CloseAll(pool)
    /\ faults' = faults \cup {"closedAll"}
    /\ UNCHANGED holding

Next ==
    \/ \E c \in Clients, v \in Vhosts :
          ClientAcquires(c, v) \/ ClientFailsToAcquire(c, v)
    \/ \E c \in Clients : ClientReleases(c)
    \/ \E k \in ConnIds : ConnectionLost(k)
    \/ OwnerInvalidates
    \/ OwnerClosesAll

Spec == Init /\ [][Next]_vars

-----------------------------------------------------------------------------
\* An entry of the map always counts at least one reference and its
\* connection belongs to no other vhost: Acquire and Release (pool.go:34-77)
\* never leave an entry nobody will close, nor hand one vhost's connection to
\* another, whatever is lost, forgotten or dialled again in between.
EntriesAreOwned ==
    \A v \in Vhosts :
        /\ (pool.conn[v] = NoConn) <=> (pool.refs[v] = 0)
        /\ \A w \in Vhosts :
              (v # w /\ pool.conn[v] # NoConn) => pool.conn[v] # pool.conn[w]

\* The count of a vhost never exceeds the clients that will still release it,
\* so an entry cannot outlive its last user: the releases left always bring it
\* to zero (pool.go:64-77), even across lost connections and redials.
CountsAtMostHolders ==
    \A v \in Vhosts : pool.refs[v] <= Cardinality(Holders(v))

\* As long as no connection was lost and the owner called neither
\* InvalidateAll nor CloseAll, every client's connection is the pooled one, is
\* open, and is counted exactly once per client: no Release closes a
\* connection another client uses (pool.go:73-76).
HeldConnectionsStayOpen ==
    faults = {} =>
        /\ \A v \in Vhosts : pool.refs[v] = Cardinality(Holders(v))
        /\ \A c \in Clients : holding[c] # Nothing =>
              /\ holding[c].conn = pool.conn[holding[c].vhost]
              /\ holding[c].conn \in pool.open

\* InvalidateAll (pool.go:93-99) is the only call that can leave an open
\* connection outside the map, where no Release and no CloseAll reaches it.
OnlyInvalidateLeaks ==
    "invalidated" \notin faults => pool.open \subseteq Stored(pool)

=============================================================================
