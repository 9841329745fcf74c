-------------------------- MODULE VhostPoolProofs --------------------------
(***************************************************************************)
(* Proofs about VhostPool for any vhosts, any finite set of clients and any *)
(* number of dials.                                                         *)
(***************************************************************************)
EXTENDS VhostPool, PoolOpsProofs, FiniteSetTheorems

-----------------------------------------------------------------------------
\* The strengthening.  Numbers grow with each dial, so a new connection is
\* never one that is stored already; and without faults no entry is stale.
NumbersAreFresh == \A v \in Vhosts : pool.conn[v] <= pool.dialed
EntriesAreAlive ==
    faults = {} => \A v \in Vhosts :
                      pool.conn[v] # NoConn => pool.conn[v] \in pool.open

IInv ==
    /\ TypeOK
    /\ EntriesAreOwned
    /\ NumbersAreFresh
    /\ EntriesAreAlive
    /\ CountsAtMostHolders
    /\ HeldConnectionsStayOpen
    /\ OnlyInvalidateLeaks

LEMMA HoldersAreFinite ==
    ASSUME NEW v \in Vhosts
    PROVE  IsFiniteSet(Holders(v)) /\ Cardinality(Holders(v)) \in Nat
<1>1. IsFiniteSet(Holders(v))
    BY ClientsAssumption, FS_Subset DEF Holders
<1>2. QED
    BY <1>1, FS_CardinalityType

\* A client that starts holding v is one more holder of v, and only of v.
LEMMA HoldersGrow ==
    ASSUME TypeOK, NEW c \in Clients, NEW v \in Vhosts, NEW k \in ConnIds,
           holding[c] = Nothing,
           holding' = [holding EXCEPT ![c] = [vhost |-> v, conn |-> k]]
    PROVE  /\ Cardinality(Holders(v)') = Cardinality(Holders(v)) + 1
           /\ \A w \in Vhosts \ {v} : Holders(w)' = Holders(w)
<1>1. [vhost |-> v, conn |-> k] # Nothing
    BY DEF Nothing, ConnIds, NoConn
<1>2. Holders(v)' = Holders(v) \cup {c} /\ c \notin Holders(v)
    BY <1>1 DEF Holders, TypeOK
<1>3. \A w \in Vhosts \ {v} : Holders(w)' = Holders(w)
    BY DEF Holders, TypeOK
<1>4. QED
    BY <1>2, <1>3, HoldersAreFinite, FS_AddElement

\* A client that lets go is one holder less of the vhost it held.
LEMMA HoldersShrink ==
    ASSUME TypeOK, NEW c \in Clients, NEW v \in Vhosts,
           holding[c] # Nothing, holding[c].vhost = v,
           holding' = [holding EXCEPT ![c] = Nothing]
    PROVE  /\ Cardinality(Holders(v)') = Cardinality(Holders(v)) - 1
           /\ \A w \in Vhosts \ {v} : Holders(w)' = Holders(w)
<1>1. Holders(v)' = Holders(v) \ {c} /\ c \in Holders(v)
    BY DEF Holders, TypeOK
<1>2. \A w \in Vhosts \ {v} : Holders(w)' = Holders(w)
    BY DEF Holders, TypeOK
<1>3. QED
    BY <1>1, <1>2, HoldersAreFinite, FS_RemoveElement

LEMMA InitInv == Init => IInv
<1> SUFFICES ASSUME Init PROVE IInv
    OBVIOUS
<1>1. \A v \in Vhosts : Holders(v) = {}
    BY DEF Init, Holders
<1>2. /\ pool.conn = [v \in Vhosts |-> NoConn]
      /\ pool.refs = [v \in Vhosts |-> 0]
      /\ pool.open = {} /\ pool.dialed = 0
    BY DEF Init, EmptyPool
<1>3. TypeOK
    <2>1. 0 \in 0..MaxDials
        BY PoolAssumption
    <2>2. EmptyPool \in PoolType
        BY <2>1 DEF EmptyPool, PoolType
    <2>3. QED
        BY <2>2 DEF Init, TypeOK, Hold
<1>4. EntriesAreOwned /\ NumbersAreFresh /\ EntriesAreAlive /\ OnlyInvalidateLeaks
    BY <1>2 DEF EntriesAreOwned, NumbersAreFresh, EntriesAreAlive,
                OnlyInvalidateLeaks, NoConn
<1>5. CountsAtMostHolders /\ HeldConnectionsStayOpen
    BY <1>1, <1>2, FS_EmptySet
       DEF CountsAtMostHolders, HeldConnectionsStayOpen, Init
<1>6. QED
    BY <1>3, <1>4, <1>5 DEF IInv

LEMMA AcquireInv ==
    ASSUME IInv, NEW c \in Clients, NEW v \in Vhosts, ClientAcquires(c, v)
    PROVE  IInv'
<1> DEFINE k == pool'.conn[v]
<1>1. /\ CanAcquire(pool, v) /\ pool' = Acquire(pool, v) /\ faults' = faults
      /\ holding[c] = Nothing
      /\ holding' = [holding EXCEPT ![c] = [vhost |-> v, conn |-> k]]
    BY DEF ClientAcquires
<1>2. /\ pool \in PoolType /\ holding \in [Clients -> Hold] /\ TypeOK
    BY DEF IInv, TypeOK
<1>3. /\ pool' \in PoolType
      /\ k \in ConnIds /\ k \in pool'.open
      /\ k = IF Reusable(pool, v) THEN pool.conn[v] ELSE pool.dialed + 1
      /\ pool'.refs[v] = IF Reusable(pool, v) THEN pool.refs[v] + 1 ELSE 1
      /\ pool'.dialed = IF Reusable(pool, v) THEN pool.dialed ELSE pool.dialed + 1
      /\ pool'.open = pool.open \cup {k}
      /\ \A w \in Vhosts \ {v} : pool'.conn[w] = pool.conn[w] /\ pool'.refs[w] = pool.refs[w]
    BY <1>1, <1>2, AcquireEffect
<1>4. /\ Cardinality(Holders(v)') = Cardinality(Holders(v)) + 1
      /\ \A w \in Vhosts \ {v} : Holders(w)' = Holders(w)
    BY <1>1, <1>2, <1>3, HoldersGrow
<1>5. \A w \in Vhosts : Cardinality(Holders(w)) \in Nat
    BY HoldersAreFinite
<1>6. /\ pool.dialed \in Nat
      /\ \A w \in Vhosts : pool.conn[w] \in Nat /\ pool.refs[w] \in Nat
      /\ \A w \in Vhosts : pool'.conn[w] \in Nat /\ pool'.refs[w] \in Nat
    BY <1>2, <1>3 DEF PoolType, ConnIds, NoConn
<1> HIDE DEF k
<1>7. TypeOK'
    BY <1>1, <1>2, <1>3 DEF TypeOK, Hold
<1>8. NumbersAreFresh'
    BY <1>3, <1>6 DEF IInv, NumbersAreFresh, k
<1>9. EntriesAreOwned'
    <2>1. \A w \in Vhosts \ {v} : k # pool.conn[w] \/ pool.conn[w] = NoConn
        BY <1>3, <1>6 DEF IInv, EntriesAreOwned, NumbersAreFresh, Reusable
    <2>2. k # NoConn /\ pool'.refs[v] # 0
        BY <1>3, <1>6 DEF ConnIds, NoConn
    <2>3. QED
        BY <1>3, <2>1, <2>2 DEF IInv, EntriesAreOwned, k
<1>10. EntriesAreAlive'
    BY <1>1, <1>3 DEF IInv, EntriesAreAlive, k
<1>11. CountsAtMostHolders'
    BY <1>3, <1>4, <1>5, <1>6 DEF IInv, CountsAtMostHolders
<1>12. HeldConnectionsStayOpen'
    <2> SUFFICES ASSUME faults = {}
                 PROVE  /\ \A w \in Vhosts : pool'.refs[w] = Cardinality(Holders(w)')
                        /\ \A d \in Clients : holding'[d] # Nothing =>
                              /\ holding'[d].conn = pool'.conn[holding'[d].vhost]
                              /\ holding'[d].conn \in pool'.open
        BY <1>1 DEF HeldConnectionsStayOpen
    <2>1. ~Reusable(pool, v) => pool.refs[v] = 0
        BY DEF IInv, EntriesAreOwned, EntriesAreAlive, Reusable
    <2>2. \A w \in Vhosts : pool'.refs[w] = Cardinality(Holders(w)')
        BY <1>3, <1>4, <1>5, <1>6, <2>1 DEF IInv, HeldConnectionsStayOpen
    <2>3. ~Reusable(pool, v) => Holders(v) = {}
        BY <2>1, HoldersAreFinite, FS_EmptySet DEF IInv, HeldConnectionsStayOpen
    <2>4. ASSUME NEW d \in Clients, d # c, holding[d] # Nothing
          PROVE  /\ holding[d].conn = pool'.conn[holding[d].vhost]
                 /\ holding[d].conn \in pool'.open
        <3>1. /\ holding[d].conn = pool.conn[holding[d].vhost]
              /\ holding[d].conn \in pool.open
              /\ holding[d].vhost \in Vhosts
            BY <1>2, <2>4 DEF IInv, HeldConnectionsStayOpen, Hold
        <3>2. pool'.conn[holding[d].vhost] = pool.conn[holding[d].vhost]
            BY <1>3, <2>3, <2>4, <3>1 DEF Holders, k
        <3>3. QED
            BY <1>3, <3>1, <3>2
    <2>5. QED
        BY <1>1, <1>2, <1>3, <2>2, <2>4 DEF k
<1>13. OnlyInvalidateLeaks'
    BY <1>1, <1>3 DEF IInv, OnlyInvalidateLeaks, Stored, Reusable, k, ConnIds, NoConn
<1>14. QED
    BY <1>7, <1>8, <1>9, <1>10, <1>11, <1>12, <1>13 DEF IInv

LEMMA ReleaseInv ==
    ASSUME IInv, NEW c \in Clients, ClientReleases(c)
    PROVE  IInv'
<1>1. PICK v \in Vhosts : holding[c].vhost = v
    BY DEF IInv, TypeOK, Hold, ClientReleases
<1>2. /\ holding[c] # Nothing /\ pool' = Release(pool, v) /\ faults' = faults
      /\ holding' = [holding EXCEPT ![c] = Nothing]
    BY <1>1 DEF ClientReleases
<1>3. pool \in PoolType /\ holding \in [Clients -> Hold] /\ TypeOK
    BY DEF IInv, TypeOK
<1>4. /\ pool' \in PoolType /\ pool'.dialed = pool.dialed
      /\ \A w \in Vhosts \ {v} : pool'.conn[w] = pool.conn[w] /\ pool'.refs[w] = pool.refs[w]
      /\ pool.conn[v] = NoConn => pool' = pool
      /\ (pool.conn[v] # NoConn /\ pool.refs[v] > 1) =>
            /\ pool'.conn[v] = pool.conn[v]
            /\ pool'.refs[v] = pool.refs[v] - 1
            /\ pool'.open = pool.open
      /\ (pool.conn[v] # NoConn /\ pool.refs[v] <= 1) =>
            /\ pool'.conn[v] = NoConn
            /\ pool'.refs[v] = 0
            /\ pool'.open = pool.open \ {pool.conn[v]}
    BY <1>2, <1>3, ReleaseEffect
<1>5. /\ Cardinality(Holders(v)') = Cardinality(Holders(v)) - 1
      /\ \A w \in Vhosts \ {v} : Holders(w)' = Holders(w)
    BY <1>1, <1>2, <1>3, HoldersShrink
<1>6. /\ \A w \in Vhosts : Cardinality(Holders(w)) \in Nat
      /\ Cardinality(Holders(v)) >= 1
    <2>1. c \in Holders(v)
        BY <1>1, <1>2 DEF Holders
    <2>2. Cardinality(Holders(v)) # 0
        BY <2>1, HoldersAreFinite, FS_EmptySet
    <2>3. QED
        BY <2>2, HoldersAreFinite
<1>7. /\ pool.dialed \in Nat
      /\ \A w \in Vhosts : pool.conn[w] \in Nat /\ pool.refs[w] \in Nat
    BY <1>3 DEF PoolType, ConnIds, NoConn
<1>8. TypeOK'
    BY <1>2, <1>3, <1>4 DEF TypeOK, Hold
<1>9. NumbersAreFresh'
    BY <1>4, <1>7 DEF IInv, NumbersAreFresh, NoConn
<1>10. EntriesAreOwned'
    BY <1>4, <1>7 DEF IInv, EntriesAreOwned
<1>11. EntriesAreAlive'
    BY <1>2, <1>4, <1>7 DEF IInv, EntriesAreAlive, EntriesAreOwned
<1>12. CountsAtMostHolders'
    BY <1>4, <1>5, <1>6, <1>7 DEF IInv, CountsAtMostHolders, EntriesAreOwned
<1>13. HeldConnectionsStayOpen'
    <2> SUFFICES ASSUME faults = {}
                 PROVE  /\ \A w \in Vhosts : pool'.refs[w] = Cardinality(Holders(w)')
                        /\ \A d \in Clients : holding'[d] # Nothing =>
                              /\ holding'[d].conn = pool'.conn[holding'[d].vhost]
                              /\ holding'[d].conn \in pool'.open
        BY <1>2 DEF HeldConnectionsStayOpen
    <2>1. pool.refs[v] = Cardinality(Holders(v)) /\ pool.conn[v] # NoConn
        BY <1>6, <1>7 DEF IInv, HeldConnectionsStayOpen, EntriesAreOwned
    <2>2. \A w \in Vhosts : pool'.refs[w] = Cardinality(Holders(w)')
        BY <1>4, <1>5, <1>6, <1>7, <2>1 DEF IInv, HeldConnectionsStayOpen
    <2>3. ASSUME NEW d \in Clients, d # c, holding[d] # Nothing
          PROVE  /\ holding[d].conn = pool'.conn[holding[d].vhost]
                 /\ holding[d].conn \in pool'.open
        <3>1. /\ holding[d].conn = pool.conn[holding[d].vhost]
              /\ holding[d].conn \in pool.open
              /\ holding[d].vhost \in Vhosts /\ holding[d].conn \in ConnIds
            BY <1>3, <2>3 DEF IInv, HeldConnectionsStayOpen, Hold
        <3>2. CASE holding[d].vhost = v
            <4>1. d \in Holders(v)'
                BY <1>2, <1>3, <2>3, <3>2 DEF Holders
            <4>2. Cardinality(Holders(v)') # 0
                BY <4>1, FS_EmptySet, FS_RemoveElement, HoldersAreFinite,
                   FS_Subset, ClientsAssumption DEF Holders
            <4>3. pool.refs[v] > 1
                BY <1>5, <1>6, <2>1, <4>2
            <4>4. QED
                BY <1>4, <2>1, <3>1, <3>2, <4>3
        <3>3. CASE holding[d].vhost # v
            <4>1. pool'.conn[holding[d].vhost] = pool.conn[holding[d].vhost]
                BY <1>4, <3>1, <3>3
            <4>2. holding[d].conn # pool.conn[v]
                BY <2>1, <3>1, <3>3 DEF IInv, EntriesAreOwned
            <4>3. QED
                BY <1>4, <1>7, <2>1, <3>1, <4>1, <4>2
        <3>4. QED
            BY <3>2, <3>3
    <2>4. QED
        BY <1>2, <1>3, <2>2, <2>3
<1>14. OnlyInvalidateLeaks'
    BY <1>2, <1>4, <1>7 DEF IInv, OnlyInvalidateLeaks, Stored, EntriesAreOwned
<1>15. QED
    BY <1>8, <1>9, <1>10, <1>11, <1>12, <1>13, <1>14 DEF IInv

LEMMA FailToAcquireInv ==
    ASSUME IInv, NEW c \in Clients, NEW v \in Vhosts, ClientFailsToAcquire(c, v)
    PROVE  IInv'
<1>1. /\ ~Reusable(pool, v) /\ pool' = AcquireFailed(pool, v)
      /\ holding' = holding /\ faults' = faults
    BY DEF ClientFailsToAcquire, CanFailAcquire
<1>2. pool \in PoolType /\ holding \in [Clients -> Hold]
    BY DEF IInv, TypeOK
<1>3. /\ pool' = [ conn |-> [pool.conn EXCEPT ![v] = NoConn],
                   refs |-> [pool.refs EXCEPT ![v] = 0],
                   open |-> pool.open, dialed |-> pool.dialed ]
      /\ pool' \in PoolType
    BY <1>1, <1>2, AcquireFailedEffect
<1>4. /\ pool'.open = pool.open /\ pool'.dialed = pool.dialed
      /\ pool'.conn[v] = NoConn /\ pool'.refs[v] = 0
      /\ \A w \in Vhosts \ {v} : pool'.conn[w] = pool.conn[w] /\ pool'.refs[w] = pool.refs[w]
    BY <1>2, <1>3 DEF PoolType
<1>5. \A w \in Vhosts : Holders(w)' = Holders(w) /\ Cardinality(Holders(w)) \in Nat
    BY <1>1, HoldersAreFinite DEF Holders
<1>6. /\ pool.dialed \in Nat
      /\ \A w \in Vhosts : pool.conn[w] \in Nat /\ pool.refs[w] \in Nat
    BY <1>2 DEF PoolType, ConnIds, NoConn
<1>7. TypeOK'
    BY <1>1, <1>3 DEF IInv, TypeOK
<1>8. NumbersAreFresh' /\ EntriesAreOwned' /\ EntriesAreAlive' /\ CountsAtMostHolders'
    BY <1>1, <1>4, <1>5, <1>6 DEF IInv, NumbersAreFresh, EntriesAreOwned,
            EntriesAreAlive, CountsAtMostHolders, NoConn
<1>9. HeldConnectionsStayOpen'
    <2> SUFFICES ASSUME faults = {}
                 PROVE  /\ \A w \in Vhosts : pool'.refs[w] = Cardinality(Holders(w)')
                        /\ \A d \in Clients : holding[d] # Nothing =>
                              /\ holding[d].conn = pool'.conn[holding[d].vhost]
                              /\ holding[d].conn \in pool'.open
        BY <1>1 DEF HeldConnectionsStayOpen
    <2>1. pool.conn[v] = NoConn /\ pool.refs[v] = 0
        BY <1>1 DEF IInv, EntriesAreAlive, EntriesAreOwned, Reusable
    <2>2. QED
        BY <1>2, <1>4, <1>5, <2>1 DEF IInv, HeldConnectionsStayOpen, Hold
<1>10. OnlyInvalidateLeaks'
    BY <1>1, <1>4 DEF IInv, OnlyInvalidateLeaks, Stored, Reusable
<1>11. QED
    BY <1>7, <1>8, <1>9, <1>10 DEF IInv

\* The events and calls that leave no promise to HeldConnectionsStayOpen.
LEMMA DisturbanceInv ==
    ASSUME IInv,
           \/ \E k \in ConnIds : ConnectionLost(k)
           \/ OwnerInvalidates
           \/ OwnerClosesAll
    PROVE  IInv'
<1>1. pool \in PoolType /\ holding \in [Clients -> Hold] /\ TypeOK
    BY DEF IInv, TypeOK
<1>2. holding' = holding /\ faults' # {}
    BY DEF ConnectionLost, OwnerInvalidates, OwnerClosesAll
<1>3. \A w \in Vhosts : Holders(w)' = Holders(w) /\ Cardinality(Holders(w)) \in Nat
    BY <1>2, HoldersAreFinite DEF Holders
<1>4. pool.dialed \in Nat
    BY <1>1 DEF PoolType
<1>5. EntriesAreAlive' /\ HeldConnectionsStayOpen'
    BY <1>2 DEF EntriesAreAlive, HeldConnectionsStayOpen
<1>6. CASE \E k \in ConnIds : ConnectionLost(k)
    <2>1. PICK k \in ConnIds : ConnectionLost(k)
        BY <1>6
    <2>2. /\ pool' \in PoolType /\ pool'.conn = pool.conn /\ pool'.refs = pool.refs
          /\ pool'.open = pool.open \ {k} /\ pool'.dialed = pool.dialed
          /\ faults' = faults \cup {"lost"}
        BY <1>1, <2>1, ConnectionsLostEffect DEF ConnectionLost
    <2>3. QED
        BY <1>1, <1>2, <1>3, <1>5, <2>2
           DEF IInv, TypeOK, EntriesAreOwned, NumbersAreFresh,
               CountsAtMostHolders, OnlyInvalidateLeaks, Stored
<1>7. CASE OwnerInvalidates \/ OwnerClosesAll
    <2>1. /\ pool' \in PoolType /\ pool'.dialed = pool.dialed
          /\ \A w \in Vhosts : pool'.conn[w] = NoConn /\ pool'.refs[w] = 0
          /\ faults' \subseteq {"lost", "invalidated", "closedAll"}
        <3>1. \/ pool' = InvalidateAll(pool)
              \/ pool' = CloseAll(pool)
            BY <1>7 DEF OwnerInvalidates, OwnerClosesAll
        <3>2. pool' \in PoolType /\ pool'.dialed = pool.dialed
            BY <1>1, <3>1, ForgetAllEffect
        <3>3. \A w \in Vhosts : pool'.conn[w] = NoConn /\ pool'.refs[w] = 0
            BY <1>1, <3>1, ForgetAllEffect
        <3>4. QED
            BY <1>1, <1>7, <3>2, <3>3 DEF OwnerInvalidates, OwnerClosesAll, TypeOK
    <2>2. OnlyInvalidateLeaks'
        <3>1. CASE OwnerInvalidates
            BY <3>1 DEF OwnerInvalidates, OnlyInvalidateLeaks
        <3>2. CASE OwnerClosesAll
            <4>1. CloseAll(pool).open = pool.open \ Stored(pool)
                BY <1>1, ForgetAllEffect
            <4>2. pool' = CloseAll(pool) /\ faults' = faults \cup {"closedAll"}
                BY <3>2 DEF OwnerClosesAll
            <4>3. "invalidated" \notin faults => pool.open \subseteq Stored(pool)
                BY DEF IInv, OnlyInvalidateLeaks
            <4>4. "invalidated" \notin faults' => pool'.open = {}
                BY <4>1, <4>2, <4>3
            <4>5. QED
                BY <4>4 DEF OnlyInvalidateLeaks
        <3>3. QED
            BY <1>7, <3>1, <3>2
    <2>3. TypeOK'
        BY <1>1, <1>2, <2>1 DEF TypeOK
    <2>4. NumbersAreFresh' /\ EntriesAreOwned' /\ CountsAtMostHolders'
        BY <1>3, <1>4, <2>1 DEF NumbersAreFresh, EntriesAreOwned,
                                CountsAtMostHolders, NoConn
    <2>5. QED
        BY <1>5, <2>2, <2>3, <2>4 DEF IInv
<1>8. QED
    BY <1>6, <1>7

LEMMA StutterInv == ASSUME IInv, UNCHANGED vars PROVE IInv'
BY DEF IInv, vars, TypeOK, EntriesAreOwned, NumbersAreFresh, EntriesAreAlive,
       CountsAtMostHolders, HeldConnectionsStayOpen, OnlyInvalidateLeaks,
       Holders, Stored

LEMMA IInvHolds == Spec => []IInv
<1>1. IInv /\ [Next]_vars => IInv'
    BY AcquireInv, FailToAcquireInv, ReleaseInv, DisturbanceInv, StutterInv DEF Next
<1>2. QED
    BY InitInv, <1>1, PTL DEF Spec

-----------------------------------------------------------------------------
\* Every state of the pool and its clients is well formed.
THEOREM TypeCorrect == Spec => []TypeOK
BY IInvHolds, PTL DEF IInv

\* Whatever is lost, forgotten or redialled, an entry of pool.go's map has a
\* reference and a connection of its own.
THEOREM EntriesCorrect == Spec => []EntriesAreOwned
BY IInvHolds, PTL DEF IInv

\* And it counts no more references than there are users who will release it.
THEOREM CountsBounded == Spec => []CountsAtMostHolders
BY IInvHolds, PTL DEF IInv

\* Without faults no Release closes a connection that another client uses.
THEOREM NoPrematureClose == Spec => []HeldConnectionsStayOpen
BY IInvHolds, PTL DEF IInv

\* Only InvalidateAll can lose track of an open connection.
THEOREM NoLeakWithoutInvalidate == Spec => []OnlyInvalidateLeaks
BY IInvHolds, PTL DEF IInv
=============================================================================
