---------------------------- MODULE PoolOpsProofs ----------------------------
(***************************************************************************)
(* What the methods of the connection pool return and change, for any pool *)
(* of the right type: the facts the proofs about its users rest on.        *)
(***************************************************************************)
EXTENDS PoolOps, TLAPS

-----------------------------------------------------------------------------
\* What Acquire (pool.go:34-62) returns and changes when it succeeds.
LEMMA AcquireEffect ==
    ASSUME NEW p \in PoolType, NEW v \in Vhosts, CanAcquire(p, v)
    PROVE  /\ Acquire(p, v) \in PoolType
           /\ Acquire(p, v).conn[v] \in ConnIds
           /\ Acquire(p, v).conn[v] \in Acquire(p, v).open
           /\ Acquire(p, v).conn[v] =
                 IF Reusable(p, v) THEN p.conn[v] ELSE p.dialed + 1
           /\ Acquire(p, v).refs[v] =
                 IF Reusable(p, v) THEN p.refs[v] + 1 ELSE 1
           /\ Acquire(p, v).dialed =
                 IF Reusable(p, v) THEN p.dialed ELSE p.dialed + 1
           /\ Acquire(p, v).open = p.open \cup {Acquire(p, v).conn[v]}
           /\ \A w \in Vhosts \ {v} :
                 /\ Acquire(p, v).conn[w] = p.conn[w]
                 /\ Acquire(p, v).refs[w] = p.refs[w]
<1>1. CASE Reusable(p, v)
    <2>1. Acquire(p, v) = [p EXCEPT !.refs = [p.refs EXCEPT ![v] = p.refs[v] + 1]]
        BY <1>1 DEF Acquire, Reuse, PoolType
    <2>2. QED
        BY <1>1, <2>1 DEF PoolType, Reusable, NoConn
<1>2. CASE ~Reusable(p, v)
    <2>1. p.dialed < MaxDials
        BY <1>2 DEF CanAcquire, CanDial
    <2>2. p.dialed + 1 \in ConnIds /\ p.dialed + 1 \in 0..MaxDials
        BY <2>1, PoolAssumption DEF PoolType, ConnIds
    <2>3. Acquire(p, v) = [ conn |-> [p.conn EXCEPT ![v] = p.dialed + 1],
                            refs |-> [p.refs EXCEPT ![v] = 1],
                            open |-> p.open \cup {p.dialed + 1},
                            dialed |-> p.dialed + 1 ]
        BY <1>2 DEF Acquire, Dial, PoolType
    <2>4. QED
        BY <1>2, <2>2, <2>3 DEF PoolType
<1>3. QED
    BY <1>1, <1>2

\* What a failed Acquire leaves behind: only v's entry changes, to nothing.
LEMMA AcquireFailedEffect ==
    ASSUME NEW p \in PoolType, NEW v \in Vhosts
    PROVE  /\ AcquireFailed(p, v) = [ conn |-> [p.conn EXCEPT ![v] = NoConn],
                                      refs |-> [p.refs EXCEPT ![v] = 0],
                                      open |-> p.open, dialed |-> p.dialed ]
           /\ AcquireFailed(p, v) \in PoolType
<1>1. AcquireFailed(p, v) = [p EXCEPT !.conn = [p.conn EXCEPT ![v] = NoConn],
                                      !.refs = [p.refs EXCEPT ![v] = 0]]
    BY DEF AcquireFailed, Forget, PoolType
<1>2. /\ [p.conn EXCEPT ![v] = NoConn] \in [Vhosts -> ConnIds \cup {NoConn}]
      /\ [p.refs EXCEPT ![v] = 0] \in [Vhosts -> Nat]
    BY DEF PoolType
<1>3. QED
    BY <1>1, <1>2 DEF PoolType

\* What Release (pool.go:64-77) changes: nothing without an entry, else one
\* reference, and the entry and its connection with the last reference.
LEMMA ReleaseEffect ==
    ASSUME NEW p \in PoolType, NEW v \in Vhosts
    PROVE  /\ Release(p, v) \in PoolType
           /\ Release(p, v).dialed = p.dialed
           /\ \A w \in Vhosts \ {v} :
                 /\ Release(p, v).conn[w] = p.conn[w]
                 /\ Release(p, v).refs[w] = p.refs[w]
           /\ p.conn[v] = NoConn => Release(p, v) = p
           /\ (p.conn[v] # NoConn /\ p.refs[v] > 1) =>
                 /\ Release(p, v).conn[v] = p.conn[v]
                 /\ Release(p, v).refs[v] = p.refs[v] - 1
                 /\ Release(p, v).open = p.open
           /\ (p.conn[v] # NoConn /\ p.refs[v] <= 1) =>
                 /\ Release(p, v).conn[v] = NoConn
                 /\ Release(p, v).refs[v] = 0
                 /\ Release(p, v).open = p.open \ {p.conn[v]}
<1>1. CASE p.conn[v] = NoConn
    BY <1>1 DEF Release, PoolType
<1>2. CASE p.conn[v] # NoConn /\ p.refs[v] > 1
    <2>1. Release(p, v) = [p EXCEPT !.refs = [p.refs EXCEPT ![v] = p.refs[v] - 1]]
        BY <1>2 DEF Release, PoolType
    <2>2. QED
        BY <1>2, <2>1 DEF PoolType
<1>3. CASE p.conn[v] # NoConn /\ p.refs[v] <= 1
    <2>1. Forget(p, v) = [ conn |-> [p.conn EXCEPT ![v] = NoConn],
                           refs |-> [p.refs EXCEPT ![v] = 0],
                           open |-> p.open, dialed |-> p.dialed ]
        BY AcquireFailedEffect DEF AcquireFailed
    <2>2. Release(p, v) = [Forget(p, v) EXCEPT !.open = p.open \ {p.conn[v]}]
        BY <1>3, <2>1 DEF Release, PoolType
    <2>3. QED
        BY <1>3, <2>1, <2>2 DEF PoolType
<1>4. QED
    BY <1>1, <1>2, <1>3 DEF PoolType

LEMMA ForgetAllEffect ==
    ASSUME NEW p \in PoolType
    PROVE  /\ InvalidateAll(p) \in PoolType /\ CloseAll(p) \in PoolType
           /\ InvalidateAll(p).dialed = p.dialed /\ CloseAll(p).dialed = p.dialed
           /\ InvalidateAll(p).open = p.open
           /\ CloseAll(p).open = p.open \ Stored(p)
           /\ \A v \in Vhosts :
                 /\ InvalidateAll(p).conn[v] = NoConn /\ InvalidateAll(p).refs[v] = 0
                 /\ CloseAll(p).conn[v] = NoConn /\ CloseAll(p).refs[v] = 0
<1> DEFINE noConns == [v \in Vhosts |-> NoConn]
           noRefs == [v \in Vhosts |-> 0]
<1>1. EmptyPool.conn = noConns /\ EmptyPool.refs = noRefs
    BY DEF EmptyPool
<1>2. noConns \in [Vhosts -> ConnIds \cup {NoConn}] /\ noRefs \in [Vhosts -> Nat]
    OBVIOUS
<1> HIDE DEF noConns, noRefs
<1>3. InvalidateAll(p) = [p EXCEPT !.conn = noConns, !.refs = noRefs]
    BY <1>1 DEF InvalidateAll
<1>4. InvalidateAll(p) = [ conn |-> noConns, refs |-> noRefs,
                           open |-> p.open, dialed |-> p.dialed ]
    BY <1>3 DEF PoolType
<1>5. CloseAll(p) = [ conn |-> noConns, refs |-> noRefs,
                      open |-> p.open \ Stored(p), dialed |-> p.dialed ]
    BY <1>4 DEF CloseAll
<1>6. InvalidateAll(p) \in PoolType /\ CloseAll(p) \in PoolType
    <2>1. p.open \in SUBSET ConnIds /\ p.dialed \in 0..MaxDials
        BY DEF PoolType
    <2>2. p.open \ Stored(p) \in SUBSET ConnIds
        BY <2>1
    <2>3. QED
        BY <1>2, <1>4, <1>5, <2>1, <2>2 DEF PoolType
<1>7. QED
    BY <1>4, <1>5, <1>6 DEF noConns, noRefs

LEMMA ConnectionsLostEffect ==
    ASSUME NEW p \in PoolType, NEW K
    PROVE  /\ ConnectionsLost(p, K) = [ conn |-> p.conn, refs |-> p.refs,
                                        open |-> p.open \ K, dialed |-> p.dialed ]
           /\ ConnectionsLost(p, K) \in PoolType
BY DEF ConnectionsLost, PoolType

\* Several calls of Release for each vhost, as stopAllConsumers makes them: each
\* count falls by the number of the calls, at most to nothing.
LEMMA ReleaseEachEffect ==
    ASSUME NEW p \in PoolType, NEW n \in [Vhosts -> Nat],
           \A v \in Vhosts : p.conn[v] = NoConn => p.refs[v] = 0
    PROVE  /\ ReleaseEach(p, n) \in PoolType
           /\ \A v \in Vhosts :
                 /\ ReleaseEach(p, n).refs[v] = 0 \/ ReleaseEach(p, n).refs[v] = p.refs[v] - n[v]
                 /\ ReleaseEach(p, n).conn[v] = NoConn => ReleaseEach(p, n).refs[v] = 0
<1> DEFINE last(v) == p.conn[v] # NoConn /\ n[v] > 0 /\ n[v] >= p.refs[v]
           conns == [v \in Vhosts |-> IF last(v) THEN NoConn ELSE p.conn[v]]
           refs == [v \in Vhosts |-> IF last(v) THEN 0
                                     ELSE IF n[v] >= p.refs[v] THEN p.refs[v]
                                     ELSE p.refs[v] - n[v]]
           open == p.open \ {p.conn[v] : v \in {u \in Vhosts : last(u)}}
<1>1. ReleaseEach(p, n) = [p EXCEPT !.conn = conns, !.refs = refs, !.open = open]
    BY DEF ReleaseEach
<1>2. \A v \in Vhosts : p.refs[v] \in Nat /\ p.conn[v] \in ConnIds \cup {NoConn}
    BY DEF PoolType
<1>3. conns \in [Vhosts -> ConnIds \cup {NoConn}] /\ refs \in [Vhosts -> Nat]
      /\ open \in SUBSET ConnIds
    BY <1>2 DEF PoolType
<1>4. ASSUME NEW v \in Vhosts
      PROVE  /\ refs[v] = 0 \/ refs[v] = p.refs[v] - n[v]
             /\ conns[v] = NoConn => refs[v] = 0
    BY <1>2
<1> HIDE DEF conns, refs, open
<1>5. ReleaseEach(p, n) = [conn |-> conns, refs |-> refs, open |-> open, dialed |-> p.dialed]
    BY <1>1 DEF PoolType
<1>6. QED
    BY <1>3, <1>4, <1>5 DEF PoolType

\* A pool that has lost nothing: every entry is open and has a connection of its
\* own, and what has no entry is not counted.
Sane(p) ==
    \A v \in Vhosts :
        IF p.conn[v] = NoConn THEN p.refs[v] = 0
        ELSE /\ p.conn[v] \in p.open /\ p.conn[v] <= p.dialed
             /\ \A u \in Vhosts \ {v} : p.conn[u] # p.conn[v]

\* In such a pool the methods count exactly.
LEMMA AcquireExact ==
    ASSUME NEW p \in PoolType, Sane(p), NEW v \in Vhosts, CanAcquire(p, v)
    PROVE  /\ Sane(Acquire(p, v)) /\ Acquire(p, v) \in PoolType
           /\ Acquire(p, v).refs[v] = p.refs[v] + 1
           /\ \A w \in Vhosts \ {v} : Acquire(p, v).refs[w] = p.refs[w]
<1>1. PICK q \in PoolType : q = Acquire(p, v)
    BY AcquireEffect
<1>2. /\ q.conn[v] \in q.open /\ q.conn[v] \in ConnIds
      /\ q.conn[v] = IF Reusable(p, v) THEN p.conn[v] ELSE p.dialed + 1
      /\ q.refs[v] = IF Reusable(p, v) THEN p.refs[v] + 1 ELSE 1
      /\ q.dialed = IF Reusable(p, v) THEN p.dialed ELSE p.dialed + 1
      /\ q.open = p.open \cup {q.conn[v]}
      /\ \A w \in Vhosts \ {v} : q.conn[w] = p.conn[w] /\ q.refs[w] = p.refs[w]
    BY <1>1, AcquireEffect
<1>3. /\ p.dialed \in Nat
      /\ \A w \in Vhosts : p.refs[w] \in Nat /\ p.conn[w] \in Nat
    BY PoolAssumption DEF PoolType, ConnIds, NoConn
<1>4. Reusable(p, v) <=> p.conn[v] # NoConn
    BY DEF Sane, Reusable
<1>5. q.refs[v] = p.refs[v] + 1
    BY <1>2, <1>3, <1>4 DEF Sane
<1>6. \A w \in Vhosts : p.conn[w] # NoConn => p.conn[w] \in p.open /\ p.conn[w] <= p.dialed
    BY DEF Sane
<1>7. \A w \in Vhosts : \A u \in Vhosts \ {w} : p.conn[w] # NoConn => p.conn[u] # p.conn[w]
    BY DEF Sane
<1>8. \A w \in Vhosts : q.conn[w] # NoConn => q.conn[w] \in q.open /\ q.conn[w] <= q.dialed
    <2>1. q.conn[v] <= q.dialed /\ p.dialed <= q.dialed
        BY <1>2, <1>3, <1>4, <1>6
    <2>2. ASSUME NEW w \in Vhosts \ {v}, q.conn[w] # NoConn
          PROVE  q.conn[w] \in q.open /\ q.conn[w] <= q.dialed
        <3>1. q.conn[w] \in p.open /\ q.conn[w] <= p.dialed /\ q.conn[w] \in Nat
            BY <1>2, <1>3, <1>6, <2>2
        <3>2. q.dialed \in Nat
            BY <1>2, <1>3
        <3>3. QED
            BY <1>2, <1>3, <2>1, <3>1, <3>2
    <2>3. QED
        BY <1>2, <2>1, <2>2
<1>9. ASSUME NEW w \in Vhosts \ {v} PROVE q.conn[v] # q.conn[w]
    <2>1. CASE Reusable(p, v)
        <3>1. q.conn[v] = p.conn[v] /\ p.conn[v] # NoConn /\ q.conn[w] = p.conn[w]
            BY <1>2, <1>4, <2>1
        <3>2. QED
            BY <1>7, <3>1
    <2>2. CASE ~Reusable(p, v)
        <3>1. q.conn[v] = p.dialed + 1 /\ q.conn[w] = p.conn[w]
            BY <1>2, <2>2
        <3>2. p.conn[w] <= p.dialed
            <4>1. CASE p.conn[w] = NoConn
                BY <1>3, <4>1 DEF NoConn
            <4>2. QED
                BY <1>6, <4>1
        <3>3. p.conn[w] \in Nat
            BY <1>3
        <3>4. QED
            BY <1>3, <3>1, <3>2, <3>3
    <2>3. QED
        BY <2>1, <2>2
<1>10. \A w \in Vhosts : \A u \in Vhosts \ {w} : q.conn[w] # NoConn => q.conn[u] # q.conn[w]
    BY <1>2, <1>7, <1>9
<1>11. \A w \in Vhosts : q.conn[w] = NoConn => q.refs[w] = 0
    BY <1>2 DEF Sane, ConnIds, NoConn
<1>12. Sane(q)
    BY <1>8, <1>10, <1>11 DEF Sane
<1>13. QED
    BY <1>1, <1>2, <1>5, <1>12

LEMMA ReleaseExact ==
    ASSUME NEW p \in PoolType, Sane(p), NEW v \in Vhosts, p.refs[v] > 0
    PROVE  /\ Sane(Release(p, v)) /\ Release(p, v) \in PoolType
           /\ Release(p, v).refs[v] = p.refs[v] - 1
           /\ \A w \in Vhosts \ {v} : Release(p, v).refs[w] = p.refs[w]
<1>1. PICK q \in PoolType : q = Release(p, v)
    BY ReleaseEffect
<1>2. p.conn[v] # NoConn
    BY DEF Sane
<1>3. /\ q.dialed = p.dialed
      /\ \A w \in Vhosts \ {v} : q.conn[w] = p.conn[w] /\ q.refs[w] = p.refs[w]
      /\ p.refs[v] > 1 => q.conn[v] = p.conn[v] /\ q.refs[v] = p.refs[v] - 1 /\ q.open = p.open
      /\ p.refs[v] <= 1 => q.conn[v] = NoConn /\ q.refs[v] = 0 /\ q.open = p.open \ {p.conn[v]}
    BY <1>1, <1>2, ReleaseEffect
<1>4. p.refs[v] \in Nat
    BY DEF PoolType
<1>5. CASE p.refs[v] > 1
    BY <1>1, <1>3, <1>5 DEF Sane
<1>6. CASE p.refs[v] = 1
    <2>1. q.conn[v] = NoConn /\ q.refs[v] = 0 /\ q.open = p.open \ {p.conn[v]}
        BY <1>3, <1>6
    <2>2. \A w \in Vhosts \ {v} : p.conn[w] # p.conn[v]
        BY <1>2 DEF Sane
    <2>3. Sane(q)
        BY <1>3, <2>1, <2>2 DEF Sane
    <2>4. QED
        BY <1>1, <1>3, <1>6, <2>1, <2>3
<1>7. QED
    BY <1>4, <1>5, <1>6

\* A dial fails only where there is no entry, and so forgets nothing.
LEMMA AcquireFailedExact ==
    ASSUME NEW p \in PoolType, Sane(p), NEW v \in Vhosts, CanFailAcquire(p, v)
    PROVE  AcquireFailed(p, v) = p
<1>1. p.conn[v] = NoConn /\ p.refs[v] = 0
    BY DEF CanFailAcquire, Reusable, Sane
<1>2. AcquireFailed(p, v) = [ conn |-> [p.conn EXCEPT ![v] = NoConn],
                              refs |-> [p.refs EXCEPT ![v] = 0],
                              open |-> p.open, dialed |-> p.dialed ]
    BY AcquireFailedEffect
<1>3. [p.conn EXCEPT ![v] = NoConn] = p.conn /\ [p.refs EXCEPT ![v] = 0] = p.refs
    BY <1>1 DEF PoolType
<1>4. QED
    BY <1>2, <1>3 DEF PoolType

=============================================================================
