------------------------- MODULE TenantManagerProofs -------------------------
(***************************************************************************)
(* The tenants' map holds the newest consumers, and the pool counts no     *)
(* vhost more often than there is somebody who has yet to release it: for  *)
(* any organizations, vhosts, events, faults and interleavings.            *)
(*                                                                         *)
(* The steps come to a dozen ways of changing the pool, the map and the    *)
(* consumers (CoreInv); the rest of the state only says who may take them  *)
(* (RestInv).  For the counts the invariant adds that a vhost without an   *)
(* entry is not counted: a Release that finds no entry gives nothing back. *)
(* As long as only channels of tenants are lost the counts are exact       *)
(* (ExactInv): every error path gives back what it took.  And when it is   *)
(* the broker that takes the connections, nobody but the registered        *)
(* consumers receives anything, during recovery or after it (RecoveryInv). *)
(***************************************************************************)
EXTENDS TenantManager, PoolOpsProofs, FiniteSetTheorems, SequenceTheorems

Held(v) == Cardinality(Debtors(v)) + Cardinality(Borrowers(v)) + GivingBack(v)

CoreTypes ==
    /\ pool \in PoolType
    /\ tenantConsumers \in [Orgs -> Ids \cup {None}]
    /\ consumers \in Seq(Consumer) /\ Len(consumers) <= MaxConsumers

NoEntryNoCount == \A v \in Vhosts : pool.conn[v] = NoConn => pool.refs[v] = 0

CoreInv == CoreTypes /\ NewestRegistered /\ NoEntryNoCount /\ CountsCovered

\* Only a subscription on its way holds tenantMu over a step, of the listener's
\* handler or of recovery.
LockInv ==
    /\ tenantMu \in {Free, Root} \cup Generations
    /\ tenantMu \in Generations => handlers[tenantMu].op = "subscribe"
    /\ tenantMu = Root => redo # None

RestInv ==
    /\ listener \in Generations
    /\ listening \in BOOLEAN
    /\ handlers \in [Generations -> Handler]
    /\ \A g \in Generations : handlers[g].op = "unsubscribe" => handlers[g].id \in Made
    /\ main \in {"up", "noChannel", "down"}
    /\ {notice, nextNotice} \subseteq SUBSET {"connection", "channel"}
    /\ signal \in BOOLEAN
    /\ reconnecting \in {"no", "dialing", "dialed", "reestablishing"}
    /\ reconnecting \in {"dialed", "reestablishing"} => listener < MaxGenerations
    /\ todo \subseteq Made /\ redo \in Made \cup {None}
    /\ shutdown \in Shutdown
    /\ events \in 0..MaxEvents
    /\ faults \in Seq(FaultKinds) /\ Len(faults) <= MaxFaults

-----------------------------------------------------------------------------
LEMMA MadeIs ==
    ASSUME CoreTypes
    PROVE  /\ Made = 1 .. Len(consumers) /\ Made \subseteq Ids /\ Len(consumers) \in Nat
           /\ \A k \in Made : /\ consumers[k] \in Consumer /\ OrgOf(k) \in Orgs
                              /\ VhostOfConsumer(k) \in Vhosts
  <1>1. Made = 1 .. Len(consumers) /\ Len(consumers) \in Nat
    BY DEF CoreTypes, Made
  <1>2. \A k \in Made : consumers[k] \in Consumer
    BY <1>1 DEF CoreTypes
  <1> QED
    BY <1>1, <1>2, TenantAssumption DEF CoreTypes, Ids, Consumer, OrgOf, VhostOfConsumer

LEMMA FewHold ==
    ASSUME CoreTypes, NEW v
    PROVE  /\ IsFiniteSet(Debtors(v)) /\ IsFiniteSet(Borrowers(v))
           /\ Cardinality(Debtors(v)) \in Nat /\ Cardinality(Borrowers(v)) \in Nat
           /\ GivingBack(v) \in Nat /\ GivingBack(v)' \in Nat
  <1>1. IsFiniteSet(Made)
    BY MadeIs, FS_Interval
  <1>2. IsFiniteSet(Debtors(v)) /\ IsFiniteSet(Borrowers(v))
    BY <1>1, FS_Subset DEF Debtors, Borrowers
  <1>3. GivingBack(v) \in Nat /\ GivingBack(v)' \in Nat
    BY DEF GivingBack
  <1> QED
    BY <1>2, <1>3, FS_CardinalityType

\* Whoever holds tenantMu goes on holding it, for the same organization.
LockStays ==
    /\ tenantMu' = tenantMu
    /\ \/ tenantMu = Free
       \/ tenantMu = Root /\ redo \in Made /\ redo' = redo
       \/ tenantMu \notin {Free, Root} /\ handlers'[tenantMu] = handlers[tenantMu]

LEMMA SameGiver ==
    ASSUME LockStays, \A k \in Made : OrgOf(k)' = OrgOf(k), NEW v
    PROVE  GivingBack(v)' = GivingBack(v)
  BY DEF LockStays, GivingBack, OrgGivenUp

LEMMA LockStep ==
    ASSUME RestInv, LockInv, [Next]_vars
    PROVE  LockInv' /\ (tenantMu' = tenantMu => LockStays)
  <1>0. Free # Root /\ Free \notin Generations /\ Root \notin Generations
    BY DEF Free, Root, Generations
  <1>1. CASE tenantMu = Free /\ tenantMu' = Free
    BY <1>0, <1>1 DEF LockInv, LockStays
  <1>2. ASSUME UNCHANGED <<tenantMu, redo>>,
               \A g \in Generations : handlers[g].op = "subscribe" => handlers'[g] = handlers[g]
        PROVE  LockInv' /\ LockStays
    BY <1>0, <1>2 DEF LockInv, LockStays, RestInv
  <1>3. ASSUME UNCHANGED <<tenantMu, redo, handlers>> PROVE LockInv' /\ LockStays
    BY <1>2, <1>3
  <1>4. CASE Listening
    <2>1. ASSUME NEW o \in Orgs, ReceiveCreated(o) PROVE LockInv' /\ LockStays
      BY <1>2, <2>1 DEF ReceiveCreated, ReceiveEvent, Idle, tenantVars, recVars, RestInv
    <2> QED
      BY <1>1, <1>4, <2>1 DEF Listening, ReceiveDeleted
  <1>5. ASSUME NEW o, NEW parent, Subscribe(o, parent) PROVE tenantMu = Free /\ tenantMu' = Free
    BY <1>5 DEF Subscribe
  <1>6. ASSUME NEW g \in Generations, HandleCreated(g)
        PROVE  LockInv' /\ (tenantMu' = tenantMu => LockStays)
    <2>1. CASE CannotSubscribe(handlers[g].org, g) /\ UNCHANGED handlers
      BY <1>0, <1>6, <2>1 DEF HandleCreated, CannotSubscribe, ChannelFails, LockInv
    <2>2. CASE GiveBack(handlers[g].org, g)
      BY <1>0, <2>2 DEF GiveBack, LockInv
    <2> QED
      BY <1>1, <1>5, <1>6, <2>1, <2>2 DEF HandleCreated
  <1>7. ASSUME NEW g \in Generations, FinishUnsubscribe(g) PROVE LockInv' /\ LockStays
    BY <1>2, <1>7 DEF FinishUnsubscribe, recVars, RestInv
  <1>8. CASE RedoTenant
    <2>1. CASE CannotSubscribe(OrgOf(redo), Root) /\ UNCHANGED redo
      BY <1>0, <1>8, <2>1 DEF RedoTenant, CannotSubscribe, ChannelFails, LockInv
    <2>2. CASE GiveBack(OrgOf(redo), Root)
      BY <1>0, <2>2 DEF GiveBack, LockInv
    <2> QED
      BY <1>1, <1>5, <1>8, <2>1, <2>2 DEF RedoTenant
  <1>9. CASE Reconnecting
    <2>1. CASE SnapshotTenants \/ \E k \in todo : DropTenant(k)
      BY <1>1, <2>1 DEF SnapshotTenants, DropTenant, tenantVars
    <2>2. CASE ReconnectStarts \/ ReconnectFails \/ ReconnectDials \/ ReconnectAborts
               \/ ReconnectDone
      BY <1>3, <2>2 DEF ReconnectStarts, ReconnectFails, ReconnectDials, ReconnectAborts,
         ReconnectDone, tenantVars
    <2> QED
      BY <1>8, <1>9, <2>1, <2>2 DEF Reconnecting
  <1>10. CASE Monitoring
    BY <1>3, <1>10 DEF Monitoring, HandleConnectionClosed, HandleChannelClosed, tenantVars,
       recVars
  <1>11. CASE Stopping
    <2>1. CASE StopAllConsumers
      BY <1>1, <2>1 DEF StopAllConsumers
    <2> QED
      BY <1>3, <1>11, <2>1 DEF Stopping, AskToStop, ClosePool, ListenerStops, tenantVars,
         recVars
  <1>12. ASSUME NEW k \in Made, Looping(k) PROVE LockInv' /\ LockStays
    BY <1>3, <1>12 DEF Looping, LoopStops, LoopSeesClosure, ResubscribeMainDown,
       ResubscribeMainUp, ResubscribeVhostDown, ResubscribeVhostUp, ResubscribeReturns,
       AskForReconnect, SendRequest, recVars
  <1>13. CASE Failing
    BY <1>3, <1>13 DEF Failing, TenantChannelLost, VhostConnectionLost, MainChannelLost,
       MainConnectionLost, BrokerRestarts, tenantVars, recVars
  <1>14. CASE UNCHANGED vars
    BY <1>3, <1>14 DEF vars, tenantVars, recVars
  <1> QED
    BY <1>4, <1>6, <1>7, <1>9, <1>10, <1>11, <1>12, <1>13, <1>14 DEF Next, Handling

\* One consumer changes, but not the organization it is for.
Changes(k, c) ==
    /\ k \in Made /\ c \in Consumer /\ c.org = OrgOf(k)
    /\ consumers' = [consumers EXCEPT ![k] = c]

LEMMA ConsumerChanges ==
    ASSUME CoreTypes, NEW k, NEW c, Changes(k, c)
    PROVE  /\ consumers' \in Seq(Consumer) /\ Len(consumers') <= MaxConsumers
           /\ Made' = Made /\ consumers'[k] = c
           /\ \A j \in Made \ {k} : consumers'[j] = consumers[j]
           /\ \A j \in Made : /\ OrgOf(j)' = OrgOf(j)
                              /\ VhostOfConsumer(j)' = VhostOfConsumer(j)
  <1>1. /\ consumers' \in Seq(Consumer) /\ Len(consumers') = Len(consumers)
        /\ \A j \in Made : consumers'[j] = IF j = k THEN c ELSE consumers[j]
    BY DEF Changes, CoreTypes, Made
  <1>2. Made' = Made
    BY <1>1, MadeIs DEF Made
  <1> QED
    BY <1>1, <1>2 DEF CoreTypes, Changes, OrgOf, VhostOfConsumer

\* Who holds what then: nobody is told apart but the consumer that changed.
LEMMA HoldersChange ==
    ASSUME CoreTypes, NEW k, NEW c, Changes(k, c), NEW v
    PROVE  /\ VhostOfConsumer(k) # v =>
                  Debtors(v)' = Debtors(v) /\ Borrowers(v)' = Borrowers(v)
           /\ VhostOfConsumer(k) = v =>
                  /\ Debtors(v)' = IF c.released THEN Debtors(v) \ {k} ELSE Debtors(v) \cup {k}
                  /\ Borrowers(v)' = IF c.loop = "releasing" THEN Borrowers(v) \cup {k}
                                     ELSE Borrowers(v) \ {k}
  <1>1. /\ Made' = Made /\ consumers'[k] = c /\ k \in Made
        /\ \A j \in Made \ {k} : consumers'[j] = consumers[j]
        /\ \A j \in Made : VhostOfConsumer(j)' = VhostOfConsumer(j)
    BY ConsumerChanges DEF Changes
  <1> QED
    BY <1>1 DEF Debtors, Borrowers

\* Nothing that a map without newer consumers, and no new consumer, can break.
LEMMA NewestStays ==
    ASSUME CoreTypes, NewestRegistered, Made' = Made, \A j \in Made : OrgOf(j)' = OrgOf(j),
           \A o \in Orgs : tenantConsumers'[o] \in {tenantConsumers[o], None}
    PROVE  NewestRegistered'
  BY DEF NewestRegistered

-----------------------------------------------------------------------------
\* The counts stay covered when each grows no more than those who hold it do.
LEMMA CountsStay ==
    ASSUME CoreInv, pool' \in PoolType,
           \A v \in Vhosts : /\ Held(v)' \in Nat
                             /\ pool'.refs[v] = 0
                                \/ pool'.refs[v] - pool.refs[v] <= Held(v)' - Held(v)
    PROVE  CountsCovered'
  <1> SUFFICES ASSUME NEW v \in Vhosts PROVE pool'.refs[v] <= Held(v)'
    BY DEF CountsCovered, Held
  <1>1. Held(v) \in Nat /\ pool.refs[v] <= Held(v)
    BY FewHold DEF CoreInv, CountsCovered, Held
  <1>2. pool.refs[v] \in Nat /\ pool'.refs[v] \in Nat
    BY DEF CoreInv, CoreTypes, PoolType
  <1> QED
    BY <1>1, <1>2

\* An Acquire adds at most one to one count ...
LEMMA AcquireCounts ==
    ASSUME CoreInv, NEW v \in Vhosts, CanAcquire(pool, v), pool' = Acquire(pool, v)
    PROVE  /\ pool' \in PoolType /\ NoEntryNoCount' /\ pool'.conn[v] \in ConnIds
           /\ pool'.refs[v] - pool.refs[v] <= 1
           /\ \A u \in Vhosts \ {v} : pool'.refs[u] = pool.refs[u]
  <1>1. pool \in PoolType /\ pool.refs[v] \in Nat
    BY DEF CoreInv, CoreTypes, PoolType
  <1>2. /\ pool' \in PoolType /\ pool'.conn[v] \in ConnIds
        /\ pool'.refs[v] = IF Reusable(pool, v) THEN pool.refs[v] + 1 ELSE 1
        /\ \A u \in Vhosts \ {v} : pool'.conn[u] = pool.conn[u] /\ pool'.refs[u] = pool.refs[u]
    BY <1>1, AcquireEffect
  <1>3. NoEntryNoCount'
    BY <1>2 DEF CoreInv, NoEntryNoCount, ConnIds, NoConn
  <1> QED
    BY <1>1, <1>2, <1>3

\* ... one that fails leaves the vhost without an entry ...
LEMMA AcquireFailedCounts ==
    ASSUME CoreInv, NEW v \in Vhosts, pool' = AcquireFailed(pool, v)
    PROVE  /\ pool' \in PoolType /\ NoEntryNoCount'
           /\ \A u \in Vhosts : pool'.refs[u] = 0 \/ pool'.refs[u] = pool.refs[u]
  <1>1. pool \in PoolType
    BY DEF CoreInv, CoreTypes
  <1>2. /\ pool' \in PoolType /\ pool'.conn = [pool.conn EXCEPT ![v] = NoConn]
        /\ pool'.refs = [pool.refs EXCEPT ![v] = 0]
    BY <1>1, AcquireFailedEffect
  <1> QED
    BY <1>1, <1>2 DEF CoreInv, NoEntryNoCount, PoolType

\* ... and a Release takes one away, or nothing is left to take.
LEMMA ReleaseCounts ==
    ASSUME NEW p \in PoolType, NEW v \in Vhosts,
           \A u \in Vhosts : p.conn[u] = NoConn => p.refs[u] = 0
    PROVE  /\ Release(p, v) \in PoolType
           /\ Release(p, v).refs[v] = 0 \/ Release(p, v).refs[v] = p.refs[v] - 1
           /\ \A u \in Vhosts \ {v} : Release(p, v).refs[u] = p.refs[u]
           /\ \A u \in Vhosts : Release(p, v).conn[u] = NoConn => Release(p, v).refs[u] = 0
  <1>1. \A u \in Vhosts : p.refs[u] \in Nat
    BY DEF PoolType
  <1>2. Release(p, v).refs[v] = 0 \/ Release(p, v).refs[v] = p.refs[v] - 1
    BY <1>1, ReleaseEffect
  <1>3. ASSUME NEW u \in Vhosts, Release(p, v).conn[u] = NoConn PROVE Release(p, v).refs[u] = 0
    BY <1>1, <1>3, ReleaseEffect, SMTT(30)
  <1> QED
    BY <1>2, <1>3, ReleaseEffect

\* When nothing changes but the pool, the map's emptied places and who gives a
\* connection back.
LEMMA HoldersStay ==
    ASSUME CoreInv, consumers' = consumers, pool' \in PoolType, NoEntryNoCount',
           \A o \in Orgs : tenantConsumers'[o] \in {tenantConsumers[o], None},
           tenantConsumers' \in [Orgs -> Ids \cup {None}],
           \A v \in Vhosts :
              pool'.refs[v] = 0
              \/ pool'.refs[v] - pool.refs[v] <= GivingBack(v)' - GivingBack(v)
    PROVE  CoreInv' /\ Made' = Made
  <1>1. CoreTypes' /\ Made' = Made
    BY DEF CoreInv, CoreTypes, Made
  <1>2. NewestRegistered'
    BY NewestStays DEF CoreInv, Made, OrgOf
  <1>3. \A v : Debtors(v)' = Debtors(v) /\ Borrowers(v)' = Borrowers(v)
    BY DEF Debtors, Borrowers, Made, VhostOfConsumer, OrgOf
  <1>4. ASSUME NEW v \in Vhosts
        PROVE  /\ Held(v)' \in Nat
               /\ Held(v)' - Held(v) = GivingBack(v)' - GivingBack(v)
    <2>1. /\ Cardinality(Debtors(v)) \in Nat /\ Cardinality(Borrowers(v)) \in Nat
          /\ GivingBack(v) \in Nat /\ GivingBack(v)' \in Nat
      BY FewHold DEF CoreInv
    <2>2. Held(v)' = Cardinality(Debtors(v)) + Cardinality(Borrowers(v)) + GivingBack(v)'
      BY <1>3 DEF Held
    <2> QED
      BY <2>1, <2>2 DEF Held
  <1>5. CountsCovered'
    BY <1>4, CountsStay
  <1> QED
    BY <1>1, <1>2, <1>5 DEF CoreInv

\* When nobody starts to give back, either.
LEMMA PoolMoves ==
    ASSUME CoreInv, LockStays, consumers' = consumers, pool' \in PoolType, NoEntryNoCount',
           \A o \in Orgs : tenantConsumers'[o] \in {tenantConsumers[o], None},
           tenantConsumers' \in [Orgs -> Ids \cup {None}],
           \A v \in Vhosts : pool'.refs[v] = 0 \/ pool'.refs[v] <= pool.refs[v]
    PROVE  CoreInv' /\ Made' = Made
  <1>1. \A k \in Made : OrgOf(k)' = OrgOf(k)
    BY DEF OrgOf
  <1>2. ASSUME NEW v \in Vhosts
        PROVE  pool'.refs[v] = 0
               \/ pool'.refs[v] - pool.refs[v] <= GivingBack(v)' - GivingBack(v)
    <2>1. GivingBack(v)' = GivingBack(v) /\ GivingBack(v) \in Nat
      BY <1>1, SameGiver, FewHold DEF CoreInv
    <2>2. pool.refs[v] \in Nat /\ pool'.refs[v] \in Nat
      BY DEF CoreInv, CoreTypes, PoolType
    <2> QED
      BY <2>1, <2>2
  <1> QED
    BY <1>2, HoldersStay

\* When a consumer changes, and the pool with it.
LEMMA HolderMoves ==
    ASSUME CoreInv, LockStays, NEW k, NEW c, Changes(k, c),
           tenantConsumers' = tenantConsumers, pool' \in PoolType, NoEntryNoCount', NEW u, VhostOfConsumer(k) = u,
           \A v \in Vhosts \ {u} : pool'.refs[v] = 0 \/ pool'.refs[v] <= pool.refs[v],
           NEW n \in {-1, 0, 1},
           pool'.refs[u] = 0 \/ pool'.refs[u] - pool.refs[u] <= n,
           Held(u)' \in Nat, n <= Held(u)' - Held(u)
    PROVE  CoreInv'
  <1>1. CoreTypes /\ k \in Made /\ u \in Vhosts
    BY MadeIs DEF CoreInv, Changes
  <1>2. CoreTypes'
    BY <1>1, ConsumerChanges DEF CoreInv, CoreTypes
  <1>3. NewestRegistered'
    <2>1. \A o \in Orgs : tenantConsumers'[o] \in {tenantConsumers[o], None}
      OBVIOUS
    <2> QED
      BY <1>1, <2>1, ConsumerChanges, NewestStays DEF CoreInv
  <1>4. \A v \in Vhosts : pool.refs[v] \in Nat /\ pool'.refs[v] \in Nat
    BY DEF CoreInv, CoreTypes, PoolType
  <1>5. \A v \in Vhosts : Held(v) \in Nat
    BY <1>1, FewHold DEF Held
  <1>6. ASSUME NEW v \in Vhosts \ {u} PROVE Held(v)' = Held(v)
    <2>1. GivingBack(v)' = GivingBack(v)
      BY <1>1, ConsumerChanges, SameGiver
    <2> QED
      BY <1>1, <1>6, <2>1, HoldersChange DEF Held
  <1>7. CountsCovered'
    <2> SUFFICES ASSUME NEW v \in Vhosts
                 PROVE  /\ Held(v)' \in Nat
                        /\ pool'.refs[v] = 0
                           \/ pool'.refs[v] - pool.refs[v] <= Held(v)' - Held(v)
      BY CountsStay
    <2>1. CASE v = u
      <3> DEFINE a == pool'.refs[u] - pool.refs[u]
                 b == Held(u)' - Held(u)
      <3>1. a \in Int /\ b \in Int
        BY <1>1, <1>4, <1>5
      <3>2. pool'.refs[u] = 0 \/ (a <= n /\ n <= b)
        OBVIOUS
      <3>3. pool'.refs[u] = 0 \/ a <= b
        BY <3>1, <3>2
      <3> QED
        BY <2>1, <3>3
    <2>2. CASE v # u
      BY <1>4, <1>5, <1>6, <2>2
    <2> QED
      BY <2>1, <2>2
  <1> QED
    BY <1>2, <1>3, <1>7 DEF CoreInv

-----------------------------------------------------------------------------
\* A loop moves on, or a channel closes: nobody holds more or less than before.
LEMMA LoopMoves ==
    ASSUME CoreInv, LockStays, NEW k, NEW c, Changes(k, c), tenantConsumers' = tenantConsumers,
           c.released = consumers[k].released,
           c.loop = "releasing" <=> consumers[k].loop = "releasing",
           pool' \in PoolType, NoEntryNoCount',
           \A v \in Vhosts : pool'.refs[v] = 0 \/ pool'.refs[v] = pool.refs[v]
    PROVE  CoreInv'
  <1>1. CoreTypes /\ k \in Made
    BY DEF CoreInv, Changes
  <1>2. PICK u \in Vhosts : VhostOfConsumer(k) = u
    BY <1>1, MadeIs
  <1>3. Debtors(u)' = Debtors(u) /\ Borrowers(u)' = Borrowers(u)
    <2>1. /\ Debtors(u)' = IF c.released THEN Debtors(u) \ {k} ELSE Debtors(u) \cup {k}
          /\ Borrowers(u)' = IF c.loop = "releasing" THEN Borrowers(u) \cup {k}
                             ELSE Borrowers(u) \ {k}
      BY <1>1, <1>2, HoldersChange
    <2>2. /\ k \in Debtors(u) <=> ~c.released
          /\ k \in Borrowers(u) <=> c.loop = "releasing"
      BY <1>1, <1>2 DEF Debtors, Borrowers
    <2> QED
      BY <2>1, <2>2
  <1>4. Held(u)' = Held(u) /\ Held(u) \in Nat
    <2>1. GivingBack(u)' = GivingBack(u)
      BY <1>1, ConsumerChanges, SameGiver
    <2> QED
      BY <1>1, <1>3, <2>1, FewHold DEF Held
  <1>5. \A v \in Vhosts : pool.refs[v] \in Nat /\ pool'.refs[v] \in Nat
    BY DEF CoreInv, CoreTypes, PoolType
  <1>6. 0 \in {-1, 0, 1} /\ 0 <= Held(u)' - Held(u)
    BY <1>4
  <1>7. pool'.refs[u] = 0 \/ pool'.refs[u] - pool.refs[u] <= 0
    BY <1>2, <1>5
  <1>8. \A v \in Vhosts \ {u} : pool'.refs[v] = 0 \/ pool'.refs[v] <= pool.refs[v]
    BY <1>5
  <1> QED
    BY <1>2, <1>4, <1>6, <1>7, <1>8, HolderMoves

\* resubscribeTenant has the vhost's connection: one more borrows it.
LEMMA VhostUpCore ==
    ASSUME CoreInv, LockStays, NEW k \in Made, ResubscribeVhostUp(k)
    PROVE  CoreInv'
  <1>1. CoreTypes
    BY DEF CoreInv
  <1>2. PICK u \in Vhosts : VhostOfConsumer(k) = u
    BY <1>1, MadeIs
  <1>3. PICK c : c = [consumers[k] EXCEPT !.loop = "releasing"]
    OBVIOUS
  <1>4. /\ consumers[k].loop = "acquiring" /\ tenantConsumers' = tenantConsumers
        /\ CanAcquire(pool, u) /\ pool' = Acquire(pool, u)
        /\ consumers' = [consumers EXCEPT ![k] = c]
    BY <1>2, <1>3 DEF ResubscribeVhostUp
  <1>5. /\ c \in Consumer /\ c.org = consumers[k].org /\ c.loop = "releasing"
        /\ c.released = consumers[k].released
    <2>1. consumers[k] \in Consumer
      BY <1>1, MadeIs
    <2> QED
      BY <1>3, <2>1 DEF Consumer
  <1>6. Changes(k, c)
    BY <1>4, <1>5 DEF Changes, OrgOf
  <1>7. Debtors(u)' = Debtors(u) /\ Borrowers(u)' = Borrowers(u) \cup {k}
    <2>1. /\ Debtors(u)' = IF c.released THEN Debtors(u) \ {k} ELSE Debtors(u) \cup {k}
          /\ Borrowers(u)' = Borrowers(u) \cup {k}
      BY <1>1, <1>2, <1>5, <1>6, HoldersChange
    <2>2. k \in Debtors(u) <=> ~c.released
      BY <1>2, <1>5 DEF Debtors
    <2> QED
      BY <2>1, <2>2
  <1>8. Held(u)' = Held(u) + 1 /\ Held(u) \in Nat
    <2>1. k \notin Borrowers(u)
      BY <1>4 DEF Borrowers
    <2>2. Cardinality(Borrowers(u) \cup {k}) = Cardinality(Borrowers(u)) + 1
      BY <1>1, <2>1, FewHold, FS_AddElement
    <2>3. GivingBack(u)' = GivingBack(u)
      BY <1>1, <1>6, ConsumerChanges, SameGiver
    <2> QED
      BY <1>1, <1>7, <2>2, <2>3, FewHold DEF Held
  <1>9. /\ pool' \in PoolType /\ NoEntryNoCount' /\ pool'.refs[u] - pool.refs[u] <= 1
        /\ \A v \in Vhosts \ {u} : pool'.refs[v] = pool.refs[v]
    BY <1>4, AcquireCounts
  <1>10. \A v \in Vhosts \ {u} : pool'.refs[v] <= pool.refs[v]
    BY <1>9 DEF CoreInv, CoreTypes, PoolType
  <1>11. 1 \in {-1, 0, 1} /\ 1 <= Held(u)' - Held(u) /\ Held(u)' \in Nat
    BY <1>8
  <1> QED
    BY <1>2, <1>4, <1>6, <1>9, <1>10, <1>11, HolderMoves

\* A Release, of one who borrowed (resubscribeTenant) or had not released yet
\* (unsubscribeFromOrganization): one less holds the vhost, at most.
LEMMA ReleasingCore ==
    ASSUME CoreInv, LockStays, NEW k, NEW c, Changes(k, c), tenantConsumers' = tenantConsumers,
           pool' = Release(pool, VhostOfConsumer(k)),
           \/ /\ c.released = consumers[k].released
              /\ consumers[k].loop = "releasing" /\ c.loop # "releasing"
           \/ /\ c.released
              /\ c.loop = "releasing" <=> consumers[k].loop = "releasing"
    PROVE  CoreInv'
  <1>1. CoreTypes /\ k \in Made
    BY DEF CoreInv, Changes
  <1>2. PICK u \in Vhosts : VhostOfConsumer(k) = u
    BY <1>1, MadeIs
  <1>3. /\ pool' \in PoolType /\ NoEntryNoCount'
        /\ pool'.refs[u] = 0 \/ pool'.refs[u] = pool.refs[u] - 1
        /\ \A v \in Vhosts \ {u} : pool'.refs[v] = pool.refs[v]
    BY <1>2, ReleaseCounts DEF CoreInv, CoreTypes, NoEntryNoCount
  <1>4. /\ Debtors(u)' = IF c.released THEN Debtors(u) \ {k} ELSE Debtors(u) \cup {k}
        /\ Borrowers(u)' = IF c.loop = "releasing" THEN Borrowers(u) \cup {k}
                           ELSE Borrowers(u) \ {k}
    BY <1>1, <1>2, HoldersChange
  <1>5. /\ k \in Debtors(u) <=> ~consumers[k].released
        /\ k \in Borrowers(u) <=> consumers[k].loop = "releasing"
    BY <1>1, <1>2 DEF Debtors, Borrowers
  <1>6. /\ Cardinality(Debtors(u)) \in Nat /\ Cardinality(Borrowers(u)) \in Nat
        /\ IsFiniteSet(Debtors(u)) /\ IsFiniteSet(Borrowers(u))
        /\ GivingBack(u) \in Nat /\ GivingBack(u)' = GivingBack(u)
    BY <1>1, FewHold, ConsumerChanges, SameGiver
  <1>7. /\ Cardinality(Debtors(u) \ {k}) = IF k \in Debtors(u) THEN Cardinality(Debtors(u)) - 1
                                           ELSE Cardinality(Debtors(u))
        /\ Cardinality(Debtors(u) \ {k}) \in Nat
    BY <1>6, FS_RemoveElement, FS_CardinalityType
  <1>8. /\ Cardinality(Borrowers(u) \ {k}) =
              IF k \in Borrowers(u) THEN Cardinality(Borrowers(u)) - 1
              ELSE Cardinality(Borrowers(u))
        /\ Cardinality(Borrowers(u) \ {k}) \in Nat
    BY <1>6, FS_RemoveElement, FS_CardinalityType
  <1>9. Held(u)' \in Nat /\ -1 <= Held(u)' - Held(u)
    <2>1. CASE /\ c.released = consumers[k].released
               /\ consumers[k].loop = "releasing" /\ c.loop # "releasing"
      <3>1. Debtors(u)' = Debtors(u) /\ Borrowers(u)' = Borrowers(u) \ {k}
        BY <1>4, <1>5, <2>1
      <3> QED
        BY <1>6, <1>8, <3>1 DEF Held
    <2>2. CASE /\ c.released
               /\ c.loop = "releasing" <=> consumers[k].loop = "releasing"
      <3>1. Debtors(u)' = Debtors(u) \ {k} /\ Borrowers(u)' = Borrowers(u)
        BY <1>4, <1>5, <2>2
      <3> QED
        BY <1>6, <1>7, <3>1 DEF Held
    <2> QED
      BY <2>1, <2>2
  <1>10. \A v \in Vhosts : pool.refs[v] \in Nat /\ pool'.refs[v] \in Nat
    BY <1>3 DEF CoreInv, CoreTypes, PoolType
  <1>11. /\ -1 \in {-1, 0, 1}
         /\ pool'.refs[u] = 0 \/ pool'.refs[u] - pool.refs[u] <= -1
         /\ \A v \in Vhosts \ {u} : pool'.refs[v] <= pool.refs[v]
    BY <1>2, <1>3, <1>10
  <1> QED
    BY <1>2, <1>3, <1>9, <1>11, HolderMoves

\* A new consumer is the newest, registered, and holds what it acquired.
LEMMA CreatedCore ==
    ASSUME CoreInv, LockStays, NEW o \in Orgs, NEW parent \in {Root} \cup Generations, Created(o, parent)
    PROVE  CoreInv' /\ Made \subseteq Made'
  <1>1. CoreTypes /\ Made = 1 .. Len(consumers) /\ Len(consumers) \in Nat
    BY MadeIs DEF CoreInv
  <1>n. PICK n \in Nat : n = Len(consumers) + 1
    BY <1>1
  <1>2. PICK u \in Vhosts : VhostOf[o] = u
    BY TenantAssumption
  <1>3. /\ CanAcquire(pool, u) /\ pool' = Acquire(pool, u) /\ Len(consumers) < MaxConsumers
        /\ tenantConsumers' = [tenantConsumers EXCEPT ![o] = Len(consumers')]
    BY <1>2 DEF Created
  <1>4. /\ pool' \in PoolType /\ NoEntryNoCount' /\ pool'.conn[u] \in ConnIds
        /\ pool'.refs[u] - pool.refs[u] <= 1
        /\ \A v \in Vhosts \ {u} : pool'.refs[v] = pool.refs[v]
    BY <1>3, AcquireCounts
  <1>5. PICK c \in Consumer : /\ c.org = o /\ c.released = FALSE /\ c.loop = "running"
                              /\ consumers' = Append(consumers, c)
    BY <1>2, <1>4 DEF Created, Consumer
  <1>6. /\ consumers' \in Seq(Consumer) /\ Len(consumers') = n
        /\ consumers'[n] = c /\ \A j \in Made : consumers'[j] = consumers[j]
    BY <1>n, <1>1, <1>5 DEF CoreTypes
  <1>7. Made' = Made \cup {n} /\ n \notin Made
    BY <1>n, <1>1, <1>6 DEF Made
  <1>8. n \in Ids /\ n <= MaxConsumers
    BY <1>n, <1>1, <1>3, TenantAssumption DEF Ids
  <1>9. CoreTypes'
    BY <1>1, <1>3, <1>4, <1>6, <1>8 DEF CoreTypes
  <1>10. \A j \in Made : OrgOf(j)' = OrgOf(j) /\ VhostOfConsumer(j)' = VhostOfConsumer(j)
    BY <1>6 DEF OrgOf, VhostOfConsumer
  <1>11. OrgOf(n)' = o /\ VhostOfConsumer(n)' = u
    BY <1>2, <1>5, <1>6 DEF OrgOf, VhostOfConsumer
  <1>12. NewestRegistered'
    <2> SUFFICES ASSUME NEW q \in Orgs, tenantConsumers'[q] # None
                 PROVE  /\ tenantConsumers'[q] \in Made'
                        /\ consumers'[tenantConsumers'[q]].org = q
                        /\ \A j \in Made' : consumers'[j].org = q => j <= tenantConsumers'[q]
      BY DEF NewestRegistered, OrgOf
    <2>1. CASE q = o
      <3>1. tenantConsumers'[q] = n
        BY <1>1, <1>3, <1>6, <2>1 DEF CoreTypes
      <3>2. \A j \in Made' : j <= n
        BY <1>n, <1>1, <1>7
      <3> QED
        BY <1>5, <1>6, <1>7, <2>1, <3>1, <3>2
    <2>2. CASE q # o
      <3>1. tenantConsumers'[q] = tenantConsumers[q]
        BY <1>1, <1>3, <2>2 DEF CoreTypes
      <3>2. /\ tenantConsumers[q] \in Made /\ consumers[tenantConsumers[q]].org = q
            /\ \A j \in Made : consumers[j].org = q => j <= tenantConsumers[q]
        BY <3>1 DEF CoreInv, NewestRegistered, OrgOf
      <3> QED
        BY <1>5, <1>6, <1>7, <2>2, <3>1, <3>2
    <2> QED
      BY <2>1, <2>2
  <1>13. /\ \A v \in Vhosts \ {u} : Debtors(v)' = Debtors(v) /\ Borrowers(v)' = Borrowers(v)
         /\ Debtors(u)' = Debtors(u) \cup {n} /\ Borrowers(u)' = Borrowers(u)
    BY <1>5, <1>6, <1>7, <1>10, <1>11 DEF Debtors, Borrowers
  <1>g. \A v : GivingBack(v)' = GivingBack(v)
    BY <1>10, SameGiver
  <1>14. \A v \in Vhosts : Held(v)' = IF v = u THEN Held(v) + 1 ELSE Held(v)
    <2>1. n \notin Debtors(u)
      BY <1>7 DEF Debtors
    <2>2. Cardinality(Debtors(u) \cup {n}) = Cardinality(Debtors(u)) + 1
      BY <1>1, <2>1, FewHold, FS_AddElement
    <2>3. Held(u)' = Held(u) + 1
      BY <1>1, <1>g, <1>13, <2>2, FewHold DEF Held
    <2> QED
      BY <1>g, <1>13, <2>3 DEF Held
  <1>15. \A v \in Vhosts : Held(v) \in Nat /\ pool.refs[v] \in Nat /\ pool'.refs[v] \in Nat
    BY <1>1, <1>4, FewHold DEF Held, CoreTypes, PoolType
  <1>16. CountsCovered'
    BY <1>4, <1>14, <1>15, CountsStay
  <1> QED
    BY <1>4, <1>7, <1>9, <1>12, <1>16 DEF CoreInv

LEMMA SubscribeCore ==
    ASSUME CoreInv, LockStays, NEW o \in Orgs, NEW parent \in {Root} \cup Generations,
           Subscribe(o, parent)
    PROVE  CoreInv' /\ Made \subseteq Made'
  <1>1. PICK u \in Vhosts : VhostOf[o] = u
    BY TenantAssumption
  <1>2. ASSUME UNCHANGED <<tenantConsumers, consumers>>, pool' \in PoolType, NoEntryNoCount',
               \A v \in Vhosts : pool'.refs[v] = 0 \/ pool'.refs[v] <= pool.refs[v]
        PROVE  CoreInv' /\ Made \subseteq Made'
    BY <1>2, PoolMoves DEF CoreInv, CoreTypes
  <1>3. CASE UNCHANGED <<pool, tenantConsumers, consumers>>
    <2>1. pool' \in PoolType /\ NoEntryNoCount' /\ \A v \in Vhosts : pool.refs[v] \in Nat
      BY <1>3 DEF CoreInv, CoreTypes, NoEntryNoCount, PoolType
    <2> QED
      BY <1>2, <1>3, <2>1
  <1>4. CASE DialFails(o)
    <2>1. pool' = AcquireFailed(pool, u) /\ UNCHANGED <<tenantConsumers, consumers>>
      BY <1>1, <1>4 DEF DialFails
    <2>2. /\ pool' \in PoolType /\ NoEntryNoCount'
          /\ \A w \in Vhosts : pool'.refs[w] = 0 \/ pool'.refs[w] <= pool.refs[w]
      BY <2>1, AcquireFailedCounts DEF PoolType
    <2> QED
      BY <1>2, <2>1, <2>2
  <1> QED
    BY <1>3, <1>4, CreatedCore DEF Subscribe

\* A channel that fails: what has been acquired is to be given back ...
LEMMA CannotSubscribeCore ==
    ASSUME CoreInv, NEW o \in Orgs, NEW parent \in {Root} \cup Generations,
           CannotSubscribe(o, parent), OrgGivenUp' = o
    PROVE  CoreInv' /\ Made' = Made
  <1>1. PICK u \in Vhosts : VhostOf[o] = u
    BY TenantAssumption
  <1>2. /\ CanAcquire(pool, u) /\ pool' = Acquire(pool, u) /\ tenantMu = Free
        /\ tenantMu' = parent /\ UNCHANGED <<tenantConsumers, consumers>>
    BY <1>1 DEF CannotSubscribe, ChannelFails
  <1>3. /\ pool' \in PoolType /\ NoEntryNoCount' /\ pool'.refs[u] - pool.refs[u] <= 1
        /\ \A v \in Vhosts \ {u} : pool'.refs[v] = pool.refs[v]
    BY <1>2, AcquireCounts
  <1>4. parent # Free
    BY DEF Root, Free, Generations
  <1>5. \A v : GivingBack(v) = 0 /\ GivingBack(v)' = IF v = u THEN 1 ELSE 0
    BY <1>1, <1>2, <1>4 DEF GivingBack
  <1>6. \A v \in Vhosts : pool.refs[v] \in Nat
    BY DEF CoreInv, CoreTypes, PoolType
  <1>7. \A v \in Vhosts : pool'.refs[v] - pool.refs[v] <= GivingBack(v)' - GivingBack(v)
    BY <1>3, <1>5, <1>6
  <1> QED
    BY <1>2, <1>3, <1>7, HoldersStay DEF CoreInv, CoreTypes

\* ... and is.
LEMMA GiveBackCore ==
    ASSUME CoreInv, NEW o \in Orgs, NEW parent \in {Root} \cup Generations,
           GiveBack(o, parent), OrgGivenUp = o
    PROVE  CoreInv' /\ Made' = Made
  <1>1. PICK u \in Vhosts : VhostOf[o] = u
    BY TenantAssumption
  <1>2. /\ pool' = Release(pool, u) /\ tenantMu = parent /\ tenantMu' = Free
        /\ UNCHANGED <<tenantConsumers, consumers>>
    BY <1>1 DEF GiveBack
  <1>3. /\ pool' \in PoolType /\ NoEntryNoCount'
        /\ pool'.refs[u] = 0 \/ pool'.refs[u] = pool.refs[u] - 1
        /\ \A v \in Vhosts \ {u} : pool'.refs[v] = pool.refs[v]
    BY <1>2, ReleaseCounts DEF CoreInv, CoreTypes, NoEntryNoCount
  <1>4. parent # Free
    BY DEF Root, Free, Generations
  <1>5. \A v : GivingBack(v)' = 0 /\ GivingBack(v) = IF v = u THEN 1 ELSE 0
    BY <1>1, <1>2, <1>4 DEF GivingBack
  <1>6. \A v \in Vhosts : pool.refs[v] \in Nat
    BY DEF CoreInv, CoreTypes, PoolType
  <1>7. \A v \in Vhosts : pool'.refs[v] = 0
                          \/ pool'.refs[v] - pool.refs[v] <= GivingBack(v)' - GivingBack(v)
    BY <1>3, <1>5, <1>6
  <1> QED
    BY <1>2, <1>3, <1>7, HoldersStay DEF CoreInv, CoreTypes

\* stopAllConsumers: whoever is in the map is released, each vhost as often as it
\* has such a consumer.
LEMMA StopAllCore ==
    ASSUME CoreInv, LockStays, StopAllConsumers
    PROVE  CoreInv' /\ Made' = Made
  <1>1. PICK registered : registered = {tenantConsumers[o] : o \in Orgs} \ {None}
    OBVIOUS
  <1> DEFINE Of(v) == {k \in registered : VhostOfConsumer(k) = v}
  <1>2. PICK n : n = [v \in Vhosts |-> Cardinality(Of(v))]
    OBVIOUS
  <1>3. /\ consumers' = [k \in Made |-> IF k \in registered
                                        THEN [Halted(consumers[k]) EXCEPT !.released = TRUE]
                                        ELSE consumers[k]]
        /\ pool' = ReleaseEach(pool, n) /\ tenantConsumers' = [o \in Orgs |-> None]
    BY <1>1, <1>2 DEF StopAllConsumers
  <1>4. /\ CoreTypes /\ Made = 1 .. Len(consumers) /\ Len(consumers) \in Nat
        /\ \A k \in Made : consumers[k] \in Consumer
    BY MadeIs DEF CoreInv
  <1>5. registered \subseteq Made
    BY <1>1 DEF CoreInv, NewestRegistered
  <1>6. \A v : IsFiniteSet(Of(v)) /\ Cardinality(Of(v)) \in Nat
    <2>1. IsFiniteSet(Made)
      BY <1>4, FS_Interval
    <2> QED
      BY <1>5, <2>1, FS_Subset, FS_CardinalityType
  <1>7. /\ pool' \in PoolType /\ NoEntryNoCount'
        /\ \A v \in Vhosts : pool'.refs[v] = 0
                             \/ pool'.refs[v] = pool.refs[v] - Cardinality(Of(v))
    <2>1. n \in [Vhosts -> Nat] /\ pool \in PoolType
      BY <1>2, <1>4, <1>6 DEF CoreTypes
    <2>2. \A v \in Vhosts : pool.conn[v] = NoConn => pool.refs[v] = 0
      BY DEF CoreInv, NoEntryNoCount
    <2> HIDE DEF Of
    <2> QED
      BY <1>2, <1>3, <2>1, <2>2, ReleaseEachEffect DEF NoEntryNoCount
  <1>8. ASSUME NEW k \in Made
        PROVE  /\ consumers'[k] \in Consumer /\ consumers'[k].org = consumers[k].org
               /\ consumers'[k].loop = consumers[k].loop
               /\ consumers'[k].released = (consumers[k].released \/ k \in registered)
    <2>1. CASE k \in registered
      <3>1. consumers'[k] = [Halted(consumers[k]) EXCEPT !.released = TRUE]
        BY <1>3, <2>1
      <3> QED
        BY <1>4, <2>1, <3>1 DEF Halted, Consumer
    <2>2. CASE k \notin registered
      BY <1>3, <1>4, <2>2 DEF Consumer
    <2> QED
      BY <2>1, <2>2
  <1>9. consumers' \in Seq(Consumer) /\ Made' = Made /\ Len(consumers') = Len(consumers)
    <2>1. consumers' \in [1 .. Len(consumers) -> Consumer]
      BY <1>3, <1>4, <1>8
    <2> QED
      BY <1>4, <2>1 DEF Made
  <1>10. CoreTypes'
    BY <1>3, <1>4, <1>7, <1>9 DEF CoreTypes
  <1>11. NewestRegistered'
    BY <1>3 DEF NewestRegistered
  <1>12. ASSUME NEW v \in Vhosts
         PROVE  /\ Held(v)' \in Nat /\ Held(v) \in Nat
                /\ Held(v) - Cardinality(Of(v)) <= Held(v)'
    <2>1. \A k \in Made : VhostOfConsumer(k)' = VhostOfConsumer(k)
      BY <1>8 DEF VhostOfConsumer, OrgOf
    <2>2. Borrowers(v)' = Borrowers(v)
      BY <1>8, <1>9, <2>1 DEF Borrowers
    <2>3. Debtors(v)' = Debtors(v) \ Of(v)
      <3>1. \A k \in Made : consumers'[k].released <=> (consumers[k].released \/ k \in registered)
        BY <1>8
      <3>2. ASSUME NEW k PROVE k \in Debtors(v)' <=> k \in Debtors(v) \ Of(v)
        BY <1>5, <1>9, <2>1, <3>1 DEF Debtors
      <3> QED
        BY <3>2
    <2>4. /\ IsFiniteSet(Debtors(v)) /\ Cardinality(Debtors(v)) \in Nat
          /\ Cardinality(Borrowers(v)) \in Nat
          /\ GivingBack(v) \in Nat /\ GivingBack(v)' = GivingBack(v)
      <3>1. \A k \in Made : OrgOf(k)' = OrgOf(k)
        BY <1>8 DEF OrgOf
      <3> QED
        BY <1>4, <3>1, FewHold, SameGiver
    <2>5. /\ Cardinality(Debtors(v) \ Of(v)) =
                 Cardinality(Debtors(v)) - Cardinality(Debtors(v) \cap Of(v))
          /\ Cardinality(Debtors(v) \ Of(v)) \in Nat
      BY <2>4, FS_Difference, FS_CardinalityType
    <2>6. Cardinality(Debtors(v) \cap Of(v)) <= Cardinality(Of(v))
          /\ Cardinality(Debtors(v) \cap Of(v)) \in Nat
      BY <1>6, <2>4, FS_Subset, FS_CardinalityType
    <2> HIDE DEF Of
    <2> QED
      BY <1>6, <2>2, <2>3, <2>4, <2>5, <2>6 DEF Held
  <1>13. CountsCovered'
    <2> HIDE DEF Of
    <2>1. \A v \in Vhosts : pool.refs[v] \in Nat /\ pool'.refs[v] \in Nat
      BY <1>4, <1>7 DEF CoreTypes, PoolType
    <2>2. \A v \in Vhosts : Cardinality(Of(v)) \in Nat
      BY <1>6 DEF Of
    <2>3. ASSUME NEW v \in Vhosts
          PROVE  pool'.refs[v] = 0 \/ pool'.refs[v] - pool.refs[v] <= Held(v)' - Held(v)
      <3> DEFINE a == Held(v)'
                 b == Held(v)
                 c == Cardinality(Of(v))
      <3>1. a \in Nat /\ b \in Nat /\ c \in Nat /\ b - c <= a
        BY <1>12, <2>2
      <3> HIDE DEF a, b, c
      <3>2. CASE pool'.refs[v] = pool.refs[v] - c
        <4>1. pool'.refs[v] - pool.refs[v] <= a - b
          BY <2>1, <3>1, <3>2
        <4> QED
          BY <4>1 DEF a, b
      <3> QED
        BY <1>7, <3>2 DEF c
    <2> QED
      BY <1>7, <1>12, <2>3, CountsStay
  <1> QED
    BY <1>7, <1>9, <1>10, <1>11, <1>13 DEF CoreInv

-----------------------------------------------------------------------------
\* What becomes of a consumer: it is halted, its channel closes, or it moves on.
LEMMA ConsumerFates ==
    ASSUME NEW c \in Consumer
    PROVE  /\ LET d == [Halted(c) EXCEPT !.released = TRUE]
              IN  d \in Consumer /\ d.org = c.org /\ d.released /\ d.loop = c.loop
           /\ LET d == [Halted(c) EXCEPT !.loop = "ended"]
              IN  d \in Consumer /\ d.org = c.org /\ d.released = c.released /\ d.loop = "ended"
           /\ LET d == [c EXCEPT !.channel = FALSE]
              IN  d \in Consumer /\ d.org = c.org /\ d.released = c.released /\ d.loop = c.loop
  BY DEF Halted, Consumer

\* Every step of the program, on the pool, the map and the consumers.
LEMMA CoreStep ==
    ASSUME CoreInv, RestInv, LockInv, [Next]_vars
    PROVE  CoreInv' /\ Made \subseteq Made'
  <1> USE DEF RestInv
  <1>l. tenantMu' = tenantMu => LockStays
    BY LockStep
  <1>1. ASSUME UNCHANGED tenantVars PROVE CoreInv' /\ Made \subseteq Made'
    <2>1. pool' \in PoolType /\ NoEntryNoCount' /\ \A v \in Vhosts : pool.refs[v] \in Nat
      BY <1>1 DEF tenantVars, CoreInv, CoreTypes, NoEntryNoCount, PoolType
    <2> QED
      BY <1>1, <1>l, <2>1, PoolMoves DEF tenantVars, CoreInv, CoreTypes
  <1>2. ASSUME NEW g \in Generations, HandleCreated(g) PROVE CoreInv' /\ Made \subseteq Made'
    <2>1. handlers[g] \in Handler /\ handlers[g].op = "subscribe"
      BY <1>2 DEF HandleCreated
    <2>2. PICK o \in Orgs : o = handlers[g].org
      BY <2>1 DEF Handler, Idle
    <2>3. g # Root
      BY DEF Generations, Root
    <2>4. CASE Subscribe(o, g)
      BY <1>l, <2>4, SubscribeCore DEF Subscribe
    <2>5. CASE CannotSubscribe(o, g) /\ UNCHANGED handlers
      <3>1. OrgGivenUp' = o
        BY <2>2, <2>3, <2>5 DEF CannotSubscribe, ChannelFails, OrgGivenUp
      <3> QED
        BY <2>5, <3>1, CannotSubscribeCore
    <2>6. CASE GiveBack(o, g)
      <3>1. OrgGivenUp = o
        BY <2>2, <2>3, <2>6 DEF GiveBack, OrgGivenUp
      <3> QED
        BY <2>6, <3>1, GiveBackCore
    <2> QED
      BY <1>2, <2>2, <2>4, <2>5, <2>6 DEF HandleCreated
  <1>3. CASE RedoTenant
    <2>1. PICK o : o = OrgOf(redo)
      OBVIOUS
    <2>2. redo \in Made /\ o \in Orgs
      BY <1>3, <2>1, MadeIs DEF RedoTenant, CoreInv
    <2>3. CASE Subscribe(o, Root)
      BY <1>l, <2>2, <2>3, SubscribeCore DEF Subscribe
    <2>4. CASE CannotSubscribe(o, Root) /\ UNCHANGED redo
      <3>1. OrgGivenUp' = o
        BY <2>1, <2>2, <2>4 DEF CannotSubscribe, ChannelFails, OrgGivenUp, OrgOf
      <3> QED
        BY <2>2, <2>4, <3>1, CannotSubscribeCore
    <2>5. CASE GiveBack(o, Root)
      <3>1. OrgGivenUp = o
        BY <2>1, <2>5 DEF GiveBack, OrgGivenUp
      <3> QED
        BY <2>2, <2>5, <3>1, GiveBackCore
    <2> QED
      BY <1>3, <2>1, <2>3, <2>4, <2>5 DEF RedoTenant
  <1>4. ASSUME UNCHANGED <<consumers, tenantMu>>, pool' \in PoolType, NoEntryNoCount',
               tenantConsumers' = tenantConsumers
                 \/ \E o \in Orgs : tenantConsumers' = [tenantConsumers EXCEPT ![o] = None],
               \A v \in Vhosts : pool'.refs[v] = 0 \/ pool'.refs[v] = pool.refs[v]
        PROVE  CoreInv' /\ Made \subseteq Made'
    <2>1. /\ tenantConsumers' \in [Orgs -> Ids \cup {None}]
          /\ \A o \in Orgs : tenantConsumers'[o] \in {tenantConsumers[o], None}
      BY <1>4 DEF CoreInv, CoreTypes
    <2>2. \A v \in Vhosts : pool'.refs[v] = 0 \/ pool'.refs[v] <= pool.refs[v]
      BY <1>4 DEF CoreInv, CoreTypes, PoolType
    <2> QED
      BY <1>4, <1>l, <2>1, <2>2, PoolMoves
  <1>5. ASSUME UNCHANGED <<pool, consumers, tenantMu>>, NEW o \in Orgs,
               tenantConsumers' = [tenantConsumers EXCEPT ![o] = None]
        PROVE  CoreInv' /\ Made \subseteq Made'
    BY <1>4, <1>5 DEF CoreInv, CoreTypes, NoEntryNoCount
  <1>6. CASE Listening
    BY <1>1, <1>5, <1>6 DEF Listening, ReceiveCreated, ReceiveDeleted
  <1>7. ASSUME NEW k \in todo, DropTenant(k) PROVE CoreInv' /\ Made \subseteq Made'
    <2>1. OrgOf(k) \in Orgs
      BY MadeIs DEF CoreInv
    <2> QED
      BY <1>5, <1>7, <2>1 DEF DropTenant
  <1>8. ASSUME NEW k \in Made
        PROVE  consumers[k] \in Consumer /\ VhostOfConsumer(k) \in Vhosts
    BY MadeIs DEF CoreInv
  <1>9. ASSUME NEW k \in Made, NEW c \in Consumer, c.org = OrgOf(k),
               consumers' = [consumers EXCEPT ![k] = c],
               UNCHANGED <<tenantConsumers, tenantMu>>,
               c.released = consumers[k].released,
               c.loop = "releasing" <=> consumers[k].loop = "releasing",
               pool' \in PoolType, NoEntryNoCount',
               \A v \in Vhosts : pool'.refs[v] = 0 \/ pool'.refs[v] = pool.refs[v]
        PROVE  CoreInv' /\ Made \subseteq Made'
    <2>1. CoreTypes /\ Changes(k, c)
      BY <1>9 DEF CoreInv, Changes
    <2> QED
      BY <1>9, <1>l, <2>1, LoopMoves, ConsumerChanges
  <1>10. ASSUME NEW k \in Made, NEW c \in Consumer, c.org = OrgOf(k),
                consumers' = [consumers EXCEPT ![k] = c],
                UNCHANGED <<tenantConsumers, tenantMu>>,
                c.released = consumers[k].released,
                c.loop = "releasing" <=> consumers[k].loop = "releasing", pool' = pool
         PROVE  CoreInv' /\ Made \subseteq Made'
    <2>1. pool' \in PoolType /\ NoEntryNoCount'
      BY <1>10 DEF CoreInv, CoreTypes, NoEntryNoCount
    <2>2. \A v \in Vhosts : pool'.refs[v] = 0 \/ pool'.refs[v] = pool.refs[v]
      BY <1>10
    <2> QED
      BY <1>9, <1>10, <2>1, <2>2
  <1>11. ASSUME NEW k \in Made, NEW c \in Consumer, c.org = OrgOf(k),
                consumers' = [consumers EXCEPT ![k] = c],
                UNCHANGED <<tenantConsumers, tenantMu>>,
                pool' = Release(pool, VhostOfConsumer(k)),
                \/ /\ c.released = consumers[k].released
                   /\ consumers[k].loop = "releasing" /\ c.loop # "releasing"
                \/ /\ c.released
                   /\ c.loop = "releasing" <=> consumers[k].loop = "releasing"
         PROVE  CoreInv' /\ Made \subseteq Made'
    <2>1. CoreTypes /\ Changes(k, c)
      BY <1>11 DEF CoreInv, Changes
    <2> QED
      BY <1>11, <1>l, <2>1, ReleasingCore, ConsumerChanges
  <1>12. ASSUME NEW g \in Generations, FinishUnsubscribe(g)
         PROVE  CoreInv' /\ Made \subseteq Made'
    <2>1. PICK k : k = handlers[g].id
      OBVIOUS
    <2>2. PICK c : c = [Halted(consumers[k]) EXCEPT !.released = TRUE]
      OBVIOUS
    <2>3. /\ k \in Made /\ consumers' = [consumers EXCEPT ![k] = c]
          /\ pool' = Release(pool, VhostOfConsumer(k))
          /\ UNCHANGED <<tenantConsumers, tenantMu>>
      BY <1>12, <2>1, <2>2 DEF FinishUnsubscribe
    <2>4. c \in Consumer /\ c.org = OrgOf(k) /\ c.released /\ c.loop = consumers[k].loop
      BY <1>8, <2>2, <2>3, ConsumerFates DEF OrgOf
    <2> QED
      BY <1>11, <2>3, <2>4
  <1>13. CASE Handling
    BY <1>2, <1>12, <1>13 DEF Handling
  <1>14. ASSUME NEW k \in Made, consumers[k].loop # "releasing",
                NEW l \in {"resubscribe", "acquiring", "asking", "sending", "ended"},
                UNCHANGED <<tenantConsumers, tenantMu>>,
                consumers' = [consumers EXCEPT ![k].loop = l],
                pool' = pool \/ pool' = AcquireFailed(pool, VhostOfConsumer(k))
         PROVE  CoreInv' /\ Made \subseteq Made'
    <2>1. PICK c : c = [consumers[k] EXCEPT !.loop = l]
      OBVIOUS
    <2>2. /\ c \in Consumer /\ c.org = OrgOf(k) /\ c.released = consumers[k].released
          /\ c.loop = l
      BY <1>8, <1>14, <2>1 DEF Consumer, OrgOf
    <2>3. consumers' = [consumers EXCEPT ![k] = c]
      BY <1>14, <2>1
    <2>4. c.loop = "releasing" <=> consumers[k].loop = "releasing"
      BY <1>14, <2>2
    <2>5. CASE pool' = pool
      BY <1>10, <1>14, <2>2, <2>3, <2>4, <2>5
    <2>6. CASE pool' = AcquireFailed(pool, VhostOfConsumer(k))
      <3>1. PICK u \in Vhosts : u = VhostOfConsumer(k)
        BY <1>8
      <3>2. /\ pool' \in PoolType /\ NoEntryNoCount'
            /\ \A v \in Vhosts : pool'.refs[v] = 0 \/ pool'.refs[v] = pool.refs[v]
        BY <2>6, <3>1, AcquireFailedCounts
      <3> QED
        BY <1>9, <1>14, <2>2, <2>3, <2>4, <3>2
    <2> QED
      BY <1>14, <2>5, <2>6
  <1>15. ASSUME NEW k \in Made, Looping(k) PROVE CoreInv' /\ Made \subseteq Made'
    <2>1. CASE LoopStops(k)
      BY <1>14, <2>1 DEF LoopStops
    <2>2. CASE LoopSeesClosure(k)
      BY <1>14, <2>2 DEF LoopSeesClosure
    <2>3. CASE ResubscribeMainDown(k)
      BY <1>14, <2>3 DEF ResubscribeMainDown
    <2>4. CASE ResubscribeVhostDown(k)
      BY <1>14, <2>4 DEF ResubscribeVhostDown
    <2>5. CASE ResubscribeVhostUp(k)
      <3>1. PICK c : c = [consumers[k] EXCEPT !.loop = "releasing"]
        OBVIOUS
      <3>2. CoreTypes /\ Changes(k, c)
        BY <1>8, <2>5, <3>1 DEF CoreInv, Changes, ResubscribeVhostUp, Consumer, OrgOf
      <3> QED
        BY <1>l, <2>5, <3>2, VhostUpCore, ConsumerChanges DEF ResubscribeVhostUp
    <2>6. CASE ResubscribeReturns(k)
      <3>1. PICK c : c = [Halted(consumers[k]) EXCEPT !.loop = "ended"]
        OBVIOUS
      <3>2. /\ c \in Consumer /\ c.org = OrgOf(k) /\ c.released = consumers[k].released
            /\ c.loop = "ended"
        BY <1>8, <3>1, ConsumerFates DEF OrgOf
      <3>3. /\ consumers[k].loop = "releasing" /\ pool' = Release(pool, VhostOfConsumer(k))
            /\ consumers' = [consumers EXCEPT ![k] = c]
            /\ UNCHANGED <<tenantConsumers, tenantMu>>
        BY <2>6, <3>1 DEF ResubscribeReturns
      <3> QED
        BY <1>11, <3>2, <3>3
    <2>7. CASE ResubscribeMainUp(k)
      BY <1>14, <2>7 DEF ResubscribeMainUp
    <2>8. CASE AskForReconnect(k)
      <3>1. PICK l \in {"sending", "ended"} : consumers' = [consumers EXCEPT ![k].loop = l]
        BY <2>8 DEF AskForReconnect
      <3> QED
        BY <1>14, <2>8, <3>1 DEF AskForReconnect
    <2>9. CASE SendRequest(k)
      BY <1>14, <2>9 DEF SendRequest
    <2> QED
      BY <1>15, <2>1, <2>2, <2>3, <2>4, <2>5, <2>6, <2>7, <2>8, <2>9 DEF Looping
  <1>16. ASSUME UNCHANGED <<consumers, tenantConsumers, tenantMu>>,
                \/ pool' = InvalidateAll(pool) \/ pool' = CloseAll(pool)
                \/ \E K \in SUBSET pool.open : pool' = ConnectionsLost(pool, K)
         PROVE  CoreInv' /\ Made \subseteq Made'
    <2>1. pool \in PoolType
      BY DEF CoreInv, CoreTypes
    <2>2. CASE pool' = InvalidateAll(pool) \/ pool' = CloseAll(pool)
      <3>1. pool' \in PoolType /\ \A v \in Vhosts : pool'.refs[v] = 0
        BY <2>1, <2>2, ForgetAllEffect
      <3> QED
        BY <1>4, <1>16, <3>1 DEF NoEntryNoCount
    <2>3. ASSUME NEW K \in SUBSET pool.open, pool' = ConnectionsLost(pool, K)
          PROVE  CoreInv' /\ Made \subseteq Made'
      <3>1. pool' \in PoolType /\ pool'.refs = pool.refs /\ pool'.conn = pool.conn
        BY <2>1, <2>3, ConnectionsLostEffect
      <3>2. NoEntryNoCount'
        BY <3>1 DEF NoEntryNoCount, CoreInv
      <3> QED
        BY <1>4, <1>16, <3>1, <3>2
    <2> QED
      BY <1>16, <2>2, <2>3
  <1>17. CASE Monitoring
    BY <1>1, <1>16, <1>17 DEF Monitoring, HandleConnectionClosed, HandleChannelClosed
  <1>18. CASE Reconnecting
    BY <1>1, <1>3, <1>7, <1>18 DEF Reconnecting, ReconnectStarts, ReconnectFails,
       ReconnectDials, ReconnectAborts, SnapshotTenants, ReconnectDone
  <1>19. CASE Stopping
    BY <1>1, <1>16, <1>l, <1>19, StopAllCore DEF Stopping, AskToStop, StopAllConsumers,
       ClosePool, ListenerStops
  <1>20. ASSUME NEW k \in Made, TenantChannelLost(k) PROVE CoreInv' /\ Made \subseteq Made'
    <2>1. PICK c : c = [consumers[k] EXCEPT !.channel = FALSE]
      OBVIOUS
    <2>2. /\ c \in Consumer /\ c.org = OrgOf(k) /\ c.released = consumers[k].released
          /\ c.loop = consumers[k].loop
      BY <1>8, <2>1, ConsumerFates DEF OrgOf
    <2>3. /\ consumers' = [consumers EXCEPT ![k] = c]
          /\ UNCHANGED <<pool, tenantConsumers, tenantMu>>
      BY <1>20, <2>1 DEF TenantChannelLost
    <2> QED
      BY <1>10, <2>2, <2>3
  <1>21. CASE Failing
    <2>1. ASSUME NEW c \in pool.open, VhostConnectionLost(c)
          PROVE  CoreInv' /\ Made \subseteq Made'
      <3>1. {c} \in SUBSET pool.open
        OBVIOUS
      <3> QED
        BY <1>16, <2>1, <3>1 DEF VhostConnectionLost
    <2>2. CASE BrokerRestarts
      BY <1>16, <2>2 DEF BrokerRestarts
    <2>3. CASE MainChannelLost \/ MainConnectionLost
      BY <1>1, <2>3 DEF MainChannelLost, MainConnectionLost
    <2> QED
      BY <1>20, <1>21, <2>1, <2>2, <2>3 DEF Failing
  <1>22. CASE UNCHANGED vars
    BY <1>1, <1>22 DEF vars
  <1> QED
    BY <1>6, <1>13, <1>15, <1>17, <1>18, <1>19, <1>21, <1>22 DEF Next

\* Every step on the rest: who may take a step is told apart as RestInv says.
LEMMA RestStep ==
    ASSUME CoreInv, RestInv, [Next]_vars, Made \subseteq Made'
    PROVE  RestInv'
  <1>1. /\ Made \subseteq Ids
        /\ \A o \in Orgs : tenantConsumers[o] # None => tenantConsumers[o] \in Made
    BY MadeIs DEF CoreInv, NewestRegistered
  <1>2. ASSUME UNCHANGED <<listening, handlers, mainVars, signal, recVars, shutdown,
                           events, faults>>
        PROVE  RestInv'
    BY <1>2 DEF RestInv, mainVars, recVars
  <1>3. ASSUME NEW o \in Orgs, ReceiveCreated(o) PROVE RestInv'
    <2>1. events' \in 0..MaxEvents
      BY <1>3, TenantAssumption DEF ReceiveCreated, ReceiveEvent, RestInv
    <2>2. /\ handlers' \in [Generations -> Handler]
          /\ \A g \in Generations : handlers'[g].op = "unsubscribe" => handlers'[g].id \in Made
      <3>1. PICK h : h = [op |-> "subscribe", org |-> o]
        OBVIOUS
      <3>2. h \in Handler /\ h.op # "unsubscribe"
        BY <3>1 DEF Handler
      <3>3. handlers' = [handlers EXCEPT ![listener] = h] \/ handlers' = handlers
        BY <1>3, <3>1 DEF ReceiveCreated
      <3> QED
        BY <3>2, <3>3 DEF RestInv
    <2> QED
      BY <1>3, <2>1, <2>2 DEF ReceiveCreated, RestInv, mainVars, recVars
  <1>4. ASSUME NEW o \in Orgs, ReceiveDeleted(o) PROVE RestInv'
    <2>1. events' \in 0..MaxEvents
      BY <1>4, TenantAssumption DEF ReceiveDeleted, ReceiveEvent, RestInv
    <2>2. /\ handlers' \in [Generations -> Handler]
          /\ \A g \in Generations : handlers'[g].op = "unsubscribe" => handlers'[g].id \in Made
      <3>1. CASE tenantConsumers[o] = None
        BY <1>4, <3>1 DEF ReceiveDeleted, RestInv
      <3>2. CASE tenantConsumers[o] # None
        <4>1. PICK k \in Made : k = tenantConsumers[o]
          BY <1>1, <3>2
        <4>2. PICK h : h = [op |-> "unsubscribe", id |-> k]
          OBVIOUS
        <4>3. h \in Handler /\ h.id = k
          BY <1>1, <4>2 DEF Handler
        <4>4. handlers' = [handlers EXCEPT ![listener] = h]
          BY <1>4, <3>2, <4>1, <4>2 DEF ReceiveDeleted
        <4> QED
          BY <4>3, <4>4 DEF RestInv
      <3> QED
        BY <3>1, <3>2
    <2> QED
      BY <1>4, <2>1, <2>2 DEF ReceiveDeleted, RestInv, mainVars, recVars
  <1>5. ASSUME NEW g \in Generations, HandleCreated(g) \/ FinishUnsubscribe(g) PROVE RestInv'
    <2>1. Idle \in Handler /\ Idle.op # "unsubscribe"
      BY DEF Handler, Idle
    <2>2. /\ handlers' = handlers \/ handlers' = [handlers EXCEPT ![g] = Idle]
          /\ UNCHANGED <<listening, mainVars, signal, recVars, shutdown, events, faults>>
      BY <1>5 DEF HandleCreated, FinishUnsubscribe
    <2> QED
      BY <2>1, <2>2 DEF RestInv, mainVars, recVars
  <1>6. ASSUME NEW k \in Made, Looping(k) PROVE RestInv'
    <2>1. /\ UNCHANGED <<listening, handlers, mainVars, recVars, shutdown, events, faults>>
          /\ signal' = signal \/ signal' = TRUE
      BY <1>6 DEF Looping, LoopStops, LoopSeesClosure, ResubscribeMainDown,
         ResubscribeMainUp, ResubscribeVhostDown, ResubscribeVhostUp, ResubscribeReturns,
         AskForReconnect, SendRequest
    <2> QED
      BY <2>1 DEF RestInv, mainVars, recVars
  <1>7. CASE Monitoring
    BY <1>7 DEF Monitoring, HandleConnectionClosed, HandleChannelClosed, Noticed, RestInv,
       recVars
  <1>8. CASE Reconnecting
    <2>1. CASE ReconnectStarts \/ ReconnectFails \/ ReconnectDials \/ ReconnectAborts
      BY <2>1 DEF ReconnectStarts, ReconnectFails, ReconnectDials, ReconnectAborts, RestInv,
         mainVars
    <2>2. CASE SnapshotTenants
      <3>1. todo' \subseteq Made
        BY <1>1, <2>2 DEF SnapshotTenants
      <3> QED
        BY <2>2, <3>1 DEF SnapshotTenants, RestInv, mainVars
    <2>3. CASE RedoTenant
      <3>1. redo' \in {redo, None} /\ UNCHANGED <<listening, handlers, mainVars, signal,
                                 reconnecting, todo, listener, shutdown, events, faults>>
        BY <2>3 DEF RedoTenant
      <3> QED
        BY <3>1 DEF RestInv, mainVars
    <2>4. CASE ReconnectDone
      <3>1. listener' \in Generations
        BY <2>4, TenantAssumption DEF ReconnectDone, RestInv, Generations
      <3> QED
        BY <2>4, <3>1 DEF ReconnectDone, RestInv
    <2>5. ASSUME NEW k \in todo, DropTenant(k) PROVE RestInv'
      BY <2>5 DEF DropTenant, RestInv, mainVars
    <2> QED
      BY <1>8, <2>1, <2>2, <2>3, <2>4, <2>5 DEF Reconnecting
  <1>9. CASE Stopping
    <2>1. CASE AskToStop
      BY <2>1 DEF AskToStop, RestInv, Shutdown, mainVars, recVars
    <2>2. CASE StopAllConsumers
      <3>1. shutdown' \in Shutdown
        BY <2>2 DEF StopAllConsumers, RestInv, Shutdown
      <3> QED
        BY <2>2, <3>1 DEF StopAllConsumers, RestInv, mainVars, recVars
    <2>3. CASE ClosePool
      <3>1. shutdown' \in Shutdown
        BY <2>3 DEF ClosePool, RestInv, Shutdown
      <3> QED
        BY <2>3, <3>1 DEF ClosePool, RestInv, recVars
    <2>4. CASE ListenerStops
      BY <2>4 DEF ListenerStops, RestInv, mainVars, recVars
    <2> QED
      BY <1>9, <2>1, <2>2, <2>3, <2>4 DEF Stopping
  <1>10. CASE Failing
    <2>1. ASSUME NEW kind, Fault(kind)
          PROVE  faults' \in Seq(FaultKinds) /\ Len(faults') <= MaxFaults
      BY <2>1, TenantAssumption DEF Fault, RestInv
    <2>2. ASSUME NEW closed \in SUBSET {"connection", "channel"}, Notify(closed)
          PROVE  {notice', nextNotice'} \subseteq SUBSET {"connection", "channel"}
      BY <2>2 DEF Notify, RestInv
    <2>3. ASSUME NEW k \in Made, TenantChannelLost(k) PROVE RestInv'
      BY <2>1, <2>3 DEF TenantChannelLost, RestInv, mainVars, recVars
    <2>4. ASSUME NEW c \in pool.open, VhostConnectionLost(c) PROVE RestInv'
      BY <2>1, <2>4 DEF VhostConnectionLost, RestInv, mainVars, recVars
    <2>5. CASE MainChannelLost
      BY <2>1, <2>2, <2>5 DEF MainChannelLost, RestInv, recVars
    <2>6. CASE MainConnectionLost
      BY <2>1, <2>2, <2>6 DEF MainConnectionLost, RestInv, recVars
    <2>7. CASE BrokerRestarts
      BY <2>1, <2>2, <2>7 DEF BrokerRestarts, RestInv, recVars
    <2> QED
      BY <1>10, <2>3, <2>4, <2>5, <2>6, <2>7 DEF Failing
  <1>11. CASE UNCHANGED vars
    BY <1>2, <1>11 DEF vars
  <1> QED
    BY <1>3, <1>4, <1>5, <1>6, <1>7, <1>8, <1>9, <1>10, <1>11 DEF Next, Listening, Handling

LEMMA InitInv ==
    ASSUME Init
    PROVE  CoreInv /\ RestInv /\ LockInv
  <1>1. pool \in PoolType /\ \A v \in Vhosts : pool.refs[v] = 0
    BY PoolAssumption DEF Init, EmptyPool, PoolType
  <1>2. Made = {} /\ consumers \in Seq(Consumer) /\ Len(consumers) = 0
    BY DEF Init, Made
  <1>3. \A v : Held(v) \in Nat
    <2>1. \A v : Debtors(v) = {} /\ Borrowers(v) = {} /\ GivingBack(v) = 0
      BY <1>2 DEF Debtors, Borrowers, GivingBack, Init
    <2> QED
      <3>1. Cardinality({}) = 0 /\ 0 + 0 + 0 = 0 /\ 0 \in Nat
        BY FS_EmptySet
      <3>2. \A v : Held(v) = 0 + 0 + 0
        BY <2>1, <3>1 DEF Held
      <3> QED
        BY <3>1, <3>2
  <1>4. CoreInv
    <2>1. CoreTypes
      BY <1>1, <1>2, TenantAssumption DEF Init, CoreTypes
    <2>2. NewestRegistered /\ NoEntryNoCount
      BY <1>1 DEF Init, NewestRegistered, NoEntryNoCount
    <2>3. CountsCovered
      <3>1. \A n \in Nat : 0 <= n
        OBVIOUS
      <3>2. \A v \in Vhosts : pool.refs[v] <= Held(v)
        BY <1>1, <1>3, <3>1
      <3> QED
        BY <3>2 DEF CountsCovered, Held
    <2> QED
      BY <2>1, <2>2, <2>3 DEF CoreInv
  <1>5. RestInv
    <2>1. 1 \in Generations /\ 0 \in 0..MaxEvents /\ 0 <= MaxFaults
      BY TenantAssumption DEF Generations
    <2>2. Idle \in Handler /\ Idle.op # "unsubscribe"
      BY DEF Handler, Idle
    <2>3. shutdown \in Shutdown
      BY DEF Init, Shutdown
    <2>4. handlers \in [Generations -> Handler] /\ \A g \in Generations : handlers[g] = Idle
      BY <2>2 DEF Init
    <2>5. /\ {notice, nextNotice} \subseteq SUBSET {"connection", "channel"}
          /\ todo \subseteq Made /\ redo \in Made \cup {None}
          /\ faults \in Seq(FaultKinds) /\ Len(faults) = 0
      BY DEF Init
    <2> QED
      BY <2>1, <2>2, <2>3, <2>4, <2>5 DEF Init, RestInv
  <1>6. LockInv
    BY DEF Init, LockInv, Free, Root, Generations
  <1> QED
    BY <1>4, <1>5, <1>6

-----------------------------------------------------------------------------
\* CountsExact.  While only channels of tenants have been lost, nothing touches the
\* pool but the consumers themselves (Quiet), and each counts for one reference
\* while it is registered or being unsubscribed, and for one more while it
\* resubscribes, as a subscription that has failed does until it has given back what
\* it took (Counted).
Undisturbed ==
    /\ \A i \in DOMAIN faults : faults[i] = "tenantChannel"
    /\ listener = 1 /\ reconnecting # "reestablishing" /\ ~shutdown.asked

Quiet ==
    /\ notice = {} /\ todo = {} /\ redo = None /\ shutdown.halted = 0
    /\ \A g \in Generations \ {1} : handlers[g] = Idle

Users(v) == {k \in Made : VhostOfConsumer(k) = v /\ (Registered(k) \/ InHand(k))}
InUse(v) == Cardinality(Users(v)) + Cardinality(Borrowers(v)) + GivingBack(v)

Counted ==
    /\ Sane(pool)
    /\ \A k \in Made : InHand(k) => ~Registered(k)
    /\ \A v \in Vhosts : pool.refs[v] = InUse(v)

ExactInv == Undisturbed => Quiet /\ Counted

LEMMA OnlyChannels ==
    ASSUME NEW s \in Seq(FaultKinds), NEW kind \in FaultKinds,
           \A i \in DOMAIN Append(s, kind) : Append(s, kind)[i] = "tenantChannel"
    PROVE  kind = "tenantChannel" /\ \A i \in DOMAIN s : s[i] = "tenantChannel"
  <1>1. /\ Len(s) \in Nat /\ DOMAIN s = 1 .. Len(s) /\ DOMAIN Append(s, kind) = 1 .. Len(s) + 1
        /\ \A i \in 1 .. Len(s) : Append(s, kind)[i] = s[i]
        /\ Append(s, kind)[Len(s) + 1] = kind
    OBVIOUS
  <1> QED
    BY <1>1

\* The faults so far, when those with the next one are known.
LEMMA FaultsBefore ==
    ASSUME RestInv, NEW kind, Fault(kind),
           \A i \in DOMAIN faults' : faults'[i] = "tenantChannel"
    PROVE  kind = "tenantChannel" /\ \A i \in DOMAIN faults : faults[i] = "tenantChannel"
  <1>1. faults' = Append(faults, kind) /\ faults \in Seq(FaultKinds) /\ kind \in FaultKinds
    BY TenantAssumption DEF Fault, RestInv
  <1> QED
    BY <1>1, OnlyChannels

LEMMA StaysUndisturbed ==
    ASSUME RestInv, [Next]_vars, Undisturbed'
    PROVE  Undisturbed
  <1>1. ASSUME UNCHANGED <<faults, listener, reconnecting, shutdown>> PROVE Undisturbed
    BY <1>1 DEF Undisturbed
  <1>2. CASE Failing
    <2>1. UNCHANGED <<listener, reconnecting, shutdown>>
      BY <1>2 DEF Failing, TenantChannelLost, VhostConnectionLost, MainChannelLost,
         MainConnectionLost, BrokerRestarts, recVars
    <2>2. \E kind : Fault(kind)
      BY <1>2 DEF Failing, TenantChannelLost, VhostConnectionLost, MainChannelLost,
         MainConnectionLost, BrokerRestarts
    <2> QED
      BY <2>1, <2>2, FaultsBefore DEF Undisturbed
  <1>3. CASE Reconnecting
    <2>1. CASE ReconnectDone
      BY <2>1 DEF ReconnectDone, RestInv, Undisturbed, Generations
    <2>2. CASE SnapshotTenants
      BY <2>2 DEF SnapshotTenants, Undisturbed
    <2>3. CASE ReconnectStarts \/ ReconnectFails \/ ReconnectDials \/ ReconnectAborts
      BY <2>3 DEF ReconnectStarts, ReconnectFails, ReconnectDials, ReconnectAborts, Undisturbed
    <2>4. CASE RedoTenant \/ \E k \in todo : DropTenant(k)
      BY <1>1, <2>4 DEF RedoTenant, DropTenant
    <2> QED
      BY <1>3, <2>1, <2>2, <2>3, <2>4 DEF Reconnecting
  <1>4. CASE Stopping
    <2>1. UNCHANGED <<faults, listener, reconnecting>>
      BY <1>4 DEF Stopping, AskToStop, StopAllConsumers, ClosePool, ListenerStops, recVars
    <2>2. shutdown.asked => shutdown'.asked
      BY <1>4 DEF Stopping, AskToStop, StopAllConsumers, ClosePool, ListenerStops, RestInv,
         Shutdown
    <2> QED
      BY <2>1, <2>2 DEF Undisturbed
  <1>5. CASE Listening \/ Handling
    BY <1>1, <1>5 DEF Listening, Handling, ReceiveCreated, ReceiveDeleted, HandleCreated,
       FinishUnsubscribe, recVars
  <1>6. CASE Monitoring
    BY <1>1, <1>6 DEF Monitoring, HandleConnectionClosed, HandleChannelClosed, recVars
  <1>7. ASSUME NEW k \in Made, Looping(k) PROVE Undisturbed
    BY <1>1, <1>7 DEF Looping, LoopStops, LoopSeesClosure, ResubscribeMainDown,
       ResubscribeMainUp, ResubscribeVhostDown, ResubscribeVhostUp, ResubscribeReturns,
       AskForReconnect, SendRequest, recVars
  <1>8. CASE UNCHANGED vars
    BY <1>1, <1>8 DEF vars, recVars
  <1> QED
    BY <1>2, <1>3, <1>4, <1>5, <1>6, <1>7, <1>8 DEF Next

LEMMA StaysQuiet ==
    ASSUME RestInv, [Next]_vars, Undisturbed, Undisturbed', Quiet
    PROVE  Quiet'
  <1>1. ASSUME UNCHANGED <<notice, todo, redo, shutdown, handlers>> PROVE Quiet'
    BY <1>1 DEF Quiet
  <1>2. CASE Failing
    <2>1. CASE \E k \in Made : TenantChannelLost(k)
      BY <1>1, <2>1 DEF TenantChannelLost, mainVars, recVars
    <2>2. CASE \E c \in pool.open : VhostConnectionLost(c)
      BY <1>1, <2>2 DEF VhostConnectionLost, mainVars, recVars
    <2>3. CASE MainChannelLost \/ MainConnectionLost \/ BrokerRestarts
      <3>1. PICK kind \in {"mainChannel", "main", "broker"} : Fault(kind)
        BY <2>3 DEF MainChannelLost, MainConnectionLost, BrokerRestarts
      <3> QED
        BY <3>1, FaultsBefore DEF Undisturbed
    <2> QED
      BY <1>2, <2>1, <2>2, <2>3 DEF Failing
  <1>3. CASE Reconnecting
    <2>1. CASE ReconnectDone
      BY <2>1 DEF ReconnectDone, RestInv, Undisturbed, Generations
    <2>2. CASE SnapshotTenants
      BY <2>2 DEF SnapshotTenants, Undisturbed
    <2>3. CASE ReconnectStarts \/ ReconnectFails \/ ReconnectDials \/ ReconnectAborts
      BY <1>1, <2>3 DEF ReconnectStarts, ReconnectFails, ReconnectDials, ReconnectAborts,
         mainVars
    <2>4. CASE RedoTenant \/ \E k \in todo : DropTenant(k)
      BY <2>4 DEF RedoTenant, Quiet
    <2> QED
      BY <1>3, <2>1, <2>2, <2>3, <2>4 DEF Reconnecting
  <1>4. CASE Stopping
    <2>1. CASE AskToStop \/ StopAllConsumers \/ ListenerStops
      BY <2>1 DEF AskToStop, StopAllConsumers, ListenerStops, Undisturbed, RestInv, Shutdown
    <2>2. CASE ClosePool
      BY <2>2 DEF ClosePool, Quiet, RestInv, Shutdown
    <2> QED
      BY <1>4, <2>1, <2>2 DEF Stopping
  <1>5. CASE Listening
    <2>1. UNCHANGED <<notice, todo, redo, shutdown>>
      BY <1>5 DEF Listening, ReceiveCreated, ReceiveDeleted, mainVars, recVars
    <2>2. \A g \in Generations \ {1} : handlers'[g] = handlers[g]
      BY <1>5 DEF Listening, ReceiveCreated, ReceiveDeleted, RestInv, Undisturbed
    <2> QED
      BY <2>1, <2>2 DEF Quiet
  <1>6. CASE Handling
    <2>1. UNCHANGED <<notice, todo, redo, shutdown>>
      BY <1>6 DEF Handling, HandleCreated, FinishUnsubscribe, mainVars, recVars
    <2>2. \A g \in Generations : handlers'[g] = handlers[g] \/ handlers'[g] = Idle
      BY <1>6 DEF Handling, HandleCreated, FinishUnsubscribe, RestInv
    <2> QED
      BY <2>1, <2>2 DEF Quiet
  <1>7. CASE Monitoring
    BY <1>7 DEF Monitoring, HandleConnectionClosed, HandleChannelClosed, Noticed, Quiet
  <1>8. ASSUME NEW k \in Made, Looping(k) PROVE Quiet'
    BY <1>1, <1>8 DEF Looping, LoopStops, LoopSeesClosure, ResubscribeMainDown,
       ResubscribeMainUp, ResubscribeVhostDown, ResubscribeVhostUp, ResubscribeReturns,
       AskForReconnect, SendRequest, recVars, mainVars
  <1>9. CASE UNCHANGED vars
    BY <1>1, <1>9 DEF vars, recVars, mainVars
  <1> QED
    BY <1>2, <1>3, <1>4, <1>5, <1>6, <1>7, <1>8, <1>9 DEF Next

\* Who is being unsubscribed, when only the first listener may be at it.
LEMMA InHandIs ==
    ASSUME NEW h \in [Generations -> Handler], \A g \in Generations \ {1} : h[g] = Idle, NEW k
    PROVE  (\E g \in Generations : h[g] = [op |-> "unsubscribe", id |-> k])
              <=> (h[1].op = "unsubscribe" /\ h[1].id = k)
  <1>1. 1 \in Generations
    BY TenantAssumption DEF Generations
  <1>2. Idle # [op |-> "unsubscribe", id |-> k]
    BY DEF Idle
  <1>3. h[1] \in Handler
    BY <1>1
  <1>4. h[1] = [op |-> "unsubscribe", id |-> k] <=> (h[1].op = "unsubscribe" /\ h[1].id = k)
    <2>1. CASE h[1].op = "unsubscribe"
      <3>1. PICK i \in Ids : h[1] = [op |-> "unsubscribe", id |-> i]
        BY <1>3, <2>1 DEF Handler, Idle
      <3> QED
        BY <3>1
    <2>2. CASE h[1].op # "unsubscribe"
      BY <2>2
    <2> QED
      BY <2>1, <2>2
  <1> QED
    BY <1>1, <1>2, <1>4

LEMMA FewUse ==
    ASSUME CoreTypes, NEW v
    PROVE  IsFiniteSet(Users(v)) /\ Cardinality(Users(v)) \in Nat /\ InUse(v) \in Nat
  <1>1. IsFiniteSet(Made)
    BY MadeIs, FS_Interval
  <1>2. /\ IsFiniteSet(Users(v)) /\ Cardinality(Borrowers(v)) \in Nat
        /\ GivingBack(v) \in Nat
    BY <1>1, FS_Subset, FewHold DEF Users
  <1> QED
    BY <1>2, FS_CardinalityType DEF InUse

\* Nobody begins or ceases to use a vhost, and none is counted anew.
LEMMA CountsRest ==
    ASSUME Counted, Made' = Made, Sane(pool)', pool'.refs = pool.refs,
           \A k \in Made : InHand(k)' => ~Registered(k)',
           LockStays, \A k \in Made : OrgOf(k)' = OrgOf(k),
           \A v \in Vhosts : Users(v)' = Users(v) /\ Borrowers(v)' = Borrowers(v)
    PROVE  Counted'
  <1>1. \A v \in Vhosts : InUse(v)' = InUse(v)
    BY SameGiver DEF InUse
  <1> QED
    BY <1>1 DEF Counted

LEMMA NobodyNew ==
    ASSUME Counted, LockStays, UNCHANGED tenantVars, \A k \in Made : InHand(k)' <=> InHand(k)
    PROVE  Counted'
  <1>1. /\ Made' = Made
        /\ \A k \in Made : /\ Registered(k)' = Registered(k) /\ OrgOf(k)' = OrgOf(k)
                           /\ VhostOfConsumer(k)' = VhostOfConsumer(k)
    BY DEF tenantVars, Made, Registered, OrgOf, VhostOfConsumer
  <1>2. \A v \in Vhosts : Users(v)' = Users(v) /\ Borrowers(v)' = Borrowers(v)
    BY <1>1 DEF Users, Borrowers, tenantVars
  <1>3. Sane(pool)' /\ pool'.refs = pool.refs
    BY DEF Counted, tenantVars, Sane
  <1> QED
    BY <1>1, <1>2, <1>3, CountsRest DEF Counted

\* A consumer changes: what it is registered and in hand for stays.
LEMMA UsersStay ==
    ASSUME CoreTypes, NEW k, NEW c, Changes(k, c), UNCHANGED <<tenantConsumers, handlers>>
    PROVE  /\ Made' = Made
           /\ \A v : Users(v)' = Users(v)
           /\ \A j \in Made : Registered(j)' = Registered(j) /\ InHand(j)' = InHand(j)
  <1>1. Made' = Made /\ \A j \in Made : OrgOf(j)' = OrgOf(j)
                                        /\ VhostOfConsumer(j)' = VhostOfConsumer(j)
    BY ConsumerChanges
  <1>2. \A j \in Made : Registered(j)' = Registered(j) /\ InHand(j)' = InHand(j)
    BY <1>1 DEF Registered, InHand
  <1> QED
    BY <1>1, <1>2 DEF Users

\* ... and it goes on resubscribing, or not, as before.
LEMMA SameUse ==
    ASSUME CoreTypes, LockStays, Counted, NEW k, NEW c, Changes(k, c), pool' = pool,
           UNCHANGED <<tenantConsumers, handlers>>,
           c.loop = "releasing" <=> consumers[k].loop = "releasing"
    PROVE  Counted'
  <1>1. \A v : Borrowers(v)' = Borrowers(v)
    <2> SUFFICES ASSUME NEW v PROVE Borrowers(v)' = Borrowers(v)
      OBVIOUS
    <2>1. k \in Made /\ (k \in Borrowers(v) =>
                             VhostOfConsumer(k) = v /\ consumers[k].loop = "releasing")
          /\ (VhostOfConsumer(k) = v /\ consumers[k].loop = "releasing" => k \in Borrowers(v))
      BY DEF Borrowers, Changes
    <2> QED
      BY <2>1, HoldersChange
  <1>2. Sane(pool)' /\ pool'.refs = pool.refs
    BY DEF Counted, Sane
  <1> QED
    BY <1>1, <1>2, UsersStay, ConsumerChanges, CountsRest DEF Counted

LEMMA BorrowExact ==
    ASSUME CoreInv, LockStays, Counted, NEW k \in Made, ResubscribeVhostUp(k)
    PROVE  Counted'
  <1>1. CoreTypes /\ pool \in PoolType /\ Sane(pool)
    BY DEF CoreInv, CoreTypes, Counted
  <1>2. PICK u \in Vhosts : VhostOfConsumer(k) = u
    BY <1>1, MadeIs
  <1>3. PICK c : c = [consumers[k] EXCEPT !.loop = "releasing"]
    OBVIOUS
  <1>4. /\ consumers[k].loop = "acquiring" /\ UNCHANGED <<tenantConsumers, handlers>>
        /\ CanAcquire(pool, u) /\ pool' = Acquire(pool, u)
        /\ consumers' = [consumers EXCEPT ![k] = c]
    BY <1>2, <1>3 DEF ResubscribeVhostUp
  <1>5. Changes(k, c) /\ c.loop = "releasing"
    <2>1. consumers[k] \in Consumer
      BY <1>1, MadeIs
    <2> QED
      BY <1>3, <1>4, <2>1 DEF Changes, OrgOf, Consumer
  <1>6. /\ Sane(pool') /\ pool'.refs[u] = pool.refs[u] + 1
        /\ \A w \in Vhosts \ {u} : pool'.refs[w] = pool.refs[w]
    BY <1>1, <1>4, AcquireExact
  <1>7. /\ Borrowers(u)' = Borrowers(u) \cup {k} /\ k \notin Borrowers(u)
        /\ \A w \in Vhosts \ {u} : Borrowers(w)' = Borrowers(w)
    <2>1. k \notin Borrowers(u)
      BY <1>4 DEF Borrowers
    <2> QED
      BY <1>1, <1>2, <1>5, <2>1, HoldersChange
  <1>8. InUse(u)' = InUse(u) + 1 /\ \A w \in Vhosts \ {u} : InUse(w)' = InUse(w)
    <2>1. Cardinality(Borrowers(u)') = Cardinality(Borrowers(u)) + 1
      <3>1. IsFiniteSet(Borrowers(u))
        BY <1>1, FewHold
      <3> QED
        BY <1>7, <3>1, FS_AddElement
    <2>2. \A v : Users(v)' = Users(v)
      BY <1>1, <1>4, <1>5, UsersStay
    <2>3. /\ Cardinality(Users(u)) \in Nat /\ Cardinality(Borrowers(u)) \in Nat
          /\ GivingBack(u) \in Nat
      BY <1>1, FewUse, FewHold
    <2>4. \A v : GivingBack(v)' = GivingBack(v)
      BY <1>1, <1>5, ConsumerChanges, SameGiver
    <2> QED
      BY <1>7, <2>1, <2>2, <2>3, <2>4 DEF InUse
  <1>9. \A w \in Vhosts : pool'.refs[w] = InUse(w)'
    BY <1>6, <1>8 DEF Counted
  <1> QED
    BY <1>1, <1>4, <1>5, <1>6, <1>9, UsersStay DEF Counted, Sane

LEMMA ReturnExact ==
    ASSUME CoreInv, LockStays, Counted, NEW k \in Made, ResubscribeReturns(k)
    PROVE  Counted'
  <1>1. CoreTypes /\ pool \in PoolType /\ Sane(pool)
    BY DEF CoreInv, CoreTypes, Counted
  <1>2. PICK u \in Vhosts : VhostOfConsumer(k) = u
    BY <1>1, MadeIs
  <1>3. PICK c : c = [Halted(consumers[k]) EXCEPT !.loop = "ended"]
    OBVIOUS
  <1>4. /\ consumers[k].loop = "releasing" /\ UNCHANGED <<tenantConsumers, handlers>>
        /\ pool' = Release(pool, u) /\ consumers' = [consumers EXCEPT ![k] = c]
    BY <1>2, <1>3 DEF ResubscribeReturns
  <1>5. Changes(k, c) /\ c.loop = "ended"
    <2>1. consumers[k] \in Consumer
      BY <1>1, MadeIs
    <2> QED
      BY <1>3, <1>4, <2>1, ConsumerFates DEF Changes, OrgOf
  <1>6. /\ Borrowers(u)' = Borrowers(u) \ {k} /\ k \in Borrowers(u)
        /\ \A w \in Vhosts \ {u} : Borrowers(w)' = Borrowers(w)
    <2>1. k \in Borrowers(u)
      BY <1>2, <1>4 DEF Borrowers
    <2> QED
      BY <1>1, <1>2, <1>5, <2>1, HoldersChange
  <1>7. /\ Cardinality(Borrowers(u)') = Cardinality(Borrowers(u)) - 1
        /\ Cardinality(Borrowers(u)) \in Nat /\ Cardinality(Borrowers(u)) > 0
    <2>1. /\ IsFiniteSet(Borrowers(u)) /\ IsFiniteSet(Borrowers(u) \ {k})
          /\ Cardinality(Borrowers(u)) \in Nat /\ Cardinality(Borrowers(u) \ {k}) \in Nat
      BY <1>1, FewHold, FS_Subset, FS_CardinalityType
    <2>2. Cardinality(Borrowers(u) \ {k}) = Cardinality(Borrowers(u)) - 1
      BY <1>6, <2>1, FS_RemoveElement
    <2> QED
      BY <1>6, <2>1, <2>2
  <1>8. /\ InUse(u)' = InUse(u) - 1 /\ InUse(u) > 0
        /\ \A w \in Vhosts \ {u} : InUse(w)' = InUse(w)
    <2>1. \A v : Users(v)' = Users(v)
      BY <1>1, <1>4, <1>5, UsersStay
    <2>2. Cardinality(Users(u)) \in Nat /\ GivingBack(u) \in Nat
      BY <1>1, FewUse, FewHold
    <2>3. \A v : GivingBack(v)' = GivingBack(v)
      BY <1>1, <1>5, ConsumerChanges, SameGiver
    <2> QED
      BY <1>6, <1>7, <2>1, <2>2, <2>3 DEF InUse
  <1>9. /\ Sane(pool') /\ pool'.refs[u] = pool.refs[u] - 1
        /\ \A w \in Vhosts \ {u} : pool'.refs[w] = pool.refs[w]
    BY <1>1, <1>4, <1>8, ReleaseExact DEF Counted
  <1>10. \A w \in Vhosts : pool'.refs[w] = InUse(w)'
    BY <1>8, <1>9 DEF Counted
  <1> QED
    BY <1>1, <1>4, <1>5, <1>9, <1>10, UsersStay DEF Counted, Sane

\* The consumer in hand is let go, and with it its reference.
LEMMA UnsubscribeExact ==
    ASSUME CoreInv, RestInv, LockStays, Quiet, Quiet', Counted, NEW g \in Generations,
           FinishUnsubscribe(g), RestInv'
    PROVE  Counted'
  <1>1. /\ CoreTypes /\ pool \in PoolType /\ Sane(pool) /\ 1 \in Generations
        /\ handlers \in [Generations -> Handler] /\ handlers' \in [Generations -> Handler]
    BY TenantAssumption DEF CoreInv, CoreTypes, Counted, RestInv, Generations
  <1>2. g = 1 /\ handlers[1].op = "unsubscribe" /\ handlers'[1] = Idle
    BY <1>1 DEF FinishUnsubscribe, Quiet, Idle
  <1>3. PICK k \in Made : k = handlers[1].id
    BY <1>1, <1>2 DEF RestInv
  <1>4. PICK u \in Vhosts : VhostOfConsumer(k) = u
    BY <1>1, MadeIs
  <1>5. PICK c : c = [Halted(consumers[k]) EXCEPT !.released = TRUE]
    OBVIOUS
  <1>6. /\ consumers' = [consumers EXCEPT ![k] = c] /\ pool' = Release(pool, u)
        /\ tenantConsumers' = tenantConsumers
    BY <1>2, <1>3, <1>4, <1>5 DEF FinishUnsubscribe
  <1>7. Changes(k, c) /\ c.loop = consumers[k].loop
    <2>1. consumers[k] \in Consumer
      BY <1>1, MadeIs
    <2> QED
      BY <1>5, <1>6, <2>1, ConsumerFates DEF Changes, OrgOf
  <1>8. /\ \A j : InHand(j) <=> j = k
        /\ \A j : ~InHand(j)'
    <2>1. \A j : InHand(j) <=> (handlers[1].op = "unsubscribe" /\ handlers[1].id = j)
      BY <1>1, InHandIs DEF InHand, Quiet
    <2>2. \A j : InHand(j)' <=> (handlers'[1].op = "unsubscribe" /\ handlers'[1].id = j)
      BY <1>1, InHandIs DEF InHand, Quiet
    <2> QED
      BY <1>2, <1>3, <2>1, <2>2 DEF Idle
  <1>9. /\ Made' = Made
        /\ \A j \in Made : /\ Registered(j)' = Registered(j)
                           /\ VhostOfConsumer(j)' = VhostOfConsumer(j)
    BY <1>1, <1>6, <1>7, ConsumerChanges DEF Registered
  <1>10. /\ k \in Users(u) /\ Users(u)' = Users(u) \ {k}
         /\ \A w \in Vhosts \ {u} : Users(w)' = Users(w)
    BY <1>4, <1>8, <1>9 DEF Users, Counted
  <1>11. \A v \in Vhosts : Borrowers(v)' = Borrowers(v)
    BY <1>7, <1>9, ConsumerChanges, <1>1 DEF Borrowers
  <1>12. /\ Cardinality(Users(u)') = Cardinality(Users(u)) - 1
         /\ Cardinality(Users(u)) \in Nat /\ Cardinality(Users(u)) > 0
    <2>1. /\ IsFiniteSet(Users(u)) /\ IsFiniteSet(Users(u) \ {k})
          /\ Cardinality(Users(u)) \in Nat /\ Cardinality(Users(u) \ {k}) \in Nat
      BY <1>1, FewUse, FS_Subset, FS_CardinalityType
    <2>2. Cardinality(Users(u) \ {k}) = Cardinality(Users(u)) - 1
      BY <1>10, <2>1, FS_RemoveElement
    <2> QED
      BY <1>10, <2>1, <2>2
  <1>13. /\ InUse(u)' = InUse(u) - 1 /\ InUse(u) > 0
         /\ \A w \in Vhosts \ {u} : InUse(w)' = InUse(w)
    <2>1. Cardinality(Borrowers(u)) \in Nat /\ GivingBack(u) \in Nat
      BY <1>1, FewHold
    <2>2. \A v : GivingBack(v)' = GivingBack(v)
      BY <1>1, <1>7, ConsumerChanges, SameGiver
    <2> QED
      BY <1>10, <1>11, <1>12, <2>1, <2>2 DEF InUse
  <1>14. /\ Sane(pool') /\ pool'.refs[u] = pool.refs[u] - 1
         /\ \A w \in Vhosts \ {u} : pool'.refs[w] = pool.refs[w]
    BY <1>1, <1>6, <1>13, ReleaseExact DEF Counted
  <1>15. \A w \in Vhosts : pool'.refs[w] = InUse(w)'
    BY <1>13, <1>14 DEF Counted
  <1> QED
    BY <1>8, <1>14, <1>15 DEF Counted, Sane

\* A new consumer is counted, beside those there are.
LEMMA CreatedExact ==
    ASSUME CoreInv, LockStays, Counted, NEW o \in Orgs, tenantConsumers[o] = None, Created(o, 1),
           1 \in Generations, \A j : ~InHand(j) /\ ~InHand(j)'
    PROVE  Counted'
  <1>1. /\ CoreTypes /\ Made = 1 .. Len(consumers) /\ Len(consumers) \in Nat
        /\ pool \in PoolType /\ Sane(pool)
    BY MadeIs DEF CoreInv, CoreTypes, Counted
  <1>n. PICK n \in Nat : n = Len(consumers) + 1
    BY <1>1
  <1>2. PICK u \in Vhosts : VhostOf[o] = u
    BY TenantAssumption
  <1>3. /\ CanAcquire(pool, u) /\ pool' = Acquire(pool, u)
        /\ tenantConsumers' = [tenantConsumers EXCEPT ![o] = Len(consumers')]
    BY <1>2 DEF Created
  <1>4. PICK c \in Consumer : /\ c.org = o /\ c.loop = "running"
                              /\ consumers' = Append(consumers, c)
    <2>1. pool'.conn[u] \in ConnIds
      BY <1>1, <1>3, AcquireEffect
    <2> QED
      BY <1>2, <2>1 DEF Created, Consumer
  <1>5. /\ Len(consumers') = n /\ Made' = Made \cup {n} /\ n \notin Made
        /\ consumers'[n] = c /\ \A j \in Made : consumers'[j] = consumers[j]
    BY <1>n, <1>1, <1>4 DEF CoreTypes, Made
  <1>6. /\ \A j \in Made : OrgOf(j)' = OrgOf(j) /\ VhostOfConsumer(j)' = VhostOfConsumer(j)
        /\ OrgOf(n)' = o /\ VhostOfConsumer(n)' = u
    BY <1>2, <1>4, <1>5 DEF OrgOf, VhostOfConsumer
  <1>7. /\ \A j \in Made : Registered(j)' = Registered(j)
        /\ Registered(n)'
    <2>1. \A q \in Orgs : tenantConsumers'[q] = IF q = o THEN n ELSE tenantConsumers[q]
      BY <1>3, <1>5 DEF CoreInv, CoreTypes
    <2>2. ASSUME NEW j \in Made PROVE Registered(j)' = Registered(j)
      <3>1. OrgOf(j) \in Orgs /\ j # n /\ j # None
        BY <1>1, <1>5, MadeIs DEF None
      <3> QED
        BY <1>6, <2>1, <3>1 DEF Registered
    <2> QED
      BY <1>6, <2>1, <2>2 DEF Registered
  <1>8. /\ Users(u)' = Users(u) \cup {n} /\ n \notin Users(u)
        /\ \A w \in Vhosts \ {u} : Users(w)' = Users(w)
    BY <1>5, <1>6, <1>7 DEF Users
  <1>9. \A v \in Vhosts : Borrowers(v)' = Borrowers(v)
    BY <1>4, <1>5, <1>6 DEF Borrowers
  <1>10. InUse(u)' = InUse(u) + 1 /\ \A w \in Vhosts \ {u} : InUse(w)' = InUse(w)
    <2>1. Cardinality(Users(u)') = Cardinality(Users(u)) + 1
      BY <1>1, <1>8, FewUse, FS_AddElement
    <2>2. /\ Cardinality(Users(u)) \in Nat /\ Cardinality(Borrowers(u)) \in Nat
          /\ GivingBack(u) \in Nat
      BY <1>1, FewUse, FewHold
    <2>3. \A v : GivingBack(v)' = GivingBack(v)
      BY <1>6, SameGiver
    <2> QED
      BY <1>8, <1>9, <2>1, <2>2, <2>3 DEF InUse
  <1>11. /\ Sane(pool') /\ pool'.refs[u] = pool.refs[u] + 1
         /\ \A w \in Vhosts \ {u} : pool'.refs[w] = pool.refs[w]
    BY <1>1, <1>3, AcquireExact
  <1>12. \A w \in Vhosts : pool'.refs[w] = InUse(w)'
    BY <1>10, <1>11 DEF Counted
  <1> QED
    BY <1>11, <1>12 DEF Counted, Sane

\* A subscription that fails has one more to give back than before, then one less.
LEMMA GivingExact ==
    ASSUME CoreTypes, Counted, UNCHANGED <<tenantConsumers, consumers>>, Sane(pool'),
           \A j : ~InHand(j) /\ ~InHand(j)',
           \A v \in Vhosts : pool'.refs[v] - pool.refs[v] = GivingBack(v)' - GivingBack(v),
           pool' \in PoolType
    PROVE  Counted'
  <1>1. Made' = Made /\ \A k \in Made : Registered(k)' = Registered(k)
                                        /\ VhostOfConsumer(k)' = VhostOfConsumer(k)
    BY DEF Made, Registered, OrgOf, VhostOfConsumer
  <1>2. \A v \in Vhosts : Users(v)' = Users(v) /\ Borrowers(v)' = Borrowers(v)
    BY <1>1 DEF Users, Borrowers
  <1>3. ASSUME NEW v \in Vhosts PROVE pool'.refs[v] = InUse(v)'
    <2>1. /\ Cardinality(Users(v)) \in Nat /\ Cardinality(Borrowers(v)) \in Nat
          /\ GivingBack(v) \in Nat /\ GivingBack(v)' \in Nat
      BY FewUse, FewHold
    <2>2. pool.refs[v] = InUse(v) /\ pool'.refs[v] \in Nat
      BY DEF Counted, PoolType
    <2>3. InUse(v)' = Cardinality(Users(v)) + Cardinality(Borrowers(v)) + GivingBack(v)'
      BY <1>2 DEF InUse
    <2> QED
      BY <2>1, <2>2, <2>3 DEF InUse
  <1> QED
    BY <1>3 DEF Counted, Sane

LEMMA SubscribeExact ==
    ASSUME CoreInv, RestInv, RestInv', LockInv, Quiet, Quiet', Counted,
           tenantMu' = tenantMu => LockStays, NEW g \in Generations, HandleCreated(g)
    PROVE  Counted'
  <1>1. /\ CoreTypes /\ pool \in PoolType /\ Sane(pool) /\ 1 \in Generations
        /\ handlers \in [Generations -> Handler] /\ handlers' \in [Generations -> Handler]
    BY TenantAssumption DEF CoreInv, CoreTypes, Counted, RestInv, Generations
  <1>2. g = 1 /\ handlers[1].op = "subscribe" /\ handlers'[1] \in {handlers[1], Idle}
    BY <1>1 DEF HandleCreated, Quiet, Idle
  <1>3. \A j : ~InHand(j) /\ ~InHand(j)'
    <2>1. \A j : InHand(j) <=> (handlers[1].op = "unsubscribe" /\ handlers[1].id = j)
      BY <1>1, InHandIs DEF InHand, Quiet
    <2>2. \A j : InHand(j)' <=> (handlers'[1].op = "unsubscribe" /\ handlers'[1].id = j)
      BY <1>1, InHandIs DEF InHand, Quiet
    <2> QED
      BY <1>2, <2>1, <2>2 DEF Idle
  <1>4. PICK o \in Orgs : o = handlers[1].org
    BY <1>1, <1>2 DEF Handler, Idle
  <1>5. PICK u \in Vhosts : VhostOf[o] = u
    BY TenantAssumption
  <1>6. \/ Subscribe(o, 1) /\ LockStays
        \/ CannotSubscribe(o, 1) /\ UNCHANGED handlers
        \/ GiveBack(o, 1)
    BY <1>2, <1>4 DEF HandleCreated, Subscribe
  <1>7. CASE Subscribe(o, 1) /\ LockStays
    <2>1. CASE UNCHANGED <<pool, tenantConsumers, consumers>>
      BY <1>3, <1>7, <2>1, NobodyNew DEF tenantVars, LockStays
    <2>2. CASE tenantConsumers[o] = None /\ Created(o, 1)
      BY <1>1, <1>3, <1>7, <2>2, CreatedExact
    <2>3. CASE DialFails(o)
      <3>1. /\ CanFailAcquire(pool, u) /\ pool' = AcquireFailed(pool, u)
            /\ UNCHANGED <<tenantConsumers, consumers>>
        BY <1>5, <2>3 DEF DialFails
      <3>2. pool' = pool
        BY <1>1, <3>1, AcquireFailedExact
      <3> QED
        BY <1>3, <1>7, <3>1, <3>2, NobodyNew DEF tenantVars, LockStays
    <2> QED
      BY <1>7, <2>1, <2>2, <2>3 DEF Subscribe
  <1>8. 1 # Free /\ 1 # Root
    BY DEF Free, Root
  <1>9. CASE CannotSubscribe(o, 1) /\ UNCHANGED handlers
    <2>1. /\ CanAcquire(pool, u) /\ pool' = Acquire(pool, u) /\ tenantMu = Free
          /\ tenantMu' = 1 /\ UNCHANGED <<tenantConsumers, consumers, handlers>>
      BY <1>5, <1>9 DEF CannotSubscribe, ChannelFails
    <2>2. /\ Sane(pool') /\ pool' \in PoolType /\ pool'.refs[u] = pool.refs[u] + 1
          /\ \A w \in Vhosts \ {u} : pool'.refs[w] = pool.refs[w]
      BY <1>1, <2>1, AcquireExact
    <2>3. \A v : GivingBack(v) = 0 /\ GivingBack(v)' = IF v = u THEN 1 ELSE 0
      BY <1>4, <1>5, <1>8, <2>1 DEF GivingBack, OrgGivenUp
    <2>4. \A v \in Vhosts : pool.refs[v] \in Nat
      BY <1>1 DEF PoolType
    <2>5. \A v \in Vhosts : pool'.refs[v] - pool.refs[v] = GivingBack(v)' - GivingBack(v)
      BY <2>2, <2>3, <2>4
    <2> QED
      BY <1>1, <1>3, <2>1, <2>2, <2>5, GivingExact
  <1>10. CASE GiveBack(o, 1)
    <2>1. /\ pool' = Release(pool, u) /\ tenantMu = 1 /\ tenantMu' = Free
          /\ UNCHANGED <<tenantConsumers, consumers>>
      BY <1>5, <1>10 DEF GiveBack
    <2>2. \A v : GivingBack(v)' = 0 /\ GivingBack(v) = IF v = u THEN 1 ELSE 0
      BY <1>4, <1>5, <1>8, <2>1 DEF GivingBack, OrgGivenUp
    <2>3. pool.refs[u] > 0 /\ \A v \in Vhosts : pool.refs[v] \in Nat
      <3>1. Cardinality(Users(u)) \in Nat /\ Cardinality(Borrowers(u)) \in Nat
        BY <1>1, FewUse, FewHold
      <3>2. pool.refs[u] = Cardinality(Users(u)) + Cardinality(Borrowers(u)) + 1
        BY <2>2 DEF Counted, InUse
      <3> QED
        BY <1>1, <3>1, <3>2 DEF PoolType
    <2>4. /\ Sane(pool') /\ pool' \in PoolType /\ pool'.refs[u] = pool.refs[u] - 1
          /\ \A w \in Vhosts \ {u} : pool'.refs[w] = pool.refs[w]
      BY <1>1, <2>1, <2>3, ReleaseExact
    <2>5. \A v \in Vhosts : pool'.refs[v] - pool.refs[v] = GivingBack(v)' - GivingBack(v)
      BY <2>2, <2>3, <2>4
    <2> QED
      BY <1>1, <1>3, <2>1, <2>4, <2>5, GivingExact
  <1> QED
    BY <1>6, <1>7, <1>9, <1>10

\* Out of the map and in hand: used as before.
LEMMA DeletedExact ==
    ASSUME CoreInv, RestInv, RestInv', LockStays, Quiet, Quiet', Undisturbed, Counted,
           NEW o \in Orgs, ReceiveDeleted(o)
    PROVE  Counted'
  <1>1. /\ CoreTypes /\ 1 \in Generations /\ handlers[1] = Idle
        /\ handlers \in [Generations -> Handler] /\ handlers' \in [Generations -> Handler]
    BY TenantAssumption DEF CoreInv, RestInv, Generations, ReceiveDeleted, ReceiveEvent,
       Undisturbed
  <1>2. /\ UNCHANGED <<pool, consumers>>
        /\ tenantConsumers' = [tenantConsumers EXCEPT ![o] = None]
        /\ tenantConsumers \in [Orgs -> Ids \cup {None}]
    BY DEF ReceiveDeleted, CoreInv, CoreTypes
  <1>3. \A j : ~InHand(j)
    <2>1. \A j : InHand(j) <=> (handlers[1].op = "unsubscribe" /\ handlers[1].id = j)
      BY <1>1, InHandIs DEF InHand, Quiet
    <2> QED
      BY <1>1, <2>1 DEF Idle
  <1>4. \A j : InHand(j)' <=> (handlers'[1].op = "unsubscribe" /\ handlers'[1].id = j)
    BY <1>1, InHandIs DEF InHand, Quiet
  <1>5. CASE tenantConsumers[o] = None
    <2>1. handlers' = handlers /\ tenantConsumers' = tenantConsumers
      BY <1>2, <1>5 DEF ReceiveDeleted
    <2> QED
      BY <1>1, <1>2, <1>3, <1>4, <2>1, NobodyNew DEF tenantVars, Idle, LockStays
  <1>6. CASE tenantConsumers[o] # None
    <2>1. PICK k : k = tenantConsumers[o]
      OBVIOUS
    <2>2. k \in Made /\ OrgOf(k) = o /\ k # None
      BY <1>6, <2>1 DEF CoreInv, NewestRegistered
    <2>3. handlers'[1] = [op |-> "unsubscribe", id |-> k]
      BY <1>1, <1>6, <2>1 DEF ReceiveDeleted, Undisturbed
    <2>4. \A j : InHand(j)' <=> j = k
      BY <1>4, <2>3
    <2>5. /\ Made' = Made
          /\ \A j \in Made : OrgOf(j)' = OrgOf(j) /\ VhostOfConsumer(j)' = VhostOfConsumer(j)
      BY <1>2 DEF Made, OrgOf, VhostOfConsumer
    <2>6. /\ Registered(k) /\ ~Registered(k)'
          /\ \A j \in Made \ {k} : Registered(j)' = Registered(j)
      <3>1. ASSUME NEW j \in Made \ {k} PROVE Registered(j)' = Registered(j)
        <4>1. OrgOf(j) \in Orgs /\ j # None
          BY <1>1, MadeIs DEF None
        <4>2. CASE OrgOf(j) = o
          BY <1>2, <2>1, <2>5, <4>1, <4>2 DEF Registered
        <4>3. CASE OrgOf(j) # o
          BY <1>2, <2>2, <2>5, <4>1, <4>3 DEF Registered
        <4> QED
          BY <4>2, <4>3
      <3>2. Registered(k)
        BY <2>1, <2>2 DEF Registered
      <3>3. ~Registered(k)'
        BY <1>2, <2>2, <2>5 DEF Registered
      <3> QED
        BY <3>1, <3>2, <3>3
    <2>7. \A v \in Vhosts : Users(v)' = Users(v) /\ Borrowers(v)' = Borrowers(v)
      BY <1>2, <1>3, <2>4, <2>5, <2>6 DEF Users, Borrowers
    <2>8. Sane(pool)' /\ pool'.refs = pool.refs
      BY <1>2 DEF Counted, Sane
    <2> QED
      BY <2>4, <2>5, <2>6, <2>7, <2>8, CountsRest
  <1> QED
    BY <1>5, <1>6

\* Every step, by who takes it.
LEMMA CountedStep ==
    ASSUME CoreInv, RestInv, RestInv', LockInv, Quiet, Quiet', Undisturbed, Undisturbed',
           Counted, [Next]_vars
    PROVE  Counted'
  <1>l. tenantMu' = tenantMu => LockStays
    BY LockStep
  <1>1. ASSUME UNCHANGED <<tenantVars, handlers>> PROVE Counted'
    BY <1>1, <1>l, NobodyNew DEF InHand, tenantVars
  <1>2. ASSUME NEW o \in Orgs, ReceiveCreated(o) PROVE Counted'
    <2>1. /\ 1 \in Generations /\ handlers[1] = Idle /\ UNCHANGED tenantVars
          /\ handlers \in [Generations -> Handler] /\ handlers' \in [Generations -> Handler]
          /\ \/ handlers' = handlers
             \/ handlers' = [handlers EXCEPT ![1] = [op |-> "subscribe", org |-> o]]
      BY <1>2, TenantAssumption DEF RestInv, Generations, ReceiveCreated, ReceiveEvent,
         Undisturbed
    <2>2. handlers[1].op # "unsubscribe" /\ handlers'[1].op # "unsubscribe"
      BY <2>1 DEF Idle
    <2>3. \A j : InHand(j) <=> (handlers[1].op = "unsubscribe" /\ handlers[1].id = j)
      BY <2>1, InHandIs DEF InHand, Quiet
    <2>4. \A j : InHand(j)' <=> (handlers'[1].op = "unsubscribe" /\ handlers'[1].id = j)
      BY <2>1, InHandIs DEF InHand, Quiet
    <2> QED
      BY <1>l, <2>1, <2>2, <2>3, <2>4, NobodyNew DEF tenantVars
  <1>3. CASE Listening
    BY <1>2, <1>3, <1>l, DeletedExact DEF Listening, ReceiveDeleted
  <1>4. CASE Handling
    BY <1>4, <1>l, SubscribeExact, UnsubscribeExact DEF Handling, FinishUnsubscribe
  <1>5. ASSUME NEW k \in Made, NEW c \in Consumer, c.org = OrgOf(k), pool' = pool,
               consumers' = [consumers EXCEPT ![k] = c],
               UNCHANGED <<tenantConsumers, handlers, tenantMu>>,
               c.loop = "releasing" <=> consumers[k].loop = "releasing"
        PROVE  Counted'
    <2>1. CoreTypes /\ Changes(k, c)
      BY <1>5 DEF CoreInv, Changes
    <2> QED
      BY <1>5, <1>l, <2>1, SameUse
  <1>6. ASSUME NEW k \in Made, consumers[k].loop # "releasing", pool' = pool,
               NEW l \in {"resubscribe", "acquiring", "asking", "sending", "ended"},
               UNCHANGED <<tenantConsumers, handlers, tenantMu>>,
               consumers' = [consumers EXCEPT ![k].loop = l]
        PROVE  Counted'
    <2>1. PICK c : c = [consumers[k] EXCEPT !.loop = l]
      OBVIOUS
    <2>2. consumers[k] \in Consumer
      BY MadeIs DEF CoreInv
    <2>3. c \in Consumer /\ c.org = OrgOf(k) /\ c.loop = l
      BY <1>6, <2>1, <2>2 DEF Consumer, OrgOf
    <2>4. consumers' = [consumers EXCEPT ![k] = c]
      BY <1>6, <2>1
    <2> QED
      BY <1>5, <1>6, <2>3, <2>4
  <1>7. ASSUME NEW k \in Made, Looping(k) PROVE Counted'
    <2>1. CASE LoopStops(k)
      BY <1>6, <2>1 DEF LoopStops
    <2>2. CASE LoopSeesClosure(k)
      BY <1>6, <2>2 DEF LoopSeesClosure
    <2>3. CASE ResubscribeMainDown(k)
      BY <1>6, <2>3 DEF ResubscribeMainDown
    <2>4. CASE ResubscribeVhostDown(k)
      <3>1. pool \in PoolType /\ Sane(pool) /\ VhostOfConsumer(k) \in Vhosts
        BY MadeIs DEF CoreInv, CoreTypes, Counted
      <3>2. pool' = pool
        BY <2>4, <3>1, AcquireFailedExact DEF ResubscribeVhostDown
      <3> QED
        BY <1>6, <2>4, <3>2 DEF ResubscribeVhostDown
    <2>5. CASE ResubscribeMainUp(k)
      BY <1>6, <2>5 DEF ResubscribeMainUp
    <2>6. CASE AskForReconnect(k)
      <3>1. PICK l \in {"sending", "ended"} : consumers' = [consumers EXCEPT ![k].loop = l]
        BY <2>6 DEF AskForReconnect
      <3> QED
        BY <1>6, <2>6, <3>1 DEF AskForReconnect
    <2>7. CASE SendRequest(k)
      BY <1>6, <2>7 DEF SendRequest
    <2>8. CASE ResubscribeVhostUp(k)
      BY <1>l, <2>8, BorrowExact DEF ResubscribeVhostUp
    <2>9. CASE ResubscribeReturns(k)
      BY <1>l, <2>9, ReturnExact DEF ResubscribeReturns
    <2> QED
      BY <1>7, <2>1, <2>2, <2>3, <2>4, <2>5, <2>6, <2>7, <2>8, <2>9 DEF Looping
  <1>8. CASE Monitoring
    BY <1>8 DEF Monitoring, HandleConnectionClosed, HandleChannelClosed, Noticed, Quiet
  <1>9. CASE Reconnecting
    BY <1>1, <1>9 DEF Reconnecting, ReconnectStarts, ReconnectFails, ReconnectDials,
       ReconnectAborts, SnapshotTenants, ReconnectDone, RedoTenant, DropTenant, Quiet
  <1>10. CASE Stopping
    <2>1. CASE AskToStop
      BY <2>1 DEF AskToStop, Undisturbed, RestInv, Shutdown
    <2>2. CASE ClosePool
      BY <2>2 DEF ClosePool, Quiet, RestInv, Shutdown
    <2>3. CASE StopAllConsumers \/ ListenerStops
      BY <2>3 DEF StopAllConsumers, ListenerStops, Undisturbed
    <2> QED
      BY <1>10, <2>1, <2>2, <2>3 DEF Stopping
  <1>11. CASE Failing
    <2>1. ASSUME NEW k \in Made, TenantChannelLost(k) PROVE Counted'
      <3>1. PICK c : c = [consumers[k] EXCEPT !.channel = FALSE]
        OBVIOUS
      <3>2. consumers[k] \in Consumer
        BY MadeIs DEF CoreInv
      <3>3. c \in Consumer /\ c.org = OrgOf(k) /\ c.loop = consumers[k].loop
        BY <3>1, <3>2, ConsumerFates DEF OrgOf
      <3>4. /\ consumers' = [consumers EXCEPT ![k] = c] /\ pool' = pool
            /\ UNCHANGED <<tenantConsumers, handlers, tenantMu>>
        BY <2>1, <3>1 DEF TenantChannelLost
      <3> QED
        BY <1>5, <3>3, <3>4
    <2>2. CASE ~\E k \in Made : TenantChannelLost(k)
      <3>1. PICK kind \in {"vhost", "mainChannel", "main", "broker"} : Fault(kind)
        BY <1>11, <2>2 DEF Failing, VhostConnectionLost, MainChannelLost,
           MainConnectionLost, BrokerRestarts
      <3> QED
        BY <3>1, FaultsBefore DEF Undisturbed
    <2> QED
      BY <2>1, <2>2
  <1>12. CASE UNCHANGED vars
    BY <1>1, <1>12 DEF vars
  <1> QED
    BY <1>3, <1>4, <1>7, <1>8, <1>9, <1>10, <1>11, <1>12 DEF Next

LEMMA ExactStep ==
    ASSUME CoreInv, RestInv, RestInv', LockInv, ExactInv, [Next]_vars
    PROVE  ExactInv'
  <1> SUFFICES ASSUME Undisturbed' PROVE Quiet' /\ Counted'
    BY DEF ExactInv
  <1>1. Undisturbed
    BY StaysUndisturbed
  <1>2. Quiet'
    BY <1>1, StaysQuiet DEF ExactInv
  <1> QED
    BY <1>1, <1>2, CountedStep DEF ExactInv

LEMMA ExactInit ==
    ASSUME Init
    PROVE  ExactInv
  <1>1. Made = {}
    BY DEF Init, Made
  <1>2. Sane(pool) /\ \A v \in Vhosts : pool.refs[v] = 0
    BY DEF Init, EmptyPool, Sane
  <1>3. \A v : Users(v) = {} /\ Borrowers(v) = {} /\ GivingBack(v) = 0
    BY <1>1 DEF Users, Borrowers, GivingBack, Init
  <1>4. Cardinality({}) = 0 /\ 0 + 0 + 0 = 0
    BY FS_EmptySet
  <1>5. \A v : InUse(v) = 0
    BY <1>3, <1>4 DEF InUse
  <1>6. Counted
    BY <1>1, <1>2, <1>5 DEF Counted
  <1>7. Quiet
    BY DEF Init, Quiet
  <1> QED
    BY <1>6, <1>7 DEF ExactInv

LEMMA Safety == Spec => [](CoreInv /\ RestInv /\ LockInv /\ ExactInv)
  <1>1. Init => CoreInv /\ RestInv /\ LockInv /\ ExactInv
    BY InitInv, ExactInit
  <1>2. CoreInv /\ RestInv /\ LockInv /\ ExactInv /\ [Next]_vars =>
           (CoreInv /\ RestInv /\ LockInv /\ ExactInv)'
    BY CoreStep, RestStep, LockStep, ExactStep
  <1> QED
    BY <1>1, <1>2, PTL DEF Spec

-----------------------------------------------------------------------------
(* Who receives, when the broker takes all connections at once and nothing   *)
(* else goes wrong before it is recovered from.  From the fault until the    *)
(* tenants are redone no channel is open; while they are redone none of      *)
(* those left is, and each is still the registered one: what recovery takes  *)
(* out of the map receives nothing any more.  A connection is the number of  *)
(* its dial, so no channel ever opens again (Fresh).  Nobody asks for a      *)
(* recovery but during one, and not once tenants are being redone: the loops *)
(* the fault woke are through by then (Prompt).                              *)
OnlyTheBroker ==
    ~Overlap /\ Prompt /\ Faults \cap {"main", "mainChannel", "dial", "stop"} = {}

Fresh ==
    /\ \A c \in pool.open : c <= pool.dialed
    /\ \A k \in Made : consumers[k].conn <= pool.dialed

Recovering == main = "down" \/ signal \/ notice # {} \/ reconnecting # "no"

Asking == \E k \in Made : consumers[k].loop \in {"asking", "sending"}

RecoveryInv ==
    /\ Asking => Recovering /\ reconnecting # "reestablishing"
    /\ Fresh /\ NoAbandonedChannel
    /\ main # "noChannel" /\ nextNotice = {} /\ ~shutdown.asked /\ shutdown.halted = 0
    /\ Recovering => ~listening /\ \A g \in Generations : handlers[g] = Idle
    /\ Recovering /\ reconnecting # "reestablishing" => \A k \in Made : ~ChannelOpen(k)
    /\ reconnecting = "dialed" => main = "up"
    /\ reconnecting # "reestablishing" => todo = {} /\ redo = None
    /\ reconnecting = "reestablishing" =>
          main = "up" /\ \A k \in todo : Registered(k) /\ ~ChannelOpen(k)

\* No call of the pool opens a connection again that was closed.
Forward(p, q) ==
    /\ p.dialed <= q.dialed
    /\ \A c \in q.open : c \in p.open \/ (p.dialed < c /\ c <= q.dialed)

LEMMA PoolGoesForward ==
    ASSUME NEW p \in PoolType
    PROVE  /\ Forward(p, p) /\ Forward(p, InvalidateAll(p))
           /\ \A K : Forward(p, ConnectionsLost(p, K))
           /\ \A v \in Vhosts : /\ CanAcquire(p, v) => Forward(p, Acquire(p, v))
                                /\ Forward(p, AcquireFailed(p, v)) /\ Forward(p, Release(p, v))
  <1>1. p.dialed \in Nat /\ \A c \in p.open : c \in Nat
    BY PoolAssumption DEF PoolType, ConnIds
  <1>2. /\ Forward(p, p) /\ Forward(p, InvalidateAll(p))
        /\ \A K : Forward(p, ConnectionsLost(p, K))
    BY <1>1, ForgetAllEffect, ConnectionsLostEffect DEF Forward
  <1>3. ASSUME NEW v \in Vhosts, CanAcquire(p, v) PROVE Forward(p, Acquire(p, v))
    <2>1. /\ Acquire(p, v).open = p.open \cup {Acquire(p, v).conn[v]}
          /\ Acquire(p, v).conn[v] = IF Reusable(p, v) THEN p.conn[v] ELSE p.dialed + 1
          /\ Acquire(p, v).dialed = IF Reusable(p, v) THEN p.dialed ELSE p.dialed + 1
      BY <1>3, AcquireEffect
    <2>2. Reusable(p, v) => p.conn[v] \in p.open
      BY DEF Reusable
    <2> QED
      BY <1>1, <2>1, <2>2 DEF Forward
  <1>4. ASSUME NEW v \in Vhosts PROVE Forward(p, AcquireFailed(p, v))
    <2>1. AcquireFailed(p, v).open = p.open /\ AcquireFailed(p, v).dialed = p.dialed
      BY AcquireFailedEffect
    <2> QED
      BY <1>1, <2>1 DEF Forward
  <1>5. ASSUME NEW v \in Vhosts PROVE Forward(p, Release(p, v))
    <2>1. Release(p, v).dialed = p.dialed
      BY ReleaseEffect
    <2>2. Release(p, v).open \subseteq p.open
      BY DEF Release, Forget, PoolType
    <2> QED
      BY <1>1, <2>1, <2>2 DEF Forward
  <1> QED
    BY <1>2, <1>3, <1>4, <1>5

\* What a step does to the consumers there are: none gets an open channel.
Ages ==
    /\ Fresh' /\ Made \subseteq Made'
    /\ \A k \in Made : OrgOf(k)' = OrgOf(k) /\ (ChannelOpen(k)' => ChannelOpen(k))

LEMMA OlderConsumers ==
    ASSUME CoreInv, Fresh, pool' \in PoolType, Forward(pool, pool'),
           \A k \in Made : /\ consumers'[k].conn = consumers[k].conn
                           /\ consumers'[k].channel => consumers[k].channel
    PROVE  /\ \A c \in pool'.open : c <= pool'.dialed
           /\ \A k \in Made : /\ consumers'[k].conn <= pool'.dialed
                              /\ ChannelOpen(k)' => ChannelOpen(k)
  <1>1. /\ pool.dialed \in Int /\ pool'.dialed \in Int
        /\ \A c \in pool.open \cup pool'.open : c \in Int
    BY PoolAssumption DEF CoreInv, CoreTypes, PoolType, ConnIds
  <1>2. \A k \in Made : consumers[k].conn \in Int
    BY MadeIs DEF CoreInv, Consumer, ConnIds
  <1>3. \A c \in pool'.open : c <= pool'.dialed
    BY <1>1 DEF Fresh, Forward
  <1>4. ASSUME NEW k \in Made
        PROVE  consumers'[k].conn <= pool'.dialed /\ (ChannelOpen(k)' => ChannelOpen(k))
    <2>1. consumers[k].conn <= pool.dialed /\ pool.dialed <= pool'.dialed
      BY DEF Fresh, Forward
    <2>2. consumers[k].conn \in pool'.open => consumers[k].conn \in pool.open
      BY <1>1, <1>2, <2>1 DEF Forward
    <2> QED
      BY <1>1, <1>2, <2>1, <2>2 DEF ChannelOpen
  <1> QED
    BY <1>3, <1>4

LEMMA NobodyChanges ==
    ASSUME CoreInv, Fresh, pool' \in PoolType, Forward(pool, pool'), UNCHANGED consumers
    PROVE  Ages /\ Made' = Made
  <1>1. Made' = Made /\ \A k \in Made : OrgOf(k)' = OrgOf(k)
    BY DEF Made, OrgOf
  <1> QED
    BY <1>1, OlderConsumers DEF Ages, Fresh

LEMMA OneChanges ==
    ASSUME CoreInv, Fresh, pool' \in PoolType, Forward(pool, pool'), NEW k, NEW c, Changes(k, c),
           c.conn = consumers[k].conn, c.channel => consumers[k].channel
    PROVE  Ages /\ Made' = Made
  <1>1. /\ Made' = Made /\ consumers'[k] = c /\ \A j \in Made : OrgOf(j)' = OrgOf(j)
        /\ \A j \in Made \ {k} : consumers'[j] = consumers[j]
    BY ConsumerChanges DEF CoreInv
  <1>2. \A j \in Made : /\ consumers'[j].conn = consumers[j].conn
                        /\ consumers'[j].channel => consumers[j].channel
    BY <1>1
  <1> QED
    BY <1>1, <1>2, OlderConsumers DEF Ages, Fresh

\* A subscription opens a channel for nobody but the consumer it registers, and
\* takes nobody's place.
Subscribing(o, parent) ==
    Subscribe(o, parent) \/ CannotSubscribe(o, parent) \/ GiveBack(o, parent)

LEMMA SubscribeAges ==
    ASSUME CoreInv, pool' \in PoolType, Fresh, NEW o \in Orgs,
           NEW parent \in {Root} \cup Generations, Subscribing(o, parent)
    PROVE  /\ Ages
           /\ \A k \in Made : Registered(k) => Registered(k)'
           /\ \A k \in Made' \ Made : Registered(k)'
           /\ Asking' => Asking
  <1>1. PICK u \in Vhosts : VhostOf[o] = u
    BY TenantAssumption
  <1>2. pool \in PoolType /\ pool' \in PoolType
    BY DEF CoreInv, CoreTypes
  <1>3. ASSUME UNCHANGED <<tenantConsumers, consumers>>, Forward(pool, pool')
        PROVE  /\ Ages /\ Made' = Made /\ \A k \in Made : Registered(k) => Registered(k)'
               /\ Asking' => Asking
    BY <1>2, <1>3, NobodyChanges DEF Registered, OrgOf, Asking
  <1>4. CASE UNCHANGED <<pool, tenantConsumers, consumers>>
    BY <1>2, <1>3, <1>4, PoolGoesForward
  <1>5. CASE DialFails(o)
    BY <1>1, <1>2, <1>3, <1>5, PoolGoesForward DEF DialFails
  <1>6. CASE CannotSubscribe(o, parent) \/ GiveBack(o, parent)
    <2>1. /\ \/ CanAcquire(pool, u) /\ pool' = Acquire(pool, u)
             \/ pool' = Release(pool, u)
          /\ UNCHANGED <<tenantConsumers, consumers>>
      BY <1>1, <1>6 DEF CannotSubscribe, ChannelFails, GiveBack
    <2> QED
      BY <1>2, <1>3, <2>1, PoolGoesForward
  <1>7. CASE tenantConsumers[o] = None /\ Created(o, parent)
    <2>1. CoreTypes /\ Made = 1 .. Len(consumers) /\ Len(consumers) \in Nat
      BY MadeIs DEF CoreInv
    <2>2. PICK n \in Nat : n = Len(consumers) + 1
      BY <2>1
    <2>3. /\ CanAcquire(pool, u) /\ pool' = Acquire(pool, u)
          /\ tenantConsumers' = [tenantConsumers EXCEPT ![o] = Len(consumers')]
      BY <1>1, <1>7 DEF Created
    <2>4. pool'.conn[u] \in pool'.open /\ pool'.conn[u] \in ConnIds
      BY <1>2, <2>3, AcquireEffect
    <2>5. PICK c \in Consumer : /\ c.org = o /\ c.conn = pool'.conn[u] /\ c.loop = "running"
                                /\ consumers' = Append(consumers, c)
      BY <1>1, <1>7, <2>4 DEF Created, Consumer
    <2>6. /\ Len(consumers') = n /\ consumers'[n] = c
          /\ \A j \in Made : consumers'[j] = consumers[j]
      BY <2>1, <2>2, <2>5 DEF CoreTypes
    <2>7. Made' = Made \cup {n} /\ n \notin Made
      BY <2>1, <2>2, <2>5 DEF Made, CoreTypes
    <2>8. /\ \A c1 \in pool'.open : c1 <= pool'.dialed
          /\ \A k \in Made : /\ consumers'[k].conn <= pool'.dialed
                             /\ ChannelOpen(k)' => ChannelOpen(k)
      BY <1>2, <2>3, <2>6, PoolGoesForward, OlderConsumers
    <2>9. Ages
      BY <2>4, <2>5, <2>6, <2>7, <2>8 DEF Ages, Fresh, OrgOf
    <2>10. \A q \in Orgs : tenantConsumers'[q] = IF q = o THEN n ELSE tenantConsumers[q]
      BY <2>1, <2>3, <2>6 DEF CoreTypes
    <2>11. Registered(n)'
      BY <2>5, <2>6, <2>10 DEF Registered, OrgOf
    <2>12. ASSUME NEW k \in Made, Registered(k) PROVE Registered(k)'
      <3>1. OrgOf(k) \in Orgs /\ k # None
        BY <2>1, MadeIs DEF None
      <3> QED
        BY <1>7, <2>6, <2>10, <2>12, <3>1 DEF Registered, OrgOf
    <2>13. Asking' => Asking
      BY <2>5, <2>6, <2>7 DEF Asking
    <2> QED
      BY <2>7, <2>9, <2>11, <2>12, <2>13
  <1> QED
    BY <1>3, <1>4, <1>5, <1>6, <1>7 DEF Subscribing, Subscribe

\* A step of anybody who leaves the map and the handlers alone.
LEMMA OthersMove ==
    ASSUME RestInv, RecoveryInv, Ages, Made' = Made, Recovering' => Recovering,
           Asking' => Recovering' /\ reconnecting' # "reestablishing",
           UNCHANGED <<tenantConsumers, handlers, listening, main, nextNotice, todo, redo,
                       shutdown>>,
           \/ reconnecting' = reconnecting
           \/ reconnecting = "no" /\ reconnecting' = "dialing"
    PROVE  RecoveryInv'
  <1>1. \A k \in Made : /\ Registered(k)' = Registered(k) /\ InHand(k)' = InHand(k)
                        /\ ChannelOpen(k)' => ChannelOpen(k)
    BY DEF Ages, Registered, InHand
  <1>2. NoAbandonedChannel'
    BY <1>1 DEF RecoveryInv, NoAbandonedChannel
  <1>3. Recovering' /\ reconnecting' # "reestablishing" => \A k \in Made' : ~ChannelOpen(k)'
    BY <1>1 DEF RecoveryInv, Recovering
  <1>4. reconnecting' = "reestablishing" =>
           main' = "up" /\ \A k \in todo' : Registered(k)' /\ ~ChannelOpen(k)'
    BY <1>1 DEF RecoveryInv, RestInv
  <1> QED
    BY <1>2, <1>3, <1>4 DEF RecoveryInv, Ages

\* A subscription, by the listener's handler or by recovery.
LEMMA SubscriptionMoves ==
    ASSUME CoreInv, RestInv, RecoveryInv, NEW o \in Orgs, NEW parent \in {Root} \cup Generations,
           Subscribing(o, parent), ~Recovering \/ reconnecting = "reestablishing",
           pool' \in PoolType,
           \A k : InHand(k) => InHand(k)',
           \A g \in Generations : handlers'[g] \in {handlers[g], Idle},
           UNCHANGED <<listening, mainVars, signal, reconnecting, todo, shutdown>>,
           redo' \in {redo, None}
    PROVE  RecoveryInv'
  <1>1. /\ Ages /\ \A k \in Made : Registered(k) => Registered(k)'
        /\ \A k \in Made' \ Made : Registered(k)'
        /\ ~Asking'
    BY SubscribeAges DEF RecoveryInv
  <1>2. ASSUME NEW k \in Made', ChannelOpen(k)' PROVE Registered(k)' \/ InHand(k)'
    <2>1. CASE k \in Made
      BY <1>1, <1>2, <2>1 DEF Ages, RecoveryInv, NoAbandonedChannel
    <2> QED
      BY <1>1, <2>1
  <1>3. NoAbandonedChannel'
    BY <1>2 DEF NoAbandonedChannel
  <1>4. Recovering' = Recovering
    BY DEF Recovering, mainVars
  <1>5. reconnecting' = "reestablishing" =>
           main' = "up" /\ \A k \in todo' : Registered(k)' /\ ~ChannelOpen(k)'
    BY <1>1 DEF RecoveryInv, mainVars, Ages, RestInv
  <1> QED
    BY <1>1, <1>3, <1>4, <1>5 DEF RecoveryInv, Ages, mainVars

\* The listener is only at work while nothing is being recovered.
LEMMA ListenerRecovery ==
    ASSUME CoreInv, RestInv, RecoveryInv, Listening
    PROVE  RecoveryInv'
  <1>1. /\ listening /\ handlers[listener] = Idle
        /\ UNCHANGED <<pool, consumers, listening, mainVars, signal, recVars, shutdown>>
    BY DEF Listening, ReceiveCreated, ReceiveDeleted, ReceiveEvent, tenantVars
  <1>2. ~Recovering /\ ~Recovering' /\ todo' = {}
    BY <1>1 DEF RecoveryInv, Recovering, mainVars, recVars
  <1>3. Ages /\ Made' = Made /\ ~Asking'
    BY <1>1, <1>2, NobodyChanges, PoolGoesForward DEF CoreInv, CoreTypes, RecoveryInv, Asking
  <1>4. PICK o \in Orgs : ReceiveCreated(o) \/ ReceiveDeleted(o)
    BY DEF Listening
  <1>5. ASSUME NEW k \in Made, Registered(k) \/ InHand(k) PROVE Registered(k)' \/ InHand(k)'
    <2>1. CASE InHand(k)
      <3>1. PICK g \in Generations : handlers[g] = [op |-> "unsubscribe", id |-> k]
        BY <2>1 DEF InHand
      <3>2. g # listener
        BY <1>1, <3>1 DEF Idle
      <3>3. handlers'[g] = handlers[g]
        BY <1>4, <3>2 DEF ReceiveCreated, ReceiveDeleted, RestInv
      <3> QED
        BY <3>1, <3>3 DEF InHand
    <2>2. CASE Registered(k) /\ ReceiveCreated(o)
      BY <1>1, <2>2 DEF ReceiveCreated, tenantVars, Registered, OrgOf
    <2>3. CASE Registered(k) /\ ReceiveDeleted(o)
      <3>1. k # None /\ OrgOf(k) \in Orgs
        BY MadeIs DEF CoreInv, None
      <3>2. CASE OrgOf(k) = o
        <4>1. tenantConsumers[o] = k
          BY <2>3, <3>2 DEF Registered
        <4>2. handlers'[listener] = [op |-> "unsubscribe", id |-> k]
          BY <2>3, <3>1, <4>1 DEF ReceiveDeleted, RestInv
        <4> QED
          BY <4>2 DEF InHand, RestInv
      <3>3. CASE OrgOf(k) # o
        BY <1>1, <2>3, <3>1, <3>3 DEF ReceiveDeleted, CoreInv, CoreTypes, Registered, OrgOf
      <3> QED
        BY <3>2, <3>3
    <2> QED
      BY <1>4, <1>5, <2>1, <2>2, <2>3
  <1>6. NoAbandonedChannel'
    BY <1>3, <1>5 DEF Ages, RecoveryInv, NoAbandonedChannel
  <1> QED
    BY <1>1, <1>2, <1>3, <1>6 DEF RecoveryInv, Recovering, Ages, mainVars, recVars

\* What unsubscribing has in hand is stopped before it lets go of it.
LEMMA HandlerRecovery ==
    ASSUME CoreInv, RestInv, RecoveryInv, Handling, pool' \in PoolType
    PROVE  RecoveryInv'
  <1>1. PICK g \in Generations : HandleCreated(g) \/ FinishUnsubscribe(g)
    BY DEF Handling
  <1>2. /\ handlers[g] # Idle
        /\ handlers' = handlers \/ handlers' = [handlers EXCEPT ![g] = Idle]
        /\ handlers[g] \in Handler
        /\ UNCHANGED <<listening, mainVars, signal, recVars, shutdown>>
    BY <1>1 DEF HandleCreated, FinishUnsubscribe, Idle, RestInv
  <1>3. ~Recovering
    BY <1>2 DEF RecoveryInv
  <1>4. \A h \in Generations : handlers'[h] \in {handlers[h], Idle}
    BY <1>2 DEF RestInv
  <1>5. CASE HandleCreated(g)
    <2>1. handlers[g].op = "subscribe" /\ Subscribing(handlers[g].org, g)
      BY <1>5 DEF HandleCreated, Subscribing
    <2>2. handlers[g].org \in Orgs
      BY <1>2, <2>1 DEF Handler, Idle
    <2>3. \A k : InHand(k) => InHand(k)'
      BY <1>2, <2>1 DEF InHand, RestInv
    <2> QED
      BY <1>2, <1>3, <1>4, <2>1, <2>2, <2>3, SubscriptionMoves DEF recVars
  <1>6. CASE FinishUnsubscribe(g)
    <2>1. PICK k : k = handlers[g].id
      OBVIOUS
    <2>2. /\ handlers[g].op = "unsubscribe" /\ k \in Made
          /\ handlers[g] = [op |-> "unsubscribe", id |-> k]
      BY <1>2, <1>6, <2>1 DEF FinishUnsubscribe, RestInv, Handler, Idle
    <2>3. PICK c : c = [Halted(consumers[k]) EXCEPT !.released = TRUE]
      OBVIOUS
    <2>4. consumers[k] \in Consumer /\ VhostOfConsumer(k) \in Vhosts
      BY <2>2, MadeIs DEF CoreInv
    <2>5. /\ c \in Consumer /\ c.org = OrgOf(k) /\ c.conn = consumers[k].conn /\ ~c.channel
      BY <2>3, <2>4 DEF Consumer, Halted, OrgOf
    <2>6. Changes(k, c) /\ pool' = Release(pool, VhostOfConsumer(k))
      BY <1>6, <2>1, <2>2, <2>3, <2>5 DEF FinishUnsubscribe, Changes
    <2>7. Ages /\ Made' = Made /\ ~Asking'
      <3>1. Ages /\ Made' = Made
        BY <2>4, <2>5, <2>6, OneChanges, PoolGoesForward DEF RecoveryInv, CoreInv, CoreTypes
      <3>2. c.loop = consumers[k].loop
        BY <2>3, <2>4, ConsumerFates
      <3>3. consumers'[k] = c /\ \A j \in Made \ {k} : consumers'[j] = consumers[j]
        BY <2>6, ConsumerChanges DEF CoreInv
      <3>4. Asking' => Asking
        BY <3>1, <3>2, <3>3 DEF Asking
      <3> QED
        BY <1>3, <3>1, <3>4 DEF RecoveryInv
    <2>8. ~ChannelOpen(k)'
      BY <2>2, <2>5, <2>6 DEF ChannelOpen, Changes, CoreInv, CoreTypes, Made
    <2>9. ASSUME NEW j \in Made, ChannelOpen(j)' PROVE Registered(j)' \/ InHand(j)'
      <3>1. j # k /\ (Registered(j) \/ InHand(j)) /\ OrgOf(j)' = OrgOf(j)
        BY <2>7, <2>8, <2>9 DEF Ages, RecoveryInv, NoAbandonedChannel
      <3>2. Registered(j) => Registered(j)'
        BY <1>6, <3>1 DEF FinishUnsubscribe, Registered
      <3>3. InHand(j) => InHand(j)'
        BY <1>2, <1>6, <2>2, <3>1 DEF InHand, RestInv
      <3> QED
        BY <3>1, <3>2, <3>3
    <2>10. NoAbandonedChannel' /\ Recovering' = Recovering
      BY <1>2, <2>7, <2>9 DEF NoAbandonedChannel, Recovering, mainVars, recVars
    <2> QED
      BY <1>2, <1>3, <2>7, <2>10 DEF RecoveryInv, Recovering, Ages, mainVars, recVars
  <1> QED
    BY <1>1, <1>5, <1>6

\* A loop ends or resubscribes: it may open a connection, but no channel, and it
\* asks for a recovery when it has seen the main connection down.
LEMMA LoopRecovery ==
    ASSUME CoreInv, RestInv, RecoveryInv, NEW k \in Made, Looping(k), pool' \in PoolType,
           OnlyTheBroker
    PROVE  RecoveryInv'
  <1> DEFINE asking(l) == l \in {"asking", "sending"}
             moves(l) == consumers' = [consumers EXCEPT ![k].loop = l]
  <1>1. consumers[k] \in Consumer /\ VhostOfConsumer(k) \in Vhosts /\ pool \in PoolType
    BY MadeIs DEF CoreInv, CoreTypes
  <1>2. ~ResubscribeVhostDown(k)
    BY DEF ResubscribeVhostDown, OnlyTheBroker
  <1>3. Forward(pool, pool')
    BY <1>1, <1>2, PoolGoesForward DEF Looping, LoopStops, LoopSeesClosure,
       ResubscribeMainDown, ResubscribeMainUp, ResubscribeVhostUp, ResubscribeReturns,
       AskForReconnect, SendRequest
  <1>4. UNCHANGED <<tenantConsumers, handlers, listening, mainVars, recVars, shutdown>>
    BY <1>2 DEF Looping, LoopStops, LoopSeesClosure, ResubscribeMainDown, ResubscribeMainUp,
       ResubscribeVhostUp, ResubscribeReturns, AskForReconnect, SendRequest
  <1>5. \/ \E l \in {"resubscribe", "acquiring", "releasing", "ended"} :
               moves(l) /\ signal' = signal
        \/ moves("asking") /\ main = "down" /\ signal' = signal
        \/ moves("sending") /\ asking(consumers[k].loop) /\ signal' = signal
        \/ moves("ended") /\ asking(consumers[k].loop)
        \/ /\ consumers' = [consumers EXCEPT ![k] = [Halted(@) EXCEPT !.loop = "ended"]]
           /\ signal' = signal
    <2>1. CASE LoopStops(k) \/ LoopSeesClosure(k) \/ ResubscribeMainUp(k)
               \/ ResubscribeVhostUp(k)
      BY <2>1 DEF LoopStops, LoopSeesClosure, ResubscribeMainUp, ResubscribeVhostUp
    <2>2. CASE ResubscribeMainDown(k)
      BY <2>2 DEF ResubscribeMainDown
    <2>3. CASE AskForReconnect(k)
      BY <2>3 DEF AskForReconnect
    <2>4. CASE SendRequest(k)
      BY <2>4 DEF SendRequest
    <2>5. CASE ResubscribeReturns(k)
      BY <2>5 DEF ResubscribeReturns
    <2> QED
      BY <1>2, <2>1, <2>2, <2>3, <2>4, <2>5 DEF Looping
  <1>6. PICK c \in Consumer : /\ Changes(k, c) /\ c.conn = consumers[k].conn
                              /\ c.channel => consumers[k].channel
                              /\ \/ main = "down" /\ signal' = signal
                                 \/ asking(consumers[k].loop)
                                 \/ ~asking(c.loop) /\ signal' = signal
    <2>1. ASSUME NEW l \in {"resubscribe", "acquiring", "releasing", "asking", "sending",
                            "ended"},
                 moves(l), \/ main = "down" /\ signal' = signal
                           \/ asking(consumers[k].loop)
                           \/ ~asking(l) /\ signal' = signal
          PROVE  \E c \in Consumer : /\ Changes(k, c) /\ c.conn = consumers[k].conn
                                     /\ c.channel => consumers[k].channel
                                     /\ \/ main = "down" /\ signal' = signal
                                        \/ asking(consumers[k].loop)
                                        \/ ~asking(c.loop) /\ signal' = signal
      <3>1. PICK c : c = [consumers[k] EXCEPT !.loop = l]
        OBVIOUS
      <3>2. /\ c \in Consumer /\ c.org = OrgOf(k) /\ c.conn = consumers[k].conn
            /\ c.channel = consumers[k].channel /\ c.loop = l
        BY <1>1, <3>1 DEF Consumer, OrgOf
      <3>3. consumers' = [consumers EXCEPT ![k] = c]
        BY <2>1, <3>1
      <3> QED
        BY <2>1, <3>2, <3>3 DEF Changes
    <2>2. CASE /\ consumers' = [consumers EXCEPT ![k] = [Halted(@) EXCEPT !.loop = "ended"]]
               /\ signal' = signal
      <3>1. PICK c : c = [Halted(consumers[k]) EXCEPT !.loop = "ended"]
        OBVIOUS
      <3>2. /\ c \in Consumer /\ c.org = OrgOf(k) /\ c.conn = consumers[k].conn /\ ~c.channel
            /\ c.loop = "ended"
        BY <1>1, <3>1 DEF Consumer, Halted, OrgOf
      <3>3. consumers' = [consumers EXCEPT ![k] = c]
        BY <2>2, <3>1
      <3> QED
        BY <2>2, <3>2, <3>3 DEF Changes
    <2> QED
      BY <1>5, <2>1, <2>2
  <1>7. Ages /\ Made' = Made
    BY <1>3, <1>6, OneChanges DEF RecoveryInv
  <1>8. consumers'[k] = c /\ \A j \in Made \ {k} : consumers'[j] = consumers[j]
    BY <1>6, ConsumerChanges DEF CoreInv
  <1>9. asking(consumers[k].loop) => Asking
    BY DEF Asking
  <1>10. main = "down" => reconnecting # "reestablishing"
    BY DEF RecoveryInv
  <1>11. Recovering' => Recovering
    BY <1>4, <1>6, <1>9 DEF RecoveryInv, Recovering, mainVars, recVars
  <1>12. Asking' => Recovering' /\ reconnecting' # "reestablishing"
    <2>1. Recovering => Recovering'
      <3>1. signal => signal'
        BY DEF Looping, LoopStops, LoopSeesClosure, ResubscribeMainDown, ResubscribeMainUp,
           ResubscribeVhostDown, ResubscribeVhostUp, ResubscribeReturns, AskForReconnect,
           SendRequest
      <3> QED
        BY <1>4, <3>1 DEF Recovering, mainVars, recVars
    <2>2. CASE Asking
      BY <1>4, <2>1, <2>2 DEF RecoveryInv, recVars
    <2>3. CASE ~Asking /\ Asking'
      <3>1. main = "down"
        BY <1>6, <1>7, <1>8, <1>9, <2>3 DEF Asking
      <3> QED
        BY <1>4, <1>10, <3>1 DEF Recovering, mainVars, recVars
    <2> QED
      BY <2>2, <2>3
  <1> QED
    BY <1>4, <1>7, <1>11, <1>12, OthersMove DEF mainVars, recVars

\* Recovery takes out of the map only what receives nothing.
LEMMA DropRecovery ==
    ASSUME CoreInv, RestInv, RecoveryInv, NEW k \in todo, DropTenant(k)
    PROVE  RecoveryInv'
  <1>1. /\ UNCHANGED <<pool, consumers, listening, handlers, mainVars, signal, reconnecting,
                       shutdown>>
        /\ todo' = todo \ {k} /\ redo' = k
        /\ tenantConsumers' = [tenantConsumers EXCEPT ![OrgOf(k)] = None]
    BY DEF DropTenant
  <1>2. reconnecting = "reestablishing" /\ main = "up" /\ k \in Made /\ OrgOf(k) \in Orgs
    BY MadeIs DEF RecoveryInv, CoreInv, RestInv
  <1>3. Ages /\ Made' = Made /\ ~Asking'
    BY <1>1, <1>2, NobodyChanges, PoolGoesForward DEF CoreInv, CoreTypes, RecoveryInv, Asking
  <1>4. ASSUME NEW j \in Made, Registered(j), j # k PROVE Registered(j)'
    <2>1. Registered(k)
      BY <1>2 DEF RecoveryInv
    <2>2. OrgOf(j) # OrgOf(k)
      BY <1>4, <2>1 DEF Registered
    <2> QED
      BY <1>1, <1>2, <1>4, <2>2 DEF Registered, OrgOf, CoreInv, CoreTypes
  <1>5. ~ChannelOpen(k)' /\ \A j \in Made : InHand(j)' = InHand(j)
    BY <1>1, <1>2, <1>3 DEF RecoveryInv, Ages, InHand
  <1>6. NoAbandonedChannel'
    BY <1>3, <1>4, <1>5 DEF RecoveryInv, NoAbandonedChannel, Ages
  <1>7. \A j \in todo' : Registered(j)' /\ ~ChannelOpen(j)'
    BY <1>1, <1>2, <1>3, <1>4 DEF RecoveryInv, Ages, RestInv
  <1> QED
    BY <1>1, <1>2, <1>3, <1>6, <1>7 DEF RecoveryInv, Recovering, Ages, mainVars

LEMMA ReconnectRecovery ==
    ASSUME CoreInv, RestInv, RecoveryInv, Reconnecting, OnlyTheBroker, pool' \in PoolType
    PROVE  RecoveryInv'
  <1>1. ASSUME UNCHANGED <<pool, consumers>> PROVE Ages /\ Made' = Made /\ Asking' = Asking
    BY <1>1, NobodyChanges, PoolGoesForward DEF CoreInv, CoreTypes, RecoveryInv, Asking
  <1>2. ASSUME UNCHANGED <<tenantVars, handlers>> PROVE NoAbandonedChannel'
    BY <1>2 DEF tenantVars, RecoveryInv, NoAbandonedChannel, Made, ChannelOpen, Registered,
       OrgOf, InHand
  <1>3. ASSUME UNCHANGED tenantVars
        PROVE  \A k \in Made : Registered(k)' = Registered(k) /\ ChannelOpen(k)' = ChannelOpen(k)
    BY <1>3 DEF tenantVars, ChannelOpen, Registered, OrgOf
  <1>4. CASE ReconnectStarts
    <2>1. /\ UNCHANGED <<tenantVars, handlers, listening, mainVars, todo, redo, shutdown>>
          /\ reconnecting = "no" /\ reconnecting' = "dialing" /\ signal
      BY <1>4 DEF ReconnectStarts
    <2> QED
      BY <1>1, <2>1, OthersMove DEF tenantVars, mainVars, Recovering
  <1>5. CASE ReconnectDials
    <2>1. /\ UNCHANGED <<tenantVars, handlers, notice, todo, redo, shutdown>>
          /\ reconnecting = "dialing" /\ reconnecting' = "dialed" /\ main' = "up"
          /\ nextNotice' = {} /\ ~listening'
      BY <1>5 DEF ReconnectDials
    <2>2. Ages /\ Made' = Made /\ NoAbandonedChannel'
      BY <1>1, <1>2, <2>1 DEF tenantVars
    <2>3. Recovering /\ Recovering'
      BY <2>1 DEF Recovering
    <2> QED
      BY <2>1, <2>2, <2>3 DEF RecoveryInv, Recovering, Ages
  <1>6. CASE SnapshotTenants
    <2>1. /\ UNCHANGED <<tenantVars, handlers, listening, mainVars, signal, redo, shutdown>>
          /\ reconnecting = "dialed" /\ reconnecting' = "reestablishing"
          /\ todo' = {tenantConsumers[o] : o \in Orgs} \ {None}
      BY <1>6 DEF SnapshotTenants
    <2>a. ~Asking
      BY <1>6 DEF SnapshotTenants, OnlyTheBroker, Settled, Live, Asking
    <2>2. Ages /\ Made' = Made /\ NoAbandonedChannel' /\ ~Asking'
      BY <1>1, <1>2, <2>1, <2>a DEF tenantVars
    <2>3. Recovering /\ Recovering'
      BY <2>1 DEF Recovering
    <2>4. ASSUME NEW k \in todo' PROVE Registered(k)' /\ ~ChannelOpen(k)'
      <3>1. k \in Made /\ Registered(k)
        BY <2>1, <2>4 DEF CoreInv, NewestRegistered, Registered
      <3> QED
        BY <1>3, <2>1, <2>3, <3>1 DEF RecoveryInv
    <2>5. main' = "up"
      BY <2>1 DEF RecoveryInv, mainVars
    <2> QED
      BY <2>1, <2>2, <2>3, <2>4, <2>5 DEF RecoveryInv, Ages, mainVars
  <1>7. CASE RedoTenant
    <2>1. /\ redo \in Made /\ redo' \in {redo, None} /\ Subscribing(OrgOf(redo), Root)
          /\ UNCHANGED <<listening, handlers, mainVars, signal, reconnecting, todo, shutdown>>
      BY <1>7 DEF RedoTenant, RestInv, Subscribing
    <2>2. OrgOf(redo) \in Orgs /\ reconnecting = "reestablishing"
      BY <2>1, MadeIs DEF CoreInv, RecoveryInv, None
    <2>3. \A k : InHand(k) => InHand(k)'
      BY <2>1 DEF InHand
    <2>4. \A g \in Generations : handlers'[g] \in {handlers[g], Idle}
      BY <2>1
    <2> QED
      BY <2>1, <2>2, <2>3, <2>4, SubscriptionMoves
  <1>8. CASE ReconnectDone
    <2>1. /\ UNCHANGED <<tenantVars, handlers, main, todo, redo, shutdown>>
          /\ reconnecting = "reestablishing" /\ reconnecting' = "no" /\ signal' = FALSE
          /\ notice' = nextNotice /\ nextNotice' = {} /\ todo = {} /\ redo = None
      BY <1>8 DEF ReconnectDone
    <2>2. Ages /\ Made' = Made /\ NoAbandonedChannel' /\ ~Asking'
      BY <1>1, <1>2, <2>1 DEF tenantVars, RecoveryInv
    <2>3. ~Recovering' /\ main' = "up"
      BY <2>1 DEF Recovering, RecoveryInv
    <2> QED
      BY <2>1, <2>2, <2>3 DEF RecoveryInv, Ages
  <1>9. ~ReconnectFails /\ ~ReconnectAborts
    BY DEF ReconnectFails, ReconnectAborts, OnlyTheBroker, RecoveryInv
  <1> QED
    BY <1>4, <1>5, <1>6, <1>7, <1>8, <1>9, DropRecovery DEF Reconnecting

\* A fault finds nothing under way, and closes channels only; the restart of the
\* broker closes them all.
LEMMA FaultRecovery ==
    ASSUME CoreInv, RestInv, RecoveryInv, Failing, OnlyTheBroker
    PROVE  RecoveryInv'
  <1>1. pool \in PoolType /\ \A K : ConnectionsLost(pool, K) \in PoolType
    BY ConnectionsLostEffect DEF CoreInv, CoreTypes
  <1>c. Calm /\ ~Asking
    <2>1. Calm
      BY DEF Failing, TenantChannelLost, VhostConnectionLost, MainChannelLost,
         MainConnectionLost, BrokerRestarts, Fault, OnlyTheBroker
    <2> QED
      BY <2>1 DEF Calm, Settled, Live, Asking
  <1>2. CASE \E k \in Made : TenantChannelLost(k)
    <2>1. PICK k \in Made : TenantChannelLost(k)
      BY <1>2
    <2>2. PICK c : c = [consumers[k] EXCEPT !.channel = FALSE]
      OBVIOUS
    <2>3. c \in Consumer /\ c.org = OrgOf(k) /\ c.conn = consumers[k].conn /\ ~c.channel
      BY <2>2, MadeIs DEF CoreInv, Consumer, OrgOf
    <2>4. /\ consumers' = [consumers EXCEPT ![k] = c]
          /\ UNCHANGED <<pool, tenantConsumers, handlers, listening, mainVars, signal, recVars,
                         shutdown>>
      BY <2>1, <2>2 DEF TenantChannelLost
    <2>5. Changes(k, c)
      BY <2>3, <2>4 DEF Changes
    <2>6. Ages /\ Made' = Made
      BY <1>1, <2>3, <2>4, <2>5, OneChanges, PoolGoesForward DEF RecoveryInv
    <2>7. c.loop = consumers[k].loop
      BY <2>2, MadeIs, ConsumerFates DEF CoreInv
    <2>8. consumers'[k] = c /\ \A j \in Made \ {k} : consumers'[j] = consumers[j]
      BY <2>5, ConsumerChanges DEF CoreInv
    <2>9. ~Asking'
      BY <1>c, <2>6, <2>7, <2>8 DEF Asking
    <2> QED
      BY <2>4, <2>6, <2>9, OthersMove DEF mainVars, recVars, Recovering
  <1>3. ASSUME NEW K, pool' = ConnectionsLost(pool, K), UNCHANGED consumers
        PROVE  Ages /\ Made' = Made /\ ~Asking'
    BY <1>1, <1>3, <1>c, NobodyChanges, PoolGoesForward DEF RecoveryInv, Asking
  <1>4. CASE \E c \in pool.open : VhostConnectionLost(c)
    <2>1. PICK c : VhostConnectionLost(c)
      BY <1>4
    <2>2. /\ pool' = ConnectionsLost(pool, {c})
          /\ UNCHANGED <<consumers, tenantConsumers, handlers, listening, mainVars, signal,
                         recVars, shutdown>>
      BY <2>1 DEF VhostConnectionLost
    <2>3. Ages /\ Made' = Made /\ ~Asking'
      BY <1>3, <2>2
    <2> QED
      BY <2>2, <2>3, OthersMove DEF mainVars, recVars, Recovering
  <1>5. CASE BrokerRestarts
    <2>1. /\ Calm /\ pool' = ConnectionsLost(pool, pool.open) /\ main' = "down"
          /\ ~listening' /\ Notify({"connection", "channel"})
          /\ UNCHANGED <<tenantConsumers, consumers, handlers, signal, recVars, shutdown>>
      BY <1>5 DEF BrokerRestarts, Fault, OnlyTheBroker
    <2>2. Ages /\ Made' = Made /\ ~Asking'
      BY <1>3, <2>1
    <2>3. pool'.open = {}
      BY <1>1, <2>1, ConnectionsLostEffect
    <2>4. \A k \in Made' : ~ChannelOpen(k)'
      BY <2>3 DEF ChannelOpen
    <2>5. reconnecting = "no" /\ nextNotice' = nextNotice
      BY <2>1 DEF Calm, Notify
    <2>6. NoAbandonedChannel' /\ \A g \in Generations : handlers'[g] = Idle
      BY <2>1, <2>4 DEF NoAbandonedChannel, Calm
    <2> QED
      BY <2>1, <2>2, <2>4, <2>5, <2>6 DEF RecoveryInv, Ages, recVars
  <1>6. ~MainChannelLost /\ ~MainConnectionLost
    BY DEF MainChannelLost, MainConnectionLost, Fault, OnlyTheBroker
  <1> QED
    BY <1>2, <1>4, <1>5, <1>6 DEF Failing

LEMMA RecoveryStep ==
    ASSUME CoreInv, RestInv, RecoveryInv, [Next]_vars, OnlyTheBroker, pool' \in PoolType
    PROVE  RecoveryInv'
  <1>1. CASE Monitoring
    <2>1. /\ pool' = InvalidateAll(pool) \/ pool' = pool
          /\ Recovering /\ Recovering'
          /\ UNCHANGED <<tenantConsumers, consumers, handlers, listening, main, nextNotice,
                         recVars, shutdown>>
      BY <1>1 DEF Monitoring, HandleConnectionClosed, HandleChannelClosed, Noticed, Recovering,
         tenantVars
    <2>2. Ages /\ Made' = Made /\ Asking' = Asking
      BY <2>1, NobodyChanges, PoolGoesForward DEF RecoveryInv, CoreInv, CoreTypes, Asking
    <2>3. Asking' => Recovering' /\ reconnecting' # "reestablishing"
      BY <2>1, <2>2 DEF RecoveryInv, recVars
    <2> QED
      BY <2>1, <2>2, <2>3, OthersMove DEF recVars
  <1>2. ~Stopping
    <2>1. ~(shutdown.closed < shutdown.halted) /\ ~shutdown.asked
      BY DEF RecoveryInv, RestInv, Shutdown
    <2>2. ~StopAllConsumers /\ ~ClosePool /\ ~ListenerStops
      BY <2>1 DEF StopAllConsumers, ClosePool, ListenerStops
    <2>3. ~AskToStop
      BY DEF AskToStop, OnlyTheBroker
    <2> QED
      BY <2>2, <2>3 DEF Stopping
  <1>3. CASE UNCHANGED vars
    <2>1. UNCHANGED <<pool, consumers, tenantConsumers, handlers, listening, mainVars, signal,
                      recVars, shutdown>>
      BY <1>3 DEF vars, tenantVars
    <2>2. Ages /\ Made' = Made /\ Asking' = Asking
      BY <2>1, NobodyChanges, PoolGoesForward DEF RecoveryInv, CoreInv, CoreTypes, Asking
    <2>3. Asking' => Recovering' /\ reconnecting' # "reestablishing"
      BY <2>1, <2>2 DEF RecoveryInv, Recovering, recVars, mainVars
    <2> QED
      BY <2>1, <2>2, <2>3, OthersMove DEF recVars, mainVars, Recovering
  <1> QED
    BY <1>1, <1>2, <1>3, ListenerRecovery, HandlerRecovery, LoopRecovery, ReconnectRecovery,
       FaultRecovery DEF Next

LEMMA RecoveryInit == Init => RecoveryInv
  <1> SUFFICES ASSUME Init PROVE RecoveryInv
    OBVIOUS
  <1>1. Made = {} /\ pool.open = {}
    BY DEF Init, Made, EmptyPool
  <1> QED
    BY <1>1 DEF Init, RecoveryInv, Recovering, Fresh, NoAbandonedChannel, Asking

LEMMA RecoverySafety == ASSUME OnlyTheBroker PROVE Spec => []RecoveryInv
  <1>1. Init => RecoveryInv
    BY RecoveryInit
  <1>2. (CoreInv /\ RestInv) /\ (CoreInv /\ RestInv)' /\ RecoveryInv /\ [Next]_vars => RecoveryInv'
    BY RecoveryStep DEF CoreInv, CoreTypes
  <1>3. Spec => [](CoreInv /\ RestInv)
    BY Safety, PTL
  <1> QED
    BY <1>1, <1>2, <1>3, PTL DEF Spec

-----------------------------------------------------------------------------
\* The map never holds anything but the newest consumer made for an organization,
\* whatever events, recoveries and resubscriptions interleave
\* (tenant_manager.go:48-105, 116-120; connection.go:262-269).
THEOREM NewestStaysRegistered == Spec => []NewestRegistered
  <1>1. CoreInv => NewestRegistered
    BY DEF CoreInv
  <1> QED
    BY <1>1, Safety, PTL

\* No vhost is ever counted more often than there are consumers that have not
\* released it and resubscriptions and failed subscriptions about to: no interleaving of events, recovery and
\* shutdown leaks a count of its own (tenant_manager.go:55-91, 133, 194, 221-235).
THEOREM CountsStayCovered == Spec => []CountsCovered
  <1>1. CoreInv => CountsCovered
    BY DEF CoreInv
  <1> QED
    BY <1>1, Safety, PTL

\* Until a connection is lost, recovery replaces tenants or shutdown begins, a vhost
\* is counted exactly once for each consumer registered or being unsubscribed, for
\* each resubscription and for the subscription that has just failed: every error path gives back what it took
\* (tenant_manager.go:55-91, 221-235).
THEOREM CountsStayExact == Spec => []CountsExact
  <1>1. ExactInv => CountsExact
    BY DEF ExactInv, Undisturbed, Counted, InUse, Users, CountsExact
  <1> QED
    BY <1>1, Safety, PTL

\* When the broker takes every connection at once, and each such fault, lost channel
\* or lost vhost is recovered from before the next: an open channel is that of the
\* registered consumer of its organization, or of one being unsubscribed.  Whatever
\* recovery has taken out of the map receives nothing.  That takes the loops the
\* fault woke to be through before tenants are redone (Prompt): a request sent later
\* starts a second recovery, over channels that are open
\* (tenant_manager.go:113-136, 208-226; connection.go:253-280).
THEOREM NoChannelIsAbandoned ==
    ASSUME OnlyTheBroker
    PROVE  Spec => []NoAbandonedChannel
  <1>1. RecoveryInv => NoAbandonedChannel
    BY DEF RecoveryInv
  <1> QED
    BY <1>1, RecoverySafety, PTL

\* The state of the manager is what its structs can hold: a tenant being redone
\* and the one an unsubscription has in hand are consumers that were made.
THEOREM TypeCorrect == Spec => []TypeOK
  <1>1. CoreInv /\ RestInv /\ LockInv => TypeOK
    <2> SUFFICES ASSUME CoreInv, RestInv, LockInv PROVE TypeOK
      OBVIOUS
    <2>1. Made \subseteq Ids
      BY MadeIs DEF CoreInv
    <2> QED
      BY <2>1 DEF CoreInv, CoreTypes, RestInv, LockInv, TypeOK
  <1> QED
    BY <1>1, Safety, PTL

=============================================================================
