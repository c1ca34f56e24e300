------------------------- MODULE HealthCheckProofs -------------------------
(***************************************************************************)
(* Proofs about orders on the bounded connection pool, alone and beside    *)
(* health probes, for any number of sessions and probes and any size of    *)
(* the pool.                                                               *)
(***************************************************************************)
EXTENDS HealthCheck, OrderPlacementProofs

-----------------------------------------------------------------------------
(* The pool.                                                               *)

\* Where one step takes its session.
Moves(s, From, To) ==
  /\ pc[s] \in From
  /\ \E label \in To : pc' = [pc EXCEPT ![s] = label]
  /\ (pc[s] = "reply" /\ s \notin EarlyReply) => pc'[s] = "done"

LEMMA AbortMoves ==
  ASSUME PlacementTypeOK, NEW s \in Session, NEW r, Abort(s, r)
  PROVE  pc' = [pc EXCEPT ![s] = "done"]
  BY DEF Abort, Goto

\* A victim of a deadlock is waiting.
LEMMA VictimWaits ==
  ASSUME NEW s \in Session, DeadlockVictim(s)
  PROVE  pc[s] \in {"lock", "flush"} /\ Abort(s, "error")
<1>1. PICK C \in SUBSET Session : s \in C /\ \E next \in Bijection(C, C) : \A t \in C : WaitsFor(t, next[t])
  BY DEF DeadlockVictim, Deadlocked
<1>2. PICK t : WaitsFor(s, t)
  BY <1>1
<1> QED
  BY <1>2 DEF WaitsFor, DeadlockVictim

LEMMA ServeMoves ==
  ASSUME PlacementTypeOK, NEW s \in Session, Serve(s)
  PROVE  Moves(s, {"key", "lock", "save", "flush", "reply"},
                  {"lock", "save", "flush", "reply", "done"})
<1> USE DEF Moves, PlacementTypeOK
<1>1. CASE Replay(s) \/ Validate(s) \/ Reserve(s) \/ Publish(s) \/ Reply(s)
  BY <1>1 DEF Replay, Validate, Reserve, AllLocked, Publish, Reply, HandlerReturns, Goto
<1>2. CASE \E p \in Product : LockRow(s, p) \/ SaveInventory(s, p)
  <2>1. pc' = [pc EXCEPT ![s] = pc[s]] /\ pc[s] \in {"lock", "save"}
    BY <1>2 DEF LockRow, SaveInventory
  <2> QED
    BY <2>1
<1>3. CASE RejectProduct(s) \/ RejectStock(s) \/ MissingRow(s) \/ KeyTaken(s)
  BY <1>3, AbortMoves DEF RejectProduct, RejectStock, MissingRow, KeyTaken, AllLocked
<1>4. CASE DeadlockVictim(s)
  BY <1>4, VictimWaits, AbortMoves
<1>5. CASE InsertKey(s)
  <2>1. pc' = [pc EXCEPT ![s] = pc[s]] /\ pc[s] = "flush"
    BY <1>5 DEF InsertKey, requestVars
  <2> QED
    BY <2>1
<1>6. CASE CommitSession(s)
  BY <1>6 DEF CommitSession, CommitOrder, Flushed, Goto
<1> QED
  BY <1>1, <1>2, <1>3, <1>4, <1>5, <1>6 DEF Serve

\* A pooled step is a placement step, or takes a connection.
LEMMA PooledStep ==
  ASSUME [PooledNext]_poolVars
  PROVE  [PlacementNext]_placementVars
<1>1. ASSUME NEW s \in Session, PoolTimeout(s) PROVE Fail(s)
  BY <1>1 DEF PoolTimeout, NeedsConnection, Fail
<1> QED
  BY <1>1 DEF PooledNext, poolVars, Acquire, ServePooled, PlacementNext

LEMMA ConnectedInit == PooledInit => ConnectedWhenNeeded
  BY DEF PooledInit, PlacementInit, ConnectedWhenNeeded, InTransaction

LEMMA ConnectedNext ==
  ASSUME ConnectedWhenNeeded, PlacementTypeOK, [PooledNext]_poolVars
  PROVE  ConnectedWhenNeeded'
<1> USE DEF ConnectedWhenNeeded, InTransaction
<1>1. CASE UNCHANGED poolVars
  BY <1>1 DEF poolVars, placementVars, requestVars
<1>2. ASSUME NEW s \in Session, Begin(s), UNCHANGED connected PROVE ConnectedWhenNeeded'
  BY <1>2 DEF Begin, Goto, PlacementTypeOK
<1>3. ASSUME NEW s \in Session, Acquire(s) PROVE ConnectedWhenNeeded'
  BY <1>3 DEF Acquire, NeedsConnection, placementVars, requestVars
<1>4. ASSUME NEW s \in Session, PoolTimeout(s) PROVE ConnectedWhenNeeded'
  <2>1. pc' = [pc EXCEPT ![s] = "done"]
    BY <1>4, AbortMoves DEF PoolTimeout
  <2> QED
    BY <1>4, <2>1 DEF PoolTimeout, NeedsConnection, PlacementTypeOK
<1>5. ASSUME NEW s \in Session, ServePooled(s) PROVE ConnectedWhenNeeded'
  <2>1. Moves(s, {"key", "lock", "save", "flush", "reply"},
                 {"lock", "save", "flush", "reply", "done"})
    BY <1>5, ServeMoves DEF ServePooled
  <2> QED
    BY <1>5, <2>1 DEF ServePooled, NeedsConnection, GiveBack, Moves, PlacementTypeOK
<1>6. ASSUME NEW s \in Session, Fail(s) \/ CommitUnacknowledged(s), GiveBack(s)
      PROVE  ConnectedWhenNeeded'
  <2>1. pc' = [pc EXCEPT ![s] = "done"]
    BY <1>6, AbortMoves DEF Fail, CommitUnacknowledged, Goto
  <2> QED
    BY <1>6, <2>1 DEF GiveBack, PlacementTypeOK
<1>7. CASE Terminating /\ UNCHANGED connected
  BY <1>7 DEF Terminating, placementVars, requestVars
<1> QED
  <2> HIDE DEF ConnectedWhenNeeded
  <2> QED BY <1>1, <1>2, <1>3, <1>4, <1>5, <1>6, <1>7 DEF PooledNext

-----------------------------------------------------------------------------
\* On a pool of any size the API is still what OrderPlacement says of it: all
\* that is proved of placement holds (database.py: pool_size, max_overflow).
THEOREM PoolImplementsPlacement == PooledSpec => ImplementsPlacement
<1>1. PooledInit => PlacementInit
  BY DEF PooledInit
<1>2. [PooledNext]_poolVars => [PlacementNext]_placementVars
  BY PooledStep
<1> QED
  BY <1>1, <1>2, PTL DEF PooledSpec, ImplementsPlacement, PlacementSpec

\* A session has a connection exactly from its first query to its end.
THEOREM PoolInvariant == PooledSpec => []ConnectedWhenNeeded
<1>1. PlacementIInv => PlacementTypeOK
  BY DEF PlacementIInv
<1>2. PlacementTypeOK /\ ConnectedWhenNeeded /\ [PooledNext]_poolVars => ConnectedWhenNeeded'
  BY ConnectedNext
<1>3. PooledSpec => []PlacementIInv
  BY PoolImplementsPlacement, PlacementInvariant, PTL DEF ImplementsPlacement
<1> QED
  BY <1>1, <1>2, <1>3, ConnectedInit, PTL DEF PooledSpec

\* The session that others wait for, at a row or at a key, never waits for a
\* connection: the pool cannot deadlock with the row locks.
THEOREM LockHoldersAreConnected == PooledSpec => []HoldersAreConnected
<1>1. PlacementIInv /\ ConnectedWhenNeeded => HoldersAreConnected
  <2>1. SUFFICES ASSUME PlacementIInv, ConnectedWhenNeeded, NEW s \in Session,
                        (\E p \in Product : lock[p] = s) \/ (\E k \in Key : inserting[k] = s)
                 PROVE  s \in connected
    BY DEF HoldersAreConnected
  <2>2. RestPhase(s) /\ pc[s] \in {"idle", "key", "lock", "save", "flush", "reply", "done"}
    BY <2>1 DEF PlacementIInv, SessionOK, PlacementTypeOK
  <2>3. ~HoldsNothing(s)
    BY <2>1 DEF HoldsNothing
  <2>4. InTransaction(s)
    BY <2>2, <2>3 DEF RestPhase, InTransaction
  <2> QED
    BY <2>1, <2>4 DEF ConnectedWhenNeeded
<1>2. PooledSpec => []PlacementIInv
  BY PoolImplementsPlacement, PlacementInvariant, PTL DEF ImplementsPlacement
<1> QED
  BY <1>1, <1>2, PoolInvariant, PTL

-----------------------------------------------------------------------------
(* The probes.                                                             *)

\* A step with probes is a step of the pool without them.  A wait that the
\* probes made time out is a failure of its session.
LEMMA HealthStep ==
  ASSUME [HealthNext]_healthVars
  PROVE  [PooledNext]_poolVars
<1>1. ASSUME NEW h \in Probe,
             StartProbe(h) \/ Connect(h) \/ SelectOne(h) \/ SelectFails(h) \/ Ping(h) \/ PingFails(h)
      PROVE  UNCHANGED poolVars
  BY <1>1 DEF StartProbe, Connect, SelectOne, SelectFails, Ping, PingFails, Respond
<1>2. ASSUME NEW s \in Session, ServeOrder(s) PROVE PooledNext
  BY <1>2 DEF ServeOrder, PooledNext
<1>3. ASSUME NEW s \in Session, OrderTimesOut(s) PROVE PooledNext
  <2>1. Fail(s)
    BY <1>3 DEF OrderTimesOut, NeedsConnection, Fail
  <2>2. connected \ {s} = connected
    BY <1>3 DEF OrderTimesOut, NeedsConnection
  <2>3. GiveBack(s)
    BY <1>3, <2>2 DEF OrderTimesOut, GiveBack
  <2> QED
    BY <2>1, <2>3 DEF PooledNext
<1>4. CASE Terminating /\ UNCHANGED <<connected, probeVars>>
  BY <1>4 DEF PooledNext
<1>5. CASE UNCHANGED healthVars
  BY <1>5 DEF healthVars
<1> QED
  BY <1>1, <1>2, <1>3, <1>4, <1>5 DEF HealthNext

\* Nothing that is proved of orders on the pool is lost when a load balancer
\* probes the process: the probes cost connections and nothing else.
THEOREM ProbesOnlyCostConnections == HealthSpec => ImplementsPool
<1>1. HealthInit => PooledInit
  BY DEF HealthInit
<1>2. [HealthNext]_healthVars => [PooledNext]_poolVars
  BY HealthStep
<1> QED
  BY <1>1, <1>2, PTL DEF HealthSpec, ImplementsPool, PooledSpec

-----------------------------------------------------------------------------
\* Connections that go back leave the others, and their number shrinks.
LEMMA GivenBack ==
  ASSUME IsFiniteSet(connected), NEW s \in Session, GiveBack(s)
  PROVE  /\ IsFiniteSet(connected')
         /\ Cardinality(connected') \in Nat
         /\ Cardinality(connected') <= Cardinality(connected)
<1>1. connected' \subseteq connected
  BY DEF GiveBack
<1> QED
  BY <1>1, FS_Subset, FS_CardinalityType

\* One more connection in use, or the same.
LEMMA OneMore ==
  ASSUME NEW S, NEW x, IsFiniteSet(S)
  PROVE  /\ IsFiniteSet(S \cup {x})
         /\ Cardinality(S) \in Nat
         /\ Cardinality(S \cup {x}) \in Nat
         /\ Cardinality(S \cup {x}) <= Cardinality(S) + 1
  BY FS_AddElement, FS_CardinalityType

\* One connection less in use, or the same.
LEMMA OneLess ==
  ASSUME NEW S, NEW x, IsFiniteSet(S)
  PROVE  /\ IsFiniteSet(S \ {x})
         /\ Cardinality(S) \in Nat
         /\ Cardinality(S \ {x}) \in Nat
         /\ Cardinality(S \ {x}) <= Cardinality(S)
  BY FS_Subset, FS_CardinalityType

LEMMA HealthInitial == HealthInit => HealthIInv
<1> SUFFICES ASSUME HealthInit PROVE HealthIInv
  OBVIOUS
<1>1. connected = {} /\ probing = {}
  BY DEF HealthInit, PooledInit
<1>2. IsFiniteSet({}) /\ Cardinality({}) = 0
  BY FS_EmptySet
<1>3. PoolIsShared
  BY <1>1, <1>2, PoolAssumption DEF PoolIsShared, InUse
<1> QED
  BY <1>1, <1>2, <1>3 DEF HealthInit, HealthIInv, HealthTypeOK, ProbesWaitEmptyHanded, ChecksAreFresh

\* The steps of a probe.
LEMMA ProbeKeeps ==
  ASSUME HealthIInv, NEW h \in Probe,
         StartProbe(h) \/ Connect(h) \/ SelectOne(h) \/ SelectFails(h) \/ Ping(h) \/ PingFails(h)
  PROVE  HealthIInv'
<1> USE DEF HealthIInv, HealthTypeOK, ProbesWaitEmptyHanded, ChecksAreFresh
<1> DEFINE Counted == IsFiniteSet(connected) /\ IsFiniteSet(probing) /\ PoolIsShared
<1>1. UNCHANGED connected
  BY DEF StartProbe, Connect, SelectOne, SelectFails, Ping, PingFails, Respond, poolVars
<1>2. Cardinality(connected) \in Nat /\ Cardinality(probing) \in Nat
  BY FS_CardinalityType
<1>3. ASSUME UNCHANGED probing PROVE Counted'
  BY <1>1, <1>3 DEF PoolIsShared, InUse
<1>4. ASSUME probing' = probing \ {h} PROVE Counted'
  <2>1. /\ IsFiniteSet(probing \ {h})
        /\ Cardinality(probing \ {h}) \in Nat
        /\ Cardinality(probing \ {h}) <= Cardinality(probing)
    BY OneLess
  <2> QED
    BY <1>1, <1>2, <1>4, <2>1, PoolAssumption DEF PoolIsShared, InUse
<1>5. CASE StartProbe(h)
  <2>1. Counted'
    BY <1>3, <1>5 DEF StartProbe
  <2> QED
    BY <1>5, <2>1 DEF StartProbe, Goes
<1>6. CASE Connect(h)
  <2>1. Counted'
    <3>1. /\ IsFiniteSet(probing \cup {h})
          /\ Cardinality(probing \cup {h}) \in Nat
          /\ Cardinality(probing \cup {h}) <= Cardinality(probing) + 1
      BY OneMore
    <3> QED
      BY <1>1, <1>2, <1>6, <3>1, PoolAssumption DEF Connect, PoolIsShared, InUse
  <2> QED
    BY <1>6, <2>1 DEF Connect
<1>7. CASE SelectOne(h) \/ SelectFails(h)
  <2>1. Counted'
    BY <1>4, <1>7 DEF SelectOne, SelectFails
  <2> QED
    BY <1>7, <2>1 DEF SelectOne, SelectFails, Goes
<1>8. CASE Ping(h) \/ PingFails(h)
  <2>1. Counted'
    BY <1>3, <1>8 DEF Ping, PingFails, Respond
  <2> QED
    BY <1>8, <2>1 DEF Ping, PingFails, Respond, Goes
<1> QED
  BY <1>5, <1>6, <1>7, <1>8

\* The steps of an order.
LEMMA OrderKeeps ==
  ASSUME HealthIInv, NEW s \in Session, ServeOrder(s) \/ OrderTimesOut(s), UNCHANGED probeVars
  PROVE  HealthIInv'
<1> USE DEF HealthIInv
<1>1. Cardinality(connected) \in Nat /\ Cardinality(probing) \in Nat
  BY FS_CardinalityType
<1>2. HealthTypeOK' /\ ProbesWaitEmptyHanded' /\ ChecksAreFresh' /\ IsFiniteSet(probing)'
  BY DEF probeVars, HealthTypeOK, ProbesWaitEmptyHanded, ChecksAreFresh
<1>3. IsFiniteSet(connected)' /\ PoolIsShared'
  <2>1. CASE UNCHANGED connected
    BY <2>1 DEF probeVars, PoolIsShared, InUse
  <2>2. CASE GiveBack(s)
    BY <1>1, <2>2, GivenBack, PoolAssumption DEF probeVars, PoolIsShared, InUse
  <2>3. CASE InUse < PoolSize /\ Acquire(s)
    <3>1. /\ IsFiniteSet(connected \cup {s})
          /\ Cardinality(connected \cup {s}) \in Nat
          /\ Cardinality(connected \cup {s}) <= Cardinality(connected) + 1
      BY OneMore
    <3> QED
      BY <1>1, <2>3, <3>1, PoolAssumption DEF Acquire, probeVars, PoolIsShared, InUse
  <2> QED
    BY <2>1, <2>2, <2>3 DEF ServeOrder, OrderTimesOut, ServePooled
<1> QED
  BY <1>2, <1>3

\* The inductive invariant of the shared pool.
THEOREM HealthInvariant == HealthSpec => []HealthIInv
<1>1. ASSUME HealthIInv, [HealthNext]_healthVars PROVE HealthIInv'
  <2>1. CASE UNCHANGED <<connected, probeVars>>
    BY <1>1, <2>1 DEF HealthIInv, HealthTypeOK, ProbesWaitEmptyHanded, ChecksAreFresh, PoolIsShared, InUse, probeVars
  <2> QED
    BY <1>1, <2>1, ProbeKeeps, OrderKeeps DEF HealthNext, healthVars, poolVars
<1> QED
  BY <1>1, HealthInitial, PTL DEF HealthSpec

\* Orders and probes share the pool and never exceed it.
THEOREM PoolIsNotExceeded == HealthSpec => []PoolIsShared
<1>1. HealthIInv => PoolIsShared
  BY DEF HealthIInv
<1> QED
  BY <1>1, HealthInvariant, PTL

\* A probe that waits for Redis has given its connection back.
THEOREM WaitingProbesHoldNothing == HealthSpec => []ProbesWaitEmptyHanded
<1>1. HealthIInv => ProbesWaitEmptyHanded
  BY DEF HealthIInv
<1> QED
  BY <1>1, HealthInvariant, PTL

-----------------------------------------------------------------------------
(* From the probes down to the ledger.                                     *)

\* POST /orders, on a pool of any size that health probes share, implements
\* the ledger in which orders appear atomically.
THEOREM OrdersBesideProbesImplementLedger == HealthSpec => ImplementsLedger
<1>1. HealthSpec => PlacementSpec
  BY ProbesOnlyCostConnections, PoolImplementsPlacement, PTL DEF ImplementsPool, ImplementsPlacement
<1> QED
  BY <1>1, PlacementImplementsLedger, PTL

\* There too the stock reserved is what the committed orders hold.
THEOREM StockBacksOrdersBesideProbes == HealthSpec => []StockBacksOrders
<1>1. HealthSpec => PlacementSpec
  BY ProbesOnlyCostConnections, PoolImplementsPlacement, PTL DEF ImplementsPool, ImplementsPlacement
<1> QED
  BY <1>1, StockAlwaysBacksOrders, PTL

\* There too whoever others wait for, at a row or at a key, has a connection
\* and does not queue behind the probes for one.
THEOREM HoldersAreConnectedBesideProbes == HealthSpec => []HoldersAreConnected
  BY ProbesOnlyCostConnections, LockHoldersAreConnected, PTL DEF ImplementsPool
=============================================================================
