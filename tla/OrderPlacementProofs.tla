------------------------ MODULE OrderPlacementProofs ------------------------
(***************************************************************************)
(* Proofs about POST /orders for every set of sessions, products, keys and *)
(* requests.  First: every step of the placement path is a step of the     *)
(* inventory table or leaves it alone, so the table's invariant comes for  *)
(* free.  Then PlacementIInv, which says what a session holds at each point *)
(* of its request, is inductive; and from it the path implements the       *)
(* atomic ledger of orders.                                                *)
(***************************************************************************)
EXTENDS OrderPlacement, InventoryRowsProofs, FiniteSums

\* The amounts of a request are amounts the inventory table knows.
LEMMA RequestType ==
  ASSUME NEW r \in Request
  PROVE  r.amount \in Amount /\ r.amount \in [Product -> Nat] /\ r.key \in Key \cup {NoKey}
  BY PlacementAssumption, RowsAssumption

LEMMA PlacementInitInv == PlacementInit => PlacementIInv
  <1> SUFFICES ASSUME PlacementInit PROVE PlacementIInv
    OBVIOUS
  <1> USE PlacementAssumption, RowsAssumption DEF PlacementInit
  <1>1. RowsIInv
    BY RowsInitInv
  <1>2. PlacementTypeOK
    BY <1>1 DEF PlacementTypeOK, RowsIInv
  <1>3. \A s \in Session : HoldsNothing(s)
    BY DEF HoldsNothing, RowsInit, NothingHeld
  <1>4. \A s \in Session : SessionOK(s)
    BY <1>3 DEF SessionOK, LockPhase, SavePhase, CommitPhase, RestPhase, Returned
  <1>5. KeysInFlight /\ KeysNameOrders
    BY DEF KeysInFlight, KeysNameOrders
  <1> QED BY <1>1, <1>2, <1>4, <1>5 DEF PlacementIInv

\* Aborting is a rollback of the table.
LEMMA AbortRows ==
  ASSUME NEW s \in Session, NEW r, Abort(s, r)
  PROVE  Rollback(s)
  BY DEF Abort

\* The placement path touches the table only as the repository does.
LEMMA StepsAreRowSteps ==
  ASSUME PlacementIInv, [PlacementNext]_placementVars
  PROVE  [RowsNext]_rowsVars
  <1>1. ASSUME NEW s \in Session, Serve(s) \/ Begin(s) \/ Fail(s) \/ CommitUnacknowledged(s)
        PROVE  RowStep(s) \/ UNCHANGED rowsVars
    <2>1. (\E r : Abort(s, r)) => RowStep(s)
      BY AbortRows DEF RowStep
    <2>2. CASE RejectProduct(s) \/ RejectStock(s) \/ MissingRow(s) \/ KeyTaken(s)
                 \/ DeadlockVictim(s) \/ Fail(s)
      BY <2>1, <2>2 DEF RejectProduct, RejectStock, MissingRow, KeyTaken, DeadlockVictim, Fail
    <2>3. CASE \E p \in Product : LockRow(s, p) \/ SaveInventory(s, p)
      BY <2>3 DEF LockRow, SaveInventory, RowStep
    <2>4. CASE Reserve(s)
      <3>1. request[s].amount \in Amount
        BY <2>4, RequestType DEF Reserve, AllLocked, PlacementIInv, SessionOK, RestPhase
      <3> QED BY <2>4, <3>1 DEF Reserve, RowStep
    <2>5. CASE CommitSession(s) \/ CommitUnacknowledged(s)
      BY <2>5 DEF CommitSession, CommitUnacknowledged, CommitOrder, RowStep
    <2>6. CASE Begin(s) \/ Replay(s) \/ Validate(s) \/ Publish(s) \/ InsertKey(s) \/ Reply(s)
      BY <2>6 DEF Begin, Replay, Validate, Publish, InsertKey, Reply
    <2> QED BY <1>1, <2>2, <2>3, <2>4, <2>5, <2>6 DEF Serve
  <1>2. Terminating \/ UNCHANGED placementVars => UNCHANGED rowsVars
    BY DEF Terminating, placementVars
  <1> QED BY <1>1, <1>2 DEF PlacementNext, RowsNext

-----------------------------------------------------------------------------
(* What a step of session s leaves alone.                                  *)

Frame(s) ==
  /\ \A t \in Session \ {s} :
       /\ pc'[t] = pc[t] /\ request'[t] = request[t] /\ todo'[t] = todo[t]
       /\ result'[t] = result[t] /\ response'[t] = response[t]
       /\ pending'[t] = pending[t] /\ loaded'[t] = loaded[t]
       /\ \A p \in Product : lock'[p] = t <=> lock[p] = t
       /\ \A k \in Key : inserting'[k] = t <=> inserting[k] = t
       /\ t \in placed' <=> t \in placed
  /\ placed \subseteq placed'
  /\ events \subseteq events'
  /\ \A k \in Key : keys[k] # NoSession => keys'[k] = keys[k]

\* The other sessions stay where they were.
LEMMA OthersStay ==
  ASSUME PlacementIInv, NEW s \in Session, Frame(s), NEW t \in Session \ {s}
  PROVE  SessionOK(t)'
  <1>1. SessionOK(t)
    BY DEF PlacementIInv
  <1>2. /\ KeyOf(t)' = KeyOf(t) /\ Wanted(t)' = Wanted(t)
        /\ Wanted(t) \subseteq Product
        /\ \A p \in Product : NetOf(t, p)' = NetOf(t, p)
    BY DEF Frame, KeyOf, Wanted, Involved, NetOf
  <1>3. HoldsNothing(t)' <=> HoldsNothing(t)
    BY DEF Frame, HoldsNothing
  <1>4. LockPhase(t)'
    BY <1>1, <1>2 DEF Frame, SessionOK, LockPhase
  <1>5. SavePhase(t)'
    BY <1>1, <1>2 DEF Frame, SessionOK, SavePhase
  <1>6. CommitPhase(t)'
    BY <1>1, <1>2 DEF Frame, SessionOK, CommitPhase, Returned
  <1>7. RestPhase(t)'
    <2>1. t \in placed /\ KeyOf(t) # NoKey => keys'[KeyOf(t)] = t
      BY <1>1, RequestType, RowsAssumption, PlacementAssumption
         DEF Frame, SessionOK, RestPhase, KeyOf
    <2> QED BY <1>1, <1>2, <1>3, <2>1 DEF Frame, SessionOK, RestPhase
  <1> QED BY <1>4, <1>5, <1>6, <1>7 DEF SessionOK

LEMMA RowsStay ==
  ASSUME PlacementIInv, [PlacementNext]_placementVars
  PROVE  RowsIInv' /\ RowsTypeOK'
  <1>1. RowsIInv /\ [RowsNext]_rowsVars
    BY StepsAreRowSteps DEF PlacementIInv
  <1> QED BY <1>1, RowsNextInv DEF RowsIInv

\* A step that neither commits nor touches the key table.
LEMMA QuietStep ==
  ASSUME PlacementIInv, PlacementNext, NEW s \in Session, Frame(s),
         UNCHANGED <<placed, keys, inserting>>,
         pc[s] # "flush",
         request'[s] = request[s] \/ s \notin placed,
         PlacementTypeOK', SessionOK(s)'
  PROVE  PlacementIInv'
  <1>1. RowsIInv'
    BY RowsStay
  <1>2. \A t \in Session : SessionOK(t)'
    BY OthersStay
  <1>3. KeysInFlight'
    <2> SUFFICES ASSUME NEW k \in Key, inserting[k] # NoSession
                 PROVE  /\ pc'[inserting[k]] = "flush"
                        /\ NeedsKey(inserting[k])'
                        /\ KeyOf(inserting[k])' = k
                        /\ keys[k] = NoSession
      BY DEF KeysInFlight, NeedsKey, KeyOf
    <2>1. inserting[k] \in Session \ {s}
      BY DEF PlacementIInv, PlacementTypeOK, KeysInFlight
    <2> QED BY <2>1 DEF PlacementIInv, KeysInFlight, Frame, NeedsKey, KeyOf
  <1>4. KeysNameOrders'
    <2> SUFFICES ASSUME NEW k \in Key, keys[k] # NoSession
                 PROVE  keys[k] \in placed /\ request'[keys[k]].key = k
      BY DEF KeysNameOrders, KeyOf
    <2>1. keys[k] \in placed /\ request[keys[k]].key = k /\ keys[k] \in Session
      BY DEF PlacementIInv, PlacementTypeOK, KeysNameOrders, KeyOf
    <2>2. request'[keys[k]] = request[keys[k]]
      BY <2>1 DEF Frame
    <2> QED BY <2>1, <2>2
  <1> QED BY <1>1, <1>2, <1>3, <1>4 DEF PlacementIInv

LEMMA BeginInv ==
  ASSUME PlacementIInv, PlacementNext, NEW s \in Session, Begin(s)
  PROVE  PlacementIInv'
  <1> USE DEF Begin, Goto, rowsVars, orderVars
  <1>1. PlacementTypeOK /\ SessionOK(s)
    BY DEF PlacementIInv
  <1>2. PlacementTypeOK'
    BY <1>1, RowsStay DEF PlacementTypeOK
  <1>3. Frame(s)
    BY <1>1 DEF Frame, PlacementTypeOK
  <1>4. s \notin placed /\ HoldsNothing(s)'
    BY <1>1 DEF SessionOK, RestPhase, HoldsNothing
  <1>5. pc'[s] = "key" /\ request'[s] \in Request
    BY <1>1 DEF PlacementTypeOK
  <1>6. SessionOK(s)'
    BY <1>4, <1>5 DEF SessionOK, LockPhase, SavePhase, CommitPhase, RestPhase, Returned
  <1> QED BY <1>2, <1>3, <1>4, <1>6, QuietStep

LEMMA ReplayInv ==
  ASSUME PlacementIInv, PlacementNext, NEW s \in Session, Replay(s)
  PROVE  PlacementIInv'
  <1> USE DEF Replay, HandlerReturns, Goto, rowsVars, orderVars
  <1>1. PlacementTypeOK /\ SessionOK(s)
    BY DEF PlacementIInv
  <1>2. request[s] \in Request /\ s \notin placed /\ HoldsNothing(s)
    BY <1>1 DEF SessionOK, RestPhase
  <1>3. KeyOf(s) \in Key /\ keys[KeyOf(s)] \in placed
    BY <1>2, RequestType DEF PlacementIInv, KeysNameOrders, KeySeen, KeyOf
  <1>4. PlacementTypeOK'
    BY <1>1, <1>3, RowsStay DEF PlacementTypeOK
  <1>5. Frame(s)
    BY <1>1 DEF Frame, PlacementTypeOK
  <1>6. /\ pc'[s] = IF s \in EarlyReply THEN "reply" ELSE "flush"
        /\ result'[s] \in placed
        /\ \A p \in Product : NetOf(s, p)' = 0
    BY <1>1, <1>2, <1>3 DEF PlacementTypeOK, HoldsNothing, NetOf
  <1>7. SessionOK(s)'
    BY <1>2, <1>6 DEF SessionOK, LockPhase, SavePhase, CommitPhase, RestPhase, Returned
  <1> QED BY <1>4, <1>5, <1>7, QuietStep

LEMMA ValidateInv ==
  ASSUME PlacementIInv, PlacementNext, NEW s \in Session, Validate(s)
  PROVE  PlacementIInv'
  <1> USE DEF Validate, Goto, rowsVars, orderVars
  <1>1. PlacementTypeOK /\ SessionOK(s)
    BY DEF PlacementIInv
  <1>2. request[s] \in Request /\ s \notin placed /\ HoldsNothing(s)
    BY <1>1 DEF SessionOK, RestPhase
  <1>3. Wanted(s) \subseteq Product /\ Wanted(s)' = Wanted(s)
    BY DEF Wanted, Involved
  <1>4. PlacementTypeOK'
    BY <1>1, <1>3, RowsStay DEF PlacementTypeOK
  <1>5. Frame(s)
    BY <1>1 DEF Frame, PlacementTypeOK
  <1>6. pc'[s] = "lock" /\ todo'[s] = Wanted(s) /\ \A p \in Product : pending[s][p] = NoRow
    BY <1>1, <1>2 DEF PlacementTypeOK, HoldsNothing
  <1>7. SessionOK(s)'
    BY <1>2, <1>3, <1>6 DEF SessionOK, LockPhase, SavePhase, CommitPhase, RestPhase, Returned
  <1> QED BY <1>4, <1>5, <1>7, QuietStep

LEMMA LockRowInv ==
  ASSUME PlacementIInv, PlacementNext, NEW s \in Session, NEW p \in Product, LockRow(s, p)
  PROVE  PlacementIInv'
  <1> USE DEF LockRow, SelectForUpdate, Hold, LockFree, orderVars
  <1>1. PlacementTypeOK /\ SessionOK(s) /\ RowsTypeOK
    BY DEF PlacementIInv, PlacementTypeOK
  <1>2. request[s] \in Request /\ s \notin placed
    BY <1>1 DEF SessionOK, RestPhase
  <1>3. PlacementTypeOK'
    BY <1>1, RowsStay DEF PlacementTypeOK
  <1>4. Frame(s)
    BY <1>1, RowsAssumption DEF Frame, PlacementTypeOK, RowsTypeOK
  <1>5. Wanted(s)' = Wanted(s) /\ Wanted(s) \subseteq Product
    BY DEF Wanted, Involved
  <1>6. /\ todo'[s] = todo[s] \ {p}
        /\ lock'[p] = s
        /\ loaded'[s][p] # NoRow
        /\ loaded'[s][p].reserved = loaded'[s][p].base
        /\ \A q \in Product \ {p} : lock'[q] = lock[q] /\ loaded'[s][q] = loaded[s][q]
    BY <1>1, ViewType, RowsAssumption DEF PlacementTypeOK, RowsTypeOK, ToDomain
  <1>7. LockPhase(s)'
    BY <1>1, <1>5, <1>6 DEF SessionOK, LockPhase
  <1>8. SessionOK(s)'
    BY <1>2, <1>7 DEF SessionOK, SavePhase, CommitPhase, RestPhase, Returned
  <1> QED BY <1>2, <1>3, <1>4, <1>8, QuietStep

\* InventoryItem.reserve changes nothing but the reserved count.
LEMMA ReservedItem ==
  ASSUME NEW item \in Item, NEW n \in Nat
  PROVE  /\ Reserved(item, n) \in Item
         /\ Reserved(item, n).reserved = item.reserved + n
         /\ Reserved(item, n).base = item.base
  BY DEF Reserved, Item

LEMMA ReserveInv ==
  ASSUME PlacementIInv, PlacementNext, NEW s \in Session, Reserve(s)
  PROVE  PlacementIInv'
  <1> USE DEF Reserve, AllLocked, ReserveItems, Goto, orderVars
  <1>1. PlacementTypeOK /\ SessionOK(s) /\ RowsTypeOK
    BY DEF PlacementIInv, PlacementTypeOK
  <1>2. request[s] \in Request /\ s \notin placed
    BY <1>1 DEF SessionOK, RestPhase
  <1>3. Wanted(s)' = Wanted(s) /\ Wanted(s) \subseteq Product
    BY DEF Wanted, Involved
  <1>4. PlacementTypeOK'
    BY <1>1, <1>3, RowsStay DEF PlacementTypeOK
  <1>5. Frame(s)
    BY <1>1 DEF Frame, PlacementTypeOK, RowsTypeOK
  <1>6. \A p \in Wanted(s) :
          /\ lock[p] = s
          /\ loaded'[s][p] = Reserved(loaded[s][p], request[s].amount[p])
          /\ loaded[s][p] \in Item
          /\ loaded[s][p].reserved = loaded[s][p].base
    BY <1>1, <1>3 DEF SessionOK, LockPhase, Wanted, RowsTypeOK
  <1>7. \A p \in Wanted(s) :
          /\ loaded'[s][p] # NoRow
          /\ loaded'[s][p].reserved = loaded'[s][p].base + request[s].amount[p]
    <2> SUFFICES ASSUME NEW p \in Wanted(s)
                 PROVE  /\ loaded'[s][p] # NoRow
                        /\ loaded'[s][p].reserved = loaded'[s][p].base + request[s].amount[p]
      OBVIOUS
    <2>1. request[s].amount[p] \in Nat
      BY <1>2, <1>3, RequestType
    <2> HIDE DEF Reserve, AllLocked, ReserveItems
    <2>2. loaded[s][p] \in Item
      BY <1>6
    <2> DEFINE n == request[s].amount[p]
    <2>3. /\ Reserved(loaded[s][p], n) \in Item
          /\ Reserved(loaded[s][p], n).reserved = loaded[s][p].reserved + n
          /\ Reserved(loaded[s][p], n).base = loaded[s][p].base
      BY <2>1, <2>2, ReservedItem
    <2>4. loaded'[s][p] = Reserved(loaded[s][p], n) /\ loaded[s][p].reserved = loaded[s][p].base
      BY <1>6
    <2> HIDE DEF n
    <2>5. loaded'[s][p] # NoRow /\ loaded'[s][p].reserved = loaded'[s][p].base + n
      BY <2>3, <2>4, RowsAssumption
    <2> QED BY <2>5 DEF n
  <1>8. \A p \in Product : pending[s][p] = NoRow
    BY <1>1 DEF SessionOK, LockPhase
  <1>9. \A p \in Product \ Wanted(s) : NetOf(s, p)' = request[s].amount[p]
    BY <1>2, <1>8, RequestType DEF NetOf, Wanted, Involved
  <1>10. pc'[s] = "save" /\ todo'[s] = Wanted(s) /\ result'[s] = s
    BY <1>1 DEF PlacementTypeOK
  <1>11. SavePhase(s)'
    BY <1>3, <1>6, <1>7, <1>8, <1>9, <1>10 DEF SavePhase
  <1>12. SessionOK(s)'
    BY <1>2, <1>10, <1>11 DEF SessionOK, LockPhase, CommitPhase, RestPhase, Returned
  <1> QED BY <1>2, <1>4, <1>5, <1>12, QuietStep

LEMMA SaveInventoryInv ==
  ASSUME PlacementIInv, PlacementNext, NEW s \in Session, NEW p \in Product,
         SaveInventory(s, p)
  PROVE  PlacementIInv'
  <1> USE DEF SaveInventory, Save, NewDraft, LockFree, orderVars
  <1>1. PlacementTypeOK /\ SessionOK(s) /\ RowsTypeOK
    BY DEF PlacementIInv, PlacementTypeOK
  <1>2. request[s] \in Request /\ s \notin placed
    BY <1>1 DEF SessionOK, RestPhase
  <1>3. Wanted(s)' = Wanted(s) /\ Wanted(s) \subseteq Product
    BY DEF Wanted, Involved
  <1>4. PlacementTypeOK'
    BY <1>1, RowsStay DEF PlacementTypeOK
  <1>5. Frame(s)
    BY <1>1, RowsAssumption DEF Frame, PlacementTypeOK, RowsTypeOK
  <1>6. /\ p \in Wanted(s)
        /\ pending[s][p] = NoRow
        /\ loaded[s][p] \in Item
        /\ loaded[s][p].reserved = loaded[s][p].base + request[s].amount[p]
        /\ lock' = lock
    BY <1>1 DEF SessionOK, SavePhase, RowsTypeOK
  <1>7. request[s].amount[p] \in Nat
    BY <1>2, RequestType
  <1>8. pending'[s][p] # NoRow
    BY <1>1, <1>4, <1>6, <1>7, RowsAssumption DEF RowsTypeOK, NetOf, Item, Draft
  <1>9. NetOf(s, p)' = request[s].amount[p]
    BY <1>1, <1>6, <1>7, <1>8 DEF RowsTypeOK, NetOf, Item
  <1>10. \A q \in Product \ {p} :
           pending'[s][q] = pending[s][q] /\ NetOf(s, q)' = NetOf(s, q)
    BY <1>1 DEF RowsTypeOK, NetOf
  <1>11. todo'[s] = todo[s] \ {p}
    BY <1>1 DEF PlacementTypeOK
  <1>12. SavePhase(s)'
    BY <1>1, <1>3, <1>6, <1>9, <1>10, <1>11 DEF SessionOK, SavePhase
  <1>13. SessionOK(s)'
    BY <1>2, <1>12 DEF SessionOK, LockPhase, CommitPhase, RestPhase, Returned
  <1> QED BY <1>2, <1>4, <1>5, <1>13, QuietStep

LEMMA PublishInv ==
  ASSUME PlacementIInv, PlacementNext, NEW s \in Session, Publish(s)
  PROVE  PlacementIInv'
  <1> USE DEF Publish, HandlerReturns, Goto, rowsVars
  <1>1. PlacementTypeOK /\ SessionOK(s)
    BY DEF PlacementIInv
  <1>2. request[s] \in Request /\ s \notin placed
    BY <1>1 DEF SessionOK, RestPhase
  <1>3. PlacementTypeOK'
    BY <1>1, RowsStay DEF PlacementTypeOK
  <1>4. Frame(s)
    BY <1>1 DEF Frame, PlacementTypeOK
  <1>5. /\ pc'[s] = IF s \in EarlyReply THEN "reply" ELSE "flush"
        /\ s \in Publisher => s \in events'
        /\ \A p \in Product : NetOf(s, p)' = request[s].amount[p]
        /\ result[s] = s
    BY <1>1 DEF PlacementTypeOK, SessionOK, SavePhase, NetOf
  <1>6. SessionOK(s)'
    BY <1>2, <1>5 DEF SessionOK, LockPhase, SavePhase, CommitPhase, RestPhase, Returned
  <1> QED BY <1>2, <1>3, <1>4, <1>6, QuietStep

LEMMA ReplyInv ==
  ASSUME PlacementIInv, PlacementNext, NEW s \in Session, Reply(s)
  PROVE  PlacementIInv'
  <1> USE DEF Reply, Goto, Answer, rowsVars, orderVars
  <1>1. PlacementTypeOK /\ SessionOK(s)
    BY DEF PlacementIInv
  <1>2. request[s] \in Request
    BY <1>1 DEF SessionOK, RestPhase
  <1>3. PlacementTypeOK'
    BY <1>1, RowsStay DEF PlacementTypeOK
  <1>4. Frame(s)
    BY <1>1 DEF Frame, PlacementTypeOK
  <1>5. pc'[s] = IF s \in EarlyReply THEN "flush" ELSE "done"
    BY <1>1 DEF PlacementTypeOK
  <1>6. /\ HoldsNothing(s)' <=> HoldsNothing(s)
        /\ KeyOf(s)' = KeyOf(s)
        /\ \A p \in Product : NetOf(s, p)' = NetOf(s, p)
    BY DEF HoldsNothing, KeyOf, NetOf
  <1>7. RestPhase(s)'
    BY <1>1, <1>2, <1>5, <1>6 DEF SessionOK, RestPhase
  <1>8. CommitPhase(s)'
    BY <1>1, <1>5, <1>6 DEF SessionOK, CommitPhase, Returned
  <1>9. SessionOK(s)'
    BY <1>5, <1>7, <1>8 DEF SessionOK, LockPhase, SavePhase
  <1> QED BY <1>3, <1>4, <1>9, QuietStep

-----------------------------------------------------------------------------
(* Steps that end the transaction or touch the key table.                  *)

LEMMA AbortInv ==
  ASSUME PlacementIInv, PlacementNext, NEW s \in Session, pc[s] # "idle",
         NEW r \in {"rejected", "error"}, Abort(s, r)
  PROVE  PlacementIInv'
  <1> USE DEF Abort, Rollback, Withdraw, Goto, Answer
  <1>1. PlacementTypeOK /\ SessionOK(s) /\ RowsTypeOK
    BY DEF PlacementIInv, PlacementTypeOK
  <1>2. request[s] \in Request
    BY <1>1 DEF SessionOK, RestPhase
  <1>3. PlacementTypeOK'
    BY <1>1, RowsStay DEF PlacementTypeOK
  <1>4. \A k \in Key : inserting'[k] # s /\ (inserting'[k] = inserting[k] \/ inserting'[k] = NoSession)
    BY RowsAssumption
  <1>5. Frame(s)
    <2>1. \A t \in Session \ {s} :
            /\ pending'[t] = pending[t] /\ loaded'[t] = loaded[t]
            /\ \A p \in Product : lock'[p] = t <=> lock[p] = t
      BY <1>1, RowsAssumption DEF EndSession, ReleaseLocks, RowsTypeOK
    <2>2. \A t \in Session \ {s}, k \in Key : inserting'[k] = t <=> inserting[k] = t
      BY RowsAssumption
    <2>3. \A t \in Session \ {s} :
            /\ pc'[t] = pc[t] /\ todo'[t] = todo[t] /\ response'[t] = response[t]
      BY <1>1 DEF PlacementTypeOK
    <2> QED BY <2>1, <2>2, <2>3 DEF Frame
  <1>6. HoldsNothing(s)'
    BY <1>1, <1>4, SessionEnds DEF HoldsNothing
  <1>7. pc'[s] = "done"
    BY <1>1 DEF PlacementTypeOK
  <1>8. SessionOK(s)'
    BY <1>1, <1>2, <1>6, <1>7 DEF SessionOK, LockPhase, SavePhase, CommitPhase, RestPhase,
       Returned, KeyOf
  <1>9. \A t \in Session : SessionOK(t)'
    BY <1>5, <1>8, OthersStay
  <1>10. KeysInFlight'
    <2> SUFFICES ASSUME NEW k \in Key, NEW h, h = inserting'[k], h # NoSession
                 PROVE  /\ pc'[h] = "flush" /\ result'[h] = h
                        /\ request'[h].key = k /\ k # NoKey
                        /\ keys'[k] = NoSession
      BY DEF KeysInFlight, NeedsKey, KeyOf
    <2>1. h = inserting[k] /\ h \in Session \ {s}
      BY <1>1, <1>4 DEF PlacementTypeOK
    <2>2. /\ pc[h] = "flush" /\ result[h] = h
          /\ request[h].key = k /\ k # NoKey /\ keys'[k] = NoSession
      BY <2>1 DEF PlacementIInv, KeysInFlight, NeedsKey, KeyOf
    <2> QED BY <2>1, <2>2, <1>5 DEF Frame
  <1>11. KeysNameOrders'
    BY DEF PlacementIInv, KeysNameOrders, KeyOf
  <1>12. RowsIInv'
    BY RowsStay
  <1> QED BY <1>9, <1>10, <1>11, <1>12, <1>3 DEF PlacementIInv

LEMMA InsertKeyInv ==
  ASSUME PlacementIInv, PlacementNext, NEW s \in Session, InsertKey(s)
  PROVE  PlacementIInv'
  <1> USE DEF InsertKey, requestVars, rowsVars
  <1>1. PlacementTypeOK /\ SessionOK(s)
    BY DEF PlacementIInv
  <1>2. KeyOf(s) \in Key /\ request[s] \in Request
    BY <1>1, RequestType DEF SessionOK, RestPhase, NeedsKey, KeyOf
  <1>3. PlacementTypeOK'
    BY <1>1, <1>2, RowsStay DEF PlacementTypeOK
  <1>4. Frame(s)
    BY <1>1, <1>2, RowsAssumption DEF Frame, PlacementTypeOK
  <1>5. SessionOK(s)'
    BY <1>1 DEF SessionOK, LockPhase, SavePhase, CommitPhase, RestPhase, Returned, NetOf,
       KeyOf, Wanted, Involved
  <1>6. \A t \in Session : SessionOK(t)'
    BY <1>4, <1>5, OthersStay
  <1>7. KeysInFlight'
    BY <1>1, <1>2 DEF PlacementIInv, PlacementTypeOK, KeysInFlight, NeedsKey, KeyOf
  <1>8. KeysNameOrders'
    BY DEF PlacementIInv, KeysNameOrders, KeyOf
  <1>9. RowsIInv'
    BY RowsStay
  <1> QED BY <1>3, <1>6, <1>7, <1>8, <1>9 DEF PlacementIInv

\* A commit with a session's result is the birth of its order, or nothing.
LEMMA CommitOrderInv ==
  ASSUME PlacementIInv, PlacementNext, NEW s \in Session, CommitOrder(s),
         NEW A \in {"reply", "done"}, Goto(s, A), A = "reply" => s \notin EarlyReply,
         NEW r \in {"none", "created", "rejected", "error"},
         response' = [response EXCEPT ![s] = r]
  PROVE  PlacementIInv'
  <1> USE DEF CommitOrder, Commit, Withdraw, Goto
  <1>1. PlacementTypeOK /\ SessionOK(s) /\ RowsTypeOK /\ pc[s] = "flush"
    BY DEF PlacementIInv, PlacementTypeOK, Flushed
  <1>2. request[s] \in Request
    BY <1>1 DEF SessionOK, RestPhase
  <1>3. PlacementTypeOK'
    BY <1>1, RowsStay DEF PlacementTypeOK
  <1>4. \A k \in Key : inserting'[k] # s /\ (inserting'[k] = inserting[k] \/ inserting'[k] = NoSession)
    BY RowsAssumption
  <1>5. \A k \in Key : inserting[k] = s => keys[k] = NoSession /\ KeyOf(s) = k /\ NeedsKey(s)
    BY RowsAssumption DEF PlacementIInv, KeysInFlight
  <1>6. Frame(s)
    <2>1. \A t \in Session \ {s} :
            /\ pending'[t] = pending[t] /\ loaded'[t] = loaded[t]
            /\ \A p \in Product : lock'[p] = t <=> lock[p] = t
      BY <1>1, RowsAssumption DEF EndSession, ReleaseLocks, RowsTypeOK
    <2>2. \A t \in Session \ {s}, k \in Key : inserting'[k] = t <=> inserting[k] = t
      BY RowsAssumption
    <2>3. \A t \in Session \ {s} : pc'[t] = pc[t] /\ response'[t] = response[t]
      BY <1>1 DEF PlacementTypeOK
    <2>4. \A k \in Key : keys[k] # NoSession => keys'[k] = keys[k]
      BY <1>5
    <2> QED BY <2>1, <2>2, <2>3, <2>4 DEF Frame
  <1>7. HoldsNothing(s)'
    BY <1>1, <1>4, SessionEnds DEF HoldsNothing
  <1>8. pc'[s] = A
    BY <1>1 DEF PlacementTypeOK
  <1>9. result[s] \in placed'
    BY <1>1 DEF SessionOK, CommitPhase, Returned
  <1>10. s \in placed' => /\ result[s] = s
                          /\ KeyOf(s) # NoKey => keys'[KeyOf(s)] = s
                          /\ s \in Publisher => s \in events
    <2> SUFFICES ASSUME s \in placed'
                 PROVE  /\ result[s] = s
                        /\ KeyOf(s) # NoKey => keys'[KeyOf(s)] = s
                        /\ s \in Publisher => s \in events
      OBVIOUS
    <2>1. s \notin placed
      BY <1>1 DEF SessionOK, RestPhase
    <2>2. result[s] = s
      BY <2>1
    <2>3. s \in Publisher => s \in events
      BY <1>1, <2>1, <2>2 DEF SessionOK, CommitPhase, Returned
    <2>4. KeyOf(s) # NoKey => KeyOf(s) \in Key /\ inserting[KeyOf(s)] = s
      BY <1>2, <2>2, RequestType DEF Flushed, NeedsKey, KeyOf
    <2> QED BY <2>2, <2>3, <2>4
  <1>11. RestPhase(s)'
    BY <1>2, <1>7, <1>8, <1>9, <1>10 DEF RestPhase, KeyOf
  <1>12. SessionOK(s)'
    BY <1>8, <1>11 DEF SessionOK, LockPhase, SavePhase, CommitPhase, Returned
  <1>13. \A t \in Session : SessionOK(t)'
    BY <1>6, <1>12, OthersStay
  <1>14. KeysInFlight'
    <2> SUFFICES ASSUME NEW k \in Key, NEW h, h = inserting'[k], h # NoSession
                 PROVE  /\ pc'[h] = "flush" /\ result'[h] = h
                        /\ request'[h].key = k /\ k # NoKey
                        /\ keys'[k] = NoSession
      BY DEF KeysInFlight, NeedsKey, KeyOf
    <2>1. h = inserting[k] /\ h \in Session \ {s}
      BY <1>1, <1>4 DEF PlacementTypeOK
    <2>2. /\ pc[h] = "flush" /\ result[h] = h
          /\ request[h].key = k /\ k # NoKey /\ keys'[k] = NoSession
      BY <2>1 DEF PlacementIInv, KeysInFlight, NeedsKey, KeyOf
    <2> QED BY <2>1, <2>2, <1>6 DEF Frame
  <1>15. KeysNameOrders'
    <2> SUFFICES ASSUME NEW k \in Key, keys'[k] # NoSession
                 PROVE  keys'[k] \in placed' /\ KeyOf(keys'[k]) = k
      BY DEF KeysNameOrders, KeyOf
    <2>1. CASE inserting[k] = s
      BY <2>1, <1>5 DEF NeedsKey
    <2>2. CASE inserting[k] # s
      BY <2>2 DEF PlacementIInv, KeysNameOrders
    <2> QED BY <2>1, <2>2
  <1>16. RowsIInv'
    BY RowsStay
  <1> QED BY <1>3, <1>13, <1>14, <1>15, <1>16 DEF PlacementIInv

LEMMA CommitInvariant ==
  ASSUME PlacementIInv, PlacementNext, NEW s \in Session,
         CommitSession(s) \/ CommitUnacknowledged(s)
  PROVE  PlacementIInv'
  <1>1. PlacementTypeOK
    BY DEF PlacementIInv
  <1>2. CASE CommitSession(s)
    <2> DEFINE A == IF s \in EarlyReply THEN "done" ELSE "reply"
    <2>1. response' = [response EXCEPT ![s] = response[s]]
      BY <1>1, <1>2 DEF CommitSession, PlacementTypeOK
    <2>2. CommitOrder(s) /\ Goto(s, A)
      BY <1>2 DEF CommitSession
    <2>3. response[s] \in {"none", "created", "rejected", "error"}
      BY <1>1 DEF PlacementTypeOK
    <2>4. A \in {"reply", "done"} /\ (A = "reply" => s \notin EarlyReply)
      OBVIOUS
    <2> HIDE DEF A
    <2> QED BY <2>1, <2>2, <2>3, <2>4, CommitOrderInv
  <1>3. CASE CommitUnacknowledged(s)
    <2> DEFINE r == IF response[s] = "none" THEN "error" ELSE response[s]
    <2>1. response' = [response EXCEPT ![s] = r]
      BY <1>3 DEF CommitUnacknowledged, Answer
    <2>2. CommitOrder(s) /\ Goto(s, "done")
      BY <1>3 DEF CommitUnacknowledged
    <2>3. r \in {"none", "created", "rejected", "error"}
      BY <1>1 DEF PlacementTypeOK
    <2> HIDE DEF r
    <2> QED BY <2>1, <2>2, <2>3, CommitOrderInv
  <1> QED BY <1>2, <1>3

-----------------------------------------------------------------------------
LEMMA PlacementNextInv ==
  ASSUME PlacementIInv, [PlacementNext]_placementVars
  PROVE  PlacementIInv'
  <1>1. CASE UNCHANGED placementVars
    BY <1>1 DEF placementVars, rowsVars, requestVars, orderVars, PlacementIInv, RowsIInv,
       RowsTypeOK, NoOversell, NoLostUpdate, DraftsExtendRows, FreshUnderLock,
       ItemsMatchRows, DraftsFit, View, PlacementTypeOK, SessionOK, LockPhase, SavePhase,
       CommitPhase, RestPhase, Returned, HoldsNothing, KeysInFlight, KeysNameOrders,
       NetOf, Wanted, NeedsKey, KeyOf
  <1>2. CASE PlacementNext
    <2>1. ASSUME NEW s \in Session, Begin(s) \/ Serve(s) \/ Fail(s) \/ CommitUnacknowledged(s)
          PROVE  PlacementIInv'
      <3>1. CASE RejectProduct(s) \/ RejectStock(s) \/ MissingRow(s) \/ KeyTaken(s) \/ Fail(s)
        <4>1. pc[s] # "idle" /\ \E r \in {"rejected", "error"} : Abort(s, r)
          BY <3>1 DEF RejectProduct, RejectStock, MissingRow, KeyTaken, Fail, AllLocked
        <4> QED BY <4>1, <1>2, AbortInv
      <3>2. CASE DeadlockVictim(s)
        <4>1. pc[s] # "idle"
          BY <3>2 DEF DeadlockVictim, Deadlocked, WaitsFor
        <4> QED BY <4>1, <3>2, <1>2, AbortInv DEF DeadlockVictim
      <3>3. ASSUME NEW p \in Product, LockRow(s, p) \/ SaveInventory(s, p)
            PROVE  PlacementIInv'
        BY <3>3, <1>2, LockRowInv, SaveInventoryInv
      <3>4. CASE CommitSession(s) \/ CommitUnacknowledged(s)
        BY <3>4, <1>2, CommitInvariant
      <3> QED BY <2>1, <1>2, <3>1, <3>2, <3>3, <3>4, BeginInv, ReplayInv, ValidateInv,
                 ReserveInv, PublishInv, ReplyInv, InsertKeyInv DEF Serve
    <2> QED BY <1>1, <1>2, <2>1 DEF PlacementNext, Terminating
  <1> QED BY <1>1, <1>2

\* The invariant of the whole placement path, for every set of sessions.
THEOREM PlacementInvariant == PlacementSpec => []PlacementIInv
  <1>1. PlacementInit => PlacementIInv
    BY PlacementInitInv
  <1>2. PlacementIInv /\ [PlacementNext]_placementVars => PlacementIInv'
    BY PlacementNextInv
  <1> QED BY <1>1, <1>2, PTL DEF PlacementSpec

\* Type correctness of POST /orders.
THEOREM PlacementTypeCorrect == PlacementSpec => []PlacementTypeOK
  BY PlacementInvariant, PTL DEF PlacementIInv

\* The placement path implements the inventory table: whatever requests do,
\* they do it through the repository's operations.
THEOREM PlacementUsesRows == PlacementSpec => UsesRows
  <1>1. PlacementInit => RowsInit
    BY DEF PlacementInit
  <1>2. PlacementIInv /\ [PlacementNext]_placementVars => [RowsNext]_rowsVars
    BY StepsAreRowSteps
  <1> QED BY <1>1, <1>2, PlacementInvariant, PTL DEF PlacementSpec, RowsSpec, UsesRows

\* Two orders never share an idempotency key: a committed key belongs to one
\* order, and every committed keyed order owns its key.
THEOREM OneOrderForEachKey == PlacementSpec => []OneOrderPerKey
  <1>1. PlacementIInv => OneOrderPerKey
    BY DEF PlacementIInv, PlacementTypeOK, OneOrderPerKey, SessionOK, RestPhase
  <1> QED BY <1>1, PlacementInvariant, PTL

\* A replay answers with an order that was committed for the same key.
THEOREM StoredKeysNameOrders == PlacementSpec => []KeysNameOrders
  BY PlacementInvariant, PTL DEF PlacementIInv

\* The optimistic version check never fails behind FOR UPDATE, so
\* OptimisticLockError never reaches the retry loop of execute().
THEOREM NoConflictBehindLock == PlacementSpec => []SaveNeverConflicts
  <1>1. PlacementIInv => SaveNeverConflicts
    <2> SUFFICES ASSUME PlacementIInv, NEW s \in Session, NEW p \in Product,
                        pc[s] = "save", p \in todo[s]
                 PROVE  loaded[s][p] # NoRow /\ VersionMatches(s, p) /\ lock[p] = s
      BY DEF SaveNeverConflicts
    <2>1. lock[p] = s /\ loaded[s][p] # NoRow /\ pending[s][p] = NoRow
      BY DEF PlacementIInv, SessionOK, SavePhase
    <2>2. loaded[s][p].version = inventory[p].version
      BY <2>1 DEF PlacementIInv, RowsIInv, FreshUnderLock
    <2> QED BY <2>1, <2>2 DEF VersionMatches, View
  <1> QED BY <1>1, PlacementInvariant, PTL

\* Whatever way a request ends, it leaves no lock and no key in flight.
THEOREM EndedSessionsHoldNothing == PlacementSpec => []NothingLeftBehind
  <1>1. PlacementIInv => NothingLeftBehind
    BY DEF PlacementIInv, SessionOK, RestPhase, HoldsNothing, NothingLeftBehind
  <1> QED BY <1>1, PlacementInvariant, PTL

\* With a running producer every committed order has been announced.
THEOREM CommitsAreAnnounced == PlacementSpec => []CommittedIsAnnounced
  <1>1. PlacementIInv => CommittedIsAnnounced
    BY DEF PlacementIInv, PlacementTypeOK, SessionOK, RestPhase, CommittedIsAnnounced
  <1> QED BY <1>1, PlacementInvariant, PTL

-----------------------------------------------------------------------------
(* The ledger.                                                             *)

ReservedColumn == [p \in Product |-> inventory[p].reserved]

LedgerPlace(s) == Ledger!Place(s, request[s].key, request[s].amount)

\* A commit that creates an order is one step of the ledger.
LEMMA CommitPlaces ==
  ASSUME PlacementIInv, PlacementIInv', NEW s \in Session, CommitOrder(s), result[s] = s
  PROVE  LedgerPlace(s)
  <1>1. /\ pc[s] = "flush" /\ s \notin placed /\ request[s] \in Request
        /\ placed' = placed \cup {s} /\ request' = request
    BY DEF PlacementIInv, CommitOrder, Flushed, SessionOK, RestPhase
  <1>2. PlacedOrders[s] = NoRequest
    BY <1>1 DEF PlacedOrders
  <1>3. request[s].key # NoKey => Ledger!KeyUnused(request[s].key)
    <2> SUFFICES ASSUME request[s].key # NoKey, NEW t \in Session, PlacedOrders[t] # NoRequest
                 PROVE  PlacedOrders[t].key # request[s].key
      BY DEF Ledger!KeyUnused
    <2>1. t \in placed /\ PlacedOrders[t].key = request[t].key
      BY DEF PlacedOrders
    <2>2. request[t].key # NoKey => keys[request[t].key] = t
      BY <2>1 DEF PlacementIInv, SessionOK, RestPhase, KeyOf
    <2>3. request[s].key \in Key /\ inserting[request[s].key] = s
      BY <1>1, RequestType DEF CommitOrder, Flushed, NeedsKey, KeyOf
    <2>4. keys[request[s].key] = NoSession
      BY <2>3, RowsAssumption DEF PlacementIInv, KeysInFlight
    <2> QED BY <2>1, <2>2, <2>4, RowsAssumption
  <1>4. \A p \in Product :
          /\ inventory'[p].reserved = inventory[p].reserved + request[s].amount[p]
          /\ inventory'[p].reserved <= Quantity[p]
    <2> SUFFICES ASSUME NEW p \in Product
                 PROVE  /\ inventory'[p].reserved = inventory[p].reserved + request[s].amount[p]
                        /\ inventory'[p].reserved <= Quantity[p]
      OBVIOUS
    <2>1. NetOf(s, p) = request[s].amount[p]
      BY <1>1 DEF PlacementIInv, SessionOK, CommitPhase, Returned
    <2>2. granted'[p] = granted[p] + NetOf(s, p)
      BY DEF CommitOrder, Commit
    <2>3. /\ inventory[p].reserved = granted[p]
          /\ inventory'[p].reserved = granted'[p]
          /\ granted'[p] \in 0 .. Quantity[p]
      BY DEF PlacementIInv, RowsIInv, NoLostUpdate, NoOversell
    <2> QED BY <2>1, <2>2, <2>3, RowsAssumption
  <1>5. PlacedOrders' = [PlacedOrders EXCEPT ![s] =
                           [key |-> request[s].key, amount |-> request[s].amount]]
    BY <1>1 DEF PlacedOrders
  <1>6. ReservedColumn' = [p \in Product |-> ReservedColumn[p] + request[s].amount[p]]
    BY <1>4 DEF ReservedColumn
  <1>7. \A p \in Product : ReservedColumn[p] + request[s].amount[p] <= Quantity[p]
    BY <1>4 DEF ReservedColumn
  <1> QED BY <1>2, <1>3, <1>5, <1>6, <1>7 DEF LedgerPlace, Ledger!Place, ReservedColumn

\* A replay commits nothing.
LEMMA ReplayCommitsNothing ==
  ASSUME PlacementIInv, PlacementIInv', NEW s \in Session, CommitOrder(s), result[s] # s
  PROVE  UNCHANGED <<PlacedOrders, ReservedColumn>>
  <1>1. placed' = placed /\ request' = request
    BY DEF CommitOrder
  <1>2. \A p \in Product : NetOf(s, p) = 0
    BY DEF PlacementIInv, CommitOrder, Flushed, SessionOK, CommitPhase, Returned
  <1>3. \A p \in Product : inventory'[p].reserved = inventory[p].reserved
    <2> SUFFICES ASSUME NEW p \in Product
                 PROVE  inventory'[p].reserved = inventory[p].reserved
      OBVIOUS
    <2>1. granted'[p] = granted[p] + 0
      BY <1>2 DEF CommitOrder, Commit
    <2>2. /\ inventory[p].reserved = granted[p]
          /\ inventory'[p].reserved = granted'[p]
          /\ granted[p] \in 0 .. Quantity[p]
      BY DEF PlacementIInv, RowsIInv, NoLostUpdate, NoOversell
    <2> QED BY <2>1, <2>2, RowsAssumption
  <1> QED BY <1>1, <1>3 DEF PlacedOrders, ReservedColumn

\* Every step of the placement path places one order or leaves the ledger alone.
LEMMA StepsAreLedgerSteps ==
  ASSUME PlacementIInv, PlacementIInv', [PlacementNext]_placementVars
  PROVE  [Ledger!LedgerNext]_(Ledger!ledgerVars)
  <1>1. SUFFICES Ledger!LedgerNext \/ UNCHANGED <<PlacedOrders, ReservedColumn>>
    BY DEF Ledger!ledgerVars, ReservedColumn
  <1>2. CASE UNCHANGED placementVars
    BY <1>2 DEF placementVars, rowsVars, requestVars, orderVars, PlacedOrders, ReservedColumn
  <1>3. CASE Terminating
    BY <1>3 DEF Terminating, placementVars, rowsVars, requestVars, orderVars, PlacedOrders,
       ReservedColumn
  <1>4. ASSUME NEW s \in Session, CommitSession(s) \/ CommitUnacknowledged(s)
        PROVE  Ledger!LedgerNext \/ UNCHANGED <<PlacedOrders, ReservedColumn>>
    <2>1. CommitOrder(s)
      BY <1>4 DEF CommitSession, CommitUnacknowledged
    <2>2. CASE result[s] = s
      <3>1. LedgerPlace(s)
        BY <2>1, <2>2, CommitPlaces
      <3>2. request[s].key \in Key \cup {NoKey} /\ request[s].amount \in Amount
        BY <2>1, RequestType DEF PlacementIInv, CommitOrder, Flushed, SessionOK, RestPhase
      <3>3. PICK k \in Key \cup {NoKey}, d \in Amount :
              k = request[s].key /\ d = request[s].amount
        BY <3>2
      <3>4. Ledger!Place(s, k, d)
        BY <3>1, <3>3 DEF LedgerPlace, Ledger!Place
      <3> QED BY <3>4 DEF Ledger!LedgerNext
    <2>3. CASE result[s] # s
      BY <2>1, <2>3, ReplayCommitsNothing
    <2> QED BY <2>2, <2>3
  <1>5. ASSUME NEW s \in Session, NEW r, Abort(s, r)
        PROVE  UNCHANGED <<PlacedOrders, ReservedColumn>>
    BY <1>5 DEF Abort, Rollback, PlacedOrders, ReservedColumn
  <1>6. ASSUME NEW s \in Session, Begin(s)
        PROVE  UNCHANGED <<PlacedOrders, ReservedColumn>>
    <2>1. \A t \in placed : t # s /\ t \in Session
      BY <1>6 DEF Begin, PlacementIInv, PlacementTypeOK, SessionOK, RestPhase
    <2>2. \A t \in placed : request'[t] = request[t]
      BY <1>6, <2>1 DEF Begin, PlacementIInv, PlacementTypeOK
    <2> QED BY <1>6, <2>2 DEF Begin, rowsVars, orderVars, PlacedOrders, ReservedColumn
  <1>7. ASSUME NEW s \in Session,
               Replay(s) \/ Validate(s) \/ Reserve(s) \/ Publish(s) \/ InsertKey(s) \/ Reply(s)
                 \/ \E p \in Product : LockRow(s, p) \/ SaveInventory(s, p)
        PROVE  UNCHANGED <<PlacedOrders, ReservedColumn>>
    <2>1. UNCHANGED <<inventory, request, placed>>
      BY <1>7 DEF Replay, Validate, Reserve, ReserveItems, Publish, InsertKey, Reply, LockRow,
         SelectForUpdate, SaveInventory, Save, rowsVars, requestVars, orderVars
    <2> QED BY <2>1 DEF PlacedOrders, ReservedColumn
  <1> QED BY <1>1, <1>2, <1>3, <1>4, <1>5, <1>6, <1>7 DEF PlacementNext, Serve, RejectProduct,
         RejectStock, MissingRow, KeyTaken, DeadlockVictim, Fail

\* POST /orders, with its sessions, locks, versions, failures and retries,
\* implements the ledger in which orders appear atomically.
THEOREM PlacementImplementsLedger == PlacementSpec => ImplementsLedger
  <1>1. PlacementInit => Ledger!LedgerInit
    BY DEF PlacementInit, RowsInit, Ledger!LedgerInit, PlacedOrders
  <1>2. PlacementIInv /\ PlacementIInv' /\ [PlacementNext]_placementVars
          => [Ledger!LedgerNext]_(Ledger!ledgerVars)
    BY StepsAreLedgerSteps
  <1> QED BY <1>1, <1>2, PlacementInvariant, PTL
         DEF PlacementSpec, ImplementsLedger, Ledger!LedgerSpec

\* In a book of orders the stock reserved is what the orders take together.
BookAddsUp(orders, reserved) ==
  LET existing == {o \in Session : orders[o] # NoRequest}
  IN  /\ IsFiniteSet(existing)
      /\ \A o \in existing : orders[o].amount \in Amount
      /\ \A p \in Product :
           reserved[p] = SumFunctionOnSet([o \in existing |-> orders[o].amount[p]], existing)

\* An order placed adds its amount.
LEMMA PlaceAddsUp ==
  ASSUME NEW orders, NEW reserved, BookAddsUp(orders, reserved),
         NEW s \in Session, orders[s] = NoRequest, orders = [o \in Session |-> orders[o]],
         NEW r, r # NoRequest, r.amount \in Amount,
         NEW added, added = [p \in Product |-> reserved[p] + r.amount[p]]
  PROVE  BookAddsUp([orders EXCEPT ![s] = r], added)
  <1> DEFINE existing == {o \in Session : orders[o] # NoRequest}
             after == [orders EXCEPT ![s] = r]
  <1>1. {o \in Session : after[o] # NoRequest} = existing \cup {s} /\ s \notin existing
    OBVIOUS
  <1>2. \A o \in existing : after[o] = orders[o] /\ orders[o].amount \in Amount
    BY DEF BookAddsUp
  <1>3. after[s] = r
    OBVIOUS
  <1>4. IsFiniteSet(existing) /\ IsFiniteSet(existing \cup {s})
    BY FS_AddElement DEF BookAddsUp
  <1>5. ASSUME NEW p \in Product
        PROVE  added[p] = SumFunctionOnSet([o \in existing \cup {s} |-> after[o].amount[p]],
                                           existing \cup {s})
    <2> DEFINE a == [o \in existing |-> orders[o].amount[p]]
               b == [o \in existing \cup {s} |-> after[o].amount[p]]
    <2>1. IntegersOn(a, existing) /\ \A o \in existing : a[o] = b[o]
      BY <1>2, RowsAssumption DEF IntegersOn
    <2>2. IntegersOn(b, existing) /\ b[s] = r.amount[p] /\ b[s] \in Int
      BY <1>3, <2>1, RowsAssumption DEF IntegersOn
    <2>3. reserved[p] = SumFunctionOnSet(a, existing)
      BY DEF BookAddsUp
    <2>4. added[p] = reserved[p] + r.amount[p]
      OBVIOUS
    <2> HIDE DEF a, b, existing
    <2>5. SumFunctionOnSet(a, existing) = SumFunctionOnSet(b, existing)
      BY <1>4, <2>1, SumsAgree
    <2>6. SumFunctionOnSet(b, existing \cup {s}) = SumFunctionOnSet(b, existing) + b[s]
      BY <1>1, <1>4, <2>2, SumWith
    <2> QED BY <2>2, <2>3, <2>4, <2>5, <2>6 DEF b
  <1>6. \A o \in existing \cup {s} : after[o].amount \in Amount
    BY <1>2, <1>3
  <1>7. PICK e : e = after
    OBVIOUS
  <1>8. {o \in Session : e[o] # NoRequest} = existing \cup {s}
    BY <1>1, <1>7
  <1>9. \A p \in Product :
          added[p] = SumFunctionOnSet([o \in existing \cup {s} |-> e[o].amount[p]], existing \cup {s})
    BY <1>5, <1>7
  <1> HIDE DEF existing, after
  <1>10. BookAddsUp(e, added)
    BY <1>4, <1>6, <1>7, <1>8, <1>9 DEF BookAddsUp
  <1> QED BY <1>7, <1>10 DEF after

LEMMA BookInit == PlacementInit => BookAddsUp(PlacedOrders, ReservedColumn)
  <1> SUFFICES ASSUME PlacementInit PROVE BookAddsUp(PlacedOrders, ReservedColumn)
    OBVIOUS
  <1>1. {o \in Session : PlacedOrders[o] # NoRequest} = {}
    BY DEF PlacementInit, PlacedOrders
  <1>2. \A p \in Product : ReservedColumn[p] = 0
    BY DEF PlacementInit, RowsInit, ReservedColumn
  <1>3. \A a : SumFunctionOnSet(a, {}) = 0
    BY SumOfNone
  <1> QED BY <1>1, <1>2, <1>3, FS_EmptySet DEF BookAddsUp

LEMMA BookNext ==
  ASSUME PlacementIInv, PlacementIInv', [PlacementNext]_placementVars,
         BookAddsUp(PlacedOrders, ReservedColumn)
  PROVE  BookAddsUp(PlacedOrders', ReservedColumn')
  <1>1. [Ledger!LedgerNext]_(Ledger!ledgerVars)
    BY StepsAreLedgerSteps
  <1>2. CASE Ledger!LedgerNext
    <2>1. PICK s \in Session, k \in Key \cup {NoKey}, d \in Amount : Ledger!Place(s, k, d)
      BY <1>2 DEF Ledger!LedgerNext
    <2>2. PICK r : r = [key |-> k, amount |-> d]
      OBVIOUS
    <2>3. r # NoRequest /\ r.amount \in Amount
      BY <2>2, PlacementAssumption
    <2>4. /\ PlacedOrders[s] = NoRequest
          /\ PlacedOrders' = [PlacedOrders EXCEPT ![s] = r]
          /\ ReservedColumn' = [p \in Product |-> ReservedColumn[p] + r.amount[p]]
      BY <2>1, <2>2 DEF Ledger!Place, ReservedColumn
    <2>5. PlacedOrders = [o \in Session |-> PlacedOrders[o]]
      BY DEF PlacedOrders
    <2>6. PICK before, reserved : before = PlacedOrders /\ reserved = ReservedColumn
      OBVIOUS
    <2>7. BookAddsUp([before EXCEPT ![s] = r], [p \in Product |-> reserved[p] + r.amount[p]])
      BY <2>3, <2>4, <2>5, <2>6, PlaceAddsUp
    <2> QED BY <2>4, <2>6, <2>7
  <1>3. CASE UNCHANGED Ledger!ledgerVars
    BY <1>3 DEF Ledger!ledgerVars, ReservedColumn
  <1> QED BY <1>1, <1>2, <1>3

\* What is reserved is what the committed orders take together, and fits the
\* quantity, for every number of products, sessions and requests.
THEOREM StockAlwaysBacksOrders == PlacementSpec => []StockBacksOrders
  <1>1. PlacementIInv /\ PlacementIInv' /\ [PlacementNext]_placementVars
          /\ BookAddsUp(PlacedOrders, ReservedColumn)
          => BookAddsUp(PlacedOrders, ReservedColumn)'
    BY BookNext
  <1>2. PlacementIInv /\ BookAddsUp(PlacedOrders, ReservedColumn) => StockBacksOrders
    <2> SUFFICES ASSUME PlacementIInv, BookAddsUp(PlacedOrders, ReservedColumn), NEW p \in Product
                 PROVE  /\ ReservedColumn[p] <= Quantity[p]
                        /\ ReservedColumn[p] = Ledger!MapThenSumSet(LAMBDA o : PlacedOrders[o].amount[p],
                                                  {o \in Session : PlacedOrders[o] # NoRequest})
      BY DEF StockBacksOrders, Ledger!StockBacksOrders, ReservedColumn
    <2>1. ReservedColumn[p] <= Quantity[p]
      BY RowsAssumption DEF PlacementIInv, RowsIInv, NoLostUpdate, NoOversell, ReservedColumn
    <2>2. \A S : Ledger!MapThenSumSet(LAMBDA o : PlacedOrders[o].amount[p], S)
                   = SumFunctionOnSet([o \in S |-> PlacedOrders[o].amount[p]], S)
      BY ZenonT(60) DEF Ledger!MapThenSumSet, Ledger!MapThenFoldSet, SumFunctionOnSet, FoldFunctionOnSet,
         MapThenFoldSet
    <2> QED BY <2>1, <2>2 DEF BookAddsUp
  <1> QED BY <1>1, <1>2, BookInit, PlacementInvariant, PTL DEF PlacementSpec

-----------------------------------------------------------------------------
(* What clients are told.                                                  *)

LEMMA AnswersInit == PlacementInit => AnswersAreTraced
  BY DEF PlacementInit, AnswersAreTraced

\* A stored key is never overwritten.
LEMMA KeysStay ==
  ASSUME PlacementIInv, [PlacementNext]_placementVars, NEW k \in Key, keys[k] # NoSession
  PROVE  keys'[k] = keys[k]
  <1>1. ASSUME NEW s \in Session, CommitOrder(s) PROVE keys'[k] = keys[k]
    BY <1>1, RowsAssumption DEF CommitOrder, PlacementIInv, KeysInFlight
  <1> QED
    BY <1>1 DEF PlacementNext, Terminating, placementVars, orderVars, Serve, Begin, Replay, Validate,
       RejectProduct, LockRow, SaveInventory, Reserve, RejectStock, MissingRow, Publish,
       InsertKey, KeyTaken, CommitSession, Reply, DeadlockVictim, Fail, CommitUnacknowledged, Abort

LEMMA AnswersNext ==
  ASSUME PlacementIInv, PlacementIInv', AnswersAreTraced, [PlacementNext]_placementVars
  PROVE  AnswersAreTraced'
  <1> DEFINE Traced(s) ==
        /\ pc[s] = "idle" => result[s] = NoSession /\ response[s] = "none"
        /\ result[s] \notin {s, NoSession} => KeyOf(s) \in Key /\ keys[KeyOf(s)] = result[s]
        /\ (response[s] = "created" /\ s \notin EarlyReply) =>
              pc[s] = "done" /\ result[s] \in placed
  <1>1. \A s \in Session : Traced(s)
    BY DEF AnswersAreTraced
  <1>2. PlacementTypeOK /\ placed \subseteq placed'
    BY DEF PlacementIInv, PlacementNext, Terminating, placementVars, orderVars, Serve, Begin,
       Replay, Validate, RejectProduct, LockRow, SaveInventory, Reserve, RejectStock, MissingRow,
       Publish, InsertKey, KeyTaken, CommitSession, CommitOrder, Reply, DeadlockVictim, Fail,
       CommitUnacknowledged, Abort
  <1>3. ASSUME NEW t \in Session, UNCHANGED <<pc[t], result[t], response[t], request[t]>>
        PROVE  Traced(t)'
    <2>1. result[t] \notin {t, NoSession} => keys[KeyOf(t)] # NoSession
      BY <1>1
    <2> QED
      BY <1>1, <1>2, <1>3, <2>1, KeysStay DEF KeyOf
  <1>4. ASSUME NEW s \in Session, Begin(s), NEW t \in Session PROVE Traced(t)'
    <2>1. CASE t = s
      BY <1>1, <1>2, <1>4, <2>1 DEF Begin, Goto, PlacementTypeOK
    <2>2. CASE t # s
      BY <1>2, <1>3, <1>4, <2>2 DEF Begin, Goto, PlacementTypeOK
    <2> QED BY <2>1, <2>2
  <1>5. ASSUME NEW s \in Session, NEW r \in {"rejected", "error"}, Abort(s, r), pc[s] # "idle",
               NEW t \in Session
        PROVE  Traced(t)'
    <2>1. CASE t = s
      <3>1. result'[s] = result[s] /\ request'[s] = request[s] /\ keys' = keys /\ placed' = placed
            /\ pc'[s] = "done" /\ response'[s] \in {r, response[s]}
        BY <1>2, <1>5 DEF Abort, Answer, Goto, PlacementTypeOK
      <3> QED BY <1>1, <2>1, <3>1 DEF KeyOf
    <2>2. CASE t # s
      BY <1>2, <1>3, <1>5, <2>2 DEF Abort, Answer, Goto, PlacementTypeOK
    <2> QED BY <2>1, <2>2
  <1>6. ASSUME NEW s \in Session, Replay(s), NEW t \in Session PROVE Traced(t)'
    <2>1. CASE t = s
      <3>1. result'[s] = keys[KeyOf(s)] /\ keys' = keys /\ request' = request /\ placed' = placed
            /\ response' = response /\ pc[s] = "key" /\ pc'[s] # "idle"
        BY <1>2, <1>6 DEF Replay, HandlerReturns, Goto, PlacementTypeOK, orderVars
      <3>2. KeyOf(s) \in Key
        BY <1>6, RequestType DEF Replay, KeySeen, KeyOf, PlacementIInv, SessionOK, RestPhase
      <3> QED BY <1>1, <2>1, <3>1, <3>2 DEF KeyOf
    <2>2. CASE t # s
      BY <1>2, <1>3, <1>6, <2>2 DEF Replay, HandlerReturns, Goto, PlacementTypeOK
    <2> QED BY <2>1, <2>2
  <1>7. ASSUME NEW s \in Session, Validate(s) \/ Reserve(s) \/ Publish(s) \/ InsertKey(s)
                 \/ \E p \in Product : LockRow(s, p) \/ SaveInventory(s, p),
               NEW t \in Session
        PROVE  Traced(t)'
    <2>1. CASE t = s
      <3>1. /\ result'[s] \in {s, result[s]} /\ request' = request /\ keys' = keys
            /\ placed' = placed /\ response' = response
            /\ pc[s] \notin {"idle", "done"} /\ pc'[s] # "idle"
        BY <1>2, <1>7 DEF Validate, Reserve, Publish, InsertKey, LockRow, SaveInventory,
           AllLocked, HandlerReturns, Goto, PlacementTypeOK, requestVars, orderVars
      <3> QED BY <1>1, <2>1, <3>1 DEF KeyOf
    <2>2. CASE t # s
      BY <1>2, <1>3, <1>7, <2>2 DEF Validate, Reserve, Publish, InsertKey, LockRow, SaveInventory,
         AllLocked, HandlerReturns, Goto, PlacementTypeOK, requestVars
    <2> QED BY <2>1, <2>2
  <1>8. ASSUME NEW s \in Session, CommitSession(s) \/ CommitUnacknowledged(s), NEW t \in Session
        PROVE  Traced(t)'
    <2>1. CASE t = s
      <3>1. /\ result' = result /\ request' = request /\ pc[s] = "flush" /\ pc'[s] # "idle"
            /\ response'[s] \in {"error", response[s]}
        BY <1>2, <1>8 DEF CommitSession, CommitUnacknowledged, CommitOrder, Flushed, Answer, Goto,
           PlacementTypeOK
      <3>2. result[s] \notin {s, NoSession} => keys[KeyOf(s)] # NoSession
        BY <1>1
      <3> QED BY <1>1, <2>1, <3>1, <3>2, KeysStay DEF KeyOf
    <2>2. CASE t # s
      BY <1>2, <1>3, <1>8, <2>2 DEF CommitSession, CommitUnacknowledged, CommitOrder, Answer, Goto,
         PlacementTypeOK
    <2> QED BY <2>1, <2>2
  <1>9. ASSUME NEW s \in Session, Reply(s), NEW t \in Session PROVE Traced(t)'
    <2>1. CASE t = s
      <3>1. /\ result' = result /\ request' = request /\ keys' = keys /\ placed' = placed
            /\ pc[s] = "reply" /\ pc'[s] = IF s \in EarlyReply THEN "flush" ELSE "done"
        BY <1>2, <1>9 DEF Reply, Goto, PlacementTypeOK, orderVars
      <3>2. s \notin EarlyReply => result[s] \in placed
        BY <3>1 DEF PlacementIInv, SessionOK, RestPhase
      <3> QED BY <1>1, <2>1, <3>1, <3>2 DEF KeyOf
    <2>2. CASE t # s
      BY <1>2, <1>3, <1>9, <2>2 DEF Reply, Answer, Goto, PlacementTypeOK
    <2> QED BY <2>1, <2>2
  <1>10. ASSUME NEW s \in Session, DeadlockVictim(s) PROVE pc[s] # "idle"
    BY <1>10 DEF DeadlockVictim, Deadlocked, WaitsFor
  <1>11. ASSUME NEW s \in Session,
                RejectProduct(s) \/ RejectStock(s) \/ MissingRow(s) \/ KeyTaken(s)
                  \/ DeadlockVictim(s) \/ Fail(s)
         PROVE  \A t \in Session : Traced(t)'
    BY <1>5, <1>10, <1>11 DEF RejectProduct, RejectStock, MissingRow, KeyTaken, DeadlockVictim, Fail,
       AllLocked
  <1>12. ASSUME Terminating \/ UNCHANGED placementVars PROVE \A t \in Session : Traced(t)'
    BY <1>3, <1>12 DEF Terminating, placementVars, requestVars, AnswersAreTraced
  <1> QED
    <2>1. SUFFICES \A t \in Session : Traced(t)'
      BY DEF AnswersAreTraced
    <2> HIDE DEF Traced
    <2>2. ASSUME NEW s \in Session, Serve(s) PROVE \A t \in Session : Traced(t)'
      BY <2>2, <1>6, <1>7, <1>8, <1>9, <1>11 DEF Serve
    <2>3. ASSUME NEW s \in Session, Begin(s) PROVE \A t \in Session : Traced(t)'
      BY <2>3, <1>4
    <2>4. ASSUME NEW s \in Session, Fail(s) \/ CommitUnacknowledged(s)
          PROVE  \A t \in Session : Traced(t)'
      BY <2>4, <1>8, <1>11
    <2>5. CASE Terminating \/ UNCHANGED placementVars
      BY <2>5, <1>12
    <2> QED
      BY <2>2, <2>3, <2>4, <2>5 DEF PlacementNext

\* Where the answer of every session comes from.
THEOREM AnswersComeFromOrders == PlacementSpec => []AnswersAreTraced
  <1>1. PlacementIInv /\ PlacementIInv' /\ AnswersAreTraced /\ [PlacementNext]_placementVars
          => AnswersAreTraced'
    BY AnswersNext
  <1> QED BY <1>1, AnswersInit, PlacementInvariant, PTL DEF PlacementSpec

\* An order a client was told of is committed, and the same key is always told
\* the same order, if responses leave after get_session has committed.
THEOREM AnswersLast == PlacementSpec => []AnswersAreDurable
  <1>1. PlacementIInv /\ AnswersAreTraced => AnswersAreDurable
    <2> SUFFICES ASSUME PlacementIInv, AnswersAreTraced PROVE AnswersAreDurable
      OBVIOUS
    <2>1. ASSUME NEW s \in Session \ EarlyReply, response[s] = "created", KeyOf(s) # NoKey
          PROVE  keys[KeyOf(s)] = result[s]
      <3>1. result[s] \in placed /\ result[s] # NoSession
        BY <2>1, RowsAssumption DEF AnswersAreTraced, PlacementIInv, PlacementTypeOK
      <3>2. CASE result[s] = s
        BY <2>1, <3>1, <3>2 DEF PlacementIInv, SessionOK, RestPhase
      <3>3. CASE result[s] # s
        BY <2>1, <3>1, <3>3 DEF AnswersAreTraced
      <3> QED BY <3>2, <3>3
    <2> QED BY <2>1 DEF AnswersAreDurable, AnswersAreTraced
  <1> QED BY <1>1, AnswersComeFromOrders, PlacementInvariant, PTL

\* A refusal for stock is about stock that is committed: what the session read
\* under its locks is what the committed orders hold.
THEOREM RefusalsAreTrue == PlacementSpec => RefusalsAreGenuine
  <1> DEFINE Genuine ==
        \A s \in Session :
          (response[s] = "none" /\ response'[s] = "rejected" /\ request[s].names # "inactive") =>
            \E p \in Product : request[s].amount[p] > Quantity[p] - granted[p]
  <1>1. ASSUME PlacementIInv, NEW s \in Session, RejectStock(s)
        PROVE  \E p \in Product : request[s].amount[p] > Quantity[p] - granted[p]
    <2>1. PICK p \in Wanted(s) :
            loaded[s][p] = NoRow \/ ~(request[s].amount[p] <= Available(loaded[s][p], p))
      BY <1>1 DEF RejectStock, CanReserve, Wanted
    <2>2. p \in Product
      BY DEF Wanted, Involved
    <2>3. /\ lock[p] = s /\ loaded[s][p] # NoRow /\ pending[s][p] = NoRow
          /\ loaded[s][p].reserved = loaded[s][p].base
      BY <1>1, <2>1, <2>2 DEF RejectStock, AllLocked, PlacementIInv, SessionOK, LockPhase
    <2>4. loaded[s][p].version = inventory[p].version
      BY <2>2, <2>3 , <1>1 DEF PlacementIInv, RowsIInv, FreshUnderLock
    <2>5. loaded[s][p].reserved = granted[p]
      BY <1>1, <2>2, <2>3, <2>4 DEF PlacementIInv, RowsIInv, ItemsMatchRows, NoLostUpdate, View
    <2>6. request[s].amount[p] \in Nat /\ Quantity[p] \in Nat /\ granted[p] \in Nat
      <3>1. request[s] \in Request
        BY <1>1 DEF RejectStock, AllLocked, PlacementIInv, SessionOK, RestPhase
      <3> QED BY <1>1, <2>2, <3>1, RequestType, RowsAssumption DEF PlacementIInv, RowsIInv, NoOversell
    <2> QED BY <2>1, <2>2, <2>3, <2>5, <2>6 DEF Available
  <1>2. ASSUME PlacementIInv, NEW s \in Session, NEW t \in Session,
               response[t] = "none", response'[t] = "rejected",
               Begin(s) \/ Serve(s) \/ Fail(s) \/ CommitUnacknowledged(s)
        PROVE  t = s /\ (RejectStock(s) \/ (RejectProduct(s) /\ request[s].names = "inactive"))
    <2>1. PlacementTypeOK
      BY <1>2 DEF PlacementIInv
    <2> QED
      BY <1>2, <2>1 DEF PlacementTypeOK, Begin, Serve, Replay, Validate, RejectProduct, LockRow,
         SaveInventory, Reserve, RejectStock, MissingRow, Publish, InsertKey, KeyTaken,
         CommitSession, Reply, DeadlockVictim, Fail, CommitUnacknowledged, Abort, Answer, requestVars
  <1>3. PlacementIInv /\ [PlacementNext]_placementVars => [Genuine]_placementVars
    <2> SUFFICES ASSUME PlacementIInv, PlacementNext PROVE Genuine
      OBVIOUS
    <2>1. CASE Terminating
      BY <2>1 DEF Terminating, placementVars, requestVars
    <2>2. CASE ~Terminating
      BY <1>1, <1>2, <2>2 DEF PlacementNext
    <2> QED BY <2>1, <2>2
  <1> QED BY <1>3, PlacementInvariant, PTL DEF PlacementSpec, RefusalsAreGenuine

-----------------------------------------------------------------------------
(* Deadlocks.                                                              *)

\* A session locks only rows its order names.
LocksAreWanted == \A s \in Session, p \in Product : lock[p] = s => p \in Wanted(s)

\* A deadlock is among sessions inside SELECT ... FOR UPDATE, each of which
\* has one row and wants another: no wait for an idempotency key is part of
\* one, and an order for a single product is never its victim.
DeadlocksAreAmongRows ==
  \A s \in Session : Deadlocked(s) =>
    /\ pc[s] = "lock"
    /\ \E p, q \in Wanted(s) : p # q /\ lock[p] = s /\ lock[q] \notin {s, NoSession}

LEMMA LocksStayWanted ==
  ASSUME PlacementIInv, LocksAreWanted, [PlacementNext]_placementVars
  PROVE  LocksAreWanted'
  <1>1. PlacementTypeOK /\ lock \in [Product -> Session \cup {NoSession}]
    BY DEF PlacementIInv, RowsIInv, RowsTypeOK
  <1>2. ASSUME NEW s \in Session, UNCHANGED request,
               \A p \in Product : lock'[p] \in {lock[p], NoSession}
        PROVE  LocksAreWanted'
    BY <1>2, RowsAssumption DEF LocksAreWanted, Wanted
  <1>3. ASSUME NEW s \in Session, NEW p \in Product, LockRow(s, p) \/ SaveInventory(s, p)
        PROVE  LocksAreWanted'
    <2>1. p \in Wanted(s)
      BY <1>3 DEF LockRow, SaveInventory, PlacementIInv, SessionOK, LockPhase, SavePhase
    <2>2. request' = request /\ \A q \in Product : lock'[q] = IF q = p THEN s ELSE lock[q]
      BY <1>1, <1>3 DEF LockRow, SelectForUpdate, SaveInventory, Save
    <2> QED BY <2>1, <2>2 DEF LocksAreWanted, Wanted
  <1>4. ASSUME NEW s \in Session, Begin(s) PROVE LocksAreWanted'
    <2>1. \A p \in Product : lock[p] # s
      BY <1>4 DEF Begin, PlacementIInv, SessionOK, RestPhase, HoldsNothing
    <2>2. lock' = lock /\ \A t \in Session \ {s} : request'[t] = request[t]
      BY <1>1, <1>4 DEF Begin, PlacementTypeOK, rowsVars
    <2> QED BY <2>1, <2>2 DEF LocksAreWanted, Wanted
  <1>5. ASSUME NEW s \in Session,
               \/ \E r \in {"rejected", "error"} : Abort(s, r)
               \/ CommitOrder(s)
        PROVE  LocksAreWanted'
    <2>1. UNCHANGED request /\ ReleaseLocks(s)
      BY <1>5 DEF Abort, CommitOrder, Commit, Rollback, EndSession
    <2> QED BY <1>2, <2>1 DEF ReleaseLocks
  <1>6. ASSUME NEW s \in Session,
               Replay(s) \/ Validate(s) \/ Reserve(s) \/ Publish(s) \/ InsertKey(s) \/ Reply(s)
        PROVE  LocksAreWanted'
    <2>1. UNCHANGED <<request, lock>>
      BY <1>6 DEF Replay, Validate, Reserve, Publish, InsertKey, Reply, ReserveItems, rowsVars, requestVars
    <2> QED BY <1>2, <2>1
  <1>7. ASSUME NEW s \in Session, Serve(s) \/ Fail(s) \/ CommitUnacknowledged(s) PROVE LocksAreWanted'
    BY <1>7, <1>3, <1>5, <1>6 DEF Serve, Fail, CommitUnacknowledged, CommitSession, RejectProduct,
       RejectStock, MissingRow, KeyTaken, DeadlockVictim
  <1>8. CASE Terminating \/ UNCHANGED placementVars
    BY <1>8 DEF Terminating, placementVars, rowsVars, requestVars, LocksAreWanted, Wanted
  <1> QED BY <1>4, <1>7, <1>8 DEF PlacementNext

\* The holder of a key another session waits for waits for nothing itself.
LEMMA KeysAreOffCycles ==
  ASSUME PlacementIInv, NEW C \in SUBSET Session, NEW next \in [C -> C],
         \A t \in C : WaitsFor(t, next[t]), NEW t \in C
  PROVE  pc[t] = "lock"
  <1> SUFFICES ASSUME pc[t] # "lock" PROVE FALSE
    OBVIOUS
  <1>1. PICK u \in C : u = next[t]
    OBVIOUS
  <1>2. t \in Session /\ u \in Session /\ u # NoSession
    BY RowsAssumption
  <1>3. pc[t] = "flush" /\ NeedsKey(t) /\ inserting[KeyOf(t)] = u
    BY <1>1 DEF WaitsFor
  <1>4. KeyOf(t) \in Key
    <2>1. request[t] \in Request
      BY <1>2, <1>3 DEF PlacementIInv, SessionOK, RestPhase
    <2> QED BY <1>3, <2>1, RequestType DEF NeedsKey, KeyOf
  <1>5. pc[u] = "flush" /\ inserting[KeyOf(u)] = u
    BY <1>2, <1>3, <1>4 DEF PlacementIInv, KeysInFlight
  <1>6. WaitsFor(u, next[u]) /\ next[u] # u
    BY DEF WaitsFor
  <1> QED BY <1>5, <1>6 DEF WaitsFor

\* Deadlocks are among row locks only, whatever mix of keys, products and
\* failures: they come from get_by_product_ids, which locks the rows of an
\* order in no order the statement fixes.
THEOREM DeadlocksTakeTwoRows == PlacementSpec => []DeadlocksAreAmongRows
  <1>1. PlacementInit => LocksAreWanted
    BY RowsAssumption DEF PlacementInit, RowsInit, LocksAreWanted
  <1>2. PlacementIInv /\ LocksAreWanted /\ [PlacementNext]_placementVars => LocksAreWanted'
    BY LocksStayWanted
  <1>3. PlacementIInv /\ LocksAreWanted => DeadlocksAreAmongRows
    <2> SUFFICES ASSUME PlacementIInv, LocksAreWanted, NEW s \in Session, Deadlocked(s)
                 PROVE  /\ pc[s] = "lock"
                        /\ \E p, q \in Wanted(s) : p # q /\ lock[p] = s /\ lock[q] \notin {s, NoSession}
      BY DEF DeadlocksAreAmongRows
    <2>1. PICK C \in SUBSET Session : s \in C /\ \E next \in Bijection(C, C) : \A t \in C : WaitsFor(t, next[t])
      BY DEF Deadlocked
    <2>2. PICK next \in Bijection(C, C) : \A t \in C : WaitsFor(t, next[t])
      BY <2>1
    <2>3. next \in [C -> C] /\ \E t \in C : next[t] = s
      BY <2>1, <2>2 DEF Bijection, Injection, Surjection
    <2>4. PICK t \in C : next[t] = s
      BY <2>3
    <2>5. pc[s] = "lock" /\ pc[t] = "lock"
      BY <2>1, <2>2, <2>3, KeysAreOffCycles
    <2>6. PICK p \in todo[t] : lock[p] = s
      BY <2>2, <2>4, <2>5 DEF WaitsFor
    <2>7. PICK q \in todo[s] : lock[q] = next[s] /\ next[s] # s
      BY <2>1, <2>2, <2>5 DEF WaitsFor
    <2>8. next[s] \in Session /\ next[s] # NoSession
      BY <2>1, <2>3, RowsAssumption
    <2>9. p \in Product /\ q \in Wanted(s)
      <3>1. SessionOK(s) /\ SessionOK(t) /\ Wanted(t) \subseteq Product
        BY <2>1 DEF PlacementIInv, Wanted, Involved
      <3> QED BY <2>5, <3>1 DEF SessionOK, LockPhase
    <2>10. p \in Wanted(s)
      BY <2>6, <2>9 DEF LocksAreWanted
    <2> QED BY <2>5, <2>6, <2>7, <2>8, <2>9, <2>10
  <1> QED BY <1>1, <1>2, <1>3, PlacementInvariant, PTL DEF PlacementSpec
=============================================================================
