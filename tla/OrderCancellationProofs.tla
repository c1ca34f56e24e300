---------------------- MODULE OrderCancellationProofs ----------------------
(***************************************************************************)
(* Proofs about cancelling orders beside placing them, for every set of    *)
(* sessions, products and orders.  As for placement, each step is a step   *)
(* of the inventory table or leaves it alone, so RowsIInv carries over.    *)
(* The rest of CancellationIInv says what a session holds; its crux is     *)
(* that two sessions never write one order at the same time, because each  *)
(* owns the inventory rows of the order's items.                           *)
(***************************************************************************)
EXTENDS OrderCancellation, InventoryRowsProofs, FiniteSums

USE DEF Goto, Cancels, Target, AmountOf

\* The amounts of orders are amounts the inventory table knows.
LEMMA CallType ==
  ASSUME NEW r \in Request
  PROVE  /\ r.kind \in {"cancel", "place"}
         /\ r.order \in Order
         /\ r = [kind |-> r.kind, order |-> r.order]
         /\ Placed[r.order] \in Amount
         /\ Placed[r.order] \in [Product -> Nat]
         /\ Involved(Placed[r.order]) # {}
  BY CancellationAssumption, RowsAssumption

LEMMA CancellationInitInv == CancellationInit => CancellationIInv
  <1> SUFFICES ASSUME CancellationInit PROVE CancellationIInv
    OBVIOUS
  <1> USE CancellationAssumption, RowsAssumption DEF CancellationInit
  <1>1. RowsIInv
    BY DEF RowsIInv, RowsTypeOK, NoOversell, NoLostUpdate, DraftsExtendRows, FreshUnderLock,
       ItemsMatchRows, DraftsFit, View, NothingHeld, Row
  <1>2. CancellationTypeOK
    BY DEF CancellationTypeOK, Status
  <1>3. \A s \in Session : SessionOK(s)
    BY DEF SessionOK, LockPhase, SavePhase, CommitPhase, WritePhase, Writing, RestPhase,
       Working, NothingHeld
  <1>4. IdsAreFresh /\ StillPending
    BY DEF IdsAreFresh, StillPending, Working
  <1>5. Writers /\ UnknownHaveNone /\ OneSetOfItems
    BY DEF Writers, UnknownHaveNone, OneSetOfItems
  <1> QED BY <1>1, <1>2, <1>3, <1>4, <1>5 DEF CancellationIInv

\* A session at work knows its order.
LEMMA AtWork ==
  ASSUME CancellationIInv, NEW s \in Session, pc[s] # "idle"
  PROVE  /\ request[s] \in Request
         /\ Target(s) \in Order
         /\ AmountOf(s) \in Amount
         /\ AmountOf(s) \in [Product -> Nat]
         /\ Wanted(s) # {}
         /\ Wanted(s) \subseteq Product
  <1>1. request[s] \in Request
    BY DEF CancellationIInv, CancellationTypeOK, SessionOK, RestPhase
  <1> QED BY <1>1, CallType DEF Wanted, Involved

\* Cancelling and placing touch the table only as the repository does.
LEMMA StepsAreRowSteps ==
  ASSUME CancellationIInv, [CancellationNext]_cancellationVars
  PROVE  [RowsNext]_rowsVars
  <1>1. ASSUME NEW s \in Session, Serve(s) \/ Begin(s) \/ Fail(s) \/ CommitUnacknowledged(s)
        PROVE  RowStep(s) \/ UNCHANGED rowsVars
    <2>1. (\E why : Abort(s, why)) => RowStep(s)
      BY DEF Abort, RowStep
    <2>2. CASE NotFound(s) \/ Refuse(s) \/ ReleaseFails(s) \/ RejectStock(s)
                 \/ DeadlockVictim(s) \/ Fail(s)
      BY <2>1, <2>2 DEF NotFound, Refuse, ReleaseFails, RejectStock, DeadlockVictim, Fail
    <2>3. CASE \E p \in Product : LockRow(s, p) \/ SaveInventory(s, p)
      BY <2>3 DEF LockRow, SaveInventory, RowStep
    <2>4. CASE Reserve(s) \/ Release(s)
      <3>1. AmountOf(s) \in Amount
        BY <2>4, AtWork DEF Reserve, Release, AllLocked
      <3> QED BY <2>4, <3>1 DEF Reserve, Release, RowStep
    <2>5. CASE CommitSession(s) \/ CommitUnacknowledged(s)
      BY <2>5 DEF CommitSession, CommitUnacknowledged, CommitOrder, RowStep
    <2>6. CASE Begin(s) \/ ReadOrder(s) \/ Announce(s)
      BY <2>6 DEF Begin, ReadOrder, Announce
    <2> QED BY <1>1, <2>2, <2>3, <2>4, <2>5, <2>6 DEF Serve
  <1>2. Terminating \/ UNCHANGED cancellationVars => UNCHANGED rowsVars
    BY DEF Terminating, cancellationVars
  <1> QED BY <1>1, <1>2 DEF CancellationNext, RowsNext

LEMMA RowsStay ==
  ASSUME CancellationIInv, [CancellationNext]_cancellationVars
  PROVE  RowsIInv' /\ RowsTypeOK'
  <1>1. RowsIInv /\ [RowsNext]_rowsVars
    BY StepsAreRowSteps DEF CancellationIInv
  <1> QED BY <1>1, RowsNextInv DEF RowsIInv

\* No two sessions write the same order: both would own its inventory rows.
LEMMA OneWriter ==
  ASSUME CancellationIInv, NEW s \in Session, NEW t \in Session,
         Writing(s), Writing(t), Target(s) = Target(t)
  PROVE  s = t
  <1>1. PICK p \in Product : p \in Wanted(s)
    BY AtWork DEF Writing
  <1>2. p \in Wanted(t)
    BY <1>1 DEF Wanted
  <1> QED BY <1>1, <1>2 DEF CancellationIInv, SessionOK, WritePhase

-----------------------------------------------------------------------------
(* What a step of session s leaves alone.                                  *)

Frame(s) ==
  /\ \A t \in Session \ {s} :
       /\ pc'[t] = pc[t] /\ request'[t] = request[t] /\ todo'[t] = todo[t]
       /\ replaced'[t] = replaced[t]
       /\ pending'[t] = pending[t] /\ loaded'[t] = loaded[t]
       /\ \A p \in Product : lock'[p] = t <=> lock[p] = t
  /\ announced \subseteq announced'

\* What a step that does not commit leaves alone besides.
QuietFrame(s) == Frame(s) /\ UNCHANGED <<status, items>>

LEMMA OthersStay ==
  ASSUME CancellationIInv, NEW s \in Session, Frame(s), NEW t \in Session \ {s},
         WritePhase(t)', RestPhase(t)'
  PROVE  SessionOK(t)'
  <1>1. SessionOK(t)
    BY DEF CancellationIInv
  <1>2. /\ Wanted(t)' = Wanted(t) /\ Wanted(t) \subseteq Product
        /\ \A p \in Product : NetOf(t, p)' = NetOf(t, p) /\ Change(t, p)' = Change(t, p)
    BY DEF Frame, Wanted, Involved, NetOf, Change
  <1>3. LockPhase(t)'
    BY <1>1, <1>2 DEF Frame, SessionOK, LockPhase
  <1>4. SavePhase(t)'
    BY <1>1, <1>2 DEF Frame, SessionOK, SavePhase
  <1>5. CommitPhase(t)'
    BY <1>1, <1>2 DEF Frame, SessionOK, CommitPhase
  <1> QED BY <1>3, <1>4, <1>5 DEF SessionOK

LEMMA OthersStayQuiet ==
  ASSUME CancellationIInv, NEW s \in Session, QuietFrame(s), NEW t \in Session \ {s}
  PROVE  SessionOK(t)'
  <1>1. SessionOK(t) /\ Frame(s)
    BY DEF CancellationIInv, QuietFrame
  <1>2. Wanted(t)' = Wanted(t) /\ Wanted(t) \subseteq Product
    BY <1>1 DEF Frame, Wanted, Involved
  <1>3. WritePhase(t)'
    BY <1>1, <1>2 DEF QuietFrame, Frame, SessionOK, WritePhase, Writing
  <1>4. RestPhase(t)'
    BY <1>1 DEF QuietFrame, Frame, SessionOK, RestPhase, Working
  <1> QED BY <1>1, <1>3, <1>4, OthersStay

\* A step of a session whose request was known and that commits nothing.
LEMMA QuietStep ==
  ASSUME CancellationIInv, CancellationNext, NEW s \in Session, QuietFrame(s),
         request' = request, overlapped' = overlapped, pc[s] \notin {"idle", "done"}, pc'[s] # "idle",
         Working(s)' => Working(s) \/ (Cancels(s) => status[Target(s)] = "PENDING"),
         CancellationTypeOK', SessionOK(s)'
  PROVE  CancellationIInv'
  <1>1. RowsIInv'
    BY RowsStay
  <1>2. \A t \in Session : SessionOK(t)'
    BY OthersStayQuiet
  <1>3. IdsAreFresh'
    BY DEF CancellationIInv, IdsAreFresh, QuietFrame, Frame
  <1>4. Writers' /\ UnknownHaveNone' /\ OneSetOfItems'
    <2>1. \A w \in Session : pc[w] = "done" => pc'[w] = "done"
      BY DEF QuietFrame, Frame
    <2> QED BY <2>1 DEF CancellationIInv, Writers, UnknownHaveNone, OneSetOfItems, QuietFrame, Frame
  <1>5. StillPending'
    <2>1. \A t \in Session : (Working(t)' /\ Cancels(t) /\ Target(t) \notin overlapped)
                                 => status[Target(t)] = "PENDING"
      BY DEF CancellationIInv, StillPending, QuietFrame, Frame, Working
    <2>2. \A t \in Session : pc'[t] \notin {"idle", "done"} => pc[t] \notin {"idle", "done"}
      BY DEF QuietFrame, Frame
    <2> QED BY <2>1, <2>2 DEF CancellationIInv, StillPending, QuietFrame
  <1> QED BY <1>1, <1>2, <1>3, <1>4, <1>5 DEF CancellationIInv

LEMMA BeginInv ==
  ASSUME CancellationIInv, CancellationNext, NEW s \in Session, Begin(s)
  PROVE  CancellationIInv'
  <1> USE DEF Begin, rowsVars, bookVars
  <1>1. CancellationTypeOK /\ SessionOK(s)
    BY DEF CancellationIInv
  <1>2. PICK r \in Request :
          /\ MayAsk(r)
          /\ request' = [request EXCEPT ![s] = r]
          /\ overlapped' = overlapped \cup {o \in Order : Overlaps(r) /\ o = r.order}
          /\ IF r.kind = "cancel"
             THEN Goto(s, "read") /\ UNCHANGED todo
             ELSE Goto(s, "lock") /\ todo' = [todo EXCEPT ![s] = Involved(Placed[r.order])]
    OBVIOUS
  <1>3. /\ request'[s] = r /\ r # NoRequest
        /\ pc'[s] = IF r.kind = "cancel" THEN "read" ELSE "lock"
        /\ r.kind # "cancel" => todo'[s] = Involved(Placed[r.order])
        /\ Involved(Placed[r.order]) \subseteq Product
    BY <1>1, <1>2, CancellationAssumption DEF CancellationTypeOK, Involved
  <1>4. CancellationTypeOK'
    BY <1>1, <1>2, <1>3 DEF CancellationTypeOK
  <1>5. QuietFrame(s)
    BY <1>1, <1>2 DEF QuietFrame, Frame, CancellationTypeOK
  <1>6. \A p \in Product : pending[s][p] = NoRow
    BY <1>1 DEF SessionOK, RestPhase
  <1>7. SessionOK(s)'
    BY <1>1, <1>2, <1>3, <1>6, CallType DEF MayAsk, SessionOK, LockPhase, SavePhase, CommitPhase,
       WritePhase, Writing, RestPhase, Working, Wanted
  <1>8. \A t \in Session : SessionOK(t)'
    BY <1>5, <1>7, OthersStayQuiet
  <1>9. IdsAreFresh'
    BY <1>1, <1>2, <1>3, <1>5, CallType
       DEF CancellationIInv, IdsAreFresh, QuietFrame, Frame, MayAsk
  <1>10. Writers' /\ UnknownHaveNone' /\ OneSetOfItems'
    BY <1>5 DEF CancellationIInv, Writers, UnknownHaveNone, OneSetOfItems, QuietFrame, Frame
  <1>11. StillPending'
    <2>1. overlapped \subseteq overlapped' /\ (Overlaps(r) => r.order \in overlapped')
      BY <1>2, CallType
    <2>2. \A t \in Session : (Working(t)' /\ Cancels(t)' /\ Target(t)' \notin overlapped')
                                 => status'[Target(t)'] = "PENDING"
      BY <1>1, <1>2, <1>3, <1>5, <2>1
         DEF CancellationIInv, StillPending, QuietFrame, Frame, Working
    <2>3. (r.kind = "cancel" /\ r.order \notin overlapped') =>
            \A t \in Session \ {s} : pc[t] # "done" => request[t] # r
      BY <2>1 DEF Overlaps
    <2>4. \A t, u \in Session \ {s} :
            (pc'[t] \notin {"idle", "done"} /\ pc'[u] \notin {"idle", "done"} /\ Cancels(t)'
               /\ request'[t] = request'[u] /\ Target(t)' \notin overlapped') => t = u
      BY <1>5, <2>1 DEF CancellationIInv, StillPending, QuietFrame, Frame
    <2>5. \A t, u \in Session :
            (pc'[t] \notin {"idle", "done"} /\ pc'[u] \notin {"idle", "done"} /\ Cancels(t)'
               /\ request'[t] = request'[u] /\ Target(t)' \notin overlapped') => t = u
      BY <2>3, <2>4, <1>3, <1>5 DEF QuietFrame, Frame
    <2> QED BY <2>2, <2>5 DEF StillPending
  <1>12. RowsIInv'
    BY RowsStay
  <1> QED BY <1>4, <1>8, <1>9, <1>10, <1>11, <1>12 DEF CancellationIInv

LEMMA ReadOrderInv ==
  ASSUME CancellationIInv, CancellationNext, NEW s \in Session, ReadOrder(s)
  PROVE  CancellationIInv'
  <1> USE DEF ReadOrder, rowsVars, bookVars
  <1>1. CancellationTypeOK /\ SessionOK(s)
    BY DEF CancellationIInv
  <1>2. Wanted(s) \subseteq Product /\ Wanted(s)' = Wanted(s)
    BY AtWork DEF Wanted
  <1>3. CancellationTypeOK'
    BY <1>1, <1>2 DEF CancellationTypeOK
  <1>4. QuietFrame(s)
    BY <1>1 DEF QuietFrame, Frame, CancellationTypeOK
  <1>5. pc'[s] = "lock" /\ todo'[s] = Wanted(s)
    BY <1>1 DEF CancellationTypeOK
  <1>6. SessionOK(s)'
    BY <1>1, <1>2, <1>5 DEF SessionOK, LockPhase, SavePhase, CommitPhase, WritePhase, Writing,
       RestPhase, Working
  <1> QED BY <1>3, <1>4, <1>5, <1>6, QuietStep

LEMMA LockRowInv ==
  ASSUME CancellationIInv, CancellationNext, NEW s \in Session, NEW p \in Product, LockRow(s, p)
  PROVE  CancellationIInv'
  <1> USE DEF LockRow, SelectForUpdate, Hold, LockFree, bookVars
  <1>1. CancellationTypeOK /\ SessionOK(s) /\ RowsTypeOK
    BY DEF CancellationIInv, RowsIInv
  <1>2. Wanted(s) \subseteq Product /\ Wanted(s)' = Wanted(s)
    BY AtWork DEF Wanted
  <1>3. CancellationTypeOK'
    BY <1>1 DEF CancellationTypeOK
  <1>4. QuietFrame(s)
    BY <1>1, RowsAssumption DEF QuietFrame, Frame, CancellationTypeOK, RowsTypeOK
  <1>5. /\ todo'[s] = todo[s] \ {p}
        /\ lock'[p] = s
        /\ loaded'[s][p] # NoRow
        /\ loaded'[s][p].reserved = loaded'[s][p].base
        /\ \A q \in Product \ {p} : lock'[q] = lock[q] /\ loaded'[s][q] = loaded[s][q]
    BY <1>1, ViewType, RowsAssumption DEF CancellationTypeOK, RowsTypeOK, ToDomain
  <1>6. LockPhase(s)'
    BY <1>1, <1>2, <1>5 DEF SessionOK, LockPhase
  <1>7. SessionOK(s)'
    BY <1>1, <1>6 DEF SessionOK, SavePhase, CommitPhase, WritePhase, Writing, RestPhase, Working
  <1> QED BY <1>3, <1>4, <1>7, QuietStep DEF Working

\* InventoryItem.reserve and release change nothing but the reserved count.
LEMMA ChangedItem ==
  ASSUME NEW item \in Item, NEW n \in Nat
  PROVE  /\ Reserved(item, n).reserved = item.reserved + n
         /\ Reserved(item, n).base = item.base
         /\ Released(item, n).reserved = item.reserved - n
         /\ Released(item, n).base = item.base
         /\ Reserved(item, n) \in Item
         /\ n <= item.reserved => Released(item, n) \in Item
  <1>1. item.reserved + n \in Nat /\ (n <= item.reserved => item.reserved - n \in Nat)
    BY DEF Item
  <1>2. Reserved(item, n).reserved = item.reserved + n /\ Reserved(item, n).base = item.base
    BY DEF Reserved, Item
  <1>3. Released(item, n).reserved = item.reserved - n /\ Released(item, n).base = item.base
    BY DEF Released, Item
  <1>4. Reserved(item, n) \in Item
    BY <1>1 DEF Reserved, Item
  <1>5. n <= item.reserved => Released(item, n) \in Item
    BY <1>1 DEF Released, Item
  <1> QED BY <1>2, <1>3, <1>4, <1>5

\* The objects of a session that has locked its rows, after the walk.
LEMMA WalkInv ==
  ASSUME CancellationIInv, CancellationNext, NEW s \in Session, AllLocked(s), StartSaving(s),
         UNCHANGED <<inventory, lock, pending, granted>>,
         \A t \in Session \ {s} : loaded'[t] = loaded[t],
         \A p \in Wanted(s) :
           /\ loaded'[s][p] # NoRow
           /\ loaded'[s][p].reserved = loaded'[s][p].base + Change(s, p)
  PROVE  CancellationIInv'
  <1> USE DEF AllLocked, StartSaving, FindItems
  <1>1. CancellationTypeOK /\ SessionOK(s)
    BY DEF CancellationIInv
  <1>2. /\ Target(s) \in Order /\ AmountOf(s) \in [Product -> Nat]
        /\ Wanted(s) \subseteq Product /\ Wanted(s)' = Wanted(s)
        /\ \A p \in Product : Change(s, p)' = Change(s, p)
    BY AtWork DEF Wanted, Change
  <1>3. CancellationTypeOK'
    BY <1>1, <1>2 DEF CancellationTypeOK
  <1>4. QuietFrame(s)
    BY <1>1 DEF QuietFrame, Frame, CancellationTypeOK
  <1>5. /\ pc'[s] = "save" /\ todo'[s] = Wanted(s)
        /\ replaced'[s] = items[Target(s)]
        /\ \A p \in Product : pending[s][p] = NoRow
        /\ \A p \in Wanted(s) : lock[p] = s
    BY <1>1, <1>2 DEF CancellationTypeOK, SessionOK, LockPhase
  <1>6. \A p \in Product \ Wanted(s) : NetOf(s, p)' = Change(s, p)
    BY <1>2, <1>5 DEF NetOf, Change, Wanted, Involved
  <1>7. SavePhase(s)'
    BY <1>2, <1>5, <1>6 DEF SavePhase
  <1>8. SessionOK(s)'
    BY <1>1, <1>2, <1>5, <1>7 DEF SessionOK, LockPhase, CommitPhase, WritePhase, Writing,
       RestPhase, Working
  <1> QED BY <1>3, <1>4, <1>5, <1>8, QuietStep DEF Working

LEMMA LockedItems ==
  ASSUME CancellationIInv, NEW s \in Session, AllLocked(s), NEW p \in Wanted(s)
  PROVE  /\ loaded[s][p] \in Item
         /\ loaded[s][p].reserved = loaded[s][p].base
         /\ AmountOf(s)[p] \in Nat
         /\ p \in Product
  <1>1. p \in Product /\ AmountOf(s)[p] \in Nat
    BY AtWork DEF AllLocked
  <1>2. loaded[s][p] # NoRow /\ loaded[s][p].reserved = loaded[s][p].base
    BY DEF AllLocked, CancellationIInv, SessionOK, LockPhase
  <1>3. loaded[s][p] \in Item
    BY <1>1, <1>2 DEF CancellationIInv, RowsIInv, RowsTypeOK
  <1> QED BY <1>1, <1>2, <1>3

LEMMA ReserveInv ==
  ASSUME CancellationIInv, CancellationNext, NEW s \in Session, Reserve(s)
  PROVE  CancellationIInv'
  <1>1. AllLocked(s) /\ StartSaving(s) /\ ~Cancels(s) /\ ReserveItems(s, AmountOf(s))
    BY DEF Reserve
  <1>2. /\ UNCHANGED <<inventory, lock, pending, granted>>
        /\ \A t \in Session \ {s} : loaded'[t] = loaded[t]
        /\ \A p \in Wanted(s) : loaded'[s][p] = Reserved(loaded[s][p], AmountOf(s)[p])
    BY <1>1, LockedItems DEF ReserveItems, CancellationIInv, RowsIInv, RowsTypeOK, Wanted
  <1>3. \A p \in Wanted(s) :
          /\ loaded'[s][p] # NoRow
          /\ loaded'[s][p].reserved = loaded'[s][p].base + Change(s, p)
    <2> SUFFICES ASSUME NEW p \in Wanted(s)
                 PROVE  /\ loaded'[s][p] # NoRow
                        /\ loaded'[s][p].reserved = loaded'[s][p].base + Change(s, p)
      OBVIOUS
    <2> DEFINE n == AmountOf(s)[p]
    <2>1. n \in Nat /\ Change(s, p) = n
      BY <1>1, LockedItems DEF Change
    <2> HIDE DEF n
    <2>2. loaded'[s][p] = Reserved(loaded[s][p], n)
      BY <1>2 DEF n
    <2>3. loaded[s][p] \in Item /\ loaded[s][p].reserved = loaded[s][p].base
      BY <1>1, LockedItems
    <2> QED BY <2>1, <2>2, <2>3, ChangedItem, RowsAssumption
  <1> QED BY <1>1, <1>2, <1>3, WalkInv

LEMMA ReleaseInv ==
  ASSUME CancellationIInv, CancellationNext, NEW s \in Session, Release(s)
  PROVE  CancellationIInv'
  <1>1. AllLocked(s) /\ StartSaving(s) /\ Cancels(s) /\ ReleaseItems(s, AmountOf(s))
    BY DEF Release
  <1>2. /\ UNCHANGED <<inventory, lock, pending, granted>>
        /\ \A t \in Session \ {s} : loaded'[t] = loaded[t]
        /\ \A p \in Wanted(s) : loaded'[s][p] = Released(loaded[s][p], AmountOf(s)[p])
        /\ \A p \in Wanted(s) : AmountOf(s)[p] <= loaded[s][p].reserved
    BY <1>1, LockedItems DEF ReleaseItems, CanRelease, CancellationIInv, RowsIInv, RowsTypeOK, Wanted
  <1>3. \A p \in Wanted(s) :
          /\ loaded'[s][p] # NoRow
          /\ loaded'[s][p].reserved = loaded'[s][p].base + Change(s, p)
    <2> SUFFICES ASSUME NEW p \in Wanted(s)
                 PROVE  /\ loaded'[s][p] # NoRow
                        /\ loaded'[s][p].reserved = loaded'[s][p].base + Change(s, p)
      OBVIOUS
    <2> DEFINE n == AmountOf(s)[p]
    <2>1. n \in Nat /\ Change(s, p) = -n
      BY <1>1, LockedItems DEF Change
    <2>2. n <= loaded[s][p].reserved
      BY <1>2
    <2> HIDE DEF n
    <2>3. loaded'[s][p] = Released(loaded[s][p], n)
      BY <1>2 DEF n
    <2>4. loaded[s][p] \in Item /\ loaded[s][p].reserved = loaded[s][p].base
      BY <1>1, LockedItems
    <2>5. loaded[s][p].base \in Nat
      BY <2>4 DEF Item
    <2> QED BY <2>1, <2>2, <2>3, <2>4, <2>5, ChangedItem, RowsAssumption
  <1> QED BY <1>1, <1>2, <1>3, WalkInv

LEMMA SaveInventoryInv ==
  ASSUME CancellationIInv, CancellationNext, NEW s \in Session, NEW p \in Product,
         SaveInventory(s, p)
  PROVE  CancellationIInv'
  <1> USE DEF SaveInventory, Save, NewDraft, LockFree, bookVars
  <1>1. CancellationTypeOK /\ SessionOK(s) /\ RowsTypeOK
    BY DEF CancellationIInv, RowsIInv
  <1>2. /\ AmountOf(s) \in [Product -> Nat]
        /\ Wanted(s) \subseteq Product /\ Wanted(s)' = Wanted(s)
        /\ \A q \in Product : Change(s, q)' = Change(s, q)
    BY AtWork DEF Wanted, Change
  <1>3. CancellationTypeOK' /\ RowsTypeOK'
    BY <1>1, RowsStay DEF CancellationTypeOK
  <1>4. /\ p \in Wanted(s)
        /\ pending[s][p] = NoRow
        /\ loaded[s][p] \in Item
        /\ loaded[s][p].reserved = loaded[s][p].base + Change(s, p)
        /\ lock' = lock
    BY <1>1 DEF SessionOK, SavePhase, WritePhase, Writing, RowsTypeOK
  <1>5. Change(s, p) \in Int
    BY <1>2 DEF Change
  <1>6. QuietFrame(s)
    BY <1>1, <1>4 DEF QuietFrame, Frame, CancellationTypeOK, RowsTypeOK
  <1>7. pending'[s][p] # NoRow /\ NetOf(s, p)' = Change(s, p)
    <2>1. pending'[s][p] = NewDraft(s, p) /\ pending'[s][p] # NoRow
      BY <1>1, <1>3, RowsAssumption DEF RowsTypeOK, Item, Draft, NetOf
    <2>2. NewDraft(s, p).net = Change(s, p)
      BY <1>4, <1>5 DEF NetOf, Item
    <2> QED BY <2>1, <2>2 DEF NetOf
  <1>8. \A q \in Product \ {p} :
          pending'[s][q] = pending[s][q] /\ NetOf(s, q)' = NetOf(s, q)
    BY <1>1 DEF RowsTypeOK, NetOf
  <1>9. todo'[s] = todo[s] \ {p}
    BY <1>1 DEF CancellationTypeOK
  <1>10. SavePhase(s)'
    BY <1>1, <1>2, <1>4, <1>7, <1>8, <1>9 DEF SessionOK, SavePhase
  <1>11. SessionOK(s)'
    BY <1>1, <1>2, <1>4, <1>10 DEF SessionOK, LockPhase, CommitPhase, WritePhase, Writing,
       RestPhase, Working
  <1> QED BY <1>3, <1>6, <1>11, QuietStep DEF Working

LEMMA AnnounceInv ==
  ASSUME CancellationIInv, CancellationNext, NEW s \in Session, Announce(s)
  PROVE  CancellationIInv'
  <1> USE DEF Announce, rowsVars
  <1>1. CancellationTypeOK /\ SessionOK(s)
    BY DEF CancellationIInv
  <1>2. Target(s) \in Order
    BY AtWork
  <1>3. CancellationTypeOK'
    BY <1>1 DEF CancellationTypeOK
  <1>4. QuietFrame(s)
    BY <1>1 DEF QuietFrame, Frame, CancellationTypeOK
  <1>5. pc'[s] = "flush"
    BY <1>1 DEF CancellationTypeOK
  <1>6. /\ \A p \in Product : NetOf(s, p)' = Change(s, p)'
        /\ Wanted(s)' = Wanted(s)
    BY <1>1 DEF SessionOK, SavePhase, NetOf, Change, Wanted
  <1>7. SessionOK(s)'
    BY <1>1, <1>2, <1>5, <1>6 DEF SessionOK, LockPhase, SavePhase, CommitPhase, WritePhase,
       Writing, RestPhase, Working
  <1> QED BY <1>3, <1>4, <1>5, <1>7, QuietStep DEF Working

LEMMA AbortInv ==
  ASSUME CancellationIInv, CancellationNext, NEW s \in Session, pc[s] \notin {"idle", "done"},
         NEW why \in {"unknown", "conflict", "shortage", "error"}, Abort(s, why)
  PROVE  CancellationIInv'
  <1> USE DEF Abort, Rollback, bookVars
  <1>1. CancellationTypeOK /\ SessionOK(s) /\ RowsTypeOK
    BY DEF CancellationIInv, RowsIInv
  <1>2. CancellationTypeOK'
    BY <1>1 DEF CancellationTypeOK
  <1>3. QuietFrame(s)
    BY <1>1, RowsAssumption
       DEF QuietFrame, Frame, CancellationTypeOK, EndSession, ReleaseLocks, RowsTypeOK
  <1>4. pc'[s] = "done" /\ \A p \in Product : pending'[s][p] = NoRow
    BY <1>1, SessionEnds DEF CancellationTypeOK
  <1>5. SessionOK(s)'
    BY <1>1, <1>4 DEF SessionOK, LockPhase, SavePhase, CommitPhase, WritePhase, Writing,
       RestPhase, Working
  <1> QED BY <1>2, <1>3, <1>4, <1>5, QuietStep DEF Working

-----------------------------------------------------------------------------
(* The commit, which writes the order row.                                 *)

\* A commit leaves the rows of every order it is not about as they were, and
\* no other session is writing the order it is about.
LEMMA CommitOthers ==
  ASSUME CancellationIInv, NEW s \in Session, CommitOrder(s), Frame(s),
         NEW t \in Session \ {s}
  PROVE  SessionOK(t)'
  <1> USE DEF CommitOrder
  <1>1. CancellationTypeOK /\ SessionOK(s) /\ SessionOK(t)
    BY DEF CancellationIInv
  <1>2. Target(s) \in Order /\ request[s] \in Request
    BY AtWork
  <1>3. WritePhase(t)'
    <2> SUFFICES ASSUME Writing(t)
                 PROVE  WritePhase(t)'
      BY DEF WritePhase, Writing, Frame
    <2>1. Target(t) # Target(s)
      BY OneWriter DEF Writing
    <2>2. items'[Target(t)] = items[Target(t)]
      BY <1>1, <1>2, <2>1, AtWork DEF CancellationTypeOK, Writing
    <2>3. Wanted(t)' = Wanted(t) /\ Wanted(t) \subseteq Product
      BY AtWork DEF Wanted, Frame, Writing
    <2> QED BY <1>1, <2>2, <2>3 DEF Frame, SessionOK, WritePhase
  <1>4. RestPhase(t)'
    <2>1. CASE Working(t) /\ Target(t) = Target(s)
      <3>1. request[t] \in Request
        BY <2>1, AtWork DEF Working
      <3>2. CASE Cancels(t)
        <4>1. status[Target(s)] # "absent"
          BY <1>1, <2>1, <3>2 DEF SessionOK, RestPhase
        <4>2. Cancels(s)
          BY <1>1, <4>1 DEF SessionOK, RestPhase, Working
        <4>3. status'[Target(t)'] = "CANCELLED"
          BY <1>1, <1>2, <2>1, <4>2 DEF CancellationTypeOK, NewStatus, Frame
        <4> QED BY <1>1, <2>1, <3>2, <4>3 DEF SessionOK, RestPhase, Frame, Working
      <3>3. CASE ~Cancels(t)
        <4>1. status[Target(s)] = "absent"
          BY <1>1, <2>1, <3>3 DEF SessionOK, RestPhase
        <4>2. ~Cancels(s)
          BY <1>1, <4>1 DEF SessionOK, RestPhase, Working
        <4>3. request[s] = request[t]
          BY <1>2, <2>1, <3>1, <3>3, <4>2, CallType
        <4> QED BY <3>3, <4>3, <2>1 DEF CancellationIInv, IdsAreFresh, Working
      <3> QED BY <3>2, <3>3
    <2>2. CASE ~(Working(t) /\ Target(t) = Target(s))
      <3>1. Working(t) => status'[Target(t)] = status[Target(t)]
        BY <1>1, <1>2, <2>2, AtWork DEF CancellationTypeOK, Working
      <3> QED BY <1>1, <3>1 DEF SessionOK, RestPhase, Frame, Working
    <2> QED BY <2>1, <2>2
  <1> QED BY <1>3, <1>4, OthersStay

LEMMA CommitInvariant ==
  ASSUME CancellationIInv, CancellationNext, NEW s \in Session, CommitOrder(s),
         NEW answer \in {"ok", "error"}, outcome' = [outcome EXCEPT ![s] = answer]
  PROVE  CancellationIInv'
  <1> USE DEF CommitOrder, Commit
  <1>1. CancellationTypeOK /\ SessionOK(s) /\ RowsTypeOK
    BY DEF CancellationIInv, RowsIInv
  <1>2. Target(s) \in Order /\ request[s] \in Request /\ Writing(s)
    BY AtWork DEF Writing
  <1>3. CancellationTypeOK'
    BY <1>1, <1>2 DEF CancellationTypeOK, NewStatus, Status
  <1>4. Frame(s)
    BY <1>1, RowsAssumption DEF Frame, CancellationTypeOK, EndSession, ReleaseLocks, RowsTypeOK
  <1>5. pc'[s] = "done" /\ \A p \in Product : pending'[s][p] = NoRow
    BY <1>1, SessionEnds DEF CancellationTypeOK
  <1>6. SessionOK(s)'
    BY <1>1, <1>5 DEF SessionOK, LockPhase, SavePhase, CommitPhase, WritePhase, Writing,
       RestPhase, Working
  <1>7. \A t \in Session : SessionOK(t)'
    BY <1>6, <1>4, CommitOthers
  <1>8. IdsAreFresh'
    BY <1>4 DEF CancellationIInv, IdsAreFresh, Frame
  <1>9. /\ status'[Target(s)] = NewStatus(s)
        /\ items'[Target(s)] = (items[Target(s)] \ replaced[s]) \cup {s}
        /\ \A o \in Order \ {Target(s)} : status'[o] = status[o] /\ items'[o] = items[o]
    BY <1>1, <1>2 DEF CancellationTypeOK
  <1>10. items'[Target(s)] = {s}
    BY <1>1, <1>2, <1>9 DEF SessionOK, WritePhase
  <1>11. OneSetOfItems' /\ UnknownHaveNone'
    BY <1>9, <1>10 DEF CancellationIInv, OneSetOfItems, UnknownHaveNone, NewStatus
  <1>12. Writers'
    <2> SUFFICES ASSUME NEW o \in Order, NEW w \in Session, w \in items'[o]
                 PROVE  /\ pc'[w] = "done"
                        /\ request[w].order = o
                        /\ (request[w].kind = "cancel" /\ w \in Publisher) => o \in announced
                        /\ request[w].kind # "cancel" => status'[o] = "CONFIRMED"
      BY DEF Writers
    <2>1. CASE o = Target(s)
      <3>1. w = s
        BY <2>1, <1>10
      <3> QED BY <2>1, <3>1, <1>1, <1>5, <1>9 DEF SessionOK, CommitPhase, NewStatus
    <2>2. CASE o # Target(s)
      <3>1. w \in items[o] /\ status'[o] = status[o]
        BY <2>2, <1>9
      <3> QED BY <3>1, <1>4, <1>5 DEF CancellationIInv, Writers, Frame
    <2> QED BY <2>1, <2>2
  <1>13. StillPending'
    <2>1. \A t \in Session : pc'[t] \notin {"idle", "done"} => t # s /\ pc'[t] = pc[t]
      BY <1>4, <1>5 DEF Frame
    <2>2. ASSUME NEW t \in Session, Working(t)', Cancels(t), Target(t) \notin overlapped
          PROVE  status'[Target(t)] = "PENDING"
      <3>1. t # s /\ Working(t) /\ status[Target(t)] = "PENDING"
        BY <2>1, <2>2 DEF CancellationIInv, StillPending, Working
      <3>2. request[t] \in Request /\ Target(t) \in Order
        BY <3>1, AtWork DEF Working
      <3>3. CASE Target(t) = Target(s)
        <4>1. Cancels(s)
          BY <1>1, <3>1, <3>3 DEF SessionOK, RestPhase, Working
        <4>2. request[s] = request[t]
          BY <1>2, <2>2, <3>2, <3>3, <4>1, CallType
        <4> QED BY <2>2, <3>1, <4>1, <4>2 DEF CancellationIInv, StillPending, Working
      <3>4. CASE Target(t) # Target(s)
        BY <1>9, <3>1, <3>2, <3>4
      <3> QED BY <3>3, <3>4
    <2> QED BY <2>1, <2>2 DEF CancellationIInv, StillPending, Working
  <1>14. RowsIInv'
    BY RowsStay
  <1> QED BY <1>3, <1>7, <1>8, <1>11, <1>12, <1>13, <1>14 DEF CancellationIInv

-----------------------------------------------------------------------------
LEMMA CancellationNextInv ==
  ASSUME CancellationIInv, [CancellationNext]_cancellationVars
  PROVE  CancellationIInv'
  <1>1. CASE UNCHANGED cancellationVars
    <2> USE <1>1 DEF cancellationVars, rowsVars, callVars, bookVars, CancellationIInv
    <2>1. RowsIInv'
      BY RowsStay
    <2>2. CancellationTypeOK'
      BY DEF CancellationTypeOK
    <2>3. \A s \in Session : SessionOK(s)'
      BY DEF SessionOK, LockPhase, SavePhase, CommitPhase, WritePhase, Writing, RestPhase,
         Working, NetOf, Wanted, Change
    <2>4. IdsAreFresh' /\ Writers' /\ UnknownHaveNone' /\ OneSetOfItems' /\ StillPending'
      BY DEF IdsAreFresh, Writers, UnknownHaveNone, OneSetOfItems, StillPending, Working
    <2> QED BY <2>1, <2>2, <2>3, <2>4
  <1>2. CASE CancellationNext
    <2>1. ASSUME NEW s \in Session, Begin(s) \/ Serve(s) \/ Fail(s) \/ CommitUnacknowledged(s)
          PROVE  CancellationIInv'
      <3>1. CASE NotFound(s) \/ Refuse(s) \/ ReleaseFails(s) \/ RejectStock(s)
                   \/ DeadlockVictim(s) \/ Fail(s)
        <4>1. /\ pc[s] \notin {"idle", "done"}
              /\ \E why \in {"unknown", "conflict", "shortage", "error"} : Abort(s, why)
          BY <3>1 DEF NotFound, Refuse, ReleaseFails, RejectStock, DeadlockVictim, Fail,
             AllLocked, Deadlocked, WaitsFor
        <4> QED BY <4>1, <1>2, AbortInv
      <3>2. ASSUME NEW p \in Product, LockRow(s, p) \/ SaveInventory(s, p)
            PROVE  CancellationIInv'
        BY <3>2, <1>2, LockRowInv, SaveInventoryInv
      <3>3. CASE CommitSession(s) \/ CommitUnacknowledged(s)
        <4>1. /\ CommitOrder(s)
              /\ \E answer \in {"ok", "error"} : outcome' = [outcome EXCEPT ![s] = answer]
          BY <3>3 DEF CommitSession, CommitUnacknowledged
        <4> QED BY <4>1, <1>2, CommitInvariant
      <3> QED BY <2>1, <1>2, <3>1, <3>2, <3>3, BeginInv, ReadOrderInv, ReserveInv, ReleaseInv,
                 AnnounceInv DEF Serve
    <2> QED BY <1>1, <1>2, <2>1 DEF CancellationNext, Terminating
  <1> QED BY <1>1, <1>2

\* What holds at every point of a cancellation or a placement, for any number
\* of them, overlapping or not.
THEOREM CancellationInvariant == CancellationSpec => []CancellationIInv
  <1>1. CancellationInit => CancellationIInv
    BY CancellationInitInv
  <1>2. CancellationIInv /\ [CancellationNext]_cancellationVars => CancellationIInv'
    BY CancellationNextInv
  <1> QED BY <1>1, <1>2, PTL DEF CancellationSpec

\* An order never has its items twice and never loses them, whatever sessions
\* rewrite it.
THEOREM ItemsAreWrittenOnce == CancellationSpec => []OneSetOfItems
  BY CancellationInvariant, PTL DEF CancellationIInv

\* Cancelling uses the inventory table through the repository's operations
\* only, so no overlap of cancellations makes the table inconsistent.
THEOREM CancellationUsesRows == CancellationSpec => UsesRowOperations
  <1>1. CancellationIInv /\ [CancellationNext]_cancellationVars => [RowsNext]_rowsVars
    BY StepsAreRowSteps
  <1> QED BY <1>1, CancellationInvariant, PTL DEF CancellationSpec, UsesRowOperations

\* A cancellation committed by a process with a producer has been announced.
THEOREM CancellationsAreAnnounced == CancellationSpec => []CancelledIsAnnounced
  <1>1. CancellationIInv => CancelledIsAnnounced
    BY CancellationAssumption DEF CancellationIInv, CancelledIsAnnounced, Writers
  <1> QED BY <1>1, CancellationInvariant, PTL

-----------------------------------------------------------------------------
(* What a commit does to an order and its stock.                           *)

\* Only a commit changes the status of an order or a row of the table.
LEMMA OnlyCommitsWrite ==
  ASSUME CancellationIInv, [CancellationNext]_cancellationVars,
         \A s \in Session : ~CommitOrder(s)
  PROVE  UNCHANGED <<status, inventory>>
  <1>1. CASE Terminating \/ UNCHANGED cancellationVars
    BY <1>1 DEF Terminating, cancellationVars, rowsVars, bookVars
  <1>2. ASSUME NEW s \in Session, NEW why, Abort(s, why)
        PROVE  UNCHANGED <<status, inventory>>
    BY <1>2 DEF Abort, Rollback, bookVars
  <1>3. ASSUME NEW s \in Session, Begin(s) \/ ReadOrder(s) \/ Announce(s)
        PROVE  UNCHANGED <<status, inventory>>
    BY <1>3 DEF Begin, ReadOrder, Announce, rowsVars, bookVars
  <1>4. ASSUME NEW s \in Session, Reserve(s) \/ Release(s)
        PROVE  UNCHANGED <<status, inventory>>
    BY <1>4 DEF Reserve, Release, ReserveItems, ReleaseItems, StartSaving
  <1>5. ASSUME NEW s \in Session, NEW p \in Product, LockRow(s, p) \/ SaveInventory(s, p)
        PROVE  UNCHANGED <<status, inventory>>
    BY <1>5 DEF LockRow, SelectForUpdate, SaveInventory, Save, bookVars
  <1> QED BY <1>1, <1>2, <1>3, <1>4, <1>5 DEF CancellationNext, Serve, NotFound, Refuse,
         ReleaseFails, RejectStock, DeadlockVictim, Fail, CommitSession, CommitUnacknowledged

\* The order a session commits is new or PENDING, or was cancelled meanwhile.
LEMMA CommitStatus ==
  ASSUME CancellationIInv, NEW s \in Session, CommitOrder(s)
  PROVE  /\ status' = [status EXCEPT ![Target(s)] = NewStatus(s)]
         /\ ~Cancels(s) => status[Target(s)] = "absent"
         /\ Cancels(s) => status[Target(s)] \in {"PENDING", "CANCELLED"}
         /\ (Cancels(s) /\ Target(s) \notin overlapped) => status[Target(s)] = "PENDING"
  BY DEF CommitOrder, CancellationIInv, SessionOK, RestPhase, Working, StillPending

\* An order that is CONFIRMED or CANCELLED stays so.
THEOREM OnlyPendingOrdersAreCancelled == CancellationSpec => OnlyPendingIsCancelled
  <1> DEFINE Moves == \A o \in Order : status'[o] # status[o] =>
        <<status[o], status'[o]>> \in {<<"absent", "CONFIRMED">>, <<"PENDING", "CANCELLED">>}
  <1>1. CancellationIInv /\ [CancellationNext]_cancellationVars => Moves
    <2> SUFFICES ASSUME CancellationIInv, [CancellationNext]_cancellationVars PROVE Moves
      OBVIOUS
    <2>1. CASE \A s \in Session : ~CommitOrder(s)
      BY <2>1, OnlyCommitsWrite
    <2>2. ASSUME NEW s \in Session, CommitOrder(s) PROVE Moves
      BY <2>2, CommitStatus DEF NewStatus, CancellationIInv, CancellationTypeOK
    <2> QED BY <2>1, <2>2
  <1>2. CancellationIInv /\ [CancellationNext]_cancellationVars => [Moves]_cancellationVars
    BY <1>1
  <1> QED BY <1>2, CancellationInvariant, PTL DEF CancellationSpec, OnlyPendingIsCancelled

ReservedColumn == [p \in Product |-> inventory[p].reserved]

\* A commit adds what its order changes, and the sum fits the stock.
LEMMA CommitChanges ==
  ASSUME CancellationIInv, CancellationIInv', NEW s \in Session, CommitOrder(s),
         NEW p \in Product
  PROVE  /\ inventory'[p].reserved = inventory[p].reserved + Change(s, p)
         /\ inventory'[p].reserved <= Quantity[p]
         /\ inventory[p].reserved \in Nat
  <1>1. NetOf(s, p) = Change(s, p)
    BY DEF CancellationIInv, CommitOrder, SessionOK, CommitPhase
  <1>2. granted'[p] = granted[p] + NetOf(s, p)
    BY DEF CommitOrder, Commit
  <1>3. /\ inventory[p].reserved = granted[p]
        /\ inventory'[p].reserved = granted'[p]
        /\ granted'[p] \in 0 .. Quantity[p]
        /\ granted[p] \in 0 .. Quantity[p]
    BY DEF CancellationIInv, RowsIInv, NoLostUpdate, NoOversell
  <1> QED BY <1>1, <1>2, <1>3, RowsAssumption

LEMMA CommitIsBookStep ==
  ASSUME overlapped = {}, CancellationIInv, CancellationIInv', NEW s \in Session, CommitOrder(s)
  PROVE  Book!BookNext
  <1>1. /\ request[s] \in Request /\ Target(s) \in Order
        /\ AmountOf(s) \in Amount /\ AmountOf(s) \in [Product -> Nat]
    BY AtWork DEF CommitOrder
  <1> DEFINE o == Target(s)
             d == AmountOf(s)
  <1>2. status' = [status EXCEPT ![o] = NewStatus(s)] /\ status \in [Order -> Status]
    BY CommitStatus DEF CancellationIInv, CancellationTypeOK
  <1>3. CASE Cancels(s)
    <2>1. status[o] = "PENDING" /\ NewStatus(s) = "CANCELLED"
      BY <1>3, CommitStatus DEF NewStatus
    <2>2. LiveRows[o] = [key |-> "none", amount |-> d]
      BY <1>1, <2>1 DEF LiveRows, Live
    <2>3. LiveRows' = [LiveRows EXCEPT ![o] = NoRequest]
      BY <1>1, <1>2, <2>1 DEF LiveRows, Live
    <2>4. \A p \in Product : inventory'[p].reserved = inventory[p].reserved - d[p]
      <3> SUFFICES ASSUME NEW p \in Product
                   PROVE  inventory'[p].reserved = inventory[p].reserved - d[p]
        OBVIOUS
      <3>1. Change(s, p) = -d[p] /\ d[p] \in Nat
        BY <1>1, <1>3 DEF Change
      <3> QED BY <3>1, CommitChanges
    <2>5. ReservedColumn' = [p \in Product |-> ReservedColumn[p] - LiveRows[o].amount[p]]
      BY <2>2, <2>4 DEF ReservedColumn
    <2>6. LiveRows[o] # NoRequest
      BY <1>1, <2>2, CancellationAssumption
    <2>7. Book!Cancel(o)
      BY <2>3, <2>5, <2>6 DEF Book!Cancel, ReservedColumn
    <2>8. PICK c \in Order : c = o
      BY <1>1
    <2>9. Book!Cancel(c)
      BY <2>7, <2>8 DEF Book!Cancel
    <2> QED BY <2>9 DEF Book!BookNext
  <1>4. CASE ~Cancels(s)
    <2>1. status[o] = "absent" /\ NewStatus(s) = "CONFIRMED"
      BY <1>4, CommitStatus DEF NewStatus
    <2>2. LiveRows[o] = NoRequest
      BY <1>1, <2>1 DEF LiveRows, Live
    <2>3. LiveRows' = [LiveRows EXCEPT ![o] = [key |-> "none", amount |-> d]]
      BY <1>1, <1>2, <2>1 DEF LiveRows, Live
    <2>4. \A p \in Product :
            /\ inventory'[p].reserved = inventory[p].reserved + d[p]
            /\ inventory'[p].reserved <= Quantity[p]
      <3> SUFFICES ASSUME NEW p \in Product
                   PROVE  /\ inventory'[p].reserved = inventory[p].reserved + d[p]
                          /\ inventory'[p].reserved <= Quantity[p]
        OBVIOUS
      <3>1. Change(s, p) = d[p]
        BY <1>4 DEF Change
      <3> QED BY <3>1, CommitChanges
    <2>5. /\ ReservedColumn' = [p \in Product |-> ReservedColumn[p] + d[p]]
          /\ \A p \in Product : ReservedColumn[p] + d[p] <= Quantity[p]
      BY <2>4 DEF ReservedColumn
    <2>6. Book!Place(o, "none", d)
      BY <2>2, <2>3, <2>5 DEF Book!Place, ReservedColumn
    <2>7. PICK c \in Order, k \in {} \cup {"none"}, e \in Amount : c = o /\ k = "none" /\ e = d
      BY <1>1
    <2>8. Book!Place(c, k, e)
      BY <2>6, <2>7 DEF Book!Place, Book!KeyUnused
    <2>9. Book!LedgerNext
      BY <2>8 DEF Book!LedgerNext
    <2> QED BY <2>9 DEF Book!BookNext
  <1> QED BY <1>3, <1>4

\* Until two calls cancel one order at once, orders and stock move together:
\* each step places an order whole or gives all of one back.
THEOREM CancellationImplementsBook == CancellationSpec => ImplementsBook
  <1>1. CancellationIInv /\ CancellationIInv' /\ [CancellationNext]_cancellationVars
          => [overlapped = {} => Book!BookNext]_(Book!ledgerVars)
    <2> SUFFICES ASSUME CancellationIInv, CancellationIInv', [CancellationNext]_cancellationVars,
                        overlapped = {}
                 PROVE  Book!BookNext \/ UNCHANGED <<LiveRows, ReservedColumn>>
      BY DEF Book!ledgerVars, ReservedColumn
    <2>1. CASE \A s \in Session : ~CommitOrder(s)
      BY <2>1, OnlyCommitsWrite DEF LiveRows, ReservedColumn
    <2>2. ASSUME NEW s \in Session, CommitOrder(s) PROVE Book!BookNext
      BY <2>2, CommitIsBookStep
    <2> QED BY <2>1, <2>2
  <1> QED BY <1>1, CancellationInvariant, PTL DEF CancellationSpec, ImplementsBook

-----------------------------------------------------------------------------
(* What the live orders hold.                                              *)

\* What a set of orders holds of a product is a sum of naturals.
LEMMA HeldIsSum ==
  ASSUME NEW S \in SUBSET Order, IsFiniteSet(S), NEW p \in Product,
         NEW a, a = [o \in Order |-> Placed[o][p]]
  PROVE  /\ HeldBy(S, p) = SumFunctionOnSet(a, S)
         /\ NaturalsOn(a, Order) /\ IntegersOn(a, Order)
         /\ NaturalsOn(a, S) /\ IntegersOn(a, S)
  <1> DEFINE b == [o \in S |-> Placed[o][p]]
  <1>1. HeldBy(S, p) = SumFunctionOnSet(b, S)
    BY ZenonT(60) DEF HeldBy, MapThenSumSet, SumFunctionOnSet, FoldFunctionOnSet, MapThenFoldSet
  <1>2. NaturalsOn(a, Order) /\ IntegersOn(a, Order)
    BY CancellationAssumption, RowsAssumption DEF NaturalsOn, IntegersOn
  <1>3. NaturalsOn(a, S) /\ IntegersOn(a, S)
    BY <1>2 DEF NaturalsOn, IntegersOn
  <1>4. \A o \in S : a[o] = b[o]
    OBVIOUS
  <1> HIDE DEF b
  <1>5. SumFunctionOnSet(a, S) = SumFunctionOnSet(b, S)
    BY <1>3, <1>4, SumsAgree
  <1> QED BY <1>1, <1>2, <1>3, <1>5

LEMMA HeldWith ==
  ASSUME NEW S \in SUBSET Order, IsFiniteSet(S), NEW o \in Order, o \notin S, NEW p \in Product
  PROVE  HeldBy(S \cup {o}, p) = HeldBy(S, p) + Placed[o][p]
  <1>1. PICK a : a = [c \in Order |-> Placed[c][p]]
    OBVIOUS
  <1>2. IsFiniteSet(S \cup {o}) /\ S \cup {o} \in SUBSET Order
    BY FS_AddElement
  <1>3. HeldBy(S, p) = SumFunctionOnSet(a, S) /\ IntegersOn(a, Order) /\ IntegersOn(a, S)
    BY <1>1, HeldIsSum
  <1>4. HeldBy(S \cup {o}, p) = SumFunctionOnSet(a, S \cup {o})
    BY <1>1, <1>2, HeldIsSum
  <1>5. a[o] \in Int /\ a[o] = Placed[o][p]
    BY <1>1, <1>3 DEF IntegersOn
  <1>6. SumFunctionOnSet(a, S \cup {o}) = SumFunctionOnSet(a, S) + a[o]
    BY <1>3, <1>5, SumWith
  <1> QED BY <1>3, <1>4, <1>5, <1>6

LEMMA HeldWithout ==
  ASSUME NEW S \in SUBSET Order, IsFiniteSet(S), NEW o \in S, NEW p \in Product
  PROVE  /\ HeldBy(S \ {o}, p) = HeldBy(S, p) - Placed[o][p]
         /\ Placed[o][p] <= HeldBy(S, p)
         /\ HeldBy(S, p) \in Int
  <1>1. PICK a : a = [c \in Order |-> Placed[c][p]]
    OBVIOUS
  <1>2. IsFiniteSet(S \ {o}) /\ S \ {o} \in SUBSET Order
    BY FS_RemoveElement
  <1>3. HeldBy(S, p) = SumFunctionOnSet(a, S) /\ NaturalsOn(a, S) /\ IntegersOn(a, S)
    BY <1>1, HeldIsSum
  <1>4. HeldBy(S \ {o}, p) = SumFunctionOnSet(a, S \ {o})
    BY <1>1, <1>2, HeldIsSum
  <1>5. a[o] \in Int /\ a[o] = Placed[o][p]
    BY <1>1, <1>3 DEF IntegersOn
  <1>6. /\ SumFunctionOnSet(a, S) = a[o] + SumFunctionOnSet(a, S \ {o})
        /\ SumFunctionOnSet(a, S) \in Int
        /\ SumFunctionOnSet(a, S \ {o}) \in Int
    BY <1>3, SumWithout
  <1>7. a[o] <= SumFunctionOnSet(a, S)
    BY <1>3, SumCovers
  <1> QED BY <1>3, <1>4, <1>5, <1>6, <1>7

\* The live orders are finitely many and hold what is reserved.
LiveStock == IsFiniteSet(LiveOrders) /\ StockBacksLiveOrders

LEMMA LiveStockInit == CancellationInit => LiveStock
  BY SeedsAssumption DEF CancellationInit, LiveStock, StockBacksLiveOrders, LiveOrders, Untouched

\* A placed order joins the live ones with all it holds.
LEMMA PlacingKeepsStock ==
  ASSUME CancellationIInv, CancellationIInv', LiveStock,
         NEW s \in Session, CommitOrder(s), ~Cancels(s)
  PROVE  LiveStock'
  <1>1. PICK o \in Order : o = Target(s) /\ Placed[o] \in [Product -> Nat]
    BY AtWork DEF CommitOrder
  <1>2. /\ status[o] = "absent"
        /\ status' = [status EXCEPT ![o] = "CONFIRMED"]
        /\ status \in [Order -> Status]
    BY <1>1, CommitStatus DEF NewStatus, CancellationIInv, CancellationTypeOK
  <1>3. PICK S \in SUBSET Order : S = LiveOrders
    BY DEF LiveOrders
  <1>4. o \notin S /\ LiveOrders' = S \cup {o} /\ IsFiniteSet(S)
    BY <1>2, <1>3 DEF LiveOrders, Live, LiveStock
  <1>5. IsFiniteSet(S \cup {o})
    BY <1>4, FS_AddElement
  <1>6. Untouched' = Untouched /\ Untouched \subseteq Product
    BY DEF CommitOrder, Untouched
  <1>7. ASSUME NEW p \in Untouched PROVE inventory'[p].reserved = HeldBy(S \cup {o}, p)
    <2>1. p \in Product
      BY <1>6
    <2>2. inventory[p].reserved = HeldBy(S, p)
      BY <1>3 DEF LiveStock, StockBacksLiveOrders
    <2>3. inventory'[p].reserved = inventory[p].reserved + Placed[o][p]
      BY <1>1, <2>1, CommitChanges DEF Change
    <2>4. HeldBy(S \cup {o}, p) = HeldBy(S, p) + Placed[o][p]
      BY <1>4, <2>1, HeldWith
    <2> QED BY <2>2, <2>3, <2>4
  <1> QED BY <1>4, <1>5, <1>6, <1>7 DEF LiveStock, StockBacksLiveOrders

\* A cancelled order leaves the live ones with all it held; one that another
\* call has cancelled already holds nothing of the products in question.
LEMMA CancellingKeepsStock ==
  ASSUME CancellationIInv, CancellationIInv', LiveStock,
         NEW s \in Session, CommitOrder(s), Cancels(s)
  PROVE  LiveStock'
  <1>1. PICK o \in Order : o = Target(s) /\ Placed[o] \in [Product -> Nat]
    BY AtWork DEF CommitOrder
  <1>2. /\ status[o] \in {"PENDING", "CANCELLED"}
        /\ o \notin overlapped => status[o] = "PENDING"
        /\ status' = [status EXCEPT ![o] = "CANCELLED"]
        /\ status \in [Order -> Status]
    BY <1>1, CommitStatus DEF NewStatus, CancellationIInv, CancellationTypeOK
  <1>3. PICK S \in SUBSET Order : S = LiveOrders
    BY DEF LiveOrders
  <1>4. LiveOrders' = S \ {o} /\ IsFiniteSet(S) /\ (o \in S <=> status[o] = "PENDING")
    BY <1>2, <1>3 DEF LiveOrders, Live, LiveStock
  <1>5. IsFiniteSet(S \ {o})
    BY <1>4, FS_RemoveElement
  <1>6. Untouched' = Untouched /\ Untouched \subseteq Product
    BY DEF CommitOrder, Untouched
  <1>7. ASSUME NEW p \in Untouched PROVE inventory'[p].reserved = HeldBy(S \ {o}, p)
    <2>1. p \in Product
      BY <1>6
    <2>2. inventory[p].reserved = HeldBy(S, p)
      BY <1>3 DEF LiveStock, StockBacksLiveOrders
    <2>3. Change(s, p) = -Placed[o][p] /\ Placed[o][p] \in Nat
      BY <1>1, <2>1 DEF Change
    <2>4. inventory[p].reserved \in Nat
          /\ inventory'[p].reserved = inventory[p].reserved - Placed[o][p]
      BY <2>1, <2>3, CommitChanges
    <2>5. CASE o \in S
      <3>1. HeldBy(S \ {o}, p) = HeldBy(S, p) - Placed[o][p]
        BY <1>4, <2>1, <2>5, HeldWithout
      <3> QED BY <2>2, <2>4, <3>1
    <2>6. CASE o \notin S
      <3>1. Placed[o][p] = 0
        BY <1>2, <1>4, <2>6 DEF Untouched
      <3>2. S \ {o} = S
        BY <2>6
      <3>3. HeldBy(S \ {o}, p) = HeldBy(S, p)
        BY <3>2
      <3>4. inventory'[p].reserved = inventory[p].reserved
        BY <2>4, <3>1
      <3> QED BY <2>2, <3>3, <3>4
    <2> QED BY <2>5, <2>6
  <1> QED BY <1>4, <1>5, <1>6, <1>7 DEF LiveStock, StockBacksLiveOrders

\* What has overlapped is remembered.
LEMMA OverlapsStay ==
  ASSUME [CancellationNext]_cancellationVars
  PROVE  overlapped \subseteq overlapped'
  <1>1. CASE Terminating \/ UNCHANGED cancellationVars
    BY <1>1 DEF Terminating, cancellationVars, callVars
  <1>2. ASSUME NEW s \in Session, NEW why, Abort(s, why) PROVE overlapped \subseteq overlapped'
    BY <1>2 DEF Abort
  <1>3. ASSUME NEW s \in Session, Begin(s) PROVE overlapped \subseteq overlapped'
    BY <1>3 DEF Begin
  <1>4. ASSUME NEW s \in Session,
               ReadOrder(s) \/ Announce(s) \/ Reserve(s) \/ Release(s) \/ CommitOrder(s)
                 \/ \E p \in Product : LockRow(s, p) \/ SaveInventory(s, p)
        PROVE  overlapped \subseteq overlapped'
    BY <1>4 DEF ReadOrder, Announce, Reserve, Release, StartSaving, CommitOrder, LockRow,
       SaveInventory
  <1> QED BY <1>1, <1>2, <1>3, <1>4 DEF CancellationNext, Serve, NotFound, Refuse,
         ReleaseFails, RejectStock, DeadlockVictim, Fail, CommitSession, CommitUnacknowledged

LEMMA LiveStockNext ==
  ASSUME CancellationIInv, CancellationIInv', LiveStock, [CancellationNext]_cancellationVars
  PROVE  LiveStock'
  <1>1. CASE \A s \in Session : ~CommitOrder(s)
    <2>1. UNCHANGED <<status, inventory>>
      BY <1>1, OnlyCommitsWrite
    <2>2. overlapped \subseteq overlapped'
      BY OverlapsStay
    <2> QED BY <2>1, <2>2 DEF LiveStock, StockBacksLiveOrders, LiveOrders, Untouched
  <1>2. ASSUME NEW s \in Session, CommitOrder(s) PROVE LiveStock'
    BY <1>2, PlacingKeepsStock, CancellingKeepsStock
  <1> QED BY <1>1, <1>2

LEMMA LiveStockInvariant == CancellationSpec => []LiveStock
  <1>1. CancellationIInv /\ CancellationIInv' /\ LiveStock /\ [CancellationNext]_cancellationVars
          => LiveStock'
    BY LiveStockNext
  <1> QED BY <1>1, LiveStockInit, CancellationInvariant, PTL DEF CancellationSpec

\* Whatever interleaves, fails or is repeated, what is reserved of a product
\* is what the live orders hold, but for orders cancelled by calls at once.
THEOREM StockAlwaysBacksLiveOrders == CancellationSpec => []StockBacksLiveOrders
  <1>1. LiveStock => StockBacksLiveOrders
    BY DEF LiveStock
  <1> QED BY <1>1, LiveStockInvariant, PTL

\* A cancellation that owns its rows can give all its order holds back.
THEOREM ReleasesSucceed == CancellationSpec => []ReleaseNeverFails
  <1>1. CancellationIInv /\ LiveStock => ReleaseNeverFails
    <2> SUFFICES ASSUME CancellationIInv, LiveStock, NEW s \in Session,
                        AllLocked(s), Cancels(s), Wanted(s) \subseteq Untouched,
                        NEW p \in Wanted(s)
                 PROVE  loaded[s][p] # NoRow /\ AmountOf(s)[p] <= loaded[s][p].reserved
      BY DEF ReleaseNeverFails, CanRelease, Wanted
    <2>1. PICK o \in Order : o = Target(s) /\ Placed[o] \in [Product -> Nat]
      BY AtWork DEF AllLocked
    <2>2. p \in Product /\ Placed[o][p] > 0
      BY <2>1 DEF Wanted, Involved
    <2>3. o \notin overlapped
      BY <2>2, RowsAssumption DEF Untouched
    <2>4. o \in LiveOrders
      BY <2>1, <2>3 DEF CancellationIInv, StillPending, Working, AllLocked, LiveOrders, Live
    <2>5. /\ loaded[s][p] # NoRow
          /\ loaded[s][p].reserved = loaded[s][p].base
          /\ lock[p] = s /\ pending[s][p] = NoRow
      BY <2>2 DEF CancellationIInv, SessionOK, LockPhase, AllLocked
    <2>6. loaded[s][p].base = inventory[p].reserved
      BY <2>2, <2>5 DEF CancellationIInv, RowsIInv, FreshUnderLock, ItemsMatchRows, View
    <2>7. inventory[p].reserved = HeldBy(LiveOrders, p)
      BY DEF LiveStock, StockBacksLiveOrders
    <2>8. Placed[o][p] <= HeldBy(LiveOrders, p)
      <3>1. PICK S \in SUBSET Order : S = LiveOrders /\ IsFiniteSet(S)
        BY DEF LiveOrders, LiveStock
      <3> QED BY <2>2, <2>4, <3>1, HeldWithout
    <2> QED BY <2>1, <2>5, <2>6, <2>7, <2>8
  <1> QED BY <1>1, LiveStockInvariant, CancellationInvariant, PTL
=============================================================================
