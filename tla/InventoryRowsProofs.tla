------------------------ MODULE InventoryRowsProofs ------------------------
(***************************************************************************)
(* Proofs that the inventory table keeps its books for every set of        *)
(* products, sessions and amounts.  The argument is RowsIInv, and the part *)
(* that carries it is ItemsMatchRows: an item whose version still matches  *)
(* the row was read from exactly that row, so an UPDATE guarded by the     *)
(* version adds the session's own change and nothing else.                 *)
(***************************************************************************)
EXTENDS InventoryRows, TLAPS

USE DEF Row, Draft, Item, NothingHeld, Involved, Available, LockFree

LEMMA RowsInitInv == RowsInit => RowsIInv
  BY RowsAssumption DEF RowsInit, RowsIInv, RowsTypeOK, NoOversell, NoLostUpdate,
     DraftsExtendRows, FreshUnderLock, ItemsMatchRows, DraftsFit, View

\* What a session sees of a row is a row.
LEMMA ViewType ==
  ASSUME RowsTypeOK, NEW s \in Session, NEW p \in Product
  PROVE  /\ View(s, p).reserved \in Nat
         /\ View(s, p).version \in Nat
         /\ ToDomain(View(s, p)) \in Item
         /\ CommittedRow(s, p) \in Row
  BY RowsAssumption DEF RowsTypeOK, View, ToDomain, CommittedRow

\* A view is a row that fits the product's quantity.
LEMMA ViewFits ==
  ASSUME RowsIInv, NEW s \in Session, NEW p \in Product
  PROVE  View(s, p).reserved <= Quantity[p]
  BY RowsAssumption DEF RowsIInv, RowsTypeOK, View, NoOversell, NoLostUpdate, DraftsFit

\* Reading a row, locked or not, keeps the invariant.
LEMMA SelectForUpdateInv ==
  ASSUME RowsIInv, NEW s \in Session, NEW p \in Product, SelectForUpdate(s, p)
  PROVE  RowsIInv'
  <1> USE RowsAssumption DEF SelectForUpdate, Hold
  <1>1. RowsTypeOK'
    BY ViewType DEF RowsIInv, RowsTypeOK
  <1>2. NoOversell' /\ NoLostUpdate' /\ DraftsFit'
    BY DEF RowsIInv, NoOversell, NoLostUpdate, DraftsFit
  <1>3. DraftsExtendRows'
    BY DEF RowsIInv, RowsTypeOK, DraftsExtendRows
  <1>4. FreshUnderLock'
    BY DEF RowsIInv, RowsTypeOK, FreshUnderLock, ToDomain, View
  <1>5. ItemsMatchRows'
    BY ViewType, ViewFits DEF RowsIInv, RowsTypeOK, ItemsMatchRows, ToDomain, View
  <1> QED BY <1>1, <1>2, <1>3, <1>4, <1>5 DEF RowsIInv

LEMMA SelectInv ==
  ASSUME RowsIInv, NEW s \in Session, NEW p \in Product, Select(s, p)
  PROVE  RowsIInv'
  <1> USE RowsAssumption DEF Select, Hold
  <1>1. RowsTypeOK'
    BY ViewType DEF RowsIInv, RowsTypeOK
  <1>2. NoOversell' /\ NoLostUpdate' /\ DraftsFit' /\ DraftsExtendRows'
    BY DEF RowsIInv, NoOversell, NoLostUpdate, DraftsFit, DraftsExtendRows
  <1>3. FreshUnderLock'
    BY DEF RowsIInv, RowsTypeOK, FreshUnderLock, ToDomain, View
  <1>4. ItemsMatchRows'
    BY ViewType, ViewFits DEF RowsIInv, RowsTypeOK, ItemsMatchRows, ToDomain, View
  <1> QED BY <1>1, <1>2, <1>3, <1>4 DEF RowsIInv

\* Changing items in memory touches no row, no version and no base.
LEMMA ItemsChangedInv ==
  ASSUME RowsIInv, NEW s \in Session,
         UNCHANGED <<inventory, lock, pending, granted>>,
         loaded' \in [Session -> [Product -> Item \cup {NoRow}]],
         \A t \in Session, p \in Product : loaded'[t][p] # NoRow =>
            /\ loaded[t][p] # NoRow
            /\ loaded'[t][p].version = loaded[t][p].version
            /\ loaded'[t][p].base = loaded[t][p].base
            /\ loaded'[t][p].reserved <= Quantity[p]
  PROVE  RowsIInv'
  <1>1. RowsTypeOK'
    BY DEF RowsIInv, RowsTypeOK
  <1>2. NoOversell' /\ NoLostUpdate' /\ DraftsFit' /\ DraftsExtendRows'
    BY DEF RowsIInv, NoOversell, NoLostUpdate, DraftsFit, DraftsExtendRows
  <1>3. FreshUnderLock'
    BY DEF RowsIInv, FreshUnderLock
  <1>4. ItemsMatchRows'
    BY DEF RowsIInv, ItemsMatchRows, View
  <1> QED BY <1>1, <1>2, <1>3, <1>4 DEF RowsIInv

LEMMA ReserveItemsInv ==
  ASSUME RowsIInv, NEW s \in Session, NEW d \in [Product -> Nat], ReserveItems(s, d)
  PROVE  RowsIInv'
  <1> USE RowsAssumption DEF ReserveItems, CanReserve, Reserved
  <1> DEFINE NewItem(p) == IF p \in Involved(d) THEN Reserved(loaded[s][p], d[p]) ELSE loaded[s][p]
  <1>1. loaded' \in [Session -> [Product -> Item \cup {NoRow}]]
    <2>1. ASSUME NEW p \in Product, p \in Involved(d)
          PROVE  Reserved(loaded[s][p], d[p]) \in Item
      <3>1. loaded[s][p] \in Item /\ d[p] \in Nat /\ d[p] <= Quantity[p] - loaded[s][p].reserved
        BY <2>1 DEF RowsIInv, RowsTypeOK
      <3> QED BY <3>1
    <2>2. [p \in Product |-> NewItem(p)] \in [Product -> Item \cup {NoRow}]
      BY <2>1 DEF RowsIInv, RowsTypeOK
    <2> QED BY <2>2 DEF RowsIInv, RowsTypeOK
  <1>2. \A t \in Session, p \in Product : loaded'[t][p] # NoRow =>
            /\ loaded[t][p] # NoRow
            /\ loaded'[t][p].version = loaded[t][p].version
            /\ loaded'[t][p].base = loaded[t][p].base
            /\ loaded'[t][p].reserved <= Quantity[p]
    BY DEF RowsIInv, RowsTypeOK, ItemsMatchRows
  <1> QED BY <1>1, <1>2, ItemsChangedInv

LEMMA ReleaseItemsInv ==
  ASSUME RowsIInv, NEW s \in Session, NEW d \in [Product -> Nat], ReleaseItems(s, d)
  PROVE  RowsIInv'
  <1> USE RowsAssumption DEF ReleaseItems, CanRelease, Released
  <1> DEFINE NewItem(p) == IF p \in Involved(d) THEN Released(loaded[s][p], d[p]) ELSE loaded[s][p]
  <1>1. loaded' \in [Session -> [Product -> Item \cup {NoRow}]]
    <2>1. ASSUME NEW p \in Product, p \in Involved(d)
          PROVE  Released(loaded[s][p], d[p]) \in Item
      <3>1. loaded[s][p] \in Item /\ d[p] \in Nat /\ d[p] <= loaded[s][p].reserved
        BY <2>1 DEF RowsIInv, RowsTypeOK
      <3> QED BY <3>1
    <2>2. [p \in Product |-> NewItem(p)] \in [Product -> Item \cup {NoRow}]
      BY <2>1 DEF RowsIInv, RowsTypeOK
    <2> QED BY <2>2 DEF RowsIInv, RowsTypeOK
  <1>2. \A t \in Session, p \in Product : loaded'[t][p] # NoRow =>
            /\ loaded[t][p] # NoRow
            /\ loaded'[t][p].version = loaded[t][p].version
            /\ loaded'[t][p].base = loaded[t][p].base
            /\ loaded'[t][p].reserved <= Quantity[p]
    BY DEF RowsIInv, RowsTypeOK, ItemsMatchRows
  <1> QED BY <1>1, <1>2, ItemsChangedInv

\* A write under the version test starts from the row it replaces.
LEMMA SaveInv ==
  ASSUME RowsIInv, NEW s \in Session, NEW p \in Product, Save(s, p)
  PROVE  RowsIInv'
  <1> USE RowsAssumption DEF Save, NewDraft, VersionMatches
  <1>1. loaded[s][p] \in Item /\ NetOf(s, p) \in Int
    BY DEF RowsIInv, RowsTypeOK, NetOf
  <1>2. View(s, p).reserved = inventory[p].reserved + NetOf(s, p)
    BY DEF RowsIInv, RowsTypeOK, DraftsExtendRows, View, NetOf
  <1>3. View(s, p).version >= inventory[p].version
    BY DEF RowsIInv, RowsTypeOK, DraftsExtendRows, View
  <1>4. /\ loaded[s][p].base = View(s, p).reserved
        /\ loaded[s][p].reserved <= Quantity[p]
    BY DEF RowsIInv, ItemsMatchRows
  <1>5. pending'[s][p] \in Draft
    BY <1>1 DEF RowsIInv, RowsTypeOK
  <1>6. /\ pending'[s][p] # NoRow
        /\ pending'[s][p].version > inventory[p].version
        /\ pending'[s][p].reserved = inventory[p].reserved + pending'[s][p].net
        /\ pending'[s][p].reserved <= Quantity[p]
        /\ pending'[s][p].version > View(s, p).version
    BY <1>1, <1>2, <1>3, <1>4, <1>5, ViewType DEF RowsIInv, RowsTypeOK
  <1>7. \A t \in Session, q \in Product :
          ~(t = s /\ q = p) => pending'[t][q] = pending[t][q]
    BY DEF RowsIInv, RowsTypeOK
  <1>8. RowsTypeOK'
    BY <1>5 DEF RowsIInv, RowsTypeOK
  <1>9. NoOversell' /\ NoLostUpdate'
    BY DEF RowsIInv, NoOversell, NoLostUpdate
  <1>10. DraftsFit'
    BY <1>6, <1>7 DEF RowsIInv, DraftsFit
  <1>11. DraftsExtendRows'
    BY <1>6, <1>7 DEF RowsIInv, RowsTypeOK, DraftsExtendRows
  <1>12. FreshUnderLock'
    BY <1>6, <1>7 DEF RowsIInv, RowsTypeOK, FreshUnderLock
  <1>13. ItemsMatchRows'
    <2> SUFFICES ASSUME NEW t \in Session, NEW q \in Product, loaded[t][q] # NoRow
                 PROVE  /\ loaded[t][q].reserved <= Quantity[q]
                        /\ loaded[t][q].version <= View(t, q)'.version
                        /\ loaded[t][q].version = View(t, q)'.version =>
                             loaded[t][q].base = View(t, q)'.reserved
      BY DEF ItemsMatchRows
    <2>1. CASE t = s /\ q = p
      BY <2>1, <1>1, <1>4, <1>6, ViewType DEF View
    <2>2. CASE ~(t = s /\ q = p)
      <3>1. View(t, q)' = View(t, q)
        BY <2>2, <1>7 DEF View
      <3> QED BY <3>1 DEF RowsIInv, ItemsMatchRows
    <2> QED BY <2>1, <2>2
  <1> QED BY <1>8, <1>9, <1>10, <1>11, <1>12, <1>13 DEF RowsIInv

\* A session that ends gives up its drafts, its items and its locks.
LEMMA SessionEnds ==
  ASSUME RowsTypeOK, NEW s \in Session, EndSession(s)
  PROVE  /\ lock' \in [Product -> Session \cup {NoSession}]
         /\ pending' \in [Session -> [Product -> Draft \cup {NoRow}]]
         /\ loaded' \in [Session -> [Product -> Item \cup {NoRow}]]
         /\ \A t \in Session, p \in Product :
              /\ t = s  => pending'[t][p] = NoRow /\ loaded'[t][p] = NoRow
              /\ t # s  => /\ pending'[t][p] = pending[t][p]
                          /\ loaded'[t][p] = loaded[t][p]
              /\ lock'[p] = t <=> lock[p] = t /\ t # s
  BY RowsAssumption DEF RowsTypeOK, EndSession, ReleaseLocks

LEMMA RollbackInv ==
  ASSUME RowsIInv, NEW s \in Session, Rollback(s)
  PROVE  RowsIInv'
  <1> USE DEF Rollback
  <1>1. RowsTypeOK'
    BY SessionEnds DEF RowsIInv, RowsTypeOK
  <1>2. NoOversell' /\ NoLostUpdate'
    BY DEF RowsIInv, NoOversell, NoLostUpdate
  <1>3. DraftsFit'
    BY SessionEnds DEF RowsIInv, DraftsFit
  <1>4. DraftsExtendRows'
    <2> SUFFICES ASSUME NEW t \in Session, NEW p \in Product, pending'[t][p] # NoRow
                 PROVE  /\ lock'[p] = t
                        /\ pending'[t][p].version > inventory[p].version
                        /\ pending'[t][p].reserved = inventory[p].reserved + pending'[t][p].net
      BY DEF DraftsExtendRows
    <2>1. t # s /\ pending'[t][p] = pending[t][p]
      BY SessionEnds DEF RowsIInv
    <2>2. lock[p] = t
      BY <2>1 DEF RowsIInv, DraftsExtendRows
    <2>3. lock'[p] = t
      BY <2>1, <2>2, SessionEnds DEF RowsIInv
    <2> QED BY <2>1, <2>3 DEF RowsIInv, DraftsExtendRows
  <1>5. FreshUnderLock'
    <2> SUFFICES ASSUME NEW t \in Session, NEW p \in Product, lock'[p] = t,
                        pending'[t][p] = NoRow, loaded'[t][p] # NoRow
                 PROVE  loaded'[t][p].version = inventory[p].version
      BY DEF FreshUnderLock
    <2>1. t # s /\ lock[p] = t
      BY SessionEnds DEF RowsIInv
    <2>2. pending[t][p] = NoRow /\ loaded'[t][p] = loaded[t][p]
      BY <2>1, SessionEnds DEF RowsIInv
    <2> QED BY <2>1, <2>2 DEF RowsIInv, FreshUnderLock
  <1>6. ItemsMatchRows'
    BY SessionEnds DEF RowsIInv, ItemsMatchRows, View
  <1> QED BY <1>1, <1>2, <1>3, <1>4, <1>5, <1>6 DEF RowsIInv

\* A commit replaces only rows the session has locked, by newer ones.
LEMMA CommitInv ==
  ASSUME RowsIInv, NEW s \in Session, Commit(s)
  PROVE  RowsIInv'
  <1> USE RowsAssumption DEF Commit
  <1>1. RowsTypeOK /\ EndSession(s)
    BY DEF RowsIInv
  <1>2. \A p \in Product : NetOf(s, p) \in Int
    BY <1>1 DEF RowsTypeOK, NetOf
  <1>3. RowsTypeOK'
    BY <1>1, <1>2, SessionEnds, ViewType DEF RowsTypeOK
  <1>4. \A p \in Product :
          /\ inventory'[p] \in Row
          /\ inventory'[p].version >= inventory[p].version
          /\ inventory'[p].reserved = granted'[p]
          /\ inventory'[p].reserved <= Quantity[p]
    BY <1>1, <1>2, <1>3, ViewFits DEF RowsIInv, RowsTypeOK, View, NetOf, CommittedRow,
       NoLostUpdate, DraftsExtendRows
  <1>5. \A t \in Session \ {s}, p \in Product :
          (lock[p] = t \/ pending[t][p] # NoRow) => inventory'[p] = inventory[p]
    <2> SUFFICES ASSUME NEW t \in Session \ {s}, NEW p \in Product,
                        lock[p] = t \/ pending[t][p] # NoRow
                 PROVE  inventory'[p] = inventory[p]
      OBVIOUS
    <2>1. pending[s][p] = NoRow
      BY DEF RowsIInv, DraftsExtendRows
    <2> QED BY <1>1, <2>1 DEF CommittedRow, View, RowsTypeOK
  <1>6. NoOversell' /\ NoLostUpdate'
    BY <1>3, <1>4 DEF NoOversell, NoLostUpdate, RowsTypeOK
  <1>7. DraftsFit'
    BY <1>1, SessionEnds DEF RowsIInv, DraftsFit
  <1>8. DraftsExtendRows'
    <2> SUFFICES ASSUME NEW t \in Session, NEW p \in Product, pending'[t][p] # NoRow
                 PROVE  /\ lock'[p] = t
                        /\ pending'[t][p].version > inventory'[p].version
                        /\ pending'[t][p].reserved = inventory'[p].reserved + pending'[t][p].net
      BY DEF DraftsExtendRows
    <2>1. t # s /\ pending'[t][p] = pending[t][p]
      BY <1>1, SessionEnds
    <2>2. /\ lock[p] = t
          /\ pending[t][p].version > inventory[p].version
          /\ pending[t][p].reserved = inventory[p].reserved + pending[t][p].net
      BY <2>1 DEF RowsIInv, DraftsExtendRows
    <2>3. lock'[p] = t
      BY <1>1, <2>1, <2>2, SessionEnds
    <2>4. inventory'[p] = inventory[p]
      BY <1>5, <2>1, <2>2
    <2> QED BY <2>1, <2>2, <2>3, <2>4
  <1>9. FreshUnderLock'
    <2> SUFFICES ASSUME NEW t \in Session, NEW p \in Product, lock'[p] = t,
                        pending'[t][p] = NoRow, loaded'[t][p] # NoRow
                 PROVE  loaded'[t][p].version = inventory'[p].version
      BY DEF FreshUnderLock
    <2>1. t # s /\ lock[p] = t
      BY <1>1, SessionEnds
    <2>2. pending[t][p] = NoRow /\ loaded'[t][p] = loaded[t][p]
      BY <1>1, <2>1, SessionEnds
    <2>3. loaded[t][p].version = inventory[p].version
      BY <2>1, <2>2 DEF RowsIInv, FreshUnderLock
    <2> QED BY <1>5, <2>1, <2>2, <2>3
  <1>10. ItemsMatchRows'
    <2> SUFFICES ASSUME NEW t \in Session, NEW p \in Product, loaded'[t][p] # NoRow
                 PROVE  /\ loaded'[t][p].reserved <= Quantity[p]
                        /\ loaded'[t][p].version <= View(t, p)'.version
                        /\ loaded'[t][p].version = View(t, p)'.version =>
                             loaded'[t][p].base = View(t, p)'.reserved
      BY DEF ItemsMatchRows
    <2>1. t # s /\ loaded'[t][p] = loaded[t][p] /\ pending'[t][p] = pending[t][p]
      BY <1>1, SessionEnds
    <2>2. loaded[t][p] \in Item
      BY <1>1, <2>1 DEF RowsTypeOK
    <2>3. /\ loaded[t][p].reserved <= Quantity[p]
          /\ loaded[t][p].version <= View(t, p).version
          /\ loaded[t][p].version = View(t, p).version =>
               loaded[t][p].base = View(t, p).reserved
      BY <2>1 DEF RowsIInv, ItemsMatchRows
    <2>4. CASE inventory'[p] = inventory[p]
      BY <2>1, <2>3, <2>4 DEF View
    <2>5. CASE inventory'[p] # inventory[p]
      <3>1. pending[t][p] = NoRow /\ pending[s][p] # NoRow
        BY <1>5, <2>1, <2>5, <1>1 DEF CommittedRow, View, RowsTypeOK
      <3>2. inventory'[p].version > inventory[p].version
        BY <3>1, <1>1 DEF RowsIInv, DraftsExtendRows, CommittedRow, View
      <3> QED BY <3>1, <3>2, <2>1, <2>2, <2>3, <1>1, <1>4 DEF View, RowsTypeOK
    <2> QED BY <2>4, <2>5
  <1> QED BY <1>3, <1>6, <1>7, <1>8, <1>9, <1>10 DEF RowsIInv

-----------------------------------------------------------------------------
LEMMA RowsNextInv ==
  ASSUME RowsIInv, [RowsNext]_rowsVars
  PROVE  RowsIInv'
  <1>1. CASE RowsNext
    <2>1. PICK s \in Session : RowStep(s)
      BY <1>1 DEF RowsNext
    <2>2. ASSUME NEW p \in Product, SelectForUpdate(s, p) \/ Select(s, p) PROVE RowsIInv'
      BY <2>2, SelectForUpdateInv, SelectInv
    <2>3. ASSUME NEW d \in Amount, ReserveItems(s, d) \/ ReleaseItems(s, d) PROVE RowsIInv'
      BY <2>3, RowsAssumption, ReserveItemsInv, ReleaseItemsInv
    <2>4. ASSUME NEW p \in Product, Save(s, p) \/ SaveConflict(s, p) PROVE RowsIInv'
      BY <2>4, SaveInv, RollbackInv DEF SaveConflict
    <2> QED BY <2>1, <2>2, <2>3, <2>4, CommitInv, RollbackInv DEF RowStep
  <1>2. CASE UNCHANGED rowsVars
    BY <1>2 DEF rowsVars, RowsIInv, RowsTypeOK, NoOversell, NoLostUpdate,
       DraftsExtendRows, FreshUnderLock, ItemsMatchRows, DraftsFit, View
  <1> QED BY <1>1, <1>2

\* The invariant holds in every behaviour of the table, whatever mix of
\* locking and version-checking sessions uses it.
THEOREM RowsInvariant == RowsSpec => []RowsIInv
  <1>1. RowsInit => RowsIInv
    BY RowsInitInv
  <1>2. RowsIInv /\ [RowsNext]_rowsVars => RowsIInv'
    BY RowsNextInv
  <1> QED BY <1>1, <1>2, PTL DEF RowsSpec

\* Type correctness of the table (InventoryRepository, inventory_items).
THEOREM RowsTypeCorrect == RowsSpec => []RowsTypeOK
  BY RowsInvariant, PTL DEF RowsIInv

\* No product is ever oversold, for every quantity and any number of sessions.
THEOREM NeverOversold == RowsSpec => []NoOversell
  BY RowsInvariant, PTL DEF RowsIInv

\* The reserved column never loses or repeats a committed reservation.
THEOREM NothingLost == RowsSpec => []NoLostUpdate
  BY RowsInvariant, PTL DEF RowsIInv

\* A draft is built on the row that is committed while it waits (save() under
\* the row's lock): nothing it has not seen is overwritten.
THEOREM DraftsFollowRows == RowsSpec => []DraftsExtendRows
  BY RowsInvariant, PTL DEF RowsIInv

\* A session that locks a row before it reads it never sees a version conflict.
THEOREM LockedReadsStayFresh == RowsSpec => []FreshUnderLock
  BY RowsInvariant, PTL DEF RowsIInv

\* Each committed change of a row moves its version forward.
THEOREM VersionsAdvance == RowsSpec => VersionAdvances
  <1> DEFINE Advance == \A p \in Product : inventory'[p] # inventory[p] =>
                          inventory'[p].version > inventory[p].version
  <1>1. RowsIInv /\ [RowsNext]_rowsVars => [Advance]_rowsVars
    <2> SUFFICES ASSUME RowsIInv, RowsNext PROVE Advance
      OBVIOUS
    <2>1. ASSUME NEW s \in Session, Commit(s) PROVE Advance
      BY <2>1 DEF Commit, CommittedRow, View, RowsIInv, RowsTypeOK, DraftsExtendRows
    <2>2. (\E s \in Session : Commit(s)) \/ UNCHANGED inventory
      BY DEF RowsNext, RowStep, SelectForUpdate, Select, ReserveItems, ReleaseItems,
         Save, SaveConflict, Rollback
    <2> QED BY <2>1, <2>2
  <1> QED BY <1>1, RowsInvariant, PTL DEF RowsSpec, VersionAdvances
=============================================================================
