--------------------------- MODULE InventoryRows ---------------------------
(***************************************************************************)
(* The inventory_items table and the two ways the repository guards it:    *)
(* SELECT ... FOR UPDATE (pessimistic) and the version column checked at   *)
(* write time (optimistic), for any number of database sessions that mix   *)
(* the two.  One session is one request's transaction, READ COMMITTED, and *)
(* one InventoryItem domain object per row it has read.                    *)
(*                                                                         *)
(* quantity is a constant: the code writes the column back but never       *)
(* changes it.  The insert branch of save() (no row yet) is reached by     *)
(* seeding code only: every product here has its row.                      *)
(***************************************************************************)
EXTENDS Integers

CONSTANTS
  Product,     \* products that have an inventory row
  Session,     \* database sessions, one per request or task
  NoSession,   \* the owner of a row nobody has locked
  NoRow,       \* a row version or a domain object that does not exist
  Quantity,    \* [Product -> Nat], the quantity column
  Amount       \* per-product amounts one order may take or give back

Row == [reserved : Nat, version : Nat]

\* A row version written and not yet committed.  net is history: what this
\* session's items have added to reserved since it began.
Draft == [reserved : Nat, version : Nat, net : Int]

\* The InventoryItem a session works on.  base is history: reserved as loaded.
Item == [reserved : Nat, version : Nat, base : Nat]

ASSUME RowsAssumption ==
  /\ NoSession \notin Session
  /\ NoRow \notin Draft
  /\ NoRow \notin Item
  /\ Quantity \in [Product -> Nat]
  /\ Amount \subseteq [Product -> Nat]

VARIABLES
  inventory,   \* the committed rows
  lock,        \* which session holds each row's lock
  pending,     \* the uncommitted row versions of each session
  loaded,      \* the InventoryItem objects each session holds
  granted      \* history: what committed sessions reserved, net of releases

rowsVars == <<inventory, lock, pending, loaded, granted>>

RowsTypeOK ==
  /\ inventory \in [Product -> Row]
  /\ lock \in [Product -> Session \cup {NoSession}]
  /\ pending \in [Session -> [Product -> Draft \cup {NoRow}]]
  /\ loaded \in [Session -> [Product -> Item \cup {NoRow}]]
  /\ granted \in [Product -> Int]

NothingHeld == [p \in Product |-> NoRow]

RowsInit ==
  /\ inventory = [p \in Product |-> [reserved |-> 0, version |-> 0]]
  /\ lock = [p \in Product |-> NoSession]
  /\ pending = [s \in Session |-> NothingHeld]
  /\ loaded = [s \in Session |-> NothingHeld]
  /\ granted = [p \in Product |-> 0]

-----------------------------------------------------------------------------
(* Reading.                                                                *)

\* What a query of session s sees: its own write, else the committed row.
View(s, p) == IF pending[s][p] = NoRow THEN inventory[p] ELSE pending[s][p]

ToDomain(row) ==
  [reserved |-> row.reserved, version |-> row.version, base |-> row.reserved]

Hold(s, p) == loaded' = [loaded EXCEPT ![s][p] = ToDomain(View(s, p))]

LockFree(s, p) == lock[p] \in {s, NoSession}

\* get_by_product_id(s): waits for the row's lock, then reads the row as the
\* last holder left it.
SelectForUpdate(s, p) ==
  /\ LockFree(s, p)
  /\ lock' = [lock EXCEPT ![p] = s]
  /\ Hold(s, p)
  /\ UNCHANGED <<inventory, pending, granted>>

\* get_by_product_id(for_update=False): reads without a lock.
Select(s, p) ==
  /\ Hold(s, p)
  /\ UNCHANGED <<inventory, lock, pending, granted>>

-----------------------------------------------------------------------------
(* InventoryItem.reserve and release, on the objects of one order's items. *)

Involved(d) == {p \in Product : d[p] > 0}

\* Wrong: the stock others have reserved counts as available.
AvailableUnreserved(item, p) == Quantity[p]

Available(item, p) == Quantity[p] - item.reserved

\* Wrong: the last unit is never given out.
CanReserveAllButOne(s, d) ==
  \A p \in Involved(d) : loaded[s][p] # NoRow /\ d[p] < Available(loaded[s][p], p)

CanReserve(s, d) ==
  \A p \in Involved(d) : loaded[s][p] # NoRow /\ d[p] <= Available(loaded[s][p], p)

CanRelease(s, d) ==
  \A p \in Involved(d) : loaded[s][p] # NoRow /\ d[p] <= loaded[s][p].reserved

Reserved(item, n) == [item EXCEPT !.reserved = @ + n]

Released(item, n) == [item EXCEPT !.reserved = @ - n]

ReserveItems(s, d) ==
  /\ CanReserve(s, d)
  /\ loaded' = [loaded EXCEPT ![s] = [p \in Product |->
       IF p \in Involved(d) THEN Reserved(loaded[s][p], d[p]) ELSE loaded[s][p]]]
  /\ UNCHANGED <<inventory, lock, pending, granted>>

ReleaseItems(s, d) ==
  /\ CanRelease(s, d)
  /\ loaded' = [loaded EXCEPT ![s] = [p \in Product |->
       IF p \in Involved(d) THEN Released(loaded[s][p], d[p]) ELSE loaded[s][p]]]
  /\ UNCHANGED <<inventory, lock, pending, granted>>

-----------------------------------------------------------------------------
(* Writing: UPDATE ... WHERE version = item.version.                       *)

VersionMatches(s, p) == loaded[s][p].version = View(s, p).version

NetOf(s, p) == IF pending[s][p] = NoRow THEN 0 ELSE pending[s][p].net

NewDraft(s, p) ==
  [reserved |-> loaded[s][p].reserved,
   version  |-> loaded[s][p].version + 1,
   net      |-> NetOf(s, p) + loaded[s][p].reserved - loaded[s][p].base]

\* Wrong: the UPDATE does not compare versions.
SaveBlind(s, p) ==
  /\ loaded[s][p] # NoRow
  /\ LockFree(s, p)
  /\ lock' = [lock EXCEPT ![p] = s]
  /\ pending' = [pending EXCEPT ![s][p] = NewDraft(s, p)]
  /\ UNCHANGED <<inventory, loaded, granted>>

\* Wrong: the UPDATE does not wait for the row's lock.
SaveUnlocked(s, p) ==
  /\ loaded[s][p] # NoRow
  /\ VersionMatches(s, p)
  /\ pending' = [pending EXCEPT ![s][p] = NewDraft(s, p)]
  /\ UNCHANGED <<inventory, lock, loaded, granted>>

\* The version the object carries is left as it was: only the row moves on.
Save(s, p) ==
  /\ loaded[s][p] # NoRow
  /\ VersionMatches(s, p)
  /\ LockFree(s, p)
  /\ lock' = [lock EXCEPT ![p] = s]
  /\ pending' = [pending EXCEPT ![s][p] = NewDraft(s, p)]
  /\ UNCHANGED <<inventory, loaded, granted>>

\* Wrong: the locks outlive the transaction.
KeepLocks(s) == lock' = lock

ReleaseLocks(s) ==
  lock' = [p \in Product |-> IF lock[p] = s THEN NoSession ELSE lock[p]]

EndSession(s) ==
  /\ ReleaseLocks(s)
  /\ pending' = [pending EXCEPT ![s] = NothingHeld]
  /\ loaded' = [loaded EXCEPT ![s] = NothingHeld]

\* Wrong: the version column is left out of the UPDATE.
CommittedRowOldVersion(s, p) ==
  [reserved |-> View(s, p).reserved, version |-> inventory[p].version]

CommittedRow(s, p) == [reserved |-> View(s, p).reserved, version |-> View(s, p).version]

Commit(s) ==
  /\ inventory' = [p \in Product |-> CommittedRow(s, p)]
  /\ granted' = [p \in Product |-> granted[p] + NetOf(s, p)]
  /\ EndSession(s)

Rollback(s) ==
  /\ EndSession(s)
  /\ UNCHANGED <<inventory, granted>>

\* rowcount = 0: OptimisticLockError leaves save(), and get_session ends the
\* transaction with a rollback.
SaveConflict(s, p) ==
  /\ loaded[s][p] # NoRow
  /\ ~VersionMatches(s, p)
  /\ Rollback(s)

-----------------------------------------------------------------------------
RowStep(s) ==
  \/ \E p \in Product : SelectForUpdate(s, p) \/ Select(s, p)
  \/ \E d \in Amount : ReserveItems(s, d) \/ ReleaseItems(s, d)
  \/ \E p \in Product : Save(s, p) \/ SaveConflict(s, p)
  \/ Commit(s)
  \/ Rollback(s)

RowsNext == \E s \in Session : RowStep(s)

RowsSpec == RowsInit /\ [][RowsNext]_rowsVars

-----------------------------------------------------------------------------
(* Properties.                                                             *)

\* Stock is never oversold: what the committed sessions have reserved, counted
\* session by session and not read off the row, fits the quantity of every
\* product (README "available never goes negative").
NoOversell == \A p \in Product : granted[p] \in 0 .. Quantity[p]

\* No committed reservation is lost or counted twice: the row's reserved
\* column is the sum of what the committed sessions changed, also when
\* locking and version-checking sessions write the same row.
NoLostUpdate == \A p \in Product : inventory[p].reserved = granted[p]

\* A row version about to be committed is built on the row it will replace:
\* save() never lets a session overwrite an update it has not seen.
DraftsExtendRows ==
  \A s \in Session, p \in Product : pending[s][p] # NoRow =>
    /\ lock[p] = s
    /\ pending[s][p].version > inventory[p].version
    /\ pending[s][p].reserved = inventory[p].reserved + pending[s][p].net

\* An item read under FOR UPDATE cannot go stale while its session keeps the
\* lock: save() after get_by_product_ids() finds the version it read, so the
\* pessimistic path never sees OptimisticLockError.
FreshUnderLock ==
  \A s \in Session, p \in Product :
    (lock[p] = s /\ pending[s][p] = NoRow /\ loaded[s][p] # NoRow) =>
       loaded[s][p].version = inventory[p].version

\* Every committed change of a row raises its version, so equal versions mean
\* equal rows: the test that save() relies on has no ABA case.
VersionAdvances ==
  [][\A p \in Product : inventory'[p] # inventory[p] =>
        inventory'[p].version > inventory[p].version]_rowsVars

-----------------------------------------------------------------------------
(* What makes the invariants inductive.                                    *)

\* An item whose version is still the row's version was read from that row.
ItemsMatchRows ==
  \A s \in Session, p \in Product : loaded[s][p] # NoRow =>
    /\ loaded[s][p].reserved <= Quantity[p]
    /\ loaded[s][p].version <= View(s, p).version
    /\ loaded[s][p].version = View(s, p).version =>
         loaded[s][p].base = View(s, p).reserved

DraftsFit ==
  \A s \in Session, p \in Product :
    pending[s][p] # NoRow => pending[s][p].reserved <= Quantity[p]

RowsIInv ==
  /\ RowsTypeOK
  /\ NoOversell
  /\ NoLostUpdate
  /\ DraftsExtendRows
  /\ FreshUnderLock
  /\ ItemsMatchRows
  /\ DraftsFit
=============================================================================
