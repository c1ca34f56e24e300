-------------------------- MODULE OrderCancellation --------------------------
(***************************************************************************)
(* PATCH /orders/{id}/cancel beside requests that place orders, on the     *)
(* rows of InventoryRows.  The status of the order is read without a lock, *)
(* the stock is given back under FOR UPDATE, and the order row is written  *)
(* back whole.  Orders of the API are CONFIRMED when they are stored, so   *)
(* PENDING ones are there from the start: other code stores them.          *)
(*                                                                         *)
(* Placing is the locking part of OrderPlacement, for a fresh order id     *)
(* and without keys.                                                       *)
(***************************************************************************)
EXTENDS InventoryRows, FiniteSetsExt

CONSTANTS
  Order,           \* order ids, those of no order yet included
  Placed,          \* [Order -> Amount], what the items of each add up to
  InitialStatus,   \* [Order -> Status]
  Seeded,          \* [Product -> Nat], stock reserved by the initial orders
  Request,         \* what clients ask for
  NoRequest,
  Publisher,       \* sessions of a process whose Kafka producer is running
  Failing          \* sessions whose connection or process may fail

Status == {"absent", "PENDING", "CONFIRMED", "CANCELLED"}

\* The statuses in which an order holds its stock.
Live == {"PENDING", "CONFIRMED"}

HeldBy(S, p) == MapThenSumSet(LAMBDA o : Placed[o][p], S)

ASSUME CancellationAssumption ==
  /\ Placed \in [Order -> Amount]
  /\ \A o \in Order : Involved(Placed[o]) # {}
  /\ InitialStatus \in [Order -> Status]
  /\ Seeded \in [Product -> Nat]
  /\ \A p \in Product : Seeded[p] <= Quantity[p]
  /\ Request \subseteq [kind : {"cancel", "place"}, order : Order]
  /\ NoRequest \notin Request
  /\ NoRequest \notin [key : {"none"}, amount : Amount]
  /\ Publisher \subseteq Session

\* The orders stored before the start are finitely many and hold what is reserved.
ASSUME SeedsAssumption ==
  LET seeds == {o \in Order : InitialStatus[o] \in Live}
  IN  IsFiniteSet(seeds) /\ \A p \in Product : Seeded[p] = HeldBy(seeds, p)

VARIABLES
  pc,          \* where each session is in its request
  request,     \* the request it serves
  todo,        \* rows its current batch statement has still to lock or write
  outcome,     \* what the client got
  status,      \* the status column of the committed orders
  items,       \* the sets of order_items rows of each order, by who wrote them
  replaced,    \* the sets of rows a session's save() found and will delete
  announced,   \* orders for which order.cancelled has been sent
  overlapped   \* history: orders that two calls have cancelled at once

callVars == <<pc, request, todo, outcome, overlapped>>
bookVars == <<status, items, replaced, announced>>
cancellationVars == <<rowsVars, callVars, bookVars>>

CancellationTypeOK ==
  /\ pc \in [Session -> {"idle", "read", "lock", "save", "flush", "done"}]
  /\ request \in [Session -> Request \cup {NoRequest}]
  /\ todo \in [Session -> SUBSET Product]
  /\ outcome \in [Session -> {"none", "ok", "unknown", "conflict", "shortage", "error"}]
  /\ status \in [Order -> Status]
  /\ items \in [Order -> SUBSET (Session \cup {NoSession})]
  /\ replaced \in [Session -> SUBSET (Session \cup {NoSession})]
  /\ announced \subseteq Order
  /\ overlapped \subseteq Order

CancellationInit ==
  /\ inventory = [p \in Product |-> [reserved |-> Seeded[p], version |-> 0]]
  /\ lock = [p \in Product |-> NoSession]
  /\ pending = [s \in Session |-> NothingHeld]
  /\ loaded = [s \in Session |-> NothingHeld]
  /\ granted = Seeded
  /\ pc = [s \in Session |-> "idle"]
  /\ request = [s \in Session |-> NoRequest]
  /\ todo = [s \in Session |-> {}]
  /\ outcome = [s \in Session |-> "none"]
  /\ status = InitialStatus
  /\ items = [o \in Order |-> IF InitialStatus[o] = "absent" THEN {} ELSE {NoSession}]
  /\ replaced = [s \in Session |-> {}]
  /\ announced = {}
  /\ overlapped = {}

-----------------------------------------------------------------------------
Cancels(s) == request[s].kind = "cancel"

Target(s) == request[s].order

AmountOf(s) == Placed[Target(s)]

Wanted(s) == Involved(AmountOf(s))

Goto(s, label) == pc' = [pc EXCEPT ![s] = label]

\* Wrong: what the handler has written is committed when it fails.
AbortCommits(s, why) ==
  /\ Commit(s)
  /\ Goto(s, "done")
  /\ outcome' = [outcome EXCEPT ![s] = why]
  /\ todo' = [todo EXCEPT ![s] = {}]
  /\ UNCHANGED <<request, bookVars, overlapped>>

\* get_session rolls back what the handler did, and the client gets an error.
Abort(s, why) ==
  /\ Rollback(s)
  /\ Goto(s, "done")
  /\ outcome' = [outcome EXCEPT ![s] = why]
  /\ todo' = [todo EXCEPT ![s] = {}]
  /\ UNCHANGED <<request, bookVars, overlapped>>

\* A new order gets an id of its own; an id may be cancelled again and again.
MayAsk(r) ==
  r.kind = "place" => status[r.order] = "absent" /\ \A t \in Session : request[t] # r

\* Another call is cancelling the same order.
Overlaps(r) == r.kind = "cancel" /\ \E t \in Session : request[t] = r /\ pc[t] # "done"

Begin(s) ==
  /\ pc[s] = "idle"
  /\ \E r \in Request :
       /\ MayAsk(r)
       /\ request' = [request EXCEPT ![s] = r]
       /\ overlapped' = overlapped \cup {o \in Order : Overlaps(r) /\ o = r.order}
       /\ IF r.kind = "cancel"
          THEN Goto(s, "read") /\ UNCHANGED todo
          ELSE Goto(s, "lock") /\ todo' = [todo EXCEPT ![s] = Involved(Placed[r.order])]
  /\ UNCHANGED <<rowsVars, outcome, bookVars>>

\* OrderNotFoundError, answered with 404.
NotFound(s) ==
  /\ pc[s] = "read"
  /\ status[Target(s)] = "absent"
  /\ Abort(s, "unknown")

\* InvalidOrderTransitionError, answered with 409.
Refuse(s) ==
  /\ pc[s] = "read"
  /\ status[Target(s)] \in {"CONFIRMED", "CANCELLED"}
  /\ Abort(s, "conflict")

\* Wrong: whatever the status is, the object is set to CANCELLED.
ReadOrderAny(s) ==
  /\ pc[s] = "read"
  /\ status[Target(s)] # "absent"
  /\ Goto(s, "lock")
  /\ todo' = [todo EXCEPT ![s] = Wanted(s)]
  /\ UNCHANGED <<rowsVars, request, outcome, bookVars, overlapped>>

\* get_by_id takes no lock; cancel() changes the object this session has read.
ReadOrder(s) ==
  /\ pc[s] = "read"
  /\ status[Target(s)] = "PENDING"
  /\ Goto(s, "lock")
  /\ todo' = [todo EXCEPT ![s] = Wanted(s)]
  /\ UNCHANGED <<rowsVars, request, outcome, bookVars, overlapped>>

\* Wrong: the batch is read without FOR UPDATE.
LockRowUnlocked(s, p) ==
  /\ pc[s] = "lock"
  /\ p \in todo[s]
  /\ Select(s, p)
  /\ todo' = [todo EXCEPT ![s] = @ \ {p}]
  /\ UNCHANGED <<pc, request, outcome, bookVars, overlapped>>

\* Wrong: the batch never gets past its first row.
LockRowAgain(s, p) ==
  /\ pc[s] = "lock"
  /\ p \in todo[s]
  /\ SelectForUpdate(s, p)
  /\ UNCHANGED <<callVars, bookVars>>

LockRow(s, p) ==
  /\ pc[s] = "lock"
  /\ p \in todo[s]
  /\ SelectForUpdate(s, p)
  /\ todo' = [todo EXCEPT ![s] = @ \ {p}]
  /\ UNCHANGED <<pc, request, outcome, bookVars, overlapped>>

AllLocked(s) == pc[s] = "lock" /\ todo[s] = {}

\* Wrong: the rows that get_by_id found, before the locks, are replaced.
FindFirstItems(s) == replaced' = [replaced EXCEPT ![s] = {NoSession}]

\* save() queries the order again and replaces the items that are there now.
FindItems(s) == replaced' = [replaced EXCEPT ![s] = items[Target(s)]]

StartSaving(s) ==
  /\ Goto(s, "save")
  /\ todo' = [todo EXCEPT ![s] = Wanted(s)]
  /\ FindItems(s)
  /\ UNCHANGED <<request, outcome, status, items, announced, overlapped>>

\* No code deletes an inventory row, so every product of a stored order has one
\* and the lookup of release() does not raise KeyError.
Release(s) ==
  /\ AllLocked(s)
  /\ Cancels(s)
  /\ ReleaseItems(s, AmountOf(s))
  /\ StartSaving(s)

\* ValueError: less is reserved than the order would give back.  No handler
\* catches it: 500.
ReleaseFails(s) ==
  /\ AllLocked(s)
  /\ Cancels(s)
  /\ ~CanRelease(s, AmountOf(s))
  /\ Abort(s, "error")

\* Placing: InventoryItem.reserve for each item, confirm and save the order.
Reserve(s) ==
  /\ AllLocked(s)
  /\ ~Cancels(s)
  /\ ReserveItems(s, AmountOf(s))
  /\ StartSaving(s)

RejectStock(s) ==
  /\ AllLocked(s)
  /\ ~Cancels(s)
  /\ ~CanReserve(s, AmountOf(s))
  /\ Abort(s, "shortage")

\* Wrong: save_many writes the first row only.
SaveFirstRow(s, p) ==
  /\ pc[s] = "save"
  /\ p \in todo[s]
  /\ Save(s, p)
  /\ todo' = [todo EXCEPT ![s] = {}]
  /\ UNCHANGED <<pc, request, outcome, bookVars, overlapped>>

SaveInventory(s, p) ==
  /\ pc[s] = "save"
  /\ p \in todo[s]
  /\ Save(s, p)
  /\ todo' = [todo EXCEPT ![s] = @ \ {p}]
  /\ UNCHANGED <<pc, request, outcome, bookVars, overlapped>>

\* order.cancelled goes out while the transaction is open; then the route
\* reads the order back in the same session.
Announce(s) ==
  /\ pc[s] = "save"
  /\ todo[s] = {}
  /\ Goto(s, "flush")
  /\ announced' = announced \cup {o \in Order : Cancels(s) /\ s \in Publisher /\ o = Target(s)}
  /\ UNCHANGED <<rowsVars, request, todo, outcome, status, items, replaced, overlapped>>

NewStatus(s) == IF Cancels(s) THEN "CANCELLED" ELSE "CONFIRMED"

CommitOrder(s) ==
  /\ pc[s] = "flush"
  /\ Commit(s)
  /\ status' = [status EXCEPT ![Target(s)] = NewStatus(s)]
  /\ items' = [items EXCEPT ![Target(s)] = (@ \ replaced[s]) \cup {s}]
  /\ Goto(s, "done")
  /\ UNCHANGED <<request, todo, replaced, announced, overlapped>>

CommitSession(s) == CommitOrder(s) /\ outcome' = [outcome EXCEPT ![s] = "ok"]

\* The connection is lost after the server has committed: 500.
CommitUnacknowledged(s) ==
  s \in Failing /\ CommitOrder(s) /\ outcome' = [outcome EXCEPT ![s] = "error"]

Fail(s) ==
  /\ s \in Failing
  /\ pc[s] \notin {"idle", "done"}
  /\ Abort(s, "error")

WaitsFor(s, t) == s # t /\ pc[s] = "lock" /\ \E p \in todo[s] : lock[p] = t

\* s is on a cycle of sessions each waiting for the next.
Deadlocked(s) ==
  \E C \in SUBSET Session :
    /\ s \in C
    /\ \E next \in Bijection(C, C) : \A t \in C : WaitsFor(t, next[t])

DeadlockVictim(s) == Deadlocked(s) /\ Abort(s, "error")

-----------------------------------------------------------------------------
Serve(s) ==
  \/ NotFound(s) \/ Refuse(s) \/ ReadOrder(s)
  \/ \E p \in Product : LockRow(s, p) \/ SaveInventory(s, p)
  \/ Release(s) \/ ReleaseFails(s)
  \/ Reserve(s) \/ RejectStock(s)
  \/ Announce(s) \/ CommitSession(s)
  \/ DeadlockVictim(s)

\* Nobody has a call to make or all have made theirs.
Terminating ==
  /\ \A s \in Session : pc[s] \in {"idle", "done"}
  /\ UNCHANGED cancellationVars

CancellationNext ==
  \/ \E s \in Session : Begin(s) \/ Serve(s) \/ Fail(s) \/ CommitUnacknowledged(s)
  \/ Terminating

CancellationSpec == CancellationInit /\ [][CancellationNext]_cancellationVars

\* As for placement: the event loop resumes a coroutine whose await is over,
\* the server grants a free lock and breaks a deadlock.
FairCancellation ==
  CancellationSpec /\ \A s \in Session : WF_cancellationVars(Serve(s))

-----------------------------------------------------------------------------
(* Safety.                                                                 *)

LiveOrders == {o \in Order : status[o] \in Live}

\* The products no order cancelled by overlapping calls has items of.
Untouched == {p \in Product : \A o \in overlapped : Placed[o][p] = 0}

\* The reserved column is what the orders neither cancelled nor unknown hold:
\* a cancellation gives its order's stock back, all of it and once (README,
\* business rules: "Cancelling an order releases reserved inventory"), if no
\* other call cancels the order at the same time.
StockBacksLiveOrders ==
  \A p \in Untouched : inventory[p].reserved = HeldBy(LiveOrders, p)

\* A cancellation that found its order PENDING can give the stock back,
\* release() does not raise, unless overlapping calls have given back too much.
ReleaseNeverFails ==
  \A s \in Session :
    (AllLocked(s) /\ Cancels(s) /\ Wanted(s) \subseteq Untouched) => CanRelease(s, AmountOf(s))

\* An order has its items once, also when two sessions rewrite them: save()
\* deletes the rows it finds under the inventory locks, not those of
\* get_by_id before them.
OneSetOfItems ==
  \A o \in Order : status[o] # "absent" => \E w \in Session \cup {NoSession} : items[o] = {w}

\* Only a PENDING order is ever cancelled and a CANCELLED one stays so,
\* although save() writes the status of an object read before the locks
\* (README, business rules: "Confirmed orders cannot be cancelled").
OnlyPendingIsCancelled ==
  [][\A o \in Order : status'[o] # status[o] =>
        <<status[o], status'[o]>> \in {<<"absent", "CONFIRMED">>, <<"PENDING", "CANCELLED">>}
    ]_cancellationVars

\* A cancellation committed by a process with a producer was announced.
CancelledIsAnnounced ==
  \A o \in Order :
    (status[o] = "CANCELLED" /\ items[o] \cap Publisher # {}) => o \in announced

-----------------------------------------------------------------------------
(* Refinement and liveness.                                                *)

\* The orders that hold stock, as rows of the abstract ledger without keys.
LiveRows ==
  [o \in Order |-> IF status[o] \in Live THEN [key |-> "none", amount |-> Placed[o]]
                                          ELSE NoRequest]

Book == INSTANCE OrderLedger WITH
  NoOrder <- NoRequest, Key <- {}, NoKey <- "none",
  orders <- LiveRows, reserved <- [p \in Product |-> inventory[p].reserved]

\* Until two calls cancel one order at once, every step places one order
\* whole, takes one away with all its stock, or changes neither.
ImplementsBook == [][overlapped = {} => Book!BookNext]_(Book!ledgerVars)

\* Cancellation touches the inventory table only by the repository's
\* operations.
UsesRowOperations == [][RowsNext]_rowsVars

\* Every cancellation that arrives is answered, also one that meets orders for
\* the same products in a deadlock.
CancelsFinish == \A s \in Session : pc[s] = "read" ~> pc[s] = "done"

-----------------------------------------------------------------------------
(* What makes the invariants inductive.                                    *)

\* Locking: the rows visited so far are owned, read and not yet changed.
LockPhase(s) == pc[s] = "lock" =>
  /\ todo[s] \subseteq Wanted(s)
  /\ \A p \in Product : pending[s][p] = NoRow
  /\ \A p \in Wanted(s) \ todo[s] :
       lock[p] = s /\ loaded[s][p] # NoRow /\ loaded[s][p].reserved = loaded[s][p].base

\* What the session's order adds to the reserved column of a product.
Change(s, p) == IF Cancels(s) THEN -AmountOf(s)[p] ELSE AmountOf(s)[p]

\* Saving: every row the order names is owned and carries its change, written
\* or not yet.
SavePhase(s) == pc[s] = "save" =>
  /\ todo[s] \subseteq Wanted(s)
  /\ \A p \in Wanted(s) :
       /\ loaded[s][p] # NoRow
       /\ loaded[s][p].reserved = loaded[s][p].base + Change(s, p)
  /\ \A p \in todo[s] : pending[s][p] = NoRow
  /\ \A p \in Product \ todo[s] : NetOf(s, p) = Change(s, p)

CommitPhase(s) == pc[s] = "flush" =>
  /\ \A p \in Product : NetOf(s, p) = Change(s, p)
  /\ (Cancels(s) /\ s \in Publisher) => Target(s) \in announced

\* The order row is about to be replaced by a session that owns all its
\* inventory rows: what it found there is still there.
Writing(s) == pc[s] \in {"save", "flush"}

WritePhase(s) == Writing(s) =>
  /\ \A p \in Wanted(s) : lock[p] = s
  /\ replaced[s] = items[Target(s)]

Working(s) == pc[s] \in {"lock", "save", "flush"}

\* A session at work has a request, and one between two transactions has
\* nothing written.  A cancellation at work found its order PENDING; the id of
\* an order being placed is unused.
RestPhase(s) ==
  /\ pc[s] = "idle" <=> request[s] = NoRequest
  /\ pc[s] \in {"idle", "read", "done"} => \A p \in Product : pending[s][p] = NoRow
  /\ pc[s] = "read" => Cancels(s)
  /\ (Working(s) /\ ~Cancels(s)) => status[Target(s)] = "absent"
  /\ (Working(s) /\ Cancels(s)) => status[Target(s)] \in {"PENDING", "CANCELLED"}

SessionOK(s) ==
  LockPhase(s) /\ SavePhase(s) /\ CommitPhase(s) /\ WritePhase(s) /\ RestPhase(s)

\* An id is placed by one session.
IdsAreFresh ==
  \A s, t \in Session : (pc[s] # "idle" /\ request[s] = request[t] /\ ~Cancels(s)) => s = t

\* The items of an order were written by a session that is done with it.
Writers ==
  \A o \in Order, w \in Session : w \in items[o] =>
    /\ pc[w] = "done"
    /\ Target(w) = o
    /\ (Cancels(w) /\ w \in Publisher) => o \in announced
    /\ ~Cancels(w) => status[o] = "CONFIRMED"

\* An unknown order has no items.
UnknownHaveNone == \A o \in Order : status[o] = "absent" => items[o] = {}

\* An order that calls cancel one at a time is PENDING as long as one does.
StillPending ==
  /\ \A s \in Session :
       (Working(s) /\ Cancels(s) /\ Target(s) \notin overlapped) => status[Target(s)] = "PENDING"
  /\ \A s, t \in Session :
       (pc[s] \notin {"idle", "done"} /\ pc[t] \notin {"idle", "done"} /\ Cancels(s)
          /\ request[s] = request[t] /\ Target(s) \notin overlapped) => s = t

CancellationIInv ==
  /\ RowsIInv
  /\ CancellationTypeOK
  /\ \A s \in Session : SessionOK(s)
  /\ IdsAreFresh
  /\ Writers
  /\ UnknownHaveNone
  /\ OneSetOfItems
  /\ StillPending

-----------------------------------------------------------------------------
\* README, business rules: "Cancelling an order releases reserved inventory",
\* its own: what is reserved is what the live orders hold, however often and
\* by how many clients an order is cancelled.
ReservedIsHeld == \A p \in Product : inventory[p].reserved = HeldBy(LiveOrders, p)
=============================================================================
