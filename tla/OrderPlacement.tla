--------------------------- MODULE OrderPlacement ---------------------------
(***************************************************************************)
(* POST /orders end to end: the route, CreateOrderUseCase, the request's   *)
(* database session, the idempotency table and the order.created event,    *)
(* for any number of concurrent requests.  A session serves one request,   *)
(* so a session also names the order its request creates; a client that    *)
(* retries is another session with the same request.                       *)
(*                                                                         *)
(* The retry loop around _execute_once has nothing to catch here: see      *)
(* SaveNeverConflicts.                                                     *)
(***************************************************************************)
EXTENDS InventoryRows, FiniteSetsExt

CONSTANTS
  Key, NoKey,      \* values of the Idempotency-Key header, and its absence
  Request,         \* the request bodies and headers clients may send
  NoRequest,
  Publisher,       \* sessions of a process whose Kafka producer is running
  EarlyReply,      \* sessions whose response is sent before get_session commits
  Failing          \* sessions whose connection or process may fail

\* What the items name besides stocked products: nothing, a product that is
\* unknown or inactive, or an active one without an inventory row.
Names == {"stocked", "inactive", "unstocked"}

ASSUME PlacementAssumption ==
  /\ NoKey \notin Key
  /\ Request \subseteq [key : Key \cup {NoKey}, amount : Amount, names : Names]
  /\ NoRequest \notin Request
  /\ NoRequest \notin [key : Key \cup {NoKey}, amount : Amount]
  /\ Publisher \subseteq Session
  /\ EarlyReply \subseteq Session
  /\ Failing \subseteq Session

VARIABLES
  pc,          \* where each session is in its request
  request,     \* the request it serves
  todo,        \* rows its current batch statement has still to lock or write
  result,      \* the session whose order it will answer with
  response,    \* what the client got
  placed,      \* committed orders, by the session that created them
  keys,        \* committed idempotency_keys rows: the order each key names
  inserting,   \* idempotency_keys rows inserted and not yet committed
  events       \* orders announced on Kafka

requestVars == <<pc, request, todo, result, response>>
orderVars == <<placed, keys, inserting, events>>
placementVars == <<rowsVars, requestVars, orderVars>>

PlacementTypeOK ==
  /\ RowsTypeOK
  /\ pc \in [Session -> {"idle", "key", "lock", "save", "flush", "reply", "done"}]
  /\ request \in [Session -> Request \cup {NoRequest}]
  /\ todo \in [Session -> SUBSET Product]
  /\ result \in [Session -> Session \cup {NoSession}]
  /\ response \in [Session -> {"none", "created", "rejected", "error"}]
  /\ placed \subseteq Session
  /\ keys \in [Key -> Session \cup {NoSession}]
  /\ inserting \in [Key -> Session \cup {NoSession}]
  /\ events \subseteq Session

PlacementInit ==
  /\ RowsInit
  /\ pc = [s \in Session |-> "idle"]
  /\ request = [s \in Session |-> NoRequest]
  /\ todo = [s \in Session |-> {}]
  /\ result = [s \in Session |-> NoSession]
  /\ response = [s \in Session |-> "none"]
  /\ placed = {}
  /\ keys = [k \in Key |-> NoSession]
  /\ inserting = [k \in Key |-> NoSession]
  /\ events = {}

-----------------------------------------------------------------------------
KeyOf(s) == request[s].key

Wanted(s) == Involved(request[s].amount)

KeySeen(s) == KeyOf(s) # NoKey /\ keys[KeyOf(s)] # NoSession

Goto(s, label) == pc' = [pc EXCEPT ![s] = label]

\* Wrong: nobody commits after the handler.
HandlerReturnsUncommitted(s) == Goto(s, "reply")

\* FastAPI sends the response before or after the exit code of get_session,
\* depending on its version.
HandlerReturns(s) == Goto(s, IF s \in EarlyReply THEN "reply" ELSE "flush")

Withdraw(s) ==
  inserting' = [k \in Key |-> IF inserting[k] = s THEN NoSession ELSE inserting[k]]

Answer(s, r) ==
  response' = [response EXCEPT ![s] = IF @ = "none" THEN r ELSE @]

\* Wrong: what the handler has written is committed when it fails.
AbortCommits(s, r) ==
  /\ Commit(s)
  /\ Withdraw(s)
  /\ Goto(s, "done")
  /\ todo' = [todo EXCEPT ![s] = {}]
  /\ Answer(s, r)
  /\ UNCHANGED <<request, result, placed, keys, events>>

\* An exception leaves the handler: get_session rolls back and the client
\* gets an error, unless it already has its response.
Abort(s, r) ==
  /\ Rollback(s)
  /\ Withdraw(s)
  /\ Goto(s, "done")
  /\ todo' = [todo EXCEPT ![s] = {}]
  /\ Answer(s, r)
  /\ UNCHANGED <<request, result, placed, keys, events>>

Begin(s) ==
  /\ pc[s] = "idle"
  /\ Goto(s, "key")
  /\ \E r \in Request : request' = [request EXCEPT ![s] = r]
  /\ UNCHANGED <<rowsVars, todo, result, response, orderVars>>

\* The key is stored: answer with the order it names.
Replay(s) ==
  /\ pc[s] = "key"
  /\ KeySeen(s)
  /\ result' = [result EXCEPT ![s] = keys[KeyOf(s)]]
  /\ HandlerReturns(s)
  /\ UNCHANGED <<rowsVars, request, todo, response, orderVars>>

\* The key is new and every product is known and active.
Validate(s) ==
  /\ pc[s] = "key"
  /\ ~KeySeen(s)
  /\ request[s].names # "inactive"
  /\ Goto(s, "lock")
  /\ todo' = [todo EXCEPT ![s] = Wanted(s)]
  /\ UNCHANGED <<rowsVars, request, result, response, orderVars>>

\* ProductNotFoundError, answered with 422.
RejectProduct(s) ==
  /\ pc[s] = "key"
  /\ ~KeySeen(s)
  /\ request[s].names = "inactive"
  /\ Abort(s, "rejected")

\* Wrong: the batch is read without FOR UPDATE.
LockRowUnlocked(s, p) ==
  /\ pc[s] = "lock"
  /\ p \in todo[s]
  /\ Select(s, p)
  /\ todo' = [todo EXCEPT ![s] = @ \ {p}]
  /\ UNCHANGED <<pc, request, result, response, orderVars>>

\* Wrong: the batch never gets past its first row.
LockRowAgain(s, p) ==
  /\ pc[s] = "lock"
  /\ p \in todo[s]
  /\ SelectForUpdate(s, p)
  /\ UNCHANGED <<requestVars, orderVars>>

\* One SELECT ... IN (...) FOR UPDATE locks the rows in the order the query
\* plan visits them, which nothing in the statement fixes.
LockRow(s, p) ==
  /\ pc[s] = "lock"
  /\ p \in todo[s]
  /\ SelectForUpdate(s, p)
  /\ todo' = [todo EXCEPT ![s] = @ \ {p}]
  /\ UNCHANGED <<pc, request, result, response, orderVars>>

AllLocked(s) == pc[s] = "lock" /\ todo[s] = {}

\* Wrong: the order is confirmed and the inventory not saved.
ReserveUnsaved(s) ==
  /\ AllLocked(s)
  /\ request[s].names = "stocked"
  /\ ReserveItems(s, request[s].amount)
  /\ Goto(s, "save")
  /\ result' = [result EXCEPT ![s] = s]
  /\ UNCHANGED <<request, todo, response, orderVars>>

\* reserve() succeeds for every item, the order is confirmed and saved.
Reserve(s) ==
  /\ AllLocked(s)
  /\ request[s].names = "stocked"
  /\ ReserveItems(s, request[s].amount)
  /\ Goto(s, "save")
  /\ todo' = [todo EXCEPT ![s] = Wanted(s)]
  /\ result' = [result EXCEPT ![s] = s]
  /\ UNCHANGED <<request, response, orderVars>>

\* InsufficientInventoryError, answered with 422.
RejectStock(s) ==
  /\ AllLocked(s)
  /\ ~CanReserve(s, request[s].amount)
  /\ Abort(s, "rejected")

\* KeyError: no inventory entry for an item, answered with 500.
MissingRow(s) ==
  /\ AllLocked(s)
  /\ request[s].names = "unstocked"
  /\ Abort(s, "error")

\* Wrong: save_many stops after one row.
SaveFirstRow(s, p) ==
  /\ pc[s] = "save"
  /\ p \in todo[s]
  /\ Save(s, p)
  /\ todo' = [todo EXCEPT ![s] = {}]
  /\ UNCHANGED <<pc, request, result, response, orderVars>>

SaveInventory(s, p) ==
  /\ pc[s] = "save"
  /\ p \in todo[s]
  /\ Save(s, p)
  /\ todo' = [todo EXCEPT ![s] = @ \ {p}]
  /\ UNCHANGED <<pc, request, result, response, orderVars>>

\* order.created goes out while the transaction is still open.
Publish(s) ==
  /\ pc[s] = "save"
  /\ todo[s] = {}
  /\ events' = events \cup ({s} \cap Publisher)
  /\ HandlerReturns(s)
  /\ UNCHANGED <<rowsVars, request, todo, result, response, placed, keys, inserting>>

-----------------------------------------------------------------------------
(* get_session: the flush and commit after the handler has returned.       *)

NeedsKey(s) == result[s] = s /\ KeyOf(s) # NoKey

\* Wrong: the key column has no primary key.
InsertKeyUnchecked(s) ==
  /\ pc[s] = "flush"
  /\ NeedsKey(s)
  /\ inserting' = [inserting EXCEPT ![KeyOf(s)] = s]
  /\ UNCHANGED <<rowsVars, requestVars, placed, keys, events>>

\* The INSERT of the key waits while another session has inserted the same
\* key and not yet committed.
InsertKey(s) ==
  /\ pc[s] = "flush"
  /\ NeedsKey(s)
  /\ keys[KeyOf(s)] = NoSession
  /\ inserting[KeyOf(s)] = NoSession
  /\ inserting' = [inserting EXCEPT ![KeyOf(s)] = s]
  /\ UNCHANGED <<rowsVars, requestVars, placed, keys, events>>

\* The primary key is taken: IntegrityError out of commit().
KeyTaken(s) ==
  /\ pc[s] = "flush"
  /\ NeedsKey(s)
  /\ keys[KeyOf(s)] # NoSession
  /\ Abort(s, "error")

Flushed(s) ==
  /\ pc[s] = "flush"
  /\ NeedsKey(s) => inserting[KeyOf(s)] = s

CommitOrder(s) ==
  /\ Flushed(s)
  /\ Commit(s)
  /\ Withdraw(s)
  /\ placed' = placed \cup ({s} \cap {result[s]})
  /\ keys' = [k \in Key |-> IF inserting[k] = s THEN s ELSE keys[k]]
  /\ UNCHANGED <<request, todo, result, events>>

CommitSession(s) ==
  /\ CommitOrder(s)
  /\ Goto(s, IF s \in EarlyReply THEN "done" ELSE "reply")
  /\ UNCHANGED response

Reply(s) ==
  /\ pc[s] = "reply"
  /\ Answer(s, "created")
  /\ Goto(s, IF s \in EarlyReply THEN "flush" ELSE "done")
  /\ UNCHANGED <<rowsVars, request, todo, result, orderVars>>

-----------------------------------------------------------------------------
(* Failures.                                                               *)

\* The connection or the process goes away, or a call to the database or to
\* Kafka raises: the server undoes what is not committed, and the client gets
\* an error or nothing.
Fail(s) ==
  /\ s \in Failing
  /\ pc[s] \notin {"idle", "done"}
  /\ Abort(s, "error")

\* The connection breaks after the server has committed and before the
\* commit is acknowledged.
CommitUnacknowledged(s) ==
  /\ s \in Failing
  /\ CommitOrder(s)
  /\ Goto(s, "done")
  /\ Answer(s, "error")

WaitsFor(s, t) ==
  /\ s # t
  /\ \/ pc[s] = "lock" /\ \E p \in todo[s] : lock[p] = t
     \/ pc[s] = "flush" /\ NeedsKey(s) /\ inserting[KeyOf(s)] = t

\* s is on a cycle of sessions each waiting for the next.
Deadlocked(s) ==
  \E C \in SUBSET Session :
    /\ s \in C
    /\ \E next \in Bijection(C, C) : \A t \in C : WaitsFor(t, next[t])

\* The server breaks the cycle by aborting a session on it; the driver's
\* error is caught by nobody and answered with 500.
DeadlockVictim(s) ==
  /\ Deadlocked(s)
  /\ Abort(s, "error")

-----------------------------------------------------------------------------
\* What session s does by itself once its request has arrived.
Serve(s) ==
  \/ Replay(s) \/ Validate(s) \/ RejectProduct(s)
  \/ \E p \in Product : LockRow(s, p) \/ SaveInventory(s, p)
  \/ Reserve(s) \/ RejectStock(s) \/ MissingRow(s)
  \/ Publish(s)
  \/ InsertKey(s) \/ KeyTaken(s) \/ CommitSession(s) \/ Reply(s)
  \/ DeadlockVictim(s)

Finished == \A s \in Session : pc[s] = "done"

Terminating == Finished /\ UNCHANGED placementVars

PlacementNext ==
  \/ \E s \in Session : Begin(s) \/ Serve(s) \/ Fail(s) \/ CommitUnacknowledged(s)
  \/ Terminating

PlacementSpec == PlacementInit /\ [][PlacementNext]_placementVars

\* The event loop runs every request it has accepted, and the server grants
\* a free lock and breaks a deadlock; nothing promises that a client calls or
\* that anything fails.
FairPlacement == PlacementSpec /\ \A s \in Session : WF_placementVars(Serve(s))

-----------------------------------------------------------------------------
(* Safety.                                                                 *)

\* The orders that exist, as the rows of the abstract ledger.
PlacedOrders ==
  [s \in Session |-> IF s \in placed
                      THEN [key |-> request[s].key, amount |-> request[s].amount]
                      ELSE NoRequest]

Ledger == INSTANCE OrderLedger WITH
  Order <- Session, NoOrder <- NoRequest, orders <- PlacedOrders,
  reserved <- [p \in Product |-> inventory[p].reserved]

\* The reserved column of every product is exactly what the committed orders
\* hold and never exceeds the quantity, whatever interleaves, aborts or fails
\* (README, the problem: overselling, and an order whose inventory is never
\* decremented).
StockBacksOrders == Ledger!StockBacksOrders

\* save() never raises OptimisticLockError on this path: rows locked by
\* get_by_product_ids are still at the version read, until they are written.
\* So the retry loop of execute() never repeats a half-done transaction.
SaveNeverConflicts ==
  \A s \in Session, p \in Product : (pc[s] = "save" /\ p \in todo[s]) =>
    loaded[s][p] # NoRow /\ VersionMatches(s, p) /\ lock[p] = s

\* No two committed orders carry the same idempotency key, however the
\* requests that carry it overlap, fail and are retried.
OneOrderPerKey ==
  \A s, t \in placed : (KeyOf(s) = KeyOf(t) /\ KeyOf(s) # NoKey) => s = t

\* A stored key names the committed order of the request that carried it, so
\* a replay never answers with an order that does not exist.
KeysNameOrders ==
  \A k \in Key : keys[k] # NoSession => keys[k] \in placed /\ KeyOf(keys[k]) = k

\* An order a client was told of is in the database, and clients that sent
\* the same key were told of the same order, unless the response left first.
AnswersAreDurable ==
  \A s \in Session \ EarlyReply : response[s] = "created" =>
    /\ result[s] \in placed
    /\ \A t \in Session \ EarlyReply :
         (response[t] = "created" /\ KeyOf(t) = KeyOf(s) /\ KeyOf(s) # NoKey) =>
            result[t] = result[s]

\* A session that is over holds no row lock, no key and no unsaved row: an
\* exit by an error leaves nothing behind that could block a later request.
NothingLeftBehind ==
  \A s \in Session : pc[s] \in {"idle", "done"} =>
    /\ \A p \in Product : lock[p] # s /\ pending[s][p] = NoRow
    /\ \A k \in Key : inserting[k] # s

\* A committed order of a process with a running producer has been announced,
\* because the event goes out before the commit.
CommittedIsAnnounced == placed \cap Publisher \subseteq events

\* A request for stocked products is refused only when the stock committed at
\* that moment cannot cover it: no refusal on stock another session may still
\* give back by rolling back.
RefusalsAreGenuine ==
  [][\A s \in Session :
       (response[s] = "none" /\ response'[s] = "rejected"
          /\ request[s].names # "inactive") =>
         \E p \in Product : request[s].amount[p] > Quantity[p] - granted[p]
    ]_placementVars

-----------------------------------------------------------------------------
(* What makes the invariants inductive: what a session holds at each step. *)

\* Locking: the rows visited so far are owned, read and not yet changed.
LockPhase(s) == pc[s] = "lock" =>
  /\ todo[s] \subseteq Wanted(s)
  /\ \A p \in Product : pending[s][p] = NoRow
  /\ \A p \in Wanted(s) \ todo[s] :
       lock[p] = s /\ loaded[s][p] # NoRow /\ loaded[s][p].reserved = loaded[s][p].base

\* Saving: every wanted row is owned and its item carries the reservation;
\* the rows written so far carry it too, and no other row is written.
SavePhase(s) == pc[s] = "save" =>
  /\ todo[s] \subseteq Wanted(s)
  /\ result[s] = s
  /\ \A p \in Wanted(s) :
       /\ lock[p] = s
       /\ loaded[s][p] # NoRow
       /\ loaded[s][p].reserved = loaded[s][p].base + request[s].amount[p]
  /\ \A p \in todo[s] : pending[s][p] = NoRow
  /\ \A p \in Product \ todo[s] : NetOf(s, p) = request[s].amount[p]

\* The handler has returned and its transaction is open.
Returned(s) == pc[s] = "flush" \/ (pc[s] = "reply" /\ s \in EarlyReply)

\* A session about to commit either creates its order with every unit it
\* takes, or replays one that exists and changes nothing.
CommitPhase(s) == Returned(s) =>
  \/ /\ result[s] = s
     /\ \A p \in Product : NetOf(s, p) = request[s].amount[p]
     /\ s \in Publisher => s \in events
  \/ /\ result[s] \in placed
     /\ \A p \in Product : NetOf(s, p) = 0

HoldsNothing(s) ==
  /\ \A p \in Product : lock[p] # s /\ pending[s][p] = NoRow
  /\ \A k \in Key : inserting[k] # s

\* An order is committed once, at the end of its session.
RestPhase(s) ==
  /\ pc[s] # "idle" => request[s] \in Request
  /\ pc[s] \in {"idle", "key", "done"} => HoldsNothing(s)
  /\ (pc[s] = "reply" /\ s \notin EarlyReply) => HoldsNothing(s) /\ result[s] \in placed
  /\ s \in placed =>
       /\ pc[s] = "done" \/ (pc[s] = "reply" /\ s \notin EarlyReply)
       /\ KeyOf(s) # NoKey => keys[KeyOf(s)] = s
       /\ s \in Publisher => s \in events

SessionOK(s) == LockPhase(s) /\ SavePhase(s) /\ CommitPhase(s) /\ RestPhase(s)

\* Key rows in flight belong to sessions about to commit.
KeysInFlight ==
  \A k \in Key : inserting[k] # NoSession =>
    /\ pc[inserting[k]] = "flush"
    /\ NeedsKey(inserting[k])
    /\ KeyOf(inserting[k]) = k
    /\ keys[k] = NoSession

PlacementIInv ==
  /\ RowsIInv
  /\ PlacementTypeOK
  /\ \A s \in Session : SessionOK(s)
  /\ KeysInFlight
  /\ KeysNameOrders

\* What AnswersAreDurable rests on: an answer that is not the session's own
\* order is the one its key names, now and for good, and a client that waited
\* for the commit was told of an order that exists.
AnswersAreTraced ==
  \A s \in Session :
    /\ pc[s] = "idle" => result[s] = NoSession /\ response[s] = "none"
    /\ result[s] \notin {s, NoSession} => KeyOf(s) \in Key /\ keys[KeyOf(s)] = result[s]
    /\ (response[s] = "created" /\ s \notin EarlyReply) =>
          pc[s] = "done" /\ result[s] \in placed

-----------------------------------------------------------------------------
(* Refinement and liveness.                                                *)

\* The placement path implements the atomic ledger of orders.
ImplementsLedger == Ledger!LedgerSpec

\* It uses the inventory table only through the repository's operations.
UsesRows == RowsSpec

\* Every request that arrives is answered, also those that meet in a deadlock
\* or queue behind the same key.
RequestsFinish == \A s \in Session : pc[s] = "key" ~> pc[s] = "done"

-----------------------------------------------------------------------------
(* What the documentation says and the code does not do.                   *)

\* tests/integration/test_idempotency.py: requests with the same key get the
\* same response, here for two whose connections do not fail.
SameKeySameResponse ==
  \A s, t \in Session \ Failing :
    (pc[s] = "done" /\ pc[t] = "done" /\ request[s] = request[t] /\ KeyOf(s) # NoKey)
      => response[s] = response[t] /\ result[s] = result[t]

\* app/events/models.py: events are facts that have already happened.
EventsAreFacts == \A s \in events : pc[s] = "done" => s \in placed
=============================================================================
