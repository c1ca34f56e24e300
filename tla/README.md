# Verification of the order platform

TLA+ models of the order platform in `app/`, checked with TLC and proved with TLAPS. The subject
is the part of the program that concurrent requests, failures and redelivered messages can get
wrong: stock, orders, idempotency keys, cancellations, events, jobs and connections.

Run a model with `tlc -config OrderPlacement.cfg MCOrderPlacement`, a proof with
`tlapm OrderPlacementProofs.tla`. Code paths below are relative to the repository.

## 1. The system

| Component | State | Operations | Talks to |
|---|---|---|---|
| Inventory rows and repository (`repositories/inventory_repository.py`, `domain/models.py`) | `inventory_items`: quantity, reserved, version | locked and plain reads, `reserve`, `release`, version-checked `save`, `save_many` | PostgreSQL row locks, the session |
| Order placement (`use_cases/create_order.py`, `routes/orders.py`, `dependencies.py`) | `orders`, `order_items`, `idempotency_keys` | `POST /orders` | catalogue, inventory, reservation service, Kafka producer |
| Retry loop (`CreateOrderUseCase.execute`) | attempt counter | up to three runs of `_execute_once` | the same session |
| Reservation service (`domain/services.py`) | the items and the dict of inventory objects of one call | `reserve`, `release` | domain objects |
| Asynchronous orders (`routes/jobs.py`, `worker/`) | `jobs`, the Redis queue, one task per worker | `POST /orders/async`, `process_order` | Redis, order placement |
| Cancellation (`use_cases/cancel_order.py`) | order status and items, inventory rows | `PATCH /orders/{id}/cancel` | inventory, reservation service, Kafka producer |
| Event producer (`events/producer.py`, `main.py`) | the producer singleton and its buffer | start, stop, publish | Kafka |
| Connection pool (`infrastructure/database.py`) | connections out and waiting sessions | checkout, its timeout, return | every session of a process |
| Health check (`routes/health.py`) | nothing between calls | `GET /health` | the pool, PostgreSQL, Redis |
| Catalogue (`repositories/product_repository.py`) | `products` | lookups | |
| Reads, metrics, logging, configuration, migrations, deployment | none that a handler reads back | | |

A request has one database session (`get_session`): everything a handler writes is one
transaction, committed after the handler has returned and rolled back on any exception. Requests
of one process interleave at every `await`; processes interleave freely. They meet in four
places: the row locks of `inventory_items`, the primary key of `idempotency_keys`, the connection
pool of the process, and the queue. A worker uses three separate transactions per task: job to
PROCESSING, the order, job to COMPLETED or FAILED. An event leaves before the commit it speaks of.

What is hard, and what makes each component correct:

- *Inventory.* Two guards on one row, `FOR UPDATE` and the version column, used by different
  callers. Correct: the reserved column is the sum of what committed sessions did and fits the
  quantity; a write never covers a row its session has not seen.
- *Placement.* Several statements before one commit, deadlocks between orders for the same
  products, two requests with one key, a lost acknowledgement and a client that retries, a commit
  after the response. Correct: an order exists whole or not at all, one per key, backed by stock;
  an answer given is durable; an exit by an error leaves nothing behind; each request ends.
- *Reservation service.* A list walked item by item, in which a product may come up twice, with a
  rollback loop. Correct: the result is that of the totals, or nothing.
- *Jobs.* Three transactions and a queue with no common commit. Correct: a completed job
  names its order and, with a key, always the same one; a job that no fault befalls runs through
  its life once, and ends, whatever befalls the others.
- *Cancellation.* The status is read without a lock and the stock given back under one. Correct:
  a cancelled order leaves with all of its stock, once; only PENDING orders are cancelled; an
  order keeps one set of items.
- *Producer.* A start that fails once is never repeated, sends are not awaited, and the process
  may stop or die at any time. Correct: no event is lost without a crash, a refusal or an outage,
  what was taken arrives once the broker is back, and no call waits for the broker.
- *Pool and health.* Sessions that wait for row locks keep their connections, and probes want
  connections too. Correct: the session the others wait for never waits for the pool; probes
  cost orders connections and nothing else; orders and probes both get their turn.

`PROJECT.json` lists each hazard at its line with the properties that cover it.

## 2. Modules

| Module | Models | Uses |
|---|---|---|
| `InventoryRows` | the table, its locks, versions and uncommitted rows under any number of sessions | |
| `OrderPlacement` | `POST /orders` end to end, many requests | extends `InventoryRows` |
| `OrderCancellation` | `PATCH /orders/{id}/cancel` beside placements | extends `InventoryRows` |
| `OrderLedger` | the abstract promise of the orders API | instantiated by the two above and `AsyncJobs` |
| `ConnectionPool` | `OrderPlacement` on a bounded pool | extends `OrderPlacement` |
| `HealthCheck` | `GET /health` beside orders, on that pool | extends `ConnectionPool` |
| `ReservationService` | `OrderReservationService` item by item | |
| `AsyncJobs` | route, queue, workers | |
| `EventProducer` | the producer in the life of API and worker processes | |
| `...Proofs` | theorems about the module in their name; `HealthCheckProofs` has those about `ConnectionPool` too | |
| `FiniteSums` | lemmas about sums over finite sets, for the proofs | |
| `MC...` | values of the constants for TLC | |

Operators marked `\* Wrong:` are plausible bugs of the definition that follows them. No
specification uses them: each is put in place of its definition once, to see that the property
paired with it in `PROJECT.json` notices.

### InventoryRows

`inventory` is the committed table, `lock` the holders of row locks, `pending[s]` the row versions
session `s` has written and not committed, `loaded[s]` its `InventoryItem` objects. `quantity` is a
constant since no code changes it. The session of the code has one transaction under READ
COMMITTED, so a read sees the session's own writes and otherwise what is committed (`View`).
The repository converts rows to domain objects and drops the ORM rows at once; the identity map
holds them weakly, so a later query builds them anew and `SelectForUpdate` reads what is there.

| Action | Code |
|---|---|
| `SelectForUpdate` | `get_by_product_id()` and one row of `get_by_product_ids()` |
| `Select` | `get_by_product_id(for_update=False)` |
| `ReserveItems`, `ReleaseItems` | `InventoryItem.reserve` and `release` on the items of one order |
| `Save`, `SaveConflict` | `save()`: the UPDATE that matches a version, or `OptimisticLockError` |
| `Commit`, `Rollback` | `get_session` |

`granted`, `base` and `net` are history. `granted[p]` sums, session by session, the differences
between the items as saved and as loaded. `NoLostUpdate` compares that sum to the column, which is
overwritten with an absolute value (`inventory_repository.py:92`) and could lose a summand.

The module lets a session use the operations in any order and mix the two guards, as the tests of
`tests/integration/test_optimistic_locking.py` do, which is more than any one use case does.

### OrderPlacement

A session serves one request and gives its name to the order it creates (a fresh uuid4). `pc`
follows the awaits of `_execute_once` and `get_session`:

| `pc` | Where the request is |
|---|---|
| `key` | the idempotency lookup and the validation of products |
| `lock` | inside `SELECT ... IN (...) FOR UPDATE`, which locks row after row |
| `save` | order confirmed and added, `save_many` under way, then the event |
| `flush` | handler returned; `get_session` flushes (INSERT of the key) and commits |
| `reply` | the response is on its way |
| `done` | over |

The INSERT of a key waits for another session's uncommitted INSERT of that key and then succeeds or
raises, which is what a PostgreSQL unique index does. `WaitsFor` collects the two kinds of waits,
and `DeadlockVictim` is the server's way out of a cycle of them; `Deadlocked` is evaluated over all
sets of sessions. `EarlyReply` holds the sessions of processes whose FastAPI runs the code after
`yield` when the response has been sent (0.118 and later; `pyproject.toml` asks for 0.111 or later).
`Failing` sessions may fail at every step, also between a commit and its acknowledgement.
A request with no items is refused by the schema before a session does anything and is left out.
An order's quantities are one amount per product, taken in one step: `ReservationService` is the
argument that the walk over the item list amounts to that.

### OrderCancellation

Orders of the API are stored CONFIRMED, so the PENDING ones a cancellation may take are there from
the start (`InitialStatus`, `Seeded`). `read` is `get_by_id`, which takes no lock; `lock`, `save`
and `flush` are as above, with `release` in place of `reserve`. `items[o]` is who wrote the rows
of `order_items` that an order has: `save()` deletes the rows it finds (`FindItems`, at its own
query of the order, under the inventory locks) and inserts new ones. Placements beside
cancellations are the locking part of `OrderPlacement` for a fresh id, without keys.

A commit succeeds with its answer (`CommitSession`) or loses its acknowledgement
(`CommitUnacknowledged`, for `Failing` sessions). The answer is given at the commit: an early reply,
as in `OrderPlacement`, would only change when the client is told, which no property is about. The
lookup of an inventory row in `release()` (`services.py:55`) always finds one, since no code deletes
rows, so its `KeyError` is left out.

Two overlapping cancellations of one order both succeed and give its stock back twice (run
`DoubleCancel`). `overlapped` is history: the orders to which that has happened. The other
properties say what holds all the same (one set of items, only PENDING is cancelled), and what
holds of products none of those orders touches (`Untouched`).

### OrderLedger

The abstract specification: `Place` adds an order with its key and takes all of its amount from
stock; `Cancel` removes one and gives back all of it. `LedgerSpec` is the ledger of an API that
only places, `BookNext` its step when it cancels too. Committed orders and the committed reserved
column are mapped to it by `OrderPlacement` (`ImplementsLedger`), `OrderCancellation`
(`ImplementsBook`, until two calls cancel one order at once) and `AsyncJobs` (`ImplementsLedger`,
one unit per order).

### ReservationService

The walk over `order.items`, one action per way an item can go, and the rollback loop turn by
turn. The inventory dict may lack entries, and quantities may be zero, which the request schema
prevents and `InventoryItem` checks again. `WalkMatchesTotals` compares the walk to a reference by
totals.

### AsyncJobs

`route` follows the handler (job committed, then task sent), `queue` counts the copies of each
job's message, `step` follows each worker through `process_order`. Celery is configured with its
defaults (`worker/celery_app.py`): a message is acknowledged when its task starts. `Restore` is the
visibility timeout of the Redis transport for a message that waits in a prefetch buffer. `Faults`
chooses what may fail. A job is never deleted, so the early return for a job that is not found
(`tasks.py:125`) is left out; a route that dies once the message is sent is `DispatchUnanswered`.

The use case runs in steps of the worker, between those of other workers:

| `step` | Where the task is |
|---|---|
| `fetched` | in the prefetch buffer, or before the job is PROCESSING |
| `running` | at the lookup of the key, without a lock |
| `missed` | the key was not there; products are validated, the row is waited for |
| `locked` | the inventory row is locked and read (`read`) |
| `flushed` | order, row and key written, not committed |
| `created` / `failed` | the use case is over; the job is about to say so |

Every order takes one unit of a common stock, so the use case locks one row and cannot deadlock;
several rows are the matter of `OrderPlacement`, as are the waits for a key that another row's order
has inserted. Of two tasks with one key that both missed it, the second gets the row when the first
has committed and fails on the primary key (`KeyTaken`): its job is FAILED. The version check is not
repeated here, since `SaveNeverConflicts` shows that it holds behind the lock. The server rolls back
what a dead worker had not committed. `reserved` is written as `read + 1`, the absolute value of the
code, and `ImplementsLedger` compares it to the orders.

`disturbed` is history: the jobs a redelivery, a worker's death or a failed update of the job has
befallen. `OneOrderPerJob`, `FailedMeansNoOrder`, `JobLifecycle` and `JobsFinish` speak of the other
jobs while those faults go on around them; `CompletedNamesOrder`, `KeyedAnswerIsStable` and
`ImplementsLedger` of all jobs.

### EventProducer

`mode` is the life of each process: `Boot` and `Connect` or `ConnectFails` are `start_producer` with
its timeout, `Shutdown`, `Drained` and `Stop` the end of the lifespan (uvicorn first waits for its
calls), `Crash` the process killed. A worker is a process that is not `Configured`: nothing
starts a producer there and its calls publish nothing. Each call announces one order and then
commits. `send()` puts the event into `inFlight`; the client's background task delivers it
(`Write`) and may not learn of it at once (`Acknowledge`). The producer is idempotent, so it sends
an unacknowledged batch again and the broker drops what it has; a refusal, or an outage that
outlasts the batch, ends that (`GiveUp`). `stop()` has no timeout: it waits for the buffer.

### ConnectionPool and HealthCheck

`connected` holds the sessions with a connection: taken at the first query, kept over lock waits,
given back when the transaction ends (`GiveBack`). `PoolTimeout` is one more way for a session of
`Failing` to fail. `HealthCheck` adds probes that start again as soon as they are answered: a
connection of the same pool, `SELECT 1`, the connection given back, then a ping of Redis that
nothing times out. `ServeOrder` and `OrderTimesOut` are the steps of the orders on what the probes
leave. `ImplementsPool` says that orders beside probes are those of `ConnectionPool`, and
`ImplementsPlacement` that these are those of `OrderPlacement`.

## 3. What the runs show

| Run | Instance | States | Shows |
|---|---|---|---|
| `InventoryRows` | 2 sessions, 2 products with 2 and 1 units, each row committed once (`MaxVersion = 1`) | 483 000 | no oversell, no lost update, no stale write, versions grow |
| `OrderPlacement` | 3 sessions, 2 products, 1 key, 5 kinds of request, failures of two sessions, early replies of one | 61 000 | the safety of placement, its refinement of the ledger, and that every request ends |
| `OrderCancellation` | 3 sessions, 2 PENDING orders, one CONFIRMED, one to be placed; failures of two sessions | 32 000 | what overlapping cancellations keep, what holds without them, and that each is answered |
| `ReservationService` | 2 products, up to 3 items of 0 to 2 units | 64 000 | equal to the reference by totals; rollback complete |
| `AsyncJobs` | 2 jobs that may share a key, 2 workers, all faults, 1 redelivery | 171 000 | what survives any failure, that interleaved use cases make the ledger, and the life of an undisturbed job |
| `EventProducer` | an API process and a worker, 3 calls, 1 outage, 1 crash, all faults | 76 000 | nothing lost in silence, calls end, delivery once the broker is back for good |
| `HealthCheck` | 2 orders and 2 probes on 2 connections, all failures | 50 000 | who holds a lock has a connection, refinement of the pool, orders and probes both served |

Bounds. Two sessions suffice for a lost update or a stale write and leave the row versions of both
in every order; `VersionBound` cuts off the version counter and nothing else grows. Three
placement sessions allow a cycle of two with a bystander that waits behind it, two retries of one
key, and a commit between two reads of a third. Stock of 2 and 1 makes the first order leave too
little for the last. The key is used for two different orders, so that a key with another body is
seen too. Three sessions of cancellation allow two on one order beside a placement for its products.
Two jobs and two workers let a redelivered message run beside its first copy. Three
items are what a rollback of two items, and a product listed twice with another between, need. Two
calls of one process let one be about to publish while the other's event is in the buffer, and an
outage and a crash can meet in each order. Four tasks on two connections fill the pool in every
mixture of orders and probes. The faults of the producer are bounded by `MaxOutages` and
`MaxCrashes`, redeliveries by `MaxRestores`; the proofs hold for every value of them.

Runs that end in a violation:

| Run | What happens |
|---|---|
| `DoubleCancel` | two calls cancel one PENDING order at the same time, both read PENDING, and its stock is given back twice: the stock of another order is then sold again. A bug of the code: `get_by_id` would have to lock the order |
| `SameKeyResponses` | two overlapping requests with one key: the second reaches the INSERT of the key and answers 500, not the stored response; a later retry gets it |
| `EventsAreFacts` | the same request has already sent `order.created` for an order that is rolled back |
| `SendUnacknowledged` | publishing returns before the broker has the event, which a docstring says it waits for |
| `JobsFinish` | a worker dies after its task has started; nobody takes the job up again |

Further sentences of the documentation that the code does not keep, seen while modelling and in the
models, without a run of their own: with FastAPI from 0.118 on a 201 may leave before its commit
fails (`EarlyReply`); a product without an inventory row raises `KeyError` past the rollback loop
of `reserve()`, and only the rollback of the transaction undoes the objects (`NoInventory`,
`MissingRow`); a redelivered message takes a COMPLETED job back to PROCESSING (`MarkProcessing`);
orders of the API are CONFIRMED and can never be cancelled, where `docs/validation-guide.md:82`
expects 200 (`Refuse`); a producer that did not start is never tried again, where
`docs/architecture-evolution.md:489` speaks of reconnecting (`ConnectFails`); orders created by a
worker are not announced (`Boot`).

### Fairness

- `FairPlacement`, `FairCancellation`: weak fairness of `Serve(s)` for each session. The event loop
  resumes a coroutine whose await is over, the server grants a lock once it is free, and
  `DeadlockVictim` is part of `Serve`, as PostgreSQL looks for deadlocks after `deadlock_timeout`. A
  lock wait needs no strong fairness, because each session locks and ends once. Nothing is assumed
  of clients, failures or `Begin`.
- `FairSpec` of `AsyncJobs`: weak fairness of a stored job's dispatch and of each worker, strong
  fairness of fetching each job. The queue is a list in Redis served from its head, so no message
  waits for ever while workers fetch. The steps of `process_order` include the grant of a free
  row. No failure is promised to happen or to stop: a worker may die with its message again and
  again, which is why `JobsFinish` lets a disturbed job go.
- `FairSpec` of `EventProducer`: processes start and stop, handlers run, the sender sends while the
  broker can be reached. That the broker returns is not assumed: `TakenIsDelivered` has it as its
  hypothesis, `CallsFinish` does without.
- `FairHealth`: the pool serves its waiters in turn, hence strong fairness of each checkout, and weak
  fairness of the steps of a session that has its connection and of `SELECT 1`. Nothing of Redis.

`Rest` and `Terminating` are the states in which all work is done; every run checks for deadlock.

## 4. What is proved

For every value of the constants that the named assumptions allow, that is any products, sessions,
keys, requests, jobs, workers, processes, probes, quantities and bounds:

| Module | Theorems |
|---|---|
| `InventoryRowsProofs` | `RowsInvariant`, `RowsTypeCorrect`, `NeverOversold`, `NothingLost`, `DraftsFollowRows`, `LockedReadsStayFresh`, `VersionsAdvance` |
| `OrderPlacementProofs` | `PlacementInvariant`, `PlacementTypeCorrect`, `PlacementUsesRows`, `OneOrderForEachKey`, `StoredKeysNameOrders`, `NoConflictBehindLock`, `EndedSessionsHoldNothing`, `CommitsAreAnnounced`, `AnswersComeFromOrders`, `AnswersLast`, `RefusalsAreTrue`, `PlacementImplementsLedger`, `StockAlwaysBacksOrders`, `DeadlocksTakeTwoRows` |
| `OrderCancellationProofs` | `CancellationInvariant`, `ItemsAreWrittenOnce`, `OnlyPendingOrdersAreCancelled`, `CancellationsAreAnnounced`, `CancellationUsesRows`, `CancellationImplementsBook`, `StockAlwaysBacksLiveOrders`, `ReleasesSucceed` |
| `ReservationServiceProofs` | `ReservationInvariant`, `LoopsNeverOverReserve`, `RollbackNeverFails`, `ShortagesLeaveNoTrace`, `LoopsMatchTotals` |
| `AsyncJobsProofs` | `AsyncInvariant`, `AsyncTypeCorrect`, `CompletedJobsNameOrders`, `NoOrderBeforeItsJob`, `KeyedAnswersAreStable`, `UndisturbedJobsOrderOnce`, `UndisturbedFailureIsTrue`, `UndisturbedJobsGoForward`, `AsyncImplementsLedger` |
| `EventProducerProofs` | `ProducerInvariant`, `NothingLostSilently` |
| `HealthCheckProofs`, the pool | `PoolInvariant`, `PoolImplementsPlacement`, `LockHoldersAreConnected` |
| `HealthCheckProofs`, probes | `ProbesOnlyCostConnections`, `HealthInvariant`, `PoolIsNotExceeded`, `WaitingProbesHoldNothing`, `OrdersBesideProbesImplementLedger`, `StockBacksOrdersBesideProbes`, `HoldersAreConnectedBesideProbes` |

Every safety invariant and action property of the passing runs, and every refinement, is among them.

The assumptions (`RowsAssumption`, `PlacementAssumption` and their like) say what kind of thing each
constant is and that the null values are none of the others; the row of a ledger that stands for no
order is none of the rows of orders. Sessions, products and jobs may be infinitely many. The theorems
on the stock of live orders also use `SeedsAssumption`: the stock reserved at the start is that of
the orders that are live then, and these are finitely many.

*The table.* `NoOversell` alone is not inductive: a commit copies what a session has pending, and a
write copies what it has loaded. `RowsIInv` adds that a pending row belongs to a lock holder and is
the committed row plus `net` (`DraftsExtendRows`), and that an item whose version is still the
row's was read from that row (`ItemsMatchRows`), since versions only grow. So the version test of
`Save` carries `base = reserved`, the draft extends the row, and a commit adds `net` to both sides
of `NoLostUpdate`.

*Placement.* `PlacementIInv` adds what a session holds at each `pc`: while it locks, the rows so far
are its own and unchanged (`LockPhase`); while it saves, each row is locked and its item carries
the amount, and each row written carries it as `net` (`SavePhase`); once it has returned, either it
creates its order with all of `net` or it replays and has none (`CommitPhase`); before and after it
holds nothing (`RestPhase`). `StepsAreRowSteps` reduces the table's part to `RowsNext`, so the first
invariant is reused as it is. `OthersStay` shows that a step of `s` keeps the phases of all others.
`AnswersAreDurable` needs `AnswersAreTraced` as well: an answer that is not the session's own order is
the one its key names, and a stored key never changes.

*Refinement.* A commit that creates an order is `Place`: its key is unused because a stored key
names its order (`KeysNameOrders`, `KeysInFlight`), its amount fits because `NoOversell` holds in
the next state. A commit that replays an order and every other step is a stutter.

*Cancellation.* `CancellationIInv` has the same phases with a change that may be negative. A
session that writes owns all inventory rows of its order, so what `save()` found of the items is
still there at the commit (`WritePhase`), which gives one set of items. `StillPending` says that an
order nobody else cancels stays PENDING while one call cancels it: its commit is then `Cancel`.

*Deadlocks.* `WaitsFor` has waits for rows and waits for keys. Who has inserted a key that is not
committed is past its locks and waits for nobody (`KeysInFlight`), so a cycle has no wait for a key;
and a session on a cycle of waits for rows holds one row of its order and wants another
(`LocksAreWanted`). What is left are batches that lock the same rows in different orders, which a
fixed order would avoid; that last step is not modelled.

*Sums.* A sum over a finite set is defined by the community modules as a fold, which chooses an
element, and induction over sets is out of the provers' reach. `FiniteSums` goes around it: of the
subsets for which a claim failed there would be a minimal one (`MinimalSubset`, since strict
inclusion is well-founded on finite sets), and taking one element away refutes it. This gives that
the sum does not depend on the order of its elements (`SumIsAdditive`), what one element more or
less changes (`SumWith`, `SumWithout`), that sums of equal functions agree, and that a larger set of
naturals has no smaller sum (`SumGrows`).

*Stock.* `StockBacksOrders` follows from the refinement: `Place` adds one order and its amount, and
no other step of the ledger exists (`BookAddsUp`). With cancellations the claim is about the
products no twice-cancelled order touches (`LiveStock`): an order cancelled once leaves the sum with
all of its amount, and an order that becomes twice-cancelled takes its products out of the claim for
good. That an order is still live while one call cancels it gives `ReleaseNeverFails`: its amount is
one summand of the column that `release()` compares it to (`SumCovers`).

*The reservation loops.* What is reserved at any point is what was before, plus what the items
passed want of the product, less what is undone (`Accounted`, with `Passed` a sum over positions of
the list). At the end of the walk the items passed are all items, so the totals have moved and, by
`NeverOverReserved`, fit. A walk that stops has met an item up to which the wanted sum does not fit
(`StoppedShort`), and the total is no less (`PassedGrows`).

*Jobs.* `StockIsOwned` is what makes interleaved use cases implement the ledger: one worker at a
time is between lock and commit, so the column it has read is still the committed one, the unit it
found free still free and the key it found unused still unused, steps later, when `CommitOrder`
becomes `Place` (`CommitIsPlace`). `AnswersAreNamed` ties the order a worker carries and the one a
job names to the job's key. For undisturbed jobs, `PassesOnce` says where the one copy of the
message is: not sent, queued, with one worker, or gone, each with the only status possible there.

*Producer.* The buffer holds only events that a producer took which still runs
(`BufferOK`): a shutdown that waits for the buffer leaves none of them behind.

*Pool.* A session in a transaction has a connection (`ConnectedWhenNeeded`), and only such sessions
hold locks, by `PlacementIInv`, which the refinement `PoolImplementsPlacement` carries over. The
health check is carried to the pool by `ProbesOnlyCostConnections`. So whoever the others wait for
(`HoldersAreConnected`) never waits for the pool, and a full pool is no deadlock.

*On the bounded pool.* `PoolImplementsPlacement` and `ProbesOnlyCostConnections` are refinements, so
what holds of `OrderPlacement` holds of orders on a bounded pool beside probes: the ledger and its
stock are restated there.

Only model-checked: the liveness properties (`RequestsFinish`, `CancelsFinish`, `JobsFinish`,
`CallsFinish`, `TakenIsDelivered`, `OrdersFinishBesideProbes`, `ProbesAreServed`), since fairness is
about ENABLED, which the provers do not know.

## 5. Not modelled

- The retry loop of `CreateOrderUseCase.execute`: `NoConflictBehindLock` shows that no
  `OptimisticLockError` reaches it on the production path.
- The insert branch of `save()`, and writes to the catalogue: only code that seeds the database
  reaches them.
- The engine a worker creates for each task and does not dispose of when the use case raises:
  its connections are closed when the garbage collector gets to it, which the code does not
  determine.
- The reading routes, which are one query each of committed state that the modules have as variables.
- Metrics, logging, request context, configuration, migrations, the demo consumer and the
  deployment: no handler reads what they record.
- Prices, customers, timestamps and payloads: data no property tells apart.
