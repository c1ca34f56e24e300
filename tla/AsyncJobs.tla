----------------------------- MODULE AsyncJobs -----------------------------
(***************************************************************************)
(* POST /orders/async: the route that stores a job and sends a task, the   *)
(* Redis queue, and the Celery workers that run process_order, which       *)
(* tracks the job in one set of transactions and runs CreateOrderUseCase   *)
(* in another.  Every order takes one unit of one stock that may run out,  *)
(* so the use case locks one inventory row.  Orders of several rows and    *)
(* the deadlocks between them are in OrderPlacement.                       *)
(***************************************************************************)
EXTENDS Integers, Sequences, FiniteSets

CONSTANTS
  Job,           \* jobs, one per request
  Worker,        \* worker processes, one task at a time each
  NoJob,
  Key, NoKey,    \* Idempotency-Key values and their absence
  Stock,         \* units in stock, which bounds the orders
  MaxRestores,   \* bound on visibility timeouts
  Faults         \* which parts may fail: "api", "worker", "database"

ASSUME AsyncAssumption ==
  /\ NoJob \notin Job
  /\ NoKey \notin Key
  /\ Stock \in Nat
  /\ MaxRestores \in Nat
  /\ Faults \subseteq {"api", "worker", "database"}

VARIABLES
  route,      \* the request of each job: what the handler has done
  status,     \* jobs.status
  orderOf,    \* jobs.order_id, 0 when null
  key,        \* the idempotency key sent with the task
  queue,      \* copies of each job's message waiting in Redis
  restores,   \* messages put back by a visibility timeout so far
  step,       \* where each worker is in process_order
  task,       \* the job it works on
  read,       \* the reserved column as its use case read it under the lock
  result,     \* the order its use case answered with
  orders,     \* committed orders, with their keys, in the order of their commits
  reserved,   \* the committed reserved column of the one inventory row
  disturbed   \* history: the jobs a fault has befallen

routeVars == <<route, key>>
jobVars == <<status, orderOf>>
faultVars == <<restores, disturbed>>
brokerVars == <<queue, faultVars>>
workerVars == <<step, task, read, result>>
orderVars == <<orders, reserved>>
vars == <<routeVars, jobVars, brokerVars, workerVars, orderVars>>

Order == [job : Job, key : Key \cup {NoKey}]

TypeOK ==
  /\ route \in [Job -> {"idle", "stored", "accepted", "error"}]
  /\ status \in [Job -> {"absent", "PENDING", "PROCESSING", "COMPLETED", "FAILED"}]
  /\ orderOf \in [Job -> 0 .. Stock]
  /\ key \in [Job -> Key \cup {NoKey}]
  /\ queue \in [Job -> Nat]
  /\ restores \in 0 .. MaxRestores
  /\ step \in [Worker -> {"idle", "fetched", "running", "missed", "locked", "flushed",
                         "created", "failed"}]
  /\ task \in [Worker -> Job \cup {NoJob}]
  /\ read \in [Worker -> 0 .. Stock]
  /\ result \in [Worker -> 0 .. Stock]
  /\ orders \in Seq(Order) /\ Len(orders) <= Stock
  /\ reserved \in 0 .. Stock
  /\ disturbed \subseteq Job

Init ==
  /\ route = [j \in Job |-> "idle"]
  /\ status = [j \in Job |-> "absent"]
  /\ orderOf = [j \in Job |-> 0]
  /\ key = [j \in Job |-> NoKey]
  /\ queue = [j \in Job |-> 0]
  /\ restores = 0
  /\ step = [w \in Worker |-> "idle"]
  /\ task = [w \in Worker |-> NoJob]
  /\ read = [w \in Worker |-> 0]
  /\ result = [w \in Worker |-> 0]
  /\ orders = <<>>
  /\ reserved = 0
  /\ disturbed = {}

-----------------------------------------------------------------------------
(* The route.                                                              *)

\* INSERT, flush and commit of the job, before anything is sent.
StoreJob(j) ==
  /\ route[j] = "idle"
  /\ route' = [route EXCEPT ![j] = "stored"]
  /\ status' = [status EXCEPT ![j] = "PENDING"]
  /\ \E k \in Key \cup {NoKey} : key' = [key EXCEPT ![j] = k]
  /\ UNCHANGED <<orderOf, brokerVars, workerVars, orderVars>>

\* Wrong: the 202 is sent and the task is not.
DispatchLost(j) ==
  /\ route[j] = "stored"
  /\ route' = [route EXCEPT ![j] = "accepted"]
  /\ UNCHANGED <<key, jobVars, brokerVars, workerVars, orderVars>>

\* process_order.delay(), then the 202.
Dispatch(j) ==
  /\ route[j] = "stored"
  /\ queue' = [queue EXCEPT ![j] = @ + 1]
  /\ route' = [route EXCEPT ![j] = "accepted"]
  /\ UNCHANGED <<key, jobVars, faultVars, workerVars, orderVars>>

\* Redis refuses the message or the process dies: the job is committed and
\* nobody will ever work on it.
DispatchFails(j) ==
  /\ "api" \in Faults
  /\ route[j] = "stored"
  /\ route' = [route EXCEPT ![j] = "error"]
  /\ UNCHANGED <<key, jobVars, brokerVars, workerVars, orderVars>>

\* The message is sent and the process dies before the 202, or its connection
\* to Redis does before the reply: a job runs that no client can ask for.
DispatchUnanswered(j) ==
  /\ "api" \in Faults
  /\ route[j] = "stored"
  /\ queue' = [queue EXCEPT ![j] = @ + 1]
  /\ route' = [route EXCEPT ![j] = "error"]
  /\ UNCHANGED <<key, jobVars, faultVars, workerVars, orderVars>>

-----------------------------------------------------------------------------
(* The broker: a message a worker has fetched stays unacknowledged until   *)
(* the task starts, and is acknowledged before it runs.                    *)

\* Wrong: the message is never acknowledged.
FetchKept(w, j) ==
  /\ step[w] = "idle"
  /\ queue[j] > 0
  /\ step' = [step EXCEPT ![w] = "fetched"]
  /\ task' = [task EXCEPT ![w] = j]
  /\ UNCHANGED <<routeVars, jobVars, brokerVars, read, result, orderVars>>

\* The message leaves the queue.
Fetch(w, j) ==
  /\ step[w] = "idle"
  /\ queue[j] > 0
  /\ queue' = [queue EXCEPT ![j] = @ - 1]
  /\ step' = [step EXCEPT ![w] = "fetched"]
  /\ task' = [task EXCEPT ![w] = j]
  /\ UNCHANGED <<routeVars, jobVars, faultVars, read, result, orderVars>>

\* The visibility timeout passes while the message waits in the worker's
\* prefetch buffer: Redis offers it again and the worker still has it.
Restore(w) ==
  /\ step[w] = "fetched"
  /\ restores < MaxRestores
  /\ restores' = restores + 1
  /\ disturbed' = disturbed \cup {task[w]}
  /\ queue' = [queue EXCEPT ![task[w]] = @ + 1]
  /\ UNCHANGED <<routeVars, jobVars, workerVars, orderVars>>

-----------------------------------------------------------------------------
(* process_order.                                                          *)

Goto(w, s) == step' = [step EXCEPT ![w] = s]

Stop(w) ==
  /\ Goto(w, "idle")
  /\ task' = [task EXCEPT ![w] = NoJob]
  /\ read' = [read EXCEPT ![w] = 0]
  /\ result' = [result EXCEPT ![w] = 0]

\* Wrong: the session is closed without a commit.
MarkProcessingUncommitted(w) ==
  /\ step[w] = "fetched"
  /\ Goto(w, "running")
  /\ UNCHANGED <<routeVars, jobVars, brokerVars, task, read, result, orderVars>>

\* Whatever the job's status was, it is PROCESSING now.  The row is there: no
\* code deletes a job.
MarkProcessing(w) ==
  /\ step[w] = "fetched"
  /\ status' = [status EXCEPT ![task[w]] = "PROCESSING"]
  /\ Goto(w, "running")
  /\ UNCHANGED <<routeVars, orderOf, brokerVars, task, read, result, orderVars>>

-----------------------------------------------------------------------------
(* The use case, in the transaction of _execute_order.                     *)

KeySeen(w) == \E n \in DOMAIN orders : orders[n].key = key[task[w]] /\ key[task[w]] # NoKey

\* Wrong: the replayed answer does not say which order it is.
ReplayOrderUnnamed(w) ==
  /\ step[w] = "running"
  /\ KeySeen(w)
  /\ Goto(w, "created")
  /\ UNCHANGED <<routeVars, jobVars, brokerVars, task, read, result, orderVars>>

\* The key is known: the use case answers with the order it names.
ReplayOrder(w) ==
  /\ step[w] = "running"
  /\ \E n \in DOMAIN orders :
       /\ orders[n].key = key[task[w]] /\ key[task[w]] # NoKey
       /\ result' = [result EXCEPT ![w] = n]
  /\ Goto(w, "created")
  /\ UNCHANGED <<routeVars, jobVars, brokerVars, task, read, orderVars>>

\* No key, or a key that is not stored yet.
MissKey(w) ==
  /\ step[w] = "running"
  /\ ~KeySeen(w)
  /\ Goto(w, "missed")
  /\ UNCHANGED <<routeVars, jobVars, brokerVars, task, read, result, orderVars>>

HoldsStock(w) == step[w] \in {"locked", "flushed"}

\* SELECT ... FOR UPDATE waits for the transaction that holds the row.
LockStock(w) ==
  /\ step[w] = "missed"
  /\ \A v \in Worker : ~HoldsStock(v)
  /\ read' = [read EXCEPT ![w] = reserved]
  /\ Goto(w, "locked")
  /\ UNCHANGED <<routeVars, jobVars, brokerVars, task, result, orderVars>>

\* Wrong: the column of the idempotency keys has no primary key.
SaveOrderKeyUnchecked(w) ==
  /\ step[w] = "locked"
  /\ read[w] < Stock
  /\ Goto(w, "flushed")
  /\ UNCHANGED <<routeVars, jobVars, brokerVars, task, read, result, orderVars>>

\* The unit is reserved; the order, the row and the key, which must be new by
\* now, are written and not yet committed.  The version check of the row
\* cannot fail behind the lock (SaveNeverConflicts in OrderPlacement).
SaveOrder(w) ==
  /\ step[w] = "locked"
  /\ read[w] < Stock
  /\ ~KeySeen(w)
  /\ Goto(w, "flushed")
  /\ UNCHANGED <<routeVars, jobVars, brokerVars, task, read, result, orderVars>>

\* InsufficientInventoryError.
OutOfStock(w) ==
  /\ step[w] = "locked"
  /\ read[w] = Stock
  /\ Goto(w, "failed")
  /\ UNCHANGED <<routeVars, jobVars, brokerVars, task, read, result, orderVars>>

\* A concurrent task has stored the key since it was looked up.
KeyTaken(w) ==
  /\ step[w] = "locked"
  /\ read[w] < Stock
  /\ KeySeen(w)
  /\ Goto(w, "failed")
  /\ UNCHANGED <<routeVars, jobVars, brokerVars, task, read, result, orderVars>>

AddOrder(w) ==
  /\ orders' = Append(orders, [job |-> task[w], key |-> key[task[w]]])
  /\ reserved' = read[w] + 1

\* Wrong: a use case that has succeeded is run again.
CommitOrderAgain(w) ==
  /\ step[w] = "flushed"
  /\ AddOrder(w)
  /\ Goto(w, "running")
  /\ UNCHANGED <<routeVars, jobVars, brokerVars, task, read, result>>

\* The commit makes the order and the row visible and frees the row.
CommitOrder(w) ==
  /\ step[w] = "flushed"
  /\ AddOrder(w)
  /\ result' = [result EXCEPT ![w] = Len(orders) + 1]
  /\ Goto(w, "created")
  /\ UNCHANGED <<routeVars, jobVars, brokerVars, task, read>>

InUseCase(w) == step[w] \in {"running", "missed", "locked", "flushed"}

\* Wrong: what the use case wrote is committed although it raised.
OrderFailsCommitted(w) ==
  /\ step[w] = "flushed"
  /\ AddOrder(w)
  /\ Goto(w, "failed")
  /\ UNCHANGED <<routeVars, jobVars, brokerVars, task, read, result>>

\* The use case or its commit raises for another reason, a product that is
\* inactive or a lost connection: closing the session rolls back.
OrderFails(w) ==
  /\ InUseCase(w)
  /\ Goto(w, "failed")
  /\ UNCHANGED <<routeVars, jobVars, brokerVars, task, read, result, orderVars>>

-----------------------------------------------------------------------------
(* process_order, once the use case is over.                               *)

\* Wrong: the order id is not written to the job.
CompleteUnnamed(w) ==
  /\ step[w] = "created"
  /\ status' = [status EXCEPT ![task[w]] = "COMPLETED"]
  /\ Stop(w)
  /\ UNCHANGED <<routeVars, orderOf, brokerVars, orderVars>>

\* COMPLETED with the order id the use case answered.
Complete(w) ==
  /\ step[w] = "created"
  /\ status' = [status EXCEPT ![task[w]] = "COMPLETED"]
  /\ orderOf' = [orderOf EXCEPT ![task[w]] = result[w]]
  /\ Stop(w)
  /\ UNCHANGED <<routeVars, brokerVars, orderVars>>

\* The order is committed and something after that raises, be it the
\* acknowledgement of the commit, the disposal of the engine or the update of
\* the job: the except branch runs.
CompleteFails(w) ==
  /\ "database" \in Faults
  /\ step[w] = "created"
  /\ Goto(w, "failed")
  /\ disturbed' = disturbed \cup {task[w]}
  /\ UNCHANGED <<routeVars, jobVars, queue, restores, task, read, result, orderVars>>

RecordFailure(w) ==
  /\ step[w] = "failed"
  /\ status' = [status EXCEPT ![task[w]] = "FAILED"]
  /\ Stop(w)
  /\ UNCHANGED <<routeVars, orderOf, brokerVars, orderVars>>

\* The first or the last update of the job raises: the task is over and the
\* job keeps the status it had.
TaskLost(w) ==
  /\ "database" \in Faults
  /\ step[w] \in {"fetched", "failed"}
  /\ Stop(w)
  /\ disturbed' = disturbed \cup {task[w]}
  /\ UNCHANGED <<routeVars, jobVars, queue, restores, orderVars>>

\* A worker dies: a message it had not acknowledged comes back, a task it had
\* started is gone, and the server rolls back what it had not committed.
WorkerDies(w) ==
  /\ "worker" \in Faults
  /\ step[w] # "idle"
  /\ queue' = IF step[w] = "fetched" THEN [queue EXCEPT ![task[w]] = @ + 1] ELSE queue
  /\ Stop(w)
  /\ disturbed' = disturbed \cup {task[w]}
  /\ UNCHANGED <<routeVars, jobVars, restores, orderVars>>

-----------------------------------------------------------------------------
Work(w) ==
  \/ \E j \in Job : Fetch(w, j)
  \/ MarkProcessing(w)
  \/ ReplayOrder(w) \/ MissKey(w) \/ LockStock(w)
  \/ SaveOrder(w) \/ OutOfStock(w) \/ KeyTaken(w) \/ CommitOrder(w)
  \/ Complete(w) \/ RecordFailure(w)

Quiet ==
  /\ \A j \in Job : route[j] \in {"accepted", "error"} /\ queue[j] = 0
  /\ \A w \in Worker : step[w] = "idle"

Rest == Quiet /\ UNCHANGED vars

Next ==
  \/ \E j \in Job : StoreJob(j) \/ Dispatch(j) \/ DispatchFails(j) \/ DispatchUnanswered(j)
  \/ \E w \in Worker :
       \/ Work(w)
       \/ Restore(w) \/ OrderFails(w) \/ CompleteFails(w) \/ TaskLost(w) \/ WorkerDies(w)
  \/ Rest

Spec == Init /\ [][Next]_vars

\* A handler that has stored its job goes on, a live worker keeps fetching
\* and working, the server grants a free row, and the queue is a list in
\* Redis, served from its head: while workers keep fetching, no message waits
\* for ever.
FairSpec ==
  /\ Spec
  /\ \A j \in Job : WF_vars(Dispatch(j))
  /\ \A w \in Worker : WF_vars(Work(w))
  /\ \A j \in Job : SF_vars(\E w \in Worker : Fetch(w, j))

-----------------------------------------------------------------------------
(* Safety, whatever fails and however often a message is delivered.        *)

Ended(j) == status[j] \in {"COMPLETED", "FAILED"}

\* A completed job names a committed order: its own, or the one the same
\* idempotency key created.
CompletedNamesOrder ==
  \A j \in Job : status[j] = "COMPLETED" =>
    /\ orderOf[j] \in DOMAIN orders
    /\ \/ orders[orderOf[j]].job = j
       \/ orders[orderOf[j]].key = key[j] /\ key[j] # NoKey

\* With an idempotency key there is one order, however often the client
\* retries and the broker redelivers.
OneOrderPerKey ==
  \A m, n \in DOMAIN orders : (orders[m].key = orders[n].key /\ orders[m].key # NoKey) => m = n

\* A client that sent a key and polls its job is never shown another order
\* than before, also when a redelivered message runs the task again
\* (process_order overwrites jobs.order_id each time).
KeyedAnswerIsStable ==
  [][\A j \in Job : (key[j] # NoKey /\ orderOf[j] # 0) => orderOf'[j] = orderOf[j]]_vars

\* No order exists for a job that still looks untouched.
OrdersAreTracked ==
  \A n \in DOMAIN orders : status[orders[n].job] \notin {"absent", "PENDING"}

\* The committed orders, as rows of the abstract ledger: each takes one unit of
\* what the committed row says is reserved.
OneUnit == [p \in {"units"} |-> 1]

NothingOrdered == [key |-> NoKey, amount |-> [p \in {"units"} |-> 0]]

LedgerRows ==
  [n \in 1 .. Stock |-> IF n \in DOMAIN orders
                         THEN [key |-> orders[n].key, amount |-> OneUnit]
                         ELSE NothingOrdered]

Ledger == INSTANCE OrderLedger WITH
  Order <- 1 .. Stock, NoOrder <- NothingOrdered, Product <- {"units"}, Amount <- {OneUnit},
  Quantity <- [p \in {"units"} |-> Stock], orders <- LedgerRows,
  reserved <- [p \in {"units"} |-> reserved]

\* Jobs, redeliveries and dying workers included, the asynchronous path is the
\* same ledger of orders as POST /orders: the row counts the orders, never more
\* than the stock, and there is one order for each key, although the key is
\* looked up before the row is locked and the order is committed steps later.
ImplementsLedger == Ledger!LedgerSpec

-----------------------------------------------------------------------------
(* What makes the invariants inductive.                                    *)

\* Only stored jobs are queued, worked on or out of the status "absent".
JobsAreStored ==
  /\ \A j \in Job : status[j] = "absent" <=> route[j] = "idle"
  /\ \A j \in Job : queue[j] > 0 => route[j] # "idle"
  /\ \A w \in Worker : step[w] # "idle" => task[w] \in Job /\ route[task[w]] # "idle"

Touched(j) == status[j] \notin {"absent", "PENDING"}

\* A worker past its first transaction has marked its job.
WorkIsMarked == \A w \in Worker : step[w] \notin {"idle", "fetched"} => Touched(task[w])

\* One worker at a time is between the lock and the commit; what it has read
\* is the committed row, and what it has found free is still free.
StockIsOwned ==
  /\ reserved = Len(orders)
  /\ \A v, w \in Worker : HoldsStock(v) /\ HoldsStock(w) => v = w
  /\ \A w \in Worker : HoldsStock(w) => read[w] = reserved
  /\ \A w \in Worker : step[w] = "flushed" => read[w] < Stock /\ ~KeySeen(w)

\* Order n is an answer for job j: it has the job's key or, without one, it
\* was created for it.
Answers(j, n) ==
  /\ n \in DOMAIN orders
  /\ orders[n].key = key[j]
  /\ key[j] = NoKey => orders[n].job = j

AnswersAreNamed ==
  /\ \A w \in Worker : step[w] = "created" => Answers(task[w], result[w])
  /\ \A j \in Job : orderOf[j] # 0 => Touched(j) /\ Answers(j, orderOf[j])
  /\ \A j \in Job : status[j] = "COMPLETED" => orderOf[j] # 0

AsyncIInv ==
  /\ TypeOK
  /\ JobsAreStored
  /\ WorkIsMarked
  /\ StockIsOwned
  /\ AnswersAreNamed
  /\ OrdersAreTracked
  /\ OneOrderPerKey

-----------------------------------------------------------------------------
(* What holds for a job no fault has befallen, whatever happens to the      *)
(* others: a fault is a redelivery, a worker's death, an update that raises. *)

\* An undisturbed job creates at most one order, key or no key.
OneOrderPerJob ==
  \A m, n \in DOMAIN orders :
    (orders[m].job = orders[n].job /\ orders[m].job \notin disturbed) => m = n

\* FAILED tells the client of an undisturbed job that there is no order.
FailedMeansNoOrder ==
  \A j \in Job \ disturbed : status[j] = "FAILED" => \A n \in DOMAIN orders : orders[n].job # j

\* docs/architecture-evolution.md: PENDING, then PROCESSING, then COMPLETED or
\* FAILED, and no way back.
JobLifecycle ==
  [][\A j \in Job \ disturbed : status'[j] # status[j] =>
       <<status[j], status'[j]>> \in
         { <<"absent", "PENDING">>, <<"PENDING", "PROCESSING">>,
           <<"PROCESSING", "COMPLETED">>, <<"PROCESSING", "FAILED">> }]_vars

\* An undisturbed job whose id a client was given ends, and stays ended: the
\* faults of other jobs and the workers they cost do not hold it up.
JobsFinish ==
  \A j \in Job : route[j] = "accepted" ~> [](Ended(j) \/ j \in disturbed)

\* docs/validation-guide.md: GET /jobs/{job_id} eventually shows the result.
EveryJobFinishes == \A j \in Job : route[j] = "accepted" ~> []Ended(j)

-----------------------------------------------------------------------------
(* What makes those inductive: an undisturbed job passes once from the route *)
(* through the queue to one worker.                                          *)

Unordered(j) == \A n \in DOMAIN orders : orders[n].job # j

Has(w, j) == step[w] # "idle" /\ task[w] = j

Unworked(j) == \A w \in Worker : ~Has(w, j)

Sent(j) == route[j] \in {"accepted", "error"}

PassesOnce(j) ==
  /\ queue[j] # 0 => queue[j] = 1 /\ Sent(j) /\ status[j] = "PENDING" /\ Unworked(j)
  /\ ~Sent(j) => queue[j] = 0 /\ Unworked(j) /\ ~Touched(j)
  /\ Ended(j) => queue[j] = 0 /\ Unworked(j)
  /\ \A v, w \in Worker : Has(v, j) /\ Has(w, j) => v = w
  /\ \A w \in Worker : Has(w, j) =>
       /\ status[j] = IF step[w] = "fetched" THEN "PENDING" ELSE "PROCESSING"
       /\ step[w] # "created" => Unordered(j)

UndisturbedIInv ==
  /\ \A j \in Job \ disturbed : PassesOnce(j)
  /\ OneOrderPerJob
  /\ FailedMeansNoOrder
=============================================================================
