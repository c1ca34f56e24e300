-------------------------- MODULE AsyncJobsProofs --------------------------
(***************************************************************************)
(* Proofs about asynchronous orders, for any jobs, workers, keys and       *)
(* stock, any number of redeliveries and whichever parts fail.             *)
(***************************************************************************)
EXTENDS AsyncJobs, TLAPS

LEMMA AsyncInit == Init => AsyncIInv
  BY AsyncAssumption DEF Init, AsyncIInv, TypeOK, JobsAreStored, WorkIsMarked, StockIsOwned, HoldsStock,
     AnswersAreNamed, OrdersAreTracked, OneOrderPerKey, Touched, Answers

\* Orders are only ever added, at the end, and the stock a worker has found
\* under the lock is there when it commits.
LEMMA OrdersGrow ==
  ASSUME AsyncIInv, NEW w \in Worker, CommitOrder(w)
  PROVE  /\ Len(orders') = Len(orders) + 1 /\ reserved' = reserved + 1 /\ reserved' = Len(orders')
         /\ Len(orders) \in Nat /\ Len(orders') \in 1 .. Stock
         /\ orders' \in Seq(Order)
         /\ DOMAIN orders = 1 .. Len(orders) /\ DOMAIN orders' = 1 .. Len(orders')
         /\ \A n \in DOMAIN orders : orders'[n] = orders[n]
         /\ orders'[Len(orders) + 1] = [job |-> task[w], key |-> key[task[w]]]
<1>1. orders \in Seq(Order) /\ [job |-> task[w], key |-> key[task[w]]] \in Order
  BY DEF AsyncIInv, TypeOK, JobsAreStored, CommitOrder, Order
<1>2. /\ read[w] < Stock /\ read[w] = reserved /\ reserved = Len(orders)
      /\ reserved' = read[w] + 1
      /\ orders' = Append(orders, [job |-> task[w], key |-> key[task[w]]])
  BY DEF CommitOrder, AddOrder, AsyncIInv, StockIsOwned, HoldsStock
<1>3. Len(orders) < Stock /\ Len(orders) \in Nat /\ Stock \in Nat
  BY <1>1, <1>2, AsyncAssumption
<1> QED
  BY <1>1, <1>2, <1>3

\* Steps that neither take the row nor add an order leave it owned as it was.
LEMMA StockStaysOwned ==
  ASSUME StockIsOwned, TypeOK, UNCHANGED <<orders, reserved>>,
         \A j \in Job : route[j] # "idle" => key'[j] = key[j],
         \A v \in Worker : HoldsStock(v)' =>
           /\ step'[v] = step[v] /\ task'[v] = task[v] /\ read'[v] = read[v]
           /\ task[v] \in Job /\ route[task[v]] # "idle"
  PROVE  StockIsOwned'
<1>1. \A v \in Worker : HoldsStock(v)' => HoldsStock(v)
  BY DEF HoldsStock
<1>2. \A v \in Worker : step'[v] = "flushed" => (KeySeen(v)' <=> KeySeen(v))
  BY DEF HoldsStock, KeySeen
<1>3. \A v \in Worker : step'[v] = "flushed" => HoldsStock(v)'
  BY DEF HoldsStock
<1> QED
  BY <1>1, <1>2, <1>3 DEF StockIsOwned

\* The route stores its job and sends it.
LEMMA RouteKeepsIInv ==
  ASSUME AsyncIInv, NEW j \in Job,
         StoreJob(j) \/ Dispatch(j) \/ DispatchFails(j) \/ DispatchUnanswered(j)
  PROVE  AsyncIInv'
<1>1. UNCHANGED <<workerVars, orderVars>>
      /\ \A i \in Job : route[i] # "idle" => key'[i] = key[i]
  BY DEF StoreJob, Dispatch, DispatchFails, DispatchUnanswered, AsyncIInv, TypeOK, workerVars, orderVars
<1>2. StockIsOwned'
  BY <1>1, StockStaysOwned DEF AsyncIInv, JobsAreStored, HoldsStock, workerVars, orderVars
<1> USE AsyncAssumption DEF AsyncIInv, TypeOK, JobsAreStored, WorkIsMarked, AnswersAreNamed,
            OrdersAreTracked, OneOrderPerKey, Touched, Answers,
            routeVars, jobVars, brokerVars, faultVars, workerVars, orderVars
<1>3. CASE StoreJob(j)
  BY <1>2, <1>3 DEF StoreJob
<1>4. CASE Dispatch(j)
  BY <1>2, <1>4 DEF Dispatch
<1>5. CASE DispatchFails(j)
  BY <1>2, <1>5 DEF DispatchFails
<1>6. CASE DispatchUnanswered(j)
  BY <1>2, <1>6 DEF DispatchUnanswered
<1> QED
  BY <1>3, <1>4, <1>5, <1>6

\* A worker commits an order: it answers its job, its key was new when it was
\* inserted and no other worker can have stored it since.
LEMMA CommitKeepsIInv ==
  ASSUME AsyncIInv, NEW w \in Worker, CommitOrder(w)
  PROVE  AsyncIInv'
<1>1. PICK N \in 1 .. Stock :
        /\ N = Len(orders) + 1 /\ Len(orders') = N /\ reserved' = N
        /\ DOMAIN orders = 1 .. N - 1 /\ DOMAIN orders' = 1 .. N
        /\ \A n \in DOMAIN orders : orders'[n] = orders[n]
        /\ orders'[N] = [job |-> task[w], key |-> key[task[w]]]
        /\ orders' \in Seq(Order)
  BY OrdersGrow
<1> USE AsyncAssumption DEF AsyncIInv
<1>2. step[w] = "flushed" /\ task[w] \in Job /\ Touched(task[w]) /\ ~KeySeen(w)
  BY DEF CommitOrder, JobsAreStored, WorkIsMarked, StockIsOwned
<1>3. TypeOK'
  BY <1>1 DEF CommitOrder, Goto, TypeOK, routeVars, jobVars, brokerVars, faultVars
<1>4. JobsAreStored' /\ WorkIsMarked'
  BY <1>2 DEF CommitOrder, Goto, TypeOK, JobsAreStored, WorkIsMarked, Touched,
              routeVars, jobVars, brokerVars, faultVars
<1>5. StockIsOwned'
  <2>1. \A v \in Worker : step'[v] = IF v = w THEN "created" ELSE step[v]
    BY DEF CommitOrder, Goto, TypeOK
  <2>2. \A v \in Worker : ~HoldsStock(v)'
    BY <1>2, <2>1 DEF HoldsStock, StockIsOwned
  <2> QED
    BY <1>1, <2>2 DEF StockIsOwned, HoldsStock
<1>6. AnswersAreNamed'
  <2>1. \A j \in Job, n \in DOMAIN orders : Answers(j, n) => Answers(j, n)'
    BY <1>1 DEF Answers, CommitOrder, routeVars
  <2>2. Answers(task[w], N)'
    BY <1>1, <1>2 DEF Answers, CommitOrder, routeVars
  <2>3. \A v \in Worker : step'[v] = "created" => Answers(task[v], result[v])'
    BY <1>1, <2>1, <2>2 DEF AnswersAreNamed, Answers, CommitOrder, Goto, TypeOK, JobsAreStored
  <2>4. \A j \in Job : orderOf[j] # 0 => orderOf[j] \in DOMAIN orders /\ Touched(j) /\ Answers(j, orderOf[j])
    BY DEF AnswersAreNamed, Answers
  <2>5. UNCHANGED <<status, orderOf>>
    BY DEF CommitOrder, jobVars
  <2>6. \A j \in Job : orderOf'[j] # 0 => Touched(j)' /\ Answers(j, orderOf[j])'
    BY <2>1, <2>4, <2>5 DEF Touched
  <2>7. \A j \in Job : status'[j] = "COMPLETED" => orderOf'[j] # 0
    BY <2>5 DEF AnswersAreNamed
  <2> QED
    BY <2>3, <2>5, <2>6, <2>7 DEF AnswersAreNamed, Answers
<1>7. OrdersAreTracked'
  BY <1>1, <1>2 DEF OrdersAreTracked, Touched, CommitOrder, jobVars
<1>8. OneOrderPerKey'
  BY <1>1, <1>2 DEF OneOrderPerKey, KeySeen
<1> QED
  BY <1>3, <1>4, <1>5, <1>6, <1>7, <1>8

\* A worker takes the row that nobody holds, or finds the key unused.
LEMMA LockKeepsIInv ==
  ASSUME AsyncIInv, NEW w \in Worker, LockStock(w) \/ SaveOrder(w)
  PROVE  AsyncIInv'
<1>1. TypeOK' /\ JobsAreStored' /\ WorkIsMarked' /\ AnswersAreNamed' /\ OrdersAreTracked' /\ OneOrderPerKey'
  <2>1. PICK s \in {"locked", "flushed"} :
          /\ Goto(w, s) /\ step[w] \in {"missed", "locked"}
          /\ read' \in [Worker -> 0 .. Stock]
          /\ UNCHANGED <<routeVars, jobVars, brokerVars, task, result, orderVars>>
    BY DEF LockStock, SaveOrder, AsyncIInv, TypeOK
  <2>2. \A v \in Worker : step'[v] = IF v = w THEN s ELSE step[v]
    BY <2>1 DEF Goto, AsyncIInv, TypeOK
  <2>3. TypeOK'
    BY <2>1 DEF Goto, AsyncIInv, TypeOK, routeVars, jobVars, brokerVars, faultVars, orderVars
  <2>4. JobsAreStored' /\ WorkIsMarked'
    BY <2>1, <2>2 DEF AsyncIInv, JobsAreStored, WorkIsMarked, Touched,
       routeVars, jobVars, brokerVars, faultVars
  <2>5. AnswersAreNamed' /\ OrdersAreTracked' /\ OneOrderPerKey'
    BY <2>1, <2>2 DEF AsyncIInv, AnswersAreNamed, OrdersAreTracked, OneOrderPerKey, Touched, Answers,
       routeVars, jobVars, orderVars
  <2> QED
    BY <2>3, <2>4, <2>5
<1>2. UNCHANGED <<orders, reserved, task, key>>
  BY DEF LockStock, SaveOrder, routeVars, orderVars
<1>3. CASE LockStock(w)
  <2>1. /\ \A v \in Worker : step'[v] = IF v = w THEN "locked" ELSE step[v]
        /\ read'[w] = reserved
        /\ \A v \in Worker : ~HoldsStock(v)
    BY <1>3 DEF LockStock, Goto, AsyncIInv, TypeOK
  <2> QED
    BY <1>1, <1>2, <2>1 DEF AsyncIInv, StockIsOwned, HoldsStock
<1>4. CASE SaveOrder(w)
  <2>1. /\ \A v \in Worker : step'[v] = IF v = w THEN "flushed" ELSE step[v]
        /\ step[w] = "locked" /\ read[w] < Stock /\ ~KeySeen(w) /\ read' = read
    BY <1>4 DEF SaveOrder, Goto, AsyncIInv, TypeOK
  <2>2. \A v \in Worker : (HoldsStock(v)' <=> HoldsStock(v)) /\ (KeySeen(v)' <=> KeySeen(v))
    BY <1>2, <2>1 DEF HoldsStock, KeySeen
  <2>3. StockIsOwned
    BY DEF AsyncIInv
  <2> QED
    BY <1>1, <1>2, <2>1, <2>2, <2>3 DEF AsyncIInv, StockIsOwned
<1> QED
  BY <1>3, <1>4

\* Every other step of a worker or of the broker leaves orders and row alone.
LEMMA WorkKeepsIInv ==
  ASSUME AsyncIInv, NEW w \in Worker,
         \/ \E j \in Job : Fetch(w, j)
         \/ Restore(w) \/ MarkProcessing(w) \/ ReplayOrder(w) \/ MissKey(w) \/ OutOfStock(w) \/ KeyTaken(w)
         \/ OrderFails(w) \/ Complete(w) \/ CompleteFails(w) \/ RecordFailure(w) \/ TaskLost(w)
         \/ WorkerDies(w)
  PROVE  AsyncIInv'
<1>1. /\ UNCHANGED <<orders, reserved, key>>
      /\ \A v \in Worker : v # w => step'[v] = step[v] /\ task'[v] = task[v] /\ read'[v] = read[v]
      /\ HoldsStock(w)' => UNCHANGED <<step, task, read>>
  BY DEF Fetch, Restore, MarkProcessing, ReplayOrder, MissKey, OutOfStock, KeyTaken, OrderFails, Complete,
     CompleteFails, RecordFailure, TaskLost, WorkerDies, HoldsStock, AsyncIInv, TypeOK,
     routeVars, workerVars, orderVars, Goto, Stop
<1>2. StockIsOwned'
  <2>1. \A v \in Worker : HoldsStock(v)' =>
          /\ step'[v] = step[v] /\ task'[v] = task[v] /\ read'[v] = read[v]
          /\ task[v] \in Job /\ route[task[v]] # "idle"
    BY <1>1 DEF HoldsStock, AsyncIInv, JobsAreStored
  <2> QED
    BY <1>1, <2>1, StockStaysOwned DEF AsyncIInv
<1> USE AsyncAssumption, <1>2 DEF AsyncIInv, TypeOK, JobsAreStored, WorkIsMarked, AnswersAreNamed,
            OrdersAreTracked, OneOrderPerKey, Touched, Answers,
            routeVars, jobVars, brokerVars, faultVars, workerVars, orderVars, Goto, Stop
<1>3. CASE \E j \in Job : Fetch(w, j)
  <2>1. PICK j \in Job : Fetch(w, j)
    BY <1>3
  <2> USE <2>1 DEF Fetch
  <2>2. TypeOK'
    OBVIOUS
  <2>3. JobsAreStored' /\ WorkIsMarked'
    OBVIOUS
  <2>4. AnswersAreNamed' /\ OrdersAreTracked' /\ OneOrderPerKey'
    OBVIOUS
  <2> QED
    BY <2>2, <2>3, <2>4
<1>4. CASE Restore(w)
  BY <1>4 DEF Restore
<1>5. CASE MarkProcessing(w)
  BY <1>5 DEF MarkProcessing
<1>6. CASE ReplayOrder(w)
  <2> USE <1>6 DEF ReplayOrder
  <2>1. TypeOK'
    OBVIOUS
  <2>2. JobsAreStored' /\ WorkIsMarked'
    OBVIOUS
  <2>3. AnswersAreNamed' /\ OrdersAreTracked' /\ OneOrderPerKey'
    OBVIOUS
  <2> QED
    BY <2>1, <2>2, <2>3
<1>7. CASE MissKey(w) \/ OutOfStock(w) \/ KeyTaken(w) \/ OrderFails(w)
  <2>1. PICK s \in {"missed", "failed"} :
          /\ step' = [step EXCEPT ![w] = s] /\ step[w] \notin {"idle", "fetched"}
          /\ UNCHANGED <<routeVars, jobVars, brokerVars, task, read, result, orderVars>>
    BY <1>7 DEF MissKey, OutOfStock, KeyTaken, OrderFails, InUseCase
  <2>2. TypeOK'
    BY <2>1
  <2>3. JobsAreStored' /\ WorkIsMarked'
    BY <2>1
  <2>4. AnswersAreNamed' /\ OrdersAreTracked' /\ OneOrderPerKey'
    BY <2>1
  <2> QED
    BY <2>2, <2>3, <2>4
<1>8. CASE Complete(w)
  BY <1>8 DEF Complete
<1>9. CASE CompleteFails(w)
  BY <1>9 DEF CompleteFails
<1>10. CASE RecordFailure(w)
  BY <1>10 DEF RecordFailure
<1>11. CASE TaskLost(w)
  BY <1>11 DEF TaskLost
<1>12. CASE WorkerDies(w)
  BY <1>12 DEF WorkerDies
<1> QED
  BY <1>3, <1>4, <1>5, <1>6, <1>7, <1>8, <1>9, <1>10, <1>11, <1>12

LEMMA AsyncNext == AsyncIInv /\ [Next]_vars => AsyncIInv'
<1>1. ASSUME AsyncIInv, UNCHANGED vars PROVE AsyncIInv'
  BY <1>1 DEF vars, AsyncIInv, TypeOK, JobsAreStored, WorkIsMarked, StockIsOwned, HoldsStock, KeySeen,
     AnswersAreNamed, OrdersAreTracked, OneOrderPerKey, Touched, Answers,
     routeVars, jobVars, brokerVars, faultVars, workerVars, orderVars
<1> QED
  BY <1>1, RouteKeepsIInv, CommitKeepsIInv, LockKeepsIInv, WorkKeepsIInv DEF Next, Work, Rest

-----------------------------------------------------------------------------
\* The inductive invariant: which jobs are stored, marked and answered at each
\* step of the route, the queue and the workers.
THEOREM AsyncInvariant == Spec => []AsyncIInv
  BY AsyncInit, AsyncNext, PTL DEF Spec

\* Jobs, orders and workers keep their types: no more orders than stock.
THEOREM AsyncTypeCorrect == Spec => []TypeOK
<1>1. AsyncIInv => TypeOK  BY DEF AsyncIInv
<1> QED  BY <1>1, AsyncInvariant, PTL

\* A COMPLETED job names a committed order of its own or of its key
\* (process_order: order_id is what the use case answered).
THEOREM CompletedJobsNameOrders == Spec => []CompletedNamesOrder
<1>1. AsyncIInv => CompletedNamesOrder
  BY DEF AsyncIInv, TypeOK, AnswersAreNamed, Answers, CompletedNamesOrder
<1> QED  BY <1>1, AsyncInvariant, PTL

\* An order exists only for a job that was marked PROCESSING, in a transaction
\* of its own, before the use case ran.
THEOREM NoOrderBeforeItsJob == Spec => []OrdersAreTracked
<1>1. AsyncIInv => OrdersAreTracked  BY DEF AsyncIInv
<1> QED  BY <1>1, AsyncInvariant, PTL

\* The order a keyed job shows never changes, although every redelivery
\* overwrites jobs.order_id.
THEOREM KeyedAnswersAreStable == Spec => KeyedAnswerIsStable
<1>1. ASSUME AsyncIInv, AsyncIInv', [Next]_vars, NEW j \in Job, key[j] # NoKey, orderOf[j] # 0
      PROVE  orderOf'[j] = orderOf[j]
  <2>1. Answers(j, orderOf[j])
    BY <1>1 DEF AsyncIInv, AnswersAreNamed
  <2>2. ASSUME NEW w \in Worker, Complete(w), task[w] = j PROVE result[w] = orderOf[j]
    <3>1. Answers(j, result[w])
      BY <1>1, <2>2 DEF AsyncIInv, AnswersAreNamed, Complete
    <3> QED
      BY <1>1, <2>1, <3>1 DEF Answers, AsyncIInv, OneOrderPerKey
  <2>3. ASSUME NEW w \in Worker, Complete(w) PROVE orderOf'[j] = orderOf[j]
    BY <1>1, <2>2, <2>3 DEF Complete, AsyncIInv, TypeOK
  <2> QED
    BY <1>1, <2>3 DEF Next, Work, Rest, vars, jobVars, StoreJob, Dispatch, DispatchFails, DispatchUnanswered,
       Fetch, Restore, MarkProcessing, ReplayOrder, MissKey, LockStock, SaveOrder, OutOfStock, KeyTaken,
       CommitOrder, OrderFails, CompleteFails, RecordFailure, TaskLost, WorkerDies
<1>2. AsyncIInv /\ AsyncIInv' /\ [Next]_vars =>
        [\A j \in Job : (key[j] # NoKey /\ orderOf[j] # 0) => orderOf'[j] = orderOf[j]]_vars
  BY <1>1
<1> QED
  BY <1>2, AsyncInvariant, PTL DEF Spec, KeyedAnswerIsStable

-----------------------------------------------------------------------------
(* What no fault has befallen.                                             *)

LEMMA UndisturbedInit == Init => UndisturbedIInv
  BY DEF Init, UndisturbedIInv, PassesOnce, OneOrderPerJob, FailedMeansNoOrder, Has, Unworked,
     Touched, Ended

\* The order a worker creates is the first of its job, if the job is undisturbed.
LEMMA CommitKeepsUndisturbed ==
  ASSUME AsyncIInv, UndisturbedIInv, NEW w \in Worker, CommitOrder(w)
  PROVE  UndisturbedIInv'
<1>1. PICK N \in 1 .. Stock :
        /\ DOMAIN orders = 1 .. N - 1 /\ DOMAIN orders' = 1 .. N
        /\ \A n \in DOMAIN orders : orders'[n] = orders[n]
        /\ orders'[N] = [job |-> task[w], key |-> key[task[w]]]
  BY OrdersGrow DEF AsyncIInv, TypeOK
<1>2. Has(w, task[w]) /\ task[w] \in Job
  BY DEF CommitOrder, Has, AsyncIInv, JobsAreStored
<1>3. UNCHANGED <<route, queue, status, task, disturbed>>
      /\ \A v \in Worker : step'[v] = IF v = w THEN "created" ELSE step[v]
  BY DEF CommitOrder, Goto, routeVars, jobVars, brokerVars, faultVars, AsyncIInv, TypeOK
<1>4. step[w] = "flushed"
  BY DEF CommitOrder
<1>5. \A j \in Job : j # task[w] => (Unordered(j) => Unordered(j)')
  BY <1>1 DEF Unordered
<1>6. \A v \in Worker, j \in Job : Has(v, j)' <=> Has(v, j)
  BY <1>3, <1>4 DEF Has
<1>7. ASSUME NEW j \in Job \ disturbed, PassesOnce(j) PROVE PassesOnce(j)'
  <2>1. \A v \in Worker : Has(v, j) => v = w \/ task[w] # j
    BY <1>2, <1>7 DEF PassesOnce
  <2>2. Unworked(j)' <=> Unworked(j)
    BY <1>6 DEF Unworked
  <2>3. Touched(j)' = Touched(j) /\ Ended(j)' = Ended(j) /\ Sent(j)' = Sent(j)
    BY <1>3 DEF Touched, Ended, Sent
  <2> QED
    BY <1>2, <1>3, <1>4, <1>5, <1>6, <1>7, <2>1, <2>2, <2>3 DEF PassesOnce
<1>8. task[w] \notin disturbed => Unordered(task[w]) /\ ~Ended(task[w])
  BY <1>2, <1>4 DEF UndisturbedIInv, PassesOnce, Ended
<1>9. OneOrderPerJob' /\ FailedMeansNoOrder'
  BY <1>1, <1>3, <1>8 DEF UndisturbedIInv, OneOrderPerJob, FailedMeansNoOrder, Unordered, Ended
<1> QED
  BY <1>3, <1>7, <1>9 DEF UndisturbedIInv

\* A worker moves on inside its task.
LEMMA MovesKeepPassing ==
  ASSUME TypeOK, NEW w \in Worker, NEW j \in Job, PassesOnce(j),
         UNCHANGED <<route, status, queue, task, orders>>,
         NEW s \in {"running", "missed", "locked", "flushed", "created", "failed"}, Goto(w, s),
         step[w] \notin {"idle", "fetched"},
         Has(w, j) => s = "created" \/ Unordered(j)
  PROVE  PassesOnce(j)'
<1>1. (\A v \in Worker : step'[v] = IF v = w THEN s ELSE step[v]) /\ s \notin {"idle", "fetched"}
  BY DEF Goto, TypeOK
<1>2. \A v \in Worker : Has(v, j)' <=> Has(v, j)
  BY <1>1 DEF Has
<1>3. Unworked(j)' = Unworked(j) /\ Unordered(j)' = Unordered(j)
      /\ Ended(j)' = Ended(j) /\ Touched(j)' = Touched(j) /\ Sent(j)' = Sent(j)
  BY <1>2 DEF Unworked, Unordered, Ended, Touched, Sent
<1> QED
  BY <1>1, <1>2, <1>3 DEF PassesOnce

\* A worker leaves its task: nothing changes for the other jobs.
LEMMA LeavesKeepPassing ==
  ASSUME TypeOK, NEW w \in Worker, NEW j \in Job, PassesOnce(j), j # NoJob,
         Stop(w), ~Has(w, j), UNCHANGED <<route, orders>>,
         status'[j] = status[j], queue'[j] = queue[j]
  PROVE  PassesOnce(j)'
<1>1. /\ \A v \in Worker : step'[v] = IF v = w THEN "idle" ELSE step[v]
      /\ \A v \in Worker : task'[v] = IF v = w THEN NoJob ELSE task[v]
  BY DEF Stop, Goto, TypeOK
<1>2. \A v \in Worker : Has(v, j)' <=> Has(v, j)
  BY <1>1 DEF Has
<1>3. Unworked(j)' = Unworked(j) /\ Unordered(j)' = Unordered(j)
      /\ Ended(j)' = Ended(j) /\ Touched(j)' = Touched(j) /\ Sent(j)' = Sent(j)
  BY <1>2 DEF Unworked, Unordered, Ended, Touched, Sent
<1> QED
  BY <1>1, <1>2, <1>3 DEF PassesOnce, Has

LEMMA OnlyCommitsAddOrders ==
  ASSUME [Next]_vars, \A w \in Worker : ~CommitOrder(w)
  PROVE  UNCHANGED orderVars
  BY DEF Next, Work, Rest, vars, StoreJob, Dispatch, DispatchFails, DispatchUnanswered,
     Fetch, Restore, MarkProcessing, ReplayOrder, MissKey, LockStock, SaveOrder, OutOfStock, KeyTaken,
     OrderFails, Complete, CompleteFails, RecordFailure, TaskLost, WorkerDies

LEMMA OthersKeepUndisturbed ==
  ASSUME AsyncIInv, UndisturbedIInv, [Next]_vars, UNCHANGED orders
  PROVE  UndisturbedIInv'
<1>1. TypeOK /\ JobsAreStored
  BY DEF AsyncIInv
<1>2. \A j \in Job : ~Touched(j) => Unordered(j)
  BY DEF AsyncIInv, OrdersAreTracked, Touched, Unordered
<1>3. \A w \in Worker : ~CommitOrder(w)
  <2>1. Len(orders) \in Nat
    BY <1>1 DEF TypeOK
  <2>2. ASSUME NEW w \in Worker, CommitOrder(w) PROVE FALSE
    <3>1. Len(orders') = Len(orders) + 1
      BY <2>2, OrdersGrow
    <3>2. Len(orders') = Len(orders)
      OBVIOUS
    <3> QED
      BY <2>1, <3>1, <3>2
  <2> QED
    BY <2>2
<1>4. disturbed \subseteq disturbed'
  BY <1>3 DEF Next, Rest, vars, Work, StoreJob, Dispatch, DispatchFails, DispatchUnanswered, Fetch, Restore,
     MarkProcessing, ReplayOrder, MissKey, LockStock, SaveOrder, OutOfStock, KeyTaken, OrderFails, Complete,
     CompleteFails, RecordFailure, TaskLost, WorkerDies,
     brokerVars, faultVars
<1>5. OneOrderPerJob'
  BY <1>4 DEF UndisturbedIInv, OneOrderPerJob
<1>6. ASSUME NEW j \in Job \ disturbed' PROVE PassesOnce(j)'
  <2> DEFINE Frame == UNCHANGED <<route, status, queue, task, orders>>
  <2>1. PassesOnce(j) /\ j \in Job /\ j # NoJob
    BY <1>4, <1>6, AsyncAssumption DEF UndisturbedIInv
  <2>2. ASSUME NEW i \in Job, StoreJob(i) \/ Dispatch(i) \/ DispatchFails(i) \/ DispatchUnanswered(i)
        PROVE  PassesOnce(j)'
    <3>1. UNCHANGED <<step, task, orders>>
      BY <2>2 DEF StoreJob, Dispatch, DispatchFails, DispatchUnanswered, workerVars, orderVars
    <3>2. (\A v \in Worker : Has(v, j)' = Has(v, j)) /\ Unworked(j)' = Unworked(j) /\ Unordered(j)' = Unordered(j)
      BY <3>1 DEF Has, Unworked, Unordered
    <3>3. CASE i # j
      <4>1. route'[j] = route[j] /\ queue'[j] = queue[j] /\ status'[j] = status[j]
        BY <1>1, <2>1, <2>2, <3>3 DEF StoreJob, Dispatch, DispatchFails, DispatchUnanswered, TypeOK,
           jobVars, brokerVars, faultVars
      <4> QED
        BY <2>1, <3>1, <3>2, <4>1 DEF PassesOnce, Sent, Touched, Ended
    <3>4. CASE i = j
      <4>1. ~Sent(j) /\ queue[j] = 0 /\ Unworked(j) /\ ~Touched(j)
        BY <2>1, <2>2, <3>4 DEF StoreJob, Dispatch, DispatchFails, DispatchUnanswered, PassesOnce, Sent
      <4>2. /\ status'[j] = IF StoreJob(j) THEN "PENDING" ELSE status[j]
            /\ Sent(j)' \/ (StoreJob(j) /\ ~Sent(j)')
            /\ queue'[j] \in {0, 1}
            /\ queue'[j] = 1 => Sent(j)' /\ ~StoreJob(j)
            /\ ~StoreJob(j) => route[j] = "stored"
        BY <1>1, <2>1, <2>2, <3>4, <4>1 DEF StoreJob, Dispatch, DispatchFails, DispatchUnanswered, TypeOK, Sent,
           jobVars, brokerVars, faultVars
      <4>3. queue'[j] = 1 => status'[j] = "PENDING"
        BY <1>1, <4>1, <4>2, <2>1 DEF Touched, JobsAreStored, TypeOK
      <4>4. ~Touched(j)' /\ ~Ended(j)'
        BY <4>1, <4>2 DEF Touched, Ended
      <4>5. \A v \in Worker : ~Has(v, j)'
        BY <3>2, <4>1 DEF Unworked
      <4> QED
        BY <3>2, <4>1, <4>2, <4>3, <4>4, <4>5 DEF PassesOnce
    <3> QED
      BY <3>3, <3>4
  <2>3. ASSUME NEW w \in Worker, NEW i \in Job, Fetch(w, i) PROVE PassesOnce(j)'
    <3>1. /\ \A v \in Worker : step'[v] = IF v = w THEN "fetched" ELSE step[v]
          /\ \A v \in Worker : task'[v] = IF v = w THEN i ELSE task[v]
      BY <1>1, <2>3 DEF Fetch, TypeOK
    <3>2. step[w] = "idle" /\ queue[i] # 0 /\ UNCHANGED <<route, status, orders>>
          /\ queue'[j] = IF i = j THEN queue[j] - 1 ELSE queue[j]
      BY <1>1, <2>1, <2>3 DEF Fetch, TypeOK, routeVars, jobVars, orderVars
    <3>3. i = j => Unordered(j) /\ status[j] = "PENDING" /\ ~Ended(j)
      BY <1>2, <2>1, <3>2 DEF PassesOnce, Touched, Ended
    <3> QED
      BY <1>1, <2>1, <3>1, <3>2, <3>3 DEF PassesOnce, Has, Unworked, Unordered, Ended, Touched, Sent
  <2>4. ASSUME NEW w \in Worker, Restore(w) PROVE PassesOnce(j)'
    BY <1>1, <1>6, <2>1, <2>4 DEF Restore, PassesOnce, Has, Unworked, Unordered, Ended, Touched, Sent,
       TypeOK, routeVars, jobVars, workerVars, orderVars
  <2>5. ASSUME NEW w \in Worker, MarkProcessing(w) PROVE PassesOnce(j)'
    <3>1. \A v \in Worker : step'[v] = IF v = w THEN "running" ELSE step[v]
      BY <1>1, <2>5 DEF MarkProcessing, Goto, TypeOK
    <3>2. step[w] = "fetched" /\ UNCHANGED <<route, queue, orders, task>>
          /\ status'[j] = IF task[w] = j THEN "PROCESSING" ELSE status[j]
      BY <1>1, <2>1, <2>5 DEF MarkProcessing, TypeOK, routeVars, jobVars, brokerVars, orderVars
    <3>3. \A v \in Worker : Has(v, j)' <=> Has(v, j)
      BY <3>1, <3>2 DEF Has
    <3>4. Unworked(j)' = Unworked(j) /\ Unordered(j)' = Unordered(j)
      BY <3>2, <3>3 DEF Unworked, Unordered
    <3>5. CASE task[w] = j
      BY <2>1, <3>1, <3>2, <3>3, <3>4, <3>5 DEF PassesOnce, Has, Unworked, Ended, Touched, Sent
    <3>6. CASE task[w] # j
      BY <2>1, <3>1, <3>2, <3>3, <3>4, <3>6 DEF PassesOnce, Has, Ended, Touched, Sent
    <3> QED
      BY <3>5, <3>6
  <2>6. ASSUME NEW w \in Worker,
               \/ ReplayOrder(w) \/ MissKey(w) \/ LockStock(w) \/ SaveOrder(w)
               \/ OutOfStock(w) \/ KeyTaken(w) \/ OrderFails(w) \/ CompleteFails(w)
        PROVE  PassesOnce(j)'
    <3>1. /\ Frame /\ step[w] \notin {"idle", "fetched"}
          /\ step[w] = "created" => CompleteFails(w)
      BY <2>6 DEF ReplayOrder, MissKey, LockStock, SaveOrder, OutOfStock, KeyTaken, OrderFails, CompleteFails,
         InUseCase, routeVars, jobVars, brokerVars, orderVars
    <3>2. Has(w, j) => Unordered(j)
      BY <1>6, <2>1, <3>1 DEF CompleteFails, PassesOnce, Has
    <3>3. PICK s \in {"missed", "locked", "flushed", "created", "failed"} : Goto(w, s)
      BY <2>6 DEF ReplayOrder, MissKey, LockStock, SaveOrder, OutOfStock, KeyTaken, OrderFails, CompleteFails
    <3> QED
      BY <1>1, <2>1, <3>1, <3>2, <3>3, MovesKeepPassing
  <2>7. ASSUME NEW w \in Worker, Complete(w) \/ RecordFailure(w) PROVE PassesOnce(j)'
    <3>1. UNCHANGED <<route, queue, orders>> /\ Stop(w) /\ step[w] # "idle"
          /\ (task[w] # j => status'[j] = status[j])
          /\ (task[w] = j => status'[j] \in {"COMPLETED", "FAILED"})
      BY <1>1, <2>1, <2>7 DEF Complete, RecordFailure, TypeOK, routeVars, brokerVars, orderVars
    <3>2. CASE task[w] # j
      BY <1>1, <2>1, <3>1, <3>2, LeavesKeepPassing DEF Has
    <3>3. CASE task[w] = j
      <4>1. Has(w, j) /\ queue[j] = 0 /\ Sent(j)
        BY <2>1, <3>1, <3>3 DEF Has, PassesOnce, Unworked
      <4>2. \A v \in Worker : ~Has(v, j)'
        BY <1>1, <2>1, <3>1, <4>1 DEF Has, PassesOnce, Stop, Goto, TypeOK
      <4> QED
        BY <3>1, <3>3, <4>1, <4>2 DEF PassesOnce, Unworked, Sent
    <3> QED
      BY <3>2, <3>3
  <2>8. ASSUME NEW w \in Worker, TaskLost(w) \/ WorkerDies(w) PROVE PassesOnce(j)'
    <3>1. UNCHANGED <<route, status, orders>> /\ Stop(w) /\ task[w] # j /\ queue'[j] = queue[j]
      BY <1>1, <1>6, <2>1, <2>8 DEF TaskLost, WorkerDies, TypeOK, routeVars, jobVars, orderVars
    <3> QED
      BY <1>1, <2>1, <3>1, LeavesKeepPassing DEF Has
  <2>9. CASE UNCHANGED vars
    BY <2>1, <2>9 DEF vars, PassesOnce, Has, Unworked, Unordered, Ended, Touched, Sent,
       routeVars, jobVars, brokerVars, workerVars, orderVars
  <2> QED
    BY <1>3, <2>2, <2>3, <2>4, <2>5, <2>6, <2>7, <2>8, <2>9 DEF Next, Work, Rest
<1>7. FailedMeansNoOrder'
  <2>1. SUFFICES ASSUME NEW j \in Job \ disturbed', status'[j] = "FAILED", status[j] # "FAILED"
                 PROVE  Unordered(j)
    BY <1>4 DEF UndisturbedIInv, FailedMeansNoOrder, Unordered
  <2>2. PICK w \in Worker : RecordFailure(w)
    BY <1>1, <1>3, <2>1 DEF Next, Rest, vars, Work, StoreJob, Dispatch, DispatchFails, DispatchUnanswered,
       Fetch, Restore, MarkProcessing, ReplayOrder, MissKey, LockStock, SaveOrder, OutOfStock, KeyTaken,
       OrderFails, Complete, CompleteFails, TaskLost, WorkerDies,
       jobVars, TypeOK
  <2>3. task[w] = j /\ step[w] = "failed"
    BY <1>1, <2>1, <2>2 DEF RecordFailure, TypeOK
  <2> QED
    BY <1>4, <2>1, <2>3 DEF UndisturbedIInv, PassesOnce, Has
<1> QED
  BY <1>5, <1>6, <1>7 DEF UndisturbedIInv

LEMMA UndisturbedNext == AsyncIInv /\ UndisturbedIInv /\ [Next]_vars => UndisturbedIInv'
<1>1. ASSUME [Next]_vars, ~UNCHANGED orders PROVE \E w \in Worker : CommitOrder(w)
  BY <1>1, OnlyCommitsAddOrders DEF orderVars
<1> QED
  BY <1>1, CommitKeepsUndisturbed, OthersKeepUndisturbed

LEMMA UndisturbedInvariant == Spec => []UndisturbedIInv
  BY AsyncInvariant, UndisturbedInit, UndisturbedNext, PTL DEF Spec

\* A job that no fault has befallen creates at most one order, whatever befalls
\* the others (process_order runs once for each message).
THEOREM UndisturbedJobsOrderOnce == Spec => []OneOrderPerJob
<1>1. UndisturbedIInv => OneOrderPerJob  BY DEF UndisturbedIInv
<1> QED  BY <1>1, UndisturbedInvariant, PTL

\* FAILED means that there is no order, for such a job (process_order: the
\* use case raised and its transaction was rolled back).
THEOREM UndisturbedFailureIsTrue == Spec => []FailedMeansNoOrder
<1>1. UndisturbedIInv => FailedMeansNoOrder  BY DEF UndisturbedIInv
<1> QED  BY <1>1, UndisturbedInvariant, PTL

\* Such a job is PENDING, PROCESSING, then COMPLETED or FAILED, and never goes
\* back, although process_order sets each status whatever it was.
THEOREM UndisturbedJobsGoForward == Spec => JobLifecycle
<1>1. ASSUME AsyncIInv, UndisturbedIInv, [Next]_vars, NEW j \in Job \ disturbed, status'[j] # status[j]
      PROVE  <<status[j], status'[j]>> \in
               { <<"absent", "PENDING">>, <<"PENDING", "PROCESSING">>,
                 <<"PROCESSING", "COMPLETED">>, <<"PROCESSING", "FAILED">> }
  <2>1. CASE StoreJob(j)
    BY <1>1, <2>1 DEF StoreJob, AsyncIInv, TypeOK, JobsAreStored
  <2>2. CASE \E w \in Worker : task[w] = j /\ (MarkProcessing(w) \/ Complete(w) \/ RecordFailure(w))
    BY <1>1, <2>2 DEF MarkProcessing, Complete, RecordFailure, AsyncIInv, TypeOK,
       UndisturbedIInv, PassesOnce, Has
  <2>3. ASSUME NEW i \in Job, StoreJob(i) \/ Dispatch(i) \/ DispatchFails(i) \/ DispatchUnanswered(i)
        PROVE  i = j /\ StoreJob(j)
    BY <1>1, <2>3 DEF StoreJob, Dispatch, DispatchFails, DispatchUnanswered, jobVars, AsyncIInv, TypeOK
  <2>4. ASSUME NEW w \in Worker,
               Work(w) \/ Restore(w) \/ OrderFails(w) \/ CompleteFails(w) \/ TaskLost(w) \/ WorkerDies(w)
        PROVE  task[w] = j /\ (MarkProcessing(w) \/ Complete(w) \/ RecordFailure(w))
    <3>1. MarkProcessing(w) \/ Complete(w) \/ RecordFailure(w)
      BY <1>1, <2>4 DEF Work, Fetch, Restore, ReplayOrder, MissKey, LockStock, SaveOrder, OutOfStock, KeyTaken,
         CommitOrder, OrderFails, CompleteFails, TaskLost, WorkerDies, jobVars
    <3> QED
      BY <1>1, <3>1 DEF MarkProcessing, Complete, RecordFailure, AsyncIInv, TypeOK
  <2>5. ~(Rest \/ UNCHANGED vars)
    BY <1>1 DEF Rest, vars, jobVars
  <2> QED
    BY <1>1, <2>1, <2>2, <2>3, <2>4, <2>5 DEF Next
<1>2. AsyncIInv /\ UndisturbedIInv /\ [Next]_vars =>
        [\A j \in Job \ disturbed : status'[j] # status[j] =>
           <<status[j], status'[j]>> \in
             { <<"absent", "PENDING">>, <<"PENDING", "PROCESSING">>,
               <<"PROCESSING", "COMPLETED">>, <<"PROCESSING", "FAILED">> }]_vars
  BY <1>1
<1> QED
  BY <1>2, AsyncInvariant, UndisturbedInvariant, PTL DEF Spec, JobLifecycle

-----------------------------------------------------------------------------
(* The refinement.                                                         *)

LEMMA LedgerStart == Init => Ledger!LedgerInit
  BY DEF Init, Ledger!LedgerInit, LedgerRows

\* The commit is the ledger's step: the stock was read and the key inserted
\* steps before, and both are still what they were since the row is locked.
LEMMA CommitIsPlace ==
  ASSUME AsyncIInv, NEW w \in Worker, CommitOrder(w)
  PROVE  Ledger!LedgerNext
<1>1. PICK N \in 1 .. Stock :
        /\ N = reserved + 1 /\ reserved' = N
        /\ DOMAIN orders = 1 .. N - 1 /\ DOMAIN orders' = 1 .. N
        /\ \A n \in DOMAIN orders : orders'[n] = orders[n]
        /\ orders'[N] = [job |-> task[w], key |-> key[task[w]]]
  BY OrdersGrow DEF AsyncIInv, StockIsOwned
<1>2. PICK k \in Key \cup {NoKey} : k = key[task[w]]
  BY DEF AsyncIInv, TypeOK, JobsAreStored, CommitOrder
<1>3. LedgerRows[N] = NothingOrdered
  BY <1>1 DEF LedgerRows
<1>4. LedgerRows' = [LedgerRows EXCEPT ![N] = [key |-> k, amount |-> OneUnit]]
  <2>1. \A n \in 1 .. Stock :
          LedgerRows'[n] = IF n \in DOMAIN orders'
                           THEN [key |-> orders'[n].key, amount |-> OneUnit]
                           ELSE NothingOrdered
    BY DEF LedgerRows
  <2>2. LedgerRows'[N] = [key |-> k, amount |-> OneUnit]
    BY <1>1, <1>2, <2>1
  <2>3. \A n \in 1 .. Stock : n # N => (n \in DOMAIN orders' <=> n \in DOMAIN orders)
    BY <1>1, AsyncAssumption
  <2>4. \A n \in 1 .. Stock : n # N => LedgerRows'[n] = LedgerRows[n]
    BY <1>1, <2>1, <2>3 DEF LedgerRows
  <2>5. LedgerRows' = [n \in 1 .. Stock |-> LedgerRows'[n]]
        /\ LedgerRows = [n \in 1 .. Stock |-> LedgerRows[n]]
    BY DEF LedgerRows
  <2> HIDE DEF LedgerRows
  <2> QED
    BY <2>2, <2>4, <2>5
<1>5. k # NoKey => Ledger!KeyUnused(k)
  <2>1. ~KeySeen(w)
    BY DEF CommitOrder, AsyncIInv, StockIsOwned
  <2> QED
    BY <1>1, <1>2, <2>1 DEF Ledger!KeyUnused, LedgerRows, KeySeen
<1>6. Ledger!Place(N, k, OneUnit)
  BY <1>1, <1>3, <1>4, <1>5, AsyncAssumption DEF Ledger!Place, OneUnit
<1> QED
  BY <1>1, <1>2, <1>6 DEF Ledger!LedgerNext

\* Jobs, redeliveries and failures included, the asynchronous path implements
\* the ledger of orders.
THEOREM AsyncImplementsLedger == Spec => ImplementsLedger
<1>1. AsyncIInv /\ [Next]_vars => [Ledger!LedgerNext]_(Ledger!ledgerVars)
  <2>1. SUFFICES ASSUME AsyncIInv, [Next]_vars, UNCHANGED orderVars
                 PROVE  UNCHANGED Ledger!ledgerVars
    BY CommitIsPlace, OnlyCommitsAddOrders
  <2> QED
    BY <2>1 DEF Ledger!ledgerVars, LedgerRows, orderVars
<1> QED
  BY <1>1, LedgerStart, AsyncInvariant, PTL DEF Spec, ImplementsLedger, Ledger!LedgerSpec
=============================================================================
