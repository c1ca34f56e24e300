---------------------------- MODULE HealthCheck ----------------------------
(***************************************************************************)
(* GET /health beside order placement.  A load balancer calls it again and *)
(* again; each call asks the database for a row, on a connection of the    *)
(* pool that the orders use, and then pings Redis.                         *)
(***************************************************************************)
EXTENDS ConnectionPool

CONSTANTS
  Probe,        \* calls to /health that may run at the same time
  Unreliable    \* which of "database" and "redis" may fail

ASSUME HealthAssumption == Unreliable \subseteq {"database", "redis"}

VARIABLES
  check,     \* what each probe is doing: nothing, or the check it is at
  probing,   \* probes that hold a connection
  passed,    \* probes whose database check is "ok"
  answer     \* the last answer of each: 200 is healthy, 503 degraded

probeVars == <<check, probing, passed, answer>>
healthVars == <<poolVars, probeVars>>

HealthTypeOK ==
  /\ check \in [Probe -> {"none", "database", "redis"}]
  /\ probing \subseteq Probe
  /\ passed \subseteq Probe
  /\ answer \in [Probe -> {"none", "healthy", "degraded"}]

HealthInit ==
  /\ PooledInit
  /\ check = [h \in Probe |-> "none"]
  /\ probing = {}
  /\ passed = {}
  /\ answer = [h \in Probe |-> "none"]

-----------------------------------------------------------------------------
(* The probe.                                                              *)

Goes(h, c) == check' = [check EXCEPT ![h] = c]

InUse == Cardinality(connected) + Cardinality(probing)

StartProbe(h) ==
  /\ check[h] = "none"
  /\ Goes(h, "database")
  /\ passed' = passed \ {h}
  /\ answer' = [answer EXCEPT ![h] = "none"]
  /\ UNCHANGED <<poolVars, probing>>

Connect(h) ==
  /\ check[h] = "database"
  /\ h \notin probing
  /\ InUse < PoolSize
  /\ probing' = probing \cup {h}
  /\ UNCHANGED <<poolVars, check, passed, answer>>

\* Wrong: the session stays open until the answer.
SelectOneKeeping(h) ==
  /\ check[h] = "database"
  /\ h \in probing
  /\ passed' = passed \cup {h}
  /\ Goes(h, "redis")
  /\ UNCHANGED <<poolVars, probing, answer>>

\* SELECT 1, and the session is closed before Redis is asked.
SelectOne(h) ==
  /\ check[h] = "database"
  /\ h \in probing
  /\ probing' = probing \ {h}
  /\ passed' = passed \cup {h}
  /\ Goes(h, "redis")
  /\ UNCHANGED <<poolVars, answer>>

\* No connection in time, or the query raises: the check is an "error" and
\* the probe goes on.
SelectFails(h) ==
  /\ "database" \in Unreliable
  /\ check[h] = "database"
  /\ probing' = probing \ {h}
  /\ Goes(h, "redis")
  /\ UNCHANGED <<poolVars, passed, answer>>

Respond(h, ok) ==
  /\ Goes(h, "none")
  /\ answer' = [answer EXCEPT ![h] = IF ok THEN "healthy" ELSE "degraded"]
  /\ UNCHANGED <<poolVars, probing, passed>>

Ping(h) == check[h] = "redis" /\ Respond(h, h \in passed)

PingFails(h) == check[h] = "redis" /\ "redis" \in Unreliable /\ Respond(h, FALSE)

-----------------------------------------------------------------------------
(* The orders, on what the probes leave of the pool.                       *)

ServeOrder(s) ==
  \/ Begin(s) /\ UNCHANGED connected
  \/ InUse < PoolSize /\ Acquire(s)
  \/ ServePooled(s)
  \/ (Fail(s) \/ CommitUnacknowledged(s)) /\ GiveBack(s)

\* Wrong: a request that found no connection is taken up again from the start.
OrderIsRequeued(s) ==
  /\ s \in Failing
  /\ NeedsConnection(s)
  /\ InUse >= PoolSize
  /\ Goto(s, "idle")
  /\ UNCHANGED <<rowsVars, request, todo, result, response, orderVars, connected>>

\* The wait for a connection times out, which also probes may be the reason for.
OrderTimesOut(s) ==
  /\ s \in Failing
  /\ NeedsConnection(s)
  /\ InUse >= PoolSize
  /\ Abort(s, "error")
  /\ UNCHANGED connected

HealthNext ==
  \/ \E h \in Probe :
       StartProbe(h) \/ Connect(h) \/ SelectOne(h) \/ SelectFails(h) \/ Ping(h) \/ PingFails(h)
  \/ \E s \in Session : (ServeOrder(s) \/ OrderTimesOut(s)) /\ UNCHANGED probeVars
  \/ Terminating /\ UNCHANGED <<connected, probeVars>>

HealthSpec == HealthInit /\ [][HealthNext]_healthVars

\* The pool serves its waiting tasks in turn, so that probes without end starve
\* nobody, hence SF.  Redis may never answer and nothing times out.
FairHealth ==
  /\ HealthSpec
  /\ \A s \in Session :
       /\ SF_healthVars(InUse < PoolSize /\ Acquire(s) /\ UNCHANGED probeVars)
       /\ WF_healthVars(ServePooled(s) /\ UNCHANGED probeVars)
  /\ \A h \in Probe : SF_healthVars(Connect(h)) /\ WF_healthVars(SelectOne(h))

-----------------------------------------------------------------------------
(* Properties.                                                             *)

\* Orders and probes together never have more connections than the engine
\* allows (database.py: pool_size, max_overflow).
PoolIsShared == InUse <= PoolSize

\* A probe that waits for Redis holds no connection.
ProbesWaitEmptyHanded == \A h \in probing : check[h] = "database"

\* What a probe answers of the database, it has found out itself.
ChecksAreFresh == \A h \in passed : check[h] # "database"

\* With the facts that make them inductive.
HealthIInv ==
  /\ HealthTypeOK
  /\ IsFiniteSet(connected) /\ IsFiniteSet(probing)
  /\ PoolIsShared
  /\ ProbesWaitEmptyHanded
  /\ ChecksAreFresh

\* The probes cost the orders connections and nothing else.
ImplementsPool == PooledSpec

\* Every request finishes although the load balancer never stops to probe and
\* Redis never answers a probe.
OrdersFinishBesideProbes == \A s \in Session : pc[s] = "key" ~> pc[s] = "done"

\* The database check of a probe ends although the pool is full of sessions
\* that wait for one another's rows.
ProbesAreServed == \A h \in Probe : check[h] = "database" ~> check[h] = "redis"
=============================================================================
