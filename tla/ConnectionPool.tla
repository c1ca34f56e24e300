--------------------------- MODULE ConnectionPool ---------------------------
(***************************************************************************)
(* Order placement on the bounded connection pool of the engine in         *)
(* infrastructure/database.py.  A session takes a connection at its first  *)
(* query, waits for one when all are out, keeps it while it waits for row  *)
(* locks, and gives it back when its transaction ends.  The pool belongs   *)
(* to SQLAlchemy: it is modelled from how the code uses it.                *)
(***************************************************************************)
EXTENDS OrderPlacement

CONSTANT PoolSize   \* pool_size + max_overflow: 30 in the code

ASSUME PoolAssumption == PoolSize \in Nat \ {0}

VARIABLE connected  \* sessions that hold a connection

poolVars == <<placementVars, connected>>

PooledInit == PlacementInit /\ connected = {}

Exhausted == Cardinality(connected) >= PoolSize

\* The handler's first query, of the key or of a product.
NeedsConnection(s) == pc[s] = "key" /\ s \notin connected

Acquire(s) ==
  /\ NeedsConnection(s)
  /\ ~Exhausted
  /\ connected' = connected \cup {s}
  /\ UNCHANGED placementVars

\* No connection for as long as the pool lets a session wait: the query raises
\* and nobody catches it.  One more way for a session of Failing to fail.
PoolTimeout(s) ==
  /\ s \in Failing
  /\ NeedsConnection(s)
  /\ Exhausted
  /\ Abort(s, "error")
  /\ UNCHANGED connected

\* Wrong: nobody gives a connection back.
GiveBackNever(s) == UNCHANGED connected

\* Wrong: the connection goes back with the response, also where the commit
\* comes after it.
GiveBackWithReply(s) ==
  connected' = IF pc'[s] \in {"reply", "done"} THEN connected \ {s} ELSE connected

\* The end of a transaction gives the connection back, whichever way it ends.
GiveBack(s) ==
  connected' = IF pc'[s] = "done" \/ (pc'[s] = "reply" /\ s \notin EarlyReply)
               THEN connected \ {s} ELSE connected

ServePooled(s) == Serve(s) /\ ~NeedsConnection(s) /\ GiveBack(s)

PooledNext ==
  \/ \E s \in Session :
       \/ Begin(s) /\ UNCHANGED connected
       \/ Acquire(s) \/ PoolTimeout(s) \/ ServePooled(s)
       \/ (Fail(s) \/ CommitUnacknowledged(s)) /\ GiveBack(s)
  \/ Terminating /\ UNCHANGED connected

PooledSpec == PooledInit /\ [][PooledNext]_poolVars

-----------------------------------------------------------------------------
(* Properties.                                                             *)

\* Whoever holds a row lock or an uncommitted key has a connection, so the
\* session others wait for never waits for the pool they fill: a pool full of
\* sessions waiting for locks empties again.
HoldersAreConnected ==
  \A s \in Session :
    ((\E p \in Product : lock[p] = s) \/ (\E k \in Key : inserting[k] = s)) => s \in connected

\* With a pool smaller than the requests at work, the API is still what
\* OrderPlacement says of it.
ImplementsPlacement == PlacementSpec

-----------------------------------------------------------------------------
\* What makes them inductive: the steps of a session that need a connection.
InTransaction(s) == pc[s] \in {"lock", "save", "flush"} \/ (pc[s] = "reply" /\ s \in EarlyReply)

ConnectedWhenNeeded ==
  /\ connected \subseteq Session
  /\ \A s \in Session : InTransaction(s) => s \in connected
  /\ \A s \in connected : InTransaction(s) \/ pc[s] = "key"
=============================================================================
