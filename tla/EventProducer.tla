--------------------------- MODULE EventProducer ---------------------------
(***************************************************************************)
(* The Kafka producer of app/events/producer.py in the life of a process:  *)
(* started or given up by the lifespan, used by the handlers that create   *)
(* and cancel orders, flushed on shutdown, lost in a crash.  Handlers      *)
(* announce first and commit afterwards.  Events of different orders go to *)
(* different partitions, which the producer drains independently.          *)
(*                                                                         *)
(* aiokafka and the broker are external: send() takes an event into the    *)
(* producer's buffer, a background task delivers it and retries until it   *)
(* is acknowledged, and the broker drops what it has written before.       *)
(***************************************************************************)
EXTENDS Naturals

CONSTANTS
  Process,      \* API and worker processes
  Configured,   \* API processes with KAFKA_BOOTSTRAP_SERVERS set
  Order,        \* orders, each created or cancelled by one call
  Owner,        \* [Order -> Process], the process that serves the call
  Faults,       \* what may go wrong: see below
  MaxOutages,   \* how often the broker becomes unreachable
  MaxCrashes    \* how often a process is killed

\* outage: the broker becomes unreachable, for good if it likes.  slow: the
\* producer's start exceeds its timeout with the broker there.  refusal:
\* send() raises, or the broker turns an event down, with the broker there.
FaultKinds == {"outage", "slow", "refusal"}

ASSUME ProducerAssumption ==
  /\ Configured \subseteq Process
  /\ Owner \in [Order -> Process]
  /\ Faults \subseteq FaultKinds
  /\ MaxOutages \in Nat
  /\ MaxCrashes \in Nat

VARIABLES
  mode,        \* what each process is doing
  producer,    \* processes whose _producer is not None
  call,        \* how far the call for each order has got
  inFlight,    \* events taken by a producer and not acknowledged
  written,     \* those of them the broker has written, unknown to the producer
  topic,       \* copies of each order's event in the topic
  lost,        \* history: events a producer took and then gave up or died with
  taken,       \* history: events a producer took
  broker,      \* whether the broker can be reached
  outages, crashes

eventVars == <<inFlight, written, topic, lost, taken>>
faultVars == <<broker, outages, crashes>>
producerVars == <<mode, producer, call, eventVars, faultVars>>

TypeOK ==
  /\ mode \in [Process -> {"down", "starting", "serving", "draining", "stopping"}]
  /\ producer \subseteq Configured
  /\ call \in [Order -> {"none", "open", "published", "committed", "aborted"}]
  /\ inFlight \subseteq Order
  /\ written \subseteq inFlight
  /\ topic \in [Order -> Nat]
  /\ lost \subseteq Order
  /\ taken \subseteq Order
  /\ broker \in {"up", "away"}
  /\ outages \in 0 .. MaxOutages
  /\ crashes \in 0 .. MaxCrashes

Init ==
  /\ mode = [p \in Process |-> "down"]
  /\ producer = {}
  /\ call = [o \in Order |-> "none"]
  /\ inFlight = {}
  /\ written = {}
  /\ topic = [o \in Order |-> 0]
  /\ lost = {}
  /\ taken = {}
  /\ broker = "up"
  /\ outages = 0
  /\ crashes = 0

-----------------------------------------------------------------------------
(* The life of a process.                                                  *)

Goto(p, m) == mode' = [mode EXCEPT ![p] = m]

OwnedBy(p) == {o \in Order : Owner[o] = p}

InCall(o) == call[o] \in {"open", "published"}

\* Only the lifespan of the API starts a producer, and only when configured.
Boot(p) ==
  /\ mode[p] = "down"
  /\ Goto(p, IF p \in Configured THEN "starting" ELSE "serving")
  /\ UNCHANGED <<producer, call, eventVars, faultVars>>

Connect(p) ==
  /\ mode[p] = "starting"
  /\ broker = "up"
  /\ producer' = producer \cup {p}
  /\ Goto(p, "serving")
  /\ UNCHANGED <<call, eventVars, faultVars>>

\* Any exception, the timeout of three seconds included: None for good.
ConnectFails(p) ==
  /\ mode[p] = "starting"
  /\ broker = "away" \/ "slow" \in Faults
  /\ Goto(p, "serving")
  /\ UNCHANGED <<producer, call, eventVars, faultVars>>

\* The server takes no more calls and waits for those it has.
Shutdown(p) ==
  /\ mode[p] = "serving"
  /\ Goto(p, "draining")
  /\ UNCHANGED <<producer, call, eventVars, faultVars>>

Drained(p) ==
  /\ mode[p] = "draining"
  /\ \A o \in OwnedBy(p) : ~InCall(o)
  /\ Goto(p, "stopping")
  /\ UNCHANGED <<producer, call, eventVars, faultVars>>

\* Wrong: the producer is dropped and not stopped.
StopUnflushed(p) ==
  /\ mode[p] = "stopping"
  /\ producer' = producer \ {p}
  /\ inFlight' = inFlight \ OwnedBy(p)
  /\ written' = written \ OwnedBy(p)
  /\ Goto(p, "down")
  /\ UNCHANGED <<call, topic, lost, taken, faultVars>>

\* stop() returns when the buffer is empty.
Stop(p) ==
  /\ mode[p] = "stopping"
  /\ p \in producer => inFlight \cap OwnedBy(p) = {}
  /\ producer' = producer \ {p}
  /\ Goto(p, "down")
  /\ UNCHANGED <<call, eventVars, faultVars>>

\* The process is killed: open transactions roll back and the buffer is gone,
\* with events the broker may have written or not.
Crash(p) ==
  /\ mode[p] # "down"
  /\ crashes < MaxCrashes
  /\ crashes' = crashes + 1
  /\ Goto(p, "down")
  /\ producer' = producer \ {p}
  /\ call' = [o \in Order |-> IF Owner[o] = p /\ InCall(o) THEN "aborted" ELSE call[o]]
  /\ lost' = lost \cup (inFlight \cap OwnedBy(p))
  /\ inFlight' = inFlight \ OwnedBy(p)
  /\ written' = written \ OwnedBy(p)
  /\ UNCHANGED <<topic, taken, broker, outages>>

-----------------------------------------------------------------------------
(* A call that creates or cancels an order.                                *)

CallTo(o, c) == call' = [call EXCEPT ![o] = c]

Begin(o) ==
  /\ call[o] = "none"
  /\ mode[Owner[o]] = "serving"
  /\ CallTo(o, "open")
  /\ UNCHANGED <<mode, producer, eventVars, faultVars>>

\* Wrong: send_and_wait().
PublishAndWait(o) ==
  /\ call[o] = "open"
  /\ taken' = taken \cup {e \in {o} : Owner[e] \in producer}
  /\ inFlight' = inFlight \cup {e \in {o} : Owner[e] \in producer /\ o \notin taken}
  /\ call' = [call EXCEPT ![o] = IF Owner[o] \in producer /\ topic[o] = 0 THEN @ ELSE "published"]
  /\ UNCHANGED <<mode, producer, written, topic, lost, faultVars>>

\* publish_order_created, publish_order_cancelled: nothing without a producer,
\* else send(), which returns once the event is in the buffer.
Publish(o) ==
  /\ call[o] = "open"
  /\ CallTo(o, "published")
  /\ taken' = taken \cup {e \in {o} : Owner[e] \in producer}
  /\ inFlight' = inFlight \cup {e \in {o} : Owner[e] \in producer}
  /\ UNCHANGED <<mode, producer, written, topic, lost, faultVars>>

\* send() raises before it takes the event (buffer full or no metadata for the
\* time it allows): the handler fails and the transaction rolls back.
PublishRaises(o) ==
  /\ call[o] = "open"
  /\ Owner[o] \in producer
  /\ o \notin taken
  /\ "refusal" \in Faults \/ broker = "away"
  /\ CallTo(o, "aborted")
  /\ UNCHANGED <<mode, producer, eventVars, faultVars>>

Commit(o) ==
  /\ call[o] = "published"
  /\ CallTo(o, "committed")
  /\ UNCHANGED <<mode, producer, eventVars, faultVars>>

-----------------------------------------------------------------------------
(* The producer's background task and the broker.                          *)

\* The broker writes the event; its acknowledgement may be lost, and what the
\* producer sends again is known by its sequence number.
Write(o) ==
  /\ o \in inFlight \ written
  /\ broker = "up"
  /\ topic' = [topic EXCEPT ![o] = @ + 1]
  /\ written' = written \cup {o}
  /\ UNCHANGED <<mode, producer, call, inFlight, lost, taken, faultVars>>

\* Wrong: acks=0, the event is done with as soon as it is on the wire.
AcknowledgeUnwritten(o) ==
  /\ o \in inFlight
  /\ inFlight' = inFlight \ {o}
  /\ written' = written \ {o}
  /\ UNCHANGED <<mode, producer, call, topic, lost, taken, faultVars>>

Acknowledge(o) ==
  /\ o \in written
  /\ broker = "up"
  /\ inFlight' = inFlight \ {o}
  /\ written' = written \ {o}
  /\ UNCHANGED <<mode, producer, call, topic, lost, taken, faultVars>>

\* An error that is not retried, or no leader for the partition until the
\* batch is too old: the future fails, and nobody has kept it.
GiveUp(o) ==
  /\ "refusal" \in Faults \/ broker = "away"
  /\ o \in inFlight
  /\ inFlight' = inFlight \ {o}
  /\ written' = written \ {o}
  /\ lost' = lost \cup {o}
  /\ UNCHANGED <<mode, producer, call, topic, taken, faultVars>>

BrokerLeaves ==
  /\ "outage" \in Faults
  /\ broker = "up"
  /\ outages < MaxOutages
  /\ broker' = "away"
  /\ outages' = outages + 1
  /\ UNCHANGED <<mode, producer, call, eventVars, crashes>>

BrokerReturns ==
  /\ broker = "away"
  /\ broker' = "up"
  /\ UNCHANGED <<mode, producer, call, eventVars, outages, crashes>>

-----------------------------------------------------------------------------
\* What goes on by itself.
LifeCycle(p) == Boot(p) \/ Connect(p) \/ ConnectFails(p) \/ Drained(p) \/ Stop(p)

Handle(o) == Publish(o) \/ PublishRaises(o) \/ Commit(o)

Deliver(o) == Write(o) \/ Acknowledge(o)

Next ==
  \/ \E p \in Process : LifeCycle(p) \/ Shutdown(p) \/ Crash(p)
  \/ \E o \in Order : Begin(o) \/ Handle(o) \/ Deliver(o) \/ GiveUp(o)
  \/ BrokerLeaves
  \/ BrokerReturns

Spec == Init /\ [][Next]_producerVars

\* Processes and handlers run, and the producer sends while the broker can be
\* reached.  Nothing promises that the broker returns or that anybody calls.
FairSpec ==
  /\ Spec
  /\ \A p \in Process : WF_producerVars(LifeCycle(p))
  /\ \A o \in Order : WF_producerVars(Handle(o)) /\ WF_producerVars(Deliver(o))

-----------------------------------------------------------------------------
(* Safety.                                                                 *)

\* An event that send() has taken is in the topic, or a live producer still
\* has it, or it was lost to a crash of the process or given up by a producer
\* that was refused or cut off for too long: a shutdown or a restart never
\* loses one (stop_producer flushes before the process ends).
NoSilentLoss ==
  \A o \in taken :
    \/ topic[o] > 0
    \/ o \in lost
    \/ o \in inFlight /\ Owner[o] \in producer /\ mode[Owner[o]] # "down"

-----------------------------------------------------------------------------
(* What makes the invariants inductive.                                    *)

\* Only a configured process starts a producer, and one that has it is past
\* its start and not down.
ProducersLive ==
  /\ \A p \in Process : mode[p] = "starting" => p \in Configured
  /\ \A p \in producer : mode[p] \in {"serving", "draining", "stopping"}

\* The buffer holds events a producer took that still runs; the written ones
\* are in the topic.
BufferOK ==
  /\ inFlight \subseteq taken
  /\ \A o \in inFlight : Owner[o] \in producer
  /\ \A o \in written : topic[o] > 0

ProducerIInv ==
  /\ TypeOK
  /\ NoSilentLoss
  /\ ProducersLive
  /\ BufferOK

-----------------------------------------------------------------------------
(* Liveness.                                                               *)

\* A call ends although the broker is away for good: the handlers do not
\* wait for it (producer.py: the app works without Kafka).
CallsFinish == \A o \in Order : InCall(o) ~> ~InCall(o)

\* If the broker is back for good one day, every event taken reaches the topic
\* then, through shutdowns and restarts in between, but for those lost to a
\* crash or given up.
TakenIsDelivered ==
  <>[](broker = "up") => \A o \in Order : o \in taken ~> (topic[o] > 0 \/ o \in lost)

-----------------------------------------------------------------------------
\* producer.py: Kafka has acknowledged the write before publishing returns.
PublishedIsWritten ==
  \A o \in taken : call[o] \in {"published", "committed"} => topic[o] > 0
=============================================================================
