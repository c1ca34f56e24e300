------------------------ MODULE EventProducerProofs ------------------------
(***************************************************************************)
(* Proofs about the producer of events, for any processes, orders and       *)
(* owners and any bounds on the faults.                                     *)
(***************************************************************************)
EXTENDS EventProducer, TLAPS

USE ProducerAssumption DEF FaultKinds

LEMMA InitIInv == Init => ProducerIInv
  BY DEF Init, ProducerIInv, TypeOK, NoSilentLoss, ProducersLive, BufferOK, InCall

\* The life of a process keeps the invariant.
LEMMA LifeKeepsIInv ==
  ASSUME ProducerIInv, NEW p \in Process,
         LifeCycle(p) \/ Shutdown(p) \/ Crash(p)
  PROVE  ProducerIInv'
<1> USE DEF ProducerIInv, TypeOK, NoSilentLoss, ProducersLive, BufferOK, InCall, OwnedBy, eventVars, faultVars
<1>1. CASE Boot(p)
  BY <1>1 DEF Boot, Goto
<1>2. CASE Connect(p)
  BY <1>2 DEF Connect, Goto
<1>3. CASE ConnectFails(p)
  BY <1>3 DEF ConnectFails, Goto
<1>4. CASE Shutdown(p)
  BY <1>4 DEF Shutdown, Goto
<1>5. CASE Drained(p)
  BY <1>5 DEF Drained, Goto
<1>6. CASE Stop(p)
  BY <1>6 DEF Stop, Goto
<1>7. CASE Crash(p)
  BY <1>7 DEF Crash, Goto
<1> QED
  <2> HIDE DEF ProducerIInv
  <2> QED BY <1>1, <1>2, <1>3, <1>4, <1>5, <1>6, <1>7 DEF LifeCycle

\* So do the calls and the delivery of their events.
LEMMA CallKeepsIInv ==
  ASSUME ProducerIInv, NEW o \in Order,
         Begin(o) \/ Handle(o) \/ Deliver(o) \/ GiveUp(o)
  PROVE  ProducerIInv'
<1> USE DEF ProducerIInv, TypeOK, NoSilentLoss, ProducersLive, BufferOK, InCall, OwnedBy, eventVars, faultVars
<1>1. CASE Begin(o)
  BY <1>1 DEF Begin, CallTo
<1>2. CASE Publish(o)
  BY <1>2 DEF Publish, CallTo
<1>3. CASE PublishRaises(o)
  BY <1>3 DEF PublishRaises, CallTo
<1>4. CASE Commit(o)
  BY <1>4 DEF Commit, CallTo
<1>5. CASE Write(o)
  BY <1>5 DEF Write, CallTo
<1>6. CASE Acknowledge(o)
  BY <1>6 DEF Acknowledge, CallTo
<1>7. CASE GiveUp(o)
  BY <1>7 DEF GiveUp, CallTo
<1> QED
  <2> HIDE DEF ProducerIInv
  <2> QED BY <1>1, <1>2, <1>3, <1>4, <1>5, <1>6, <1>7 DEF Handle, Deliver

\* And the broker's coming and going.
LEMMA BrokerKeepsIInv ==
  ASSUME ProducerIInv, BrokerLeaves \/ BrokerReturns
  PROVE  ProducerIInv'
  BY DEF BrokerLeaves, BrokerReturns, ProducerIInv, TypeOK, NoSilentLoss, ProducersLive, BufferOK, InCall, OwnedBy,
     eventVars, faultVars

\* The inductive invariant: where the event of every call is, at each step of
\* its process (producer.py, and main.py: the lifespan).
THEOREM ProducerInvariant == Spec => []ProducerIInv
<1>1. ProducerIInv /\ [Next]_producerVars => ProducerIInv'
  <2>1. SUFFICES ASSUME ProducerIInv, Next PROVE ProducerIInv'
    BY DEF producerVars, ProducerIInv, TypeOK, NoSilentLoss, ProducersLive, BufferOK,
       eventVars, faultVars
  <2> QED
    BY <2>1, LifeKeepsIInv, CallKeepsIInv, BrokerKeepsIInv DEF Next
<1> QED
  BY <1>1, InitIInv, PTL DEF Spec

\* An event that send() has taken is only lost to a crash, or given up after a
\* refusal or an outage (stop_producer flushes, and nothing else drops the
\* buffer).
THEOREM NothingLostSilently == Spec => []NoSilentLoss
<1>1. ProducerIInv => NoSilentLoss  BY DEF ProducerIInv
<1> QED  BY <1>1, ProducerInvariant, PTL
=============================================================================
