--------------------------- MODULE MCEventProducer ---------------------------
\* An API process with a producer, a worker without, and orders of both.
EXTENDS EventProducer, TLC

CONSTANTS api, worker, o1, o2, o3

MCOwner == o1 :> api @@ o2 :> api @@ o3 :> worker
=============================================================================
