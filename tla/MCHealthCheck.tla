---------------------------- MODULE MCHealthCheck ----------------------------
(* Orders for the same scarce rows and probes, on two connections. *)
EXTENDS HealthCheck, TLC

CONSTANTS p1, p2, s1, s2, k1, h1, h2

MCQuantity == p1 :> 2 @@ p2 :> 1

Both == p1 :> 1 @@ p2 :> 1

MCAmount == {Both}

Req(k, d, n) == [key |-> k, amount |-> d, names |-> n]

MCRequest == { Req(NoKey, Both, "stocked"), Req(k1, Both, "stocked") }
=============================================================================
