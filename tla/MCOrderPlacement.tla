-------------------------- MODULE MCOrderPlacement --------------------------
(* Requests over two scarce products and one or two keys. *)
EXTENDS OrderPlacement, TLC

CONSTANTS p1, p2, s1, s2, s3, k1

MCQuantity == p1 :> 2 @@ p2 :> 1

One  == p1 :> 1 @@ p2 :> 0
Two  == p1 :> 0 @@ p2 :> 1
Both == p1 :> 1 @@ p2 :> 1

MCAmount == {One, Two, Both}

Req(k, d, n) == [key |-> k, amount |-> d, names |-> n]

\* An order for both products, a key used for two different orders, and the
\* two kinds of order that name something the warehouse does not have.
MixedRequests ==
  { Req(NoKey, Both, "stocked"), Req(k1, One, "stocked"), Req(k1, Two, "stocked"),
    Req(NoKey, One, "inactive"), Req(NoKey, Both, "unstocked") }

\* One client and its retries.
KeyedRequests == { Req(k1, One, "stocked") }

=============================================================================
