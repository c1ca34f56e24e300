------------------------ MODULE MCOrderCancellation ------------------------
(* Two PENDING orders, a CONFIRMED one and an id for a new one, over two   *)
(* products without a unit to spare of the second.                         *)
EXTENDS OrderCancellation, TLC

CONSTANTS p1, p2, s1, s2, s3, o1, o2, o3, o4

MCQuantity == p1 :> 3 @@ p2 :> 1

One  == p1 :> 1 @@ p2 :> 0
Both == p1 :> 1 @@ p2 :> 1

MCAmount == {One, Both}

MCPlaced == o1 :> One @@ o2 :> Both @@ o3 :> One @@ o4 :> Both

MCInitialStatus ==
  o1 :> "PENDING" @@ o2 :> "PENDING" @@ o3 :> "CONFIRMED" @@ o4 :> "absent"

MCSeeded == p1 :> 3 @@ p2 :> 1

CancelCall(o) == [kind |-> "cancel", order |-> o]

MCRequest ==
  {CancelCall(o) : o \in {o1, o2, o3, o4}} \cup {[kind |-> "place", order |-> o4]}
=============================================================================
