------------------------- MODULE ReservationService -------------------------
(***************************************************************************)
(* OrderReservationService on the items an order really has: a list, in    *)
(* which a product may come up more than once, walked item by item over    *)
(* shared InventoryItem objects, with the rollback loop of reserve() and   *)
(* the loop of release().  InventoryRows treats an order as one amount per *)
(* product taken in one step; this module shows when that is right.        *)
(***************************************************************************)
EXTENDS Integers, SequencesExt

CONSTANTS
  Product,       \* products an item may name
  NoEntry,       \* a product the inventory dict has no entry for
  MaxAmount,     \* largest quantity of an item, and of a row
  MaxItems       \* longest list of items

Entry == [quantity : 0 .. MaxAmount, reserved : 0 .. MaxAmount]

\* Item quantities come from OrderItemRequest; the domain guards against the
\* ones its schema keeps out.
OrderItem == [product : Product, quantity : 0 .. MaxAmount]

ASSUME ReservationAssumption ==
  /\ NoEntry \notin Entry
  /\ MaxAmount \in Nat
  /\ MaxItems \in Nat

VARIABLES
  call,            \* the method called: reserve or release
  items,           \* order.items
  inventory,       \* the inventory dict
  start,           \* history: the dict as it was passed in
  next,            \* position in the loop over order.items
  reservedSoFar,   \* reserved_so_far
  undone,          \* position in the rollback loop
  phase,           \* walking the items, rolling back, or over
  outcome          \* how the call ended

vars == <<call, items, inventory, start, next, reservedSoFar, undone, phase, outcome>>

Outcomes == {"none", "returned", "InsufficientInventoryError", "KeyError", "ValueError"}

TypeOK ==
  /\ call \in {"reserve", "release"}
  /\ items \in BoundedSeq(OrderItem, MaxItems)
  /\ inventory \in [Product -> Entry \cup {NoEntry}]
  /\ next \in 1 .. Len(items) + 1
  /\ reservedSoFar \in BoundedSeq(OrderItem, MaxItems)
  /\ undone \in 0 .. Len(reservedSoFar)
  /\ phase \in {"walk", "rollback", "done"}
  /\ outcome \in Outcomes

Init ==
  /\ call \in {"reserve", "release"}
  /\ items \in BoundedSeq(OrderItem, MaxItems) \ {<<>>}
  /\ inventory \in [Product -> {e \in Entry : e.reserved <= e.quantity} \cup {NoEntry}]
  /\ start = inventory
  /\ next = 1
  /\ reservedSoFar = <<>>
  /\ undone = 0
  /\ phase = "walk"
  /\ outcome = "none"

-----------------------------------------------------------------------------
\* Wrong: what is reserved already is forgotten.
AvailableUnreserved(e) == e.quantity

Available(e) == e.quantity - e.reserved

Item == items[next]

Held(p) == inventory[p]

AtItem(method) == call = method /\ phase = "walk" /\ next <= Len(items)

End(how) ==
  /\ phase' = "done"
  /\ outcome' = how
  /\ UNCHANGED <<call, items, start, next, reservedSoFar, undone>>

Raise(how) == End(how) /\ UNCHANGED inventory

\* inventory[key] finds nothing: the error passes by the rollback.
NoInventory(method) ==
  /\ AtItem(method)
  /\ Held(Item.product) = NoEntry
  /\ Raise("KeyError")

\* Wrong: the item is reserved and not recorded for the rollback.
ReserveItemUnrecorded ==
  /\ AtItem("reserve")
  /\ Held(Item.product) # NoEntry
  /\ Item.quantity > 0
  /\ Item.quantity <= Available(Held(Item.product))
  /\ inventory' = [inventory EXCEPT ![Item.product].reserved = @ + Item.quantity]
  /\ next' = next + 1
  /\ UNCHANGED <<call, items, start, reservedSoFar, undone, phase, outcome>>

\* inv.reserve(item.quantity) succeeds.
ReserveItem ==
  /\ AtItem("reserve")
  /\ Held(Item.product) # NoEntry
  /\ Item.quantity > 0
  /\ Item.quantity <= Available(Held(Item.product))
  /\ inventory' = [inventory EXCEPT ![Item.product].reserved = @ + Item.quantity]
  /\ reservedSoFar' = Append(reservedSoFar, Item)
  /\ next' = next + 1
  /\ UNCHANGED <<call, items, start, undone, phase, outcome>>

\* Reserve amount must be positive.
BadReserve ==
  /\ AtItem("reserve")
  /\ Held(Item.product) # NoEntry
  /\ Item.quantity <= 0
  /\ Raise("ValueError")

\* Wrong: the item that fell short is rolled back with the others.
ShortageRecorded ==
  /\ AtItem("reserve")
  /\ Held(Item.product) # NoEntry
  /\ Item.quantity > Available(Held(Item.product))
  /\ phase' = "rollback"
  /\ reservedSoFar' = Append(reservedSoFar, Item)
  /\ UNCHANGED <<call, items, inventory, start, next, undone, outcome>>

Shortage ==
  /\ AtItem("reserve")
  /\ Held(Item.product) # NoEntry
  /\ Item.quantity > Available(Held(Item.product))
  /\ phase' = "rollback"
  /\ UNCHANGED <<call, items, inventory, start, next, reservedSoFar, undone, outcome>>

\* One turn of the rollback loop: what reserve() took is released again, in
\* the order it was taken.
Undo ==
  /\ phase = "rollback"
  /\ undone < Len(reservedSoFar)
  /\ LET taken == reservedSoFar[undone + 1]
     IN  /\ taken.quantity <= Held(taken.product).reserved
         /\ inventory' = [inventory EXCEPT ![taken.product].reserved = @ - taken.quantity]
  /\ undone' = undone + 1
  /\ UNCHANGED <<call, items, start, next, reservedSoFar, phase, outcome>>

Reraise ==
  /\ phase = "rollback"
  /\ undone = Len(reservedSoFar)
  /\ Raise("InsufficientInventoryError")

ReleaseItem ==
  /\ AtItem("release")
  /\ Held(Item.product) # NoEntry
  /\ Item.quantity > 0
  /\ Item.quantity <= Held(Item.product).reserved
  /\ inventory' = [inventory EXCEPT ![Item.product].reserved = @ - Item.quantity]
  /\ next' = next + 1
  /\ UNCHANGED <<call, items, start, reservedSoFar, undone, phase, outcome>>

\* Release amount must be positive, and cannot exceed what is reserved.
BadRelease ==
  /\ AtItem("release")
  /\ Held(Item.product) # NoEntry
  /\ Item.quantity <= 0 \/ Item.quantity > Held(Item.product).reserved
  /\ Raise("ValueError")

\* Wrong: the loop stops before the last item.
ReturnEarly ==
  /\ phase = "walk"
  /\ next >= Len(items)
  /\ Raise("returned")

Return ==
  /\ phase = "walk"
  /\ next > Len(items)
  /\ Raise("returned")

Finished == phase = "done" /\ UNCHANGED vars

Next ==
  \/ NoInventory("reserve") \/ NoInventory("release")
  \/ ReserveItem \/ BadReserve \/ Shortage
  \/ Undo \/ Reraise
  \/ ReleaseItem \/ BadRelease
  \/ Return
  \/ Finished

Spec == Init /\ [][Next]_vars

-----------------------------------------------------------------------------
(* Properties.                                                             *)

\* What the first n items want of a product, and what all of them do.
Passed(p, n) ==
  MapThenSumSet(LAMBDA i : items[i].quantity, {i \in 1 .. n : items[i].product = p})

Total(p) == Passed(p, Len(items))

\* What OrderItemRequest and a stocked warehouse guarantee of a call.
WellFormed ==
  \A i \in DOMAIN items : items[i].quantity > 0 /\ start[items[i].product] # NoEntry

Fits(e, n) == IF call = "reserve" THEN n <= Available(e) ELSE n <= e.reserved

Moved(e, n) ==
  [e EXCEPT !.reserved = IF call = "reserve" THEN @ + n ELSE @ - n]

\* Reference definition: walking the list item by item succeeds exactly when
\* the total wanted of each product fits, and moves exactly the totals, also
\* when a product is listed twice (services.py reserve and release).
WalkMatchesTotals ==
  (phase = "done" /\ WellFormed) =>
    /\ (outcome = "returned") <=> (\A p \in Product : Total(p) > 0 => Fits(start[p], Total(p)))
    /\ outcome = "returned" =>
         inventory = [p \in Product |-> IF Total(p) > 0 THEN Moved(start[p], Total(p))
                                                       ELSE start[p]]

\* A shortage at any item undoes every earlier reservation, those of the same
\* product included: the call leaves the inventory dict as it was.
ShortageLeavesNoTrace ==
  outcome = "InsufficientInventoryError" => inventory = start

\* The rollback itself cannot fail: each release() finds at least the amount
\* it gives back, so InsufficientInventoryError is never masked.
RollbackCannotFail ==
  (phase = "rollback" /\ undone < Len(reservedSoFar)) =>
    LET taken == reservedSoFar[undone + 1]
    IN  taken.quantity <= inventory[taken.product].reserved

\* At no point of a loop is an item over- or under-reserved.
NeverOverReserved ==
  \A p \in Product :
    inventory[p] # NoEntry => inventory[p].reserved \in 0 .. inventory[p].quantity

-----------------------------------------------------------------------------
(* What makes them inductive.                                              *)

\* Nothing is rolled back before the walk ends or unless an item fell short;
\* release() has no rollback.
PhasesOK ==
  /\ phase = "done" <=> outcome # "none"
  /\ undone > 0 => phase # "walk" /\ outcome # "returned"
  /\ outcome = "returned" => next = Len(items) + 1
  /\ outcome = "InsufficientInventoryError" => undone = Len(reservedSoFar) /\ call = "reserve"
  /\ (phase = "rollback" \/ reservedSoFar # <<>>) => call = "reserve"

\* The dict keeps its entries and their quantities.
EntriesStay ==
  \A p \in Product :
    /\ inventory[p] = NoEntry <=> start[p] = NoEntry
    /\ inventory[p] # NoEntry => inventory[p].quantity = start[p].quantity

\* reserve() records every item it has passed, and took each from an entry.
ItemsRecorded ==
  call = "reserve" =>
    /\ Len(reservedSoFar) = next - 1
    /\ \A i \in 1 .. next - 1 :
         reservedSoFar[i] = items[i] /\ inventory[items[i].product] # NoEntry

\* The reserved count is what it was, and what the items passed have moved,
\* less what is undone.
Accounted ==
  \A p \in Product : inventory[p] # NoEntry =>
    inventory[p].reserved =
      IF call = "reserve" THEN start[p].reserved + Passed(p, next - 1) - Passed(p, undone)
                          ELSE start[p].reserved - Passed(p, next - 1)

\* A call that does not get through its items has met one for which what is
\* wanted up to there does not fit.
StoppedShort ==
  (phase = "rollback" \/ outcome \notin {"none", "returned"}) =>
    /\ next <= Len(items)
    /\ WellFormed => ~Fits(start[Item.product], Passed(Item.product, next))

ReservationIInv ==
  /\ TypeOK
  /\ start \in [Product -> Entry \cup {NoEntry}]
  /\ PhasesOK
  /\ EntriesStay
  /\ ItemsRecorded
  /\ Accounted
  /\ StoppedShort
  /\ NeverOverReserved
=============================================================================
