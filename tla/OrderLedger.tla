---------------------------- MODULE OrderLedger ----------------------------
(***************************************************************************)
(* What the orders API promises, without sessions, locks or versions:      *)
(* orders appear one at a time, each takes its whole amount out of the     *)
(* stock that is left, no two carry the same idempotency key, and a        *)
(* cancelled order gives back exactly what it took.                        *)
(***************************************************************************)
EXTENDS Integers, FiniteSetsExt

CONSTANTS Order, NoOrder, Product, Quantity, Key, NoKey, Amount

VARIABLES
  orders,     \* the key and the amount of each order that exists
  reserved    \* the stock they hold

ledgerVars == <<orders, reserved>>

LedgerInit ==
  /\ orders = [o \in Order |-> NoOrder]
  /\ reserved = [p \in Product |-> 0]

KeyUnused(k) == \A o \in Order : orders[o] # NoOrder => orders[o].key # k

Place(o, k, d) ==
  /\ orders[o] = NoOrder
  /\ k # NoKey => KeyUnused(k)
  /\ \A p \in Product : reserved[p] + d[p] <= Quantity[p]
  /\ orders' = [orders EXCEPT ![o] = [key |-> k, amount |-> d]]
  /\ reserved' = [p \in Product |-> reserved[p] + d[p]]

LedgerNext ==
  \E o \in Order, k \in Key \cup {NoKey}, d \in Amount : Place(o, k, d)

\* PATCH /orders/{id}/cancel: the order goes and gives back all it holds.
Cancel(o) ==
  /\ orders[o] # NoOrder
  /\ orders' = [orders EXCEPT ![o] = NoOrder]
  /\ reserved' = [p \in Product |-> reserved[p] - orders[o].amount[p]]

\* The ledger of an API that cancels too.
BookNext == LedgerNext \/ \E o \in Order : Cancel(o)

LedgerSpec == LedgerInit /\ [][LedgerNext]_ledgerVars

\* Every unit reserved belongs to an order that exists, and fits the stock
\* (InventoryItem.reserve never exceeds available).
StockBacksOrders ==
  \A p \in Product :
    /\ reserved[p] <= Quantity[p]
    /\ reserved[p] = MapThenSumSet(LAMBDA o : orders[o].amount[p],
                                   {o \in Order : orders[o] # NoOrder})
=============================================================================
