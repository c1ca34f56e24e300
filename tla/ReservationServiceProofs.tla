---------------------- MODULE ReservationServiceProofs ----------------------
(***************************************************************************)
(* Proofs about OrderReservationService, for any products and lists of     *)
(* items.  The crux is Accounted: at every point of a loop or of the       *)
(* rollback, what is reserved of a product is what was before, plus what   *)
(* the items passed want of it, less what is undone.                       *)
(***************************************************************************)
EXTENDS ReservationService, SequenceTheorems, FiniteSums

LEMMA BoundedSeqs ==
  ASSUME NEW S, NEW n \in Nat, NEW s
  PROVE  s \in BoundedSeq(S, n) <=> s \in Seq(S) /\ Len(s) <= n
<1>1. ASSUME s \in BoundedSeq(S, n) PROVE s \in Seq(S) /\ Len(s) <= n
  <2>1. PICK m \in 0 .. n : s \in [1 .. m -> S]
    BY <1>1 DEF BoundedSeq, SeqOf
  <2> QED
    BY <2>1, SeqDef
<1>2. ASSUME s \in Seq(S), Len(s) <= n PROVE s \in BoundedSeq(S, n)
  <2>1. Len(s) \in 0 .. n /\ s \in [1 .. Len(s) -> S]
    BY <1>2
  <2> QED
    BY <2>1 DEF BoundedSeq, SeqOf
<1> QED
  BY <1>1, <1>2

\* The types without BoundedSeq.
LEMMA Types ==
  ASSUME ReservationIInv
  PROVE  /\ items \in Seq(OrderItem) /\ Len(items) \in 0 .. MaxItems
         /\ reservedSoFar \in Seq(OrderItem) /\ Len(reservedSoFar) \in 0 .. MaxItems
         /\ next \in 1 .. Len(items) + 1 /\ undone \in 0 .. Len(reservedSoFar)
         /\ MaxAmount \in Nat /\ MaxItems \in Nat
         /\ \A p \in Product : inventory[p] # NoEntry => inventory[p] \in Entry /\ start[p] \in Entry
<1>1. items \in Seq(OrderItem) /\ Len(items) <= MaxItems
      /\ reservedSoFar \in Seq(OrderItem) /\ Len(reservedSoFar) <= MaxItems
  BY ReservationAssumption, BoundedSeqs DEF ReservationIInv, TypeOK
<1> QED
  BY <1>1, ReservationAssumption DEF ReservationIInv, TypeOK, EntriesStay

-----------------------------------------------------------------------------
(* What the items up to a position want.                                   *)

ItemsOf(p, n) == {i \in 1 .. n : items[i].product = p}

\* It is a sum of naturals over a finite set of positions.
LEMMA PassedIsSum ==
  ASSUME items \in Seq(OrderItem), NEW p, NEW n \in 0 .. Len(items),
         NEW a, a = [i \in 1 .. Len(items) |-> items[i].quantity]
  PROVE  /\ Passed(p, n) = SumFunctionOnSet(a, ItemsOf(p, n))
         /\ IsFiniteSet(ItemsOf(p, n))
         /\ NaturalsOn(a, 1 .. Len(items))
         /\ NaturalsOn(a, ItemsOf(p, n)) /\ IntegersOn(a, ItemsOf(p, n))
<1> DEFINE b == [i \in ItemsOf(p, n) |-> items[i].quantity]
<1>1. ItemsOf(p, n) \subseteq 1 .. Len(items) /\ ItemsOf(p, n) \subseteq 1 .. n
  BY DEF ItemsOf
<1>2. IsFiniteSet(ItemsOf(p, n))
  BY <1>1, FS_Interval, FS_Subset
<1>3. Passed(p, n) = SumFunctionOnSet(b, ItemsOf(p, n))
  BY ZenonT(60) DEF Passed, ItemsOf, MapThenSumSet, SumFunctionOnSet, FoldFunctionOnSet, MapThenFoldSet
<1>4. \A i \in 1 .. Len(items) : items[i].quantity \in Nat
  <2>1. \A i \in 1 .. Len(items) : items[i] \in OrderItem
    OBVIOUS
  <2> QED
    BY <2>1, ReservationAssumption DEF OrderItem
<1>5. NaturalsOn(a, 1 .. Len(items)) /\ NaturalsOn(a, ItemsOf(p, n)) /\ IntegersOn(a, ItemsOf(p, n))
  BY <1>1, <1>4 DEF NaturalsOn, IntegersOn
<1>6. \A i \in ItemsOf(p, n) : a[i] = b[i]
  BY <1>1
<1> HIDE DEF b
<1>7. SumFunctionOnSet(a, ItemsOf(p, n)) = SumFunctionOnSet(b, ItemsOf(p, n))
  BY <1>2, <1>5, <1>6, SumsAgree
<1> QED
  BY <1>2, <1>3, <1>5, <1>7

LEMMA PassedNone == ASSUME NEW p PROVE Passed(p, 0) = 0
<1>1. ItemsOf(p, 0) = {}
  BY DEF ItemsOf
<1>2. Passed(p, 0) = SumFunctionOnSet([i \in ItemsOf(p, 0) |-> items[i].quantity], ItemsOf(p, 0))
  BY ZenonT(60) DEF Passed, ItemsOf, MapThenSumSet, SumFunctionOnSet, FoldFunctionOnSet, MapThenFoldSet
<1>3. PICK a : a = [i \in ItemsOf(p, 0) |-> items[i].quantity]
  OBVIOUS
<1>4. SumFunctionOnSet(a, ItemsOf(p, 0)) = 0
  BY <1>1, SumOfNone
<1> QED
  BY <1>2, <1>3, <1>4

\* What one more item adds.
LEMMA PassedOneMore ==
  ASSUME items \in Seq(OrderItem), NEW p, NEW n \in 1 .. Len(items)
  PROVE  /\ Passed(p, n - 1) \in Nat /\ Passed(p, n) \in Nat /\ items[n].quantity \in Nat
         /\ items[n].product = p => Passed(p, n) = Passed(p, n - 1) + items[n].quantity
         /\ items[n].product # p => Passed(p, n) = Passed(p, n - 1)
<1>1. PICK a : a = [i \in 1 .. Len(items) |-> items[i].quantity]
  OBVIOUS
<1>2. n - 1 \in 0 .. Len(items) /\ n \in 0 .. Len(items) /\ n \in Nat
  OBVIOUS
<1>3. /\ Passed(p, n) = SumFunctionOnSet(a, ItemsOf(p, n))
      /\ IsFiniteSet(ItemsOf(p, n)) /\ NaturalsOn(a, ItemsOf(p, n))
      /\ NaturalsOn(a, 1 .. Len(items))
  BY <1>1, <1>2, PassedIsSum
<1>4. /\ Passed(p, n - 1) = SumFunctionOnSet(a, ItemsOf(p, n - 1))
      /\ IsFiniteSet(ItemsOf(p, n - 1))
      /\ NaturalsOn(a, ItemsOf(p, n - 1)) /\ IntegersOn(a, ItemsOf(p, n - 1))
  BY <1>1, <1>2, PassedIsSum
<1>5. Passed(p, n) \in Nat /\ Passed(p, n - 1) \in Nat
  BY <1>3, <1>4, SumIsNatural
<1>6. a[n] = items[n].quantity /\ a[n] \in Nat
  BY <1>1, <1>3 DEF NaturalsOn
<1>7. CASE items[n].product = p
  <2>1. ItemsOf(p, n) = ItemsOf(p, n - 1) \cup {n} /\ n \notin ItemsOf(p, n - 1)
    BY <1>2, <1>7 DEF ItemsOf
  <2>2. SumFunctionOnSet(a, ItemsOf(p, n - 1) \cup {n}) = SumFunctionOnSet(a, ItemsOf(p, n - 1)) + a[n]
    BY <1>4, <1>6, <2>1, SumWith
  <2> QED
    BY <1>3, <1>4, <1>5, <1>6, <1>7, <2>1, <2>2
<1>8. CASE items[n].product # p
  <2>1. ItemsOf(p, n) = ItemsOf(p, n - 1)
    BY <1>2, <1>8 DEF ItemsOf
  <2> QED
    BY <1>3, <1>4, <1>5, <1>6, <1>8, <2>1
<1> QED
  BY <1>7, <1>8

\* More items want no less.
LEMMA PassedGrows ==
  ASSUME items \in Seq(OrderItem), NEW p, NEW n \in 0 .. Len(items), NEW m \in 0 .. n
  PROVE  Passed(p, m) <= Passed(p, n) /\ Passed(p, m) \in Nat /\ Passed(p, n) \in Nat
<1>1. PICK a : a = [i \in 1 .. Len(items) |-> items[i].quantity]
  OBVIOUS
<1>2. m \in 0 .. Len(items)
  OBVIOUS
<1>3. /\ Passed(p, n) = SumFunctionOnSet(a, ItemsOf(p, n))
      /\ IsFiniteSet(ItemsOf(p, n)) /\ NaturalsOn(a, ItemsOf(p, n))
  BY <1>1, PassedIsSum
<1>4. /\ Passed(p, m) = SumFunctionOnSet(a, ItemsOf(p, m))
      /\ IsFiniteSet(ItemsOf(p, m)) /\ NaturalsOn(a, ItemsOf(p, m))
  BY <1>1, <1>2, PassedIsSum
<1>5. ItemsOf(p, m) \in SUBSET ItemsOf(p, n)
  BY DEF ItemsOf
<1>6. SumFunctionOnSet(a, ItemsOf(p, m)) <= SumFunctionOnSet(a, ItemsOf(p, n))
  BY <1>3, <1>5, SumGrows
<1> QED
  BY <1>3, <1>4, <1>6, SumIsNatural

\* The list of items is not changed, so neither is what it wants.
LEMMA PassedStays ==
  ASSUME UNCHANGED items, NEW p, NEW n
  PROVE  Passed(p, n)' = Passed(p, n)
BY DEF Passed, MapThenSumSet, MapThenFoldSet

-----------------------------------------------------------------------------
(* The inductive invariant.                                                *)

LEMMA ReservationInit == Init => ReservationIInv
<1> SUFFICES ASSUME Init PROVE ReservationIInv
  OBVIOUS
<1> USE ReservationAssumption
<1>1. items \in BoundedSeq(OrderItem, MaxItems) /\ items # <<>>
  BY DEF Init
<1>2. items \in Seq(OrderItem) /\ Len(items) \in Nat
  BY <1>1, BoundedSeqs
<1>3. /\ inventory \in [Product -> Entry \cup {NoEntry}] /\ start = inventory
      /\ next = 1 /\ reservedSoFar = <<>> /\ undone = 0
      /\ phase = "walk" /\ outcome = "none" /\ call \in {"reserve", "release"}
  BY DEF Init
<1>4. TypeOK /\ start \in [Product -> Entry \cup {NoEntry}]
  <2>1. reservedSoFar \in Seq(OrderItem) /\ Len(reservedSoFar) = 0
    BY <1>3
  <2>2. reservedSoFar \in BoundedSeq(OrderItem, MaxItems)
    <3>1. Len(reservedSoFar) <= MaxItems
      BY <2>1
    <3> QED
      BY <2>1, <3>1, BoundedSeqs
  <2>3. next \in 1 .. Len(items) + 1 /\ undone \in 0 .. Len(reservedSoFar)
    BY <1>2, <1>3, <2>1
  <2> QED
    BY <1>1, <1>3, <2>2, <2>3 DEF TypeOK, Outcomes
<1>5. PhasesOK /\ EntriesStay /\ ItemsRecorded /\ StoppedShort
  BY <1>3 DEF PhasesOK, EntriesStay, ItemsRecorded, StoppedShort
<1>6. Accounted
  <2> SUFFICES ASSUME NEW p \in Product, inventory[p] # NoEntry
               PROVE  inventory[p].reserved =
                        IF call = "reserve" THEN start[p].reserved + Passed(p, next - 1) - Passed(p, undone)
                                            ELSE start[p].reserved - Passed(p, next - 1)
    BY DEF Accounted
  <2>1. Passed(p, next - 1) = 0 /\ Passed(p, undone) = 0
    <3>1. next - 1 = 0
      BY <1>3
    <3> QED
      BY <1>3, <3>1, PassedNone
  <2>2. start[p].reserved \in Nat
    BY <1>3 DEF Entry
  <2> QED
    BY <1>3, <2>1, <2>2
<1>7. NeverOverReserved
  BY DEF Init, NeverOverReserved, Entry
<1> QED
  BY <1>4, <1>5, <1>6, <1>7 DEF ReservationIInv

\* An item taken or given back changes the reserved count of its entry only.
LEMMA Moving ==
  ASSUME ReservationIInv, NEW q \in Product, inventory[q] # NoEntry, NEW r \in 0 .. inventory[q].quantity,
         inventory' = [inventory EXCEPT ![q].reserved = r], UNCHANGED start
  PROVE  /\ inventory' \in [Product -> Entry \cup {NoEntry}]
         /\ inventory'[q].reserved = r
         /\ \A p \in Product \ {q} : inventory'[p] = inventory[p]
         /\ \A p \in Product : inventory'[p] = NoEntry <=> inventory[p] = NoEntry
         /\ EntriesStay'
         /\ NeverOverReserved'
<1> USE ReservationAssumption
<1>1. inventory \in [Product -> Entry \cup {NoEntry}] /\ inventory[q] \in Entry
  BY DEF ReservationIInv, TypeOK
<1>2. r \in 0 .. MaxAmount /\ inventory[q].quantity \in 0 .. MaxAmount
  BY <1>1 DEF Entry
<1>3. inventory'[q] = [inventory[q] EXCEPT !.reserved = r]
  BY <1>1
<1>4. inventory'[q] \in Entry /\ inventory'[q].reserved = r /\ inventory'[q].quantity = inventory[q].quantity
  BY <1>1, <1>2, <1>3 DEF Entry
<1>5. \A p \in Product \ {q} : inventory'[p] = inventory[p]
  BY <1>1
<1>6. inventory' \in [Product -> Entry \cup {NoEntry}]
  BY <1>1, <1>4, <1>5
<1>7. \A p \in Product : inventory'[p] = NoEntry <=> inventory[p] = NoEntry
  BY <1>4, <1>5
<1>8. EntriesStay'
  BY <1>4, <1>5, <1>7 DEF ReservationIInv, EntriesStay
<1>9. NeverOverReserved'
  BY <1>4, <1>5, <1>7 DEF ReservationIInv, NeverOverReserved
<1> QED
  BY <1>4, <1>5, <1>6, <1>7, <1>8, <1>9

\* The item at which the walk is.
LEMMA AtWalk ==
  ASSUME ReservationIInv, NEW method, AtItem(method)
  PROVE  /\ next \in 1 .. Len(items) /\ Len(items) \in Nat
         /\ Item \in OrderItem /\ Item.product \in Product /\ Item.quantity \in 0 .. MaxAmount
         /\ call = method /\ phase = "walk" /\ outcome = "none" /\ undone = 0
<1>1. next \in 1 .. Len(items) /\ items \in Seq(OrderItem) /\ Len(items) \in Nat
  BY Types DEF AtItem
<1>2. Item \in OrderItem
  BY <1>1 DEF Item
<1>3. undone = 0
  BY Types DEF ReservationIInv, PhasesOK, AtItem
<1> QED
  BY <1>1, <1>2, <1>3 DEF OrderItem, AtItem, ReservationIInv, PhasesOK

\* Where a call has stopped, and why, does not change.
Stopped == next <= Len(items) /\ (WellFormed => ~Fits(start[Item.product], Passed(Item.product, next)))

LEMMA StopStays ==
  ASSUME UNCHANGED <<call, items, start, next>>
  PROVE  Stopped' <=> Stopped
<1>1. \A p, n : Passed(p, n)' = Passed(p, n)
  BY PassedStays
<1> QED
  BY <1>1 DEF Stopped, WellFormed, Fits, Item, Available

\* A turn of a loop that moves the amount of item k, forward or back.
LEMMA AccountedAfter ==
  ASSUME ReservationIInv, NEW k \in 1 .. Len(items), NEW q \in Product, q = items[k].product,
         NEW m, m = items[k].quantity, inventory[q] # NoEntry,
         UNCHANGED <<call, items, start>>,
         \A p \in Product : inventory'[p] = NoEntry <=> inventory[p] = NoEntry,
         \A p \in Product \ {q} : inventory'[p] = inventory[p],
         \/ /\ next = k /\ next' = k + 1 /\ undone' = undone
            /\ inventory'[q].reserved = IF call = "reserve" THEN inventory[q].reserved + m
                                                            ELSE inventory[q].reserved - m
         \/ /\ call = "reserve" /\ undone = k - 1 /\ undone' = k /\ next' = next
            /\ inventory'[q].reserved = inventory[q].reserved - m
  PROVE  Accounted'
<1>1. items \in Seq(OrderItem) /\ Len(items) \in Nat /\ next \in 1 .. Len(items) + 1 /\ undone \in Nat
  BY Types
<1>2. undone <= Len(items)
  <2>1. call = "reserve" => Len(reservedSoFar) = next - 1 /\ undone <= Len(reservedSoFar)
    BY Types DEF ReservationIInv, ItemsRecorded
  <2>2. call # "reserve" => undone = 0
    <3>1. call # "reserve" => reservedSoFar = <<>>
      BY DEF ReservationIInv, PhasesOK
    <3> QED
      BY <3>1, Types
  <2> QED
    BY <1>1, <2>1, <2>2
<1> SUFFICES ASSUME NEW p \in Product, inventory'[p] # NoEntry
             PROVE  inventory'[p].reserved =
                      IF call = "reserve"
                      THEN start[p].reserved + Passed(p, next' - 1) - Passed(p, undone')
                      ELSE start[p].reserved - Passed(p, next' - 1)
  <2>1. \A p, n : Passed(p, n)' = Passed(p, n)
    BY PassedStays
  <2> QED
    BY <2>1 DEF Accounted
<1>3. /\ inventory[p] # NoEntry /\ start[p].reserved \in Nat /\ inventory[p].reserved \in Nat
      /\ inventory[p].reserved =
           IF call = "reserve" THEN start[p].reserved + Passed(p, next - 1) - Passed(p, undone)
                               ELSE start[p].reserved - Passed(p, next - 1)
  BY Types DEF ReservationIInv, Accounted, Entry
<1>4. Passed(p, next - 1) \in Nat /\ Passed(p, undone) \in Nat
  <2>1. next - 1 \in 0 .. Len(items) /\ undone \in 0 .. Len(items)
    BY <1>1, <1>2
  <2> QED
    BY <1>1, <2>1, PassedGrows
<1>5. /\ Passed(p, k - 1) \in Nat /\ Passed(p, k) \in Nat /\ m \in Nat
      /\ q = p => Passed(p, k) = Passed(p, k - 1) + m
      /\ q # p => Passed(p, k) = Passed(p, k - 1)
  BY <1>1, PassedOneMore
<1>6. CASE next = k /\ next' = k + 1 /\ undone' = undone
  <2>1. next' - 1 = k /\ next - 1 = k - 1
    BY <1>6
  <2>2. Passed(p, next' - 1) = Passed(p, k) /\ Passed(p, next - 1) = Passed(p, k - 1)
        /\ Passed(p, undone') = Passed(p, undone)
    BY <1>6, <2>1
  <2>5. /\ Passed(p, next' - 1) = Passed(p, k) /\ Passed(p, next - 1) = Passed(p, k - 1)
        /\ Passed(p, undone') = Passed(p, undone) /\ Passed(p, undone) \in Nat
        /\ Passed(p, k - 1) \in Nat /\ m \in Nat /\ start[p].reserved \in Nat
    BY <1>3, <1>4, <1>5, <2>2
  <2>3. CASE q = p
    <3>1. inventory'[p].reserved = IF call = "reserve" THEN inventory[p].reserved + m
                                                       ELSE inventory[p].reserved - m
      BY <1>6, <2>3
    <3>2. Passed(p, k) = Passed(p, k - 1) + m
      BY <1>5, <2>3
    <3>3. CASE call = "reserve"
      <4>1. inventory'[p].reserved = inventory[p].reserved + m
        BY <3>1, <3>3
      <4>2. inventory[p].reserved = start[p].reserved + Passed(p, next - 1) - Passed(p, undone)
        BY <1>3, <3>3
      <4>3. (start[p].reserved + Passed(p, k - 1) - Passed(p, undone)) + m
              = start[p].reserved + (Passed(p, k - 1) + m) - Passed(p, undone)
        <5>1. PICK s, c, u \in Nat :
                s = start[p].reserved /\ c = Passed(p, k - 1) /\ u = Passed(p, undone)
          BY <2>5
        <5>2. (s + c - u) + m = s + (c + m) - u
          BY <2>5
        <5> QED
          BY <5>1, <5>2
      <4> QED
        BY <2>5, <3>2, <3>3, <4>1, <4>2, <4>3
    <3>4. CASE call # "reserve"
      <4>1. inventory'[p].reserved = inventory[p].reserved - m
        BY <3>1, <3>4
      <4>2. inventory[p].reserved = start[p].reserved - Passed(p, next - 1)
        BY <1>3, <3>4
      <4>3. (start[p].reserved - Passed(p, k - 1)) - m = start[p].reserved - (Passed(p, k - 1) + m)
        <5>1. \A s, c, x \in Nat : (s - c) - x = s - (c + x)
          OBVIOUS
        <5> QED
          BY <2>5, <5>1
      <4> QED
        BY <2>5, <3>2, <3>4, <4>1, <4>2, <4>3
    <3> QED
      BY <3>3, <3>4
  <2>4. CASE q # p
    <3>1. inventory'[p] = inventory[p]
      BY <2>4
    <3> QED
      BY <1>3, <1>4, <1>5, <2>2, <2>4, <3>1
  <2> QED
    BY <2>3, <2>4
<1>7. CASE call = "reserve" /\ undone = k - 1 /\ undone' = k /\ next' = next
  <2>1. Passed(p, next' - 1) = Passed(p, next - 1) /\ Passed(p, undone') = Passed(p, k)
        /\ Passed(p, undone) = Passed(p, k - 1)
    BY <1>7
  <2>2. CASE q = p
    <3>1. inventory'[p].reserved = inventory[p].reserved - m
      BY <1>7, <2>2
    <3>2. Passed(p, k) = Passed(p, k - 1) + m
      BY <1>5, <2>2
    <3>3. inventory[p].reserved = start[p].reserved + Passed(p, next - 1) - Passed(p, undone)
      BY <1>3, <1>7
    <3>4. inventory'[p].reserved = start[p].reserved + Passed(p, next' - 1) - Passed(p, undone')
      <4>1. /\ Passed(p, next - 1) \in Nat /\ Passed(p, k - 1) \in Nat
            /\ m \in Nat /\ start[p].reserved \in Nat
        BY <1>3, <1>4, <1>5
      <4>2. inventory[p].reserved = start[p].reserved + Passed(p, next - 1) - Passed(p, k - 1)
        BY <2>1, <3>3
      <4>3. (start[p].reserved + Passed(p, next - 1) - Passed(p, k - 1)) - m
              = start[p].reserved + Passed(p, next - 1) - (Passed(p, k - 1) + m)
        <5>1. PICK s, c, u \in Nat :
                s = start[p].reserved /\ c = Passed(p, next - 1) /\ u = Passed(p, k - 1)
          BY <4>1
        <5>2. (s + c - u) - m = s + c - (u + m)
          BY <4>1
        <5> QED
          BY <5>1, <5>2
      <4> QED
        BY <2>1, <3>1, <3>2, <4>2, <4>3
    <3> QED
      BY <1>7, <3>4
  <2>3. CASE q # p
    <3>1. inventory'[p] = inventory[p]
      BY <2>3
    <3> QED
      BY <1>3, <1>4, <1>5, <1>7, <2>1, <2>3, <3>1
  <2> QED
    BY <2>2, <2>3
<1> QED
  BY <1>6, <1>7

LEMMA ReserveItemInv == ASSUME ReservationIInv, ReserveItem PROVE ReservationIInv'
<1> USE ReservationAssumption
<1>1. PICK k \in 1 .. Len(items), q \in Product, m \in 1 .. MaxAmount :
        /\ next = k /\ Item = items[k] /\ q = items[k].product /\ m = items[k].quantity
        /\ items[k] \in OrderItem
  <2>1. AtItem("reserve") /\ Item.quantity > 0
    BY DEF ReserveItem
  <2> QED
    BY <2>1, AtWalk DEF Item
<1>2. /\ call = "reserve" /\ phase = "walk" /\ outcome = "none" /\ undone = 0
      /\ inventory[q] # NoEntry /\ m <= inventory[q].quantity - inventory[q].reserved
  BY <1>1, AtWalk DEF ReserveItem, Held, Available
<1>3. inventory[q].reserved + m \in 0 .. inventory[q].quantity
  <2>1. inventory[q].reserved \in Nat /\ inventory[q].quantity \in Nat
    BY <1>2, Types DEF Entry
  <2> QED
    BY <1>2, <2>1
<1>4. /\ inventory' = [inventory EXCEPT ![q].reserved = inventory[q].reserved + m]
      /\ reservedSoFar' = Append(reservedSoFar, items[k]) /\ next' = k + 1
      /\ UNCHANGED <<call, items, start, undone, phase, outcome>>
  <2>1. inventory' = [inventory EXCEPT ![q].reserved = @ + m]
    BY <1>1 DEF ReserveItem
  <2> QED
    BY <1>1, <2>1 DEF ReserveItem
<1>5. /\ inventory' \in [Product -> Entry \cup {NoEntry}]
      /\ inventory'[q].reserved = inventory[q].reserved + m
      /\ \A p \in Product \ {q} : inventory'[p] = inventory[p]
      /\ \A p \in Product : inventory'[p] = NoEntry <=> inventory[p] = NoEntry
      /\ EntriesStay' /\ NeverOverReserved'
  BY <1>2, <1>3, <1>4, Moving
<1>6. Accounted'
  <2>1. UNCHANGED <<call, items, start>> /\ inventory[q] # NoEntry /\ q = items[k].product
        /\ m = items[k].quantity
    BY <1>1, <1>2, <1>4
  <2>2. next = k /\ next' = k + 1 /\ undone' = undone
    BY <1>1, <1>4
  <2>3. inventory'[q].reserved = IF call = "reserve" THEN inventory[q].reserved + m
                                                     ELSE inventory[q].reserved - m
    BY <1>2, <1>5
  <2>4. /\ \A p \in Product : inventory'[p] = NoEntry <=> inventory[p] = NoEntry
        /\ \A p \in Product \ {q} : inventory'[p] = inventory[p]
    BY <1>5
  <2> QED
    BY <2>1, <2>2, <2>3, <2>4, AccountedAfter
<1>7. /\ reservedSoFar \in Seq(OrderItem) /\ Len(reservedSoFar) = k - 1
      /\ Len(items) \in 0 .. MaxItems /\ items \in Seq(OrderItem)
  BY <1>1, <1>2, Types DEF ReservationIInv, ItemsRecorded
<1>8. reservedSoFar' \in Seq(OrderItem) /\ Len(reservedSoFar') = k
  BY <1>1, <1>4, <1>7
<1>9. TypeOK' /\ start' \in [Product -> Entry \cup {NoEntry}]
  <2>1. reservedSoFar' \in BoundedSeq(OrderItem, MaxItems)
    <3>1. Len(reservedSoFar') <= MaxItems
      BY <1>7, <1>8
    <3> QED
      BY <1>8, <3>1, BoundedSeqs
  <2>2. next' \in 1 .. Len(items') + 1 /\ undone' \in 0 .. Len(reservedSoFar')
    BY <1>2, <1>4, <1>7, <1>8
  <2> QED
    BY <1>4, <1>5, <2>1, <2>2 DEF ReservationIInv, TypeOK
<1>10. PhasesOK' /\ StoppedShort'
  BY <1>2, <1>4 DEF PhasesOK, StoppedShort
<1>11. ItemsRecorded'
  <2>1. \A i \in 1 .. k : reservedSoFar'[i] = items[i] /\ inventory[items[i].product] # NoEntry
    <3> TAKE i \in 1 .. k
    <3>1. CASE i = k
      BY <1>1, <1>2, <1>4, <1>7, <3>1
    <3>2. CASE i # k
      <4>1. i \in 1 .. k - 1
        BY <1>1, <3>2
      <4>2. reservedSoFar'[i] = reservedSoFar[i]
        BY <1>4, <1>7, <4>1
      <4> QED
        BY <1>1, <1>2, <4>1, <4>2 DEF ReservationIInv, ItemsRecorded
    <3> QED
      BY <3>1, <3>2
  <2>2. \A i \in 1 .. k : items[i] \in OrderItem
    BY <1>7
  <2>3. \A i \in 1 .. k : inventory'[items[i].product] # NoEntry
    BY <1>5, <2>1, <2>2 DEF OrderItem
  <2>4. next' - 1 = k
    BY <1>1, <1>4
  <2> QED
    BY <1>4, <1>8, <2>1, <2>3, <2>4 DEF ItemsRecorded
<1> QED
  BY <1>5, <1>6, <1>9, <1>10, <1>11 DEF ReservationIInv

LEMMA UndoInv == ASSUME ReservationIInv, Undo PROVE ReservationIInv'
<1> USE ReservationAssumption
<1>1. /\ call = "reserve" /\ phase = "rollback" /\ undone < Len(reservedSoFar)
      /\ Len(reservedSoFar) = next - 1 /\ undone \in Nat /\ next \in 1 .. Len(items) + 1
      /\ Len(items) \in Nat /\ items \in Seq(OrderItem)
  BY Types DEF Undo, ReservationIInv, PhasesOK, ItemsRecorded
<1>2. PICK k \in 1 .. Len(items), q \in Product, m \in 0 .. MaxAmount :
        /\ undone = k - 1 /\ k \in 1 .. next - 1 /\ q = items[k].product /\ m = items[k].quantity
        /\ reservedSoFar[k] = items[k] /\ inventory[q] # NoEntry
  <2>1. undone + 1 \in 1 .. next - 1 /\ undone + 1 \in 1 .. Len(items)
    BY <1>1
  <2>2. items[undone + 1] \in OrderItem
    BY <1>1, <2>1
  <2>3. /\ reservedSoFar[undone + 1] = items[undone + 1]
        /\ inventory[items[undone + 1].product] # NoEntry
    BY <1>1, <2>1 DEF ReservationIInv, ItemsRecorded
  <2>4. undone = (undone + 1) - 1
    BY <1>1
  <2> QED
    BY <2>1, <2>2, <2>3, <2>4 DEF OrderItem
<1>3. /\ m <= inventory[q].reserved
      /\ inventory' = [inventory EXCEPT ![q].reserved = inventory[q].reserved - m]
      /\ undone' = k
      /\ UNCHANGED <<call, items, start, next, reservedSoFar, phase, outcome>>
  <2>1. undone + 1 = k
    BY <1>2
  <2>2. m <= Held(q).reserved /\ inventory' = [inventory EXCEPT ![q].reserved = @ - m]
    BY <1>2, <2>1 DEF Undo
  <2> QED
    BY <2>1, <2>2 DEF Undo, Held
<1>4. inventory[q].reserved - m \in 0 .. inventory[q].quantity
  <2>1. inventory[q].reserved \in 0 .. inventory[q].quantity /\ inventory[q].quantity \in Nat
    BY <1>2, Types DEF Entry, ReservationIInv, NeverOverReserved
  <2>2. m <= inventory[q].reserved
    BY <1>3
  <2> QED
    BY <2>1, <2>2
<1>5. /\ inventory' \in [Product -> Entry \cup {NoEntry}]
      /\ inventory'[q].reserved = inventory[q].reserved - m
      /\ \A p \in Product \ {q} : inventory'[p] = inventory[p]
      /\ \A p \in Product : inventory'[p] = NoEntry <=> inventory[p] = NoEntry
      /\ EntriesStay' /\ NeverOverReserved'
  <2>1. PICK r \in 0 .. inventory[q].quantity : r = inventory[q].reserved - m
    BY <1>4
  <2>2. inventory' = [inventory EXCEPT ![q].reserved = r] /\ start' = start
    BY <1>3, <2>1
  <2>3. inventory[q] # NoEntry
    BY <1>2
  <2> QED
    BY <2>1, <2>2, <2>3, Moving
<1>6. Accounted'
  <2>1. UNCHANGED <<call, items, start>> /\ inventory[q] # NoEntry /\ q = items[k].product
        /\ m = items[k].quantity
    BY <1>2, <1>3
  <2>2. call = "reserve" /\ undone = k - 1 /\ undone' = k /\ next' = next
        /\ inventory'[q].reserved = inventory[q].reserved - m
    BY <1>1, <1>2, <1>3, <1>5
  <2>3. /\ \A p \in Product : inventory'[p] = NoEntry <=> inventory[p] = NoEntry
        /\ \A p \in Product \ {q} : inventory'[p] = inventory[p]
    BY <1>5
  <2> QED
    BY <2>1, <2>2, <2>3, AccountedAfter
<1>7. TypeOK' /\ start' \in [Product -> Entry \cup {NoEntry}]
  <2>1. undone' \in 0 .. Len(reservedSoFar')
    BY <1>1, <1>2, <1>3
  <2> QED
    BY <1>3, <1>5, <2>1 DEF ReservationIInv, TypeOK
<1>8. PhasesOK'
  BY <1>1, <1>3 DEF ReservationIInv, PhasesOK
<1>9. StoppedShort'
  BY <1>3, StopStays DEF ReservationIInv, StoppedShort, Stopped
<1>10. ItemsRecorded'
  <2>1. \A i \in 1 .. next - 1 : items[i].product \in Product
    <3>1. \A i \in 1 .. next - 1 : i \in 1 .. Len(items) /\ items[i] \in OrderItem
      BY <1>1
    <3> QED
      BY <3>1 DEF OrderItem
  <2> QED
    BY <1>3, <1>5, <2>1 DEF ReservationIInv, ItemsRecorded
<1> QED
  BY <1>5, <1>6, <1>7, <1>8, <1>9, <1>10 DEF ReservationIInv

LEMMA ReleaseItemInv == ASSUME ReservationIInv, ReleaseItem PROVE ReservationIInv'
<1> USE ReservationAssumption
<1>1. PICK k \in 1 .. Len(items), q \in Product, m \in 0 .. MaxAmount :
        /\ next = k /\ Item = items[k] /\ q = items[k].product /\ m = items[k].quantity
  <2>1. AtItem("release")
    BY DEF ReleaseItem
  <2> QED
    BY <2>1, AtWalk DEF Item
<1>2. /\ call = "release" /\ phase = "walk" /\ outcome = "none" /\ undone = 0
      /\ inventory[q] # NoEntry /\ m <= inventory[q].reserved
  BY <1>1, AtWalk DEF ReleaseItem, Held
<1>3. inventory[q].reserved - m \in 0 .. inventory[q].quantity
  <2>1. inventory[q].reserved \in 0 .. inventory[q].quantity /\ inventory[q].quantity \in Nat
    BY <1>2, Types DEF Entry, ReservationIInv, NeverOverReserved
  <2> QED
    BY <1>2, <2>1
<1>4. /\ inventory' = [inventory EXCEPT ![q].reserved = inventory[q].reserved - m]
      /\ next' = k + 1
      /\ UNCHANGED <<call, items, start, reservedSoFar, undone, phase, outcome>>
  <2>1. inventory' = [inventory EXCEPT ![q].reserved = @ - m]
    BY <1>1 DEF ReleaseItem
  <2> QED
    BY <1>1, <2>1 DEF ReleaseItem
<1>5. /\ inventory' \in [Product -> Entry \cup {NoEntry}]
      /\ inventory'[q].reserved = inventory[q].reserved - m
      /\ \A p \in Product \ {q} : inventory'[p] = inventory[p]
      /\ \A p \in Product : inventory'[p] = NoEntry <=> inventory[p] = NoEntry
      /\ EntriesStay' /\ NeverOverReserved'
  BY <1>2, <1>3, <1>4, Moving
<1>6. Accounted'
  <2>1. UNCHANGED <<call, items, start>> /\ inventory[q] # NoEntry /\ q = items[k].product
        /\ m = items[k].quantity
    BY <1>1, <1>2, <1>4
  <2>2. next = k /\ next' = k + 1 /\ undone' = undone
    BY <1>1, <1>4
  <2>3. inventory'[q].reserved = IF call = "reserve" THEN inventory[q].reserved + m
                                                     ELSE inventory[q].reserved - m
    BY <1>2, <1>5
  <2>4. /\ \A p \in Product : inventory'[p] = NoEntry <=> inventory[p] = NoEntry
        /\ \A p \in Product \ {q} : inventory'[p] = inventory[p]
    BY <1>5
  <2> QED
    BY <2>1, <2>2, <2>3, <2>4, AccountedAfter
<1>7. TypeOK' /\ start' \in [Product -> Entry \cup {NoEntry}]
  <2>1. next' \in 1 .. Len(items') + 1
    BY <1>1, <1>4, Types
  <2> QED
    BY <1>4, <1>5, <2>1 DEF ReservationIInv, TypeOK
<1>8. PhasesOK' /\ StoppedShort' /\ ItemsRecorded'
  BY <1>2, <1>4 DEF ReservationIInv, PhasesOK, StoppedShort, ItemsRecorded
<1> QED
  BY <1>5, <1>6, <1>7, <1>8 DEF ReservationIInv
-----------------------------------------------------------------------------
(* The steps that leave the dict alone.                                    *)

\* The item at hand fits what is left of its entry exactly when all that is
\* wanted of the product up to here fits what the entry was.
LEMMA FitsHere ==
  ASSUME ReservationIInv, NEW method, AtItem(method), inventory[Item.product] # NoEntry
  PROVE  Fits(start[Item.product], Passed(Item.product, next)) <=> Fits(inventory[Item.product], Item.quantity)
<1>1. PICK k \in 1 .. Len(items), q \in Product, m \in Nat :
        /\ next = k /\ q = items[k].product /\ m = items[k].quantity
        /\ q = Item.product /\ m = Item.quantity
  <2>1. Item.quantity \in Nat
    BY AtWalk, ReservationAssumption
  <2> QED
    BY <2>1, AtWalk DEF Item
<1>2. undone = 0 /\ call \in {"reserve", "release"} /\ items \in Seq(OrderItem) /\ inventory[q] # NoEntry
  BY <1>1, AtWalk, Types DEF ReservationIInv, TypeOK
<1>3. /\ start[q].reserved \in Nat /\ start[q].quantity \in Nat
      /\ inventory[q].quantity = start[q].quantity /\ inventory[q].reserved \in Nat
  BY <1>2, Types DEF Entry, ReservationIInv, EntriesStay
<1>4. Passed(q, k - 1) \in Nat /\ Passed(q, k) = Passed(q, k - 1) + m
  BY <1>1, <1>2, PassedOneMore
<1>5. CASE call = "reserve"
  <2>1. inventory[q].reserved = start[q].reserved + Passed(q, k - 1) - Passed(q, 0)
    BY <1>1, <1>2, <1>5 DEF ReservationIInv, Accounted
  <2>2. inventory[q].reserved = start[q].reserved + Passed(q, k - 1)
    BY <1>3, <1>4, <2>1, PassedNone
  <2>3. Passed(q, k) <= start[q].quantity - start[q].reserved
          <=> m <= inventory[q].quantity - inventory[q].reserved
    <3>1. \A t, s, c, n \in Nat : c + n <= t - s <=> n <= t - (s + c)
      OBVIOUS
    <3> QED
      BY <1>3, <1>4, <2>2, <3>1
  <2> QED
    BY <1>1, <1>5, <2>3 DEF Fits, Available
<1>6. CASE call = "release"
  <2>1. inventory[q].reserved = start[q].reserved - Passed(q, k - 1)
    BY <1>1, <1>2, <1>6 DEF ReservationIInv, Accounted
  <2>2. Passed(q, k) <= start[q].reserved <=> m <= inventory[q].reserved
    BY <1>3, <1>4, <2>1
  <2> QED
    BY <1>1, <1>6, <2>2 DEF Fits
<1> QED
  BY <1>2, <1>5, <1>6

\* A call that stops has met an item nothing is kept for, one that wants
\* nothing, or one that does not fit.
LEMMA StopsShort ==
  ASSUME ReservationIInv, NEW method, AtItem(method),
         \/ inventory[Item.product] = NoEntry
         \/ Item.quantity <= 0
         \/ inventory[Item.product] # NoEntry /\ ~Fits(inventory[Item.product], Item.quantity)
  PROVE  Stopped
<1>1. next \in 1 .. Len(items) /\ Item = items[next] /\ Item.product \in Product /\ Item.quantity \in Nat
  BY AtWalk, ReservationAssumption DEF Item
<1>2. next \in DOMAIN items
  BY <1>1, Types
<1>3. CASE inventory[Item.product] = NoEntry
  <2>1. start[items[next].product] = NoEntry
    BY <1>1, <1>3 DEF ReservationIInv, EntriesStay
  <2> QED
    BY <1>1, <1>2, <2>1 DEF WellFormed, Stopped
<1>4. CASE Item.quantity <= 0
  <2>1. ~(items[next].quantity > 0)
    BY <1>1, <1>4
  <2> QED
    BY <1>1, <1>2, <2>1 DEF WellFormed, Stopped
<1>5. CASE inventory[Item.product] # NoEntry /\ ~Fits(inventory[Item.product], Item.quantity)
  BY <1>1, <1>5, FitsHere DEF Stopped
<1> QED
  BY <1>3, <1>4, <1>5

\* They leave the loops' positions alone, too.
LEMMA InventoryAlone ==
  ASSUME ReservationIInv, UNCHANGED <<call, items, inventory, start, next, reservedSoFar, undone>>,
         phase' \in {"walk", "rollback", "done"}, outcome' \in Outcomes, PhasesOK',
         (phase' = "rollback" \/ outcome' \notin {"none", "returned"}) => Stopped
  PROVE  ReservationIInv'
<1>1. TypeOK' /\ start' \in [Product -> Entry \cup {NoEntry}]
  BY DEF ReservationIInv, TypeOK
<1>2. EntriesStay' /\ ItemsRecorded' /\ NeverOverReserved'
  BY DEF ReservationIInv, EntriesStay, ItemsRecorded, NeverOverReserved
<1>3. Accounted'
  <2>1. \A p, n : Passed(p, n)' = Passed(p, n)
    BY PassedStays
  <2> QED
    BY <2>1 DEF ReservationIInv, Accounted
<1>4. StoppedShort'
  BY StopStays DEF StoppedShort, Stopped
<1> QED
  BY <1>1, <1>2, <1>3, <1>4 DEF ReservationIInv

LEMMA ReservationStep == ASSUME ReservationIInv, [Next]_vars PROVE ReservationIInv'
<1>1. ASSUME NEW method \in {"reserve", "release"}, NoInventory(method) PROVE ReservationIInv'
  <2>1. PhasesOK'
    BY <1>1 DEF NoInventory, AtItem, Raise, End, ReservationIInv, PhasesOK
  <2>2. Stopped
    BY <1>1, StopsShort DEF NoInventory, Held
  <2> QED
    BY <1>1, <2>1, <2>2, InventoryAlone DEF NoInventory, Raise, End, Outcomes
<1>2. CASE BadReserve
  <2>1. PhasesOK'
    BY <1>2 DEF BadReserve, AtItem, Raise, End, ReservationIInv, PhasesOK
  <2>2. Stopped
    BY <1>2, StopsShort DEF BadReserve
  <2> QED
    BY <1>2, <2>1, <2>2, InventoryAlone DEF BadReserve, Raise, End, Outcomes
<1>3. CASE Shortage
  <2>1. PhasesOK' /\ outcome' \in Outcomes
    BY <1>3 DEF Shortage, AtItem, ReservationIInv, PhasesOK, TypeOK
  <2>2. Stopped
    <3>1. call = "reserve" /\ AtItem("reserve")
      BY <1>3 DEF Shortage, AtItem
    <3>2. Item.quantity \in Nat /\ Available(inventory[Item.product]) \in Int
      <4>1. Item.quantity \in Nat /\ inventory[Item.product] \in Entry
        BY <1>3, <3>1, AtWalk, Types DEF Shortage, Held
      <4> QED
        BY <4>1, ReservationAssumption DEF Entry, Available
    <3>3. inventory[Item.product] # NoEntry /\ ~(Item.quantity <= Available(inventory[Item.product]))
      BY <1>3, <3>2 DEF Shortage, Held
    <3>4. ~Fits(inventory[Item.product], Item.quantity)
      BY <3>1, <3>3 DEF Fits
    <3> QED
      BY <3>1, <3>3, <3>4, StopsShort
  <2> QED
    BY <1>3, <2>1, <2>2, InventoryAlone DEF Shortage
<1>4. CASE Reraise
  <2>1. PhasesOK'
    BY <1>4 DEF Reraise, Raise, End, ReservationIInv, PhasesOK
  <2>2. Stopped
    BY <1>4 DEF Reraise, ReservationIInv, StoppedShort, Stopped
  <2> QED
    BY <1>4, <2>1, <2>2, InventoryAlone DEF Reraise, Raise, End, Outcomes
<1>5. CASE BadRelease
  <2>1. PhasesOK'
    BY <1>5 DEF BadRelease, AtItem, Raise, End, ReservationIInv, PhasesOK
  <2>2. Stopped
    <3>1. call = "release" /\ AtItem("release") /\ inventory[Item.product] # NoEntry
          /\ (Item.quantity <= 0 \/ Item.quantity > inventory[Item.product].reserved)
      BY <1>5 DEF BadRelease, AtItem, Held
    <3>2. Item.quantity \in Nat /\ inventory[Item.product].reserved \in Nat
      <4>1. Item.quantity \in Nat /\ inventory[Item.product] \in Entry
        BY <3>1, AtWalk, Types
      <4> QED
        BY <4>1, ReservationAssumption DEF Entry
    <3>3. Item.quantity <= 0 \/ ~(Item.quantity <= inventory[Item.product].reserved)
      BY <3>1, <3>2
    <3>4. Item.quantity <= 0 \/ ~Fits(inventory[Item.product], Item.quantity)
      BY <3>1, <3>3 DEF Fits
    <3> QED
      BY <3>1, <3>4, StopsShort
  <2> QED
    BY <1>5, <2>1, <2>2, InventoryAlone DEF BadRelease, Raise, End, Outcomes
<1>6. CASE Return
  <2>1. next = Len(items) + 1
    BY <1>6, Types DEF Return
  <2>2. PhasesOK'
    BY <1>6, <2>1 DEF Return, Raise, End, ReservationIInv, PhasesOK
  <2> QED
    BY <1>6, <2>2, InventoryAlone DEF Return, Raise, End, Outcomes
<1>7. CASE UNCHANGED vars
  <2>1. PhasesOK' /\ outcome' \in Outcomes /\ phase' \in {"walk", "rollback", "done"}
    BY <1>7 DEF vars, ReservationIInv, PhasesOK, TypeOK
  <2>2. (phase' = "rollback" \/ outcome' \notin {"none", "returned"}) => Stopped
    BY <1>7 DEF vars, ReservationIInv, StoppedShort, Stopped
  <2> QED
    BY <1>7, <2>1, <2>2, InventoryAlone DEF vars
<1> QED
  BY <1>1, <1>2, <1>3, <1>4, <1>5, <1>6, <1>7, ReserveItemInv, UndoInv, ReleaseItemInv
  DEF Next, Finished

\* The loops keep their types, the dict its entries, and what is reserved is
\* what was before plus what the items passed want less what is undone, for
\* any products and lists of items (OrderReservationService.reserve, release).
THEOREM ReservationInvariant == Spec => []ReservationIInv
<1> QED
  BY ReservationInit, ReservationStep, PTL DEF Spec

-----------------------------------------------------------------------------
(* What follows.                                                           *)

\* No point of either loop leaves an entry over- or under-reserved.
THEOREM LoopsNeverOverReserve == Spec => []NeverOverReserved
<1>1. ReservationIInv => NeverOverReserved
  BY DEF ReservationIInv
<1> QED
  BY <1>1, ReservationInvariant, PTL

\* What the rollback has yet to give back of a product is still reserved: the
\* release() calls in the except branch of reserve() find their amounts.
LEMMA StillReserved == ReservationIInv => RollbackCannotFail
<1> SUFFICES ASSUME ReservationIInv, phase = "rollback", undone < Len(reservedSoFar)
             PROVE  reservedSoFar[undone + 1].quantity <= inventory[reservedSoFar[undone + 1].product].reserved
  BY DEF RollbackCannotFail
<1>1. /\ call = "reserve" /\ Len(reservedSoFar) = next - 1 /\ undone \in Nat
      /\ next \in 1 .. Len(items) + 1 /\ Len(items) \in Nat /\ items \in Seq(OrderItem)
  BY Types DEF ReservationIInv, PhasesOK, ItemsRecorded
<1>2. PICK k \in 1 .. Len(items) : k = undone + 1 /\ k \in 1 .. next - 1
  BY <1>1
<1>3. PICK q \in Product, m \in Nat :
        /\ q = items[k].product /\ m = items[k].quantity /\ reservedSoFar[k] = items[k]
        /\ inventory[q] # NoEntry
  <2>1. items[k] \in OrderItem
    BY <1>1
  <2>2. items[k].product \in Product /\ items[k].quantity \in Nat
    BY <2>1, ReservationAssumption DEF OrderItem
  <2> QED
    BY <1>1, <1>2, <2>2 DEF ReservationIInv, ItemsRecorded
<1>4. start[q].reserved \in Nat
  BY <1>3, Types DEF Entry
<1>5. inventory[q].reserved = start[q].reserved + Passed(q, next - 1) - Passed(q, undone)
  BY <1>1, <1>3 DEF ReservationIInv, Accounted
<1>6. undone = k - 1
  BY <1>1, <1>2
<1>7. Passed(q, undone) \in Nat /\ Passed(q, k) = Passed(q, undone) + m
  BY <1>1, <1>3, <1>6, PassedOneMore
<1>8. Passed(q, k) <= Passed(q, next - 1) /\ Passed(q, next - 1) \in Nat
  <2>1. next - 1 \in 0 .. Len(items) /\ k \in 0 .. next - 1
    BY <1>1, <1>2
  <2> QED
    BY <1>1, <2>1, PassedGrows
<1>9. m <= inventory[q].reserved
  BY <1>4, <1>5, <1>7, <1>8
<1> QED
  BY <1>2, <1>3, <1>9

\* InsufficientInventoryError is never masked by an error of the rollback.
THEOREM RollbackNeverFails == Spec => []RollbackCannotFail
<1> QED
  BY StillReserved, ReservationInvariant, PTL

\* Once everything recorded is undone, the dict is what it was.
LEMMA AllUndone == ReservationIInv => ShortageLeavesNoTrace
<1> SUFFICES ASSUME ReservationIInv, outcome = "InsufficientInventoryError" PROVE inventory = start
  BY DEF ShortageLeavesNoTrace
<1>1. /\ call = "reserve" /\ undone = next - 1
      /\ next \in 1 .. Len(items) + 1 /\ Len(items) \in Nat /\ items \in Seq(OrderItem)
  BY Types DEF ReservationIInv, PhasesOK, ItemsRecorded
<1>2. \A p \in Product : inventory[p] = start[p]
  <2> TAKE p \in Product
  <2>1. CASE inventory[p] = NoEntry
    BY <2>1 DEF ReservationIInv, EntriesStay
  <2>2. CASE inventory[p] # NoEntry
    <3>1. inventory[p] \in Entry /\ start[p] \in Entry /\ inventory[p].quantity = start[p].quantity
      BY <2>2, Types DEF ReservationIInv, EntriesStay
    <3>2. inventory[p].reserved = start[p].reserved + Passed(p, undone) - Passed(p, undone)
      BY <1>1, <2>2 DEF ReservationIInv, Accounted
    <3>3. Passed(p, undone) \in Nat
      <4>1. undone \in 0 .. Len(items)
        BY <1>1
      <4> QED
        BY <1>1, <4>1, PassedGrows
    <3>4. inventory[p].reserved = start[p].reserved
      <4>1. start[p].reserved \in Nat
        BY <3>1, ReservationAssumption DEF Entry
      <4> QED
        BY <3>2, <3>3, <4>1
    <3> QED
      BY <3>1, <3>4 DEF Entry
  <2> QED
    BY <2>1, <2>2
<1> QED
  BY <1>2 DEF ReservationIInv, TypeOK

\* A shortage at any item leaves the dict as it was passed in.
THEOREM ShortagesLeaveNoTrace == Spec => []ShortageLeavesNoTrace
<1> QED
  BY AllUndone, ReservationInvariant, PTL

-----------------------------------------------------------------------------
(* The walk and the totals.                                                *)

\* What is wanted of a product is wanted by an item, and the other way round.
LEMMA TotalsAreNamed ==
  ASSUME items \in Seq(OrderItem), NEW p
  PROVE  /\ Total(p) \in Nat
         /\ Total(p) > 0 => \E i \in 1 .. Len(items) : items[i].product = p
         /\ \A i \in 1 .. Len(items) :
              items[i].product = p => items[i].quantity <= Total(p) /\ Passed(p, i) <= Total(p)
<1>1. PICK n \in Nat : n = Len(items)
  OBVIOUS
<1>2. Total(p) = Passed(p, n)
  BY <1>1 DEF Total
<1>3. Total(p) \in Nat
  BY <1>1, <1>2, PassedGrows
<1>4. ASSUME \A i \in 1 .. Len(items) : items[i].product # p PROVE Total(p) = 0
  <2>1. PICK a : a = [i \in 1 .. Len(items) |-> items[i].quantity]
    OBVIOUS
  <2>2. Passed(p, n) = SumFunctionOnSet(a, ItemsOf(p, n))
    BY <1>1, <2>1, PassedIsSum
  <2>3. ItemsOf(p, n) = {}
    BY <1>1, <1>4 DEF ItemsOf
  <2> QED
    BY <1>2, <2>2, <2>3, SumOfNone
<1>5. ASSUME NEW i \in 1 .. Len(items), items[i].product = p
      PROVE  items[i].quantity <= Total(p) /\ Passed(p, i) <= Total(p)
  <2>1. Passed(p, i - 1) \in Nat /\ items[i].quantity \in Nat
        /\ Passed(p, i) = Passed(p, i - 1) + items[i].quantity
    BY <1>5, PassedOneMore
  <2>2. Passed(p, i) <= Total(p)
    BY <1>1, <1>2, <1>5, PassedGrows
  <2> QED
    BY <1>3, <2>1, <2>2
<1> QED
  BY <1>3, <1>4, <1>5

\* A call that returns has moved the totals, which fit.
LEMMA TotalsMoved ==
  ASSUME ReservationIInv, WellFormed, outcome = "returned", NEW p \in Product
  PROVE  /\ Total(p) > 0 => Fits(start[p], Total(p)) /\ inventory[p] = Moved(start[p], Total(p))
         /\ ~(Total(p) > 0) => inventory[p] = start[p]
<1>1. /\ items \in Seq(OrderItem) /\ Len(items) \in Nat /\ next = Len(items) + 1 /\ undone = 0
      /\ call \in {"reserve", "release"}
  BY Types DEF ReservationIInv, TypeOK, PhasesOK
<1>2. next - 1 = Len(items) /\ Total(p) \in Nat
  BY <1>1, TotalsAreNamed
<1>3. Total(p) > 0 => inventory[p] # NoEntry
  <2>1. \A i \in 1 .. Len(items) : start[items[i].product] # NoEntry
    BY <1>1 DEF WellFormed
  <2> QED
    BY <1>1, <2>1, TotalsAreNamed DEF ReservationIInv, EntriesStay
<1>4. CASE inventory[p] = NoEntry
  BY <1>3, <1>4 DEF ReservationIInv, EntriesStay
<1>5. CASE inventory[p] # NoEntry
  <2>1. inventory[p] \in Entry /\ start[p] \in Entry /\ inventory[p].quantity = start[p].quantity
    BY <1>5, Types DEF ReservationIInv, EntriesStay
  <2>2. /\ start[p].reserved \in Nat /\ start[p].quantity \in Nat
        /\ inventory[p].reserved \in 0 .. start[p].quantity
    BY <1>5, <2>1, ReservationAssumption DEF Entry, ReservationIInv, NeverOverReserved
  <2>3. CASE call = "reserve"
    <3>1. inventory[p].reserved = start[p].reserved + Total(p) - 0
      BY <1>1, <1>2, <1>5, <2>3, PassedNone DEF ReservationIInv, Accounted, Total
    <3>2. inventory[p].reserved = start[p].reserved + Total(p)
      BY <1>2, <2>2, <3>1
    <3>3. Total(p) <= start[p].quantity - start[p].reserved
      BY <1>2, <2>2, <3>2
    <3>4. Fits(start[p], Total(p))
      BY <2>3, <3>3 DEF Fits, Available
    <3>5. inventory[p] = Moved(start[p], Total(p))
      BY <2>1, <2>3, <3>2 DEF Moved, Entry
    <3>6. Total(p) = 0 => inventory[p] = start[p]
      <4>1. Total(p) = 0 => inventory[p].reserved = start[p].reserved
        BY <2>2, <3>2
      <4> QED
        BY <2>1, <4>1 DEF Entry
    <3> QED
      BY <1>2, <3>4, <3>5, <3>6
  <2>4. CASE call = "release"
    <3>1. inventory[p].reserved = start[p].reserved - Total(p)
      BY <1>1, <1>2, <1>5, <2>4 DEF ReservationIInv, Accounted, Total
    <3>2. Total(p) <= start[p].reserved
      BY <1>2, <2>2, <3>1
    <3>3. Fits(start[p], Total(p))
      BY <2>4, <3>2 DEF Fits
    <3>4. inventory[p] = Moved(start[p], Total(p))
      BY <2>1, <2>4, <3>1 DEF Moved, Entry
    <3>5. Total(p) = 0 => inventory[p] = start[p]
      <4>1. Total(p) = 0 => inventory[p].reserved = start[p].reserved
        BY <2>2, <3>1
      <4> QED
        BY <2>1, <4>1 DEF Entry
    <3> QED
      BY <1>2, <3>3, <3>4, <3>5
  <2> QED
    BY <1>1, <2>3, <2>4
<1> QED
  BY <1>4, <1>5

\* A call that stops short has met a total that does not fit.
LEMMA TotalTooMuch ==
  ASSUME ReservationIInv, WellFormed, phase = "done", outcome # "returned"
  PROVE  \E p \in Product : Total(p) > 0 /\ ~Fits(start[p], Total(p))
<1>1. items \in Seq(OrderItem) /\ next \in 1 .. Len(items) /\ Len(items) \in Nat
      /\ ~Fits(start[Item.product], Passed(Item.product, next))
  BY Types DEF ReservationIInv, PhasesOK, StoppedShort
<1>2. PICK q \in Product : q = items[next].product /\ items[next].quantity \in Nat
  <2>1. items[next] \in OrderItem
    BY <1>1
  <2> QED
    BY <2>1, ReservationAssumption DEF OrderItem
<1>3. items[next].quantity > 0 /\ start[q] # NoEntry
  BY <1>1, <1>2 DEF WellFormed
<1>4. Total(q) \in Nat /\ Passed(q, next) <= Total(q) /\ items[next].quantity <= Total(q)
  BY <1>1, <1>2, TotalsAreNamed
<1>5. Passed(q, next) \in Nat
  BY <1>1, PassedOneMore
<1>6. start[q].reserved \in Nat /\ start[q].quantity \in Nat
  <2>1. start[q] \in Entry
    BY <1>3 DEF ReservationIInv
  <2> QED
    BY <2>1, ReservationAssumption DEF Entry
<1>7. ~Fits(start[q], Passed(q, next))
  BY <1>1, <1>2 DEF Item
<1>8. ~Fits(start[q], Total(q))
  BY <1>4, <1>5, <1>6, <1>7 DEF Fits, Available
<1>9. Total(q) > 0
  BY <1>2, <1>3, <1>4
<1> QED
  BY <1>8, <1>9

\* Walking the items of any list one by one, reserve() and release() succeed
\* exactly when the total wanted of each product fits, and then move exactly
\* the totals: an order is one amount per product, however it is listed.
THEOREM LoopsMatchTotals == Spec => []WalkMatchesTotals
<1>1. ReservationIInv => WalkMatchesTotals
  <2> SUFFICES ASSUME ReservationIInv, phase = "done", WellFormed
               PROVE  /\ (outcome = "returned") <=>
                           (\A p \in Product : Total(p) > 0 => Fits(start[p], Total(p)))
                      /\ outcome = "returned" =>
                           inventory = [p \in Product |-> IF Total(p) > 0 THEN Moved(start[p], Total(p))
                                                                         ELSE start[p]]
    BY DEF WalkMatchesTotals
  <2>1. CASE outcome = "returned"
    <3>1. \A p \in Product : Total(p) > 0 => Fits(start[p], Total(p))
      BY <2>1, TotalsMoved
    <3>2. \A p \in Product : inventory[p] = IF Total(p) > 0 THEN Moved(start[p], Total(p)) ELSE start[p]
      BY <2>1, TotalsMoved
    <3>3. inventory \in [Product -> Entry \cup {NoEntry}]
      BY DEF ReservationIInv, TypeOK
    <3>4. inventory = [p \in Product |-> IF Total(p) > 0 THEN Moved(start[p], Total(p)) ELSE start[p]]
      BY <3>2, <3>3
    <3> QED
      BY <2>1, <3>1, <3>4
  <2>2. CASE outcome # "returned"
    BY <2>2, TotalTooMuch
  <2> QED
    BY <2>1, <2>2
<1> QED
  BY <1>1, ReservationInvariant, PTL
=============================================================================
