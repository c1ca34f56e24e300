----------------------------- MODULE FiniteSums -----------------------------
(***************************************************************************)
(* Lemmas on sums over finite sets, as SumFunctionOnSet and MapThenSumSet  *)
(* of the community modules define them.  The stock an order book holds    *)
(* and the total of a list of items are such sums.                         *)
(*                                                                         *)
(* Induction is by a minimal counterexample: a set of subsets of a finite  *)
(* set has a member that contains no other one strictly.                   *)
(***************************************************************************)
EXTENDS Integers, FiniteSetsExt, FiniteSetTheorems, TLAPS

\* A family of subsets of a finite set has a least member, of which every
\* part obtained by taking one element away is outside the family.
LEMMA MinimalSubset ==
  ASSUME NEW S, IsFiniteSet(S),
         NEW F, F \subseteq SUBSET S, F # {}
  PROVE  \E T \in F : \A x \in T : T \ {x} \notin F
<1>1. F \subseteq FiniteSubsetsOf(S)
  BY FS_FiniteSubsetsOfFinite
<1>2. IsWellFoundedOn(StrictSubsetOrdering(S), FiniteSubsetsOf(S))
  BY FS_StrictSubsetOrderingWellFounded
<1>3. PICK T \in F : \A U \in F : <<U, T>> \notin StrictSubsetOrdering(S)
  BY <1>1, <1>2, WFMin
<1>4. ASSUME NEW x \in T PROVE T \ {x} \notin F
  BY <1>3, <1>4 DEF StrictSubsetOrdering
<1> QED
  BY <1>4

IntegersOn(a, S) == \A x \in S : a[x] \in Int

\* g adds up a over every subset of S.
Additive(g, a, S) ==
  /\ g \in [SUBSET S -> Int]
  /\ g[{}] = 0
  /\ \A T \in SUBSET S : \A x \in T : g[T] = a[x] + g[T \ {x}]

\* One more element extends the sums.
LEMMA AdditiveExtends ==
  ASSUME NEW a, NEW T, NEW x \in T, IntegersOn(a, T),
         NEW g, Additive(g, a, T \ {x})
  PROVE  \E h : Additive(h, a, T)
<1> DEFINE h == [U \in SUBSET T |-> IF x \in U THEN a[x] + g[U \ {x}] ELSE g[U]]
<1>1. \A U \in SUBSET T : U \ {x} \in SUBSET (T \ {x})
  OBVIOUS
<1>2. \A U \in SUBSET T : x \notin U => U \in SUBSET (T \ {x})
  OBVIOUS
<1>3. h \in [SUBSET T -> Int]
  BY <1>1, <1>2 DEF Additive, IntegersOn
<1>4. h[{}] = 0
  BY DEF Additive
<1>5. ASSUME NEW U \in SUBSET T, NEW y \in U PROVE h[U] = a[y] + h[U \ {y}]
  <2>1. CASE x \notin U
    <3>1. U \in SUBSET (T \ {x}) /\ U \ {y} \in SUBSET T /\ x \notin U \ {y}
      BY <2>1, <1>2
    <3> QED
      BY <2>1, <3>1 DEF Additive
  <2>2. CASE y = x
    <3>1. x \notin U \ {y} /\ U \ {y} \in SUBSET T /\ x \in U
      BY <2>2
    <3> QED
      BY <2>2, <3>1
  <2>3. CASE x \in U /\ y # x
    <3>1. U \ {y} \in SUBSET T /\ x \in U \ {y} /\ y \in U \ {x}
      BY <2>3
    <3>2. (U \ {y}) \ {x} = (U \ {x}) \ {y}
      OBVIOUS
    <3>3. U \ {x} \in SUBSET (T \ {x}) /\ (U \ {x}) \ {y} \in SUBSET (T \ {x})
      OBVIOUS
    <3>4. g[U \ {x}] = a[y] + g[(U \ {x}) \ {y}] /\ g[(U \ {x}) \ {y}] \in Int
      BY <3>1, <3>3 DEF Additive
    <3>5. h[U] = a[x] + g[U \ {x}]
      BY <2>3
    <3>6. h[U \ {y}] = a[x] + g[(U \ {x}) \ {y}]
      BY <3>1, <3>2
    <3>7. a[x] \in Int /\ a[y] \in Int
      BY DEF IntegersOn
    <3> HIDE DEF h
    <3> QED
      BY <3>4, <3>5, <3>6, <3>7
  <2> QED
    BY <2>1, <2>2, <2>3
<1> HIDE DEF h
<1> QED
  BY <1>3, <1>4, <1>5 DEF Additive

\* Integers over a finite set can be added up.
LEMMA AdditiveExists ==
  ASSUME NEW a, NEW S, IsFiniteSet(S), IntegersOn(a, S)
  PROVE  \E g : Additive(g, a, S)
<1> DEFINE F == {T \in SUBSET S : ~ \E g : Additive(g, a, T)}
<1>1. SUFFICES ASSUME F # {} PROVE FALSE
  OBVIOUS
<1>2. PICK T \in F : \A x \in T : T \ {x} \notin F
  BY <1>1, MinimalSubset
<1>3. CASE T = {}
  <2> DEFINE g == [U \in SUBSET {} |-> 0]
  <2>1. Additive(g, a, T)
    BY <1>3 DEF Additive
  <2> QED
    BY <2>1
<1>4. CASE T # {}
  <2>1. PICK x \in T : TRUE
    BY <1>4
  <2>2. PICK g : Additive(g, a, T \ {x})
    BY <1>2
  <2>3. IntegersOn(a, T)
    BY DEF IntegersOn
  <2>4. \E h : Additive(h, a, T)
    BY <2>2, <2>3, AdditiveExtends
  <2> QED
    BY <2>4
<1> QED
  BY <1>3, <1>4

\* The recursion that SumFunctionOnSet unfolds to.
Recurs(g, a, S) ==
  g = [T \in SUBSET S |->
         IF T = {} THEN 0 ELSE a[CHOOSE x \in T : TRUE] + g[T \ {CHOOSE x \in T : TRUE}]]

LEMMA AdditiveRecurs ==
  ASSUME NEW a, NEW S, NEW g, Additive(g, a, S)
  PROVE  Recurs(g, a, S)
<1>1. g = [T \in SUBSET S |-> g[T]]
  BY DEF Additive
<1>2. ASSUME NEW T \in SUBSET S, T # {}
      PROVE  g[T] = a[CHOOSE x \in T : TRUE] + g[T \ {CHOOSE x \in T : TRUE}]
  BY <1>2 DEF Additive
<1>3. g[{}] = 0
  BY DEF Additive
<1> QED
  BY <1>1, <1>2, <1>3 DEF Recurs

\* The recursion has one solution.
LEMMA RecursIsAdditive ==
  ASSUME NEW a, NEW S, IsFiniteSet(S),
         NEW g, Additive(g, a, S),
         NEW h, Recurs(h, a, S)
  PROVE  h = g
<1> DEFINE F == {T \in SUBSET S : h[T] # g[T]}
<1>1. h = [T \in SUBSET S |-> h[T]] /\ g = [T \in SUBSET S |-> g[T]]
  BY DEF Additive, Recurs
<1>2. SUFFICES ASSUME F # {} PROVE FALSE
  BY <1>1
<1>3. PICK T \in F : \A x \in T : T \ {x} \notin F
  BY <1>2, MinimalSubset
<1>4. T # {}
  BY DEF Additive, Recurs
<1>5. PICK x \in T : x = CHOOSE y \in T : TRUE
  BY <1>4
<1>6. h[T] = a[x] + h[T \ {x}]
  BY <1>4, <1>5 DEF Recurs
<1>7. g[T] = a[x] + g[T \ {x}]
  BY DEF Additive
<1>8. T \ {x} \in SUBSET S
  OBVIOUS
<1> QED
  BY <1>3, <1>6, <1>7, <1>8

\* The sum over any part of a finite set is what adding up gives.
LEMMA SumIsAdditive ==
  ASSUME NEW a, NEW S, IsFiniteSet(S), IntegersOn(a, S),
         NEW g, Additive(g, a, S), NEW T \in SUBSET S
  PROVE  SumFunctionOnSet(a, T) = g[T]
<1> DEFINE h == CHOOSE h : Recurs(h, a, T)
<1>1. SumFunctionOnSet(a, T) = h[T]
  BY DEF SumFunctionOnSet, FoldFunctionOnSet, MapThenFoldSet, Recurs
<1> DEFINE k == [U \in SUBSET T |-> g[U]]
<1>2. SUBSET T \subseteq SUBSET S
  OBVIOUS
<1>3. Additive(k, a, T)
  BY <1>2 DEF Additive
<1>4. Recurs(k, a, T)
  BY <1>3, AdditiveRecurs
<1>5. Recurs(h, a, T)
  BY <1>4
<1>6. IsFiniteSet(T)
  BY FS_Subset
<1> HIDE DEF h
<1>7. h = k
  BY <1>3, <1>5, <1>6, RecursIsAdditive
<1> QED
  BY <1>1, <1>7

-----------------------------------------------------------------------------
LEMMA SumOfNone == ASSUME NEW a PROVE SumFunctionOnSet(a, {}) = 0
<1>1. IsFiniteSet({}) /\ IntegersOn(a, {})
  BY FS_EmptySet DEF IntegersOn
<1>2. PICK g : Additive(g, a, {})
  BY <1>1, AdditiveExists
<1>3. SumFunctionOnSet(a, {}) = g[{}]
  BY <1>1, <1>2, SumIsAdditive
<1> QED
  BY <1>2, <1>3 DEF Additive

\* What one element contributes.
LEMMA SumWithout ==
  ASSUME NEW a, NEW S, IsFiniteSet(S), IntegersOn(a, S), NEW x \in S
  PROVE  /\ SumFunctionOnSet(a, S) = a[x] + SumFunctionOnSet(a, S \ {x})
         /\ SumFunctionOnSet(a, S) \in Int
         /\ SumFunctionOnSet(a, S \ {x}) \in Int
<1>1. PICK g : Additive(g, a, S)
  BY AdditiveExists
<1>2. S \in SUBSET S /\ S \ {x} \in SUBSET S
  OBVIOUS
<1>3. SumFunctionOnSet(a, S) = g[S]
  BY <1>1, <1>2, SumIsAdditive
<1>4. SumFunctionOnSet(a, S \ {x}) = g[S \ {x}]
  BY <1>1, <1>2, SumIsAdditive
<1> QED
  BY <1>1, <1>2, <1>3, <1>4 DEF Additive

LEMMA SumWith ==
  ASSUME NEW a, NEW S, IsFiniteSet(S), IntegersOn(a, S), NEW x, x \notin S, a[x] \in Int
  PROVE  SumFunctionOnSet(a, S \cup {x}) = SumFunctionOnSet(a, S) + a[x]
<1>1. IsFiniteSet(S \cup {x}) /\ IntegersOn(a, S \cup {x}) /\ (S \cup {x}) \ {x} = S
  BY FS_AddElement DEF IntegersOn
<1>2. x \in S \cup {x}
  OBVIOUS
<1>3. /\ SumFunctionOnSet(a, S \cup {x}) = a[x] + SumFunctionOnSet(a, (S \cup {x}) \ {x})
      /\ SumFunctionOnSet(a, (S \cup {x}) \ {x}) \in Int
  BY <1>1, <1>2, SumWithout
<1>4. SumFunctionOnSet(a, (S \cup {x}) \ {x}) = SumFunctionOnSet(a, S)
  BY <1>1
<1> QED
  BY <1>3, <1>4

LEMMA SumIsInteger ==
  ASSUME NEW a, NEW S, IsFiniteSet(S), IntegersOn(a, S)
  PROVE  SumFunctionOnSet(a, S) \in Int
<1>1. CASE S = {}
  BY <1>1, SumOfNone
<1>2. CASE S # {}
  <2>1. PICK x \in S : TRUE
    BY <1>2
  <2> QED
    BY <2>1, SumWithout
<1> QED
  BY <1>1, <1>2

\* Only the values on the set count.
LEMMA SumsAgree ==
  ASSUME NEW S, IsFiniteSet(S), NEW a, IntegersOn(a, S), NEW b, \A x \in S : a[x] = b[x]
  PROVE  SumFunctionOnSet(a, S) = SumFunctionOnSet(b, S)
<1>1. PICK g : Additive(g, a, S)
  BY AdditiveExists
<1>2. Additive(g, b, S) /\ IntegersOn(b, S)
  BY <1>1 DEF Additive, IntegersOn
<1>3. S \in SUBSET S
  OBVIOUS
<1>4. SumFunctionOnSet(a, S) = g[S]
  BY <1>1, <1>3, SumIsAdditive
<1>5. SumFunctionOnSet(b, S) = g[S]
  BY <1>2, <1>3, SumIsAdditive
<1> QED
  BY <1>4, <1>5

NaturalsOn(a, S) == \A x \in S : a[x] \in Nat

LEMMA SumIsNatural ==
  ASSUME NEW a, NEW S, IsFiniteSet(S), NaturalsOn(a, S)
  PROVE  SumFunctionOnSet(a, S) \in Nat
<1>1. IntegersOn(a, S)
  BY DEF NaturalsOn, IntegersOn
<1>2. PICK g : Additive(g, a, S)
  BY <1>1, AdditiveExists
<1> DEFINE F == {T \in SUBSET S : g[T] \notin Nat}
<1>3. ASSUME F # {} PROVE FALSE
  <2>1. PICK T \in F : \A x \in T : T \ {x} \notin F
    BY <1>3, MinimalSubset
  <2>2. T # {}
    <3>1. g[T] # 0
      OBVIOUS
    <3> QED
      BY <3>1, <1>2 DEF Additive
  <2>3. PICK x \in T : TRUE
    BY <2>2
  <2>4. g[T \ {x}] \in Nat /\ g[T] = a[x] + g[T \ {x}]
    BY <1>2, <2>1 DEF Additive
  <2>5. a[x] \in Nat
    BY DEF NaturalsOn
  <2> QED
    BY <2>4, <2>5
<1>4. g[S] \in Nat
  BY <1>3
<1>5. SumFunctionOnSet(a, S) = g[S]
  BY <1>1, <1>2, SumIsAdditive
<1> QED
  BY <1>4, <1>5

\* One of several naturals is at most their sum.
LEMMA SumCovers ==
  ASSUME NEW a, NEW S, IsFiniteSet(S), NaturalsOn(a, S), NEW x \in S
  PROVE  a[x] <= SumFunctionOnSet(a, S)
<1>1. IntegersOn(a, S) /\ NaturalsOn(a, S \ {x}) /\ IsFiniteSet(S \ {x}) /\ a[x] \in Nat
  BY FS_RemoveElement DEF NaturalsOn, IntegersOn
<1>2. SumFunctionOnSet(a, S \ {x}) \in Nat
  BY <1>1, SumIsNatural
<1>3. SumFunctionOnSet(a, S) = a[x] + SumFunctionOnSet(a, S \ {x})
  BY <1>1, SumWithout
<1> QED
  BY <1>1, <1>2, <1>3

\* A part of several naturals adds up to no more than all of them.
LEMMA SumGrows ==
  ASSUME NEW a, NEW S, IsFiniteSet(S), NaturalsOn(a, S), NEW T \in SUBSET S
  PROVE  SumFunctionOnSet(a, T) <= SumFunctionOnSet(a, S)
<1>1. IntegersOn(a, S)
  BY DEF NaturalsOn, IntegersOn
<1>2. PICK g : Additive(g, a, S)
  BY <1>1, AdditiveExists
<1> DEFINE F == {U \in SUBSET S : T \subseteq U /\ g[U] < g[T]}
<1>3. ASSUME F # {} PROVE FALSE
  <2>0. F \subseteq SUBSET S
    OBVIOUS
  <2>1. PICK U \in F : \A x \in U : U \ {x} \notin F
    <3> HIDE DEF F
    <3> QED
      BY <2>0, <1>3, MinimalSubset
  <2>2. g[T] \in Int /\ g[U] \in Int
    BY <1>2 DEF Additive
  <2>3. PICK x \in U : x \notin T
    BY <2>2
  <2>4. g[U \ {x}] \in Int /\ g[U] = a[x] + g[U \ {x}]
    BY <1>2 DEF Additive
  <2>5. ~(g[U \ {x}] < g[T])
    BY <2>1, <2>3
  <2>6. a[x] \in Nat /\ g[U] < g[T]
    BY DEF NaturalsOn
  <2> HIDE DEF F
  <2> QED
    BY <2>2, <2>4, <2>5, <2>6
<1>4. g[T] <= g[S]
  <2>1. g[T] \in Int /\ g[S] \in Int
    BY <1>2 DEF Additive
  <2>2. ~(g[S] < g[T])
    BY <1>3
  <2> HIDE DEF F
  <2> QED
    BY <2>1, <2>2
<1>5. SumFunctionOnSet(a, T) = g[T]
  BY <1>1, <1>2, SumIsAdditive
<1>6. SumFunctionOnSet(a, S) = g[S]
  BY <1>1, <1>2, SumIsAdditive
<1> QED
  BY <1>4, <1>5, <1>6
=============================================================================
