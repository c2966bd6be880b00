-------------------------------- MODULE Sums --------------------------------
(***************************************************************************)
(* Sums over finite sets, as the models use them (SumFunctionOnSet): what  *)
(* happens to a sum when an element joins or leaves the set, or one value  *)
(* changes.  A sum is first shown to count coins: f[x] of them lie on each *)
(* x; the rest is counting.                                                *)
(***************************************************************************)
EXTENDS Integers, FiniteSets, Functions, FiniteSetTheorems, TLAPS

\* f gives natural numbers on the finite set S.
Summable(f, S) == IsFiniteSet(S) /\ \A x \in S : f[x] \in Nat

Coins(f, S) == UNION {{x} \X (1 .. f[x]) : x \in S}

LEMMA SummableSubset ==
  ASSUME NEW f, NEW S, NEW T \in SUBSET S, Summable(f, S)
  PROVE  Summable(f, T)
BY FS_Subset DEF Summable

LEMMA Pile ==
  ASSUME NEW x, NEW n \in Nat
  PROVE  IsFiniteSet({x} \X (1 .. n)) /\ Cardinality({x} \X (1 .. n)) = n
<1>1. IsFiniteSet(1 .. n) /\ Cardinality(1 .. n) = n
  BY FS_Interval
<1>2. IsFiniteSet({x}) /\ Cardinality({x}) = 1
  BY FS_Singleton
<1> QED
  BY <1>1, <1>2, FS_Product

LEMMA CoinsFinite ==
  ASSUME NEW f, NEW S, Summable(f, S)
  PROVE  IsFiniteSet(Coins(f, S))
<1> DEFINE pile == [x \in S |-> {x} \X (1 .. f[x])]
           piles == {{x} \X (1 .. f[x]) : x \in S}
<1>1. pile \in Surjection(S, piles)
  BY DEF Surjection
<1>2. IsFiniteSet(piles)
  BY <1>1, FS_Surjection DEF Summable
<1>3. ASSUME NEW p \in piles PROVE IsFiniteSet(p)
  <2>1. PICK x \in S : p = {x} \X (1 .. f[x])
    OBVIOUS
  <2>2. f[x] \in Nat
    BY DEF Summable
  <2>3. IsFiniteSet({x} \X (1 .. f[x]))
    BY <2>2, Pile
  <2> QED
    BY <2>1, <2>3
<1> HIDE DEF piles
<1>4. IsFiniteSet(UNION piles)
  BY <1>2, <1>3, FS_UNION
<1> QED
  BY <1>4 DEF piles, Coins

LEMMA CoinsTaken ==
  ASSUME NEW f, NEW S, NEW x \in S, Summable(f, S)
  PROVE  Cardinality(Coins(f, S)) = f[x] + Cardinality(Coins(f, S \ {x}))
<1> DEFINE pile == {x} \X (1 .. f[x])
           rest == Coins(f, S \ {x})
<1>1. IsFiniteSet(pile) /\ Cardinality(pile) = f[x] /\ f[x] \in Nat
  BY Pile DEF Summable
<1>2. IsFiniteSet(rest)
  BY SummableSubset, CoinsFinite
<1>3. Coins(f, S) = pile \cup rest /\ pile \cap rest = {}
  BY DEF Coins
<1>4. Cardinality(pile \cap rest) = 0
  BY <1>3, FS_EmptySet
<1>5. Cardinality(pile) \in Nat /\ Cardinality(rest) \in Nat
  BY <1>1, <1>2, FS_CardinalityType
<1> HIDE DEF pile, rest
<1>6. Cardinality(pile \cup rest) = Cardinality(pile) + Cardinality(rest)
  <2>1. Cardinality(pile \cup rest)
          = Cardinality(pile) + Cardinality(rest) - Cardinality(pile \cap rest)
    BY <1>1, <1>2, FS_Union
  <2> QED
    BY <1>4, <1>5, <2>1
<1> QED
  BY <1>1, <1>3, <1>6 DEF rest

LEMMA CoinsNone == ASSUME NEW f PROVE Cardinality(Coins(f, {})) = 0
<1>1. Coins(f, {}) = {}
  BY DEF Coins
<1> QED
  BY <1>1, FS_EmptySet

\* Counterexamples have a least one: what replaces an induction over S.
LEMMA LeastSubset ==
  ASSUME NEW S, IsFiniteSet(S), NEW C \in SUBSET (SUBSET S), C # {}
  PROVE  \E s \in C : \A t \in C : t \subseteq s => t = s
<1>1. IsWellFoundedOn(StrictSubsetOrdering(S), SUBSET S)
  BY FS_StrictSubsetOrderingWellFounded, FS_FiniteSubsetsOfFinite
<1>2. PICK s \in C : \A t \in C : <<t, s>> \notin StrictSubsetOrdering(S)
  BY <1>1, WFMin, Zenon
<1> QED
  BY <1>2 DEF StrictSubsetOrdering

\* What the fold of Functions computes: the sum over a finite set is the number
\* of coins on it. Every total of the code (a Sum aggregate over rows) is one.
THEOREM SumCountsCoins ==
  ASSUME NEW f, NEW S, Summable(f, S)
  PROVE  SumFunctionOnSet(f, S) = Cardinality(Coins(f, S))
<1> DEFINE pick(s) == CHOOSE x \in s : TRUE
           step(g) == [s \in SUBSET S |->
                         IF s = {} THEN 0 ELSE f[pick(s)] + g[s \ {pick(s)}]]
           sum == CHOOSE g : g = step(g)
           count == [s \in SUBSET S |-> Cardinality(Coins(f, s))]
<1>1. SumFunctionOnSet(f, S) = sum[S]
  BY DEF SumFunctionOnSet, FoldFunctionOnSet, MapThenFoldSet
<1>2. \A s \in SUBSET S : s # {} => pick(s) \in s
  OBVIOUS
<1>3. count = step(count)
  <2> SUFFICES ASSUME NEW s \in SUBSET S
               PROVE  count[s] = IF s = {} THEN 0
                                 ELSE f[pick(s)] + count[s \ {pick(s)}]
    OBVIOUS
  <2>1. CASE s = {}
    BY <2>1, CoinsNone
  <2>2. CASE s # {}
    <3>1. pick(s) \in s
      BY <1>2, <2>2
    <3>2. Summable(f, s)
      BY SummableSubset
    <3> HIDE DEF pick
    <3>3. Cardinality(Coins(f, s))
            = f[pick(s)] + Cardinality(Coins(f, s \ {pick(s)}))
      BY <3>1, <3>2, CoinsTaken
    <3> QED
      BY <2>2, <3>3
  <2> QED
    BY <2>1, <2>2
<1> HIDE DEF count
<1>4. sum = step(sum)
  <2> HIDE DEF step
  <2> QED
    BY <1>3
<1> DEFINE wrong == {s \in SUBSET S : sum[s] # count[s]}
<1>5. wrong = {}
  <2> SUFFICES ASSUME wrong # {} PROVE FALSE
    OBVIOUS
  <2>1. PICK s \in wrong : \A t \in wrong : t \subseteq s => t = s
    <3>1. wrong \in SUBSET (SUBSET S) /\ IsFiniteSet(S)
      BY DEF Summable
    <3> HIDE DEF wrong
    <3> QED
      BY <3>1, LeastSubset
  <2> HIDE DEF sum
  <2>2. sum[s] = IF s = {} THEN 0 ELSE f[pick(s)] + sum[s \ {pick(s)}]
    BY <1>4, <2>1
  <2>3. count[s] = IF s = {} THEN 0 ELSE f[pick(s)] + count[s \ {pick(s)}]
    BY <1>3, <2>1
  <2>4. s # {} => s \ {pick(s)} \notin wrong
    BY <1>2, <2>1
  <2> QED
    BY <2>1, <2>2, <2>3, <2>4
<1> HIDE DEF sum
<1>6. sum[S] = count[S]
  BY <1>5
<1> QED
  BY <1>1, <1>6 DEF count

-----------------------------------------------------------------------------
(* What the proofs about the models use *)

LEMMA SumType ==
  ASSUME NEW f, NEW S, Summable(f, S)
  PROVE  SumFunctionOnSet(f, S) \in Nat
BY SumCountsCoins, CoinsFinite, FS_CardinalityType

LEMMA SumOfNone == ASSUME NEW f PROVE SumFunctionOnSet(f, {}) = 0
<1>1. Summable(f, {})
  BY FS_EmptySet DEF Summable
<1> QED
  BY <1>1, SumCountsCoins, CoinsNone

\* One element is left out.
LEMMA SumWithout ==
  ASSUME NEW f, NEW S, NEW x \in S, Summable(f, S)
  PROVE  SumFunctionOnSet(f, S) = f[x] + SumFunctionOnSet(f, S \ {x})
<1>1. Summable(f, S \ {x})
  BY SummableSubset
<1> QED
  BY <1>1, SumCountsCoins, CoinsTaken

LEMMA SumBounds ==
  ASSUME NEW f, NEW S, NEW x \in S, Summable(f, S)
  PROVE  f[x] <= SumFunctionOnSet(f, S)
<1> DEFINE rest == SumFunctionOnSet(f, S \ {x})
<1>1. rest \in Nat
  BY SummableSubset, SumType
<1>2. SumFunctionOnSet(f, S) = f[x] + rest /\ f[x] \in Nat
  BY SumWithout DEF Summable
<1> HIDE DEF rest
<1> QED
  BY <1>1, <1>2

\* Only the values on the set count.
LEMMA SumSame ==
  ASSUME NEW f, NEW g, NEW S, Summable(f, S), \A x \in S : f[x] = g[x]
  PROVE  SumFunctionOnSet(f, S) = SumFunctionOnSet(g, S)
<1>1. Summable(g, S)
  BY DEF Summable
<1>2. Coins(f, S) = Coins(g, S)
  BY DEF Coins
<1> QED
  BY <1>1, <1>2, SumCountsCoins

LEMMA SumOfPart ==
  ASSUME NEW f, NEW S, NEW T \in SUBSET S, Summable(f, S)
  PROVE  SumFunctionOnSet(f, T) <= SumFunctionOnSet(f, S)
<1>1. Summable(f, T)
  BY SummableSubset
<1>2. Coins(f, T) \in SUBSET Coins(f, S)
  BY DEF Coins
<1>3. Cardinality(Coins(f, T)) <= Cardinality(Coins(f, S))
  BY <1>2, CoinsFinite, FS_Subset
<1> QED
  BY <1>1, <1>3, SumCountsCoins

\* Nothing is added by what counts as none.
LEMMA SumOfSome ==
  ASSUME NEW f, NEW S, NEW T \in SUBSET S, Summable(f, T), IsFiniteSet(S)
  PROVE  LET g == [x \in S |-> IF x \in T THEN f[x] ELSE 0]
         IN  /\ Summable(g, S)
             /\ SumFunctionOnSet(g, S) = SumFunctionOnSet(f, T)
<1> DEFINE g == [x \in S |-> IF x \in T THEN f[x] ELSE 0]
<1>1. Summable(g, S)
  BY DEF Summable
<1>2. Coins(g, S) = Coins(f, T)
  <2>1. \A x \in S : 1 .. g[x] = IF x \in T THEN 1 .. f[x] ELSE {}
    OBVIOUS
  <2> HIDE DEF g
  <2> QED
    BY <2>1 DEF Coins
<1> HIDE DEF g
<1>3. SumFunctionOnSet(g, S) = SumFunctionOnSet(f, T)
  BY <1>1, <1>2, SumCountsCoins
<1> QED
  BY <1>1, <1>3 DEF g

\* What x contributes to the sum over S.
Share(f, S, x) == IF x \in S THEN f[x] ELSE 0

\* Any element is left out, whether it was in or not.
LEMMA SumBeside ==
  ASSUME NEW f, NEW S, NEW x, Summable(f, S)
  PROVE  SumFunctionOnSet(f, S)
           = SumFunctionOnSet(f, S \ {x}) + Share(f, S, x)
<1> DEFINE rest == SumFunctionOnSet(f, S \ {x})
           all == SumFunctionOnSet(f, S)
<1>1. Summable(f, S \ {x})
  BY SummableSubset
<1>2. rest \in Nat
  BY <1>1, SumType
<1>3. CASE x \in S
  <2>1. all = f[x] + rest /\ f[x] \in Nat
    BY <1>3, SumWithout DEF Summable
  <2> HIDE DEF all, rest
  <2>2. all = rest + f[x]
    BY <1>2, <2>1
  <2> QED
    BY <1>3, <2>2 DEF all, rest, Share
<1>4. CASE x \notin S
  <2>1. all = rest
    <3>1. S \ {x} = S
      BY <1>4
    <3> QED
      BY <3>1
  <2> HIDE DEF all, rest
  <2>2. all = rest + 0
    BY <1>2, <2>1
  <2> QED
    BY <1>4, <2>2 DEF all, rest, Share
<1> QED
  BY <1>3, <1>4

\* One element changes its value, joins the set or leaves it.
LEMMA SumMoves ==
  ASSUME NEW f, NEW g, NEW S, NEW T, NEW x,
         Summable(f, S), Summable(g, T), S \ {x} = T \ {x},
         \A y \in S \ {x} : f[y] = g[y]
  PROVE  SumFunctionOnSet(f, S) + Share(g, T, x)
           = SumFunctionOnSet(g, T) + Share(f, S, x)
<1> DEFINE rest == SumFunctionOnSet(f, S \ {x})
           before == SumFunctionOnSet(f, S)
           after == SumFunctionOnSet(g, T)
           out == Share(f, S, x)
           in == Share(g, T, x)
<1>1. Summable(f, S \ {x})
  BY SummableSubset
<1>2. rest = SumFunctionOnSet(g, T \ {x})
  BY <1>1, SumSame
<1>3. rest \in Nat
  BY <1>1, SumType
<1>4. before = rest + out
  BY SumBeside, Zenon
<1>5. after = rest + in
  <2>1. after = SumFunctionOnSet(g, T \ {x}) + in
    BY SumBeside, Zenon
  <2> QED
    BY <1>2, <2>1, Zenon
<1>6. out \in Nat /\ in \in Nat
  BY DEF Summable, Share
<1> HIDE DEF rest, before, after, out, in
<1>7. before + in = after + out
  BY <1>3, <1>4, <1>5, <1>6
<1> QED
  BY <1>7 DEF before, after, in, out

=============================================================================
