------------------------------ MODULE FoldLemmas ------------------------------
(***************************************************************************)
(* Folds over finite sets: what the folds of the community modules compute.*)
(*                                                                         *)
(* A fold takes the elements of a set in an order of its own, so a proof   *)
(* about one is an induction over the subsets of a finite set.  The        *)
(* induction is by a smallest counterexample: a family of finite sets that *)
(* is not empty has a member without a smaller one (WFMin), which is a     *)
(* statement about sets alone, so that no operator has to be instantiated. *)
(*                                                                         *)
(* At the end: what a bijection keeps, how many there are of each kind;    *)
(* sums and counts in parts; folds over the positions of a sequence, which *)
(* take the last position first; and recursions from its end.              *)
(***************************************************************************)
EXTENDS Integers, FiniteSetsExt, FiniteSetTheorems, Functions, WellFoundedInduction, TLAPS

Pick_(s) == CHOOSE x \in s : TRUE

LEMMA SmallestOfFamily ==
  ASSUME NEW S, IsFiniteSet(S), NEW B, B \subseteq SUBSET S, B # {}
  PROVE  \E m \in B : \A x \in B : x \subseteq m => x = m
<1>1. B \subseteq FiniteSubsetsOf(S)
  BY FS_Subset DEF FiniteSubsetsOf
<1>2. PICK m \in B : \A x \in B : ~ (<<x, m>> \in StrictSubsetOrdering(S))
  BY <1>1, FS_StrictSubsetOrderingWellFounded, WFMin
<1>3. \A x \in B : x \subseteq m => x = m
  BY <1>2 DEF StrictSubsetOrdering
<1> QED BY <1>3

\* A set of subsets of S is all of them if it has each whose smaller ones it has.
LEMMA SubsetInduction ==
  ASSUME NEW S, IsFiniteSet(S), NEW I,
         \A T \in SUBSET S : (\A U \in SUBSET T : U # T => U \in I) => T \in I
  PROVE  \A T \in SUBSET S : T \in I
<1> DEFINE B == (SUBSET S) \ I
<1> SUFFICES ASSUME B # {} PROVE FALSE
  OBVIOUS
<1>1. B \subseteq SUBSET S
  OBVIOUS
<1> HIDE DEF B
<1>2. PICK m \in B : \A x \in B : x \subseteq m => x = m
  BY <1>1, SmallestOfFamily
<1>3. \A U \in SUBSET m : U # m => U \in I
  BY <1>1, <1>2 DEF B
<1> QED BY <1>1, <1>2, <1>3 DEF B

\* A choice of an element for every set.
Picks(pick, S) == \A s \in SUBSET S : s # {} => pick[s] \in s

\* A fold: it[s] is base for the empty set, and otherwise what step makes of the
\* element taken and of the fold of the others.
IsFoldBy(it, S, base, step, pick) ==
  it = [s \in SUBSET S |-> IF s = {} THEN base ELSE step[<<pick[s], it[s \ {pick[s]}]>>]]

LEMMA FoldByStep ==
  ASSUME NEW S, NEW base, NEW step, NEW pick, NEW it,
         IsFoldBy(it, S, base, step, pick), NEW s \in SUBSET S
  PROVE  it[s] = IF s = {} THEN base ELSE step[<<pick[s], it[s \ {pick[s]}]>>]
  BY DEF IsFoldBy

LEMMA FoldByUnique ==
  ASSUME NEW S, IsFiniteSet(S), NEW base, NEW step, NEW pick, Picks(pick, S),
         NEW f, NEW g, NEW T, T \subseteq S,
         IsFoldBy(f, S, base, step, pick), IsFoldBy(g, T, base, step, pick)
  PROVE  \A s \in SUBSET T : f[s] = g[s]
<1> DEFINE I == {s \in SUBSET T : f[s] = g[s]}
<1>1. ASSUME NEW s \in SUBSET T, \A u \in SUBSET s : u # s => u \in I PROVE s \in I
  <2>1. s \in SUBSET S
    OBVIOUS
  <2>2. /\ f[s] = IF s = {} THEN base ELSE step[<<pick[s], f[s \ {pick[s]}]>>]
        /\ g[s] = IF s = {} THEN base ELSE step[<<pick[s], g[s \ {pick[s]}]>>]
    BY <2>1, FoldByStep
  <2>3. s # {} => f[s \ {pick[s]}] = g[s \ {pick[s]}]
    BY <1>1, <2>1 DEF Picks
  <2> QED BY <2>2, <2>3
<1>2. IsFiniteSet(T)
  BY FS_Subset
<1> HIDE DEF I
<1>3. \A s \in SUBSET T : s \in I
  BY <1>1, <1>2, SubsetInduction
<1> QED BY <1>3 DEF I

LEMMA FoldByExists ==
  ASSUME NEW S, IsFiniteSet(S), NEW base, NEW step, NEW pick, Picks(pick, S)
  PROVE  \E it : IsFoldBy(it, S, base, step, pick)
<1> DEFINE Has(T) == \E it : IsFoldBy(it, T, base, step, pick)
           F(T) == CHOOSE it : IsFoldBy(it, T, base, step, pick)
           I == {T \in SUBSET S : Has(T)}
<1>1. ASSUME NEW T \in SUBSET S, \A U \in SUBSET T : U # T => U \in I PROVE T \in I
  <2> DEFINE g == [s \in SUBSET T |-> IF s = {} THEN base
                    ELSE step[<<pick[s], F(s \ {pick[s]})[s \ {pick[s]}]>>]]
  <2>1. \A U \in SUBSET T : U # T => IsFoldBy(F(U), U, base, step, pick)
    BY <1>1
  <2> HIDE DEF F
  <2>2. ASSUME NEW V \in SUBSET T, V # T PROVE g[V] = F(V)[V]
    <3>1. IsFoldBy(F(V), V, base, step, pick) /\ V \in SUBSET V
      BY <2>1, <2>2
    <3>2. F(V)[V] = IF V = {} THEN base ELSE step[<<pick[V], F(V)[V \ {pick[V]}]>>]
      BY <3>1, FoldByStep
    <3>3. g[V] = IF V = {} THEN base
                 ELSE step[<<pick[V], F(V \ {pick[V]})[V \ {pick[V]}]>>]
      BY <2>2
    <3>4. CASE V = {}
      BY <3>4, <3>2, <3>3
    <3>5. CASE V # {}
      <4> DEFINE W == V \ {pick[V]}
      <4>1. W \in SUBSET V /\ W \in SUBSET T /\ W # T
        BY <2>2, <3>5 DEF Picks
      <4>2. IsFoldBy(F(W), W, base, step, pick) /\ IsFiniteSet(V)
        BY <2>1, <4>1, FS_Subset
      <4>3. Picks(pick, V)
        BY DEF Picks
      <4>4. F(V)[W] = F(W)[W]
        BY <4>3, <3>1, <4>1, <4>2, FoldByUnique
      <4> QED BY <3>5, <3>2, <3>3, <4>4
    <3> QED BY <3>4, <3>5
  <2>3. \A s \in SUBSET T : s # {} => s \ {pick[s]} \in SUBSET T /\ s \ {pick[s]} # T
    BY DEF Picks
  <2>4. \A s \in SUBSET T : s # {} => g[s \ {pick[s]}] = F(s \ {pick[s]})[s \ {pick[s]}]
    BY <2>2, <2>3
  <2>5. g = [s \in SUBSET T |-> IF s = {} THEN base ELSE step[<<pick[s], g[s \ {pick[s]}]>>]]
    BY <2>4
  <2> HIDE DEF g
  <2> QED BY <2>5 DEF IsFoldBy
<1> HIDE DEF I
<1>2. S \in I
  BY <1>1, SubsetInduction
<1> QED BY <1>2 DEF I

\* The fold whose choice is the CHOOSE of the community modules.
IsFold(it, S, base, step) ==
  it = [s \in SUBSET S |-> IF s = {} THEN base ELSE step[<<Pick_(s), it[s \ {Pick_(s)}]>>]]

LEMMA PickIsIn == \A s : s # {} => Pick_(s) \in s
  BY DEF Pick_

LEMMA FoldStep ==
  ASSUME NEW S, NEW base, NEW step, NEW it, IsFold(it, S, base, step), NEW s \in SUBSET S
  PROVE  it[s] = IF s = {} THEN base ELSE step[<<Pick_(s), it[s \ {Pick_(s)}]>>]
  BY DEF IsFold

LEMMA FoldExists ==
  ASSUME NEW S, IsFiniteSet(S), NEW base, NEW step
  PROVE  \E it : IsFold(it, S, base, step)
<1> DEFINE pick == [s \in SUBSET S |-> Pick_(s)]
<1>1. Picks(pick, S)
  BY PickIsIn DEF Picks
<1>2. \A s \in SUBSET S : pick[s] = Pick_(s)
  OBVIOUS
<1> HIDE DEF pick
<1>3. PICK it : IsFoldBy(it, S, base, step, pick)
  BY <1>1, FoldByExists
<1>4. IsFold(it, S, base, step)
  BY <1>2, <1>3 DEF IsFoldBy, IsFold
<1> QED BY <1>4

-----------------------------------------------------------------------------
(***************************************************************************)
(* Sums.                                                                   *)
(***************************************************************************)
IsSum(it, f, S) ==
  it = [s \in SUBSET S |-> IF s = {} THEN 0 ELSE f[Pick_(s)] + it[s \ {Pick_(s)}]]

LEMMA SumUnfolds ==
  ASSUME NEW f, NEW S
  PROVE  SumFunctionOnSet(f, S) = (CHOOSE it : IsSum(it, f, S))[S]
  BY DEF SumFunctionOnSet, FoldFunctionOnSet, MapThenFoldSet, IsSum, Pick_

LEMMA SumStep ==
  ASSUME NEW f, NEW S, NEW it, IsSum(it, f, S), NEW s \in SUBSET S
  PROVE  it[s] = IF s = {} THEN 0 ELSE f[Pick_(s)] + it[s \ {Pick_(s)}]
  BY DEF IsSum

LEMMA SumUnique ==
  ASSUME NEW S, IsFiniteSet(S), NEW f, NEW g, NEW h, NEW T, T \subseteq S,
         IsSum(g, f, S), IsSum(h, f, T)
  PROVE  \A s \in SUBSET T : g[s] = h[s]
<1> DEFINE I == {s \in SUBSET T : g[s] = h[s]}
<1>1. ASSUME NEW s \in SUBSET T, \A u \in SUBSET s : u # s => u \in I PROVE s \in I
  <2>1. s \in SUBSET S
    OBVIOUS
  <2>2. /\ g[s] = IF s = {} THEN 0 ELSE f[Pick_(s)] + g[s \ {Pick_(s)}]
        /\ h[s] = IF s = {} THEN 0 ELSE f[Pick_(s)] + h[s \ {Pick_(s)}]
    BY <2>1, SumStep
  <2>3. s # {} => g[s \ {Pick_(s)}] = h[s \ {Pick_(s)}]
    BY <1>1, PickIsIn
  <2> QED BY <2>2, <2>3
<1>2. IsFiniteSet(T)
  BY FS_Subset
<1> HIDE DEF I
<1>3. \A s \in SUBSET T : s \in I
  BY <1>1, <1>2, SubsetInduction
<1> QED BY <1>3 DEF I

LEMMA SumExists ==
  ASSUME NEW S, IsFiniteSet(S), NEW f, \A x \in S : f[x] \in Nat
  PROVE  \E it : IsSum(it, f, S) /\ \A s \in SUBSET S : it[s] \in Nat
<1> DEFINE step == [p \in S \X Nat |-> f[p[1]] + p[2]]
<1>1. \A x \in S, n \in Nat : step[<<x, n>>] = f[x] + n
  OBVIOUS
<1> HIDE DEF step
<1>2. PICK it : IsFold(it, S, 0, step)
  BY FoldExists
<1> DEFINE I == {s \in SUBSET S : it[s] \in Nat}
<1>3. ASSUME NEW s \in SUBSET S, \A u \in SUBSET s : u # s => u \in I PROVE s \in I
  <2>1. it[s] = IF s = {} THEN 0 ELSE step[<<Pick_(s), it[s \ {Pick_(s)}]>>]
    BY <1>2, FoldStep
  <2>2. s # {} => it[s \ {Pick_(s)}] \in Nat /\ Pick_(s) \in S
    BY <1>3, PickIsIn
  <2>3. s # {} => it[s] = f[Pick_(s)] + it[s \ {Pick_(s)}]
    BY <1>1, <2>1, <2>2
  <2> QED BY <2>1, <2>2, <2>3
<1> HIDE DEF I
<1>4. \A s \in SUBSET S : s \in I
  BY <1>3, SubsetInduction
<1>5. \A s \in SUBSET S : it[s] \in Nat
  BY <1>4 DEF I
<1>6. \A s \in SUBSET S : s # {} =>
        step[<<Pick_(s), it[s \ {Pick_(s)}]>>] = f[Pick_(s)] + it[s \ {Pick_(s)}]
  BY <1>1, <1>5, PickIsIn
<1>7. IsSum(it, f, S)
  BY <1>2, <1>6 DEF IsFold, IsSum
<1> QED BY <1>5, <1>7

\* SumFunctionOnSet takes one element and sums the others.
LEMMA SumFacts ==
  ASSUME NEW S, IsFiniteSet(S), NEW f, \A x \in S : f[x] \in Nat
  PROVE  /\ SumFunctionOnSet(f, S) \in Nat
         /\ S = {} => SumFunctionOnSet(f, S) = 0
         /\ S # {} => /\ Pick_(S) \in S
                      /\ SumFunctionOnSet(f, S)
                            = f[Pick_(S)] + SumFunctionOnSet(f, S \ {Pick_(S)})
<1> DEFINE F(T) == CHOOSE it : IsSum(it, f, T)
<1>1. ASSUME NEW T \in SUBSET S
      PROVE  IsSum(F(T), f, T) /\ \A s \in SUBSET T : F(T)[s] \in Nat
  <2>1. IsFiniteSet(T)
    BY FS_Subset
  <2>2. PICK it : IsSum(it, f, T) /\ \A s \in SUBSET T : it[s] \in Nat
    BY <2>1, SumExists
  <2>3. IsSum(F(T), f, T)
    BY <2>2
  <2> HIDE DEF F
  <2>4. \A s \in SUBSET T : F(T)[s] = it[s]
    BY <2>1, <2>2, <2>3, SumUnique
  <2> QED BY <2>2, <2>3, <2>4
<1>2. \A T \in SUBSET S : SumFunctionOnSet(f, T) = F(T)[T]
  BY SumUnfolds
<1> HIDE DEF F
<1>3. F(S)[S] = IF S = {} THEN 0 ELSE f[Pick_(S)] + F(S)[S \ {Pick_(S)}]
  BY <1>1, SumStep
<1>4. CASE S # {}
  <2> DEFINE U == S \ {Pick_(S)}
  <2>1. U \in SUBSET S /\ U \in SUBSET U
    OBVIOUS
  <2>2. F(S)[U] = F(U)[U]
    BY <1>1, <2>1, SumUnique
  <2> QED BY <1>1, <1>2, <1>3, <1>4, <2>1, <2>2, PickIsIn
<1> QED BY <1>1, <1>2, <1>3, <1>4

\* Any element may be taken first.
LEMMA SumRemove ==
  ASSUME NEW S, IsFiniteSet(S), NEW f, \A x \in S : f[x] \in Nat, NEW x \in S
  PROVE  /\ SumFunctionOnSet(f, S \ {x}) \in Nat
         /\ SumFunctionOnSet(f, S) = f[x] + SumFunctionOnSet(f, S \ {x})
<1> DEFINE Sum(T) == SumFunctionOnSet(f, T)
           I == {T \in SUBSET S : \A y \in T : Sum(T) = f[y] + Sum(T \ {y})}
<1>1. \A T \in SUBSET S : /\ Sum(T) \in Nat
                          /\ T # {} => Pick_(T) \in T /\ Sum(T) = f[Pick_(T)] + Sum(T \ {Pick_(T)})
  BY SumFacts, FS_Subset
<1> HIDE DEF Sum
<1>2. ASSUME NEW T \in SUBSET S, \A U \in SUBSET T : U # T => U \in I PROVE T \in I
  <2> SUFFICES ASSUME NEW y \in T PROVE Sum(T) = f[y] + Sum(T \ {y})
    OBVIOUS
  <2> DEFINE p == Pick_(T)
  <2>1. p \in T /\ Sum(T) = f[p] + Sum(T \ {p})
    BY <1>1
  <2> HIDE DEF p
  <2>2. CASE p # y
    <3>1. T \ {p} \in I /\ T \ {y} \in I
      BY <1>2, <2>1
    <3>2. Sum(T \ {p}) = f[y] + Sum((T \ {p}) \ {y})
      BY <2>2, <3>1
    <3>3. Sum(T \ {y}) = f[p] + Sum((T \ {y}) \ {p})
      BY <2>1, <2>2, <3>1
    <3>4. (T \ {p}) \ {y} = (T \ {y}) \ {p}
      OBVIOUS
    <3>5. f[y] \in Nat /\ f[p] \in Nat /\ Sum((T \ {y}) \ {p}) \in Nat
      BY <1>1, <2>1
    <3> QED BY <2>1, <3>2, <3>3, <3>4, <3>5
  <2> QED BY <2>1, <2>2
<1> HIDE DEF I
<1>3. S \in I
  BY <1>2, SubsetInduction
<1>4. Sum(S) = f[x] + Sum(S \ {x})
  BY <1>3 DEF I
<1> QED BY <1>1, <1>4 DEF Sum

LEMMA SumOfSum ==
  ASSUME NEW S, IsFiniteSet(S), NEW f, NEW g, NEW h,
         \A x \in S : f[x] \in Nat /\ g[x] \in Nat /\ h[x] = f[x] + g[x]
  PROVE  SumFunctionOnSet(h, S) = SumFunctionOnSet(f, S) + SumFunctionOnSet(g, S)
<1> DEFINE F(T) == SumFunctionOnSet(f, T)
           G(T) == SumFunctionOnSet(g, T)
           H(T) == SumFunctionOnSet(h, T)
           I == {T \in SUBSET S : H(T) = F(T) + G(T)}
<1>1. ASSUME NEW T \in SUBSET S
      PROVE  /\ F(T) \in Nat /\ G(T) \in Nat
             /\ T = {} => F(T) = 0 /\ G(T) = 0 /\ H(T) = 0
             /\ T # {} => /\ Pick_(T) \in T
                         /\ F(T) = f[Pick_(T)] + F(T \ {Pick_(T)})
                         /\ G(T) = g[Pick_(T)] + G(T \ {Pick_(T)})
                         /\ H(T) = h[Pick_(T)] + H(T \ {Pick_(T)})
  <2>1. IsFiniteSet(T) /\ \A x \in T : f[x] \in Nat /\ g[x] \in Nat /\ h[x] \in Nat
    BY FS_Subset
  <2> QED BY <2>1, SumFacts
<1> HIDE DEF F, G, H
<1>2. ASSUME NEW T \in SUBSET S, \A U \in SUBSET T : U # T => U \in I PROVE T \in I
  <2>1. CASE T # {}
    <3> DEFINE p == Pick_(T)
               U == T \ {p}
    <3>1. /\ p \in T /\ F(T) = f[p] + F(U) /\ G(T) = g[p] + G(U) /\ H(T) = h[p] + H(U)
      BY <1>1, <2>1
    <3> HIDE DEF p
    <3>2. H(U) = F(U) + G(U) /\ F(U) \in Nat /\ G(U) \in Nat
      BY <1>1, <1>2, <3>1
    <3>3. f[p] \in Nat /\ g[p] \in Nat /\ h[p] = f[p] + g[p]
      BY <3>1
    <3> HIDE DEF U
    <3>4. H(T) = F(T) + G(T)
      BY <3>1, <3>2, <3>3
    <3> QED BY <3>4
  <2>2. CASE T = {}
    <3>1. F(T) = 0 /\ G(T) = 0 /\ H(T) = 0
      BY <1>1, <2>2
    <3>2. H(T) = F(T) + G(T)
      BY <3>1
    <3> QED BY <3>2
  <2> QED BY <2>1, <2>2
<1> HIDE DEF I
<1>3. S \in I
  BY <1>2, SubsetInduction
<1> QED BY <1>3 DEF I, F, G, H

\* A sum of zeros and ones counts the ones.
LEMMA SumCounts ==
  ASSUME NEW S, IsFiniteSet(S), NEW C, NEW f,
         \A x \in S : f[x] = IF x \in C THEN 1 ELSE 0
  PROVE  SumFunctionOnSet(f, S) = Cardinality(S \cap C)
<1> DEFINE Sum(T) == SumFunctionOnSet(f, T)
           N(T) == Cardinality(T \cap C)
           I == {T \in SUBSET S : Sum(T) = N(T)}
<1>1. ASSUME NEW T \in SUBSET S
      PROVE  /\ T = {} => Sum(T) = 0
             /\ T # {} => Pick_(T) \in T /\ Sum(T) = f[Pick_(T)] + Sum(T \ {Pick_(T)})
             /\ IsFiniteSet(T \cap C)
  <2>1. IsFiniteSet(T) /\ \A x \in T : f[x] \in Nat
    BY FS_Subset
  <2>2. IsFiniteSet(T \cap C)
    BY <2>1, FS_Subset
  <2> QED BY <2>1, <2>2, SumFacts
<1> HIDE DEF Sum
<1>2. ASSUME NEW T \in SUBSET S, \A U \in SUBSET T : U # T => U \in I PROVE T \in I
  <2>1. CASE T # {}
    <3> DEFINE p == Pick_(T)
               U == T \ {p}
    <3>1. p \in T /\ Sum(T) = f[p] + Sum(U)
      BY <1>1, <2>1
    <3> HIDE DEF p
    <3>2. Sum(U) = N(U)
      BY <1>2, <3>1
    <3>3. CASE p \in C
      <4>1. U \cap C = (T \cap C) \ {p} /\ p \in T \cap C
        BY <3>1, <3>3
      <4>2. N(U) = N(T) - 1 /\ N(T) \in Nat
        <5>1. IsFiniteSet(T \cap C)
          BY <1>1
        <5>2. Cardinality((T \cap C) \ {p}) = Cardinality(T \cap C) - 1
          BY <4>1, <5>1, FS_RemoveElement
        <5>3. Cardinality(T \cap C) \in Nat
          BY <5>1, FS_CardinalityType
        <5> QED BY <4>1, <5>2, <5>3
      <4>3. f[p] = 1
        BY <3>1, <3>3
      <4> QED BY <3>1, <3>2, <4>2, <4>3
    <3>4. CASE p \notin C
      <4>1. U \cap C = T \cap C
        BY <3>4
      <4>2. f[p] = 0 /\ N(T) \in Nat
        BY <1>1, <3>1, <3>4, FS_CardinalityType
      <4> QED BY <3>1, <3>2, <4>1, <4>2
    <3> QED BY <3>3, <3>4
  <2>2. CASE T = {}
    BY <1>1, <2>2, FS_EmptySet
  <2> QED BY <2>1, <2>2
<1> HIDE DEF I
<1>3. S \in I
  BY <1>2, SubsetInduction
<1> QED BY <1>3 DEF I, Sum
-----------------------------------------------------------------------------
\* A finite set of numbers that is not empty has a greatest one.
LEMMA MaxOfNats ==
  ASSUME NEW S, IsFiniteSet(S), S \subseteq Nat, S # {}
  PROVE  Max(S) \in S /\ \A y \in S : y <= Max(S)
<1> DEFINE Greatest(T) == \E x \in T : \A y \in T : y <= x
           I == {T \in SUBSET S : T = {} \/ Greatest(T)}
<1>1. ASSUME NEW T \in SUBSET S, \A U \in SUBSET T : U # T => U \in I PROVE T \in I
  <2> SUFFICES ASSUME T # {} PROVE Greatest(T)
    OBVIOUS
  <2>1. PICK p : p \in T
    OBVIOUS
  <2>2. T \ {p} \in I
    BY <1>1, <2>1
  <2>3. CASE T \ {p} = {}
    <3>1. p \in Nat /\ \A y \in T : y = p
      BY <2>1, <2>3
    <3> QED BY <2>1, <3>1
  <2>4. CASE Greatest(T \ {p})
    <3>1. PICK x \in T \ {p} : \A y \in T \ {p} : y <= x
      BY <2>4
    <3>2. x \in Nat /\ p \in Nat
      BY <2>1
    <3>3. CASE p <= x
      BY <3>1, <3>3
    <3>4. CASE x < p
      <4>1. \A y \in T \ {p} : y \in Nat /\ y <= p
        BY <3>1, <3>2, <3>4
      <4> QED BY <2>1, <3>2, <4>1
    <3> QED BY <3>2, <3>3, <3>4
  <2> QED BY <2>2, <2>3, <2>4
<1> HIDE DEF I
<1>2. S \in I
  BY <1>1, SubsetInduction
<1>3. \E x \in S : \A y \in S : y <= x
  BY <1>2 DEF I
<1>4. PICK x \in S : \A y \in S : x >= y
  BY <1>3
<1> DEFINE M == CHOOSE m \in S : \A y \in S : m >= y
<1>5. M \in S /\ \A y \in S : M >= y
  BY <1>4
<1>6. Max(S) = M
  BY DEF Max
<1> HIDE DEF M
<1> QED BY <1>5, <1>6


LEMMA LeastOfNats ==
  ASSUME NEW S \in SUBSET Nat, S # {}
  PROVE  \E x \in S : \A y \in S : x <= y
<1>1. PICK x \in S : \A y \in S : ~ (<<y, x>> \in OpToRel(<, Nat))
  BY NatLessThanWellFounded, WFMin
<1>2. \A y \in S : ~ (y < x)
  BY <1>1 DEF OpToRel
<1> QED BY <1>2
-----------------------------------------------------------------------------
\* What a function takes a finite set to is finite.
LEMMA ImageIsFinite ==
    ASSUME NEW S, IsFiniteSet(S), NEW f
    PROVE  IsFiniteSet({f[x] : x \in S}) /\ Cardinality({f[x] : x \in S}) <= Cardinality(S)
<1> DEFINE T == {f[x] : x \in S}
           g == [x \in S |-> f[x]]
<1>1. g \in Surjection(S, T)
  BY DEF Surjection
<1> QED BY <1>1, FS_Surjection

\* f takes A to B one to one, and its part C to D.
Takes(f, A, B, C, D) ==
    f \in Bijection(A, B) /\ C \subseteq A /\ D \subseteq B /\ \A p \in A : p \in C <=> f[p] \in D

\* A bijection takes as many elements of a part to the part that it is taken to.
LEMMA SameCount ==
    ASSUME NEW A, NEW B, NEW f, NEW C, NEW D, IsFiniteSet(A), Takes(f, A, B, C, D)
    PROVE  IsFiniteSet(D) /\ Cardinality(C) = Cardinality(D)
<1> USE DEF Takes
<1>0. /\ f \in [A -> B]
      /\ \A p, q \in A : f[p] = f[q] => p = q
      /\ \A y \in B : \E p \in A : f[p] = y
  BY DEF Bijection, Injection, Surjection, IsInjective
<1> DEFINE g == [p \in C |-> f[p]]
<1>1. g \in [C -> D]
  BY <1>0
<1>2. g \in Injection(C, D)
  BY <1>0, <1>1 DEF Injection, IsInjective
<1>3. g \in Surjection(C, D)
  <2>1. ASSUME NEW y \in D PROVE \E p \in C : g[p] = y
    <3>1. PICK p \in A : f[p] = y
      BY <1>0
    <3> QED BY <3>1
  <2> QED BY <1>1, <2>1 DEF Surjection
<1>4. ExistsBijection(C, D)
  BY <1>2, <1>3 DEF ExistsBijection, Bijection
<1>5. IsFiniteSet(C)
  BY FS_Subset
<1> QED BY <1>4, <1>5, FS_Bijection

\* A finite set can be listed without repetition in the order of any value of its elements.
LEMMA InOrderOf ==
    ASSUME NEW S, IsFiniteSet(S), NEW time, \A x \in S : time[x] \in Nat
    PROVE  \E o \in [1 .. Cardinality(S) -> S] :
              \A i, j \in DOMAIN o : i < j => o[i] # o[j] /\ time[o[i]] <= time[o[j]]
<1> DEFINE Lists(T) == \E o \in [1 .. Cardinality(T) -> T] :
              \A i, j \in DOMAIN o : i < j => o[i] # o[j] /\ time[o[i]] <= time[o[j]]
           I == {T \in SUBSET S : Lists(T)}
<1>1. ASSUME NEW T \in SUBSET S, \A U \in SUBSET T : U # T => U \in I PROVE T \in I
  <2>1. IsFiniteSet(T)
    BY FS_Subset
  <2>2. CASE T = {}
    <3>1. 1 .. Cardinality(T) = {}
      BY <2>2, FS_EmptySet
    <3> DEFINE o == [n \in {} |-> n]
    <3>2. o \in [{} -> T] /\ DOMAIN o = {}
      OBVIOUS
    <3> HIDE DEF o
    <3> QED BY <3>1, <3>2
  <2>3. CASE T # {}
    <3> DEFINE V == {time[x] : x \in T}
    <3>1. IsFiniteSet(V) /\ V \subseteq Nat /\ V # {}
      BY <2>1, <2>3, ImageIsFinite
    <3>2. Max(V) \in V /\ \A v \in V : v <= Max(V)
      BY <3>1, MaxOfNats
    <3>3. PICK m \in T : \A x \in T : time[x] <= time[m]
      BY <3>2
    <3> DEFINE U == T \ {m}
               n == Cardinality(U)
    <3>4. U \in I
      BY <3>3, <1>1
    <3>5. IsFiniteSet(U) /\ n \in Nat /\ Cardinality(T) = n + 1
      <4>1. IsFiniteSet(U) /\ Cardinality(U) = Cardinality(T) - 1
        BY <2>1, FS_RemoveElement
      <4>2. Cardinality(U) \in Nat /\ Cardinality(T) \in Nat
        BY <4>1, <2>1, FS_CardinalityType
      <4> QED BY <4>1, <4>2
    <3>6. PICK o \in [1 .. n -> U] :
            \A i, j \in DOMAIN o : i < j => o[i] # o[j] /\ time[o[i]] <= time[o[j]]
      BY <3>4
    <3> DEFINE p == [i \in 1 .. n + 1 |-> IF i = n + 1 THEN m ELSE o[i]]
    <3> HIDE DEF n
    <3>7. p \in [1 .. n + 1 -> T]
      BY <3>5, <3>6
    <3>8. ASSUME NEW i \in 1 .. n + 1, NEW j \in 1 .. n + 1, i < j
          PROVE  p[i] # p[j] /\ time[p[i]] <= time[p[j]]
      <4>1. i \in 1 .. n /\ i # n + 1 /\ p[i] = o[i] /\ o[i] \in U
        BY <3>5, <3>6, <3>8
      <4>2. CASE j = n + 1
        BY <4>1, <4>2, <3>3
      <4>3. CASE j # n + 1
        <5>1. j \in 1 .. n /\ p[j] = o[j]
          BY <4>3, <3>5, <3>8
        <5> QED BY <5>1, <4>1, <3>6, <3>8
      <4> QED BY <4>2, <4>3
    <3> QED BY <3>5, <3>7, <3>8
  <2> QED BY <2>2, <2>3
<1> HIDE DEF I
<1>2. \A T \in SUBSET S : T \in I
  BY <1>1, SubsetInduction
<1>3. S \in I
  BY <1>2
<1> QED BY <1>3 DEF I
-----------------------------------------------------------------------------
\* Sums in parts.
\* The sum over two sets that share nothing.
LEMMA SumUnion ==
  ASSUME NEW S, IsFiniteSet(S), NEW f, \A x \in S : f[x] \in Nat,
         NEW A \in SUBSET S, NEW B \in SUBSET S, A \cap B = {}
  PROVE  SumFunctionOnSet(f, A \cup B) = SumFunctionOnSet(f, A) + SumFunctionOnSet(f, B)
<1> DEFINE Sum(T) == SumFunctionOnSet(f, T)
           I == {T \in SUBSET B : Sum(A \cup T) = Sum(A) + Sum(T)}
<1>1. ASSUME NEW T \in SUBSET B, \A U \in SUBSET T : U # T => U \in I PROVE T \in I
  <2>1. IsFiniteSet(T) /\ IsFiniteSet(A) /\ IsFiniteSet(A \cup T)
    BY FS_Subset
  <2>2. \A x \in A \cup T : f[x] \in Nat
    OBVIOUS
  <2>3. Sum(A) \in Nat /\ (T = {} => Sum(T) = 0)
    BY <2>1, <2>2, SumFacts
  <2>4. CASE T = {}
    <3>1. A \cup T = A
      BY <2>4
    <3> QED BY <2>3, <2>4, <3>1
  <2>5. CASE T # {}
    <3>1. PICK x : x \in T
      BY <2>5
    <3>2. T \ {x} \in I
      BY <1>1, <3>1
    <3>3. (A \cup T) \ {x} = A \cup (T \ {x})
      BY <3>1
    <3>4. Sum(A \cup T) = f[x] + Sum(A \cup (T \ {x}))
      BY <2>1, <2>2, <3>1, <3>3, SumRemove
    <3>5. Sum(T) = f[x] + Sum(T \ {x}) /\ Sum(T \ {x}) \in Nat
      BY <2>1, <2>2, <3>1, SumRemove
    <3>6. Sum(A \cup (T \ {x})) = Sum(A) + Sum(T \ {x}) /\ f[x] \in Nat
      BY <2>2, <3>1, <3>2
    <3> HIDE DEF Sum
    <3> QED BY <2>3, <3>4, <3>5, <3>6
  <2> QED BY <2>4, <2>5
<1>2. IsFiniteSet(B) /\ B \in SUBSET B
  BY FS_Subset
<1> HIDE DEF I
<1>3. \A T \in SUBSET B : T \in I
  BY <1>1, <1>2, SubsetInduction
<1> QED BY <1>2, <1>3 DEF I

\* The sum of S is the sum of its parts, the elements with one label each.
PartsOf(S, label, k) == {x \in S : label[x] = k}
SumOfParts(f, S, label, K) == [k \in K |-> SumFunctionOnSet(f, PartsOf(S, label, k))]
LEMMA SumByLabel ==
  ASSUME NEW S, IsFiniteSet(S), NEW f, \A x \in S : f[x] \in Nat,
         NEW K, IsFiniteSet(K), NEW label, \A x \in S : label[x] \in K
  PROVE  SumFunctionOnSet(SumOfParts(f, S, label, K), K) = SumFunctionOnSet(f, S)
<1> DEFINE g == SumOfParts(f, S, label, K)
           In(U) == {x \in S : label[x] \in U}
           I == {U \in SUBSET K : SumFunctionOnSet(g, U) = SumFunctionOnSet(f, In(U))}
<1>1. \A k \in K : g[k] = SumFunctionOnSet(f, PartsOf(S, label, k)) /\ g[k] \in Nat
  <2>1. TAKE k \in K
  <2>2. IsFiniteSet(PartsOf(S, label, k)) /\ \A x \in PartsOf(S, label, k) : f[x] \in Nat
    BY FS_Subset DEF PartsOf
  <2> QED BY <2>2, SumFacts DEF SumOfParts
<1> HIDE DEF g
<1>2. ASSUME NEW U \in SUBSET K, \A V \in SUBSET U : V # U => V \in I PROVE U \in I
  <2>1. IsFiniteSet(U) /\ \A k \in U : g[k] \in Nat
    BY <1>1, FS_Subset
  <2>2. CASE U = {}
    <3>1. In(U) = {}
      BY <2>2
    <3>2. SumFunctionOnSet(f, {}) = 0 /\ SumFunctionOnSet(g, {}) = 0
      BY <1>1, SumFacts, FS_EmptySet
    <3> QED BY <2>2, <3>1, <3>2
  <2>3. CASE U # {}
    <3>1. PICK k : k \in U
      BY <2>3
    <3> DEFINE V == U \ {k}
    <3>2. SumFunctionOnSet(g, V) = SumFunctionOnSet(f, In(V))
      BY <1>2, <3>1
    <3>3. SumFunctionOnSet(g, U) = g[k] + SumFunctionOnSet(g, V) /\ SumFunctionOnSet(g, V) \in Nat
      BY <2>1, <3>1, SumRemove
    <3>4. /\ In(U) = PartsOf(S, label, k) \cup In(V)
          /\ PartsOf(S, label, k) \cap In(V) = {}
          /\ In(V) \in SUBSET S /\ PartsOf(S, label, k) \in SUBSET S
      BY <3>1 DEF PartsOf
    <3> HIDE DEF In, V
    <3>5. SumFunctionOnSet(f, In(U))
            = SumFunctionOnSet(f, PartsOf(S, label, k)) + SumFunctionOnSet(f, In(V))
      BY <3>4, SumUnion
    <3> QED BY <1>1, <3>1, <3>2, <3>3, <3>5
  <2> QED BY <2>2, <2>3
<1>3. K \in SUBSET K
  OBVIOUS
<1> HIDE DEF I
<1>4. \A U \in SUBSET K : U \in I
  BY <1>2, SubsetInduction
<1>5. In(K) = S
  OBVIOUS
<1>6. SumFunctionOnSet(g, K) = SumFunctionOnSet(f, In(K))
  BY <1>3, <1>4 DEF I
<1> QED BY <1>5, <1>6 DEF g

\* The sum of the sizes of the parts is the size of the whole.
LEMMA CountByLabel ==
  ASSUME NEW S, IsFiniteSet(S), NEW K, IsFiniteSet(K), NEW label, \A x \in S : label[x] \in K
  PROVE  SumFunctionOnSet([k \in K |-> Cardinality(PartsOf(S, label, k))], K) = Cardinality(S)
<1> DEFINE one == [x \in S |-> 1]
<1>1. \A x \in S : one[x] = IF x \in S THEN 1 ELSE 0
  OBVIOUS
<1>2. \A T \in SUBSET S : IsFiniteSet(T) /\ SumFunctionOnSet(one, T) = Cardinality(T)
  <2>1. TAKE T \in SUBSET S
  <2>2. IsFiniteSet(T) /\ T \cap S = T /\ \A x \in T : one[x] = IF x \in S THEN 1 ELSE 0
    BY FS_Subset
  <2> HIDE DEF one
  <2> QED BY <2>2, SumCounts
<1>3. \A x \in S : one[x] \in Nat
  OBVIOUS
<1> HIDE DEF one
<1>4. \A k \in K : PartsOf(S, label, k) \in SUBSET S
  BY DEF PartsOf
<1>5. SumOfParts(one, S, label, K) = [k \in K |-> Cardinality(PartsOf(S, label, k))]
  BY <1>2, <1>4 DEF SumOfParts
<1>6. SumFunctionOnSet(SumOfParts(one, S, label, K), K) = SumFunctionOnSet(one, S)
  BY <1>3, SumByLabel
<1> QED BY <1>2, <1>5, <1>6
-----------------------------------------------------------------------------
\* The fold of a sequence of n elements takes the last of those left.
LatestOf(n) == [s \in SUBSET (1 .. n) |-> Max(s)]

LEMMA LatestPicks == ASSUME NEW n \in Nat PROVE Picks(LatestOf(n), 1 .. n)
<1> DEFINE N == 1 .. n
<1>0. IsFiniteSet(N) /\ N \subseteq Nat
  BY FS_Interval
<1> HIDE DEF N
<1>1. ASSUME NEW s \in SUBSET N, s # {} PROVE Max(s) \in s
  <2>1. IsFiniteSet(s) /\ s \subseteq Nat
    BY <1>0, FS_Subset
  <2> QED BY <1>1, <2>1, MaxOfNats
<1> USE DEF N
<1> QED BY <1>1 DEF Picks, LatestOf

LEMMA LatestOfPrefix ==
  ASSUME NEW n \in Nat, NEW k \in 1 .. n
  PROVE  /\ 1 .. k \in SUBSET (1 .. n) /\ 1 .. k # {}
         /\ Max(1 .. k) = k /\ (1 .. k) \ {k} = 1 .. (k - 1)
<1>0. IsFiniteSet(1 .. k)
  BY FS_Interval
<1>1. k \in 1 .. k /\ 1 .. k # {} /\ 1 .. k \subseteq Nat
  OBVIOUS
<1>2. Max(1 .. k) \in 1 .. k /\ k <= Max(1 .. k)
  BY <1>0, <1>1, MaxOfNats
<1>3. Max(1 .. k) = k
  BY <1>2
<1>4. (1 .. k) \ {k} = 1 .. (k - 1) /\ 1 .. k \in SUBSET (1 .. n)
  OBVIOUS
<1> QED BY <1>1, <1>3, <1>4

\* A fold over the positions of a sequence exists, with values in H when its steps stay there.
LEMMA LeftFoldExists ==
  ASSUME NEW n \in Nat, NEW H, NEW base \in H, NEW step,
         \A k \in 1 .. n, h \in H : step[<<k, h>>] \in H
  PROVE  \E it : /\ IsFoldBy(it, 1 .. n, base, step, LatestOf(n))
                 /\ \A s \in SUBSET (1 .. n) : it[s] \in H
<1>1. IsFiniteSet(1 .. n)
  BY FS_Interval
<1>2. PICK it : IsFoldBy(it, 1 .. n, base, step, LatestOf(n))
  BY <1>1, LatestPicks, FoldByExists
<1> DEFINE I == {s \in SUBSET (1 .. n) : it[s] \in H}
<1>3. ASSUME NEW s \in SUBSET (1 .. n), \A u \in SUBSET s : u # s => u \in I PROVE s \in I
  <2> DEFINE x == LatestOf(n)[s]
  <2>1. it[s] = IF s = {} THEN base ELSE step[<<x, it[s \ {x}]>>]
    BY <1>2 DEF IsFoldBy
  <2>2. s # {} => x \in s
    BY LatestPicks DEF Picks
  <2> HIDE DEF x
  <2>3. s # {} => it[s \ {x}] \in H
    BY <1>3, <2>2
  <2> QED BY <2>1, <2>2, <2>3
<1> HIDE DEF I
<1>4. \A s \in SUBSET (1 .. n) : s \in I
  <2> DEFINE N == 1 .. n
  <2>1. IsFiniteSet(N) /\ \A s \in SUBSET N : (\A u \in SUBSET s : u # s => u \in I) => s \in I
    BY <1>1, <1>3
  <2> HIDE DEF N
  <2>2. \A s \in SUBSET N : s \in I
    BY <2>1, SubsetInduction
  <2> QED BY <2>2 DEF N
<1> QED BY <1>2, <1>4 DEF I

\* A set of numbers from 0 to n that has 0, and each number whose predecessor it has, is all.
LEMMA UpTo ==
  ASSUME NEW n \in Nat, NEW I, 0 \in I, \A k \in 1 .. n : k - 1 \in I => k \in I
  PROVE  \A k \in 0 .. n : k \in I
<1> DEFINE B == {k \in 0 .. n : k \notin I}
<1> SUFFICES ASSUME B # {} PROVE FALSE
  OBVIOUS
<1>0. B \in SUBSET Nat
  OBVIOUS
<1> HIDE DEF B
<1>1. PICK m \in B : \A k \in B : m <= k
  BY <1>0, LeastOfNats
<1> USE DEF B
<1>2. m \in 1 .. n /\ m - 1 \in 0 .. n /\ m - 1 \notin B
  BY <1>1
<1> QED BY <1>1, <1>2

-----------------------------------------------------------------------------
\* R puts any two elements of S in an order.
Orders(R, S) ==
    /\ \A x, y \in S : x # y => <<x, y>> \in R \/ <<y, x>> \in R
    /\ \A x, y, z \in S : <<x, y>> \in R /\ <<y, z>> \in R => <<x, z>> \in R

LEMMA OrdersPart == ASSUME NEW R, NEW S, Orders(R, S), NEW T \in SUBSET S PROVE Orders(R, T)
  BY DEF Orders

\* A finite set has a first element in such an order.
LEMMA FirstOf ==
    ASSUME NEW S, IsFiniteSet(S), NEW R, Orders(R, S), S # {}
    PROVE  \E m \in S : \A x \in S : x # m => <<m, x>> \in R
<1> DEFINE First(T) == \E m \in T : \A x \in T : x # m => <<m, x>> \in R
           I == {T \in SUBSET S : T = {} \/ First(T)}
<1>1. ASSUME NEW T \in SUBSET S, \A U \in SUBSET T : U # T => U \in I PROVE T \in I
  <2> SUFFICES ASSUME T # {} PROVE First(T)
    OBVIOUS
  <2>1. PICK p : p \in T
    OBVIOUS
  <2>2. T \ {p} \in I
    BY <1>1, <2>1
  <2>3. CASE T \ {p} = {}
    BY <2>1, <2>3
  <2>4. CASE First(T \ {p})
    <3>1. PICK m \in T \ {p} : \A x \in T \ {p} : x # m => <<m, x>> \in R
      BY <2>4
    <3>2. CASE <<m, p>> \in R
      BY <3>1, <3>2
    <3>3. CASE <<p, m>> \in R
      <4>1. \A x \in T : x # p => <<p, x>> \in R
        BY <2>1, <3>1, <3>3 DEF Orders
      <4> QED BY <2>1, <4>1
    <3> QED BY <2>1, <3>1, <3>2, <3>3 DEF Orders
  <2> QED BY <2>2, <2>3, <2>4
<1> HIDE DEF I
<1>2. \A T \in SUBSET S : T \in I
  BY <1>1, SubsetInduction
<1>3. S \in I
  BY <1>2
<1> QED BY <1>3 DEF I

\* Its elements can be listed in that order, each once.
ListOf(R, S) ==
    {o \in [1 .. Cardinality(S) -> S] :
        \A i, j \in 1 .. Cardinality(S) : i < j => o[i] # o[j] /\ <<o[i], o[j]>> \in R}
LEMMA ListExists ==
    ASSUME NEW S, IsFiniteSet(S), NEW R, Orders(R, S)
    PROVE  \E o : o \in ListOf(R, S)
<1> DEFINE I == {T \in SUBSET S : \E o : o \in ListOf(R, T)}
<1>1. ASSUME NEW T \in SUBSET S, \A U \in SUBSET T : U # T => U \in I PROVE T \in I
  <2>1. IsFiniteSet(T) /\ Orders(R, T)
    BY FS_Subset, OrdersPart
  <2>2. CASE T = {}
    <3>1. 1 .. Cardinality(T) = {}
      BY <2>2, FS_EmptySet
    <3> DEFINE o == [n \in {} |-> n]
    <3>2. o \in [{} -> T]
      OBVIOUS
    <3> HIDE DEF o
    <3>3. o \in ListOf(R, T)
      BY <3>1, <3>2 DEF ListOf
    <3> QED BY <3>3
  <2>3. CASE T # {}
    <3>1. PICK m \in T : \A x \in T : x # m => <<m, x>> \in R
      BY <2>1, <2>3, FirstOf
    <3> DEFINE U == T \ {m}
               n == Cardinality(U)
    <3>2. U \in I
      BY <3>1, <1>1
    <3>3. IsFiniteSet(U) /\ n \in Nat /\ Cardinality(T) = n + 1
      <4>1. IsFiniteSet(U) /\ Cardinality(U) = Cardinality(T) - 1
        BY <2>1, FS_RemoveElement
      <4>2. Cardinality(U) \in Nat /\ Cardinality(T) \in Nat
        BY <4>1, <2>1, FS_CardinalityType
      <4> QED BY <4>1, <4>2
    <3>4. PICK o : o \in ListOf(R, U)
      BY <3>2
    <3>5. /\ o \in [1 .. n -> U]
          /\ \A i, j \in 1 .. n : i < j => o[i] # o[j] /\ <<o[i], o[j]>> \in R
      BY <3>4 DEF ListOf
    <3> DEFINE p == [i \in 1 .. n + 1 |-> IF i = 1 THEN m ELSE o[i - 1]]
    <3> HIDE DEF n
    <3>6. p \in [1 .. n + 1 -> T]
      BY <3>3, <3>5
    <3>7. ASSUME NEW i \in 1 .. n + 1, NEW j \in 1 .. n + 1, i < j
          PROVE  p[i] # p[j] /\ <<p[i], p[j]>> \in R
      <4>1. j - 1 \in 1 .. n /\ j # 1 /\ p[j] = o[j - 1] /\ o[j - 1] \in U
        BY <3>3, <3>5, <3>7
      <4>2. CASE i = 1
        BY <4>1, <4>2, <3>1, <3>3
      <4>3. CASE i # 1
        <5>1. i - 1 \in 1 .. n /\ i - 1 < j - 1 /\ p[i] = o[i - 1]
          BY <4>3, <3>3, <3>7
        <5> QED BY <5>1, <4>1, <3>5
      <4> QED BY <4>2, <4>3
    <3>8. p \in ListOf(R, T)
      BY <3>3, <3>6, <3>7 DEF ListOf
    <3> QED BY <3>8
  <2> QED BY <2>2, <2>3
<1> HIDE DEF I
<1>2. \A T \in SUBSET S : T \in I
  BY <1>1, SubsetInduction
<1>3. S \in I
  BY <1>2
<1> QED BY <1>3 DEF I

\* A list without repetition that is as long as the set has all of it.
LEMMA ListHasAll ==
    ASSUME NEW S, IsFiniteSet(S), NEW o \in [1 .. Cardinality(S) -> S],
           \A i, j \in 1 .. Cardinality(S) : i < j => o[i] # o[j]
    PROVE  /\ \A x \in S : \E i \in 1 .. Cardinality(S) : o[i] = x
           /\ \A i, j \in 1 .. Cardinality(S) : o[i] = o[j] => i = j
<1> DEFINE n == Cardinality(S)
           T == {o[i] : i \in 1 .. n}
<1>1. n \in Nat
  BY FS_CardinalityType
<1>2. IsFiniteSet(1 .. n) /\ Cardinality(1 .. n) = n
  BY <1>1, FS_Interval
<1>3. \A i, j \in 1 .. n : o[i] = o[j] => i = j
  BY <1>1
<1>4. T \subseteq S
  OBVIOUS
<1> DEFINE g == [i \in 1 .. n |-> o[i]]
<1>5. g \in Injection(1 .. n, T)
  BY <1>3 DEF Injection, IsInjective
<1>6. IsFiniteSet(T)
  BY <1>4, FS_Subset
<1>7. Cardinality(1 .. n) <= Cardinality(T)
  <2> HIDE DEF T, g
  <2> QED BY <1>5, <1>6, FS_Injection
<1>8. T = S
  <2> HIDE DEF T
  <2>1. Cardinality(T) <= n /\ Cardinality(T) \in Nat
    BY <1>4, <1>6, FS_Subset, FS_CardinalityType
  <2>2. Cardinality(T) = Cardinality(S)
    BY <1>1, <1>2, <1>7, <2>1
  <2> QED BY <1>4, <2>2, FS_Subset
<1> QED BY <1>3, <1>8

LEMMA UpToIsFinite == ASSUME NEW n \in Nat PROVE IsFiniteSet(1 .. n) /\ Cardinality(1 .. n) = n
  BY FS_Interval

\* Sums of the same numbers are equal.
LEMMA SumSame ==
  ASSUME NEW S, IsFiniteSet(S), NEW f, NEW g, \A x \in S : f[x] \in Nat /\ f[x] = g[x]
  PROVE  SumFunctionOnSet(f, S) = SumFunctionOnSet(g, S)
<1> DEFINE z == [x \in S |-> 0]
           C == {}
<1>1. \A x \in S : z[x] = IF x \in C THEN 1 ELSE 0
  OBVIOUS
<1>2. \A x \in S : f[x] \in Nat /\ z[x] \in Nat /\ g[x] = f[x] + z[x]
  OBVIOUS
<1> HIDE DEF z
<1>3. SumFunctionOnSet(z, S) = Cardinality(S \cap C)
  <2> HIDE DEF C
  <2> QED BY <1>1, SumCounts
<1>4. SumFunctionOnSet(z, S) = 0
  BY <1>3, FS_EmptySet
<1>5. SumFunctionOnSet(g, S) = SumFunctionOnSet(f, S) + SumFunctionOnSet(z, S)
  BY <1>2, SumOfSum
<1>6. SumFunctionOnSet(f, S) \in Nat
  BY SumFacts
<1> QED BY <1>4, <1>5, <1>6

\* A fold from the left, prefix by prefix.
Follows(it, n, H, base, step) ==
    /\ it[{}] = base
    /\ \A k \in 1 .. n : it[1 .. (k - 1)] \in H => it[1 .. k] = step[<<k, it[1 .. (k - 1)]>>]
Trace(up, n, H, base, step) ==
    up \in [0 .. n -> H] /\ up[0] = base /\ \A k \in 1 .. n : up[k] = step[<<k, up[k - 1]>>]
Closed(n, H, step) == \A k \in 1 .. n, h \in H : step[<<k, h>>] \in H
LEMMA PrefixFold ==
  ASSUME NEW n \in Nat, NEW H, NEW base \in H, NEW step, Closed(n, H, step), NEW it, Follows(it, n, H, base, step)
  PROVE  \E up : Trace(up, n, H, base, step) /\ up[n] = it[1 .. n]
<1>0. /\ it[{}] = base
      /\ \A k \in 1 .. n : it[1 .. (k - 1)] \in H => it[1 .. k] = step[<<k, it[1 .. (k - 1)]>>]
  BY DEF Follows
<1>c. \A k \in 1 .. n, h \in H : step[<<k, h>>] \in H
  BY DEF Closed
<1> DEFINE up == [k \in 0 .. n |-> it[1 .. k]]
           I == {k \in 0 .. n : up[k] \in H}
<1>1. up[0] = base
  <2>1. 0 \in 0 .. n /\ 1 .. 0 = {}
    OBVIOUS
  <2> QED BY <1>0, <2>1
<1>2. \A k \in 1 .. n : up[k] = it[1 .. k] /\ up[k - 1] = it[1 .. (k - 1)]
  <2>1. \A k \in 1 .. n : k \in 0 .. n /\ k - 1 \in 0 .. n
    OBVIOUS
  <2> QED BY <2>1
<1>3. up[n] = it[1 .. n] /\ 0 \in 0 .. n
  OBVIOUS
<1>4. DOMAIN up = 0 .. n
  OBVIOUS
<1>5. up = [k \in 0 .. n |-> up[k]]
  OBVIOUS
<1> HIDE DEF up
<1>6. 0 \in I
  BY <1>1, <1>3
<1>7. ASSUME NEW k \in 1 .. n, k - 1 \in I PROVE k \in I
  <2>1. up[k] = step[<<k, up[k - 1]>>] /\ up[k - 1] \in H
    BY <1>0, <1>2, <1>7
  <2>3. step[<<k, up[k - 1]>>] \in H
    BY <1>c, <2>1
  <2>2. k \in 0 .. n
    OBVIOUS
  <2> QED BY <2>1, <2>2, <2>3
<1> HIDE DEF I
<1>8. \A k \in 0 .. n : k \in I
  BY <1>6, <1>7, UpTo
<1>9. \A k \in 0 .. n : up[k] \in H
  BY <1>8 DEF I
<1>10. up \in [0 .. n -> H]
  BY <1>5, <1>9
<1>11. ASSUME NEW k \in 1 .. n PROVE up[k] = step[<<k, up[k - 1]>>]
  <2>1. k - 1 \in 0 .. n
    OBVIOUS
  <2> QED BY <1>0, <1>2, <1>9, <2>1
<1>12. Trace(up, n, H, base, step) /\ up[n] = it[1 .. n]
  BY <1>1, <1>3, <1>10, <1>11 DEF Trace
<1> QED BY <1>12

\* A recursion from the end, where a position looks at the two after it.
IsFromEnd(f, n, base, step) ==
    \A i \in 1 .. n + 2 : f[i] = IF i > n THEN base ELSE step[<<i, f[i + 1], f[i + 2]>>]
LEMMA FromEndExists ==
  ASSUME NEW n \in Nat, NEW H, NEW base \in H, NEW step,
         \A i \in 1 .. n, g, h \in H : step[<<i, g, h>>] \in H
  PROVE  \E f \in [1 .. n + 2 -> H] : IsFromEnd(f, n, base, step)
<1> DEFINE Done(f, k) ==
             \A i \in 1 .. n + 2 :
               /\ i > n => f[i] = base
               /\ i <= n /\ i > n - k => f[i] = step[<<i, f[i + 1], f[i + 2]>>]
           I == {k \in 0 .. n : \E f \in [1 .. n + 2 -> H] : Done(f, k)}
<1>1. 0 \in I
  <2> DEFINE f == [i \in 1 .. n + 2 |-> base]
  <2>1. f \in [1 .. n + 2 -> H]
    OBVIOUS
  <2>2. Done(f, 0)
    OBVIOUS
  <2>3. 0 \in 0 .. n
    OBVIOUS
  <2> HIDE DEF f, Done
  <2> QED BY <2>1, <2>2, <2>3
<1>2. ASSUME NEW k \in 1 .. n, k - 1 \in I PROVE k \in I
  <2>1. PICK f \in [1 .. n + 2 -> H] : Done(f, k - 1)
    BY <1>2
  <2> DEFINE j == n + 1 - k
             v == step[<<j, f[j + 1], f[j + 2]>>]
             g == [i \in 1 .. n + 2 |-> IF i = j THEN v ELSE f[i]]
  <2>2. j \in 1 .. n /\ j + 1 \in 1 .. n + 2 /\ j + 2 \in 1 .. n + 2 /\ j \in 1 .. n + 2
    OBVIOUS
  <2>3. v \in H
    <3> HIDE DEF j
    <3>1. f[j + 1] \in H /\ f[j + 2] \in H
      BY <2>2
    <3> QED BY <2>2, <3>1
  <2>4. \A i \in 1 .. n + 2 : /\ i <= n /\ i > n - k => i = j \/ i > n - (k - 1)
                              /\ i <= n /\ i > n - k => i + 1 \in 1 .. n + 2 /\ i + 2 \in 1 .. n + 2
                              /\ i <= n /\ i > n - k => i + 1 # j /\ i + 2 # j
                              /\ i > n => i # j
    OBVIOUS
  <2> HIDE DEF j, v
  <2>5. g \in [1 .. n + 2 -> H]
    BY <2>3
  <2>6. \A i \in 1 .. n + 2 : g[i] = IF i = j THEN v ELSE f[i]
    OBVIOUS
  <2> HIDE DEF g
  <2>7. g[j + 1] = f[j + 1] /\ g[j + 2] = f[j + 2]
    <3>1. j \in Int /\ j + 1 # j /\ j + 2 # j
      BY <2>2
    <3> QED BY <2>2, <2>6, <3>1
  <2>8. ASSUME NEW i \in 1 .. n + 2
        PROVE  /\ i > n => g[i] = base
               /\ i <= n /\ i > n - k => g[i] = step[<<i, g[i + 1], g[i + 2]>>]
    <3>1. i > n => g[i] = base
      BY <2>1, <2>4, <2>6
    <3>2. CASE i = j
      BY <2>2, <2>6, <2>7, <3>1, <3>2 DEF v
    <3>3. CASE i # j /\ i <= n /\ i > n - k
      <4>1. i > n - (k - 1) /\ g[i] = f[i] /\ g[i + 1] = f[i + 1] /\ g[i + 2] = f[i + 2]
        BY <2>4, <2>6, <3>3
      <4>2. f[i] = step[<<i, f[i + 1], f[i + 2]>>]
        BY <2>1, <3>3, <4>1
      <4> QED BY <3>1, <4>1, <4>2
    <3> QED BY <3>1, <3>2, <3>3
  <2>9. Done(g, k) /\ k \in 0 .. n
    BY <2>8
  <2> HIDE DEF Done
  <2> QED BY <2>5, <2>9
<1> HIDE DEF I
<1>3. n \in I
  BY <1>1, <1>2, UpTo
<1>4. PICK f \in [1 .. n + 2 -> H] : Done(f, n)
  BY <1>3 DEF I
<1>5. IsFromEnd(f, n, base, step)
  BY <1>4 DEF IsFromEnd
<1> QED BY <1>5

\* An induction from the end, two positions at a time.
LEMMA FromEnd ==
  ASSUME NEW n \in Nat, NEW I, n + 1 \in I, n + 2 \in I,
         \A i \in 1 .. n : i + 1 \in I /\ i + 2 \in I => i \in I
  PROVE  \A i \in 1 .. n + 2 : i \in I
<1> DEFINE J == {k \in 0 .. n : n + 1 - k \in I /\ n + 2 - k \in I}
<1>1. 0 \in J
  OBVIOUS
<1>2. ASSUME NEW k \in 1 .. n, k - 1 \in J PROVE k \in J
  <2>1. /\ n + 1 - (k - 1) = n + 2 - k /\ n + 2 - (k - 1) = n + 3 - k
        /\ n + 1 - k \in 1 .. n /\ (n + 1 - k) + 1 = n + 2 - k /\ (n + 1 - k) + 2 = n + 3 - k
        /\ k \in 0 .. n
    OBVIOUS
  <2>2. n + 2 - k \in I /\ n + 3 - k \in I
    BY <1>2, <2>1
  <2>3. n + 1 - k \in I
    BY <2>1, <2>2
  <2> QED BY <2>1, <2>2, <2>3
<1> HIDE DEF J
<1>3. \A k \in 0 .. n : k \in J
  BY <1>1, <1>2, UpTo
<1>4. ASSUME NEW i \in 1 .. n + 2 PROVE i \in I
  <2>1. CASE i = n + 2
    BY <2>1
  <2>2. CASE i # n + 2
    <3>1. n + 1 - i \in 0 .. n /\ n + 1 - (n + 1 - i) = i
      BY <2>2
    <3> QED BY <1>3, <3>1 DEF J
  <2> QED BY <2>1, <2>2
<1> QED BY <1>4

\* Products of naturals grow with their factors.
LEMMA ProductGrows ==
  ASSUME NEW c \in Nat, NEW x \in Nat, NEW y \in Nat, x <= y
  PROVE  c * x \in Nat /\ c * y \in Nat /\ c * x <= c * y
  <1> DEFINE d == y - x
  <1>1. d \in Nat /\ y = x + d
    OBVIOUS
  <1> HIDE DEF d
  <1>2. c * y = c * x + c * d
    BY <1>1
  <1>3. c * x \in Nat /\ c * d \in Nat
    BY <1>1
  <1> QED BY <1>2, <1>3

\* A sum of terms that are at most c.
LEMMA SumAtMost ==
  ASSUME NEW S, IsFiniteSet(S), NEW c \in Nat, NEW f, \A x \in S : f[x] \in Nat /\ f[x] <= c
  PROVE  SumFunctionOnSet(f, S) <= c * Cardinality(S)
  <1> DEFINE Sum(T) == SumFunctionOnSet(f, T)
             I == {T \in SUBSET S : Sum(T) <= c * Cardinality(T)}
  <1>1. ASSUME NEW T \in SUBSET S, \A U \in SUBSET T : U # T => U \in I
        PROVE  T \in I
    <2>1. IsFiniteSet(T) /\ Cardinality(T) \in Nat /\ \A x \in T : f[x] \in Nat
      BY FS_Subset, FS_CardinalityType
    <2>2. CASE T = {}
      <3>1. Sum(T) = 0 /\ Cardinality(T) = 0
        BY <2>1, <2>2, SumFacts, FS_EmptySet
      <3>2. c * 0 = 0
        OBVIOUS
      <3> QED BY <3>1, <3>2
    <2>3. CASE T # {}
      <3>1. PICK x : x \in T
        BY <2>3
      <3>2. Sum(T \ {x}) \in Nat /\ Sum(T) = f[x] + Sum(T \ {x})
        BY <2>1, <3>1, SumRemove
      <3>3. IsFiniteSet(T \ {x}) /\ Cardinality(T \ {x}) = Cardinality(T) - 1
        BY <2>1, <3>1, FS_RemoveElement
      <3>4. Sum(T \ {x}) <= c * Cardinality(T \ {x})
        <4>1. T \ {x} \in SUBSET T /\ T \ {x} # T
          BY <3>1
        <4> QED BY <1>1, <4>1
      <3>5. Cardinality(T \ {x}) \in Nat
        BY <3>3, FS_CardinalityType
      <3> DEFINE m == Cardinality(T \ {x})
                 a == Sum(T \ {x})
      <3>6. /\ m \in Nat /\ Cardinality(T) = m + 1 /\ a \in Nat /\ a <= c * m /\ Sum(T) = f[x] + a
            /\ f[x] \in Nat /\ f[x] <= c
        BY <2>1, <3>1, <3>2, <3>3, <3>4, <3>5
      <3> HIDE DEF m, a
      <3>7. c * (m + 1) = c * m + c /\ c * m \in Nat
        BY <3>6
      <3>8. f[x] + a <= c * (m + 1)
        BY <3>6, <3>7
      <3> QED BY <3>6, <3>8
    <2> QED BY <2>2, <2>3
  <1> HIDE DEF I
  <1>2. \A T \in SUBSET S : T \in I
    BY <1>1, SubsetInduction
  <1> QED BY <1>2 DEF I

\* A sum of zeros.
LEMMA SumOfNothing ==
  ASSUME NEW S, IsFiniteSet(S), NEW f, \A x \in S : f[x] = 0
  PROVE  SumFunctionOnSet(f, S) = 0
  <1> DEFINE C == {}
  <1>1. \A x \in S : f[x] = IF x \in C THEN 1 ELSE 0
    OBVIOUS
  <1>2. SumFunctionOnSet(f, S) = Cardinality(S \cap C)
    <2> HIDE DEF C
    <2> QED BY <1>1, SumCounts
  <1> QED BY <1>2, FS_EmptySet

\* Pairs with a first element of K, at most c of each.
LEMMA PairsAtMost ==
  ASSUME NEW K, IsFiniteSet(K), NEW c \in Nat, NEW from, NEW n, NEW S,
         \A k \in K : from[k] \in Nat /\ n[k] \in Nat /\ n[k] <= c,
         \A r \in S : /\ r = <<r[1], r[2]>> /\ r[1] \in K /\ r[2] \in Nat
                      /\ from[r[1]] <= r[2] /\ r[2] < from[r[1]] + n[r[1]]
  PROVE  IsFiniteSet(S) /\ Cardinality(S) <= c * Cardinality(K)
  <1> DEFINE Part(k) == {r \in S : r[1] = k}
             label == [r \in S |-> r[1]]
             count == [k \in K |-> Cardinality(PartsOf(S, label, k))]
  <1>1. ASSUME NEW k \in K PROVE IsFiniteSet(Part(k)) /\ Cardinality(Part(k)) <= c
    <2> DEFINE I == from[k] .. from[k] + n[k] - 1
               O == {r[2] : r \in Part(k)}
               pair == [o \in O |-> <<k, o>>]
    <2>1. from[k] \in Nat /\ n[k] \in Nat /\ n[k] <= c
      OBVIOUS
    <2>2. IsFiniteSet(I) /\ Cardinality(I) = n[k]
      <3> DEFINE a == from[k]
                 b == from[k] + n[k] - 1
      <3>1. a \in Int /\ b \in Int /\ (IF a > b THEN 0 ELSE b - a + 1) = n[k]
        BY <2>1
      <3> HIDE DEF a, b
      <3>2. IsFiniteSet(a .. b) /\ Cardinality(a .. b) = IF a > b THEN 0 ELSE b - a + 1
        BY <3>1, FS_Interval
      <3> QED BY <3>1, <3>2 DEF a, b
    <2>3. O \subseteq I
      <3>1. \A r \in Part(k) : r[2] \in Nat /\ from[k] <= r[2] /\ r[2] < from[k] + n[k]
        OBVIOUS
      <3> QED BY <2>1, <3>1
    <2>4. Part(k) = {pair[o] : o \in O}
      <3>1. \A r \in Part(k) : r[2] \in O /\ r = <<k, r[2]>> /\ pair[r[2]] = r
        OBVIOUS
      <3>2. \A o \in O : \E r \in Part(k) : pair[o] = r
        <4>1. TAKE o \in O
        <4>2. PICK r \in Part(k) : r[2] = o
          OBVIOUS
        <4> QED BY <3>1, <4>2
      <3> HIDE DEF pair, O
      <3> QED BY <3>1, <3>2
    <2> HIDE DEF I, O
    <2>5. IsFiniteSet(O) /\ Cardinality(O) <= n[k]
      BY <2>2, <2>3, FS_Subset
    <2> HIDE DEF pair
    <2>6. IsFiniteSet({pair[o] : o \in O}) /\ Cardinality({pair[o] : o \in O}) <= Cardinality(O)
      BY <2>5, ImageIsFinite
    <2> HIDE DEF Part
    <2>7. IsFiniteSet(Part(k)) /\ Cardinality(Part(k)) <= Cardinality(O)
      BY <2>4, <2>6
    <2>8. Cardinality(O) \in Nat /\ Cardinality(Part(k)) \in Nat
      BY <2>5, <2>7, FS_CardinalityType
    <2> QED BY <2>1, <2>5, <2>7, <2>8
  <1>2. IsFiniteSet(S)
    <2> DEFINE F == {Part(k) : k \in K}
               part == [k \in K |-> Part(k)]
    <2>1. F = {part[k] : k \in K}
      OBVIOUS
    <2>2. \A k \in K : IsFiniteSet(part[k])
      BY <1>1
    <2>3. S = UNION F
      OBVIOUS
    <2>4. \A T \in F : IsFiniteSet(T)
      BY <1>1
    <2> HIDE DEF F, part
    <2>5. IsFiniteSet(F)
      BY <2>1, ImageIsFinite
    <2> QED BY <2>3, <2>4, <2>5, FS_UNION
  <1>3. \A r \in S : label[r] \in K
    OBVIOUS
  <1>4. ASSUME NEW k \in K PROVE count[k] \in Nat /\ count[k] <= c
    <2>1. PartsOf(S, label, k) = Part(k)
      BY DEF PartsOf
    <2>2. count[k] = Cardinality(Part(k))
      BY <2>1
    <2> QED BY <1>1, <2>2, FS_CardinalityType
  <1>5. SumFunctionOnSet(count, K) = Cardinality(S)
    <2> HIDE DEF label
    <2> QED BY <1>2, <1>3, CountByLabel
  <1> HIDE DEF count
  <1>6. SumFunctionOnSet(count, K) <= c * Cardinality(K)
    BY <1>4, SumAtMost
  <1> QED BY <1>2, <1>5, <1>6
=============================================================================
