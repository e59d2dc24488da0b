----------------------------- MODULE SumTheorems -----------------------------
(***************************************************************************)
(* What MapThenSumSet computes over the subsets of a finite set: nothing   *)
(* for the empty set, and for any element of a set its own weight plus the *)
(* sum of the others, whatever order the fold picks the elements in.       *)
(*                                                                         *)
(* Induction over the size of a set is the argument of the smallest        *)
(* counterexample: the natural numbers are well-founded (WFMin).           *)
(***************************************************************************)
EXTENDS Integers, FiniteSets, FiniteSetsExt, FiniteSetTheorems, WellFoundedInduction, TLAPS

\* Sum of the weights of the elements of a set.
SumOver(weight, set) == MapThenSumSet(LAMBDA v : weight[v], set)

\* The element the fold takes next.
Pick(set) == CHOOSE x \in set : TRUE

\* One step of the fold.
Folded(weight, g, s) ==
    IF s = {} THEN 0 ELSE weight[Pick(s)] + g[s \ {Pick(s)}]

\* A function that follows the fold on every subset of a set.
Follows(weight, g, set) == g = [s \in SUBSET set |-> Folded(weight, g, s)]

\* A function that gives the sum of every subset of a set.
GivesSums(weight, g, set) ==
    /\ \A s \in SUBSET set : g[s] = Folded(weight, g, s)
    /\ \A s \in SUBSET set : SumOver(weight, s) = g[s]

\* Any one element of a subset can be taken out of its sum.
SumsSplit(weight, set) ==
    \A s \in SUBSET set : \A x \in s :
        SumOver(weight, s) = weight[x] + SumOver(weight, s \ {x})

\* Every set of natural numbers has a least element.
LEMMA LeastNat ==
    ASSUME NEW T \in SUBSET Nat, T # {}
    PROVE  \E m \in T : \A n \in T : m <= n
<1>1. PICK m \in T : \A n \in T : ~(<<n, m>> \in OpToRel(<, Nat))
  BY WFMin, NatLessThanWellFounded
<1>2. \A n \in T : ~(n < m)
  BY <1>1 DEF OpToRel
<1> QED BY <1>2

\* Subsets of a finite set have a cardinality, which drops by one with an element.
LEMMA SubsetSize ==
    ASSUME NEW V, IsFiniteSet(V), NEW s \in SUBSET V
    PROVE  /\ IsFiniteSet(s) /\ Cardinality(s) \in Nat
           /\ Cardinality(s) <= Cardinality(V)
           /\ Cardinality(s) = 0 <=> s = {}
           /\ \A x \in s : s \ {x} \in SUBSET V /\ Cardinality(s \ {x}) = Cardinality(s) - 1
           /\ s # {} => Pick(s) \in s
<1>1. IsFiniteSet(s) /\ Cardinality(s) <= Cardinality(V)
  BY FS_Subset
<1>2. Cardinality(s) \in Nat /\ (Cardinality(s) = 0 <=> s = {})
  BY <1>1, FS_CardinalityType, FS_EmptySet
<1>3. \A x \in s : Cardinality(s \ {x}) = Cardinality(s) - 1
  BY <1>1, FS_RemoveElement
<1>4. s # {} => Pick(s) \in s
  BY DEF Pick
<1> QED BY <1>1, <1>2, <1>3, <1>4

\* A family of subsets of a finite set has a smallest member.
LEMMA SmallestSet ==
    ASSUME NEW V, IsFiniteSet(V), NEW B \in SUBSET SUBSET V, B # {}
    PROVE  \E s \in B : \A t \in B : Cardinality(s) <= Cardinality(t)
<1> DEFINE T == {Cardinality(t) : t \in B}
<1>1. T \in SUBSET Nat /\ T # {}
  BY SubsetSize
<1>2. PICK m \in T : \A n \in T : m <= n
  BY <1>1, LeastNat
<1> QED BY <1>2

\* The fold over a set is the value of any function that follows it.
LEMMA SumUnfolds ==
    ASSUME NEW weight, NEW set
    PROVE  SumOver(weight, set) = (CHOOSE g : Follows(weight, g, set))[set]
BY DEF SumOver, MapThenSumSet, MapThenFoldSet, Follows, Folded, Pick

\* For a finite set there is such a function.
LEMMA FollowerExists ==
    ASSUME NEW V, IsFiniteSet(V), NEW weight \in [V -> Nat]
    PROVE  \E g \in [SUBSET V -> Nat] : Follows(weight, g, V)
<1> DEFINE Upto(g, n) == \A s \in SUBSET V :
                             Cardinality(s) <= n => g[s] = Folded(weight, g, s)
           Good == {n \in Nat : \E g \in [SUBSET V -> Nat] : Upto(g, n)}
<1>1. 0 \in Good
  <2> DEFINE g == [s \in SUBSET V |-> 0]
  <2>1. \A s \in SUBSET V : Cardinality(s) <= 0 => s = {}
    BY SubsetSize
  <2>2. g \in [SUBSET V -> Nat] /\ Upto(g, 0)
    BY <2>1 DEF Folded
  <2> QED BY <2>2
<1>2. ASSUME NEW n \in Good
      PROVE  n + 1 \in Good
  <2>1. PICK g \in [SUBSET V -> Nat] : Upto(g, n)
    BY <1>2
  <2> DEFINE h == [s \in SUBSET V |-> IF Cardinality(s) <= n THEN g[s]
                                      ELSE Folded(weight, g, s)]
  <2>2. ASSUME NEW s \in SUBSET V
        PROVE  Folded(weight, g, s) \in Nat
    BY SubsetSize DEF Folded
  <2>3. h \in [SUBSET V -> Nat]
    BY <2>2
  <2>4. ASSUME NEW s \in SUBSET V, Cardinality(s) <= n + 1
        PROVE  h[s] = Folded(weight, h, s)
    <3>1. h[s] = Folded(weight, g, s)
      BY <2>1
    <3>2. CASE s = {}
      BY <3>1, <3>2 DEF Folded
    <3>3. CASE s # {}
      <4>1. /\ Pick(s) \in s /\ s \ {Pick(s)} \in SUBSET V
            /\ Cardinality(s \ {Pick(s)}) <= n
        BY <1>2, <2>4, <3>3, SubsetSize
      <4>2. h[s \ {Pick(s)}] = g[s \ {Pick(s)}]
        BY <4>1
      <4> QED BY <3>1, <3>3, <4>2 DEF Folded
    <3> QED BY <3>2, <3>3
  <2>5. Upto(h, n + 1)
    BY <2>4
  <2>6. n + 1 \in Nat
    BY <1>2
  <2> HIDE DEF h, Upto
  <2> QED BY <2>3, <2>5, <2>6
<1>3. Good = Nat
  <2> SUFFICES ASSUME Nat \ Good # {}
               PROVE  FALSE
    OBVIOUS
  <2> HIDE DEF Good
  <2>1. PICK m \in Nat \ Good : \A n \in Nat \ Good : m <= n
    BY LeastNat
  <2>2. m # 0
    BY <1>1, <2>1
  <2>3. m - 1 \in Nat /\ m - 1 \in Good
    BY <2>1, <2>2
  <2>4. (m - 1) + 1 \in Good
    BY <1>2, <2>3
  <2>5. (m - 1) + 1 = m
    BY <2>1
  <2> QED BY <2>1, <2>4, <2>5
<1>4. Cardinality(V) \in Nat
  BY FS_CardinalityType
<1>5. PICK g \in [SUBSET V -> Nat] : Upto(g, Cardinality(V))
  BY <1>3, <1>4
<1>6. \A s \in SUBSET V : g[s] = Folded(weight, g, s)
  BY <1>5, SubsetSize
<1>7. g = [s \in SUBSET V |-> g[s]]
  OBVIOUS
<1> QED BY <1>6, <1>7 DEF Follows

\* Two followers agree on the subsets they share.
LEMMA FollowersAgree ==
    ASSUME NEW V, IsFiniteSet(V), NEW weight \in [V -> Nat], NEW S \in SUBSET V,
           NEW g, NEW h, Follows(weight, g, V), Follows(weight, h, S)
    PROVE  \A s \in SUBSET S : h[s] = g[s]
<1> DEFINE B == {s \in SUBSET S : h[s] # g[s]}
<1> SUFFICES ASSUME B # {}
             PROVE  FALSE
  OBVIOUS
<1>1. B \in SUBSET SUBSET V
  OBVIOUS
<1> HIDE DEF B
<1>2. PICK s \in B : \A t \in B : Cardinality(s) <= Cardinality(t)
  BY <1>1, SmallestSet
<1> USE DEF B
<1>3. /\ s \in SUBSET S /\ s \in SUBSET V
      /\ h[s] = Folded(weight, h, s) /\ g[s] = Folded(weight, g, s)
  BY DEF Follows
<1>4. s # {}
  BY <1>3 DEF Folded
<1>5. /\ Pick(s) \in s /\ Cardinality(s \ {Pick(s)}) = Cardinality(s) - 1
      /\ Cardinality(s) \in Nat
  BY <1>3, <1>4, SubsetSize
<1>6. s \ {Pick(s)} \notin B
  BY <1>2, <1>5
<1>7. h[s \ {Pick(s)}] = g[s \ {Pick(s)}]
  BY <1>3, <1>6
<1> QED BY <1>3, <1>4, <1>7 DEF Folded

\* One function gives the sums of all subsets of a finite set.
LEMMA SumsExist ==
    ASSUME NEW V, IsFiniteSet(V), NEW weight \in [V -> Nat]
    PROVE  \E g \in [SUBSET V -> Nat] : GivesSums(weight, g, V)
<1>1. PICK g \in [SUBSET V -> Nat] : Follows(weight, g, V)
  BY FollowerExists
<1>2. ASSUME NEW S \in SUBSET V
      PROVE  SumOver(weight, S) = g[S]
  <2> DEFINE w == [v \in S |-> weight[v]]
  <2>1. IsFiniteSet(S) /\ S \in SUBSET S
    BY FS_Subset
  <2>2. \E h : Follows(weight, h, S)
    <3> DEFINE h == [s \in SUBSET S |-> g[s]]
    <3>1. \A s \in SUBSET S : s \ {Pick(s)} \in SUBSET S /\ s \in SUBSET V
      OBVIOUS
    <3>2. \A s \in SUBSET S : h[s] = Folded(weight, h, s)
      BY <1>1, <3>1 DEF Follows, Folded
    <3>3. h = [s \in SUBSET S |-> Folded(weight, h, s)]
      BY <3>2
    <3> QED BY <3>3 DEF Follows
  <2>3. Follows(weight, CHOOSE h : Follows(weight, h, S), S)
    BY <2>2
  <2>4. (CHOOSE h : Follows(weight, h, S))[S] = g[S]
    BY <1>1, <2>1, <2>3, FollowersAgree
  <2> QED BY <2>4, SumUnfolds
<1>3. GivesSums(weight, g, V)
  BY <1>1, <1>2 DEF Follows, GivesSums
<1> QED BY <1>3

\* The sum of the empty set is 0, and every sum is a natural number.
THEOREM SumType ==
    ASSUME NEW V, IsFiniteSet(V), NEW weight \in [V -> Nat]
    PROVE  /\ SumOver(weight, {}) = 0
           /\ \A s \in SUBSET V : SumOver(weight, s) \in Nat
<1>1. PICK g \in [SUBSET V -> Nat] : GivesSums(weight, g, V)
  BY SumsExist
<1> QED BY <1>1 DEF GivesSums, Folded

\* Taking any one element out of a set takes its weight off the sum.
THEOREM SumRemove ==
    ASSUME NEW V, IsFiniteSet(V), NEW weight \in [V -> Nat]
    PROVE  SumsSplit(weight, V)
<1>1. PICK g \in [SUBSET V -> Nat] : GivesSums(weight, g, V)
  BY SumsExist
<1> DEFINE B == {s \in SUBSET V : \E x \in s : g[s] # weight[x] + g[s \ {x}]}
<1>2. B = {}
  <2> SUFFICES ASSUME B # {}
               PROVE  FALSE
    OBVIOUS
  <2>1. B \in SUBSET SUBSET V
    OBVIOUS
  <2> HIDE DEF B
  <2>2. PICK s \in B : \A t \in B : Cardinality(s) <= Cardinality(t)
    BY <2>1, SmallestSet
  <2> USE DEF B
  <2>3. PICK x \in s : g[s] # weight[x] + g[s \ {x}]
    OBVIOUS
  <2> DEFINE c == Pick(s)
  <2>4. s \in SUBSET V /\ c \in s /\ Cardinality(s) \in Nat
        /\ Cardinality(s \ {c}) = Cardinality(s) - 1
        /\ Cardinality(s \ {x}) = Cardinality(s) - 1
    BY <2>3, SubsetSize
  <2>5. g[s] = weight[c] + g[s \ {c}]
    BY <1>1, <2>4 DEF GivesSums, Folded
  <2> HIDE DEF c
  <2>6. x # c
    BY <2>3, <2>5
  <2>7. s \ {c} \in SUBSET V /\ s \ {x} \in SUBSET V /\ s \ {c} \notin B /\ s \ {x} \notin B
    <3>1. s \ {c} \in SUBSET V /\ s \ {x} \in SUBSET V
      BY <2>4
    <3> HIDE DEF B
    <3>2. ~(Cardinality(s) <= Cardinality(s \ {c})) /\ ~(Cardinality(s) <= Cardinality(s \ {x}))
      BY ONLY <2>4
    <3> QED BY <2>2, <3>1, <3>2
  <2>8. g[s \ {c}] = weight[x] + g[(s \ {c}) \ {x}]
    BY <2>3, <2>6, <2>7
  <2>9. g[s \ {x}] = weight[c] + g[(s \ {x}) \ {c}]
    BY <2>4, <2>6, <2>7
  <2>10. (s \ {c}) \ {x} = (s \ {x}) \ {c}
    OBVIOUS
  <2> DEFINE rest == g[(s \ {x}) \ {c}]
  <2>11. weight[x] \in Nat /\ weight[c] \in Nat /\ rest \in Nat
    BY <2>3, <2>4
  <2>12. g[s \ {c}] = weight[x] + rest /\ g[s \ {x}] = weight[c] + rest
    BY <2>8, <2>9, <2>10
  <2> HIDE DEF rest, B
  <2>13. g[s] = weight[x] + g[s \ {x}]
    BY ONLY <2>5, <2>11, <2>12
  <2> QED BY <2>3, <2>13
<1>3. \A s \in SUBSET V : \A x \in s : g[s] = weight[x] + g[s \ {x}]
  BY <1>2
<1> QED BY <1>1, <1>3 DEF GivesSums, SumsSplit
=============================================================================
