---------------------------- MODULE Totals_proofs ----------------------------
(***************************************************************************)
(* What the totals of accounts need: a total of finitely many natural      *)
(* numbers is one, it grows and shrinks with its values, and one more      *)
(* value adds itself.  And what takes the place of induction over a        *)
(* predicate: induction over the set of the numbers that have it.          *)
(***************************************************************************)
EXTENDS Totals, FiniteSetTheorems, WellFoundedInduction, Functions, TLAPS

\* f has natural numbers on the finite set S.
Summable(f, S) == IsFiniteSet(S) /\ \A x \in S : f[x] \in Nat

\* A unit is a value's index and a number up to the value.
LEMMA InUnits ==
  ASSUME NEW f, NEW S, NEW u
  PROVE  u \in Units(f, S) <=> \E x \in S : \E i \in 1..f[x] : u = <<x, i>>
BY DEF Units

\* Finitely many values have finitely many units.
LEMMA UnitsFinite ==
  ASSUME NEW f, NEW S, Summable(f, S)
  PROVE  IsFiniteSet(Units(f, S))
<1> DEFINE Of(x) == {x} \X (1..f[x])
           Parts == {Of(x) : x \in S}
           part == [x \in S |-> Of(x)]
<1>1. part \in Surjection(S, Parts)
  BY DEF Surjection
<1>2. IsFiniteSet(Parts)
  <2> HIDE DEF Parts, part
  <2> QED BY <1>1, FS_Surjection DEF Summable
<1>3. ASSUME NEW x \in S PROVE IsFiniteSet(Of(x))
  <2>1. IsFiniteSet(1..f[x])
    BY FS_Interval DEF Summable
  <2>2. IsFiniteSet({x})
    BY FS_Singleton
  <2> QED BY <2>1, <2>2, FS_Product
<1>4. \A T \in Parts : IsFiniteSet(T)
  BY <1>3
<1>5. Units(f, S) = UNION Parts
  BY DEF Units
<1> HIDE DEF Parts
<1> QED BY <1>2, <1>4, <1>5, FS_UNION

\* A total is a natural number.
LEMMA TotalNat ==
  ASSUME NEW f, NEW S, Summable(f, S)
  PROVE  Total(f, S) \in Nat
BY UnitsFinite, FS_CardinalityType DEF Total

\* It depends on the values alone.
LEMMA TotalSame ==
  ASSUME NEW f, NEW g, NEW S, \A x \in S : f[x] = g[x]
  PROVE  Total(f, S) = Total(g, S)
<1>1. Units(f, S) = Units(g, S)
  BY DEF Units
<1> QED BY <1>1 DEF Total

\* Nothing totals 0.
LEMMA TotalEmpty == ASSUME NEW f PROVE Total(f, {}) = 0
<1>1. Units(f, {}) = {}
  BY DEF Units
<1> QED BY <1>1, FS_EmptySet DEF Total

\* Values that are all at most others total at most theirs.
LEMMA TotalMonotone ==
  ASSUME NEW f, NEW g, NEW S, Summable(f, S), Summable(g, S), \A x \in S : f[x] <= g[x]
  PROVE  Total(f, S) <= Total(g, S)
<1>1. \A x \in S : 1..f[x] \subseteq 1..g[x]
  BY DEF Summable
<1>2. Units(f, S) \subseteq Units(g, S)
  BY <1>1 DEF Units
<1>3. Units(f, S) \in SUBSET Units(g, S)
  BY <1>2
<1> QED BY <1>3, UnitsFinite, FS_Subset DEF Total

\* One more value adds itself.
LEMMA TotalAdd ==
  ASSUME NEW f, NEW S, NEW x, x \notin S, Summable(f, S \cup {x})
  PROVE  /\ Summable(f, S)
         /\ Total(f, S \cup {x}) = Total(f, S) + f[x]
<1> DEFINE One == {x} \X (1..f[x])
<1>1. f[x] \in Nat
  BY DEF Summable
<1>2. S \in SUBSET (S \cup {x})
  OBVIOUS
<1>3. IsFiniteSet(S)
  BY <1>2, FS_Subset DEF Summable
<1>4. Summable(f, S)
  BY <1>3 DEF Summable
<1>5. IsFiniteSet({x}) /\ Cardinality({x}) = 1
  BY FS_Singleton
<1>6. IsFiniteSet(1..f[x]) /\ Cardinality(1..f[x]) = f[x]
  BY <1>1, FS_Interval
<1>7. IsFiniteSet(One) /\ Cardinality(One) = f[x]
  <2>1. IsFiniteSet(One) /\ Cardinality(One) = Cardinality({x}) * Cardinality(1..f[x])
    BY <1>5, <1>6, FS_Product
  <2> QED BY <1>1, <1>5, <1>6, <2>1
<1>8. Units(f, S \cup {x}) = Units(f, S) \cup One
  BY DEF Units
<1>9. Units(f, S) \cap One = {}
  BY DEF Units
<1> HIDE DEF One
<1>10. Cardinality(Units(f, S) \cap One) = 0
  BY <1>9, FS_EmptySet
<1>11. Cardinality(Units(f, S)) \in Nat
  BY <1>4, TotalNat DEF Total
<1>12. Cardinality(Units(f, S) \cup One)
         = Cardinality(Units(f, S)) + Cardinality(One) - Cardinality(Units(f, S) \cap One)
  BY <1>4, <1>7, UnitsFinite, FS_Union
<1>13. Cardinality(Units(f, S \cup {x})) = Cardinality(Units(f, S)) + f[x]
  <2>1. \A n, m \in Nat : n + m - 0 = n + m
    OBVIOUS
  <2>2. Cardinality(Units(f, S \cup {x})) = Cardinality(Units(f, S)) + Cardinality(One) - 0
    BY <1>8, <1>10, <1>12
  <2> QED BY <1>1, <1>7, <1>11, <2>1, <2>2
<1> QED BY <1>4, <1>13 DEF Total

\* Values that agree but for one differ in total by its change.
LEMMA TotalUpdate ==
  ASSUME NEW f, NEW g, NEW S, NEW x \in S, Summable(f, S), Summable(g, S),
         \A y \in S \ {x} : f[y] = g[y]
  PROVE  Total(g, S) = Total(f, S) - f[x] + g[x]
<1> DEFINE R == S \ {x}
<1>1. S = R \cup {x} /\ x \notin R
  OBVIOUS
<1>2. /\ Summable(f, R) /\ Total(f, S) = Total(f, R) + f[x]
      /\ Total(g, S) = Total(g, R) + g[x]
  BY <1>1, TotalAdd
<1>3. Total(f, R) = Total(g, R)
  BY TotalSame
<1>4. Total(f, R) \in Nat /\ f[x] \in Nat /\ g[x] \in Nat
  BY <1>2, TotalNat DEF Summable
<1> QED BY <1>2, <1>3, <1>4

\* A value is part of the total.
LEMMA TotalBounds ==
  ASSUME NEW f, NEW S, NEW x \in S, Summable(f, S)
  PROVE  f[x] <= Total(f, S)
<1> DEFINE R == S \ {x}
<1>1. S = R \cup {x} /\ x \notin R
  OBVIOUS
<1>2. Summable(f, R) /\ Total(f, S) = Total(f, R) + f[x]
  BY <1>1, TotalAdd
<1>3. Total(f, R) \in Nat /\ f[x] \in Nat
  BY <1>2, TotalNat DEF Summable
<1> QED BY <1>2, <1>3

\* Zeros total zero.
LEMMA TotalZero ==
  ASSUME NEW f, NEW S, \A x \in S : f[x] = 0
  PROVE  Total(f, S) = 0
<1>1. Units(f, S) = {}
  BY DEF Units
<1> QED BY <1>1, FS_EmptySet DEF Total

\* One more value adds itself to a total over positions.
LEMMA TotalOfOneMore ==
  ASSUME NEW n \in Nat, NEW f, NEW g, g[n + 1] \in Nat,
         \A i \in 1..n : f[i] \in Nat /\ g[i] = f[i]
  PROVE  /\ Total(f, 1..n) \in Nat
         /\ Total(g, 1..(n + 1)) = Total(f, 1..n) + g[n + 1]
<1>1. 1..(n + 1) = (1..n) \cup {n + 1} /\ n + 1 \notin 1..n
  OBVIOUS
<1>2. IsFiniteSet(1..n) /\ IsFiniteSet(1..(n + 1))
  BY FS_Interval
<1>3. Summable(f, 1..n) /\ Summable(g, (1..n) \cup {n + 1})
  <2>1. Summable(f, 1..n)
    BY <1>2 DEF Summable
  <2>2. \A i \in (1..n) \cup {n + 1} : g[i] \in Nat
    OBVIOUS
  <2>3. IsFiniteSet((1..n) \cup {n + 1})
    BY <1>1, <1>2
  <2> QED BY <2>1, <2>2, <2>3 DEF Summable
<1>4. Total(g, (1..n) \cup {n + 1}) = Total(g, 1..n) + g[n + 1]
  BY <1>1, <1>3, TotalAdd
<1>5. Total(g, 1..n) = Total(f, 1..n)
  BY TotalSame
<1>6. Total(f, 1..n) \in Nat
  BY <1>3, TotalNat
<1> QED BY <1>1, <1>4, <1>5, <1>6
-----------------------------------------------------------------------------
(* Induction, through least elements.                                      *)

\* The natural numbers in their order.
LEMMA LessIsRelated ==
  ASSUME NEW y \in Nat, NEW x \in Nat, y < x PROVE <<y, x>> \in OpToRel(<, Nat)
<1>1. <<y, x>> \in {ss \in Nat \X Nat : ss[1] < ss[2]}
  OBVIOUS
<1> QED BY <1>1 DEF OpToRel

\* A set of natural numbers that has a member has a least one.
LEMMA LeastNatural ==
  ASSUME NEW T \in SUBSET Nat, T # {}
  PROVE  \E x \in T : \A y \in T : x <= y
<1>1. PICK x \in T : \A y \in T : ~(<<y, x>> \in OpToRel(<, Nat))
  BY NatLessThanWellFounded, WFMin
<1>2. ASSUME NEW y \in T PROVE x <= y
  <2>1. x \in Nat /\ y \in Nat /\ ~(<<y, x>> \in OpToRel(<, Nat))
    BY <1>1
  <2>2. ~(y < x)
    <3> SUFFICES ASSUME y < x PROVE FALSE
      OBVIOUS
    <3>1. <<y, x>> \in OpToRel(<, Nat)
      BY <2>1, LessIsRelated, Zenon
    <3> QED BY <2>1, <3>1, Zenon
  <2>3. x \in Nat /\ y \in Nat
    OBVIOUS
  <2> QED BY <2>2, <2>3
<1> QED BY <1>1, <1>2

\* What holds of 0, and of n + 1 where it holds of n, holds of every natural
\* number up to m: T is the set of those of which it holds.
LEMMA InductionUpTo ==
  ASSUME NEW m \in Nat, NEW T, 0 \in T, \A n \in 0..m : n \in T /\ n < m => n + 1 \in T
  PROVE  0..m \subseteq T
<1> SUFFICES ASSUME (0..m) \ T # {} PROVE FALSE
  OBVIOUS
<1>1. (0..m) \ T \in SUBSET Nat
  OBVIOUS
<1>2. PICK x \in (0..m) \ T : \A y \in (0..m) \ T : x <= y
  BY <1>1, LeastNatural
<1>3. x # 0 /\ x - 1 \in 0..m /\ x - 1 < m
  BY <1>2
<1>4. x - 1 \in T
  BY <1>2, <1>3
<1>5. (x - 1) + 1 \in T
  BY <1>3, <1>4
<1> QED BY <1>2, <1>5
=============================================================================
