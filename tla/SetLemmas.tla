------------------------------ MODULE SetLemmas ------------------------------
(***************************************************************************)
(* What Min, Max and SumOver compute, for every finite set and every       *)
(* column of figures: the extremes are elements; a sum is a natural        *)
(* number, takes its elements in any order, and adds up over disjoint sets *)
(* and over columns.  The last two parts are about FoldLeft, which keeps   *)
(* what each of its steps keeps, and about rankings: the first n are n, or *)
(* all there are, and there is a sequence of all in their order.           *)
(*                                                                         *)
(* Induction over a finite set takes the form of a least counterexample:   *)
(* a set of subsets, well founded by strict inclusion, that a minimal      *)
(* element shows to be empty.                                              *)
(***************************************************************************)
EXTENDS Sums, SequencesExt, FiniteSetTheorems, WellFoundedInduction, TLAPS

\* A set of subsets of a finite set that is not empty has a minimal one.
LEMMA LeastSubset ==
    ASSUME NEW S, IsFiniteSet(S), NEW B \in SUBSET SUBSET S, B # {}
    PROVE  \E s \in B : \A t \in B : ~(t \subseteq s /\ t # s)
<1>1. IsWellFoundedOn(StrictSubsetOrdering(S), FiniteSubsetsOf(S))
  BY FS_StrictSubsetOrderingWellFounded
<1>2. FiniteSubsetsOf(S) = SUBSET S
  BY FS_FiniteSubsetsOfFinite
<1>3. PICK s \in B : \A t \in B : ~(<<t, s>> \in StrictSubsetOrdering(S))
  BY <1>1, <1>2, WFMin
<1>4. \A t \in B : t \subseteq s /\ t # s => <<t, s>> \in StrictSubsetOrdering(S)
  BY DEF StrictSubsetOrdering
<1>5. \A t \in B : ~(t \subseteq s /\ t # s)
  BY <1>3, <1>4, Zenon
<1>6. s \in B
  BY <1>3
<1> QED
  BY <1>5, <1>6, Zenon

-----------------------------------------------------------------------------
(* The extremes.                                                           *)

\* A set of natural numbers up to some bound is finite.
LEMMA BoundedIsFinite ==
    ASSUME NEW m \in Nat, NEW n \in Nat, NEW S \in SUBSET (m..n)
    PROVE  IsFiniteSet(S)
<1>1. IsFiniteSet(m..n)
  BY FS_Interval
<1> QED
  BY <1>1, FS_Subset

\* The minimum of a finite set of integers is its least member.
LEMMA MinIsLeast ==
    ASSUME NEW S, IsFiniteSet(S), S # {}
    PROVE  S \subseteq Int => Min(S) \in S /\ \A y \in S : Min(S) <= y
<1> DEFINE below(x) == {y \in S : y <= x}
           B == {below(x) : x \in S}
<1>1. PICK A \in B : \A t \in B : ~(t \subseteq A /\ t # A)
  <2>1. B \in SUBSET SUBSET S /\ B # {}
    OBVIOUS
  <2> HIDE DEF B
  <2> QED
    BY <2>1, LeastSubset
<1>2. PICK x \in S : A = below(x)
  BY <1>1
<1>3. ASSUME S \subseteq Int, NEW y \in S, ~(x <= y) PROVE FALSE
  <2>1. x \in Int /\ y \in Int /\ y < x
    BY <1>3
  <2>2. below(y) \subseteq A /\ x \in A /\ x \notin below(y)
    <3>1. \A z \in S : z \in A <=> z <= x
      BY <1>2
    <3>2. \A z \in Int : z <= y => z <= x
      BY <2>1
    <3>3. x <= x /\ ~(x <= y)
      BY <2>1
    <3> QED
      BY <1>3, <3>1, <3>2, <3>3
  <2>3. below(y) \in B
    OBVIOUS
  <2> HIDE DEF B, below
  <2> QED
    BY <1>1, <2>2, <2>3
<1>4. S \subseteq Int => \E z \in S : \A y \in S : z <= y
  BY <1>3
<1> QED
  BY <1>4 DEF Min

\* The maximum of a finite set of integers is its greatest member.
LEMMA MaxIsGreatest ==
    ASSUME NEW S, IsFiniteSet(S), S # {}
    PROVE  S \subseteq Int => Max(S) \in S /\ \A y \in S : Max(S) >= y
<1> DEFINE above(x) == {y \in S : y >= x}
           B == {above(x) : x \in S}
<1>1. PICK A \in B : \A t \in B : ~(t \subseteq A /\ t # A)
  <2>1. B \in SUBSET SUBSET S /\ B # {}
    OBVIOUS
  <2> HIDE DEF B
  <2> QED
    BY <2>1, LeastSubset
<1>2. PICK x \in S : A = above(x)
  BY <1>1
<1>3. ASSUME S \subseteq Int, NEW y \in S, ~(x >= y) PROVE FALSE
  <2>1. x \in Int /\ y \in Int /\ y > x
    BY <1>3
  <2>2. above(y) \subseteq A /\ x \in A /\ x \notin above(y)
    <3>1. \A z \in S : z \in A <=> z >= x
      BY <1>2
    <3>2. \A z \in Int : z >= y => z >= x
      BY <2>1
    <3>3. x >= x /\ ~(x >= y)
      BY <2>1
    <3> QED
      BY <1>3, <3>1, <3>2, <3>3
  <2>3. above(y) \in B
    OBVIOUS
  <2> HIDE DEF B, above
  <2> QED
    BY <1>1, <2>2, <2>3
<1>4. S \subseteq Int => \E z \in S : \A y \in S : z >= y
  BY <1>3
<1> QED
  BY <1>4 DEF Max

\* The extremes of two numbers.
LEMMA MaxOfTwo ==
    ASSUME NEW a \in Int, NEW b \in Int
    PROVE  Max({a, b}) = IF a >= b THEN a ELSE b
<1>1. \E x \in {a, b} : \A y \in {a, b} : x >= y
  OBVIOUS
<1>2. Max({a, b}) \in {a, b} /\ \A y \in {a, b} : Max({a, b}) >= y
  BY <1>1 DEF Max
<1> HIDE DEF Max
<1> QED
  BY <1>2

\* The lesser of two.
LEMMA MinOfTwo ==
    ASSUME NEW a \in Int, NEW b \in Int
    PROVE  Min({a, b}) = IF a <= b THEN a ELSE b
<1>1. \E x \in {a, b} : \A y \in {a, b} : x <= y
  OBVIOUS
<1>2. Min({a, b}) \in {a, b} /\ \A y \in {a, b} : Min({a, b}) <= y
  BY <1>1 DEF Min
<1> HIDE DEF Min
<1> QED
  BY <1>2

-----------------------------------------------------------------------------
(* The recursive function that a fold is made of.                          *)

First(s) == CHOOSE x \in s : TRUE
Step(w, g, s) == IF s = {} THEN 0 ELSE w[First(s)] + g[s \ {First(s)}]
Iterates(w, S, g) == g = [s \in SUBSET S |-> Step(w, g, s)]
Iter(w, S) == CHOOSE g : Iterates(w, S, g)

\* A sum is the value of its iteration at the whole set.
LEMMA SumIsIter == ASSUME NEW w, NEW S PROVE SumOver(w, S) = Iter(w, S)[S]
BY Zenon DEF SumOver, MapThenSumSet, MapThenFoldSet, Iter, Iterates, Step, First

\* The member an iteration takes first is one of the set.
LEMMA FirstIn == ASSUME NEW s, s # {} PROVE First(s) \in s
BY DEF First

\* Two such functions agree where both are defined.
LEMMA IteratesAgree ==
    ASSUME NEW w, NEW S, IsFiniteSet(S), NEW T \in SUBSET S,
           NEW g, Iterates(w, S, g), NEW h, Iterates(w, T, h)
    PROVE  g[T] = h[T]
<1> DEFINE B == {s \in SUBSET T : g[s] # h[s]}
<1>1. IsFiniteSet(T)
  BY FS_Subset
<1>2. ASSUME B # {} PROVE FALSE
  <2>1. PICK s \in B : \A t \in B : ~(t \subseteq s /\ t # s)
    <3>1. B \in SUBSET SUBSET T
      OBVIOUS
    <3> HIDE DEF B
    <3> QED
      BY <1>1, <1>2, <3>1, LeastSubset
  <2>2. s \in SUBSET T /\ s \in SUBSET S /\ g[s] # h[s]
    BY <2>1
  <2>3. g[s] = Step(w, g, s) /\ h[s] = Step(w, h, s)
    BY <2>2 DEF Iterates
  <2>4. s # {}
    BY <2>2, <2>3 DEF Step
  <2> DEFINE r == s \ {First(s)}
  <2>5. r \in SUBSET T /\ r \subseteq s /\ r # s
    BY <2>2, <2>4, FirstIn
  <2>6. g[r] = h[r]
    BY <2>1, <2>5
  <2> QED
    BY <2>2, <2>3, <2>4, <2>6 DEF Step
<1> QED
  BY <1>2

\* Such a function exists.
LEMMA IterIterates ==
    ASSUME NEW w, NEW S, IsFiniteSet(S)
    PROVE  Iterates(w, S, Iter(w, S))
<1> DEFINE B == {s \in SUBSET S : ~ \E g : Iterates(w, s, g)}
<1>1. ASSUME B # {} PROVE FALSE
  <2>1. PICK s \in B : \A t \in B : ~(t \subseteq s /\ t # s)
    <3>1. B \in SUBSET SUBSET S
      OBVIOUS
    <3> HIDE DEF B
    <3> QED
      BY <1>1, <3>1, LeastSubset
  <2>2. s \in SUBSET S /\ ~ \E g : Iterates(w, s, g)
    BY <2>1
  <2>3. ASSUME NEW t \in SUBSET s, t # s
        PROVE  IsFiniteSet(t) /\ Iterates(w, t, Iter(w, t))
    <3>1. IsFiniteSet(t)
      BY <2>2, FS_Subset
    <3>2. t \in SUBSET S /\ t \notin B
      BY <2>1, <2>2, <2>3
    <3>3. \E g : Iterates(w, t, g)
      BY <3>2
    <3> QED
      BY <3>1, <3>3 DEF Iter
  <2> DEFINE below(t) == t \ {First(t)}
             v(t) == Iter(w, t)[t]
             g == [t \in SUBSET s |-> IF t = {} THEN 0 ELSE w[First(t)] + v(below(t))]
  <2>4. ASSUME NEW t \in SUBSET s, t # s
        PROVE  g[t] = v(t)
    <3>1. IsFiniteSet(t) /\ Iterates(w, t, Iter(w, t))
      BY <2>3, <2>4
    <3>2. v(t) = Step(w, Iter(w, t), t)
      BY <3>1 DEF Iterates
    <3>3. CASE t = {}
      BY <3>2, <3>3 DEF Step
    <3>4. CASE t # {}
      <4>1. below(t) \in SUBSET t /\ below(t) \in SUBSET s /\ below(t) # s
        BY <2>4, <3>4, FirstIn
      <4>2. Iterates(w, below(t), Iter(w, below(t)))
        BY <2>3, <4>1
      <4> HIDE DEF below
      <4>3. Iter(w, t)[below(t)] = Iter(w, below(t))[below(t)]
        BY <3>1, <4>1, <4>2, IteratesAgree
      <4> USE DEF below
      <4> QED
        BY <3>2, <3>4, <4>3 DEF Step
    <3> QED
      BY <3>3, <3>4
  <2>5. ASSUME NEW t \in SUBSET s
        PROVE  g[t] = Step(w, g, t)
    <3>1. CASE t = {}
      BY <3>1 DEF Step
    <3>2. CASE t # {}
      <4>1. below(t) \in SUBSET s /\ below(t) # s
        BY <3>2, FirstIn
      <4>2. g[below(t)] = v(below(t))
        BY <2>4, <4>1
      <4> QED
        BY <3>2, <4>2 DEF Step
    <3> QED
      BY <3>1, <3>2
  <2>6. g = [t \in SUBSET s |-> g[t]]
    OBVIOUS
  <2> HIDE DEF g
  <2>7. Iterates(w, s, g)
    BY <2>5, <2>6 DEF Iterates
  <2> QED
    BY <2>2, <2>7
<1>2. S \notin B
  BY <1>1
<1> QED
  BY <1>2 DEF Iter

-----------------------------------------------------------------------------
(* The sum.                                                                *)

\* Nothing adds up to nothing.
LEMMA SumEmpty == ASSUME NEW w PROVE SumOver(w, {}) = 0
<1>1. IsFiniteSet({})
  BY FS_EmptySet
<1>2. Iterates(w, {}, Iter(w, {}))
  BY <1>1, IterIterates
<1> QED
  BY <1>2, SumIsIter DEF Iterates, Step

\* A sum is its first term and the sum of the rest.
LEMMA SumFirst ==
    ASSUME NEW w, NEW S, IsFiniteSet(S), S # {}
    PROVE  SumOver(w, S) = w[First(S)] + SumOver(w, S \ {First(S)})
<1> DEFINE T == S \ {First(S)}
<1>1. T \in SUBSET S /\ IsFiniteSet(T)
  BY FS_Subset
<1>2. Iterates(w, S, Iter(w, S)) /\ Iterates(w, T, Iter(w, T))
  BY <1>1, IterIterates
<1>3. Iter(w, S)[S] = w[First(S)] + Iter(w, S)[T]
  BY <1>2 DEF Iterates, Step
<1> HIDE DEF T
<1>4. Iter(w, S)[T] = Iter(w, T)[T]
  BY <1>1, <1>2, IteratesAgree
<1>5. SumOver(w, S) = w[First(S)] + SumOver(w, T)
  BY <1>3, <1>4, SumIsIter
<1> QED
  BY <1>5 DEF T

\* A sum of natural numbers is one.
LEMMA SumNat ==
    ASSUME NEW w, NEW S, IsFiniteSet(S), \A i \in S : w[i] \in Nat
    PROVE  SumOver(w, S) \in Nat
<1> DEFINE B == {s \in SUBSET S : SumOver(w, s) \notin Nat}
<1>1. ASSUME B # {} PROVE FALSE
  <2>1. PICK s \in B : \A t \in B : ~(t \subseteq s /\ t # s)
    <3>1. B \in SUBSET SUBSET S
      OBVIOUS
    <3> HIDE DEF B
    <3> QED
      BY <1>1, <3>1, LeastSubset
  <2>2. s \in SUBSET S /\ SumOver(w, s) \notin Nat /\ IsFiniteSet(s)
    BY <2>1, FS_Subset
  <2>3. s # {}
    BY <2>2, SumEmpty
  <2> DEFINE r == s \ {First(s)}
  <2>4. r \in SUBSET S /\ r \subseteq s /\ r # s /\ First(s) \in S
    BY <2>2, <2>3, FirstIn
  <2>5. SumOver(w, r) \in Nat
    BY <2>1, <2>4
  <2>6. SumOver(w, s) = w[First(s)] + SumOver(w, r)
    BY <2>2, <2>3, SumFirst
  <2> HIDE DEF r, B
  <2>7. w[First(s)] \in Nat
    BY <2>4
  <2> QED
    BY <2>2, <2>5, <2>6, <2>7
<1> QED
  BY <1>1

\* Any element may be taken out first.
LEMMA SumSplit ==
    ASSUME NEW w, NEW S, IsFiniteSet(S), \A i \in S : w[i] \in Nat, NEW x \in S
    PROVE  SumOver(w, S) = w[x] + SumOver(w, S \ {x})
<1> DEFINE without(s, y) == s \ {y}
           B == {s \in SUBSET S : \E y \in s : SumOver(w, s) # w[y] + SumOver(w, without(s, y))}
<1>1. ASSUME B # {} PROVE FALSE
  <2>1. PICK s \in B : \A t \in B : ~(t \subseteq s /\ t # s)
    <3>1. B \in SUBSET SUBSET S
      OBVIOUS
    <3> HIDE DEF B
    <3> QED
      BY <1>1, <3>1, LeastSubset
  <2>2. s \in SUBSET S /\ IsFiniteSet(s)
    BY <2>1, FS_Subset
  <2>3. PICK y \in s : SumOver(w, s) # w[y] + SumOver(w, without(s, y))
    BY <2>1
  <2> DEFINE x0 == First(s)
  <2>4. x0 \in s /\ SumOver(w, s) = w[x0] + SumOver(w, without(s, x0))
    BY <2>2, <2>3, FirstIn, SumFirst
  <2>5. y # x0
    BY <2>3, <2>4
  <2> DEFINE both == without(without(s, x0), y)
  <2>6. /\ without(s, x0) \in SUBSET S /\ without(s, x0) \subseteq s /\ without(s, x0) # s
        /\ y \in without(s, x0)
    BY <2>2, <2>4, <2>5
  <2>7. /\ without(s, y) \in SUBSET S /\ without(s, y) \subseteq s /\ without(s, y) # s
        /\ x0 \in without(s, y) /\ without(without(s, y), x0) = both
    BY <2>2, <2>4, <2>5
  <2>8. SumOver(w, without(s, x0)) = w[y] + SumOver(w, both)
    BY <2>1, <2>6
  <2>9. SumOver(w, without(s, y)) = w[x0] + SumOver(w, both)
    <3>1. without(s, y) \notin B
      BY <2>1, <2>7
    <3>2. SumOver(w, without(s, y)) = w[x0] + SumOver(w, without(without(s, y), x0))
      BY <3>1, <2>7
    <3> QED
      BY <3>2, <2>7
  <2>10. w[x0] \in Nat /\ w[y] \in Nat /\ IsFiniteSet(both) /\ \A i \in both : w[i] \in Nat
    BY <2>2, <2>3, <2>4, FS_Subset
  <2> HIDE DEF both, x0, without, B
  <2>11. SumOver(w, both) \in Nat
    BY <2>10, SumNat
  <2> QED
    BY <2>3, <2>4, <2>8, <2>9, <2>10, <2>11
<1>2. S \notin B
  BY <1>1
<1> QED
  BY <1>2

\* One more member adds its term.
LEMMA SumAdd ==
    ASSUME NEW w, NEW S, IsFiniteSet(S), NEW x, x \notin S,
           \A i \in S \cup {x} : w[i] \in Nat
    PROVE  SumOver(w, S \cup {x}) = w[x] + SumOver(w, S)
<1> DEFINE T == S \cup {x}
<1>1. IsFiniteSet(T)
  BY FS_AddElement
<1>2. x \in T /\ T \ {x} = S
  OBVIOUS
<1> HIDE DEF T
<1>3. \A i \in T : w[i] \in Nat
  BY DEF T
<1>4. SumOver(w, T) = w[x] + SumOver(w, T \ {x})
  BY <1>1, <1>2, <1>3, SumSplit
<1> QED
  BY <1>2, <1>4 DEF T

\* Sums over disjoint sets add up.
LEMMA SumUnion ==
    ASSUME NEW w, NEW S, IsFiniteSet(S), NEW T, IsFiniteSet(T), S \cap T = {},
           \A i \in S \cup T : w[i] \in Nat
    PROVE  SumOver(w, S \cup T) = SumOver(w, S) + SumOver(w, T)
<1> DEFINE Adds(t) == SumOver(w, S \cup t) = SumOver(w, S) + SumOver(w, t)
           B == {t \in SUBSET T : ~Adds(t)}
<1>1. ASSUME B # {} PROVE FALSE
  <2>1. PICK s \in B : \A t \in B : ~(t \subseteq s /\ t # s)
    <3>1. B \in SUBSET SUBSET T
      OBVIOUS
    <3> HIDE DEF B
    <3> QED
      BY <1>1, <3>1, LeastSubset
  <2>2. s \in SUBSET T /\ IsFiniteSet(s) /\ ~Adds(s)
    BY <2>1, FS_Subset
  <2>3. s # {}
    <3>1. SumOver(w, S) \in Nat /\ S \cup {} = S
      BY SumNat
    <3> QED
      BY <2>2, <3>1, SumEmpty
  <2>4. PICK x \in s : TRUE
    BY <2>3
  <2> DEFINE r == s \ {x}
  <2>5. r \in SUBSET T /\ r \subseteq s /\ r # s /\ IsFiniteSet(r) /\ x \in T /\ x \notin S
    BY <2>2, <2>4, FS_Subset
  <2>6. Adds(r)
    BY <2>1, <2>5
  <2>7. SumOver(w, s) = w[x] + SumOver(w, r)
    BY <2>2, <2>4, SumSplit
  <2>8. SumOver(w, S \cup s) = w[x] + SumOver(w, S \cup r)
    <3>1. IsFiniteSet(S \cup r) /\ x \notin S \cup r /\ (S \cup r) \cup {x} = S \cup s
      BY <2>4, <2>5, FS_Union
    <3>2. \A i \in (S \cup r) \cup {x} : w[i] \in Nat
      BY <2>5
    <3> HIDE DEF r
    <3>3. SumOver(w, (S \cup r) \cup {x}) = w[x] + SumOver(w, S \cup r)
      BY <3>1, <3>2, SumAdd
    <3> QED
      BY <3>1, <3>3
  <2>9. SumOver(w, S) \in Nat /\ SumOver(w, r) \in Nat /\ w[x] \in Nat
    BY <2>5, SumNat
  <2> HIDE DEF r, B
  <2> QED
    BY <2>2, <2>6, <2>7, <2>8, <2>9
<1>2. T \notin B
  BY <1>1
<1> QED
  BY <1>2

\* A part sums to no more than the whole.
LEMMA SumPart ==
    ASSUME NEW w, NEW S, IsFiniteSet(S), \A i \in S : w[i] \in Nat, NEW T \in SUBSET S
    PROVE  SumOver(w, T) <= SumOver(w, S)
<1> DEFINE R == S \ T
<1>1. IsFiniteSet(T) /\ IsFiniteSet(R) /\ T \cap R = {} /\ T \cup R = S
  BY FS_Subset
<1>2. \A i \in T \cup R : w[i] \in Nat
  OBVIOUS
<1> HIDE DEF R
<1>3. SumOver(w, T \cup R) = SumOver(w, T) + SumOver(w, R)
  BY <1>1, <1>2, SumUnion
<1>4. SumOver(w, T) \in Nat /\ SumOver(w, R) \in Nat
  BY <1>1, <1>2, SumNat
<1>5. SumOver(w, S) = SumOver(w, T) + SumOver(w, R)
  BY <1>1, <1>3
<1>6. \A a, b \in Nat : a <= a + b
  OBVIOUS
<1> QED
  BY <1>4, <1>5, <1>6

\* A sum depends on the figures of its set only, and columns add up.
LEMMA SumPlus ==
    ASSUME NEW S, IsFiniteSet(S), NEW u, NEW v, NEW w,
           \A i \in S : v[i] \in Nat /\ w[i] \in Nat /\ u[i] = v[i] + w[i]
    PROVE  SumOver(u, S) = SumOver(v, S) + SumOver(w, S)
<1> DEFINE Adds(t) == SumOver(u, t) = SumOver(v, t) + SumOver(w, t)
           B == {t \in SUBSET S : ~Adds(t)}
<1>1. ASSUME B # {} PROVE FALSE
  <2>1. PICK s \in B : \A t \in B : ~(t \subseteq s /\ t # s)
    <3>1. B \in SUBSET SUBSET S
      OBVIOUS
    <3> HIDE DEF B
    <3> QED
      BY <1>1, <3>1, LeastSubset
  <2>2. s \in SUBSET S /\ IsFiniteSet(s) /\ ~Adds(s)
    BY <2>1, FS_Subset
  <2>3. s # {}
    <3>1. SumOver(u, {}) = 0 /\ SumOver(v, {}) = 0 /\ SumOver(w, {}) = 0
      BY SumEmpty
    <3>2. Adds({})
      BY <3>1
    <3> QED
      BY <2>2, <3>2
  <2>4. PICK x \in s : TRUE
    BY <2>3
  <2> DEFINE r == s \ {x}
  <2>5. r \in SUBSET S /\ r \subseteq s /\ r # s /\ IsFiniteSet(r)
    BY <2>2, <2>4, FS_Subset
  <2>6. Adds(r)
    BY <2>1, <2>5
  <2>7. /\ v[x] \in Nat /\ w[x] \in Nat /\ u[x] = v[x] + w[x]
        /\ \A i \in s : u[i] \in Nat
        /\ \A i \in r : v[i] \in Nat /\ w[i] \in Nat
    BY <2>2, <2>4
  <2>8. /\ SumOver(u, s) = u[x] + SumOver(u, r)
        /\ SumOver(v, s) = v[x] + SumOver(v, r)
        /\ SumOver(w, s) = w[x] + SumOver(w, r)
    BY <2>2, <2>4, <2>7, SumSplit
  <2>9. SumOver(v, r) \in Nat /\ SumOver(w, r) \in Nat
    BY <2>5, <2>7, SumNat
  <2> HIDE DEF r, B
  <2> QED
    BY <2>2, <2>6, <2>7, <2>8, <2>9
<1>2. S \notin B
  BY <1>1
<1> QED
  BY <1>2

\* Zeros add up to zero.
LEMMA SumZero ==
    ASSUME NEW S, IsFiniteSet(S), NEW w, \A i \in S : w[i] = 0
    PROVE  SumOver(w, S) = 0
<1>1. SumOver(w, S) = SumOver(w, S) + SumOver(w, S)
  BY SumPlus
<1>2. SumOver(w, S) \in Nat
  BY SumNat
<1>3. \A n \in Nat : n = n + n => n = 0
  OBVIOUS
<1> QED
  BY <1>1, <1>2, <1>3

\* Equal terms have equal sums.
LEMMA SumSame ==
    ASSUME NEW S, IsFiniteSet(S), NEW v, NEW w,
           \A i \in S : v[i] \in Nat /\ w[i] = v[i]
    PROVE  SumOver(w, S) = SumOver(v, S)
<1> DEFINE z == [i \in S |-> 0]
<1>1. \A i \in S : z[i] = 0
  OBVIOUS
<1> HIDE DEF z
<1>2. SumOver(z, S) = 0 /\ SumOver(v, S) \in Nat
  BY <1>1, SumZero, SumNat
<1>3. \A i \in S : v[i] \in Nat /\ z[i] \in Nat /\ w[i] = v[i] + z[i]
  BY <1>1
<1>4. SumOver(w, S) = SumOver(v, S) + SumOver(z, S)
  BY <1>3, SumPlus
<1> QED
  BY <1>2, <1>4

\* Where one figure grows, the sum grows by as much.
LEMMA SumBump ==
    ASSUME NEW S, IsFiniteSet(S), NEW v, NEW w, NEW x \in S, NEW d \in Nat,
           \A i \in S : v[i] \in Nat /\ w[i] = IF i = x THEN v[i] + d ELSE v[i]
    PROVE  SumOver(w, S) = SumOver(v, S) + d
<1> DEFINE T == S \ {x}
<1>1. IsFiniteSet(T) /\ \A i \in T : v[i] \in Nat /\ w[i] = v[i]
  BY FS_Subset
<1>2. \A i \in S : w[i] \in Nat
  OBVIOUS
<1>3. SumOver(v, S) = v[x] + SumOver(v, T) /\ SumOver(w, S) = w[x] + SumOver(w, T)
  BY <1>2, SumSplit
<1> HIDE DEF T
<1>4. SumOver(w, T) = SumOver(v, T) /\ SumOver(v, T) \in Nat
  BY <1>1, SumSame, SumNat
<1> QED
  BY <1>3, <1>4

\* Terms that are no greater have no greater a sum.
LEMMA SumAtMost ==
    ASSUME NEW S, IsFiniteSet(S), NEW u, NEW v,
           \A i \in S : u[i] \in Nat /\ v[i] \in Nat /\ u[i] <= v[i]
    PROVE  SumOver(u, S) <= SumOver(v, S)
<1> DEFINE w == [i \in S |-> v[i] - u[i]]
<1>1. \A i \in S : u[i] \in Nat /\ w[i] \in Nat /\ v[i] = u[i] + w[i]
  OBVIOUS
<1> HIDE DEF w
<1>2. SumOver(v, S) = SumOver(u, S) + SumOver(w, S)
  BY <1>1, SumPlus
<1>3. SumOver(u, S) \in Nat /\ SumOver(w, S) \in Nat
  BY <1>1, SumNat
<1> QED
  BY <1>2, <1>3

-----------------------------------------------------------------------------
(* Folds.  A fold takes the greatest index last; `step` is what it does.   *)

\* The greatest of a set that some indices are taken from stays the greatest
\* while it is there.
MaxPicks(D) ==
    \A s \in SUBSET D :
        s # {} => Max(s) \in s /\ \A t \in SUBSET s : Max(s) \in t => Max(t) = Max(s)

\* The greatest of some indices can be picked in this way.
LEMMA MaxPicksIndex == ASSUME NEW n \in Nat PROVE IsFiniteSet(1..n) /\ MaxPicks(1..n)
<1>1. IsFiniteSet(1..n)
  BY FS_Interval
<1>2. ASSUME NEW s \in SUBSET (1..n), s # {}
      PROVE  Max(s) \in s /\ \A y \in s : Max(s) >= y
  <2>1. IsFiniteSet(s)
    BY <1>1, FS_Subset
  <2>2. s \subseteq Int
    OBVIOUS
  <2> QED
    BY <1>2, <2>1, <2>2, MaxIsGreatest
<1>3. ASSUME NEW s \in SUBSET (1..n), s # {}, NEW t \in SUBSET s, Max(s) \in t
      PROVE  Max(t) = Max(s)
  <2>1. /\ Max(s) \in s /\ \A y \in s : Max(s) >= y
        /\ Max(t) \in t /\ \A y \in t : Max(t) >= y
    BY <1>2, <1>3
  <2>2. Max(t) \in s /\ Max(s) >= Max(t) /\ Max(t) >= Max(s)
    BY <1>3, <2>1
  <2>3. \A y \in s : y \in Int
    OBVIOUS
  <2>4. Max(s) \in Int /\ Max(t) \in Int
    BY <2>1, <2>2, <2>3, Zenon
  <2> QED
    BY <2>2, <2>4
<1> QED
  BY <1>1, <1>2, <1>3 DEF MaxPicks

\* The recursive function that a fold is made of.
FoldRuns(g, D, base, step, f) ==
    \A s \in SUBSET D :
        g[s] = IF s = {} THEN base ELSE step[<<g[s \ {Max(s)}], f[Max(s)]>>]

\* The recursive function that a fold is made of exists, where the steps stay
\* in a set of values.
LEMMA FoldExists ==
    ASSUME NEW V, NEW E, NEW step \in [V \X E -> V], NEW base \in V,
           NEW D, IsFiniteSet(D), MaxPicks(D), NEW f \in [D -> E]
    PROVE  \E g \in [SUBSET D -> V] : FoldRuns(g, D, base, step, f)
<1> DEFINE Runs(d, g) == \A s \in SUBSET d :
              g[s] = IF s = {} THEN base ELSE step[<<g[s \ {Max(s)}], f[Max(s)]>>]
           B == {d \in SUBSET D : ~ \E g \in [SUBSET d -> V] : Runs(d, g)}
<1>1. ASSUME B # {} PROVE FALSE
  <2>1. PICK d \in B : \A t \in B : ~(t \subseteq d /\ t # d)
    <3>1. B \in SUBSET SUBSET D
      OBVIOUS
    <3> HIDE DEF B
    <3> QED
      BY <1>1, <3>1, LeastSubset
  <2>2. d \in SUBSET D /\ ~ \E g \in [SUBSET d -> V] : Runs(d, g)
    BY <2>1
  <2>3. d # {}
    <3>1. ASSUME d = {} PROVE FALSE
      <4> DEFINE g == [s \in SUBSET d |-> base]
      <4>1. g \in [SUBSET d -> V]
        OBVIOUS
      <4>2. Runs(d, g)
        BY <3>1
      <4> HIDE DEF g, Runs
      <4> QED
        BY <2>2, <4>1, <4>2
    <3> QED
      BY <3>1
  <2> DEFINE m == Max(d)
             r == d \ {m}
  <2>4. m \in d /\ r \in SUBSET d /\ r # d /\ r \in SUBSET D
    BY <2>2, <2>3 DEF MaxPicks
  <2> HIDE DEF m
  <2>5. PICK g \in [SUBSET r -> V] : Runs(r, g)
    BY <2>1, <2>4
  <2> DEFINE h == [s \in SUBSET d |-> IF m \in s THEN step[<<g[s \ {m}], f[m]>>] ELSE g[s]]
  <2>6. h \in [SUBSET d -> V]
    <3>1. \A s \in SUBSET d : IF m \in s THEN s \ {m} \in SUBSET r ELSE s \in SUBSET r
      OBVIOUS
    <3>2. f[m] \in E
      BY <2>2, <2>4
    <3>3. \A s \in SUBSET d : h[s] \in V
      BY <3>1, <3>2
    <3> QED
      BY <3>3
  <2>7. ASSUME NEW s \in SUBSET d
        PROVE  h[s] = IF s = {} THEN base ELSE step[<<h[s \ {Max(s)}], f[Max(s)]>>]
    <3>1. CASE m \in s
      <4>1. Max(s) = m
        BY <2>2, <2>3, <3>1 DEF m, MaxPicks
      <4>2. s \ {m} \in SUBSET d /\ m \notin s \ {m}
        OBVIOUS
      <4> QED
        BY <3>1, <4>1, <4>2
    <3>2. CASE m \notin s
      <4>1. s \in SUBSET r
        BY <3>2
      <4>2. g[s] = IF s = {} THEN base ELSE step[<<g[s \ {Max(s)}], f[Max(s)]>>]
        BY <2>5, <4>1
      <4>3. h[s] = g[s] /\ h[s \ {Max(s)}] = g[s \ {Max(s)}]
        BY <3>2
      <4> QED
        BY <4>2, <4>3
    <3> QED
      BY <3>1, <3>2
  <2>8. Runs(d, h)
    BY <2>7
  <2> HIDE DEF h, Runs
  <2> QED
    BY <2>2, <2>6, <2>8
<1>2. D \notin B
  BY <1>1
<1> QED
  BY <1>2 DEF FoldRuns

\* What the steps keep, for what has been folded so far, holds of the fold.
LEMMA FoldKeeps ==
    ASSUME NEW D, IsFiniteSet(D), MaxPicks(D), NEW h, NEW P,
           <<{}, h[{}]>> \in P,
           \A s \in SUBSET D :
              s # {} /\ <<s \ {Max(s)}, h[s \ {Max(s)}]>> \in P => <<s, h[s]>> \in P
    PROVE  <<D, h[D]>> \in P
<1> DEFINE B == {d \in SUBSET D : <<d, h[d]>> \notin P}
<1>1. ASSUME B # {} PROVE FALSE
  <2>1. PICK d \in B : \A t \in B : ~(t \subseteq d /\ t # d)
    <3>1. B \in SUBSET SUBSET D
      OBVIOUS
    <3> HIDE DEF B
    <3> QED
      BY <1>1, <3>1, LeastSubset
  <2>2. d \in SUBSET D /\ <<d, h[d]>> \notin P /\ d # {}
    BY <2>1
  <2>3. Max(d) \in d
    BY <2>2 DEF MaxPicks
  <2>4. d \ {Max(d)} \in SUBSET D /\ d \ {Max(d)} \notin B
    <3>1. d \ {Max(d)} \subseteq d /\ d \ {Max(d)} # d
      BY <2>3
    <3>2. d \ {Max(d)} \notin B
      BY <2>1, <3>1
    <3> QED
      BY <2>2, <3>2
  <2>5. <<d \ {Max(d)}, h[d \ {Max(d)}]>> \in P
    BY <2>4
  <2> QED
    BY <2>2, <2>5
<1> QED
  BY <1>1

-----------------------------------------------------------------------------
(* Ranks.                                                                  *)

\* A strict order of the members of R, in which any two compare.
Ranked(lt, R) ==
    /\ \A x \in R : <<x, x>> \notin lt
    /\ \A x, y, z \in R : <<x, y>> \in lt /\ <<y, z>> \in lt => <<x, z>> \in lt
    /\ \A x, y \in R : x = y \/ <<x, y>> \in lt \/ <<y, x>> \in lt

Prior(lt, R, e) == {b \in R : <<b, e>> \in lt}
Best(lt, R, n) == {e \in R : Cardinality(Prior(lt, R, e)) < n}

\* A set that is not empty has a last member.
LEMMA LastMember ==
    ASSUME NEW R, IsFiniteSet(R), NEW lt, Ranked(lt, R), R # {}
    PROVE  \E z \in R : \A x \in R : x = z \/ <<x, z>> \in lt
<1> DEFINE after(x) == {y \in R : <<x, y>> \in lt}
           B == {after(x) : x \in R}
<1>1. PICK A \in B : \A t \in B : ~(t \subseteq A /\ t # A)
  <2>1. B \in SUBSET SUBSET R /\ B # {}
    OBVIOUS
  <2> HIDE DEF B
  <2> QED
    BY <2>1, LeastSubset
<1>2. PICK z \in R : A = after(z)
  BY <1>1
<1>3. ASSUME NEW y \in R, <<z, y>> \in lt PROVE FALSE
  <2>1. after(y) \subseteq A
    BY <1>2, <1>3 DEF Ranked
  <2>2. y \in A /\ y \notin after(y)
    BY <1>2, <1>3 DEF Ranked
  <2>3. after(y) \in B
    OBVIOUS
  <2> QED
    BY <1>1, <2>1, <2>2, <2>3
<1> QED
  BY <1>3 DEF Ranked

\* How many are among the best n: n of them, or all.
LEMMA RankCount ==
    ASSUME NEW R, IsFiniteSet(R), NEW lt, Ranked(lt, R), NEW n \in Nat
    PROVE  /\ IsFiniteSet(Best(lt, R, n)) /\ Best(lt, R, n) \subseteq R
           /\ Cardinality(Best(lt, R, n)) = IF n <= Cardinality(R) THEN n ELSE Cardinality(R)
<1> DEFINE Fits(S) == Cardinality(Best(lt, S, n)) = IF n <= Cardinality(S) THEN n ELSE Cardinality(S)
           B == {S \in SUBSET R : ~Fits(S)}
<1>1. Best(lt, R, n) \subseteq R /\ IsFiniteSet(Best(lt, R, n))
  BY FS_Subset DEF Best
<1> SUFFICES ASSUME ~Fits(R) PROVE FALSE
  BY <1>1
<1>2. PICK S \in B : \A t \in B : ~(t \subseteq S /\ t # S)
  <2>1. B \in SUBSET SUBSET R /\ B # {}
    OBVIOUS
  <2> HIDE DEF B
  <2> QED
    BY <2>1, LeastSubset
<1>3. S \subseteq R /\ IsFiniteSet(S) /\ Ranked(lt, S) /\ ~Fits(S)
  BY <1>2, FS_Subset DEF Ranked
<1>4. \A T \in SUBSET S : T # S => Fits(T)
  BY <1>2, <1>3
<1>5. S # {}
  <2>1. Best(lt, {}, n) = {} /\ Cardinality({}) = 0
    BY FS_EmptySet DEF Best
  <2>2. Fits({})
    BY <2>1
  <2> QED
    BY <1>3, <2>2
<1>6. PICK z \in S : \A x \in S : x = z \/ <<x, z>> \in lt
  BY <1>3, <1>5, LastMember
<1> DEFINE T == S \ {z}
<1>7. Fits(T) /\ IsFiniteSet(T) /\ Cardinality(T) \in Nat /\ Cardinality(S) = Cardinality(T) + 1
  <2>1. T \in SUBSET S /\ T # S
    OBVIOUS
  <2>2. IsFiniteSet(T) /\ Cardinality(T) = Cardinality(S) - 1
    BY <1>3, <1>6, FS_RemoveElement
  <2>3. Fits(T)
    BY <1>4, <2>1
  <2>4. Cardinality(T) \in Nat /\ Cardinality(S) \in Nat
    BY <1>3, <2>2, FS_CardinalityType
  <2> HIDE DEF Fits, T
  <2> QED
    BY <2>2, <2>3, <2>4
<1>8. Prior(lt, S, z) = T
  BY <1>3, <1>6 DEF Prior, Ranked
<1>9. ASSUME NEW e \in T PROVE Prior(lt, S, e) = Prior(lt, T, e)
  <2>1. <<z, e>> \notin lt
    BY <1>3, <1>6 DEF Ranked
  <2> QED
    BY <2>1 DEF Prior
<1>10. Best(lt, S, n) = Best(lt, T, n) \cup (IF Cardinality(T) < n THEN {z} ELSE {})
  <2>1. \A e \in T : e \in Best(lt, S, n) <=> e \in Best(lt, T, n)
    BY <1>9 DEF Best
  <2>2. z \in Best(lt, S, n) <=> Cardinality(T) < n
    BY <1>8 DEF Best
  <2>3. Best(lt, S, n) \subseteq S /\ Best(lt, T, n) \subseteq T
    BY DEF Best
  <2> QED
    BY <2>1, <2>2, <2>3
<1>11. IsFiniteSet(Best(lt, T, n)) /\ z \notin Best(lt, T, n)
  BY <1>7, FS_Subset DEF Best
<1>12. Cardinality(Best(lt, T, n) \cup {z}) = Cardinality(Best(lt, T, n)) + 1
  BY <1>11, FS_AddElement
<1>13. Fits(S)
  <2> DEFINE t == Cardinality(T)
             s == Cardinality(S)
             bt == Cardinality(Best(lt, T, n))
             bs == Cardinality(Best(lt, S, n))
  <2>1. /\ t \in Nat /\ s = t + 1 /\ bt = IF n <= t THEN n ELSE t
        /\ bs = IF t < n THEN bt + 1 ELSE bt
    <3>1. Best(lt, S, n) = IF t < n THEN Best(lt, T, n) \cup {z} ELSE Best(lt, T, n)
      BY <1>10
    <3>2. bs = IF t < n THEN bt + 1 ELSE bt
      <4> HIDE DEF t
      <4> QED
        BY <1>12, <3>1
    <3> QED
      BY <1>7, <3>2
  <2> HIDE DEF t, s, bt, bs
  <2>2. bs = IF n <= s THEN n ELSE s
    BY <2>1
  <2> QED
    BY <2>2 DEF bs, s
<1> QED
  BY <1>3, <1>13

\* A ranking can be written down, first to last.
LEMMA SortExists ==
    ASSUME NEW R, IsFiniteSet(R), NEW lt, Ranked(lt, R)
    PROVE  \E f \in [1..Cardinality(R) -> R] :
              \A i, j \in 1..Cardinality(R) : i < j => <<f[i], f[j]>> \in lt
<1> DEFINE Sorts(S) == \E f \in [1..Cardinality(S) -> S] :
                          \A i, j \in 1..Cardinality(S) : i < j => <<f[i], f[j]>> \in lt
           B == {S \in SUBSET R : ~Sorts(S)}
<1> SUFFICES ASSUME ~Sorts(R) PROVE FALSE
  OBVIOUS
<1>1. PICK S \in B : \A t \in B : ~(t \subseteq S /\ t # S)
  <2>1. B \in SUBSET SUBSET R /\ B # {}
    OBVIOUS
  <2> HIDE DEF B
  <2> QED
    BY <2>1, LeastSubset
<1>2. S \subseteq R /\ IsFiniteSet(S) /\ Ranked(lt, S) /\ ~Sorts(S)
  BY <1>1, FS_Subset DEF Ranked
<1>3. S # {}
  <2>1. Cardinality({}) = 0 /\ 1..0 = {}
    BY FS_EmptySet
  <2>2. [i \in 1..0 |-> 0] \in [1..0 -> {}]
    BY <2>1
  <2>3. Sorts({})
    BY <2>1, <2>2
  <2> QED
    BY <1>2, <2>3
<1>4. PICK z \in S : \A x \in S : x = z \/ <<x, z>> \in lt
  BY <1>2, <1>3, LastMember
<1> DEFINE T == S \ {z}
           t == Cardinality(T)
<1>5. Sorts(T) /\ t \in Nat /\ Cardinality(S) = t + 1
  <2>1. T \in SUBSET R /\ T \subseteq S /\ T # S
    BY <1>2
  <2>2. Sorts(T)
    BY <1>1, <2>1
  <2>3. IsFiniteSet(T) /\ Cardinality(T) = Cardinality(S) - 1
    BY <1>2, <1>4, FS_RemoveElement
  <2>4. Cardinality(T) \in Nat /\ Cardinality(S) \in Nat
    BY <1>2, <2>3, FS_CardinalityType
  <2> HIDE DEF Sorts, T
  <2> QED
    BY <2>2, <2>3, <2>4
<1>6. PICK g \in [1..t -> T] : \A i, j \in 1..t : i < j => <<g[i], g[j]>> \in lt
  BY <1>5
<1> HIDE DEF t
<1> DEFINE f == [i \in 1..(t + 1) |-> IF i = t + 1 THEN z ELSE g[i]]
<1>7. \A i \in 1..(t + 1) : i # t + 1 => i \in 1..t /\ f[i] = g[i] /\ g[i] \in T
  BY <1>5, <1>6
<1>8. t + 1 \in 1..(t + 1) /\ f[t + 1] = z
  BY <1>5
<1>9. f \in [1..(t + 1) -> S]
  BY <1>7
<1>10. ASSUME NEW i \in 1..(t + 1), NEW j \in 1..(t + 1), i < j PROVE <<f[i], f[j]>> \in lt
  <2>1. i # t + 1 /\ i \in 1..t /\ f[i] = g[i] /\ g[i] \in T
    BY <1>5, <1>7, <1>10
  <2>2. CASE j = t + 1
    BY <1>4, <1>8, <2>1, <2>2
  <2>3. CASE j # t + 1
    BY <1>6, <1>7, <1>10, <2>1, <2>3
  <2> QED
    BY <2>2, <2>3
<1> HIDE DEF f
<1>11. Sorts(S)
  BY <1>5, <1>9, <1>10
<1> QED
  BY <1>2, <1>11

\* And then it has every member.
LEMMA SortIsOnto ==
    ASSUME NEW R, IsFiniteSet(R), NEW lt, Ranked(lt, R), NEW f \in [1..Cardinality(R) -> R],
           \A i, j \in 1..Cardinality(R) : i < j => <<f[i], f[j]>> \in lt
    PROVE  \A e \in R : \E i \in 1..Cardinality(R) : f[i] = e
<1> DEFINE n == Cardinality(R)
<1>1. n \in Nat
  BY FS_CardinalityType
<1>2. IsFiniteSet(1..n) /\ Cardinality(1..n) = n
  BY <1>1, FS_Interval
<1> HIDE DEF n
<1>3. ASSUME NEW i \in 1..n, NEW j \in 1..n, i # j PROVE f[i] # f[j]
  <2>1. i < j \/ j < i
    BY <1>1, <1>3
  <2>2. \A k, l \in 1..n : k < l => f[k] # f[l]
    BY DEF Ranked, n
  <2> QED
    BY <2>1, <2>2
<1>4. f \in [1..n -> R]
  BY DEF n
<1>5. f \in Injection(1..n, R)
  BY <1>3, <1>4 DEF Injection, IsInjective
<1>6. f \in Surjection(1..n, R)
  <2>1. Cardinality(1..n) = Cardinality(R)
    BY <1>2 DEF n
  <2> QED
    BY <1>5, <2>1, FS_Injection
<1> QED
  BY <1>6 DEF Surjection, n
=============================================================================
