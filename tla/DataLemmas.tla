------------------------------ MODULE DataLemmas ------------------------------
(***************************************************************************)
(* Facts about numbers and sequences that the proofs about the models      *)
(* share.  The provers cannot instantiate an induction theorem that takes  *)
(* a predicate as a parameter; that every nonempty set of naturals has a   *)
(* least element, which follows from the well-foundedness of the strict    *)
(* subset ordering of finite sets, takes its place.                        *)
(***************************************************************************)
EXTENDS Integers, Sequences, FiniteSetTheorems, SequenceTheorems, FiniteSetsExt,
        SequencesExt, TLAPS

\* Every nonempty set of natural numbers has a least element.
LEMMA LeastNatural ==
  ASSUME NEW T, T \subseteq Nat, T # {}
  PROVE  \E x \in T : \A y \in T : x <= y
<1> DEFINE Upto == {0..n : n \in T}
<1>1. Upto \subseteq FiniteSubsetsOf(Nat) /\ Upto # {}
  <2>1. \A n \in T : 0..n \in FiniteSubsetsOf(Nat)
    <3> TAKE n \in T
    <3>1. IsFiniteSet(0..n) BY FS_Interval
    <3>2. 0..n \in SUBSET Nat OBVIOUS
    <3> QED BY <3>1, <3>2 DEF FiniteSubsetsOf
  <2> QED BY <2>1
<1>2. PICK U \in Upto : \A V \in Upto : <<V, U>> \notin StrictSubsetOrdering(Nat)
  <2> HIDE DEF Upto
  <2> QED BY <1>1, FS_StrictSubsetOrderingWellFounded, WFMin
<1>3. PICK x \in T : U = 0..x OBVIOUS
<1>4. ASSUME NEW y \in T, y < x PROVE FALSE
  <2>1. 0..y \subseteq 0..x /\ x \notin 0..y /\ x \in 0..x BY <1>4
  <2>2. <<0..y, 0..x>> \in StrictSubsetOrdering(Nat)
    BY <2>1 DEF StrictSubsetOrdering
  <2> QED BY <2>2, <1>2, <1>3
<1> QED BY <1>4

\* Induction: a set with 0 that has the successors of its members.
LEMMA NatSetInduction ==
  ASSUME NEW S, 0 \in S, \A n \in Nat : n \in S => n + 1 \in S
  PROVE  Nat \subseteq S
<1> SUFFICES ASSUME Nat \ S # {} PROVE FALSE
  OBVIOUS
<1>1. PICK x \in Nat \ S : \A y \in Nat \ S : x <= y
  <2>1. Nat \ S \subseteq Nat OBVIOUS
  <2> QED BY <2>1, LeastNatural
<1>2. x # 0 /\ x - 1 \in Nat BY <1>1
<1>3. x - 1 \in S BY <1>1, <1>2
<1> QED BY <1>1, <1>2, <1>3

LEMMA MinLemma ==
  ASSUME NEW T, T \subseteq Nat, T # {}
  PROVE  Min(T) \in T /\ \A y \in T : Min(T) <= y
BY LeastNatural DEF Min

\* Every nonempty finite set of natural numbers has a greatest element: the
\* one that fewest others exceed.
LEMMA MaxLemma ==
  ASSUME NEW T, T \subseteq Nat, T # {}, IsFiniteSet(T)
  PROVE  Max(T) \in T /\ \A y \in T : y <= Max(T)
<1> DEFINE Above(x) == {y \in T : y > x}
<1> DEFINE Number == {Cardinality(Above(x)) : x \in T}
<1>1. \A x \in T : IsFiniteSet(Above(x)) /\ Cardinality(Above(x)) \in Nat
  BY FS_Subset, FS_CardinalityType
<1>2. PICK n \in Number : \A m \in Number : n <= m
  <2>1. Number \subseteq Nat /\ Number # {} BY <1>1
  <2> HIDE DEF Number
  <2> QED BY <2>1, LeastNatural
<1>3. PICK x \in T : n = Cardinality(Above(x)) OBVIOUS
<1>4. ASSUME NEW y \in T, y > x PROVE FALSE
  <2>1. Above(y) \in SUBSET Above(x) /\ y \in Above(x) /\ y \notin Above(y)
    <3>1. \A z \in T : z > y => z > x
      <4> SUFFICES ASSUME NEW z \in T, z > y PROVE z > x
        OBVIOUS
      <4>1. x \in Nat /\ y \in Nat /\ z \in Nat OBVIOUS
      <4> QED BY <4>1, <1>4
    <3>2. ~ (y > y)
      <4>1. y \in Nat OBVIOUS
      <4> QED BY <4>1
    <3> QED BY <3>1, <3>2, <1>4
  <2>2. Cardinality(Above(x)) <= Cardinality(Above(y)) BY <1>2, <1>3
  <2>3. Cardinality(Above(x)) = Cardinality(Above(y))
    <3>1. Cardinality(Above(y)) <= Cardinality(Above(x))
      <4> HIDE DEF Above
      <4> QED BY <2>1, <1>1, FS_Subset
    <3> QED BY <3>1, <2>2, <1>1
  <2> HIDE DEF Above
  <2> QED BY <2>1, <2>3, <1>1, FS_Subset
<1>5. \E m \in T : \A y \in T : m >= y
  BY <1>4
<1> QED BY <1>5 DEF Max

\* What RemoveAt returns.
LEMMA RemoveAtLemma ==
  ASSUME NEW S, NEW s \in Seq(S), NEW i \in 1..Len(s)
  PROVE  /\ RemoveAt(s, i) \in Seq(S)
         /\ Len(RemoveAt(s, i)) = Len(s) - 1
         /\ \A k \in 1..(Len(s) - 1) :
              RemoveAt(s, i)[k] = IF k < i THEN s[k] ELSE s[k + 1]
<1> DEFINE l == SubSeq(s, 1, i - 1)
           r == SubSeq(s, i + 1, Len(s))
<1>1. /\ l \in Seq(S) /\ Len(l) = i - 1
      /\ \A k \in 1..(i - 1) : l[k] = s[k]
  OBVIOUS
<1>2. /\ r \in Seq(S) /\ Len(r) = Len(s) - i
      /\ \A k \in 1..(Len(s) - i) : r[k] = s[i + k]
  OBVIOUS
<1>3. RemoveAt(s, i) = l \o r
  BY DEF RemoveAt
<1> HIDE DEF l, r
<1>4. l \o r \in Seq(S) /\ Len(l \o r) = Len(s) - 1
  <2>1. l \o r \in Seq(S) /\ Len(l \o r) = Len(l) + Len(r)
    BY <1>1, <1>2, ConcatProperties
  <2>2. Len(s) \in Nat /\ i \in 1..Len(s) BY LenProperties
  <2> QED BY <1>1, <1>2, <2>1, <2>2
<1>5. \A k \in 1..(Len(s) - 1) : (l \o r)[k] = IF k <= i - 1 THEN l[k] ELSE r[k - (i - 1)]
  BY <1>1, <1>2, ConcatProperties
<1> DEFINE whole == l \o r
<1> HIDE DEF whole
<1>6. ASSUME NEW k \in 1..(Len(s) - 1)
      PROVE whole[k] = IF k < i THEN s[k] ELSE s[k + 1]
  <2>1. whole[k] = IF k <= i - 1 THEN l[k] ELSE r[k - (i - 1)]
    BY <1>5 DEF whole
  <2>2. CASE k < i
    <3>1. k \in 1..(i - 1) BY <2>2
    <3> QED BY <2>1, <3>1, <1>1
  <2>3. CASE k >= i
    <3>1. k - (i - 1) \in 1..(Len(s) - i) /\ i + (k - (i - 1)) = k + 1 BY <2>3
    <3>2. r[k - (i - 1)] = s[k + 1] BY <3>1, <1>2
    <3> QED BY <2>1, <3>1, <3>2, <2>3
  <2> QED BY <2>2, <2>3
<1> QED BY <1>3, <1>4, <1>6 DEF whole

-----------------------------------------------------------------------------
(* SumFunctionOnSet is defined by a recursive function on the subsets of   *)
(* the set; that there is one, and what it returns, is for us to show.     *)

Chosen(s) == CHOOSE x \in s : TRUE
SumBody(f, g, s) == IF s = {} THEN 0 ELSE f[Chosen(s)] + g[s \ {Chosen(s)}]
IsSumOf(f, S, g) == g = [s \in SUBSET S |-> SumBody(f, g, s)]
SumGraph(f, S) == CHOOSE g : IsSumOf(f, S, g)

LEMMA SumIsGraph ==
  ASSUME NEW f, NEW S
  PROVE  SumFunctionOnSet(f, S) = SumGraph(f, S)[S]
BY DEF SumFunctionOnSet, FoldFunctionOnSet, MapThenFoldSet, SumGraph, IsSumOf, SumBody, Chosen

\* The sets that the recursion meets.
LEMMA SmallerSet ==
  ASSUME NEW S, IsFiniteSet(S), NEW s \in SUBSET S
  PROVE  /\ IsFiniteSet(s) /\ Cardinality(s) \in Nat /\ Cardinality(s) <= Cardinality(S)
         /\ Cardinality(s) = 0 <=> s = {}
         /\ \A x \in s : /\ s \ {x} \in SUBSET S /\ IsFiniteSet(s \ {x})
                         /\ Cardinality(s \ {x}) = Cardinality(s) - 1
         /\ s # {} => Chosen(s) \in s
<1>1. IsFiniteSet(s) /\ Cardinality(s) <= Cardinality(S) BY FS_Subset
<1>2. Cardinality(s) \in Nat BY <1>1, FS_CardinalityType
<1>3. Cardinality(s) = 0 <=> s = {} BY <1>1, FS_EmptySet
<1>4. \A x \in s : IsFiniteSet(s \ {x}) /\ Cardinality(s \ {x}) = Cardinality(s) - 1
  BY <1>1, FS_RemoveElement
<1>5. s # {} => Chosen(s) \in s BY DEF Chosen
<1> QED BY <1>1, <1>2, <1>3, <1>4, <1>5

LEMMA SumGraphExists ==
  ASSUME NEW f, NEW S, IsFiniteSet(S)
  PROVE  IsSumOf(f, S, SumGraph(f, S))
<1> DEFINE Upto(g, k) == \A s \in SUBSET S : Cardinality(s) <= k => g[s] = SumBody(f, g, s)
           Good == {k \in Nat : \E g : Upto([s \in SUBSET S |-> g[s]], k)}
<1>1. 0 \in Good
  <2>1. \A s \in SUBSET S : Cardinality(s) <= 0 => s = {} BY SmallerSet
  <2>2. {} \in SUBSET S OBVIOUS
  <2>3. PICK g : g = [s \in SUBSET S |-> 0] OBVIOUS
  <2>4. [s \in SUBSET S |-> g[s]][{}] = 0 BY <2>2, <2>3
  <2>5. \A s \in SUBSET S : Cardinality(s) <= 0 =>
          [r \in SUBSET S |-> g[r]][s] = SumBody(f, [r \in SUBSET S |-> g[r]], s)
    BY <2>1, <2>4 DEF SumBody
  <2> QED BY <2>5
<1>2. ASSUME NEW k \in Nat, k \in Good PROVE k + 1 \in Good
  <2>1. PICK h : Upto([s \in SUBSET S |-> h[s]], k) BY <1>2
  <2>2. PICK g : g = [s \in SUBSET S |-> h[s]] OBVIOUS
  <2>3. Upto(g, k) BY <2>1, <2>2
  <2>4. PICK e : e = [s \in SUBSET S |-> SumBody(f, g, s)] OBVIOUS
  <2>5. ASSUME NEW s \in SUBSET S, Cardinality(s) <= k + 1 PROVE e[s] = SumBody(f, e, s)
    <3>1. CASE s = {} BY <2>4, <3>1 DEF SumBody
    <3>2. CASE s # {}
      <4>1. PICK x : x = Chosen(s) OBVIOUS
      <4>2. PICK r : r = s \ {x} OBVIOUS
      <4>3. x \in s BY <3>2, <4>1, SmallerSet
      <4>4. r \in SUBSET S /\ Cardinality(r) <= k
        <5>1. r \in SUBSET S /\ Cardinality(r) = Cardinality(s) - 1 /\ Cardinality(s) \in Nat
          BY <4>2, <4>3, SmallerSet
        <5> QED BY <5>1, <2>5
      <4>5. e[r] = g[r] BY <2>3, <2>4, <4>4
      <4>6. e[s] = f[x] + g[r] BY <2>4, <3>2, <4>1, <4>2 DEF SumBody
      <4>7. SumBody(f, e, s) = f[x] + e[r] BY <3>2, <4>1, <4>2 DEF SumBody
      <4> QED BY <4>5, <4>6, <4>7
    <3> QED BY <3>1, <3>2
  <2>6. e = [s \in SUBSET S |-> e[s]] BY <2>4
  <2>7. Upto([s \in SUBSET S |-> e[s]], k + 1) BY <2>5, <2>6
  <2> HIDE DEF Upto
  <2> QED BY <2>7
<1>3. Nat \subseteq Good
  <2> HIDE DEF Good
  <2> QED BY <1>1, <1>2, NatSetInduction
<1>4. Cardinality(S) \in Good BY <1>3, FS_CardinalityType
<1>5. PICK h : Upto([s \in SUBSET S |-> h[s]], Cardinality(S)) BY <1>4
<1>6. PICK g : g = [s \in SUBSET S |-> h[s]] OBVIOUS
<1>7. \A s \in SUBSET S : g[s] = SumBody(f, g, s) BY <1>5, <1>6, SmallerSet
<1>8. IsSumOf(f, S, g) BY <1>6, <1>7 DEF IsSumOf
<1> QED BY <1>8 DEF SumGraph

\* Two such functions agree where both are defined.
LEMMA SumGraphsAgree ==
  ASSUME NEW f, NEW S, IsFiniteSet(S), NEW T \in SUBSET S,
         NEW g, IsSumOf(f, S, g), NEW h, IsSumOf(f, T, h)
  PROVE  g[T] = h[T]
<1> DEFINE Good == {k \in Nat : \A s \in SUBSET T : Cardinality(s) = k => g[s] = h[s]}
<1>1. \A s \in SUBSET T : g[s] = SumBody(f, g, s) /\ h[s] = SumBody(f, h, s)
  <2>1. \A s \in SUBSET S : g[s] = SumBody(f, g, s) BY DEF IsSumOf
  <2>2. \A s \in SUBSET T : h[s] = SumBody(f, h, s) BY DEF IsSumOf
  <2> QED BY <2>1, <2>2
<1>2. IsFiniteSet(T) BY FS_Subset
<1>3. 0 \in Good
  <2>1. \A s \in SUBSET T : Cardinality(s) = 0 => s = {} BY <1>2, SmallerSet
  <2>2. g[{}] = h[{}] BY <1>1 DEF SumBody
  <2> QED BY <2>1, <2>2
<1>4. ASSUME NEW k \in Nat, k \in Good PROVE k + 1 \in Good
  <2> SUFFICES ASSUME NEW s \in SUBSET T, Cardinality(s) = k + 1 PROVE g[s] = h[s]
    OBVIOUS
  <2>1. s # {} BY <1>2, SmallerSet
  <2>2. PICK x : x = Chosen(s) OBVIOUS
  <2>3. PICK r : r = s \ {x} OBVIOUS
  <2>4. x \in s BY <1>2, <2>1, <2>2, SmallerSet
  <2>5. r \in SUBSET T /\ Cardinality(r) = k + 1 - 1 BY <1>2, <2>3, <2>4, SmallerSet
  <2>6. g[r] = h[r]
    <3>1. k + 1 - 1 = k OBVIOUS
    <3> QED BY <1>4, <2>5, <3>1
  <2>7. g[s] = f[x] + g[r] /\ h[s] = f[x] + h[r] BY <1>1, <2>1, <2>2, <2>3 DEF SumBody
  <2> QED BY <2>6, <2>7
<1>5. Nat \subseteq Good
  <2> HIDE DEF Good
  <2> QED BY <1>3, <1>4, NatSetInduction
<1>6. Cardinality(T) \in Good BY <1>2, <1>5, FS_CardinalityType
<1> QED BY <1>6

LEMMA SumEmpty ==
  ASSUME NEW f
  PROVE  SumFunctionOnSet(f, {}) = 0
<1>1. IsFiniteSet({}) BY FS_EmptySet
<1>2. IsSumOf(f, {}, SumGraph(f, {})) BY <1>1, SumGraphExists
<1>3. PICK g : g = SumGraph(f, {}) OBVIOUS
<1>4. g[{}] = SumBody(f, g, {})
  <2>1. g = [s \in SUBSET {} |-> SumBody(f, g, s)] BY <1>2, <1>3 DEF IsSumOf
  <2>2. {} \in SUBSET {} OBVIOUS
  <2> QED BY <2>1, <2>2
<1> QED BY <1>3, <1>4, SumIsGraph DEF SumBody

\* The sum takes one chosen element after the other.
LEMMA SumChosen ==
  ASSUME NEW f, NEW S, IsFiniteSet(S), S # {}, NEW x, x = Chosen(S)
  PROVE  SumFunctionOnSet(f, S) = f[x] + SumFunctionOnSet(f, S \ {x})
<1>1. PICK T : T = S \ {x} OBVIOUS
<1>2. T \in SUBSET S /\ IsFiniteSet(T) BY <1>1, FS_Subset
<1>3. PICK g : g = SumGraph(f, S) OBVIOUS
<1>4. PICK h : h = SumGraph(f, T) OBVIOUS
<1>5. IsSumOf(f, S, g) /\ IsSumOf(f, T, h) BY <1>2, <1>3, <1>4, SumGraphExists
<1>6. g[T] = h[T] BY <1>2, <1>5, SumGraphsAgree
<1>7. g[S] = f[x] + g[T]
  <2>1. g = [s \in SUBSET S |-> SumBody(f, g, s)] BY <1>5 DEF IsSumOf
  <2>2. g[S] = SumBody(f, g, S)
    <3>1. S \in SUBSET S OBVIOUS
    <3> QED BY <2>1, <3>1
  <2> QED BY <1>1, <2>2 DEF SumBody
<1>8. SumFunctionOnSet(f, S) = g[S] /\ SumFunctionOnSet(f, T) = h[T]
  BY <1>3, <1>4, SumIsGraph
<1> QED BY <1>1, <1>6, <1>7, <1>8

LEMMA SumNat ==
  ASSUME NEW f, NEW S, IsFiniteSet(S), \A x \in S : f[x] \in Nat
  PROVE  SumFunctionOnSet(f, S) \in Nat
<1> DEFINE Good == {k \in Nat : \A s \in SUBSET S :
                      Cardinality(s) = k => SumFunctionOnSet(f, s) \in Nat}
<1>1. 0 \in Good
  <2>1. \A s \in SUBSET S : Cardinality(s) = 0 => s = {} BY SmallerSet
  <2> QED BY <2>1, SumEmpty
<1>2. ASSUME NEW k \in Nat, k \in Good PROVE k + 1 \in Good
  <2> SUFFICES ASSUME NEW s \in SUBSET S, Cardinality(s) = k + 1
               PROVE  SumFunctionOnSet(f, s) \in Nat
    OBVIOUS
  <2>1. s # {} /\ IsFiniteSet(s) BY SmallerSet
  <2>2. PICK x : x = Chosen(s) OBVIOUS
  <2>3. PICK r : r = s \ {x} OBVIOUS
  <2>4. x \in s BY <2>1, <2>2, SmallerSet
  <2>5. r \in SUBSET S /\ Cardinality(r) = k + 1 - 1 BY <2>3, <2>4, SmallerSet
  <2>6. SumFunctionOnSet(f, r) \in Nat
    <3>1. k + 1 - 1 = k OBVIOUS
    <3> QED BY <1>2, <2>5, <3>1
  <2>7. SumFunctionOnSet(f, s) = f[x] + SumFunctionOnSet(f, r) BY <2>1, <2>2, <2>3, SumChosen
  <2>8. f[x] \in Nat BY <2>4
  <2> QED BY <2>6, <2>7, <2>8
<1>3. Nat \subseteq Good
  <2> HIDE DEF Good
  <2> QED BY <1>1, <1>2, NatSetInduction
<1>4. Cardinality(S) \in Good BY <1>3, FS_CardinalityType
<1> QED BY <1>4

\* Addition commutes: any element may be taken out first.
LEMMA SumRemove ==
  ASSUME NEW f, NEW S, IsFiniteSet(S), \A x \in S : f[x] \in Nat, NEW x \in S
  PROVE  SumFunctionOnSet(f, S) = f[x] + SumFunctionOnSet(f, S \ {x})
<1> DEFINE Sum(s) == SumFunctionOnSet(f, s)
           Good == {k \in Nat : \A s \in SUBSET S : \A y \in s :
                      Cardinality(s) = k => Sum(s) = f[y] + Sum(s \ {y})}
<1>1. 0 \in Good
  <2>1. \A s \in SUBSET S : Cardinality(s) = 0 => s = {} BY SmallerSet
  <2> QED BY <2>1
<1>2. ASSUME NEW k \in Nat, k \in Good PROVE k + 1 \in Good
  <2> SUFFICES ASSUME NEW s \in SUBSET S, NEW y \in s, Cardinality(s) = k + 1
               PROVE  Sum(s) = f[y] + Sum(s \ {y})
    OBVIOUS
  <2>1. s # {} /\ IsFiniteSet(s) BY SmallerSet
  <2>2. PICK z : z = Chosen(s) OBVIOUS
  <2>3. z \in s BY <2>1, <2>2, SmallerSet
  <2>4. Sum(s) = f[z] + Sum(s \ {z}) BY <2>1, <2>2, SumChosen
  <2>5. CASE z = y BY <2>4, <2>5
  <2>6. CASE z # y
    <3>1. PICK r : r = s \ {z} OBVIOUS
    <3>2. PICK q : q = s \ {y} OBVIOUS
    <3>3. PICK t : t = r \ {y} OBVIOUS
    <3>4. t = q \ {z} /\ y \in r /\ z \in q BY <3>1, <3>2, <3>3, <2>3, <2>6
    <3>5. k + 1 - 1 = k OBVIOUS
    <3>6. r \in SUBSET S /\ q \in SUBSET S /\ Cardinality(r) = k /\ Cardinality(q) = k
      <4>1. r \in SUBSET S /\ Cardinality(r) = k BY <3>1, <3>5, <2>3, SmallerSet
      <4>2. q \in SUBSET S /\ Cardinality(q) = k BY <3>2, <3>5, SmallerSet
      <4> QED BY <4>1, <4>2
    <3>7. Sum(r) = f[y] + Sum(t) BY <1>2, <3>3, <3>4, <3>6
    <3>8. Sum(q) = f[z] + Sum(t) BY <1>2, <3>4, <3>6
    <3>9. f[y] \in Nat /\ f[z] \in Nat BY <2>3
    <3>10. Sum(t) \in Nat
      <4>1. t \in SUBSET S BY <3>3, <3>6
      <4>2. IsFiniteSet(t) /\ \A w \in t : f[w] \in Nat BY <4>1, FS_Subset
      <4> QED BY <4>2, SumNat
    <3>11. Sum(s) = f[z] + Sum(r) BY <2>4, <3>1
    <3> HIDE DEF Sum
    <3>12. Sum(s) = f[y] + Sum(q) BY <3>7, <3>8, <3>9, <3>10, <3>11
    <3> QED BY <3>2, <3>12
  <2> QED BY <2>5, <2>6
<1>3. Nat \subseteq Good
  <2> HIDE DEF Good
  <2> QED BY <1>1, <1>2, NatSetInduction
<1>4. Cardinality(S) \in Good BY <1>3, FS_CardinalityType
<1>5. S \in SUBSET S OBVIOUS
<1> QED BY <1>4, <1>5

LEMMA SumAdd ==
  ASSUME NEW f, NEW S, IsFiniteSet(S), NEW x, x \notin S,
         \A y \in S \cup {x} : f[y] \in Nat
  PROVE  SumFunctionOnSet(f, S \cup {x}) = SumFunctionOnSet(f, S) + f[x]
<1>1. PICK T : T = S \cup {x} OBVIOUS
<1>2. IsFiniteSet(T) /\ x \in T /\ T \ {x} = S /\ \A y \in T : f[y] \in Nat
  BY <1>1, FS_AddElement
<1>3. SumFunctionOnSet(f, T) = f[x] + SumFunctionOnSet(f, S) BY <1>2, SumRemove
<1>4. SumFunctionOnSet(f, S) \in Nat /\ f[x] \in Nat BY SumNat
<1> QED BY <1>1, <1>3, <1>4

\* The sum depends on the values in the set only.
LEMMA SumSame ==
  ASSUME NEW f, NEW g, NEW S, IsFiniteSet(S), \A x \in S : f[x] = g[x]
  PROVE  SumFunctionOnSet(f, S) = SumFunctionOnSet(g, S)
<1> DEFINE Good == {k \in Nat : \A s \in SUBSET S :
                      Cardinality(s) = k => SumFunctionOnSet(f, s) = SumFunctionOnSet(g, s)}
<1>1. 0 \in Good
  <2>1. \A s \in SUBSET S : Cardinality(s) = 0 => s = {} BY SmallerSet
  <2> QED BY <2>1, SumEmpty
<1>2. ASSUME NEW k \in Nat, k \in Good PROVE k + 1 \in Good
  <2> SUFFICES ASSUME NEW s \in SUBSET S, Cardinality(s) = k + 1
               PROVE  SumFunctionOnSet(f, s) = SumFunctionOnSet(g, s)
    OBVIOUS
  <2>1. s # {} /\ IsFiniteSet(s) BY SmallerSet
  <2>2. PICK x : x = Chosen(s) OBVIOUS
  <2>3. PICK r : r = s \ {x} OBVIOUS
  <2>4. x \in s BY <2>1, <2>2, SmallerSet
  <2>5. r \in SUBSET S /\ Cardinality(r) = k
    <3>1. k + 1 - 1 = k OBVIOUS
    <3> QED BY <2>3, <2>4, <3>1, SmallerSet
  <2>6. SumFunctionOnSet(f, r) = SumFunctionOnSet(g, r) BY <1>2, <2>5
  <2>7. /\ SumFunctionOnSet(f, s) = f[x] + SumFunctionOnSet(f, r)
        /\ SumFunctionOnSet(g, s) = g[x] + SumFunctionOnSet(g, r)
    BY <2>1, <2>2, <2>3, SumChosen
  <2> QED BY <2>4, <2>6, <2>7
<1>3. Nat \subseteq Good
  <2> HIDE DEF Good
  <2> QED BY <1>1, <1>2, NatSetInduction
<1>4. Cardinality(S) \in Good BY <1>3, FS_CardinalityType
<1> QED BY <1>4
=============================================================================
