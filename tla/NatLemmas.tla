------------------------------- MODULE NatLemmas -------------------------------
(***************************************************************************)
(* Lemmas that several proofs need: the least and the greatest element of  *)
(* a set of naturals, and the sum of naturals over a finite set.  The      *)
(* community modules define such a sum as a fold, and the fold as a        *)
(* function on the subsets of the set, chosen by the equation it satisfies. *)
(***************************************************************************)
EXTENDS Integers, FiniteSets, FiniteSetsExt, FiniteSetTheorems, WellFoundedInduction, TLAPS

(* Least and greatest elements *)

\* A non-empty set of naturals has a least element.
LEMMA LeastExists ==
  ASSUME NEW S \in SUBSET Nat, S # {}
  PROVE  \E m \in S : \A x \in S : m <= x
<1> DEFINE Less == {ss \in Nat \X Nat : ss[1] < ss[2]}
<1>1. IsWellFoundedOn(Less, Nat)
  BY NatLessThanWellFounded DEF OpToRel
<1>2. S \subseteq Nat /\ S # {}
  OBVIOUS
<1>3. PICK m \in S : \A u \in S : ~ (<<u, m>> \in Less)
  <2> HIDE DEF Less
  <2> QED BY <1>1, <1>2, WFMin
<1>4. ASSUME NEW x \in S PROVE m <= x
  <2>1. m \in Nat /\ x \in Nat
    OBVIOUS
  <2>2. ~ (x < m)
    BY <1>3, <2>1
  <2> QED BY <2>1, <2>2
<1> QED BY <1>3, <1>4

\* LowestFd and Stable take a least element.
LEMMA MinOf ==
  ASSUME NEW S \in SUBSET Nat, S # {}
  PROVE  Min(S) \in S /\ \A x \in S : Min(S) <= x
BY LeastExists DEF Min

\* A non-empty set of naturals below n has a greatest element: n minus the least distance.
LEMMA GreatestExists ==
  ASSUME NEW S \in SUBSET Nat, S # {}, NEW n \in Nat, \A x \in S : x <= n
  PROVE  \E m \in S : \A x \in S : m >= x
<1> DEFINE D == {n - x : x \in S}
<1>1. D \in SUBSET Nat /\ D # {}
  <2>1. \A x \in S : x \in Nat /\ n - x \in Nat
    OBVIOUS
  <2>2. \A d \in D : d \in Nat
    BY <2>1
  <2>3. D # {}
    BY DEF D
  <2> QED BY <2>2, <2>3
<1>2. PICK d \in D : \A e \in D : d <= e
  <2> HIDE DEF D
  <2> QED BY <1>1, LeastExists
<1>3. PICK m \in S : d = n - m
  BY <1>2
<1>4. ASSUME NEW x \in S PROVE m >= x
  <2>1. n - x \in D
    OBVIOUS
  <2>2. n - m <= n - x
    BY <1>2, <1>3, <2>1
  <2>3. m \in Nat /\ x \in Nat
    OBVIOUS
  <2> QED BY <2>2, <2>3
<1> QED BY <1>4

\* Longest, LastMessageStart, ResumeAt and Give take a greatest element.
LEMMA MaxOf ==
  ASSUME NEW S \in SUBSET Nat, S # {}, NEW n \in Nat, \A x \in S : x <= n
  PROVE  Max(S) \in S /\ \A x \in S : Max(S) >= x
BY GreatestExists DEF Max

-----------------------------------------------------------------------------
(* Sums *)

\* the sum of b over S, as a specification writes it
SumOf(b, S) == MapThenSumSet(LAMBDA x : b[x], S)

\* the element the fold takes from s
Taken(s) == CHOOSE x \in s : TRUE

\* g sums b over each subset of S
Sums(b, S, g) == g = [s \in SUBSET S |-> IF s = {} THEN 0 ELSE b[Taken(s)] + g[s \ {Taken(s)}]]

\* The element that is taken is one of the set.
LEMMA PickIn ==
  ASSUME NEW s, s # {}
  PROVE  Taken(s) \in s
BY DEF Taken

\* The equation, pointwise.
LEMMA SumsAt ==
  ASSUME NEW b, NEW S, NEW g, Sums(b, S, g), NEW s \in SUBSET S
  PROVE  g[s] = IF s = {} THEN 0 ELSE b[Taken(s)] + g[s \ {Taken(s)}]
<1> DEFINE F == [t \in SUBSET S |-> IF t = {} THEN 0 ELSE b[Taken(t)] + g[t \ {Taken(t)}]]
<1>1. g = F
  BY DEF Sums
<1>2. F[s] = IF s = {} THEN 0 ELSE b[Taken(s)] + g[s \ {Taken(s)}]
  OBVIOUS
<1> HIDE DEF F
<1> QED BY <1>1, <1>2

\* One element less, one less in number.
LEMMA OneLess ==
  ASSUME NEW s, IsFiniteSet(s), NEW x \in s
  PROVE  IsFiniteSet(s \ {x}) /\ Cardinality(s) \in Nat /\ Cardinality(s \ {x}) \in Nat /\ Cardinality(s \ {x}) < Cardinality(s)
<1>1. IsFiniteSet(s \ {x}) /\ Cardinality(s \ {x}) = Cardinality(s) - 1
  BY FS_RemoveElement
<1>2. Cardinality(s) \in Nat /\ Cardinality(s \ {x}) \in Nat
  BY <1>1, FS_CardinalityType
<1> QED BY <1>1, <1>2

\* A set of finite sets that is not empty has one of the fewest elements.
LEMMA FewestExists ==
  ASSUME NEW Bad, Bad # {}, \A s \in Bad : IsFiniteSet(s)
  PROVE  \E s \in Bad : \A t \in Bad : Cardinality(s) <= Cardinality(t)
<1> DEFINE N == {Cardinality(s) : s \in Bad}
<1>1. N \in SUBSET Nat /\ N # {}
  BY FS_CardinalityType
<1>2. PICK m \in N : \A n \in N : m <= n
  <2> HIDE DEF N
  <2> QED BY <1>1, LeastExists
<1>3. PICK s \in Bad : m = Cardinality(s)
  BY <1>2
<1> QED BY <1>2, <1>3

\* Two sums of the same numbers agree on a set they both cover.
LEMMA SumsAgree ==
  ASSUME NEW b, NEW c, NEW S, NEW S2, NEW g, NEW h, Sums(b, S, g), Sums(c, S2, h),
         NEW T, T \subseteq S, T \subseteq S2, IsFiniteSet(T), \A x \in T : b[x] = c[x]
  PROVE  g[T] = h[T]
<1> DEFINE Bad == {s \in SUBSET T : g[s] # h[s]}
<1> SUFFICES ASSUME Bad # {} PROVE FALSE
  OBVIOUS
<1>1. \A s \in Bad : IsFiniteSet(s)
  BY FS_Subset
<1>2. PICK s \in Bad : \A t \in Bad : Cardinality(s) <= Cardinality(t)
  <2> HIDE DEF Bad
  <2> QED BY <1>1, FewestExists
<1>3. s \in SUBSET T /\ s \in SUBSET S /\ s \in SUBSET S2 /\ g[s] # h[s] /\ IsFiniteSet(s)
  BY <1>1, <1>2
<1>4. g[s] = IF s = {} THEN 0 ELSE b[Taken(s)] + g[s \ {Taken(s)}]
  <2> HIDE DEF Bad
  <2> QED BY <1>3, SumsAt
<1>5. h[s] = IF s = {} THEN 0 ELSE c[Taken(s)] + h[s \ {Taken(s)}]
  <2> HIDE DEF Bad
  <2> QED BY <1>3, SumsAt
<1>6. s # {}
  BY <1>3, <1>4, <1>5
<1> DEFINE x == Taken(s)
           r == s \ {x}
<1>7. x \in s /\ x \in T
  BY <1>3, <1>6, PickIn
<1>8. g[r] # h[r]
  BY <1>3, <1>4, <1>5, <1>6, <1>7
<1>9. r \in Bad
  BY <1>3, <1>8
<1>10. Cardinality(s) \in Nat /\ Cardinality(r) \in Nat /\ Cardinality(r) < Cardinality(s)
  BY <1>3, <1>7, OneLess
<1>11. Cardinality(s) <= Cardinality(r)
  <2> HIDE DEF Bad
  <2> QED BY <1>2, <1>9
<1> HIDE DEF r
<1> QED BY <1>10, <1>11

\* There is a sum: on the set itself it adds one number to the sum on a smaller set, and on every smaller set it
\* is the sum that the smaller set has.
LEMMA SumsExist ==
  ASSUME NEW b, NEW S, IsFiniteSet(S)
  PROVE  \E g : Sums(b, S, g)
<1> DEFINE Bad == {s \in SUBSET S : ~ \E g : Sums(b, s, g)}
<1> SUFFICES ASSUME Bad # {} PROVE FALSE
  OBVIOUS
<1>1. \A s \in Bad : IsFiniteSet(s)
  BY FS_Subset
<1>2. PICK T \in Bad : \A t \in Bad : Cardinality(T) <= Cardinality(t)
  <2> HIDE DEF Bad
  <2> QED BY <1>1, FewestExists
<1>3. T \in SUBSET S /\ IsFiniteSet(T) /\ ~ \E g : Sums(b, T, g)
  BY <1>1, <1>2
<1>4. ASSUME NEW s \in SUBSET T, s # T PROVE (\E g : Sums(b, s, g)) /\ IsFiniteSet(s)
  <2>1. IsFiniteSet(s) /\ IsFiniteSet(T) /\ s \subseteq T /\ Cardinality(s) \in Nat /\ Cardinality(T) \in Nat
    BY <1>3, FS_Subset, FS_CardinalityType
  <2>2. Cardinality(s) < Cardinality(T)
    BY <1>4, <2>1, FS_Subset
  <2>3. s \notin Bad
    <3> HIDE DEF Bad
    <3> QED BY <1>2, <2>1, <2>2
  <2> QED BY <1>3, <2>1, <2>3
<1> DEFINE h == [s \in SUBSET T |-> (CHOOSE g : Sums(b, s, g))[s]]
           p == Taken(T)
           f == [s \in SUBSET T |-> IF s = T /\ T # {} THEN b[p] + h[T \ {p}] ELSE IF s = {} THEN 0 ELSE h[s]]
<1>5. ASSUME NEW s \in SUBSET T, s # T, NEW r \in SUBSET s PROVE h[r] = (CHOOSE g : Sums(b, s, g))[r]
  <2>1. Sums(b, s, CHOOSE g : Sums(b, s, g)) /\ IsFiniteSet(s)
    BY <1>4, <1>5
  <2>2. r \in SUBSET T /\ r # T
    BY <1>5
  <2>3. Sums(b, r, CHOOSE g : Sums(b, r, g)) /\ IsFiniteSet(r)
    BY <1>4, <2>2
  <2>4. (CHOOSE g : Sums(b, r, g))[r] = (CHOOSE g : Sums(b, s, g))[r]
    BY <2>1, <2>3, SumsAgree
  <2> QED BY <2>2, <2>4
<1>6. ASSUME NEW s \in SUBSET T PROVE f[s] = IF s = {} THEN 0 ELSE b[Taken(s)] + f[s \ {Taken(s)}]
  <2>1. CASE s = {}
    BY <2>1
  <2>2. CASE s # {}
    <3> DEFINE x == Taken(s)
               r == s \ {x}
    <3>1. x \in s /\ r \in SUBSET s /\ r \in SUBSET T /\ r # T
      BY <2>2, PickIn
    <3>2. ASSUME NEW t \in SUBSET T, t # T, t = {} PROVE h[t] = 0
      <4>1. Sums(b, t, CHOOSE g : Sums(b, t, g))
        BY <1>4, <3>2
      <4>2. (CHOOSE g : Sums(b, t, g))[t] = 0
        BY <3>2, <4>1, SumsAt
      <4> QED BY <4>2
    <3>3. f[r] = h[r]
      <4>1. f[r] = IF r = {} THEN 0 ELSE h[r]
        BY <3>1
      <4> HIDE DEF h, f, r
      <4> QED BY <3>1, <3>2, <4>1
    <3>4. CASE s = T
      <4>1. f[s] = b[p] + h[T \ {p}]
        BY <2>2, <3>4
      <4> HIDE DEF h, f
      <4> QED BY <2>2, <3>3, <3>4, <4>1
    <3>5. CASE s # T
      <4> DEFINE k == CHOOSE g : Sums(b, s, g)
      <4>1. Sums(b, s, k)
        BY <1>4, <3>5
      <4>2. f[s] = h[s]
        BY <2>2, <3>5
      <4> HIDE DEF f
      <4>3. h[s] = k[s]
        OBVIOUS
      <4>4. h[r] = k[r]
        BY <1>5, <3>1, <3>5
      <4> HIDE DEF k, h
      <4>5. k[s] = b[x] + k[r]
        BY <2>2, <4>1, SumsAt
      <4> QED BY <2>2, <3>3, <4>2, <4>3, <4>4, <4>5
    <3> QED BY <3>4, <3>5
  <2> QED BY <2>1, <2>2
<1>7. Sums(b, T, f)
  <2>1. f = [s \in SUBSET T |-> f[s]]
    OBVIOUS
  <2> HIDE DEF f
  <2>2. [s \in SUBSET T |-> f[s]] = [s \in SUBSET T |-> IF s = {} THEN 0 ELSE b[Taken(s)] + f[s \ {Taken(s)}]]
    BY <1>6
  <2> QED BY <2>1, <2>2 DEF Sums
<1> QED BY <1>3, <1>7

\* Any element may be taken first.
LEMMA SumsTake ==
  ASSUME NEW S, IsFiniteSet(S), NEW b, \A x \in S : b[x] \in Nat, NEW g, Sums(b, S, g), NEW T \in SUBSET S
  PROVE  g[T] \in Nat /\ \A x \in T : g[T] = b[x] + g[T \ {x}]
<1> DEFINE Good(t) == g[t] \in Nat /\ \A x \in t : g[t] = b[x] + g[t \ {x}]
           Bad == {t \in SUBSET S : ~Good(t)}
<1> SUFFICES ASSUME Bad # {} PROVE FALSE
  OBVIOUS
<1>1. \A s \in Bad : IsFiniteSet(s)
  BY FS_Subset
<1>2. PICK t \in Bad : \A s \in Bad : Cardinality(t) <= Cardinality(s)
  <2> HIDE DEF Bad
  <2> QED BY <1>1, FewestExists
<1>3. t \in SUBSET S /\ IsFiniteSet(t) /\ ~Good(t)
  BY <1>1, <1>2
<1>4. ASSUME NEW x \in t PROVE Good(t \ {x})
  <2>1. Cardinality(t) \in Nat /\ Cardinality(t \ {x}) \in Nat /\ Cardinality(t \ {x}) < Cardinality(t)
    BY <1>3, OneLess
  <2>2. t \ {x} \notin Bad
    <3> HIDE DEF Bad
    <3> QED BY <1>2, <2>1
  <2> QED BY <1>3, <2>2
<1>5. g[t] = IF t = {} THEN 0 ELSE b[Taken(t)] + g[t \ {Taken(t)}]
  <2>1. PICK u \in SUBSET S : u = t
    BY <1>3
  <2>2. Sums(b, S, g)
    OBVIOUS
  <2>3. g[u] = IF u = {} THEN 0 ELSE b[Taken(u)] + g[u \ {Taken(u)}]
    BY ONLY <2>2, u \in SUBSET S, SumsAt
  <2> QED BY ONLY <2>1, <2>3
<1>6. CASE t = {}
  BY <1>3, <1>5, <1>6
<1>7. CASE t # {}
  <2> DEFINE y == Taken(t)
  <2>1. y \in t /\ y \in S /\ b[y] \in Nat /\ g[t] = b[y] + g[t \ {y}]
    BY <1>3, <1>5, <1>7, PickIn
  <2> HIDE DEF y
  <2>2. g[t] \in Nat /\ g[t \ {y}] \in Nat
    BY <1>4, <2>1
  <2>3. ASSUME NEW x \in t, x # y PROVE g[t] = b[x] + g[t \ {x}]
    <3>1. g[t \ {y}] = b[x] + g[(t \ {y}) \ {x}]
      BY <1>4, <2>1, <2>3
    <3>2. g[t \ {x}] = b[y] + g[(t \ {x}) \ {y}] /\ g[t \ {x}] \in Nat
      BY <1>4, <2>1, <2>3
    <3>3. (t \ {y}) \ {x} = (t \ {x}) \ {y} /\ (t \ {y}) \ {x} = (t \ {y}) \ {x}
      OBVIOUS
    <3>4. b[x] \in Nat
      BY <1>3
    <3>5. g[(t \ {x}) \ {y}] \in Nat
      <4> DEFINE r == t \ {x}
      <4>1. y \in r /\ r \in SUBSET S /\ IsFiniteSet(r)
        BY <1>3, <2>1, <2>3, FS_Subset
      <4>2. Cardinality(t) \in Nat /\ Cardinality(r) \in Nat /\ Cardinality(r) < Cardinality(t)
        BY <1>3, OneLess
      <4>3. Cardinality(r \ {y}) \in Nat /\ Cardinality(r \ {y}) < Cardinality(r)
        BY <4>1, OneLess
      <4>4. r \ {y} \notin Bad /\ r \ {y} \in SUBSET S
        <5> HIDE DEF Bad, r
        <5> QED BY <1>2, <4>1, <4>2, <4>3
      <4> QED BY <4>4
    <3>6. ASSUME NEW gt \in Nat, NEW gy, NEW gx \in Nat, NEW r \in Nat, NEW k \in Nat, NEW l \in Nat,
                 gt = k + gy, gy = l + r, gx = k + r
          PROVE  gt = l + gx
      BY <3>6
    <3> HIDE DEF Good, Bad
    <3>7. g[t] = b[y] + g[t \ {y}] /\ g[t] \in Nat /\ b[y] \in Nat
      BY <2>1, <2>2
    <3>8. g[t \ {y}] = b[x] + g[(t \ {x}) \ {y}]
      BY <3>1, <3>3
    <3> QED BY ONLY <3>2, <3>4, <3>5, <3>6, <3>7, <3>8
  <2>4. Good(t)
    BY <2>1, <2>2, <2>3
  <2> QED BY <1>3, <2>4
<1> QED BY <1>6, <1>7

\* The fold is such a sum.
LEMMA SumOfSums ==
  ASSUME NEW b, NEW S, IsFiniteSet(S)
  PROVE  \E g : Sums(b, S, g) /\ SumOf(b, S) = g[S]
<1> DEFINE g == CHOOSE f : Sums(b, S, f)
<1>1. Sums(b, S, g)
  BY SumsExist
<1>2. SumOf(b, S) = (CHOOSE f : f = [s \in SUBSET S |-> IF s = {} THEN 0 ELSE b[CHOOSE x \in s : TRUE] + f[s \ {CHOOSE x \in s : TRUE}]])[S]
  BY DEF SumOf, MapThenSumSet, MapThenFoldSet
<1>3. SumOf(b, S) = g[S]
  BY <1>2 DEF Sums, Taken
<1> HIDE DEF g
<1> QED BY <1>1, <1>3

\* A sum of naturals is a natural; over no elements it is 0; and any element may be taken out of it.
LEMMA SumTakes ==
  ASSUME NEW S, IsFiniteSet(S), NEW b, \A x \in S : b[x] \in Nat
  PROVE  /\ SumOf(b, S) \in Nat /\ (S = {} => SumOf(b, S) = 0)
         /\ \A x \in S : SumOf(b, S) = b[x] + SumOf(b, S \ {x})
<1>1. PICK g : Sums(b, S, g) /\ SumOf(b, S) = g[S]
  BY SumOfSums
<1>2. g[S] \in Nat /\ \A x \in S : g[S] = b[x] + g[S \ {x}]
  BY <1>1, SumsTake
<1>3. S = {} => g[S] = 0
  BY <1>1, SumsAt
<1>4. ASSUME NEW x \in S PROVE SumOf(b, S \ {x}) = g[S \ {x}]
  <2>1. IsFiniteSet(S \ {x})
    BY FS_RemoveElement
  <2>2. PICK h : Sums(b, S \ {x}, h) /\ SumOf(b, S \ {x}) = h[S \ {x}]
    BY <2>1, SumOfSums
  <2> QED BY <1>1, <2>1, <2>2, SumsAgree
<1> QED BY <1>1, <1>2, <1>3, <1>4

\* Only the numbers of the set's elements count.
LEMMA SumSame ==
  ASSUME NEW S, IsFiniteSet(S), NEW b, NEW c, \A x \in S : b[x] = c[x]
  PROVE  SumOf(b, S) = SumOf(c, S)
<1>1. PICK g : Sums(b, S, g) /\ SumOf(b, S) = g[S]
  BY SumOfSums
<1>2. PICK h : Sums(c, S, h) /\ SumOf(c, S) = h[S]
  BY SumOfSums
<1> QED BY <1>1, <1>2, SumsAgree
=============================================================================
