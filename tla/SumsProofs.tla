----------------------------- MODULE SumsProofs -----------------------------
(***************************************************************************)
(* What SumAlong computes, for sequences of any length, and MapThenSumSet   *)
(* for finite sets.  The induction is over sets of natural numbers,         *)
(* obtained from the well-foundedness of <.                                 *)
(***************************************************************************)
EXTENDS Sums, WellFoundedInduction, TLAPS, FiniteSetsExt, FiniteSetTheorems

\* Induction: a set that holds 0 and is closed under successor holds every
\* natural number.
LEMMA InductiveSet ==
  ASSUME NEW S, 0 \in S, \A n \in Nat : n \in S => n + 1 \in S
  PROVE  \A n \in Nat : n \in S
<1> DEFINE T == Nat \ S
           R == {ss \in Nat \X Nat : ss[1] < ss[2]}
<1>1. SUFFICES ASSUME T # {} PROVE FALSE
  OBVIOUS
<1>2. IsWellFoundedOn(R, Nat)
  BY NatLessThanWellFounded DEF OpToRel
<1>3. PICK x \in T : \A y \in T : ~(<<y, x>> \in R)
  <2>1. T \subseteq Nat
    OBVIOUS
  <2> HIDE DEF T, R
  <2> QED
    BY <1>1, <1>2, <2>1, WFMin
<1>4. x \in Nat /\ x # 0
  BY <1>3
<1>5. x - 1 \in Nat /\ (x - 1) + 1 = x /\ <<x - 1, x>> \in R
  BY <1>4
<1>6. x - 1 \in S
  BY <1>3, <1>5
<1> QED
  BY <1>3, <1>5, <1>6

\* A set of numbers that is not empty has a least one.
LEMMA LeastNatural ==
  ASSUME NEW S \in SUBSET Nat, S # {}
  PROVE  \E i \in S : \A j \in S : i <= j
<1>1. PICK i \in S : \A j \in S : ~(<<j, i>> \in OpToRel(<, Nat))
  BY NatLessThanWellFounded, WFMin
<1>2. \A j \in S : j < i => <<j, i>> \in OpToRel(<, Nat)
  BY DEF OpToRel
<1>3. \A j \in S : ~(j < i)
  BY <1>1, <1>2
<1>4. \A j \in S : i <= j
  BY <1>3
<1> QED
  BY <1>4

\* s lists elements of D.
ListsFrom(s, D) == Len(s) \in Nat /\ \A i \in 1..Len(s) : s[i] \in D

\* The function g adds up f along s, up to k.
IsPartialSum(g, s, f, k) ==
  /\ g \in [0..k -> Nat]
  /\ g[0] = 0
  /\ \A i \in 1..k : g[i] = g[i - 1] + f[s[i]]

\* Such a function exists for every length.
LEMMA PartialSumExists ==
  ASSUME NEW D, NEW s, ListsFrom(s, D), NEW f \in [D -> Nat]
  PROVE  \E g : IsPartialSum(g, s, f, Len(s))
<1> DEFINE S == {k \in Nat : k <= Len(s) => \E g : IsPartialSum(g, s, f, k)}
<1>1. 0 \in S
  <2>1. IsPartialSum([i \in 0..0 |-> 0], s, f, 0)
    BY DEF IsPartialSum
  <2> QED
    BY <2>1
<1>2. ASSUME NEW k \in Nat, k \in S PROVE k + 1 \in S
  <2>1. SUFFICES ASSUME k + 1 <= Len(s)
                 PROVE  \E g : IsPartialSum(g, s, f, k + 1)
    OBVIOUS
  <2>2. PICK g : IsPartialSum(g, s, f, k)
    BY <1>2, <2>1
  <2> DEFINE h == [i \in 0..(k + 1) |->
                     IF i = k + 1 THEN g[k] + f[s[k + 1]] ELSE g[i]]
  <2>3. k + 1 \in 1..Len(s) /\ s[k + 1] \in D /\ f[s[k + 1]] \in Nat
    BY <2>1 DEF ListsFrom
  <2>4. g[k] \in Nat /\ g[0] = 0 /\ \A i \in 0..k : g[i] \in Nat
    BY <2>2 DEF IsPartialSum
  <2>5. h \in [0..(k + 1) -> Nat]
    BY <2>3, <2>4
  <2>6. h[0] = 0
    BY <2>4
  <2>7. ASSUME NEW i \in 1..(k + 1) PROVE h[i] = h[i - 1] + f[s[i]]
    <3>1. CASE i = k + 1
      BY <3>1, i - 1 = k, k # k + 1, k \in 0..(k + 1)
    <3>2. CASE i # k + 1
      <4>1. i \in 1..k /\ i - 1 \in 0..k /\ i - 1 # k + 1
        BY <3>2
      <4>2. g[i] = g[i - 1] + f[s[i]]
        BY <4>1, <2>2 DEF IsPartialSum
      <4> QED
        BY <3>2, <4>1, <4>2
    <3> QED
      BY <3>1, <3>2
  <2> HIDE DEF h
  <2> QED
    BY <2>5, <2>6, <2>7 DEF IsPartialSum
<1> HIDE DEF S
<1>3. \A k \in Nat : k \in S
  BY <1>1, <1>2, InductiveSet
<1>4. Len(s) \in Nat
  OBVIOUS
<1>5. Len(s) \in S
  BY <1>3, <1>4
<1> QED
  BY <1>4, <1>5 DEF S

\* PartialSum is that function.
LEMMA PartialSumIs ==
  ASSUME NEW D, NEW s, ListsFrom(s, D), NEW f \in [D -> Nat]
  PROVE  IsPartialSum(PartialSum(s, f), s, f, Len(s))
<1> DEFINE Body(p) == [i \in 0..Len(s) |->
                         IF i = 0 THEN 0 ELSE p[i - 1] + f[s[i]]]
<1>1. PICK g : IsPartialSum(g, s, f, Len(s))
  BY PartialSumExists
<1>2. g = Body(g)
  BY <1>1 DEF IsPartialSum
<1>3. PartialSum(s, f) = CHOOSE p : p = Body(p)
  BY DEF PartialSum
<1>4. PartialSum(s, f) = Body(PartialSum(s, f))
  <2> HIDE DEF Body
  <2> QED
    BY <1>2, <1>3
<1> DEFINE P == PartialSum(s, f)
<1>5. \A i \in 1..Len(s) : f[s[i]] \in Nat
  BY DEF ListsFrom
<1>6. P[0] = 0 /\ \A i \in 1..Len(s) : P[i] = P[i - 1] + f[s[i]]
  <2>1. \A i \in 0..Len(s) : Body(P)[i] = IF i = 0 THEN 0
                                          ELSE P[i - 1] + f[s[i]]
    BY DEF Body
  <2>2. P = Body(P)
    BY <1>4
  <2> HIDE DEF P, Body
  <2>3. \A i \in 0..Len(s) : P[i] = IF i = 0 THEN 0
                                    ELSE P[i - 1] + f[s[i]]
    BY <2>1, <2>2
  <2> QED
    BY <2>3
<1> DEFINE S == {k \in Nat : k <= Len(s) => P[k] \in Nat}
<1> HIDE DEF P
<1>7. 0 \in S
  BY <1>6
<1>8. ASSUME NEW k \in Nat, k \in S PROVE k + 1 \in S
  <2>1. SUFFICES ASSUME k + 1 <= Len(s) PROVE P[k + 1] \in Nat
    OBVIOUS
  <2>2. k + 1 \in 1..Len(s) /\ (k + 1) - 1 = k /\ P[k] \in Nat
    BY <2>1, <1>8
  <2> QED
    BY <2>2, <1>5, <1>6
<1> HIDE DEF S
<1>9. \A k \in Nat : k \in S
  BY <1>7, <1>8, InductiveSet
<1>10. P \in [0..Len(s) -> Nat]
  <2>1. \A i \in 0..Len(s) : P[i] \in Nat
    BY <1>9 DEF S
  <2>2. P = Body(P)
    BY <1>4 DEF P
  <2>3. P = [i \in 0..Len(s) |-> Body(P)[i]]
    BY <2>2 DEF Body
  <2> HIDE DEF Body
  <2>4. P = [i \in 0..Len(s) |-> P[i]]
    BY <2>2, <2>3
  <2> QED
    BY <2>1, <2>4
<1> QED
  BY <1>6, <1>10 DEF IsPartialSum, P

-----------------------------------------------------------------------------
\* A sum of natural numbers is a natural number.
LEMMA SumType ==
  ASSUME NEW D, NEW s, ListsFrom(s, D), NEW f \in [D -> Nat]
  PROVE  SumAlong(s, f) \in Nat
BY PartialSumIs, Len(s) \in 0..Len(s) DEF IsPartialSum, SumAlong

\* Sums are additive.
LEMMA SumAdditive ==
  ASSUME NEW D, NEW s, ListsFrom(s, D), NEW f \in [D -> Nat],
         NEW g \in [D -> Nat], NEW h \in [D -> Nat],
         \A d \in D : h[d] = f[d] + g[d]
  PROVE  SumAlong(s, h) = SumAlong(s, f) + SumAlong(s, g)
<1> DEFINE F == PartialSum(s, f)
           G == PartialSum(s, g)
           H == PartialSum(s, h)
           S == {k \in Nat : k <= Len(s) => H[k] = F[k] + G[k]}
<1>1. /\ IsPartialSum(F, s, f, Len(s))
      /\ IsPartialSum(G, s, g, Len(s))
      /\ IsPartialSum(H, s, h, Len(s))
  BY PartialSumIs
<1>2. Len(s) \in Nat /\ \A i \in 1..Len(s) : s[i] \in D
  BY DEF ListsFrom
<1> HIDE DEF F, G, H
<1>3. 0 \in S
  BY <1>1 DEF IsPartialSum
<1>4. ASSUME NEW k \in Nat, k \in S PROVE k + 1 \in S
  <2>1. SUFFICES ASSUME k + 1 <= Len(s) PROVE H[k + 1] = F[k + 1] + G[k + 1]
    OBVIOUS
  <2>2. k + 1 \in 1..Len(s) /\ (k + 1) - 1 = k /\ k \in 0..Len(s)
    BY <2>1, <1>2
  <2>3. H[k] = F[k] + G[k]
    BY <1>4, <2>1, <1>2
  <2>4. /\ F[k] \in Nat /\ G[k] \in Nat
        /\ f[s[k + 1]] \in Nat /\ g[s[k + 1]] \in Nat
        /\ h[s[k + 1]] = f[s[k + 1]] + g[s[k + 1]]
    BY <1>1, <1>2, <2>2 DEF IsPartialSum
  <2>5. /\ F[k + 1] = F[k] + f[s[k + 1]]
        /\ G[k + 1] = G[k] + g[s[k + 1]]
        /\ H[k + 1] = H[k] + h[s[k + 1]]
    BY <1>1, <2>2 DEF IsPartialSum
  <2> QED
    BY <2>3, <2>4, <2>5
<1> HIDE DEF S
<1>5. \A k \in Nat : k \in S
  BY <1>3, <1>4, InductiveSet
<1> QED
  BY <1>2, <1>5 DEF S, F, G, H, SumAlong

\* A sum of zeros is zero.
LEMMA SumZero ==
  ASSUME NEW D, NEW s, ListsFrom(s, D), NEW f \in [D -> Nat], \A d \in D : f[d] = 0
  PROVE  SumAlong(s, f) = 0
<1>1. SumAlong(s, f) = SumAlong(s, f) + SumAlong(s, f)
  BY SumAdditive
<1>2. SumAlong(s, f) \in Nat
  BY SumType
<1> QED
  BY <1>1, <1>2 DEF ListsFrom

\* A function with one value other than zero, along a sequence without
\* repetitions, sums to that value.
LEMMA SumSingle ==
  ASSUME NEW D, NEW s, ListsFrom(s, D), NEW f \in [D -> Nat],
         \A i, j \in 1..Len(s) : s[i] = s[j] => i = j,
         NEW j \in 1..Len(s), \A d \in D : d # s[j] => f[d] = 0
  PROVE  SumAlong(s, f) = f[s[j]]
<1> DEFINE F == PartialSum(s, f)
           S == {k \in Nat :
                   k <= Len(s) => F[k] = IF k >= j THEN f[s[j]] ELSE 0}
<1>1. IsPartialSum(F, s, f, Len(s))
  BY PartialSumIs
<1>2. /\ Len(s) \in Nat /\ j \in Nat /\ j >= 1 /\ j <= Len(s)
      /\ \A i \in 1..Len(s) : s[i] \in D
      /\ f[s[j]] \in Nat
  BY DEF ListsFrom
<1> HIDE DEF F
<1>3. 0 \in S
  BY <1>1, <1>2 DEF IsPartialSum
<1>4. ASSUME NEW k \in Nat, k \in S PROVE k + 1 \in S
  <2>1. SUFFICES ASSUME k + 1 <= Len(s)
                 PROVE  F[k + 1] = IF k + 1 >= j THEN f[s[j]] ELSE 0
    OBVIOUS
  <2>2. k + 1 \in 1..Len(s) /\ (k + 1) - 1 = k
    BY <2>1, <1>2
  <2>3. F[k] = IF k >= j THEN f[s[j]] ELSE 0
    BY <1>4, <2>1, <1>2
  <2>4. F[k + 1] = F[k] + f[s[k + 1]]
    BY <1>1, <2>2 DEF IsPartialSum
  <2>5. CASE k + 1 = j
    BY <2>3, <2>4, <2>5, <1>2
  <2>6. CASE k + 1 # j
    <3>1. s[k + 1] # s[j] /\ f[s[k + 1]] = 0
      BY <2>2, <2>6, <1>2
    <3> QED
      BY <2>3, <2>4, <2>6, <3>1, <1>2
  <2> QED
    BY <2>5, <2>6
<1> HIDE DEF S
<1>5. \A k \in Nat : k \in S
  BY <1>3, <1>4, InductiveSet
<1> QED
  BY <1>2, <1>5 DEF S, F, SumAlong

\* A set of positions that is not empty has a largest one.
LEMMA LargestIs ==
  ASSUME NEW n \in Nat, NEW s \in SUBSET (1..n), s # {}
  PROVE  Max(s) \in s /\ \A y \in s : Max(s) >= y
<1> DEFINE D == {n - y : y \in s}
<1>1. PICK i \in D : \A j \in D : i <= j
  <2>1. \A y \in s : n - y \in Nat
    OBVIOUS
  <2>2. PICK y \in s : n - y \in D
    OBVIOUS
  <2>3. D \in SUBSET Nat
    BY <2>1
  <2> HIDE DEF D
  <2> QED
    BY <2>2, <2>3, LeastNatural
<1>2. PICK x \in s : i = n - x
  BY <1>1
<1>3. \A y \in s : x >= y
  <2> TAKE y \in s
  <2>1. n - y \in D /\ x \in Nat /\ y \in Nat
    OBVIOUS
  <2>2. n - x <= n - y
    BY <1>1, <1>2, <2>1
  <2> QED
    BY <2>1, <2>2
<1> HIDE DEF D
<1>4. \E m \in s : \A y \in s : m >= y
  BY <1>3
<1> QED
  BY <1>4, Zenon DEF Max

-----------------------------------------------------------------------------
(* Sums over a set, as MapThenSumSet takes them: one element after another   *)
(* in an order of its own choosing.                                          *)

\* The function g adds up f over every subset of S.
IsSetSum(g, S, f) ==
  /\ DOMAIN g = SUBSET S
  /\ \A s \in SUBSET S :
       g[s] = IF s = {} THEN 0
              ELSE f[CHOOSE x \in s : TRUE] + g[s \ {CHOOSE x \in s : TRUE}]

\* Such a function exists over every finite set: by induction on how many
\* elements the subsets have.
LEMMA SetSumExists ==
  ASSUME NEW S, IsFiniteSet(S), NEW f
  PROVE  \E g : g = [s \in SUBSET S |-> g[s]] /\ IsSetSum(g, S, f)
<1> DEFINE First(s) == CHOOSE x \in s : TRUE
           Next_(g, s) == IF s = {} THEN 0 ELSE f[First(s)] + g[s \ {First(s)}]
           Upto(g, k) == \A s \in SUBSET S : Cardinality(s) <= k => g[s] = Next_(g, s)
           T == {k \in Nat : \E g : g = [s \in SUBSET S |-> g[s]] /\ Upto(g, k)}
<1>1. \A s \in SUBSET S : IsFiniteSet(s) /\ Cardinality(s) \in Nat
                          /\ (Cardinality(s) = 0 <=> s = {})
  BY FS_Subset, FS_CardinalityType, FS_EmptySet
<1>2. \A s \in SUBSET S : s # {} => /\ First(s) \in s /\ s \ {First(s)} \in SUBSET S
                                    /\ Cardinality(s \ {First(s)}) = Cardinality(s) - 1
  <2> TAKE s \in SUBSET S
  <2>1. s # {} => First(s) \in s
    OBVIOUS
  <2> HIDE DEF First
  <2> QED
    BY <1>1, <2>1, FS_RemoveElement
<1>3. 0 \in T
  <2> DEFINE g == [s \in SUBSET S |-> 0]
  <2>1. \A s \in SUBSET S : Cardinality(s) <= 0 => s = {}
    BY <1>1
  <2>2. g = [s \in SUBSET S |-> g[s]] /\ Upto(g, 0)
    BY <2>1
  <2> QED
    BY <2>2
<1>4. ASSUME NEW k \in Nat, k \in T PROVE k + 1 \in T
  <2>1. PICK g : g = [s \in SUBSET S |-> g[s]] /\ Upto(g, k)
    BY <1>4
  <2> DEFINE h == [s \in SUBSET S |-> IF Cardinality(s) = k + 1 THEN Next_(g, s) ELSE g[s]]
  <2>2. ASSUME NEW s \in SUBSET S, Cardinality(s) <= k + 1 PROVE h[s] = Next_(h, s)
    <3>1. CASE s = {}
      <4>1. Cardinality(s) = 0 /\ 0 <= k /\ 0 # k + 1
        BY <1>1, <3>1
      <4>2. g[s] = Next_(g, s)
        <5> HIDE DEF Next_
        <5> QED
          BY <2>1, <4>1
      <4>3. h[s] = g[s]
        BY <4>1
      <4> QED
        BY <3>1, <4>2, <4>3
    <3>2. CASE s # {}
      <4> DEFINE rest == s \ {First(s)}
      <4>1. rest \in SUBSET S /\ Cardinality(rest) = Cardinality(s) - 1
        BY <1>2, <3>2
      <4> HIDE DEF First, rest
      <4>2. Cardinality(s) \in Nat /\ Cardinality(rest) # k + 1
        BY <1>1, <2>2, <4>1
      <4>3. h[rest] = g[rest]
        BY <4>1, <4>2
      <4>4. h[s] = Next_(g, s)
        <5>1. CASE Cardinality(s) = k + 1
          BY <5>1
        <5>2. CASE Cardinality(s) # k + 1
          <6>1. Cardinality(s) <= k /\ h[s] = g[s]
            BY <2>2, <4>2, <5>2
          <6> HIDE DEF Next_, h
          <6> QED
            BY <2>1, <6>1
        <5> QED
          BY <5>1, <5>2
      <4> QED
        BY <3>2, <4>3, <4>4 DEF rest
    <3> QED
      BY <3>1, <3>2
  <2>3. h = [s \in SUBSET S |-> h[s]]
    OBVIOUS
  <2> HIDE DEF h, Next_
  <2>4. Upto(h, k + 1)
    BY <2>2
  <2> HIDE DEF Upto
  <2> QED
    BY <2>3, <2>4
<1> HIDE DEF T
<1>5. \A k \in Nat : k \in T
  BY <1>3, <1>4, InductiveSet
<1>6. Cardinality(S) \in T
  BY <1>5, FS_CardinalityType
<1>7. \A s \in SUBSET S : Cardinality(s) <= Cardinality(S)
  BY FS_Subset
<1>8. PICK g : g = [s \in SUBSET S |-> g[s]] /\ Upto(g, Cardinality(S))
  BY <1>6 DEF T
<1>9. IsSetSum(g, S, f)
  BY <1>7, <1>8 DEF IsSetSum
<1> QED
  BY <1>8, <1>9

\* The sum of a column is the value of a function that adds up over every subset.
LEMMA SumOfIs ==
  ASSUME NEW f, IsFiniteSet(DOMAIN f)
  PROVE  \E g : IsSetSum(g, DOMAIN f, f) /\ SumOf(f) = g[DOMAIN f]
<1> DEFINE S == DOMAIN f
           First(s) == CHOOSE x \in s : TRUE
           Body(p) == [s \in SUBSET S |->
                         IF s = {} THEN 0 ELSE f[First(s)] + p[s \ {First(s)}]]
           G == CHOOSE p : p = Body(p)
<1> HIDE DEF S
<1>0. IsFiniteSet(S)
  BY DEF S
<1>1. PICK g : g = [s \in SUBSET S |-> g[s]] /\ IsSetSum(g, S, f)
  BY <1>0, SetSumExists
<1>2. SumOf(f) = G[S]
  BY DEF S, SumOf, MapThenSumSet, MapThenFoldSet
<1>3. g = Body(g)
  <2>1. \A s \in SUBSET S : g[s] = Body(g)[s]
    BY <1>1 DEF IsSetSum
  <2>2. Body(g) = [s \in SUBSET S |-> Body(g)[s]]
    OBVIOUS
  <2> HIDE DEF Body
  <2> QED
    BY <1>1, <2>1, <2>2
<1>4. G = Body(G)
  <2> HIDE DEF Body
  <2> QED
    BY <1>3
<1>5. IsSetSum(G, S, f)
  <2>1. DOMAIN Body(G) = SUBSET S
    OBVIOUS
  <2>2. \A s \in SUBSET S :
          Body(G)[s] = IF s = {} THEN 0 ELSE f[First(s)] + G[s \ {First(s)}]
    OBVIOUS
  <2> HIDE DEF Body, G
  <2> QED
    BY <1>4, <2>1, <2>2 DEF IsSetSum, First
<1> HIDE DEF G
<1> QED
  BY <1>2, <1>5 DEF S

\* Two sums whose amounts differ at one element x, and nowhere else, differ as
\* much as the two amounts do.
LEMMA SetSumDiffers ==
  ASSUME NEW S, IsFiniteSet(S), NEW f \in [S -> Nat], NEW h \in [S -> Nat],
         NEW x \in S, \A y \in S : y # x => h[y] = f[y],
         NEW g, IsSetSum(g, S, f), NEW k, IsSetSum(k, S, h)
  PROVE  g[S] \in Nat /\ k[S] \in Nat /\ k[S] + f[x] = g[S] + h[x]
<1> DEFINE First(s) == CHOOSE y \in s : TRUE
           Good(s) == /\ g[s] \in Nat /\ k[s] \in Nat
                      /\ IF x \in s THEN k[s] + f[x] = g[s] + h[x] ELSE k[s] = g[s]
           T == {n \in Nat : \A s \in SUBSET S : Cardinality(s) = n => Good(s)}
<1>1. \A s \in SUBSET S : IsFiniteSet(s) /\ Cardinality(s) \in Nat
                          /\ (Cardinality(s) = 0 <=> s = {})
  BY FS_Subset, FS_CardinalityType, FS_EmptySet
<1>2. 0 \in T
  <2> SUFFICES ASSUME NEW s \in SUBSET S, Cardinality(s) = 0 PROVE Good(s)
    OBVIOUS
  <2>1. s = {}
    BY <1>1
  <2> QED
    BY <2>1 DEF IsSetSum
<1>3. ASSUME NEW n \in Nat, n \in T PROVE n + 1 \in T
  <2> SUFFICES ASSUME NEW s \in SUBSET S, Cardinality(s) = n + 1 PROVE Good(s)
    OBVIOUS
  <2> DEFINE y == First(s)
             rest == s \ {y}
  <2>1. s # {}
    BY <1>1
  <2>2. y \in s
    BY <2>1
  <2>3. g[s] = f[y] + g[rest] /\ k[s] = h[y] + k[rest]
    BY <2>1 DEF IsSetSum
  <2> HIDE DEF y
  <2>4. rest \in SUBSET S /\ Cardinality(rest) = n
    <3>1. IsFiniteSet(s)
      BY <1>1
    <3>2. Cardinality(s \ {y}) = (n + 1) - 1
      BY <2>2, <3>1, FS_RemoveElement
    <3> QED
      BY <3>2
  <2>5. Good(rest)
    BY <1>3, <2>4
  <2>6. y \in S /\ f[y] \in Nat /\ h[y] \in Nat /\ (y # x => h[y] = f[y])
    <3>1. y \in S
      BY <2>2
    <3> QED
      BY <3>1
  <2>7. CASE y = x
    <3>1. x \in s /\ x \notin rest
      BY <2>2, <2>7
    <3> HIDE DEF rest
    <3> QED
      BY <2>3, <2>5, <2>6, <2>7, <3>1
  <2>8. CASE y # x
    <3>1. x \in s <=> x \in rest
      BY <2>2, <2>8
    <3> HIDE DEF rest
    <3> QED
      BY <2>3, <2>5, <2>6, <2>8, <3>1
  <2> QED
    BY <2>7, <2>8
<1> HIDE DEF T
<1>4. \A n \in Nat : n \in T
  BY <1>2, <1>3, InductiveSet
<1>5. Cardinality(S) \in T /\ S \in SUBSET S
  BY <1>4, FS_CardinalityType
<1>6. Good(S)
  BY <1>5 DEF T
<1> QED
  BY <1>6

\* Where every amount is zero the sum is.
LEMMA SetSumZero ==
  ASSUME NEW S, IsFiniteSet(S), NEW f, \A x \in S : f[x] = 0, NEW g, IsSetSum(g, S, f)
  PROVE  g[S] = 0
<1> DEFINE T == {n \in Nat : \A s \in SUBSET S : Cardinality(s) = n => g[s] = 0}
<1>1. \A s \in SUBSET S : IsFiniteSet(s) /\ Cardinality(s) \in Nat
                          /\ (Cardinality(s) = 0 <=> s = {})
  BY FS_Subset, FS_CardinalityType, FS_EmptySet
<1>2. 0 \in T
  BY <1>1 DEF IsSetSum
<1>3. ASSUME NEW n \in Nat, n \in T PROVE n + 1 \in T
  <2> SUFFICES ASSUME NEW s \in SUBSET S, Cardinality(s) = n + 1 PROVE g[s] = 0
    OBVIOUS
  <2> DEFINE y == CHOOSE x \in s : TRUE
  <2>1. s # {}
    BY <1>1
  <2>2. y \in s /\ g[s] = f[y] + g[s \ {y}]
    BY <2>1 DEF IsSetSum
  <2> HIDE DEF y
  <2>3. s \ {y} \in SUBSET S /\ Cardinality(s \ {y}) = n
    <3>1. IsFiniteSet(s)
      BY <1>1
    <3>2. Cardinality(s \ {y}) = (n + 1) - 1
      BY <2>2, <3>1, FS_RemoveElement
    <3> QED
      BY <3>2
  <2>4. g[s \ {y}] = 0 /\ f[y] = 0
    BY <1>3, <2>2, <2>3
  <2> QED
    BY <2>2, <2>4
<1> HIDE DEF T
<1>4. \A n \in Nat : n \in T
  BY <1>2, <1>3, InductiveSet
<1>5. Cardinality(S) \in T /\ S \in SUBSET S
  BY <1>4, FS_CardinalityType
<1> QED
  BY <1>5 DEF T

\* The order of its own choosing does not matter: any element may come last.
LEMMA SetSumInsert ==
  ASSUME NEW S, IsFiniteSet(S), NEW f, \A x \in S : f[x] \in Int,
         NEW g, IsSetSum(g, S, f)
  PROVE  /\ g[{}] = 0
         /\ \A s \in SUBSET S : g[s] \in Int
         /\ \A s \in SUBSET S : \A x \in S : x \notin s =>
              g[s \cup {x}] = g[s] + f[x]
<1> DEFINE First(s) == CHOOSE x \in s : TRUE
           Good(s) == /\ g[s] \in Int
                      /\ \A x \in s : g[s] = g[s \ {x}] + f[x]
           T == {n \in Nat : \A s \in SUBSET S : Cardinality(s) <= n => Good(s)}
<1>1. \A s \in SUBSET S : IsFiniteSet(s) /\ Cardinality(s) \in Nat
                          /\ (Cardinality(s) = 0 <=> s = {})
  BY FS_Subset, FS_CardinalityType, FS_EmptySet
<1>2. g[{}] = 0
  BY DEF IsSetSum
<1>3. 0 \in T
  BY <1>1, <1>2
<1>4. ASSUME NEW n \in Nat, n \in T PROVE n + 1 \in T
  <2> HIDE DEF Good
  <2>0. \A s \in SUBSET S : Cardinality(s) <= n => Good(s)
    BY <1>4
  <2> SUFFICES ASSUME NEW s \in SUBSET S, Cardinality(s) = n + 1 PROVE Good(s)
    <3>1. ASSUME NEW s \in SUBSET S, Cardinality(s) <= n + 1 PROVE Good(s)
      <4>1. Cardinality(s) <= n \/ Cardinality(s) = n + 1
        BY <1>1, <3>1
      <4> QED
        BY <2>0, <4>1
    <3> QED
      BY <3>1
  <2> DEFINE y == First(s)
  <2>1. s # {}
    BY <1>1
  <2>2. y \in s /\ g[s] = f[y] + g[s \ {y}]
    BY <2>1 DEF IsSetSum
  <2> HIDE DEF y
  <2>3. ASSUME NEW x \in s
        PROVE  s \ {x} \in SUBSET S /\ Cardinality(s \ {x}) = n
    <3>1. IsFiniteSet(s)
      BY <1>1
    <3>2. Cardinality(s \ {x}) = (n + 1) - 1
      BY <3>1, FS_RemoveElement
    <3> QED
      BY <3>2
  <2>4. ASSUME NEW x \in s
        PROVE  /\ g[s \ {x}] \in Int /\ f[x] \in Int
               /\ \A z \in s \ {x} : g[s \ {x}] = g[(s \ {x}) \ {z}] + f[z]
    <3> DEFINE q == s \ {x}
    <3>1. q \in SUBSET S /\ Cardinality(q) <= n
      BY <2>3
    <3> HIDE DEF q
    <3>2. Good(q)
      BY <2>0, <3>1
    <3>3. g[q] \in Int /\ \A z \in q : g[q] = g[q \ {z}] + f[z]
      BY <3>2 DEF Good
    <3>4. f[x] \in Int
      OBVIOUS
    <3> QED
      BY <3>3, <3>4 DEF q
  <2>7. g[s \ {y}] \in Int /\ f[y] \in Int
    BY <2>2, <2>4, Zenon
  <2>5. g[s] \in Int
    BY <2>2, <2>7
  <2>6. ASSUME NEW x \in s PROVE g[s] = g[s \ {x}] + f[x]
    <3>1. CASE x = y
      BY <2>2, <2>7, <3>1
    <3>2. CASE x # y
      <4>1. x \in s \ {y} /\ y \in s \ {x}
            /\ (s \ {y}) \ {x} = (s \ {x}) \ {y}
        BY <2>2, <3>2
      <4>2. g[s \ {y}] = g[(s \ {y}) \ {x}] + f[x]
        BY <2>2, <2>4, <4>1
      <4>3. g[s \ {x}] = g[(s \ {y}) \ {x}] + f[y]
        BY <2>4, <4>1
      <4>4. g[(s \ {y}) \ {x}] \in Int
        <5> DEFINE r == s \ {y}
        <5>1. r \in SUBSET S /\ Cardinality(r) = n /\ x \in r
          BY <2>2, <2>3, <4>1
        <5>2. IsFiniteSet(r)
          BY <1>1, <5>1
        <5> HIDE DEF r
        <5>3. r \ {x} \in SUBSET S /\ Cardinality(r \ {x}) = n - 1
          BY <5>1, <5>2, FS_RemoveElement
        <5>4. n - 1 <= n
          OBVIOUS
        <5>5. Good(r \ {x})
          BY <2>0, <5>3, <5>4
        <5> QED
          BY <5>5 DEF r, Good
      <4> QED
        BY <2>2, <2>4, <4>2, <4>3, <4>4
    <3> QED
      BY <3>1, <3>2
  <2> QED
    BY <2>5, <2>6 DEF Good
<1> HIDE DEF T, Good
<1>5. \A n \in Nat : n \in T
  BY <1>3, <1>4, InductiveSet
<1>6. \A s \in SUBSET S : Good(s)
  <2> TAKE s \in SUBSET S
  <2>1. Cardinality(s) \in T /\ Cardinality(s) <= Cardinality(s)
    BY <1>1, <1>5
  <2> QED
    BY <2>1 DEF T
<1>7. ASSUME NEW s \in SUBSET S, NEW x \in S, x \notin s
      PROVE  g[s \cup {x}] = g[s] + f[x]
  <2>1. s \cup {x} \in SUBSET S /\ x \in s \cup {x} /\ (s \cup {x}) \ {x} = s
    BY <1>7
  <2> QED
    BY <1>6, <2>1 DEF Good
<1> QED
  BY <1>2, <1>6, <1>7 DEF Good

\* The amounts of f are c in J and 0 elsewhere; and such a sum counts J.
Marks(f, S, J, c) == \A x \in S : f[x] = IF x \in J THEN c ELSE 0
Counts(g, S, J, c) == \A s \in SUBSET S : g[s] = c * Cardinality(s \cap J)

\* Where every amount is c in J and 0 elsewhere, the sum counts J.
LEMMA SetSumCounts ==
  ASSUME NEW S, IsFiniteSet(S), NEW c \in Int, NEW J,
         NEW f, Marks(f, S, J, c), NEW g, IsSetSum(g, S, f)
  PROVE  Counts(g, S, J, c)
<1> USE DEF Marks
<1> SUFFICES \A s \in SUBSET S : g[s] = c * Cardinality(s \cap J)
  BY DEF Counts
<1> DEFINE T == {n \in Nat : \A s \in SUBSET S :
                   Cardinality(s) = n => g[s] = c * Cardinality(s \cap J)}
<1>0. \A x \in S : f[x] \in Int
  OBVIOUS
<1>1. \A s \in SUBSET S : IsFiniteSet(s) /\ Cardinality(s) \in Nat
                          /\ (Cardinality(s) = 0 <=> s = {})
  BY FS_Subset, FS_CardinalityType, FS_EmptySet
<1>2. 0 \in T
  <2>1. g[{}] = 0 /\ {} \cap J = {} /\ Cardinality({}) = 0 /\ c * 0 = 0
    BY <1>0, SetSumInsert, FS_EmptySet
  <2> QED
    BY <1>1, <2>1
<1>3. ASSUME NEW n \in Nat, n \in T PROVE n + 1 \in T
  <2> SUFFICES ASSUME NEW s \in SUBSET S, Cardinality(s) = n + 1
               PROVE  g[s] = c * Cardinality(s \cap J)
    OBVIOUS
  <2>1. PICK x : x \in s
    BY <1>1
  <2> DEFINE rest == s \ {x}
  <2>2. rest \in SUBSET S /\ x \in S /\ x \notin rest /\ rest \cup {x} = s
    BY <2>1
  <2>3. Cardinality(rest) = n
    <3>1. IsFiniteSet(s)
      BY <1>1
    <3>2. Cardinality(s \ {x}) = Cardinality(s) - 1
      BY <2>1, <3>1, FS_RemoveElement
    <3> QED
      BY <3>2
  <2> HIDE DEF rest
  <2>4. g[s] = g[rest] + f[x]
    BY <1>0, <2>2, SetSumInsert
  <2>5. g[rest] = c * Cardinality(rest \cap J)
    BY <1>3, <2>2, <2>3
  <2>6. IsFiniteSet(rest \cap J) /\ Cardinality(rest \cap J) \in Nat
    <3>1. rest \cap J \in SUBSET S
      BY <2>2
    <3> QED
      BY <1>1, <3>1
  <2>7. CASE x \in J
    <3>1. s \cap J = (rest \cap J) \cup {x} /\ x \notin rest \cap J
      BY <2>2, <2>7
    <3>2. Cardinality(s \cap J) = Cardinality(rest \cap J) + 1
      BY <2>6, <3>1, FS_AddElement
    <3>3. PICK k \in Nat : k = Cardinality(rest \cap J)
      BY <2>6
    <3>4. c * (k + 1) = c * k + c
      OBVIOUS
    <3> QED
      BY <2>2, <2>4, <2>5, <2>7, <3>2, <3>3, <3>4
  <2>8. CASE x \notin J
    <3>1. s \cap J = rest \cap J /\ f[x] = 0
      BY <2>2, <2>8
    <3>2. PICK k \in Nat : k = Cardinality(rest \cap J)
      BY <2>6
    <3>3. g[rest] = c * k /\ g[s] = g[rest] + 0 /\ c * k \in Int
      BY <2>2, <2>4, <2>5, <3>1, <3>2
    <3>4. g[s] = c * k
      BY <3>3
    <3> QED
      BY <3>1, <3>2, <3>4
  <2> QED
    BY <2>7, <2>8
<1> HIDE DEF T
<1>4. \A n \in Nat : n \in T
  BY <1>2, <1>3, InductiveSet
<1> QED
  <2> TAKE s \in SUBSET S
  <2>1. Cardinality(s) \in T
    BY <1>1, <1>4
  <2> QED
    BY <2>1 DEF T

\* A column with one amount in some rows and nothing in the others adds up to
\* the amount times the number of those rows.
LEMMA RowsAdd ==
  ASSUME NEW K, NEW amount \in Int, NEW rows, IsFiniteSet(DOMAIN rows),
         \A x \in DOMAIN rows : rows[x] = IF x \in K THEN amount ELSE 0,
         K \subseteq DOMAIN rows
  PROVE  SumOf(rows) = amount * Cardinality(K) /\ Cardinality(K) \in Nat
<1>1. PICK add : IsSetSum(add, DOMAIN rows, rows) /\ SumOf(rows) = add[DOMAIN rows]
  BY SumOfIs
<1>2. PICK keys : keys = DOMAIN rows
  OBVIOUS
<1>3. /\ IsFiniteSet(keys) /\ IsSetSum(add, keys, rows) /\ keys \in SUBSET keys
      /\ Marks(rows, keys, K, amount)
  BY <1>1, <1>2 DEF Marks
<1>4. Counts(add, keys, K, amount)
  BY <1>3, SetSumCounts
<1>5. add[keys] = amount * Cardinality(keys \cap K)
  BY <1>3, <1>4 DEF Counts
<1>6. keys \cap K = K
  BY <1>2
<1>7. IsFiniteSet(K)
  BY FS_Subset
<1> QED
  BY <1>1, <1>2, <1>5, <1>6, <1>7, FS_CardinalityType
=============================================================================
