---------------------------- MODULE FactoryProofs ----------------------------
(***************************************************************************)
(* Theorems about the factory with the reputation contract, for any wallets, *)
(* inputs, limits, wirings and number of circles, and about the operators'   *)
(* tools that write: the journal of the seeder and the deployment manifest.  *)
(***************************************************************************)
EXTENDS Deployment, SumsProofs, FiniteSetTheorems

-----------------------------------------------------------------------------
(* Facts about lists.                                                       *)

\* What the contracts search a list for is one of its elements.
LEMMA ContainsIsRange ==
  ASSUME NEW S, NEW s \in Seq(S), NEW x
  PROVE  Contains(s, x) <=> x \in Range(s)
BY DEF Contains, Range

\* The empty list.
LEMMA RangeOfEmpty == Range(<<>>) = {} /\ IsInjective(<<>>)
BY DEF Range, IsInjective

\* An element more.
LEMMA RangeOfAppend ==
  ASSUME NEW S, NEW s \in Seq(S), NEW x \in S
  PROVE  Range(Append(s, x)) = Range(s) \cup {x}
<1> DEFINE t == Append(s, x)
<1>1. /\ t \in Seq(S) /\ Len(t) = Len(s) + 1 /\ t[Len(s) + 1] = x
      /\ \A i \in 1..Len(s) : t[i] = s[i]
      /\ DOMAIN t = 1..(Len(s) + 1) /\ DOMAIN s = 1..Len(s) /\ Len(s) \in Nat
  OBVIOUS
<1> HIDE DEF t
<1>2. \A i \in 1..(Len(s) + 1) : i \in 1..Len(s) \/ i = Len(s) + 1
  BY <1>1
<1>3. 1..Len(s) \subseteq 1..(Len(s) + 1) /\ Len(s) + 1 \in 1..(Len(s) + 1)
  BY <1>1
<1>4. Range(t) = Range(s) \cup {x}
  BY <1>1, <1>2, <1>3 DEF Range
<1> QED
  BY <1>4 DEF t

\* An element that is new keeps a list free of doubles.
LEMMA InjectiveAppend ==
  ASSUME NEW S, NEW s \in Seq(S), NEW x \in S, IsInjective(s), x \notin Range(s)
  PROVE  IsInjective(Append(s, x))
<1> DEFINE t == Append(s, x)
<1>1. /\ t[Len(s) + 1] = x /\ \A i \in 1..Len(s) : t[i] = s[i]
      /\ DOMAIN t = 1..(Len(s) + 1) /\ DOMAIN s = 1..Len(s) /\ Len(s) \in Nat
  OBVIOUS
<1> HIDE DEF t
<1>2. \A i \in 1..(Len(s) + 1) : i \in 1..Len(s) \/ i = Len(s) + 1
  BY <1>1
<1>3. \A i \in 1..Len(s) : s[i] # x
  BY <1>1 DEF Range
<1>4. IsInjective(t)
  BY <1>1, <1>2, <1>3 DEF IsInjective
<1> QED
  BY <1>4 DEF t

\* The loop of remove_authorized_caller computes one list for each prefix.
IsRemaining(g, s, C, k) ==
  /\ DOMAIN g = 0..k
  /\ g[0] = <<>>
  /\ \A i \in 1..k : g[i] = IF s[i] \in C THEN g[i - 1] ELSE Append(g[i - 1], s[i])

\* There are such lists.
LEMMA RemainingExists ==
  ASSUME NEW S, NEW s \in Seq(S), NEW C
  PROVE  \E g : g = [i \in 0..Len(s) |-> g[i]] /\ IsRemaining(g, s, C, Len(s))
<1> DEFINE T == {k \in Nat : k <= Len(s) =>
                   \E g : g = [i \in 0..k |-> g[i]] /\ IsRemaining(g, s, C, k)}
<1>1. 0 \in T
  <2> DEFINE g == [i \in 0..0 |-> <<>>]
  <2>1. g = [i \in 0..0 |-> g[i]] /\ IsRemaining(g, s, C, 0)
    BY DEF IsRemaining
  <2> QED
    BY <2>1
<1>2. ASSUME NEW k \in Nat, k \in T PROVE k + 1 \in T
  <2>1. SUFFICES ASSUME k + 1 <= Len(s)
                 PROVE  \E g : g = [i \in 0..(k + 1) |-> g[i]] /\ IsRemaining(g, s, C, k + 1)
    OBVIOUS
  <2>2. PICK g : IsRemaining(g, s, C, k)
    BY <1>2, <2>1
  <2> DEFINE last == IF s[k + 1] \in C THEN g[k] ELSE Append(g[k], s[k + 1])
             h == [i \in 0..(k + 1) |-> IF i = k + 1 THEN last ELSE g[i]]
  <2>3. h[0] = <<>> /\ DOMAIN h = 0..(k + 1)
    BY <2>2 DEF IsRemaining
  <2>4. ASSUME NEW i \in 1..(k + 1)
        PROVE  h[i] = IF s[i] \in C THEN h[i - 1] ELSE Append(h[i - 1], s[i])
    <3>1. CASE i = k + 1
      <4>1. h[i] = last /\ h[i - 1] = g[k] /\ i - 1 = k
        BY <3>1, k # k + 1, k \in 0..(k + 1)
      <4> QED
        BY <3>1, <4>1
    <3>2. CASE i # k + 1
      <4>1. i \in 1..k /\ i \in 0..(k + 1) /\ i - 1 \in 0..(k + 1) /\ i - 1 # k + 1
        BY <3>2
      <4>2. h[i] = g[i] /\ h[i - 1] = g[i - 1]
        BY <3>2, <4>1
      <4> QED
        BY <2>2, <4>1, <4>2 DEF IsRemaining
    <3> QED
      BY <3>1, <3>2
  <2>5. h = [i \in 0..(k + 1) |-> h[i]]
    OBVIOUS
  <2> HIDE DEF h
  <2> QED
    BY <2>3, <2>4, <2>5 DEF IsRemaining
<1> HIDE DEF T
<1>3. \A k \in Nat : k \in T
  BY <1>1, <1>2, InductiveSet
<1>4. Len(s) \in T /\ Len(s) \in Nat
  BY <1>3
<1> QED
  BY <1>4 DEF T

\* Remaining is the last of them.
LEMMA RemainingIs ==
  ASSUME NEW S, NEW s \in Seq(S), NEW C
  PROVE  IsRemaining(Remaining(s, C), s, C, Len(s))
<1> DEFINE Body(p) == [i \in 0..Len(s) |->
                         IF i = 0 THEN <<>>
                         ELSE IF s[i] \in C THEN p[i - 1] ELSE Append(p[i - 1], s[i])]
           R == Remaining(s, C)
<1>1. PICK g : g = [i \in 0..Len(s) |-> g[i]] /\ IsRemaining(g, s, C, Len(s))
  BY RemainingExists
<1>2. g = Body(g)
  <2>1. \A i \in 0..Len(s) : i # 0 => i \in 1..Len(s)
    OBVIOUS
  <2>2. \A i \in 0..Len(s) : g[i] = Body(g)[i]
    BY <1>1, <2>1 DEF IsRemaining
  <2>3. Body(g) = [i \in 0..Len(s) |-> Body(g)[i]]
    OBVIOUS
  <2> HIDE DEF Body
  <2> QED
    BY <1>1, <2>2, <2>3
<1>3. R = CHOOSE p : p = Body(p)
  BY DEF Remaining
<1>4. R = Body(R)
  <2> HIDE DEF Body, R
  <2> QED
    BY <1>2, <1>3
<1>5. \A i \in 0..Len(s) : Body(R)[i] = IF i = 0 THEN <<>>
                             ELSE IF s[i] \in C THEN R[i - 1] ELSE Append(R[i - 1], s[i])
  OBVIOUS
<1>6. DOMAIN R = 0..Len(s)
  BY <1>4 DEF Body
<1>7. \A i \in 0..Len(s) : R[i] = IF i = 0 THEN <<>>
                             ELSE IF s[i] \in C THEN R[i - 1] ELSE Append(R[i - 1], s[i])
  <2> HIDE DEF Body, R
  <2> QED
    BY <1>4, <1>5
<1> HIDE DEF R, Body
<1>8. R[0] = <<>> /\ \A i \in 1..Len(s) : R[i] = IF s[i] \in C THEN R[i - 1]
                                                 ELSE Append(R[i - 1], s[i])
  <2>1. 0 \in 0..Len(s) /\ \A i \in 1..Len(s) : i \in 0..Len(s) /\ i # 0
    OBVIOUS
  <2> QED
    BY <1>7, <2>1
<1> QED
  BY <1>6, <1>8 DEF IsRemaining, R
\* What is left is every other entry; without such an entry nothing is dropped.
LEMMA WithoutIs ==
  ASSUME NEW S, NEW s \in Seq(S), NEW C
  PROVE  /\ Without(s, C) \in Seq(S)
         /\ Range(Without(s, C)) = Range(s) \ C
         /\ Len(Without(s, C)) <= Len(s)
         /\ Range(s) \cap C = {} => Len(Without(s, C)) = Len(s)
<1> DEFINE R == Remaining(s, C)
           Seen(k) == {s[i] : i \in 1..k}
           T == {k \in Nat : k <= Len(s) =>
                   /\ R[k] \in Seq(S) /\ Range(R[k]) = Seen(k) \ C /\ Len(R[k]) <= k
                   /\ Seen(k) \cap C = {} => Len(R[k]) = k}
<1>1. IsRemaining(R, s, C, Len(s))
  BY RemainingIs
<1> HIDE DEF R
<1>2. 0 \in T
  <2>1. R[0] = <<>> /\ Seen(0) = {}
    BY <1>1 DEF IsRemaining
  <2>2. R[0] \in Seq(S) /\ Len(R[0]) = 0 /\ Range(R[0]) = {}
    BY <2>1, RangeOfEmpty
  <2>3. Range(R[0]) = Seen(0) \ C
    BY <2>1, <2>2
  <2> HIDE DEF Seen
  <2> QED
    BY <2>2, <2>3
<1>3. ASSUME NEW k \in Nat, k \in T PROVE k + 1 \in T
  <2> SUFFICES ASSUME k + 1 <= Len(s)
               PROVE  /\ R[k + 1] \in Seq(S) /\ Range(R[k + 1]) = Seen(k + 1) \ C
                      /\ Len(R[k + 1]) <= k + 1
                      /\ Seen(k + 1) \cap C = {} => Len(R[k + 1]) = k + 1
    OBVIOUS
  <2>1. /\ R[k] \in Seq(S) /\ Range(R[k]) = Seen(k) \ C /\ Len(R[k]) <= k
        /\ Seen(k) \cap C = {} => Len(R[k]) = k
    BY <1>3
  <2>2. k + 1 \in 1..Len(s) /\ (k + 1) - 1 = k /\ s[k + 1] \in S
    OBVIOUS
  <2>3. R[k + 1] = IF s[k + 1] \in C THEN R[k] ELSE Append(R[k], s[k + 1])
    BY <1>1, <2>2 DEF IsRemaining
  <2>4. Seen(k + 1) = Seen(k) \cup {s[k + 1]}
    <3>1. 1..(k + 1) = (1..k) \cup {k + 1}
      OBVIOUS
    <3> QED
      BY <3>1
  <2> HIDE DEF Seen
  <2>5. CASE s[k + 1] \in C
    BY <2>1, <2>3, <2>4, <2>5
  <2>6. CASE s[k + 1] \notin C
    <3>1. Range(Append(R[k], s[k + 1])) = Range(R[k]) \cup {s[k + 1]}
      BY <2>1, <2>2, RangeOfAppend
    <3>2. /\ Append(R[k], s[k + 1]) \in Seq(S)
          /\ Len(Append(R[k], s[k + 1])) = Len(R[k]) + 1
      BY <2>1, <2>2
    <3> QED
      BY <2>1, <2>3, <2>4, <2>6, <3>1, <3>2
  <2> QED
    BY <2>5, <2>6
<1>4. Range(s) = Seen(Len(s))
  BY DEF Range
<1> HIDE DEF T
<1>5. \A k \in Nat : k \in T
  BY <1>2, <1>3, InductiveSet
<1>6. Len(s) \in Nat /\ Len(s) \in T
  BY <1>5
<1>7. Without(s, C) = R[Len(s)]
  BY DEF Without, R
<1> HIDE DEF Seen
<1> QED
  BY <1>4, <1>6, <1>7 DEF T

-----------------------------------------------------------------------------
(* The registry.                                                           *)

\* The lists are lists of circles; the salt of the circle at position i of the
\* registry was derived when i - 1 circles existed; without an admin there is
\* nothing yet.
ListsOK ==
  /\ AuthorizedCallers \in Seq(Circle) /\ RevokedCallers \in Seq(Circle)
  /\ Circles \in Seq(Circle)
  /\ CircleCount \in Nat /\ ledger \in 0..MaxLedger

Counted == \A i \in 1..Len(Circles) : Circles[i][2] < CircleCount

Registry ==
  /\ CircleCount = Len(Circles)
  /\ IsInjective(Circles)
  /\ Range(Circles) = DOMAIN circle

NothingYet ==
  /\ config = None => Circles = <<>>
  /\ admin = "none" => AuthorizedCallers = <<>> /\ RevokedCallers = <<>>

\* No circle is both allowed and revoked.
Disjoint == Range(AuthorizedCallers) \cap Range(RevokedCallers) = {}

Inv == ListsOK /\ Counted /\ Registry /\ NothingYet /\ Disjoint /\ AllowlistIsRegistry

\* The invariant holds when factory and reputation contract are deployed.
LEMMA InvInit == Init => Inv
<1> SUFFICES ASSUME Init PROVE Inv
  OBVIOUS
<1>1. /\ admin = "none" /\ AuthorizedCallers = <<>> /\ RevokedCallers = <<>>
      /\ Circles = <<>> /\ CircleCount = 0 /\ circle = <<>> /\ ledger = 0
  BY DEF Init, RepInit
<1>2. ListsOK
  <2>1. 0 \in 0..MaxLedger
    BY FactoryAssumption
  <2> QED
    BY <1>1, <2>1 DEF ListsOK
<1>3. Registry /\ Counted
  BY <1>1, RangeOfEmpty DEF Registry, Counted
<1>4. NothingYet /\ Disjoint /\ AllowlistIsRegistry
  BY <1>1, RangeOfEmpty, FactoryAssumption DEF NothingYet, Disjoint, AllowlistIsRegistry
<1> QED
  BY <1>2, <1>3, <1>4 DEF Inv

\* A salt is not derived twice: it holds the number of circles before it.
LEMMA SaltIsFresh ==
  ASSUME Inv, NEW creator \in Creator
  PROVE  derive_circle_salt(creator) \notin DOMAIN circle
<1> SUFFICES ASSUME derive_circle_salt(creator) \in Range(Circles) PROVE FALSE
  BY DEF Inv, Registry
<1>1. PICK i \in 1..Len(Circles) : Circles[i] = <<creator, CircleCount, ledger>>
  BY DEF Inv, ListsOK, Range, derive_circle_salt
<1>2. Circles[i][2] = CircleCount
  BY <1>1
<1> QED
  BY <1>1, <1>2 DEF Inv, Counted, ListsOK

\* create_circle writes registry, circle and allowlist or nothing.
LEMMA CreateKeepsInv ==
  ASSUME Inv, NEW creator \in Creator, NEW ms, NEW amount, NEW deadline,
         create_circle(creator, ms, amount, deadline)
  PROVE  Inv'
<1> DEFINE c == derive_circle_salt(creator)
<1>1. /\ CircleCount < MaxCircles /\ config # None /\ c \notin DOMAIN circle
      /\ DOMAIN circle' = DOMAIN circle \cup {c}
      /\ AuthorizeCircle(c) /\ RegisterCircle(c) /\ UNCHANGED <<config, ledger>>
  BY DEF create_circle
<1>2. c \in Circle /\ c[2] = CircleCount
  <2>1. CircleCount \in 0..(MaxCircles - 1) /\ ledger \in 0..MaxLedger
    BY <1>1, FactoryAssumption DEF Inv, ListsOK
  <2> QED
    BY <2>1, FactoryAssumption DEF derive_circle_salt
<1> HIDE DEF c
<1>3. admin = Factory /\ AddCaller(c)
  BY <1>1 DEF AuthorizeCircle, require_admin
<1>4. AuthorizedCallers = Circles /\ RevokedCallers = <<>>
  BY <1>3 DEF Inv, AllowlistIsRegistry
<1>5. c \notin Range(Circles)
  BY <1>1 DEF Inv, Registry
<1>6. ~Contains(AuthorizedCallers, c)
  BY <1>4, <1>5, ContainsIsRange DEF Inv, ListsOK
<1>7. /\ AuthorizedCallers' = Append(AuthorizedCallers, c)
      /\ UNCHANGED <<admin, RevokedCallers>>
  BY <1>3, <1>6 DEF AddCaller
<1>8. Circles' = Append(Circles, c) /\ CircleCount' = CircleCount + 1
  BY <1>1 DEF RegisterCircle
<1>9. /\ Range(Circles') = Range(Circles) \cup {c} /\ IsInjective(Circles')
      /\ Circles' \in Seq(Circle) /\ Len(Circles') = Len(Circles) + 1
      /\ Circles'[Len(Circles) + 1] = c
      /\ \A i \in 1..Len(Circles) : Circles'[i] = Circles[i]
  BY <1>2, <1>5, <1>8, RangeOfAppend, InjectiveAppend DEF Inv, ListsOK, Registry
<1>10. ListsOK'
  BY <1>1, <1>4, <1>7, <1>8, <1>9 DEF Inv, ListsOK
<1>11. Registry'
  BY <1>1, <1>8, <1>9 DEF Inv, Registry
<1>12. Counted'
  <2> SUFFICES ASSUME NEW i \in 1..Len(Circles') PROVE Circles'[i][2] < CircleCount'
    BY DEF Counted
  <2>1. CircleCount \in Nat /\ Len(Circles) \in Nat
    BY DEF Inv, ListsOK
  <2>2. CASE i = Len(Circles) + 1
    BY <1>2, <1>8, <1>9, <2>1, <2>2
  <2>3. CASE i # Len(Circles) + 1
    <3>1. i \in 1..Len(Circles)
      BY <1>9, <2>1, <2>3
    <3>2. Circles[i] \in Circle
      BY <3>1 DEF Inv, ListsOK
    <3>3. Circles[i][2] \in Int
      BY <3>2, FactoryAssumption
    <3>4. Circles'[i] = Circles[i] /\ Circles[i][2] < CircleCount
      BY <1>9, <3>1 DEF Inv, Counted
    <3> QED
      BY <1>8, <2>1, <3>3, <3>4
  <2> QED
    BY <2>2, <2>3
<1>13. NothingYet' /\ Disjoint' /\ AllowlistIsRegistry'
  <2>1. admin' = Factory /\ Factory # "none" /\ config' # None
    BY <1>1, <1>3, <1>7, FactoryAssumption
  <2>2. RevokedCallers' = <<>> /\ AuthorizedCallers' = Circles'
    BY <1>4, <1>7, <1>8
  <2> QED
    BY <2>1, <2>2, RangeOfEmpty DEF NothingYet, Disjoint, AllowlistIsRegistry
<1> QED
  BY <1>10, <1>11, <1>12, <1>13 DEF Inv

\* A wallet that manages callers is not the factory.
LEMMA ManageKeepsInv ==
  ASSUME Inv, NEW a \in Signers, NEW c \in Circle,
         add_authorized_caller(a, c) \/ remove_authorized_caller(a, c),
         UNCHANGED facVars
  PROVE  Inv'
<1>1. admin = a /\ admin # "none" /\ admin # Factory /\ admin' = admin
  BY FactoryAssumption DEF add_authorized_caller, remove_authorized_caller, require_admin,
                           AddCaller, repVars
<1>2. ListsOK' /\ Disjoint'
  <2>1. CASE add_authorized_caller(a, c)
    <3>1. CASE Contains(AuthorizedCallers, c)
      BY <2>1, <3>1 DEF add_authorized_caller, AddCaller, repVars, facVars, Inv, ListsOK, Disjoint
    <3>2. CASE ~Contains(AuthorizedCallers, c)
      <4>1. /\ AuthorizedCallers' = Append(AuthorizedCallers, c)
            /\ RevokedCallers' = RevokedCallers /\ ~Contains(RevokedCallers, c)
        BY <2>1, <3>2 DEF add_authorized_caller, AddCaller
      <4>2. /\ Range(AuthorizedCallers') = Range(AuthorizedCallers) \cup {c}
            /\ c \notin Range(RevokedCallers) /\ AuthorizedCallers' \in Seq(Circle)
        BY <4>1, RangeOfAppend, ContainsIsRange DEF Inv, ListsOK
      <4> QED
        BY <4>1, <4>2 DEF Inv, ListsOK, Disjoint, facVars
    <3> QED
      BY <3>1, <3>2
  <2>2. CASE remove_authorized_caller(a, c)
    <3>1. /\ AuthorizedCallers' = Without(AuthorizedCallers, {c})
          /\ RevokedCallers' = Append(RevokedCallers, c)
      BY <2>2 DEF remove_authorized_caller
    <3>2. /\ AuthorizedCallers' \in Seq(Circle)
          /\ Range(AuthorizedCallers') = Range(AuthorizedCallers) \ {c}
      BY <3>1, WithoutIs DEF Inv, ListsOK
    <3>3. /\ RevokedCallers' \in Seq(Circle)
          /\ Range(RevokedCallers') = Range(RevokedCallers) \cup {c}
      BY <3>1, RangeOfAppend DEF Inv, ListsOK
    <3> QED
      BY <3>2, <3>3 DEF Inv, ListsOK, Disjoint, facVars
  <2> QED
    BY <2>1, <2>2
<1>3. Counted' /\ Registry'
  BY DEF facVars, Inv, Counted, Registry
<1>4. NothingYet' /\ AllowlistIsRegistry'
  BY <1>1 DEF facVars, Inv, NothingYet, AllowlistIsRegistry
<1> QED
  BY <1>2, <1>3, <1>4 DEF Inv

\* Every step keeps it.
LEMMA InvNext == Inv /\ [Next]_vars => Inv'
<1> SUFFICES ASSUME Inv, [Next]_vars PROVE Inv'
  OBVIOUS
<1> USE DEF Inv
<1>1. CASE UNCHANGED vars
  BY <1>1 DEF vars, repVars, facVars, ListsOK, Counted, Registry, NothingYet, Disjoint,
              AllowlistIsRegistry
<1>2. ASSUME NEW a \in Signers, FactoryInitialize(a) PROVE Inv'
  <2>1. Circles = <<>> /\ Circles' = <<>> /\ CircleCount' = 0 /\ UNCHANGED <<repVars, circle, ledger>>
    BY <1>2 DEF FactoryInitialize, NothingYet
  <2>2. CircleCount = 0
    BY <2>1 DEF Registry
  <2>3. UNCHANGED <<Circles, CircleCount, circle, ledger, admin, AuthorizedCallers, RevokedCallers>>
    BY <2>1, <2>2 DEF repVars
  <2> QED
    BY <2>1, <2>3 DEF ListsOK, Counted, Registry, NothingYet, Disjoint, AllowlistIsRegistry
<1>3. ASSUME NEW creator \in Creator, NEW ms, NEW amount, NEW deadline,
             create_circle(creator, ms, amount, deadline)
      PROVE  Inv'
  BY <1>3, CreateKeepsInv
<1>4. CASE CircleAwards
  <2>1. UNCHANGED <<admin, AuthorizedCallers, RevokedCallers, facVars>>
    BY <1>4 DEF CircleAwards, increment
  <2> QED
    BY <2>1 DEF facVars, ListsOK, Counted, Registry, NothingYet, Disjoint, AllowlistIsRegistry
<1>5. ASSUME NEW a \in ReputationAdmins, RepSetup(a), UNCHANGED facVars PROVE Inv'
  <2>1. /\ Circles = <<>> /\ AuthorizedCallers' = <<>> /\ RevokedCallers' = <<>>
    BY <1>5, FactoryAssumption DEF RepSetup, AllowlistIsRegistry
  <2>2. UNCHANGED <<config, Circles, CircleCount, circle, ledger>>
    BY <1>5 DEF facVars
  <2> QED
    BY <2>1, <2>2, RangeOfEmpty
       DEF ListsOK, Counted, Registry, NothingYet, Disjoint, AllowlistIsRegistry
<1>6. CASE ManageByHand
  <2>1. PICK a \in Signers, c \in ManagedCallers :
          add_authorized_caller(a, c) \/ remove_authorized_caller(a, c)
    BY <1>6 DEF ManageByHand
  <2>2. c \in Circle /\ UNCHANGED facVars
    BY <1>6, FactoryAssumption DEF ManageByHand
  <2> QED
    BY <2>1, <2>2, ManageKeepsInv
<1>7. CASE AdvanceLedger
  <2>1. ledger' \in 0..MaxLedger
    BY <1>7, FactoryAssumption DEF AdvanceLedger, ListsOK
  <2> QED
    BY <1>7, <2>1 DEF AdvanceLedger, repVars, ListsOK, Counted, Registry, NothingYet, Disjoint,
                      AllowlistIsRegistry
<1> QED
  BY <1>1, <1>2, <1>3, <1>4, <1>5, <1>6, <1>7 DEF Next

\* Every reachable state of factory, reputation contract and circles satisfies
\* the invariant.
THEOREM Invariant == Spec => []Inv
BY InvInit, InvNext, PTL DEF Spec

\* For any number of circles, creators, ledgers and wirings, and whatever inputs
\* are submitted: deployed circles, registry and allowlist are one list, in one
\* order, and the next address is free.
THEOREM OneListHolds == Spec => []OneList
<1>1. Inv => OneList
  BY SaltIsFresh DEF Inv, Registry, OneList, RegistryIsComplete
<1> QED
  BY <1>1, Invariant, PTL

-----------------------------------------------------------------------------
(* What each circle sees of the reputation contract.                        *)

AwardsOK == awards \in [Circle -> [Member -> Nat]]

\* What a circle has awarded stays a count.
LEMMA AwardsTyped == Spec => []AwardsOK
<1>1. Init => AwardsOK
  BY DEF Init, RepInit, AwardsOK
<1>2. AwardsOK /\ [Next]_vars => AwardsOK'
  <2> SUFFICES ASSUME AwardsOK, [Next]_vars PROVE AwardsOK'
    OBVIOUS
  <2>1. CASE CircleAwards
    <3>1. PICK c, m : awards' = [awards EXCEPT ![c][m] = @ + 1]
      BY <2>1 DEF CircleAwards, increment
    <3>2. ASSUME NEW d \in Circle PROVE awards'[d] \in [Member -> Nat]
      <4>1. awards[d] \in [Member -> Nat]
        BY DEF AwardsOK
      <4>2. awards'[d] = awards[d] \/ awards'[d] = [awards[d] EXCEPT ![m] = @ + 1]
        BY <3>1 DEF AwardsOK
      <4> QED
        BY <4>1, <4>2
    <3> QED
      BY <3>1, <3>2 DEF AwardsOK
  <2>2. CASE ~CircleAwards
    <3>1. UNCHANGED awards
      BY <2>2 DEF Next, vars, repVars, facVars, FactoryInitialize, create_circle, AuthorizeCircle,
         AddCaller, RepSetup, ManageByHand, add_authorized_caller, remove_authorized_caller,
         AdvanceLedger
    <3> QED
      BY <3>1 DEF AwardsOK
  <2> QED
    BY <2>1, <2>2
<1> QED
  BY <1>1, <1>2, PTL DEF Spec

Allowed == Range(AuthorizedCallers)
Revoked == Range(RevokedCallers)

\* The standing of a circle is read off the two lists,
LEMMA StandingIs ==
  ASSUME ListsOK, NEW c
  PROVE  StandingOf(c) = IF c \in Revoked THEN "revoked"
                         ELSE IF c \in Allowed THEN "authorized" ELSE "unregistered"
BY ContainsIsRange DEF ListsOK, StandingOf, Allowed, Revoked

\* in the next state as well.
LEMMA StandingIsNext ==
  ASSUME ListsOK', NEW c
  PROVE  StandingOf(c)' = IF c \in Revoked' THEN "revoked"
                          ELSE IF c \in Allowed' THEN "authorized" ELSE "unregistered"
BY ContainsIsRange DEF ListsOK, StandingOf, Allowed, Revoked

\* One step, for one circle: nothing, a first registration, a revocation of a
\* registered circle, or a point awarded by it while it is registered.
LEMMA ViewStep ==
  ASSUME NEW c \in Circle,
         \/ UNCHANGED <<StandingOf(c), awards[c]>>
         \/ /\ StandingOf(c) = "unregistered" /\ StandingOf(c)' = "authorized"
            /\ awards'[c] = awards[c]
         \/ /\ StandingOf(c) = "authorized" /\ StandingOf(c)' = "revoked"
            /\ awards'[c] = awards[c]
         \/ /\ StandingOf(c) = "authorized" /\ StandingOf(c)' = StandingOf(c)
            /\ \E m \in Member : awards'[c] = [awards[c] EXCEPT ![m] = @ + 1]
  PROVE  View(c)!Next \/ UNCHANGED <<StandingOf(c), awards[c]>>
BY DEF View!Next, View!Register, View!Revoke, View!Award

\* A registration by the factory or by an admin wallet.
LEMMA AddStep ==
  ASSUME ListsOK, ListsOK', Disjoint, NEW d \in Circle, AddCaller(d), NEW c \in Circle
  PROVE  View(c)!Next \/ UNCHANGED <<StandingOf(c), awards[c]>>
<1>1. d \notin Revoked /\ awards' = awards /\ Revoked' = Revoked
  BY ContainsIsRange DEF AddCaller, repVars, ListsOK, Revoked
<1>2. Allowed' = Allowed \/ (d \notin Allowed /\ Allowed' = Allowed \cup {d})
  <2>1. CASE Contains(AuthorizedCallers, d)
    BY <2>1 DEF AddCaller, repVars, Allowed
  <2>2. CASE ~Contains(AuthorizedCallers, d)
    <3>1. d \notin Allowed /\ AuthorizedCallers' = Append(AuthorizedCallers, d)
      BY <2>2, ContainsIsRange DEF AddCaller, ListsOK, Allowed
    <3>2. Allowed' = Allowed \cup {d}
      BY <3>1, RangeOfAppend DEF ListsOK, Allowed
    <3> QED
      BY <3>1, <3>2
  <2> QED
    BY <2>1, <2>2
<1>3. CASE c = d /\ Allowed' # Allowed
  <2>1. StandingOf(c) = "unregistered" /\ StandingOf(c)' = "authorized"
    BY <1>1, <1>2, <1>3, StandingIs, StandingIsNext
  <2> QED
    BY <1>1, <2>1, ViewStep
<1>4. CASE ~(c = d /\ Allowed' # Allowed)
  <2>1. StandingOf(c)' = StandingOf(c)
    BY <1>1, <1>2, <1>4, StandingIs, StandingIsNext
  <2> QED
    BY <1>1, <2>1
<1> QED
  BY <1>3, <1>4

\* A removal: only a registered circle can be removed, and it loses its place
\* on the one list as it gains its place on the other.
LEMMA RemoveStep ==
  ASSUME ListsOK, ListsOK', Disjoint, NEW d \in Circle, NEW a,
         remove_authorized_caller(a, d), NEW c \in Circle
  PROVE  View(c)!Next \/ UNCHANGED <<StandingOf(c), awards[c]>>
<1>1. /\ Len(Without(AuthorizedCallers, {d})) # Len(AuthorizedCallers)
      /\ AuthorizedCallers' = Without(AuthorizedCallers, {d})
      /\ RevokedCallers' = Append(RevokedCallers, d) /\ awards' = awards
  BY DEF remove_authorized_caller
<1>2. /\ d \in Allowed /\ Allowed' = Allowed \ {d} /\ Revoked' = Revoked \cup {d}
  BY <1>1, WithoutIs, RangeOfAppend DEF ListsOK, Allowed, Revoked
<1>3. d \notin Revoked
  BY <1>2 DEF Disjoint, Allowed, Revoked
<1>4. CASE c = d
  <2>1. StandingOf(c) = "authorized" /\ StandingOf(c)' = "revoked"
    BY <1>2, <1>3, <1>4, StandingIs, StandingIsNext
  <2> QED
    BY <1>1, <2>1, ViewStep
<1>5. CASE c # d
  <2>1. StandingOf(c)' = StandingOf(c)
    BY <1>2, <1>5, StandingIs, StandingIsNext
  <2> QED
    BY <1>1, <2>1
<1> QED
  BY <1>4, <1>5

\* A point for a member, from the circle that signs for itself.
LEMMA AwardStep ==
  ASSUME ListsOK, ListsOK', AwardsOK, NEW d \in Circle, NEW m, increment(d, m),
         NEW c \in Circle
  PROVE  View(c)!Next \/ UNCHANGED <<StandingOf(c), awards[c]>>
<1>1. /\ awards' = [awards EXCEPT ![d][m] = @ + 1]
      /\ Allowed' = Allowed /\ Revoked' = Revoked
  BY DEF increment, Allowed, Revoked
<1>2. d \notin Revoked /\ d \in Allowed
  <2>1. ~Contains(RevokedCallers, d) /\ Contains(AuthorizedCallers, d)
    BY DEF increment, IncrementCode
  <2> QED
    BY <2>1, ContainsIsRange DEF ListsOK, Allowed, Revoked
<1>3. StandingOf(c)' = StandingOf(c)
  BY <1>1, StandingIs, StandingIsNext
<1>4. awards[c] \in [Member -> Nat]
  BY DEF AwardsOK
<1>5. CASE c = d /\ m \in Member
  <2>1. awards'[c] = [awards[c] EXCEPT ![m] = @ + 1]
    BY <1>1, <1>5 DEF AwardsOK
  <2>2. StandingOf(c) = "authorized"
    BY <1>2, <1>5, StandingIs
  <2> QED
    BY <1>3, <1>5, <2>1, <2>2, ViewStep
<1>6. CASE c # d
  <2>1. awards'[c] = awards[c]
    BY <1>1, <1>6 DEF AwardsOK
  <2> QED
    BY <1>3, <2>1
<1>7. CASE c = d /\ m \notin Member
  <2>1. awards'[c] = [awards[c] EXCEPT ![m] = @ + 1]
    BY <1>1, <1>7 DEF AwardsOK
  <2>2. awards'[c] = awards[c]
    BY <1>4, <1>7, <2>1
  <2> QED
    BY <1>3, <2>2
<1> QED
  BY <1>5, <1>6, <1>7

\* Every step is such a step for every circle.
LEMMA StepServes ==
  ASSUME Inv, Inv', AwardsOK, [Next]_vars, NEW c \in Circle
  PROVE  View(c)!Next \/ UNCHANGED <<StandingOf(c), awards[c]>>
<1>1. ListsOK /\ ListsOK' /\ Disjoint /\ NothingYet
  BY DEF Inv
<1>2. CASE UNCHANGED <<AuthorizedCallers, RevokedCallers, awards>>
  BY <1>2 DEF StandingOf
<1>3. ASSUME NEW creator \in Creator, NEW ms, NEW amount, NEW deadline,
             create_circle(creator, ms, amount, deadline)
      PROVE  View(c)!Next \/ UNCHANGED <<StandingOf(c), awards[c]>>
  <2> DEFINE d == derive_circle_salt(creator)
  <2>1. AddCaller(d) /\ CircleCount < MaxCircles
    BY <1>3 DEF create_circle, AuthorizeCircle
  <2>2. d \in Circle
    <3>1. CircleCount \in 0..(MaxCircles - 1) /\ ledger \in 0..MaxLedger
      BY <1>1, <2>1, FactoryAssumption DEF ListsOK
    <3> QED
      BY <3>1, FactoryAssumption DEF derive_circle_salt
  <2> HIDE DEF d
  <2> QED
    BY <1>1, <2>1, <2>2, AddStep
<1>4. CASE CircleAwards
  <2>1. PICK d \in DOMAIN circle : \E m : increment(d, m)
    BY <1>4 DEF CircleAwards
  <2>2. d \in Circle
    BY <1>1 DEF Inv, Registry, ListsOK, Range
  <2> QED
    BY <1>1, <2>1, <2>2, AwardStep
<1>5. ASSUME NEW a \in ReputationAdmins, RepSetup(a)
      PROVE  View(c)!Next \/ UNCHANGED <<StandingOf(c), awards[c]>>
  <2>1. UNCHANGED <<AuthorizedCallers, RevokedCallers, awards>>
    BY <1>1, <1>5 DEF RepSetup, NothingYet
  <2> QED
    BY <1>2, <2>1
<1>6. CASE ManageByHand
  <2>1. PICK a \in Signers, d \in ManagedCallers :
          add_authorized_caller(a, d) \/ remove_authorized_caller(a, d)
    BY <1>6 DEF ManageByHand
  <2>2. d \in Circle
    BY FactoryAssumption
  <2> QED
    BY <1>1, <2>1, <2>2, AddStep, RemoveStep DEF add_authorized_caller
<1>7. CASE \/ AdvanceLedger \/ UNCHANGED vars \/ \E a \in Signers : FactoryInitialize(a)
  <2>1. UNCHANGED repVars
    BY <1>7 DEF vars, FactoryInitialize, AdvanceLedger
  <2> QED
    BY <1>2, <2>1 DEF repVars
<1> QED
  BY <1>3, <1>4, <1>5, <1>6, <1>7 DEF Next

\* However the contracts are wired, whatever the factory and the admin do and
\* whichever circles award: every single circle finds the contract module Circle
\* relies on.
THEOREM EveryCircleIsServed == Spec => ServesEveryCircle
<1>1. Init => \A c \in Circle : View(c)!Init
  <2> SUFFICES ASSUME Init, NEW c \in Circle PROVE View(c)!Init
    OBVIOUS
  <2>1. ListsOK /\ Allowed = {} /\ Revoked = {} /\ awards[c] = [m \in Member |-> 0]
    BY InvInit, RangeOfEmpty DEF Inv, Init, RepInit, Allowed, Revoked
  <2>2. StandingOf(c) = "unregistered"
    BY <2>1, StandingIs
  <2> QED
    BY <2>1, <2>2 DEF View!Init
<1>2. Inv /\ Inv' /\ AwardsOK /\ [Next]_vars
      => [\A c \in Circle : View(c)!Next \/ UNCHANGED <<StandingOf(c), awards[c]>>]_repVars
  BY StepServes
<1> QED
  BY <1>1, <1>2, Invariant, AwardsTyped, PTL DEF Spec, ServesEveryCircle

-----------------------------------------------------------------------------
(* A member's points, added up over the circles.                            *)

\* The points of a member are such a sum.
LEMMA PointsAre ==
  ASSUME NEW aw, NEW m, NEW f, \A c \in Circle : f[c] = aw[c][m]
  PROVE  \E g : IsSetSum(g, Circle, f) /\ PointsOf(aw, m) = g[Circle]
<1> DEFINE First(s) == CHOOSE c \in s : TRUE
           Body(p) == [s \in SUBSET Circle |->
                         IF s = {} THEN 0 ELSE aw[First(s)][m] + p[s \ {First(s)}]]
           G == CHOOSE p : p = Body(p)
<1>1. PICK g : g = [s \in SUBSET Circle |-> g[s]] /\ IsSetSum(g, Circle, f)
  BY SetSumExists, ReputationAssumption
<1>2. \A s \in SUBSET Circle : s # {} => First(s) \in Circle
  OBVIOUS
<1>3. PointsOf(aw, m) = G[Circle]
  BY DEF PointsOf, MapThenSumSet, MapThenFoldSet
<1>4. g = Body(g)
  <2>1. \A s \in SUBSET Circle : g[s] = Body(g)[s]
    BY <1>1, <1>2 DEF IsSetSum
  <2>2. Body(g) = [s \in SUBSET Circle |-> Body(g)[s]]
    OBVIOUS
  <2> HIDE DEF Body
  <2> QED
    BY <1>1, <2>1, <2>2
<1>5. G = Body(G)
  <2> HIDE DEF Body
  <2> QED
    BY <1>4
<1>6. IsSetSum(G, Circle, f)
  <2>1. DOMAIN Body(G) = SUBSET Circle
    OBVIOUS
  <2>2. \A s \in SUBSET Circle :
          Body(G)[s] = IF s = {} THEN 0 ELSE f[First(s)] + G[s \ {First(s)}]
    BY <1>2
  <2> HIDE DEF Body, G
  <2> QED
    BY <1>5, <2>1, <2>2 DEF IsSetSum, First
<1> HIDE DEF G
<1> QED
  BY <1>3, <1>6

-----------------------------------------------------------------------------
(* Replaying the events, as FoldLeft takes them: the set of the positions is *)
(* taken apart from its largest element on.                                  *)

Blank == [callers |-> <<>>, score |-> [m \in Member |-> 0]]

\* The function g replays the events at the positions of every set of them.
IsReplay(g, events, n) ==
  /\ DOMAIN g = SUBSET (1..n)
  /\ \A s \in SUBSET (1..n) :
       g[s] = IF s = {} THEN Blank ELSE ReplayStep(g[s \ {Max(s)}], events[Max(s)])

\* There is one, by induction on the size of the set.
LEMMA ReplayExists ==
  ASSUME NEW n \in Nat, NEW events
  PROVE  \E g : g = [s \in SUBSET (1..n) |-> g[s]] /\ IsReplay(g, events, n)
<1> DEFINE S == 1..n
           Next_(g, s) == IF s = {} THEN Blank
                          ELSE ReplayStep(g[s \ {Max(s)}], events[Max(s)])
           Upto(g, k) == \A s \in SUBSET S : Cardinality(s) <= k => g[s] = Next_(g, s)
           T == {k \in Nat : \E g : g = [s \in SUBSET S |-> g[s]] /\ Upto(g, k)}
<1>0. IsFiniteSet(S)
  BY FS_Interval
<1>1. \A s \in SUBSET S : IsFiniteSet(s) /\ Cardinality(s) \in Nat
                          /\ (Cardinality(s) = 0 <=> s = {})
  BY <1>0, FS_Subset, FS_CardinalityType, FS_EmptySet
<1>2. \A s \in SUBSET S : s # {} => /\ s \ {Max(s)} \in SUBSET S
                                    /\ Cardinality(s \ {Max(s)}) = Cardinality(s) - 1
  <2> TAKE s \in SUBSET S
  <2>1. s # {} => Max(s) \in s
    BY LargestIs
  <2> QED
    BY <1>1, <2>1, FS_RemoveElement
<1>3. 0 \in T
  <2> DEFINE g == [s \in SUBSET S |-> Blank]
  <2>1. \A s \in SUBSET S : Cardinality(s) <= 0 => s = {}
    BY <1>1
  <2>2. g = [s \in SUBSET S |-> g[s]]
    OBVIOUS
  <2>3. Upto(g, 0)
    BY <2>1
  <2> HIDE DEF g, Upto
  <2> QED
    BY <2>2, <2>3
<1>4. ASSUME NEW k \in Nat, k \in T PROVE k + 1 \in T
  <2>1. PICK g : g = [s \in SUBSET S |-> g[s]] /\ Upto(g, k)
    BY <1>4
  <2> DEFINE h == [s \in SUBSET S |-> IF Cardinality(s) = k + 1 THEN Next_(g, s) ELSE g[s]]
  <2>2. ASSUME NEW s \in SUBSET S, Cardinality(s) <= k + 1 PROVE h[s] = Next_(h, s)
    <3>0. h[s] = Next_(g, s)
      <4>1. CASE Cardinality(s) = k + 1
        BY <4>1
      <4>2. CASE Cardinality(s) # k + 1
        <5>1. Cardinality(s) <= k /\ h[s] = g[s]
          BY <1>1, <2>2, <4>2
        <5> HIDE DEF Next_, h
        <5> QED
          BY <2>1, <5>1
      <4> QED
        BY <4>1, <4>2
    <3>1. CASE s = {}
      BY <3>0, <3>1
    <3>2. CASE s # {}
      <4> DEFINE rest == s \ {Max(s)}
      <4>1. rest \in SUBSET S /\ Cardinality(rest) = Cardinality(s) - 1
        BY <1>2, <3>2
      <4> HIDE DEF rest
      <4>2. Cardinality(s) \in Nat /\ Cardinality(rest) # k + 1
        BY <1>1, <2>2, <4>1
      <4>3. h[rest] = g[rest]
        BY <4>1, <4>2
      <4> HIDE DEF h
      <4> QED
        BY <3>0, <3>2, <4>3 DEF rest
    <3> QED
      BY <3>1, <3>2
  <2>3. h = [s \in SUBSET S |-> h[s]]
    OBVIOUS
  <2> HIDE DEF h, Next_
  <2>4. Upto(h, k + 1)
    BY <2>2
  <2> HIDE DEF Upto
  <2> QED
    BY <2>3, <2>4
<1> HIDE DEF T
<1>5. \A k \in Nat : k \in T
  BY <1>3, <1>4, InductiveSet
<1>6. Cardinality(S) \in T
  BY <1>0, <1>5, FS_CardinalityType
<1>7. \A s \in SUBSET S : Cardinality(s) <= Cardinality(S)
  BY <1>0, FS_Subset
<1>8. PICK g : g = [s \in SUBSET S |-> g[s]] /\ Upto(g, Cardinality(S))
  BY <1>6 DEF T
<1>9. IsReplay(g, events, n)
  BY <1>7, <1>8 DEF IsReplay
<1> QED
  BY <1>8, <1>9

\* So Replayed is the value of such a function at all positions.
LEMMA ReplayedIs ==
  ASSUME NEW E, NEW events \in Seq(E)
  PROVE  \E g : IsReplay(g, events, Len(events)) /\ Replayed(events) = g[1..Len(events)]
<1> DEFINE n == Len(events)
           Body(p) == [s \in SUBSET (1..n) |->
                         IF s = {} THEN Blank
                         ELSE ReplayStep(p[s \ {Max(s)}], events[Max(s)])]
           G == CHOOSE p : p = Body(p)
<1>1. n \in Nat /\ DOMAIN events = 1..n
  OBVIOUS
<1>2. Replayed(events) = G[1..n]
  BY <1>1 DEF Replayed, FoldLeft, MapThenFoldSet, Blank
<1> HIDE DEF n
<1>3. PICK g : g = [s \in SUBSET (1..n) |-> g[s]] /\ IsReplay(g, events, n)
  BY <1>1, ReplayExists
<1>4. g = Body(g)
  <2>1. \A s \in SUBSET (1..n) : g[s] = Body(g)[s]
    BY <1>3 DEF IsReplay
  <2>2. Body(g) = [s \in SUBSET (1..n) |-> Body(g)[s]]
    OBVIOUS
  <2> HIDE DEF Body
  <2> QED
    BY <1>3, <2>1, <2>2
<1>5. G = Body(G)
  <2> HIDE DEF Body
  <2> QED
    BY <1>4
<1>6. IsReplay(G, events, n)
  <2>1. DOMAIN Body(G) = SUBSET (1..n)
    OBVIOUS
  <2>2. \A s \in SUBSET (1..n) :
          Body(G)[s] = IF s = {} THEN Blank ELSE ReplayStep(G[s \ {Max(s)}], events[Max(s)])
    OBVIOUS
  <2> HIDE DEF Body, G
  <2> QED
    BY <1>5, <2>1, <2>2 DEF IsReplay
<1> HIDE DEF G
<1> QED
  BY <1>2, <1>6 DEF n

\* The first k positions: the last of them comes last.
LEMMA ReplayOfPrefix ==
  ASSUME NEW n \in Nat, NEW k \in 1..n, NEW g, NEW events, IsReplay(g, events, n)
  PROVE  g[1..k] = ReplayStep(g[1..(k - 1)], events[k])
<1>1. (1..k) \in SUBSET (1..n) /\ 1..k # {} /\ k \in 1..k
  OBVIOUS
<1>2. Max(1..k) = k
  <2>1. Max(1..k) \in 1..k /\ \A y \in 1..k : Max(1..k) >= y
    BY <1>1, LargestIs
  <2> HIDE DEF Max
  <2>2. Max(1..k) >= k
    BY <1>1, <2>1
  <2> QED
    BY <2>1, <2>2
<1>3. (1..k) \ {k} = 1..(k - 1)
  OBVIOUS
<1> QED
  BY <1>1, <1>2, <1>3 DEF IsReplay

\* No event, no change.
LEMMA ReplayedNothing == Replayed(<<>>) = Blank
<1>1. <<>> \in Seq({}) /\ Len(<<>>) = 0 /\ 1..0 = {}
  OBVIOUS
<1>2. PICK g : IsReplay(g, <<>>, 0) /\ Replayed(<<>>) = g[{}]
  BY <1>1, ReplayedIs
<1> QED
  BY <1>2 DEF IsReplay

\* One event more is one step more.
LEMMA ReplayedAppend ==
  ASSUME NEW E, NEW events \in Seq(E), NEW e \in E
  PROVE  Replayed(Append(events, e)) = ReplayStep(Replayed(events), e)
<1> DEFINE n == Len(events)
           longer == Append(events, e)
<1>1. /\ n \in Nat /\ longer \in Seq(E) /\ Len(longer) = n + 1 /\ longer[n + 1] = e
      /\ \A i \in 1..n : longer[i] = events[i]
  OBVIOUS
<1>2. PICK g : IsReplay(g, events, n) /\ Replayed(events) = g[1..n]
  BY ReplayedIs
<1>3. PICK h : IsReplay(h, longer, n + 1) /\ Replayed(longer) = h[1..(n + 1)]
  BY <1>1, ReplayedIs
<1> HIDE DEF n, longer
<1>g. \A j \in 1..n : g[1..j] = ReplayStep(g[1..(j - 1)], events[j])
  <2>1. n \in Nat /\ IsReplay(g, events, n)
    BY <1>1, <1>2
  <2> TAKE j \in 1..n
  <2> QED
    BY <2>1, ReplayOfPrefix
<1>h. \A j \in 1..(n + 1) : h[1..j] = ReplayStep(h[1..(j - 1)], longer[j])
  <2> DEFINE m == n + 1
  <2>1. m \in Nat /\ IsReplay(h, longer, m)
    BY <1>1, <1>3
  <2> HIDE DEF m
  <2>2. \A j \in 1..m : h[1..j] = ReplayStep(h[1..(j - 1)], longer[j])
    <3> TAKE j \in 1..m
    <3> QED
      BY <2>1, ReplayOfPrefix
  <2> QED
    BY <2>2 DEF m
<1> DEFINE T == {k \in Nat : k <= n => g[1..k] = h[1..k]}
<1>t. \A k \in Nat : k \in T <=> (k <= n => g[1..k] = h[1..k])
  OBVIOUS
<1> HIDE DEF T
<1>4. 0 \in T
  <2>1. 1..0 = {}
    OBVIOUS
  <2>2. g[{}] = Blank /\ h[{}] = Blank
    BY <1>2, <1>3 DEF IsReplay
  <2>3. g[1..0] = h[1..0]
    BY <2>1, <2>2
  <2>4. 0 \in Nat
    OBVIOUS
  <2> QED
    BY <1>t, <2>3, <2>4, Zenon
<1>5. ASSUME NEW k \in Nat, k \in T PROVE k + 1 \in T
  <2>n. n \in Nat
    BY <1>1
  <2> SUFFICES ASSUME k + 1 <= n PROVE g[1..(k + 1)] = h[1..(k + 1)]
    BY <1>t
  <2>1. /\ k + 1 \in 1..n /\ k + 1 \in 1..(n + 1) /\ (k + 1) - 1 = k
        /\ k <= n
    BY <2>n
  <2>2. g[1..(k + 1)] = ReplayStep(g[1..((k + 1) - 1)], events[k + 1])
    BY <1>g, <2>1, Zenon
  <2>3. h[1..(k + 1)] = ReplayStep(h[1..((k + 1) - 1)], longer[k + 1])
    BY <1>h, <2>1, Zenon
  <2>4. g[1..k] = h[1..k]
    BY <1>5, <1>t, <2>1, Zenon
  <2>5. longer[k + 1] = events[k + 1]
    BY <1>1, <2>1, Zenon
  <2>6. 1..((k + 1) - 1) = 1..k
    BY <2>1, Zenon
  <2> QED
    BY <2>2, <2>3, <2>4, <2>5, <2>6, Zenon
<1>6. n \in T
  BY <1>1, <1>4, <1>5, InductiveSet
<1>7. g[1..n] = h[1..n]
  BY <1>1, <1>6, <1>t
<1>8. h[1..(n + 1)] = ReplayStep(h[1..n], longer[n + 1])
  <2>1. n + 1 \in 1..(n + 1) /\ 1..((n + 1) - 1) = 1..n
    BY <1>1
  <2>2. h[1..(n + 1)] = ReplayStep(h[1..((n + 1) - 1)], longer[n + 1])
    BY <1>h, <2>1, Zenon
  <2> QED
    BY <2>1, <2>2, Zenon
<1> QED
  BY <1>1, <1>2, <1>3, <1>7, <1>8 DEF longer

-----------------------------------------------------------------------------
(* Scores, awards and events.                                               *)

\* The scores are typed, every deployed circle has members whose score is kept,
\* and the events are of the three kinds.
ScoresOK ==
  /\ AwardsOK
  /\ score \in [Member -> 0..MaxScore]
  /\ log \in Seq(Event)
  /\ \A c \in DOMAIN circle : circle[c].members \in Seq(Member)

ScoresInv == ScoresOK /\ ScoresAreAwards

\* What one event does to a list and scores.
LEMMA StepIs ==
  ASSUME NEW s, s = [callers |-> s.callers, score |-> s.score], NEW e
  PROVE  /\ e.name = "caller_added" =>
              ReplayStep(s, e) = [callers |-> Append(s.callers, e.circle), score |-> s.score]
         /\ e.name = "caller_removed" =>
              ReplayStep(s, e) = [callers |-> Without(s.callers, {e.circle}), score |-> s.score]
         /\ e.name = "score_updated" =>
              ReplayStep(s, e) = [callers |-> s.callers,
                                  score |-> [s.score EXCEPT ![e.member] = e.total]]
<1>1. CASE e.name = "caller_added"
  <2>1. ReplayStep(s, e) = [s EXCEPT !.callers = Append(@, e.circle)]
    BY <1>1 DEF ReplayStep
  <2> QED
    BY <1>1, <2>1
<1>2. CASE e.name = "caller_removed"
  <2>1. ReplayStep(s, e) = [s EXCEPT !.callers = Without(@, {e.circle})]
    BY <1>2 DEF ReplayStep
  <2> QED
    BY <1>2, <2>1
<1>3. CASE e.name = "score_updated"
  <2>1. ReplayStep(s, e) = [s EXCEPT !.score[e.member] = e.total]
    BY <1>3 DEF ReplayStep
  <2> QED
    BY <1>3, <2>1
<1> QED
  BY <1>1, <1>2, <1>3

\* No score before the first award.
LEMMA ScoresInit == Init => ScoresInv
<1> SUFFICES ASSUME Init PROVE ScoresInv
  OBVIOUS
<1>1. /\ score = [m \in Member |-> 0] /\ awards = [c \in Circle |-> [m \in Member |-> 0]]
      /\ log = <<>> /\ AuthorizedCallers = <<>> /\ circle = <<>>
  BY DEF Init, RepInit
<1>2. ScoresOK
  <2>1. 0 \in 0..MaxScore /\ DOMAIN <<>> = {}
    BY ReputationAssumption
  <2> QED
    BY <1>1, <2>1 DEF ScoresOK, AwardsOK
<1>3. ASSUME NEW m \in Member PROVE PointsOf(awards, m) = 0
  <2> DEFINE f == [c \in Circle |-> 0]
  <2>1. \A c \in Circle : f[c] = awards[c][m] /\ f[c] = 0
    BY <1>1
  <2> HIDE DEF f
  <2>2. PICK g : IsSetSum(g, Circle, f) /\ PointsOf(awards, m) = g[Circle]
    BY <2>1, PointsAre
  <2> QED
    BY <2>1, <2>2, SetSumZero, ReputationAssumption
<1>4. Replayed(log) = [callers |-> AuthorizedCallers, score |-> score]
  BY <1>1, ReplayedNothing DEF Blank
<1> QED
  BY <1>1, <1>2, <1>3, <1>4 DEF ScoresInv, ScoresAreAwards

\* Where nobody is awarded anything it is enough to look at the replay.
LEMMA ListStep ==
  ASSUME ScoresInv, UNCHANGED <<score, awards>>,
         log' \in Seq(Event),
         Replayed(log') = [callers |-> AuthorizedCallers', score |-> score],
         \A c \in DOMAIN circle' : circle'[c].members \in Seq(Member)
  PROVE  ScoresInv'
BY DEF ScoresInv, ScoresOK, AwardsOK, ScoresAreAwards

\* A registration is one event more, or nothing.
LEMMA AddScores ==
  ASSUME ScoresInv, NEW d \in Circle, AddCaller(d),
         \A c \in DOMAIN circle' : circle'[c].members \in Seq(Member)
  PROVE  ScoresInv'
<1>1. log \in Seq(Event) /\ Replayed(log) = [callers |-> AuthorizedCallers, score |-> score]
  BY DEF ScoresInv, ScoresOK, ScoresAreAwards
<1>2. CASE UNCHANGED repVars
  BY <1>1, <1>2, ListStep DEF repVars
<1>3. CASE /\ AuthorizedCallers' = Append(AuthorizedCallers, d)
           /\ log' = Append(log, [name |-> "caller_added", circle |-> d])
           /\ UNCHANGED <<admin, RevokedCallers, score, awards>>
  <2> DEFINE e == [name |-> "caller_added", circle |-> d]
  <2>1. e \in Event /\ e.name = "caller_added" /\ e.circle = d
    BY DEF Event
  <2> HIDE DEF e
  <2>2. log' = Append(log, e) /\ log' \in Seq(Event)
    BY <1>1, <1>3, <2>1 DEF e
  <2>3. Replayed(log') = ReplayStep(Replayed(log), e)
    BY <1>1, <2>1, <2>2, ReplayedAppend
  <2>4. ReplayStep(Replayed(log), e) = [callers |-> Append(AuthorizedCallers, d), score |-> score]
    <3> DEFINE r == Replayed(log)
    <3>1. r = [callers |-> r.callers, score |-> r.score]
          /\ r.callers = AuthorizedCallers /\ r.score = score
      BY <1>1
    <3> HIDE DEF r
    <3>2. ReplayStep(r, e) = [callers |-> Append(r.callers, e.circle), score |-> r.score]
      BY <2>1, <3>1, StepIs
    <3> QED
      BY <2>1, <3>1, <3>2 DEF r
  <2>5. Replayed(log') = [callers |-> AuthorizedCallers', score |-> score]
    BY <1>3, <2>3, <2>4
  <2> QED
    BY <1>3, <2>2, <2>5, ListStep
<1> QED
  BY <1>2, <1>3 DEF AddCaller

\* So is a removal.
LEMMA RemoveScores ==
  ASSUME ScoresInv, NEW a, NEW d \in Circle, remove_authorized_caller(a, d),
         UNCHANGED circle
  PROVE  ScoresInv'
<1> DEFINE e == [name |-> "caller_removed", circle |-> d]
<1>1. /\ log \in Seq(Event) /\ Replayed(log) = [callers |-> AuthorizedCallers, score |-> score]
      /\ \A c \in DOMAIN circle' : circle'[c].members \in Seq(Member)
  BY DEF ScoresInv, ScoresOK, ScoresAreAwards
<1>2. e \in Event /\ e.name = "caller_removed" /\ e.circle = d
  BY DEF Event
<1>3. /\ AuthorizedCallers' = Without(AuthorizedCallers, {d}) /\ log' = Append(log, e)
      /\ UNCHANGED <<score, awards>>
  BY DEF remove_authorized_caller
<1> HIDE DEF e
<1>4. log' \in Seq(Event) /\ Replayed(log') = ReplayStep(Replayed(log), e)
  BY <1>1, <1>2, <1>3, ReplayedAppend
<1>5. Replayed(log') = [callers |-> AuthorizedCallers', score |-> score]
  <2>1. PICK r : r = Replayed(log)
    OBVIOUS
  <2>2. r.callers = AuthorizedCallers /\ r.score = score
    BY <1>1, <2>1
  <2>3. ReplayStep(r, e) = [callers |-> Without(r.callers, {e.circle}), score |-> r.score]
    BY <1>1, <1>2, <2>1, StepIs
  <2> QED
    BY <1>2, <1>3, <1>4, <2>1, <2>2, <2>3
<1> QED
  BY <1>1, <1>3, <1>4, <1>5, ListStep

\* An award is one point in the score, in the sum over the circles and in the
\* event, which carries the new score.
LEMMA AwardScores ==
  ASSUME ScoresInv, NEW d \in Circle, NEW m \in Member, increment(d, m), UNCHANGED circle
  PROVE  ScoresInv'
<1> DEFINE e == [name |-> "score_updated", member |-> m, total |-> score[m] + 1]
<1>1. /\ log \in Seq(Event) /\ Replayed(log) = [callers |-> AuthorizedCallers, score |-> score]
      /\ score \in [Member -> 0..MaxScore] /\ awards \in [Circle -> [Member -> Nat]]
      /\ \A c \in DOMAIN circle' : circle'[c].members \in Seq(Member)
      /\ \A x \in Member : score[x] = PointsOf(awards, x)
  BY DEF ScoresInv, ScoresOK, ScoresAreAwards, AwardsOK
<1>2. /\ score[m] # MaxScore
      /\ score' = [score EXCEPT ![m] = @ + 1]
      /\ awards' = [awards EXCEPT ![d][m] = @ + 1]
      /\ log' = Append(log, e)
      /\ AuthorizedCallers' = AuthorizedCallers
  BY DEF increment, IncrementCode
<1>3. score[m] \in 0..MaxScore /\ score[m] + 1 \in 1..MaxScore
  BY <1>1, <1>2, ReputationAssumption
<1>4. /\ e \in Event /\ e.name = "score_updated" /\ e.member = m /\ e.total = score[m] + 1
  BY <1>3 DEF Event
<1> HIDE DEF e
<1>5. log' \in Seq(Event) /\ Replayed(log') = ReplayStep(Replayed(log), e)
  BY <1>1, <1>2, <1>4, ReplayedAppend
<1>6. Replayed(log') = [callers |-> AuthorizedCallers', score |-> score']
  <2>1. ReplayStep(Replayed(log), e)
          = [callers |-> AuthorizedCallers, score |-> [score EXCEPT ![m] = e.total]]
    <3> DEFINE r == Replayed(log)
    <3>1. r = [callers |-> r.callers, score |-> r.score]
          /\ r.callers = AuthorizedCallers /\ r.score = score
      BY <1>1
    <3> HIDE DEF r
    <3>2. ReplayStep(r, e) = [callers |-> r.callers, score |-> [r.score EXCEPT ![e.member] = e.total]]
      BY <1>4, <3>1, StepIs
    <3> QED
      BY <1>4, <3>1, <3>2 DEF r
  <2>2. score' = [score EXCEPT ![m] = e.total]
    BY <1>1, <1>2, <1>4
  <2> QED
    BY <1>2, <1>5, <2>1, <2>2
<1>7. awards' \in [Circle -> [Member -> Nat]] /\ score' \in [Member -> 0..MaxScore]
  <2>1. \A c \in Circle : awards[c] \in [Member -> Nat]
    BY <1>1
  <2>2. \A c \in Circle : awards'[c] \in [Member -> Nat]
    BY <1>1, <1>2, <2>1
  <2>3. \A x \in Member : score'[x] \in 0..MaxScore
    BY <1>1, <1>2, <1>3
  <2> QED
    BY <1>1, <1>2, <2>2, <2>3
<1>8. ASSUME NEW x \in Member PROVE score'[x] = PointsOf(awards', x)
  <2> DEFINE more == IF x = m THEN 1 ELSE 0
             f == [c \in Circle |-> awards[c][x]]
             h == [c \in Circle |-> awards'[c][x]]
  <2>1. f \in [Circle -> Nat] /\ h \in [Circle -> Nat] /\ more \in Nat
    <3>1. \A c \in Circle : awards[c][x] \in Nat /\ awards'[c][x] \in Nat
      BY <1>1, <1>7
    <3> QED
      BY <3>1
  <2>2. \A c \in Circle : h[c] = IF c = d THEN f[c] + more ELSE f[c]
    <3> TAKE c \in Circle
    <3>1. awards[c] \in [Member -> Nat] /\ awards[c][x] \in Nat
      BY <1>1
    <3>2. CASE c # d
      BY <1>1, <1>2, <3>2
    <3>3. CASE c = d
      <4>1. awards'[c] = [awards[c] EXCEPT ![m] = @ + 1]
        BY <1>1, <1>2, <3>3
      <4> QED
        BY <3>1, <3>3, <4>1
    <3> QED
      BY <3>2, <3>3
  <2>3. \A c \in Circle : f[c] = awards[c][x] /\ h[c] = awards'[c][x]
    OBVIOUS
  <2> HIDE DEF f, h
  <2>5. PICK g : IsSetSum(g, Circle, f) /\ PointsOf(awards, x) = g[Circle]
    BY <2>3, PointsAre
  <2>6. PICK k : IsSetSum(k, Circle, h) /\ PointsOf(awards', x) = k[Circle]
    BY <2>3, PointsAre
  <2> HIDE DEF more
  <2>7. k[Circle] = g[Circle] + more
    <3>1. IsFiniteSet(Circle)
      BY ReputationAssumption
    <3>2. g[Circle] \in Nat /\ k[Circle] \in Nat /\ k[Circle] + f[d] = g[Circle] + h[d]
      BY <2>1, <2>2, <2>5, <2>6, <3>1, SetSumDiffers
    <3> QED
      BY <2>1, <2>2, <3>2
  <2>8. score'[x] = score[x] + more
    <3>1. score[x] \in 0..MaxScore
      BY <1>1
    <3> QED
      BY <1>1, <1>2, <3>1, ReputationAssumption DEF more
  <2> QED
    BY <1>1, <2>5, <2>6, <2>7, <2>8
<1> QED
  BY <1>1, <1>5, <1>6, <1>7, <1>8 DEF ScoresInv, ScoresOK, AwardsOK, ScoresAreAwards

\* Every step keeps scores, awards and events in step.
LEMMA ScoresNext == Inv /\ ScoresInv /\ [Next]_vars => ScoresInv'
<1> SUFFICES ASSUME Inv, ScoresInv, [Next]_vars PROVE ScoresInv'
  OBVIOUS
<1>1. /\ log \in Seq(Event) /\ Replayed(log) = [callers |-> AuthorizedCallers, score |-> score]
      /\ \A c \in DOMAIN circle : circle[c].members \in Seq(Member)
  BY DEF ScoresInv, ScoresOK, ScoresAreAwards
<1>2. CASE UNCHANGED <<AuthorizedCallers, score, awards, log, circle>>
  BY <1>1, <1>2, ListStep
<1>3. ASSUME NEW creator \in Creator, NEW ms \in MemberLists, NEW amount, NEW deadline,
             create_circle(creator, ms, amount, deadline)
      PROVE  ScoresInv'
  <2> DEFINE d == derive_circle_salt(creator)
  <2>1. /\ AddCaller(d) /\ CircleCount < MaxCircles
        /\ validate_create_inputs(ms, amount, deadline) = "ok"
        /\ circle' = [x \in DOMAIN circle \cup {d} |->
                        IF x = d THEN [members |-> ms, round_amount |-> amount,
                                       round_deadline_ledgers |-> deadline,
                                       admin |-> Factory]
                        ELSE circle[x]]
    BY <1>3 DEF create_circle, AuthorizeCircle
  <2>2. d \in Circle
    <3>1. CircleCount \in 0..(MaxCircles - 1) /\ ledger \in 0..MaxLedger
      BY <2>1, FactoryAssumption DEF Inv, ListsOK
    <3> QED
      BY <3>1, FactoryAssumption DEF derive_circle_salt
  <2> HIDE DEF d
  <2>3. ms \in Seq(Member)
    <3>1. ~(Len(ms) > MAX_MEMBERS)
      BY <2>1 DEF validate_create_inputs
    <3> QED
      BY <3>1, FactoryAssumption
  <2>4. \A c \in DOMAIN circle' : circle'[c].members \in Seq(Member)
    BY <1>1, <2>1, <2>3
  <2> QED
    BY <2>1, <2>2, <2>4, AddScores
<1>4. CASE CircleAwards
  <2>1. PICK d \in DOMAIN circle : \E m \in Range(circle[d].members) : increment(d, m)
    BY <1>4 DEF CircleAwards
  <2>2. PICK m \in Range(circle[d].members) : increment(d, m) /\ UNCHANGED circle
    BY <1>4, <2>1 DEF CircleAwards, facVars
  <2>3. m \in Member /\ d \in Circle
    <3>1. circle[d].members \in Seq(Member)
      BY <1>1
    <3>2. Range(circle[d].members) \subseteq Member
      BY <3>1 DEF Range
    <3> QED
      BY <3>2 DEF Inv, Registry, ListsOK, Range
  <2> QED
    BY <2>2, <2>3, AwardScores
<1>5. CASE \E a \in ReputationAdmins : RepSetup(a) /\ UNCHANGED facVars
  <2>1. UNCHANGED <<AuthorizedCallers, score, awards, log, circle>>
    BY <1>5 DEF RepSetup, facVars, Inv, NothingYet
  <2> QED
    BY <1>2, <2>1
<1>6. CASE ManageByHand
  <2>1. PICK a \in Signers, d \in ManagedCallers :
          add_authorized_caller(a, d) \/ remove_authorized_caller(a, d)
    BY <1>6 DEF ManageByHand
  <2>2. d \in Circle /\ UNCHANGED circle
    BY <1>6, FactoryAssumption DEF ManageByHand, facVars
  <2>3. CASE add_authorized_caller(a, d)
    BY <1>1, <2>2, <2>3, AddScores DEF add_authorized_caller
  <2>4. CASE remove_authorized_caller(a, d)
    BY <2>2, <2>4, RemoveScores
  <2> QED
    BY <2>1, <2>3, <2>4
<1>7. CASE \/ AdvanceLedger \/ UNCHANGED vars \/ \E a \in Signers : FactoryInitialize(a)
  <2>1. UNCHANGED <<repVars, circle>>
    BY <1>7 DEF vars, facVars, FactoryInitialize, AdvanceLedger
  <2> QED
    BY <1>2, <2>1 DEF repVars
<1> QED
  BY <1>3, <1>4, <1>5, <1>6, <1>7 DEF Next

\* However the contracts are wired and whatever circles and admins do, for any
\* number of circles and members and any limit of the score: every score is the
\* sum of what the circles have awarded, and the published events alone give the
\* allowlist and the scores (add_authorized_caller, remove_authorized_caller and
\* increment write both in one invocation).
THEOREM ScoresHold == Spec => []ScoresAreAwards
<1>1. ScoresInv => ScoresAreAwards
  BY DEF ScoresInv
<1> QED
  BY <1>1, ScoresInit, ScoresNext, Invariant, PTL DEF Spec

-----------------------------------------------------------------------------
(* The tools: what each step of theirs does to the contracts.               *)

Calls == UNION {createCircle(p) : p \in CreateParams}
Seeds == Range(SeedMembers)

\* An award counts for one member of one circle.
LEMMA AwardsStep ==
  ASSUME AwardsOK, UNCHANGED awards \/ \E c, m : awards' = [awards EXCEPT ![c][m] = @ + 1]
  PROVE  AwardsOK'
<1>1. CASE UNCHANGED awards
  BY <1>1 DEF AwardsOK
<1>2. ASSUME NEW c, NEW m, awards' = [awards EXCEPT ![c][m] = @ + 1] PROVE AwardsOK'
  <2>1. ASSUME NEW d \in Circle PROVE awards'[d] \in [Member -> Nat]
    <3>1. awards[d] \in [Member -> Nat]
      BY DEF AwardsOK
    <3>2. awards'[d] = awards[d] \/ awards'[d] = [awards[d] EXCEPT ![m] = @ + 1]
      BY <1>2 DEF AwardsOK
    <3> QED
      BY <3>1, <3>2
  <2> QED
    BY <1>2, <2>1 DEF AwardsOK
<1> QED
  BY <1>1, <1>2

\* One award more is seen at its own place only.
LEMMA AwardSeen ==
  ASSUME AwardsOK, NEW d \in Circle, NEW m \in Member,
         awards' = [awards EXCEPT ![d][m] = @ + 1]
  PROVE  \A c \in Circle, x \in Member :
           awards'[c][x] = IF c = d /\ x = m THEN awards[c][x] + 1 ELSE awards[c][x]
<1> TAKE c \in Circle, x \in Member
<1>1. awards[c] \in [Member -> Nat]
  BY DEF AwardsOK
<1>2. awards'[c] = IF c = d THEN [awards[d] EXCEPT ![m] = @ + 1] ELSE awards[c]
  BY DEF AwardsOK
<1> QED
  BY <1>1, <1>2

\* A creation adds the circle of its salt, at the end of the registry.
LEMMA CreationAdds ==
  ASSUME Inv, NEW creator \in Creator, NEW ms, NEW amount, NEW deadline,
         create_circle(creator, ms, amount, deadline)
  PROVE  /\ derive_circle_salt(creator) \in Circle \ DOMAIN circle
         /\ DOMAIN circle' = DOMAIN circle \cup {derive_circle_salt(creator)}
         /\ circle'[derive_circle_salt(creator)].members = ms
         /\ \A x \in DOMAIN circle : circle'[x] = circle[x]
         /\ Last(Circles') = derive_circle_salt(creator)
         /\ UNCHANGED awards
<1> DEFINE c == derive_circle_salt(creator)
<1>1. /\ CircleCount < MaxCircles /\ c \notin DOMAIN circle /\ AddCaller(c)
      /\ Circles' = Append(Circles, c)
      /\ circle' = [x \in DOMAIN circle \cup {c} |->
                      IF x = c THEN [members |-> ms, round_amount |-> amount,
                                     round_deadline_ledgers |-> deadline,
                                     admin |-> Factory]
                      ELSE circle[x]]
  BY DEF create_circle, AuthorizeCircle, RegisterCircle
<1>2. c \in Circle
  <2>1. CircleCount \in 0..(MaxCircles - 1) /\ ledger \in 0..MaxLedger
    BY <1>1, FactoryAssumption DEF Inv, ListsOK
  <2> QED
    BY <2>1, FactoryAssumption DEF derive_circle_salt
<1> HIDE DEF c
<1>3. Last(Circles') = c
  <2>1. Circles \in Seq(Circle)
    BY DEF Inv, ListsOK
  <2>2. Len(Circles') = Len(Circles) + 1 /\ Circles'[Len(Circles) + 1] = c
    BY <1>1, <1>2, <2>1
  <2> QED
    BY <2>2 DEF Last
<1>4. UNCHANGED awards
  BY <1>1 DEF AddCaller, repVars
<1> QED
  BY <1>1, <1>2, <1>3, <1>4 DEF c

-----------------------------------------------------------------------------
(* The seeder.                                                             *)

Said == {"pending", "submitted", "confirmed", "failed", "timeout"}
Fates == {"accepted", "refused", "applied", "failed"}

Pcs == {"off", "fund", "build", "send", "sent", "poll", "read"}
Statuses == {"none", "in_progress", "failed", "killed", "completed"}

SeedTyped ==
  seed \in [pc : Pcs, status : Statuses, journal : Seq(Said), fates : Seq(Fates),
            circleAddress : SUBSET Circle, made : SUBSET Circle,
            joined : SUBSET Seeds, paid : SUBSET Seeds]

\* Every transaction but the last is confirmed; what the journal says of one is
\* what became of it; and where the run stands, the journal and the network stand.
Journalled ==
  /\ Len(seed.fates) <= Now /\ Now <= Len(SeedSteps)
  /\ \A i \in 1..Now : i < Now => seed.journal[i] = "confirmed"
  /\ \A i \in 1..Len(seed.fates) :
       /\ seed.journal[i] = "confirmed" => seed.fates[i] = "applied"
       /\ seed.journal[i] = "failed" => seed.fates[i] \in {"failed", "refused"}
  /\ seed.status = "in_progress" =>
       /\ seed.pc # "off"
       /\ seed.pc = "fund" => Now = 0
       /\ seed.pc = "build" => /\ Len(seed.fates) = Now
                               /\ Now > 0 => seed.journal[Now] = "confirmed"
       /\ seed.pc = "send" => /\ Len(seed.fates) = Now - 1
                              /\ seed.journal[Now] = "pending"
       /\ seed.pc \in {"sent", "poll"} =>
            /\ Now > 0 /\ Len(seed.fates) = Now
            /\ seed.journal[Now] \in {"pending", "submitted"}
       /\ seed.pc = "read" => /\ Now = 1 /\ Len(seed.fates) = 1
                              /\ seed.journal[1] = "confirmed"
  /\ seed.status = "completed" =>
       /\ Now = Len(SeedSteps) /\ Len(seed.fates) = Now
       /\ seed.journal[Now] = "confirmed"

\* Whether the network has applied a step's transaction.
IsApplied(i) == i \in 1..Len(seed.fates) /\ seed.fates[i] = "applied"

\* The run's circle is the one its first transaction has created; from its second
\* transaction on the run works with that one; the made-up accounts are members of
\* no other and have points nowhere else.
Seeded ==
  /\ seed.made # {} <=> IsApplied(1)
  /\ \A c, d \in seed.made : c = d
  /\ seed.made \subseteq DOMAIN circle
  /\ Now >= 2 => seed.circleAddress = seed.made
  /\ \A c \in seed.made : awards[c][SeedMembers[1]] = IF IsApplied(6) THEN 1 ELSE 0
  /\ \A c \in Circle \ seed.made, m \in Seeds : awards[c][m] = 0
  /\ \A c \in DOMAIN circle \ seed.made, m \in Seeds : m \notin Range(circle[c].members)

SeedInv == SeedTyped /\ Journalled /\ Seeded

\* What the property says of the seeder's journal follows.
LEMMA JournalSuffices == Inv /\ SeedInv => JournalIsHonest
<1> SUFFICES ASSUME Inv, SeedInv PROVE JournalIsHonest
  OBVIOUS
<1>1. /\ seed.journal \in Seq(Said) /\ seed.fates \in Seq(Fates)
      /\ Now = Len(seed.journal) /\ Now \in Nat /\ Len(seed.fates) \in Nat
      /\ DOMAIN seed.fates = 1..Len(seed.fates)
      /\ DOMAIN seed.journal = 1..Now
  BY DEF SeedInv, SeedTyped, Now
<1>2. Len(SeedSteps) = 7
  BY DEF SeedSteps
<1>3. ASSUME NEW i \in DOMAIN seed.fates
      PROVE  /\ seed.journal[i] = "confirmed" => seed.fates[i] = "applied"
             /\ seed.journal[i] = "failed" => seed.fates[i] \in {"failed", "refused"}
             /\ i < Len(seed.fates) => seed.journal[i] = "confirmed"
  BY <1>1 DEF SeedInv, Journalled
<1>4. ASSUME NEW c \in DOMAIN circle \ seed.made, NEW m \in Range(SeedMembers)
      PROVE  m \notin Range(circle[c].members) /\ awards[c][m] = 0
  <2>1. c \in Circle
    BY DEF Inv, Registry, ListsOK, Range
  <2> QED
    BY <2>1 DEF SeedInv, Seeded, Seeds
<1>5. ASSUME seed.status = "completed"
      PROVE  /\ seed.circleAddress = seed.made /\ Len(seed.journal) = Len(SeedSteps)
             /\ Range(seed.journal) = {"confirmed"}
             /\ \A c \in seed.made : awards[c][SeedMembers[1]] = 1
  <2>1. /\ Now = 7 /\ Len(seed.fates) = 7
        /\ \A i \in 1..7 : seed.journal[i] = "confirmed"
    BY <1>1, <1>2, <1>5 DEF SeedInv, Journalled
  <2>2. IsApplied(6)
    BY <1>1, <2>1 DEF SeedInv, Journalled, IsApplied
  <2>3. Range(seed.journal) = {"confirmed"}
    <3>1. 1 \in 1..7
      OBVIOUS
    <3> QED
      BY <1>1, <2>1, <3>1 DEF Range
  <2> QED
    BY <1>1, <1>2, <2>1, <2>2, <2>3 DEF SeedInv, Seeded
<1>6. Len(seed.fates) <= Len(seed.journal)
  BY <1>1 DEF SeedInv, Journalled
<1> QED
  BY <1>3, <1>4, <1>5, <1>6 DEF JournalIsHonest

\* Nothing is seeded before the tool is started, and nothing with points exists.
LEMMA SeedStarts == DeployInit => SeedInv
<1> SUFFICES ASSUME DeployInit PROVE SeedInv
  OBVIOUS
<1>1. /\ seed = SeedInit /\ circle = <<>>
      /\ awards = [c \in Circle |-> [m \in Member |-> 0]]
  BY DEF DeployInit, CreateInit, Init, RepInit
<1>2. /\ seed.journal = <<>> /\ seed.fates = <<>> /\ seed.made = {}
      /\ seed.status = "none" /\ Now = 0 /\ Len(seed.fates) = 0
  BY <1>1 DEF SeedInit, Now
<1>3. SeedTyped
  <2>1. <<>> \in Seq(Said) /\ <<>> \in Seq(Fates)
    OBVIOUS
  <2>2. "off" \in Pcs /\ "none" \in Statuses
    BY DEF Pcs, Statuses
  <2> QED
    BY <1>1, <2>1, <2>2 DEF SeedTyped, SeedInit
<1>4. Journalled
  BY <1>2 DEF Journalled, SeedSteps
<1>5. Seeded
  <2>1. Seeds \subseteq Member
    BY DeploymentAssumption DEF Seeds, Range
  <2>2. ~IsApplied(1) /\ DOMAIN circle = {}
    BY <1>1, <1>2 DEF IsApplied
  <2> QED
    BY <1>1, <1>2, <2>1, <2>2 DEF Seeded
<1> QED
  BY <1>3, <1>4, <1>5 DEF SeedInv

\* The facts about the seeder that the steps below use.
LEMMA SeedFacts ==
  ASSUME SeedInv
  PROVE  /\ seed.journal \in Seq(Said) /\ seed.fates \in Seq(Fates)
         /\ Now = Len(seed.journal) /\ Now \in 0..7 /\ Len(seed.fates) \in 0..Now
         /\ seed.circleAddress \in SUBSET Circle /\ seed.made \in SUBSET Circle
         /\ seed.joined \in SUBSET Seeds /\ seed.paid \in SUBSET Seeds
         /\ seed.pc \in Pcs /\ seed.status \in Statuses
         /\ seed = [pc |-> seed.pc, status |-> seed.status, journal |-> seed.journal,
                    fates |-> seed.fates, circleAddress |-> seed.circleAddress,
                    made |-> seed.made, joined |-> seed.joined, paid |-> seed.paid]
<1>1. SeedTyped
  BY DEF SeedInv
<1>2. /\ seed.journal \in Seq(Said) /\ seed.fates \in Seq(Fates)
      /\ seed.circleAddress \in SUBSET Circle /\ seed.made \in SUBSET Circle
      /\ seed.joined \in SUBSET Seeds /\ seed.paid \in SUBSET Seeds
      /\ seed.pc \in Pcs /\ seed.status \in Statuses
  BY <1>1 DEF SeedTyped
<1> DEFINE fields ==
             [pc |-> seed.pc, status |-> seed.status, journal |-> seed.journal,
              fates |-> seed.fates, circleAddress |-> seed.circleAddress,
              made |-> seed.made, joined |-> seed.joined, paid |-> seed.paid]
<1>3. seed = fields
  BY <1>1 DEF SeedTyped
<1> HIDE DEF fields
<1>4. Len(SeedSteps) = 7
  BY DEF SeedSteps
<1>5. /\ Now = Len(seed.journal) /\ Now \in Nat /\ Len(seed.fates) \in Nat
      /\ Now <= 7 /\ Len(seed.fates) <= Now
  BY <1>2, <1>4 DEF Now, SeedInv, Journalled
<1>6. Now \in 0..7 /\ Len(seed.fates) \in 0..Now
  <2> DEFINE n == Now
             k == Len(seed.fates)
  <2>1. n \in Nat /\ k \in Nat /\ n <= 7 /\ k <= n
    BY <1>5
  <2> HIDE DEF n, k
  <2>2. n \in 0..7 /\ k \in 0..n
    BY <2>1
  <2> QED
    BY <2>2 DEF n, k
<1>7. seed = [pc |-> seed.pc, status |-> seed.status, journal |-> seed.journal,
              fates |-> seed.fates, circleAddress |-> seed.circleAddress,
              made |-> seed.made, joined |-> seed.joined, paid |-> seed.paid]
  BY <1>3 DEF fields
<1> QED
  BY ONLY <1>2, <1>5, <1>6, <1>7, Zenon

\* What is left of a step when the journal or the place in the run moves and the
\* contracts and what became of the transactions do not.
LEMMA SeededStays ==
  ASSUME SeedInv, UNCHANGED <<circle, awards>>, seed'.made = seed.made,
         seed'.fates = seed.fates, Now' >= 2 => seed'.circleAddress = seed.made
  PROVE  Seeded'
<1>1. IsApplied(1)' = IsApplied(1) /\ IsApplied(6)' = IsApplied(6)
  BY DEF IsApplied
<1> QED
  BY <1>1 DEF SeedInv, Seeded

\* The journal's new last entry.
LEMMA EntryIs ==
  ASSUME NEW S, NEW s \in Seq(S), NEW i \in 1..Len(s), NEW x \in S
  PROVE  /\ [s EXCEPT ![i] = x] \in Seq(S) /\ Len([s EXCEPT ![i] = x]) = Len(s)
         /\ \A j \in 1..Len(s) : [s EXCEPT ![i] = x][j] = IF j = i THEN x ELSE s[j]
OBVIOUS

\* A step of the seeder's own: it reads and writes its journal and changes
\* neither the contracts nor what became of a transaction, but for sending one.
LEMMA SeederKeeps ==
  ASSUME Inv, SeedInv, SeederStep, UNCHANGED allVars
  PROVE  SeedInv'
<1>1. UNCHANGED <<circle, awards, Circles>>
  BY DEF allVars, vars, repVars, facVars
<1>2. /\ seed.journal \in Seq(Said) /\ seed.fates \in Seq(Fates)
      /\ Now = Len(seed.journal) /\ Now \in 0..7 /\ Len(seed.fates) \in 0..Now
      /\ seed.circleAddress \in SUBSET Circle /\ seed.made \in SUBSET Circle
      /\ seed.joined \in SUBSET Seeds /\ seed.paid \in SUBSET Seeds
      /\ seed.pc \in Pcs /\ seed.status \in Statuses
      /\ seed = [pc |-> seed.pc, status |-> seed.status, journal |-> seed.journal,
                 fates |-> seed.fates, circleAddress |-> seed.circleAddress,
                 made |-> seed.made, joined |-> seed.joined, paid |-> seed.paid]
  BY SeedFacts
<1>3. Journalled /\ Len(SeedSteps) = 7
  BY DEF SeedInv, SeedSteps
<1>4. Now >= 2 => seed.circleAddress = seed.made
  BY DEF SeedInv, Seeded
<1>5. /\ \A x \in {"off", "fund", "build", "send", "sent", "poll", "read"} : x \in Pcs
      /\ \A x \in {"none", "in_progress", "failed", "killed", "completed"} : x \in Statuses
      /\ \A x \in {"pending", "submitted", "confirmed", "failed", "timeout"} : x \in Said
      /\ \A x \in {"accepted", "refused", "applied", "failed"} : x \in Fates
  BY DEF Pcs, Statuses, Said, Fates
<1>6. CASE fund
  <2>1. /\ seed.status = "in_progress" /\ seed.pc = "fund"
        /\ seed' = [seed EXCEPT !.pc = "build"]
    BY <1>6 DEF fund, Seeding
  <2>2. /\ seed'.journal = seed.journal /\ seed'.fates = seed.fates /\ seed'.made = seed.made
        /\ seed'.circleAddress = seed.circleAddress /\ seed'.status = "in_progress"
        /\ seed'.pc = "build"
    BY <1>2, <2>1
  <2>3. SeedTyped'
    BY <1>2, <1>5, <2>1 DEF SeedTyped
  <2>4. Now' = Now /\ Now = 0
    BY <1>3, <2>1, <2>2 DEF Now, Journalled
  <2>5. Journalled'
    BY <1>2, <1>3, <2>1, <2>2, <2>4 DEF Journalled
  <2> QED
    BY <1>1, <1>4, <2>2, <2>3, <2>4, <2>5, SeededStays DEF SeedInv
<1>7. CASE Prepare
  <2>1. /\ seed.status = "in_progress" /\ seed.pc = "build" /\ Now < 7
        /\ Now # 0 => seed.circleAddress = seed.made
        /\ seed' = [seed EXCEPT !.pc = "send", !.journal = Append(@, "pending")]
    BY <1>3, <1>7 DEF Prepare, Seeding, CircleTakes
  <2>2. /\ seed'.journal = Append(seed.journal, "pending")
        /\ seed'.fates = seed.fates /\ seed'.made = seed.made
        /\ seed'.circleAddress = seed.circleAddress /\ seed'.status = "in_progress"
        /\ seed'.pc = "send"
    BY <1>2, <2>1
  <2>3. /\ seed'.journal \in Seq(Said) /\ Len(seed'.journal) = Now + 1
        /\ \A i \in 1..Now : seed'.journal[i] = seed.journal[i]
        /\ seed'.journal[Now + 1] = "pending"
    BY <1>2, <1>5, <2>2
  <2>4. SeedTyped'
    BY <1>2, <1>5, <2>1, <2>2, <2>3 DEF SeedTyped
  <2>5. Now' = Now + 1
    BY <2>3 DEF Now
  <2>6. /\ Len(seed.fates) = Now /\ Now > 0 => seed.journal[Now] = "confirmed"
        /\ \A i \in 1..Now : seed.journal[i] = "confirmed"
    BY <1>2, <1>3, <2>1 DEF Journalled
  <2>7. Journalled'
    BY <1>2, <1>3, <2>1, <2>2, <2>3, <2>5, <2>6 DEF Journalled
  <2> QED
    BY <1>1, <1>2, <2>1, <2>2, <2>4, <2>5, <2>7, SeededStays DEF SeedInv
<1>8. CASE Send
  <2>1. /\ seed.status = "in_progress" /\ seed.pc = "send"
    BY <1>8 DEF Send, Seeding
  <2>2. PICK fate \in {"accepted", "refused"} :
          seed' = [seed EXCEPT !.pc = "sent", !.fates = Append(@, fate)]
    BY <1>8 DEF Send
  <2>3. /\ seed'.journal = seed.journal
        /\ seed'.fates = Append(seed.fates, fate) /\ seed'.made = seed.made
        /\ seed'.circleAddress = seed.circleAddress /\ seed'.status = "in_progress"
        /\ seed'.pc = "sent"
    BY <1>2, <2>1, <2>2
  <2>4. /\ seed'.fates \in Seq(Fates) /\ Len(seed'.fates) = Len(seed.fates) + 1
        /\ \A i \in 1..Len(seed.fates) : seed'.fates[i] = seed.fates[i]
        /\ seed'.fates[Len(seed.fates) + 1] = fate
    BY <1>2, <1>5, <2>2, <2>3
  <2>5. SeedTyped'
    BY <1>2, <1>5, <2>2, <2>3, <2>4 DEF SeedTyped
  <2>6. Now' = Now /\ Len(seed.fates) = Now - 1 /\ seed.journal[Now] = "pending"
    BY <1>3, <2>1, <2>3 DEF Now, Journalled
  <2>7. Journalled'
    BY <1>2, <1>3, <2>1, <2>3, <2>4, <2>6 DEF Journalled
  <2>8. Seeded'
    <3>1. ASSUME NEW i \in {1, 6} PROVE IsApplied(i)' = IsApplied(i)
      BY <1>2, <2>2, <2>4 DEF IsApplied
    <3> QED
      BY <1>1, <2>3, <2>6, <3>1 DEF SeedInv, Seeded
  <2> QED
    BY <2>5, <2>7, <2>8 DEF SeedInv
<1>9. CASE Answered \/ Poll
  <2>1. /\ seed.status = "in_progress" /\ seed.pc \in {"sent", "poll"}
    BY <1>9 DEF Answered, Poll, Seeding
  <2>2. /\ Now \in 1..7 /\ Len(seed.fates) = Now
        /\ seed.journal[Now] \in {"pending", "submitted"}
    BY <1>2, <1>3, <2>1 DEF Journalled
  <2> DEFINE Moved(x, pc, status) ==
          /\ seed' = [seed EXCEPT !.journal[Now] = x, !.pc = pc, !.status = status]
          /\ x = "confirmed" => seed.fates[Now] = "applied"
          /\ x = "failed" => seed.fates[Now] \in {"failed", "refused"}
          /\ status # "completed"
          /\ status = "in_progress" =>
               \/ x = "submitted" /\ pc = "poll"
               \/ x = "confirmed" /\ pc = IF Now = 1 THEN "read" ELSE "build"
  <2>3. \E x \in Said, pc \in Pcs, status \in Statuses : Moved(x, pc, status)
    <3>1. CASE Answered
      <4>1. CASE seed.fates[Now] = "refused"
        <5>1. seed' = [seed EXCEPT !.journal[Now] = "failed", !.pc = seed.pc, !.status = "failed"]
          BY <1>2, <3>1, <4>1 DEF Answered
        <5>2. Moved("failed", seed.pc, "failed")
          BY <4>1, <5>1
        <5> HIDE DEF Moved
        <5> QED
          BY <1>2, <1>5, <5>2
      <4>2. CASE seed.fates[Now] # "refused"
        <5>1. seed' = [seed EXCEPT !.journal[Now] = "submitted", !.pc = "poll",
                                   !.status = "in_progress"]
          BY <1>2, <2>1, <3>1, <4>2 DEF Answered
        <5>2. Moved("submitted", "poll", "in_progress")
          BY <5>1
        <5> HIDE DEF Moved
        <5> QED
          BY <1>5, <5>2
      <4> QED
        BY <4>1, <4>2
    <3>2. CASE Poll
      <4>1. CASE /\ seed.fates[Now] = "applied"
                 /\ seed' = [seed EXCEPT !.journal[Now] = "confirmed",
                                         !.pc = IF Now = 1 THEN "read" ELSE "build"]
        <5> DEFINE pc == IF Now = 1 THEN "read" ELSE "build"
        <5>1. seed' = [seed EXCEPT !.journal[Now] = "confirmed", !.pc = pc,
                                   !.status = "in_progress"]
          BY <1>2, <2>1, <4>1
        <5>2. pc \in Pcs
          BY <1>5
        <5> HIDE DEF pc
        <5>3. Moved("confirmed", pc, "in_progress")
          BY <4>1, <5>1 DEF pc
        <5> HIDE DEF Moved
        <5> QED
          BY <1>5, <5>2, <5>3
      <4>2. CASE /\ seed.fates[Now] = "failed"
                 /\ seed' = [seed EXCEPT !.journal[Now] = "failed", !.status = "failed"]
        <5>1. seed' = [seed EXCEPT !.journal[Now] = "failed", !.pc = seed.pc, !.status = "failed"]
          BY <1>2, <4>2
        <5>2. Moved("failed", seed.pc, "failed")
          BY <4>2, <5>1
        <5> HIDE DEF Moved
        <5> QED
          BY <1>2, <1>5, <5>2
      <4>3. CASE seed' = [seed EXCEPT !.journal[Now] = "timeout", !.status = "failed"]
        <5>1. seed' = [seed EXCEPT !.journal[Now] = "timeout", !.pc = seed.pc, !.status = "failed"]
          BY <1>2, <4>3
        <5>2. Moved("timeout", seed.pc, "failed")
          BY <5>1
        <5> HIDE DEF Moved
        <5> QED
          BY <1>2, <1>5, <5>2
      <4> QED
        BY <3>2, <4>1, <4>2, <4>3 DEF Poll
    <3> QED
      BY <1>9, <3>1, <3>2
  <2> HIDE DEF Moved
  <2>9. PICK x \in Said, pc \in Pcs, status \in Statuses : Moved(x, pc, status)
    BY <2>3
  <2> USE DEF Moved
  <2>4. /\ seed'.journal = [seed.journal EXCEPT ![Now] = x]
        /\ seed'.fates = seed.fates /\ seed'.made = seed.made
        /\ seed'.circleAddress = seed.circleAddress /\ seed'.status = status
        /\ seed'.pc = pc /\ seed'.joined = seed.joined /\ seed'.paid = seed.paid
        /\ seed' = [pc |-> pc, status |-> status, journal |-> seed'.journal,
                    fates |-> seed.fates, circleAddress |-> seed.circleAddress,
                    made |-> seed.made, joined |-> seed.joined, paid |-> seed.paid]
    BY <1>2, <2>9
  <2>5. /\ seed'.journal \in Seq(Said) /\ Len(seed'.journal) = Now
        /\ \A j \in 1..Now : seed'.journal[j] = IF j = Now THEN x ELSE seed.journal[j]
    <3> DEFINE s == seed.journal
    <3>1. s \in Seq(Said) /\ Now = Len(s) /\ seed'.journal = [s EXCEPT ![Now] = x]
      BY <1>2, <2>4
    <3> HIDE DEF s
    <3>2. /\ [s EXCEPT ![Now] = x] \in Seq(Said) /\ Len([s EXCEPT ![Now] = x]) = Len(s)
          /\ \A j \in 1..Len(s) : [s EXCEPT ![Now] = x][j] = IF j = Now THEN x ELSE s[j]
      BY <2>2, <2>9, <3>1, EntryIs
    <3> QED
      BY <3>1, <3>2 DEF s
  <2>6. SeedTyped'
    BY <1>2, <2>9, <2>4, <2>5 DEF SeedTyped
  <2>7. Now' = Now
    BY <2>5 DEF Now
  <2>8. Journalled'
    BY <1>2, <1>3, <2>2, <2>9, <2>4, <2>5, <2>7 DEF Journalled
  <2> QED
    BY <1>1, <1>4, <2>4, <2>6, <2>7, <2>8, SeededStays DEF SeedInv
<1>10. CASE ReadCircle
  <2>1. /\ seed.status = "in_progress" /\ seed.pc = "read"
        /\ seed' = [seed EXCEPT !.pc = "build", !.circleAddress = {Last(Circles)}]
    BY <1>10 DEF ReadCircle, Seeding
  <2>2. /\ seed'.journal = seed.journal /\ seed'.fates = seed.fates /\ seed'.made = seed.made
        /\ seed'.circleAddress = {Last(Circles)} /\ seed'.status = "in_progress"
        /\ seed'.pc = "build"
    BY <1>2, <2>1
  <2>3. Now' = Now /\ Now = 1 /\ Len(seed.fates) = 1 /\ seed.journal[1] = "confirmed"
    BY <1>3, <2>1, <2>2 DEF Now, Journalled
  <2>4. Last(Circles) \in Circle
    <3>1. IsApplied(1)
      BY <1>3, <2>3 DEF IsApplied, Journalled
    <3>2. DOMAIN circle # {} /\ Circles \in Seq(Circle) /\ Range(Circles) = DOMAIN circle
      BY <3>1 DEF SeedInv, Seeded, Inv, Registry, ListsOK
    <3>3. Len(Circles) \in 1..Len(Circles)
      <4>1. Len(Circles) \in Nat
        BY <3>2
      <4>2. Len(Circles) # 0
        BY <3>2 DEF Range
      <4> QED
        BY <4>1, <4>2
    <3> QED
      BY <3>2, <3>3 DEF Last
  <2>5. SeedTyped'
    <3>1. {Last(Circles)} \in SUBSET Circle
      BY <2>4
    <3> QED
      BY <1>2, <1>5, <2>1, <3>1 DEF SeedTyped
  <2>6. Journalled'
    BY <1>2, <1>3, <2>1, <2>2, <2>3 DEF Journalled
  <2> QED
    BY <1>1, <2>2, <2>3, <2>5, <2>6, SeededStays DEF SeedInv
<1>11. CASE Complete \/ StopSeed
  <2>1. PICK status \in {"completed", "failed", "killed"} :
          /\ seed.status = "in_progress" /\ seed' = [seed EXCEPT !.status = status]
          /\ status = "completed" => seed.pc = "build" /\ Now = 7
    BY <1>3, <1>11 DEF Complete, StopSeed, Seeding
  <2>2. /\ seed'.journal = seed.journal /\ seed'.fates = seed.fates /\ seed'.made = seed.made
        /\ seed'.circleAddress = seed.circleAddress /\ seed'.status = status
        /\ seed'.pc = seed.pc
    BY <1>2, <2>1
  <2>3. SeedTyped'
    BY <1>2, <1>5, <2>1 DEF SeedTyped
  <2>4. Now' = Now
    BY <2>2 DEF Now
  <2>5. Journalled'
    <3>1. status = "completed" => Len(seed.fates) = Now /\ seed.journal[Now] = "confirmed"
      BY <1>3, <2>1 DEF Journalled
    <3>2. status # "in_progress"
      BY <2>1
    <3>3. status = "completed" => Now = 7
      BY <2>1
    <3> QED
      BY <1>3, <2>2, <2>4, <3>1, <3>2, <3>3 DEF Journalled
  <2> QED
    BY <1>1, <1>4, <2>2, <2>3, <2>4, <2>5, SeededStays DEF SeedInv
<1> QED
  BY <1>6, <1>7, <1>8, <1>9, <1>10, <1>11 DEF SeederStep

\* The last transaction is settled: it was accepted, so the journal has not
\* called it confirmed or failed yet.
LEMMA JournalSettles ==
  ASSUME SeedInv, NEW x \in {"applied", "failed"},
         Len(seed.fates) > 0, seed.fates[Len(seed.fates)] = "accepted",
         seed'.fates = [seed.fates EXCEPT ![Len(seed.fates)] = x],
         seed'.journal = seed.journal, seed'.pc = seed.pc, seed'.status = seed.status
  PROVE  /\ Journalled' /\ Now' = Now
         /\ seed'.fates \in Seq(Fates) /\ Len(seed'.fates) = Len(seed.fates)
         /\ seed.journal[Len(seed.fates)] \notin {"confirmed", "failed"}
         /\ \A j \in 1..Len(seed.fates) :
              seed'.fates[j] = IF j = Len(seed.fates) THEN x ELSE seed.fates[j]
<1>1. /\ seed.journal \in Seq(Said) /\ seed.fates \in Seq(Fates)
      /\ Now = Len(seed.journal) /\ Now \in 0..7 /\ Len(seed.fates) \in 0..Now
  BY SeedFacts
<1> DEFINE s == seed.fates
           n == Len(seed.fates)
<1>2. n \in 1..Len(s) /\ s \in Seq(Fates) /\ x \in Fates
  BY <1>1 DEF Fates
<1> HIDE DEF s, n
<1>3. /\ [s EXCEPT ![n] = x] \in Seq(Fates) /\ Len([s EXCEPT ![n] = x]) = Len(s)
      /\ \A j \in 1..Len(s) : [s EXCEPT ![n] = x][j] = IF j = n THEN x ELSE s[j]
  BY <1>2, EntryIs
<1>4. /\ seed'.fates \in Seq(Fates) /\ Len(seed'.fates) = Len(seed.fates)
      /\ \A j \in 1..Len(seed.fates) :
           seed'.fates[j] = IF j = Len(seed.fates) THEN x ELSE seed.fates[j]
  BY <1>3 DEF s, n
<1>5. Journalled /\ Len(SeedSteps) = 7 /\ Now' = Now
  BY DEF SeedInv, SeedSteps, Now
<1>6. seed.journal[Len(seed.fates)] \notin {"confirmed", "failed"}
  BY <1>1, <1>5 DEF Journalled
<1>7. Journalled'
  BY <1>1, <1>4, <1>5, <1>6 DEF Journalled
<1> QED
  BY <1>4, <1>5, <1>6, <1>7

\* Only the sixth of the seeder's steps is a payout, of the first of its accounts.
LEMMA PayoutIsSixth ==
  ASSUME NEW i \in 1..7
  PROVE  Step(i)[1] = "payout" <=> i = 6
BY DEF Step, SeedSteps

\* What the steps after the creation are, and whose.
LEMMA StepKinds ==
  ASSUME NEW i \in 2..7
  PROVE  /\ Step(i)[1] \in {"join", "contribute", "payout"}
         /\ Step(i)[2] \in {1, 2}
<1>1. i = 2 \/ i = 3 \/ i = 4 \/ i = 5 \/ i = 6 \/ i = 7
  OBVIOUS
<1> QED
  BY <1>1 DEF Step, SeedSteps

\* The factory's invariant does not look at the points.
LEMMA AwardKeepsInv ==
  ASSUME Inv, NEW c, NEW m, increment(c, m), UNCHANGED facVars
  PROVE  Inv'
<1>1. UNCHANGED <<admin, AuthorizedCallers, RevokedCallers, config, Circles, CircleCount,
                  circle, ledger>>
  BY DEF increment, facVars
<1> QED
  BY <1>1 DEF Inv, ListsOK, Counted, Registry, NothingYet, Disjoint, AllowlistIsRegistry

\* What can be settled is the last transaction, if it was accepted.
LEMMA SettlesLast ==
  ASSUME Settle
  PROVE  Len(seed.fates) > 0 /\ seed.fates[Len(seed.fates)] = "accepted"
<1> DEFINE n == Len(seed.fates)
<1>1. (n > 0 /\ seed.fates[n] = "accepted") /\ TRUE
  BY ZenonT(60) DEF Settle
<1> QED
  BY <1>1

\* The network settles the run's last transaction: the first of them creates the
\* run's circle, the others act on the circle the run has read, which is that one.
LEMMA SettleKeeps ==
  ASSUME Inv, AwardsOK, SeedInv, Settle
  PROVE  Inv' /\ AwardsOK' /\ SeedInv'
<1> DEFINE n == Len(seed.fates)
           first == SeedMembers[1]
<1>1. /\ seed.journal \in Seq(Said) /\ seed.fates \in Seq(Fates)
      /\ Now = Len(seed.journal) /\ Now \in 0..7 /\ Len(seed.fates) \in 0..Now
      /\ seed.circleAddress \in SUBSET Circle /\ seed.made \in SUBSET Circle
      /\ seed.joined \in SUBSET Seeds /\ seed.paid \in SUBSET Seeds
      /\ seed.pc \in Pcs /\ seed.status \in Statuses
      /\ seed = [pc |-> seed.pc, status |-> seed.status, journal |-> seed.journal,
                 fates |-> seed.fates, circleAddress |-> seed.circleAddress,
                 made |-> seed.made, joined |-> seed.joined, paid |-> seed.paid]
  BY SeedFacts
<1>2. n > 0 /\ seed.fates[n] = "accepted" /\ n \in 1..7
  <2>1. n > 0 /\ seed.fates[n] = "accepted"
    BY SettlesLast
  <2>2. n \in 0..Now /\ Now \in 0..7
    BY <1>1, Zenon
  <2>3. n \in 1..7
    <3> DEFINE now == Now
    <3>1. n > 0 /\ n \in 0..now /\ now \in 0..7
      BY <2>1, <2>2
    <3> HIDE DEF n, now
    <3> QED
      BY <3>1
  <2> QED
    BY <2>1, <2>3
<1>3. Seeded /\ Seeds \subseteq Member /\ first \in Seeds /\ first \in Member
  <2>1. SeedMembers[1] \in Range(SeedMembers) /\ Range(SeedMembers) \subseteq Member
    BY DeploymentAssumption DEF Range
  <2> QED
    BY <2>1 DEF SeedInv, Seeds
<1>4. "alice" \in Creator
  BY DeploymentAssumption
<1>5. \A i \in 1..7 : IsApplied(i) <=> i <= n /\ seed.fates[i] = "applied"
  BY <1>1 DEF IsApplied
<1>6. ASSUME n = 1,
             create_circle("alice", SeedMembers, 50, MIN_ROUND_DEADLINE_LEDGERS),
             seed' = [[seed EXCEPT !.made = {Last(Circles')}] EXCEPT !.fates[n] = "applied"]
      PROVE  Inv' /\ AwardsOK' /\ SeedInv'
  <2> DEFINE c == Last(Circles')
  <2>1. /\ c \in Circle \ DOMAIN circle
        /\ DOMAIN circle' = DOMAIN circle \cup {c} /\ circle'[c].members = SeedMembers
        /\ \A x \in DOMAIN circle : circle'[x] = circle[x]
        /\ UNCHANGED awards
    BY <1>4, <1>6, CreationAdds
  <2>2. Inv'
    BY <1>4, <1>6, CreateKeepsInv
  <2>3. AwardsOK'
    BY <2>1 DEF AwardsOK
  <2> HIDE DEF c
  <2>4. /\ seed'.fates = [seed.fates EXCEPT ![n] = "applied"] /\ seed'.journal = seed.journal
        /\ seed'.pc = seed.pc /\ seed'.status = seed.status /\ seed'.made = {c}
        /\ seed'.circleAddress = seed.circleAddress
        /\ seed' = [pc |-> seed.pc, status |-> seed.status, journal |-> seed.journal,
                    fates |-> seed'.fates, circleAddress |-> seed.circleAddress,
                    made |-> {c}, joined |-> seed.joined, paid |-> seed.paid]
    BY <1>1, <1>6 DEF c
  <2>5. /\ Journalled' /\ Now' = Now
        /\ seed'.fates \in Seq(Fates) /\ Len(seed'.fates) = n
        /\ seed.journal[n] \notin {"confirmed", "failed"}
        /\ \A j \in 1..n : seed'.fates[j] = IF j = n THEN "applied" ELSE seed.fates[j]
    BY <1>2, <2>4, JournalSettles
  <2>6. SeedTyped'
    <3>1. {c} \in SUBSET Circle
      BY <2>1
    <3> QED
      BY <1>1, <2>4, <2>5, <3>1 DEF SeedTyped
  <2>7. seed.made = {} /\ Now < 2
    BY <1>1, <1>2, <1>3, <1>5, <1>6, <2>5 DEF Seeded, SeedInv, Journalled
  <2>8. IsApplied(1)' /\ ~IsApplied(6)'
    BY <1>6, <2>5 DEF IsApplied
  <2>9. Seeded'
    <3>1. \A d \in Circle, m \in Seeds : awards'[d][m] = 0
      BY <1>3, <2>1, <2>7 DEF Seeded
    <3>2. awards'[c][first] = 0
      BY <1>3, <2>1, <3>1
    <3>3. ASSUME NEW d \in DOMAIN circle' \ {c}, NEW m \in Seeds
          PROVE  m \notin Range(circle'[d].members)
      BY <1>3, <2>1, <2>7, <3>3 DEF Seeded
    <3>4. Now' < 2
      BY <2>5, <2>7
    <3> QED
      BY <1>1, <2>1, <2>4, <2>5, <2>8, <3>1, <3>2, <3>3, <3>4 DEF Seeded
  <2> QED
    BY <2>2, <2>3, <2>5, <2>6, <2>9 DEF SeedInv
<1>7. ASSUME n > 1, CircleTakes(Step(n)), NEW joined \in SUBSET Seeds, NEW paid \in SUBSET Seeds,
             IF Step(n)[1] = "payout"
               THEN /\ \E c \in seed.circleAddress : increment(c, SeedMembers[Step(n)[2]])
                    /\ UNCHANGED facVars
               ELSE UNCHANGED vars,
             seed' = [[seed EXCEPT !.joined = joined, !.paid = paid] EXCEPT !.fates[n] = "applied"]
      PROVE  Inv' /\ AwardsOK' /\ SeedInv'
  <2>1. /\ seed'.fates = [seed.fates EXCEPT ![n] = "applied"] /\ seed'.journal = seed.journal
        /\ seed'.pc = seed.pc /\ seed'.status = seed.status /\ seed'.made = seed.made
        /\ seed'.circleAddress = seed.circleAddress
        /\ seed' = [pc |-> seed.pc, status |-> seed.status, journal |-> seed.journal,
                    fates |-> seed'.fates, circleAddress |-> seed.circleAddress,
                    made |-> seed.made, joined |-> joined, paid |-> paid]
    BY <1>1, <1>7
  <2>2. /\ Journalled' /\ Now' = Now
        /\ seed'.fates \in Seq(Fates) /\ Len(seed'.fates) = n
        /\ \A j \in 1..n : seed'.fates[j] = IF j = n THEN "applied" ELSE seed.fates[j]
    BY <1>2, <2>1, JournalSettles
  <2>3. SeedTyped'
    BY <1>1, <1>7, <2>1, <2>2 DEF SeedTyped
  <2>4. seed.circleAddress = seed.made /\ circle' = circle
    BY <1>7 DEF CircleTakes, vars, facVars
  <2>5. \A i \in 1..7 : IsApplied(i)' <=> i <= n /\ (i = n \/ seed.fates[i] = "applied")
    BY <1>1, <1>2, <2>2 DEF IsApplied
  <2>6. IsApplied(1)' <=> IsApplied(1)
    BY <1>5, <1>7, <2>5
  <2>7. CASE n = 6
    <3>1. Step(n)[1] = "payout" /\ Step(n)[2] = 1
      BY <2>7 DEF Step, SeedSteps
    <3>2. PICK c \in seed.made : increment(c, first)
      BY <1>7, <2>4, <3>1
    <3>3. c \in Circle /\ awards' = [awards EXCEPT ![c][first] = @ + 1] /\ UNCHANGED facVars
      BY <1>1, <1>7, <3>1, <3>2 DEF increment
    <3>4. Inv' /\ AwardsOK'
      BY <3>2, <3>3, AwardKeepsInv, AwardsStep
    <3>5. \A d \in Circle, m \in Member :
            awards'[d][m] = IF d = c /\ m = first THEN awards[d][m] + 1 ELSE awards[d][m]
      BY <1>3, <3>3, AwardSeen
    <3>6. ~IsApplied(6) /\ IsApplied(6)'
      BY <1>2, <1>5, <2>5, <2>7
    <3>7. Seeded'
      <4>1. ASSUME NEW d \in seed.made PROVE awards'[d][first] = 1
        <5>1. d = c /\ awards[d][first] = 0
          BY <1>3, <3>6 DEF Seeded
        <5> QED
          BY <1>3, <3>3, <3>5, <5>1
      <4>2. ASSUME NEW d \in Circle \ seed.made, NEW m \in Seeds PROVE awards'[d][m] = 0
        BY <1>3, <3>5, <4>2 DEF Seeded
      <4> QED
        BY <1>3, <2>1, <2>2, <2>4, <2>6, <3>6, <4>1, <4>2 DEF Seeded
    <3> QED
      BY <2>2, <2>3, <3>4, <3>7 DEF SeedInv
  <2>8. CASE n # 6
    <3>1. UNCHANGED vars
      BY <1>2, <1>7, <2>8, PayoutIsSixth
    <3>2. UNCHANGED awards /\ Inv'
      BY <3>1, InvNext DEF vars, repVars
    <3>3. AwardsOK'
      BY <3>2 DEF AwardsOK
    <3>4. IsApplied(6)' <=> IsApplied(6)
      BY <1>5, <2>5, <2>8
    <3>5. Seeded'
      BY <1>3, <2>1, <2>2, <2>4, <2>6, <3>2, <3>4 DEF Seeded
    <3> QED
      BY <2>2, <2>3, <3>2, <3>3, <3>5 DEF SeedInv
  <2> QED
    BY <2>7, <2>8
<1>8. ASSUME seed' = [seed EXCEPT !.fates[n] = "failed"], UNCHANGED vars
      PROVE  Inv' /\ AwardsOK' /\ SeedInv'
  <2>1. /\ seed'.fates = [seed.fates EXCEPT ![n] = "failed"] /\ seed'.journal = seed.journal
        /\ seed'.pc = seed.pc /\ seed'.status = seed.status /\ seed'.made = seed.made
        /\ seed'.circleAddress = seed.circleAddress
        /\ seed' = [pc |-> seed.pc, status |-> seed.status, journal |-> seed.journal,
                    fates |-> seed'.fates, circleAddress |-> seed.circleAddress,
                    made |-> seed.made, joined |-> seed.joined, paid |-> seed.paid]
    BY <1>1, <1>8
  <2>2. /\ Journalled' /\ Now' = Now
        /\ seed'.fates \in Seq(Fates) /\ Len(seed'.fates) = n
        /\ \A j \in 1..n : seed'.fates[j] = IF j = n THEN "failed" ELSE seed.fates[j]
    BY <1>2, <2>1, JournalSettles
  <2>3. SeedTyped'
    <3> DEFINE f == seed'.fates
    <3>1. /\ f \in Seq(Fates)
          /\ seed' = [pc |-> seed.pc, status |-> seed.status, journal |-> seed.journal,
                      fates |-> f, circleAddress |-> seed.circleAddress,
                      made |-> seed.made, joined |-> seed.joined, paid |-> seed.paid]
      BY <2>1, <2>2
    <3> HIDE DEF f
    <3> QED
      BY <1>1, <3>1 DEF SeedTyped
  <2>4. UNCHANGED <<awards, circle>> /\ Inv'
    BY <1>8, InvNext DEF vars, repVars, facVars
  <2>5. AwardsOK'
    BY <2>4 DEF AwardsOK
  <2>6. \A i \in 1..7 : IsApplied(i)' <=> IsApplied(i)
    BY <1>1, <1>2, <2>2 DEF IsApplied
  <2>7. Seeded'
    BY <1>3, <2>1, <2>2, <2>4, <2>6 DEF Seeded
  <2> QED
    BY <2>2, <2>3, <2>4, <2>5, <2>7 DEF SeedInv
<1>9. CASE /\ n > 1 /\ CircleTakes(Step(n))
           /\ IF Step(n)[1] = "payout"
                THEN /\ \E c \in seed.circleAddress : increment(c, SeedMembers[Step(n)[2]])
                     /\ UNCHANGED facVars
                ELSE UNCHANGED vars
           /\ LET m == SeedMembers[Step(n)[2]]
              IN  seed' = [(CASE Step(n)[1] = "join"       -> [seed EXCEPT !.joined = @ \cup {m}]
                              [] Step(n)[1] = "contribute" -> [seed EXCEPT !.paid = @ \cup {m}]
                              [] Step(n)[1] = "payout"     -> [seed EXCEPT !.paid = {}])
                           EXCEPT !.fates[n] = "applied"]
  <2> DEFINE m == SeedMembers[Step(n)[2]]
  <2>1. m \in Seeds
    <3>1. n \in 2..7
      BY <1>2, <1>9
    <3>2. Step(n)[2] \in {1, 2}
      BY <3>1, StepKinds
    <3> QED
      BY <3>2, DeploymentAssumption DEF Seeds, Range
  <2>2. Step(n)[1] \in {"join", "contribute", "payout"}
    <3>1. n \in 2..7
      BY <1>2, <1>9
    <3> QED
      BY <3>1, StepKinds
  <2> HIDE DEF m
  <2>3. PICK joined \in SUBSET Seeds, paid \in SUBSET Seeds :
          seed' = [[seed EXCEPT !.joined = joined, !.paid = paid] EXCEPT !.fates[n] = "applied"]
    <3> DEFINE Done(j, p) ==
                 seed' = [[seed EXCEPT !.joined = j, !.paid = p] EXCEPT !.fates[n] = "applied"]
    <3>1. CASE Step(n)[1] = "join"
      <4>1. Done(seed.joined \cup {m}, seed.paid)
        BY <1>1, <1>9, <3>1 DEF m
      <4> HIDE DEF Done
      <4>2. seed.joined \cup {m} \in SUBSET Seeds
        BY <1>1, <2>1
      <4>3. \E j \in SUBSET Seeds, p \in SUBSET Seeds : Done(j, p)
        BY <1>1, <4>1, <4>2
      <4> QED
        BY <4>3 DEF Done
    <3>2. CASE Step(n)[1] = "contribute"
      <4>1. Done(seed.joined, seed.paid \cup {m})
        BY <1>1, <1>9, <3>2 DEF m
      <4> HIDE DEF Done
      <4>2. seed.paid \cup {m} \in SUBSET Seeds
        BY <1>1, <2>1
      <4>3. \E j \in SUBSET Seeds, p \in SUBSET Seeds : Done(j, p)
        BY <1>1, <4>1, <4>2
      <4> QED
        BY <4>3 DEF Done
    <3>3. CASE Step(n)[1] = "payout"
      <4>1. Done(seed.joined, {})
        BY <1>1, <1>9, <3>3
      <4> HIDE DEF Done
      <4>2. \E j \in SUBSET Seeds, p \in SUBSET Seeds : Done(j, p)
        BY <1>1, <4>1
      <4> QED
        BY <4>2 DEF Done
    <3> QED
      BY <2>2, <3>1, <3>2, <3>3
  <2> QED
    BY <1>7, <1>9, <2>3
<1> QED
  BY <1>6, <1>8, <1>9 DEF Settle

\* A creation for other members than the seeder's, while the seeder does nothing.
LEMMA CreationKeeps ==
  ASSUME Inv, AwardsOK, SeedInv, NEW creator \in Creator, NEW ms, NEW amount, NEW deadline,
         Range(ms) \cap Seeds = {}, create_circle(creator, ms, amount, deadline),
         UNCHANGED seed
  PROVE  Inv' /\ AwardsOK' /\ SeedInv'
<1> DEFINE c == derive_circle_salt(creator)
<1>1. /\ c \in Circle \ DOMAIN circle
      /\ DOMAIN circle' = DOMAIN circle \cup {c} /\ circle'[c].members = ms
      /\ \A x \in DOMAIN circle : circle'[x] = circle[x]
      /\ UNCHANGED awards
  BY CreationAdds
<1>2. Inv'
  BY CreateKeepsInv
<1> HIDE DEF c
<1>3. AwardsOK'
  BY <1>1 DEF AwardsOK
<1>4. SeedTyped' /\ Journalled'
  BY DEF SeedInv, SeedTyped, Journalled, Now
<1>5. Seeded'
  <2>1. Now' = Now /\ IsApplied(1)' = IsApplied(1) /\ IsApplied(6)' = IsApplied(6)
    BY DEF Now, IsApplied
  <2>2. Seeded
    BY DEF SeedInv
  <2>3. ASSUME NEW d \in DOMAIN circle' \ seed.made, NEW m \in Seeds
        PROVE  m \notin Range(circle'[d].members)
    BY <1>1, <2>2, <2>3 DEF Seeded
  <2> QED
    BY <1>1, <2>1, <2>2, <2>3 DEF Seeded
<1> QED
  BY <1>2, <1>3, <1>4, <1>5 DEF SeedInv

\* The contracts and the page, before anything is seeded.
LEMMA CreateNextKeeps ==
  ASSUME Inv, AwardsOK, SeedInv, seed = SeedInit, CreateNext, UNCHANGED seed
  PROVE  Inv' /\ AwardsOK' /\ SeedInv'
<1>1. SeedTyped' /\ Journalled'
  BY DEF SeedInv, SeedTyped, Journalled, Now
<1>2. /\ Now' = Now /\ IsApplied(1)' = IsApplied(1) /\ IsApplied(6)' = IsApplied(6)
      /\ Seeded /\ seed.made = {}
  BY DEF Now, IsApplied, SeedInv, SeedInit
<1>3. ASSUME UNCHANGED <<circle, awards>>, Inv' PROVE Inv' /\ AwardsOK' /\ SeedInv'
  <2>1. Seeded' /\ AwardsOK'
    BY <1>2, <1>3 DEF Seeded, AwardsOK
  <2> QED
    BY <1>1, <1>3, <2>1 DEF SeedInv
<1>4. CASE Submit
  <2>1. Inv' /\ UNCHANGED <<circle, awards>>
    BY <1>4, InvNext DEF Submit, vars, repVars, facVars
  <2> QED
    BY <1>3, <2>1
<1>5. CASE SdkCreate
  <2>1. PICK p \in CreateParams : \E call \in createCircle(p) :
          create_circle(call[1].v, call[2].v, call[3].v, call[4].v)
    BY <1>5 DEF SdkCreate
  <2>2. PICK call \in createCircle(p) :
          create_circle(call[1].v, call[2].v, call[3].v, call[4].v)
    BY <2>1
  <2>3. call \in Calls
    BY <2>1, <2>2 DEF Calls
  <2>4. call[1].v \in Creator /\ Range(call[2].v) \cap Seeds = {}
    BY <2>3, DeploymentAssumption DEF Calls, Seeds
  <2> QED
    BY <2>2, <2>4, CreationKeeps
<1>6. CASE Next
  <2>1. Inv'
    BY <1>6, InvNext
  <2>2. ASSUME NEW creator \in Creator, NEW ms \in MemberLists, NEW amount \in Amounts,
               NEW deadline \in Deadlines, create_circle(creator, ms, amount, deadline)
        PROVE  Inv' /\ AwardsOK' /\ SeedInv'
    <3>1. Range(ms) \cap Seeds = {}
      BY DeploymentAssumption DEF Seeds
    <3> QED
      BY <2>2, <3>1, CreationKeeps
  <2>3. CASE CircleAwards
    <3>1. PICK d \in DOMAIN circle : \E m \in Range(circle[d].members) : increment(d, m)
      BY <2>3 DEF CircleAwards
    <3>2. PICK m \in Range(circle[d].members) : increment(d, m)
      BY <3>1
    <3>3. d \in Circle /\ m \notin Seeds /\ circle' = circle
      BY <1>2, <2>3 DEF CircleAwards, facVars, Seeded, Inv, Registry, ListsOK, Range
    <3>4. awards' = [awards EXCEPT ![d][m] = @ + 1]
      BY <3>2 DEF increment
    <3>5. AwardsOK'
      BY <3>4, AwardsStep
    <3>6. ASSUME NEW c \in Circle, NEW x \in Seeds PROVE awards'[c][x] = awards[c][x]
      <4>1. awards[c] \in [Member -> Nat] /\ x # m
        BY <3>3 DEF AwardsOK
      <4>2. awards'[c] = IF c = d THEN [awards[d] EXCEPT ![m] = @ + 1] ELSE awards[c]
        BY <3>4 DEF AwardsOK
      <4>3. x \in Member
        BY DeploymentAssumption DEF Seeds, Range
      <4> QED
        BY <4>1, <4>2, <4>3
    <3>8. Seeded'
      BY <1>2, <3>3, <3>6 DEF Seeded
    <3> QED
      BY <1>1, <2>1, <3>5, <3>8 DEF SeedInv
  <2>4. CASE UNCHANGED <<circle, awards>>
    BY <1>3, <2>1, <2>4
  <2> QED
    BY <1>6, <2>2, <2>3, <2>4 DEF Next, FactoryInitialize, RepSetup, ManageByHand, AdvanceLedger,
         add_authorized_caller, remove_authorized_caller, AddCaller, repVars, facVars
<1> QED
  BY <1>4, <1>5, <1>6 DEF CreateNext

\* The tool starts.
LEMMA StartSeedKeeps ==
  ASSUME Inv, AwardsOK, SeedInv, StartSeed, UNCHANGED allVars
  PROVE  Inv' /\ AwardsOK' /\ SeedInv'
<1>1. UNCHANGED <<circle, awards>> /\ Inv'
  BY InvNext DEF allVars, vars, repVars, facVars
<1>2. seed = SeedInit /\ seed' = [seed EXCEPT !.pc = "fund", !.status = "in_progress"]
  BY DEF StartSeed
<1>3. /\ seed'.journal = <<>> /\ seed'.fates = <<>> /\ seed'.made = {}
      /\ seed'.circleAddress = {} /\ seed'.status = "in_progress" /\ seed'.pc = "fund"
      /\ seed.journal = <<>> /\ seed.fates = <<>> /\ seed.made = {}
      /\ seed' = [pc |-> "fund", status |-> "in_progress", journal |-> <<>>, fates |-> <<>>,
                  circleAddress |-> {}, made |-> {}, joined |-> {}, paid |-> {}]
  BY <1>2 DEF SeedInit
<1>4. Now' = 0 /\ Now = 0 /\ Len(seed'.fates) = 0
  BY <1>3 DEF Now
<1>5. SeedTyped'
  <2>1. <<>> \in Seq(Said) /\ <<>> \in Seq(Fates) /\ "fund" \in Pcs /\ "in_progress" \in Statuses
    BY DEF Pcs, Statuses
  <2> QED
    BY <1>3, <2>1 DEF SeedTyped
<1>6. Journalled'
  BY <1>3, <1>4 DEF Journalled, SeedSteps
<1>7. Seeded'
  BY <1>1, <1>3, <1>4, SeededStays
<1>8. AwardsOK'
  BY <1>1 DEF AwardsOK
<1> QED
  BY <1>1, <1>5, <1>6, <1>7, <1>8 DEF SeedInv

\* Every step of the contracts, the page and the tools keeps the three.
LEMMA SeedNext ==
  Inv /\ AwardsOK /\ SeedInv /\ [DeployNext]_deployVars => Inv' /\ AwardsOK' /\ SeedInv'
<1> SUFFICES ASSUME Inv, AwardsOK, SeedInv, [DeployNext]_deployVars
             PROVE  Inv' /\ AwardsOK' /\ SeedInv'
  OBVIOUS
<1>1. ASSUME UNCHANGED allVars, UNCHANGED seed PROVE Inv' /\ AwardsOK' /\ SeedInv'
  <2>1. UNCHANGED <<circle, awards>> /\ Inv'
    BY <1>1, InvNext DEF allVars, vars, repVars, facVars
  <2>2. AwardsOK'
    BY <2>1 DEF AwardsOK
  <2>3. SeedTyped' /\ Journalled' /\ Seeded'
    BY <1>1, <2>1 DEF SeedInv, SeedTyped, Journalled, Now, Seeded, IsApplied
  <2> QED
    BY <2>1, <2>2, <2>3 DEF SeedInv
<1>2. CASE seed = SeedInit /\ CreateNext /\ UNCHANGED opsVars
  BY <1>2, CreateNextKeeps DEF opsVars
<1>3. CASE OpsStep \/ UNCHANGED deployVars
  BY <1>1, <1>3 DEF OpsStep, deployVars, opsVars
<1>4. CASE StartSeed /\ UNCHANGED allVars
  BY <1>4, StartSeedKeeps
<1>5. CASE SeederStep /\ UNCHANGED allVars
  <2>1. UNCHANGED awards /\ Inv'
    BY <1>5, InvNext DEF allVars, vars, repVars
  <2>2. AwardsOK'
    BY <2>1 DEF AwardsOK
  <2> QED
    BY <1>5, <2>1, <2>2, SeederKeeps
<1>6. CASE Settle
  BY <1>6, SettleKeeps
<1>7. CASE OthersCreate
  <2>1. PICK ms \in MemberLists :
          create_circle("alice", ms, 50, MIN_ROUND_DEADLINE_LEDGERS) /\ UNCHANGED seed
    BY <1>7 DEF OthersCreate, opsVars
  <2>2. Range(ms) \cap Seeds = {} /\ "alice" \in Creator
    BY DeploymentAssumption DEF Seeds
  <2> QED
    BY <2>1, <2>2, CreationKeeps
<1> QED
  BY <1>2, <1>3, <1>4, <1>5, <1>6, <1>7 DEF DeployNext, allVars

\* Whatever happens between a transaction's journal entry, its submission, the
\* answer and its settlement, whenever the run stops, and whoever else creates
\* circles of the same factory meanwhile: the journal tells the truth, and the
\* seeder acts on no circle but its own (scripts/src/seed-demo.ts).
THEOREM JournalHolds == DeploySpec => []JournalIsHonest
<1>1. DeployInit => Inv /\ AwardsOK /\ SeedInv
  <2>1. DeployInit => Inv /\ SeedInv
    BY InvInit, SeedStarts DEF DeployInit, CreateInit
  <2>2. DeployInit => AwardsOK
    BY DEF DeployInit, CreateInit, Init, RepInit, AwardsOK
  <2> QED
    BY <2>1, <2>2
<1>2. Inv /\ SeedInv => JournalIsHonest
  BY JournalSuffices
<1> QED
  BY <1>1, <1>2, SeedNext, PTL DEF DeploySpec

-----------------------------------------------------------------------------
(* The manifest.                                                           *)

\* What is over something else keeps its own fields and lends the others.
LEMMA OverIs ==
  ASSUME NEW r, NEW d
  PROVE  /\ DOMAIN Over(r, d) = DOMAIN r \cup DOMAIN d
         /\ \A f \in DOMAIN r : Over(r, d)[f] = r[f]
         /\ \A f \in DOMAIN d \ DOMAIN r : Over(r, d)[f] = d[f]
BY DEF Over

\* The known networks, and that each has a passphrase of its own.
LEMMA NetworksAre ==
  /\ DOMAIN KNOWN_NETWORKS = {"testnet", "mainnet", "futurenet"}
  /\ KNOWN_NETWORKS["testnet"] = "test passphrase"
  /\ KNOWN_NETWORKS["mainnet"] = "public passphrase"
  /\ KNOWN_NETWORKS["futurenet"] = "future passphrase"
  /\ \A n \in DOMAIN KNOWN_NETWORKS : KNOWN_NETWORKS[n] # ""
  /\ \A n, o \in DOMAIN KNOWN_NETWORKS : KNOWN_NETWORKS[n] = KNOWN_NETWORKS[o] => n = o
<1>1. DOMAIN KNOWN_NETWORKS = {"testnet", "mainnet", "futurenet"}
  BY DEF KNOWN_NETWORKS
<1>2. /\ KNOWN_NETWORKS["testnet"] = "test passphrase"
      /\ KNOWN_NETWORKS["mainnet"] = "public passphrase"
      /\ KNOWN_NETWORKS["futurenet"] = "future passphrase"
  BY DEF KNOWN_NETWORKS
<1>3. \A n \in DOMAIN KNOWN_NETWORKS : KNOWN_NETWORKS[n] # ""
  BY <1>1, <1>2
<1>4. \A n, o \in DOMAIN KNOWN_NETWORKS : KNOWN_NETWORKS[n] = KNOWN_NETWORKS[o] => n = o
  BY <1>1, <1>2
<1> QED
  BY <1>1, <1>2, <1>3, <1>4

Given == {"network", "networkPassphrase", "deployerPublicKey", "rustToolchain",
          "sorobanSdkVersion", "reputation", "circleFactory", "circlWasmHash", "usdc"}

\* What is written: the input's fields, the version, the date and the checksum
\* of all of these.
IsWritten(m, input, k) ==
  /\ DOMAIN m = Given \cup {"manifestVersion", "deployedAt", "unknownField", "integrityHash"}
  /\ \A f \in Given : m[f] = input[f]
  /\ m["manifestVersion"] = "2" /\ m["deployedAt"] = k /\ m["unknownField"] = FALSE
  /\ m["integrityHash"] = computeIntegrityHash(m)
  /\ m["integrityHash"] # <<>>
  /\ input.network \in DOMAIN KNOWN_NETWORKS /\ missingFields(input) = {}
  /\ input.networkPassphrase = resolvePassphrase(input.network)
  /\ input.reputation.wasmHash \in Versions /\ input.circleFactory.wasmHash \in Versions
  /\ input.circlWasmHash \in Versions

\* What the writer of the manifest puts on disk.
LEMMA WrittenIs ==
  ASSUME NEW input, DOMAIN input = Given, NEW k, NEW m \in writeManifest(input, k)
  PROVE  IsWritten(m, input, k)
<1> DEFINE more == [manifestVersion |-> "2", deployedAt |-> k, unknownField |-> FALSE]
           partial == Over(input, more)
           seal == [integrityHash |-> computeIntegrityHash(partial)]
<1>1. /\ input.network \in DOMAIN KNOWN_NETWORKS /\ missingFields(input) = {}
      /\ input.networkPassphrase = resolvePassphrase(input.network)
      /\ input.reputation.wasmHash \in Versions /\ input.circleFactory.wasmHash \in Versions
      /\ input.circlWasmHash \in Versions
      /\ m = Over(partial, seal)
  BY DEF writeManifest, isSha256Hash
<1>2. /\ DOMAIN more = {"manifestVersion", "deployedAt", "unknownField"}
      /\ more["manifestVersion"] = "2" /\ more["deployedAt"] = k /\ more["unknownField"] = FALSE
  OBVIOUS
<1> HIDE DEF more
<1>3. /\ DOMAIN partial = Given \cup {"manifestVersion", "deployedAt", "unknownField"}
      /\ \A f \in Given : partial[f] = input[f]
      /\ partial["manifestVersion"] = "2" /\ partial["deployedAt"] = k
      /\ partial["unknownField"] = FALSE
  <2>1. /\ DOMAIN partial = DOMAIN input \cup DOMAIN more
        /\ \A f \in DOMAIN input : partial[f] = input[f]
        /\ \A f \in DOMAIN more \ DOMAIN input : partial[f] = more[f]
    BY OverIs, Zenon
  <2> HIDE DEF partial
  <2>2. /\ "manifestVersion" \in DOMAIN more \ DOMAIN input
        /\ "deployedAt" \in DOMAIN more \ DOMAIN input
        /\ "unknownField" \in DOMAIN more \ DOMAIN input
    BY <1>2 DEF Given
  <2> QED
    BY <1>2, <2>1, <2>2
<1> HIDE DEF partial
<1>4. DOMAIN seal = {"integrityHash"} /\ seal["integrityHash"] = computeIntegrityHash(partial)
  OBVIOUS
<1> HIDE DEF seal
<1>5. /\ DOMAIN m = Given \cup {"manifestVersion", "deployedAt", "unknownField", "integrityHash"}
      /\ \A f \in DOMAIN partial : m[f] = partial[f]
      /\ m["integrityHash"] = computeIntegrityHash(partial)
  <2>1. /\ DOMAIN m = DOMAIN partial \cup DOMAIN seal
        /\ \A f \in DOMAIN partial : m[f] = partial[f]
        /\ \A f \in DOMAIN seal \ DOMAIN partial : m[f] = seal[f]
    <3>1. /\ DOMAIN Over(partial, seal) = DOMAIN partial \cup DOMAIN seal
          /\ \A f \in DOMAIN partial : Over(partial, seal)[f] = partial[f]
          /\ \A f \in DOMAIN seal \ DOMAIN partial : Over(partial, seal)[f] = seal[f]
      BY OverIs, Zenon
    <3> QED
      BY <1>1, <3>1
  <2>2. "integrityHash" \in DOMAIN seal \ DOMAIN partial
    BY <1>3, <1>4 DEF Given
  <2> QED
    BY <1>3, <1>4, <2>1, <2>2
<1>6. \A f \in Given : m[f] = input[f]
  BY <1>3, <1>5
<1>7. m["manifestVersion"] = "2" /\ m["deployedAt"] = k /\ m["unknownField"] = FALSE
  BY <1>3, <1>5
<1>8. computeIntegrityHash(m) = computeIntegrityHash(partial)
  <2> DEFINE sealed == {"integrityHash", "manifestVersion"}
  <2>1. DOMAIN m \ sealed = DOMAIN partial \ sealed
    BY <1>3, <1>5 DEF Given
  <2>2. \A f \in DOMAIN partial \ sealed : m[f] = partial[f]
    BY <1>5
  <2> HIDE DEF sealed
  <2>3. [f \in DOMAIN m \ sealed |-> m[f]] = [f \in DOMAIN partial \ sealed |-> partial[f]]
    BY <2>1, <2>2
  <2>4. canonicalJson(m) = canonicalJson(partial)
    BY <1>3, <1>7, <2>3 DEF canonicalJson, sealed
  <2> QED
    BY <1>3, <1>7, <2>4 DEF computeIntegrityHash
<1>9. computeIntegrityHash(m) # <<>>
  BY DEF computeIntegrityHash
<1> QED
  BY <1>1, <1>5, <1>6, <1>7, <1>8, <1>9 DEF IsWritten

\* Zero is not negative, in the form the proofs below need it.
LEMMA NotNegative == ASSUME NEW n, n = 0, n < 0 PROVE FALSE
OBVIOUS

\* The date is a natural number above 0, the network the one that is expected,
\* the ledgers are not negative: what is written is valid.
LEMMA WrittenIsValid ==
  ASSUME NEW input, DOMAIN input = Given, NEW k, k # 0, NEW m \in writeManifest(input, k),
         input.reputation.deployedAtLedger = 0, input.circleFactory.deployedAtLedger = 0,
         NEW expected \in {"", input.network}
  PROVE  validateManifest({m}, expected) = {}
<1>1. /\ \A f \in Given : m[f] = input[f]
      /\ m.manifestVersion = "2" /\ m.deployedAt = k /\ m.unknownField = FALSE
      /\ m.integrityHash = computeIntegrityHash(m)
      /\ m.integrityHash # <<>>
      /\ input.network \in DOMAIN KNOWN_NETWORKS /\ missingFields(input) = {}
      /\ input.networkPassphrase = resolvePassphrase(input.network)
  <2>1. IsWritten(m, input, k)
    BY WrittenIs
  <2> QED
    BY <2>1 DEF IsWritten
<1>2. /\ m.network = input.network /\ m.networkPassphrase = input.networkPassphrase
      /\ m.reputation = input.reputation /\ m.circleFactory = input.circleFactory
      /\ \A f \in TextFields : m[f] = input[f]
  <2>1. \A f \in TextFields \cup {"networkPassphrase", "reputation", "circleFactory"} : f \in Given
    BY DEF Given, TextFields
  <2>2. \A f \in TextFields \cup {"networkPassphrase", "reputation", "circleFactory"} : m[f] = input[f]
    BY <1>1, <2>1
  <2>3. "network" \in TextFields
    BY DEF TextFields
  <2> QED
    BY <2>2, <2>3
<1>3. missingFields(m) = {}
  BY <1>1, <1>2 DEF missingFields
<1>4. m.networkPassphrase = KNOWN_NETWORKS[m.network] /\ m.networkPassphrase # ""
  BY <1>1, <1>2, NetworksAre DEF resolvePassphrase
<1>5. (CHOOSE x \in {m} : TRUE) = m
  OBVIOUS
<1>6. ~(\E c \in {m.reputation, m.circleFactory} : c.deployedAtLedger < 0)
  <2>1. m.reputation.deployedAtLedger = 0 /\ m.circleFactory.deployedAtLedger = 0
    BY <1>2
  <2>2. \A c \in {m.reputation, m.circleFactory} : c.deployedAtLedger = 0
    BY <2>1
  <2>3. SUFFICES ASSUME NEW c \in {m.reputation, m.circleFactory}, c.deployedAtLedger < 0
                 PROVE  FALSE
    OBVIOUS
  <2>4. c.deployedAtLedger = 0
    BY <2>2
  <2> QED
    BY <2>3, <2>4, NotNegative, Zenon
<1> QED
  BY <1>1, <1>2, <1>3, <1>4, <1>5, <1>6 DEF validateManifest

-----------------------------------------------------------------------------
(* The deployment: the record of the operators' workspace.                  *)

Hash0 == Versions \cup {""}
Tokens == {"usdc", ""} \cup {TokenId[k] : k \in Nat}
AttemptRec ==
  [reputation : {"absent", "deployed", "initialized"},
   factory : {"absent", "deployed", "initialized"},
   circle : Hash0, repHash : Hash0, facHash : Hash0, usdc : Tokens]

\* A manifest names the contracts of an attempt that are both initialized, with
\* their hashes and their token.
Recorded(m, chain) ==
  LET k == m.deployedAt
  IN  /\ k \in 1..Len(chain)
      /\ chain[k].reputation = "initialized" /\ chain[k].factory = "initialized"
      /\ chain[k].repHash \in Versions /\ chain[k].facHash \in Versions
      /\ chain[k].circle \in Versions
      /\ m.reputation.wasmHash = chain[k].repHash
      /\ m.circleFactory.wasmHash = chain[k].facHash
      /\ m.circlWasmHash = chain[k].circle
      /\ m.reputation.contractId = RepId[k] /\ m.circleFactory.contractId = FacId[k]
      /\ m.usdc = chain[k].usdc
      /\ validateManifest({m}, "testnet") = {}

\* The old summary is of the deployment that the manifest is of, or of an earlier one.
Summarized(l, m) ==
  /\ l.at \in Nat /\ l.at <= m.deployedAt
  /\ l.at = m.deployedAt => /\ l.reputation = m.reputation.contractId
                            /\ l.circleFactory = m.circleFactory.contractId
                            /\ l.usdc = m.usdc

\* The environment a running deployment has read.
Suits(e) == e.network = "testnet" /\ e.usdc \in {"given", "empty", "unset"}

\* A running deployment: the contracts it has initialized, and that the manifest
\* is of an earlier one until it is written.
Running(run, chain, manifest) ==
  /\ DOMAIN run = {"at", "env"} /\ run["at"] \in 1..9
  /\ \E e : run["env"] = {e} /\ Suits(e)
  /\ Len(chain) >= 1
  /\ run["at"] > 3 => chain[Len(chain)].reputation = "initialized"
  /\ run["at"] > 7 => chain[Len(chain)].factory = "initialized"
  /\ run["at"] <= 8 => \A m \in manifest : m.deployedAt < Len(chain)
  /\ run["at"] = 9 => \E m : manifest = {m} /\ m.deployedAt = Len(chain)

OpsFields == {"source", "wasm", "expected", "provenance", "updating", "run", "chain",
              "manifest", "legacy"}

OpsInv(o) ==
  /\ DOMAIN o = OpsFields
  /\ o.source \in Versions
  /\ o.wasm \in [WASM_NAMES -> Hash0]
  /\ o.chain \in Seq(AttemptRec)
  /\ o.run = NoDeploy \/ Running(o.run, o.chain, o.manifest)
  /\ \A m \in o.manifest : Recorded(m, o.chain)
  /\ \A l \in o.legacy : \E m \in o.manifest : Summarized(l, m)

\* What a manifest says stays true of a chain that keeps its attempt.
LEMMA RecordedStays ==
  ASSUME NEW m, NEW c, NEW d, Recorded(m, c), Len(c) \in Nat, Len(d) \in Nat, Len(d) >= Len(c),
         d[m.deployedAt] = c[m.deployedAt]
  PROVE  Recorded(m, d)
<1>1. m.deployedAt \in 1..Len(c)
  BY Zenon DEF Recorded
<1>2. m.deployedAt \in 1..Len(d)
  BY <1>1
<1> QED
  BY <1>2, Zenon DEF Recorded

\* No deployment runs before the first and after the last.
LEMMA NoDeployIs == NoDeploy.at = 0 /\ \A run, c, ms : Running(run, c, ms) => run # NoDeploy
<1>1. NoDeploy.at = 0
  BY DEF NoDeploy
<1> QED
  BY <1>1 DEF Running

\* Before the first attempt there is nothing on chain and nothing on disk.
LEMMA OpsInitKeeps == OpsInv(OpsInit)
<1>1. [n \in WASM_NAMES |-> ""] \in [WASM_NAMES -> Hash0]
  BY DEF Hash0
<1>2. <<>> \in Seq(AttemptRec)
  OBVIOUS
<1>3. /\ DOMAIN OpsInit = OpsFields /\ OpsInit.source = "v1"
      /\ OpsInit.wasm = [n \in WASM_NAMES |-> ""] /\ OpsInit.chain = <<>>
      /\ OpsInit.run = NoDeploy /\ OpsInit.manifest = {} /\ OpsInit.legacy = {}
  BY DEF OpsInit, OpsFields
<1>4. /\ \A x \in OpsInit.manifest : Recorded(x, OpsInit.chain)
      /\ \A l \in OpsInit.legacy : \E x \in OpsInit.manifest : Summarized(l, x)
  BY <1>3
<1>5. OpsInit.source \in Versions
  BY <1>3 DEF Versions
<1> HIDE DEF OpsInit
<1> QED
  BY <1>1, <1>2, <1>3, <1>4, <1>5, Zenon DEF OpsInv

\* The steps of other tools leave the deployment alone.
LEMMA ToolsKeepOps ==
  ASSUME OpsInv(ops), EditSource \/ UpdateHashes \/ WriteProvenance \/ Exit
  PROVE  OpsInv(ops')
<1>1. CASE EditSource
  <2>1. /\ DOMAIN ops' = DOMAIN ops /\ ops'.source = "v2" /\ ops'.wasm = ops.wasm
        /\ ops'.chain = ops.chain /\ ops'.run = ops.run /\ ops'.manifest = ops.manifest
        /\ ops'.legacy = ops.legacy
    BY <1>1 DEF EditSource, OpsInv, OpsFields
  <2> QED
    BY <2>1 DEF OpsInv, Versions
<1>2. CASE UpdateHashes
  <2>1. /\ DOMAIN ops' = DOMAIN ops /\ ops'.source = ops.source /\ ops'.wasm = Build(ops.source)
        /\ ops'.chain = ops.chain /\ ops'.run = ops.run /\ ops'.manifest = ops.manifest
        /\ ops'.legacy = ops.legacy
    BY <1>2 DEF UpdateHashes, OpsInv, OpsFields
  <2>2. Build(ops.source) \in [WASM_NAMES -> Hash0]
    BY DEF Build, Hash0, OpsInv
  <2> QED
    BY <2>1, <2>2 DEF OpsInv
<1>3. CASE WriteProvenance
  <2>1. /\ DOMAIN ops' = DOMAIN ops /\ ops'.source = ops.source /\ ops'.wasm = ops.wasm
        /\ ops'.chain = ops.chain /\ ops'.run = ops.run /\ ops'.manifest = ops.manifest
        /\ ops'.legacy = ops.legacy
    BY <1>3 DEF WriteProvenance, OpsInv, OpsFields
  <2> QED
    BY <2>1 DEF OpsInv
<1>4. CASE Exit
  <2>1. /\ DOMAIN ops' = DOMAIN ops /\ ops'.source = ops.source /\ ops'.wasm = ops.wasm
        /\ ops'.chain = ops.chain /\ ops'.run = NoDeploy /\ ops'.manifest = ops.manifest
        /\ ops'.legacy = ops.legacy
    BY <1>4 DEF Exit, OpsInv, OpsFields
  <2> QED
    BY <2>1 DEF OpsInv
<1> QED
  BY <1>1, <1>2, <1>3, <1>4

\* A new deployment starts from nothing.
LEMMA StartKeepsOps ==
  ASSUME OpsInv(ops), NEW e \in Environments, NEW skip, StartDeploy(e, skip)
  PROVE  OpsInv(ops')
<1> DEFINE n == Len(ops.chain)
<1>1. /\ DOMAIN ops' = DOMAIN ops /\ ops'.source = ops.source /\ ops'.wasm = ops.wasm
      /\ ops'.chain = Append(ops.chain, NewAttempt) /\ ops'.run = [at |-> 1, env |-> {e}]
      /\ ops'.manifest = ops.manifest /\ ops'.legacy = ops.legacy
  BY DEF StartDeploy, OpsInv, OpsFields
<1>2. NewAttempt \in AttemptRec
  BY DEF NewAttempt, AttemptRec, Hash0, Tokens
<1>3. ops.chain \in Seq(AttemptRec) /\ n \in Nat
  BY DEF OpsInv
<1>4. /\ ops'.chain \in Seq(AttemptRec) /\ Len(ops'.chain) = n + 1
      /\ \A j \in 1..n : ops'.chain[j] = ops.chain[j]
  BY <1>1, <1>2, <1>3
<1>5. \A m \in ops.manifest : m.deployedAt \in 1..n /\ Recorded(m, ops.chain)
  BY DEF OpsInv, Recorded
<1>6. \A m \in ops.manifest : Recorded(m, ops'.chain)
  <2> TAKE m \in ops.manifest
  <2>1. ops'.chain[m.deployedAt] = ops.chain[m.deployedAt]
    BY <1>4, <1>5
  <2> QED
    BY <1>3, <1>4, <1>5, <2>1, RecordedStays
<1>7. \A m \in ops.manifest : m.deployedAt < n + 1
  BY <1>3, <1>5
<1>8. Suits(e)
  BY DeploymentAssumption DEF StartDeploy, Suits
<1>9. Running(ops'.run, ops'.chain, ops'.manifest)
  <2>1. DOMAIN ops'.run = {"at", "env"} /\ ops'.run["at"] = 1 /\ ops'.run["env"] = {e}
    BY <1>1
  <2> QED
    BY <1>1, <1>3, <1>4, <1>7, <1>8, <2>1 DEF Running
<1> QED
  BY <1>1, <1>4, <1>6, <1>9 DEF OpsInv

\* The state o with these artifacts, attempts, manifest and summary, and with the
\* deployment at next.
Became(p, o, wasm, chain, manifest, legacy, next) ==
  /\ DOMAIN p = OpsFields /\ p.source = o.source /\ p.wasm = wasm /\ p.chain = chain
  /\ p.manifest = manifest /\ p.legacy = legacy /\ p.run = next

\* The state with its last attempt changed to a.
Attempted(p, o, a, next) ==
  Became(p, o, o.wasm, [o.chain EXCEPT ![Len(o.chain)] = a], o.manifest, o.legacy, next)

Further(run) == [run EXCEPT !.at = @ + 1]

Leaves(p, o, e, step, next) == \E q \in RunStep(o, e, step) : p = [q EXCEPT !.run = next]

\* What each step of a deployment leaves behind: the build.
LEMMA BuildIs ==
  ASSUME NEW o, DOMAIN o = OpsFields, NEW e, NEW p, NEW next, Leaves(p, o, e, "build", next)
  PROVE  Became(p, o, Build(o.source), o.chain, o.manifest, o.legacy, next)
<1> DEFINE n == Len(o.chain)
<1>1. RunStep(o, e, "build") = {[o EXCEPT !.wasm = Build(o.source)]}
  BY DEF RunStep
<1>2. p = [[o EXCEPT !.wasm = Build(o.source)] EXCEPT !.run = next]
  BY <1>1 DEF Leaves
<1> HIDE DEF n
<1> QED
  BY <1>2 DEF Became, Attempted, OpsFields, n

\* The reputation contract is deployed, then initialized.
LEMMA ReputationIs ==
  ASSUME NEW o, DOMAIN o = OpsFields, NEW e, NEW p, NEW next, Leaves(p, o, e, "reputation", next)
  PROVE  Attempted(p, o, [o.chain[Len(o.chain)] EXCEPT !.reputation = "deployed",
                               !.repHash = o.wasm["reputation"]], next)
<1> DEFINE n == Len(o.chain)
<1>1. RunStep(o, e, "reputation") = {[o EXCEPT !.chain[n].reputation = "deployed",
                       !.chain[n].repHash = o.wasm["reputation"]]}
  BY DEF RunStep
<1>2. p = [[o EXCEPT !.chain[n].reputation = "deployed",
                       !.chain[n].repHash = o.wasm["reputation"]] EXCEPT !.run = next]
  BY <1>1 DEF Leaves
<1> HIDE DEF n
<1> QED
  BY <1>2 DEF Became, Attempted, OpsFields, n

\* The step that initializes the reputation contract changes that attempt's
\* record and nothing else.
LEMMA RepInitIs ==
  ASSUME NEW o, DOMAIN o = OpsFields, NEW e, NEW p, NEW next, Leaves(p, o, e, "repInit", next)
  PROVE  Attempted(p, o, [o.chain[Len(o.chain)] EXCEPT !.reputation = "initialized"], next)
<1> DEFINE n == Len(o.chain)
<1>1. RunStep(o, e, "repInit") = {[o EXCEPT !.chain[n].reputation = "initialized"]}
  BY DEF RunStep
<1>2. p = [[o EXCEPT !.chain[n].reputation = "initialized"] EXCEPT !.run = next]
  BY <1>1 DEF Leaves
<1> HIDE DEF n
<1> QED
  BY <1>2 DEF Became, Attempted, OpsFields, n

\* The factory is deployed, the circles' code installed.
LEMMA FactoryIs ==
  ASSUME NEW o, DOMAIN o = OpsFields, NEW e, NEW p, NEW next, Leaves(p, o, e, "factory", next)
  PROVE  Attempted(p, o, [o.chain[Len(o.chain)] EXCEPT !.factory = "deployed",
                               !.facHash = o.wasm["circle_factory"]], next)
<1> DEFINE n == Len(o.chain)
<1>1. RunStep(o, e, "factory") = {[o EXCEPT !.chain[n].factory = "deployed",
                       !.chain[n].facHash = o.wasm["circle_factory"]]}
  BY DEF RunStep
<1>2. p = [[o EXCEPT !.chain[n].factory = "deployed",
                       !.chain[n].facHash = o.wasm["circle_factory"]] EXCEPT !.run = next]
  BY <1>1 DEF Leaves
<1> HIDE DEF n
<1> QED
  BY <1>2 DEF Became, Attempted, OpsFields, n

\* The step that installs the code of the circles.
LEMMA InstallIs ==
  ASSUME NEW o, DOMAIN o = OpsFields, NEW e, NEW p, NEW next, Leaves(p, o, e, "install", next)
  PROVE  Attempted(p, o, [o.chain[Len(o.chain)] EXCEPT !.circle = o.wasm["circle"]], next)
<1> DEFINE n == Len(o.chain)
<1>1. RunStep(o, e, "install") = {[o EXCEPT !.chain[n].circle = o.wasm["circle"]]}
  BY DEF RunStep
<1>2. p = [[o EXCEPT !.chain[n].circle = o.wasm["circle"]] EXCEPT !.run = next]
  BY <1>1 DEF Leaves
<1> HIDE DEF n
<1> QED
  BY <1>2 DEF Became, Attempted, OpsFields, n

\* The step that initializes the factory.
LEMMA FacInitIs ==
  ASSUME NEW o, DOMAIN o = OpsFields, NEW e, NEW p, NEW next, Leaves(p, o, e, "facInit", next)
  PROVE  Attempted(p, o, [o.chain[Len(o.chain)] EXCEPT !.factory = "initialized"], next)
<1> DEFINE n == Len(o.chain)
<1>1. RunStep(o, e, "facInit") = {[o EXCEPT !.chain[n].factory = "initialized"]}
  BY DEF RunStep
<1>2. p = [[o EXCEPT !.chain[n].factory = "initialized"] EXCEPT !.run = next]
  BY <1>1 DEF Leaves
<1> HIDE DEF n
<1> QED
  BY <1>2 DEF Became, Attempted, OpsFields, n

\* The token's address, the manifest and the summary.
TokenOf(e, n) ==
  CASE e.usdc = "given" -> "usdc" [] e.usdc = "empty" -> "" [] e.usdc = "unset" -> TokenId[n]

\* The step that settles the token: given, deployed or an empty address.
LEMMA UsdcIs ==
  ASSUME NEW o, DOMAIN o = OpsFields, NEW e, NEW p, NEW next, Leaves(p, o, e, "usdc", next)
  PROVE  Attempted(p, o, [o.chain[Len(o.chain)] EXCEPT !.usdc = TokenOf(e, Len(o.chain))], next)
<1> DEFINE n == Len(o.chain)
<1>1. RunStep(o, e, "usdc") = {[o EXCEPT !.chain[n].usdc = TokenOf(e, n)]}
  BY DEF RunStep, TokenOf
<1>2. p = [[o EXCEPT !.chain[n].usdc = TokenOf(e, n)] EXCEPT !.run = next]
  BY <1>1 DEF Leaves
<1> HIDE DEF n
<1> QED
  BY <1>2 DEF Became, Attempted, OpsFields, n

\* The step that writes the manifest leaves one the writer made of the last attempt.
LEMMA ManifestIs ==
  ASSUME NEW o, DOMAIN o = OpsFields, NEW e, NEW p, NEW next, Leaves(p, o, e, "manifest", next)
  PROVE  LET n == Len(o.chain)
         IN  \E m \in writeManifest(ManifestInput(n, e, o.chain[n]), n) :
               Became(p, o, o.wasm, o.chain, {m}, o.legacy, next)
<1> DEFINE n == Len(o.chain)
           written == writeManifest(ManifestInput(n, e, o.chain[n]), n)
<1>1. RunStep(o, e, "manifest") = {[o EXCEPT !.manifest = {m}] : m \in written}
  BY DEF RunStep
<1> HIDE DEF written
<1>2. PICK m \in written : p = [[o EXCEPT !.manifest = {m}] EXCEPT !.run = next]
  BY <1>1 DEF Leaves
<1>3. Became(p, o, o.wasm, o.chain, {m}, o.legacy, next)
  BY <1>2 DEF Became, OpsFields
<1> QED
  BY <1>3 DEF written

\* The step that writes the old summary.
LEMMA LegacyIs ==
  ASSUME NEW o, DOMAIN o = OpsFields, NEW e, NEW p, NEW next, Leaves(p, o, e, "legacy", next)
  PROVE  LET n == Len(o.chain)
         IN  Became(p, o, o.wasm, o.chain, o.manifest,
                    {[at |-> n, reputation |-> RepId[n], circleFactory |-> FacId[n],
                      usdc |-> o.chain[n].usdc]}, next)
<1> DEFINE n == Len(o.chain)
           l == [at |-> n, reputation |-> RepId[n], circleFactory |-> FacId[n],
                 usdc |-> o.chain[n].usdc]
<1>1. RunStep(o, e, "legacy") = {[o EXCEPT !.legacy = {l}]}
  BY DEF RunStep
<1> HIDE DEF l
<1>2. p = [[o EXCEPT !.legacy = {l}] EXCEPT !.run = next]
  BY <1>1 DEF Leaves
<1>3. Became(p, o, o.wasm, o.chain, o.manifest, {l}, next)
  BY <1>2 DEF Became, OpsFields
<1> QED
  BY <1>3 DEF l

\* The nine steps of a deployment, in their order.
LEMMA StepsAre ==
  /\ Len(DeploySteps) = 9
  /\ DeploySteps[1] = "build" /\ DeploySteps[2] = "reputation" /\ DeploySteps[3] = "repInit"
  /\ DeploySteps[4] = "factory" /\ DeploySteps[5] = "install" /\ DeploySteps[6] = "usdc"
  /\ DeploySteps[7] = "facInit" /\ DeploySteps[8] = "manifest" /\ DeploySteps[9] = "legacy"
BY DEF DeploySteps

\* The environment a step of the deployment finds, and what it leaves.
LEMMA DeployIs ==
  ASSUME OpsInv(ops), Deploy
  PROVE  \E e : /\ ops.run.env = {e} /\ Suits(e)
                /\ Leaves(ops', ops, e, DeploySteps[ops.run.at],
                          IF ops.run.at = Len(DeploySteps) THEN NoDeploy
                          ELSE Further(ops.run))
<1>1. PICK e \in ops.run.env : \E o \in RunStep(ops, e, DeploySteps[ops.run.at]) :
                     ops' = [o EXCEPT !.run = IF ops.run.at = Len(DeploySteps) THEN NoDeploy
                                              ELSE Further(ops.run)]
  BY DEF Deploy, Further
<1>2. Running(ops.run, ops.chain, ops.manifest)
  <2>1. ops.run # NoDeploy
    BY <1>1 DEF NoDeploy
  <2> QED
    BY <2>1 DEF OpsInv
<1>3. ops.run.env = {e} /\ Suits(e)
  BY <1>2 DEF Running
<1> QED
  BY <1>1, <1>3 DEF Leaves, Further

\* A deployment one step further.
LEMMA FurtherIs ==
  ASSUME NEW run, DOMAIN run = {"at", "env"}
  PROVE  /\ DOMAIN Further(run) = {"at", "env"} /\ Further(run).at = run.at + 1
         /\ Further(run).env = run.env
BY DEF Further

\* A step that changes the last attempt, and nothing the manifest speaks of.
LEMMA AttemptStepKeeps ==
  ASSUME OpsInv(ops), Running(ops.run, ops.chain, ops.manifest), ops.run.at \in 1..7,
         NEW a \in AttemptRec, NEW w \in [WASM_NAMES -> Hash0], NEW p,
         Became(p, ops, w, [ops.chain EXCEPT ![Len(ops.chain)] = a], ops.manifest, ops.legacy,
                Further(ops.run)),
         ops.run.at >= 3 => a.reputation = "initialized",
         ops.run.at >= 7 => a.factory = "initialized"
  PROVE  OpsInv(p)
<1> DEFINE n == Len(ops.chain)
<1>7. /\ DOMAIN p = OpsFields /\ p.source = ops.source /\ p.wasm = w
      /\ p.chain = [ops.chain EXCEPT ![n] = a]
      /\ p.run = Further(ops.run)
      /\ p.manifest = ops.manifest /\ p.legacy = ops.legacy
  BY Zenon DEF Became
<1>1. ops.chain \in Seq(AttemptRec) /\ n \in Nat /\ n >= 1
  BY DEF OpsInv, Running
<1>2. /\ p.chain \in Seq(AttemptRec) /\ Len(p.chain) = n /\ p.chain[n] = a
      /\ \A j \in 1..n : j # n => p.chain[j] = ops.chain[j]
  BY <1>1, <1>7
<1>3. /\ DOMAIN p.run = {"at", "env"} /\ p.run.at = ops.run.at + 1 /\ p.run.env = ops.run.env
  <2>1. DOMAIN ops.run = {"at", "env"}
    BY Zenon DEF Running
  <2> QED
    BY <1>7, <2>1, FurtherIs
<1>4. \A m \in ops.manifest : m.deployedAt \in 1..n /\ m.deployedAt < n /\ Recorded(m, ops.chain)
  <2>1. \A m \in ops.manifest : Recorded(m, ops.chain)
    BY Zenon DEF OpsInv
  <2>2. \A m \in ops.manifest : m.deployedAt \in 1..n
    BY <2>1, Zenon DEF Recorded
  <2>3. ops.run["at"] <= 8
    OBVIOUS
  <2>4. \A m \in ops.manifest : m.deployedAt < n
    BY <2>3, Zenon DEF Running
  <2> QED
    BY <2>1, <2>2, <2>4
<1>5. \A m \in ops.manifest : Recorded(m, p.chain)
  <2> TAKE m \in ops.manifest
  <2>1. p.chain[m.deployedAt] = ops.chain[m.deployedAt]
    BY <1>1, <1>2, <1>4
  <2> QED
    BY <1>1, <1>2, <1>4, <2>1, RecordedStays
<1>6. Running(p.run, p.chain, p.manifest)
  <2>1. \E e : p.run["env"] = {e} /\ Suits(e)
    <3>1. PICK e : ops.run["env"] = {e} /\ Suits(e)
      BY Zenon DEF Running
    <3>2. p.run["env"] = {e}
      BY <1>3, <3>1
    <3> QED
      BY <3>1, <3>2, Zenon
  <2>2. ops.run.at \in 1..7 /\ p.run["at"] = ops.run.at + 1
    BY <1>3
  <2>3. p.run["at"] \in 2..8
    BY <2>2
  <2> QED
    BY <1>1, <1>2, <1>3, <1>4, <1>7, <2>1, <2>2, <2>3 DEF Running
<1> QED
  BY <1>2, <1>5, <1>6, <1>7 DEF OpsInv

\* A step that only changes the record of the last attempt keeps the invariant.
LEMMA AttemptedKeeps ==
  ASSUME OpsInv(ops), Running(ops.run, ops.chain, ops.manifest), ops.run.at \in 1..7,
         NEW a \in AttemptRec, NEW p, Attempted(p, ops, a, Further(ops.run)),
         ops.run.at >= 3 => a.reputation = "initialized",
         ops.run.at >= 7 => a.factory = "initialized"
  PROVE  OpsInv(p)
<1>1. ops.wasm \in [WASM_NAMES -> Hash0]
  BY DEF OpsInv
<1> QED
  BY <1>1, AttemptStepKeeps DEF Attempted

\* The token of a step is a token.
LEMMA TokenIs == ASSUME NEW e, Suits(e), NEW n \in Nat PROVE TokenOf(e, n) \in Tokens
BY DEF TokenOf, Suits, Tokens

\* The records that the steps make of the last attempt.
LEMMA AttemptChanges ==
  ASSUME NEW a \in AttemptRec
  PROVE  /\ [a EXCEPT !.reputation = "initialized"] \in AttemptRec
         /\ [a EXCEPT !.reputation = "initialized"].reputation = "initialized"
         /\ [a EXCEPT !.factory = "initialized"] \in AttemptRec
         /\ [a EXCEPT !.factory = "initialized"].reputation = a.reputation
         /\ [a EXCEPT !.factory = "initialized"].factory = "initialized"
BY DEF AttemptRec

\* The records that the steps that deploy or install code make of an attempt.
LEMMA AttemptDeploys ==
  ASSUME NEW a \in AttemptRec, NEW h \in Hash0
  PROVE  /\ [a EXCEPT !.reputation = "deployed", !.repHash = h] \in AttemptRec
         /\ [a EXCEPT !.factory = "deployed", !.facHash = h] \in AttemptRec
         /\ [a EXCEPT !.factory = "deployed", !.facHash = h].reputation = a.reputation
         /\ [a EXCEPT !.circle = h] \in AttemptRec
         /\ [a EXCEPT !.circle = h].reputation = a.reputation
BY DEF AttemptRec

\* The record that the step of the token makes of an attempt.
LEMMA AttemptIsPaidIn ==
  ASSUME NEW a \in AttemptRec, NEW t \in Tokens
  PROVE  [a EXCEPT !.usdc = t] \in AttemptRec /\ [a EXCEPT !.usdc = t].reputation = a.reputation
BY DEF AttemptRec

\* The manifest of a deployment whose contracts are both initialized.
LEMMA ManifestRecords ==
  ASSUME OpsInv(ops), NEW e, Suits(e), NEW n, n = Len(ops.chain), n \in Nat, n >= 1,
         ops.chain[n].reputation = "initialized", ops.chain[n].factory = "initialized",
         NEW m \in writeManifest(ManifestInput(n, e, ops.chain[n]), n)
  PROVE  Recorded(m, ops.chain) /\ m.deployedAt = n
<1> DEFINE a == ops.chain[n]
           input == ManifestInput(n, e, a)
<1>1. /\ DOMAIN input = Given /\ input.network = "testnet"
      /\ input.reputation.contractId = RepId[n] /\ input.reputation.wasmHash = a.repHash
      /\ input.reputation.deployedAtLedger = 0
      /\ input.circleFactory.contractId = FacId[n] /\ input.circleFactory.wasmHash = a.facHash
      /\ input.circleFactory.deployedAtLedger = 0
      /\ input.circlWasmHash = a.circle /\ input.usdc = a.usdc
  BY DEF ManifestInput, Given, Suits
<1> HIDE DEF input
<1>2. IsWritten(m, input, n)
  BY <1>1, WrittenIs DEF input
<1>3. /\ m.reputation = input.reputation /\ m.circleFactory = input.circleFactory
      /\ m.circlWasmHash = input.circlWasmHash /\ m.usdc = input.usdc /\ m.deployedAt = n
      /\ a.repHash \in Versions /\ a.facHash \in Versions /\ a.circle \in Versions
  <2>1. {"reputation", "circleFactory", "circlWasmHash", "usdc"} \subseteq Given
    BY DEF Given
  <2> QED
    BY <1>1, <1>2, <2>1 DEF IsWritten
<1>4. validateManifest({m}, "testnet") = {}
  <2>1. PICK expected : expected = "testnet"
    OBVIOUS
  <2>2. expected \in {"", input.network} /\ n # 0
    BY <1>1, <2>1
  <2>3. m \in writeManifest(input, n)
    BY DEF input
  <2>4. validateManifest({m}, expected) = {}
    BY <1>1, <2>2, <2>3, WrittenIsValid
  <2> QED
    BY <2>1, <2>4
<1>5. n \in 1..Len(ops.chain)
  OBVIOUS
<1> QED
  BY <1>1, <1>3, <1>4, <1>5 DEF Recorded

\* One step of a deployment: its checks of the environment decide whether it is
\* taken and not what it does.
LEMMA DeployKeeps ==
  ASSUME OpsInv(ops), Deploy
  PROVE  OpsInv(ops')
<1> DEFINE n == Len(ops.chain)
           i == ops.run.at
           last == ops.chain[n]
           next == IF i = Len(DeploySteps) THEN NoDeploy ELSE Further(ops.run)
<1>1. PICK e : /\ ops.run.env = {e} /\ Suits(e)
               /\ Leaves(ops', ops, e, DeploySteps[i], next)
  BY DeployIs, Zenon
<1>19. /\ i # 9 => next = Further(ops.run)
       /\ i = 9 => next = NoDeploy
  BY StepsAre
<1> HIDE DEF next
<1>2. Running(ops.run, ops.chain, ops.manifest)
  <2>1. ops.run # NoDeploy
    BY <1>1 DEF NoDeploy
  <2> QED
    BY <2>1 DEF OpsInv
<1>3. /\ DOMAIN ops = OpsFields /\ ops.chain \in Seq(AttemptRec)
      /\ ops.wasm \in [WASM_NAMES -> Hash0] /\ ops.source \in Versions
  BY DEF OpsInv
<1>4. n \in Nat /\ n >= 1 /\ n \in 1..n /\ last \in AttemptRec
  BY <1>2, <1>3 DEF Running
<1>5. i \in 1..9
  BY <1>2 DEF Running
<1>6. /\ ops.wasm["reputation"] \in Hash0 /\ ops.wasm["circle_factory"] \in Hash0
      /\ ops.wasm["circle"] \in Hash0
  BY <1>3 DEF WASM_NAMES
<1>7. i > 3 => last.reputation = "initialized"
  BY <1>2 DEF Running
<1>8. i > 7 => last.factory = "initialized"
  BY <1>2 DEF Running
<1>9. CASE i = 1
  <2>1. Became(ops', ops, Build(ops.source), ops.chain, ops.manifest, ops.legacy, next)
    <3>1. Leaves(ops', ops, e, "build", next)
      BY <1>1, <1>9, StepsAre
    <3> QED
      BY <1>3, <3>1, BuildIs
  <2>2. ops.chain = [ops.chain EXCEPT ![n] = last]
    BY <1>3, <1>4
  <2>3. Build(ops.source) \in [WASM_NAMES -> Hash0]
    BY <1>3 DEF Build, Hash0
  <2>4. Became(ops', ops, Build(ops.source), [ops.chain EXCEPT ![n] = last], ops.manifest,
               ops.legacy, Further(ops.run))
    <3>1. next = Further(ops.run)
      BY <1>9, <1>19
    <3> HIDE DEF last, n, i
    <3> QED
      BY <2>1, <2>2, <3>1
  <2>5. /\ ops.run.at \in 1..7 /\ (ops.run.at >= 3 => last.reputation = "initialized")
        /\ ops.run.at >= 7 => last.factory = "initialized"
    BY <1>9
  <2> HIDE DEF last
  <2> QED
    BY <1>2, <1>4, <2>3, <2>4, <2>5, AttemptStepKeeps, Zenon
<1>10. CASE i = 2
  <2> DEFINE a == [last EXCEPT !.reputation = "deployed", !.repHash = ops.wasm["reputation"]]
  <2>1. Attempted(ops', ops, a, next)
    <3>1. Leaves(ops', ops, e, "reputation", next)
      BY <1>1, <1>10, StepsAre
    <3> QED
      BY <1>3, <3>1, ReputationIs
  <2>2. a \in AttemptRec
    <3> HIDE DEF last, i
    <3> QED
      BY <1>4, <1>6, AttemptDeploys
  <2>3. (i >= 3 => a.reputation = "initialized") /\ (i >= 7 => a.factory = "initialized")
    <3>1. ~(i >= 3) /\ ~(i >= 7)
      BY <1>10
    <3> HIDE DEF last, i
    <3> QED
      BY <1>4, <1>6, <1>7, <3>1, AttemptDeploys
  <2>4. Attempted(ops', ops, a, Further(ops.run))
    <3>1. next = Further(ops.run)
      BY <1>10, <1>19
    <3> QED
      BY <2>1, <3>1, Zenon
  <2>5. i \in 1..7
    BY <1>10
  <2> HIDE DEF a
  <2> QED
    BY <1>2, <2>2, <2>3, <2>4, <2>5, AttemptedKeeps
<1>11. CASE i = 3
  <2> DEFINE a == [last EXCEPT !.reputation = "initialized"]
  <2>1. Attempted(ops', ops, a, next)
    <3>1. Leaves(ops', ops, e, "repInit", next)
      BY <1>1, <1>11, StepsAre
    <3> QED
      BY <1>3, <3>1, RepInitIs
  <2>2. a \in AttemptRec
    <3> HIDE DEF last, i
    <3> QED
      BY <1>4, <1>6, AttemptChanges
  <2>3. (i >= 3 => a.reputation = "initialized") /\ (i >= 7 => a.factory = "initialized")
    <3>1. ~(i >= 7)
      BY <1>11
    <3> HIDE DEF last, i
    <3> QED
      BY <1>4, <1>6, <1>7, <3>1, AttemptChanges
  <2>4. Attempted(ops', ops, a, Further(ops.run))
    <3>1. next = Further(ops.run)
      BY <1>11, <1>19
    <3> QED
      BY <2>1, <3>1, Zenon
  <2>5. i \in 1..7
    BY <1>11
  <2> HIDE DEF a
  <2> QED
    BY <1>2, <2>2, <2>3, <2>4, <2>5, AttemptedKeeps
<1>12. CASE i = 4
  <2> DEFINE a == [last EXCEPT !.factory = "deployed", !.facHash = ops.wasm["circle_factory"]]
  <2>1. Attempted(ops', ops, a, next)
    <3>1. Leaves(ops', ops, e, "factory", next)
      BY <1>1, <1>12, StepsAre
    <3> QED
      BY <1>3, <3>1, FactoryIs
  <2>2. a \in AttemptRec
    <3> HIDE DEF last, i
    <3> QED
      BY <1>4, <1>6, AttemptDeploys
  <2>3. (i >= 3 => a.reputation = "initialized") /\ (i >= 7 => a.factory = "initialized")
    <3>1. i > 3 /\ ~(i >= 7)
      BY <1>12
    <3> HIDE DEF last, i
    <3> QED
      BY <1>4, <1>6, <1>7, <3>1, AttemptDeploys
  <2>4. Attempted(ops', ops, a, Further(ops.run))
    <3>1. next = Further(ops.run)
      BY <1>12, <1>19
    <3> QED
      BY <2>1, <3>1, Zenon
  <2>5. i \in 1..7
    BY <1>12
  <2> HIDE DEF a
  <2> QED
    BY <1>2, <2>2, <2>3, <2>4, <2>5, AttemptedKeeps
<1>13. CASE i = 5
  <2> DEFINE a == [last EXCEPT !.circle = ops.wasm["circle"]]
  <2>1. Attempted(ops', ops, a, next)
    <3>1. Leaves(ops', ops, e, "install", next)
      BY <1>1, <1>13, StepsAre
    <3> QED
      BY <1>3, <3>1, InstallIs
  <2>2. a \in AttemptRec
    <3> HIDE DEF last, i
    <3> QED
      BY <1>4, <1>6, AttemptDeploys
  <2>3. (i >= 3 => a.reputation = "initialized") /\ (i >= 7 => a.factory = "initialized")
    <3>1. i > 3 /\ ~(i >= 7)
      BY <1>13
    <3> HIDE DEF last, i
    <3> QED
      BY <1>4, <1>6, <1>7, <3>1, AttemptDeploys
  <2>4. Attempted(ops', ops, a, Further(ops.run))
    <3>1. next = Further(ops.run)
      BY <1>13, <1>19
    <3> QED
      BY <2>1, <3>1, Zenon
  <2>5. i \in 1..7
    BY <1>13
  <2> HIDE DEF a
  <2> QED
    BY <1>2, <2>2, <2>3, <2>4, <2>5, AttemptedKeeps
<1>14. CASE i = 6
  <2> DEFINE a == [last EXCEPT !.usdc = TokenOf(e, n)]
  <2>1. Attempted(ops', ops, a, next)
    <3>1. Leaves(ops', ops, e, "usdc", next)
      BY <1>1, <1>14, StepsAre
    <3> QED
      BY <1>3, <3>1, UsdcIs
  <2>2. a \in AttemptRec
    <3> HIDE DEF last, i
    <3> QED
      BY <1>1, <1>4, TokenIs, AttemptIsPaidIn
  <2>3. (i >= 3 => a.reputation = "initialized") /\ (i >= 7 => a.factory = "initialized")
    <3>1. i > 3 /\ ~(i >= 7)
      BY <1>14
    <3> HIDE DEF last, i
    <3> QED
      BY <1>1, <1>4, <1>7, <3>1, TokenIs, AttemptIsPaidIn
  <2>4. Attempted(ops', ops, a, Further(ops.run))
    <3>1. next = Further(ops.run)
      BY <1>14, <1>19
    <3> QED
      BY <2>1, <3>1, Zenon
  <2>5. i \in 1..7
    BY <1>14
  <2> HIDE DEF a
  <2> QED
    BY <1>2, <2>2, <2>3, <2>4, <2>5, AttemptedKeeps
<1>15. CASE i = 7
  <2> DEFINE a == [last EXCEPT !.factory = "initialized"]
  <2>1. Attempted(ops', ops, a, next)
    <3>1. Leaves(ops', ops, e, "facInit", next)
      BY <1>1, <1>15, StepsAre
    <3> QED
      BY <1>3, <3>1, FacInitIs
  <2>2. a \in AttemptRec
    <3> HIDE DEF last, i
    <3> QED
      BY <1>4, <1>6, AttemptChanges
  <2>3. (i >= 3 => a.reputation = "initialized") /\ (i >= 7 => a.factory = "initialized")
    <3>1. i > 3
      BY <1>15
    <3> HIDE DEF last, i
    <3> QED
      BY <1>4, <1>6, <1>7, <3>1, AttemptChanges
  <2>4. Attempted(ops', ops, a, Further(ops.run))
    <3>1. next = Further(ops.run)
      BY <1>15, <1>19
    <3> QED
      BY <2>1, <3>1, Zenon
  <2>5. i \in 1..7
    BY <1>15
  <2> HIDE DEF a
  <2> QED
    BY <1>2, <2>2, <2>3, <2>4, <2>5, AttemptedKeeps
<1>16. CASE i = 8
  <2>1. PICK m \in writeManifest(ManifestInput(n, e, last), n) :
          Became(ops', ops, ops.wasm, ops.chain, {m}, ops.legacy, next)
    <3>1. Leaves(ops', ops, e, "manifest", next)
      BY <1>1, <1>16, StepsAre
    <3> QED
      BY <1>3, <3>1, ManifestIs
  <2>2. /\ DOMAIN ops' = OpsFields /\ ops'.source = ops.source /\ ops'.wasm = ops.wasm
        /\ ops'.chain = ops.chain
        /\ ops'.run = Further(ops.run)
        /\ ops'.manifest = {m} /\ ops'.legacy = ops.legacy
    <3>1. next = Further(ops.run)
      BY <1>16, <1>19
    <3> QED
      BY <2>1, <3>1, Zenon DEF Became
  <2>3. Recorded(m, ops.chain) /\ m.deployedAt = n
    BY <1>1, <1>4, <1>7, <1>8, <1>16, ManifestRecords
  <2>4. DOMAIN ops'.run = {"at", "env"} /\ ops'.run["at"] = 9 /\ ops'.run["env"] = ops.run.env
    <3>1. DOMAIN ops.run = {"at", "env"}
      BY <1>2, Zenon DEF Running
    <3>2. /\ DOMAIN Further(ops.run) = {"at", "env"} /\ Further(ops.run).at = ops.run.at + 1
          /\ Further(ops.run).env = ops.run.env
      BY <3>1, FurtherIs, Zenon
    <3>3. ops.run.at + 1 = 9
      BY <1>16
    <3> HIDE DEF i
    <3> QED
      BY <2>2, <3>2, <3>3
  <2>5. Running(ops'.run, ops'.chain, ops'.manifest)
    <3>1. \E f : ops'.run["env"] = {f} /\ Suits(f)
      BY <1>1, <2>4
    <3>2. \E x : ops'.manifest = {x} /\ x.deployedAt = Len(ops'.chain)
      BY <2>2, <2>3
    <3> HIDE DEF i, last
    <3>3. /\ ops'.run["at"] \in 1..9 /\ ~(ops'.run["at"] <= 8) /\ Len(ops'.chain) >= 1
      BY <1>4, <2>2, <2>4
    <3>4. /\ ops'.chain[Len(ops'.chain)].reputation = "initialized"
          /\ ops'.chain[Len(ops'.chain)].factory = "initialized"
      BY <1>7, <1>8, <1>16, <2>2 DEF last
    <3> QED
      BY <2>4, <3>1, <3>2, <3>3, <3>4, Zenon DEF Running
  <2>6. \A l \in ops.legacy : Summarized(l, m)
    <3> TAKE l \in ops.legacy
    <3>1. PICK x \in ops.manifest : Summarized(l, x)
      BY DEF OpsInv
    <3>2. x.deployedAt < n
      BY <1>2, <1>16 DEF Running
    <3>3. x.deployedAt \in 1..n
      BY DEF OpsInv, Recorded
    <3>4. Len(ops.chain) = n
      OBVIOUS
    <3> HIDE DEF n
    <3>5. l.at \in Nat /\ l.at <= x.deployedAt
      BY <3>1 DEF Summarized
    <3>6. l.at <= n /\ l.at # n
      BY <1>4, <3>2, <3>3, <3>5
    <3> QED
      BY <2>3, <3>5, <3>6 DEF Summarized
  <2> QED
    BY <1>3, <2>2, <2>3, <2>5, <2>6 DEF OpsInv
<1>17. CASE i = 9
  <2> DEFINE l == [at |-> n, reputation |-> RepId[n], circleFactory |-> FacId[n], usdc |-> last.usdc]
  <2>1. Became(ops', ops, ops.wasm, ops.chain, ops.manifest, {l}, next)
    <3>1. Leaves(ops', ops, e, "legacy", next)
      BY <1>1, <1>17, StepsAre
    <3> QED
      BY <1>3, <3>1, LegacyIs
  <2>2. /\ l.at = n /\ l.reputation = RepId[n] /\ l.circleFactory = FacId[n] /\ l.usdc = last.usdc
    OBVIOUS
  <2> HIDE DEF l
  <2>3. /\ DOMAIN ops' = OpsFields /\ ops'.source = ops.source /\ ops'.wasm = ops.wasm
        /\ ops'.chain = ops.chain /\ ops'.run = NoDeploy
        /\ ops'.manifest = ops.manifest /\ ops'.legacy = {l}
    BY <1>17, <1>19, <2>1 DEF Became
  <2>4. PICK m : ops.manifest = {m} /\ m.deployedAt = n
    BY <1>2, <1>17 DEF Running
  <2>5. Recorded(m, ops.chain)
    BY <2>4 DEF OpsInv
  <2>6. Summarized(l, m)
    BY <1>4, <2>2, <2>4, <2>5 DEF Summarized, Recorded
  <2> QED
    BY <1>3, <2>3, <2>4, <2>5, <2>6 DEF OpsInv
<1>18. \/ i = 1 \/ i = 2 \/ i = 3 \/ i = 4 \/ i = 5 \/ i = 6 \/ i = 7 \/ i = 8 \/ i = 9
  BY <1>5
<1> QED
  BY <1>9, <1>10, <1>11, <1>12, <1>13, <1>14, <1>15, <1>16, <1>17, <1>18

\* No step of DeployNext breaks the record of the workspace.
LEMMA OpsNext == ASSUME OpsInv(ops), [DeployNext]_deployVars PROVE OpsInv(ops')
<1>1. CASE ops' = ops
  BY <1>1
<1>2. CASE OpsStep
  <2>1. CASE EditSource \/ UpdateHashes \/ WriteProvenance \/ Exit
    BY <2>1, ToolsKeepOps
  <2>2. CASE Deploy
    BY <2>2, DeployKeeps
  <2>3. CASE \E e \in Environments, skip \in BOOLEAN : StartDeploy(e, skip)
    BY <2>3, StartKeepsOps
  <2> QED
    BY <1>2, <2>1, <2>2, <2>3 DEF OpsStep
<1> QED
  BY <1>1, <1>2 DEF DeployNext, OthersCreate, deployVars, opsVars

\* What the record means: the manifest and the summary are complete.
LEMMA ManifestComplete == ASSUME OpsInv(ops) PROVE ManifestIsComplete
<1>1. \A m \in ops.manifest :
        LET a == ops.chain[m.deployedAt]
        IN  /\ a.reputation = "initialized" /\ a.factory = "initialized"
            /\ ManifestHashes(m) = [reputation |-> a.repHash, circle_factory |-> a.facHash,
                                    circle |-> a.circle]
            /\ validateManifest({m}, "testnet") = {}
  BY DEF OpsInv, Recorded, ManifestHashes
<1>2. \A l \in ops.legacy : \E m \in ops.manifest : Summarized(l, m)
  BY DEF OpsInv
<1>3. \A l \in ops.legacy : \E m \in ops.manifest :
        /\ l.at <= m.deployedAt
        /\ l.at = m.deployedAt => /\ l.reputation = m.reputation.contractId
                                  /\ l.circleFactory = m.circleFactory.contractId
                                  /\ l.usdc = m.usdc
  BY <1>2 DEF Summarized
<1> QED
  BY <1>1, <1>3 DEF ManifestIsComplete

\* The two checks of the artifacts speak of the same three hashes.
LEMMA GreenIsRunning == ASSUME OpsInv(ops) PROVE GreenMeansRunning
<1> SUFFICES ASSUME NEW m \in ops.manifest, verifyHashes(ops.expected, ops.wasm),
                    checkManifestContractAlignment({m}, ops.expected)
             PROVE  LET a == ops.chain[m.deployedAt]
                    IN  [reputation |-> a.repHash, circle_factory |-> a.facHash,
                         circle |-> a.circle] = ops.wasm
  BY DEF GreenMeansRunning
<1> DEFINE a == ops.chain[m.deployedAt]
<1>1. /\ m.reputation.wasmHash = a.repHash /\ m.circleFactory.wasmHash = a.facHash
      /\ m.circlWasmHash = a.circle
      /\ a.repHash \in Versions /\ a.facHash \in Versions /\ a.circle \in Versions
  BY DEF OpsInv, Recorded
<1>2. PICK e \in ops.expected : \A n \in WASM_NAMES :
        e.artifacts[n] # "" /\ ops.wasm[n] = e.artifacts[n]
  BY DEF verifyHashes
<1>3. \A pair \in {<<m.reputation.wasmHash, e.artifacts["reputation"]>>,
                   <<m.circleFactory.wasmHash, e.artifacts["circle_factory"]>>,
                   <<m.circlWasmHash, e.artifacts["circle"]>>} :
        "" \notin {pair[1], pair[2]} => pair[1] = pair[2]
  BY DEF checkManifestContractAlignment
<1>4. \A h \in Versions : h # ""
  BY DEF Versions
<1>5. /\ e.artifacts["reputation"] # "" /\ ops.wasm["reputation"] = e.artifacts["reputation"]
      /\ e.artifacts["circle_factory"] # ""
      /\ ops.wasm["circle_factory"] = e.artifacts["circle_factory"]
      /\ e.artifacts["circle"] # "" /\ ops.wasm["circle"] = e.artifacts["circle"]
  BY <1>2 DEF WASM_NAMES
<1>6. /\ a.repHash = ops.wasm["reputation"] /\ a.facHash = ops.wasm["circle_factory"]
      /\ a.circle = ops.wasm["circle"]
  <2> HIDE DEF a
  <2> QED
    BY <1>1, <1>3, <1>4, <1>5
<1>7. ops.wasm \in [WASM_NAMES -> Hash0]
  BY DEF OpsInv
<1> HIDE DEF a
<1>8. [reputation |-> a.repHash, circle_factory |-> a.facHash, circle |-> a.circle] = ops.wasm
  BY <1>6, <1>7 DEF WASM_NAMES
<1> QED
  BY <1>8 DEF a

\* Whatever attempt stops wherever: the manifest and the summary beside it are of
\* contracts of one deployment that were all initialized, with the hashes they were
\* deployed from, and when the two checks of the artifacts pass, those contracts
\* run what is on disk.
THEOREM ManifestHolds == DeploySpec => [](ManifestIsComplete /\ GreenMeansRunning)
<1>1. DeployInit => OpsInv(ops)
  BY OpsInitKeeps DEF DeployInit
<1>2. OpsInv(ops) /\ [DeployNext]_deployVars => OpsInv(ops)'
  BY OpsNext
<1>3. OpsInv(ops) => ManifestIsComplete /\ GreenMeansRunning
  BY ManifestComplete, GreenIsRunning
<1> QED
  BY <1>1, <1>2, <1>3, PTL DEF DeploySpec

-----------------------------------------------------------------------------
(* The decisions of the tools.                                             *)

\* After a passing preflight every step can run: the preflight looks at what the
\* steps need, but for the exceptions that the property names.
LEMMA PreflightIsEnough == PreflightPredicts
<1> SUFFICES ASSUME NEW e \in AllEnvironments, runPreflightChecks(e) = {}, e.rpcOk,
                    e.usdc # "empty", e.target # "unknown",
                    e.passphrase = resolvePassphrase(e.network), NEW i \in DOMAIN DeploySteps
             PROVE  CanRun(e, DeploySteps[i])
  BY DEF PreflightPredicts
<1>1. /\ e.cli \in BOOLEAN /\ e.rust \in BOOLEAN /\ e.identity \in BOOLEAN /\ e.rpcOk = TRUE
      /\ e.target \in {"installed", "missing", "unknown"} /\ e.xlm \in {-1, 1, 2}
  BY DEF AllEnvironments
<1>2. e.cli /\ e.rust /\ e.identity /\ e.target # "missing"
  BY <1>1 DEF runPreflightChecks
<1>3. runFundingDiagnostics([rpcOk |-> e.rpcOk, keyValid |-> TRUE, xlm |-> e.xlm,
                             members |-> {}, usdcGiven |-> FALSE]).failures = {}
  BY <1>2 DEF runPreflightChecks
<1>4. e.xlm >= MIN_DEPLOYER_STROOPS
  <2> DEFINE o == [rpcOk |-> e.rpcOk, keyValid |-> TRUE, xlm |-> e.xlm,
                   members |-> {}, usdcGiven |-> FALSE]
  <2>1. o.rpcOk = TRUE /\ o.keyValid = TRUE /\ o.xlm = e.xlm
    BY <1>1
  <2> HIDE DEF o
  <2>2. {<<"xlm", "deployer">> : x \in
           {y \in {o.xlm} : ~hasSufficientBalance(y, MIN_DEPLOYER_STROOPS)}} = {}
    BY <1>3, <2>1 DEF runFundingDiagnostics, o
  <2>3. hasSufficientBalance(o.xlm, MIN_DEPLOYER_STROOPS)
    BY <2>2
  <2> QED
    BY <2>1, <2>3 DEF hasSufficientBalance
<1>5. e.target = "installed"
  BY <1>1, <1>2
<1> QED
  BY <1>1, <1>2, <1>4, <1>5 DEF CanRun

\* What a manifest of Manifests says in each of its fields.
EntryIsGood(c, id) ==
  /\ DOMAIN c = EntryFields \cup {"deployedAtLedger"}
  /\ c["contractId"] = id /\ c["wasmHash"] \in Versions /\ c["deployTxHash"] = "cli"
  /\ c["deployedAtLedger"] = 0

IsGood(m) ==
  /\ DOMAIN m = Given \cup {"manifestVersion", "deployedAt", "unknownField", "integrityHash"}
  /\ m["manifestVersion"] = "2" /\ m["deployedAt"] = 1 /\ m["unknownField"] = FALSE
  /\ m["integrityHash"] = computeIntegrityHash(m)
  /\ m["network"] \in DOMAIN KNOWN_NETWORKS
  /\ m["networkPassphrase"] = KNOWN_NETWORKS[m["network"]]
  /\ m["deployerPublicKey"] = "deployer" /\ m["rustToolchain"] = "pinned"
  /\ m["sorobanSdkVersion"] = "sdk" /\ m["circlWasmHash"] \in Versions
  /\ m["usdc"] = "usdc"
  /\ EntryIsGood(m["reputation"], "rep1") /\ EntryIsGood(m["circleFactory"], "fac1")

\* Every manifest the writer makes is complete and passes its own check.
LEMMA ManifestsAreGood ==
  ASSUME NEW m \in Manifests
  PROVE  /\ IsGood(m) /\ validateManifest({m}, m.network) = {}
         /\ validateManifest({m}, "") = {}
<1> DEFINE e(n) == [network |-> n, passphrase |-> resolvePassphrase(n)]
           a(h) == [repHash |-> h["reputation"], facHash |-> h["circle_factory"],
                    circle |-> h["circle"], usdc |-> "usdc"]
           input(n, h) == ManifestInput(1, e(n), a(h))
<1>1. PICK n \in DOMAIN KNOWN_NETWORKS, h \in Hashes : m \in writeManifest(input(n, h), 1)
  BY DEF Manifests
<1> DEFINE i == input(n, h)
<1>2. /\ DOMAIN i = Given /\ i["network"] = n /\ i["networkPassphrase"] = resolvePassphrase(n)
      /\ i["deployerPublicKey"] = "deployer" /\ i["rustToolchain"] = "pinned"
      /\ i["sorobanSdkVersion"] = "sdk" /\ i["circlWasmHash"] = h["circle"]
      /\ i["usdc"] = "usdc"
      /\ i["reputation"] = [contractId |-> RepId[1], wasmHash |-> h["reputation"],
                            deployTxHash |-> "cli", deployedAtLedger |-> 0]
      /\ i["circleFactory"] = [contractId |-> FacId[1], wasmHash |-> h["circle_factory"],
                               deployTxHash |-> "cli", deployedAtLedger |-> 0]
  BY DEF ManifestInput, Given
<1>3. h["reputation"] \in Versions /\ h["circle_factory"] \in Versions /\ h["circle"] \in Versions
  BY DEF Hashes, WASM_NAMES
<1> HIDE DEF i
<1>4. /\ EntryIsGood(i["reputation"], "rep1") /\ EntryIsGood(i["circleFactory"], "fac1")
      /\ i["reputation"].deployedAtLedger = 0 /\ i["circleFactory"].deployedAtLedger = 0
  BY <1>2, <1>3 DEF EntryIsGood, EntryFields, RepId, FacId
<1>5. m \in writeManifest(i, 1)
  BY <1>1 DEF i
<1>6. IsWritten(m, i, 1)
  BY <1>2, <1>5, WrittenIs
<1>7. /\ DOMAIN m = Given \cup {"manifestVersion", "deployedAt", "unknownField", "integrityHash"}
      /\ m["manifestVersion"] = "2" /\ m["deployedAt"] = 1 /\ m["unknownField"] = FALSE
      /\ m["integrityHash"] = computeIntegrityHash(m) /\ \A f \in Given : m[f] = i[f]
  BY <1>6, Zenon DEF IsWritten
<1>8. IsGood(m)
  <2>1. /\ m["network"] = n /\ m["networkPassphrase"] = KNOWN_NETWORKS[n]
        /\ m["deployerPublicKey"] = "deployer" /\ m["rustToolchain"] = "pinned"
        /\ m["sorobanSdkVersion"] = "sdk" /\ m["circlWasmHash"] \in Versions
        /\ m["usdc"] = "usdc" /\ m["reputation"] = i["reputation"]
        /\ m["circleFactory"] = i["circleFactory"]
    BY <1>2, <1>3, <1>7 DEF Given, resolvePassphrase
  <2> QED
    BY <1>4, <1>7, <2>1 DEF IsGood
<1>9. ASSUME NEW expected, expected \in {"", m.network}
      PROVE  validateManifest({m}, expected) = {}
  <2>1. m.network = i.network
    BY <1>7 DEF Given
  <2>2. PICK k : k = 1
    OBVIOUS
  <2>3. k # 0 /\ m \in writeManifest(i, k)
    BY <1>5, <2>2
  <2>4. expected \in {"", i.network}
    BY <1>9, <2>1
  <2> QED
    BY <1>2, <1>4, <2>3, <2>4, WrittenIsValid
<1> QED
  <2>1. PICK any : any = ""
    OBVIOUS
  <2>2. validateManifest({m}, any) = {} /\ validateManifest({m}, m.network) = {}
    BY <1>9, <2>1
  <2> QED
    BY <1>8, <2>1, <2>2

\* What it takes to be valid.
LEMMA ValidMeans ==
  ASSUME NEW m, NEW expected, validateManifest({m}, expected) = {}
  PROVE  /\ m.manifestVersion \in {"1", "2"} /\ m.integrityHash = computeIntegrityHash(m)
         /\ expected # "" => m.network = expected
<1>1. (CHOOSE x \in {m} : TRUE) = m
  OBVIOUS
<1> QED
  BY <1>1 DEF validateManifest

\* Two canonical texts of version 2 are the same only if all fields are.
LEMMA ChangeIsCaught ==
  ASSUME NEW m, NEW e, DOMAIN e = DOMAIN m, m.manifestVersion = "2", e.manifestVersion = "2",
         e.integrityHash = m.integrityHash, m.integrityHash = computeIntegrityHash(m),
         NEW f \in DOMAIN m \ {"integrityHash", "manifestVersion"}, e[f] # m[f]
  PROVE  validateManifest({e}, "") # {}
<1> DEFINE sealed == {"integrityHash", "manifestVersion"}
           of(x) == [g \in DOMAIN x \ sealed |-> x[g]]
<1>1. SUFFICES ASSUME validateManifest({e}, "") = {} PROVE FALSE
  OBVIOUS
<1>2. PICK expected : expected = ""
  OBVIOUS
<1>3. e.integrityHash = computeIntegrityHash(e)
  BY <1>1, <1>2, ValidMeans
<1>4. canonicalJson(e) = canonicalJson(m)
  <2>1. computeIntegrityHash(e) = <<canonicalJson(e)>> /\ computeIntegrityHash(m) = <<canonicalJson(m)>>
    BY DEF computeIntegrityHash
  <2> QED
    BY <1>3, <2>1
<1>5. of(e) = of(m)
  <2>1. canonicalJson(e).of = of(e) /\ canonicalJson(m).of = of(m)
    BY DEF canonicalJson
  <2> HIDE DEF of
  <2> QED
    BY <1>4, <2>1
<1>6. of(e)[f] = e[f] /\ of(m)[f] = m[f]
  OBVIOUS
<1> HIDE DEF of
<1> QED
  BY <1>5, <1>6

\* What an edit leaves alone: the checksum, and the version or all but the version.
Edited(e, m) ==
  /\ DOMAIN e = DOMAIN m /\ e["integrityHash"] = m["integrityHash"]
  /\ \/ /\ e["manifestVersion"] = m["manifestVersion"]
        /\ \E f \in DOMAIN m \ {"integrityHash", "manifestVersion"} : e[f] # m[f]
     \/ e["manifestVersion"] \in {"1", "2", "3"} \ {m["manifestVersion"]}

\* A manifest of Manifests, or the version 1 one of it.
SameBody(v, m) ==
  /\ DOMAIN v = DOMAIN m
  /\ \A f \in DOMAIN m \ {"integrityHash", "manifestVersion"} : v[f] = m[f]

\* A manifest rewritten as version 1 has the same body under the older seal.
LEMMA RecordedAsVersion1 ==
  ASSUME NEW m, IsGood(m)
  PROVE  /\ SameBody(AsVersion1(m), m) /\ AsVersion1(m).manifestVersion = "1"
         /\ AsVersion1(m).integrityHash = <<legacyPayload(m)>>
<1> DEFINE v == [m EXCEPT !.manifestVersion = "1"]
<1>1. DOMAIN m = Given \cup {"manifestVersion", "deployedAt", "unknownField", "integrityHash"}
  BY DEF IsGood
<1>2. /\ DOMAIN v = DOMAIN m /\ v["manifestVersion"] = "1"
      /\ \A f \in DOMAIN m \ {"integrityHash", "manifestVersion"} : v[f] = m[f]
  BY <1>1
<1>3. AsVersion1(m) = [v EXCEPT !.integrityHash = computeIntegrityHash(v)]
  BY DEF AsVersion1
<1> HIDE DEF v
<1>4. legacyPayload(v) = legacyPayload(m)
  BY <1>1, <1>2 DEF legacyPayload, Given
<1>5. computeIntegrityHash(v) = <<legacyPayload(m)>>
  BY <1>2, <1>4 DEF computeIntegrityHash
<1>6. PICK h : h = computeIntegrityHash(v)
  OBVIOUS
<1>7. /\ DOMAIN AsVersion1(m) = DOMAIN m /\ AsVersion1(m)["integrityHash"] = h
      /\ AsVersion1(m)["manifestVersion"] = "1"
      /\ \A f \in DOMAIN m \ {"integrityHash", "manifestVersion"} : AsVersion1(m)[f] = m[f]
  BY <1>1, <1>2, <1>3, <1>6
<1> QED
  BY <1>5, <1>6, <1>7 DEF SameBody

\* An edit changes one field of the body, adds one or drops one.
LEMMA EditsChange ==
  ASSUME NEW m, IsGood(m), NEW v, SameBody(v, m), v.manifestVersion \in {"1", "2"},
         NEW e \in Edits(v)
  PROVE  Edited(e, v)
<1> DEFINE sealed == {"integrityHash", "manifestVersion"}
<1>1. /\ DOMAIN v = Given \cup {"manifestVersion", "deployedAt", "unknownField", "integrityHash"}
      /\ \A f \in DOMAIN v \ sealed : v[f] = m[f]
  BY DEF IsGood, SameBody
<1>2. /\ v["network"] # "other" /\ v["networkPassphrase"] # "other"
      /\ v["deployerPublicKey"] = "deployer" /\ v["rustToolchain"] = "pinned"
      /\ v["sorobanSdkVersion"] = "sdk" /\ v["circlWasmHash"] \in {"v1", "v2"}
      /\ v["usdc"] = "usdc" /\ v["deployedAt"] = 1 /\ v["unknownField"] = FALSE
      /\ EntryIsGood(v["reputation"], "rep1") /\ EntryIsGood(v["circleFactory"], "fac1")
  <2>1. /\ "network" \in DOMAIN v \ sealed /\ "networkPassphrase" \in DOMAIN v \ sealed
        /\ "deployerPublicKey" \in DOMAIN v \ sealed /\ "rustToolchain" \in DOMAIN v \ sealed
        /\ "sorobanSdkVersion" \in DOMAIN v \ sealed /\ "circlWasmHash" \in DOMAIN v \ sealed
        /\ "usdc" \in DOMAIN v \ sealed /\ "deployedAt" \in DOMAIN v \ sealed
        /\ "unknownField" \in DOMAIN v \ sealed /\ "reputation" \in DOMAIN v \ sealed
        /\ "circleFactory" \in DOMAIN v \ sealed
    BY <1>1 DEF Given
  <2>2. /\ v["network"] = m["network"] /\ v["networkPassphrase"] = m["networkPassphrase"]
        /\ v["deployerPublicKey"] = m["deployerPublicKey"]
        /\ v["rustToolchain"] = m["rustToolchain"]
        /\ v["sorobanSdkVersion"] = m["sorobanSdkVersion"]
        /\ v["circlWasmHash"] = m["circlWasmHash"] /\ v["usdc"] = m["usdc"]
        /\ v["deployedAt"] = m["deployedAt"] /\ v["unknownField"] = m["unknownField"]
        /\ v["reputation"] = m["reputation"] /\ v["circleFactory"] = m["circleFactory"]
    BY <1>1, <2>1, Zenon
  <2>3. v["unknownField"] = FALSE
    BY <2>2, Zenon DEF IsGood
  <2>4. /\ EntryIsGood(v["reputation"], "rep1") /\ EntryIsGood(v["circleFactory"], "fac1")
        /\ v["network"] \in DOMAIN KNOWN_NETWORKS
        /\ v["networkPassphrase"] = KNOWN_NETWORKS[v["network"]]
        /\ v["deployerPublicKey"] = "deployer" /\ v["rustToolchain"] = "pinned"
        /\ v["sorobanSdkVersion"] = "sdk" /\ v["circlWasmHash"] \in Versions
        /\ v["usdc"] = "usdc" /\ v["deployedAt"] = 1
    BY <2>2, Zenon DEF IsGood
  <2>5. \A n \in DOMAIN KNOWN_NETWORKS : n # "other" /\ KNOWN_NETWORKS[n] # "other"
    BY NetworksAre
  <2>6. v["circlWasmHash"] \in {"v1", "v2"}
    BY <2>4 DEF Versions
  <2> QED
    BY <2>3, <2>4, <2>5, <2>6, Zenon
<1>3. ASSUME NEW f \in DOMAIN v \ sealed, NEW x, x # v[f], e = [v EXCEPT ![f] = x]
      PROVE  Edited(e, v)
  BY <1>1, <1>3 DEF Edited
<1>4. CASE \E f \in TextFields \cup {"networkPassphrase"} : e = [v EXCEPT ![f] = "other"]
  <2>1. PICK f \in TextFields \cup {"networkPassphrase"} : e = [v EXCEPT ![f] = "other"]
    BY <1>4
  <2>2. f \in DOMAIN v \ sealed /\ v[f] # "other"
    BY <1>1, <1>2 DEF TextFields, Given
  <2> QED
    BY <1>3, <2>1, <2>2
<1>5. ASSUME NEW c \in {"reputation", "circleFactory"}, NEW x, x # v[c], e = [v EXCEPT ![c] = x]
      PROVE  Edited(e, v)
  <2>1. c \in DOMAIN v \ sealed
    BY <1>1 DEF Given
  <2> QED
    BY <1>3, <1>5, <2>1
<1>6. CASE \E c \in {"reputation", "circleFactory"}, f \in EntryFields :
             e = [v EXCEPT ![c][f] = "other"]
  <2>1. PICK c \in {"reputation", "circleFactory"}, f \in EntryFields :
             e = [v EXCEPT ![c][f] = "other"]
    BY <1>6
  <2>2. EntryIsGood(v[c], "rep1") \/ EntryIsGood(v[c], "fac1")
    BY <1>2, <2>1
  <2>3. f \in DOMAIN v[c] /\ v[c][f] # "other"
    BY <2>1, <2>2 DEF EntryIsGood, EntryFields, Versions
  <2>4. [v[c] EXCEPT ![f] = "other"][f] = "other"
    BY <2>3
  <2>5. e = [v EXCEPT ![c] = [v[c] EXCEPT ![f] = "other"]]
    BY <2>1
  <2> QED
    BY <1>5, <2>1, <2>3, <2>4, <2>5
<1>7. CASE \E c \in {"reputation", "circleFactory"} : e = [v EXCEPT ![c].deployedAtLedger = 7]
  <2>1. PICK c \in {"reputation", "circleFactory"} : e = [v EXCEPT ![c].deployedAtLedger = 7]
    BY <1>7
  <2>2. EntryIsGood(v[c], "rep1") \/ EntryIsGood(v[c], "fac1")
    BY <1>2, <2>1
  <2>3. "deployedAtLedger" \in DOMAIN v[c] /\ v[c]["deployedAtLedger"] = 0
    BY <2>2 DEF EntryIsGood
  <2>4. [v[c] EXCEPT !.deployedAtLedger = 7]["deployedAtLedger"] = 7
    BY <2>3
  <2>5. e = [v EXCEPT ![c] = [v[c] EXCEPT !.deployedAtLedger = 7]]
    BY <2>1
  <2>6. [v[c] EXCEPT !.deployedAtLedger = 7] # v[c]
    BY <2>3, <2>4
  <2> QED
    BY <1>5, <2>1, <2>5, <2>6
<1>8. CASE e = [v EXCEPT !.deployedAt = 2] \/ e = [v EXCEPT !.unknownField = TRUE]
  <2>1. "deployedAt" \in DOMAIN v \ sealed /\ "unknownField" \in DOMAIN v \ sealed
    BY <1>1
  <2>2. v["deployedAt"] # 2 /\ v["unknownField"] # TRUE
    <3>1. v["deployedAt"] # 2
      <4>1. v["deployedAt"] = 1
        BY <1>2, Zenon
      <4> QED
        BY <4>1
    <3>2. v["unknownField"] # TRUE
      BY <1>2, Zenon
    <3> QED
      BY <3>1, <3>2
  <2> QED
    BY <1>3, <1>8, <2>1, <2>2
<1>9. CASE \E x \in {"1", "2", "3"} \ {v.manifestVersion} : e = [v EXCEPT !.manifestVersion = x]
  BY <1>1, <1>9 DEF Edited
<1> QED
  <2> HIDE DEF Edited
  <2> QED
    BY <1>4, <1>6, <1>7, <1>8, <1>9 DEF Edits

\* An edited manifest is refused; one of version 1 that passes is the same on
\* network, contracts and time.
LEMMA EditsAreAlwaysCaught == EditsAreCaught
<1> SUFFICES ASSUME NEW m \in Manifests
             PROVE  /\ validateManifest({m}, m.network) = {}
                    /\ \A e \in Edits(m) : validateManifest({e}, "") # {}
                    /\ \A e \in Edits(AsVersion1(m)) : validateManifest({e}, "") = {} =>
                         /\ legacyPayload(e) = legacyPayload(m)
                         /\ \A network \in DOMAIN KNOWN_NETWORKS \ {m.network} :
                              validateManifest({e}, network) # {}
  BY DEF EditsAreCaught
<1>1. IsGood(m) /\ validateManifest({m}, m.network) = {}
  BY ManifestsAreGood
<1>2. /\ m["manifestVersion"] = "2" /\ m["integrityHash"] = computeIntegrityHash(m)
      /\ computeIntegrityHash(m) = <<canonicalJson(m)>> /\ canonicalJson(m).version = "2"
  BY <1>1 DEF IsGood, computeIntegrityHash, canonicalJson
<1>e. PICK any : any = ""
  OBVIOUS
<1>3. ASSUME NEW e \in Edits(m), validateManifest({e}, any) = {} PROVE FALSE
  <2>1. Edited(e, m)
    <3>1. SameBody(m, m) /\ m.manifestVersion \in {"1", "2"}
      BY <1>2 DEF SameBody
    <3> QED
      BY <1>1, <3>1, EditsChange
  <2>2. e.manifestVersion \in {"1", "2"} /\ e.integrityHash = computeIntegrityHash(e)
    BY <1>3, ValidMeans
  <2>3. CASE e.manifestVersion = "1"
    <3>1. computeIntegrityHash(e) = <<legacyPayload(e)>> /\ legacyPayload(e).version = "1"
      BY <2>3 DEF computeIntegrityHash, legacyPayload
    <3>2. <<legacyPayload(e)>> = <<canonicalJson(m)>>
      BY <1>2, <2>1, <2>2, <3>1 DEF Edited
    <3>3. legacyPayload(e) = canonicalJson(m)
      BY <3>2
    <3> QED
      BY <1>2, <3>1, <3>3
  <2>4. CASE e.manifestVersion = "2"
    <3>1. /\ DOMAIN e = DOMAIN m /\ e.integrityHash = m.integrityHash
          /\ \E f \in DOMAIN m \ {"integrityHash", "manifestVersion"} : e[f] # m[f]
      BY <1>2, <2>1, <2>4 DEF Edited
    <3>2. validateManifest({e}, "") # {}
      BY <1>2, <2>4, <3>1, ChangeIsCaught
    <3> QED
      BY <1>3, <1>e, <3>2
  <2> QED
    BY <2>2, <2>3, <2>4
<1>4. ASSUME NEW e \in Edits(AsVersion1(m)), validateManifest({e}, any) = {}
      PROVE  legacyPayload(e) = legacyPayload(m)
  <2> DEFINE v == AsVersion1(m)
  <2>1. /\ SameBody(v, m) /\ v.manifestVersion = "1" /\ v.integrityHash = <<legacyPayload(m)>>
    BY <1>1, RecordedAsVersion1
  <2>2. e \in Edits(v)
    OBVIOUS
  <2> HIDE DEF v
  <2>3. Edited(e, v)
    BY <1>1, <2>1, <2>2, EditsChange
  <2>4. e.manifestVersion \in {"1", "2"} /\ e.integrityHash = computeIntegrityHash(e)
    BY <1>4, ValidMeans
  <2>5. computeIntegrityHash(e) = <<legacyPayload(m)>>
    BY <2>1, <2>3, <2>4 DEF Edited
  <2>6. CASE e.manifestVersion = "1"
    <3>1. computeIntegrityHash(e) = <<legacyPayload(e)>>
      BY <2>6 DEF computeIntegrityHash
    <3>2. <<legacyPayload(e)>> = <<legacyPayload(m)>>
      BY <2>5, <3>1
    <3> QED
      BY <3>2
  <2>7. CASE e.manifestVersion = "2"
    <3>1. computeIntegrityHash(e) = <<canonicalJson(e)>> /\ canonicalJson(e).version = "2"
      BY <2>7 DEF computeIntegrityHash, canonicalJson
    <3>2. <<canonicalJson(e)>> = <<legacyPayload(m)>>
      BY <2>5, <3>1
    <3>3. canonicalJson(e) = legacyPayload(m) /\ legacyPayload(m).version = "1"
      BY <3>2 DEF legacyPayload
    <3> QED
      BY <3>1, <3>3
  <2> QED
    BY <2>4, <2>6, <2>7
<1>5. ASSUME NEW e, legacyPayload(e) = legacyPayload(m),
             NEW network \in DOMAIN KNOWN_NETWORKS \ {m.network},
             validateManifest({e}, network) = {}
      PROVE  FALSE
  <2>1. e.network = network
    <3>1. network # ""
      BY DEF KNOWN_NETWORKS
    <3> QED
      BY <1>5, <3>1, ValidMeans
  <2>2. legacyPayload(e).of.network = e.network /\ legacyPayload(m).of.network = m.network
    BY DEF legacyPayload
  <2> QED
    BY <1>5, <2>1, <2>2
<1> QED
  BY <1>1, <1>3, <1>4, <1>5, <1>e

\* The profile check on an environment that is ready: the variables of the local
\* file are over all others.
LEMMA ReadyEnvironmentIsValid ==
  ASSUME NEW env \in ProductionEnvs, env.STELLAR_RPC_URL = "mainnet",
         env.NETWORK_PASSPHRASE = KNOWN_NETWORKS.mainnet,
         \A k \in CONTRACT_VARS : IsSet(env, k)
  PROVE  validateEnv({loadEnv(ProductionEnv, <<>>, env, <<>>)}, "production", TRUE, FALSE)
<1>1. DOMAIN env = DOMAIN ProductionEnv
  BY DEF ProductionEnvs
<1>2. DOMAIN env = {"CIRCLEUP_PROFILE", "STELLAR_RPC_URL", "HORIZON_URL", "NETWORK_PASSPHRASE",
                    "CIRCLE_FACTORY_ADDRESS", "REPUTATION_ADDRESS", "USDC_ADDRESS",
                    "ADMIN_PUBLIC_KEY", "ADMIN_IDENTITY"}
  BY <1>1 DEF ProductionEnv
<1>3. PICK none : none = <<>> /\ DOMAIN none = {}
  <2>1. DOMAIN <<>> = {}
    OBVIOUS
  <2> QED
    BY <2>1
<1>4. PICK x : x = loadEnv(ProductionEnv, none, env, none)
  OBVIOUS
<1>5. DOMAIN env \subseteq DOMAIN x /\ \A k \in DOMAIN env : x[k] = env[k]
  <2>1. PICK merged : merged = Over(env, Over(none, ProductionEnv))
    OBVIOUS
  <2>2. DOMAIN env \subseteq DOMAIN merged /\ \A k \in DOMAIN env : merged[k] = env[k]
    BY <2>1, OverIs
  <2>3. x = [k \in DOMAIN merged |-> IF k \in DOMAIN none THEN none[k] ELSE merged[k]]
    BY <1>4, <2>1 DEF loadEnv
  <2> QED
    BY <1>3, <2>2, <2>3
<1>6. RpcUrl(x) = "mainnet"
  <2>1. "STELLAR_RPC_URL" \in DOMAIN x /\ x["STELLAR_RPC_URL"] = "mainnet"
    BY <1>2, <1>5
  <2> QED
    BY <2>1 DEF RpcUrl, Coalesce
<1>7. Passphrase(x) = KNOWN_NETWORKS.mainnet
  <2>1. /\ "NETWORK_PASSPHRASE" \in DOMAIN x
        /\ x["NETWORK_PASSPHRASE"] = KNOWN_NETWORKS.mainnet
    BY <1>2, <1>5
  <2> QED
    BY <2>1 DEF Passphrase, Coalesce
<1>8. \A k \in CONTRACT_VARS : IsSet(x, k)
  BY <1>5 DEF IsSet
<1>9. PICK profile : profile = "production"
  OBVIOUS
<1>10. validateComponent(x, profile, FALSE)
  <2>1. ruleNoTestnetRpcInProduction(x, profile)
    BY <1>6 DEF ruleNoTestnetRpcInProduction, isTestnetRpc
  <2>2. ruleProductionPassphrase(x, profile)
    BY <1>7, <1>9 DEF ruleProductionPassphrase
  <2>3. ruleContractAddresses(x, profile)
    BY <1>8 DEF ruleContractAddresses
  <2>4. ruleNetworkContractCompatibility(x, profile)
    BY <1>6 DEF ruleNetworkContractCompatibility, isTestnetRpc
  <2> QED
    BY <2>1, <2>2, <2>3, <2>4 DEF validateComponent
<1>11. validateEnv({x}, profile, TRUE, FALSE)
  BY <1>10 DEF validateEnv
<1> QED
  BY <1>3, <1>4, <1>9, <1>11

\* An expected-hashes file has an entry for every artifact.
LEMMA ExpectedFilesAre ==
  ASSUME NEW expected \in ExpectedFiles, NEW e \in expected
  PROVE  expected = {e} /\ DOMAIN e.artifacts = WASM_NAMES
<1>2. \A a \in Listed : DOMAIN a = WASM_NAMES
  BY DEF Listed, Hashes
<1>3. PICK t \in {"pinned", "other"}, a \in Listed :
        expected = {[toolchain |-> t, artifacts |-> a]}
  BY DEF ExpectedFiles
<1>4. e = [toolchain |-> t, artifacts |-> a]
  BY <1>3
<1>5. e.artifacts = a /\ expected = {e}
  BY <1>3, <1>4
<1> QED
  BY <1>2, <1>3, <1>5

\* What the admin's funds are when they suffice.
LEMMA FundedIsFunded ==
  ASSUME NEW remote \in RemoteAnswers, runFundingDiagnostics(remote.funding).ok
  PROVE  /\ remote.funding.rpcOk = TRUE /\ remote.funding.xlm = 2
<1> DEFINE o == remote.funding
<1>1. /\ o.rpcOk \in BOOLEAN /\ o.keyValid = TRUE /\ o.xlm \in {1, 2} /\ o.members = {}
  BY DEF RemoteAnswers
<1> HIDE DEF o
<1>2. runFundingDiagnostics(o).ok
  BY DEF o
<1>3. o.rpcOk = TRUE
  BY <1>1, <1>2 DEF runFundingDiagnostics
<1>4. {<<"xlm", "deployer">> : x \in
           {y \in {o.xlm} : ~hasSufficientBalance(y, MIN_DEPLOYER_STROOPS)}} = {}
  BY <1>1, <1>2, <1>3 DEF runFundingDiagnostics
<1>5. hasSufficientBalance(o.xlm, MIN_DEPLOYER_STROOPS)
  BY <1>4
<1> QED
  BY <1>1, <1>3, <1>5 DEF hasSufficientBalance, MIN_DEPLOYER_STROOPS, o

\* The funds of such an account are not complained of.
LEMMA FundsSuffice ==
  ASSUME NEW o, o.rpcOk = TRUE, o.keyValid = TRUE, o.xlm = 2, o.members = {}
  PROVE  runFundingDiagnostics(o).failures = {}
<1>1. 2 # -1 /\ 2 >= 2
  OBVIOUS
<1>2. hasSufficientBalance(2, 2)
  BY <1>1, Zenon DEF hasSufficientBalance
<1>3. MIN_DEPLOYER_STROOPS = 2
  BY DEF MIN_DEPLOYER_STROOPS
<1>4. hasSufficientBalance(o.xlm, MIN_DEPLOYER_STROOPS)
  BY <1>2, <1>3, Zenon
<1> QED
  BY <1>4 DEF runFundingDiagnostics

\* A funded environment with all its tools fails no preflight.
LEMMA FundedPassesPreflight ==
  ASSUME NEW passphrase, passphrase # ""
  PROVE  runPreflightChecks([network |-> "mainnet", cli |-> TRUE, rust |-> TRUE,
              target |-> "installed", identity |-> TRUE, passphrase |-> passphrase,
              rpcOk |-> TRUE, xlm |-> 2]) = {}
<1>1. PICK o : o = [rpcOk |-> TRUE, keyValid |-> TRUE, xlm |-> 2, members |-> {},
                    usdcGiven |-> FALSE]
  OBVIOUS
<1>2. runFundingDiagnostics(o).failures = {}
  BY <1>1, FundsSuffice
<1>3. PICK e : e = [network |-> "mainnet", cli |-> TRUE, rust |-> TRUE,
              target |-> "installed", identity |-> TRUE, passphrase |-> passphrase,
              rpcOk |-> TRUE, xlm |-> 2]
  OBVIOUS
<1>4. /\ e.network = "mainnet" /\ e.cli = TRUE /\ e.rust = TRUE /\ e.target = "installed"
      /\ e.identity = TRUE /\ e.passphrase = passphrase /\ e.rpcOk = TRUE /\ e.xlm = 2
  BY <1>3
<1>5. o = [rpcOk |-> e.rpcOk, keyValid |-> TRUE, xlm |-> e.xlm, members |-> {},
           usdcGiven |-> FALSE]
  BY <1>1, <1>4
<1>6. runPreflightChecks(e) = {}
  BY <1>2, <1>4, <1>5, NetworksAre DEF runPreflightChecks
<1> QED
  BY <1>3, <1>6

\* An environment that is ready for the main network passes the other gates.
LEMMA ReadyPassesTheOthers ==
  ASSUME NEW env \in ProductionEnvs, NEW m \in Manifests, NEW expected \in ExpectedFiles,
         NEW wasm \in Artifacts, NEW remote \in RemoteAnswers,
         NEW o, evaluateMainnetContext(o, env, {m}, expected, wasm, "pinned"),
         runFundingDiagnostics(remote.funding).ok, remote.rpcPassphrase = KNOWN_NETWORKS.mainnet
  PROVE  /\ \/ env.STELLAR_RPC_URL = "testnet in path"
            \/ validateEnv({loadEnv(ProductionEnv, <<>>, env, <<>>)}, "production", TRUE, FALSE)
         /\ verifyHashes(expected, wasm)
         /\ checkDeploymentManifest(TRUE, {m}, "mainnet") = "pass"
         /\ checkContractHashes(expected)
         /\ runPreflightChecks([network |-> "mainnet", cli |-> TRUE, rust |-> TRUE,
              target |-> "installed", identity |-> TRUE, passphrase |-> remote.rpcPassphrase,
              rpcOk |-> remote.funding.rpcOk, xlm |-> remote.funding.xlm]) = {}
<1>1. \/ env.STELLAR_RPC_URL = "testnet in path"
      \/ validateEnv({loadEnv(ProductionEnv, <<>>, env, <<>>)}, "production", TRUE, FALSE)
  <2>1. /\ env.STELLAR_RPC_URL \in {"mainnet", "testnet in path"}
        /\ env.NETWORK_PASSPHRASE = KNOWN_NETWORKS.mainnet
        /\ \A k \in CONTRACT_VARS : IsSet(env, k)
    BY Zenon DEF evaluateMainnetContext
  <2>2. CASE env.STELLAR_RPC_URL = "mainnet"
    BY <2>1, <2>2, ReadyEnvironmentIsValid, Zenon
  <2> QED
    BY <2>1, <2>2, Zenon
<1>2. PICK e \in expected : \A n \in WASM_NAMES : e.artifacts[n] # "" /\ wasm[n] = e.artifacts[n]
  BY Zenon DEF evaluateMainnetContext
<1>3. verifyHashes(expected, wasm)
  BY <1>2, Zenon DEF verifyHashes
<1>4. checkDeploymentManifest(TRUE, {m}, "mainnet") = "pass"
  <2>1. validateManifest({m}, "mainnet") = {}
    BY Zenon DEF evaluateMainnetContext
  <2> QED
    BY <2>1, Zenon DEF checkDeploymentManifest
<1>5. checkContractHashes(expected)
  <2>1. expected = {e} /\ DOMAIN e.artifacts = WASM_NAMES
    BY ExpectedFilesAre
  <2>2. "" \notin Range(e.artifacts)
    BY <1>2, <2>1, Zenon DEF Range
  <2> QED
    BY <2>1, <2>2, Zenon DEF checkContractHashes
<1>6. /\ remote.funding.rpcOk = TRUE /\ remote.funding.xlm = 2
  BY FundedIsFunded
<1>7. remote.rpcPassphrase # ""
  BY NetworksAre
<1>8. runPreflightChecks([network |-> "mainnet", cli |-> TRUE, rust |-> TRUE,
              target |-> "installed", identity |-> TRUE, passphrase |-> remote.rpcPassphrase,
              rpcOk |-> remote.funding.rpcOk, xlm |-> remote.funding.xlm]) = {}
  BY <1>6, <1>7, FundedPassesPreflight, Zenon
<1> QED
  BY <1>1, <1>3, <1>4, <1>5, <1>8, Zenon

\* What the layers of the smoke test say of a workspace.
LEMMA LayersSay ==
  ASSUME NEW f \in Workspaces, NEW m \in Manifests
  PROVE  /\ smokeLayer("contracts", f, TRUE, {m}, m.network) =
              {verdict(checkContractHashes(f.expected)), checkContractProvenance(f),
               verdict(checkManifestContractAlignment({m}, f.expected))}
         /\ smokeLayer("sdk", f, TRUE, {m}, m.network) = {"pass", verdict(f.versions)}
         /\ smokeLayer("indexer", f, TRUE, {m}, m.network) \subseteq
              {"pass", "warn", verdict(f.schema)}
         /\ smokeLayer("app", f, TRUE, {m}, m.network) = {"pass", verdict(~f.envFiles)}
<1> DEFINE layer(l) == smokeLayer(l, f, TRUE, {m}, m.network)
<1>1. /\ f.sdkBuilt = TRUE /\ f.migrateScript = TRUE /\ f.envExamples = TRUE
  BY DEF Workspaces
<1>2. layer("contracts") = {verdict(checkContractHashes(f.expected)), checkContractProvenance(f),
                            verdict(checkManifestContractAlignment({m}, f.expected))}
  BY Zenon DEF smokeLayer
<1>3. layer("sdk") = {"pass", verdict(f.versions)}
  <2>1. checkSdkBuild(f) = "pass"
    BY <1>1 DEF checkSdkBuild, verdict
  <2>2. checkSdkPackageIntegrity(f) = verdict(f.versions)
    BY <1>1 DEF checkSdkPackageIntegrity, verdict
  <2>3. layer("sdk") = {checkSdkBuild(f), checkSdkPackageIntegrity(f)}
    BY DEF smokeLayer
  <2> HIDE DEF layer
  <2> QED
    BY <2>1, <2>2, <2>3
<1>4. layer("indexer") \subseteq {"pass", "warn", verdict(f.schema)}
  <2>1. checkIndexerMigrations(f) \in {"pass", "warn"}
    BY DEF checkIndexerMigrations
  <2>2. checkIndexerSchema(f) = verdict(f.schema) /\ checkIndexerMigrateScript(f) = "pass"
    BY <1>1 DEF checkIndexerSchema, checkIndexerMigrateScript, verdict
  <2>3. layer("indexer") = {checkIndexerMigrations(f), checkIndexerSchema(f),
                            checkIndexerMigrateScript(f)}
    BY DEF smokeLayer
  <2> HIDE DEF layer
  <2> QED
    BY <2>1, <2>2, <2>3
<1>5. layer("app") = {"pass", verdict(~f.envFiles)}
  <2>1. checkEnvExamples(f) = "pass" /\ checkNoCommittedSecrets(f) = verdict(~f.envFiles)
    BY <1>1 DEF checkEnvExamples, checkNoCommittedSecrets, verdict
  <2>2. checkDeploymentManifest(TRUE, {m}, m.network) = "pass"
    <3>1. validateManifest({m}, m.network) = {}
      BY ManifestsAreGood
    <3> QED
      BY <3>1, Zenon DEF checkDeploymentManifest
  <2>3. layer("app") = {checkEnvExamples(f), checkNoCommittedSecrets(f),
                        checkDeploymentManifest(TRUE, {m}, m.network)}
    BY DEF smokeLayer
  <2> HIDE DEF layer
  <2> QED
    BY <2>1, <2>2, <2>3
<1> QED
  BY <1>2, <1>3, <1>4, <1>5, Zenon

\* The smoke tests fail exactly when one of their checks does.
LEMMA SmokeFails ==
  ASSUME NEW f \in Workspaces, NEW m \in Manifests
  PROVE  (runSmokeTests(m.network, TRUE, {"contracts", "sdk", "indexer", "app"}, f, {m}) = "fail")
           <=> "fail" \in UNION {smokeLayer(l, f, TRUE, {m}, m.network) :
                                 l \in {"contracts", "sdk", "indexer", "app"}}
<1> DEFINE said == UNION {smokeLayer(l, f, TRUE, {m}, m.network) :
                          l \in {"contracts", "sdk", "indexer", "app"}}
<1>1. runSmokeTests(m.network, TRUE, {"contracts", "sdk", "indexer", "app"}, f, {m})
        = IF "fail" \in said THEN "fail" ELSE IF "warn" \in said THEN "warn" ELSE "pass"
  BY DEF runSmokeTests
<1> HIDE DEF said
<1> DEFINE smoke == runSmokeTests(m.network, TRUE, {"contracts", "sdk", "indexer", "app"}, f, {m})
<1>2. smoke = IF "fail" \in said THEN "fail" ELSE IF "warn" \in said THEN "warn" ELSE "pass"
  BY <1>1
<1> HIDE DEF smoke
<1>3. CASE "fail" \in said
  <2>1. smoke = "fail"
    BY <1>2, <1>3
  <2> QED
    BY <1>3, <2>1, Zenon DEF smoke, said
<1>4. CASE "fail" \notin said
  <2>1. smoke \in {"warn", "pass"}
    BY <1>2, <1>4
  <2>2. smoke # "fail"
    BY <2>1
  <2> QED
    BY <1>4, <2>2, Zenon DEF smoke, said
<1> QED
  BY <1>3, <1>4

\* A workspace whose smoke tests do not fail has the manifest's artifacts, and one
\* that has them and may be released does not fail the smoke tests.
LEMMA SmokeAgreesWithRelease ==
  ASSUME NEW f \in Workspaces, NEW topics, NEW m \in Manifests, NEW smoke,
         smoke = runSmokeTests(m.network, TRUE, {"contracts", "sdk", "indexer", "app"}, f, {m})
  PROVE  /\ smoke # "fail" => checkManifestContractAlignment({m}, f.expected)
         /\ (/\ releaseCheck(f, topics)
             /\ f.schema /\ f.provenance # "absent"
             /\ checkManifestContractAlignment({m}, f.expected)) => smoke # "fail"
<1> DEFINE layer(l) == smokeLayer(l, f, TRUE, {m}, m.network)
           aligned == checkManifestContractAlignment({m}, f.expected)
<1>1. /\ layer("contracts") = {verdict(checkContractHashes(f.expected)),
                               checkContractProvenance(f), verdict(aligned)}
      /\ layer("sdk") = {"pass", verdict(f.versions)}
      /\ layer("indexer") \subseteq {"pass", "warn", verdict(f.schema)}
      /\ layer("app") = {"pass", verdict(~f.envFiles)}
  BY LayersSay
<1>2. smoke = "fail" <=> \E l \in {"contracts", "sdk", "indexer", "app"} : "fail" \in layer(l)
  <2>1. smoke = "fail" <=> "fail" \in UNION {layer(l) : l \in {"contracts", "sdk", "indexer", "app"}}
    BY SmokeFails
  <2> HIDE DEF layer
  <2> QED
    BY <2>1
<1>3. /\ f.schema \in BOOLEAN /\ f.versions \in BOOLEAN /\ f.envFiles \in BOOLEAN
      /\ f.expected = {} \/ f.expected = {[toolchain |-> "pinned", artifacts |-> Build("v1")]}
      /\ f.provenance \in {"absent", "undated", "old", "fresh"}
  BY DEF Workspaces
<1> HIDE DEF layer, aligned
<1>4. ASSUME smoke # "fail" PROVE aligned
  <2>1. verdict(aligned) \in layer("contracts")
    BY <1>1
  <2>2. "fail" \notin layer("contracts")
    BY <1>2, <1>4
  <2> QED
    BY <2>1, <2>2, Zenon DEF verdict
<1>5. ASSUME releaseCheck(f, topics), f.schema, f.provenance # "absent", aligned
      PROVE  smoke # "fail"
  <2>1. f.versions /\ ~f.envFiles
    BY <1>5, Zenon DEF releaseCheck, checkPackageVersions, checkNoCommittedEnvFiles
  <2>2. checkContractHashes(f.expected)
    <3>1. f.expected # {}
      BY <1>5, Zenon DEF aligned, checkManifestContractAlignment
    <3>2. PICK e : e = [toolchain |-> "pinned", artifacts |-> Build("v1")]
      OBVIOUS
    <3>3. f.expected = {e}
      BY <1>3, <3>1, <3>2, Zenon
    <3>4. \A x \in Range(e.artifacts) : x = "v1"
      BY <3>2 DEF Build, Range
    <3> QED
      BY <3>3, <3>4 DEF checkContractHashes
  <2>3. checkContractProvenance(f) \in {"warn", "pass"}
    BY <1>3, <1>5 DEF checkContractProvenance
  <2>4. /\ verdict(checkContractHashes(f.expected)) = "pass" /\ verdict(aligned) = "pass"
        /\ verdict(f.versions) = "pass" /\ verdict(f.schema) = "pass"
        /\ verdict(~f.envFiles) = "pass"
    BY <1>5, <2>1, <2>2, Zenon DEF verdict
  <2>5. \A l \in {"contracts", "sdk", "indexer", "app"} : "fail" \notin layer(l)
    BY <1>1, <2>3, <2>4
  <2> QED
    BY <1>2, <2>5
<1> QED
  BY <1>4, <1>5, Zenon DEF aligned

\* The gates of a release do not contradict each other, for all their inputs.
LEMMA GatesAlwaysAgree == GatesOfAReleaseAgree
<1>1. ASSUME NEW env \in ProductionEnvs, NEW m \in Manifests, NEW expected \in ExpectedFiles,
             NEW wasm \in Artifacts, NEW remote \in RemoteAnswers,
             mainnetReadiness(
               evaluateMainnetContext([network |-> "mainnet", confirmMainnet |-> TRUE],
                                      env, {m}, expected, wasm, "pinned"), remote)
      PROVE  /\ \/ env.STELLAR_RPC_URL = "testnet in path"
                \/ validateEnv({loadEnv(ProductionEnv, <<>>, env, <<>>)}, "production", TRUE, FALSE)
             /\ verifyHashes(expected, wasm)
             /\ checkDeploymentManifest(TRUE, {m}, "mainnet") = "pass"
             /\ checkContractHashes(expected)
             /\ runPreflightChecks([network |-> "mainnet", cli |-> TRUE, rust |-> TRUE,
                  target |-> "installed", identity |-> TRUE, passphrase |-> remote.rpcPassphrase,
                  rpcOk |-> remote.funding.rpcOk, xlm |-> remote.funding.xlm]) = {}
  <2>1. PICK o : o = [network |-> "mainnet", confirmMainnet |-> TRUE]
    OBVIOUS
  <2>2. /\ evaluateMainnetContext(o, env, {m}, expected, wasm, "pinned")
        /\ runFundingDiagnostics(remote.funding).ok
        /\ remote.rpcPassphrase = KNOWN_NETWORKS.mainnet
    BY <1>1, <2>1, Zenon DEF mainnetReadiness
  <2> QED
    BY <2>2, ReadyPassesTheOthers, Zenon
<1>2. ASSUME NEW f \in Workspaces, NEW topics \in Topics, NEW m \in Manifests, NEW smoke,
             smoke = runSmokeTests(m.network, TRUE, {"contracts", "sdk", "indexer", "app"}, f, {m})
      PROVE  /\ smoke # "fail" => checkManifestContractAlignment({m}, f.expected)
             /\ (/\ releaseCheck(f, topics)
                 /\ f.schema /\ f.provenance # "absent"
                 /\ checkManifestContractAlignment({m}, f.expected)) => smoke # "fail"
  BY <1>2, SmokeAgreesWithRelease, Zenon
<1> QED
  BY <1>1, <1>2, Zenon DEF GatesOfAReleaseAgree

\* What the report says of one artifact.
LEMMA FindingsOfOne ==
  ASSUME NEW n, NEW c, NEW deployed, NEW expected
  PROVE  LET known == {d[n] : d \in deployed}
             baseline == {e.artifacts[n] : e \in expected} \ {""}
             findings == artifactFindings(n, c, deployed, expected)
         IN  /\ (known # {} /\ c \notin known) => Finding("warning", <<"deployed", n>>) \in findings
             /\ (baseline # {} /\ c \notin baseline) =>
                  Finding("warning", <<"baseline", n>>) \in findings
             /\ \A x \in findings : x.severity \in {"warning", "info"}
<1> DEFINE known == {d[n] : d \in deployed}
           baseline == {e.artifacts[n] : e \in expected} \ {""}
           findings == artifactFindings(n, c, deployed, expected)
<1>1. findings =
        (CASE known = {} /\ baseline = {} -> {Finding("warning", <<"unverifiable", n>>)}
           [] known # {} /\ c \notin known -> {Finding("warning", <<"deployed", n>>)}
           [] c \in known                  -> {Finding("info", <<"deployed", n>>)}
           [] OTHER                        -> {})
        \cup (IF baseline # {} /\ c \notin baseline
                THEN {Finding("warning", <<"baseline", n>>)} ELSE {})
  BY DEF artifactFindings
<1> HIDE DEF known, baseline, findings
<1>2. /\ (known # {} /\ c \notin known) => Finding("warning", <<"deployed", n>>) \in findings
      /\ (baseline # {} /\ c \notin baseline) =>
           Finding("warning", <<"baseline", n>>) \in findings
      /\ \A x \in findings : x.severity \in {"warning", "info"}
  <2>1. CASE known = {} /\ baseline = {}
    BY <1>1, <2>1 DEF Finding
  <2>2. CASE known = {} /\ baseline # {}
    BY <1>1, <2>2 DEF Finding
  <2>3. CASE known # {} /\ c \notin known
    BY <1>1, <2>3 DEF Finding
  <2>4. CASE c \in known
    BY <1>1, <2>4 DEF Finding
  <2> QED
    BY <2>1, <2>2, <2>3, <2>4
<1> QED
  BY <1>2 DEF known, baseline, findings

\* The artifacts of a build can be hashed; those of no build cannot.
LEMMA ArtifactsAre ==
  ASSUME NEW wasm \in Artifacts
  PROVE  /\ DOMAIN wasm = WASM_NAMES
         /\ (\E n \in WASM_NAMES : wasm[n] # "") => computeHashes(wasm) = {wasm}
<1>1. DOMAIN wasm = WASM_NAMES
  BY DEF Artifacts, Hashes
<1>2. (\E n \in WASM_NAMES : wasm[n] # "") => \A n \in WASM_NAMES : wasm[n] # ""
  <2>1. CASE wasm \in Hashes
    BY <2>1 DEF Hashes, Versions
  <2>2. CASE wasm = [n \in WASM_NAMES |-> ""]
    BY <2>2
  <2> QED
    BY <2>1, <2>2 DEF Artifacts
<1>3. (\A n \in WASM_NAMES : wasm[n] # "") => "" \notin Range(wasm)
  BY <1>1 DEF Range
<1>4. "" \notin Range(wasm) => computeHashes(wasm) = {wasm}
  BY DEF computeHashes
<1> QED
  BY <1>1, <1>2, <1>3, <1>4

\* The upgrade report warns of every artifact that differs.
LEMMA ReportAlwaysWarns == ReportWarns
<1> SUFFICES ASSUME NEW file \in {{}} \cup {{m} : m \in Manifests}, NEW expected \in ExpectedFiles,
                    NEW wasm \in Artifacts
             PROVE  LET report == generateUpgradeCompatibilityReport(file, expected, wasm,
                                    "pinned", "pinned", FALSE)
                        unlike(kind, known) == \A n \in WASM_NAMES :
                          (wasm[n] # "" /\ known[n] \notin {"", wasm[n]}) =>
                            Finding("warning", <<kind, n>>) \in report
                    IN  /\ \A m \in file : unlike("deployed", ManifestHashes(m))
                        /\ \A e \in expected : unlike("baseline", e.artifacts)
                        /\ upgradeReportExit(expected, wasm) =>
                             \A x \in report : x.severity # "blocking"
  BY DEF ReportWarns
<1> DEFINE report == generateUpgradeCompatibilityReport(file, expected, wasm, "pinned", "pinned", FALSE)
<1> DEFINE valid == IF validateManifest(file, "") = {} THEN file ELSE {}
           candidate == computeHashes(wasm)
           deployed == {ManifestHashes(m) : m \in valid}
           artifacts == buildArtifactSection(candidate, deployed, expected)
           provenance == buildProvenanceSection(candidate, valid, "pinned", "pinned", FALSE)
           fixtures == buildMethodFixturesSection(expected)
<1>1. report = artifacts \cup provenance \cup fixtures \cup buildEventSchemaSection
                 \cup buildStorageCompatibilitySection
  BY DEF generateUpgradeCompatibilityReport
<1>2. \A m \in file : valid = {m}
  <2>1. ASSUME NEW m \in file PROVE valid = {m}
    <3>1. m \in Manifests /\ file = {m}
      OBVIOUS
    <3>2. validateManifest({m}, "") = {}
      BY <3>1, ManifestsAreGood
    <3>3. validateManifest(file, "") = {}
      BY <3>1, <3>2, Zenon
    <3> QED
      BY <3>1, <3>3, Zenon
  <2> QED
    BY <2>1
<1> DEFINE Of(n) == artifactFindings(n, wasm[n], deployed, expected)
<1>3. ASSUME candidate = {wasm} PROVE artifacts = UNION {Of(n) : n \in WASM_NAMES}
  <2> HIDE DEF deployed, candidate
  <2>1. (CHOOSE w \in candidate : TRUE) = wasm
    BY <1>3
  <2>2. candidate # {}
    BY <1>3
  <2>3. PICK w : w = CHOOSE x \in candidate : TRUE
    OBVIOUS
  <2>4. w = wasm
    BY <2>1, <2>3
  <2>5. artifacts = UNION {artifactFindings(n, w[n], deployed, expected) : n \in WASM_NAMES}
    BY <2>2, <2>3 DEF buildArtifactSection
  <2> QED
    BY <2>4, <2>5, Zenon
<1> HIDE DEF report, valid, candidate, artifacts, provenance, fixtures
<1>4. ASSUME NEW m \in file, NEW n \in WASM_NAMES, wasm[n] # "",
             ManifestHashes(m)[n] \notin {"", wasm[n]}
      PROVE  Finding("warning", <<"deployed", n>>) \in report
  <2>1. candidate = {wasm}
    BY <1>4, ArtifactsAre DEF candidate
  <2>2. {d[n] : d \in deployed} = {ManifestHashes(m)[n]}
    BY <1>2
  <2> DEFINE known == {d[n] : d \in deployed}
             baseline == {e.artifacts[n] : e \in expected} \ {""}
  <2>3. known # {} /\ wasm[n] \notin known
    BY <1>4, <2>2
  <2> HIDE DEF known, baseline
  <2>4. Finding("warning", <<"deployed", n>>) \in Of(n)
    BY <2>3, FindingsOfOne DEF known, baseline
  <2>5. Finding("warning", <<"deployed", n>>) \in artifacts
    <3>1. PICK x : x = Finding("warning", <<"deployed", n>>)
      OBVIOUS
    <3>2. x \in Of(n)
      BY <2>4, <3>1
    <3> HIDE DEF Of
    <3>3. x \in artifacts
      BY <1>3, <2>1, <3>2
    <3> QED
      BY <3>1, <3>3
  <2> QED
    BY <1>1, <2>5
<1>5. ASSUME NEW e \in expected, NEW n \in WASM_NAMES, wasm[n] # "",
             e.artifacts[n] \notin {"", wasm[n]}
      PROVE  Finding("warning", <<"baseline", n>>) \in report
  <2>1. candidate = {wasm}
    BY <1>5, ArtifactsAre DEF candidate
  <2>2. expected = {e}
    BY ExpectedFilesAre
  <2> DEFINE known == {d[n] : d \in deployed}
             baseline == {x.artifacts[n] : x \in expected} \ {""}
  <2>3. baseline # {} /\ wasm[n] \notin baseline
    BY <1>5, <2>2
  <2> HIDE DEF known, baseline
  <2>4. Finding("warning", <<"baseline", n>>) \in Of(n)
    BY <2>3, FindingsOfOne DEF known, baseline
  <2>5. Finding("warning", <<"baseline", n>>) \in artifacts
    <3>1. PICK x : x = Finding("warning", <<"baseline", n>>)
      OBVIOUS
    <3>2. x \in Of(n)
      BY <2>4, <3>1
    <3> HIDE DEF Of
    <3>3. x \in artifacts
      BY <1>3, <2>1, <3>2
    <3> QED
      BY <3>1, <3>3
  <2> QED
    BY <1>1, <2>5
<1>6. ASSUME upgradeReportExit(expected, wasm), NEW x \in report PROVE x.severity # "blocking"
  <2>1. PICK e \in expected : \A n \in WASM_NAMES : e.artifacts[n] # "" /\ wasm[n] = e.artifacts[n]
    BY <1>6, Zenon DEF upgradeReportExit, verifyHashes
  <2>2. expected = {e} /\ DOMAIN e.artifacts = WASM_NAMES
    BY ExpectedFilesAre
  <2>3. candidate = {wasm}
    <3>1. "circle" \in WASM_NAMES
      BY DEF WASM_NAMES
    <3> QED
      BY <2>1, <3>1, ArtifactsAre DEF candidate
  <2>4. CASE x \in artifacts
    <3>1. PICK n \in WASM_NAMES : x \in Of(n)
      <4> HIDE DEF Of
      <4> QED
        BY <1>3, <2>3, <2>4
    <3>2. x.severity \in {"warning", "info"}
      BY <3>1, FindingsOfOne
    <3> QED
      BY <3>2
  <2>5. CASE x \in provenance
    BY <2>3, <2>5 DEF provenance, buildProvenanceSection, Finding
  <2>6. CASE x \in fixtures
    <3>1. checkContractHashes(expected)
      <4>1. "" \notin Range(e.artifacts)
        BY <2>1, <2>2 DEF Range
      <4> QED
        BY <2>2, <4>1, Zenon DEF checkContractHashes
    <3>2. fixtures = {Finding("info", <<"baseline">>)}
      BY <2>2, <3>1 DEF fixtures, buildMethodFixturesSection
    <3> QED
      BY <2>6, <3>2 DEF Finding
  <2>7. CASE x \in buildEventSchemaSection \cup buildStorageCompatibilitySection
    BY <2>7 DEF buildEventSchemaSection, buildStorageCompatibilitySection, Finding
  <2> QED
    BY <1>1, <2>4, <2>5, <2>6, <2>7
<1> QED
  BY <1>4, <1>5, <1>6 DEF report

-----------------------------------------------------------------------------
(* The two deployment checks.                                              *)

\* What the SDK's check says of the read behind a check.
SdkSays(cfg, check) == evaluate(cfg, check, simulateAndRead(cfg, check))

\* An address the host returns decodes to itself, in both decoders.
LEMMA AddressDecodes ==
  ASSUME NEW a
  PROVE  /\ decodeAddress(Contract(a)) = {a} /\ decodeAddress(Account(a)) = {a}
         /\ isValidContractAddress(Contract(a).v) /\ Contract(a).v.who = a
         /\ Contract(a).type = "string" /\ Account(a).type = "string"
<1>1. PICK x : x = [kind |-> "contract", who |-> a]
  OBVIOUS
<1>2. PICK y : y = [kind |-> "account", who |-> a]
  OBVIOUS
<1>3. Contract(a) = [type |-> "string", v |-> x] /\ Account(a) = [type |-> "string", v |-> y]
  BY <1>1, <1>2 DEF Contract, Account, Text
<1>4. /\ Contract(a).type = "string" /\ Contract(a).v = x
      /\ Account(a).type = "string" /\ Account(a).v = y
  BY <1>3
<1>5. x.kind = "contract" /\ x.who = a /\ y.kind = "account" /\ y.who = a
  BY <1>1, <1>2
<1>6. isValidContractAddress(Contract(a).v)
  BY <1>4, <1>5 DEF isValidContractAddress
<1>7. isValidStellarAddress(Contract(a)) /\ isValidStellarAddress(Account(a))
  BY <1>4, <1>5, <1>6 DEF isValidStellarAddress
<1> QED
  BY <1>4, <1>5, <1>6, <1>7 DEF decodeAddress

\* The decimals the token returns decode to themselves.
LEMMA DecimalsDecode ==
  /\ decodeU32(Number(USDC_DECIMALS)) = {USDC_DECIMALS}
  /\ Number(USDC_DECIMALS).type = "number" /\ Number(USDC_DECIMALS).whole = TRUE
  /\ Number(USDC_DECIMALS).v = USDC_DECIMALS
<1>1. /\ Number(USDC_DECIMALS).type = "number" /\ Number(USDC_DECIMALS).whole = TRUE
      /\ Number(USDC_DECIMALS).v = USDC_DECIMALS
  BY DEF Number
<1>2. IsU32(Number(USDC_DECIMALS))
  BY <1>1, ValidatorsAssumption DEF IsU32
<1> QED
  BY <1>1, <1>2 DEF decodeU32

\* A failed read and a value.
LEMMA ReadsAre ==
  /\ \A why : "value" \notin DOMAIN [failed |-> why] /\ [failed |-> why].failed = why
  /\ \A v : "value" \in DOMAIN [value |-> v] /\ [value |-> v].value = v
OBVIOUS

\* A verdict of one value.
LEMMA VerdictOf ==
  ASSUME NEW cfg, NEW check, NEW v, NEW verd, Verdict(cfg, check, v) = {verd}
  PROVE  evaluate(cfg, check, [value |-> v]) = verd
<1>1. PICK read : read = [value |-> v]
  OBVIOUS
<1>2. "value" \in DOMAIN read /\ read.value = v
  BY <1>1
<1>3. (CHOOSE x \in {verd} : TRUE) = verd
  OBVIOUS
<1>4. evaluate(cfg, check, read) = verd
  BY <1>2, <1>3 DEF evaluate
<1> QED
  BY <1>1, <1>4

\* No failed read is a verified check.
LEMMA FailureIsNotOk ==
  ASSUME NEW cfg, NEW check, NEW why \in {"missing", "other", "timeout"}
  PROVE  evaluate(cfg, check, [failed |-> why]) # "ok"
<1>1. PICK read : read = [failed |-> why]
  OBVIOUS
<1>2. "value" \notin DOMAIN read /\ read.failed = why
  BY <1>1
<1>3. evaluate(cfg, check, read) # "ok"
  BY <1>2 DEF evaluate
<1> QED
  BY <1>1, <1>3

\* When the SDK is satisfied with a contract.
LEMMA SdkVerdicts ==
  ASSUME NEW cfg
  PROVE  /\ (SdkSays(cfg, "factory.usdc") = "ok")
              <=> (cfg.factory /\ config # None /\ config.usdc = cfg.usdc)
         /\ (SdkSays(cfg, "factory.reputation") = "ok")
              <=> (cfg.factory /\ config # None /\ config.reputation = cfg.reputation)
         /\ (SdkSays(cfg, "reputation") = "ok")
              <=> (cfg.reputation = ReputationContract /\ admin # "none")
         /\ (SdkSays(cfg, "usdc") = "ok") <=> (cfg.usdc = UsdcToken)
<1>1. ASSUME NEW check \in LinkChecks, ~(cfg.factory /\ config # None)
      PROVE  SdkSays(cfg, check) # "ok"
  <2>1. simulateAndRead(cfg, check) =
          IF cfg.factory THEN [failed |-> "other"] ELSE [failed |-> "missing"]
    BY <1>1 DEF simulateAndRead, LinkChecks
  <2>2. PICK why \in {"missing", "other", "timeout"} :
          why = IF cfg.factory THEN "other" ELSE "missing"
    OBVIOUS
  <2>3. simulateAndRead(cfg, check) = [failed |-> why]
    BY <2>1, <2>2
  <2> QED
    BY <2>3, FailureIsNotOk DEF SdkSays
<1>2. ASSUME cfg.factory, config # None
      PROVE  /\ (SdkSays(cfg, "factory.usdc") = "ok") <=> (config.usdc = cfg.usdc)
             /\ (SdkSays(cfg, "factory.reputation") = "ok")
                  <=> (config.reputation = cfg.reputation)
  <2>1. simulateAndRead(cfg, "factory.usdc") = [value |-> Contract(config.usdc)]
    BY <1>2 DEF simulateAndRead, LinkChecks
  <2>2. simulateAndRead(cfg, "factory.reputation") = [value |-> Contract(config.reputation)]
    BY <1>2 DEF simulateAndRead, LinkChecks
  <2>3. Verdict(cfg, "factory.usdc", Contract(config.usdc)) =
          {IF config.usdc = cfg.usdc THEN "ok" ELSE "mismatch"}
    BY AddressDecodes DEF Verdict
  <2>4. Verdict(cfg, "factory.reputation", Contract(config.reputation)) =
          {IF config.reputation = cfg.reputation THEN "ok" ELSE "mismatch"}
    BY AddressDecodes DEF Verdict
  <2>5. SdkSays(cfg, "factory.usdc") = IF config.usdc = cfg.usdc THEN "ok" ELSE "mismatch"
    BY <2>1, <2>3, VerdictOf DEF SdkSays
  <2>6. SdkSays(cfg, "factory.reputation") =
          IF config.reputation = cfg.reputation THEN "ok" ELSE "mismatch"
    BY <2>2, <2>4, VerdictOf DEF SdkSays
  <2> QED
    BY <2>5, <2>6
<1>3. (SdkSays(cfg, "reputation") = "ok") <=> (cfg.reputation = ReputationContract /\ admin # "none")
  <2>1. CASE ~(cfg.reputation = ReputationContract /\ admin # "none")
    <3>1. PICK why \in {"missing", "other", "timeout"} : why = "other"
      OBVIOUS
    <3>2. simulateAndRead(cfg, "reputation") = [failed |-> why]
      BY <2>1, <3>1 DEF simulateAndRead, LinkChecks
    <3> QED
      BY <2>1, <3>2, FailureIsNotOk DEF SdkSays
  <2>2. CASE cfg.reputation = ReputationContract /\ admin # "none"
    <3>1. simulateAndRead(cfg, "reputation") = [value |-> Account(admin)]
      BY <2>2 DEF simulateAndRead, LinkChecks
    <3>2. Verdict(cfg, "reputation", Account(admin)) = {"ok"}
      BY AddressDecodes DEF Verdict
    <3>3. SdkSays(cfg, "reputation") = "ok"
      BY <3>1, <3>2, VerdictOf DEF SdkSays
    <3> QED
      BY <2>2, <3>3
  <2> QED
    BY <2>1, <2>2
<1>4. (SdkSays(cfg, "usdc") = "ok") <=> (cfg.usdc = UsdcToken)
  <2>1. CASE cfg.usdc # UsdcToken
    <3>1. PICK why \in {"missing", "other", "timeout"} : why = "other"
      OBVIOUS
    <3>2. simulateAndRead(cfg, "usdc") = [failed |-> why]
      BY <2>1, <3>1 DEF simulateAndRead, LinkChecks
    <3> QED
      BY <2>1, <3>2, FailureIsNotOk DEF SdkSays
  <2>2. CASE cfg.usdc = UsdcToken
    <3>1. simulateAndRead(cfg, "usdc") = [value |-> Number(USDC_DECIMALS)]
      BY <2>2 DEF simulateAndRead, LinkChecks
    <3>2. Verdict(cfg, "usdc", Number(USDC_DECIMALS)) = {"ok"}
      BY DecimalsDecode DEF Verdict
    <3>3. SdkSays(cfg, "usdc") = "ok"
      BY <3>1, <3>2, VerdictOf DEF SdkSays
    <3> QED
      BY <2>2, <3>3
  <2> QED
    BY <2>1, <2>2
<1>5. "factory.usdc" \in LinkChecks /\ "factory.reputation" \in LinkChecks
  BY DEF LinkChecks
<1> QED
  BY <1>1, <1>2, <1>3, <1>4, <1>5

\* When the application is.
AppIs(cfg, answered, check) ==
  verifyConfiguredDeployment(cfg, "configured", answered)[check] = "verified"

\* What the app's check says of the read behind a check.
LEMMA AppReads ==
  ASSUME NEW cfg, NEW answered, NEW check \in ContractChecks, NEW read,
         read = simulateAndRead(cfg, check)
  PROVE  /\ (check \notin answered \/ "value" \notin DOMAIN read) => ~AppIs(cfg, answered, check)
         /\ (check \in answered /\ "value" \in DOMAIN read) =>
              /\ check = "usdc" /\ read.value.type = "number" /\ read.value.whole =>
                   (AppIs(cfg, answered, check) <=> read.value.v = USDC_DECIMALS)
              /\ check = "reputation" =>
                   (AppIs(cfg, answered, check) <=> read.value.type = "string")
              /\ check \in LinkChecks /\ isValidContractAddress(read.value.v) =>
                   (AppIs(cfg, answered, check) <=>
                      read.value.v.who = (IF check = "factory.usdc" THEN cfg.usdc
                                          ELSE cfg.reputation))
<1> DEFINE said == verifyConfiguredDeployment(cfg, "configured", answered)[check]
<1>1. said = IF check \notin answered \/ "value" \notin DOMAIN read
               THEN "unverifiable" ELSE contractStatus(cfg, check, read.value)
  BY DEF verifyConfiguredDeployment
<1>2. AppIs(cfg, answered, check) <=> said = "verified"
  BY Zenon DEF AppIs
<1> HIDE DEF said
<1>3. CASE check \notin answered \/ "value" \notin DOMAIN read
  BY <1>1, <1>2, <1>3
<1>4. CASE check \in answered /\ "value" \in DOMAIN read
  <2>1. CASE check = "usdc"
    BY <1>1, <1>2, <1>4, <2>1 DEF contractStatus, LinkChecks
  <2>2. CASE check = "reputation"
    BY <1>1, <1>2, <1>4, <2>2 DEF contractStatus, LinkChecks
  <2>3. CASE check \in LinkChecks
    BY <1>1, <1>2, <1>4, <2>3 DEF contractStatus, LinkChecks
  <2> QED
    BY <2>1, <2>2, <2>3 DEF ContractChecks
<1> QED
  BY <1>3, <1>4

\* The app's check of one contract is the SDK's, for the reads that came back.
LEMMA AppVerdicts ==
  ASSUME NEW cfg, NEW answered, NEW check \in ContractChecks
  PROVE  AppIs(cfg, answered, check) <=> (check \in answered /\ SdkSays(cfg, check) = "ok")
<1> DEFINE read == simulateAndRead(cfg, check)
<1>0. /\ "factory.usdc" \in LinkChecks /\ "factory.reputation" \in LinkChecks
      /\ LinkChecks \subseteq ContractChecks
      /\ "usdc" \notin LinkChecks /\ "reputation" \notin LinkChecks
  BY DEF LinkChecks, ContractChecks
<1>1. CASE check \in LinkChecks
  <2>1. CASE cfg.factory /\ config # None
    <3>1. PICK a : a = IF check = "factory.usdc" THEN config.usdc ELSE config.reputation
      OBVIOUS
    <3>2. read = [value |-> Contract(a)]
      BY <1>1, <2>1, <3>1 DEF simulateAndRead, LinkChecks
    <3>3. /\ "value" \in DOMAIN read /\ isValidContractAddress(read.value.v)
          /\ read.value.v.who = a
      BY <3>2, AddressDecodes
    <3> HIDE DEF read
    <3>4. AppIs(cfg, answered, check) <=>
            (check \in answered /\ a = (IF check = "factory.usdc" THEN cfg.usdc
                                        ELSE cfg.reputation))
      BY <1>1, <3>3, AppReads DEF read
    <3>5. check \in {"factory.usdc", "factory.reputation"}
      BY <1>1 DEF LinkChecks
    <3> QED
      BY <2>1, <3>1, <3>4, <3>5, SdkVerdicts
  <2>2. CASE ~(cfg.factory /\ config # None)
    <3>1. "value" \notin DOMAIN read
      BY <1>1, <2>2 DEF simulateAndRead, LinkChecks
    <3>2. check \in {"factory.usdc", "factory.reputation"}
      BY <1>1 DEF LinkChecks
    <3> HIDE DEF read
    <3>3. ~AppIs(cfg, answered, check)
      BY <3>1, AppReads DEF read
    <3> QED
      BY <2>2, <3>2, <3>3, SdkVerdicts
  <2> QED
    BY <2>1, <2>2
<1>2. CASE check = "reputation"
  <2>1. CASE cfg.reputation = ReputationContract /\ admin # "none"
    <3>1. read = [value |-> Account(admin)]
      BY <1>0, <1>2, <2>1 DEF simulateAndRead
    <3>2. "value" \in DOMAIN read /\ read.value.type = "string"
      BY <3>1, AddressDecodes
    <3> HIDE DEF read
    <3>3. AppIs(cfg, answered, check) <=> check \in answered
      BY <1>2, <3>2, AppReads DEF read
    <3> QED
      BY <1>2, <2>1, <3>3, SdkVerdicts
  <2>2. CASE ~(cfg.reputation = ReputationContract /\ admin # "none")
    <3>1. "value" \notin DOMAIN read
      BY <1>0, <1>2, <2>2 DEF simulateAndRead
    <3> HIDE DEF read
    <3>2. ~AppIs(cfg, answered, check)
      BY <3>1, AppReads DEF read
    <3> QED
      BY <1>2, <2>2, <3>2, SdkVerdicts
  <2> QED
    BY <2>1, <2>2
<1>3. CASE check = "usdc"
  <2>1. CASE cfg.usdc = UsdcToken
    <3>1. read = [value |-> Number(USDC_DECIMALS)]
      BY <1>0, <1>3, <2>1 DEF simulateAndRead
    <3>2. /\ "value" \in DOMAIN read /\ read.value.type = "number" /\ read.value.whole
          /\ read.value.v = USDC_DECIMALS
      BY <3>1, DecimalsDecode
    <3> HIDE DEF read
    <3>3. AppIs(cfg, answered, check) <=> check \in answered
      BY <1>3, <3>2, AppReads DEF read
    <3> QED
      BY <1>3, <2>1, <3>3, SdkVerdicts
  <2>2. CASE cfg.usdc # UsdcToken
    <3>1. "value" \notin DOMAIN read
      BY <1>0, <1>3, <2>2 DEF simulateAndRead
    <3> HIDE DEF read
    <3>2. ~AppIs(cfg, answered, check)
      BY <3>1, AppReads DEF read
    <3> QED
      BY <1>3, <2>2, <3>2, SdkVerdicts
  <2> QED
    BY <2>1, <2>2
<1> QED
  BY <1>1, <1>2, <1>3 DEF ContractChecks

\* Both deployment checks verify the configured deployment and no other, in every
\* state of the invariant.
LEMMA VerificationIsAlwaysRight == ASSUME Inv PROVE VerificationIsRight
<1> SUFFICES ASSUME NEW cfg \in [factory : BOOLEAN, reputation : Contracts, usdc : Contracts],
                    NEW network \in {"configured", "other"},
                    NEW answered \in {ContractChecks, ContractChecks \ {"usdc"}}
             PROVE  LET sdk == verifyDeployment(cfg, network, answered)
                        app == verifyConfiguredDeployment(cfg, network, answered)
                        is  == /\ cfg.factory /\ config # None
                               /\ cfg.usdc = config.usdc /\ cfg.reputation = config.reputation
                               /\ cfg.usdc = UsdcToken /\ cfg.reputation = ReputationContract
                    IN  /\ Verified(sdk) <=> \A check \in DOMAIN app : app[check] = "verified"
                        /\ Verified(sdk) =>
                             is /\ Range(Circles) \subseteq
                                     Range(AuthorizedCallers) \cup Range(RevokedCallers)
                        /\ (is /\ admin # "none" /\ network = "configured"
                               /\ answered = ContractChecks) => Verified(sdk)
  BY DEF VerificationIsRight
<1> DEFINE sdk == verifyDeployment(cfg, network, answered)
           app == verifyConfiguredDeployment(cfg, network, answered)
           is  == /\ cfg.factory /\ config # None
                  /\ cfg.usdc = config.usdc /\ cfg.reputation = config.reputation
                  /\ cfg.usdc = UsdcToken /\ cfg.reputation = ReputationContract
<1>1. DOMAIN sdk = ContractChecks /\ DOMAIN app = ContractChecks
  BY DEF verifyDeployment, verifyConfiguredDeployment
<1>2. "usdc" \in ContractChecks /\ "reputation" \in ContractChecks
      /\ "factory.usdc" \in ContractChecks /\ "factory.reputation" \in ContractChecks
  BY DEF ContractChecks, LinkChecks
<1>3. CASE network # "configured"
  <2>1. sdk["usdc"] = "skipped"
    BY <1>2, <1>3 DEF verifyDeployment
  <2>2. app["usdc"] = "unverifiable"
    BY <1>2, <1>3 DEF verifyConfiguredDeployment
  <2>3. ~Verified(sdk) /\ app["usdc"] # "verified"
    BY <1>1, <1>2, <2>1, <2>2 DEF Verified
  <2>4. ~(\A check \in DOMAIN app : app[check] = "verified")
    <3> HIDE DEF sdk, app
    <3> QED
      BY <1>1, <1>2, <2>3
  <2> QED
    BY <1>3, <2>3, <2>4
<1>4. CASE network = "configured"
  <2>1. \A check \in ContractChecks :
          sdk[check] = "ok" <=> (check \in answered /\ SdkSays(cfg, check) = "ok")
    <3>1. ASSUME NEW check \in ContractChecks, check \in answered
          PROVE  sdk[check] = SdkSays(cfg, check)
      BY <1>4, <3>1 DEF verifyDeployment, SdkSays
    <3>2. ASSUME NEW check \in ContractChecks, check \notin answered
          PROVE  sdk[check] # "ok"
      <4>1. PICK why \in {"missing", "other", "timeout"} : why = "timeout"
        OBVIOUS
      <4>2. sdk[check] = evaluate(cfg, check, [failed |-> why])
        BY <1>4, <3>2, <4>1 DEF verifyDeployment
      <4> QED
        BY <4>2, FailureIsNotOk
    <3> QED
      BY <3>1, <3>2
  <2>2. \A check \in ContractChecks :
          app[check] = "verified" <=> (check \in answered /\ SdkSays(cfg, check) = "ok")
    BY <1>4, AppVerdicts DEF AppIs
  <2>3. Verified(sdk) <=> \A check \in ContractChecks :
                            check \in answered /\ SdkSays(cfg, check) = "ok"
    BY <1>1, <2>1 DEF Verified
  <2>4. (\A check \in ContractChecks : SdkSays(cfg, check) = "ok") <=> (is /\ admin # "none")
    <3>1. (\A check \in ContractChecks : SdkSays(cfg, check) = "ok") <=>
            /\ SdkSays(cfg, "factory.usdc") = "ok" /\ SdkSays(cfg, "factory.reputation") = "ok"
            /\ SdkSays(cfg, "reputation") = "ok" /\ SdkSays(cfg, "usdc") = "ok"
      BY <1>2 DEF ContractChecks, LinkChecks
    <3> QED
      BY <3>1, SdkVerdicts, Zenon
  <2>5. Range(Circles) \subseteq Range(AuthorizedCallers) \cup Range(RevokedCallers)
    BY RangeOfEmpty DEF Inv, AllowlistIsRegistry
  <2> HIDE DEF sdk, app, is
  <2>6. (\A check \in DOMAIN app : app[check] = "verified") <=> Verified(sdk)
    BY <1>1, <2>2, <2>3
  <2>7. Verified(sdk) => is
    BY <2>3, <2>4
  <2>8. (is /\ admin # "none" /\ answered = ContractChecks) => Verified(sdk)
    BY <2>3, <2>4
  <2> QED
    BY <2>5, <2>6, <2>7, <2>8 DEF sdk, app, is
<1> QED
  BY <1>3, <1>4

\* The deployment check of the SDK and the one of the web application verify the
\* same deployments, whatever has been initialized, created and taken off the list
\* before: only the configured one, whose circles award in its reputation contract,
\* and that one unless a read fails.
THEOREM VerificationHolds == DeploySpec => []VerificationIsRight
<1>1. DeployInit => Inv /\ AwardsOK /\ SeedInv
  <2>1. DeployInit => Inv /\ SeedInv
    BY InvInit, SeedStarts DEF DeployInit, CreateInit
  <2>2. DeployInit => AwardsOK
    BY DEF DeployInit, CreateInit, Init, RepInit, AwardsOK
  <2> QED
    BY <2>1, <2>2
<1>2. Inv => VerificationIsRight
  BY VerificationIsAlwaysRight
<1> QED
  BY <1>1, <1>2, SeedNext, PTL DEF DeploySpec

\* The decisions of the operators' tools hold for all their inputs: an edited
\* manifest is refused, a passing preflight is enough for every step, the upgrade
\* report warns of every artifact that differs, and the gates of a release do not
\* contradict each other.
THEOREM ToolsAgree ==
  EditsAreCaught /\ PreflightPredicts /\ ReportWarns /\ GatesOfAReleaseAgree
BY EditsAreAlwaysCaught, PreflightIsEnough, ReportAlwaysWarns, GatesAlwaysAgree

-----------------------------------------------------------------------------
(* What the SDK sends.                                                     *)

\* The argument check of createCircle.
LEMMA ArgsCheckedAre ==
  ASSUME NEW ms, NEW amount, NEW deadline
  PROVE  validateContractArgs(
           <<[type |-> "addressVec", value |-> ms], [type |-> "i128", value |-> amount],
             [type |-> "u32", value |-> deadline]>>)
         <=> (IsAddressVec(ms) /\ IsI128(amount) /\ IsU32(deadline))
<1>1. PICK a : a = [type |-> "addressVec", value |-> ms]
  OBVIOUS
<1>2. PICK b : b = [type |-> "i128", value |-> amount]
  OBVIOUS
<1>3. PICK c : c = [type |-> "u32", value |-> deadline]
  OBVIOUS
<1>4. /\ a.type = "addressVec" /\ a.value = ms /\ b.type = "i128" /\ b.value = amount
      /\ c.type = "u32" /\ c.value = deadline
  BY <1>1, <1>2, <1>3
<1>5. PICK params : params = <<a, b, c>>
  OBVIOUS
<1>6. /\ DOMAIN params = 1..3
      /\ params[1] = a /\ params[2] = b /\ params[3] = c
  BY <1>5
<1> DEFINE Ok(x) == CASE x.type = "address"    -> isValidStellarAddress(x.value)
                      [] x.type = "u32"        -> IsU32(x.value)
                      [] x.type = "i128"       -> IsI128(x.value)
                      [] x.type = "bool"       -> x.value.type = "boolean"
                      [] x.type = "addressVec" -> IsAddressVec(x.value)
<1>7. validateContractArgs(params) <=> Ok(a) /\ Ok(b) /\ Ok(c)
  <2>1. validateContractArgs(params) <=> \A i \in DOMAIN params : Ok(params[i])
    BY Zenon DEF validateContractArgs
  <2> HIDE DEF Ok
  <2> QED
    BY <1>6, <2>1
<1>9. (Ok(a) <=> IsAddressVec(ms)) /\ (Ok(b) <=> IsI128(amount)) /\ (Ok(c) <=> IsU32(deadline))
  BY <1>4
<1> HIDE DEF Ok
<1>8. validateContractArgs(params) <=> (IsAddressVec(ms) /\ IsI128(amount) /\ IsU32(deadline))
  BY <1>7, <1>9
<1> QED
  BY <1>1, <1>2, <1>3, <1>5, <1>8

\* Four arguments are encoded if each is.
LEMMA EncodedIs ==
  ASSUME NEW a, NEW b, NEW c, NEW d
  PROVE  /\ (a = {} \/ b = {} \/ c = {} \/ d = {}) => Encoded(<<a, b, c, d>>) = {}
         /\ \A x, y, z, w : (a = {x} /\ b = {y} /\ c = {z} /\ d = {w}) =>
              Encoded(<<a, b, c, d>>) = {<<x, y, z, w>>}
<1>1. PICK args : args = <<a, b, c, d>>
  OBVIOUS
<1>2. /\ DOMAIN args = 1..4
      /\ args[1] = a /\ args[2] = b /\ args[3] = c /\ args[4] = d
  BY <1>1
<1>3. (a = {} \/ b = {} \/ c = {} \/ d = {}) => Encoded(args) = {}
  BY <1>2 DEF Encoded
<1>4. ASSUME NEW x, NEW y, NEW z, NEW w, a = {x}, b = {y}, c = {z}, d = {w}
      PROVE  Encoded(args) = {<<x, y, z, w>>}
  <2>1. \A u : (CHOOSE v \in {u} : TRUE) = u
    OBVIOUS
  <2>2. \A i \in 1..4 : args[i] # {}
    BY <1>2, <1>4
  <2> DEFINE call == [i \in DOMAIN args |-> CHOOSE v \in args[i] : TRUE]
  <2>3. Encoded(args) = {call}
    BY <1>2, <2>2 DEF Encoded
  <2>4. /\ call[1] = x /\ call[2] = y /\ call[3] = z /\ call[4] = w /\ DOMAIN call = 1..4
        /\ call = [i \in 1..4 |-> call[i]]
    BY <1>2, <1>4, <2>1
  <2> HIDE DEF call
  <2>5. call = <<x, y, z, w>>
    BY <2>4
  <2> QED
    BY <2>3, <2>5
<1> QED
  BY <1>1, <1>3, <1>4

\* The arguments of the call that createCircle makes.
ArgsOf(p) ==
  <<ScVal("address", p.creator.v.who),
    ScVal("vec", [i \in DOMAIN p.members.v |-> p.members.v[i].v.who]),
    ScVal("i128", p.roundAmountStroops.v), ScVal("u32", p.roundDeadlineLedgers.v)>>

Encodable(p) ==
  {} \notin {scAddress(p.creator), scAddressVec(p.members),
             scI128(p.roundAmountStroops), scU32(p.roundDeadlineLedgers)}

\* createCircle makes the call of its arguments if they can be encoded, and none
\* otherwise: what the argument check refuses, the encoders refuse as well.
LEMMA CallIs ==
  ASSUME NEW p
  PROVE  /\ Encodable(p) => /\ IsAddressVec(p.members) /\ IsI128(p.roundAmountStroops)
                            /\ IsU32(p.roundDeadlineLedgers)
                            /\ createCircle(p) = {ArgsOf(p)}
         /\ ~Encodable(p) => createCircle(p) = {}
<1> DEFINE a == scAddress(p.creator)
           b == scAddressVec(p.members)
           c == scI128(p.roundAmountStroops)
           d == scU32(p.roundDeadlineLedgers)
           checked == /\ IsAddressVec(p.members) /\ IsI128(p.roundAmountStroops)
                      /\ IsU32(p.roundDeadlineLedgers)
<1>1. createCircle(p) = IF ~checked THEN {} ELSE Encoded(<<a, b, c, d>>)
  BY ArgsCheckedAre DEF createCircle
<1>2. b # {} => IsAddressVec(p.members)
  BY DEF scAddressVec, IsAddressVec, scAddress
<1>3. c # {} => IsI128(p.roundAmountStroops)
  BY DEF scI128, IsI128
<1>4. d # {} => IsU32(p.roundDeadlineLedgers)
  BY DEF scU32, IsU32
<1>5. /\ a # {} => a = {ScVal("address", p.creator.v.who)}
      /\ b # {} => b = {ScVal("vec", [i \in DOMAIN p.members.v |-> p.members.v[i].v.who])}
      /\ c # {} => c = {ScVal("i128", p.roundAmountStroops.v)}
      /\ d # {} => d = {ScVal("u32", p.roundDeadlineLedgers.v)}
  BY DEF scAddress, scAddressVec, scI128, scU32
<1>6. Encodable(p) <=> (a # {} /\ b # {} /\ c # {} /\ d # {})
  BY DEF Encodable
<1> HIDE DEF a, b, c, d
<1>7. CASE a # {} /\ b # {} /\ c # {} /\ d # {}
  <2>1. Encoded(<<a, b, c, d>>) = {ArgsOf(p)}
    <3>1. PICK x, y, z, w :
            /\ x = ScVal("address", p.creator.v.who)
            /\ y = ScVal("vec", [i \in DOMAIN p.members.v |-> p.members.v[i].v.who])
            /\ z = ScVal("i128", p.roundAmountStroops.v)
            /\ w = ScVal("u32", p.roundDeadlineLedgers.v)
      OBVIOUS
    <3>2. a = {x} /\ b = {y} /\ c = {z} /\ d = {w}
      BY <1>5, <1>7, <3>1
    <3>3. Encoded(<<a, b, c, d>>) = {<<x, y, z, w>>}
      BY <3>2, EncodedIs
    <3>4. ArgsOf(p) = <<x, y, z, w>>
      BY <3>1 DEF ArgsOf
    <3> QED
      BY <3>3, <3>4
  <2> QED
    BY <1>1, <1>2, <1>3, <1>4, <1>6, <1>7, <2>1
<1>8. CASE ~(a # {} /\ b # {} /\ c # {} /\ d # {})
  BY <1>1, <1>6, <1>8, EncodedIs
<1> QED
  BY <1>7, <1>8

\* The SDK sends what its caller gave, and refuses only what cannot be encoded.
LEMMA SdkAlwaysSends == SdkSendsWhatIsAsked
<1> SUFFICES ASSUME NEW p \in CreateParams
             PROVE  /\ \A call \in createCircle(p) :
                         /\ HostTakes("create_circle", call)
                         /\ [i \in DOMAIN call |-> call[i].v] =
                              <<p.creator.v.who, [i \in DOMAIN p.members.v |-> p.members.v[i].v.who],
                                p.roundAmountStroops.v, p.roundDeadlineLedgers.v>>
                    /\ createCircle(p) = {} =>
                         {} \in {scAddress(p.creator), scAddressVec(p.members),
                                 scI128(p.roundAmountStroops), scU32(p.roundDeadlineLedgers)}
  BY DEF SdkSendsWhatIsAsked
<1> DEFINE who == [i \in DOMAIN p.members.v |-> p.members.v[i].v.who]
<1>1. createCircle(p) = {} => ~Encodable(p)
  BY CallIs
<1>2. ASSUME NEW call \in createCircle(p)
      PROVE  /\ HostTakes("create_circle", call)
             /\ [i \in DOMAIN call |-> call[i].v] =
                  <<p.creator.v.who, who, p.roundAmountStroops.v, p.roundDeadlineLedgers.v>>
  <2>1. call = ArgsOf(p)
    BY <1>2, CallIs
  <2> HIDE DEF who
  <2>2. /\ Len(call) = 4 /\ DOMAIN call = 1..4
        /\ call[1] = ScVal("address", p.creator.v.who) /\ call[2] = ScVal("vec", who)
        /\ call[3] = ScVal("i128", p.roundAmountStroops.v)
        /\ call[4] = ScVal("u32", p.roundDeadlineLedgers.v)
    BY <2>1 DEF ArgsOf, who
  <2>3. /\ call[1].type = "address" /\ call[2].type = "vec" /\ call[3].type = "i128"
        /\ call[4].type = "u32" /\ call[1].v = p.creator.v.who /\ call[2].v = who
        /\ call[3].v = p.roundAmountStroops.v /\ call[4].v = p.roundDeadlineLedgers.v
    BY <2>2 DEF ScVal
  <2>4. PICK sig : sig = Signature("create_circle")
    OBVIOUS
  <2>5. sig = <<"address", "vec", "i128", "u32">>
    BY <2>4 DEF Signature
  <2>6. /\ Len(sig) = 4 /\ sig[1] = "address" /\ sig[2] = "vec" /\ sig[3] = "i128"
        /\ sig[4] = "u32"
    BY <2>5
  <2>7. HostTakes("create_circle", call)
    BY <2>2, <2>3, <2>4, <2>6 DEF HostTakes
  <2> DEFINE vs == [i \in DOMAIN call |-> call[i].v]
  <2>8. /\ vs[1] = p.creator.v.who /\ vs[2] = who /\ vs[3] = p.roundAmountStroops.v
        /\ vs[4] = p.roundDeadlineLedgers.v /\ vs = [i \in 1..4 |-> vs[i]]
    BY <2>2, <2>3
  <2> HIDE DEF vs
  <2>9. vs = <<p.creator.v.who, who, p.roundAmountStroops.v, p.roundDeadlineLedgers.v>>
    BY <2>8
  <2> QED
    BY <2>7, <2>9 DEF vs
<1> QED
  BY <1>1, <1>2 DEF Encodable

-----------------------------------------------------------------------------
(* What a deployed circle was configured with.                             *)

\* A configuration that passes initialize, as module Circle assumes it.
CircleOK(r) ==
  /\ r.members \in Seq(Range(r.members)) /\ Len(r.members) \in 2..MAX_MEMBERS
  /\ IsInjective(r.members)
  /\ r.round_amount \in Int /\ r.round_amount > 0
  /\ r.round_amount * Len(r.members) <= I128_MAX
  /\ r.round_amount * PENALTY_BPS <= I128_MAX
  /\ r.round_deadline_ledgers \in MIN_ROUND_DEADLINE_LEDGERS..MAX_ROUND_DEADLINE_LEDGERS

CirclesOK == (\A c \in DOMAIN circle : CircleOK(circle[c])) /\ CircleCount \in 0..MaxCircles

\* What the factory's validation guarantees.
LEMMA ValidatedIs ==
  ASSUME NEW ms, ms \in Seq(Range(ms)), NEW amount \in Int, NEW deadline \in Int,
         validate_create_inputs(ms, amount, deadline) = "ok"
  PROVE  /\ Len(ms) \in 2..MAX_MEMBERS /\ IsInjective(ms) /\ amount > 0
         /\ amount * Len(ms) <= I128_MAX /\ amount * PENALTY_BPS <= I128_MAX
         /\ deadline \in MIN_ROUND_DEADLINE_LEDGERS..MAX_ROUND_DEADLINE_LEDGERS
<1>1. /\ ~(Len(ms) < 2) /\ ~(Len(ms) > MAX_MEMBERS) /\ UniqueMembers(ms) /\ ~(amount <= 0)
      /\ ~Overflows(amount, Len(ms)) /\ ~Overflows(amount, PENALTY_BPS)
      /\ ~(deadline < MIN_ROUND_DEADLINE_LEDGERS) /\ ~(deadline > MAX_ROUND_DEADLINE_LEDGERS)
  BY DEF validate_create_inputs
<1>2. Len(ms) \in Nat /\ PENALTY_BPS \in Int /\ MAX_MEMBERS \in Nat
  BY FactoryAssumption DEF PENALTY_BPS
<1>3. amount * Len(ms) \in Int /\ amount * PENALTY_BPS \in Int
  BY <1>2
<1>4. amount * Len(ms) <= I128_MAX /\ amount * PENALTY_BPS <= I128_MAX
  <2>1. ~(amount * Len(ms) > I128_MAX) /\ ~(amount * PENALTY_BPS > I128_MAX)
    BY <1>1 DEF Overflows
  <2> DEFINE x == amount * Len(ms)
             y == amount * PENALTY_BPS
  <2>2. x \in Int /\ y \in Int /\ ~(x > I128_MAX) /\ ~(y > I128_MAX)
    BY <1>3, <2>1
  <2> HIDE DEF x, y
  <2>3. x <= I128_MAX /\ y <= I128_MAX
    BY <2>2, LimitsAssumption
  <2> QED
    BY <2>3 DEF x, y
<1> QED
  BY <1>1, <1>2, <1>4, LimitsAssumption DEF UniqueMembers

\* create_circle deploys a circle that initialize accepts.
LEMMA CreationIsOK ==
  ASSUME CirclesOK, NEW creator, NEW ms, NEW amount \in Int, NEW deadline \in Int,
         ms \in Seq(Range(ms)), create_circle(creator, ms, amount, deadline)
  PROVE  CirclesOK'
<1> DEFINE c == derive_circle_salt(creator)
           r == [members |-> ms, round_amount |-> amount,
                 round_deadline_ledgers |-> deadline, admin |-> Factory]
<1>1. /\ CircleCount < MaxCircles /\ validate_create_inputs(ms, amount, deadline) = "ok"
      /\ circle' = [x \in DOMAIN circle \cup {c} |-> IF x = c THEN r ELSE circle[x]]
      /\ CircleCount' = CircleCount + 1
  BY DEF create_circle, RegisterCircle
<1>2. /\ Len(ms) \in 2..MAX_MEMBERS /\ IsInjective(ms) /\ amount > 0
      /\ amount * Len(ms) <= I128_MAX /\ amount * PENALTY_BPS <= I128_MAX
      /\ deadline \in MIN_ROUND_DEADLINE_LEDGERS..MAX_ROUND_DEADLINE_LEDGERS
  BY <1>1, ValidatedIs
<1>3. r.members = ms /\ r.round_amount = amount /\ r.round_deadline_ledgers = deadline
  OBVIOUS
<1> HIDE DEF c, r
<1>4. CircleOK(r)
  BY <1>2, <1>3 DEF CircleOK
<1>5. CircleCount' \in 0..MaxCircles
  BY <1>1, FactoryAssumption DEF CirclesOK
<1>6. \A d \in DOMAIN circle' : CircleOK(circle'[d])
  BY <1>1, <1>4 DEF CirclesOK
<1> QED
  BY <1>5, <1>6 DEF CirclesOK, CircleOK

\* A list that is not too long is one.
LEMMA ListsAre ==
  ASSUME NEW S, NEW s \in Seq(S)
  PROVE  s \in Seq(Range(s))
BY DEF Range

\* What a program passes on through the SDK has the types of the contract.
LEMMA CallsAreTyped ==
  ASSUME NEW p \in CreateParams, NEW call \in createCircle(p)
  PROVE  call[2].v \in Seq(Range(call[2].v)) /\ call[3].v \in Int /\ call[4].v \in Int
<1> DEFINE who == [i \in DOMAIN p.members.v |-> p.members.v[i].v.who]
<1>1. /\ IsAddressVec(p.members) /\ IsI128(p.roundAmountStroops)
      /\ IsU32(p.roundDeadlineLedgers) /\ call = ArgsOf(p)
  BY CallIs
<1> HIDE DEF who
<1>2. /\ call[2] = ScVal("vec", who) /\ call[3] = ScVal("i128", p.roundAmountStroops.v)
      /\ call[4] = ScVal("u32", p.roundDeadlineLedgers.v)
  BY <1>1 DEF ArgsOf, who
<1>3. /\ call[2].v = who /\ call[3].v = p.roundAmountStroops.v
      /\ call[4].v = p.roundDeadlineLedgers.v
  BY <1>2 DEF ScVal
<1>4. p.roundAmountStroops.v \in Int
  BY <1>1, ValidatorsAssumption, LimitsAssumption DEF IsI128, I128_MIN
<1>5. p.roundDeadlineLedgers.v \in Int
  BY <1>1, ValidatorsAssumption DEF IsU32
<1>6. p.members.v \in Seq(Range(p.members.v))
  BY <1>1, RangesAssumption DEF IsAddressVec
<1>7. who \in Seq(Range(who))
  <2>1. DOMAIN p.members.v = 1..Len(p.members.v) /\ Len(p.members.v) \in Nat
    BY <1>6
  <2>2. DOMAIN who = 1..Len(p.members.v) /\ who = [i \in 1..Len(p.members.v) |-> who[i]]
    BY <2>1 DEF who
  <2> QED
    BY <2>1, <2>2 DEF Range
<1> QED
  BY <1>3, <1>4, <1>5, <1>7

\* No circle has been created at the start.
LEMMA CirclesInit == DeployInit => CirclesOK
<1> SUFFICES ASSUME DeployInit PROVE CirclesOK
  OBVIOUS
<1>1. circle = <<>> /\ CircleCount = 0
  BY DEF DeployInit, CreateInit, Init
<1> QED
  BY <1>1, FactoryAssumption DEF CirclesOK

\* Every circle of the factory was validated, whoever creates it: a program through
\* the SDK, the seeder, a wallet.
LEMMA CirclesNext == ASSUME CirclesOK, [DeployNext]_deployVars PROVE CirclesOK'
<1>1. ASSUME UNCHANGED <<circle, CircleCount>> PROVE CirclesOK'
  BY <1>1 DEF CirclesOK, CircleOK
<1>2. ASSUME NEW creator, NEW ms \in MemberLists, NEW amount \in Int, NEW deadline \in Int,
             create_circle(creator, ms, amount, deadline)
      PROVE  CirclesOK'
  <2>1. validate_create_inputs(ms, amount, deadline) = "ok"
    BY <1>2 DEF create_circle
  <2>2. ~(Len(ms) > MAX_MEMBERS)
    BY <2>1 DEF validate_create_inputs
  <2>3. ms \in Seq(Member)
    BY <2>2, FactoryAssumption
  <2> QED
    BY <1>2, <2>3, ListsAre, CreationIsOK
<1>3. CASE CreateNext
  <2>1. CASE SdkCreate
    <3>1. PICK p \in CreateParams : \E call \in createCircle(p) :
            create_circle(call[1].v, call[2].v, call[3].v, call[4].v)
      BY <2>1 DEF SdkCreate
    <3>2. PICK call \in createCircle(p) :
            create_circle(call[1].v, call[2].v, call[3].v, call[4].v)
      BY <3>1
    <3>3. call[2].v \in Seq(Range(call[2].v)) /\ call[3].v \in Int /\ call[4].v \in Int
      BY CallsAreTyped
    <3> QED
      BY <3>2, <3>3, CreationIsOK
  <2>2. CASE Submit
    BY <1>1, <2>2 DEF Submit, vars, facVars
  <2>3. CASE Next
    <3>1. ASSUME NEW creator \in Creator, NEW ms \in MemberLists, NEW amount \in Amounts,
                 NEW deadline \in Deadlines, create_circle(creator, ms, amount, deadline)
          PROVE  CirclesOK'
      BY <1>2, <3>1, LimitsAssumption
    <3>2. CASE \E a \in Signers : FactoryInitialize(a)
      <4>1. circle' = circle /\ CircleCount' = 0
        BY <3>2 DEF FactoryInitialize
      <4> QED
        BY <4>1, FactoryAssumption DEF CirclesOK, CircleOK
    <3>3. CASE UNCHANGED <<circle, CircleCount>>
      BY <1>1, <3>3
    <3> QED
      BY <2>3, <3>1, <3>2, <3>3 DEF Next, CircleAwards, ManageByHand, AdvanceLedger, facVars
  <2> QED
    BY <1>3, <2>1, <2>2, <2>3 DEF CreateNext
<1>4. CASE Settle
  <2>1. CASE create_circle("alice", SeedMembers, 50, MIN_ROUND_DEADLINE_LEDGERS)
    <3>1. SeedMembers \in Seq(Range(SeedMembers))
      BY DeploymentAssumption, ListsAre
    <3> QED
      BY <2>1, <3>1, CreationIsOK, LimitsAssumption
  <2>2. CASE UNCHANGED <<circle, CircleCount>>
    BY <1>1, <2>2
  <2> QED
    BY <1>4, <2>1, <2>2 DEF Settle, vars, facVars
<1>5. CASE OthersCreate
  BY <1>2, <1>5, LimitsAssumption DEF OthersCreate
<1>6. CASE UNCHANGED allVars
  BY <1>1, <1>6 DEF allVars, vars, facVars
<1> QED
  BY <1>3, <1>4, <1>5, <1>6 DEF DeployNext, OpsStep, deployVars

\* In a factory wired to distinct, usable contracts its verdict is the circle's, and
\* every deployed circle has passed both.
LEMMA ValidationAlwaysAgrees == ASSUME Inv, CirclesOK PROVE ValidationAgrees
<1>1. ASSUME NEW creator \in Creator, NEW ms \in MemberLists, NEW amount \in Amounts,
             NEW deadline \in Deadlines
      PROVE  validate_create_inputs(ms, amount, deadline) = "ok" <=>
               circle_validates(derive_circle_salt(creator), ms, amount, deadline,
                                UsdcToken, ReputationContract) = "ok"
  <2> DEFINE c == derive_circle_salt(creator)
  <2>1. c \in Creator \X Nat \X Nat
    <3>1. CircleCount \in Nat /\ ledger \in Nat
      BY FactoryAssumption DEF Inv, ListsOK
    <3> QED
      BY <3>1 DEF derive_circle_salt
  <2> HIDE DEF c
  <2>2. UsdcToken # c /\ ReputationContract \notin {c, UsdcToken}
    BY <2>1, DistinctAddressesAssumption
  <2>3. validate_create_inputs(ms, amount, deadline) = "ok" <=>
          circle_validates(c, ms, amount, deadline, UsdcToken, ReputationContract) = "ok"
    BY <2>2 DEF validate_create_inputs, circle_validates
  <2> QED
    BY <2>3 DEF c
<1>2. ASSUME NEW c \in DOMAIN circle
      PROVE  /\ Len(circle[c].members) >= 2 /\ IsInjective(circle[c].members)
             /\ circle[c].round_amount > 0
             /\ circle[c].round_amount * Len(circle[c].members) <= I128_MAX
             /\ circle[c].round_amount * PENALTY_BPS <= I128_MAX
  BY <1>2 DEF CirclesOK, CircleOK
<1> QED
  BY <1>1, <1>2 DEF ValidationAgrees

-----------------------------------------------------------------------------
(* What the SDK reads of a circle.                                         *)

\* Values that decode to what they encode.
LEMMA NumberDecodes ==
  ASSUME NEW n \in 0..U32_MAX
  PROVE  decodeU32(Number(n)) = {n} /\ \A a, b : n \in a..b => decodeU32InRange(Number(n), a, b) = {n}
<1>1. Number(n).type = "number" /\ Number(n).whole = TRUE /\ Number(n).v = n
  BY DEF Number
<1>2. decodeU32(Number(n)) = {n}
  BY <1>1 DEF decodeU32, IsU32
<1> QED
  BY <1>2 DEF decodeU32InRange

\* An amount or a ledger within its range decodes to itself.
LEMMA BigIntDecodes ==
  ASSUME NEW n \in Int
  PROVE  /\ n \in 0..U64_MAX => decodeU64(BigInt(n)) = {n}
         /\ n \in 1..I128_MAX => decodeI128(BigInt(n), 1) = {n}
<1>1. BigInt(n).type = "bigint" /\ BigInt(n).v = n
  BY DEF BigInt
<1>2. decodeBigInt(BigInt(n)) = {n}
  BY <1>1 DEF decodeBigInt
<1>3. n \in 1..I128_MAX => n \in I128_MIN..I128_MAX /\ n >= 1
  BY LimitsAssumption DEF I128_MIN
<1> QED
  BY <1>2, <1>3 DEF decodeU64, decodeI128

\* A list of addresses decodes to their owners.
LEMMA ListDecodes ==
  ASSUME NEW S, NEW s \in Seq(S), NEW f, f = [i \in DOMAIN s |-> Contract(s[i])]
                                       \/ f = [i \in DOMAIN s |-> Account(s[i])],
         NEW most \in Nat, Len(s) <= most, NEW unique \in BOOLEAN, unique => IsInjective(s)
  PROVE  decodeAddressList(List(f), unique, most) = {s}
<1>1. PICK x : x = List(f)
  OBVIOUS
<1>2. x.type = "array" /\ x.v = f
  BY <1>1 DEF List
<1>3. \A i \in DOMAIN s : decodeAddress(f[i]) # {} /\ f[i].v.who = s[i]
  <2>1. ASSUME NEW i \in DOMAIN s
        PROVE  /\ decodeAddress(Contract(s[i])) = {s[i]} /\ decodeAddress(Account(s[i])) = {s[i]}
               /\ Contract(s[i]).v.who = s[i] /\ Account(s[i]).v.who = s[i]
    <3>1. Account(s[i]).v.who = s[i]
      BY DEF Account, Text
    <3> QED
      BY <3>1, AddressDecodes
  <2> QED
    BY <2>1
<1>4. DOMAIN f = 1..Len(s) /\ Len(f) = Len(s) /\ DOMAIN s = 1..Len(s)
  OBVIOUS
<1> DEFINE who == [i \in DOMAIN f |-> f[i].v.who]
<1>5. who = s
  <2>1. s = [i \in 1..Len(s) |-> s[i]]
    OBVIOUS
  <2> QED
    BY <1>3, <1>4, <2>1
<1>6. decodeAddressList(x, unique, most) = {who}
  <2>1. unique => IsInjective(who)
    BY <1>5
  <2> QED
    BY <1>2, <1>3, <1>4, <2>1 DEF decodeAddressList
<1> QED
  BY <1>1, <1>5, <1>6

\* The configuration of a circle decodes to what the contract holds.
LEMMA ConfigReads ==
  ASSUME NEW c, CircleOK(circle[c])
  PROVE  mapRawConfig(get_config(c)) =
           {[members |-> circle[c].members, roundAmount |-> circle[c].round_amount,
             usdcToken |-> config.usdc, reputationContract |-> config.reputation,
             roundDeadlineLedgers |-> circle[c].round_deadline_ledgers]}
<1> DEFINE ms == circle[c].members
           amount == circle[c].round_amount
           deadline == circle[c].round_deadline_ledgers
           list == List([i \in DOMAIN ms |-> Account(ms[i])])
           wire == [members |-> list, round_amount |-> BigInt(amount),
                    usdc_token |-> Contract(config.usdc),
                    reputation_contract |-> Contract(config.reputation),
                    round_deadline_ledgers |-> Number(deadline)]
<1>1. PICK raw : raw = get_config(c)
  OBVIOUS
<1>2. raw.type = "object" /\ raw.v = wire
  BY <1>1 DEF get_config, Object
<1>3. /\ DOMAIN wire = ConfigFields
      /\ wire.members = list /\ wire.round_amount = BigInt(amount)
      /\ wire.usdc_token = Contract(config.usdc)
      /\ wire.reputation_contract = Contract(config.reputation)
      /\ wire.round_deadline_ledgers = Number(deadline)
  BY DEF ConfigFields
<1>4. decodeAddressList(list, TRUE, MAX_CIRCLE_MEMBERS) = {ms}
  <2>1. ms \in Seq(Range(ms)) /\ Len(ms) <= MAX_CIRCLE_MEMBERS /\ MAX_CIRCLE_MEMBERS \in Nat
        /\ IsInjective(ms)
    BY RangesAssumption, FactoryAssumption DEF CircleOK
  <2> HIDE DEF ms
  <2>2. PICK f : f = [i \in DOMAIN ms |-> Account(ms[i])]
    OBVIOUS
  <2>3. PICK u : u = TRUE
    OBVIOUS
  <2>4. decodeAddressList(List(f), u, MAX_CIRCLE_MEMBERS) = {ms}
    BY <2>1, <2>2, <2>3, ListDecodes
  <2> QED
    BY <2>2, <2>3, <2>4
<1>5. decodeI128(BigInt(amount), 1) = {amount}
  <2>1. amount \in 1..I128_MAX
    <3>1. /\ amount \in Int /\ amount > 0 /\ amount * 2000 <= I128_MAX
      BY DEF CircleOK, PENALTY_BPS
    <3> HIDE DEF amount
    <3> QED
      BY <3>1, LimitsAssumption
  <2> QED
    BY <2>1, BigIntDecodes
<1>6. /\ decodeAddress(Contract(config.usdc)) = {config.usdc}
      /\ decodeAddress(Contract(config.reputation)) = {config.reputation}
  BY AddressDecodes
<1>7. decodeU32InRange(Number(deadline), MIN_ROUND_DEADLINE_LEDGERS, MAX_ROUND_DEADLINE_LEDGERS)
        = {deadline}
  <2>1. /\ deadline \in MIN_ROUND_DEADLINE_LEDGERS..MAX_ROUND_DEADLINE_LEDGERS
        /\ deadline \in 0..U32_MAX
    BY RangesAssumption, LimitsAssumption, ValidatorsAssumption DEF CircleOK
  <2> QED
    BY <2>1, NumberDecodes
<1> HIDE DEF ms, amount, deadline, list, wire
<1>8. decodeRecord(raw, ConfigFields) = {wire}
  BY <1>2, <1>3 DEF decodeRecord
<1> DEFINE A == decodeAddressList(wire.members, TRUE, MAX_CIRCLE_MEMBERS)
           B == decodeI128(wire.round_amount, 1)
           X == decodeAddress(wire.usdc_token)
           Y == decodeAddress(wire.reputation_contract)
           Z == decodeU32InRange(wire.round_deadline_ledgers,
                  MIN_ROUND_DEADLINE_LEDGERS, MAX_ROUND_DEADLINE_LEDGERS)
           recs == {[members |-> a, roundAmount |-> b, usdcToken |-> x,
                     reputationContract |-> y, roundDeadlineLedgers |-> z] :
                      a \in A, b \in B, x \in X, y \in Y, z \in Z}
<1>9. mapRawConfig(raw) = recs
  BY <1>8 DEF mapRawConfig
<1>10. A = {ms} /\ B = {amount} /\ X = {config.usdc} /\ Y = {config.reputation} /\ Z = {deadline}
  BY <1>3, <1>4, <1>5, <1>6, <1>7
<1> HIDE DEF A, B, X, Y, Z
<1>11. recs = {[members |-> ms, roundAmount |-> amount, usdcToken |-> config.usdc,
                reputationContract |-> config.reputation, roundDeadlineLedgers |-> deadline]}
  BY <1>10
<1> HIDE DEF recs
<1> QED
  BY <1>1, <1>9, <1>11 DEF ms, amount, deadline

\* So does each of its rounds.
LEMMA RoundReads ==
  ASSUME NEW c, CircleOK(circle[c]), ledger \in 0..MaxLedger,
         NEW r \in DOMAIN circle[c].members, NEW round, round = get_round(c, r)
  PROVE  \E read \in mapRawRoundState(round) :
           /\ read.recipient = circle[c].members[r]
           /\ read.deadlineLedger = round.v.deadline_ledger.v
<1> DEFINE ms == circle[c].members
           due == ledger + circle[c].round_deadline_ledgers
           wire == [round_index |-> Number(r - 1), recipient |-> Account(ms[r]),
                    contributions_received |-> Number(Len(ms)),
                    deadline_ledger |-> BigInt(due), paid_out |-> Boolean(FALSE)]
<1>1. /\ r - 1 \in 0..U32_MAX /\ Len(ms) \in 0..U32_MAX /\ Len(ms) \in 0..MAX_CIRCLE_MEMBERS
      /\ due \in 0..U64_MAX
  <2>1. r \in 1..Len(ms) /\ Len(ms) \in 2..MAX_MEMBERS /\ MAX_MEMBERS \in Nat
    BY FactoryAssumption DEF CircleOK
  <2>2. /\ circle[c].round_deadline_ledgers \in MIN_ROUND_DEADLINE_LEDGERS..MAX_ROUND_DEADLINE_LEDGERS
        /\ MIN_ROUND_DEADLINE_LEDGERS \in Nat /\ MAX_ROUND_DEADLINE_LEDGERS \in Nat
        /\ MaxLedger \in Nat
    BY LimitsAssumption, FactoryAssumption DEF CircleOK
  <2>3. due \in 0..U64_MAX
    <3>1. PICK k : k = circle[c].round_deadline_ledgers
      OBVIOUS
    <3>2. /\ MaxLedger + MAX_ROUND_DEADLINE_LEDGERS <= U64_MAX
          /\ U64_MAX \in Nat
      BY RangesAssumption, ValidatorsAssumption
    <3>3. ledger + k \in 0..U64_MAX
      BY <2>2, <3>1, <3>2
    <3> QED
      BY <3>1, <3>3
  <2> HIDE DEF ms, due
  <2> QED
    BY <2>1, <2>3, RangesAssumption, ValidatorsAssumption
<1>2. round.type = "object" /\ round.v = wire
  BY DEF get_round, Object
<1>3. /\ DOMAIN wire = RoundFields
      /\ wire.round_index = Number(r - 1) /\ wire.recipient = Account(ms[r])
      /\ wire.contributions_received = Number(Len(ms)) /\ wire.deadline_ledger = BigInt(due)
      /\ wire.paid_out = Boolean(FALSE)
  BY DEF RoundFields
<1> HIDE DEF ms, due, wire
<1>4. /\ decodeU32(wire.round_index) = {r - 1}
      /\ decodeU32InRange(wire.contributions_received, 0, MAX_CIRCLE_MEMBERS) = {Len(ms)}
  BY <1>1, <1>3, NumberDecodes
<1>5. decodeAddress(wire.recipient) = {ms[r]}
  BY <1>3, AddressDecodes
<1>6. decodeU64(wire.deadline_ledger) = {due}
  BY <1>1, <1>3, BigIntDecodes
<1>7. decodeBoolean(wire.paid_out) # {}
  <2>1. \A b : decodeBoolean(Boolean(b)) # {}
    BY DEF decodeBoolean, Boolean
  <2> QED
    BY <1>3, <2>1, Zenon
<1>8. decodeRecord(round, RoundFields) = {wire}
  BY <1>2, <1>3 DEF decodeRecord
<1>9. PICK paid : paid \in decodeBoolean(wire.paid_out)
  BY <1>7
<1> DEFINE A == decodeU32(wire.round_index)
           B == decodeAddress(wire.recipient)
           X == decodeU32InRange(wire.contributions_received, 0, MAX_CIRCLE_MEMBERS)
           Y == decodeU64(wire.deadline_ledger)
           Z == decodeBoolean(wire.paid_out)
           reads == {[roundIndex |-> a, recipient |-> b, contributionsReceived |-> x,
                      deadlineLedger |-> y, paidOut |-> z] :
                       a \in A, b \in B, x \in X, y \in Y, z \in Z}
           read == [roundIndex |-> r - 1, recipient |-> ms[r], contributionsReceived |-> Len(ms),
                    deadlineLedger |-> due, paidOut |-> paid]
<1>10. mapRawRoundState(round) = reads
  BY <1>8 DEF mapRawRoundState
<1>11. read.recipient = ms[r] /\ read.deadlineLedger = due
  OBVIOUS
<1>12. round.v.deadline_ledger.v = due
  BY <1>2, <1>3 DEF BigInt
<1>13. r - 1 \in A /\ ms[r] \in B /\ Len(ms) \in X /\ due \in Y /\ paid \in Z
  BY <1>4, <1>5, <1>6, <1>9
<1> HIDE DEF A, B, X, Y, Z
<1>14. read \in reads
  BY <1>13
<1> HIDE DEF reads, read
<1> QED
  BY <1>10, <1>11, <1>12, <1>14 DEF ms

\* Every deployed circle can be read.
LEMMA CirclesAlwaysRead == ASSUME Inv, CirclesOK PROVE EveryCircleReads
<1>1. decodeAddressList(get_circles, FALSE, MaxCircles) = {Circles}
  <2>1. Circles \in Seq(Circle) /\ Len(Circles) <= MaxCircles /\ MaxCircles \in Nat
    BY FactoryAssumption DEF Inv, ListsOK, Registry, CirclesOK
  <2>2. PICK f : f = [i \in DOMAIN Circles |-> Contract(Circles[i])]
    OBVIOUS
  <2>3. PICK u : u = FALSE
    OBVIOUS
  <2>4. decodeAddressList(List(f), u, MaxCircles) = {Circles}
    BY <2>1, <2>2, <2>3, ListDecodes
  <2> QED
    BY <2>2, <2>3, <2>4 DEF get_circles
<1>2. ASSUME NEW c \in DOMAIN circle
      PROVE  /\ mapRawConfig(get_config(c)) =
                  {[members |-> circle[c].members, roundAmount |-> circle[c].round_amount,
                    usdcToken |-> config.usdc, reputationContract |-> config.reputation,
                    roundDeadlineLedgers |-> circle[c].round_deadline_ledgers]}
             /\ \A r \in DOMAIN circle[c].members :
                  \A round \in {get_round(c, r)} :
                    \E read \in mapRawRoundState(round) :
                      /\ read.recipient = circle[c].members[r]
                      /\ read.deadlineLedger = round.v.deadline_ledger.v
  <2>1. CircleOK(circle[c]) /\ ledger \in 0..MaxLedger
    BY DEF CirclesOK, Inv, ListsOK
  <2>2. ASSUME NEW r \in DOMAIN circle[c].members, NEW round \in {get_round(c, r)}
        PROVE  \E read \in mapRawRoundState(round) :
                 /\ read.recipient = circle[c].members[r]
                 /\ read.deadlineLedger = round.v.deadline_ledger.v
    BY <2>1, <2>2, RoundReads
  <2> QED
    BY <2>1, <2>2, ConfigReads
<1> QED
  BY <1>1, <1>2, Zenon DEF EveryCircleReads

-----------------------------------------------------------------------------
(* The form.                                                               *)

\* The rows of a form are a list.
LEMMA RowsAre ==
  ASSUME NEW f \in Forms
  PROVE  /\ f.members \in Seq(Entries)
         /\ Len(f.members) \in MIN_FORM_MEMBERS..MAX_FORM_MEMBERS
         /\ f.amount \in AmountTexts /\ f.days \in DayTexts
<1>1. PICK n \in MIN_FORM_MEMBERS..MAX_FORM_MEMBERS : f.members \in [1..n -> Entries]
  BY DEF Forms
<1>2. n \in Nat
  BY FormLimitsAssumption, FactoryAssumption
<1>3. f.members \in Seq(Entries) /\ Len(f.members) = n
  BY <1>1, <1>2
<1> QED
  BY <1>3 DEF Forms

\* A row that is not refused is blank or of an account.
LEMMA RowAccepted ==
  ASSUME NEW e, validateMemberEntry(e) = ""
  PROVE  e.kind \in {"blank", "account"}
BY DEF validateMemberEntry, isStellarPublicKey, isValidStellarAccount

\* The rows that the form takes: accounts, no more than there are rows, and all of
\* them if none is blank or refused.
LEMMA ValidMembersAre ==
  ASSUME NEW f \in Forms
  PROVE  LET ms == validMembers(f)
         IN  /\ ms \in Seq(Entries) /\ Len(ms) <= Len(f.members)
             /\ \A i \in DOMAIN ms : ms[i].kind = "account"
             /\ (\A i \in DOMAIN f.members : /\ f.members[i].kind # "blank"
                                             /\ validateMemberEntry(f.members[i]) = "")
                  => Len(ms) = Len(f.members)
             /\ (\A i \in DOMAIN f.members : validateMemberEntry(f.members[i]) = "")
                  => getFilledMembers(f.members) = ms
<1> DEFINE s == f.members
           C == {e \in Range(s) : e.kind = "blank" \/ validateMemberEntry(e) # ""}
           B == {e \in Range(s) : e.kind = "blank"}
           ms == validMembers(f)
<1>1. s \in Seq(Entries)
  BY RowsAre
<1>2. ms = Without(s, C) /\ getFilledMembers(s) = Without(s, B)
  BY DEF validMembers, getFilledMembers
<1>3. /\ \A e \in Range(s) \ C : e.kind = "account"
      /\ (\A i \in DOMAIN s : /\ s[i].kind # "blank" /\ validateMemberEntry(s[i]) = "")
           => Range(s) \cap C = {}
      /\ (\A i \in DOMAIN s : validateMemberEntry(s[i]) = "") => C = B
  <2>1. \A e \in Range(s) \ C : e.kind = "account"
    <3> SUFFICES ASSUME NEW e \in Range(s) \ C PROVE e.kind = "account"
      OBVIOUS
    <3>1. ~(e.kind = "blank" \/ validateMemberEntry(e) # "")
      OBVIOUS
    <3>2. e.kind # "blank" /\ validateMemberEntry(e) = ""
      BY <3>1, Zenon
    <3> QED
      BY <3>2, RowAccepted
  <2>2. ASSUME \A i \in DOMAIN s : /\ s[i].kind # "blank" /\ validateMemberEntry(s[i]) = ""
        PROVE  Range(s) \cap C = {}
    BY <2>2 DEF Range
  <2>3. ASSUME \A i \in DOMAIN s : validateMemberEntry(s[i]) = ""
        PROVE  C = B
    BY <2>3 DEF Range
  <2> QED
    BY <2>1, <2>2, <2>3
<1> HIDE DEF s, C, B, ms
<1>4. /\ ms \in Seq(Entries) /\ Range(ms) = Range(s) \ C /\ Len(ms) <= Len(s)
      /\ Range(s) \cap C = {} => Len(ms) = Len(s)
  BY <1>1, <1>2, WithoutIs
<1>5. \A i \in DOMAIN ms : ms[i].kind = "account"
  BY <1>3, <1>4 DEF Range
<1>6. C = B => getFilledMembers(s) = ms
  BY <1>2
<1> QED
  BY <1>3, <1>4, <1>5, <1>6 DEF s, ms

\* Accounts that are all different, counted.
LEMMA AccountsCount ==
  ASSUME NEW ms \in Seq(Entries), \A i \in DOMAIN ms : ms[i].kind = "account",
         ~findDuplicateAddress(ms)
  PROVE  /\ IsInjective([i \in DOMAIN ms |-> ms[i].who])
         /\ Cardinality({<<IF e.kind = "lowercase" THEN "account" ELSE e.kind, e.who>> :
                           e \in Range(ms)}) = Len(ms)
<1> DEFINE who == [i \in DOMAIN ms |-> ms[i].who]
           n == Len(ms)
<1>1. n \in Nat /\ DOMAIN ms = 1..n /\ \A i \in 1..n : ms[i] \in Entries
  OBVIOUS
<1>2. ASSUME NEW i \in 1..n, NEW j \in 1..n, ms[i].who = ms[j].who PROVE i = j
  <2>1. ms[i] = [kind |-> ms[i].kind, who |-> ms[i].who] /\ ms[j] = [kind |-> ms[j].kind, who |-> ms[j].who]
    BY <1>1, TextsAssumption
  <2>2. ms[i].kind = ms[j].kind
    BY <1>1
  <2>3. ms[i] = ms[j]
    BY <1>2, <2>1, <2>2
  <2>4. ~(i < j) /\ ~(j < i)
    BY <1>1, <2>3 DEF findDuplicateAddress
  <2> QED
    BY <1>1, <2>4
<1>3. IsInjective(who)
  BY <1>1, <1>2 DEF IsInjective
<1> DEFINE D == {<<IF e.kind = "lowercase" THEN "account" ELSE e.kind, e.who>> : e \in Range(ms)}
           g == [i \in 1..n |-> <<"account", ms[i].who>>]
<1>4. D = {<<"account", ms[i].who>> : i \in 1..n}
  <2>1. D = {<<IF ms[i].kind = "lowercase" THEN "account" ELSE ms[i].kind, ms[i].who>> : i \in 1..n}
    BY <1>1 DEF Range
  <2> QED
    BY <1>1, <2>1
<1>5. g \in Bijection(1..n, D)
  <2>1. \A i, j \in 1..n : g[i] = g[j] => i = j
    BY <1>2
  <2>2. g \in [1..n -> D] /\ \A t \in D : \E i \in 1..n : g[i] = t
    BY <1>4
  <2> HIDE DEF g, D
  <2>3. g \in Injection(1..n, D) /\ g \in Surjection(1..n, D)
    BY <2>1, <2>2 DEF Injection, Surjection, IsInjective
  <2> QED
    BY <2>3 DEF Bijection
<1>6. Cardinality(D) = n
  <2> HIDE DEF g, D
  <2>1. ExistsBijection(1..n, D)
    BY <1>5 DEF ExistsBijection
  <2> QED
    BY <1>1, <2>1, FS_CountingElements
<1> QED
  BY <1>3, <1>6

\* There is no message.
Silent(x) == x = ""

\* The messages of a form.
LEMMA ErrorsAre ==
  ASSUME NEW f, NEW e, e = Errors(f)
  PROVE  /\ e.amount = amountError(f.amount) /\ e.days = daysError(f.days)
         /\ e.members = [i \in DOMAIN f.members |-> validateMemberEntry(f.members[i])]
         /\ LET n == Len(validMembers(f))
            IN  /\ getMemberCountStatus(n) # "ok" => e.membersGeneral = getMemberCountStatus(n)
                /\ (getMemberCountStatus(n) = "ok" /\ findDuplicateAddress(validMembers(f)))
                     => e.membersGeneral = "duplicate"
                /\ (getMemberCountStatus(n) = "ok" /\ ~findDuplicateAddress(validMembers(f)))
                     => e.membersGeneral = ""
BY DEF Errors

\* How many rows are too few, and that there are never too many.
LEMMA CountIs ==
  ASSUME NEW n \in Nat, n <= MAX_FORM_MEMBERS
  PROVE  /\ n >= 2 => getMemberCountStatus(n) = "ok"
         /\ n < 2 => getMemberCountStatus(n) = "too_few"
<1>1. MIN_FORM_MEMBERS = 2 /\ MAX_FORM_MEMBERS \in Nat
  BY FormLimitsAssumption, FactoryAssumption
<1> QED
  BY <1>1 DEF getMemberCountStatus

\* A smaller factor, a smaller product.
LEMMA ProductsGrow ==
  ASSUME NEW a \in Nat, NEW b \in Nat, NEW c \in Nat, a <= b
  PROVE  a * c <= b * c
<1>1. (b - a) * c >= 0 /\ (b - a) * c = b * c - a * c
  OBVIOUS
<1> QED
  BY <1>1

\* An amount that the form takes.
LEMMA AmountIs ==
  ASSUME NEW a \in AmountTexts, Silent(amountError(a))
  PROVE  roundStroops(a) \in Nat \ {0} /\ roundStroops(a) <= MAX_ROUND_USDC * STROOP
<1> DEFINE t == a.tenths
           most == MAX_ROUND_USDC * STROOP
<1>1. t \in Int /\ most \in Nat
  BY TextsAssumption, FormLimitsAssumption
<1>2. ~(t < 0) /\ ~(t = 0) /\ ~(t > most * 10) /\ usdcToStroops(a) # {}
  BY DEF amountError, Silent
<1>3. t % 10 = 0 /\ usdcToStroops(a) = {t \div 10}
  BY <1>2 DEF usdcToStroops
<1>4. roundStroops(a) = t \div 10
  BY <1>3 DEF roundStroops
<1> HIDE DEF t, most
<1>5. t \div 10 \in Int /\ t = 10 * (t \div 10)
  BY <1>1, <1>3
<1>6. t \div 10 > 0 /\ t \div 10 <= most
  BY <1>1, <1>2, <1>5
<1> QED
  BY <1>4, <1>5, <1>6 DEF most

\* Days that the form takes are a deadline that is not below the contracts'.
LEMMA DaysAre ==
  ASSUME NEW d \in DayTexts, Silent(daysError(d))
  PROVE  /\ daysToLedgers(d.mantissa) \in Nat
         /\ daysToLedgers(d.mantissa) >= MIN_ROUND_DEADLINE_LEDGERS
<1>0. ~(d.mantissa < 1)
  BY DEF daysError, Silent
<1>1. d.mantissa \in Int /\ ~(d.mantissa < 1)
  BY <1>0, TextsAssumption
<1>2. PICK m \in Nat : m = d.mantissa /\ 1 <= m
  BY <1>1
<1>3. 1 * LEDGERS_PER_DAY <= m * LEDGERS_PER_DAY /\ m * LEDGERS_PER_DAY \in Nat
  BY <1>2, FormLimitsAssumption, ProductsGrow
<1>4. m * LEDGERS_PER_DAY >= MIN_ROUND_DEADLINE_LEDGERS
  BY <1>3, FormLimitsAssumption, LimitsAssumption
<1> QED
  BY <1>2, <1>3, <1>4 DEF daysToLedgers

\* No amount that the form takes overflows in the contracts.
LEMMA AmountsFit ==
  ASSUME NEW n \in 2..MAX_FORM_MEMBERS,
         NEW amount \in Nat, amount <= MAX_ROUND_USDC * STROOP
  PROVE  ~Overflows(amount, n) /\ ~Overflows(amount, PENALTY_BPS)
<1> DEFINE most == MAX_ROUND_USDC * STROOP
<1>1. most \in Nat /\ PENALTY_BPS \in Nat /\ n \in Nat /\ n <= PENALTY_BPS
  BY FormLimitsAssumption, FactoryAssumption DEF PENALTY_BPS
<1>2. most * PENALTY_BPS <= I128_MAX /\ amount <= most
  BY CreateFormAssumption
<1> HIDE DEF most
<1>3. amount * PENALTY_BPS <= most * PENALTY_BPS
  BY <1>1, <1>2, ProductsGrow
<1>4. n * amount <= PENALTY_BPS * amount
  BY <1>1, ProductsGrow
<1> DEFINE x == amount * n
           y == amount * PENALTY_BPS
           z == most * PENALTY_BPS
<1>5. x \in Int /\ y \in Int /\ z \in Int /\ x <= y /\ y <= z /\ z <= I128_MAX
  BY <1>1, <1>2, <1>3, <1>4
<1> HIDE DEF x, y, z
<1>6. ~(x > I128_MAX) /\ ~(y > I128_MAX)
  BY <1>5, LimitsAssumption
<1> QED
  BY <1>6 DEF x, y, Overflows

\* The verdict of the factory on what a form without a message asks for.
AcceptedButForTheCap(ms, amount, deadline) ==
  \/ validate_create_inputs(ms, amount, deadline) = "ok"
  \/ /\ validate_create_inputs(ms, amount, deadline) = "DeadlineAboveMaximum"
     /\ deadline > MAX_ROUND_DEADLINE_LEDGERS

\* The factory takes it, but for a deadline above its maximum.
LEMMA FormAskIsTaken ==
  ASSUME NEW ms, NEW amount \in Nat, amount > 0, amount <= MAX_ROUND_USDC * STROOP,
         NEW deadline \in Nat, deadline >= MIN_ROUND_DEADLINE_LEDGERS,
         Len(ms) \in 2..MAX_FORM_MEMBERS, IsInjective(ms)
  PROVE  AcceptedButForTheCap(ms, amount, deadline)
<1>1. MAX_MEMBERS \in Nat /\ MAX_FORM_MEMBERS \in Nat /\ MAX_FORM_MEMBERS <= MAX_MEMBERS
  BY FormLimitsAssumption, FactoryAssumption
<1>2. /\ ~(Len(ms) < 2) /\ ~(Len(ms) > MAX_MEMBERS) /\ ~(amount <= 0)
      /\ ~(deadline < MIN_ROUND_DEADLINE_LEDGERS)
  BY <1>1, LimitsAssumption
<1>3. ~Overflows(amount, Len(ms)) /\ ~Overflows(amount, PENALTY_BPS)
  BY AmountsFit
<1>4. ~~UniqueMembers(ms)
  BY DEF UniqueMembers
<1>5. validate_create_inputs(ms, amount, deadline)
        = IF deadline > MAX_ROUND_DEADLINE_LEDGERS THEN "DeadlineAboveMaximum" ELSE "ok"
  BY <1>2, <1>3, <1>4, Zenon DEF validate_create_inputs
<1>6. CASE deadline > MAX_ROUND_DEADLINE_LEDGERS
  BY <1>5, <1>6, Zenon DEF AcceptedButForTheCap
<1>7. CASE ~(deadline > MAX_ROUND_DEADLINE_LEDGERS)
  BY <1>5, <1>7, Zenon DEF AcceptedButForTheCap
<1> QED
  BY <1>6, <1>7, Zenon

\* A form without a message.
LEMMA FormAccepts ==
  ASSUME NEW f \in Forms, ~hasErrors(Errors(f))
  PROVE  LET ms == validMembers(f)
         IN  /\ Silent(amountError(f.amount)) /\ Silent(daysError(f.days))
             /\ ms \in Seq(Entries) /\ Len(ms) \in 2..MAX_FORM_MEMBERS
             /\ \A i \in DOMAIN ms : ms[i].kind = "account"
             /\ ~findDuplicateAddress(ms) /\ getFilledMembers(f.members) = ms
<1> DEFINE ms == validMembers(f)
<1>1. PICK e : e = Errors(f)
  OBVIOUS
<1>2. /\ Silent(e.amount) /\ Silent(e.days) /\ Silent(e.membersGeneral)
      /\ \A i \in DOMAIN e.members : Silent(e.members[i])
  BY <1>1 DEF hasErrors, Silent
<1>3. /\ Silent(amountError(f.amount)) /\ Silent(daysError(f.days))
      /\ \A i \in DOMAIN f.members : Silent(validateMemberEntry(f.members[i]))
  <2>1. /\ e.amount = amountError(f.amount) /\ e.days = daysError(f.days)
        /\ e.members = [i \in DOMAIN f.members |-> validateMemberEntry(f.members[i])]
    BY <1>1, ErrorsAre
  <2>2. \A i \in DOMAIN f.members :
          i \in DOMAIN e.members /\ e.members[i] = validateMemberEntry(f.members[i])
    BY <2>1
  <2> QED
    BY <1>2, <2>1, <2>2, Zenon
<1>4. /\ ms \in Seq(Entries) /\ Len(ms) <= Len(f.members)
      /\ \A i \in DOMAIN ms : ms[i].kind = "account"
      /\ getFilledMembers(f.members) = ms
  BY <1>3, ValidMembersAre DEF Silent
<1>5. Len(f.members) \in 2..MAX_FORM_MEMBERS /\ MAX_FORM_MEMBERS \in Nat
  BY RowsAre, FormLimitsAssumption, FactoryAssumption
<1>6. Len(ms) \in Nat /\ Len(ms) <= MAX_FORM_MEMBERS
  BY <1>4, <1>5
<1>7. getMemberCountStatus(Len(ms)) = "ok"
  <2>1. getMemberCountStatus(Len(ms)) # "ok" => e.membersGeneral = getMemberCountStatus(Len(ms))
    BY <1>1, ErrorsAre
  <2>2. getMemberCountStatus(Len(ms)) \in {"ok", "too_few"}
    BY <1>6, CountIs
  <2> HIDE DEF ms
  <2> QED
    BY <1>2, <2>1, <2>2 DEF Silent
<1>8. Len(ms) >= 2
  <2> HIDE DEF ms
  <2> QED
    BY <1>6, <1>7, CountIs
<1>9. ~findDuplicateAddress(ms)
  <2>1. findDuplicateAddress(ms) => e.membersGeneral = "duplicate"
    BY <1>1, <1>7, ErrorsAre
  <2> HIDE DEF ms
  <2> QED
    BY <1>2, <2>1 DEF Silent
<1> QED
  BY <1>3, <1>4, <1>5, <1>6, <1>8, <1>9

\* What a form without a message asks for: the factory takes it, and the count and
\* the pot on the page are those of the circle.
LEMMA FormAsksFor ==
  ASSUME NEW f \in Forms, ~hasErrors(Errors(f)), NEW v,
         v = [validMembers |-> [i \in DOMAIN validMembers(f) |-> validMembers(f)[i].who],
              amountStroops |-> roundStroops(f.amount),
              roundDays |-> f.days.mantissa]
  PROVE  /\ AcceptedButForTheCap(v.validMembers, v.amountStroops, daysToLedgers(v.roundDays))
         /\ summarizeMemberRows(f.members).count = Len(v.validMembers)
         /\ formatPot(roundStroops(f.amount), summarizeMemberRows(f.members).count)
              = formatUsdc(v.amountStroops * Len(v.validMembers))
         /\ v.roundDays = f.days.mantissa
<1> DEFINE ms == validMembers(f)
           whos == [i \in DOMAIN ms |-> ms[i].who]
           amount == roundStroops(f.amount)
           deadline == daysToLedgers(f.days.mantissa)
           D == {<<IF e.kind = "lowercase" THEN "account" ELSE e.kind, e.who>> : e \in Range(ms)}
<1>1. /\ Silent(amountError(f.amount)) /\ Silent(daysError(f.days))
      /\ ms \in Seq(Entries) /\ Len(ms) \in 2..MAX_FORM_MEMBERS
      /\ \A i \in DOMAIN ms : ms[i].kind = "account"
      /\ ~findDuplicateAddress(ms) /\ getFilledMembers(f.members) = ms
  BY FormAccepts
<1>2. v.validMembers = whos /\ v.amountStroops = amount /\ v.roundDays = f.days.mantissa
  OBVIOUS
<1>3. f.amount \in AmountTexts /\ f.days \in DayTexts
  BY RowsAre
<1>4. amount \in Nat \ {0} /\ amount <= MAX_ROUND_USDC * STROOP
  BY <1>1, <1>3, AmountIs
<1>5. deadline \in Nat /\ deadline >= MIN_ROUND_DEADLINE_LEDGERS
  BY <1>1, <1>3, DaysAre
<1> HIDE DEF ms
<1>6. IsInjective(whos) /\ Cardinality(D) = Len(ms)
  BY <1>1, AccountsCount
<1>7. Len(whos) = Len(ms)
  BY <1>1
<1>8. summarizeMemberRows(f.members).count = Len(ms)
  BY <1>1, <1>6 DEF summarizeMemberRows
<1> HIDE DEF whos, amount, deadline
<1>9. AcceptedButForTheCap(whos, amount, deadline)
  BY <1>1, <1>4, <1>5, <1>6, <1>7, FormAskIsTaken
<1>10. formatPot(amount, summarizeMemberRows(f.members).count) = formatUsdc(amount * Len(whos))
  BY <1>7, <1>8 DEF formatPot
<1> QED
  BY <1>2, <1>7, <1>8, <1>9, <1>10 DEF amount, deadline

\* The well-formed rows of a list with a message of its own are too few or not
\* all different, and the factory refuses them.
LEMMA RefusedByBoth ==
  ASSUME NEW f \in Forms, NEW e, e = Errors(f), ~Silent(e.membersGeneral)
  PROVE  LET whos == [i \in DOMAIN validMembers(f) |-> validMembers(f)[i].who]
         IN  validate_create_inputs(whos, 1, MIN_ROUND_DEADLINE_LEDGERS) # "ok"
<1> DEFINE ms == validMembers(f)
           whos == [i \in DOMAIN ms |-> ms[i].who]
<1>1. ms \in Seq(Entries) /\ Len(ms) <= Len(f.members)
  BY ValidMembersAre
<1>2. Len(ms) \in Nat /\ Len(ms) <= MAX_FORM_MEMBERS
  BY <1>1, RowsAre, FormLimitsAssumption, FactoryAssumption
<1>3. \/ getMemberCountStatus(Len(ms)) # "ok"
      \/ findDuplicateAddress(ms)
  BY ErrorsAre DEF Silent
<1> HIDE DEF ms
<1>4. Len(whos) = Len(ms)
  BY <1>1
<1>5. CASE getMemberCountStatus(Len(ms)) # "ok"
  <2>1. ~(Len(ms) >= 2)
    BY <1>2, <1>5, CountIs
  <2>2. Len(whos) < 2
    BY <1>2, <1>4, <2>1
  <2> HIDE DEF whos
  <2>3. validate_create_inputs(whos, 1, MIN_ROUND_DEADLINE_LEDGERS) = "TooFewMembers"
    BY <2>2, Zenon DEF validate_create_inputs
  <2> QED
    BY <2>3 DEF ms, whos
<1>6. CASE findDuplicateAddress(ms)
  <2>1. PICK i, j \in DOMAIN ms : i < j /\ ms[i] = ms[j]
    BY <1>6 DEF findDuplicateAddress
  <2>2. i # j /\ i \in DOMAIN whos /\ j \in DOMAIN whos /\ whos[i] = whos[j]
    BY <1>1, <2>1
  <2> HIDE DEF whos
  <2>3. ~UniqueMembers(whos)
    BY <2>2 DEF UniqueMembers, IsInjective
  <2>4. validate_create_inputs(whos, 1, MIN_ROUND_DEADLINE_LEDGERS)
          \in {"TooFewMembers", "TooManyMembers", "DuplicateMembers"}
    BY <2>3, Zenon DEF validate_create_inputs
  <2> QED
    BY <2>4 DEF ms, whos
<1> QED
  BY <1>3, <1>5, <1>6

\* Unless the message is about duplicates, there is a field to put the cursor into.
LEMMA CursorIsPut ==
  ASSUME NEW f \in Forms, NEW e, e = Errors(f), hasErrors(e),
         e.membersGeneral # "duplicate"
  PROVE  focusFirstError(f) # {}
<1> DEFINE firstRow(P) == {i \in P : \A j \in P : i <= j}
           wrong == {i \in DOMAIN f.members : e.members[i] # ""}
           blank == {i \in DOMAIN f.members : f.members[i].kind = "blank"}
           ms == validMembers(f)
<1>0. Len(f.members) \in Nat /\ Len(f.members) <= MAX_FORM_MEMBERS /\ Len(f.members) >= 2
  BY RowsAre, FormLimitsAssumption, FactoryAssumption
<1>1. CASE ~Silent(e.name) \/ ~Silent(e.amount) \/ ~Silent(e.days)
  BY <1>1 DEF focusFirstError, Silent
<1>2. CASE Silent(e.name) /\ Silent(e.amount) /\ Silent(e.days)
  <2>1. focusFirstError(f) = firstRow(IF wrong # {} THEN wrong ELSE blank)
    BY <1>2 DEF focusFirstError, Silent
  <2>2. f.members \in Seq(Entries) /\ Len(f.members) \in 2..MAX_FORM_MEMBERS
    BY RowsAre, FormLimitsAssumption
  <2>3. wrong \in SUBSET Nat /\ blank \in SUBSET Nat
    <3>1. DOMAIN f.members \subseteq Nat
      BY <2>2
    <3>2. wrong \subseteq DOMAIN f.members /\ blank \subseteq DOMAIN f.members
      BY Zenon
    <3> HIDE DEF wrong, blank
    <3> QED
      BY <3>1, <3>2
  <2>4. wrong # {} \/ blank # {}
    <3> SUFFICES ASSUME wrong = {}, blank = {} PROVE FALSE
      OBVIOUS
    <3>1. \A i \in DOMAIN f.members : Silent(e.members[i]) /\ f.members[i].kind # "blank"
      BY DEF Silent
    <3>2. e.members = [i \in DOMAIN f.members |-> validateMemberEntry(f.members[i])]
      BY ErrorsAre
    <3>3. \A i \in DOMAIN f.members : e.members[i] = validateMemberEntry(f.members[i])
      BY <3>2
    <3>4. \A i \in DOMAIN f.members : validateMemberEntry(f.members[i]) = ""
      BY <3>1, <3>3 DEF Silent
    <3>5. Len(ms) = Len(f.members)
      BY <3>1, <3>4, ValidMembersAre
    <3>6. getMemberCountStatus(Len(ms)) = "ok"
      <4>1. Len(f.members) \in Nat /\ Len(f.members) <= MAX_FORM_MEMBERS /\ Len(f.members) >= 2
        BY <1>0
      <4> HIDE DEF ms
      <4>2. PICK n : n = Len(ms)
        OBVIOUS
      <4>3. n \in Nat /\ n <= MAX_FORM_MEMBERS /\ n >= 2
        BY <3>5, <4>1, <4>2
      <4>4. getMemberCountStatus(n) = "ok"
        BY <4>3, CountIs
      <4> QED
        BY <4>2, <4>4
    <3>7. ~Silent(e.membersGeneral)
      <4>1. DOMAIN e.members = DOMAIN f.members
        BY <3>2
      <4> QED
        BY <1>2, <3>1, <4>1 DEF hasErrors, Silent
    <3> QED
      BY <3>6, <3>7, ErrorsAre DEF Silent
  <2> DEFINE P == IF wrong # {} THEN wrong ELSE blank
  <2>5. P \in SUBSET Nat /\ P # {}
    BY <2>3, <2>4
  <2> HIDE DEF wrong, blank, P
  <2>6. \E i \in P : \A j \in P : i <= j
    BY <2>5, LeastNatural
  <2> QED
    BY <2>1, <2>6 DEF P
<1> QED
  BY <1>1, <1>2

\* The form and the contracts draw the same line.
LEMMA FormAlwaysAgrees == FormAgreesWithContract
<1> SUFFICES ASSUME NEW f \in Forms
             PROVE  /\ \A v \in validateCreateForm(f) :
                         /\ AcceptedButForTheCap(v.validMembers, v.amountStroops,
                                                 daysToLedgers(v.roundDays))
                         /\ summarizeMemberRows(f.members).count = Len(v.validMembers)
                         /\ formatPot(roundStroops(f.amount),
                                      summarizeMemberRows(f.members).count)
                              = formatUsdc(v.amountStroops * Len(v.validMembers))
                         /\ v.roundDays = f.days.mantissa \/ f.days.notation = "exponent"
                    /\ LET e == Errors(f)
                           ms == [i \in DOMAIN validMembers(f) |-> validMembers(f)[i].who]
                       IN  /\ e.membersGeneral # "" =>
                                validate_create_inputs(ms, 1, MIN_ROUND_DEADLINE_LEDGERS) # "ok"
                           /\ (hasErrors(e) /\ e.membersGeneral # "duplicate")
                                => focusFirstError(f) # {}
  BY DEF FormAgreesWithContract, AcceptedButForTheCap
<1>1. ASSUME NEW v \in validateCreateForm(f)
      PROVE  /\ AcceptedButForTheCap(v.validMembers, v.amountStroops, daysToLedgers(v.roundDays))
             /\ summarizeMemberRows(f.members).count = Len(v.validMembers)
             /\ formatPot(roundStroops(f.amount), summarizeMemberRows(f.members).count)
                  = formatUsdc(v.amountStroops * Len(v.validMembers))
             /\ v.roundDays = f.days.mantissa
  <2>1. /\ ~hasErrors(Errors(f))
        /\ v = [validMembers |-> [i \in DOMAIN validMembers(f) |-> validMembers(f)[i].who],
                amountStroops |-> roundStroops(f.amount),
                roundDays |-> f.days.mantissa]
    BY <1>1 DEF validateCreateForm
  <2> QED
    BY <2>1, FormAsksFor
<1>2. Errors(f).membersGeneral # "" =>
        LET ms == [i \in DOMAIN validMembers(f) |-> validMembers(f)[i].who]
        IN  validate_create_inputs(ms, 1, MIN_ROUND_DEADLINE_LEDGERS) # "ok"
  BY RefusedByBoth DEF Silent
<1>3. (hasErrors(Errors(f)) /\ Errors(f).membersGeneral # "duplicate") => focusFirstError(f) # {}
  BY CursorIsPut
<1> QED
  BY <1>1, <1>2, <1>3, Zenon DEF AcceptedButForTheCap

\* From a form to a circle, through the SDK and the contracts, every layer draws the
\* same line as the next one: the checks of the form, of the factory and of the
\* circle, the encoders and the decoders of the SDK, the deployment checks and the
\* operators' tools.
THEOREM LayersHold == DeploySpec => []LayersAgree
<1>1. DeployInit => Inv /\ AwardsOK /\ SeedInv /\ CirclesOK /\ OpsInv(ops)
  <2>1. DeployInit => Inv /\ SeedInv
    BY InvInit, SeedStarts DEF DeployInit, CreateInit
  <2>2. DeployInit => AwardsOK
    BY DEF DeployInit, CreateInit, Init, RepInit, AwardsOK
  <2>3. DeployInit => OpsInv(ops)
    BY OpsInitKeeps DEF DeployInit
  <2> QED
    BY <2>1, <2>2, <2>3, CirclesInit
<1>2. (Inv /\ SeedInv /\ CirclesOK /\ OpsInv(ops)) => LayersAgree
  <2> SUFFICES ASSUME Inv, SeedInv, CirclesOK, OpsInv(ops) PROVE LayersAgree
    OBVIOUS
  <2>1. FormAndSdkAgree
    BY ValidationAlwaysAgrees, SdkAlwaysSends, CirclesAlwaysRead, VerificationIsAlwaysRight,
       FormAlwaysAgrees DEF FormAndSdkAgree
  <2>2. EditsAreCaught /\ PreflightPredicts /\ ReportWarns /\ GatesOfAReleaseAgree
    BY ToolsAgree
  <2>3. ManifestIsComplete /\ GreenMeansRunning /\ JournalIsHonest
    BY ManifestComplete, GreenIsRunning, JournalSuffices
  <2> QED
    BY <2>1, <2>2, <2>3 DEF LayersAgree
<1>3. (Inv /\ AwardsOK /\ SeedInv /\ CirclesOK /\ OpsInv(ops) /\ [DeployNext]_deployVars)
        => (Inv /\ AwardsOK /\ SeedInv /\ CirclesOK /\ OpsInv(ops))'
  BY SeedNext, CirclesNext, OpsNext
<1> QED
  BY <1>1, <1>2, <1>3, PTL DEF DeploySpec
=============================================================================
