---------------------------- MODULE EventProofs ----------------------------
(***************************************************************************)
(* Theorems about the contract and the indexer's tables together: for every *)
(* rotation, amount and deadline, however far the indexer is behind, what   *)
(* is still to be ingested turns the tables into the contract's records.    *)
(* Hence the books balance, and what the operator's tools tell of the       *)
(* tables is so.                                                            *)
(***************************************************************************)
EXTENDS Reconciliation, CircleProofs, FiniteSetTheorems

-----------------------------------------------------------------------------
(* What a list of events does, one event after the other.                  *)
\* The function g applies the events at the positions of every set of them.
IsDelivery(g, base, events, n) ==
  /\ DOMAIN g = SUBSET (1..n)
  /\ \A s \in SUBSET (1..n) :
       g[s] = IF s = {} THEN base ELSE Apply(g[s \ {Max(s)}], events[Max(s)])

\* There is one, by induction on the size of the set.
LEMMA DeliveryExists ==
  ASSUME NEW n \in Nat, NEW base, NEW events
  PROVE  \E g : g = [s \in SUBSET (1..n) |-> g[s]] /\ IsDelivery(g, base, events, n)
<1> DEFINE S == 1..n
           Next_(g, s) == IF s = {} THEN base
                          ELSE Apply(g[s \ {Max(s)}], events[Max(s)])
           Upto(g, k) == \A s \in SUBSET S : Cardinality(s) <= k => g[s] = Next_(g, s)
           T == {k \in Nat : \E g : g = [s \in SUBSET S |-> g[s]] /\ Upto(g, k)}
<1>0. IsFiniteSet(S)
  BY FS_Interval
<1>1. \A s \in SUBSET S : IsFiniteSet(s) /\ Cardinality(s) \in Nat
                          /\ (Cardinality(s) = 0 <=> s = {})
  BY <1>0, FS_Subset, FS_CardinalityType, FS_EmptySet
<1>2. \A s \in SUBSET S : s # {} => /\ s \ {Max(s)} \in SUBSET S
                                    /\ Cardinality(s \ {Max(s)}) = Cardinality(s) - 1
  <2> TAKE s \in SUBSET S
  <2>1. s # {} => Max(s) \in s
    BY LargestIs
  <2> QED
    BY <1>1, <2>1, FS_RemoveElement
<1>3. 0 \in T
  <2> DEFINE g == [s \in SUBSET S |-> base]
  <2>1. \A s \in SUBSET S : Cardinality(s) <= 0 => s = {}
    BY <1>1
  <2>2. g = [s \in SUBSET S |-> g[s]]
    OBVIOUS
  <2>3. Upto(g, 0)
    BY <2>1
  <2> HIDE DEF g, Upto
  <2> QED
    BY <2>2, <2>3
<1>4. ASSUME NEW k \in Nat, k \in T PROVE k + 1 \in T
  <2>1. PICK g : g = [s \in SUBSET S |-> g[s]] /\ Upto(g, k)
    BY <1>4
  <2> DEFINE h == [s \in SUBSET S |-> IF Cardinality(s) = k + 1 THEN Next_(g, s) ELSE g[s]]
  <2>2. ASSUME NEW s \in SUBSET S, Cardinality(s) <= k + 1 PROVE h[s] = Next_(h, s)
    <3>0. h[s] = Next_(g, s)
      <4>1. CASE Cardinality(s) = k + 1
        BY <4>1
      <4>2. CASE Cardinality(s) # k + 1
        <5>1. Cardinality(s) <= k /\ h[s] = g[s]
          BY <1>1, <2>2, <4>2
        <5> HIDE DEF Next_, h
        <5> QED
          BY <2>1, <5>1
      <4> QED
        BY <4>1, <4>2
    <3>1. CASE s = {}
      BY <3>0, <3>1
    <3>2. CASE s # {}
      <4> DEFINE rest == s \ {Max(s)}
      <4>1. rest \in SUBSET S /\ Cardinality(rest) = Cardinality(s) - 1
        BY <1>2, <3>2
      <4> HIDE DEF rest
      <4>2. Cardinality(s) \in Nat /\ Cardinality(rest) # k + 1
        BY <1>1, <2>2, <4>1
      <4>3. h[rest] = g[rest]
        BY <4>1, <4>2
      <4> HIDE DEF h
      <4> QED
        BY <3>0, <3>2, <4>3 DEF rest
    <3> QED
      BY <3>1, <3>2
  <2>3. h = [s \in SUBSET S |-> h[s]]
    OBVIOUS
  <2> HIDE DEF h, Next_
  <2>4. Upto(h, k + 1)
    BY <2>2
  <2> HIDE DEF Upto
  <2> QED
    BY <2>3, <2>4
<1> HIDE DEF T
<1>5. \A k \in Nat : k \in T
  BY <1>3, <1>4, InductiveSet
<1>6. Cardinality(S) \in T
  BY <1>0, <1>5, FS_CardinalityType
<1>7. \A s \in SUBSET S : Cardinality(s) <= Cardinality(S)
  BY <1>0, FS_Subset
<1>8. PICK g : g = [s \in SUBSET S |-> g[s]] /\ Upto(g, Cardinality(S))
  BY <1>6 DEF T
<1>9. IsDelivery(g, base, events, n)
  BY <1>7, <1>8 DEF IsDelivery
<1> QED
  BY <1>8, <1>9

\* So Applied is the value of such a function at all positions.
LEMMA AppliedIs ==
  ASSUME NEW E, NEW base, NEW events \in Seq(E)
  PROVE  \E g : IsDelivery(g, base, events, Len(events)) /\ Applied(base, events) = g[1..Len(events)]
<1> DEFINE n == Len(events)
           Body(p) == [s \in SUBSET (1..n) |->
                         IF s = {} THEN base
                         ELSE Apply(p[s \ {Max(s)}], events[Max(s)])]
           G == CHOOSE p : p = Body(p)
<1>1. n \in Nat /\ DOMAIN events = 1..n
  OBVIOUS
<1>2. Applied(base, events) = G[1..n]
  BY <1>1 DEF Applied, FoldLeft, MapThenFoldSet
<1> HIDE DEF n
<1>3. PICK g : g = [s \in SUBSET (1..n) |-> g[s]] /\ IsDelivery(g, base, events, n)
  BY <1>1, DeliveryExists
<1>4. g = Body(g)
  <2>1. \A s \in SUBSET (1..n) : g[s] = Body(g)[s]
    BY <1>3 DEF IsDelivery
  <2>2. Body(g) = [s \in SUBSET (1..n) |-> Body(g)[s]]
    OBVIOUS
  <2> HIDE DEF Body
  <2> QED
    BY <1>3, <2>1, <2>2
<1>5. G = Body(G)
  <2> HIDE DEF Body
  <2> QED
    BY <1>4
<1>6. IsDelivery(G, base, events, n)
  <2>1. DOMAIN Body(G) = SUBSET (1..n)
    OBVIOUS
  <2>2. \A s \in SUBSET (1..n) :
          Body(G)[s] = IF s = {} THEN base ELSE Apply(G[s \ {Max(s)}], events[Max(s)])
    OBVIOUS
  <2> HIDE DEF Body, G
  <2> QED
    BY <1>5, <2>1, <2>2 DEF IsDelivery
<1> HIDE DEF G
<1> QED
  BY <1>2, <1>6 DEF n

\* The first k positions: the last of them comes last.
LEMMA DeliveryOfPrefix ==
  ASSUME NEW n \in Nat, NEW k \in 1..n, NEW g, NEW base, NEW events, IsDelivery(g, base, events, n)
  PROVE  g[1..k] = Apply(g[1..(k - 1)], events[k])
<1>1. (1..k) \in SUBSET (1..n) /\ 1..k # {} /\ k \in 1..k
  OBVIOUS
<1>2. Max(1..k) = k
  <2>1. Max(1..k) \in 1..k /\ \A y \in 1..k : Max(1..k) >= y
    BY <1>1, LargestIs
  <2> HIDE DEF Max
  <2>2. Max(1..k) >= k
    BY <1>1, <2>1
  <2> QED
    BY <2>1, <2>2
<1>3. (1..k) \ {k} = 1..(k - 1)
  OBVIOUS
<1> QED
  BY <1>1, <1>2, <1>3 DEF IsDelivery

\* No event, no change.
LEMMA AppliedNothing ==
  ASSUME NEW base
  PROVE  Applied(base, <<>>) = base
<1> DEFINE none == <<>>
<1>1. none \in Seq(Nat) /\ Len(none) = 0 /\ 1..0 = {}
  OBVIOUS
<1> HIDE DEF none
<1>2. PICK g : IsDelivery(g, base, none, Len(none))
               /\ Applied(base, none) = g[1..Len(none)]
  BY <1>1, AppliedIs
<1>3. Applied(base, none) = base
  BY <1>1, <1>2 DEF IsDelivery
<1> QED
  BY <1>3 DEF none

\* One event more is one step more.
LEMMA AppliedAppend ==
  ASSUME NEW E, NEW base, NEW events \in Seq(E), NEW e \in E
  PROVE  Applied(base, Append(events, e)) = Apply(Applied(base, events), e)
<1> DEFINE n == Len(events)
           longer == Append(events, e)
<1>1. /\ n \in Nat /\ longer \in Seq(E) /\ Len(longer) = n + 1 /\ longer[n + 1] = e
      /\ \A i \in 1..n : longer[i] = events[i]
  OBVIOUS
<1>2. PICK g : IsDelivery(g, base, events, n) /\ Applied(base, events) = g[1..n]
  BY AppliedIs
<1>3. PICK h : IsDelivery(h, base, longer, n + 1) /\ Applied(base, longer) = h[1..(n + 1)]
  <2>1. longer \in Seq(E) /\ Len(longer) = n + 1
    BY <1>1
  <2> HIDE DEF n, longer
  <2>2. \E h : IsDelivery(h, base, longer, Len(longer))
                /\ Applied(base, longer) = h[1..Len(longer)]
    BY <2>1, AppliedIs, Zenon
  <2> QED
    BY <2>1, <2>2, Zenon
<1> HIDE DEF n, longer
<1>g. \A j \in 1..n : g[1..j] = Apply(g[1..(j - 1)], events[j])
  <2>1. n \in Nat /\ IsDelivery(g, base, events, n)
    BY <1>1, <1>2
  <2> TAKE j \in 1..n
  <2> QED
    BY <2>1, DeliveryOfPrefix
<1>h. \A j \in 1..(n + 1) : h[1..j] = Apply(h[1..(j - 1)], longer[j])
  <2> DEFINE m == n + 1
  <2>1. m \in Nat /\ IsDelivery(h, base, longer, m)
    BY <1>1, <1>3
  <2> HIDE DEF m
  <2>2. \A j \in 1..m : h[1..j] = Apply(h[1..(j - 1)], longer[j])
    <3> TAKE j \in 1..m
    <3> QED
      BY <2>1, DeliveryOfPrefix
  <2> QED
    BY <2>2 DEF m
<1> DEFINE T == {k \in Nat : k <= n => g[1..k] = h[1..k]}
<1>t. \A k \in Nat : k \in T <=> (k <= n => g[1..k] = h[1..k])
  OBVIOUS
<1> HIDE DEF T
<1>4. 0 \in T
  <2>1. 1..0 = {}
    OBVIOUS
  <2>2. g[{}] = base /\ h[{}] = base
    BY <1>2, <1>3 DEF IsDelivery
  <2>3. g[1..0] = h[1..0]
    BY <2>1, <2>2
  <2>4. 0 \in Nat
    OBVIOUS
  <2> QED
    BY <1>t, <2>3, <2>4, Zenon
<1>5. ASSUME NEW k \in Nat, k \in T PROVE k + 1 \in T
  <2>n. n \in Nat
    BY <1>1
  <2> SUFFICES ASSUME k + 1 <= n PROVE g[1..(k + 1)] = h[1..(k + 1)]
    BY <1>t
  <2>1. /\ k + 1 \in 1..n /\ k + 1 \in 1..(n + 1) /\ (k + 1) - 1 = k
        /\ k <= n
    BY <2>n
  <2>2. g[1..(k + 1)] = Apply(g[1..((k + 1) - 1)], events[k + 1])
    BY <1>g, <2>1, Zenon
  <2>3. h[1..(k + 1)] = Apply(h[1..((k + 1) - 1)], longer[k + 1])
    BY <1>h, <2>1, Zenon
  <2>4. g[1..k] = h[1..k]
    BY <1>5, <1>t, <2>1, Zenon
  <2>5. longer[k + 1] = events[k + 1]
    BY <1>1, <2>1, Zenon
  <2>6. 1..((k + 1) - 1) = 1..k
    BY <2>1, Zenon
  <2> QED
    BY <2>2, <2>3, <2>4, <2>5, <2>6, Zenon
<1>6. n \in T
  BY <1>1, <1>4, <1>5, InductiveSet
<1>7. g[1..n] = h[1..n]
  BY <1>1, <1>6, <1>t
<1>8. h[1..(n + 1)] = Apply(h[1..n], longer[n + 1])
  <2>1. n + 1 \in 1..(n + 1) /\ 1..((n + 1) - 1) = 1..n
    BY <1>1
  <2>2. h[1..(n + 1)] = Apply(h[1..((n + 1) - 1)], longer[n + 1])
    BY <1>h, <2>1, Zenon
  <2> QED
    BY <2>1, <2>2, Zenon
<1> QED
  BY <1>1, <1>2, <1>3, <1>7, <1>8 DEF longer

\* One event, and two.
LEMMA AppliedOne ==
  ASSUME NEW base, NEW e
  PROVE  Applied(base, <<e>>) = Apply(base, e)
<1> DEFINE none == <<>>
           one == <<e>>
<1>1. none \in Seq({e}) /\ one = Append(none, e)
  OBVIOUS
<1> HIDE DEF one
<1>2. Applied(base, one) = Apply(Applied(base, none), e)
  <2> HIDE DEF none
  <2> QED
    BY <1>1, AppliedAppend
<1>3. Applied(base, none) = base
  BY AppliedNothing
<1> QED
  BY <1>2, <1>3 DEF one

\* Events that follow others.
LEMMA AppliedThen ==
  ASSUME NEW E, NEW base, NEW p \in Seq(E), NEW q \in Seq(E)
  PROVE  Applied(base, p \o q) = Applied(Applied(base, p), q)
<1> DEFINE upto(k) == SubSeq(q, 1, k)
           T == {k \in Nat : k <= Len(q) =>
                   Applied(base, p \o upto(k)) = Applied(Applied(base, p), upto(k))}
<1>1. 0 \in T
  <2>1. upto(0) = <<>> /\ p \o <<>> = p
    OBVIOUS
  <2>2. Applied(Applied(base, p), <<>>) = Applied(base, p)
    BY AppliedNothing
  <2> QED
    BY <2>1, <2>2
<1>2. ASSUME NEW k \in Nat, k \in T PROVE k + 1 \in T
  <2> SUFFICES ASSUME k + 1 <= Len(q)
               PROVE  Applied(base, p \o upto(k + 1))
                        = Applied(Applied(base, p), upto(k + 1))
    OBVIOUS
  <2> DEFINE e == q[k + 1]
             s == upto(k)
             long == p \o s
  <2>1. /\ s \in Seq(E) /\ e \in E /\ long \in Seq(E)
        /\ upto(k + 1) = Append(s, e)
    OBVIOUS
  <2>2. p \o Append(s, e) = Append(long, e)
    BY <2>1
  <2>3. Applied(base, long) = Applied(Applied(base, p), s)
    BY <1>2
  <2> HIDE DEF s, e, long, upto
  <2>4. Applied(base, Append(long, e)) = Apply(Applied(base, long), e)
    BY <2>1, AppliedAppend
  <2>5. Applied(Applied(base, p), Append(s, e))
          = Apply(Applied(Applied(base, p), s), e)
    BY <2>1, AppliedAppend
  <2> QED
    BY <2>1, <2>2, <2>3, <2>4, <2>5
<1> HIDE DEF T
<1>3. Len(q) \in Nat /\ Len(q) \in T
  BY <1>1, <1>2, InductiveSet
<1>4. upto(Len(q)) = q
  OBVIOUS
<1> HIDE DEF upto
<1> QED
  BY <1>3, <1>4 DEF T

\* Two events.
LEMMA AppliedTwo ==
  ASSUME NEW base, NEW d, NEW e
  PROVE  Applied(base, <<d, e>>) = Apply(Apply(base, d), e)
<1> DEFINE one == <<d>>
           two == <<d, e>>
<1>1. one \in Seq({d, e}) /\ two = Append(one, e)
  OBVIOUS
<1> HIDE DEF two
<1>2. Applied(base, two) = Apply(Applied(base, one), e)
  <2> HIDE DEF one
  <2> QED
    BY <1>1, AppliedAppend
<1>3. Applied(base, one) = Apply(base, d)
  BY AppliedOne
<1> QED
  BY <1>2, <1>3 DEF two

-----------------------------------------------------------------------------
(* The loops over the members.                                             *)

\* The list after the next place of the rotation.
NextInRotation(S, list, i) ==
  IF members[i] \in S THEN Append(list, members[i]) ELSE list

\* The lists of the members of S among the first 0, 1, ..., k of the rotation.
IsRotation(u, S, k) ==
  u[0] = <<>> /\ \A i \in 1..k : u[i] = NextInRotation(S, u[i - 1], i)

\* They exist, by induction on the length.
LEMMA RotationExists ==
  ASSUME NEW S
  PROVE  \E u : u = [i \in 0..N |-> u[i]] /\ IsRotation(u, S, N)
<1> DEFINE T == {k \in Nat : \E u : u = [i \in 0..k |-> u[i]] /\ IsRotation(u, S, k)}
<1>1. 0 \in T
  <2> DEFINE u == [i \in 0..0 |-> <<>>]
  <2>1. u = [i \in 0..0 |-> u[i]] /\ IsRotation(u, S, 0)
    BY DEF IsRotation
  <2> QED
    BY <2>1
<1>2. ASSUME NEW k \in Nat, k \in T PROVE k + 1 \in T
  <2>1. PICK u : IsRotation(u, S, k)
    BY <1>2
  <2> DEFINE last == NextInRotation(S, u[k], k + 1)
             h == [i \in 0..(k + 1) |-> IF i = k + 1 THEN last ELSE u[i]]
  <2>2. h[0] = <<>>
    BY <2>1 DEF IsRotation
  <2>3. ASSUME NEW i \in 1..(k + 1) PROVE h[i] = NextInRotation(S, h[i - 1], i)
    <3>1. CASE i = k + 1
      <4>1. h[i] = last /\ h[i - 1] = u[k]
        BY <3>1, k # k + 1, k \in 0..(k + 1)
      <4> QED
        BY <3>1, <4>1
    <3>2. CASE i # k + 1
      <4>1. i \in 1..k /\ i \in 0..(k + 1) /\ i - 1 \in 0..(k + 1) /\ i - 1 # k + 1
        BY <3>2
      <4>2. h[i] = u[i] /\ h[i - 1] = u[i - 1]
        BY <3>2, <4>1
      <4> QED
        BY <2>1, <4>1, <4>2 DEF IsRotation
    <3> QED
      BY <3>1, <3>2
  <2>4. h = [i \in 0..(k + 1) |-> h[i]]
    OBVIOUS
  <2> HIDE DEF h
  <2>5. IsRotation(h, S, k + 1)
    BY <2>2, <2>3 DEF IsRotation
  <2>6. \E f : f = [i \in 0..(k + 1) |-> f[i]] /\ IsRotation(f, S, k + 1)
    BY <2>4, <2>5
  <2> QED
    BY <2>6
<1> HIDE DEF T
<1>3. \A k \in Nat : k \in T
  BY <1>1, <1>2, InductiveSet
<1> QED
  BY <1>3, RotationFacts DEF T

\* So InRotation is the last of them.
LEMMA InRotationIs ==
  ASSUME NEW S
  PROVE  \E u : IsRotation(u, S, N) /\ InRotation(S) = u[N]
<1> DEFINE Body(p) == [i \in 0..N |->
                         IF i = 0 THEN <<>>
                         ELSE IF members[i] \in S
                                THEN Append(p[i - 1], members[i])
                                ELSE p[i - 1]]
           U == CHOOSE p : p = Body(p)
<1>1. PICK u : u = [i \in 0..N |-> u[i]] /\ IsRotation(u, S, N)
  BY RotationExists
<1>2. u = Body(u)
  <2>1. \A i \in 0..N : i # 0 => i \in 1..N
    BY RotationFacts
  <2>2. \A i \in 0..N : u[i] = Body(u)[i]
    BY <1>1, <2>1 DEF IsRotation, NextInRotation
  <2>3. Body(u) = [i \in 0..N |-> Body(u)[i]]
    OBVIOUS
  <2> HIDE DEF Body
  <2> QED
    BY <1>1, <2>2, <2>3
<1>3. InRotation(S) = U[N]
  BY DEF InRotation
<1>4. U = Body(U)
  <2> HIDE DEF Body
  <2> QED
    BY <1>2
<1>5. \A i \in 0..N : Body(U)[i] = IF i = 0 THEN <<>>
                                   ELSE NextInRotation(S, U[i - 1], i)
  BY DEF NextInRotation
<1> HIDE DEF U
<1>6. \A i \in 0..N : U[i] = IF i = 0 THEN <<>>
                             ELSE NextInRotation(S, U[i - 1], i)
  <2> HIDE DEF Body
  <2> QED
    BY <1>4, <1>5
<1>7. 0 \in 0..N /\ \A i \in 1..N : i \in 0..N /\ i # 0
  BY RotationFacts
<1>8. IsRotation(U, S, N)
  BY <1>6, <1>7 DEF IsRotation
<1> QED
  BY <1>3, <1>8

-----------------------------------------------------------------------------
(* What one event does to the tables.                                      *)

\* The indexer with tables t and nothing refused so far.
At(t) == [tables |-> t, rejected |-> {}]

IsTables(t) ==
  t = [circles |-> t.circles, circle_members |-> t.circle_members,
       contributions |-> t.contributions, payouts |-> t.payouts,
       defaults |-> t.defaults, circle_audit_events |-> t.circle_audit_events,
       reputation |-> t.reputation]

\* The circle has one row and no other circle has any.
Circles(row) == [a \in {CircleAddress} |-> row]

RowIn(t) == t.circles[CircleAddress]
HasRow(t) == t.circles = Circles(RowIn(t))

\* What the handlers do to a row: to the circle's, and to a member's among all.
WithStatus(row, s) == [row EXCEPT !.status = s]
Stopped(row) == [row EXCEPT !.paused = TRUE]
Resumed(row) == [row EXCEPT !.paused = FALSE]
WithRound(row, r) == [row EXCEPT !.current_round = r]
WithRelease(row, amount, reason) ==
  [row EXCEPT !.status = "Closed", !.total_released = amount,
              !.close_reason = reason]
Seated(rows, k, place, amount) ==
  [rows EXCEPT ![k] = [@ EXCEPT !.join_order = place, !.collateral = amount]]
CountedIn(rows, k) ==
  [j \in DOMAIN rows |-> IF j = k THEN Counted(rows[j]) ELSE rows[j]]

\* An event that is not refused is handled.
LEMMA AppliedByHandler ==
  ASSUME NEW t, NEW e, e.name \in Projected, ~Rejects(t, e)
  PROVE  Apply(At(t), e) = At(Handle(t, e))
<1>1. e.name \notin Ignored
  BY DEF Projected, Ignored
<1>2. ~Rejects(At(t).tables, e)
  BY DEF At
<1> QED
  BY <1>1, <1>2 DEF Apply, At

\* An event without a handler changes nothing.
LEMMA AppliedIgnored ==
  ASSUME NEW s, NEW e, e.name \in Ignored
  PROVE  Apply(s, e) = s
BY DEF Apply

\* The status, the pause flag and the round are columns of the circle's row.
LEMMA HandleRow ==
  ASSUME NEW t, IsTables(t), HasRow(t), NEW e,
         e.name \in {"active", "completed", "paused", "resumed", "round_started"},
         e.circle = CircleAddress, e.circle \in DOMAIN t.circles
  PROVE  /\ ~Rejects(t, e)
         /\ LET u == Handle(t, e)
            IN  /\ IsTables(u)
                /\ u.circle_members = t.circle_members
                /\ u.contributions = t.contributions /\ u.payouts = t.payouts
                /\ u.defaults = t.defaults /\ u.reputation = t.reputation
                /\ e.name = "active" =>
                     u.circles = Circles(WithStatus(RowIn(t), "Active"))
                /\ e.name = "completed" =>
                     u.circles = Circles(WithStatus(RowIn(t), "Completed"))
                /\ e.name = "paused" =>
                     u.circles = Circles(Stopped(RowIn(t)))
                /\ e.name = "resumed" =>
                     u.circles = Circles(Resumed(RowIn(t)))
                /\ e.name = "round_started" =>
                     u.circles = Circles(WithRound(RowIn(t), e.round))
<1> USE DEF WithStatus, Stopped, Resumed, WithRound, WithRelease, Seated, CountedIn
<1> DEFINE row == RowIn(t)
<1>0. t.circles = Circles(row)
  BY DEF HasRow
<1> USE <1>0
<1>1. ~Rejects(t, e)
  BY DEF Rejects, NeedsCircleRow
<1>2. CircleAddress \in DOMAIN t.circles /\ t.circles[CircleAddress] = row
  BY DEF Circles
<1>3. ASSUME NEW new
      PROVE  LET u == [t EXCEPT !.circles[CircleAddress] = new]
             IN  /\ IsTables(u) /\ u.circles = Circles(new)
                 /\ u.circle_members = t.circle_members
                 /\ u.contributions = t.contributions /\ u.payouts = t.payouts
                 /\ u.defaults = t.defaults /\ u.reputation = t.reputation
  <2>1. [t.circles EXCEPT ![CircleAddress] = new] = Circles(new)
    BY DEF Circles
  <2> QED
    BY <2>1 DEF IsTables
<1>4. CASE e.name = "active"
  <2>1. Handle(t, e) = [t EXCEPT !.circles[CircleAddress] =
                          [row EXCEPT !.status = "Active"]]
    BY <1>2, <1>4 DEF Handle, handleCircleActive, SetStatus, UpdateCircle
  <2> QED
    BY <1>1, <1>3, <1>4, <2>1
<1>5. CASE e.name = "completed"
  <2>1. Handle(t, e) = [t EXCEPT !.circles[CircleAddress] =
                          [row EXCEPT !.status = "Completed"]]
    BY <1>2, <1>5 DEF Handle, handleCircleCompleted, SetStatus, UpdateCircle
  <2> QED
    BY <1>1, <1>3, <1>5, <2>1
<1>6. CASE e.name = "paused"
  <2>1. Handle(t, e) = [t EXCEPT !.circles[CircleAddress] =
                          [row EXCEPT !.paused = TRUE]]
    BY <1>2, <1>6 DEF Handle, handleCirclePaused, UpdateCircle
  <2>2. PICK new : new = [row EXCEPT !.paused = TRUE]
    OBVIOUS
  <2>3. PICK u : u = [t EXCEPT !.circles[CircleAddress] = new] /\ u = Handle(t, e)
    BY <2>1, <2>2
  <2>4. /\ IsTables(u) /\ u.circles = Circles(new)
        /\ u.circle_members = t.circle_members
        /\ u.contributions = t.contributions /\ u.payouts = t.payouts
        /\ u.defaults = t.defaults /\ u.reputation = t.reputation
    BY <1>3, <2>3
  <2> QED
    BY <1>1, <1>6, <2>2, <2>3, <2>4
<1>7. CASE e.name = "resumed"
  <2>1. Handle(t, e) = [t EXCEPT !.circles[CircleAddress] =
                          [row EXCEPT !.paused = FALSE]]
    BY <1>2, <1>7 DEF Handle, handleCircleResumed, UpdateCircle
  <2>2. PICK new : new = [row EXCEPT !.paused = FALSE]
    OBVIOUS
  <2>3. PICK u : u = [t EXCEPT !.circles[CircleAddress] = new] /\ u = Handle(t, e)
    BY <2>1, <2>2
  <2>4. /\ IsTables(u) /\ u.circles = Circles(new)
        /\ u.circle_members = t.circle_members
        /\ u.contributions = t.contributions /\ u.payouts = t.payouts
        /\ u.defaults = t.defaults /\ u.reputation = t.reputation
    BY <1>3, <2>3
  <2> QED
    BY <1>1, <1>7, <2>2, <2>3, <2>4
<1>8. CASE e.name = "round_started"
  <2>1. Handle(t, e) = [t EXCEPT !.circles[CircleAddress] =
                          [row EXCEPT !.current_round = e.round]]
    BY <1>2, <1>8 DEF Handle, handleCircleRoundStarted, SetRound, UpdateCircle
  <2> QED
    BY <1>1, <1>3, <1>8, <2>1
<1> QED
  BY <1>4, <1>5, <1>6, <1>7, <1>8

\* A join fills in the member's row.
LEMMA HandleJoined ==
  ASSUME NEW t, IsTables(t), NEW e, e.name = "joined",
         <<e.circle, e.member>> \in DOMAIN t.circle_members
  PROVE  /\ ~Rejects(t, e)
         /\ LET u == Handle(t, e)
                k == <<e.circle, e.member>>
            IN  /\ IsTables(u) /\ u.circles = t.circles
                /\ u.contributions = t.contributions /\ u.payouts = t.payouts
                /\ u.defaults = t.defaults /\ u.reputation = t.reputation
                /\ u.circle_members =
                     Seated(t.circle_members, k, e.join_order, e.amount)
<1> USE DEF WithStatus, Stopped, Resumed, WithRound, WithRelease, Seated, CountedIn
<1>1. ~Rejects(t, e)
  BY DEF Rejects, NeedsCircleRow
<1>2. Handle(t, e) = handleCircleJoined(t, e)
  BY DEF Handle
<1> QED
  BY <1>1, <1>2 DEF handleCircleJoined, IsTables

\* A contribution is entered under its key, once.
LEMMA HandleContributed ==
  ASSUME NEW t, IsTables(t), NEW e, e.name = "contributed",
         e.circle \in DOMAIN t.circles
  PROVE  /\ ~Rejects(t, e)
         /\ LET u == Handle(t, e)
            IN  /\ IsTables(u) /\ u.circles = t.circles
                /\ u.circle_members = t.circle_members /\ u.payouts = t.payouts
                /\ u.defaults = t.defaults /\ u.reputation = t.reputation
                /\ u.contributions =
                     InsertOrIgnore(t.contributions,
                                    <<e.circle, e.member, e.round>>,
                                    [amount |-> e.amount, ledger |-> e.ledger])
<1>1. ~Rejects(t, e)
  BY DEF Rejects, NeedsCircleRow
<1>2. Handle(t, e) = handleCircleContributed(t, e)
  BY DEF Handle
<1> QED
  BY <1>1, <1>2 DEF handleCircleContributed, IsTables

\* A payout is entered unless it is there, and moves the round on.
LEMMA HandlePayout ==
  ASSUME NEW t, IsTables(t), HasRow(t), NEW e,
         e.name = "payout", e.circle = CircleAddress, e.circle \in DOMAIN t.circles
  PROVE  /\ ~Rejects(t, e)
         /\ LET u == Handle(t, e)
            IN  /\ IsTables(u) /\ u.circle_members = t.circle_members
                /\ u.contributions = t.contributions
                /\ u.defaults = t.defaults /\ u.reputation = t.reputation
                /\ u.circles = Circles(WithRound(RowIn(t), e.round + 1))
                /\ u.payouts =
                     InsertOrIgnore(t.payouts, <<e.circle, e.round>>,
                       [recipient |-> e.member, amount |-> e.amount,
                        ledger |-> e.ledger, is_exceptional |-> FALSE,
                        defaulted_count |-> 0])
<1> USE DEF WithStatus, Stopped, Resumed, WithRound, WithRelease, Seated, CountedIn
<1> DEFINE row == RowIn(t)
<1>0. t.circles = Circles(row)
  BY DEF HasRow
<1> USE <1>0
<1> DEFINE new == InsertOrIgnore(t.payouts, <<e.circle, e.round>>,
                       [recipient |-> e.member, amount |-> e.amount,
                        ledger |-> e.ledger, is_exceptional |-> FALSE,
                        defaulted_count |-> 0])
           s == [t EXCEPT !.payouts = new]
<1>1. CircleAddress \in DOMAIN t.circles /\ t.circles[CircleAddress] = row
  BY DEF Circles
<1>2. ~Rejects(t, e)
  BY <1>1 DEF Rejects, NeedsCircleRow
<1>3. Handle(t, e) = SetRound(s, e, e.round + 1)
  BY DEF Handle, handleCirclePayout
<1> HIDE DEF new
<1>4. s.circles = t.circles
  BY DEF IsTables
<1>5. Handle(t, e) = [s EXCEPT !.circles[CircleAddress] =
                        [row EXCEPT !.current_round = e.round + 1]]
  BY <1>1, <1>3, <1>4 DEF SetRound, UpdateCircle
<1>6. [t.circles EXCEPT ![CircleAddress] =
         [row EXCEPT !.current_round = e.round + 1]]
        = Circles([row EXCEPT !.current_round = e.round + 1])
  BY DEF Circles
<1>7. LET u == Handle(t, e)
      IN  /\ IsTables(u) /\ u.circle_members = t.circle_members
          /\ u.contributions = t.contributions
          /\ u.defaults = t.defaults /\ u.reputation = t.reputation
          /\ u.circles = Circles([row EXCEPT !.current_round = e.round + 1])
          /\ u.payouts = new
  BY <1>4, <1>5, <1>6 DEF IsTables
<1> QED
  BY <1>2, <1>7 DEF new

\* A default is entered as a row more, and counted in the member's row.
LEMMA HandleDefault ==
  ASSUME NEW t, IsTables(t), NEW e, e.name = "default",
         e.circle \in DOMAIN t.circles
  PROVE  /\ ~Rejects(t, e)
         /\ LET u == Handle(t, e)
                k == <<e.circle, e.member>>
                row == [circle |-> e.circle, member |-> e.member,
                        round |-> e.round, penalty |-> e.amount,
                        ledger |-> e.ledger]
            IN  /\ IsTables(u) /\ u.circles = t.circles
                /\ u.contributions = t.contributions /\ u.payouts = t.payouts
                /\ u.reputation = t.reputation
                /\ u.defaults = t.defaults (+) SetToBag({row})
                /\ u.circle_members =
                     CountedIn(t.circle_members, k)
<1> USE DEF WithStatus, Stopped, Resumed, WithRound, WithRelease, Seated, CountedIn
<1>1. ~Rejects(t, e)
  BY DEF Rejects, NeedsCircleRow
<1> DEFINE row == [circle |-> e.circle, member |-> e.member,
                  round |-> e.round, penalty |-> e.amount,
                  ledger |-> e.ledger]
           bag == t.defaults (+) SetToBag({row})
           rows == [j \in DOMAIN t.circle_members |->
                      IF j = <<e.circle, e.member>>
                        THEN Counted(t.circle_members[j])
                        ELSE t.circle_members[j]]
<1>2. Handle(t, e) = handleCircleDefault(t, e)
  BY DEF Handle
<1>3. handleCircleDefault(t, e)
        = [t EXCEPT !.defaults = bag, !.circle_members = rows]
  <2> DEFINE new == bag
             s == [t EXCEPT !.defaults = new]
             Rows(D) == [j \in D |-> IF j = <<e.circle, e.member>>
                                       THEN Counted(t.circle_members[j])
                                       ELSE t.circle_members[j]]
  <2>1. handleCircleDefault(t, e)
          = [s EXCEPT !.circle_members = Rows(DOMAIN s.circle_members)]
    BY DEF handleCircleDefault
  <2>2. rows = Rows(DOMAIN t.circle_members)
    OBVIOUS
  <2> HIDE DEF new, Rows
  <2>3. s.circle_members = t.circle_members
    BY DEF IsTables
  <2>4. [s EXCEPT !.circle_members = Rows(DOMAIN s.circle_members)]
          = [t EXCEPT !.defaults = new,
                      !.circle_members = Rows(DOMAIN t.circle_members)]
    BY <2>3 DEF IsTables
  <2> QED
    BY <2>1, <2>2, <2>4 DEF new
<1> HIDE DEF bag, rows
<1>4. LET u == Handle(t, e)
      IN  /\ IsTables(u) /\ u.circles = t.circles
          /\ u.contributions = t.contributions /\ u.payouts = t.payouts
          /\ u.reputation = t.reputation
          /\ u.defaults = bag /\ u.circle_members = rows
  BY <1>2, <1>3 DEF IsTables
<1> QED
  BY <1>1, <1>4 DEF bag, rows

\* The marker of an exceptional settlement writes the payout's row.
LEMMA HandleExceptional ==
  ASSUME NEW t, IsTables(t), NEW e, e.name = "exceptional_settlement",
         e.circle \in DOMAIN t.circles,
         <<e.circle, e.round>> \notin DOMAIN t.payouts
  PROVE  /\ ~Rejects(t, e)
         /\ LET u == Handle(t, e)
            IN  /\ IsTables(u) /\ u.circles = t.circles
                /\ u.circle_members = t.circle_members
                /\ u.contributions = t.contributions
                /\ u.defaults = t.defaults /\ u.reputation = t.reputation
                /\ u.payouts =
                     Upsert(t.payouts, <<e.circle, e.round>>,
                       [recipient |-> e.member, amount |-> e.amount,
                        ledger |-> e.ledger, is_exceptional |-> TRUE,
                        defaulted_count |-> e.defaulted_count])
<1>1. ~Rejects(t, e)
  BY DEF Rejects, NeedsCircleRow
<1> DEFINE new == Upsert(t.payouts, <<e.circle, e.round>>,
                       [recipient |-> e.member, amount |-> e.amount,
                        ledger |-> e.ledger, is_exceptional |-> TRUE,
                        defaulted_count |-> e.defaulted_count])
<1>2. Handle(t, e) = handleCircleExceptionalSettlement(t, e)
  BY DEF Handle
<1>3. handleCircleExceptionalSettlement(t, e) = [t EXCEPT !.payouts = new]
  BY DEF handleCircleExceptionalSettlement
<1> HIDE DEF new
<1>4. LET u == Handle(t, e)
      IN  /\ IsTables(u) /\ u.circles = t.circles
          /\ u.circle_members = t.circle_members
          /\ u.contributions = t.contributions
          /\ u.defaults = t.defaults /\ u.reputation = t.reputation
          /\ u.payouts = new
  BY <1>2, <1>3 DEF IsTables
<1> QED
  BY <1>1, <1>4 DEF new

\* A score is written as it is.
LEMMA HandleScore ==
  ASSUME NEW t, IsTables(t), NEW e, e.name = "score_updated"
  PROVE  /\ ~Rejects(t, e)
         /\ LET u == Handle(t, e)
            IN  /\ IsTables(u) /\ u.circles = t.circles
                /\ u.circle_members = t.circle_members
                /\ u.contributions = t.contributions /\ u.payouts = t.payouts
                /\ u.defaults = t.defaults
                /\ u.reputation = Upsert(t.reputation, e.member, e.score)
<1>1. ~Rejects(t, e)
  BY DEF Rejects, NeedsCircleRow
<1>2. Handle(t, e) = handleReputationScoreUpdated(t, e)
  BY DEF Handle
<1> QED
  BY <1>1, <1>2 DEF handleReputationScoreUpdated, IsTables

\* What ends a circle leaves a line in the audit.
LEMMA HandleEnd ==
  ASSUME NEW t, IsTables(t), HasRow(t), NEW e,
         e.name \in {"cancelled", "closed"}, e.circle = CircleAddress, e.circle \in DOMAIN t.circles
  PROVE  /\ ~Rejects(t, e)
         /\ LET u == Handle(t, e)
            IN  /\ IsTables(u)
                /\ u.circle_members = t.circle_members
                /\ u.contributions = t.contributions /\ u.payouts = t.payouts
                /\ u.defaults = t.defaults /\ u.reputation = t.reputation
                /\ e.name = "cancelled" =>
                     u.circles = Circles(WithStatus(RowIn(t), "Cancelled"))
                /\ e.name = "closed" =>
                     u.circles = Circles(WithRelease(RowIn(t), e.amount, e.reason))
<1> USE DEF WithStatus, Stopped, Resumed, WithRound, WithRelease, Seated, CountedIn
<1> DEFINE row == RowIn(t)
<1>0. t.circles = Circles(row)
  BY DEF HasRow
<1> USE <1>0
<1>1. CircleAddress \in DOMAIN t.circles /\ t.circles[CircleAddress] = row
  BY DEF Circles
<1>2. ~Rejects(t, e)
  BY <1>1 DEF Rejects, NeedsCircleRow
<1> DEFINE With(new) == [t EXCEPT !.circles[CircleAddress] = new]
<1>3. ASSUME NEW new, NEW released, NEW reason
      PROVE  LET u == Audited(With(new), e, released, reason)
             IN  /\ IsTables(u) /\ u.circles = Circles(new)
                 /\ u.circle_members = t.circle_members
                 /\ u.contributions = t.contributions /\ u.payouts = t.payouts
                 /\ u.defaults = t.defaults /\ u.reputation = t.reputation
  <2> DEFINE s == With(new)
             line == InsertOrIgnore(s.circle_audit_events, <<e.circle, e.name>>,
                       [triggered_by |-> e.member, ledger |-> e.ledger,
                        total_released |-> released, close_reason |-> reason])
  <2>1. [t.circles EXCEPT ![CircleAddress] = new] = Circles(new)
    BY DEF Circles
  <2>2. IsTables(s) /\ s.circles = Circles(new)
        /\ s.circle_members = t.circle_members
        /\ s.contributions = t.contributions /\ s.payouts = t.payouts
        /\ s.defaults = t.defaults /\ s.reputation = t.reputation
    BY <2>1 DEF IsTables
  <2>3. Audited(s, e, released, reason) = [s EXCEPT !.circle_audit_events = line]
    BY DEF Audited
  <2> HIDE DEF line, s
  <2>4. LET u == Audited(s, e, released, reason)
        IN  /\ IsTables(u) /\ u.circles = s.circles
            /\ u.circle_members = s.circle_members
            /\ u.contributions = s.contributions /\ u.payouts = s.payouts
            /\ u.defaults = s.defaults /\ u.reputation = s.reputation
    BY <2>2, <2>3 DEF IsTables
  <2>5. LET u == Audited(s, e, released, reason)
        IN  /\ IsTables(u) /\ u.circles = Circles(new)
            /\ u.circle_members = t.circle_members
            /\ u.contributions = t.contributions /\ u.payouts = t.payouts
            /\ u.defaults = t.defaults /\ u.reputation = t.reputation
    BY <2>2, <2>4
  <2> QED
    BY <2>5 DEF s
<1>4. CASE e.name = "cancelled"
  <2> DEFINE new == [row EXCEPT !.status = "Cancelled"]
             s == Audited(With(new), e, 0, "")
  <2>1. Handle(t, e) = s
    BY <1>1, <1>4 DEF Handle, handleCircleCancelled, SetStatus, UpdateCircle
  <2> HIDE DEF new, With
  <2>2. /\ IsTables(s) /\ s.circles = Circles(new)
        /\ s.circle_members = t.circle_members
        /\ s.contributions = t.contributions /\ s.payouts = t.payouts
        /\ s.defaults = t.defaults /\ s.reputation = t.reputation
    BY <1>3
  <2> HIDE DEF s
  <2> QED
    BY <1>2, <1>4, <2>1, <2>2 DEF new
<1>5. CASE e.name = "closed"
  <2> DEFINE new == [row EXCEPT !.status = "Closed",
                               !.total_released = e.amount,
                               !.close_reason = e.reason]
             s == Audited(With(new), e, e.amount, e.reason)
  <2>1. Handle(t, e) = s
    BY <1>1, <1>5 DEF Handle, handleCircleClosed, UpdateCircle
  <2> HIDE DEF new, With
  <2>2. /\ IsTables(s) /\ s.circles = Circles(new)
        /\ s.circle_members = t.circle_members
        /\ s.contributions = t.contributions /\ s.payouts = t.payouts
        /\ s.defaults = t.defaults /\ s.reputation = t.reputation
    BY <1>3
  <2> HIDE DEF s
  <2> QED
    BY <1>2, <1>5, <2>1, <2>2 DEF new
<1> QED
  BY <1>4, <1>5

-----------------------------------------------------------------------------
(* What the tables say of the contract once they have caught up with it.   *)

\* What close has released: the deposits, less the penalties.
Released ==
  IF closed THEN CollateralDue * Cardinality(joined) - forfeited ELSE 0

\* The circle's row, with what close has released.
RowAfter(released) ==
  [creator |-> Creator, round_amount |-> round_amount, member_count |-> N,
   status |-> RowStatus, current_round |-> rounds_completed,
   paused |-> paused, total_released |-> released,
   close_reason |-> IF ~closed THEN ""
                    ELSE IF status = "Completed" THEN "completed"
                    ELSE "cancelled"]

FollowsRow(t) ==
  t.circles = Circles(RowAfter(Released))

\* One row per member, at its place in the rotation, with its deposit and as
\* many defaults as counted; the positions of those who joined leave no gap.
FollowsCounts(t, counted) ==
  /\ DOMAIN t.circle_members = {<<CircleAddress, m>> : m \in MemberSet}
  /\ \A m \in MemberSet :
       LET row == t.circle_members[<<CircleAddress, m>>]
       IN  /\ row = [payout_order |-> row.payout_order,
                     join_order |-> row.join_order,
                     collateral |-> IF m \in joined THEN CollateralDue ELSE 0,
                     defaults |-> counted[m]]
           /\ \E place \in 1..N : members[place] = m
                                 /\ row.payout_order = place - 1
  /\ {t.circle_members[<<CircleAddress, m>>].join_order : m \in joined}
       = 1..Cardinality(joined)

FollowsMembers(t) == FollowsCounts(t, defaults)

\* The contributions are the contract's.
FollowsContributions(t) ==
  /\ \A k \in DOMAIN t.contributions :
       \E m \in MemberSet, r \in Rounds :
         k = <<CircleAddress, m, r>> /\ m \in contributed[r]
  /\ \A r \in Rounds : \A m \in contributed[r] :
       <<CircleAddress, m, r>> \in DOMAIN t.contributions
  /\ \A k \in DOMAIN t.contributions : t.contributions[k].amount = round_amount

\* One payout per settled round: what had been contributed, to the member whose
\* turn it was, exceptional if somebody had not paid.
FollowsPayouts(t) ==
  /\ DOMAIN t.payouts = {<<CircleAddress, r>> : r \in 0..(rounds_completed - 1)}
  /\ \A r \in 0..(rounds_completed - 1) :
       LET p == t.payouts[<<CircleAddress, r>>]
           missing == N - Cardinality(contributed[r])
       IN  /\ p.recipient = members[r + 1]
           /\ p.amount = round_amount * Cardinality(contributed[r])
           /\ p.is_exceptional = (missing > 0)
           /\ p.defaulted_count = missing

\* One row, entered once, for every member that is flagged in a round.
FollowsFlags(t, flagged) ==
  /\ \A d \in DOMAIN t.defaults :
       /\ t.defaults[d] = 1
       /\ d.member \in MemberSet /\ d.round \in Rounds
       /\ d.member \in flagged[d.round]
  /\ \A r \in Rounds : \A m \in flagged[r] :
       \E d \in DOMAIN t.defaults : d.member = m /\ d.round = r
  /\ \A d, e \in DOMAIN t.defaults :
       d.member = e.member /\ d.round = e.round => d = e

FollowsDefaults(t) == FollowsFlags(t, defaulted)

\* The scores of those who have one.
FollowsReputation(t) ==
  /\ DOMAIN t.reputation = {m \in MemberSet : awarded[m] > 0}
  /\ \A m \in DOMAIN t.reputation : t.reputation[m] = awarded[m]

FollowsContract(t) ==
  /\ IsTables(t)
  /\ FollowsRow(t) /\ FollowsMembers(t) /\ FollowsContributions(t)
  /\ FollowsPayouts(t) /\ FollowsDefaults(t) /\ FollowsReputation(t)

\* Before initialize there is nothing to follow.
UpToContract(t) ==
  IF status = "Uninitialized" THEN t = EmptyTables ELSE FollowsContract(t)

\* That is what the property says of tables that have caught up.
LEMMA FollowingIsEnough ==
  ASSUME TypeOK, status # "Uninitialized", FollowsContract(tables)
  PROVE  RowFollows /\ HistoryFollows
<1>1. RowFollows
  <2>1. Row = RowAfter(Released)
    BY DEF FollowsContract, FollowsRow, Circles, Row
  <2> QED
    BY <2>1 DEF RowFollows, RowAfter
<1>2. {<<k[2], k[3]>> : k \in DOMAIN tables.contributions} =
        {x \in MemberSet \X Rounds : x[1] \in contributed[x[2]]}
  <2>1. FollowsContributions(tables)
    BY DEF FollowsContract
  <2>2. ASSUME NEW k \in DOMAIN tables.contributions
        PROVE  /\ <<k[2], k[3]>> \in MemberSet \X Rounds
               /\ k[2] \in contributed[k[3]]
    BY <2>1 DEF FollowsContributions
  <2>3. ASSUME NEW x \in MemberSet \X Rounds, x[1] \in contributed[x[2]]
        PROVE  \E k \in DOMAIN tables.contributions : x = <<k[2], k[3]>>
    <3> DEFINE k == <<CircleAddress, x[1], x[2]>>
    <3>1. x = <<x[1], x[2]>> /\ x[2] \in Rounds
      OBVIOUS
    <3>2. k \in DOMAIN tables.contributions
      BY <2>1, <2>3, <3>1 DEF FollowsContributions
    <3> QED
      BY <3>1, <3>2
  <2> QED
    BY <2>2, <2>3
<1>3. /\ DOMAIN tables.payouts =
           {<<CircleAddress, r>> : r \in 0..(rounds_completed - 1)}
      /\ \A r \in 0..(rounds_completed - 1) :
           LET p == tables.payouts[<<CircleAddress, r>>]
               missing == N - Cardinality(contributed[r])
           IN  /\ p.recipient = members[r + 1]
               /\ p.is_exceptional = (missing > 0)
               /\ p.defaulted_count = missing
  BY DEF FollowsContract, FollowsPayouts
<1>4. {<<d.member, d.round>> : d \in DOMAIN tables.defaults} = Flags
  <2>1. FollowsDefaults(tables)
    BY DEF FollowsContract
  <2>2. ASSUME NEW d \in DOMAIN tables.defaults
        PROVE  <<d.member, d.round>> \in Flags
    BY <2>1 DEF FollowsDefaults, FollowsFlags, Flags
  <2>3. ASSUME NEW x \in Flags
        PROVE  \E d \in DOMAIN tables.defaults : x = <<d.member, d.round>>
    <3>1. x = <<x[1], x[2]>> /\ x[2] \in Rounds /\ x[1] \in defaulted[x[2]]
      BY DEF Flags
    <3> QED
      BY <2>1, <3>1 DEF FollowsDefaults, FollowsFlags
  <2> QED
    BY <2>2, <2>3
<1>5. \A d \in DOMAIN tables.defaults :
        /\ tables.defaults[d] = 1
        /\ \A e \in DOMAIN tables.defaults :
             d.member = e.member /\ d.round = e.round => d = e
  BY DEF FollowsContract, FollowsDefaults, FollowsFlags
<1>6. ASSUME NEW m \in MemberSet PROVE MemberRow(m).defaults = defaults[m]
  <2> DEFINE row == MemberRow(m)
  <2>1. row = [payout_order |-> row.payout_order, join_order |-> row.join_order,
               collateral |-> IF m \in joined THEN CollateralDue ELSE 0,
               defaults |-> defaults[m]]
    BY DEF FollowsContract, FollowsMembers, FollowsCounts, MemberRow
  <2> HIDE DEF row
  <2>2. row.defaults = defaults[m]
    BY <2>1
  <2> QED
    BY <2>2 DEF row
<1>7. {MemberRow(m).join_order : m \in joined} = 1..Cardinality(joined)
  <2>1. FollowsMembers(tables)
    BY DEF FollowsContract
  <2> QED
    BY <2>1, Zenon DEF FollowsMembers, FollowsCounts, MemberRow
<1>8. \A m \in MemberSet :
        (m \in DOMAIN tables.reputation \/ awarded[m] > 0)
          => tables.reputation[m] = awarded[m]
  BY DEF FollowsContract, FollowsReputation
<1>9. HistoryFollows
  BY <1>2, <1>3, <1>4, <1>5, <1>6, <1>7, <1>8, Zenon DEF HistoryFollows
<1> QED
  BY <1>1, <1>9

-----------------------------------------------------------------------------
(* What the tables say of themselves, also while they are behind.          *)

\* A row for every member, at its place in the rotation.
WholeMembers(t) ==
  /\ DOMAIN t.circle_members = {<<CircleAddress, m>> : m \in MemberSet}
  /\ \A i \in 1..N :
       t.circle_members[<<CircleAddress, members[i]>>].payout_order = i - 1

\* A payout for each of the n settled rounds, to the member whose turn it was.
WholePayouts(t, n) ==
  /\ DOMAIN t.payouts = {<<CircleAddress, r>> : r \in 0..(n - 1)}
  /\ \A r \in 0..(n - 1) : t.payouts[<<CircleAddress, r>>].recipient = members[r + 1]

\* Contributions and defaults of members, no default twice nor of a round that
\* has not begun, and one or the other of everybody in each settled round.
WholeRecords(t, n) ==
  /\ \A k \in DOMAIN t.contributions :
       \E m \in MemberSet, r \in Rounds : k = <<CircleAddress, m, r>>
  /\ \A d \in DOMAIN t.defaults :
       /\ t.defaults[d] = 1 /\ d.member \in MemberSet /\ d.round \in Rounds
       /\ d.round < n \/ (d.round = n /\ RowIn(t).status = "Active")
  /\ \A d, e \in DOMAIN t.defaults :
       d.member = e.member /\ d.round = e.round => d = e
  /\ \A r \in 0..(n - 1) : \A m \in MemberSet :
       \/ <<CircleAddress, m, r>> \in DOMAIN t.contributions
       \/ \E d \in DOMAIN t.defaults : d.member = m /\ d.round = r

\* A status that a page can show; and while it is Pending a seat is free.
WholeRow(t) ==
  /\ RowIn(t).member_count = N /\ RowIn(t).status \in CircleStatus \cup {"Closed"}
  /\ RowIn(t).status = "Pending" =>
       \E m \in MemberSet : t.circle_members[<<CircleAddress, m>>].collateral = 0

Whole(t) ==
  \E n \in 0..N : /\ RowIn(t).current_round = n
                  /\ WholeMembers(t) /\ WholePayouts(t, n) /\ WholeRecords(t, n)
                  /\ WholeRow(t)

Sound(t) == CircleAddress \in DOMAIN t.circles => Whole(t)

\* A circle that waits for members waits for somebody.
PendingHasSeats == status \in {"Uninitialized", "Pending"} => joined # MemberSet

\* What the contract owes its members, and what its closing means.
Complete == ClosedIsOver /\ EveryoneAccounted /\ PendingHasSeats

\* The member who takes the last seat makes the circle Active.
LEMMA SeatsStep == TypeOK /\ PendingHasSeats /\ [Next]_vars => PendingHasSeats'
<1> SUFFICES ASSUME TypeOK, PendingHasSeats, [Next]_vars,
                    status' \in {"Uninitialized", "Pending"}
             PROVE  joined' # MemberSet
  BY DEF PendingHasSeats
<1>1. CASE initialize
  BY <1>1 DEF initialize, PendingHasSeats
<1>2. ASSUME NEW a \in Address, join(a) PROVE joined' # MemberSet
  BY <1>2 DEF join
<1>3. ASSUME status' = status, joined' = joined PROVE joined' # MemberSet
  BY <1>3 DEF PendingHasSeats
<1>4. ASSUME NEW a \in Address, cancel(a) PROVE FALSE
  BY <1>4 DEF cancel
<1>5. CASE payout \/ settle_round
  <2>1. RoundOpen /\ SettleAndAdvance /\ joined' = joined
    BY <1>5 DEF payout, PayoutChecks, settle_round
  <2> QED
    BY <2>1 DEF SettleAndAdvance, RoundOpen
<1>6. CASE \/ AdvanceLedger
           \/ \E a \in Address : \/ contribute(a) \/ mark_default(a)
                                 \/ close(a) \/ pause(a) \/ resume(a)
           \/ \E m \in MemberSet : freeze(m) \/ unfreeze(m)
           \/ add_authorized_caller \/ remove_authorized_caller
           \/ UNCHANGED vars
  <2>1. status' = status /\ joined' = joined
    BY <1>6 DEF contribute, mark_default, close, pause, resume, freeze, unfreeze,
       AdvanceLedger, add_authorized_caller, remove_authorized_caller, contractVars, vars
  <2> QED
    BY <1>3, <2>1
<1> QED
  BY <1>1, <1>2, <1>4, <1>5, <1>6 DEF Next

\* All of it holds in every state of the contract.
LEMMA CompleteAlways == Spec => []Complete
<1>1. Init => PendingHasSeats
  <2>1. 1 \in 1..N
    BY RotationFacts
  <2>2. members[1] \in MemberSet
    BY <2>1, RotationFacts
  <2> QED
    BY <2>2 DEF Init, PendingHasSeats
<1> QED
  BY <1>1, SeatsStep, NobodyIsOverlooked, TypeCorrect, PTL DEF Complete, Spec

\* Tables that follow the contract are whole.
LEMMA FollowingIsWhole ==
  IndInv /\ Complete => \A t : UpToContract(t) => Sound(t)
<1> SUFFICES ASSUME IndInv, Complete, NEW t, UpToContract(t),
                    CircleAddress \in DOMAIN t.circles
             PROVE  Whole(t)
  BY DEF Sound
<1>0. /\ TypeOK /\ RotationProgress /\ RecordsInOrder /\ round.round_index \in Rounds
      /\ contributed \in [Rounds -> SUBSET MemberSet]
      /\ defaulted \in [Rounds -> SUBSET MemberSet]
  BY DEF IndInv, TypeOK, RoundState
<1>1. FollowsContract(t)
  <2>1. status # "Uninitialized"
    <3>1. DOMAIN EmptyTables.circles = {}
      BY DEF EmptyTables
    <3> QED
      BY <3>1 DEF UpToContract
  <2> QED
    BY <2>1 DEF UpToContract
<1>2. PICK n \in 0..N : /\ n = rounds_completed
                       /\ RowIn(t).current_round = n /\ RowIn(t).status = RowStatus
  <2>1. RowIn(t) = RowAfter(Released)
    <3>1. t.circles = Circles(RowAfter(Released))
      BY <1>1 DEF FollowsContract, FollowsRow
    <3> QED
      BY <3>1 DEF Circles, RowIn
  <2>2. rounds_completed \in 0..N
    BY <1>0, RotationFacts DEF RotationProgress
  <2>3. /\ RowAfter(Released).current_round = rounds_completed
        /\ RowAfter(Released).status = RowStatus
    BY DEF RowAfter
  <2> QED
    BY <2>1, <2>2, <2>3
<1>3. \A r \in 0..(n - 1) : r \in Rounds /\ r < n
  BY <1>2, RotationFacts DEF Rounds
<1>4. WholeMembers(t)
  <2>1. DOMAIN t.circle_members = {<<CircleAddress, m>> : m \in MemberSet}
    BY <1>1 DEF FollowsContract, FollowsMembers, FollowsCounts
  <2>2. ASSUME NEW i \in 1..N
        PROVE  t.circle_members[<<CircleAddress, members[i]>>].payout_order = i - 1
    <3>1. members[i] \in MemberSet
      BY RotationFacts
    <3>2. PICK place \in 1..N :
            /\ members[place] = members[i]
            /\ t.circle_members[<<CircleAddress, members[i]>>].payout_order = place - 1
      BY <1>1, <3>1 DEF FollowsContract, FollowsMembers, FollowsCounts
    <3>3. place = i
      BY <3>2, ConfigAssumption DEF N
    <3> QED
      BY <3>2, <3>3
  <2> QED
    BY <2>1, <2>2 DEF WholeMembers
<1>5. WholePayouts(t, n)
  <2>1. /\ DOMAIN t.payouts = {<<CircleAddress, r>> : r \in 0..(n - 1)}
        /\ \A r \in 0..(n - 1) :
             t.payouts[<<CircleAddress, r>>].recipient = members[r + 1]
    BY <1>1, <1>2 DEF FollowsContract, FollowsPayouts
  <2> QED
    BY <2>1 DEF WholePayouts
<1>6. FollowsContributions(t) /\ FollowsFlags(t, defaulted)
  BY <1>1 DEF FollowsContract, FollowsDefaults
<1>7. ASSUME NEW d \in DOMAIN t.defaults
      PROVE  /\ t.defaults[d] = 1 /\ d.member \in MemberSet /\ d.round \in Rounds
             /\ d.round < n \/ (d.round = n /\ RowIn(t).status = "Active")
  <2>1. /\ t.defaults[d] = 1 /\ d.member \in MemberSet /\ d.round \in Rounds
        /\ d.member \in defaulted[d.round]
    BY <1>6 DEF FollowsFlags
  <2>2. ~(d.round > round.round_index) /\ d.round \in Nat /\ d.round < N
        /\ round.round_index \in Nat
    BY <1>0, <2>1, RotationFacts DEF RecordsInOrder
  <2>3. CASE status = "Active"
    <3>1. n = round.round_index /\ ~closed
      BY <1>0, <1>2, <2>3 DEF RotationProgress, Complete, ClosedIsOver, TypeOK
    <3>2. RowIn(t).status = "Active"
      BY <1>2, <2>3, <3>1 DEF RowStatus
    <3> QED
      BY <2>1, <2>2, <3>1, <3>2
  <2>4. CASE status = "Completed"
    <3>1. n = N
      BY <1>0, <1>2, <2>4 DEF RotationProgress
    <3> QED
      BY <2>1, <2>2, <3>1
  <2>5. CASE status \notin {"Active", "Completed"}
    <3>1. d.round = 0 /\ defaulted[0] = {}
      BY <1>0, <2>2, <2>5 DEF RecordsInOrder
    <3> QED
      BY <2>1, <3>1
  <2> QED
    BY <2>3, <2>4, <2>5
<1>8. ASSUME NEW r \in 0..(n - 1), NEW m \in MemberSet
      PROVE  \/ <<CircleAddress, m, r>> \in DOMAIN t.contributions
             \/ \E d \in DOMAIN t.defaults : d.member = m /\ d.round = r
  <2>1. m \in contributed[r] \/ m \in defaulted[r]
    BY <1>2, <1>3 DEF Complete, EveryoneAccounted
  <2> QED
    BY <1>3, <1>6, <2>1 DEF FollowsContributions, FollowsFlags
<1>9. WholeRecords(t, n)
  <2>1. \A k \in DOMAIN t.contributions :
          \E m \in MemberSet, r \in Rounds : k = <<CircleAddress, m, r>>
    BY <1>6 DEF FollowsContributions
  <2>2. \A d, e \in DOMAIN t.defaults :
          d.member = e.member /\ d.round = e.round => d = e
    BY <1>6 DEF FollowsFlags
  <2> QED
    BY <1>7, <1>8, <2>1, <2>2 DEF WholeRecords
<1>10. WholeRow(t)
  <2>1. RowIn(t).member_count = N
    <3>1. t.circles = Circles(RowAfter(Released))
      BY <1>1 DEF FollowsContract, FollowsRow
    <3>2. RowIn(t) = RowAfter(Released)
      BY <3>1 DEF Circles, RowIn
    <3>3. RowAfter(Released).member_count = N
      BY DEF RowAfter
    <3> QED
      BY <3>2, <3>3
  <2>2. RowStatus \in CircleStatus \cup {"Closed"}
    BY <1>0 DEF RowStatus, TypeOK
  <2>3. ASSUME RowStatus = "Pending"
        PROVE  \E m \in MemberSet : t.circle_members[<<CircleAddress, m>>].collateral = 0
    <3>1. joined # MemberSet /\ joined \subseteq MemberSet
      BY <1>0, <2>3 DEF Complete, PendingHasSeats, RowStatus, TypeOK
    <3>2. PICK m \in MemberSet : m \notin joined
      BY <3>1
    <3>3. PICK row : row = t.circle_members[<<CircleAddress, m>>]
      OBVIOUS
    <3>4. row = [payout_order |-> row.payout_order, join_order |-> row.join_order,
                 collateral |-> IF m \in joined THEN CollateralDue ELSE 0,
                 defaults |-> defaults[m]]
      BY <1>1, <3>2, <3>3 DEF FollowsContract, FollowsMembers, FollowsCounts
    <3> QED
      BY <3>2, <3>3, <3>4
  <2> QED
    BY <1>2, <2>1, <2>2, <2>3 DEF WholeRow
<1> QED
  BY <1>2, <1>4, <1>5, <1>9, <1>10 DEF Whole

-----------------------------------------------------------------------------
(* How the status that the tables show may move.                           *)

\* From one status that a row shows to the next.
Onward(from, to) ==
  \/ to = from
  \/ from = "Pending" /\ to \in {"Active", "Cancelled"}
  \/ from = "Active" /\ to = "Completed"
  \/ from \in {"Completed", "Cancelled"} /\ to = "Closed"

\* From one version of the tables to the next.
Moved(t, u) ==
  CircleAddress \in DOMAIN t.circles =>
    /\ CircleAddress \in DOMAIN u.circles
    /\ Onward(RowIn(t).status, RowIn(u).status)

\* Tables that follow the contract move as it does.
LEMMA FollowingMoves ==
  IndInv /\ [Next]_vars => \A t, u : UpToContract(t) /\ UpToContract(u)' => Moved(t, u)
<1> SUFFICES ASSUME IndInv, [Next]_vars, NEW t, NEW u, UpToContract(t),
                    UpToContract(u)', CircleAddress \in DOMAIN t.circles
             PROVE  /\ CircleAddress \in DOMAIN u.circles
                    /\ Onward(RowIn(t).status, RowIn(u).status)
  BY DEF Moved
<1>1. status # "Uninitialized"
  <2>1. DOMAIN EmptyTables.circles = {}
    BY DEF EmptyTables
  <2> QED
    BY <2>1 DEF UpToContract
<1>2. status' = status \/ LegalMove
  BY StatusMoves DEF IndInv
<1>3. status' # "Uninitialized"
  BY <1>1, <1>2 DEF LegalMove
<1>4. ASSUME closed' # closed
      PROVE  closed' = TRUE /\ status' = status /\ status \in {"Completed", "Cancelled"}
  <2>1. PICK a \in Address : close(a)
    BY <1>4 DEF Next, initialize, join, cancel, contribute, mark_default, payout,
       settle_round, pause, resume, freeze, unfreeze, AdvanceLedger,
       add_authorized_caller, remove_authorized_caller, contractVars, vars
  <2> QED
    BY <2>1 DEF close, CloseChecks
<1>5. closed \in BOOLEAN
  BY DEF IndInv, TypeOK
<1>6. Onward(RowStatus, RowStatus')
  <2>1. PICK from, to : from = RowStatus /\ to = RowStatus'
    OBVIOUS
  <2>2. /\ closed => from = "Closed"
        /\ ~closed => from = status
        /\ closed' => to = "Closed"
        /\ ~closed' => to = status'
    BY <2>1 DEF RowStatus
  <2>3. CASE closed' # closed
    <3>1. closed' /\ ~closed
      BY <1>4, <1>5, <2>3
    <3> QED
      BY <1>4, <2>1, <2>2, <2>3, <3>1 DEF Onward
  <2>4. CASE closed' = closed
    <3>1. CASE closed
      <4>1. to = from
        BY <2>2, <2>4, <3>1
      <4> QED
        BY <2>1, <4>1 DEF Onward
    <3>2. CASE ~closed
      BY <1>1, <1>2, <2>1, <2>2, <2>4, <3>2 DEF Onward, LegalMove
    <3> QED
      BY <3>1, <3>2
  <2> QED
    BY <2>3, <2>4
<1>7. RowIn(t).status = RowStatus
  <2>1. t.circles = Circles(RowAfter(Released))
    BY <1>1 DEF UpToContract, FollowsContract, FollowsRow
  <2>2. RowIn(t) = RowAfter(Released)
    BY <2>1 DEF Circles, RowIn
  <2>3. RowAfter(Released).status = RowStatus
    BY DEF RowAfter
  <2> QED
    BY <2>2, <2>3
<1>8. /\ RowIn(u).status = RowStatus'
      /\ CircleAddress \in DOMAIN u.circles
  <2>1. PICK row : row = RowAfter(Released)'
    OBVIOUS
  <2>2. u.circles = Circles(row)
    BY <1>3, <2>1 DEF UpToContract, FollowsContract, FollowsRow, Circles
  <2>3. RowIn(u) = row /\ CircleAddress \in DOMAIN u.circles
    BY <2>2 DEF Circles, RowIn
  <2>4. RowAfter(Released)'.status = RowStatus'
    BY DEF RowAfter
  <2> QED
    BY <2>1, <2>3, <2>4
<1> QED
  BY <1>6, <1>7, <1>8

-----------------------------------------------------------------------------
(* The invariant: with what is still pending the tables catch up.          *)

\* The states of the indexer while it ingests what is pending: nothing is
\* refused on the way, the history is whole after each invocation and the status
\* moves on with it, and in the end the tables follow the contract.
Ahead(g) ==
  /\ g[0] = [tables |-> tables, rejected |-> rejected]
  /\ \A i \in 1..Len(pending) : g[i] = Applied(g[i - 1], pending[i])
  /\ \A i \in 0..Len(pending) : g[i] = At(g[i].tables)
  /\ \E t : g[Len(pending)] = At(t) /\ UpToContract(t)
  /\ \A i \in 0..Len(pending) : Sound(g[i].tables)
  /\ \A i \in 1..Len(pending) : Moved(g[i - 1].tables, g[i].tables)

EventInv ==
  /\ \E S : pending \in Seq(S)
  /\ altered = {} => \E g : Ahead(g)

\* It looks at what the contract records of the circle and at the points.
LEMMA SameRecords ==
  ASSUME UNCHANGED <<contractVars, awarded>>, NEW t
  PROVE  UpToContract(t)' <=> UpToContract(t)
<1>1. /\ FollowsRow(t)' <=> FollowsRow(t)
      /\ FollowsMembers(t)' <=> FollowsMembers(t)
      /\ FollowsContributions(t)' <=> FollowsContributions(t)
      /\ FollowsPayouts(t)' <=> FollowsPayouts(t)
      /\ FollowsDefaults(t)' <=> FollowsDefaults(t)
      /\ FollowsReputation(t)' <=> FollowsReputation(t)
  BY DEF FollowsRow, RowAfter, RowStatus, Released, FollowsMembers, FollowsCounts, FollowsContributions,
     FollowsPayouts, FollowsDefaults, FollowsFlags, FollowsReputation, contractVars
<1>2. IsTables(t)' <=> IsTables(t)
  BY DEF IsTables
<1> QED
  BY <1>1, <1>2 DEF UpToContract, FollowsContract, contractVars

\* At the start nothing is pending.
LEMMA EventInvInit == EventInit => EventInv
<1> SUFFICES ASSUME EventInit PROVE EventInv
  OBVIOUS
<1> DEFINE s == [tables |-> EmptyTables, rejected |-> {}]
           g == [i \in 0..0 |-> s]
<1>1. pending = <<>> /\ Len(pending) = 0 /\ pending \in Seq(Nat)
  BY DEF EventInit
<1>2. g[0] = s /\ s = At(s.tables) /\ s.tables = EmptyTables
  BY DEF At
<1>3. UpToContract(EmptyTables)
  BY DEF EventInit, Init, UpToContract
<1>4. tables = EmptyTables /\ rejected = {}
  BY DEF EventInit
<1>6. g[Len(pending)] = At(EmptyTables) /\ UpToContract(EmptyTables)
  BY <1>1, <1>2, <1>3
<1>7. (\A i \in 0..Len(pending) : i = 0) /\ 1..Len(pending) = {}
  BY <1>1
<1>8. Sound(EmptyTables)
  <2>1. DOMAIN EmptyTables.circles = {}
    BY DEF EmptyTables
  <2> QED
    BY <2>1 DEF Sound
<1> HIDE DEF g, s
<1>5. Ahead(g)
  BY <1>1, <1>2, <1>4, <1>6, <1>7, <1>8 DEF Ahead, s
<1> QED
  BY <1>1, <1>5 DEF EventInv

\* An invocation whose events do to the tables what it does to the contract.
LEMMA PublishKeeps ==
  ASSUME EventInv, NEW events, Publish(events),
         \A t : UpToContract(t) =>
                  \E u : Applied(At(t), events) = At(u) /\ UpToContract(u)',
         \A u : UpToContract(u)' => Sound(u),
         \A t, u : UpToContract(t) /\ UpToContract(u)' => Moved(t, u)
  PROVE  EventInv'
<1>1. PICK S : pending \in Seq(S)
  BY DEF EventInv
<1> DEFINE n == Len(pending)
<1>2. /\ pending' \in Seq(S \cup {events}) /\ Len(pending') = n + 1
      /\ n \in Nat /\ pending'[n + 1] = events
      /\ \A i \in 1..n : pending'[i] = pending[i]
  <2>1. pending \in Seq(S \cup {events}) /\ events \in S \cup {events}
    BY <1>1
  <2> QED
    BY <2>1 DEF Publish
<1>3. UNCHANGED <<tables, rejected, altered>>
  BY DEF Publish
<1>4. ASSUME altered = {} PROVE (\E g : Ahead(g))'
  <2>1. PICK g : Ahead(g)
    BY <1>4 DEF EventInv
  <2>2. PICK t : g[n] = At(t) /\ UpToContract(t)
    BY <2>1 DEF Ahead
  <2>12. PICK u : Applied(At(t), events) = At(u) /\ UpToContract(u)'
    BY <2>2
  <2>3. PICK h : h = [i \in 0..(n + 1) |-> IF i = n + 1 THEN At(u) ELSE g[i]]
    OBVIOUS
  <2> HIDE DEF n
  <2>4. /\ h[n + 1] = At(u) /\ h[0] = g[0]
        /\ \A i \in 0..n : h[i] = g[i]
    BY <1>2, <2>3
  <2>6. ASSUME NEW i \in 1..(n + 1) PROVE h[i] = Applied(h[i - 1], pending'[i])
    <3>1. CASE i = n + 1
      <4>1. i - 1 = n /\ n \in 0..n
        BY <1>2, <3>1
      <4> QED
        BY <1>2, <2>2, <2>4, <2>12, <3>1, <4>1
    <3>2. CASE i # n + 1
      <4>1. i \in 1..n /\ i \in 0..n /\ i - 1 \in 0..n
        BY <1>2, <3>2
      <4>2. g[i] = Applied(g[i - 1], pending[i])
        BY <2>1, <4>1 DEF Ahead, n
      <4> QED
        BY <1>2, <2>4, <4>1, <4>2
    <3> QED
      BY <3>1, <3>2
  <2>7. At(u) = At(At(u).tables) /\ At(u).tables = u
    BY DEF At
  <2>8. ASSUME NEW i \in 0..(n + 1) PROVE h[i] = At(h[i].tables)
    <3>1. CASE i = n + 1
      BY <2>4, <2>7, <3>1
    <3>2. CASE i # n + 1
      <4>1. i \in 0..n
        BY <1>2, <3>2
      <4> QED
        BY <2>1, <2>4, <4>1 DEF Ahead, n
    <3> QED
      BY <3>1, <3>2
  <2>9. h[0] = [tables |-> tables, rejected |-> rejected]'
    BY <1>3, <2>1, <2>4 DEF Ahead
  <2>10. h[Len(pending')] = At(u) /\ UpToContract(u)'
    BY <1>2, <2>4, <2>12
  <2>13. ASSUME NEW i \in 0..(n + 1) PROVE Sound(h[i].tables)
    <3>1. CASE i = n + 1
      BY <2>4, <2>7, <2>12, <3>1
    <3>2. CASE i # n + 1
      <4>1. i \in 0..n
        BY <1>2, <3>2
      <4> QED
        BY <2>1, <2>4, <4>1 DEF Ahead, n
    <3> QED
      BY <3>1, <3>2
  <2>14. ASSUME NEW i \in 1..(n + 1) PROVE Moved(h[i - 1].tables, h[i].tables)
    <3>1. CASE i = n + 1
      <4>1. i - 1 = n /\ n \in 0..n
        BY <1>2, <3>1
      <4>2. h[i - 1].tables = t /\ h[i].tables = u
        BY <2>2, <2>4, <3>1, <4>1 DEF At
      <4> QED
        BY <2>2, <2>12, <4>2
    <3>2. CASE i # n + 1
      <4>1. i \in 1..n /\ i \in 0..n /\ i - 1 \in 0..n
        BY <1>2, <3>2
      <4>2. Moved(g[i - 1].tables, g[i].tables)
        BY <2>1, <4>1 DEF Ahead, n
      <4> QED
        BY <2>4, <4>1, <4>2
    <3> QED
      BY <3>1, <3>2
  <2>11. Ahead(h)'
    BY <1>2, <2>6, <2>8, <2>9, <2>10, <2>13, <2>14 DEF Ahead, Moved, RowIn
  <2> QED
    BY <2>11
<1> QED
  BY <1>2, <1>3, <1>4 DEF EventInv

\* Ingesting the first of what is pending.
LEMMA IngestKeeps ==
  ASSUME EventInv, Ingest
  PROVE  EventInv'
<1>1. PICK S : pending \in Seq(S)
  BY DEF EventInv
<1> DEFINE n == Len(pending)
<1>2. pending # <<>> /\ pending' = Tail(pending) /\ UNCHANGED <<vars, altered>>
  BY DEF Ingest
<1>3. /\ n \in Nat /\ n > 0 /\ Head(pending) = pending[1]
      /\ pending' \in Seq(S) /\ Len(pending') = n - 1
      /\ \A i \in 1..(n - 1) : pending'[i] = pending[i + 1]
  BY <1>1, <1>2
<1>4. ASSUME altered = {} PROVE (\E g : Ahead(g))'
  <2>1. PICK g : Ahead(g)
    BY <1>4 DEF EventInv
  <2>2. PICK h : h = [i \in 0..(n - 1) |-> g[i + 1]]
    OBVIOUS
  <2> HIDE DEF n
  <2>3. g[1] = Applied(g[0], pending[1]) /\ g[1] = At(g[1].tables)
    <3>1. 1 \in 1..n /\ 1 \in 0..n /\ 1 - 1 = 0
      BY <1>3
    <3> QED
      BY <2>1, <3>1 DEF Ahead, n
  <2>4. tables' = g[1].tables /\ rejected' = g[1].rejected
    BY <1>3, <2>1, <2>3 DEF Ingest, Deliver, Ahead
  <2>5. \A i \in 0..(n - 1) : h[i] = g[i + 1]
    BY <2>2
  <2>6. h[0] = [tables |-> tables, rejected |-> rejected]'
    <3>1. 0 \in 0..(n - 1) /\ h[0] = g[1]
      BY <1>3, <2>5
    <3>2. g[1] = [tables |-> g[1].tables, rejected |-> g[1].rejected]
      BY <2>3 DEF At
    <3> QED
      BY <2>4, <3>1, <3>2
  <2>7. ASSUME NEW i \in 1..(n - 1) PROVE h[i] = Applied(h[i - 1], pending'[i])
    <3>1. i \in 0..(n - 1) /\ i - 1 \in 0..(n - 1) /\ (i - 1) + 1 = i
          /\ i + 1 \in 1..n /\ (i + 1) - 1 = i
      BY <1>3
    <3> DEFINE j == i + 1
    <3>2. j \in 1..n /\ j - 1 = i
      BY <3>1
    <3> HIDE DEF j
    <3>3. g[j] = Applied(g[j - 1], pending[j])
      BY <2>1, <3>2 DEF Ahead, n
    <3> QED
      BY <1>3, <2>5, <3>1, <3>2, <3>3 DEF j
  <2>8. ASSUME NEW i \in 0..(n - 1) PROVE h[i] = At(h[i].tables)
    <3>1. i + 1 \in 0..n
      BY <1>3
    <3> QED
      BY <2>1, <2>5, <3>1 DEF Ahead, n
  <2>9. h[n - 1] = g[n]
    <3>1. n - 1 \in 0..(n - 1) /\ (n - 1) + 1 = n
      BY <1>3
    <3> QED
      BY <2>5, <3>1
  <2>12. PICK t : g[n] = At(t) /\ UpToContract(t)
    BY <2>1 DEF Ahead, n
  <2>10. h[Len(pending')] = At(t) /\ UpToContract(t)'
    <3>1. UNCHANGED <<contractVars, awarded>>
      BY <1>2 DEF vars, repVars
    <3> QED
      BY <1>3, <2>9, <2>12, <3>1, SameRecords
  <2>13. ASSUME NEW i \in 0..(n - 1) PROVE Sound(h[i].tables)
    <3>1. i + 1 \in 0..n
      BY <1>3
    <3> QED
      BY <2>1, <2>5, <3>1 DEF Ahead, n
  <2>14. ASSUME NEW i \in 1..(n - 1) PROVE Moved(h[i - 1].tables, h[i].tables)
    <3>1. i \in 0..(n - 1) /\ i - 1 \in 0..(n - 1) /\ (i - 1) + 1 = i
      BY <1>3
    <3> DEFINE j == i + 1
    <3>2. j \in 1..n /\ j - 1 = i
      BY <1>3
    <3> HIDE DEF j
    <3>3. Moved(g[j - 1].tables, g[j].tables)
      BY <2>1, <3>2 DEF Ahead, n
    <3>4. h[i] = g[j] /\ h[i - 1] = g[j - 1]
      BY <2>5, <3>1, <3>2 DEF j
    <3> QED
      BY <3>3, <3>4
  <2>11. Ahead(h)'
    BY <1>3, <2>6, <2>7, <2>8, <2>10, <2>13, <2>14 DEF Ahead, n, Moved, RowIn
  <2> QED
    BY <2>11
<1> QED
  BY <1>2, <1>3, <1>4 DEF EventInv

\* Time and the registration are not in the tables; a lost event ends the
\* claim.
LEMMA QuietKeeps ==
  ASSUME EventInv, UNCHANGED <<contractVars, awarded, eventVars>>
  PROVE  EventInv'
<1>1. UNCHANGED <<tables, rejected, pending, altered>>
  BY DEF eventVars
<1>2. ASSUME NEW g, Ahead(g) PROVE Ahead(g)'
  <2>1. \E t : g[Len(pending)] = At(t) /\ UpToContract(t)'
    BY <1>2, SameRecords DEF Ahead
  <2> QED
    BY <1>1, <1>2, <2>1 DEF Ahead
<1> QED
  BY <1>1, <1>2 DEF EventInv

\* A lost event ends the claim.
LEMMA LosingKeeps ==
  ASSUME EventInv, IngestLosing
  PROVE  EventInv'
<1>1. PICK S : pending \in Seq(S)
  BY DEF EventInv
<1>2. pending' \in Seq(S)
  BY <1>1 DEF IngestLosing
<1>3. altered' # {}
  BY DEF IngestLosing
<1> QED
  BY <1>2, <1>3 DEF EventInv

-----------------------------------------------------------------------------
(* What each invocation's events do to tables that follow the contract.    *)

\* The collateral held, with the penalties taken from it, is what the members
\* deposited; close gives all of it back.
DepositsKept ==
  /\ ~closed => Total(collateral) + forfeited = CollateralDue * Cardinality(joined)
  /\ closed => Total(collateral) = 0

\* Before initialize the contract has stored nothing; close comes at the end.
Ground ==
  /\ DepositsKept
  /\ closed => status \in {"Completed", "Cancelled"}
  /\ status = "Uninitialized" =>
       ~paused /\ joined = {} /\ defaults = [m \in MemberSet |-> 0]

\* The deposits are kept at the start,
LEMMA DepositsInit == Init => DepositsKept
<1> SUFFICES ASSUME Init PROVE DepositsKept
  OBVIOUS
<1>1. Total(collateral) = 0 /\ forfeited = 0 /\ ~closed
  BY TotalZero DEF Init
<1>2. Cardinality(joined) = 0
  BY FS_EmptySet DEF Init
<1>3. CollateralDue * 0 = 0
  BY ConfigAssumption DEF CollateralDue, COLLATERAL_MULTIPLIER
<1> QED
  BY <1>1, <1>2, <1>3 DEF DepositsKept

\* and by every step: a deposit more for a member more, and what a fine takes
\* is kept.
LEMMA DepositsStep ==
  ASSUME IndInv, Ground, [Next]_vars
  PROVE  DepositsKept'
<1>0. /\ TypeOK /\ RecordsInOrder
      /\ collateral \in [MemberSet -> Nat] /\ Total(collateral) \in Nat
      /\ forfeited \in Nat /\ CollateralDue \in Nat
      /\ IsFiniteSet(joined) /\ Cardinality(joined) \in Nat
  <2>1. TypeOK /\ RecordsInOrder /\ collateral \in [MemberSet -> Nat]
        /\ forfeited \in Nat /\ joined \in SUBSET MemberSet
    BY DEF IndInv, TypeOK
  <2>2. IsFiniteSet(joined)
    BY <2>1, MembersFinite, FS_Subset
  <2>3. CollateralDue \in Nat
    BY ConfigAssumption DEF CollateralDue, COLLATERAL_MULTIPLIER
  <2> QED
    BY <2>1, <2>2, <2>3, TotalType, FS_CardinalityType
<1>10. DepositsKept
  BY DEF Ground
<1>1. CASE UNCHANGED <<closed, collateral, joined, forfeited>>
  BY <1>1, <1>10 DEF DepositsKept
<1>2. ASSUME NEW m \in Address, join(m) PROVE DepositsKept'
  <2>1. /\ m \in MemberSet /\ m \notin joined /\ joined' = joined \cup {m}
        /\ collateral' = [collateral EXCEPT ![m] = CollateralDue]
        /\ collateral[m] = 0 /\ UNCHANGED <<closed, forfeited>>
    BY <1>0, <1>2 DEF join, JoinChecks, RecordsInOrder
  <2>2. Total(collateral') = Total(collateral) + CollateralDue
    BY <1>0, <2>1, TotalDeposit
  <2>3. Cardinality(joined') = Cardinality(joined) + 1
    BY <1>0, <2>1, FS_AddElement
  <2>4. ~closed
    BY <1>2 DEF join, JoinChecks, Ground
  <2>5. PICK d, n \in Nat : d = CollateralDue /\ n = Cardinality(joined) /\ d \in Nat
    BY <1>0
  <2>6. d * (n + 1) = d * n + d
    BY <2>5
  <2> QED
    BY <1>0, <1>10, <2>1, <2>2, <2>3, <2>4, <2>5, <2>6 DEF DepositsKept
<1>3. ASSUME NEW S \in SUBSET MemberSet, Penalise(S), ~closed,
             UNCHANGED <<closed, joined>>
      PROVE  DepositsKept'
  <2>1. /\ Total(collateral') + Total(Fine(S)) = Total(collateral)
        /\ forfeited' = forfeited + Total(Fine(S))
    BY <1>0, <1>3, TotalFined
  <2>2. Total(collateral') \in Nat /\ Total(Fine(S)) \in Nat
    BY <1>0, <1>3, FineFacts, PenaliseType, TotalType
  <2> QED
    BY <1>0, <1>3, <1>10, <2>1, <2>2 DEF DepositsKept
<1>4. ASSUME NEW a \in Address, mark_default(a) PROVE DepositsKept'
  BY <1>3, <1>4 DEF mark_default, MarkDefaultChecks, Delinquent, RoundOpen, Ground
<1>5. CASE settle_round
  BY <1>3, <1>5 DEF settle_round, Delinquent, RoundOpen, Ground
<1>6. ASSUME NEW a \in Address, close(a) PROVE DepositsKept'
  <2>1. closed' /\ collateral' = [m \in MemberSet |-> 0]
    BY <1>6 DEF close, CloseChecks, ReleaseCollateral, CanRelease
  <2>2. Total(collateral') = 0
    BY <2>1, TotalZero
  <2> QED
    BY <2>1, <2>2 DEF DepositsKept
<1>7. CASE \/ initialize \/ payout
           \/ \E a \in Address : contribute(a) \/ cancel(a) \/ pause(a) \/ resume(a)
           \/ \E m \in MemberSet : freeze(m) \/ unfreeze(m)
           \/ AdvanceLedger \/ add_authorized_caller \/ remove_authorized_caller
           \/ UNCHANGED vars
  <2>1. UNCHANGED <<closed, collateral, joined, forfeited>>
    BY <1>7 DEF initialize, payout, PayoutChecks, contribute, ContributeChecks, cancel,
                CancelChecks, pause, resume, freeze, unfreeze, AdvanceLedger,
                add_authorized_caller, remove_authorized_caller, vars, contractVars
  <2> QED
    BY <1>1, <2>1
<1> QED
  BY <1>2, <1>4, <1>5, <1>6, <1>7 DEF Next

\* It is so at the start,
LEMMA GroundInit == Init => Ground
BY DepositsInit DEF Init, Ground

\* and after every step of the contract.
LEMMA GroundStep == IndInv /\ Ground /\ [Next]_vars => Ground'
<1> SUFFICES ASSUME IndInv, Ground, [Next]_vars PROVE Ground'
  OBVIOUS
<1>0. DepositsKept'
  BY DepositsStep
<1>1. CASE UNCHANGED contractVars
  BY <1>0, <1>1 DEF Ground, contractVars
<1>2. CASE initialize
  BY <1>0, <1>2 DEF initialize, Ground
<1>3. ASSUME NEW a \in Address, join(a) PROVE Ground'
  BY <1>0, <1>3 DEF join, JoinChecks, Ground
<1>4. ASSUME NEW a \in Address, contribute(a) \/ mark_default(a) PROVE Ground'
  BY <1>0, <1>4 DEF contribute, ContributeChecks, mark_default, MarkDefaultChecks,
                    RoundOpen, Ground
<1>5. ASSUME NEW a \in Address, cancel(a) \/ close(a) PROVE Ground'
  BY <1>0, <1>5 DEF cancel, CancelChecks, close, CloseChecks, Ground
<1>6. ASSUME NEW a \in Address, pause(a) \/ resume(a) PROVE Ground'
  BY <1>0, <1>6 DEF pause, resume, Ground
<1>7. CASE payout \/ settle_round
  <2>1. status = "Active" /\ status' # "Uninitialized" /\ UNCHANGED closed
    BY <1>7 DEF payout, PayoutChecks, settle_round, RoundOpen, SettleAndAdvance
  <2> QED
    BY <1>0, <2>1 DEF Ground
<1>8. CASE AdvanceLedger \/ add_authorized_caller \/ remove_authorized_caller
  BY <1>1, <1>8 DEF AdvanceLedger, add_authorized_caller,
     remove_authorized_caller
<1>9. CASE \E m \in MemberSet : freeze(m) \/ unfreeze(m)
  BY <1>1, <1>9 DEF freeze, unfreeze
<1>10. CASE UNCHANGED vars
  BY <1>1, <1>10 DEF vars
<1> QED
  BY <1>2, <1>3, <1>4, <1>5, <1>6, <1>7, <1>8, <1>9, <1>10 DEF Next

\* A single event that is handled.
LEMMA AppliedEvent ==
  ASSUME NEW t, NEW e, e.name \in Projected, ~Rejects(t, e)
  PROVE  \E u : u = Handle(t, e) /\ Applied(At(t), <<e>>) = At(u)
BY AppliedOne, AppliedByHandler

\* A table goes on following the contract when neither of them changes.
LEMMA Kept ==
  ASSUME NEW t, NEW u
  PROVE  /\ u.circle_members = t.circle_members /\ FollowsMembers(t)
           /\ UNCHANGED <<joined, defaults>> => FollowsMembers(u)'
         /\ u.contributions = t.contributions /\ FollowsContributions(t)
           /\ UNCHANGED contributed => FollowsContributions(u)'
         /\ u.payouts = t.payouts /\ FollowsPayouts(t)
           /\ UNCHANGED <<contributed, rounds_completed>> => FollowsPayouts(u)'
         /\ u.defaults = t.defaults /\ FollowsDefaults(t)
           /\ UNCHANGED defaulted => FollowsDefaults(u)'
         /\ u.reputation = t.reputation /\ FollowsReputation(t)
           /\ UNCHANGED awarded => FollowsReputation(u)'
<1>1. u.circle_members = t.circle_members /\ FollowsMembers(t)
        /\ UNCHANGED <<joined, defaults>> => FollowsMembers(u)'
  BY DEF FollowsMembers, FollowsCounts
<1>2. u.contributions = t.contributions /\ FollowsContributions(t)
        /\ UNCHANGED contributed => FollowsContributions(u)'
  BY DEF FollowsContributions
<1>3. u.payouts = t.payouts /\ FollowsPayouts(t)
        /\ UNCHANGED <<contributed, rounds_completed>> => FollowsPayouts(u)'
  BY DEF FollowsPayouts
<1>4. u.defaults = t.defaults /\ FollowsDefaults(t) /\ UNCHANGED defaulted
        => FollowsDefaults(u)'
  BY DEF FollowsDefaults, FollowsFlags
<1>5. u.reputation = t.reputation /\ FollowsReputation(t) /\ UNCHANGED awarded
        => FollowsReputation(u)'
  BY DEF FollowsReputation
<1> QED
  BY <1>1, <1>2, <1>3, <1>4, <1>5, Zenon

\* The circle's row, as the contract has it.
LEMMA RowNow ==
  ASSUME NEW t, FollowsRow(t)
  PROVE  /\ HasRow(t)
         /\ \E released : RowIn(t) = RowAfter(released) /\ released = Released
<1>1. PICK released : released = Released
  OBVIOUS
<1>2. t.circles = Circles(RowAfter(released))
  BY <1>1 DEF FollowsRow
<1>3. RowIn(t) = RowAfter(released)
  BY <1>2 DEF Circles, RowIn
<1> QED
  BY <1>1, <1>2, <1>3 DEF HasRow

\* The circle's row follows the contract into the next state.
LEMMA NewRow ==
  ASSUME NEW u, NEW row, u.circles = Circles(row),
         \E released : row = RowAfter(released)' /\ released = Released'
  PROVE  FollowsRow(u)'
<1>0. PICK released : row = RowAfter(released)' /\ released = Released'
  OBVIOUS
<1>1. row = RowAfter(Released)'
  BY <1>0 DEF RowAfter
<1> QED
  BY <1>1 DEF FollowsRow

\* The admin stops the circle, or lets it go on.
LEMMA PauseFollows ==
  ASSUME NEW a, NEW name, \/ name = "paused" /\ pause(a)
                          \/ name = "resumed" /\ resume(a),
         NEW t, UpToContract(t)
  PROVE  \E u : /\ Applied(At(t), <<Ev(name, a, 0, 0)>>) = At(u)
                /\ UpToContract(u)'
<1>1. /\ status # "Uninitialized" /\ paused' = (name = "paused")
      /\ UNCHANGED <<status, rounds_completed, closed, joined, contributed,
                     defaulted, defaults, forfeited, awarded>>
  BY DEF pause, resume, repVars
<1>2. FollowsContract(t)
  BY <1>1 DEF UpToContract
<1>3. PICK row, released :
        row = RowIn(t) /\ row = RowAfter(released) /\ released = Released
  BY <1>2, RowNow DEF FollowsContract
<1>4. HasRow(t) /\ t.circles = Circles(row) /\ IsTables(t)
  BY <1>2, <1>3, RowNow DEF FollowsContract, HasRow
<1> DEFINE e == Ev(name, a, 0, 0)
<1>5. /\ e.name = name /\ e.circle = CircleAddress
      /\ name \in {"paused", "resumed"} /\ e.circle \in DOMAIN t.circles
  BY <1>4 DEF Ev, Circles
<1> HIDE DEF e
<1>6. ~Rejects(t, e) /\ e.name \in Projected
  <2>1. ~Rejects(t, e)
    BY <1>4, <1>5, HandleRow
  <2> QED
    BY <1>5, <2>1 DEF Projected
<1>7. PICK u : u = Handle(t, e) /\ Applied(At(t), <<e>>) = At(u)
  BY <1>6, AppliedEvent
<1>8. PICK new : new = IF name = "paused" THEN Stopped(row) ELSE Resumed(row)
  OBVIOUS
<1>9. /\ IsTables(u) /\ u.circles = Circles(new)
      /\ u.circle_members = t.circle_members
      /\ u.contributions = t.contributions /\ u.payouts = t.payouts
      /\ u.defaults = t.defaults /\ u.reputation = t.reputation
  <2>1. CASE name = "paused"
    <3>1. new = Stopped(RowIn(t)) /\ e.name = "paused"
      BY <1>3, <1>5, <1>8, <2>1
    <3> QED
      BY <1>4, <1>5, <1>7, <3>1, HandleRow
  <2>2. CASE name = "resumed"
    <3>1. new = Resumed(RowIn(t)) /\ e.name = "resumed"
      BY <1>3, <1>5, <1>8, <2>2
    <3> QED
      BY <1>4, <1>5, <1>7, <3>1, HandleRow
  <2> QED
    BY <1>5, <2>1, <2>2
<1>10. new = RowAfter(released)'
  <2> DEFINE reason == IF ~closed THEN ""
                       ELSE IF status = "Completed" THEN "completed"
                       ELSE "cancelled"
  <2>1. row = [creator |-> Creator, round_amount |-> round_amount,
               member_count |-> N, status |-> RowStatus,
               current_round |-> rounds_completed, paused |-> paused,
               total_released |-> released, close_reason |-> reason]
    BY <1>3 DEF RowAfter
  <2>2. new = [creator |-> Creator, round_amount |-> round_amount,
               member_count |-> N, status |-> RowStatus,
               current_round |-> rounds_completed, paused |-> paused',
               total_released |-> released, close_reason |-> reason]
    <3>1. CASE name = "paused"
      BY <1>1, <1>8, <2>1, <3>1 DEF Stopped
    <3>2. CASE name # "paused"
      BY <1>1, <1>8, <2>1, <3>2 DEF Resumed
    <3> QED
      BY <3>1, <3>2
  <2> QED
    <3>1. RowStatus' = RowStatus /\ reason' = reason
      BY <1>1 DEF RowStatus
    <3> QED
      BY <1>1, <2>2, <3>1 DEF RowAfter
<1>13. released = Released'
  BY <1>1, <1>3 DEF Released
<1>11. FollowsRow(u)'
  BY <1>9, <1>10, <1>13, NewRow, Zenon
<1>12. FollowsContract(u)'
  BY <1>1, <1>2, <1>9, <1>11, Kept DEF FollowsContract, IsTables
<1> QED
  BY <1>1, <1>7, <1>12 DEF UpToContract, e

\* A circle is called off before it starts.
LEMMA CancelFollows ==
  ASSUME Ground, NEW a, cancel(a), NEW t, UpToContract(t)
  PROVE  \E u : /\ Applied(At(t), <<Ev("cancelled", a, 0, 0)>>) = At(u)
                /\ UpToContract(u)'
<1>1. /\ status = "Pending" /\ status' = "Cancelled" /\ ~closed
      /\ UNCHANGED <<paused, rounds_completed, closed, joined, contributed,
                     defaulted, defaults, forfeited, awarded>>
  BY DEF cancel, CancelChecks, repVars, Ground
<1>2. FollowsContract(t)
  BY <1>1 DEF UpToContract
<1>3. PICK row, released :
        row = RowIn(t) /\ row = RowAfter(released) /\ released = Released
  BY <1>2, RowNow DEF FollowsContract
<1>4. HasRow(t) /\ t.circles = Circles(row) /\ IsTables(t)
  BY <1>2, <1>3, RowNow DEF FollowsContract, HasRow
<1> DEFINE e == Ev("cancelled", a, 0, 0)
<1>5. /\ e.name = "cancelled" /\ e.circle = CircleAddress
      /\ e.circle \in DOMAIN t.circles
  BY <1>4 DEF Ev, Circles
<1> HIDE DEF e
<1>6. ~Rejects(t, e) /\ e.name \in Projected
  <2>1. ~Rejects(t, e)
    BY <1>4, <1>5, HandleEnd
  <2> QED
    BY <1>5, <2>1 DEF Projected
<1>7. PICK u : u = Handle(t, e) /\ Applied(At(t), <<e>>) = At(u)
  BY <1>6, AppliedEvent
<1>8. PICK new : new = WithStatus(row, "Cancelled")
  OBVIOUS
<1>9. /\ IsTables(u) /\ u.circles = Circles(new)
      /\ u.circle_members = t.circle_members
      /\ u.contributions = t.contributions /\ u.payouts = t.payouts
      /\ u.defaults = t.defaults /\ u.reputation = t.reputation
  <2>1. new = WithStatus(RowIn(t), "Cancelled")
    BY <1>3, <1>8
  <2> QED
    BY <1>4, <1>5, <1>7, <2>1, HandleEnd
<1>10. new = RowAfter(released)'
  <2>1. row = [creator |-> Creator, round_amount |-> round_amount,
               member_count |-> N, status |-> "Pending",
               current_round |-> rounds_completed, paused |-> paused,
               total_released |-> released, close_reason |-> ""]
    BY <1>1, <1>3 DEF RowAfter, RowStatus
  <2>2. new = [creator |-> Creator, round_amount |-> round_amount,
               member_count |-> N, status |-> "Cancelled",
               current_round |-> rounds_completed, paused |-> paused,
               total_released |-> released, close_reason |-> ""]
    BY <1>8, <2>1 DEF WithStatus
  <2> QED
    BY <1>1, <2>2 DEF RowAfter, RowStatus
<1>13. released = Released'
  BY <1>1, <1>3 DEF Released
<1>11. FollowsRow(u)'
  BY <1>9, <1>10, <1>13, NewRow, Zenon
<1>12. FollowsContract(u)'
  BY <1>1, <1>2, <1>9, <1>11, Kept DEF FollowsContract, IsTables
<1> QED
  BY <1>1, <1>7, <1>12 DEF UpToContract, e

\* A contribution is a row more.
LEMMA ContributeFollows ==
  ASSUME IndInv, NEW a, contribute(a), NEW t, UpToContract(t)
  PROVE  \E u : /\ Applied(At(t), <<Ev("contributed", a, round.round_index,
                                       round_amount)>>) = At(u)
                /\ UpToContract(u)'
<1> DEFINE r == round.round_index
<1>1. /\ status = "Active" /\ status' = "Active"
      /\ a \in MemberSet /\ a \notin contributed[r] /\ r \in Rounds
      /\ contributed' = [contributed EXCEPT ![r] = @ \cup {a}]
      /\ UNCHANGED <<paused, rounds_completed, closed, joined, defaulted,
                     defaults, forfeited, awarded>>
      /\ rounds_completed = r
  BY DEF contribute, ContributeChecks, repVars, RoundOpen, TypeOK, RoundState, IndInv,
         RotationProgress
<1>2. FollowsContract(t)
  BY <1>1 DEF UpToContract
<1>3. PICK row, released :
        row = RowIn(t) /\ row = RowAfter(released) /\ released = Released
  BY <1>2, RowNow DEF FollowsContract
<1>4. HasRow(t) /\ t.circles = Circles(row) /\ IsTables(t)
  BY <1>2, <1>3, RowNow DEF FollowsContract, HasRow
<1> DEFINE e == Ev("contributed", a, r, round_amount)
           k == <<CircleAddress, a, r>>
<1>5. /\ e.name = "contributed" /\ e.circle = CircleAddress
      /\ <<e.circle, e.member, e.round>> = k /\ e.amount = round_amount
  BY DEF Ev
<1>6. CircleAddress \in DOMAIN t.circles
  BY <1>4 DEF Circles
<1> HIDE DEF e
<1>7. ~Rejects(t, e) /\ e.name \in Projected
  BY <1>4, <1>5, <1>6, HandleContributed DEF Projected
<1>8. PICK u : u = Handle(t, e) /\ Applied(At(t), <<e>>) = At(u)
  BY <1>7, AppliedEvent
<1>9. PICK entry : entry = [amount |-> e.amount, ledger |-> e.ledger]
  OBVIOUS
<1>10. /\ IsTables(u) /\ u.circles = Circles(row)
       /\ u.circle_members = t.circle_members
       /\ u.contributions = InsertOrIgnore(t.contributions, k, entry)
       /\ u.payouts = t.payouts
       /\ u.defaults = t.defaults /\ u.reputation = t.reputation
  BY <1>4, <1>5, <1>6, <1>8, <1>9, HandleContributed
<1>11. k \notin DOMAIN t.contributions
  BY <1>1, <1>2 DEF FollowsContract, FollowsContributions
<1>12. /\ DOMAIN u.contributions = DOMAIN t.contributions \cup {k}
       /\ \A x \in DOMAIN t.contributions : u.contributions[x] = t.contributions[x]
       /\ u.contributions[k].amount = round_amount
  BY <1>5, <1>9, <1>10, <1>11 DEF InsertOrIgnore, Upsert
<1>13. FollowsContributions(u)'
  <2>1. FollowsContributions(t)
    BY <1>2 DEF FollowsContract
  <2>2. /\ contributed'[r] = contributed[r] \cup {a}
        /\ \A x \in Rounds : x # r => contributed'[x] = contributed[x]
    BY <1>1 DEF IndInv, TypeOK
  <2>3. ASSUME NEW x \in DOMAIN u.contributions
        PROVE  /\ \E m \in MemberSet, q \in Rounds :
                     x = <<CircleAddress, m, q>> /\ m \in contributed'[q]
               /\ u.contributions[x].amount = round_amount
    <3>1. CASE x = k
      BY <1>1, <1>12, <2>2, <3>1
    <3>2. CASE x # k
      <4>1. x \in DOMAIN t.contributions
        BY <1>12, <3>2
      <4>2. PICK m \in MemberSet, q \in Rounds :
              x = <<CircleAddress, m, q>> /\ m \in contributed[q]
        BY <2>1, <4>1 DEF FollowsContributions
      <4>3. m \in contributed'[q]
        BY <2>2, <4>2
      <4> QED
        BY <1>12, <2>1, <4>1, <4>2, <4>3 DEF FollowsContributions
    <3> QED
      BY <3>1, <3>2
  <2>4. ASSUME NEW q \in Rounds, NEW m \in contributed'[q]
        PROVE  <<CircleAddress, m, q>> \in DOMAIN u.contributions
    <3>1. CASE m \in contributed[q]
      BY <1>12, <2>1, <3>1 DEF FollowsContributions
    <3>2. CASE m \notin contributed[q]
      <4>1. q = r /\ m = a
        BY <2>2, <2>4, <3>2
      <4> QED
        BY <1>12, <4>1
    <3> QED
      BY <3>1, <3>2
  <2> QED
    BY <2>3, <2>4 DEF FollowsContributions
<1>14. FollowsPayouts(u)'
  <2>1. FollowsPayouts(t)
    BY <1>2 DEF FollowsContract
  <2>2. \A x \in 0..(rounds_completed - 1) : contributed'[x] = contributed[x]
    BY <1>1 DEF Rounds, IndInv, TypeOK
  <2> QED
    BY <1>1, <1>10, <2>1, <2>2 DEF FollowsPayouts
<1>15. row = RowAfter(released)'
  BY <1>1, <1>3 DEF RowAfter, RowStatus
<1>18. released = Released'
  BY <1>1, <1>3 DEF Released
<1>16. FollowsRow(u)'
  BY <1>10, <1>15, <1>18, NewRow
<1>17. FollowsContract(u)'
  BY <1>1, <1>2, <1>10, <1>13, <1>14, <1>16, Kept DEF FollowsContract, IsTables
<1> QED
  BY <1>1, <1>8, <1>17 DEF UpToContract, e

-----------------------------------------------------------------------------
(* Defaults, one by one and all at once.                                   *)

\* The flags of round r and the members' counts with S flagged as well.
Flag(f, r, S) == [f EXCEPT ![r] = @ \cup S]
Count(c, S) == [m \in MemberSet |-> IF m \in S THEN c[m] + 1 ELSE c[m]]
Plus(S, m) == S \cup {m}

\* A default event flags one member more, once: the row it inserts is new.
LEMMA OneMoreDefault ==
  ASSUME TypeOK, NEW t, IsTables(t), CircleAddress \in DOMAIN t.circles,
         NEW f \in [Rounds -> SUBSET MemberSet], NEW c \in [MemberSet -> Nat],
         NEW r \in Rounds, NEW S \in SUBSET MemberSet,
         FollowsFlags(t, Flag(f, r, S)), FollowsCounts(t, Count(c, S)),
         NEW m \in MemberSet, m \notin f[r], m \notin S,
         NEW e, e.name = "default", e.circle = CircleAddress, e.member = m,
         e.round = r
  PROVE  /\ ~Rejects(t, e)
         /\ LET u == Handle(t, e)
            IN  /\ IsTables(u) /\ u.circles = t.circles
                /\ u.contributions = t.contributions /\ u.payouts = t.payouts
                /\ u.reputation = t.reputation
                /\ FollowsFlags(u, Flag(f, r, Plus(S, m)))
                /\ FollowsCounts(u, Count(c, Plus(S, m)))
<1> DEFINE u == Handle(t, e)
           k == <<CircleAddress, m>>
           entry == [circle |-> e.circle, member |-> e.member,
                     round |-> e.round, penalty |-> e.amount,
                     ledger |-> e.ledger]
           before == Flag(f, r, S)
           after == Flag(f, r, Plus(S, m))
<1>1. /\ ~Rejects(t, e) /\ IsTables(u) /\ u.circles = t.circles
      /\ u.contributions = t.contributions /\ u.payouts = t.payouts
      /\ u.reputation = t.reputation
      /\ u.defaults = t.defaults (+) SetToBag({entry})
      /\ u.circle_members = CountedIn(t.circle_members, k)
  BY HandleDefault
<1>2. /\ before[r] = f[r] \cup S /\ after[r] = before[r] \cup {m}
      /\ \A q \in Rounds : q # r => after[q] = before[q]
      /\ m \notin before[r]
  BY DEF Flag, Plus
<1>3. entry.member = m /\ entry.round = r
  OBVIOUS
<1> HIDE DEF u, entry, before, after
<1>4. FollowsFlags(t, before) /\ FollowsCounts(t, Count(c, S))
  BY DEF before
<1>5. entry \notin DOMAIN t.defaults
  BY <1>2, <1>3, <1>4 DEF FollowsFlags
<1>6. /\ DOMAIN u.defaults = DOMAIN t.defaults \cup {entry}
      /\ u.defaults[entry] = 1
      /\ \A d \in DOMAIN t.defaults : u.defaults[d] = t.defaults[d]
  <2>1. \A d \in DOMAIN t.defaults : t.defaults[d] = 1
    BY <1>4 DEF FollowsFlags
  <2> QED
    BY <1>1, <1>5, <2>1 DEF (+), SetToBag
<1>7. FollowsFlags(u, after)
  <2>1. ASSUME NEW d \in DOMAIN u.defaults
        PROVE  /\ u.defaults[d] = 1
               /\ d.member \in MemberSet /\ d.round \in Rounds
               /\ d.member \in after[d.round]
    <3>1. CASE d = entry
      BY <1>2, <1>3, <1>6, <3>1
    <3>2. CASE d # entry
      BY <1>2, <1>4, <1>6, <3>2 DEF FollowsFlags
    <3> QED
      BY <3>1, <3>2
  <2>2. ASSUME NEW q \in Rounds, NEW x \in after[q]
        PROVE  \E d \in DOMAIN u.defaults : d.member = x /\ d.round = q
    <3>1. CASE x \in before[q]
      BY <1>4, <1>6, <3>1 DEF FollowsFlags
    <3>2. CASE x \notin before[q]
      <4>1. q = r /\ x = m
        BY <1>2, <2>2, <3>2
      <4> QED
        BY <1>3, <1>6, <4>1
    <3> QED
      BY <3>1, <3>2
  <2>3. ASSUME NEW d \in DOMAIN u.defaults, NEW x \in DOMAIN u.defaults,
               d.member = x.member, d.round = x.round
        PROVE  d = x
    <3>1. \A y \in DOMAIN t.defaults : y.member = m => y.round # r
      BY <1>2, <1>4 DEF FollowsFlags
    <3>2. CASE d = entry \/ x = entry
      BY <1>3, <1>6, <2>3, <3>1, <3>2
    <3>3. CASE d # entry /\ x # entry
      BY <1>4, <1>6, <2>3, <3>3 DEF FollowsFlags
    <3> QED
      BY <3>2, <3>3
  <2> QED
    BY <2>1, <2>2, <2>3 DEF FollowsFlags
<1>8. FollowsCounts(u, Count(c, Plus(S, m)))
  <2> DEFINE Old(x) == t.circle_members[<<CircleAddress, x>>]
             New(x) == u.circle_members[<<CircleAddress, x>>]
  <2>1. /\ DOMAIN t.circle_members = {<<CircleAddress, x>> : x \in MemberSet}
        /\ DOMAIN u.circle_members = DOMAIN t.circle_members
        /\ \A x \in MemberSet : New(x) = IF x = m THEN Counted(Old(x)) ELSE Old(x)
    BY <1>1, <1>4 DEF FollowsCounts, CountedIn
  <2>2. ASSUME NEW x \in MemberSet
        PROVE  /\ Old(x) = [payout_order |-> Old(x).payout_order,
                            join_order |-> Old(x).join_order,
                            collateral |-> IF x \in joined THEN CollateralDue ELSE 0,
                            defaults |-> Count(c, S)[x]]
               /\ \E place \in 1..N : members[place] = x
                                     /\ Old(x).payout_order = place - 1
    BY <1>4 DEF FollowsCounts
  <2>3. ASSUME NEW x \in MemberSet
        PROVE  /\ New(x) = [payout_order |-> Old(x).payout_order,
                            join_order |-> Old(x).join_order,
                            collateral |-> IF x \in joined THEN CollateralDue ELSE 0,
                            defaults |-> Count(c, Plus(S, m))[x]]
    <3> DEFINE order == Old(x).payout_order
               place == Old(x).join_order
               deposit == IF x \in joined THEN CollateralDue ELSE 0
               many == Count(c, S)[x]
    <3>1. Old(x) = [payout_order |-> order, join_order |-> place,
                    collateral |-> deposit, defaults |-> many]
      BY <2>2
    <3>2. Count(c, Plus(S, m))[x] = IF x = m THEN many + 1 ELSE many
      BY DEF Count, Plus
    <3>3. New(x) = IF x = m THEN Counted(Old(x)) ELSE Old(x)
      BY <2>1
    <3> HIDE DEF order, place, deposit, many, Old, New
    <3>4. New(x) = [payout_order |-> order, join_order |-> place,
                    collateral |-> deposit,
                    defaults |-> IF x = m THEN many + 1 ELSE many]
      <4>1. CASE x = m
        BY <3>1, <3>3, <4>1 DEF Counted
      <4>2. CASE x # m
        BY <3>1, <3>3, <4>2
      <4> QED
        BY <4>1, <4>2
    <3> QED
      BY <3>2, <3>4 DEF order, place, deposit
  <2> HIDE DEF Old, New
  <2>4. \A x \in MemberSet : /\ New(x).payout_order = Old(x).payout_order
                             /\ New(x).join_order = Old(x).join_order
    BY <2>3
  <2>5. {New(x).join_order : x \in joined} = {Old(x).join_order : x \in joined}
    BY <2>4 DEF TypeOK
  <2>6. {Old(x).join_order : x \in joined} = 1..Cardinality(joined)
    BY <1>4 DEF FollowsCounts, Old
  <2>7. ASSUME NEW x \in MemberSet
        PROVE  /\ New(x) = [payout_order |-> New(x).payout_order,
                            join_order |-> New(x).join_order,
                            collateral |-> IF x \in joined THEN CollateralDue ELSE 0,
                            defaults |-> Count(c, Plus(S, m))[x]]
               /\ \E place \in 1..N : members[place] = x
                                     /\ New(x).payout_order = place - 1
    <3>1. New(x).payout_order = Old(x).payout_order
      BY <2>4
    <3>2. New(x).join_order = Old(x).join_order
      BY <2>4
    <3>3. \E place \in 1..N : members[place] = x /\ Old(x).payout_order = place - 1
      BY <2>2
    <3> QED
      BY <2>3, <3>1, <3>2, <3>3
  <2> QED
    BY <2>1, <2>5, <2>6, <2>7, Zenon DEF FollowsCounts, New
<1> QED
  BY <1>1, <1>7, <1>8 DEF u, after

\* With nobody more flagged nothing changes.
LEMMA FlagNobody ==
  ASSUME NEW f \in [Rounds -> SUBSET MemberSet], NEW c \in [MemberSet -> Nat],
         NEW r \in Rounds
  PROVE  Flag(f, r, {}) = f /\ Count(c, {}) = c
BY DEF Flag, Count

\* The tables follow the flags the contract sets.
LEMMA NewFlags ==
  ASSUME NEW u, NEW f, NEW c, FollowsFlags(u, f), FollowsCounts(u, c),
         defaulted' = f, defaults' = c, UNCHANGED joined
  PROVE  FollowsDefaults(u)' /\ FollowsMembers(u)'
<1>1. FollowsDefaults(u)'
  BY DEF FollowsDefaults, FollowsFlags
<1>2. FollowsMembers(u)'
  BY DEF FollowsMembers, FollowsCounts
<1> QED
  BY <1>1, <1>2

\* The circle's row goes on following the contract when neither changes.
LEMMA SameRow ==
  ASSUME NEW t, NEW u, FollowsRow(t), u.circles = t.circles, ~closed,
         UNCHANGED <<status, closed, rounds_completed, paused>>
  PROVE  FollowsRow(u)'
BY DEF FollowsRow, RowAfter, RowStatus, Released

\* Penalise is one flag and one count more for every member of S.
LEMMA PenaliseFlags ==
  ASSUME NEW S, Penalise(S)
  PROVE  /\ defaulted' = Flag(defaulted, round.round_index, S)
         /\ defaults' = Count(defaults, S)
BY DEF Penalise, Flag, Count

\* mark_default's event.
LEMMA MarkDefaultFollows ==
  ASSUME IndInv, Ground, NEW a, mark_default(a), NEW t, UpToContract(t)
  PROVE  \E u : /\ Applied(At(t), <<DefaultEvent(a)>>) = At(u)
                /\ UpToContract(u)'
<1> DEFINE r == round.round_index
           e == DefaultEvent(a)
<1>1. /\ status = "Active" /\ ~closed /\ TypeOK
      /\ a \in MemberSet /\ a \notin defaulted[r] /\ r \in Rounds
      /\ defaulted' = Flag(defaulted, r, {a}) /\ defaults' = Count(defaults, {a})
      /\ UNCHANGED <<status, paused, rounds_completed, closed, joined,
                     contributed, awarded>>
  BY PenaliseFlags DEF mark_default, MarkDefaultChecks, Delinquent, repVars, RoundOpen,
                       TypeOK, RoundState, IndInv, Ground
<1>2. FollowsContract(t)
  BY <1>1 DEF UpToContract
<1>3. /\ IsTables(t) /\ FollowsFlags(t, Flag(defaulted, r, {}))
      /\ FollowsCounts(t, Count(defaults, {}))
      /\ defaulted \in [Rounds -> SUBSET MemberSet]
      /\ defaults \in [MemberSet -> Nat]
  BY <1>1, <1>2, FlagNobody DEF FollowsContract, FollowsDefaults,
     FollowsMembers, TypeOK
<1>4. CircleAddress \in DOMAIN t.circles
  BY <1>2 DEF FollowsContract, FollowsRow, Circles
<1>5. /\ e.name = "default" /\ e.circle = CircleAddress /\ e.member = a
      /\ e.round = r
  BY DEF DefaultEvent, Ev
<1> HIDE DEF e, r
<1>6. /\ ~Rejects(t, e)
      /\ LET u == Handle(t, e)
         IN  /\ IsTables(u) /\ u.circles = t.circles
             /\ u.contributions = t.contributions /\ u.payouts = t.payouts
             /\ u.reputation = t.reputation
             /\ FollowsFlags(u, Flag(defaulted, r, Plus({}, a)))
             /\ FollowsCounts(u, Count(defaults, Plus({}, a)))
  <2> DEFINE none == {}
  <2>1. none \in SUBSET MemberSet /\ a \notin none
    OBVIOUS
  <2>2. FollowsFlags(t, Flag(defaulted, r, none))
        /\ FollowsCounts(t, Count(defaults, none))
    BY <1>3
  <2> HIDE DEF none
  <2>3. /\ ~Rejects(t, e)
        /\ LET u == Handle(t, e)
           IN  /\ IsTables(u) /\ u.circles = t.circles
               /\ u.contributions = t.contributions /\ u.payouts = t.payouts
               /\ u.reputation = t.reputation
               /\ FollowsFlags(u, Flag(defaulted, r, Plus(none, a)))
               /\ FollowsCounts(u, Count(defaults, Plus(none, a)))
    BY <1>1, <1>3, <1>4, <1>5, <2>1, <2>2, OneMoreDefault
  <2> QED
    BY <2>3 DEF none
<1>7. Plus({}, a) = {a}
  BY DEF Plus
<1>8. PICK u : u = Handle(t, e) /\ Applied(At(t), <<e>>) = At(u)
  BY <1>5, <1>6, AppliedEvent DEF Projected
<1>9. /\ IsTables(u) /\ u.circles = t.circles
      /\ u.contributions = t.contributions /\ u.payouts = t.payouts
      /\ u.reputation = t.reputation
      /\ FollowsFlags(u, Flag(defaulted, r, {a}))
      /\ FollowsCounts(u, Count(defaults, {a}))
  BY <1>6, <1>7, <1>8
<1>10. FollowsDefaults(u)' /\ FollowsMembers(u)'
  <2>1. PICK f, c : f = Flag(defaulted, r, {a}) /\ c = Count(defaults, {a})
    OBVIOUS
  <2>2. defaulted' = f /\ defaults' = c /\ FollowsFlags(u, f) /\ FollowsCounts(u, c)
    BY <1>1, <1>9, <2>1 DEF r
  <2> QED
    BY <1>1, <2>2, NewFlags
<1>11. FollowsRow(u)'
  BY <1>1, <1>2, <1>9, SameRow DEF FollowsContract
<1>12. FollowsContract(u)'
  BY <1>1, <1>2, <1>9, <1>10, <1>11, Kept DEF FollowsContract, IsTables
<1> QED
  BY <1>1, <1>8, <1>12 DEF UpToContract, e

\* The default events of a list of members, and those of a list of one more.
DefaultEvents(list) == [i \in DOMAIN list |-> DefaultEvent(list[i])]
DefaultEventSet == {DefaultEvent(m) : m \in MemberSet}

\* One member more is one event more.
LEMMA OneMoreEvent ==
  ASSUME NEW list \in Seq(MemberSet)
  PROVE  /\ DefaultEvents(list) \in Seq(DefaultEventSet)
         /\ \A m \in MemberSet :
              DefaultEvents(Append(list, m)) = Append(DefaultEvents(list), DefaultEvent(m))
<1>1. /\ Len(list) \in Nat /\ DOMAIN list = 1..Len(list)
      /\ \A i \in 1..Len(list) : list[i] \in MemberSet
  OBVIOUS
<1>2. DefaultEvents(list) \in Seq(DefaultEventSet)
      /\ Len(DefaultEvents(list)) = Len(list)
  BY <1>1 DEF DefaultEvents, DefaultEventSet
<1>3. ASSUME NEW m \in MemberSet
      PROVE  DefaultEvents(Append(list, m)) = Append(DefaultEvents(list), DefaultEvent(m))
  <2> DEFINE longer == Append(list, m)
             n == Len(list)
  <2>1. /\ longer \in Seq(MemberSet) /\ Len(longer) = n + 1 /\ n \in Nat
        /\ longer[n + 1] = m /\ \A i \in 1..n : longer[i] = list[i]
    OBVIOUS
  <2> DEFINE p == DefaultEvents(longer)
             q == Append(DefaultEvents(list), DefaultEvent(m))
  <2>2. /\ DefaultEvent(m) \in DefaultEventSet
        /\ \A i \in 1..n : DefaultEvents(list)[i] = DefaultEvent(list[i])
    BY <1>1 DEF DefaultEventSet, DefaultEvents
  <2>3. /\ q \in Seq(DefaultEventSet) /\ Len(q) = n + 1
        /\ q[n + 1] = DefaultEvent(m)
        /\ \A i \in 1..n : q[i] = DefaultEvent(list[i])
    BY <1>2, <2>1, <2>2
  <2>4. DOMAIN longer = 1..(n + 1)
    BY <2>1
  <2> HIDE DEF longer
  <2>5. /\ p = [i \in 1..(n + 1) |-> DefaultEvent(longer[i])]
    BY <2>4 DEF DefaultEvents
  <2> HIDE DEF p, q, n
  <2>6. q = [i \in 1..(n + 1) |-> q[i]]
    BY <2>1, <2>3
  <2>7. \A i \in 1..(n + 1) : DefaultEvent(longer[i]) = q[i]
    <3> TAKE i \in 1..(n + 1)
    <3>1. i = n + 1 \/ i \in 1..n
      BY <2>1
    <3> QED
      BY <2>1, <2>3, <3>1
  <2>8. p = q
    BY <2>5, <2>6, <2>7
  <2> QED
    BY <2>8 DEF p, q, longer
<1> QED
  BY <1>2, <1>3

\* Tables u differ from t by one default for each member of S in round r.
Defaulted(t, u, r, S) ==
  /\ IsTables(u) /\ u.circles = t.circles
  /\ u.contributions = t.contributions /\ u.payouts = t.payouts
  /\ u.reputation = t.reputation
  /\ FollowsFlags(u, Flag(defaulted, r, S))
  /\ FollowsCounts(u, Count(defaults, S))

\* One default event more in front of which S are in the tables.
LEMMA DefaultedNext ==
  ASSUME TypeOK, NEW t, CircleAddress \in DOMAIN t.circles,
         NEW S \in SUBSET MemberSet,
         NEW m \in MemberSet, m \notin defaulted[round.round_index], m \notin S,
         NEW u, Defaulted(t, u, round.round_index, S)
  PROVE  \E v : /\ Apply(At(u), DefaultEvent(m)) = At(v)
                /\ Defaulted(t, v, round.round_index, Plus(S, m))
<1> DEFINE r == round.round_index
           e == DefaultEvent(m)
<1>1. /\ e.name = "default" /\ e.circle = CircleAddress /\ e.member = m
      /\ e.round = r /\ e.name \in Projected
  BY DEF DefaultEvent, Ev, Projected
<1>2. /\ defaulted \in [Rounds -> SUBSET MemberSet] /\ r \in Rounds
      /\ defaults \in [MemberSet -> Nat]
  BY DEF TypeOK, RoundState
<1> HIDE DEF e, r
<1>3. /\ IsTables(u) /\ CircleAddress \in DOMAIN u.circles
      /\ FollowsFlags(u, Flag(defaulted, r, S))
      /\ FollowsCounts(u, Count(defaults, S))
  BY DEF Defaulted, r
<1>4. m \notin defaulted[r]
  BY DEF r
<1>5. /\ ~Rejects(u, e)
      /\ LET v == Handle(u, e)
         IN  /\ IsTables(v) /\ v.circles = u.circles
             /\ v.contributions = u.contributions /\ v.payouts = u.payouts
             /\ v.reputation = u.reputation
             /\ FollowsFlags(v, Flag(defaulted, r, Plus(S, m)))
             /\ FollowsCounts(v, Count(defaults, Plus(S, m)))
  BY <1>1, <1>2, <1>3, <1>4, OneMoreDefault
<1>6. PICK v : v = Handle(u, e)
  OBVIOUS
<1>7. Apply(At(u), e) = At(v)
  BY <1>1, <1>5, <1>6, AppliedByHandler
<1>8. Defaulted(t, v, r, Plus(S, m))
  BY <1>5, <1>6 DEF Defaulted
<1> QED
  BY <1>7, <1>8 DEF e, r

\* settle_round's loop: the members of S, in rotation order.
LEMMA DefaultsInRotation ==
  ASSUME TypeOK, NEW t, FollowsContract(t), NEW S \in SUBSET MemberSet,
         \A m \in S : m \notin defaulted[round.round_index]
  PROVE  /\ DefaultEvents(InRotation(S)) \in Seq(DefaultEventSet)
         /\ \E u : /\ Applied(At(t), DefaultEvents(InRotation(S))) = At(u)
                   /\ Defaulted(t, u, round.round_index, S)
<1> DEFINE r == round.round_index
           First(k) == {members[i] : i \in 1..k} \cap S
<1>1. PICK w : IsRotation(w, S, N) /\ InRotation(S) = w[N]
  BY InRotationIs
<1> DEFINE P(k) == /\ w[k] \in Seq(MemberSet)
                   /\ \E u : /\ Applied(At(t), DefaultEvents(w[k])) = At(u)
                             /\ Defaulted(t, u, r, First(k))
           T == {k \in Nat : k <= N => P(k)}
<1>2. CircleAddress \in DOMAIN t.circles /\ r \in Rounds
  BY DEF FollowsContract, FollowsRow, Circles, TypeOK, RoundState
<1>3. P(0)
  <2>1. First(0) = {} /\ w[0] = <<>>
    BY <1>1 DEF IsRotation
  <2>2. DefaultEvents(<<>>) = <<>>
    BY DEF DefaultEvents
  <2>3. Applied(At(t), DefaultEvents(<<>>)) = At(t)
    BY <2>2, AppliedNothing
  <2>4. Flag(defaulted, r, {}) = defaulted /\ Count(defaults, {}) = defaults
    BY <1>2, FlagNobody DEF TypeOK
  <2>5. Defaulted(t, t, r, {})
    <3> DEFINE f == Flag(defaulted, r, {})
               c == Count(defaults, {})
    <3>1. FollowsFlags(t, defaulted) /\ FollowsCounts(t, defaults)
      BY DEF FollowsContract, FollowsDefaults, FollowsMembers
    <3>2. f = defaulted /\ c = defaults
      BY <2>4
    <3> HIDE DEF f, c
    <3>3. FollowsFlags(t, f) /\ FollowsCounts(t, c)
      BY <3>1, <3>2
    <3> QED
      BY <3>3 DEF FollowsContract, Defaulted, f, c
  <2>6. <<>> \in Seq(MemberSet)
    OBVIOUS
  <2> HIDE DEF First, r
  <2>7. \E u : /\ Applied(At(t), DefaultEvents(w[0])) = At(u)
               /\ Defaulted(t, u, r, First(0))
    BY <2>1, <2>3, <2>5
  <2> QED
    BY <2>1, <2>6, <2>7
<1>4. ASSUME NEW k \in Nat, k + 1 <= N, P(k) PROVE P(k + 1)
  <2> DEFINE m == members[k + 1]
  <2>1. k + 1 \in 1..N /\ m \in MemberSet
    BY <1>4, RotationFacts
  <2>2. /\ w[k] \in Seq(MemberSet)
        /\ \E u : /\ Applied(At(t), DefaultEvents(w[k])) = At(u)
                  /\ Defaulted(t, u, r, First(k))
    BY <1>4
  <2>3. PICK u : /\ Applied(At(t), DefaultEvents(w[k])) = At(u)
                 /\ Defaulted(t, u, r, First(k))
    BY <2>2
  <2>4. w[k + 1] = IF m \in S THEN Append(w[k], m) ELSE w[k]
    <3> DEFINE i == k + 1
    <3>1. i \in 1..N /\ i - 1 = k
      BY <2>1
    <3> HIDE DEF i
    <3>2. w[i] = NextInRotation(S, w[i - 1], i)
      BY <1>1, <3>1 DEF IsRotation
    <3> QED
      BY <3>1, <3>2 DEF NextInRotation, i
  <2>5. First(k + 1) = IF m \in S THEN Plus(First(k), m) ELSE First(k)
    <3>1. \A i : i \in 1..(k + 1) <=> i \in 1..k \/ i = k + 1
      BY <2>1
    <3> QED
      BY <3>1 DEF Plus
  <2>6. CASE m \notin S
    <3> HIDE DEF First, r, m
    <3> QED
      BY <2>2, <2>4, <2>5, <2>6
  <2>7. CASE m \in S
    <3>1. m \notin First(k)
      <4>1. \A i \in 1..k : i \in 1..N /\ i # k + 1
        BY <1>4, RotationFacts
      <4>2. \A i \in 1..k : members[i] # m
        BY <2>1, <4>1, ConfigAssumption DEF N
      <4> QED
        BY <4>2
    <3>2. First(k) \in SUBSET MemberSet /\ m \notin defaulted[r]
      BY <2>7
    <3> HIDE DEF First, m
    <3>3. PICK v : /\ Apply(At(u), DefaultEvent(m)) = At(v)
                   /\ Defaulted(t, v, r, Plus(First(k), m))
      BY <1>2, <2>1, <2>3, <3>1, <3>2, DefaultedNext
    <3> DEFINE done == DefaultEvents(w[k])
    <3>4. done \in Seq(DefaultEventSet) /\ DefaultEvent(m) \in DefaultEventSet
          /\ DefaultEvents(w[k + 1]) = Append(done, DefaultEvent(m))
      BY <2>1, <2>2, <2>4, <2>7, OneMoreEvent DEF DefaultEventSet
    <3> HIDE DEF done, r
    <3>5. Applied(At(t), Append(done, DefaultEvent(m)))
            = Apply(Applied(At(t), done), DefaultEvent(m))
      BY <3>4, AppliedAppend
    <3>6. Applied(At(t), done) = At(u)
      BY <2>3 DEF done
    <3>7. Applied(At(t), DefaultEvents(w[k + 1])) = At(v)
      BY <3>3, <3>4, <3>5, <3>6
    <3>8. Append(w[k], m) \in Seq(MemberSet)
      BY <2>1, <2>2
    <3> QED
      BY <2>4, <2>5, <2>7, <3>3, <3>7, <3>8
  <2> QED
    BY <2>6, <2>7
<1> HIDE DEF P
<1>8. 0 \in T /\ \A k \in Nat : k \in T => k + 1 \in T
  <2>1. 0 \in T
    BY <1>3
  <2>2. ASSUME NEW k \in Nat, k \in T PROVE k + 1 \in T
    <3>1. k + 1 <= N => k <= N
      BY RotationFacts
    <3>2. k + 1 <= N => P(k + 1)
      BY <1>4, <2>2, <3>1
    <3> QED
      BY <3>2
  <2> QED
    BY <2>1, <2>2
<1> HIDE DEF T
<1>5. P(N)
  <2>1. N \in T
    BY <1>8, RotationFacts, InductiveSet
  <2> QED
    BY <2>1, RotationFacts DEF T
<1>6. First(N) = S
  BY RotationFacts
<1> HIDE DEF First
<1>7. w[N] \in Seq(MemberSet)
      /\ \E u : /\ Applied(At(t), DefaultEvents(w[N])) = At(u)
                /\ Defaulted(t, u, r, First(N))
  BY <1>5 DEF P
<1> QED
  BY <1>1, <1>6, <1>7, OneMoreEvent

-----------------------------------------------------------------------------
(* Settlements.                                                            *)

\* The row of the round that is settled completes the payouts.
LEMMA NewPayout ==
  ASSUME TypeOK, NEW t, FollowsPayouts(t), NEW entry, NEW u,
         u.payouts = Upsert(t.payouts, <<CircleAddress, rounds_completed>>, entry),
         entry.recipient = members[rounds_completed + 1],
         entry.amount = round_amount * Cardinality(contributed[rounds_completed]),
         entry.defaulted_count = N - Cardinality(contributed[rounds_completed]),
         entry.is_exceptional = (N - Cardinality(contributed[rounds_completed]) > 0),
         rounds_completed' = rounds_completed + 1, UNCHANGED contributed
  PROVE  FollowsPayouts(u)'
<1> DEFINE n == rounds_completed
           Missing(r) == N - Cardinality(contributed[r])
           Pot(r) == round_amount * Cardinality(contributed[r])
<1>1. n \in Nat
  BY DEF TypeOK
<1>2. \A r : r \in 0..((n + 1) - 1) <=> r \in 0..(n - 1) \/ r = n
  BY <1>1
<1>3. /\ DOMAIN t.payouts = {<<CircleAddress, r>> : r \in 0..(n - 1)}
      /\ \A r \in 0..(n - 1) :
           LET p == t.payouts[<<CircleAddress, r>>]
           IN  /\ p.recipient = members[r + 1] /\ p.amount = Pot(r)
               /\ p.is_exceptional = (Missing(r) > 0)
               /\ p.defaulted_count = Missing(r)
  BY DEF FollowsPayouts
<1>4. /\ DOMAIN u.payouts = DOMAIN t.payouts \cup {<<CircleAddress, n>>}
      /\ u.payouts[<<CircleAddress, n>>] = entry
      /\ \A r \in 0..(n - 1) :
           u.payouts[<<CircleAddress, r>>] = t.payouts[<<CircleAddress, r>>]
  <2>1. \A r \in 0..(n - 1) : r # n /\ <<CircleAddress, r>> # <<CircleAddress, n>>
    BY <1>1
  <2>2. \A r \in 0..(n - 1) : <<CircleAddress, r>> \in DOMAIN t.payouts
    BY <1>3
  <2> QED
    BY <2>1, <2>2 DEF Upsert
<1>5. entry.recipient = members[n + 1] /\ entry.defaulted_count = Missing(n)
      /\ entry.amount = Pot(n)
      /\ entry.is_exceptional = (Missing(n) > 0)
  OBVIOUS
<1>6. rounds_completed' = n + 1 /\ \A r : contributed'[r] = contributed[r]
  OBVIOUS
<1>7. \A r : /\ N - Cardinality(contributed'[r]) = Missing(r)
            /\ round_amount * Cardinality(contributed'[r]) = Pot(r)
  BY <1>6
<1> HIDE DEF n, Missing, Pot
<1>8. DOMAIN u.payouts = {<<CircleAddress, r>> : r \in 0..((n + 1) - 1)}
  BY <1>2, <1>3, <1>4
<1>9. \A r \in 0..((n + 1) - 1) :
        LET p == u.payouts[<<CircleAddress, r>>]
        IN  /\ p.recipient = members[r + 1] /\ p.amount = Pot(r)
            /\ p.is_exceptional = (Missing(r) > 0)
            /\ p.defaulted_count = Missing(r)
  BY <1>2, <1>3, <1>4, <1>5
<1>10. DOMAIN u.payouts = {<<CircleAddress, r>> : r \in 0..(rounds_completed' - 1)}
  BY <1>6, <1>8
<1>11. ASSUME NEW r \in 0..(rounds_completed' - 1)
       PROVE  LET p == u.payouts[<<CircleAddress, r>>]
                  missing == N - Cardinality(contributed'[r])
              IN  /\ p.recipient = members[r + 1]
                  /\ p.amount = round_amount * Cardinality(contributed'[r])
                  /\ p.is_exceptional = (missing > 0)
                  /\ p.defaulted_count = missing
  <2>1. PICK missing, pot : /\ missing = Missing(r) /\ pot = Pot(r)
                            /\ missing = N - Cardinality(contributed'[r])
                            /\ pot = round_amount * Cardinality(contributed'[r])
    BY <1>7
  <2>2. LET p == u.payouts[<<CircleAddress, r>>]
        IN  /\ p.recipient = members[r + 1] /\ p.amount = pot
            /\ p.is_exceptional = (missing > 0)
            /\ p.defaulted_count = missing
    BY <1>6, <1>9, <2>1
  <2> QED
    BY <2>1, <2>2
<1> QED
  BY <1>10, <1>11 DEF FollowsPayouts

\* The recipient's score is written as the contract will have it.
LEMMA NewScore ==
  ASSUME TypeOK, NEW m \in MemberSet, award_reputation(m),
         NEW t, FollowsReputation(t), NEW u,
         u.reputation = Upsert(t.reputation, m, awarded[m] + 1)
  PROVE  FollowsReputation(u)'
<1>1. /\ \A x \in MemberSet : awarded'[x] = IF x = m THEN awarded[m] + 1 ELSE awarded[x]
      /\ \A x \in MemberSet : awarded[x] \in Nat
  BY DEF TypeOK, award_reputation
<1>2. /\ DOMAIN u.reputation = DOMAIN t.reputation \cup {m}
      /\ \A x \in DOMAIN u.reputation :
           u.reputation[x] = IF x = m THEN awarded[m] + 1 ELSE t.reputation[x]
  BY DEF Upsert
<1>3. DOMAIN t.reputation = {x \in MemberSet : awarded[x] > 0}
      /\ \A x \in DOMAIN t.reputation : t.reputation[x] = awarded[x]
  BY DEF FollowsReputation
<1>4. DOMAIN u.reputation = {x \in MemberSet : awarded'[x] > 0}
  BY <1>1, <1>2, <1>3
<1>5. \A x \in DOMAIN u.reputation : u.reputation[x] = awarded'[x]
  BY <1>1, <1>2, <1>3
<1> QED
  BY <1>4, <1>5 DEF FollowsReputation

\* What both settlements end with: the score, the payout, which finds its row
\* written or writes it, and the end or the next round.
LEMMA SettledFollows ==
  ASSUME IndInv, Ground, RoundOpen, SettleAndAdvance,
         award_reputation(round.recipient),
         UNCHANGED <<paused, closed, joined, contributed>>, NEW pot,
         pot = round_amount * Cardinality(contributed[round.round_index]),
         NEW t, IsTables(t), FollowsRow(t), FollowsContributions(t),
         FollowsReputation(t), FollowsDefaults(t)', FollowsMembers(t)',
         \/ FollowsPayouts(t)'
         \/ FollowsPayouts(t) /\ Cardinality(contributed[round.round_index]) = N
  PROVE  /\ \E E : SettledEvents(pot) \in Seq(E)
         /\ \E u : /\ Applied(At(t), SettledEvents(pot)) = At(u)
                   /\ UpToContract(u)'
<1> DEFINE r == round.round_index
           to == round.recipient
           score == [name |-> "score_updated", ledger |-> ledger,
                     member |-> to, score |-> awarded[to] + 1]
           pay == Ev("payout", to, r, pot)
           last == IF r + 1 >= N THEN Ev("completed", to, r, 0)
                   ELSE Ev("round_started", members[r + 2], r + 1, 0)
<1>1. SettledEvents(pot) = <<score, pay>> \o <<last>>
  BY DEF SettledEvents
<1>2. /\ status = "Active" /\ ~closed /\ rounds_completed = r /\ TypeOK
      /\ r \in Rounds /\ to \in MemberSet /\ to = members[r + 1] /\ r \in Nat
      /\ r + 1 \in Nat /\ N \in Nat
  BY RotationFacts DEF IndInv, Ground, RoundOpen, RotationProgress, TypeOK, RoundState
<1>3. /\ rounds_completed' = r + 1
      /\ status' = IF r + 1 >= N THEN "Completed" ELSE "Active"
  BY <1>2 DEF SettleAndAdvance
<1>4. /\ score.name = "score_updated" /\ score.member = to
      /\ score.score = awarded[to] + 1
      /\ pay.name = "payout" /\ pay.circle = CircleAddress /\ pay.member = to
      /\ pay.round = r /\ pay.amount = pot
      /\ last.circle = CircleAddress
      /\ r + 1 >= N => last.name = "completed"
      /\ ~(r + 1 >= N) => last.name = "round_started" /\ last.round = r + 1
  BY DEF Ev
<1> HIDE DEF score, pay, last
<1>5. PICK released : RowIn(t) = RowAfter(released) /\ released = Released
  BY RowNow
<1>6. HasRow(t) /\ CircleAddress \in DOMAIN t.circles
  BY RowNow DEF HasRow, Circles
\* The score.
<1>7. PICK u1 : u1 = Handle(t, score)
  OBVIOUS
<1>8. /\ Apply(At(t), score) = At(u1)
      /\ IsTables(u1) /\ u1.circles = t.circles
      /\ u1.circle_members = t.circle_members
      /\ u1.contributions = t.contributions /\ u1.payouts = t.payouts
      /\ u1.defaults = t.defaults
      /\ u1.reputation = Upsert(t.reputation, to, awarded[to] + 1)
  BY <1>4, <1>7, HandleScore, AppliedByHandler DEF Projected
<1>9. FollowsReputation(u1)'
  BY <1>2, <1>8, NewScore
<1>10. HasRow(u1) /\ RowIn(u1) = RowIn(t) /\ pay.circle \in DOMAIN u1.circles
  BY <1>4, <1>6, <1>8 DEF HasRow, RowIn
\* The payout.
<1>11. PICK u2 : u2 = Handle(u1, pay)
  OBVIOUS
<1> DEFINE entry == [recipient |-> pay.member, amount |-> pay.amount,
                    ledger |-> pay.ledger, is_exceptional |-> FALSE,
                    defaulted_count |-> 0]
<1>12. /\ Apply(At(u1), pay) = At(u2)
       /\ IsTables(u2) /\ u2.circle_members = u1.circle_members
       /\ u2.contributions = u1.contributions
       /\ u2.defaults = u1.defaults /\ u2.reputation = u1.reputation
       /\ u2.circles = Circles(WithRound(RowIn(u1), pay.round + 1))
       /\ u2.payouts = InsertOrIgnore(u1.payouts, <<pay.circle, pay.round>>, entry)
  <2>1. ~Rejects(u1, pay)
    BY <1>4, <1>8, <1>10, HandlePayout
  <2>2. Apply(At(u1), pay) = At(u2)
    BY <1>4, <1>11, <2>1, AppliedByHandler DEF Projected
  <2> QED
    BY <1>4, <1>8, <1>10, <1>11, <2>2, HandlePayout
<1>13. FollowsPayouts(u2)'
  <2>1. entry.recipient = to /\ entry.is_exceptional = FALSE
        /\ entry.defaulted_count = 0 /\ entry.amount = pot
    BY <1>4
  <2> HIDE DEF entry
  <2>2. u2.payouts = InsertOrIgnore(t.payouts, <<CircleAddress, r>>, entry)
    BY <1>4, <1>8, <1>12
  <2>3. CASE FollowsPayouts(t)'
    <3>1. <<CircleAddress, r>> \in DOMAIN t.payouts
      BY <1>2, <1>3, <2>3 DEF FollowsPayouts
    <3>2. u2.payouts = t.payouts
      BY <2>2, <3>1 DEF InsertOrIgnore
    <3> QED
      BY <2>3, <3>2 DEF FollowsPayouts
  <2>4. CASE FollowsPayouts(t) /\ Cardinality(contributed[r]) = N
    <3>1. <<CircleAddress, r>> \notin DOMAIN t.payouts
      BY <1>2, <2>4 DEF FollowsPayouts
    <3>2. u2.payouts = Upsert(t.payouts, <<CircleAddress, r>>, entry)
      BY <2>2, <3>1 DEF InsertOrIgnore
    <3>3. N - Cardinality(contributed[rounds_completed]) = 0
      BY <1>2, <2>4
    <3>4. /\ entry.recipient = members[rounds_completed + 1]
          /\ entry.amount = round_amount * Cardinality(contributed[rounds_completed])
          /\ entry.defaulted_count = N - Cardinality(contributed[rounds_completed])
          /\ entry.is_exceptional =
               (N - Cardinality(contributed[rounds_completed]) > 0)
      <4>1. /\ entry.recipient = members[rounds_completed + 1]
            /\ entry.amount = round_amount * Cardinality(contributed[rounds_completed])
        BY <1>2, <2>1
      <4>2. entry.defaulted_count = N - Cardinality(contributed[rounds_completed])
        BY <2>1, <3>3
      <4>3. PICK missing : missing = N - Cardinality(contributed[rounds_completed])
        OBVIOUS
      <4>4. missing = 0 /\ (missing > 0) = FALSE
        BY <3>3, <4>3
      <4>5. entry.is_exceptional = (missing > 0)
        BY <2>1, <4>4
      <4>6. entry.is_exceptional =
              (N - Cardinality(contributed[rounds_completed]) > 0)
        BY <4>3, <4>5
      <4> QED
        BY <4>1, <4>2, <4>6
    <3>5. u2.payouts = Upsert(t.payouts, <<CircleAddress, rounds_completed>>, entry)
      BY <1>2, <3>2
    <3> QED
      BY <1>2, <1>3, <2>4, <3>4, <3>5, NewPayout
  <2> QED
    BY <2>3, <2>4
<1> HIDE DEF entry
\* The end, or the next round.
<1>14. HasRow(u2) /\ RowIn(u2) = WithRound(RowIn(t), r + 1)
       /\ last.circle \in DOMAIN u2.circles
  BY <1>4, <1>10, <1>12 DEF HasRow, RowIn, Circles
<1>15. PICK u : u = Handle(u2, last)
  OBVIOUS
<1>16. PICK row : row = IF r + 1 >= N THEN WithStatus(RowIn(u2), "Completed")
                        ELSE WithRound(RowIn(u2), r + 1)
  OBVIOUS
<1>17. /\ Apply(At(u2), last) = At(u) /\ IsTables(u)
       /\ u.circle_members = u2.circle_members
       /\ u.contributions = u2.contributions /\ u.payouts = u2.payouts
       /\ u.defaults = u2.defaults /\ u.reputation = u2.reputation
       /\ u.circles = Circles(row)
  <2>1. last.name \in {"active", "completed", "paused", "resumed", "round_started"}
    BY <1>4
  <2>2. ~Rejects(u2, last)
    BY <1>4, <1>12, <1>14, <2>1, HandleRow
  <2>3. Apply(At(u2), last) = At(u)
    BY <1>15, <2>1, <2>2, AppliedByHandler DEF Projected
  <2>4. /\ IsTables(u)
        /\ u.circle_members = u2.circle_members
        /\ u.contributions = u2.contributions /\ u.payouts = u2.payouts
        /\ u.defaults = u2.defaults /\ u.reputation = u2.reputation
    BY <1>4, <1>12, <1>14, <1>15, <2>1, HandleRow
  <2>5. CASE r + 1 >= N
    <3>1. last.name = "completed" /\ row = WithStatus(RowIn(u2), "Completed")
      BY <1>4, <1>16, <2>5
    <3>2. u.circles = Circles(WithStatus(RowIn(u2), "Completed"))
      BY <1>4, <1>12, <1>14, <1>15, <2>1, <3>1, HandleRow
    <3> QED
      BY <2>3, <2>4, <3>1, <3>2
  <2>6. CASE ~(r + 1 >= N)
    <3>1. last.name = "round_started" /\ row = WithRound(RowIn(u2), last.round)
      BY <1>4, <1>16, <2>6
    <3>2. u.circles = Circles(WithRound(RowIn(u2), last.round))
      BY <1>4, <1>12, <1>14, <1>15, <2>1, <3>1, HandleRow
    <3> QED
      BY <2>3, <2>4, <3>1, <3>2
  <2> QED
    BY <2>5, <2>6
<1>18. row = RowAfter(released)'
  <2>0. PICK n, x, y : n = r + 1 /\ x = RowIn(t) /\ y = RowIn(u2)
    OBVIOUS
  <2>1. x = [creator |-> Creator, round_amount |-> round_amount,
               member_count |-> N, status |-> "Active",
               current_round |-> rounds_completed, paused |-> paused,
               total_released |-> released, close_reason |-> ""]
    BY <1>2, <1>5, <2>0 DEF RowAfter, RowStatus
  <2>2. y = [creator |-> Creator, round_amount |-> round_amount,
               member_count |-> N, status |-> "Active",
               current_round |-> n, paused |-> paused,
               total_released |-> released, close_reason |-> ""]
    <3>1. y = WithRound(x, n)
      BY <1>14, <2>0
    <3> QED
      BY <2>1, <3>1 DEF WithRound
  <2> DEFINE s == IF r + 1 >= N THEN "Completed" ELSE "Active"
  <2>3. row = [creator |-> Creator, round_amount |-> round_amount,
               member_count |-> N, status |-> s,
               current_round |-> n, paused |-> paused,
               total_released |-> released, close_reason |-> ""]
    <3>1. CASE r + 1 >= N
      <4>1. row = WithStatus(y, "Completed") /\ s = "Completed"
        BY <1>16, <2>0, <3>1
      <4> HIDE DEF s
      <4> QED
        BY <2>2, <4>1 DEF WithStatus
    <3>2. CASE ~(r + 1 >= N)
      <4>1. row = WithRound(y, n) /\ s = "Active"
        BY <1>16, <2>0, <3>2
      <4> HIDE DEF s
      <4> QED
        BY <2>2, <4>1 DEF WithRound
    <3> QED
      BY <3>1, <3>2
  <2>4. RowStatus' = s /\ ~closed'
    BY <1>2, <1>3 DEF RowStatus
  <2> HIDE DEF s
  <2> QED
    BY <1>3, <2>0, <2>3, <2>4 DEF RowAfter
<1>28. released = Released'
  BY <1>2, <1>5 DEF Released
<1>19. FollowsRow(u)'
  BY <1>17, <1>18, <1>28, NewRow
<1>20. /\ u.circle_members = t.circle_members /\ u.defaults = t.defaults
       /\ u.contributions = t.contributions
       /\ u.payouts = u2.payouts /\ u.reputation = u1.reputation
  BY <1>8, <1>12, <1>17
<1>21. FollowsDefaults(u)' /\ FollowsMembers(u)' /\ FollowsContributions(u)'
  BY <1>20 DEF FollowsDefaults, FollowsFlags, FollowsMembers, FollowsCounts,
     FollowsContributions
<1>22. FollowsPayouts(u)' /\ FollowsReputation(u)'
  BY <1>9, <1>13, <1>20 DEF FollowsPayouts, FollowsReputation
<1>23. FollowsContract(u)'
  BY <1>17, <1>19, <1>21, <1>22 DEF FollowsContract, IsTables
<1>24. status' # "Uninitialized"
  BY <1>3
<1>25. UpToContract(u)'
  BY <1>23, <1>24 DEF UpToContract
<1>26. Applied(At(t), <<score, pay>> \o <<last>>) = At(u)
  <2> DEFINE p == <<score, pay>>
             q == <<last>>
  <2>1. p \in Seq({score, pay, last}) /\ q \in Seq({score, pay, last})
    OBVIOUS
  <2>2. Applied(At(t), p) = At(u2)
    BY <1>8, <1>12, AppliedTwo
  <2>3. Applied(At(u2), q) = At(u)
    BY <1>17, AppliedOne
  <2> HIDE DEF p, q
  <2>4. Applied(At(t), p \o q) = Applied(Applied(At(t), p), q)
    BY <2>1, AppliedThen
  <2> QED
    BY <2>2, <2>3, <2>4 DEF p, q
<1>27. <<score, pay>> \o <<last>> \in Seq({score, pay, last})
  OBVIOUS
<1> QED
  BY <1>1, <1>25, <1>26, <1>27

\* payout's events: everybody has contributed and nobody is flagged.
LEMMA PayoutFollows ==
  ASSUME IndInv, Ground, payout, NEW t, UpToContract(t)
  PROVE  \E u : /\ Applied(At(t), SettledEvents(round_amount * N)) = At(u)
                /\ UpToContract(u)'
<1>1. /\ RoundOpen /\ SettleAndAdvance /\ award_reputation(round.recipient)
      /\ Cardinality(contributed[round.round_index]) = N
      /\ UNCHANGED <<paused, closed, joined, contributed, defaulted, defaults>>
  BY DEF payout, PayoutChecks
<1>2. FollowsContract(t)
  BY <1>1 DEF UpToContract, RoundOpen
<1>3. FollowsDefaults(t)' /\ FollowsMembers(t)'
  BY <1>1, <1>2, Kept DEF FollowsContract
<1>4. PICK pot : pot = round_amount * N
  OBVIOUS
<1>5. pot = round_amount * Cardinality(contributed[round.round_index])
  BY <1>1, <1>4
<1> QED
  BY <1>1, <1>2, <1>3, <1>4, <1>5, SettledFollows DEF FollowsContract

\* settle_round's events: the defaults, the marker, and what payout publishes.
LEMMA SettleRoundFollows ==
  ASSUME IndInv, Ground, settle_round, NEW t, UpToContract(t)
  PROVE  \E u : /\ Applied(At(t), ExceptionalEvents \o SettledEvents(SettlementPot))
                     = At(u)
                /\ UpToContract(u)'
<1> DEFINE r == round.round_index
           paid == contributed[r]
           defs == DefaultEvents(InRotation(Delinquent))
           marker == [name |-> "exceptional_settlement", circle |-> CircleAddress,
                      ledger |-> ledger, member |-> round.recipient,
                      round |-> r, amount |-> SettlementPot,
                      defaulted_count |-> N - Cardinality(paid)]
           settled == SettledEvents(SettlementPot)
<1>1. /\ RoundOpen /\ SettleAndAdvance /\ award_reputation(round.recipient)
      /\ defaulted' = Flag(defaulted, r, Delinquent)
      /\ defaults' = Count(defaults, Delinquent)
      /\ round.contributions_received # N
      /\ UNCHANGED <<paused, closed, joined, contributed>>
  BY PenaliseFlags DEF settle_round
<1>2. /\ FollowsContract(t) /\ TypeOK /\ r \in Rounds /\ rounds_completed = r
      /\ round.recipient = members[r + 1] /\ rounds_completed' = r + 1
  BY <1>1 DEF UpToContract, RoundOpen, IndInv, RotationProgress, TypeOK,
     RoundState, SettleAndAdvance
<1>3. ExceptionalEvents = defs \o <<marker>>
  BY DEF ExceptionalEvents, DefaultEvents
<1>4. Delinquent \in SUBSET MemberSet /\ \A m \in Delinquent : m \notin defaulted[r]
  BY DEF Delinquent
<1>5. /\ marker.name = "exceptional_settlement" /\ marker.circle = CircleAddress
      /\ marker.member = round.recipient /\ marker.round = r
      /\ marker.defaulted_count = N - Cardinality(paid)
      /\ marker.amount = round_amount * Cardinality(paid)
  BY DEF SettlementPot
<1> HIDE DEF defs, marker, settled
<1>6. PICK u1 : Applied(At(t), defs) = At(u1) /\ Defaulted(t, u1, r, Delinquent)
  BY <1>2, <1>4, DefaultsInRotation DEF defs
<1>7. defs \in Seq(DefaultEventSet)
  BY <1>2, <1>4, DefaultsInRotation DEF defs
\* The marker writes the payout's row.
<1>8. /\ IsTables(u1) /\ u1.circles = t.circles
      /\ u1.contributions = t.contributions /\ u1.payouts = t.payouts
      /\ u1.reputation = t.reputation
  BY <1>6 DEF Defaulted
<1>9. FollowsDefaults(u1)' /\ FollowsMembers(u1)'
  <2>1. PICK f, c : f = Flag(defaulted, r, Delinquent) /\ c = Count(defaults, Delinquent)
    OBVIOUS
  <2>2. defaulted' = f /\ defaults' = c /\ FollowsFlags(u1, f) /\ FollowsCounts(u1, c)
    BY <1>1, <1>6, <2>1 DEF Defaulted
  <2> QED
    BY <1>1, <2>2, NewFlags
<1>10. /\ marker.circle \in DOMAIN u1.circles
       /\ <<marker.circle, marker.round>> \notin DOMAIN u1.payouts
  <2>1. CircleAddress \in DOMAIN t.circles
    BY <1>2 DEF FollowsContract, FollowsRow, Circles
  <2>2. <<CircleAddress, r>> \notin DOMAIN t.payouts
    <3>1. DOMAIN t.payouts = {<<CircleAddress, q>> : q \in 0..(r - 1)}
      BY <1>2 DEF FollowsContract, FollowsPayouts
    <3>2. r \in Nat
      BY <1>2, RotationFacts
    <3> QED
      BY <3>1, <3>2
  <2> QED
    BY <1>5, <1>8, <2>1, <2>2
<1>11. PICK u2 : u2 = Handle(u1, marker)
  OBVIOUS
<1> DEFINE entry == [recipient |-> marker.member, amount |-> marker.amount,
                    ledger |-> marker.ledger, is_exceptional |-> TRUE,
                    defaulted_count |-> marker.defaulted_count]
<1>12. /\ Apply(At(u1), marker) = At(u2)
       /\ IsTables(u2) /\ u2.circles = t.circles
       /\ u2.circle_members = u1.circle_members
       /\ u2.contributions = t.contributions
       /\ u2.defaults = u1.defaults /\ u2.reputation = t.reputation
       /\ u2.payouts = Upsert(t.payouts, <<marker.circle, marker.round>>, entry)
  <2>1. ~Rejects(u1, marker)
    BY <1>5, <1>8, <1>10, HandleExceptional
  <2>2. Apply(At(u1), marker) = At(u2)
    BY <1>5, <1>11, <2>1, AppliedByHandler DEF Projected
  <2> QED
    BY <1>5, <1>8, <1>10, <1>11, <2>2, HandleExceptional
<1>13. FollowsPayouts(u2)'
  <2>1. PICK missing : missing = N - Cardinality(contributed[rounds_completed])
    OBVIOUS
  <2>2. entry.recipient = round.recipient /\ entry.is_exceptional = TRUE
        /\ entry.defaulted_count = missing
        /\ entry.amount = round_amount * Cardinality(contributed[rounds_completed])
    BY <1>2, <1>5, <2>1
  <2> HIDE DEF entry
  <2>3. missing > 0
    <3>1. IsFiniteSet(MemberSet) /\ Cardinality(MemberSet) = N
          /\ contributed[r] \subseteq MemberSet
      BY <1>2, MembersFinite DEF TypeOK
    <3>2. Cardinality(contributed[r]) <= N /\ Cardinality(contributed[r]) \in Nat
      <4>1. IsFiniteSet(contributed[r])
        BY <3>1, FS_Subset
      <4> QED
        BY <3>1, <4>1, FS_Subset, FS_CardinalityType
    <3>3. Cardinality(contributed[r]) # N
      BY <1>1 DEF IndInv, TallyMatchesRecords
    <3>4. N \in Nat
      BY RotationFacts
    <3> QED
      BY <1>2, <2>1, <3>2, <3>3, <3>4
  <2>4. entry.is_exceptional =
          (N - Cardinality(contributed[rounds_completed]) > 0)
    <3>1. (missing > 0) = TRUE
      BY <2>3
    <3>2. entry.is_exceptional = (missing > 0)
      BY <2>2, <3>1
    <3> QED
      BY <2>1, <3>2
  <2>5. /\ entry.recipient = members[rounds_completed + 1]
        /\ entry.amount = round_amount * Cardinality(contributed[rounds_completed])
        /\ entry.defaulted_count = N - Cardinality(contributed[rounds_completed])
    BY <1>2, <2>1, <2>2
  <2>6. u2.payouts = Upsert(t.payouts, <<CircleAddress, rounds_completed>>, entry)
    BY <1>2, <1>5, <1>12
  <2> QED
    BY <1>1, <1>2, <2>4, <2>5, <2>6, NewPayout DEF FollowsContract
<1>14. FollowsDefaults(u2)' /\ FollowsMembers(u2)'
  BY <1>9, <1>12 DEF FollowsDefaults, FollowsFlags, FollowsMembers, FollowsCounts
<1>15. FollowsRow(u2) /\ FollowsContributions(u2) /\ FollowsReputation(u2)
  BY <1>2, <1>12 DEF FollowsContract, FollowsRow, FollowsContributions,
     FollowsReputation
<1>16. /\ \E E : settled \in Seq(E)
       /\ \E u : Applied(At(u2), settled) = At(u) /\ UpToContract(u)'
  <2>1. PICK pot : pot = SettlementPot
    OBVIOUS
  <2>2. pot = round_amount * Cardinality(contributed[round.round_index])
    BY <2>1 DEF SettlementPot
  <2> QED
    BY <1>1, <1>12, <1>13, <1>14, <1>15, <2>1, <2>2, SettledFollows DEF settled
<1>17. PICK u : Applied(At(u2), settled) = At(u) /\ UpToContract(u)'
  BY <1>16
<1>18. Applied(At(t), ExceptionalEvents \o settled) = At(u)
  <2>1. PICK E : settled \in Seq(E)
    BY <1>16
  <2> DEFINE All == E \cup DefaultEventSet \cup {marker}
             one == <<marker>>
  <2>2. settled \in Seq(All) /\ defs \in Seq(All) /\ one \in Seq(All)
    BY <1>7, <2>1
  <2>3. defs \o one \in Seq(All)
    BY <2>2
  <2>4. Applied(At(u1), one) = At(u2)
    BY <1>12, AppliedOne
  <2> HIDE DEF All, one
  <2>5. Applied(At(t), defs \o one) = At(u2)
    BY <1>6, <2>2, <2>4, AppliedThen
  <2> DEFINE first == defs \o one
  <2>6. first \in Seq(All) /\ Applied(At(t), first) = At(u2)
    BY <2>3, <2>5
  <2>7. ExceptionalEvents = first
    BY <1>3 DEF one
  <2> HIDE DEF first
  <2>8. Applied(At(t), first \o settled) = At(u)
    BY <1>17, <2>2, <2>6, AppliedThen
  <2> QED
    BY <2>7, <2>8
<1> QED
  BY <1>17, <1>18 DEF settled

-----------------------------------------------------------------------------
(* The beginning and the end.                                              *)

\* A loop over the members makes a list of those it is about.
LEMMA InRotationType ==
  ASSUME NEW S, NEW M, \A m \in MemberSet : m \in S => m \in M
  PROVE  InRotation(S) \in Seq(M)
<1>1. PICK w : IsRotation(w, S, N) /\ InRotation(S) = w[N]
  BY InRotationIs
<1> DEFINE T == {k \in Nat : k <= N => w[k] \in Seq(M)}
<1>2. 0 \in T
  <2>1. w[0] = <<>> /\ <<>> \in Seq(M)
    BY <1>1 DEF IsRotation
  <2> QED
    BY <2>1
<1>3. ASSUME NEW k \in Nat, k \in T PROVE k + 1 \in T
  <2> SUFFICES ASSUME k + 1 <= N PROVE w[k + 1] \in Seq(M)
    OBVIOUS
  <2> DEFINE i == k + 1
  <2>1. i \in 1..N /\ i - 1 = k /\ members[i] \in MemberSet /\ k <= N
    BY RotationFacts
  <2> HIDE DEF i
  <2>2. w[i] = NextInRotation(S, w[i - 1], i)
    BY <1>1, <2>1 DEF IsRotation
  <2>3. w[k] \in Seq(M)
    BY <1>3, <2>1
  <2>4. w[i] \in Seq(M)
    <3>1. CASE members[i] \in S
      <4>1. members[i] \in M
        BY <2>1, <3>1
      <4> QED
        BY <2>1, <2>2, <2>3, <3>1, <4>1 DEF NextInRotation
    <3>2. CASE members[i] \notin S
      BY <2>1, <2>2, <2>3, <3>2 DEF NextInRotation
    <3> QED
      BY <3>1, <3>2
  <2> QED
    BY <2>4 DEF i
<1> HIDE DEF T
<1>4. N \in T
  BY <1>2, <1>3, RotationFacts, InductiveSet
<1> QED
  BY <1>1, <1>4, RotationFacts DEF T

\* Events without a handler, however many, change nothing.
LEMMA AppliedAllIgnored ==
  ASSUME NEW E, \A e \in E : e.name \in Ignored, NEW base, NEW events \in Seq(E)
  PROVE  Applied(base, events) = base
<1> DEFINE upto(k) == SubSeq(events, 1, k)
           T == {k \in Nat : k <= Len(events) => Applied(base, upto(k)) = base}
<1>1. 0 \in T
  <2>1. upto(0) = <<>>
    OBVIOUS
  <2> HIDE DEF upto
  <2>2. Applied(base, upto(0)) = base
    BY <2>1, AppliedNothing
  <2> QED
    BY <2>2
<1>2. ASSUME NEW k \in Nat, k \in T PROVE k + 1 \in T
  <2> SUFFICES ASSUME k + 1 <= Len(events) PROVE Applied(base, upto(k + 1)) = base
    OBVIOUS
  <2> DEFINE e == events[k + 1]
  <2>1. /\ upto(k) \in Seq(E) /\ e \in E /\ upto(k + 1) = Append(upto(k), e)
    OBVIOUS
  <2>2. Applied(base, upto(k)) = base
    BY <1>2
  <2> HIDE DEF upto, e
  <2>3. Applied(base, Append(upto(k), e)) = Apply(Applied(base, upto(k)), e)
    BY <2>1, AppliedAppend
  <2> QED
    BY <2>1, <2>2, <2>3, AppliedIgnored
<1>3. upto(Len(events)) = events /\ Len(events) \in Nat
  OBVIOUS
<1> HIDE DEF T, upto
<1>4. Len(events) \in T
  BY <1>1, <1>2, <1>3, InductiveSet
<1> QED
  BY <1>3, <1>4 DEF T

\* close's events: the releases are ignored, the last one ends the circle.
LEMMA CloseFollows ==
  ASSUME IndInv, Ground, NEW a, close(a), NEW t, UpToContract(t)
  PROVE  \E u : /\ Applied(At(t), ClosedEvents(a)) = At(u)
                /\ UpToContract(u)'
<1> DEFINE list == InRotation({m \in MemberSet : collateral[m] > 0})
           Release(m) == Ev("collateral_released", m, 0, collateral[m])
           releases == [i \in DOMAIN list |-> Release(list[i])]
           E == {Release(m) : m \in MemberSet}
           e == [name |-> "closed", circle |-> CircleAddress, ledger |-> ledger,
                 member |-> a, amount |-> Total(collateral),
                 reason |-> IF status = "Completed" THEN "completed"
                                                    ELSE "cancelled"]
<1>1. /\ status \in {"Completed", "Cancelled"} /\ ~closed /\ closed'
      /\ UNCHANGED <<status, paused, rounds_completed, joined, contributed,
                     defaulted, defaults, forfeited, awarded>>
  BY DEF close, CloseChecks, repVars
<1>2. FollowsContract(t)
  BY <1>1 DEF UpToContract
<1>3. ClosedEvents(a) = releases \o <<e>>
  BY DEF ClosedEvents
<1>4. releases \in Seq(E)
  <2>1. list \in Seq(MemberSet)
    BY InRotationType
  <2> HIDE DEF list, Release
  <2>2. DOMAIN list = 1..Len(list) /\ Len(list) \in Nat
        /\ \A i \in DOMAIN list : Release(list[i]) \in E
    BY <2>1
  <2> HIDE DEF E
  <2> QED
    BY <2>2
<1>5. \A x \in E : x.name \in Ignored
  BY DEF Ev, Ignored
<1> HIDE DEF releases, E
<1>6. Applied(At(t), releases) = At(t)
  BY <1>4, <1>5, AppliedAllIgnored
<1>7. /\ e.name = "closed" /\ e.circle = CircleAddress
      /\ e.amount = Total(collateral)
      /\ e.reason = IF status = "Completed" THEN "completed" ELSE "cancelled"
  OBVIOUS
<1> HIDE DEF e
<1>8. PICK row, released :
        row = RowIn(t) /\ row = RowAfter(released) /\ released = Released
  BY <1>2, RowNow DEF FollowsContract
<1>9. HasRow(t) /\ IsTables(t) /\ e.circle \in DOMAIN t.circles
  BY <1>2, <1>7, RowNow DEF FollowsContract, HasRow, Circles
<1>10. e.name \in {"cancelled", "closed"}
  BY <1>7
<1>11. ~Rejects(t, e) /\ e.name \in Projected
  <2>1. ~Rejects(t, e)
    BY <1>7, <1>9, <1>10, HandleEnd
  <2> QED
    BY <1>7, <2>1 DEF Projected
<1>12. PICK u : u = Handle(t, e) /\ Applied(At(t), <<e>>) = At(u)
  BY <1>11, AppliedEvent
<1>13. PICK new, amount, reason : /\ new = WithRelease(row, amount, reason)
                                  /\ amount = e.amount /\ reason = e.reason
  OBVIOUS
<1>14. /\ IsTables(u) /\ u.circles = Circles(new)
       /\ u.circle_members = t.circle_members
       /\ u.contributions = t.contributions /\ u.payouts = t.payouts
       /\ u.defaults = t.defaults /\ u.reputation = t.reputation
  <2>1. new = WithRelease(RowIn(t), e.amount, e.reason)
    BY <1>8, <1>13
  <2> QED
    BY <1>7, <1>9, <1>10, <1>12, <2>1, HandleEnd
<1>15. new = RowAfter(amount)'
  <2>1. row = [creator |-> Creator, round_amount |-> round_amount,
               member_count |-> N, status |-> status,
               current_round |-> rounds_completed, paused |-> paused,
               total_released |-> released, close_reason |-> ""]
    BY <1>1, <1>8 DEF RowAfter, RowStatus
  <2>2. new = [creator |-> Creator, round_amount |-> round_amount,
               member_count |-> N, status |-> "Closed",
               current_round |-> rounds_completed, paused |-> paused,
               total_released |-> amount, close_reason |-> reason]
    BY <1>13, <2>1 DEF WithRelease
  <2>3. RowStatus' = "Closed"
        /\ reason = IF ~closed' THEN "" ELSE IF status' = "Completed"
                      THEN "completed" ELSE "cancelled"
    BY <1>1, <1>7, <1>13 DEF RowStatus
  <2> QED
    BY <1>1, <2>2, <2>3 DEF RowAfter
<1>21. amount = Released'
  <2>1. Total(collateral) \in Nat /\ forfeited \in Nat
    BY TotalType DEF IndInv, TypeOK
  <2>2. Total(collateral) + forfeited = CollateralDue * Cardinality(joined)
    BY <1>1 DEF Ground, DepositsKept
  <2>3. Released' = CollateralDue * Cardinality(joined) - forfeited
    BY <1>1 DEF Released
  <2> QED
    BY <1>7, <1>13, <2>1, <2>2, <2>3
<1>16. FollowsRow(u)'
  BY <1>14, <1>15, <1>21, NewRow
<1>17. FollowsContract(u)'
  BY <1>1, <1>2, <1>14, <1>16, Kept DEF FollowsContract, IsTables
<1>18. Applied(At(t), releases \o <<e>>) = At(u)
  <2> DEFINE All == E \cup {e}
             one == <<e>>
  <2>1. releases \in Seq(All) /\ one \in Seq(All)
    BY <1>4
  <2>2. Applied(At(t), one) = At(u)
    BY <1>12
  <2> HIDE DEF All, one
  <2>3. Applied(At(t), releases \o one) = At(u)
    BY <1>6, <2>1, <2>2, AppliedThen
  <2> QED
    BY <2>3 DEF one
<1>19. UpToContract(u)'
  BY <1>1, <1>17 DEF UpToContract
<1>20. Applied(At(t), ClosedEvents(a)) = At(u)
  BY <1>3, <1>18
<1> QED
  BY <1>19, <1>20

\* A join fills in the row of its member, and the last one starts the circle.
LEMMA JoinFollows ==
  ASSUME IndInv, Ground, NEW a, join(a), NEW t, UpToContract(t)
  PROVE  \E u : /\ Applied(At(t), JoinedEvents(a)) = At(u)
                /\ UpToContract(u)'
<1> DEFINE all == joined \cup {a}
           place == Cardinality(all)
           active == Ev("active", a, 0, 0)
           e == [name |-> "joined", circle |-> CircleAddress, ledger |-> ledger,
                 member |-> a, join_order |-> place, amount |-> CollateralDue]
           k == <<CircleAddress, a>>
<1>1. /\ status = "Pending" /\ ~closed /\ TypeOK
      /\ a \in MemberSet /\ a \notin joined /\ joined' = all
      /\ status' = IF all = MemberSet THEN "Active" ELSE "Pending"
      /\ UNCHANGED <<paused, rounds_completed, closed, contributed, defaulted,
                     defaults, awarded>>
  BY DEF join, JoinChecks, repVars, Ground, IndInv
<1>2. FollowsContract(t)
  BY <1>1 DEF UpToContract
<1>3. /\ active.name = "active" /\ active.circle = CircleAddress
      /\ e.name = "joined" /\ e.circle = CircleAddress /\ e.member = a
      /\ e.join_order = place /\ e.amount = CollateralDue
  BY DEF Ev
<1>4. JoinedEvents(a) = (IF all = MemberSet THEN <<active>> ELSE <<>>) \o <<e>>
  BY DEF JoinedEvents
<1>5. /\ place = Cardinality(joined) + 1 /\ Cardinality(joined) \in Nat
      /\ all \subseteq MemberSet
  <2>1. IsFiniteSet(joined)
    BY <1>1, MembersFinite, FS_Subset DEF TypeOK
  <2> QED
    BY <1>1, <2>1, FS_AddElement, FS_CardinalityType DEF TypeOK
<1> HIDE DEF all, place, active, e
<1>6. PICK row, released :
        row = RowIn(t) /\ row = RowAfter(released) /\ released = Released
  BY <1>2, RowNow DEF FollowsContract
<1>7. HasRow(t) /\ t.circles = Circles(row) /\ IsTables(t)
      /\ CircleAddress \in DOMAIN t.circles
  BY <1>2, <1>6, RowNow DEF FollowsContract, HasRow, Circles
\* The last join first makes the circle Active.
<1>8. PICK new : new = IF all = MemberSet THEN WithStatus(row, "Active") ELSE row
  OBVIOUS
<1>9. PICK s : /\ Applied(At(t), IF all = MemberSet THEN <<active>> ELSE <<>>) = At(s)
               /\ IsTables(s) /\ s.circles = Circles(new)
               /\ s.circle_members = t.circle_members
               /\ s.contributions = t.contributions /\ s.payouts = t.payouts
               /\ s.defaults = t.defaults /\ s.reputation = t.reputation
  <2>1. CASE all = MemberSet
    <3>1. ~Rejects(t, active) /\ active.name \in Projected
      <4>1. active.name \in {"active", "completed", "paused", "resumed", "round_started"}
            /\ active.circle \in DOMAIN t.circles
        BY <1>3, <1>7
      <4>2. ~Rejects(t, active)
        BY <1>3, <1>7, <4>1, HandleRow
      <4> QED
        BY <1>3, <4>2 DEF Projected
    <3>2. PICK s : s = Handle(t, active) /\ Applied(At(t), <<active>>) = At(s)
      BY <3>1, AppliedEvent
    <3>3. new = WithStatus(RowIn(t), "Active")
      BY <1>6, <1>8, <2>1
    <3>4. active.name \in {"active", "completed", "paused", "resumed", "round_started"}
          /\ active.circle \in DOMAIN t.circles
      BY <1>3, <1>7
    <3>5. /\ IsTables(s) /\ s.circles = Circles(new)
          /\ s.circle_members = t.circle_members
          /\ s.contributions = t.contributions /\ s.payouts = t.payouts
          /\ s.defaults = t.defaults /\ s.reputation = t.reputation
      BY <1>3, <1>7, <3>2, <3>3, <3>4, HandleRow
    <3> QED
      BY <2>1, <3>2, <3>5
  <2>2. CASE all # MemberSet
    <3>1. Applied(At(t), <<>>) = At(t) /\ new = row
      BY <1>8, <2>2, AppliedNothing
    <3> QED
      BY <1>7, <2>2, <3>1
  <2> QED
    BY <2>1, <2>2
\* Then the member's row.
<1>10. k \in DOMAIN s.circle_members /\ k = <<e.circle, e.member>>
  BY <1>1, <1>2, <1>3, <1>9 DEF FollowsContract, FollowsMembers, FollowsCounts
<1>11. ~Rejects(s, e) /\ e.name \in Projected
  <2>1. ~Rejects(s, e)
    BY <1>3, <1>9, <1>10, HandleJoined
  <2> QED
    BY <1>3, <2>1 DEF Projected
<1>12. PICK u : u = Handle(s, e) /\ Applied(At(s), <<e>>) = At(u)
  BY <1>11, AppliedEvent
<1>13. /\ IsTables(u) /\ u.circles = s.circles
       /\ u.contributions = s.contributions /\ u.payouts = s.payouts
       /\ u.defaults = s.defaults /\ u.reputation = s.reputation
       /\ u.circle_members = Seated(s.circle_members, <<e.circle, e.member>>,
                                    e.join_order, e.amount)
  BY <1>3, <1>9, <1>10, <1>12, HandleJoined
<1>14. new = RowAfter(released)'
  <2>1. row = [creator |-> Creator, round_amount |-> round_amount,
               member_count |-> N, status |-> "Pending",
               current_round |-> rounds_completed, paused |-> paused,
               total_released |-> released, close_reason |-> ""]
    BY <1>1, <1>6 DEF RowAfter, RowStatus
  <2> DEFINE now == IF all = MemberSet THEN "Active" ELSE "Pending"
  <2>2. new = [creator |-> Creator, round_amount |-> round_amount,
               member_count |-> N, status |-> now,
               current_round |-> rounds_completed, paused |-> paused,
               total_released |-> released, close_reason |-> ""]
    <3>1. CASE all = MemberSet
      <4>1. new = WithStatus(row, "Active") /\ now = "Active"
        BY <1>8, <3>1
      <4> HIDE DEF now
      <4> QED
        BY <2>1, <4>1 DEF WithStatus
    <3>2. CASE all # MemberSet
      BY <1>8, <2>1, <3>2
    <3> QED
      BY <3>1, <3>2
  <2>3. RowStatus' = now /\ ~closed'
    BY <1>1 DEF RowStatus
  <2> HIDE DEF now
  <2> QED
    BY <1>1, <2>2, <2>3 DEF RowAfter
<1>15. FollowsRow(u)'
  <2>1. u.circles = Circles(new)
    BY <1>9, <1>13
  <2>2. released = Released'
    BY <1>1, <1>6 DEF Released
  <2> QED
    BY <1>14, <2>1, <2>2, NewRow
<1>16. FollowsMembers(u)'
  <2> DEFINE Old(m) == t.circle_members[<<CircleAddress, m>>]
             New(m) == u.circle_members[<<CircleAddress, m>>]
             Deposit2(m) == IF m \in joined' THEN CollateralDue ELSE 0
  <2>1. /\ DOMAIN t.circle_members = {<<CircleAddress, m>> : m \in MemberSet}
        /\ \A m \in MemberSet :
             /\ Old(m) = [payout_order |-> Old(m).payout_order,
                          join_order |-> Old(m).join_order,
                          collateral |-> IF m \in joined THEN CollateralDue ELSE 0,
                          defaults |-> defaults[m]]
             /\ \E i \in 1..N : members[i] = m /\ Old(m).payout_order = i - 1
        /\ {Old(m).join_order : m \in joined} = 1..Cardinality(joined)
    BY <1>2 DEF FollowsContract, FollowsMembers, FollowsCounts
  <2>2. u.circle_members = Seated(t.circle_members, k, place, CollateralDue)
    BY <1>3, <1>9, <1>10, <1>13
  <2>3. DOMAIN u.circle_members = DOMAIN t.circle_members
    BY <2>2 DEF Seated
  <2>4. ASSUME NEW m \in MemberSet
        PROVE  New(m) = [payout_order |-> Old(m).payout_order,
                         join_order |-> IF m = a THEN place ELSE Old(m).join_order,
                         collateral |-> Deposit2(m),
                         defaults |-> defaults'[m]]
    <3>1. <<CircleAddress, m>> \in DOMAIN t.circle_members
      BY <2>1
    <3>2. defaults'[m] = defaults[m]
      BY <1>1
    <3>3. PICK old, order, seat, count :
            /\ old = Old(m) /\ order = old.payout_order /\ seat = old.join_order
            /\ count = defaults[m]
      OBVIOUS
    <3>4. CASE m = a
      <4>1. New(m) = [old EXCEPT !.join_order = place, !.collateral = CollateralDue]
        BY <2>2, <3>1, <3>3, <3>4 DEF Seated
      <4>2. old = [payout_order |-> order, join_order |-> seat, collateral |-> 0,
                   defaults |-> count]
        BY <1>1, <2>1, <3>3, <3>4
      <4>3. Deposit2(m) = CollateralDue
        BY <1>1, <3>4 DEF all
      <4> HIDE DEF Old, New, Deposit2
      <4>4. New(m) = [payout_order |-> order, join_order |-> place,
                      collateral |-> CollateralDue, defaults |-> count]
        BY <4>1, <4>2
      <4> QED
        BY <3>2, <3>3, <3>4, <4>3, <4>4
    <3>5. CASE m # a
      <4>1. New(m) = Old(m)
        BY <2>2, <3>1, <3>5 DEF Seated
      <4>2. Deposit2(m) = IF m \in joined THEN CollateralDue ELSE 0
        BY <1>1, <3>5 DEF all
      <4>3. Old(m) = [payout_order |-> Old(m).payout_order,
                      join_order |-> Old(m).join_order,
                      collateral |-> IF m \in joined THEN CollateralDue ELSE 0,
                      defaults |-> defaults[m]]
        BY <2>1
      <4> HIDE DEF Old, New, Deposit2
      <4> QED
        BY <3>2, <3>5, <4>1, <4>2, <4>3
    <3> QED
      BY <3>4, <3>5
  <2> HIDE DEF Old, New, Deposit2
  <2>5. \A m \in MemberSet : /\ New(m).payout_order = Old(m).payout_order
                             /\ New(m).join_order = IF m = a THEN place
                                                    ELSE Old(m).join_order
    BY <2>4
  <2>6. {New(m).join_order : m \in all} = 1..Cardinality(all)
    <3>1. \A m \in joined : m \in MemberSet /\ m # a
      BY <1>1 DEF TypeOK
    <3>2. {New(m).join_order : m \in joined} = {Old(m).join_order : m \in joined}
      BY <2>5, <3>1
    <3>3. New(a).join_order = place
      BY <1>1, <2>5
    <3>4. {New(m).join_order : m \in all} = {New(m).join_order : m \in joined} \cup {place}
      BY <3>3 DEF all
    <3>5. {Old(m).join_order : m \in joined} = 1..Cardinality(joined)
      BY <2>1
    <3>6. 1..place = (1..Cardinality(joined)) \cup {place}
      BY <1>5
    <3> QED
      BY <3>2, <3>4, <3>5, <3>6 DEF place
  <2>7. ASSUME NEW m \in MemberSet
        PROVE  /\ New(m) = [payout_order |-> New(m).payout_order,
                            join_order |-> New(m).join_order,
                            collateral |-> Deposit2(m),
                            defaults |-> defaults'[m]]
               /\ \E i \in 1..N : members[i] = m /\ New(m).payout_order = i - 1
    <3>1. New(m).payout_order = Old(m).payout_order
      BY <2>5
    <3>2. New(m).join_order = IF m = a THEN place ELSE Old(m).join_order
      BY <2>5
    <3>3. \E i \in 1..N : members[i] = m /\ Old(m).payout_order = i - 1
      BY <2>1
    <3> QED
      BY <2>4, <3>1, <3>2, <3>3
  <2>8. {New(m).join_order : m \in joined'} = 1..Cardinality(joined')
    BY <1>1, <2>6
  <2>9. DOMAIN u.circle_members = {<<CircleAddress, m>> : m \in MemberSet}
    BY <2>1, <2>3
  <2> QED
    BY <2>7, <2>8, <2>9 DEF FollowsMembers, FollowsCounts, New, Deposit2
<1>17. FollowsContract(u)'
  <2>1. /\ u.contributions = t.contributions /\ u.payouts = t.payouts
        /\ u.defaults = t.defaults /\ u.reputation = t.reputation
    BY <1>9, <1>13
  <2> QED
    BY <1>1, <1>2, <1>13, <1>15, <1>16, <2>1, Kept DEF FollowsContract, IsTables
<1>18. Applied(At(t), JoinedEvents(a)) = At(u)
  <2> DEFINE first == IF all = MemberSet THEN <<active>> ELSE <<>>
             one == <<e>>
             All == {active, e}
  <2>1. first \in Seq(All) /\ one \in Seq(All)
    <3>1. <<active>> \in Seq(All) /\ <<e>> \in Seq(All)
      <4>1. active \in All /\ e \in All
        OBVIOUS
      <4> HIDE DEF All
      <4> QED
        BY <4>1
    <3>2. <<>> \in Seq(All)
      OBVIOUS
    <3> HIDE DEF All
    <3>3. first = <<active>> \/ first = <<>>
      OBVIOUS
    <3> HIDE DEF first
    <3> QED
      BY <3>1, <3>2, <3>3
  <2>2. Applied(At(t), first) = At(s) /\ Applied(At(s), one) = At(u)
    BY <1>9, <1>12
  <2>3. JoinedEvents(a) = first \o one
    BY <1>4
  <2> HIDE DEF first, one, All
  <2>4. Applied(At(t), first \o one) = At(u)
    BY <2>1, <2>2, AppliedThen
  <2> QED
    BY <2>3, <2>4
<1>19. UpToContract(u)'
  BY <1>1, <1>17 DEF UpToContract
<1> QED
  BY <1>18, <1>19

-----------------------------------------------------------------------------
(* The first two events.                                                   *)

\* Two tables at once, and the creator in a row that has none.
Nobody == ""
WithRows(t, circles, rows) == [t EXCEPT !.circles = circles, !.circle_members = rows]
CreatedBy(row, who) == [row EXCEPT !.creator = who]

\* The other tables stay as they are.
LEMMA RowsSet ==
  ASSUME NEW t, IsTables(t), NEW a, NEW b, NEW u, u = WithRows(t, a, b)
  PROVE  /\ IsTables(u) /\ u.circles = a /\ u.circle_members = b
         /\ u.contributions = t.contributions /\ u.payouts = t.payouts
         /\ u.defaults = t.defaults /\ u.reputation = t.reputation
<1>1. PICK c, m, k, p, d, l, r :
        t = [circles |-> c, circle_members |-> m, contributions |-> k,
             payouts |-> p, defaults |-> d, circle_audit_events |-> l,
             reputation |-> r]
  BY DEF IsTables
<1>2. u = [circles |-> a, circle_members |-> b, contributions |-> k,
           payouts |-> p, defaults |-> d, circle_audit_events |-> l,
           reputation |-> r]
  BY <1>1 DEF WithRows
<1> QED
  BY <1>1, <1>2 DEF IsTables

\* The other columns stay as they are.
LEMMA CreatorSet ==
  ASSUME NEW a, NEW b, NEW c, NEW who
  PROVE  CreatedBy(NewCircle(a, b, c), who) = NewCircle(who, b, c)
<1>1. PICK d, e, f, g, h : /\ d = "Pending" /\ e = 0 /\ f = FALSE /\ g = 0 /\ h = ""
  OBVIOUS
<1>2. PICK row : row = NewCircle(a, b, c)
  OBVIOUS
<1>3. row = [creator |-> a, round_amount |-> b, member_count |-> c,
             status |-> d, current_round |-> e, paused |-> f,
             total_released |-> g, close_reason |-> h]
  BY <1>1, <1>2 DEF NewCircle
<1>4. CreatedBy(row, who)
        = [creator |-> who, round_amount |-> b, member_count |-> c,
           status |-> d, current_round |-> e, paused |-> f,
           total_released |-> g, close_reason |-> h]
  BY <1>3 DEF CreatedBy
<1>5. NewCircle(who, b, c)
        = [creator |-> who, round_amount |-> b, member_count |-> c,
           status |-> d, current_round |-> e, paused |-> f,
           total_released |-> g, close_reason |-> h]
  BY <1>1 DEF NewCircle
<1> QED
  BY <1>2, <1>4, <1>5

\* The row of the circle without its creator, and one row per member.
LEMMA HandleInitialized ==
  ASSUME NEW e, e.name = "initialized", e.circle = CircleAddress,
         e.members = members, e.round_amount = round_amount
  PROVE  /\ ~Rejects(EmptyTables, e)
         /\ LET u == Handle(EmptyTables, e)
            IN  /\ IsTables(u)
                /\ u.circles = Circles(NewCircle(Nobody, round_amount, N))
                /\ u.contributions = <<>> /\ u.payouts = <<>>
                /\ u.defaults = EmptyBag /\ u.reputation = <<>>
                /\ DOMAIN u.circle_members = {<<CircleAddress, m>> : m \in MemberSet}
                /\ \A m \in MemberSet : \E i \in 1..N :
                     /\ members[i] = m
                     /\ u.circle_members[<<CircleAddress, m>>] =
                          [payout_order |-> i - 1, join_order |-> 0,
                           collateral |-> 0, defaults |-> 0]
<1> DEFINE Keys == {<<e.circle, m>> : m \in Range(e.members)}
           Place(k) == CHOOSE i \in DOMAIN e.members : e.members[i] = k[2]
           slot == [k \in Keys |-> [payout_order |-> Place(k) - 1, join_order |-> 0,
                                    collateral |-> 0, defaults |-> 0]]
           rows == [k \in {} \cup Keys |-> slot[k]]
           row == NewCircle("", e.round_amount, Len(e.members))
           new == Upsert(<<>>, e.circle, row)
           u == [EmptyTables EXCEPT !.circles = new, !.circle_members = rows]
<1>1. Keys = {<<CircleAddress, m>> : m \in MemberSet}
  <2>1. DOMAIN members = 1..N
    BY ConfigAssumption DEF N
  <2>2. Range(members) = MemberSet
    BY <2>1 DEF Range, MemberSet
  <2> QED
    BY <2>2
<1>2. new = Circles(NewCircle(Nobody, round_amount, N))
  <2>1. DOMAIN <<>> \cup {e.circle} = {CircleAddress}
    OBVIOUS
  <2>2. row = NewCircle(Nobody, round_amount, N)
    BY DEF N, Nobody
  <2> HIDE DEF row
  <2> QED
    BY <2>1, <2>2 DEF Upsert, Circles
<1>3. e.circle \notin DOMAIN EmptyTables.circles /\ DOMAIN EmptyTables.circle_members = {}
      /\ EmptyTables.circles = <<>>
  BY DEF EmptyTables
<1>4. Handle(EmptyTables, e) = u
  <2>1. Handle(EmptyTables, e) = handleCircleInitialized(EmptyTables, e)
    BY DEF Handle
  <2>2. [k \in DOMAIN EmptyTables.circle_members \cup DOMAIN slot |->
           IF k \in DOMAIN EmptyTables.circle_members
             THEN EmptyTables.circle_members[k] ELSE slot[k]] = rows
    <3>1. DOMAIN slot = Keys
      OBVIOUS
    <3> HIDE DEF slot, Keys
    <3> QED
      BY <1>3, <3>1
  <2> QED
    BY <1>3, <2>1, <2>2 DEF handleCircleInitialized
<1>5. ~Rejects(EmptyTables, e)
  BY DEF Rejects, NeedsCircleRow
<1>6. /\ IsTables(u) /\ u.circles = new /\ u.circle_members = rows
      /\ u.contributions = <<>> /\ u.payouts = <<>>
      /\ u.defaults = EmptyBag /\ u.reputation = <<>>
  <2>1. IsTables(EmptyTables)
    BY DEF IsTables, EmptyTables
  <2>2. /\ EmptyTables.contributions = <<>> /\ EmptyTables.payouts = <<>>
        /\ EmptyTables.defaults = EmptyBag /\ EmptyTables.reputation = <<>>
    BY DEF EmptyTables
  <2> HIDE DEF new, rows
  <2>3. u = WithRows(EmptyTables, new, rows)
    BY DEF WithRows
  <2> HIDE DEF u
  <2> QED
    BY <2>1, <2>2, <2>3, RowsSet
<1>7. DOMAIN rows = {<<CircleAddress, m>> : m \in MemberSet}
  BY <1>1
<1>8. ASSUME NEW m \in MemberSet
      PROVE  \E i \in 1..N :
               /\ members[i] = m
               /\ rows[<<CircleAddress, m>>] =
                    [payout_order |-> i - 1, join_order |-> 0,
                     collateral |-> 0, defaults |-> 0]
  <2> DEFINE k == <<CircleAddress, m>>
  <2>1. k \in Keys /\ k[2] = m
    BY <1>1
  <2>2. \E i \in DOMAIN e.members : e.members[i] = m
    BY ConfigAssumption DEF MemberSet, N
  <2>3. Place(k) \in 1..N /\ members[Place(k)] = m
    <3>1. DOMAIN e.members = 1..N
      BY ConfigAssumption DEF N
    <3> QED
      BY <2>1, <2>2, <3>1
  <2>4. rows[k] = slot[k]
    BY <2>1
  <2>5. slot[k] = [payout_order |-> Place(k) - 1, join_order |-> 0,
                   collateral |-> 0, defaults |-> 0]
    BY <2>1
  <2> HIDE DEF Place, slot, rows
  <2> QED
    BY <2>3, <2>4, <2>5
<1> HIDE DEF u, new, rows
<1> QED
  BY <1>2, <1>4, <1>5, <1>6, <1>7, <1>8

\* A new table of circles leaves the others as they are.
LEMMA WithCircles ==
  ASSUME NEW t, IsTables(t), NEW new
  PROVE  LET u == [t EXCEPT !.circles = new]
         IN  /\ IsTables(u) /\ u.circles = new
             /\ u.circle_members = t.circle_members
             /\ u.contributions = t.contributions /\ u.payouts = t.payouts
             /\ u.defaults = t.defaults /\ u.reputation = t.reputation
BY DEF IsTables

\* The factory's event fills in the creator.
LEMMA HandleCreated ==
  ASSUME NEW t, IsTables(t),
         t.circles = Circles(NewCircle(Nobody, round_amount, N)),
         NEW e, e.name = "circle_created", e.circle = CircleAddress,
         e.creator = Creator
  PROVE  /\ ~Rejects(t, e)
         /\ LET u == Handle(t, e)
            IN  /\ IsTables(u)
                /\ u.circles = Circles(NewCircle(Creator, round_amount, N))
                /\ u.circle_members = t.circle_members
                /\ u.contributions = t.contributions /\ u.payouts = t.payouts
                /\ u.defaults = t.defaults /\ u.reputation = t.reputation
<1>1. Handle(t, e) = handleFactoryCircleCreated(t, e)
  BY DEF Handle
<1>2. ~Rejects(t, e)
  BY DEF Rejects, NeedsCircleRow
<1> DEFINE new == [t.circles EXCEPT ![e.circle].creator = e.creator]
           u == [t EXCEPT !.circles = new]
<1>7. PICK row : row = NewCircle(Nobody, round_amount, N)
  OBVIOUS
<1>8. t.circles = [a \in {CircleAddress} |-> row]
  BY <1>7 DEF Circles
<1>3. /\ e.circle \in DOMAIN t.circles /\ t.circles[e.circle] = row
      /\ row.creator = ""
  BY <1>7, <1>8 DEF NewCircle, Nobody
<1>4. Handle(t, e) = u
  BY <1>1, <1>3 DEF handleFactoryCircleCreated
<1>5. new = Circles(NewCircle(Creator, round_amount, N))
  <2>1. CreatedBy(row, Creator) = NewCircle(Creator, round_amount, N)
    BY <1>7, CreatorSet
  <2>2. new = [a \in {CircleAddress} |-> CreatedBy(row, Creator)]
    BY <1>8 DEF CreatedBy
  <2> QED
    BY <2>1, <2>2 DEF Circles
<1> HIDE DEF new
<1>6. /\ IsTables(u) /\ u.circles = new /\ u.circle_members = t.circle_members
      /\ u.contributions = t.contributions /\ u.payouts = t.payouts
      /\ u.defaults = t.defaults /\ u.reputation = t.reputation
  BY WithCircles
<1> HIDE DEF u
<1> QED
  BY <1>2, <1>4, <1>5, <1>6

\* The circle is created: the rows of the circle and its members.
LEMMA InitializeFollows ==
  ASSUME IndInv, Ground, initialize, NEW t, UpToContract(t)
  PROVE  \E u : Applied(At(t), InitializedEvents) = At(u) /\ UpToContract(u)'
<1>1. /\ status = "Uninitialized" /\ status' = "Pending" /\ t = EmptyTables
      /\ rounds_completed' = 0 /\ ~paused' /\ ~closed' /\ joined' = {}
      /\ defaults' = [m \in MemberSet |-> 0]
      /\ UNCHANGED <<contributed, defaulted, awarded>>
  BY DEF initialize, Ground, UpToContract, repVars
<1>2. \A r \in Rounds : contributed'[r] = {} /\ defaulted'[r] = {}
  BY <1>1, NoRecordsYet
<1>3. \A m \in MemberSet : awarded'[m] = 0
  <2>1. ASSUME NEW i \in 1..N PROVE awarded[members[i]] = 0
    BY <1>1 DEF IndInv, RotationProgress
  <2> QED
    BY <1>1, <2>1 DEF MemberSet
<1> DEFINE d == [name |-> "initialized", circle |-> CircleAddress,
                 ledger |-> ledger, members |-> members,
                 round_amount |-> round_amount]
           e == [name |-> "circle_created", circle |-> CircleAddress,
                 ledger |-> ledger, creator |-> Creator]
<1>4. InitializedEvents = <<d, e>>
  BY DEF InitializedEvents
<1>5. /\ d.name = "initialized" /\ d.circle = CircleAddress
      /\ d.members = members /\ d.round_amount = round_amount
      /\ e.name = "circle_created" /\ e.circle = CircleAddress
      /\ e.creator = Creator
  OBVIOUS
<1> HIDE DEF d, e
<1>6. PICK s : s = Handle(EmptyTables, d)
  OBVIOUS
<1>7. /\ ~Rejects(EmptyTables, d) /\ IsTables(s)
      /\ s.circles = Circles(NewCircle(Nobody, round_amount, N))
      /\ s.contributions = <<>> /\ s.payouts = <<>>
      /\ s.defaults = EmptyBag /\ s.reputation = <<>>
      /\ DOMAIN s.circle_members = {<<CircleAddress, m>> : m \in MemberSet}
      /\ \A m \in MemberSet : \E i \in 1..N :
           /\ members[i] = m
           /\ s.circle_members[<<CircleAddress, m>>] =
                [payout_order |-> i - 1, join_order |-> 0,
                 collateral |-> 0, defaults |-> 0]
  <2>1. LET x == Handle(EmptyTables, d) IN
            /\ ~Rejects(EmptyTables, d) /\ IsTables(x)
            /\ x.circles = Circles(NewCircle(Nobody, round_amount, N))
            /\ x.contributions = <<>> /\ x.payouts = <<>>
            /\ x.defaults = EmptyBag /\ x.reputation = <<>>
            /\ DOMAIN x.circle_members = {<<CircleAddress, m>> : m \in MemberSet}
            /\ \A m \in MemberSet : \E i \in 1..N :
                 /\ members[i] = m
                 /\ x.circle_members[<<CircleAddress, m>>] =
                      [payout_order |-> i - 1, join_order |-> 0,
                       collateral |-> 0, defaults |-> 0]
    BY <1>5, HandleInitialized, Zenon
  <2> QED
    BY <1>6, <2>1, Zenon
<1>8. PICK u : u = Handle(s, e)
  OBVIOUS
<1>9. /\ ~Rejects(s, e) /\ IsTables(u)
      /\ u.circles = Circles(NewCircle(Creator, round_amount, N))
      /\ u.circle_members = s.circle_members
      /\ u.contributions = s.contributions /\ u.payouts = s.payouts
      /\ u.defaults = s.defaults /\ u.reputation = s.reputation
  <2>1. IsTables(s) /\ s.circles = Circles(NewCircle(Nobody, round_amount, N))
    BY <1>7
  <2> QED
    BY <1>5, <1>8, <2>1, HandleCreated
<1>10. Applied(At(t), InitializedEvents) = At(u)
  <2>3. d.name \in Projected /\ e.name \in Projected
    BY <1>5 DEF Projected
  <2>1. Apply(At(EmptyTables), d) = At(s)
    BY <1>6, <1>7, <2>3, AppliedByHandler
  <2>2. Apply(At(s), e) = At(u)
    BY <1>8, <1>9, <2>3, AppliedByHandler
  <2> QED
    BY <1>1, <1>4, <2>1, <2>2, AppliedTwo
<1>11. FollowsRow(u)'
  <2>1. PICK empty, no : empty = "" /\ no = FALSE
    OBVIOUS
  <2>2. RowStatus' = "Pending" /\ paused' = no
    <3>1. paused' = paused /\ paused \in BOOLEAN
      BY DEF initialize, IndInv, TypeOK
    <3> QED
      BY <1>1, <2>1, <3>1 DEF RowStatus
  <2>3. PICK now : now = RowStatus'
    OBVIOUS
  <2>4. RowAfter(0)' = [creator |-> Creator, round_amount |-> round_amount,
                        member_count |-> N, status |-> now,
                        current_round |-> 0, paused |-> no,
                        total_released |-> 0, close_reason |-> empty]
    BY <1>1, <2>1, <2>2, <2>3 DEF RowAfter
  <2>5. NewCircle(Creator, round_amount, N)
          = [creator |-> Creator, round_amount |-> round_amount,
             member_count |-> N, status |-> now,
             current_round |-> 0, paused |-> no,
             total_released |-> 0, close_reason |-> empty]
    BY <2>1, <2>2, <2>3 DEF NewCircle
  <2>6. NewCircle(Creator, round_amount, N) = RowAfter(0)'
    BY <2>4, <2>5
  <2>7. 0 = Released'
    BY <1>1 DEF Released
  <2> QED
    BY <1>9, <2>6, <2>7, NewRow
<1>12. FollowsMembers(u)'
  <2>1. {u.circle_members[<<CircleAddress, m>>].join_order : m \in joined'}
          = 1..Cardinality(joined')
    <3>1. Cardinality(joined') = 0
      BY <1>1, FS_EmptySet
    <3>2. 1..0 = {}
      OBVIOUS
    <3> QED
      BY <1>1, <3>1, <3>2
  <2>2. ASSUME NEW m \in MemberSet
        PROVE  LET row == u.circle_members[<<CircleAddress, m>>]
               IN  /\ row = [payout_order |-> row.payout_order,
                             join_order |-> row.join_order,
                             collateral |-> IF m \in joined' THEN CollateralDue ELSE 0,
                             defaults |-> defaults'[m]]
                   /\ \E place \in 1..N : members[place] = m
                                          /\ row.payout_order = place - 1
    <3>1. PICK row : row = u.circle_members[<<CircleAddress, m>>]
      OBVIOUS
    <3>2. PICK i \in 1..N :
            /\ members[i] = m
            /\ row = [payout_order |-> i - 1, join_order |-> 0,
                      collateral |-> 0, defaults |-> 0]
      BY <1>7, <1>9, <3>1
    <3>3. (IF m \in joined' THEN CollateralDue ELSE 0) = 0 /\ defaults'[m] = 0
      BY <1>1
    <3>4. row.payout_order = i - 1 /\ row.join_order = 0
      BY <3>2
    <3>5. row = [payout_order |-> row.payout_order, join_order |-> row.join_order,
                 collateral |-> IF m \in joined' THEN CollateralDue ELSE 0,
                 defaults |-> defaults'[m]]
      BY <3>2, <3>3, <3>4
    <3> QED
      BY <3>1, <3>2, <3>4, <3>5
  <2>3. DOMAIN u.circle_members = {<<CircleAddress, m>> : m \in MemberSet}
    BY <1>7, <1>9
  <2> QED
    BY <2>1, <2>2, <2>3 DEF FollowsMembers, FollowsCounts
<1>13. /\ DOMAIN u.contributions = {} /\ DOMAIN u.payouts = {}
       /\ DOMAIN u.defaults = {} /\ DOMAIN u.reputation = {}
  <2>1. DOMAIN <<>> = {} /\ DOMAIN EmptyBag = {}
    BY DEF EmptyBag, SetToBag
  <2> QED
    BY <1>7, <1>9, <2>1
<1>14. FollowsContributions(u)' /\ FollowsDefaults(u)'
  BY <1>2, <1>13 DEF FollowsContributions, FollowsDefaults, FollowsFlags
<1>15. FollowsPayouts(u)' /\ FollowsReputation(u)'
  <2>1. 0..(0 - 1) = {}
    OBVIOUS
  <2> QED
    BY <1>1, <1>3, <1>13, <2>1 DEF FollowsPayouts, FollowsReputation
<1>16. UpToContract(u)'
  BY <1>1, <1>9, <1>11, <1>12, <1>14, <1>15
  DEF UpToContract, FollowsContract, IsTables
<1> QED
  BY <1>10, <1>16

-----------------------------------------------------------------------------
(* The composition.                                                        *)

\* Whatever the contract or the indexer does next.
LEMMA InvocationKeeps ==
  ASSUME IndInv, Ground, EventInv, Invocation,
         \A u : UpToContract(u)' => Sound(u),
         \A t, u : UpToContract(t) /\ UpToContract(u)' => Moved(t, u)
  PROVE  EventInv'
<1>1. CASE initialize /\ Publish(InitializedEvents)
  <2>1. \A t : UpToContract(t) =>
          \E u : Applied(At(t), InitializedEvents) = At(u) /\ UpToContract(u)'
    BY <1>1, InitializeFollows
  <2> QED
    BY <1>1, <2>1, PublishKeeps
<1>2. ASSUME NEW a \in Address, join(a), Publish(JoinedEvents(a)) PROVE EventInv'
  <2>1. \A t : UpToContract(t) =>
          \E u : Applied(At(t), JoinedEvents(a)) = At(u) /\ UpToContract(u)'
    BY <1>2, JoinFollows
  <2> QED
    BY <1>2, <2>1, PublishKeeps
<1>3. ASSUME NEW a \in Address, cancel(a), Publish(<<Ev("cancelled", a, 0, 0)>>)
      PROVE  EventInv'
  <2> DEFINE events == <<Ev("cancelled", a, 0, 0)>>
  <2>1. \A t : UpToContract(t) =>
          \E u : Applied(At(t), events) = At(u) /\ UpToContract(u)'
    BY <1>3, CancelFollows
  <2>2. Publish(events)
    BY <1>3
  <2> HIDE DEF events
  <2> QED
    BY <2>1, <2>2, PublishKeeps
<1>4. ASSUME NEW a \in Address, contribute(a),
             Publish(<<Ev("contributed", a, round.round_index, round_amount)>>)
      PROVE  EventInv'
  <2>0. PICK events :
          events = <<Ev("contributed", a, round.round_index, round_amount)>>
    OBVIOUS
  <2>1. \A t : UpToContract(t) =>
          \E u : Applied(At(t), events) = At(u) /\ UpToContract(u)'
    BY <1>4, <2>0, ContributeFollows
  <2> QED
    BY <1>4, <2>0, <2>1, PublishKeeps
<1>5. ASSUME NEW a \in Address, mark_default(a), Publish(<<DefaultEvent(a)>>)
      PROVE  EventInv'
  <2>0. PICK events : events = <<DefaultEvent(a)>>
    OBVIOUS
  <2>1. \A t : UpToContract(t) =>
          \E u : Applied(At(t), events) = At(u) /\ UpToContract(u)'
    BY <1>5, <2>0, MarkDefaultFollows
  <2> QED
    BY <1>5, <2>0, <2>1, PublishKeeps
<1>6. ASSUME NEW a \in Address, close(a), Publish(ClosedEvents(a)) PROVE EventInv'
  <2>1. \A t : UpToContract(t) =>
          \E u : Applied(At(t), ClosedEvents(a)) = At(u) /\ UpToContract(u)'
    BY <1>6, CloseFollows
  <2> QED
    BY <1>6, <2>1, PublishKeeps
<1>7. ASSUME NEW a \in Address, NEW name,
             \/ name = "paused" /\ pause(a)
             \/ name = "resumed" /\ resume(a),
             Publish(<<Ev(name, a, 0, 0)>>)
      PROVE  EventInv'
  <2> DEFINE events == <<Ev(name, a, 0, 0)>>
  <2>1. \A t : UpToContract(t) =>
          \E u : Applied(At(t), events) = At(u) /\ UpToContract(u)'
    BY <1>7, PauseFollows
  <2>2. Publish(events)
    BY <1>7
  <2> HIDE DEF events
  <2> QED
    BY <2>1, <2>2, PublishKeeps
<1>8. CASE payout /\ Publish(SettledEvents(round_amount * N))
  <2>0. PICK events : events = SettledEvents(round_amount * N)
    OBVIOUS
  <2>1. \A t : UpToContract(t) =>
          \E u : Applied(At(t), events) = At(u) /\ UpToContract(u)'
    BY <1>8, <2>0, PayoutFollows
  <2> QED
    BY <1>8, <2>0, <2>1, PublishKeeps
<1>9. CASE settle_round /\ Publish(ExceptionalEvents \o SettledEvents(SettlementPot))
  <2>0. PICK events : events = ExceptionalEvents \o SettledEvents(SettlementPot)
    OBVIOUS
  <2>1. \A t : UpToContract(t) =>
          \E u : Applied(At(t), events) = At(u) /\ UpToContract(u)'
    BY <1>9, <2>0, SettleRoundFollows
  <2> QED
    BY <1>9, <2>0, <2>1, PublishKeeps
<1>10. ASSUME NEW a \in Address, pause(a) /\ Publish(<<Ev("paused", a, 0, 0)>>)
       PROVE  EventInv'
  BY <1>7, <1>10
<1>11. ASSUME NEW a \in Address, resume(a) /\ Publish(<<Ev("resumed", a, 0, 0)>>)
       PROVE  EventInv'
  BY <1>7, <1>11
<1> QED
  BY <1>1, <1>2, <1>3, <1>4, <1>5, <1>6, <1>8, <1>9, <1>10, <1>11, Zenon
  DEF Invocation

\* Every step of the composition keeps the invariant.
LEMMA EventInvStep ==
  ASSUME IndInv, Ground, EventInv, [EventNext]_allVars,
         \A u : UpToContract(u)' => Sound(u),
         \A t, u : UpToContract(t) /\ UpToContract(u)' => Moved(t, u)
  PROVE  EventInv'
<1>1. CASE Quiet
  <2>1. UNCHANGED <<contractVars, awarded, eventVars>>
    BY <1>1 DEF Quiet, AdvanceLedger, add_authorized_caller, repVars
  <2> QED
    BY <2>1, QuietKeeps
<1>2. CASE UNCHANGED allVars
  <2>1. UNCHANGED <<contractVars, awarded, eventVars>>
    BY <1>2 DEF allVars, vars, repVars
  <2> QED
    BY <2>1, QuietKeeps
<1> QED
  BY <1>1, <1>2, InvocationKeeps, IngestKeeps, LosingKeeps DEF EventNext

\* The contract does not notice the indexer.
LEMMA EventStepIsStep == [EventNext]_allVars => [Next]_vars
<1> SUFFICES ASSUME [EventNext]_allVars PROVE [Next]_vars
  OBVIOUS
<1>1. CASE Invocation
  BY <1>1 DEF Invocation, Next
<1>2. CASE Quiet
  BY <1>2 DEF Quiet, Next
<1>3. CASE Ingest \/ IngestLosing \/ UNCHANGED allVars
  BY <1>3 DEF Ingest, IngestLosing, allVars
<1> QED
  BY <1>1, <1>2, <1>3 DEF EventNext

\* Tables that have caught up follow the contract, and refuse no event before.
LEMMA EventInvSuffices == TypeOK /\ EventInv => TablesFollowContract
<1> SUFFICES ASSUME TypeOK, EventInv, altered = {}
             PROVE  rejected = {} /\ (CaughtUp => RowFollows /\ HistoryFollows)
  BY DEF TablesFollowContract
<1>1. PICK g : Ahead(g)
  BY DEF EventInv
<1>2. PICK S : pending \in Seq(S)
  BY DEF EventInv
<1>3. 0 \in 0..Len(pending)
  BY <1>2
<1>4. At(g[0].tables) = [tables |-> tables, rejected |-> rejected]
  BY <1>1, <1>3 DEF Ahead
<1>5. rejected = {}
  BY <1>4 DEF At
<1>6. ASSUME CaughtUp PROVE RowFollows /\ HistoryFollows
  <2>1. PICK t : g[0] = At(t) /\ UpToContract(t)
    <3>1. Len(pending) = 0
      BY <1>6 DEF CaughtUp
    <3> QED
      BY <1>1, <3>1 DEF Ahead
  <2>2. At(t) = [tables |-> tables, rejected |-> rejected]
    BY <1>1, <2>1 DEF Ahead
  <2>3. t = tables
    BY <2>2 DEF At
  <2>4. status # "Uninitialized" /\ FollowsContract(tables)
    BY <1>6, <2>1, <2>3 DEF CaughtUp, UpToContract
  <2> QED
    BY <2>4, FollowingIsEnough
<1> QED
  BY <1>5, <1>6

\* No step takes the indexer off the way to the contract.
LEMMA EventInvKept ==
  IndInv /\ (IndInv /\ Complete)' /\ Ground /\ EventInv /\ [EventNext]_allVars
    => (Ground /\ EventInv)'
<1> SUFFICES ASSUME IndInv, (IndInv /\ Complete)', Ground, EventInv,
                    [EventNext]_allVars
             PROVE  (Ground /\ EventInv)'
  OBVIOUS
<1>1. [Next]_vars
  BY EventStepIsStep
<1>2. Ground'
  BY <1>1, GroundStep
<1>3. (IndInv /\ Complete)' => (\A t : UpToContract(t) => Sound(t))'
  BY FollowingIsWhole, PTL
<1>4. \A u : UpToContract(u)' => Sound(u)
  BY <1>3 DEF Sound, Whole, WholeMembers, WholePayouts, WholeRecords, WholeRow, RowIn
<1>5. \A t, u : UpToContract(t) /\ UpToContract(u)' => Moved(t, u)
  BY <1>1, FollowingMoves
<1>6. EventInv'
  BY <1>4, <1>5, EventInvStep
<1> QED
  BY <1>2, <1>6

\* What is behind a run of the composition.
LEMMA EventInvariance == EventSpec => [](IndInv /\ Ground /\ EventInv)
<1>1. EventInit => Ground /\ EventInv
  BY GroundInit, EventInvInit DEF EventInit
<1>2. EventSpec => [](IndInv /\ Complete)
  <2>1. EventInit => Init
    BY DEF EventInit
  <2>2. EventSpec => Spec
    BY <2>1, EventStepIsStep, PTL DEF EventSpec, Spec
  <2>3. Spec => []Complete
    BY CompleteAlways
  <2> QED
    BY <2>2, <2>3, Invariance, PTL
<1> QED
  BY <1>1, <1>2, EventInvKept, PTL DEF EventSpec

\* Whatever the contract has done and however late its events are ingested,
\* tables that have caught up agree with it, and no event is refused.
THEOREM TablesFollow == EventSpec => []TablesFollowContract
<1>1. IndInv /\ Ground /\ EventInv => TablesFollowContract
  BY EventInvSuffices DEF IndInv
<1> QED
  BY <1>1, EventInvariance, PTL

-----------------------------------------------------------------------------
(* The books: what the amounts in the tables add up to.                    *)

\* A set of keys is as large as the set it is made from.
LEMMA KeysCount ==
  ASSUME NEW M, IsFiniteSet(M), NEW f, DOMAIN f = M,
         \A m, n \in M : f[m] = f[n] => m = n
  PROVE  /\ IsFiniteSet({f[m] : m \in M})
         /\ Cardinality({f[m] : m \in M}) = Cardinality(M)
<1> DEFINE K == {f[m] : m \in M}
           h == [m \in M |-> f[m]]
<1>1. h \in Bijection(M, K)
  BY DEF Bijection, Injection, Surjection, IsInjective
<1>2. ExistsBijection(M, K)
  BY <1>1 DEF ExistsBijection
<1> QED
  BY <1>2, FS_Bijection

\* What the members deposited.
LEMMA DepositsAdd ==
  ASSUME TypeOK, NEW t, FollowsMembers(t)
  PROVE  SumOf(Deposits(t)) = CollateralDue * Cardinality(joined)
<1> DEFINE f == Deposits(t)
           key == [m \in MemberSet |-> <<CircleAddress, m>>]
           J == {key[m] : m \in joined}
           K == {key[m] : m \in MemberSet}
<1>1. DOMAIN f = K
  BY DEF Deposits, FollowsMembers, FollowsCounts
<1>2. joined \subseteq MemberSet /\ IsFiniteSet(MemberSet) /\ IsFiniteSet(joined)
      /\ CollateralDue \in Int
  <2>1. joined \subseteq MemberSet /\ IsFiniteSet(MemberSet)
    BY MembersFinite DEF TypeOK
  <2>2. IsFiniteSet(joined)
    BY <2>1, FS_Subset
  <2> QED
    BY <2>1, <2>2, ConfigAssumption DEF CollateralDue, COLLATERAL_MULTIPLIER
<1>3. \A m, n \in MemberSet : key[m] = key[n] => m = n
  OBVIOUS
<1>4. IsFiniteSet(K)
  <2>1. DOMAIN key = MemberSet
    OBVIOUS
  <2> HIDE DEF key
  <2> QED
    BY <1>2, <1>3, <2>1, KeysCount
<1>5. Cardinality(J) = Cardinality(joined)
  <2> DEFINE k == [m \in joined |-> key[m]]
  <2>1. DOMAIN k = joined /\ \A m, n \in joined : k[m] = k[n] => m = n
    BY <1>2, <1>3
  <2>2. {k[m] : m \in joined} = J
    BY <1>2
  <2> HIDE DEF k, J
  <2>3. Cardinality({k[m] : m \in joined}) = Cardinality(joined)
    BY <1>2, <2>1, KeysCount
  <2> QED
    BY <2>2, <2>3
<1>6. ASSUME NEW x \in K PROVE f[x] = IF x \in J THEN CollateralDue ELSE 0
  <2>1. PICK m \in MemberSet : x = key[m]
    BY <1>6
  <2>2. x \in J <=> m \in joined
    BY <1>2, <1>3, <2>1
  <2>3. f[x] = t.circle_members[x].collateral
    BY <1>1 DEF Deposits
  <2>4. x = <<CircleAddress, m>>
    BY <2>1
  <2>5. PICK row : row = t.circle_members[<<CircleAddress, m>>]
    OBVIOUS
  <2>6. row = [payout_order |-> row.payout_order, join_order |-> row.join_order,
               collateral |-> IF m \in joined THEN CollateralDue ELSE 0,
               defaults |-> defaults[m]]
    BY <2>5 DEF FollowsMembers, FollowsCounts
  <2>7. row.collateral = IF m \in joined THEN CollateralDue ELSE 0
    BY <2>6
  <2> HIDE DEF f, J, K, key
  <2> QED
    BY <2>2, <2>3, <2>4, <2>5, <2>7
<1>7. J \subseteq K
  BY <1>2
<1> HIDE DEF f, J, K, key
<1>8. SumOf(f) = CollateralDue * Cardinality(J)
  BY <1>1, <1>2, <1>4, <1>6, <1>7, RowsAdd
<1> QED
  BY <1>5, <1>8 DEF f

\* What close released.
LEMMA ReleasesAdd ==
  ASSUME TypeOK, NEW t, FollowsRow(t)
  PROVE  SumOf(Releases(t)) = Released
<1> DEFINE f == Releases(t)
           J == {CircleAddress}
<1>1. DOMAIN f = J /\ f[CircleAddress] = Released
  <2>1. t.circles = Circles(RowAfter(Released))
    BY DEF FollowsRow
  <2>2. DOMAIN t.circles = J /\ t.circles[CircleAddress] = RowAfter(Released)
    BY <2>1 DEF Circles
  <2>3. RowAfter(Released).total_released = Released
    BY DEF RowAfter
  <2> QED
    BY <2>2, <2>3 DEF Releases
<1>2. IsFiniteSet(J) /\ Cardinality(J) = 1
  BY FS_Singleton
<1>3. Released \in Int
  <2>1. IsFiniteSet(joined)
    BY MembersFinite, FS_Subset DEF TypeOK
  <2>2. Cardinality(joined) \in Nat /\ forfeited \in Nat /\ CollateralDue \in Int
    BY <2>1, FS_CardinalityType, ConfigAssumption
    DEF TypeOK, CollateralDue, COLLATERAL_MULTIPLIER
  <2>3. CollateralDue * Cardinality(joined) \in Int
    BY <2>2
  <2> QED
    BY <2>2, <2>3 DEF Released
<1>4. PICK c \in Int : c = Released
  BY <1>3
<1>5. \A x \in DOMAIN f : f[x] = IF x \in J THEN c ELSE 0
  BY <1>1, <1>4
<1> HIDE DEF f, J
<1>6. SumOf(f) = c * Cardinality(J)
  BY <1>1, <1>2, <1>5, RowsAdd
<1>7. c * 1 = c
  OBVIOUS
<1> QED
  BY <1>2, <1>4, <1>6, <1>7 DEF f

\* The rows of the contributions to the rounds before round k.
Before(t, k) == {x \in DOMAIN t.contributions : x[3] < k}

\* A round more adds a row for each member who contributed to it.
LEMMA RoundOfRows ==
  ASSUME TypeOK, NEW t, FollowsContributions(t), NEW k \in Rounds,
         IsFiniteSet(Before(t, k))
  PROVE  /\ IsFiniteSet(Before(t, k + 1))
         /\ Cardinality(Before(t, k + 1))
              = Cardinality(Before(t, k)) + Cardinality(contributed[k])
         /\ Cardinality(Before(t, k)) \in Nat /\ Cardinality(contributed[k]) \in Nat
<1> DEFINE M == contributed[k]
           key == [m \in M |-> <<CircleAddress, m, k>>]
           R == {key[m] : m \in M}
           old == Before(t, k)
           new == Before(t, k + 1)
<1>1. k \in Nat /\ M \subseteq MemberSet /\ IsFiniteSet(M)
  <2>1. k \in Nat /\ M \subseteq MemberSet
    BY RotationFacts DEF TypeOK
  <2> HIDE DEF M
  <2> QED
    BY <2>1, MembersFinite, FS_Subset
<1>2. IsFiniteSet(R) /\ Cardinality(R) = Cardinality(M)
  <2>1. DOMAIN key = M /\ \A m, n \in M : key[m] = key[n] => m = n
    OBVIOUS
  <2> HIDE DEF key, M
  <2> QED
    BY <1>1, <2>1, KeysCount
<1>3. ASSUME NEW x \in DOMAIN t.contributions
      PROVE  \E m \in MemberSet, r \in Rounds :
               /\ x = <<CircleAddress, m, r>> /\ m \in contributed[r]
               /\ r \in Nat /\ x[3] = r
  <2>1. PICK m \in MemberSet, r \in Rounds :
          x = <<CircleAddress, m, r>> /\ m \in contributed[r]
    BY DEF FollowsContributions
  <2> QED
    BY <2>1, RotationFacts
<1>4. ASSUME NEW x \in R PROVE x \in DOMAIN t.contributions /\ x[3] = k
  <2>1. PICK m \in M : x = <<CircleAddress, m, k>>
    OBVIOUS
  <2> QED
    BY <2>1 DEF FollowsContributions
<1>5. ASSUME NEW x \in DOMAIN t.contributions, x[3] = k PROVE x \in R
  <2>1. PICK m \in MemberSet, r \in Rounds :
          /\ x = <<CircleAddress, m, r>> /\ m \in contributed[r] /\ x[3] = r
    BY <1>3
  <2>2. m \in M /\ x = key[m]
    BY <1>5, <2>1
  <2> QED
    BY <2>2
<1>6. new = old \cup R
  <2>1. \A x \in DOMAIN t.contributions : x[3] < k + 1 <=> x[3] < k \/ x[3] = k
    BY <1>1, <1>3
  <2> HIDE DEF R
  <2> QED
    BY <1>4, <1>5, <2>1 DEF Before
<1>7. old \cap R = {}
  <2> SUFFICES ASSUME NEW x \in old, x \in R PROVE FALSE
    OBVIOUS
  <2>1. x[3] = k /\ x[3] < k
    BY <1>4 DEF Before
  <2> QED
    BY <1>1, <2>1
<1> HIDE DEF R, M, old, new
<1>8. IsFiniteSet(old)
  BY DEF old
<1>9. IsFiniteSet(new) /\ Cardinality(new) = Cardinality(old) + Cardinality(R)
      /\ Cardinality(old) \in Nat /\ Cardinality(M) \in Nat
  <2>1. Cardinality(old) \in Nat /\ Cardinality(M) \in Nat /\ Cardinality(R) \in Nat
    BY <1>1, <1>2, <1>8, FS_CardinalityType
  <2>2. IsFiniteSet(old \cup R)
    BY <1>2, <1>8, FS_Union
  <2>3. Cardinality(old \cup R) = Cardinality(old) + Cardinality(R)
                                  - Cardinality(old \cap R)
    BY <1>2, <1>8, FS_Union
  <2>4. Cardinality(old \cap R) = 0
    BY <1>7, FS_EmptySet
  <2> QED
    BY <1>6, <2>1, <2>2, <2>3, <2>4
<1> QED
  BY <1>2, <1>9 DEF M, old, new

\* A settled round has paid out what had been contributed to it.
LEMMA PotsAdd ==
  ASSUME TypeOK, NEW t, FollowsContributions(t), FollowsPayouts(t),
         rounds_completed <= N
  PROVE  /\ IsFiniteSet(Before(t, rounds_completed))
         /\ SumOf(Payouts(t)) = round_amount * Cardinality(Before(t, rounds_completed))
<1> DEFINE f == Payouts(t)
           B(k) == {<<CircleAddress, r>> : r \in 0..(k - 1)}
           S == B(rounds_completed)
           n == rounds_completed
           a == round_amount
<1>1. n \in Nat /\ N \in Nat /\ n <= N /\ a \in Nat
  BY RotationFacts, ConfigAssumption DEF TypeOK
<1>2. DOMAIN f = S
  BY DEF Payouts, FollowsPayouts
<1>3. \A r \in 0..(n - 1) :
        f[<<CircleAddress, r>>] = a * Cardinality(contributed[r])
  BY <1>2 DEF Payouts, FollowsPayouts
<1>4. IsFiniteSet(S)
  <2> DEFINE M == 0..(n - 1)
             key == [r \in M |-> <<CircleAddress, r>>]
  <2>1. DOMAIN key = M /\ \A p, q \in M : key[p] = key[q] => p = q
    OBVIOUS
  <2>2. IsFiniteSet(M)
    BY <1>1, FS_Interval
  <2>3. {key[r] : r \in M} = S
    OBVIOUS
  <2> HIDE DEF M, key, S
  <2>4. IsFiniteSet({key[r] : r \in M})
    BY <2>1, <2>2, KeysCount
  <2> QED
    BY <2>3, <2>4
<1> HIDE DEF f
<1>5. PICK g : IsSetSum(g, S, f) /\ SumOf(f) = g[S]
  BY <1>2, <1>4, SumOfIs
<1>6. \A r \in 0..(n - 1) : Cardinality(contributed[r]) \in Nat
  <2> TAKE r \in 0..(n - 1)
  <2>1. r \in Rounds
    BY <1>1 DEF Rounds
  <2>2. contributed[r] \subseteq MemberSet
    BY <2>1 DEF TypeOK
  <2>3. IsFiniteSet(contributed[r])
    BY <2>2, MembersFinite, FS_Subset
  <2> QED
    BY <2>3, FS_CardinalityType
<1>7. \A x \in S : f[x] \in Int
  <2> TAKE x \in S
  <2>1. PICK r \in 0..(n - 1) : x = <<CircleAddress, r>>
    OBVIOUS
  <2>2. PICK c \in Nat : c = Cardinality(contributed[r])
    BY <1>6
  <2>3. a * c \in Int
    BY <1>1
  <2> QED
    BY <1>3, <2>1, <2>2, <2>3
<1> DEFINE T == {k \in Nat : k <= n =>
                   /\ IsFiniteSet(Before(t, k))
                   /\ g[B(k)] = a * Cardinality(Before(t, k))}
<1>8. 0 \in T
  <2>1. Before(t, 0) = {}
    <3> SUFFICES ASSUME NEW x \in DOMAIN t.contributions PROVE ~(x[3] < 0)
      BY DEF Before
    <3>1. PICK m \in MemberSet, r \in Rounds : x = <<CircleAddress, m, r>>
      BY DEF FollowsContributions
    <3>2. x[3] \in Nat
      BY <3>1, RotationFacts
    <3> QED
      BY <3>2
  <2>2. B(0) = {} /\ 0..(0 - 1) = {}
    OBVIOUS
  <2>3. IsFiniteSet({}) /\ Cardinality({}) = 0 /\ a * 0 = 0
    BY <1>1, FS_EmptySet
  <2>4. g[{}] = 0
    BY <1>5 DEF IsSetSum
  <2> HIDE DEF B
  <2> QED
    BY <2>1, <2>2, <2>3, <2>4
<1>9. ASSUME NEW k \in Nat, k \in T PROVE k + 1 \in T
  <2> SUFFICES ASSUME k + 1 <= n
               PROVE  /\ IsFiniteSet(Before(t, k + 1))
                      /\ g[B(k + 1)] = a * Cardinality(Before(t, k + 1))
    OBVIOUS
  <2> DEFINE x == <<CircleAddress, k>>
  <2>1. k \in Rounds /\ k \in 0..(n - 1)
    BY <1>1 DEF Rounds
  <2>2. /\ IsFiniteSet(Before(t, k))
        /\ g[B(k)] = a * Cardinality(Before(t, k))
    BY <1>1, <1>9
  <2>3. /\ B(k) \in SUBSET S /\ x \in S /\ x \notin B(k)
        /\ B(k + 1) = B(k) \cup {x}
    <3>1. \A r : r \in 0..((k + 1) - 1) <=> r \in 0..(k - 1) \/ r = k
      OBVIOUS
    <3>2. \A r \in 0..(k - 1) : r \in 0..(n - 1) /\ r # k
      BY <1>1
    <3> QED
      BY <2>1, <3>1, <3>2
  <2> HIDE DEF B, S, T
  <2>4. g[B(k + 1)] = g[B(k)] + f[x]
    BY <1>4, <1>5, <1>7, <2>3, SetSumInsert
  <2>5. f[x] = a * Cardinality(contributed[k])
    BY <1>3, <2>1
  <2>6. /\ IsFiniteSet(Before(t, k + 1))
        /\ Cardinality(Before(t, k + 1))
             = Cardinality(Before(t, k)) + Cardinality(contributed[k])
        /\ Cardinality(Before(t, k)) \in Nat /\ Cardinality(contributed[k]) \in Nat
    BY <2>1, <2>2, RoundOfRows
  <2>7. PICK p, q \in Nat : /\ p = Cardinality(Before(t, k))
                            /\ q = Cardinality(contributed[k])
    BY <2>6
  <2>8. a * (p + q) = a * p + a * q
    BY <1>1
  <2>9. g[B(k + 1)] = a * p + a * q
    BY <2>2, <2>4, <2>5, <2>7
  <2> QED
    BY <2>6, <2>7, <2>8, <2>9
<1> HIDE DEF T
<1>10. n \in T
  BY <1>1, <1>8, <1>9, InductiveSet
<1>11. IsFiniteSet(Before(t, n)) /\ g[B(n)] = a * Cardinality(Before(t, n))
  BY <1>1, <1>10 DEF T
<1> QED
  BY <1>5, <1>11 DEF f

\* What the members contributed: the pots, and what is still in escrow.
LEMMA ContributionsAdd ==
  ASSUME IndInv, NEW t, FollowsContributions(t), FollowsPayouts(t)
  PROVE  /\ SumOf(Contributions(t)) = SumOf(Payouts(t)) + round_amount * Escrowed
         /\ SumOf(Payouts(t)) \in Int /\ round_amount * Escrowed \in Int
<1> DEFINE D == DOMAIN t.contributions
           n == rounds_completed
           a == round_amount
           f == Contributions(t)
<1>1. /\ TypeOK /\ RotationProgress /\ RecordsInOrder /\ TallyMatchesRecords
      /\ n \in Nat /\ N \in Nat /\ a \in Nat /\ round.round_index \in Rounds
  BY RotationFacts, ConfigAssumption DEF IndInv, TypeOK, RoundState
<1>2. \A x \in D : /\ x[3] \in Rounds /\ x[3] \in Nat /\ x[3] < N
                   /\ contributed[x[3]] # {}
  <2> TAKE x \in D
  <2>1. PICK m \in MemberSet, r \in Rounds :
          x = <<CircleAddress, m, r>> /\ m \in contributed[r]
    BY DEF FollowsContributions
  <2> QED
    BY <2>1, RotationFacts
<1>3. /\ n <= N
      /\ IsFiniteSet(D) /\ Cardinality(Before(t, n)) \in Nat /\ Escrowed \in Nat
      /\ Cardinality(D) = Cardinality(Before(t, n)) + Escrowed
  <2>1. CASE status = "Active"
    <3>1. /\ n = round.round_index /\ n \in Rounds /\ n < N
          /\ Escrowed = Cardinality(contributed[n])
      BY <1>1, <2>1, RotationFacts DEF RotationProgress, Escrowed, TallyMatchesRecords
    <3>2. IsFiniteSet(Before(t, n))
      BY <1>1, <3>1, PotsAdd
    <3>3. /\ IsFiniteSet(Before(t, n + 1))
          /\ Cardinality(Before(t, n + 1)) = Cardinality(Before(t, n)) + Escrowed
          /\ Cardinality(Before(t, n)) \in Nat /\ Escrowed \in Nat
      BY <1>1, <3>1, <3>2, RoundOfRows
    <3>4. D = Before(t, n + 1)
      <4> SUFFICES ASSUME NEW x \in D PROVE x[3] < n + 1
        BY DEF Before
      <4>1. ~(x[3] > n)
        BY <1>1, <1>2, <3>1 DEF RecordsInOrder
      <4> QED
        BY <1>1, <1>2, <4>1
    <3> QED
      BY <1>1, <3>1, <3>3, <3>4
  <2>2. CASE status = "Completed"
    <3>1. n = N /\ Escrowed = 0
      BY <1>1, <2>2 DEF RotationProgress, RecordsInOrder, Escrowed
    <3>2. IsFiniteSet(Before(t, n))
      BY <1>1, <3>1, PotsAdd
    <3>3. D = Before(t, n)
      BY <1>2, <3>1 DEF Before
    <3>4. Cardinality(Before(t, n)) \in Nat
      BY <3>2, FS_CardinalityType
    <3> QED
      BY <1>1, <3>1, <3>2, <3>3, <3>4
  <2>3. CASE status \notin {"Active", "Completed"}
    <3>1. n = 0 /\ \A r \in Rounds : contributed[r] = {}
      <4>1. /\ n = 0 /\ round.round_index = 0 /\ contributed[0] = {}
            /\ \A r \in Rounds : r > 0 => contributed[r] = {}
        BY <1>1, <2>3 DEF RotationProgress, RecordsInOrder
      <4>2. \A r \in Rounds : r = 0 \/ r > 0
        BY RotationFacts
      <4> QED
        BY <4>1, <4>2
    <3>2. D = {} /\ Before(t, n) = {}
      BY <1>2, <3>1 DEF Before
    <3>3. IsFiniteSet({}) /\ Cardinality({}) = 0
      BY FS_EmptySet
    <3>4. Escrowed = 0
      <4>1. round.contributions_received = 0
        BY <1>1, <3>1, <3>3 DEF TallyMatchesRecords
      <4> QED
        BY <4>1 DEF Escrowed
    <3> HIDE DEF D, n
    <3>5. Cardinality(D) = 0 /\ Cardinality(Before(t, n)) = 0
      BY <3>2, <3>3
    <3> QED
      BY <1>1, <3>1, <3>2, <3>3, <3>4, <3>5
  <2> QED
    BY <2>1, <2>2, <2>3
<1>4. SumOf(Payouts(t)) = a * Cardinality(Before(t, n))
  BY <1>1, <1>3, PotsAdd
<1>5. SumOf(f) = a * Cardinality(D)
  <2>1. DOMAIN f = D /\ \A x \in D : f[x] = IF x \in D THEN a ELSE 0
    BY DEF Contributions, FollowsContributions
  <2> HIDE DEF f, D
  <2> QED
    BY <1>1, <1>3, <2>1, RowsAdd
<1>6. PICK p, q \in Nat : p = Cardinality(Before(t, n)) /\ q = Escrowed
  BY <1>3
<1>7. a * (p + q) = a * p + a * q
  BY <1>1
<1>8. Cardinality(D) = p + q
  BY <1>3, <1>6
<1>9. a * p \in Int /\ a * q \in Int
  BY <1>1
<1> QED
  BY <1>4, <1>5, <1>6, <1>7, <1>8, <1>9

\* Tables that have caught up balance the contract's account.
LEMMA FollowingBalances ==
  ASSUME IndInv, Ground, NEW t, FollowsContract(t)
  PROVE  vault = SumOf(Deposits(t)) + SumOf(Contributions(t))
                 - SumOf(Payouts(t)) - SumOf(Releases(t))
<1>1. /\ TypeOK /\ FollowsRow(t) /\ FollowsMembers(t)
      /\ FollowsContributions(t) /\ FollowsPayouts(t)
  BY DEF IndInv, FollowsContract
<1>2. SumOf(Deposits(t)) = CollateralDue * Cardinality(joined)
  BY <1>1, DepositsAdd
<1>3. SumOf(Releases(t)) = Released
  BY <1>1, ReleasesAdd
<1>4. /\ SumOf(Contributions(t)) = SumOf(Payouts(t)) + round_amount * Escrowed
      /\ SumOf(Payouts(t)) \in Int /\ round_amount * Escrowed \in Int
  BY <1>1, ContributionsAdd
<1>5. vault = Total(collateral) + round_amount * Escrowed + forfeited
  BY DEF IndInv, Solvency
<1>6. Total(collateral) + forfeited = CollateralDue * Cardinality(joined) - Released
  <2>1. Total(collateral) \in Nat /\ forfeited \in Nat
    BY <1>1, TotalType DEF TypeOK
  <2>2. CollateralDue * Cardinality(joined) \in Int
    <3>1. IsFiniteSet(joined)
      BY <1>1, MembersFinite, FS_Subset DEF TypeOK
    <3>2. Cardinality(joined) \in Nat /\ CollateralDue \in Int
      BY <3>1, FS_CardinalityType, ConfigAssumption
      DEF CollateralDue, COLLATERAL_MULTIPLIER
    <3> QED
      BY <3>2
  <2>3. PICK d : d = CollateralDue * Cardinality(joined)
    OBVIOUS
  <2>4. closed \in BOOLEAN
    BY <1>1 DEF TypeOK
  <2>5. CASE closed
    BY <2>1, <2>2, <2>3, <2>5 DEF Ground, DepositsKept, Released
  <2>6. CASE ~closed
    BY <2>1, <2>2, <2>3, <2>6 DEF Ground, DepositsKept, Released
  <2> QED
    BY <2>5, <2>6
<1>7. /\ vault \in Nat /\ Total(collateral) \in Nat /\ forfeited \in Nat
      /\ closed \in BOOLEAN
  BY <1>1, TotalType DEF TypeOK
<1>8. CollateralDue * Cardinality(joined) \in Int
  <2>1. IsFiniteSet(joined)
    BY <1>1, MembersFinite, FS_Subset DEF TypeOK
  <2>2. Cardinality(joined) \in Nat /\ CollateralDue \in Int
    BY <2>1, FS_CardinalityType, ConfigAssumption
    DEF CollateralDue, COLLATERAL_MULTIPLIER
  <2> QED
    BY <2>2
<1>9. Released \in Int
  BY <1>7, <1>8 DEF Released
<1> QED
  <2>1. PICK d, e, p \in Int :
          /\ d = CollateralDue * Cardinality(joined)
          /\ e = round_amount * Escrowed /\ p = SumOf(Payouts(t))
    BY <1>4, <1>8
  <2>2. /\ SumOf(Deposits(t)) = d /\ SumOf(Contributions(t)) = p + e
        /\ vault = Total(collateral) + e + forfeited
        /\ Total(collateral) + forfeited = d - Released
    BY <1>2, <1>4, <1>5, <1>6, <2>1
  <2> QED
    BY <1>3, <1>7, <1>9, <2>1, <2>2

\* The mirror says it of the tables that have caught up.
LEMMA EventInvBalances ==
  IndInv /\ Ground /\ EventInv => BooksBalance
<1> SUFFICES ASSUME IndInv, Ground, EventInv, CaughtUp, altered = {}
             PROVE  vault = SumOf(Deposits(tables)) + SumOf(Contributions(tables))
                            - SumOf(Payouts(tables)) - SumOf(Releases(tables))
  BY DEF BooksBalance
<1>1. PICK g : Ahead(g)
  BY DEF EventInv
<1>2. 0 \in 0..Len(pending) /\ Len(pending) = 0
  BY DEF CaughtUp
<1>3. PICK t : g[0] = At(t) /\ UpToContract(t)
  BY <1>1, <1>2 DEF Ahead
<1>4. At(t) = [tables |-> tables, rejected |-> rejected]
  BY <1>1, <1>2, <1>3 DEF Ahead
<1>5. t = tables
  BY <1>4 DEF At
<1>6. FollowsContract(tables)
  BY <1>3, <1>5 DEF CaughtUp, UpToContract
<1> QED
  BY <1>6, FollowingBalances

\* Once the tables have caught up, the contract's token balance is what their
\* amounts add up to: no money moves without the event that tells of it.
THEOREM BooksAlwaysBalance == EventSpec => []BooksBalance
  BY EventInvBalances, EventInvariance, PTL

-----------------------------------------------------------------------------
(* The history: what the tables say of the past is so.                     *)

\* Which handlers touch the three history tables.
Kept3(t, u) ==
  u.contributions = t.contributions /\ u.payouts = t.payouts /\ u.defaults = t.defaults

\* The handlers that leave the history alone: circle, member rows, scores, audit.
LEMMA HandleElse ==
  ASSUME NEW t, IsTables(t), NEW e,
         e.name \in Projected \ {"contributed", "payout", "default", "exceptional_settlement"}
  PROVE  IsTables(Handle(t, e)) /\ Kept3(t, Handle(t, e))
<1>1. ASSUME NEW f PROVE LET u == [t EXCEPT !.circles = f] IN IsTables(u) /\ Kept3(t, u)
  BY DEF IsTables, Kept3
<1>2. ASSUME NEW f PROVE LET u == [t EXCEPT !.reputation = f] IN IsTables(u) /\ Kept3(t, u)
  BY DEF IsTables, Kept3
<1>3. ASSUME NEW f, NEW g
      PROVE  LET u == [t EXCEPT !.circles = f, !.circle_members = g] IN IsTables(u) /\ Kept3(t, u)
  <2>1. PICK s : s = [t EXCEPT !.circles = f] /\ IsTables(s) /\ Kept3(t, s)
    BY <1>1
  <2>2. PICK u : u = [s EXCEPT !.circle_members = g]
    OBVIOUS
  <2>3. IsTables(u) /\ Kept3(t, u)
    BY <2>1, <2>2 DEF IsTables, Kept3
  <2>4. u = [t EXCEPT !.circles = f, !.circle_members = g]
    BY <2>1, <2>2
  <2> QED
    BY <2>3, <2>4
<1>4. ASSUME NEW c, NEW f PROVE LET u == [t EXCEPT !.circles[c] = f] IN IsTables(u) /\ Kept3(t, u)
  BY DEF IsTables, Kept3
<1>5. ASSUME NEW c, NEW f PROVE LET u == [t EXCEPT !.circle_members[c] = f] IN IsTables(u) /\ Kept3(t, u)
  BY DEF IsTables, Kept3
<1>6. IsTables(t) /\ Kept3(t, t)
  BY DEF Kept3
<1>7. ASSUME NEW u, IsTables(u), Kept3(t, u), NEW f
      PROVE  LET w == [u EXCEPT !.circle_audit_events = f] IN IsTables(w) /\ Kept3(t, w)
  BY <1>7 DEF IsTables, Kept3
<1>10. CASE e.name = "circle_created"
  <2>1. Handle(t, e) = handleFactoryCircleCreated(t, e)
    BY <1>10 DEF Handle
  <2>2. CASE e.circle \in DOMAIN t.circles
    <3>1. CASE t.circles[e.circle].creator = ""
      <4>1. handleFactoryCircleCreated(t, e) =
              [t EXCEPT !.circles[e.circle] = [@ EXCEPT !.creator = e.creator]]
        BY <2>2, <3>1 DEF handleFactoryCircleCreated
      <4>2. PICK k, f : k = e.circle /\ f = [t.circles[k] EXCEPT !.creator = e.creator]
        OBVIOUS
      <4>3. [t EXCEPT !.circles[e.circle] = [@ EXCEPT !.creator = e.creator]] =
              [t EXCEPT !.circles[k] = f]
        BY <4>2
      <4>4. LET u == [t EXCEPT !.circles[k] = f] IN IsTables(u) /\ Kept3(t, u)
        BY <1>4
      <4> QED
        BY <2>1, <4>1, <4>3, <4>4
    <3>2. CASE t.circles[e.circle].creator # ""
      BY <2>1, <2>2, <3>2, <1>6 DEF handleFactoryCircleCreated
    <3> QED
      BY <3>1, <3>2
  <2>3. CASE e.circle \notin DOMAIN t.circles
    <3>1. Handle(t, e) = [t EXCEPT !.circles = Upsert(t.circles, e.circle, NewCircle(e.creator, 0, 0))]
      BY <2>1, <2>3 DEF handleFactoryCircleCreated
    <3> QED
      BY <3>1, <1>1
  <2> QED
    BY <2>2, <2>3
<1>11. CASE e.name = "initialized"
  <2>1. Handle(t, e) = handleCircleInitialized(t, e)
    BY <1>11 DEF Handle
  <2>2. PICK f, g : handleCircleInitialized(t, e) = [t EXCEPT !.circles = f, !.circle_members = g]
    BY DEF handleCircleInitialized
  <2>3. LET u == [t EXCEPT !.circles = f, !.circle_members = g] IN IsTables(u) /\ Kept3(t, u)
    BY <1>3
  <2> QED
    BY <2>1, <2>2, <2>3
<1>12. CASE e.name = "joined"
  <2>1. Handle(t, e) = handleCircleJoined(t, e)
    BY <1>12 DEF Handle
  <2>2. \E c, f : handleCircleJoined(t, e) = [t EXCEPT !.circle_members[c] = f]
    BY DEF handleCircleJoined
  <2> QED
    BY <2>1, <2>2, <1>5
<1>13. ASSUME NEW s PROVE IsTables(SetStatus(t, e, s)) /\ Kept3(t, SetStatus(t, e, s))
  BY <1>4, <1>6 DEF SetStatus, UpdateCircle
<1>14. CASE e.name = "active"
  BY <1>13, <1>14 DEF Handle, handleCircleActive
<1>15. CASE e.name = "completed"
  BY <1>13, <1>15 DEF Handle, handleCircleCompleted
<1>16. CASE e.name = "round_started"
  <2>1. Handle(t, e) = handleCircleRoundStarted(t, e)
    BY <1>16 DEF Handle
  <2> QED
    BY <1>4, <1>6, <2>1 DEF handleCircleRoundStarted, SetRound, UpdateCircle
<1>17. CASE e.name = "paused"
  <2>1. Handle(t, e) = handleCirclePaused(t, e)
    BY <1>17 DEF Handle
  <2> QED
    BY <1>4, <1>6, <2>1 DEF handleCirclePaused, UpdateCircle
<1>18. CASE e.name = "resumed"
  <2>1. Handle(t, e) = handleCircleResumed(t, e)
    BY <1>18 DEF Handle
  <2> QED
    BY <1>4, <1>6, <2>1 DEF handleCircleResumed, UpdateCircle
<1>19. ASSUME NEW u, IsTables(u), Kept3(t, u), NEW x, NEW y
       PROVE  IsTables(Audited(u, e, x, y)) /\ Kept3(t, Audited(u, e, x, y))
  BY <1>7, <1>19 DEF Audited
<1>20. CASE e.name = "cancelled"
  BY <1>13, <1>19, <1>20 DEF Handle, handleCircleCancelled
<1>21. CASE e.name = "closed"
  <2>1. Handle(t, e) = handleCircleClosed(t, e)
    BY <1>21 DEF Handle
  <2>2. \E u : /\ handleCircleClosed(t, e) = Audited(u, e, e.amount, e.reason)
               /\ IsTables(u) /\ Kept3(t, u)
    BY <1>4, <1>6 DEF handleCircleClosed, UpdateCircle
  <2> QED
    BY <2>1, <2>2, <1>19
<1>22. CASE e.name = "score_updated"
  BY <1>2, <1>22 DEF Handle, handleReputationScoreUpdated
<1>23. CASE e.name = "increment"
  BY <1>2, <1>23 DEF Handle, handleReputationIncrement
<1> QED
  BY <1>10, <1>11, <1>12, <1>14, <1>15, <1>16, <1>17, <1>18, <1>20, <1>21, <1>22, <1>23 DEF Projected

\* The history tables hold nothing but what the contract has recorded: the
\* contributors C, the members D flagged, and n settled rounds.
TrueTables(t, C, D, n) ==
  /\ IsTables(t)
  /\ \A k \in DOMAIN t.contributions :
       \E m \in MemberSet, r \in Rounds :
         k = <<CircleAddress, m, r>> /\ m \in C[r]
  /\ \A k \in DOMAIN t.payouts :
       \E r \in Rounds : /\ k = <<CircleAddress, r>> /\ r < n
                         /\ "recipient" \in DOMAIN t.payouts[k]
                         /\ t.payouts[k].recipient = members[r + 1]
  /\ \A d \in DOMAIN t.defaults : d.round \in Rounds /\ d.member \in D[d.round]

\* An event says nothing else.
TrueEvent(e, C, D, n) ==
  /\ e.name \in Projected \cup Ignored
  /\ e.name = "contributed" =>
       /\ e.circle = CircleAddress /\ e.member \in MemberSet /\ e.round \in Rounds
       /\ e.member \in C[e.round]
  /\ e.name = "default" => e.round \in Rounds /\ e.member \in D[e.round]
  /\ e.name \in {"payout", "exceptional_settlement"} =>
       /\ e.circle = CircleAddress /\ e.round \in Rounds
       /\ e.round < n /\ e.member = members[e.round + 1]

\* A true event leaves true tables.
LEMMA HandleTrue ==
  ASSUME NEW C, NEW D, NEW n, NEW t, TrueTables(t, C, D, n), NEW e, TrueEvent(e, C, D, n), e.name \in Projected
  PROVE  TrueTables(Handle(t, e), C, D, n)
<1>0. IsTables(t)
  BY DEF TrueTables
<1>1. CASE e.name \notin {"contributed", "payout", "default", "exceptional_settlement"}
  <2>1. IsTables(Handle(t, e)) /\ Kept3(t, Handle(t, e))
    BY <1>0, <1>1, HandleElse
  <2> QED
    BY <2>1 DEF TrueTables, Kept3
<1>2. CASE e.name = "contributed"
  <2>1. Handle(t, e) = handleCircleContributed(t, e)
    BY <1>2 DEF Handle
  <2>2. PICK k : k = <<e.circle, e.member, e.round>>
    OBVIOUS
  <2>9. PICK f : f = InsertOrIgnore(t.contributions, k,
                                    [amount |-> e.amount, ledger |-> e.ledger])
    OBVIOUS
  <2>3. /\ handleCircleContributed(t, e) = [t EXCEPT !.contributions = f]
        /\ DOMAIN f \subseteq DOMAIN t.contributions \cup {k}
    BY <2>2, <2>9 DEF handleCircleContributed, InsertOrIgnore, Upsert
  <2>4. PICK u : u = [t EXCEPT !.contributions = f]
    OBVIOUS
  <2>5. /\ IsTables(u) /\ u.contributions = f
        /\ u.payouts = t.payouts /\ u.defaults = t.defaults
    BY <1>0, <2>4 DEF IsTables
  <2>6. \A j \in DOMAIN f : j \in DOMAIN t.contributions \/ j = k
    BY <2>3
  <2>7. k = <<CircleAddress, e.member, e.round>> /\ e.member \in MemberSet
        /\ e.round \in Rounds /\ e.member \in C[e.round]
    BY <1>2, <2>2 DEF TrueEvent
  <2>8. TrueTables(u, C, D, n)
    BY <2>5, <2>6, <2>7 DEF TrueTables
  <2> QED
    BY <2>1, <2>3, <2>4, <2>8
<1>3. CASE e.name = "default"
  <2>1. Handle(t, e) = handleCircleDefault(t, e)
    BY <1>3 DEF Handle
  <2>2. PICK row : row = [circle |-> e.circle, member |-> e.member, round |-> e.round,
                          penalty |-> e.amount, ledger |-> e.ledger]
    OBVIOUS
  <2>3. PICK bag : bag = t.defaults (+) SetToBag({row})
    OBVIOUS
  <2>4. DOMAIN bag = DOMAIN t.defaults \cup {row}
    BY <2>3 DEF SetToBag, (+)
  <2>5. handleCircleDefault(t, e) =
          [[t EXCEPT !.defaults = bag] EXCEPT !.circle_members =
             [j \in DOMAIN @ |-> IF j = <<e.circle, e.member>>
                                   THEN Counted(t.circle_members[j])
                                   ELSE t.circle_members[j]]]
    BY <2>2, <2>3 DEF handleCircleDefault
  <2>6. PICK s : s = [t EXCEPT !.defaults = bag]
    OBVIOUS
  <2>7. PICK g : handleCircleDefault(t, e) = [s EXCEPT !.circle_members = g]
    BY <2>5, <2>6
  <2>8. PICK u : u = [s EXCEPT !.circle_members = g]
    OBVIOUS
  <2>9. /\ IsTables(s) /\ s.contributions = t.contributions
        /\ s.payouts = t.payouts /\ s.defaults = bag
    BY <1>0, <2>6 DEF IsTables
  <2>10. /\ IsTables(u) /\ u.contributions = t.contributions
         /\ u.payouts = t.payouts /\ u.defaults = bag
    BY <2>8, <2>9 DEF IsTables
  <2>11. row.round \in Rounds /\ row.member \in D[row.round]
    BY <1>3, <2>2 DEF TrueEvent
  <2>12. TrueTables(u, C, D, n)
    BY <2>4, <2>10, <2>11 DEF TrueTables
  <2> QED
    BY <2>1, <2>7, <2>8, <2>12
<1>4. ASSUME NEW u, IsTables(u), u.contributions = t.contributions, u.defaults = t.defaults,
             TrueEvent(e, C, D, n), e.name \in {"payout", "exceptional_settlement"},
             \A j \in DOMAIN u.payouts : "recipient" \in DOMAIN u.payouts[j],
             \A j \in DOMAIN u.payouts :
               \/ j \in DOMAIN t.payouts /\ u.payouts[j].recipient = t.payouts[j].recipient
               \/ j = <<e.circle, e.round>> /\ u.payouts[j].recipient = e.member
      PROVE  TrueTables(u, C, D, n)
  <2>1. /\ e.circle = CircleAddress /\ e.round \in Rounds
        /\ e.round < n /\ e.member = members[e.round + 1]
    BY <1>4 DEF TrueEvent
  <2>2. \A j \in DOMAIN u.payouts :
          \E r \in Rounds : /\ j = <<CircleAddress, r>> /\ r < n
                            /\ "recipient" \in DOMAIN u.payouts[j]
                            /\ u.payouts[j].recipient = members[r + 1]
    BY <1>4, <2>1 DEF TrueTables
  <2> QED
    BY <1>4, <2>2 DEF TrueTables
<1>5. CASE e.name = "payout"
  <2>1. PICK k : k = <<e.circle, e.round>>
    OBVIOUS
  <2>2. PICK row : row = [recipient |-> e.member, amount |-> e.amount,
                          ledger |-> e.ledger, is_exceptional |-> FALSE,
                          defaulted_count |-> 0]
    OBVIOUS
  <2>3. PICK f : f = InsertOrIgnore(t.payouts, k, row)
    OBVIOUS
  <2>4. PICK s : s = [t EXCEPT !.payouts = f]
    OBVIOUS
  <2>5. Handle(t, e) = SetRound(s, e, e.round + 1)
    BY <1>5, <2>1, <2>2, <2>3, <2>4 DEF Handle, handleCirclePayout
  <2>6. /\ IsTables(s) /\ s.contributions = t.contributions
        /\ s.payouts = f /\ s.defaults = t.defaults
    BY <1>0, <2>4 DEF IsTables
  <2>7. \A j \in DOMAIN f : \/ j \in DOMAIN t.payouts /\ f[j] = t.payouts[j]
                            \/ j = k /\ f[j] = row
    BY <2>3 DEF InsertOrIgnore, Upsert
  <2>8. row.recipient = e.member /\ "recipient" \in DOMAIN row
    BY <2>2
  <2>13. \A j \in DOMAIN f : "recipient" \in DOMAIN f[j]
    BY <2>7, <2>8 DEF TrueTables
  <2>9. PICK u : u = Handle(t, e)
    OBVIOUS
  <2>10. \/ u = s
         \/ \E x : u = [s EXCEPT !.circles[e.circle] = x]
    BY <2>5, <2>9 DEF SetRound, UpdateCircle
  <2>11. /\ IsTables(u) /\ u.contributions = t.contributions
         /\ u.payouts = f /\ u.defaults = t.defaults
    BY <2>6, <2>10 DEF IsTables
  <2>12. TrueTables(u, C, D, n)
    BY <1>4, <1>5, <2>1, <2>7, <2>8, <2>11, <2>13
  <2> QED
    BY <2>9, <2>12
<1>6. CASE e.name = "exceptional_settlement"
  <2>1. PICK k : k = <<e.circle, e.round>>
    OBVIOUS
  <2>2. PICK row : row = IF k \in DOMAIN t.payouts
                           THEN [t.payouts[k] EXCEPT !.is_exceptional = TRUE,
                                   !.defaulted_count = e.defaulted_count]
                           ELSE [recipient |-> e.member, amount |-> e.amount,
                                 ledger |-> e.ledger, is_exceptional |-> TRUE,
                                 defaulted_count |-> e.defaulted_count]
    OBVIOUS
  <2>3. PICK f : f = Upsert(t.payouts, k, row)
    OBVIOUS
  <2>4. Handle(t, e) = [t EXCEPT !.payouts = f]
    BY <1>6, <2>1, <2>2, <2>3 DEF Handle, handleCircleExceptionalSettlement
  <2>10. "recipient" \in DOMAIN row
    BY <2>2 DEF TrueTables
  <2>5. row.recipient = IF k \in DOMAIN t.payouts THEN t.payouts[k].recipient ELSE e.member
    <3>1. CASE k \in DOMAIN t.payouts
      <4>1. row = [t.payouts[k] EXCEPT !.is_exceptional = TRUE,
                                       !.defaulted_count = e.defaulted_count]
        BY <2>2, <3>1
      <4>2. "recipient" \in DOMAIN t.payouts[k]
        BY <3>1 DEF TrueTables
      <4> QED
        BY <3>1, <4>1, <4>2
    <3>2. CASE k \notin DOMAIN t.payouts
      BY <2>2, <3>2
    <3> QED
      BY <3>1, <3>2
  <2>6. \A j \in DOMAIN f :
          \/ j \in DOMAIN t.payouts /\ f[j].recipient = t.payouts[j].recipient
          \/ j = k /\ f[j].recipient = e.member
    BY <2>3, <2>5 DEF Upsert
  <2>7. PICK u : u = Handle(t, e)
    OBVIOUS
  <2>8. /\ IsTables(u) /\ u.contributions = t.contributions
        /\ u.payouts = f /\ u.defaults = t.defaults
    BY <1>0, <2>4, <2>7 DEF IsTables
  <2>11. \A j \in DOMAIN f : "recipient" \in DOMAIN f[j]
    BY <2>3, <2>10 DEF Upsert, TrueTables
  <2>9. TrueTables(u, C, D, n)
    BY <1>4, <1>6, <2>1, <2>6, <2>8, <2>11
  <2> QED
    BY <2>7, <2>9
<1> QED
  BY <1>1, <1>2, <1>3, <1>5, <1>6

\* A list of such events.
TrueList(l, C, D, n) ==
  \E T : l \in Seq(T) /\ \A i \in 1..Len(l) : TrueEvent(l[i], C, D, n)

\* A state of the indexer with true tables.
TrueState(s, C, D, n) ==
  /\ s = [tables |-> s.tables, rejected |-> s.rejected]
  /\ TrueTables(s.tables, C, D, n)

\* Applying a true event leaves true tables, whichever of its errors it meets.
LEMMA ApplyTrue ==
  ASSUME NEW C, NEW D, NEW n, NEW s, TrueState(s, C, D, n), NEW e, TrueEvent(e, C, D, n)
  PROVE  TrueState(Apply(s, e), C, D, n)
<1>1. CASE e.name \in Ignored
  BY <1>1, AppliedIgnored
<1>2. CASE e.name \notin Ignored /\ Rejects(s.tables, e)
  <2>1. PICK x : Apply(s, e) = [s EXCEPT !.rejected = x]
    BY <1>2 DEF Apply
  <2>2. PICK u : u = [s EXCEPT !.rejected = x]
    OBVIOUS
  <2>3. u.tables = s.tables /\ u = [tables |-> u.tables, rejected |-> u.rejected]
    BY <2>2 DEF TrueState
  <2> QED
    BY <2>1, <2>2, <2>3 DEF TrueState
<1>3. CASE e.name \notin Ignored /\ ~Rejects(s.tables, e)
  <2>1. e.name \in Projected
    BY <1>3 DEF TrueEvent
  <2>2. PICK h : h = Handle(s.tables, e)
    OBVIOUS
  <2>3. TrueTables(h, C, D, n)
    BY <2>1, <2>2, HandleTrue DEF TrueState
  <2>4. Apply(s, e) = [s EXCEPT !.tables = h]
    BY <1>3, <2>2 DEF Apply
  <2>5. PICK u : u = [s EXCEPT !.tables = h]
    OBVIOUS
  <2>6. u.tables = h /\ u = [tables |-> u.tables, rejected |-> u.rejected]
    BY <2>5 DEF TrueState
  <2> QED
    BY <2>3, <2>4, <2>5, <2>6 DEF TrueState
<1> QED
  BY <1>1, <1>2, <1>3

\* Whatever is applied of a true list, the tables stay true.
LEMMA AppliedTrue ==
  ASSUME NEW C, NEW D, NEW n, NEW s, TrueState(s, C, D, n), NEW l, TrueList(l, C, D, n)
  PROVE  TrueState(Applied(s, l), C, D, n)
<1>1. PICK T : l \in Seq(T) /\ \A i \in 1..Len(l) : TrueEvent(l[i], C, D, n)
  BY DEF TrueList
<1>2. PICK g : IsDelivery(g, s, l, Len(l)) /\ Applied(s, l) = g[1..Len(l)]
  BY <1>1, AppliedIs
<1> DEFINE K == {k \in Nat : k <= Len(l) => TrueState(g[1..k], C, D, n)}
<1>3. Len(l) \in Nat
  BY <1>1
<1>4. 0 \in K
  <2>1. 1..0 = {} /\ {} \in SUBSET (1..Len(l))
    OBVIOUS
  <2>2. g[{}] = s
    BY <1>2, <2>1 DEF IsDelivery
  <2> QED
    BY <2>1, <2>2
<1>5. ASSUME NEW k \in Nat, k \in K PROVE k + 1 \in K
  <2> SUFFICES ASSUME k + 1 <= Len(l) PROVE TrueState(g[1..(k + 1)], C, D, n)
    OBVIOUS
  <2>1. PICK i : i = k + 1
    OBVIOUS
  <2>2. i \in 1..Len(l) /\ i - 1 = k /\ k <= Len(l)
    BY <1>3, <2>1
  <2>3. g[1..i] = Apply(g[1..(i - 1)], l[i])
    BY <1>2, <1>3, <2>2, DeliveryOfPrefix
  <2>4. TrueState(g[1..k], C, D, n) /\ TrueEvent(l[i], C, D, n)
    BY <1>1, <1>5, <2>2
  <2> QED
    BY <2>1, <2>2, <2>3, <2>4, ApplyTrue
<1> HIDE DEF K
<1>6. Len(l) \in K
  BY <1>3, <1>4, <1>5, InductiveSet
<1> QED
  BY <1>2, <1>3, <1>6 DEF K

\* Lists of true events: none, one, one after the other, all but one.
LEMMA TrueOne ==
  ASSUME NEW C, NEW D, NEW n, NEW e, TrueEvent(e, C, D, n)
  PROVE  TrueList(<<e>>, C, D, n)
<1> DEFINE l == <<e>>
<1>1. l \in Seq({e}) /\ Len(l) = 1 /\ l[1] = e
  OBVIOUS
<1>2. \A i \in 1..Len(l) : l[i] = e
  BY <1>1
<1> HIDE DEF l
<1>3. TrueList(l, C, D, n)
  BY <1>1, <1>2 DEF TrueList
<1> QED
  BY <1>3 DEF l

\* A true list after another is one.
LEMMA TrueBoth ==
  ASSUME NEW C, NEW D, NEW n, NEW p, NEW q, TrueList(p, C, D, n), TrueList(q, C, D, n)
  PROVE  TrueList(p \o q, C, D, n)
<1>1. PICK S : p \in Seq(S) /\ \A i \in 1..Len(p) : TrueEvent(p[i], C, D, n)
  BY DEF TrueList
<1>2. PICK T : q \in Seq(T) /\ \A i \in 1..Len(q) : TrueEvent(q[i], C, D, n)
  BY DEF TrueList
<1>3. p \in Seq(S \cup T) /\ q \in Seq(S \cup T)
  BY <1>1, <1>2
<1>4. PICK l : l = p \o q
  OBVIOUS
<1>5. /\ l \in Seq(S \cup T) /\ Len(l) = Len(p) + Len(q)
      /\ \A i \in 1..Len(p) : l[i] = p[i]
      /\ \A i \in 1..Len(l) : i > Len(p) => l[i] = q[i - Len(p)]
  BY <1>3, <1>4
<1>6. Len(p) \in Nat /\ Len(q) \in Nat
  BY <1>1, <1>2
<1>7. ASSUME NEW i \in 1..Len(l) PROVE TrueEvent(l[i], C, D, n)
  <2>1. CASE i <= Len(p)
    <3>1. i \in 1..Len(p)
      BY <1>6, <2>1
    <3> QED
      BY <1>1, <1>5, <3>1
  <2>2. CASE i > Len(p)
    <3>1. i - Len(p) \in 1..Len(q)
      BY <1>5, <1>6, <2>2
    <3> QED
      BY <1>2, <1>5, <2>2, <3>1
  <2> QED
    BY <1>6, <2>1, <2>2
<1> QED
  BY <1>4, <1>5, <1>7 DEF TrueList

\* A true list without one of its events is one.
LEMMA TrueWithout ==
  ASSUME NEW C, NEW D, NEW n, NEW l, TrueList(l, C, D, n), NEW k \in DOMAIN l
  PROVE  TrueList(RemoveAt(l, k), C, D, n)
<1>1. PICK T : l \in Seq(T) /\ \A i \in 1..Len(l) : TrueEvent(l[i], C, D, n)
  BY DEF TrueList
<1>2. k \in 1..Len(l) /\ Len(l) \in Nat
  BY <1>1
<1>3. TrueList(SubSeq(l, 1, k - 1), C, D, n)
  <2>1. PICK p : p = SubSeq(l, 1, k - 1)
    OBVIOUS
  <2>2. p \in Seq(T) /\ Len(p) = k - 1 /\ \A i \in 1..(k - 1) : p[i] = l[i]
    BY <1>1, <1>2, <2>1
  <2>3. \A i \in 1..Len(p) : i \in 1..Len(l) /\ p[i] = l[i]
    BY <1>2, <2>2
  <2> QED
    BY <1>1, <2>1, <2>2, <2>3 DEF TrueList
<1>4. TrueList(SubSeq(l, k + 1, Len(l)), C, D, n)
  <2>1. PICK p : p = SubSeq(l, k + 1, Len(l))
    OBVIOUS
  <2>2. p \in Seq(T) /\ Len(p) = Len(l) - k /\ \A i \in 1..(Len(l) - k) : p[i] = l[i + k]
    BY <1>1, <1>2, <2>1
  <2>3. \A i \in 1..Len(p) : i + k \in 1..Len(l) /\ p[i] = l[i + k]
    BY <1>2, <2>2
  <2>4. \A i \in 1..Len(p) : TrueEvent(p[i], C, D, n)
    BY <1>1, <2>3
  <2> QED
    BY <2>1, <2>2, <2>4 DEF TrueList
<1> QED
  BY <1>3, <1>4, TrueBoth DEF RemoveAt

\* So what is true stays true.
LEMMA TruthLasts ==
  ASSUME NEW C, NEW D, NEW n \in Nat, NEW E, NEW F, NEW k \in Nat,
         \A r \in Rounds : C[r] \subseteq E[r] /\ D[r] \subseteq F[r], n <= k
  PROVE  /\ \A t : TrueTables(t, C, D, n) => TrueTables(t, E, F, k)
         /\ \A e : TrueEvent(e, C, D, n) => TrueEvent(e, E, F, k)
         /\ \A l : TrueList(l, C, D, n) => TrueList(l, E, F, k)
<1>0. \A r \in Rounds : r < n => r < k
  BY RotationFacts
<1>1. ASSUME NEW t, TrueTables(t, C, D, n) PROVE TrueTables(t, E, F, k)
  <2>1. \A j \in DOMAIN t.contributions :
          \E m \in MemberSet, r \in Rounds :
            j = <<CircleAddress, m, r>> /\ m \in E[r]
    BY <1>1 DEF TrueTables
  <2>2. \A j \in DOMAIN t.payouts :
          \E r \in Rounds : /\ j = <<CircleAddress, r>> /\ r < k
                            /\ "recipient" \in DOMAIN t.payouts[j]
                            /\ t.payouts[j].recipient = members[r + 1]
    BY <1>0, <1>1 DEF TrueTables
  <2>3. \A d \in DOMAIN t.defaults : d.round \in Rounds /\ d.member \in F[d.round]
    BY <1>1 DEF TrueTables
  <2> QED
    BY <1>1, <2>1, <2>2, <2>3 DEF TrueTables
<1>2. \A e : TrueEvent(e, C, D, n) => TrueEvent(e, E, F, k)
  BY <1>0 DEF TrueEvent
<1>3. \A l : TrueList(l, C, D, n) => TrueList(l, E, F, k)
  BY <1>2 DEF TrueList
<1> QED
  BY <1>1, <1>2, <1>3

\* An event for each element of a list.
LEMMA TrueEach ==
  ASSUME NEW C, NEW D, NEW n, NEW M, NEW q \in Seq(M), NEW f,
         f = [i \in DOMAIN q |-> f[i]], \A i \in DOMAIN q : TrueEvent(f[i], C, D, n)
  PROVE  TrueList(f, C, D, n)
<1>1. PICK T : T = {f[i] : i \in DOMAIN q}
  OBVIOUS
<1>2. DOMAIN q = 1..Len(q) /\ Len(q) \in Nat
  OBVIOUS
<1>3. f \in Seq(T) /\ Len(f) = Len(q)
  <2>1. f \in [1..Len(q) -> T]
    BY <1>1, <1>2
  <2> QED
    BY <1>2, <2>1
<1> QED
  BY <1>2, <1>3 DEF TrueList

\* Events that say nothing of the history.
LEMMA TrueOther ==
  ASSUME NEW C, NEW D, NEW n, NEW e,
         e.name \in (Projected \cup Ignored)
                      \ {"contributed", "payout", "default", "exceptional_settlement"}
  PROVE  TrueEvent(e, C, D, n)
BY DEF TrueEvent

\* The events of a settlement.
LEMMA SettledIsTrue ==
  ASSUME NEW C, NEW D, NEW n, n \in Nat, NEW pot,
         round.round_index \in Rounds, round.round_index < n,
         round.recipient = members[round.round_index + 1]
  PROVE  TrueList(SettledEvents(pot), C, D, n)
<1>1. PICK s : s = [name |-> "score_updated", ledger |-> ledger,
                    member |-> round.recipient, score |-> awarded[round.recipient] + 1]
  OBVIOUS
<1>2. PICK p : p = Ev("payout", round.recipient, round.round_index, pot)
  OBVIOUS
<1>3. PICK z : z = IF round.round_index + 1 >= N
                     THEN Ev("completed", round.recipient, round.round_index, 0)
                     ELSE Ev("round_started", members[round.round_index + 2],
                             round.round_index + 1, 0)
  OBVIOUS
<1>4. TrueEvent(s, C, D, n)
  <2>1. s.name = "score_updated"
    BY <1>1
  <2> QED
    BY <2>1, TrueOther DEF Projected, Ignored
<1>5. TrueEvent(p, C, D, n)
  <2>1. /\ p.name = "payout" /\ p.circle = CircleAddress
        /\ p.round = round.round_index /\ p.member = round.recipient
    BY <1>2 DEF Ev
  <2> QED
    BY <2>1 DEF TrueEvent, Projected
<1>6. TrueEvent(z, C, D, n)
  <2>1. z.name \in {"completed", "round_started"}
    BY <1>3 DEF Ev
  <2> QED
    BY <2>1, TrueOther DEF Projected, Ignored
<1>7. SettledEvents(pot) = <<s, p>> \o <<z>>
  BY <1>1, <1>2, <1>3 DEF SettledEvents
<1>8. <<s, p>> = <<s>> \o <<p>>
  OBVIOUS
<1>9. TrueList(<<s>> \o <<p>>, C, D, n)
  BY <1>4, <1>5, TrueOne, TrueBoth
<1>10. TrueList(<<z>>, C, D, n)
  BY <1>6, TrueOne
<1>11. TrueList((<<s>> \o <<p>>) \o <<z>>, C, D, n)
  BY <1>9, <1>10, TrueBoth
<1> QED
  BY <1>7, <1>8, <1>11

\* A list of two true events.
LEMMA TrueTwo ==
  ASSUME NEW C, NEW D, NEW n, NEW d, NEW e, TrueEvent(d, C, D, n), TrueEvent(e, C, D, n)
  PROVE  TrueList(<<d, e>>, C, D, n)
<1> DEFINE l == <<d, e>>
<1>1. l \in Seq({d, e}) /\ Len(l) = 2 /\ l[1] = d /\ l[2] = e
  OBVIOUS
<1>2. \A i \in 1..Len(l) : l[i] = d \/ l[i] = e
  BY <1>1
<1> HIDE DEF l
<1>3. TrueList(l, C, D, n)
  BY <1>1, <1>2 DEF TrueList
<1> QED
  BY <1>3 DEF l

\* What an invocation publishes is true of the state it leaves.
LEMMA InvocationIsTrue ==
  ASSUME IndInv, Invocation
  PROVE  \E l : /\ Publish(l)
                /\ TrueList(l, contributed', defaulted', rounds_completed')
<1>0. PICK C, D, n : C = contributed' /\ D = defaulted' /\ n = rounds_completed'
  OBVIOUS
<1>1. TypeOK /\ RotationProgress
  BY DEF IndInv
<1>2. /\ round.round_index \in Rounds /\ round.round_index \in Nat
      /\ contributed \in [Rounds -> SUBSET MemberSet]
      /\ defaulted \in [Rounds -> SUBSET MemberSet]
  BY <1>1, RotationFacts DEF TypeOK, RoundState
<1>3. ASSUME NEW e, e.name \in {"initialized", "circle_created", "active", "joined",
                  "cancelled", "paused", "resumed", "collateral_released", "closed"}
      PROVE  TrueEvent(e, C, D, n) /\ TrueList(<<e>>, C, D, n)
  <2>1. TrueEvent(e, C, D, n)
    BY <1>3, TrueOther DEF Projected, Ignored
  <2> QED
    BY <2>1, TrueOne
<1>4. ASSUME NEW name, NEW m, NEW r, NEW x PROVE Ev(name, m, r, x).name = name
  BY DEF Ev
<1>5. TrueList(<<>>, C, D, n)
  <2>1. <<>> \in Seq({}) /\ \A i \in 1..Len(<<>>) : FALSE
    OBVIOUS
  <2> QED
    BY <2>1 DEF TrueList
<1>10. CASE initialize /\ Publish(InitializedEvents)
  <2>1. PICK d : d = [name |-> "initialized", circle |-> CircleAddress, ledger |-> ledger,
                      members |-> members, round_amount |-> round_amount]
    OBVIOUS
  <2>2. PICK e : e = [name |-> "circle_created", circle |-> CircleAddress,
                      ledger |-> ledger, creator |-> Creator]
    OBVIOUS
  <2>3. InitializedEvents = <<d, e>>
    BY <2>1, <2>2 DEF InitializedEvents
  <2>4. d.name = "initialized" /\ e.name = "circle_created"
    BY <2>1, <2>2
  <2>5. TrueList(InitializedEvents, C, D, n)
    <3>1. TrueEvent(d, C, D, n) /\ TrueEvent(e, C, D, n)
      BY <2>4, TrueOther DEF Projected, Ignored
    <3>2. TrueList(<<d, e>>, C, D, n)
      BY <3>1, TrueTwo
    <3> QED
      BY <2>3, <3>2
  <2>6. Publish(InitializedEvents)
    BY <1>10
  <2> QED
    BY <1>0, <2>5, <2>6
<1>11. ASSUME NEW a \in Address, join(a), Publish(JoinedEvents(a))
       PROVE  \E l : Publish(l) /\ TrueList(l, C, D, n)
  <2>0. PICK p : p = IF joined \cup {a} = MemberSet THEN <<Ev("active", a, 0, 0)>> ELSE <<>>
    OBVIOUS
  <2>a. PICK e : e = [name |-> "joined", circle |-> CircleAddress, ledger |-> ledger,
                      member |-> a, join_order |-> Cardinality(joined \cup {a}),
                      amount |-> CollateralDue]
    OBVIOUS
  <2>1. /\ JoinedEvents(a) = p \o <<e>>
        /\ e.name = "joined"
        /\ (p = <<>> \/ p = <<Ev("active", a, 0, 0)>>)
    BY <2>0, <2>a DEF JoinedEvents
  <2>2. TrueList(p, C, D, n)
    <3>1. PICK f : f = Ev("active", a, 0, 0)
      OBVIOUS
    <3>2. TrueList(<<f>>, C, D, n)
      BY <1>3, <1>4, <3>1
    <3> QED
      BY <1>5, <2>1, <3>1, <3>2
  <2>3. TrueList(<<e>>, C, D, n)
    BY <1>3, <2>1
  <2>4. TrueList(p \o <<e>>, C, D, n)
    BY <2>2, <2>3, TrueBoth
  <2> QED
    BY <1>11, <2>1, <2>4
<1>12. ASSUME NEW a \in Address, NEW name \in {"cancelled", "paused", "resumed"},
              Publish(<<Ev(name, a, 0, 0)>>)
       PROVE  \E l : Publish(l) /\ TrueList(l, C, D, n)
  BY <1>3, <1>4, <1>12
<1>13. ASSUME NEW a \in Address, contribute(a),
              Publish(<<Ev("contributed", a, round.round_index, round_amount)>>)
       PROVE  \E l : Publish(l) /\ TrueList(l, C, D, n)
  <2>1. PICK e : e = Ev("contributed", a, round.round_index, round_amount)
    OBVIOUS
  <2>2. /\ e.name = "contributed" /\ e.circle = CircleAddress
        /\ e.member = a /\ e.round = round.round_index
    BY <2>1 DEF Ev
  <2>3. a \in MemberSet /\ C = [contributed EXCEPT ![round.round_index] = @ \cup {a}]
    BY <1>0, <1>13 DEF contribute, ContributeChecks
  <2>4. a \in C[round.round_index]
    BY <1>2, <2>3
  <2>5. TrueEvent(e, C, D, n)
    BY <1>2, <2>2, <2>3, <2>4 DEF TrueEvent, Projected
  <2>6. TrueList(<<e>>, C, D, n)
    BY <2>5, TrueOne
  <2> QED
    BY <1>13, <2>1, <2>6
<1>14. ASSUME NEW m, NEW e, e = DefaultEvent(m), m \in D[round.round_index]
       PROVE  TrueEvent(e, C, D, n)
  <2>1. e.name = "default" /\ e.member = m /\ e.round = round.round_index
    BY <1>14 DEF DefaultEvent, Ev
  <2> QED
    BY <1>2, <1>14, <2>1 DEF TrueEvent, Projected
<1>15. ASSUME NEW a \in Address, mark_default(a), Publish(<<DefaultEvent(a)>>)
       PROVE  \E l : Publish(l) /\ TrueList(l, C, D, n)
  <2>1. PICK e : e = DefaultEvent(a)
    OBVIOUS
  <2>2. D = [defaulted EXCEPT ![round.round_index] = @ \cup {a}]
    BY <1>0, <1>15 DEF mark_default, MarkDefaultChecks, Penalise
  <2>3. a \in D[round.round_index]
    BY <1>2, <2>2
  <2>4. TrueList(<<e>>, C, D, n)
    BY <1>14, <2>1, <2>3, TrueOne
  <2> QED
    BY <1>15, <2>1, <2>4
<1>16. ASSUME NEW a \in Address, close(a), Publish(ClosedEvents(a))
       PROVE  \E l : Publish(l) /\ TrueList(l, C, D, n)
  <2>1. PICK q : q = InRotation({m \in MemberSet : collateral[m] > 0}) /\ q \in Seq(MemberSet)
    BY InRotationType
  <2>2. PICK f : f = [i \in DOMAIN q |-> Ev("collateral_released", q[i], 0, collateral[q[i]])]
    OBVIOUS
  <2>3. PICK e : ClosedEvents(a) = f \o <<e>> /\ e.name = "closed"
    <3>1. PICK e : e = [name |-> "closed", circle |-> CircleAddress, ledger |-> ledger,
                        member |-> a, amount |-> Total(collateral),
                        reason |-> IF status = "Completed" THEN "completed"
                                                           ELSE "cancelled"]
      OBVIOUS
    <3>2. ClosedEvents(a) = f \o <<e>>
      BY <2>1, <2>2, <3>1, Zenon DEF ClosedEvents
    <3>3. e.name = "closed"
      BY <3>1
    <3> QED
      BY <3>2, <3>3
  <2>4. \A i \in DOMAIN q : f[i].name = "collateral_released"
    BY <2>2, <1>4
  <2>5. ASSUME NEW i \in DOMAIN q PROVE TrueEvent(f[i], C, D, n)
    <3>1. PICK d : d = f[i]
      OBVIOUS
    <3>2. d.name = "collateral_released"
      BY <2>4, <3>1
    <3>3. TrueEvent(d, C, D, n)
      BY <3>2, TrueOther DEF Projected, Ignored
    <3> QED
      BY <3>1, <3>3
  <2>6. f = [i \in DOMAIN q |-> f[i]]
    BY <2>2
  <2>7. TrueList(f, C, D, n)
    BY <2>1, <2>5, <2>6, TrueEach
  <2>8. TrueList(f \o <<e>>, C, D, n)
    <3>1. TrueList(<<e>>, C, D, n)
      BY <1>3, <2>3
    <3> QED
      BY <2>7, <3>1, TrueBoth
  <2> QED
    BY <1>16, <2>3, <2>8
<1>17. CASE payout /\ Publish(SettledEvents(round_amount * N))
  <2>1. /\ n \in Nat /\ round.round_index < n
        /\ round.recipient = members[round.round_index + 1]
    <3>1. /\ status = "Active" /\ n = rounds_completed + 1
          /\ round.recipient = members[round.round_index + 1]
      BY <1>0, <1>17 DEF payout, PayoutChecks, RoundOpen, SettleAndAdvance
    <3>2. rounds_completed = round.round_index
      BY <1>1, <3>1 DEF RotationProgress
    <3> QED
      BY <1>2, <3>1, <3>2
  <2>2. PICK pot : pot = round_amount * N
    OBVIOUS
  <2>3. TrueList(SettledEvents(pot), C, D, n)
    BY <1>2, <2>1, SettledIsTrue
  <2> QED
    BY <1>0, <1>17, <2>2, <2>3
<1>18. CASE settle_round /\ Publish(ExceptionalEvents \o SettledEvents(SettlementPot))
  <2>1. /\ n \in Nat /\ round.round_index < n
        /\ round.recipient = members[round.round_index + 1]
        /\ D = [defaulted EXCEPT ![round.round_index] = @ \cup Delinquent]
    <3>1. /\ status = "Active" /\ n = rounds_completed + 1
          /\ D = [defaulted EXCEPT ![round.round_index] = @ \cup Delinquent]
      BY <1>0, <1>18 DEF settle_round, RoundOpen, SettleAndAdvance, Penalise
    <3>2. rounds_completed = round.round_index
          /\ round.recipient = members[round.round_index + 1]
      BY <1>1, <3>1 DEF RotationProgress
    <3> QED
      BY <1>2, <3>1, <3>2
  <2>2. PICK pot : pot = SettlementPot
    OBVIOUS
  <2>3. TrueList(SettledEvents(pot), C, D, n)
    BY <1>2, <2>1, SettledIsTrue
  <2>4. PICK q : q = InRotation(Delinquent) /\ q \in Seq(Delinquent)
    BY InRotationType
  <2>5. PICK f : f = [i \in DOMAIN q |-> DefaultEvent(q[i])]
    OBVIOUS
  <2>a. PICK e : e = [name |-> "exceptional_settlement", circle |-> CircleAddress,
                      ledger |-> ledger, member |-> round.recipient,
                      round |-> round.round_index, amount |-> SettlementPot,
                      defaulted_count |-> N - Cardinality(contributed[round.round_index])]
    OBVIOUS
  <2>6. /\ ExceptionalEvents = f \o <<e>> /\ e.name = "exceptional_settlement"
        /\ e.circle = CircleAddress /\ e.member = round.recipient
        /\ e.round = round.round_index
    <3>1. ExceptionalEvents = f \o <<e>>
      BY <2>4, <2>5, <2>a, Zenon DEF ExceptionalEvents
    <3> QED
      BY <2>a, <3>1
  <2>7. TrueEvent(e, C, D, n)
    BY <1>2, <2>1, <2>6 DEF TrueEvent, Projected
  <2>8. \A i \in DOMAIN q : q[i] \in Delinquent /\ f[i] = DefaultEvent(q[i])
    BY <2>4, <2>5
  <2>9. \A m \in Delinquent : m \in D[round.round_index]
    BY <1>2, <2>1
  <2>10. ASSUME NEW i \in DOMAIN q PROVE TrueEvent(f[i], C, D, n)
    <3>1. PICK d : d = f[i]
      OBVIOUS
    <3>2. PICK m : m = q[i]
      OBVIOUS
    <3> QED
      BY <1>14, <2>8, <2>9, <3>1, <3>2
  <2>11. f = [i \in DOMAIN q |-> f[i]]
    BY <2>5
  <2>12. TrueList(f, C, D, n)
    BY <2>4, <2>10, <2>11, TrueEach
  <2>13. TrueList(<<e>>, C, D, n)
    BY <2>7, TrueOne
  <2>14. TrueList(f \o <<e>>, C, D, n)
    BY <2>12, <2>13, TrueBoth
  <2>15. TrueList((f \o <<e>>) \o SettledEvents(pot), C, D, n)
    BY <2>3, <2>14, TrueBoth
  <2> QED
    BY <1>0, <1>18, <2>2, <2>6, <2>15
<1> QED
  BY <1>0, <1>10, <1>11, <1>12, <1>13, <1>15, <1>16, <1>17, <1>18 DEF Invocation

\* What the contract's records bear out.
True(t) == TrueTables(t, contributed, defaulted, rounds_completed)

\* What the tables hold is true, and every event on its way is.
TablesAreTrue ==
  /\ \E S : pending \in Seq(S)
  /\ True(tables)
  /\ \A i \in 1..Len(pending) :
       TrueList(pending[i], contributed, defaulted, rounds_completed)

\* Before the first invocation there is nothing to be untrue.
LEMMA TrueInit == EventInit => TablesAreTrue
<1> SUFFICES ASSUME EventInit PROVE TablesAreTrue
  OBVIOUS
<1>1. pending = <<>> /\ tables = EmptyTables
  BY DEF EventInit
<1>2. pending \in Seq({}) /\ 1..Len(pending) = {}
  BY <1>1
<1>3. True(tables)
  <2>1. /\ IsTables(tables)
        /\ DOMAIN tables.contributions = {} /\ DOMAIN tables.payouts = {}
        /\ DOMAIN tables.defaults = {}
    <3>1. PICK a, b : a = <<>> /\ b = EmptyBag /\ DOMAIN a = {} /\ DOMAIN b = {}
      <4>1. DOMAIN EmptyBag = {}
        BY DEF EmptyBag, SetToBag
      <4> QED
        BY <4>1
    <3>2. tables = [circles |-> a, circle_members |-> a, contributions |-> a,
                    payouts |-> a, defaults |-> b, circle_audit_events |-> a,
                    reputation |-> a]
      BY <1>1, <3>1, Zenon DEF EmptyTables
    <3> QED
      BY <3>1, <3>2 DEF IsTables
  <2> QED
    BY <2>1 DEF True, TrueTables
<1> QED
  BY <1>2, <1>3 DEF TablesAreTrue

\* No step of contract or indexer makes the tables untrue.
LEMMA TrueStep ==
  IndInv /\ TablesAreTrue /\ [EventNext]_allVars => TablesAreTrue'
<1> SUFFICES ASSUME IndInv, TablesAreTrue, [EventNext]_allVars PROVE TablesAreTrue'
  OBVIOUS
<1>0. PICK C, D, n : C = contributed' /\ D = defaulted' /\ n = rounds_completed'
  OBVIOUS
<1> DEFINE Now(t) == TrueTables(t, C, D, n)
           Said(l) == TrueList(l, C, D, n)
<1>1. [Next]_vars
  BY EventStepIsStep
<1>2. (\A t : True(t) => Now(t))
      /\ (\A l : TrueList(l, contributed, defaulted, rounds_completed) => Said(l))
  BY <1>0, <1>1, RecordsGrow, TruthLasts DEF True
<1>4. PICK P : pending \in Seq(P)
  BY DEF TablesAreTrue
<1>5. Now(tables) /\ \A i \in 1..Len(pending) : Said(pending[i])
  BY <1>2 DEF TablesAreTrue
<1> HIDE DEF Now, Said
<1>7. ASSUME pending # <<>>, pending' = Tail(pending)
      PROVE  /\ pending' \in Seq(P) /\ Said(Head(pending))
             /\ \A i \in 1..Len(pending') : Said(pending'[i])
  <2>1. /\ Head(pending) = pending[1] /\ 1 \in 1..Len(pending)
        /\ pending' \in Seq(P) /\ Len(pending') = Len(pending) - 1
        /\ \A i \in 1..Len(pending') : pending'[i] = pending[i + 1]
                                       /\ i + 1 \in 1..Len(pending)
    BY <1>4, <1>7
  <2> QED
    BY <1>5, <2>1
<1>8. ASSUME NEW l, Said(l), Deliver(l) PROVE Now(tables')
  <2>1. PICK s : s = [tables |-> tables, rejected |-> rejected]
    OBVIOUS
  <2>2. TrueState(s, C, D, n)
    BY <1>5, <2>1 DEF TrueState, Now
  <2>3. TrueState(Applied(s, l), C, D, n)
    BY <1>8, <2>2, AppliedTrue DEF Said
  <2>4. tables' = Applied(s, l).tables
    BY <1>8, <2>1 DEF Deliver
  <2> QED
    BY <2>3, <2>4 DEF TrueState, Now
<1>9. ASSUME EventNext
      PROVE  /\ \E T : pending' \in Seq(T)
             /\ Now(tables') /\ \A i \in 1..Len(pending') : Said(pending'[i])
  <2>1. CASE Invocation
    <3>1. PICK l : Publish(l) /\ TrueList(l, C, D, n)
      BY <1>0, <2>1, InvocationIsTrue
    <3>2. pending' = Append(pending, l) /\ tables' = tables /\ Said(l)
      BY <3>1 DEF Publish, Said
    <3>3. /\ pending' \in Seq(P \cup {l}) /\ Len(pending') = Len(pending) + 1
          /\ \A i \in 1..Len(pending') : i \in 1..Len(pending) \/ i = Len(pending) + 1
          /\ \A i \in 1..Len(pending) : pending'[i] = pending[i]
          /\ pending'[Len(pending) + 1] = l
      BY <1>4, <3>2
    <3> QED
      BY <1>5, <3>2, <3>3
  <2>2. CASE Quiet
    BY <1>4, <1>5, <2>2 DEF Quiet, eventVars
  <2>3. CASE Ingest
    <3>1. pending # <<>> /\ Deliver(Head(pending)) /\ pending' = Tail(pending)
      BY <2>3 DEF Ingest
    <3> QED
      BY <1>7, <1>8, <3>1
  <2>4. CASE IngestLosing
    <3>1. pending # <<>> /\ pending' = Tail(pending)
      BY <2>4 DEF IngestLosing
    <3>2. PICK i \in DOMAIN Head(pending) : Deliver(RemoveAt(Head(pending), i))
      BY <2>4 DEF IngestLosing
    <3>3. Said(Head(pending))
      BY <1>7, <3>1
    <3>4. Said(RemoveAt(Head(pending), i))
      BY <3>3, TrueWithout DEF Said
    <3> QED
      BY <1>7, <1>8, <3>1, <3>2, <3>4
  <2> QED
    BY <1>9, <2>1, <2>2, <2>3, <2>4 DEF EventNext
<1>10. CASE EventNext
  BY <1>0, <1>9, <1>10 DEF TablesAreTrue, True, Now, Said
<1>11. CASE UNCHANGED allVars
  <2>1. UNCHANGED <<pending, tables>>
    BY <1>11 DEF allVars, eventVars
  <2> QED
    BY <1>0, <1>4, <1>5, <2>1 DEF TablesAreTrue, True, Now, Said
<1> QED
  BY <1>10, <1>11

-----------------------------------------------------------------------------
(* The tools: what a run knows.                                            *)

\* Nobody has moved since run t of a tool began, nothing is pending, and nothing
\* else has made the tables.
Undisturbed(t) == t.moves = 0 /\ ~Lagging /\ altered = {}

\* What a difference report may invent: the status of a closed circle, and the
\* collateral of a member that close or a penalty has taken it from.
Invented(d) ==
  \/ d.field = "status" /\ closed
  \/ d.field = "collateral" /\ (closed \/ \E r \in Rounds : d.member \in defaulted[r])

Fields == {"status", "current_round", "collateral", "defaults", "score"}

\* A list of differences that invents no more.
IsReport(l, undisturbed) ==
  \E S : /\ l \in Seq(S)
         /\ \A d \in S : d.field \in Fields /\ (undisturbed => Invented(d))

\* What each stage of a run knows, as long as nobody has moved.
Seen(t) ==
  /\ t.pc \in {"cursor", "head", "views", "rows", "round", "canonical"} =>
       Indexed /\ t.row = Row
  /\ t.pc = "head" => t.behind = Lagging
  /\ t.pc \in {"views", "rows", "round"} =>
       t.class \in {"drift", "possibly_stale"} /\ (t.class = "drift" => ~Lagging)
  /\ t.pc \in {"rows", "round"} => t.chain = ChainViews
  /\ t.pc = "round" => t.members = tables.circle_members /\ t.payouts = tables.payouts
  /\ t.pc \in {"members", "member"} => Indexed
  /\ t.pc = "member" => t.rows = tables.circle_members

\* What the diagnostic has told of a circle that has not moved since.
Told(t) ==
  /\ t.outcome = "match" =>
       /\ Row.status = RowStatus /\ Row.paused = paused
       /\ HasCurrentRound => Row.current_round = rounds_completed
       /\ PaidRounds = SettledRounds
  /\ t.outcome = "mismatch" => Lagging \/ altered # {}
  /\ t.class = "drift" => ~Lagging /\ altered # {}

\* The run in progress.
RunInv(t) ==
  /\ "pc" \in DOMAIN t
  /\ t.pc # "idle" => "moves" \in DOMAIN t /\ t.moves \in Nat
  /\ (t.pc # "idle" /\ t.moves = 0) => Seen(t) /\ (t.pc = "told" => Told(t))
  /\ t.pc = "member" => /\ "todo" \in DOMAIN t /\ "rows" \in DOMAIN t
                        /\ t.todo \in Seq(MemberSet) /\ t.todo # <<>>
  /\ t.pc \in {"members", "member", "report"} =>
       "differences" \in DOMAIN t /\ IsReport(t.differences, Undisturbed(t))

\* A list of differences of a set that invents no more is a report.
LEMMA ReportFrom ==
  ASSUME NEW S, NEW l \in Seq(S), NEW u,
         \A d \in S : d.field \in Fields /\ (u => Invented(d))
  PROVE  IsReport(l, u)
  BY DEF IsReport

\* No difference at all.
LEMMA ReportEmpty == \A u \in BOOLEAN : IsReport(<<>>, u)
<1> SUFFICES ASSUME NEW u \in BOOLEAN PROVE IsReport(<<>>, u)
  OBVIOUS
<1>1. PICK l, S : l = <<>> /\ S = {} /\ l \in Seq(S)
  <2>1. <<>> \in Seq({})
    OBVIOUS
  <2> QED
    BY <2>1
<1>2. \A d \in S : d.field \in Fields /\ (u => Invented(d))
  BY <1>1
<1> QED
  BY <1>1, <1>2, ReportFrom

\* One field.
LEMMA ReportOf ==
  ASSUME NEW f \in Fields, NEW m, NEW a, NEW b, NEW u \in BOOLEAN,
         (u /\ a # b) => Invented([field |-> f, member |-> m, indexed |-> a, canonical |-> b])
  PROVE  IsReport(Difference(f, m, a, b), u)
<1>1. CASE a = b
  BY <1>1, ReportEmpty DEF Difference
<1>2. CASE a # b
  <2>1. PICK d : d = [field |-> f, member |-> m, indexed |-> a, canonical |-> b]
    OBVIOUS
  <2>2. PICK l, S : l = Difference(f, m, a, b) /\ S = {d} /\ l \in Seq(S)
    <3>1. Difference(f, m, a, b) = <<d>> /\ <<d>> \in Seq({d})
      BY <1>2, <2>1 DEF Difference
    <3> QED
      BY <3>1
  <2>3. \A e \in S : e.field \in Fields /\ (u => Invented(e))
    BY <1>2, <2>1, <2>2
  <2> QED
    BY <2>2, <2>3, ReportFrom
<1> QED
  BY <1>1, <1>2

\* One list after another.
LEMMA ReportThen ==
  ASSUME NEW u, NEW k, NEW l, IsReport(k, u), IsReport(l, u)
  PROVE  IsReport(k \o l, u)
<1>1. PICK S : k \in Seq(S) /\ \A d \in S : d.field \in Fields /\ (u => Invented(d))
  BY DEF IsReport
<1>2. PICK T : l \in Seq(T) /\ \A d \in T : d.field \in Fields /\ (u => Invented(d))
  BY DEF IsReport
<1>3. k \o l \in Seq(S \cup T)
  <2>1. k \in Seq(S \cup T) /\ l \in Seq(S \cup T)
    BY <1>1, <1>2
  <2> QED
    BY <2>1
<1> QED
  BY <1>1, <1>2, <1>3 DEF IsReport

\* A list that is there only if its entity could be read.
LEMMA ReportIfRead ==
  ASSUME NEW u \in BOOLEAN, NEW l, NEW r \in BOOLEAN, r => IsReport(l, u)
  PROVE  IsReport(IfRead(r, l), u)
  BY ReportEmpty DEF IfRead

\* Once somebody has moved, a report need not be anything but well formed.
LEMMA ReportLater ==
  ASSUME NEW u, NEW l, IsReport(l, u)
  PROVE  IsReport(l, FALSE)
  BY DEF IsReport

\* All but the first.
LEMMA ReportRest ==
  ASSUME NEW u, NEW l, IsReport(l, u), l # <<>>
  PROVE  IsReport(Tail(l), u) /\ Head(l).field \in Fields
<1>1. PICK S : l \in Seq(S) /\ \A d \in S : d.field \in Fields /\ (u => Invented(d))
  BY DEF IsReport
<1>2. Tail(l) \in Seq(S) /\ Head(l) \in S
  BY <1>1
<1> QED
  BY <1>1, <1>2 DEF IsReport

-----------------------------------------------------------------------------
(* The tools: what the contract and the tables have in common.             *)

\* Tables that have caught up follow the contract.
LEMMA CaughtUpFollows ==
  ASSUME IndInv, Complete, EventInv, ~Lagging, altered = {}, Indexed
  PROVE  status # "Uninitialized" /\ FollowsContract(tables) /\ Whole(tables)
<1>1. PICK g : Ahead(g)
  BY DEF EventInv
<1>2. pending = <<>> /\ Len(pending) = 0
  BY DEF Lagging
<1>3. PICK t : g[0] = At(t) /\ UpToContract(t)
  BY <1>1, <1>2 DEF Ahead
<1>4. At(t) = [tables |-> tables, rejected |-> rejected]
  BY <1>1, <1>3 DEF Ahead
<1>5. t = tables
  BY <1>4 DEF At
<1>6. DOMAIN EmptyTables.circles = {}
  BY DEF EmptyTables
<1>7. status # "Uninitialized" /\ FollowsContract(tables)
  BY <1>3, <1>5, <1>6 DEF UpToContract, Indexed
<1>8. Sound(tables)
  BY <1>3, <1>5, FollowingIsWhole
<1> QED
  BY <1>7, <1>8 DEF Sound, Indexed

\* There are as many payouts as rounds that have one.
LEMMA PayoutsCount ==
  ASSUME NEW P, NEW n \in 0..N,
         \A k \in P : \E r \in Rounds : k = <<CircleAddress, r>> /\ r < n
  PROVE  /\ IsFiniteSet(P) /\ {k[2] : k \in P} \subseteq 0..(n - 1)
         /\ Cardinality(P) = Cardinality({k[2] : k \in P})
         /\ Cardinality(P) = n => {k[2] : k \in P} = 0..(n - 1)
         /\ {k[2] : k \in P} = 0..(n - 1) => Cardinality(P) = n
<1> DEFINE S == 0..(n - 1)
           f == [k \in P |-> k[2]]
           K == {f[k] : k \in P}
<1>0. n \in Nat /\ \A r \in Rounds : r < n => r \in S
  BY RotationFacts DEF Rounds
<1>1. IsFiniteSet(S) /\ Cardinality(S) = n
  BY <1>0, FS_Interval
<1>2. K \subseteq S /\ \A j, k \in P : f[j] = f[k] => j = k
  BY <1>0
<1>3. IsFiniteSet(P)
  <2> DEFINE g == [r \in S |-> <<CircleAddress, r>>]
             L == {g[r] : r \in S}
  <2>1. DOMAIN g = S /\ \A r, s \in S : g[r] = g[s] => r = s
    OBVIOUS
  <2>2. P \subseteq L
    BY <1>0
  <2> HIDE DEF g, S, L
  <2>3. IsFiniteSet({g[r] : r \in S})
    BY <1>1, <2>1, KeysCount
  <2>4. IsFiniteSet(L)
    BY <2>3 DEF L
  <2> QED
    BY <2>2, <2>4, FS_Subset
<1>4. DOMAIN f = P /\ K = {k[2] : k \in P}
  OBVIOUS
<1> HIDE DEF f
<1>5. Cardinality({f[k] : k \in P}) = Cardinality(P)
  BY <1>2, <1>3, <1>4, KeysCount
<1>6. Cardinality(K) = Cardinality(P)
  BY <1>5
<1> HIDE DEF K, S
<1>7. K # S => Cardinality(K) < Cardinality(S)
  <2>1. IsFiniteSet(K)
    BY <1>1, <1>2, FS_Subset
  <2> QED
    BY <1>1, <1>2, <2>1, FS_Subset, FS_CardinalityType
<1>8. Cardinality(P) = n => K = S
  BY <1>1, <1>6, <1>7
<1>9. K = S => Cardinality(P) = n
  BY <1>1, <1>6
<1> QED
  BY <1>2, <1>3, <1>4, <1>6, <1>8, <1>9 DEF S

\* A deposit that no penalty and no close has touched is all there.
LEMMA DepositIsWhole ==
  ASSUME IndInv, PenaltyLedger, ~closed, NEW m \in MemberSet,
         \A r \in Rounds : m \notin defaulted[r]
  PROVE  collateral[m] = IF m \in joined THEN CollateralDue ELSE 0
<1>1. CASE m \in joined
  <2>1. {r \in Rounds : m \in defaulted[r]} = {}
    OBVIOUS
  <2>2. defaults[m] = 0
    BY <2>1, FS_EmptySet DEF PenaltyLedger
  <2>3. Remaining[0] = CollateralDue
    BY RemainingIs DEF IsLeft
  <2> QED
    BY <1>1, <2>2, <2>3 DEF PenaltyLedger
<1>2. CASE m \notin joined
  BY <1>2 DEF IndInv, RecordsInOrder
<1> QED
  BY <1>1, <1>2

\* The fields that the diagnostic compares, one by one.
LEMMA NothingDiffers ==
  ASSUME NEW t, NEW R,
         \A i \in Rounds : t.members[<<CircleAddress, members[i + 1]>>].payout_order = i,
         StatusAgrees(t.row, t.chain), t.row.paused = t.chain.paused,
         \A r \in R : t.row.current_round = r,
         \A n \in ExpectedPayouts(t.chain, R) : Cardinality(DOMAIN t.payouts) = n,
         \A k \in DOMAIN t.payouts : t.payouts[k].recipient = members[k[2] + 1],
         \A k \in DOMAIN t.payouts :
           ~t.payouts[k].is_exceptional => t.payouts[k].amount = round_amount * N
  PROVE  Mismatches(t, R) = {}
  BY DEF Mismatches

\* And the other way round.
LEMMA NothingDiffered ==
  ASSUME NEW t, NEW R, Mismatches(t, R) = {}
  PROVE  /\ StatusAgrees(t.row, t.chain) /\ t.row.paused = t.chain.paused
         /\ \A r \in R : t.row.current_round = r
         /\ \A n \in ExpectedPayouts(t.chain, R) : Cardinality(DOMAIN t.payouts) = n
<1> DEFINE Fs == {"member_order", "status", "paused", "current_round", "payout_count",
          "payout_recipient", "payout_amount"}
           P(f) == CASE f = "member_order" ->
            \E i \in Rounds : t.members[<<CircleAddress, members[i + 1]>>].payout_order # i
       [] f = "status" -> ~StatusAgrees(t.row, t.chain)
       [] f = "paused" -> t.row.paused # t.chain.paused
       [] f = "current_round" -> \E r \in R : t.row.current_round # r
       [] f = "payout_count" ->
            \E n \in ExpectedPayouts(t.chain, R) :
              Cardinality(DOMAIN t.payouts) # n
       [] f = "payout_recipient" ->
            \E k \in DOMAIN t.payouts : t.payouts[k].recipient # members[k[2] + 1]
       [] f = "payout_amount" ->
            \E k \in DOMAIN t.payouts :
              /\ ~t.payouts[k].is_exceptional
              /\ t.payouts[k].amount # round_amount * N
<1>1. \A f \in Fs : ~P(f)
  BY DEF Mismatches
<1>2. ~P("status") /\ ~P("paused") /\ ~P("current_round") /\ ~P("payout_count")
  <2> HIDE DEF P
  <2> QED
    BY <1>1
<1> QED
  BY <1>2

\* What the diagnostic concludes from a circle that has not moved is so: a match,
\* because no payout is untrue.
LEMMA MatchIsTrue ==
  ASSUME IndInv, TablesAreTrue, NEW t, NEW R,
         t.row = Row, t.chain = ChainViews, t.payouts = tables.payouts,
         R = IF HasCurrentRound THEN {round.round_index} ELSE {},
         Mismatches(t, R) = {}
  PROVE  /\ Row.status = RowStatus /\ Row.paused = paused
         /\ HasCurrentRound => Row.current_round = rounds_completed
         /\ PaidRounds = SettledRounds
<1>0. TypeOK /\ RotationProgress /\ RecordsInOrder
  BY DEF IndInv
<1>1. /\ StatusAgrees(t.row, t.chain) /\ t.row.paused = t.chain.paused
      /\ \A r \in R : t.row.current_round = r
      /\ \A n \in ExpectedPayouts(t.chain, R) : Cardinality(DOMAIN t.payouts) = n
  BY NothingDiffered
<1>2. ChainViews.status = status /\ ChainViews.closed = closed /\ ChainViews.paused = paused
  BY DEF ChainViews
<1>3. Row.status = RowStatus /\ Row.paused = paused
  BY <1>1, <1>2 DEF StatusAgrees, RowStatus
<1>4. HasCurrentRound => round.round_index = rounds_completed
  BY <1>0 DEF HasCurrentRound, RotationProgress, RecordsInOrder
<1>5. HasCurrentRound => Row.current_round = rounds_completed
  BY <1>1, <1>4
<1>6. rounds_completed \in 0..N
  <2>1. round.round_index \in Rounds
    BY <1>0 DEF TypeOK, RoundState
  <2>2. status \in {"Active", "Completed"} => rounds_completed = round.round_index \/ rounds_completed = N
    BY <1>0 DEF RotationProgress
  <2>3. status \notin {"Active", "Completed"} => rounds_completed = 0
    BY <1>0 DEF RotationProgress
  <2> QED
    BY <1>0, <2>1, <2>2, <2>3, RotationFacts DEF TypeOK, Rounds
<1>7. \A k \in DOMAIN tables.payouts :
        \E r \in Rounds : k = <<CircleAddress, r>> /\ r < rounds_completed
  BY DEF TablesAreTrue, True, TrueTables
<1>8. PICK P : P = DOMAIN tables.payouts
  OBVIOUS
<1>9. /\ {k[2] : k \in P} \subseteq 0..(rounds_completed - 1)
      /\ Cardinality(P) = rounds_completed => {k[2] : k \in P} = 0..(rounds_completed - 1)
  BY <1>6, <1>7, <1>8, PayoutsCount
<1>10. PaidRounds \subseteq SettledRounds
       /\ (Cardinality(P) = rounds_completed => PaidRounds = SettledRounds)
  BY <1>8, <1>9 DEF PaidRounds, SettledRounds
<1>11. PaidRounds = SettledRounds
  <2>1. CASE status = "Completed"
    <3>1. rounds_completed = N
      BY <1>0, <2>1 DEF RotationProgress
    <3>2. N \in ExpectedPayouts(t.chain, R)
      BY <1>2, <2>1 DEF ExpectedPayouts
    <3> QED
      BY <1>1, <1>8, <1>10, <3>1, <3>2
  <2>2. CASE status = "Cancelled"
    <3>1. rounds_completed = 0
      BY <1>0, <2>2 DEF RotationProgress
    <3>2. 0 \in ExpectedPayouts(t.chain, R)
      BY <1>2, <2>2 DEF ExpectedPayouts
    <3> QED
      BY <1>1, <1>8, <1>10, <3>1, <3>2
  <2>3. CASE HasCurrentRound
    <3>1. rounds_completed \in ExpectedPayouts(t.chain, R)
      BY <1>2, <1>4, <2>3 DEF ExpectedPayouts, HasCurrentRound
    <3> QED
      BY <1>1, <1>8, <1>10, <3>1
  <2>4. CASE status = "Uninitialized"
    <3>1. rounds_completed = 0
      BY <1>0, <2>4 DEF RotationProgress
    <3>2. SettledRounds = {}
      BY <3>1 DEF SettledRounds
    <3> QED
      BY <1>10, <3>2
  <2> QED
    BY <1>0, <2>1, <2>2, <2>3, <2>4 DEF TypeOK, CircleStatus, HasCurrentRound
<1> QED
  BY <1>3, <1>5, <1>11

\* And tables that have caught up follow the contract.
LEMMA MismatchIsTrue ==
  ASSUME IndInv, Complete, EventInv, ~Lagging, altered = {}, Indexed, NEW t, NEW R,
         t.row = Row, t.chain = ChainViews, t.payouts = tables.payouts,
         t.members = tables.circle_members,
         R \subseteq {round.round_index}, R # {} => HasCurrentRound
  PROVE  Mismatches(t, R) = {}
<1>0. TypeOK /\ RotationProgress /\ RecordsInOrder
  BY DEF IndInv
<1>1. status # "Uninitialized" /\ FollowsContract(tables) /\ Whole(tables)
  BY CaughtUpFollows
<1>2. ChainViews.status = status /\ ChainViews.closed = closed /\ ChainViews.paused = paused
  BY DEF ChainViews
<1>3. Row.status = RowStatus /\ Row.paused = paused /\ Row.current_round = rounds_completed
  <2>1. RowFollows
    BY <1>0, <1>1, FollowingIsEnough
  <2> QED
    BY <2>1 DEF RowFollows
<1>4. HasCurrentRound => round.round_index = rounds_completed
  BY <1>0 DEF HasCurrentRound, RotationProgress, RecordsInOrder
<1>5. StatusAgrees(t.row, t.chain) /\ t.row.paused = t.chain.paused
  <2>1. status # "Closed" /\ (closed => status \in {"Completed", "Cancelled"})
    BY <1>0 DEF TypeOK, CircleStatus, Complete, ClosedIsOver
  <2> QED
    BY <1>2, <1>3, <2>1 DEF StatusAgrees, RowStatus
<1>6. \A r \in R : t.row.current_round = r
  BY <1>3, <1>4
<1>7. \A i \in Rounds : t.members[<<CircleAddress, members[i + 1]>>].payout_order = i
  <2>1. \A i \in 1..N : tables.circle_members[<<CircleAddress, members[i]>>].payout_order = i - 1
    BY <1>1 DEF Whole, WholeMembers
  <2>2. \A i \in Rounds : i + 1 \in 1..N /\ (i + 1) - 1 = i
    BY RotationFacts DEF Rounds
  <2> QED
    BY <2>1, <2>2
<1>8. /\ DOMAIN tables.payouts = {<<CircleAddress, r>> : r \in 0..(rounds_completed - 1)}
      /\ \A r \in 0..(rounds_completed - 1) :
           LET p == tables.payouts[<<CircleAddress, r>>]
               missing == N - Cardinality(contributed[r])
           IN  /\ p.recipient = members[r + 1]
               /\ p.amount = round_amount * Cardinality(contributed[r])
               /\ p.is_exceptional = (missing > 0)
  BY <1>1 DEF FollowsContract, FollowsPayouts
<1>9. rounds_completed \in 0..N /\ contributed \in [Rounds -> SUBSET MemberSet]
  <2>1. round.round_index \in Rounds
    BY <1>0 DEF TypeOK, RoundState
  <2>2. status \in {"Active", "Completed"} => rounds_completed = round.round_index \/ rounds_completed = N
    BY <1>0 DEF RotationProgress
  <2>3. status \notin {"Active", "Completed"} => rounds_completed = 0
    BY <1>0 DEF RotationProgress
  <2> QED
    BY <1>0, <2>1, <2>2, <2>3, RotationFacts DEF TypeOK, Rounds
<1>10. \A n \in ExpectedPayouts(t.chain, R) : Cardinality(DOMAIN t.payouts) = n
  <2>1. \A r \in 0..(rounds_completed - 1) : r \in Rounds /\ r < rounds_completed
    BY <1>9, RotationFacts DEF Rounds
  <2>2. PICK P : P = DOMAIN tables.payouts
    OBVIOUS
  <2>3. \A k \in P : \E r \in Rounds : k = <<CircleAddress, r>> /\ r < rounds_completed
    BY <1>8, <2>1, <2>2
  <2>4. {k[2] : k \in P} = 0..(rounds_completed - 1)
    <3>1. \A r \in 0..(rounds_completed - 1) :
            <<CircleAddress, r>> \in P /\ <<CircleAddress, r>>[2] = r
      BY <1>8, <2>2
    <3>2. \A k \in P : k[2] \in 0..(rounds_completed - 1)
      BY <1>8, <2>2
    <3> QED
      BY <3>1, <3>2
  <2>5. Cardinality(P) = rounds_completed
    BY <1>9, <2>3, <2>4, PayoutsCount
  <2>6. ExpectedPayouts(t.chain, R) \subseteq {rounds_completed}
    <3>1. status = "Completed" => rounds_completed = N
      BY <1>0 DEF RotationProgress
    <3>2. status = "Cancelled" => rounds_completed = 0
      BY <1>0 DEF RotationProgress
    <3> QED
      BY <1>2, <1>4, <3>1, <3>2 DEF ExpectedPayouts
  <2> QED
    BY <2>2, <2>5, <2>6
<1>11. \A k \in DOMAIN t.payouts :
         /\ t.payouts[k].recipient = members[k[2] + 1]
         /\ ~t.payouts[k].is_exceptional => t.payouts[k].amount = round_amount * N
  <2> SUFFICES ASSUME NEW r \in 0..(rounds_completed - 1)
               PROVE  LET p == tables.payouts[<<CircleAddress, r>>]
                      IN  /\ p.recipient = members[r + 1]
                          /\ ~p.is_exceptional => p.amount = round_amount * N
    BY <1>8
  <2>1. contributed[r] \subseteq MemberSet
    BY <1>9, RotationFacts DEF Rounds
  <2>2. Cardinality(contributed[r]) \in Nat /\ Cardinality(contributed[r]) <= N
    BY <2>1, MembersFinite, FS_Subset, FS_CardinalityType
  <2>3. N - Cardinality(contributed[r]) > 0 \/ Cardinality(contributed[r]) = N
    BY <2>2, RotationFacts
  <2> QED
    BY <1>8, <2>3
<1> QED
  BY <1>5, <1>6, <1>7, <1>10, <1>11, NothingDiffers

\* The run after a step is what the step makes of it.
LEMMA RunIs ==
  ASSUME NEW t, tool' = t, RunInv(t)'
  PROVE  RunInv(tool)'
  OBVIOUS

\* A tool reads, and changes nothing else: what its run knows is known before
\* the step as after it.
LEMMA ToolMoves ==
  ASSUME NEW t, tool' = t, UNCHANGED allVars, RunInv(t)
  PROVE  RunInv(tool)'
<1>1. Seen(t) <=> Seen(t)'
  BY DEF Seen, Indexed, Row, Lagging, ChainViews, allVars, vars, eventVars, contractVars, repVars
<1>2. Told(t) <=> Told(t)'
  BY DEF Told, Row, RowStatus, HasCurrentRound, PaidRounds, SettledRounds, Lagging, allVars, vars,
     eventVars, contractVars, repVars
<1>3. \A l, u : IsReport(l, u) <=> IsReport(l, u)'
  BY DEF IsReport, Invented, allVars, vars, eventVars, contractVars, repVars
<1>4. IsReport(t.differences, Undisturbed(t)) => IsReport(t.differences, Undisturbed(t))'
  <2>1. Undisturbed(t) = Undisturbed(t)'
    BY DEF Undisturbed, Lagging, allVars, eventVars
  <2>2. PICK l, u : l = t.differences /\ u = Undisturbed(t)
    OBVIOUS
  <2> QED
    BY <1>3, <2>1, <2>2
<1>5. RunInv(t)'
  BY <1>1, <1>2, <1>3, <1>4 DEF RunInv
<1> QED
  BY <1>5, RunIs

\* The others move: a run that was disturbed is only well formed.
LEMMA OthersMove ==
  ASSUME RunInv(tool), tool.pc # "idle",
         \/ tool' = [tool EXCEPT !.moves = @ + 1]
         \/ tool.pc = "head" /\ tool' = [tool EXCEPT !.moves = @ + 1, !.behind = TRUE]
  PROVE  RunInv(tool)'
<1>1. /\ "pc" \in DOMAIN tool /\ "moves" \in DOMAIN tool /\ tool.moves \in Nat
      /\ tool.pc = "member" => "todo" \in DOMAIN tool /\ "differences" \in DOMAIN tool
                               /\ tool.todo \in Seq(MemberSet) /\ tool.todo # <<>>
      /\ tool.pc \in {"members", "member", "report"} =>
           IsReport(tool.differences, Undisturbed(tool)) /\ "differences" \in DOMAIN tool
  BY DEF RunInv
<1>2. /\ DOMAIN tool' = DOMAIN tool /\ tool'.pc = tool.pc
      /\ tool'.moves = tool.moves + 1 /\ tool'.moves \in Nat /\ tool'.moves # 0
      /\ tool.pc = "member" => tool'.todo = tool.todo /\ tool'.differences = tool.differences
      /\ tool.pc \in {"members", "member", "report"} => tool'.differences = tool.differences
  <2>1. CASE tool' = [tool EXCEPT !.moves = @ + 1]
    BY <1>1, <2>1
  <2>2. CASE tool.pc = "head" /\ tool' = [tool EXCEPT !.moves = @ + 1, !.behind = TRUE]
    BY <1>1, <2>2
  <2> QED
    BY <2>1, <2>2
<1>3. ~Undisturbed(tool)'
  BY <1>2 DEF Undisturbed
<1>4. \A l : IsReport(l, Undisturbed(tool)) => IsReport(l, FALSE)
  BY ReportLater
<1>5. tool.pc \in {"members", "member", "report"} =>
        IsReport(tool.differences, Undisturbed(tool))'
  <2>1. PICK l, u : l = tool'.differences /\ u = Undisturbed(tool)'
    OBVIOUS
  <2>2. tool.pc \in {"members", "member", "report"} => IsReport(tool.differences, FALSE)
    BY <1>1, <1>4
  <2>3. tool.pc \in {"members", "member", "report"} => IsReport(l, FALSE)
    BY <1>2, <2>1, <2>2
  <2>4. ~u
    BY <1>3, <2>1
  <2>5. tool.pc \in {"members", "member", "report"} => IsReport(l, u)'
    BY <2>3, <2>4 DEF IsReport
  <2> QED
    BY <2>1, <2>5
<1> QED
  BY <1>1, <1>2, <1>5 DEF RunInv

-----------------------------------------------------------------------------
(* The tools: the diagnostic.                                              *)

\* The diagnostic: each of its steps knows what it has read, and concludes what
\* is so.
LEMMA CircleReportStep ==
  ASSUME IndInv, Complete, EventInv, TablesAreTrue, RunInv(tool), CircleReport
  PROVE  RunInv(tool)'
<1>0. UNCHANGED allVars
  BY DEF CircleReport, ReadRow, ReadCursor, ReadHead, ReadViews, ReadRows, ReadRound
<1>1. PICK t : tool' = t
  OBVIOUS
<1>2. tool.pc # "idle" => tool.moves \in Nat
  BY DEF RunInv
<1>3. ASSUME tool.pc \in Diagnosing, Tell("rpc_unavailable", "") PROVE RunInv(tool)'
  <2>0. PICK none : none = ""
    OBVIOUS
  <2>1. /\ t = [pc |-> "told", moves |-> tool.moves, outcome |-> "rpc_unavailable",
                class |-> none]
        /\ none # "drift"
    BY <1>1, <1>3, <2>0 DEF Tell
  <2>2. tool.moves \in Nat
    BY <1>2, <1>3 DEF Diagnosing
  <2>3. /\ "pc" \in DOMAIN t /\ "moves" \in DOMAIN t /\ t.pc = "told"
        /\ t.moves \in Nat /\ t.outcome = "rpc_unavailable" /\ t.class # "drift"
    BY <2>1, <2>2
  <2>4. RunInv(t)
    BY <2>3 DEF RunInv, Seen, Told
  <2> QED
    BY <1>0, <1>1, <2>4, ToolMoves
<1>4. CASE ReadRow
  <2>1. CASE Indexed
    <3>1. t = [pc |-> "cursor", moves |-> 0, row |-> Row]
      BY <1>1, <1>4, <2>1 DEF ReadRow
    <3> QED
      BY <1>0, <1>1, <2>1, <3>1, ToolMoves DEF RunInv, Seen
  <2>2. CASE ~Indexed
    <3>1. t = [pc |-> "told", moves |-> 0, outcome |-> "not_indexed", class |-> ""]
      BY <1>1, <1>4, <2>2 DEF ReadRow
    <3>2. RunInv(t)
      BY <3>1 DEF RunInv, Seen, Told
    <3> QED
      BY <1>0, <1>1, <3>2, ToolMoves
  <2> QED
    BY <2>1, <2>2
<1>5. CASE ReadCursor
  <2>1. t = [pc |-> "head", moves |-> tool.moves, row |-> tool.row, behind |-> Lagging]
        /\ tool.pc = "cursor"
    BY <1>1, <1>5 DEF ReadCursor
  <2>2. tool.moves = 0 => Indexed /\ tool.row = Row
    BY <2>1 DEF RunInv, Seen
  <2>3. RunInv(t)
    BY <1>2, <2>1, <2>2 DEF RunInv, Seen
  <2> QED
    BY <1>0, <1>1, <2>3, ToolMoves
<1>6. CASE ReadHead
  <2>0. tool.pc = "head" /\ tool.moves \in Nat
    BY <1>2, <1>6 DEF ReadHead
  <2>1. CASE Tell("rpc_unavailable", "")
    BY <1>3, <2>0, <2>1 DEF Diagnosing
  <2>2. ASSUME NEW idle \in BOOLEAN,
               t = [pc |-> "views", moves |-> tool.moves, row |-> tool.row,
                    class |-> Classification(tool.behind \/ idle)]
        PROVE  RunInv(t)
    <3>1. tool.moves = 0 => Indexed /\ tool.row = Row /\ tool.behind = Lagging
      BY <2>0 DEF RunInv, Seen
    <3>2. PICK c : c = Classification(tool.behind \/ idle)
      OBVIOUS
    <3>3. c \in {"drift", "possibly_stale"} /\ (c = "drift" => ~tool.behind)
      BY <3>2 DEF Classification
    <3> QED
      BY <2>0, <2>2, <3>1, <3>2, <3>3 DEF RunInv, Seen
  <2> QED
    BY <1>0, <1>1, <1>6, <2>1, <2>2, ToolMoves DEF ReadHead
<1>7. CASE ReadViews
  <2>0. tool.pc = "views" /\ tool.moves \in Nat
    BY <1>2, <1>7 DEF ReadViews
  <2>1. CASE Tell("rpc_unavailable", "")
    BY <1>3, <2>0, <2>1 DEF Diagnosing
  <2>2. CASE t = [pc |-> "rows", moves |-> tool.moves, row |-> tool.row,
                  class |-> tool.class, chain |-> ChainViews]
    <3>1. tool.moves = 0 => /\ Indexed /\ tool.row = Row
                            /\ tool.class \in {"drift", "possibly_stale"}
                            /\ tool.class = "drift" => ~Lagging
      BY <2>0 DEF RunInv, Seen
    <3>2. RunInv(t)
      BY <2>0, <2>2, <3>1 DEF RunInv, Seen
    <3> QED
      BY <1>0, <1>1, <3>2, ToolMoves
  <2> QED
    BY <1>1, <1>7, <2>1, <2>2 DEF ReadViews
<1>8. CASE ReadRows
  <2>1. /\ t = [pc |-> "round", moves |-> tool.moves, row |-> tool.row,
                class |-> tool.class, chain |-> tool.chain,
                members |-> tables.circle_members, payouts |-> tables.payouts]
        /\ tool.pc = "rows" /\ tool.moves \in Nat
    BY <1>1, <1>2, <1>8 DEF ReadRows
  <2>2. tool.moves = 0 => /\ Indexed /\ tool.row = Row /\ tool.chain = ChainViews
                          /\ tool.class \in {"drift", "possibly_stale"}
                          /\ tool.class = "drift" => ~Lagging
    BY <2>1 DEF RunInv, Seen
  <2>3. RunInv(t)
    BY <2>1, <2>2 DEF RunInv, Seen
  <2> QED
    BY <1>0, <1>1, <2>3, ToolMoves
<1>9. CASE ReadRound
  <2>0. tool.pc = "round" /\ tool.moves \in Nat
    BY <1>2, <1>9 DEF ReadRound
  <2>1. CASE Tell("rpc_unavailable", "")
    BY <1>3, <2>0, <2>1 DEF Diagnosing
  <2>2. ASSUME NEW R, Conclude(R), R \subseteq {round.round_index}, R # {} => HasCurrentRound,
               tool.moves = 0 => R = IF HasCurrentRound THEN {round.round_index} ELSE {}
        PROVE  RunInv(t)
    <3>1. PICK outcome, class :
            /\ t = [pc |-> "told", moves |-> tool.moves, outcome |-> outcome, class |-> class]
            /\ IF Mismatches(tool, R) = {} THEN outcome = "match" /\ class = ""
                                           ELSE outcome = "mismatch" /\ class = tool.class
      BY <1>1, <2>2 DEF Conclude, Tell
    <3>2. ASSUME tool.moves = 0 PROVE Told(t)
      <4>1. /\ Indexed /\ tool.row = Row /\ tool.chain = ChainViews
            /\ tool.members = tables.circle_members /\ tool.payouts = tables.payouts
            /\ tool.class \in {"drift", "possibly_stale"}
            /\ tool.class = "drift" => ~Lagging
        BY <2>0, <3>2 DEF RunInv, Seen
      <4>2. CASE Mismatches(tool, R) = {}
        <5>1. /\ Row.status = RowStatus /\ Row.paused = paused
              /\ HasCurrentRound => Row.current_round = rounds_completed
              /\ PaidRounds = SettledRounds
          BY <2>2, <3>2, <4>1, <4>2, MatchIsTrue
        <5>2. t.outcome = "match" /\ t.class = ""
          BY <3>1, <4>2
        <5> QED
          BY <5>1, <5>2 DEF Told
      <4>3. CASE Mismatches(tool, R) # {}
        <5>1. Lagging \/ altered # {}
          BY <2>2, <4>1, <4>3, MismatchIsTrue
        <5>2. t.outcome = "mismatch" /\ t.class = tool.class
          BY <3>1, <4>3
        <5> QED
          BY <4>1, <5>1, <5>2 DEF Told
      <4> QED
        BY <4>2, <4>3
    <3> QED
      BY <2>0, <3>1, <3>2 DEF RunInv, Seen
  <2>3. tool.moves = 0 => tool.chain.status = status
    BY <2>0 DEF RunInv, Seen, ChainViews
  <2>4. CASE tool.chain.status \notin {"Pending", "Active"}
    <3>1. Conclude({})
      BY <1>9, <2>4 DEF ReadRound
    <3>2. tool.moves = 0 => {} = IF HasCurrentRound THEN {round.round_index} ELSE {}
      BY <2>3, <2>4 DEF HasCurrentRound
    <3>3. RunInv(t)
      BY <2>2, <3>1, <3>2
    <3> QED
      BY <1>0, <1>1, <3>3, ToolMoves
  <2>5. CASE tool.chain.status \in {"Pending", "Active"}
    <3>1. PICK R : R = IF HasCurrentRound THEN {round.round_index} ELSE {}
      OBVIOUS
    <3>2. Tell("rpc_unavailable", "") \/ Conclude(R)
      BY <1>9, <2>5, <3>1 DEF ReadRound
    <3>3. Conclude(R) => RunInv(t)
      BY <2>2, <3>1
    <3> QED
      BY <1>0, <1>1, <2>1, <3>2, <3>3, ToolMoves
  <2> QED
    BY <2>4, <2>5
<1> QED
  BY <1>4, <1>5, <1>6, <1>7, <1>8, <1>9 DEF CircleReport

-----------------------------------------------------------------------------
(* The tools: the difference report.                                       *)

\* With the tables caught up and nothing lost, what a report compares of the
\* circle and of a member differs only where it may.
LEMMA CircleDiffers ==
  ASSUME IndInv, Complete, EventInv, ~Lagging, altered = {}, Indexed
  PROVE  /\ Row.status # status => closed
         /\ HasCurrentRound => Row.current_round = round.round_index
<1>0. TypeOK /\ RotationProgress /\ RecordsInOrder
  BY DEF IndInv
<1>1. RowFollows
  BY <1>0, CaughtUpFollows, FollowingIsEnough
<1>2. HasCurrentRound => round.round_index = rounds_completed
  BY <1>0 DEF HasCurrentRound, RotationProgress, RecordsInOrder
<1>3. Row.status = RowStatus /\ Row.current_round = rounds_completed
  BY <1>1 DEF RowFollows
<1> QED
  BY <1>2, <1>3 DEF RowStatus

\* Of a member, only the collateral, and only if it was taken.
LEMMA MemberDiffers ==
  ASSUME IndInv, Complete, EventInv, PenaltyLedger, ~Lagging, altered = {}, Indexed,
         NEW m \in MemberSet
  PROVE  LET row == tables.circle_members[<<CircleAddress, m>>]
         IN  /\ row.collateral # collateral[m] =>
                  closed \/ \E r \in Rounds : m \in defaulted[r]
             /\ row.defaults = defaults[m]
             /\ m \in DOMAIN tables.reputation => tables.reputation[m] = awarded[m]
<1>1. FollowsContract(tables)
  BY CaughtUpFollows
<1>2. FollowsCounts(tables, defaults) /\ FollowsReputation(tables)
  BY <1>1 DEF FollowsContract, FollowsMembers
<1>3. PICK row : row = tables.circle_members[<<CircleAddress, m>>]
  OBVIOUS
<1>4. /\ row = [payout_order |-> row.payout_order, join_order |-> row.join_order,
                collateral |-> IF m \in joined THEN CollateralDue ELSE 0,
                defaults |-> defaults[m]]
  BY <1>2, <1>3 DEF FollowsCounts
<1>5. row.collateral = (IF m \in joined THEN CollateralDue ELSE 0) /\ row.defaults = defaults[m]
  BY <1>4
<1>6. m \in DOMAIN tables.reputation => tables.reputation[m] = awarded[m]
  BY <1>2 DEF FollowsReputation
<1>7. row.collateral # collateral[m] => closed \/ \E r \in Rounds : m \in defaulted[r]
  BY <1>5, DepositIsWhole
<1> QED
  BY <1>3, <1>5, <1>6, <1>7

\* The stages of a report that go from the canonical reads to the members.
LEMMA ReportBegins ==
  ASSUME IndInv, Complete, EventInv, RunInv(tool), StartReport \/ ReadCanonical \/ ReadMembers
  PROVE  RunInv(tool)'
<1>0. UNCHANGED allVars
  BY DEF StartReport, ReadCanonical, ReadMembers
<1>1. PICK t : tool' = t
  OBVIOUS
<1>2. tool.pc # "idle" => tool.moves \in Nat
  BY DEF RunInv
<1>3. CASE StartReport
  <2>1. t = [pc |-> "canonical", moves |-> 0, row |-> Row] /\ Indexed
    BY <1>1, <1>3 DEF StartReport
  <2>2. RunInv(t)
    BY <2>1 DEF RunInv, Seen
  <2> QED
    BY <1>0, <1>1, <2>2, ToolMoves
<1>4. CASE ReadCanonical
  <2>0. tool.pc = "canonical" /\ tool.moves \in Nat
    BY <1>2, <1>4 DEF ReadCanonical
  <2>1. CASE tool' = Idle
    <3>1. t = [pc |-> "idle"]
      BY <1>1, <2>1 DEF Idle
    <3>2. RunInv(t)
      BY <3>1 DEF RunInv
    <3> QED
      BY <1>0, <1>1, <3>2, ToolMoves
  <2>2. ASSUME NEW readable \in BOOLEAN,
               tool' = [pc |-> "members", moves |-> tool.moves,
                   differences |->
                     Difference("status", "", tool.row.status, status)
                     \o IfRead(readable /\ HasCurrentRound,
                          Difference("current_round", "",
                            tool.row.current_round, round.round_index))]
        PROVE  RunInv(tool)'
    <3>1. PICK none, l, k, r, u :
            /\ none = "" /\ u = Undisturbed(tool) /\ u \in BOOLEAN
            /\ l = Difference("status", none, tool.row.status, status)
            /\ r = (readable /\ HasCurrentRound) /\ r \in BOOLEAN
            /\ k = Difference("current_round", none, tool.row.current_round, round.round_index)
      BY DEF Undisturbed
    <3>2. t = [pc |-> "members", moves |-> tool.moves, differences |-> l \o IfRead(r, k)]
      BY <1>1, <2>2, <3>1
    <3>3. u => Indexed /\ tool.row = Row /\ ~Lagging /\ altered = {}
      BY <2>0, <3>1 DEF Undisturbed, RunInv, Seen
    <3>4. u => (tool.row.status # status => closed)
               /\ (HasCurrentRound => tool.row.current_round = round.round_index)
      BY <3>3, CircleDiffers
    <3>5. IsReport(l, u)
      <4>1. "status" \in Fields
        BY DEF Fields
      <4>2. (u /\ tool.row.status # status) =>
              Invented([field |-> "status", member |-> none, indexed |-> tool.row.status,
                        canonical |-> status])
        BY <3>4 DEF Invented
      <4> QED
        BY <3>1, <4>1, <4>2, ReportOf
    <3>6. r => IsReport(k, u)
      <4>1. "current_round" \in Fields
        BY DEF Fields
      <4>2. r => ~(u /\ tool.row.current_round # round.round_index)
        BY <3>1, <3>4
      <4> QED
        BY <3>1, <4>1, <4>2, ReportOf
    <3>7. IsReport(l \o IfRead(r, k), u)
      BY <3>1, <3>5, <3>6, ReportIfRead, ReportThen
    <3>8. Undisturbed(t) = u
      BY <3>1, <3>2 DEF Undisturbed
    <3>9. tool.moves = 0 => Indexed
      BY <2>0 DEF RunInv, Seen
    <3>10. RunInv(t)
      BY <2>0, <3>2, <3>7, <3>8, <3>9 DEF RunInv, Seen
    <3> QED
      BY <1>0, <1>1, <3>10, ToolMoves
  <2> QED
    BY <1>4, <2>1, <2>2 DEF ReadCanonical
<1>5. CASE ReadMembers
  <2>1. /\ tool.pc = "members" /\ tool.moves \in Nat
        /\ t = [pc |-> "member", moves |-> tool.moves, differences |-> tool.differences,
                todo |-> members, rows |-> tables.circle_members]
    BY <1>1, <1>2, <1>5 DEF ReadMembers
  <2>2. IsReport(tool.differences, Undisturbed(tool))
    BY <2>1 DEF RunInv
  <2>3. Undisturbed(t) = Undisturbed(tool)
    BY <2>1 DEF Undisturbed
  <2>4. members \in Seq(MemberSet) /\ members # <<>>
    <3>1. members \in Seq(Address) /\ Len(members) >= 2
      BY ConfigAssumption
    <3>2. \A i \in 1..Len(members) : members[i] \in MemberSet
      BY <3>1 DEF MemberSet, N
    <3> QED
      BY <3>1, <3>2
  <2>5. tool.moves = 0 => Indexed
    BY <2>1 DEF RunInv, Seen
  <2>6. RunInv(t)
    BY <2>1, <2>2, <2>3, <2>4, <2>5 DEF RunInv, Seen
  <2> QED
    BY <1>0, <1>1, <2>6, ToolMoves
<1> QED
  BY <1>3, <1>4, <1>5

\* One member more.
LEMMA MemberCompared ==
  ASSUME IndInv, Complete, EventInv, PenaltyLedger, RunInv(tool), ReadMember
  PROVE  RunInv(tool)'
<1>0. UNCHANGED allVars /\ tool.pc = "member"
  BY DEF ReadMember
<1>1. /\ "moves" \in DOMAIN tool /\ tool.moves \in Nat /\ "pc" \in DOMAIN tool
      /\ "todo" \in DOMAIN tool /\ tool.todo \in Seq(MemberSet) /\ tool.todo # <<>>
      /\ "differences" \in DOMAIN tool /\ "rows" \in DOMAIN tool
      /\ IsReport(tool.differences, Undisturbed(tool))
  BY <1>0 DEF RunInv
<1>2. tool.moves = 0 => Indexed /\ tool.rows = tables.circle_members
  BY <1>0 DEF RunInv, Seen
<1>3. PICK m \in MemberSet : m = Head(tool.todo)
  BY <1>1
<1>4. PICK row, seen : /\ row = tool.rows[<<CircleAddress, m>>]
                       /\ seen = tables.reputation[m]
  OBVIOUS
<1>5. PICK u \in BOOLEAN : u = Undisturbed(tool)
  BY DEF Undisturbed
<1>6. u => /\ row.collateral # collateral[m] =>
                closed \/ \E r \in Rounds : m \in defaulted[r]
           /\ row.defaults = defaults[m]
           /\ m \in DOMAIN tables.reputation => seen = awarded[m]
  <2>1. u => Indexed /\ ~Lagging /\ altered = {} /\ tool.rows = tables.circle_members
    BY <1>2, <1>5 DEF Undisturbed
  <2> QED
    BY <1>3, <1>4, <2>1, MemberDiffers
<1>7. ASSUME NEW views \in BOOLEAN, NEW score \in BOOLEAN
      PROVE  IsReport(tool.differences
                \o IfRead(views,
                     Difference("collateral", m, row.collateral, collateral[m])
                     \o Difference("defaults", m, row.defaults, defaults[m]))
                \o IfRead(score /\ m \in DOMAIN tables.reputation,
                     Difference("score", m, tables.reputation[m], awarded[m])), u)
  <2>1. PICK c, d, e, b :
          /\ c = Difference("collateral", m, row.collateral, collateral[m])
          /\ d = Difference("defaults", m, row.defaults, defaults[m])
          /\ e = Difference("score", m, seen, awarded[m])
          /\ b = (score /\ m \in DOMAIN tables.reputation) /\ b \in BOOLEAN
    OBVIOUS
  <2>2. "collateral" \in Fields /\ "defaults" \in Fields /\ "score" \in Fields
    BY DEF Fields
  <2>3. IsReport(c, u)
    <3>1. (u /\ row.collateral # collateral[m]) =>
            Invented([field |-> "collateral", member |-> m, indexed |-> row.collateral,
                      canonical |-> collateral[m]])
      BY <1>6 DEF Invented
    <3> QED
      BY <2>1, <2>2, <3>1, ReportOf
  <2>4. IsReport(d, u)
    <3>1. ~(u /\ row.defaults # defaults[m])
      BY <1>6
    <3> QED
      BY <2>1, <2>2, <3>1, ReportOf
  <2>5. b => IsReport(e, u)
    <3>1. b => ~(u /\ seen # awarded[m])
      BY <1>6, <2>1
    <3> QED
      BY <2>1, <2>2, <3>1, ReportOf
  <2>6. IsReport(c \o d, u)
    BY <2>3, <2>4, ReportThen
  <2>7. IsReport(IfRead(views, c \o d), u) /\ IsReport(IfRead(b, e), u)
    BY <2>1, <2>5, <2>6, ReportIfRead
  <2>8. IsReport(tool.differences, u)
    BY <1>1, <1>5
  <2>9. IsReport(tool.differences \o IfRead(views, c \o d), u)
    BY <2>7, <2>8, ReportThen
  <2>10. IsReport(tool.differences \o IfRead(views, c \o d) \o IfRead(b, e), u)
    BY <2>7, <2>9, ReportThen
  <2> QED
    BY <1>4, <2>1, <2>10
<1>8. PICK l : /\ IsReport(l, u)
               /\ tool' = IF Len(tool.todo) > 1
                            THEN [tool EXCEPT !.todo = Tail(@), !.differences = l]
                            ELSE [pc |-> "report", moves |-> tool.moves, differences |-> l]
  <2>1. PICK views, score, l :
          /\ views \in BOOLEAN /\ score \in BOOLEAN
          /\ l = tool.differences
                \o IfRead(views,
                     Difference("collateral", m, row.collateral, collateral[m])
                     \o Difference("defaults", m, row.defaults, defaults[m]))
                \o IfRead(score /\ m \in DOMAIN tables.reputation,
                     Difference("score", m, tables.reputation[m], awarded[m]))
          /\ tool' = IF Len(tool.todo) > 1
                       THEN [tool EXCEPT !.todo = Tail(@), !.differences = l]
                       ELSE [pc |-> "report", moves |-> tool.moves, differences |-> l]
    BY <1>3, <1>4, ZenonT(40) DEF ReadMember
  <2> QED
    BY <1>7, <2>1
<1>9. PICK t : tool' = t
  OBVIOUS
<1>10. CASE Len(tool.todo) > 1
  <2>1. t = [tool EXCEPT !.todo = Tail(@), !.differences = l]
    BY <1>8, <1>9, <1>10
  <2>2. /\ DOMAIN t = DOMAIN tool /\ t.pc = "member" /\ t.moves = tool.moves
        /\ t.todo = Tail(tool.todo) /\ t.differences = l
        /\ t.rows = tool.rows
    BY <1>0, <1>1, <2>1
  <2>3. Tail(tool.todo) \in Seq(MemberSet) /\ Tail(tool.todo) # <<>>
    <3>1. PICK s : s = tool.todo
      OBVIOUS
    <3>2. s \in Seq(MemberSet) /\ Len(s) > 1 /\ s # <<>>
      BY <1>1, <1>10, <3>1
    <3>3. Tail(s) \in Seq(MemberSet) /\ Len(Tail(s)) = Len(s) - 1
      BY <3>2
    <3>4. Len(Tail(s)) # Len(<<>>)
      BY <3>2, <3>3
    <3> QED
      BY <3>1, <3>3, <3>4
  <2>4. Undisturbed(t) = u
    BY <1>5, <2>2 DEF Undisturbed
  <2>5. RunInv(t)
    BY <1>1, <1>2, <1>8, <2>2, <2>3, <2>4 DEF RunInv, Seen
  <2> QED
    BY <1>0, <1>9, <2>5, ToolMoves
<1>11. CASE ~(Len(tool.todo) > 1)
  <2>1. t = [pc |-> "report", moves |-> tool.moves, differences |-> l]
    BY <1>8, <1>9, <1>11
  <2>2. Undisturbed(t) = u
    BY <1>5, <2>1 DEF Undisturbed
  <2>3. RunInv(t)
    BY <1>1, <1>8, <2>1, <2>2 DEF RunInv, Seen
  <2> QED
    BY <1>0, <1>9, <2>3, ToolMoves
<1> QED
  BY <1>10, <1>11

-----------------------------------------------------------------------------
(* The tools: a repair, and every run.                                     *)

\* A repair writes a column of the rows, and none of the history.
LEMMA RepairIsElsewhere ==
  ASSUME NEW t, IsTables(t), NEW d, d.field \in Fields
  PROVE  IsTables(SetColumn(t, d)) /\ Kept3(t, SetColumn(t, d))
<1>1. CASE d.field = "status"
  BY <1>1 DEF SetColumn, IsTables, Kept3
<1>2. CASE d.field = "current_round"
  BY <1>2 DEF SetColumn, IsTables, Kept3
<1>3. CASE d.field = "collateral"
  BY <1>3 DEF SetColumn, IsTables, Kept3
<1>4. CASE d.field = "defaults"
  BY <1>4 DEF SetColumn, IsTables, Kept3
<1>5. CASE d.field = "score"
  BY <1>5 DEF SetColumn, IsTables, Kept3
<1> QED
  BY <1>1, <1>2, <1>3, <1>4, <1>5 DEF Fields

\* So true tables stay true, and what follows a repair is not claimed to follow
\* the contract.
LEMMA RepairStep ==
  ASSUME TablesAreTrue, EventInv, RunInv(tool), RepairNext
  PROVE  TablesAreTrue' /\ EventInv' /\ RunInv(tool)'
<1>1. /\ tool.pc = "report" /\ tool.differences # <<>> /\ tool.moves \in Nat
      /\ IsReport(tool.differences, Undisturbed(tool))
      /\ UNCHANGED vars /\ rejected' = rejected /\ pending' = pending
      /\ tool' = [pc |-> "report", moves |-> tool.moves, differences |-> Tail(tool.differences)]
  BY DEF RepairNext, RunInv
<1>2. /\ Head(tool.differences).field \in Fields
      /\ IsReport(Tail(tool.differences), Undisturbed(tool))
  BY <1>1, ReportRest
<1>3. PICK d : d = Head(tool.differences)
  OBVIOUS
<1>4. PICK t : tool' = t
  OBVIOUS
<1>5. /\ "pc" \in DOMAIN t /\ "moves" \in DOMAIN t /\ "differences" \in DOMAIN t
      /\ t.pc = "report" /\ t.moves = tool.moves /\ t.differences = Tail(tool.differences)
  BY <1>1, <1>4
<1>6. CASE Applies(tables, d)
  <2>1. tables' = SetColumn(tables, d) /\ altered' # {}
    BY <1>3, <1>6 DEF RepairNext
  <2>2. IsTables(tables)
    BY DEF TablesAreTrue, True, TrueTables
  <2>3. IsTables(tables') /\ Kept3(tables, tables')
    BY <1>2, <1>3, <2>1, <2>2, RepairIsElsewhere
  <2>4. TablesAreTrue'
    <3>1. UNCHANGED <<contributed, defaulted, rounds_completed>>
      BY <1>1 DEF vars, contractVars
    <3>2. True(tables)'
      BY <2>3, <3>1 DEF TablesAreTrue, True, TrueTables, Kept3
    <3> QED
      BY <1>1, <3>1, <3>2 DEF TablesAreTrue
  <2>5. EventInv'
    BY <1>1, <2>1 DEF EventInv
  <2>6. RunInv(tool)'
    <3>1. PICK l, u : l = tool'.differences /\ u = Undisturbed(tool)' /\ ~u
      BY <2>1 DEF Undisturbed
    <3>2. IsReport(l, FALSE)
      BY <1>2, <1>4, <1>5, <3>1, ReportLater
    <3>3. IsReport(l, u)'
      BY <3>1, <3>2 DEF IsReport
    <3>4. IsReport(tool.differences, Undisturbed(tool))'
      BY <3>1, <3>3
    <3> QED
      BY <1>1, <1>4, <1>5, <3>4 DEF RunInv, Seen
  <2> QED
    BY <2>4, <2>5, <2>6
<1>7. CASE ~Applies(tables, d)
  <2>1. UNCHANGED allVars
    BY <1>1, <1>3, <1>7 DEF RepairNext, allVars, eventVars
  <2>2. Undisturbed(t) = Undisturbed(tool)
    BY <1>5 DEF Undisturbed
  <2>3. RunInv(t)
    BY <1>1, <1>2, <1>5, <2>2 DEF RunInv, Seen
  <2>4. RunInv(tool)'
    BY <1>4, <2>1, <2>3, ToolMoves
  <2>5. [EventNext]_allVars
    BY <2>1
  <2>6. TablesAreTrue'
    BY <2>1 DEF TablesAreTrue, True, TrueTables, allVars, vars, contractVars, eventVars
  <2>7. EventInv'
    <3>1. UNCHANGED <<contractVars, awarded, eventVars>>
      BY <2>1 DEF allVars, vars, repVars
    <3> QED
      BY <3>1, QuietKeeps
  <2> QED
    BY <2>4, <2>6, <2>7
<1> QED
  BY <1>6, <1>7

\* Neither the contract nor the indexer notices the tools, but for a repair.
LEMMA ToolStepIs ==
  [ToolNext]_toolVars => [EventNext]_allVars \/ RepairNext
<1> SUFFICES ASSUME [ToolNext]_toolVars PROVE [EventNext]_allVars \/ RepairNext
  OBVIOUS
<1>1. CASE Elsewhere
  BY <1>1 DEF Elsewhere, EventNext
<1>2. CASE CircleReport
  BY <1>2 DEF CircleReport, ReadRow, ReadCursor, ReadHead, ReadViews, ReadRows, ReadRound
<1>3. CASE DifferenceReport
  BY <1>3 DEF DifferenceReport, StartReport, ReadCanonical, ReadMembers, ReadMember, EndReport
<1>4. CASE UNCHANGED toolVars
  BY <1>4 DEF toolVars
<1> QED
  BY <1>1, <1>2, <1>3, <1>4 DEF ToolNext

\* The contract notices nothing.
LEMMA ToolStepIsStep == [ToolNext]_toolVars => [Next]_vars
<1>1. RepairNext => UNCHANGED vars
  BY DEF RepairNext, allVars
<1> QED
  BY <1>1, ToolStepIs, EventStepIsStep

\* What is behind a run of the tools.
ToolInv == Ground /\ EventInv /\ TablesAreTrue /\ RunInv(tool)

\* At the start no tool runs.
LEMMA ToolInvInit == ToolInit => ToolInv
<1> SUFFICES ASSUME ToolInit PROVE ToolInv
  OBVIOUS
<1>1. EventInit /\ tool = [pc |-> "idle"]
  BY DEF ToolInit, Idle
<1>2. RunInv(tool)
  BY <1>1 DEF RunInv
<1> QED
  BY <1>1, <1>2, GroundInit, EventInvInit, TrueInit DEF ToolInv, EventInit

\* Each step of a tool, of the contract and of the indexer keeps that.
LEMMA ToolInvStep ==
  (IndInv /\ Complete /\ PenaltyLedger) /\ (IndInv /\ Complete)' /\ ToolInv /\ [ToolNext]_toolVars
    => ToolInv'
<1> SUFFICES ASSUME IndInv, Complete, PenaltyLedger, (IndInv /\ Complete)', ToolInv,
                    [ToolNext]_toolVars
             PROVE  ToolInv'
  OBVIOUS
<1>0. Ground /\ EventInv /\ TablesAreTrue /\ RunInv(tool)
  BY DEF ToolInv
<1>1. [EventNext]_allVars => (Ground /\ EventInv /\ TablesAreTrue)'
  BY <1>0, EventInvKept, TrueStep
<1>2. RepairNext => (Ground /\ EventInv /\ TablesAreTrue /\ RunInv(tool))'
  <2>1. RepairNext => UNCHANGED vars
    BY DEF RepairNext, allVars
  <2>2. RepairNext => Ground'
    BY <1>0, <2>1, GroundStep
  <2> QED
    BY <1>0, <2>2, RepairStep
<1>3. CASE Elsewhere
  <2>1. [EventNext]_allVars
    BY <1>3 DEF Elsewhere, EventNext
  <2>2. CASE tool' = Idle
    <3>1. PICK t : tool' = t /\ t = [pc |-> "idle"]
      BY <2>2 DEF Idle
    <3>2. RunInv(tool)'
      BY <3>1 DEF RunInv
    <3> QED
      BY <1>1, <2>1, <3>2 DEF ToolInv
  <2>3. CASE /\ tool.pc # "idle"
             /\ \/ tool' = [tool EXCEPT !.moves = @ + 1]
                \/ tool.pc = "head" /\ tool' = [tool EXCEPT !.moves = @ + 1, !.behind = TRUE]
    BY <1>0, <1>1, <2>1, <2>3, OthersMove DEF ToolInv
  <2> QED
    BY <1>3, <2>2, <2>3 DEF Elsewhere
<1>4. CASE CircleReport
  <2>1. UNCHANGED allVars
    BY <1>4 DEF CircleReport, ReadRow, ReadCursor, ReadHead, ReadViews, ReadRows, ReadRound
  <2> QED
    BY <1>0, <1>1, <1>4, <2>1, CircleReportStep DEF ToolInv
<1>5. CASE DifferenceReport
  <2>1. CASE StartReport \/ ReadCanonical \/ ReadMembers \/ ReadMember
    <3>1. UNCHANGED allVars
      BY <2>1 DEF StartReport, ReadCanonical, ReadMembers, ReadMember
    <3> QED
      BY <1>0, <1>1, <2>1, <3>1, ReportBegins, MemberCompared DEF ToolInv
  <2>2. CASE RepairNext
    BY <1>2, <2>2 DEF ToolInv
  <2>3. CASE EndReport
    <3>1. PICK t : tool' = t /\ t = [pc |-> "idle"] /\ UNCHANGED allVars
      BY <2>3 DEF EndReport, Idle
    <3>2. RunInv(tool)'
      BY <3>1 DEF RunInv
    <3> QED
      BY <1>1, <3>1, <3>2 DEF ToolInv
  <2> QED
    BY <1>5, <2>1, <2>2, <2>3 DEF DifferenceReport
<1>6. CASE UNCHANGED toolVars
  <2>1. PICK t : t = tool
    OBVIOUS
  <2>2. RunInv(tool)'
    BY <1>0, <1>6, <2>1, ToolMoves DEF toolVars
  <2> QED
    BY <1>1, <1>6, <2>2 DEF ToolInv, toolVars
<1> QED
  BY <1>3, <1>4, <1>5, <1>6 DEF ToolNext

\* So it is so in every state.
LEMMA ToolInvariance == ToolSpec => [](IndInv /\ Complete /\ ToolInv)
<1>1. ToolInit => Init
  BY DEF ToolInit, EventInit
<1>2. ToolSpec => Spec
  BY <1>1, ToolStepIsStep, PTL DEF ToolSpec, Spec
<1>3. Spec => [](IndInv /\ Complete /\ PenaltyLedger)
  <2>1. Spec => []Complete
    BY CompleteAlways
  <2> QED
    BY <2>1, Invariance, LedgerOfPenalties, PTL
<1>4. ToolSpec => [](IndInv /\ Complete /\ PenaltyLedger)
  BY <1>2, <1>3, PTL
<1> QED
  BY <1>4, ToolInvInit, ToolInvStep, PTL DEF ToolSpec

\* What a run knows of a circle that has not moved is what it may be trusted
\* with.
LEMMA ReportSuffices == RunInv(tool) => ReportsAreHonest
<1> SUFFICES ASSUME RunInv(tool) PROVE ReportsAreHonest
  OBVIOUS
<1>1. ASSUME tool.pc = "told", Quietly PROVE Told(tool)
  BY <1>1 DEF RunInv, Quietly
<1>2. ASSUME tool.pc = "report", Quietly, ~Lagging, altered = {},
             NEW i \in DOMAIN tool.differences
      PROVE  Invented(tool.differences[i])
  <2>1. Undisturbed(tool) /\ IsReport(tool.differences, Undisturbed(tool))
    BY <1>2 DEF RunInv, Undisturbed, Quietly
  <2>2. PICK S : tool.differences \in Seq(S) /\ \A d \in S : Invented(d)
    BY <2>1 DEF IsReport
  <2> QED
    BY <1>2, <2>2
<1> QED
  BY <1>1, <1>2 DEF ReportsAreHonest, Told, Invented

\* Whatever the rotation, the amount and the order of invocations, whatever was
\* lost or repaired before: a run that nobody disturbed tells no untruth.
THEOREM ReportsHold == ToolSpec => []ReportsAreHonest
<1>1. ToolInv => RunInv(tool)
  BY DEF ToolInv
<1> QED
  BY <1>1, ToolInvariance, ReportSuffices, PTL
=============================================================================
