---------------------------- MODULE ServiceProofs ----------------------------
(***************************************************************************)
(* Theorems about the indexer as a process, for any ledgers, page size and  *)
(* pool: what its answers and exports, each put together from queries at    *)
(* several moments, can promise, what a walk over growing lists has shown,  *)
(* and what a clean exit means.                                             *)
(***************************************************************************)
EXTENDS Service, SumsProofs, SequenceTheorems

-----------------------------------------------------------------------------
(* The tables after each ledger.                                           *)

\* The columns of lists that grow while somebody walks over them.
WellFormed(t) ==
  /\ DOMAIN t = DOMAIN EmptyTables
  /\ IsFiniteSet(DOMAIN t.circles) /\ IsFiniteSet(DOMAIN t.contributions)
  /\ IsFiniteSet(DOMAIN t.defaults)
  /\ \A k \in DOMAIN t.contributions :
       t.contributions[k].ledger \in Nat /\ k[3] \in Nat

\* Rows are never taken back.
Grows(t, u) ==
  /\ DOMAIN t.circles \subseteq DOMAIN u.circles
  /\ DOMAIN t.contributions \subseteq DOMAIN u.contributions
  /\ DOMAIN t.payouts \subseteq DOMAIN u.payouts

\* A row more.
LEMMA InsertGrows ==
  ASSUME NEW f, NEW k, NEW row
  PROVE  /\ DOMAIN Upsert(f, k, row) = DOMAIN f \cup {k}
         /\ DOMAIN InsertOrIgnore(f, k, row) = DOMAIN f \cup {k}
         /\ IsFiniteSet(DOMAIN f) => /\ IsFiniteSet(DOMAIN Upsert(f, k, row))
                                     /\ IsFiniteSet(DOMAIN InsertOrIgnore(f, k, row))
<1>1. DOMAIN Upsert(f, k, row) = DOMAIN f \cup {k}
  BY DEF Upsert
<1>2. DOMAIN InsertOrIgnore(f, k, row) = DOMAIN f \cup {k}
  BY <1>1 DEF InsertOrIgnore
<1>3. IsFiniteSet(DOMAIN f) => IsFiniteSet(DOMAIN f \cup {k})
  BY FS_AddElement
<1> QED
  BY <1>1, <1>2, <1>3

\* What tables have to be shown to have.
LEMMA KeptIf ==
  ASSUME NEW t, WellFormed(t), NEW u, DOMAIN u = DOMAIN t,
         \/ u.circles = t.circles
         \/ \E k, row : u.circles = Upsert(t.circles, k, row),
         \/ u.payouts = t.payouts
         \/ \E k, row : u.payouts = Upsert(t.payouts, k, row),
         \/ u.defaults = t.defaults
         \/ \E row : DOMAIN u.defaults = DOMAIN t.defaults \cup {row},
         u.contributions = t.contributions
  PROVE  WellFormed(u) /\ Grows(t, u)
<1>1. DOMAIN t.circles \subseteq DOMAIN u.circles /\ IsFiniteSet(DOMAIN u.circles)
  <2>1. IsFiniteSet(DOMAIN t.circles)
    BY DEF WellFormed
  <2>2. CASE \E k, row : u.circles = Upsert(t.circles, k, row)
    <3>1. PICK k, row : u.circles = Upsert(t.circles, k, row)
      BY <2>2
    <3>2. /\ DOMAIN Upsert(t.circles, k, row) = DOMAIN t.circles \cup {k}
          /\ IsFiniteSet(DOMAIN Upsert(t.circles, k, row))
      BY <2>1, InsertGrows
    <3> QED
      BY <3>1, <3>2
  <2> QED
    BY <2>1, <2>2
<1>2. DOMAIN t.payouts \subseteq DOMAIN u.payouts
  <2>1. CASE \E k, row : u.payouts = Upsert(t.payouts, k, row)
    <3>1. PICK k, row : u.payouts = Upsert(t.payouts, k, row)
      BY <2>1
    <3>2. DOMAIN Upsert(t.payouts, k, row) = DOMAIN t.payouts \cup {k}
      BY InsertGrows
    <3> QED
      BY <3>1, <3>2
  <2> QED
    BY <2>1
<1>3. IsFiniteSet(DOMAIN u.defaults)
  <2>1. IsFiniteSet(DOMAIN t.defaults)
    BY DEF WellFormed
  <2>2. CASE \E row : DOMAIN u.defaults = DOMAIN t.defaults \cup {row}
    BY <2>1, <2>2, FS_AddElement
  <2> QED
    BY <2>1, <2>2
<1> QED
  BY <1>1, <1>2, <1>3 DEF WellFormed, Grows

\* A handler keeps the tables in this form and every row of them.
LEMMA HandleFacts ==
  ASSUME NEW t, WellFormed(t), NEW e, e.name \in Projected,
         e.name = "contributed" => e.ledger \in Nat /\ e.round \in Nat
  PROVE  WellFormed(Handle(t, e)) /\ Grows(t, Handle(t, e))
<1> DEFINE u == Handle(t, e)
<1> SUFFICES WellFormed(u) /\ Grows(t, u)
  OBVIOUS
<1> HIDE DEF u
<1>0. {"circles", "circle_members", "contributions", "payouts", "defaults",
       "circle_audit_events", "reputation"} = DOMAIN t
  BY DEF WellFormed, EmptyTables
\* An update of a row is an upsert of it.
<1>b. ASSUME NEW f, NEW k \in DOMAIN f, NEW row
      PROVE  [f EXCEPT ![k] = row] = Upsert(f, k, row)
  BY DEF Upsert
<1>1. CASE e.name = "circle_created"
  <2>1. u = handleFactoryCircleCreated(t, e)
    BY <1>1 DEF Handle, u
  <2>2. CASE e.circle \in DOMAIN t.circles /\ t.circles[e.circle].creator = ""
    <3>1. u = [t EXCEPT !.circles[e.circle].creator = e.creator]
      BY <2>1, <2>2, Zenon DEF handleFactoryCircleCreated
    <3>2. \E row : u = [t EXCEPT !.circles = [t.circles EXCEPT ![e.circle] = row]]
      BY <1>0, <3>1
    <3>3. PICK row : u = [t EXCEPT !.circles = [t.circles EXCEPT ![e.circle] = row]]
      BY <3>2
    <3>a. [t.circles EXCEPT ![e.circle] = row] = Upsert(t.circles, e.circle, row)
      BY <1>b, <2>2
    <3>4. /\ DOMAIN u = DOMAIN t /\ u.circles = Upsert(t.circles, e.circle, row)
          /\ u.payouts = t.payouts /\ u.contributions = t.contributions
          /\ u.defaults = t.defaults
      BY <1>0, <3>3, <3>a
    <3> QED
      BY KeptIf, <3>4
  <2>3. CASE e.circle \in DOMAIN t.circles /\ t.circles[e.circle].creator # ""
    <3>1. u = t
      BY <2>1, <2>3, Zenon DEF handleFactoryCircleCreated
    <3> QED
      BY KeptIf, <3>1
  <2>4. CASE e.circle \notin DOMAIN t.circles
    <3>1. PICK row : u = [t EXCEPT !.circles = Upsert(@, e.circle, row)]
      BY <2>1, <2>4 DEF handleFactoryCircleCreated
    <3>2. /\ DOMAIN u = DOMAIN t /\ u.circles = Upsert(t.circles, e.circle, row)
          /\ u.payouts = t.payouts /\ u.contributions = t.contributions
          /\ u.defaults = t.defaults
      BY <1>0, <3>1
    <3> QED
      BY KeptIf, <3>2
  <2> QED
    BY <2>2, <2>3, <2>4
<1>2. CASE e.name = "initialized"
  <2>1. u = handleCircleInitialized(t, e)
    BY <1>2 DEF Handle, u
  <2>2. PICK row, slots : u = [t EXCEPT !.circles = Upsert(@, e.circle, row),
                                        !.circle_members = slots]
    BY <2>1 DEF handleCircleInitialized
  <2>3. /\ DOMAIN u = DOMAIN t /\ u.circles = Upsert(t.circles, e.circle, row)
        /\ u.payouts = t.payouts /\ u.contributions = t.contributions
        /\ u.defaults = t.defaults
    BY <1>0, <2>2
  <2> QED
    BY KeptIf, <2>3
<1>9. CASE e.name = "default"
  <2>1. u = handleCircleDefault(t, e)
    BY <1>9 DEF Handle, u
  <2>2. PICK row, members : u = [t EXCEPT !.defaults = @ (+) SetToBag({row}),
                                          !.circle_members = members]
    BY <2>1 DEF handleCircleDefault
  <2>3. /\ DOMAIN u = DOMAIN t /\ u.circles = t.circles
        /\ u.payouts = t.payouts /\ u.contributions = t.contributions
        /\ u.defaults = t.defaults (+) SetToBag({row})
    BY <1>0, <2>2
  <2>4. DOMAIN (t.defaults (+) SetToBag({row})) = DOMAIN t.defaults \cup {row}
    BY DEF SetToBag, (+)
  <2> QED
    BY KeptIf, <2>3, <2>4
<1>3. CASE e.name \in {"joined", "score_updated", "increment"}
  <2>1. u \in {handleCircleJoined(t, e), handleReputationScoreUpdated(t, e),
               handleReputationIncrement(t, e)}
    BY <1>3 DEF Handle, u
  <2>2. /\ DOMAIN u = DOMAIN t /\ u.circles = t.circles
        /\ u.payouts = t.payouts /\ u.contributions = t.contributions
        /\ u.defaults = t.defaults
    BY <1>0, <2>1
       DEF handleCircleJoined, handleReputationScoreUpdated, handleReputationIncrement
  <2> QED
    BY KeptIf, <2>2
\* What an update of the circle leaves.
<1>c. ASSUME NEW v, DOMAIN v = DOMAIN t, v.circles = t.circles, NEW w,
             \/ w = v
             \/ /\ e.circle \in DOMAIN t.circles
                /\ \E row : w = [v EXCEPT !.circles[e.circle] = row]
      PROVE  /\ DOMAIN w = DOMAIN t
             /\ \/ w.circles = t.circles
                \/ \E k, row : w.circles = Upsert(t.circles, k, row)
             /\ w.payouts = v.payouts /\ w.contributions = v.contributions
             /\ w.defaults = v.defaults
  <2>1. ASSUME NEW row, e.circle \in DOMAIN t.circles,
               w = [v EXCEPT !.circles[e.circle] = row]
        PROVE  /\ DOMAIN w = DOMAIN t
               /\ w.circles = Upsert(t.circles, e.circle, row)
               /\ w.payouts = v.payouts /\ w.contributions = v.contributions
               /\ w.defaults = v.defaults
    <3>1. w = [v EXCEPT !.circles = [t.circles EXCEPT ![e.circle] = row]]
      BY <1>0, <1>c, <2>1
    <3>2. [t.circles EXCEPT ![e.circle] = row] = Upsert(t.circles, e.circle, row)
      BY <1>b, <2>1
    <3> QED
      BY <1>0, <1>c, <3>1, <3>2
  <2> QED
    BY <1>c, <2>1
<1>4. CASE e.name \in {"active", "completed", "paused", "resumed",
                       "round_started"}
  <2>1. u \in {handleCircleActive(t, e), handleCircleCompleted(t, e),
               handleCirclePaused(t, e), handleCircleResumed(t, e),
               handleCircleRoundStarted(t, e)}
    BY <1>4 DEF Handle, u
  <2>2. \/ u = t
        \/ /\ e.circle \in DOMAIN t.circles
           /\ \E row : u = [t EXCEPT !.circles[e.circle] = row]
    BY <1>0, <2>1
       DEF handleCircleActive, handleCircleCompleted, handleCirclePaused,
           handleCircleResumed, handleCircleRoundStarted, SetStatus, SetRound,
           UpdateCircle
  <2> QED
    <3>1. /\ DOMAIN u = DOMAIN t
          /\ \/ u.circles = t.circles
             \/ \E k, row : u.circles = Upsert(t.circles, k, row)
          /\ u.payouts = t.payouts /\ u.contributions = t.contributions
          /\ u.defaults = t.defaults
      BY <1>c, <2>2
    <3> QED
      BY KeptIf, <3>1
<1>5. CASE e.name = "contributed"
  <2>1. u = handleCircleContributed(t, e)
    BY <1>5 DEF Handle, u
  <2> DEFINE k == <<e.circle, e.member, e.round>>
             row == [amount |-> e.amount, ledger |-> e.ledger]
  <2>2. /\ DOMAIN u = DOMAIN t /\ u.circles = t.circles /\ u.payouts = t.payouts
        /\ u.contributions = InsertOrIgnore(t.contributions, k, row)
        /\ u.defaults = t.defaults
    BY <1>0, <2>1 DEF handleCircleContributed
  <2>3. /\ DOMAIN u.contributions = DOMAIN t.contributions \cup {k}
        /\ IsFiniteSet(DOMAIN u.contributions)
    <3>1. IsFiniteSet(DOMAIN t.contributions)
      BY DEF WellFormed
    <3> HIDE DEF k, row
    <3>2. /\ DOMAIN InsertOrIgnore(t.contributions, k, row) = DOMAIN t.contributions \cup {k}
          /\ IsFiniteSet(DOMAIN InsertOrIgnore(t.contributions, k, row))
      BY <3>1, InsertGrows
    <3> QED
      BY <2>2, <3>2
  <2>4. row.ledger \in Nat /\ k[3] \in Nat
    BY <1>5
  <2>5. \A j \in DOMAIN u.contributions :
          /\ j \in DOMAIN t.contributions => u.contributions[j] \in {row, t.contributions[j]}
          /\ j \notin DOMAIN t.contributions => j = k /\ u.contributions[j] = row
    <3> HIDE DEF k, row
    <3> QED
      BY <2>2, <2>3 DEF InsertOrIgnore, Upsert
  <2> HIDE DEF k, row
  <2>6. ASSUME NEW j \in DOMAIN u.contributions
        PROVE  u.contributions[j].ledger \in Nat /\ j[3] \in Nat
    BY <2>4, <2>5 DEF WellFormed
  <2> QED
    BY <2>2, <2>3, <2>6 DEF WellFormed, Grows
<1>6. CASE e.name = "payout"
  <2>1. u = handleCirclePayout(t, e)
    BY <1>6 DEF Handle, u
  <2>2. PICK row : u = SetRound([t EXCEPT !.payouts =
                         InsertOrIgnore(@, <<e.circle, e.round>>, row)],
                                e, e.round + 1)
    BY <2>1 DEF handleCirclePayout
  <2> DEFINE k == <<e.circle, e.round>>
             v == [t EXCEPT !.payouts = InsertOrIgnore(@, k, row)]
  <2>3. /\ DOMAIN v = DOMAIN t /\ v.circles = t.circles
        /\ v.payouts = InsertOrIgnore(t.payouts, k, row)
        /\ v.contributions = t.contributions /\ v.defaults = t.defaults
    BY <1>0
  <2>4. \/ v.payouts = t.payouts
        \/ \E j, row1 : v.payouts = Upsert(t.payouts, j, row1)
    BY <2>3 DEF InsertOrIgnore
  <2>5. u = SetRound(v, e, e.round + 1)
    BY <2>2
  <2> HIDE DEF v, k
  <2>6. \/ u = v
        \/ /\ e.circle \in DOMAIN t.circles
           /\ \E row1 : u = [v EXCEPT !.circles[e.circle] = row1]
    BY <1>0, <2>3, <2>5 DEF SetRound, UpdateCircle
  <2> QED
    <3>1. /\ DOMAIN u = DOMAIN t
          /\ \/ u.circles = t.circles
             \/ \E j, row1 : u.circles = Upsert(t.circles, j, row1)
          /\ u.payouts = v.payouts /\ u.contributions = v.contributions
          /\ u.defaults = v.defaults
      BY <1>c, <2>3, <2>6
    <3>2. \/ u.payouts = t.payouts
          \/ \E j, row1 : u.payouts = Upsert(t.payouts, j, row1)
      BY <2>4, <3>1
    <3> QED
      BY KeptIf, <2>3, <3>1, <3>2
<1>7. CASE e.name = "exceptional_settlement"
  <2>1. u = handleCircleExceptionalSettlement(t, e)
    BY <1>7 DEF Handle, u
  <2>2. PICK row : u = [t EXCEPT !.payouts = Upsert(@, <<e.circle, e.round>>, row)]
    BY <1>0, <2>1 DEF handleCircleExceptionalSettlement
  <2>3. /\ DOMAIN u = DOMAIN t /\ u.circles = t.circles
        /\ u.payouts = Upsert(t.payouts, <<e.circle, e.round>>, row)
        /\ u.contributions = t.contributions /\ u.defaults = t.defaults
    BY <1>0, <2>2
  <2> QED
    BY KeptIf, <2>3
<1>8. CASE e.name \in {"cancelled", "closed"}
  <2>1. u \in {handleCircleCancelled(t, e), handleCircleClosed(t, e)}
    BY <1>8 DEF Handle, u
  <2>2. PICK v : /\ \/ v = t
                    \/ /\ e.circle \in DOMAIN t.circles
                       /\ \E row : v = [t EXCEPT !.circles[e.circle] = row]
                 /\ \E released, reason : u = Audited(v, e, released, reason)
    <3>1. CASE u = handleCircleCancelled(t, e)
      <4> DEFINE v == SetStatus(t, e, "Cancelled")
      <4>1. u = Audited(v, e, 0, "")
        BY <3>1 DEF handleCircleCancelled
      <4>2. \/ v = t
            \/ /\ e.circle \in DOMAIN t.circles
               /\ \E row : v = [t EXCEPT !.circles[e.circle] = row]
        BY <1>0 DEF SetStatus, UpdateCircle
      <4> HIDE DEF v
      <4> QED
        BY <4>1, <4>2
    <3>2. CASE u = handleCircleClosed(t, e)
      <4> DEFINE v == UpdateCircle(t, e.circle, LAMBDA row :
                        [row EXCEPT !.status = "Closed", !.total_released = e.amount,
                                    !.close_reason = e.reason])
      <4>1. u = Audited(v, e, e.amount, e.reason)
        BY <3>2 DEF handleCircleClosed
      <4>2. \/ v = t
            \/ /\ e.circle \in DOMAIN t.circles
               /\ \E row : v = [t EXCEPT !.circles[e.circle] = row]
        BY <1>0 DEF UpdateCircle
      <4> HIDE DEF v
      <4> QED
        BY <4>1, <4>2
    <3> QED
      BY <2>1, <3>1, <3>2
  <2>3. /\ DOMAIN v = DOMAIN t /\ v.payouts = t.payouts
        /\ v.contributions = t.contributions /\ v.defaults = t.defaults
        /\ \/ v.circles = t.circles
           \/ \E k, row : v.circles = Upsert(t.circles, k, row)
    BY <1>c, <2>2
  <2>4. /\ DOMAIN u = DOMAIN t /\ u.circles = v.circles
        /\ u.payouts = t.payouts /\ u.contributions = t.contributions
        /\ u.defaults = t.defaults
    BY <1>0, <2>2, <2>3 DEF Audited
  <2>5. \/ u.circles = t.circles
        \/ \E k, row : u.circles = Upsert(t.circles, k, row)
    BY <2>3, <2>4
  <2> QED
    BY KeptIf, <2>4, <2>5
<1> QED
  BY <1>1, <1>2, <1>3, <1>4, <1>5, <1>6, <1>7, <1>8, <1>9
  DEF Projected

\* The function g applies the events at the positions of every set of them.
IsFold(g, base, events, n) ==
  /\ DOMAIN g = SUBSET (1..n)
  /\ \A s \in SUBSET (1..n) :
       g[s] = IF s = {} THEN base ELSE Handle(g[s \ {Max(s)}], events[Max(s)])

\* Whatever the events, there is one, by induction on the size of the set.
LEMMA FoldExists ==
  ASSUME NEW n \in Nat, NEW base, NEW events
  PROVE  \E g : g = [s \in SUBSET (1..n) |-> g[s]] /\ IsFold(g, base, events, n)
<1> DEFINE S == 1..n
           Next_(g, s) == IF s = {} THEN base
                          ELSE Handle(g[s \ {Max(s)}], events[Max(s)])
           Upto(g, k) == \A s \in SUBSET S : Cardinality(s) <= k => g[s] = Next_(g, s)
           T == {k \in Nat : \E g : g = [s \in SUBSET S |-> g[s]] /\ Upto(g, k)}
<1>0. IsFiniteSet(S)
  BY FS_Interval
<1>1. \A s \in SUBSET S : IsFiniteSet(s) /\ Cardinality(s) \in Nat
                          /\ (Cardinality(s) = 0 <=> s = {})
  BY <1>0, FS_Subset, FS_CardinalityType, FS_EmptySet
<1>2. \A s \in SUBSET S : s # {} => /\ s \ {Max(s)} \in SUBSET S
                                    /\ Cardinality(s \ {Max(s)}) = Cardinality(s) - 1
  <2> TAKE s \in SUBSET S
  <2>1. s # {} => Max(s) \in s
    BY LargestIs
  <2> QED
    BY <1>1, <2>1, FS_RemoveElement
<1>3. 0 \in T
  <2> DEFINE g == [s \in SUBSET S |-> base]
  <2>1. \A s \in SUBSET S : Cardinality(s) <= 0 => s = {}
    BY <1>1
  <2>2. g = [s \in SUBSET S |-> g[s]]
    OBVIOUS
  <2>3. Upto(g, 0)
    BY <2>1
  <2> HIDE DEF g, Upto
  <2> QED
    BY <2>2, <2>3
<1>4. ASSUME NEW k \in Nat, k \in T PROVE k + 1 \in T
  <2>1. PICK g : g = [s \in SUBSET S |-> g[s]] /\ Upto(g, k)
    BY <1>4
  <2> DEFINE h == [s \in SUBSET S |-> IF Cardinality(s) = k + 1 THEN Next_(g, s) ELSE g[s]]
  <2>2. ASSUME NEW s \in SUBSET S, Cardinality(s) <= k + 1 PROVE h[s] = Next_(h, s)
    <3>0. h[s] = Next_(g, s)
      <4>1. CASE Cardinality(s) = k + 1
        BY <4>1
      <4>2. CASE Cardinality(s) # k + 1
        <5>1. Cardinality(s) <= k
          <6>1. Cardinality(s) \in Nat
            BY <1>1
          <6> QED
            BY <2>2, <4>2, <6>1
        <5>2. h[s] = g[s]
          BY <4>2
        <5> HIDE DEF Next_, h
        <5> QED
          BY <2>1, <5>1, <5>2
      <4> QED
        BY <4>1, <4>2
    <3>1. CASE s = {}
      BY <3>0, <3>1
    <3>2. CASE s # {}
      <4> DEFINE rest == s \ {Max(s)}
      <4>1. rest \in SUBSET S /\ Cardinality(rest) = Cardinality(s) - 1
        BY <1>2, <3>2
      <4> HIDE DEF rest
      <4>2. Cardinality(s) \in Nat /\ Cardinality(rest) # k + 1
        BY <1>1, <2>2, <4>1
      <4>3. h[rest] = g[rest]
        BY <4>1, <4>2
      <4> HIDE DEF h
      <4> QED
        BY <3>0, <3>2, <4>3 DEF rest
    <3> QED
      BY <3>1, <3>2
  <2>3. h = [s \in SUBSET S |-> h[s]]
    OBVIOUS
  <2> HIDE DEF h, Next_
  <2>4. Upto(h, k + 1)
    BY <2>2
  <2> HIDE DEF Upto
  <2> QED
    BY <2>3, <2>4
<1> HIDE DEF T
<1>5. \A k \in Nat : k \in T
  BY <1>3, <1>4, InductiveSet
<1>6. Cardinality(S) \in T
  BY <1>0, <1>5, FS_CardinalityType
<1>7. \A s \in SUBSET S : Cardinality(s) <= Cardinality(S)
  BY <1>0, FS_Subset
<1>8. PICK g : g = [s \in SUBSET S |-> g[s]] /\ Upto(g, Cardinality(S))
  BY <1>6 DEF T
<1>9. IsFold(g, base, events, n)
  BY <1>7, <1>8 DEF IsFold
<1> QED
  BY <1>8, <1>9

\* So the fold of a ledger is the value of such a function at all positions.
LEMMA LedgerIs ==
  ASSUME NEW base, NEW v \in 1..Len(Ledgers)
  PROVE  \E g : /\ IsFold(g, base, Ledgers[v], Len(Ledgers[v]))
                /\ FoldLeft(Handle, base, Ledgers[v]) = g[1..Len(Ledgers[v])]
<1> DEFINE events == Ledgers[v]
           n == Len(events)
           Unfolded(p) == [s \in SUBSET (1..n) |->
                         IF s = {} THEN base
                         ELSE Handle(p[s \ {Max(s)}], events[Max(s)])]
           G == CHOOSE p : p = Unfolded(p)
<1>1. n \in Nat /\ DOMAIN events = 1..n
  BY LedgersAssumption
<1>2. FoldLeft(Handle, base, events) = G[1..n]
  BY <1>1 DEF FoldLeft, MapThenFoldSet
<1> HIDE DEF n, events
<1>3. PICK g : g = [s \in SUBSET (1..n) |-> g[s]] /\ IsFold(g, base, events, n)
  BY <1>1, FoldExists
<1>4. g = Unfolded(g)
  <2>1. \A s \in SUBSET (1..n) : g[s] = Unfolded(g)[s]
    BY <1>3 DEF IsFold
  <2>2. Unfolded(g) = [s \in SUBSET (1..n) |-> Unfolded(g)[s]]
    OBVIOUS
  <2> HIDE DEF Unfolded
  <2> QED
    BY <1>3, <2>1, <2>2
<1>5. G = Unfolded(G)
  <2> HIDE DEF Unfolded
  <2> QED
    BY <1>4
<1>6. IsFold(G, base, events, n)
  <2>1. DOMAIN Unfolded(G) = SUBSET (1..n)
    OBVIOUS
  <2>2. \A s \in SUBSET (1..n) :
          Unfolded(G)[s] = IF s = {} THEN base ELSE Handle(G[s \ {Max(s)}], events[Max(s)])
    OBVIOUS
  <2> HIDE DEF Unfolded, G
  <2> QED
    BY <1>5, <2>1, <2>2 DEF IsFold
<1> HIDE DEF G
<1> QED
  BY <1>2, <1>6 DEF n, events

\* What has grown twice has grown.
LEMMA GrowsOn ==
  ASSUME NEW t, NEW u, NEW w, Grows(t, u), Grows(u, w)
  PROVE  Grows(t, w)
BY DEF Grows

\* A ledger keeps the form of the tables and every row of them.
LEMMA LedgerFacts ==
  ASSUME NEW t, WellFormed(t), NEW v \in 1..Len(Ledgers)
  PROVE  LET u == FoldLeft(Handle, t, Ledgers[v])
         IN  WellFormed(u) /\ Grows(t, u)
<1> DEFINE events == Ledgers[v]
           n == Len(events)
<1>1. n \in Nat /\ DOMAIN events = 1..n
  BY LedgersAssumption
<1>2. ASSUME NEW i \in 1..n
      PROVE  /\ events[i].name \in Projected
             /\ events[i].name = "contributed" =>
                  events[i].ledger \in Nat /\ events[i].round \in Nat
  BY <1>1, LedgersAssumption
<1>3. PICK g : IsFold(g, t, events, n) /\ FoldLeft(Handle, t, events) = g[1..n]
  BY LedgerIs
<1> HIDE DEF events, n
<1> DEFINE T == {k \in Nat : k <= n => WellFormed(g[1..k]) /\ Grows(t, g[1..k])}
<1>4. 0 \in T
  <2>1. 1..0 = {}
    OBVIOUS
  <2>2. {} \in SUBSET (1..n)
    OBVIOUS
  <2>3. g[{}] = t
    BY <1>3, <2>2 DEF IsFold
  <2>4. Grows(t, t)
    BY DEF Grows
  <2> QED
    BY <2>1, <2>3, <2>4
<1>5. ASSUME NEW k \in Nat, k \in T PROVE k + 1 \in T
  <2> SUFFICES ASSUME k + 1 <= n PROVE WellFormed(g[1..(k + 1)]) /\ Grows(t, g[1..(k + 1)])
    OBVIOUS
  <2> DEFINE s == 1..(k + 1)
  <2>1. s \in SUBSET (1..n) /\ s # {} /\ k + 1 \in s /\ k + 1 \in 1..n /\ s \ {k + 1} = 1..k
    <3>1. k + 1 \in s /\ k + 1 \in 1..n
      BY <1>1
    <3>2. s \ {k + 1} = 1..k
      OBVIOUS
    <3>3. s \in SUBSET (1..n)
      BY <1>1
    <3> QED
      BY <3>1, <3>2, <3>3
  <2>2. Max(s) = k + 1
    <3>1. Max(s) \in s /\ \A y \in s : Max(s) >= y
      BY <1>1, <2>1, LargestIs
    <3>2. Max(s) >= k + 1
      <4> HIDE DEF Max, s
      <4> QED
        BY <2>1, <3>1
    <3> HIDE DEF Max
    <3> QED
      BY <3>1, <3>2
  <2> HIDE DEF s
  <2>3. g[s] = Handle(g[1..k], events[k + 1])
    BY <1>3, <2>1, <2>2 DEF IsFold
  <2>4. WellFormed(g[1..k]) /\ Grows(t, g[1..k])
    BY <1>1, <1>5
  <2>5. WellFormed(g[s]) /\ Grows(g[1..k], g[s])
    BY <1>2, <2>1, <2>3, <2>4, HandleFacts
  <2>6. Grows(t, g[s])
    BY <2>4, <2>5, GrowsOn
  <2> QED
    BY <2>5, <2>6 DEF s
<1> HIDE DEF T
<1>6. n \in T
  BY <1>1, <1>4, <1>5, InductiveSet
<1> QED
  BY <1>1, <1>3, <1>6 DEF T, events

\* A gives the tables after each ledger up to k.
IsHistory(A, k) ==
  /\ A = [v \in 0..k |-> A[v]] /\ A[0] = EmptyTables
  /\ \A v \in 1..k : A[v] = FoldLeft(Handle, A[v - 1], Ledgers[v])

\* There are such.
LEMMA HistoryExists == \A k \in Nat : \E A : IsHistory(A, k)
<1> DEFINE S == {k \in Nat : \E A : IsHistory(A, k)}
<1>1. 0 \in S
  <2>1. IsHistory([v \in 0..0 |-> EmptyTables], 0)
    BY DEF IsHistory
  <2> QED
    BY <2>1
<1>2. ASSUME NEW k \in Nat, k \in S PROVE k + 1 \in S
  <2>1. PICK g : IsHistory(g, k)
    BY <1>2
  <2> DEFINE next == FoldLeft(Handle, g[k], Ledgers[k + 1])
             h == [v \in 0..(k + 1) |-> IF v = k + 1 THEN next ELSE g[v]]
  <2> HIDE DEF next
  <2>2. h = [v \in 0..(k + 1) |-> h[v]]
    OBVIOUS
  <2>3. h[k + 1] = next /\ \A v \in 0..k : h[v] = g[v]
    OBVIOUS
  <2> HIDE DEF h
  <2>4. h[0] = EmptyTables
    BY <2>1, <2>3 DEF IsHistory
  <2>5. ASSUME NEW v \in 1..(k + 1)
        PROVE  h[v] = FoldLeft(Handle, h[v - 1], Ledgers[v])
    <3>1. CASE v = k + 1
      <4>1. v - 1 = k /\ h[v - 1] = g[k]
        BY <3>1, <2>3
      <4> QED
        BY <3>1, <4>1, <2>3 DEF next
    <3>2. CASE v # k + 1
      <4>1. v \in 1..k /\ v \in 0..k /\ v - 1 \in 0..k
        BY <3>2
      <4>2. h[v] = g[v] /\ h[v - 1] = g[v - 1]
        BY <4>1, <2>3
      <4> QED
        BY <4>1, <4>2, <2>1 DEF IsHistory
    <3> QED
      BY <3>1, <3>2
  <2>6. IsHistory(h, k + 1)
    BY <2>2, <2>4, <2>5 DEF IsHistory
  <2> QED
    BY <2>6
<1> HIDE DEF S
<1>3. \A k \in Nat : k \in S
  BY <1>1, <1>2, InductiveSet
<1> QED
  BY <1>3 DEF S

\* Tables is one.
LEMMA TablesAre == IsHistory(Tables, Len(Ledgers))
<1> DEFINE n == Len(Ledgers)
           Step(p, v) == IF v = 0 THEN EmptyTables
                         ELSE FoldLeft(Handle, p[v - 1], Ledgers[v])
           Unfolded(p) == [v \in 0..n |-> Step(p, v)]
<1>1. n \in Nat
  BY LedgersAssumption
<1>2. Tables = CHOOSE p : p = Unfolded(p)
  BY DEF Tables, Version
<1> HIDE DEF n
<1>3. PICK g : IsHistory(g, n)
  BY <1>1, HistoryExists
<1>4. \A v \in 0..n : g[v] = Step(g, v)
  BY <1>1, <1>3 DEF IsHistory
<1>5. g = Unfolded(g)
  BY <1>3, <1>4 DEF IsHistory
<1>6. Tables = Unfolded(Tables)
  <2> HIDE DEF Unfolded
  <2> QED
    BY <1>2, <1>5
<1> HIDE DEF Step
<1>7. /\ Tables = [v \in 0..n |-> Tables[v]]
      /\ \A v \in 0..n : Tables[v] = Step(Tables, v)
  <2> DEFINE A == Tables
  <2>1. A = [v \in 0..n |-> Step(A, v)]
    BY <1>6
  <2> HIDE DEF A
  <2>2. A = [v \in 0..n |-> A[v]] /\ \A v \in 0..n : A[v] = Step(A, v)
    BY <2>1
  <2> QED
    BY <2>2 DEF A
<1>8. Tables[0] = EmptyTables
  <2>1. Step(Tables, 0) = EmptyTables
    BY DEF Step
  <2> QED
    BY <1>1, <1>7, <2>1
<1>9. \A v \in 1..n : Tables[v] = FoldLeft(Handle, Tables[v - 1], Ledgers[v])
  <2> TAKE v \in 1..n
  <2>1. Step(Tables, v) = FoldLeft(Handle, Tables[v - 1], Ledgers[v])
    BY <1>1 DEF Step
  <2>2. v \in 0..n
    BY <1>1
  <2> QED
    BY <1>7, <2>1, <2>2
<1> QED
  BY <1>7, <1>8, <1>9 DEF IsHistory, n

\* The tables of every ledger are in that form, and those of a later one have
\* every row of an earlier one.
LEMMA TablesFacts ==
  /\ \A v \in Version : WellFormed(Tables[v])
  /\ \A v, w \in Version : v <= w => Grows(Tables[v], Tables[w])
<1> DEFINE n == Len(Ledgers)
           S == {k \in Nat : k <= n => /\ WellFormed(Tables[k])
                                       /\ \A v \in 0..k : Grows(Tables[v], Tables[k])}
<1>1. n \in Nat
  BY LedgersAssumption
<1>2. /\ Tables[0] = EmptyTables
      /\ \A v \in 1..n : Tables[v] = FoldLeft(Handle, Tables[v - 1], Ledgers[v])
  BY TablesAre DEF IsHistory
<1>3. \A t : Grows(t, t)
  BY DEF Grows
<1>4. 0 \in S
  <2>1. WellFormed(EmptyTables)
    <3>1. PICK f : f = <<>>
      OBVIOUS
    <3>2. DOMAIN f = {}
      BY <3>1
    <3>3. EmptyTables.circles = f /\ EmptyTables.contributions = f
      BY <3>1 DEF EmptyTables
    <3>4. IsFiniteSet(DOMAIN f)
      BY <3>2, FS_EmptySet
    <3>5. DOMAIN EmptyTables.defaults = {}
      BY DEF EmptyTables, EmptyBag, SetToBag
    <3>6. IsFiniteSet(DOMAIN EmptyTables.defaults)
      BY <3>5, FS_EmptySet
    <3> QED
      BY <3>2, <3>3, <3>4, <3>6 DEF WellFormed
  <2> QED
    BY <1>2, <1>3, <2>1
<1>5. ASSUME NEW k \in Nat, k \in S PROVE k + 1 \in S
  <2> SUFFICES ASSUME k + 1 <= n
               PROVE  /\ WellFormed(Tables[k + 1])
                      /\ \A v \in 0..(k + 1) : Grows(Tables[v], Tables[k + 1])
    OBVIOUS
  <2>1. k + 1 \in 1..n /\ (k + 1) - 1 = k /\ k <= n
    BY <1>1
  <2>2. Tables[k + 1] = FoldLeft(Handle, Tables[k], Ledgers[k + 1])
    BY <1>2, <2>1
  <2>3. WellFormed(Tables[k]) /\ \A v \in 0..k : Grows(Tables[v], Tables[k])
    BY <1>5, <2>1
  <2>4. WellFormed(Tables[k + 1]) /\ Grows(Tables[k], Tables[k + 1])
    BY <2>1, <2>2, <2>3, LedgerFacts DEF n
  <2>5. ASSUME NEW v \in 0..(k + 1) PROVE Grows(Tables[v], Tables[k + 1])
    <3>1. CASE v = k + 1
      BY <1>3, <3>1
    <3>2. CASE v # k + 1
      <4>1. v \in 0..k
        BY <3>2
      <4> QED
        BY <2>3, <2>4, <4>1, GrowsOn
    <3> QED
      BY <3>1, <3>2
  <2> QED
    BY <2>4, <2>5
<1> HIDE DEF S
<1>6. \A k \in Nat : k \in S
  BY <1>4, <1>5, InductiveSet
<1> HIDE DEF n
<1>7. ASSUME NEW w \in 0..n
      PROVE  WellFormed(Tables[w]) /\ \A v \in 0..w : Grows(Tables[v], Tables[w])
  <2>1. w \in Nat /\ w <= n
    BY <1>1
  <2> QED
    BY <1>6, <2>1 DEF S
<1>8. ASSUME NEW v \in 0..n, NEW w \in 0..n, v <= w PROVE Grows(Tables[v], Tables[w])
  <2>1. v \in 0..w
    BY <1>1, <1>8
  <2> QED
    BY <1>7, <2>1
<1> QED
  BY <1>7, <1>8 DEF Version, n

-----------------------------------------------------------------------------
(* Lists.                                                                  *)

\* A strict total order of a set, as pairs.
Orders(before, S) ==
  /\ \A k \in S : <<k, k>> \notin before
  /\ \A j, k \in S : j = k \/ <<j, k>> \in before \/ <<k, j>> \in before
  /\ \A i, j, k \in S : <<i, j>> \in before /\ <<j, k>> \in before => <<i, k>> \in before

\* How many of the rows stand before one.
Above(rows, before, k) == {j \in rows : <<j, k>> \in before}
Rank(rows, before, k) == Cardinality(Above(rows, before, k))

\* Ranks start at zero, follow the order and are all different.
LEMMA RankFacts ==
  ASSUME NEW rows, IsFiniteSet(rows), NEW before, Orders(before, rows)
  PROVE  /\ \A k \in rows : Rank(rows, before, k) \in 0..(Cardinality(rows) - 1)
         /\ \A j, k \in rows :
              <<j, k>> \in before => Rank(rows, before, j) < Rank(rows, before, k)
         /\ \A j, k \in rows : Rank(rows, before, j) = Rank(rows, before, k) => j = k
<1>1. ASSUME NEW k \in rows
      PROVE  /\ IsFiniteSet(Above(rows, before, k))
             /\ Rank(rows, before, k) \in 0..(Cardinality(rows) - 1)
  <2> DEFINE A == Above(rows, before, k)
  <2>1. A \in SUBSET (rows \ {k})
    BY DEF Above, Orders
  <2> HIDE DEF A
  <2>2. IsFiniteSet(rows \ {k}) /\ Cardinality(rows \ {k}) = Cardinality(rows) - 1
    BY FS_RemoveElement
  <2>3. IsFiniteSet(A) /\ Cardinality(A) <= Cardinality(rows \ {k})
    BY <2>1, <2>2, FS_Subset
  <2>4. Cardinality(A) \in Nat /\ Cardinality(rows) \in Nat
    BY <2>3, FS_CardinalityType
  <2> QED
    BY <2>2, <2>3, <2>4 DEF A, Rank
<1>2. ASSUME NEW j \in rows, NEW k \in rows, <<j, k>> \in before
      PROVE  Rank(rows, before, j) < Rank(rows, before, k)
  <2> DEFINE A == Above(rows, before, j)
             B == Above(rows, before, k)
  <2>1. j \in B /\ A \in SUBSET (B \ {j})
    BY <1>2 DEF Above, Orders
  <2>2. IsFiniteSet(A) /\ IsFiniteSet(B)
    BY <1>1
  <2> HIDE DEF A, B
  <2>3. IsFiniteSet(B \ {j}) /\ Cardinality(B \ {j}) = Cardinality(B) - 1
    BY <2>1, <2>2, FS_RemoveElement
  <2>4. Cardinality(A) <= Cardinality(B \ {j})
    BY <2>1, <2>3, FS_Subset
  <2>5. Cardinality(A) \in Nat /\ Cardinality(B) \in Nat
    BY <2>2, FS_CardinalityType
  <2> QED
    BY <2>3, <2>4, <2>5 DEF A, B, Rank
<1>3. ASSUME NEW j \in rows, NEW k \in rows,
             Rank(rows, before, j) = Rank(rows, before, k), j # k
      PROVE  FALSE
  <2>1. <<j, k>> \in before \/ <<k, j>> \in before
    BY <1>3 DEF Orders
  <2>2. Rank(rows, before, j) \in Int /\ Rank(rows, before, k) \in Int
    <3>1. Cardinality(rows) \in Nat
      BY FS_CardinalityType
    <3> QED
      BY <1>1, <3>1
  <2> QED
    BY <1>2, <1>3, <2>1, <2>2
<1> QED
  BY <1>1, <1>2, <1>3

\* So in order there is one row for each number.
LEMMA InOrderFacts ==
  ASSUME NEW rows, IsFiniteSet(rows), NEW before, Orders(before, rows)
  PROVE  LET list == InOrder(rows, before)
         IN  /\ Cardinality(rows) \in Nat
             /\ list \in Seq(rows) /\ Len(list) = Cardinality(rows)
             /\ \A i \in 1..Cardinality(rows) :
                  list[i] \in rows /\ Rank(rows, before, list[i]) = i - 1
             /\ \A k \in rows : /\ Rank(rows, before, k) + 1 \in 1..Cardinality(rows)
                                /\ list[Rank(rows, before, k) + 1] = k
<1> DEFINE n == Cardinality(rows)
           list == InOrder(rows, before)
           R(k) == Rank(rows, before, k)
           f == [k \in rows |-> R(k) + 1]
<1>1. n \in Nat
  BY FS_CardinalityType
<1>2. \A k \in rows : R(k) \in 0..(n - 1)
  BY RankFacts
<1>3. \A j, k \in rows : R(j) = R(k) => j = k
  BY RankFacts
<1> HIDE DEF n, R
<1>4. f \in Injection(rows, 1..n)
  <2>1. \A k \in rows : R(k) + 1 \in 1..n
    BY <1>1, <1>2
  <2>2. \A j, k \in rows : R(j) + 1 = R(k) + 1 => j = k
    <3>1. \A k \in rows : R(k) \in Int
      BY <1>1, <1>2
    <3> QED
      BY <1>3, <3>1
  <2> QED
    BY <2>1, <2>2 DEF Injection, IsInjective
<1>5. f \in Surjection(rows, 1..n)
  <2>1. IsFiniteSet(1..n) /\ Cardinality(1..n) = n
    BY <1>1, FS_Interval
  <2>2. Cardinality(rows) = Cardinality(1..n)
    BY <2>1 DEF n
  <2> HIDE DEF f
  <2> QED
    BY <1>4, <2>1, <2>2, FS_Injection
<1>6. \A i \in 1..n : \E k \in rows : R(k) = i - 1
  <2>1. \A i \in 1..n : \E k \in rows : f[k] = i
    BY <1>5 DEF Surjection
  <2>2. \A k \in rows : R(k) \in Int
    BY <1>1, <1>2
  <2> TAKE i \in 1..n
  <2>3. PICK k \in rows : f[k] = i
    BY <2>1
  <2>4. R(k) + 1 = i /\ R(k) \in Int
    BY <2>2, <2>3
  <2>5. R(k) = i - 1
    BY <2>4
  <2> QED
    BY <2>5
<1>7. list = [i \in 1..n |-> CHOOSE k \in rows : R(k) = i - 1]
  BY DEF InOrder, n, R, Rank, Above
<1>8. \A i \in 1..n : list[i] \in rows /\ R(list[i]) = i - 1
  <2> TAKE i \in 1..n
  <2>1. list[i] = CHOOSE k \in rows : R(k) = i - 1
    BY <1>7
  <2>2. \E k \in rows : R(k) = i - 1
    BY <1>6
  <2> HIDE DEF list
  <2> QED
    BY <2>1, <2>2
<1> HIDE DEF list
<1>9. list \in Seq(rows) /\ Len(list) = n
  <2>1. list \in [1..n -> rows]
    BY <1>7, <1>8
  <2> QED
    BY <1>1, <2>1
<1>10. ASSUME NEW k \in rows PROVE R(k) + 1 \in 1..n /\ list[R(k) + 1] = k
  <2>1. R(k) + 1 \in 1..n /\ (R(k) + 1) - 1 = R(k)
    BY <1>1, <1>2
  <2>2. list[R(k) + 1] \in rows /\ R(list[R(k) + 1]) = R(k)
    BY <1>8, <2>1
  <2> QED
    BY <1>3, <2>1, <2>2
<1> QED
  BY <1>1, <1>8, <1>9, <1>10 DEF n, R, list

\* Every version has tables, the last one among them.
LEMMA VersionFacts ==
  /\ Len(Ledgers) \in Nat /\ Len(Ledgers) \in Version
  /\ \A v \in Version : v \in Nat /\ v <= Len(Ledgers)
BY LedgersAssumption DEF Version

\* There is such a numbering of every finite set.
LEMMA NumberingFacts ==
  ASSUME NEW rows, IsFiniteSet(rows)
  PROVE  /\ \A k \in rows : Numbering(rows)[k] \in Nat
         /\ \A j, k \in rows : Numbering(rows)[j] = Numbering(rows)[k] => j = k
<1> DEFINE n == Cardinality(rows)
<1>1. n \in Nat
  BY FS_CardinalityType
<1>2. IsFiniteSet(1..n) /\ Cardinality(1..n) = n
  BY <1>1, FS_Interval
<1>3. ExistsBijection(rows, 1..n)
  BY <1>2, FS_SameCardinalityBij
<1> HIDE DEF n
<1>4. \E number \in Injection(rows, 1..n) : TRUE
  BY <1>3 DEF ExistsBijection, Bijection
<1>5. Numbering(rows) \in Injection(rows, 1..n)
  BY <1>4 DEF Numbering, n
<1> QED
  BY <1>1, <1>5 DEF Injection, IsInjective

\* A circle has its row from the ledger that created it on.
LEMMA CreatedFacts ==
  ASSUME NEW c \in FinalCircles
  PROVE  /\ CreatedIn[c] \in Version
         /\ \A v \in Version : c \in DOMAIN Tables[v].circles <=> CreatedIn[c] <= v
<1> DEFINE S == {v \in Version : c \in DOMAIN Tables[v].circles}
<1>1. S \subseteq Nat /\ S # {}
  BY VersionFacts DEF FinalCircles
<1>2. PICK i \in S : \A j \in S : i <= j
  BY <1>1, LeastNatural
<1>3. CreatedIn[c] = Min(S)
  BY DEF CreatedIn
<1> HIDE DEF S
<1>4. Min(S) \in S /\ \A j \in S : Min(S) <= j
  BY <1>2, Zenon DEF Min
<1>5. CreatedIn[c] \in Version /\ c \in DOMAIN Tables[CreatedIn[c]].circles
  BY <1>3, <1>4 DEF S
<1>6. ASSUME NEW v \in Version
      PROVE  c \in DOMAIN Tables[v].circles <=> CreatedIn[c] <= v
  <2>1. c \in DOMAIN Tables[v].circles => CreatedIn[c] <= v
    BY <1>3, <1>4 DEF S
  <2>2. CreatedIn[c] <= v => c \in DOMAIN Tables[v].circles
    <3>1. CreatedIn[c] <= v => Grows(Tables[CreatedIn[c]], Tables[v])
      BY <1>5, TablesFacts
    <3> QED
      BY <1>5, <3>1 DEF Grows
  <2> QED
    BY <2>1, <2>2
<1> QED
  BY <1>5, <1>6

\* The order of each list.
OrderOf(list) ==
  CASE list = "asc"           -> ByCreation
    [] list = "desc"          -> ByCreationDescending
    [] list = "contributions" -> ByLedgerDescending

\* The lists there are.
Lists == {"asc", "desc", "contributions"}

\* All the rows that a list ever has.
AllRows(list) ==
  IF list = "contributions" THEN DOMAIN FinalContributions ELSE FinalCircles

\* Lists are finite and only grow.
LEMMA AllRowsFacts ==
  /\ \A list \in Lists : IsFiniteSet(AllRows(list))
  /\ \A list \in Lists : \A m : \A v \in Version : RowsAt(list, m, v) \subseteq AllRows(list)
  /\ \A list \in Lists : \A m : \A v, w \in Version :
       v <= w => RowsAt(list, m, v) \subseteq RowsAt(list, m, w)
<1>1. \A list \in Lists : IsFiniteSet(AllRows(list))
  BY TablesFacts, VersionFacts
     DEF Lists, AllRows, FinalContributions, FinalCircles, WellFormed
<1>2. ASSUME NEW v \in Version, NEW w \in Version, v <= w, NEW list \in Lists, NEW m
      PROVE  RowsAt(list, m, v) \subseteq RowsAt(list, m, w)
  BY <1>2, TablesFacts DEF RowsAt, Grows
<1>3. ASSUME NEW v \in Version, NEW list \in Lists, NEW m
      PROVE  RowsAt(list, m, v) \subseteq AllRows(list)
  <2>1. Grows(Tables[v], Tables[Len(Ledgers)])
    BY TablesFacts, VersionFacts
  <2> QED
    BY <2>1 DEF RowsAt, AllRows, FinalCircles, FinalContributions, Grows
<1> QED
  BY <1>1, <1>2, <1>3

\* Each is one: what breaks its ties is different for any two rows.
LEMMA ListsAreOrdered == \A list \in Lists : Orders(OrderOf(list), AllRows(list))
<1>1. \A c \in FinalCircles : CreatedIn[c] \in Nat
  BY CreatedFacts, VersionFacts
<1>2. /\ \A k \in FinalCircles : Alphabet[k] \in Nat
      /\ \A j, k \in FinalCircles : Alphabet[j] = Alphabet[k] => j = k
  <2>1. IsFiniteSet(FinalCircles)
    BY AllRowsFacts DEF Lists, AllRows
  <2> QED
    BY <2>1, NumberingFacts DEF Alphabet
<1>3. /\ \A k \in DOMAIN FinalContributions : Serial[k] \in Nat
      /\ \A j, k \in DOMAIN FinalContributions : Serial[j] = Serial[k] => j = k
  <2>1. IsFiniteSet(DOMAIN FinalContributions)
    BY AllRowsFacts DEF Lists, AllRows
  <2> QED
    BY <2>1, NumberingFacts DEF Serial
<1>4. \A k \in DOMAIN FinalContributions :
        FinalContributions[k].ledger \in Nat /\ k[3] \in Nat
  BY TablesFacts, VersionFacts DEF FinalContributions, WellFormed
<1>5. Orders(ByCreation, FinalCircles)
  BY <1>1, <1>2 DEF Orders, ByCreation
<1>6. Orders(ByCreationDescending, FinalCircles)
  BY <1>1, <1>2 DEF Orders, ByCreationDescending
<1>7. Orders(ByLedgerDescending, DOMAIN FinalContributions)
  BY <1>3, <1>4 DEF Orders, ByLedgerDescending
<1> QED
  BY <1>5, <1>6, <1>7 DEF Lists, OrderOf, AllRows

\* The place of a row in a list as of a ledger.
Place(list, m, v, k) == Rank(RowsAt(list, m, v), OrderOf(list), k) + 1

\* A list has every row of its ledger, each in its place.
LEMMA ListFacts ==
  ASSUME NEW list \in Lists, NEW m, NEW v \in Version
  PROVE  /\ Len(ListAt(list, m, v)) \in Nat
         /\ ListAt(list, m, v) \in Seq(RowsAt(list, m, v))
         /\ \A i \in 1..Len(ListAt(list, m, v)) :
              /\ ListAt(list, m, v)[i] \in RowsAt(list, m, v)
              /\ Place(list, m, v, ListAt(list, m, v)[i]) = i
         /\ \A k \in RowsAt(list, m, v) :
              /\ Place(list, m, v, k) \in 1..Len(ListAt(list, m, v))
              /\ ListAt(list, m, v)[Place(list, m, v, k)] = k
<1> DEFINE rows == RowsAt(list, m, v)
           before == OrderOf(list)
<1>1. rows \subseteq AllRows(list) /\ IsFiniteSet(AllRows(list))
  BY AllRowsFacts
<1>2. ListAt(list, m, v) = InOrder(rows, before)
  BY DEF ListAt, OrderOf
<1>3. Orders(before, AllRows(list))
  BY ListsAreOrdered
<1> HIDE DEF rows, before
<1>4. IsFiniteSet(rows)
  BY <1>1, FS_Subset
<1>5. Orders(before, rows)
  BY <1>1, <1>3 DEF Orders
<1> DEFINE all == InOrder(rows, before)
<1>6. /\ Cardinality(rows) \in Nat
      /\ all \in Seq(rows) /\ Len(all) = Cardinality(rows)
      /\ \A i \in 1..Cardinality(rows) :
           all[i] \in rows /\ Rank(rows, before, all[i]) = i - 1
      /\ \A k \in rows : /\ Rank(rows, before, k) + 1 \in 1..Cardinality(rows)
                         /\ all[Rank(rows, before, k) + 1] = k
  BY <1>4, <1>5, InOrderFacts
<1>7. ListAt(list, m, v) = all
  BY <1>2
<1>8. \A k : Place(list, m, v, k) = Rank(rows, before, k) + 1
  BY DEF Place, rows, before
<1>9. RowsAt(list, m, v) = rows
  BY DEF rows
<1> HIDE DEF all
<1>10. \A i \in 1..Cardinality(rows) : all[i] \in rows /\ Place(list, m, v, all[i]) = i
  <2> TAKE i \in 1..Cardinality(rows)
  <2>1. Rank(rows, before, all[i]) = i - 1 /\ all[i] \in rows
    BY <1>6
  <2> QED
    BY <1>6, <1>8, <2>1
<1> QED
  BY <1>6, <1>7, <1>8, <1>9, <1>10

\* Rows that come later push others back, never forward; in order of creation
\* they do not even do that.
LEMMA PlacesOnlyGrow ==
  ASSUME NEW list \in Lists, NEW m, NEW v \in Version, NEW w \in Version, v <= w,
         NEW k \in RowsAt(list, m, v)
  PROVE  /\ k \in RowsAt(list, m, w)
         /\ Place(list, m, v, k) \in Nat /\ Place(list, m, w, k) \in Nat
         /\ Place(list, m, v, k) <= Place(list, m, w, k)
         /\ list = "asc" => Place(list, m, v, k) = Place(list, m, w, k)
<1> DEFINE before == OrderOf(list)
           A == Above(RowsAt(list, m, v), before, k)
           B == Above(RowsAt(list, m, w), before, k)
<1>1. /\ RowsAt(list, m, v) \subseteq RowsAt(list, m, w)
      /\ RowsAt(list, m, w) \subseteq AllRows(list) /\ IsFiniteSet(AllRows(list))
  BY AllRowsFacts
<1>2. A \subseteq B /\ B \subseteq AllRows(list)
  BY <1>1 DEF Above
<1>3. Place(list, m, v, k) = Cardinality(A) + 1 /\ Place(list, m, w, k) = Cardinality(B) + 1
  BY DEF Place, Rank
<1>4. list = "asc" => A = B
  <2> SUFFICES ASSUME list = "asc", NEW j \in B PROVE j \in A
    BY <1>2
  <2>1. j \in RowsAt(list, m, w) /\ <<j, k>> \in ByCreation
    BY DEF Above, OrderOf
  <2>2. j \in FinalCircles /\ k \in FinalCircles /\ CreatedIn[j] <= CreatedIn[k]
    <3>1. j \in FinalCircles /\ k \in FinalCircles
      BY <2>1 DEF ByCreation
    <3>2. CreatedIn[j] \in Nat /\ CreatedIn[k] \in Nat
      BY <3>1, CreatedFacts, VersionFacts
    <3> QED
      BY <2>1, <3>1, <3>2 DEF ByCreation
  <2>3. CreatedIn[k] <= v
    BY <2>2, CreatedFacts DEF RowsAt
  <2>4. CreatedIn[j] <= v
    <3>1. CreatedIn[j] \in Nat /\ CreatedIn[k] \in Nat /\ v \in Nat
      BY <2>2, CreatedFacts, VersionFacts
    <3> QED
      BY <2>2, <2>3, <3>1
  <2>5. j \in RowsAt(list, m, v)
    BY <2>2, <2>4, CreatedFacts DEF RowsAt
  <2> QED
    BY <2>1, <2>5 DEF Above, OrderOf
<1> HIDE DEF A, B, before
<1>5. IsFiniteSet(B)
  BY <1>1, <1>2, FS_Subset
<1>6. IsFiniteSet(A) /\ Cardinality(A) <= Cardinality(B)
  BY <1>2, <1>5, FS_Subset
<1>7. Cardinality(A) \in Nat /\ Cardinality(B) \in Nat
  BY <1>5, <1>6, FS_CardinalityType
<1> QED
  BY <1>1, <1>3, <1>4, <1>6, <1>7

-----------------------------------------------------------------------------
(* Pages.                                                                  *)

\* How many rows stand on the pages before one.
Offset(page) == (page - 1) * Limit

\* The pages follow each other without a gap.
LEMMA OffsetFacts ==
  ASSUME NEW page \in Nat \ {0}
  PROVE  /\ Offset(page) \in Nat /\ Limit \in Nat /\ Limit >= 1
         /\ page * Limit = Offset(page) + Limit
         /\ Offset(page + 1) = Offset(page) + Limit
         /\ Offset(1) = 0
<1>1. Limit \in Nat /\ Limit >= 1
  BY ApiAssumption
<1>2. ASSUME NEW a \in Nat, NEW b \in Nat
      PROVE  a * b \in Nat /\ (a + 1) * b = a * b + b
  OBVIOUS
<1>3. PICK a \in Nat : page = a + 1
  <2>1. page - 1 \in Nat /\ page = (page - 1) + 1
    OBVIOUS
  <2> QED
    BY <2>1
<1>4. a * Limit \in Nat /\ (a + 1) * Limit = a * Limit + Limit
  BY <1>1, <1>2
<1>5. page - 1 = a /\ (page + 1) - 1 = a + 1
  BY <1>3
<1>6. Offset(page) = a * Limit /\ Offset(page + 1) = (a + 1) * Limit
      /\ page * Limit = (a + 1) * Limit
  BY <1>3, <1>5 DEF Offset
<1>7. Offset(1) = 0
  BY <1>1 DEF Offset
<1> QED
  BY <1>1, <1>4, <1>6, <1>7

\* No page is missing from the number of pages.
LEMMA LastPage ==
  ASSUME NEW total \in Nat, NEW page \in Nat \ {0}
  PROVE  /\ totalPages(total) \in Nat
         /\ page >= totalPages(total) => total <= Offset(page) + Limit
<1>1. Limit \in Nat /\ Limit >= 1 /\ page * Limit = Offset(page) + Limit
  BY OffsetFacts
<1>2. ASSUME NEW a \in Nat, NEW b \in Nat, b >= 1
      PROVE  a \div b \in Nat /\ a < (a \div b) * b + b
  BY <1>2
<1> DEFINE q == (total + Limit - 1) \div Limit
<1>3. total + Limit - 1 \in Nat
  BY <1>1
<1>4. q \in Nat /\ total + Limit - 1 < q * Limit + Limit
  BY <1>1, <1>2, <1>3
<1>5. totalPages(total) = q
  BY DEF totalPages
<1> HIDE DEF q
<1>6. ASSUME page >= q PROVE total <= page * Limit
  <2>1. ASSUME NEW a \in Nat, NEW b \in Nat, NEW c \in Nat, a <= b
        PROVE  a * c <= b * c /\ a * c \in Int /\ b * c \in Int
    BY <2>1
  <2>2. q * Limit <= page * Limit /\ q * Limit \in Int /\ page * Limit \in Int
    BY <1>1, <1>4, <1>6, <2>1
  <2> HIDE DEF q
  <2>3. PICK x \in Int, y \in Int : x = q * Limit /\ y = page * Limit
    BY <2>2
  <2>4. x <= y /\ total + Limit - 1 < x + Limit
    BY <1>4, <2>2, <2>3
  <2>5. total <= y
    BY <1>1, <2>4
  <2> QED
    BY <2>3, <2>5
<1> QED
  BY <1>1, <1>4, <1>5, <1>6

\* The smaller of two numbers.
LEMMA SmallerIs ==
  ASSUME NEW a \in Int, NEW b \in Int
  PROVE  Min({a, b}) = IF a <= b THEN a ELSE b
<1> DEFINE m == IF a <= b THEN a ELSE b
<1>1. m \in {a, b} /\ \A y \in {a, b} : m <= y
  OBVIOUS
<1>2. \A x \in {a, b} : (\A y \in {a, b} : x <= y) => x = m
  OBVIOUS
<1> HIDE DEF m
<1>3. Min({a, b}) = m
  BY <1>1, <1>2 DEF Min
<1> QED
  BY <1>3 DEF m

\* A page has the rows whose places are on it, and is empty only if the list
\* ends before it.
LEMMA PageFacts ==
  ASSUME NEW list \in Lists, NEW m, NEW v \in Version, NEW page \in Nat \ {0}
  PROVE  LET rows == PageOf(ListAt(list, m, v), page)
         IN  /\ rows \in Seq(AllRows(list)) /\ Len(rows) \in Nat /\ Len(rows) <= Limit
             /\ \A k \in RowsAt(list, m, v) :
                  Offset(page) < Place(list, m, v, k)
                    /\ Place(list, m, v, k) <= Offset(page) + Limit =>
                  \E i \in 1..Len(rows) : rows[i] = k
             /\ \A i \in 1..Len(rows) :
                  /\ rows[i] \in RowsAt(list, m, v)
                  /\ Place(list, m, v, rows[i]) = Offset(page) + i
             /\ Len(rows) = 0 => Len(ListAt(list, m, v)) <= Offset(page)
<1> DEFINE all == ListAt(list, m, v)
           set == RowsAt(list, m, v)
           place(k) == Place(list, m, v, k)
           lo == Offset(page)
           hi == IF lo + Limit <= Len(all) THEN lo + Limit ELSE Len(all)
           rows == PageOf(all, page)
<1>1. lo \in Nat /\ Limit \in Nat /\ Limit >= 1 /\ page * Limit = lo + Limit
  BY OffsetFacts
<1>2. /\ Len(all) \in Nat /\ all \in Seq(set)
      /\ \A i \in 1..Len(all) : all[i] \in set /\ place(all[i]) = i
      /\ \A k \in set : place(k) \in 1..Len(all) /\ all[place(k)] = k
  BY ListFacts
<1>3. rows = SubSeq(all, lo + 1, Min({lo + Limit, Len(all)}))
  BY <1>1 DEF PageOf, Offset
<1>a. set \subseteq AllRows(list)
  BY AllRowsFacts
<1> HIDE DEF all, set, place, lo, rows
<1>4. hi \in Nat /\ hi <= lo + Limit /\ hi <= Len(all)
  BY <1>1, <1>2
<1>5. rows = SubSeq(all, lo + 1, hi)
  <2>1. Min({lo + Limit, Len(all)}) = hi
    BY <1>1, <1>2, SmallerIs
  <2> QED
    BY <1>3, <2>1
<1>6. /\ rows \in Seq(set)
      /\ Len(rows) = IF lo + 1 <= hi THEN hi - (lo + 1) + 1 ELSE 0
      /\ \A i \in 1..(hi - (lo + 1) + 1) : rows[i] = all[(lo + 1) + i - 1]
  <2>1. lo + 1 \in Int /\ hi \in Int
    BY <1>1, <1>4
  <2>2. \A i \in (lo + 1)..hi : all[i] \in set
    BY <1>1, <1>2, <1>4
  <2> HIDE DEF hi
  <2> QED
    BY <1>5, <2>1, <2>2, SubSeqProperties
<1>7. Len(rows) \in Nat /\ Len(rows) <= Limit
  <2> HIDE DEF hi
  <2> QED
    BY <1>1, <1>4, <1>6
<1>8. rows \in Seq(AllRows(list))
  BY <1>a, <1>6, SeqMonotonic
<1>9. ASSUME NEW i \in 1..Len(rows)
      PROVE  rows[i] \in set /\ place(rows[i]) = lo + i
  <2>1. i \in 1..(hi - (lo + 1) + 1) /\ lo + i \in 1..Len(all) /\ (lo + 1) + i - 1 = lo + i
    <3> HIDE DEF hi
    <3> QED
      BY <1>1, <1>2, <1>4, <1>6
  <2>2. rows[i] = all[lo + i]
    BY <1>6, <2>1
  <2> QED
    BY <1>2, <2>1, <2>2
<1>10. ASSUME NEW k \in set, lo < place(k), place(k) <= lo + Limit
       PROVE  \E i \in 1..Len(rows) : rows[i] = k
  <2>1. place(k) \in 1..Len(all) /\ all[place(k)] = k
    BY <1>2
  <2> DEFINE i == place(k) - lo
  <2>2. place(k) <= hi /\ lo + 1 <= hi
    BY <1>1, <1>2, <1>10, <2>1
  <2>3. i \in 1..(hi - (lo + 1) + 1) /\ (lo + 1) + i - 1 = place(k) /\ i \in 1..Len(rows)
    <3> HIDE DEF hi
    <3> QED
      BY <1>1, <1>4, <1>6, <1>10, <2>1, <2>2
  <2>4. rows[i] = all[(lo + 1) + i - 1]
    <3> HIDE DEF hi, i
    <3> QED
      BY <1>6, <2>3
  <2> QED
    BY <2>1, <2>3, <2>4
<1>11. ASSUME Len(rows) = 0 PROVE Len(all) <= lo
  <2>1. Len(all) \in Nat /\ (lo + 1 <= hi => hi - (lo + 1) + 1 = 0)
    <3> HIDE DEF hi
    <3> QED
      BY <1>2, <1>6, <1>11
  <2>2. PICK n \in Nat : n = Len(all)
    BY <2>1
  <2>3. hi = IF lo + Limit <= n THEN lo + Limit ELSE n
    BY <2>2
  <2> HIDE DEF hi
  <2> QED
    BY <1>1, <1>4, <2>1, <2>2, <2>3
<1>12. \A k \in RowsAt(list, m, v) :
         Offset(page) < Place(list, m, v, k)
           /\ Place(list, m, v, k) <= Offset(page) + Limit =>
         \E i \in 1..Len(rows) : rows[i] = k
  BY <1>10 DEF set, place, lo
<1>13. \A i \in 1..Len(rows) : /\ rows[i] \in RowsAt(list, m, v)
                               /\ Place(list, m, v, rows[i]) = Offset(page) + i
  BY <1>9 DEF set, place, lo
<1>14. Len(rows) = 0 => Len(ListAt(list, m, v)) <= Offset(page)
  BY <1>11 DEF all, lo
<1>15. rows = PageOf(ListAt(list, m, v), page)
  BY DEF rows, all
<1> QED
  BY <1>7, <1>8, <1>12, <1>13, <1>14, <1>15

-----------------------------------------------------------------------------
(* A request on its way.                                                   *)

\* The fields of a request.
CallFields == {"endpoint", "list", "circle", "member", "page", "stage", "todo",
               "running", "at", "status"}

\* The queries of its stage, and those that have been read.
Due(c) == Stages[c.endpoint][c.stage]
Upto(e, n) == UNION {Stages[e][j] : j \in 1..n}
Read(c) == Upto(c.endpoint, c.stage - 1) \cup (Due(c) \ (c.todo \cup c.running))

\* Neither refused nor failed.
Alive(c) == c.status \in {0, 200} /\ c.endpoint # "none"

\* It is in one of its endpoint's stages, and has read all of those before.
Staged(c) ==
  /\ c.endpoint \in Endpoints /\ c.stage \in 1..Len(Stages[c.endpoint])
  /\ c.todo \subseteq Due(c) /\ c.running \subseteq Due(c)
  /\ c.todo \cap c.running = {}
  /\ DOMAIN c.at = Read(c)
  /\ c.status = 200 => c.todo \cup c.running = {} /\ c.stage = Len(Stages[c.endpoint])

\* Where it matters when a query ran, it saw a ledger that was committed.
Exact == {"circles", "contributions", "detail", "rounds", "export"}
SeenBy(c, v) == c.endpoint \in Exact => \A q \in DOMAIN c.at : c.at[q] \in 0..v

\* How the reads of one answer stand to each other.
ReadsAgree(c) ==
  /\ c.endpoint = "export" => \A q, r \in DOMAIN c.at : c.at[q] = c.at[r]
  /\ c.endpoint = "rounds" /\ "circle" \in DOMAIN c.at =>
       \A q \in DOMAIN c.at : c.at["circle"] <= c.at[q]
  /\ c.endpoint = "detail" /\ "state" \in DOMAIN c.at =>
       \A q \in DOMAIN c.at : c.at[q] <= c.at["state"]
  /\ c.endpoint \in {"rounds", "export"} /\ "circle" \in DOMAIN c.at =>
       c.circle \in DOMAIN Tables[c.at["circle"]].circles

\* A page that there is, of a list that there is.
OnePage(c) ==
  c.endpoint \in {"circles", "contributions"} => c.page \in Nat \ {0} /\ c.list \in Lists

\* A request, as far as the ledgers up to v can have brought it.
CallOK(c, v) ==
  /\ DOMAIN c = CallFields
  /\ c.status = 0 => c.endpoint # "none"
  /\ c.at = <<>> \/ DOMAIN c.at # {}
  /\ Alive(c) => Staged(c) /\ SeenBy(c, v) /\ ReadsAgree(c) /\ OnePage(c)

\* What the order of the shutdown leaves of the other parts.
StopsInOrder ==
  /\ phase \in {"http", "pool", "exited"} => poller = "off"
  /\ phase = "pool" => call.status # 0 /\ others = 0
  /\ phase = "exited" => call.status # 0 /\ others = 0 /\ strays = 0
  /\ ~cut

-----------------------------------------------------------------------------
(* A walk on its way.                                                      *)

\* The fields of a walk.
WalkFields == {"list", "member", "page", "since", "shown", "end"}

\* The ledger that the page is read from: if it is not read yet, it will be of
\* this ledger or a later one.
Horizon(c, v) == IF Alive(c) /\ "rows" \in DOMAIN c.at THEN c.at["rows"] ELSE v

\* The walk has yielded the row.
Shown(w, k) == \E i \in 1..Len(w.shown) : w.shown[i] = k

\* Every row that was there when the walk began and stands, as of a ledger,
\* among the first so many has been shown.
ShownTo(w, v, n) ==
  \A k \in RowsAt(w.list, w.member, w.since) :
    Place(w.list, w.member, v, k) <= n => Shown(w, k)

\* None was shown twice: in order of creation a place is for ever.
Once(w, n) ==
  /\ \A i, j \in 1..Len(w.shown) : w.shown[i] = w.shown[j] => i = j
  /\ \A i \in 1..Len(w.shown) :
       /\ w.shown[i] \in RowsAt(w.list, w.member, Len(Ledgers))
       /\ Place(w.list, w.member, Len(Ledgers), w.shown[i]) <= n

\* The request is for the walk's page, and began after it.
ForPage(w, c) ==
  /\ c.endpoint = (IF w.list = "contributions" THEN "contributions" ELSE "circles")
  /\ c.list = w.list /\ c.member = w.member /\ c.page = w.page
  /\ \A q \in DOMAIN c.at : w.since <= c.at[q]

\* What a walk that has ended promises.
FoundAll(w, c) ==
  /\ \/ \A k \in RowsAt(w.list, w.member, w.since) : Shown(w, k)
     \/ /\ w.list # "asc"
        /\ Len(ListAt(w.list, w.member, c.at["count"]))
             < Len(ListAt(w.list, w.member, c.at["rows"]))
  /\ w.list = "asc" => \A i, j \in 1..Len(w.shown) : w.shown[i] = w.shown[j] => i = j

\* A walk, its request and the ledger committed last.
WalkOK(w, c, v) ==
  /\ DOMAIN w = WalkFields
  /\ w.list # "none" =>
       /\ w.list \in Lists /\ w.page \in Nat \ {0} /\ w.since \in 0..v
       /\ w.shown \in Seq(AllRows(w.list))
       /\ w.end = "no" =>
            /\ c.status \in {0, 200} => ForPage(w, c)
            /\ ShownTo(w, Horizon(c, v), Offset(w.page))
            /\ w.list = "asc" => Once(w, Offset(w.page))
       /\ w.end = "done" => c.status = 200 /\ c.endpoint # "none" /\ FoundAll(w, c)
  /\ w.list = "none" => w.end = "no"

\* Every stage of every endpoint is a set of at most four queries.
LEMMA StageFacts ==
  ASSUME NEW e \in Endpoints
  PROVE  /\ Len(Stages[e]) \in Nat /\ Len(Stages[e]) >= 1
         /\ \A j \in 1..Len(Stages[e]) : IsFiniteSet(Stages[e][j])
         /\ e \in Exact => \A j \in 1..Len(Stages[e]) : "rpc" \notin Stages[e][j]
<1>1. \A a, b, d, f : IsFiniteSet({a, b, d, f})
  <2> TAKE a, b, d, f
  <2>1. IsFiniteSet({a})
    BY FS_Singleton
  <2>2. IsFiniteSet({a} \cup {b})
    BY <2>1, FS_AddElement
  <2>3. IsFiniteSet(({a} \cup {b}) \cup {d})
    BY <2>2, FS_AddElement
  <2>4. IsFiniteSet((({a} \cup {b}) \cup {d}) \cup {f})
    BY <2>3, FS_AddElement
  <2>5. (({a} \cup {b}) \cup {d}) \cup {f} = {a, b, d, f}
    OBVIOUS
  <2> QED
    BY <2>4, <2>5
<1>2. \A a, b, d, f : /\ IsFiniteSet({a}) /\ IsFiniteSet({a, b})
                      /\ IsFiniteSet({a, b, d}) /\ IsFiniteSet({a, b, d, f})
  <2> TAKE a, b, d, f
  <2>1. {a} = {a, a, a, a} /\ {a, b} = {a, a, a, b} /\ {a, b, d} = {a, a, b, d}
    OBVIOUS
  <2>2. IsFiniteSet({a, a, a, a}) /\ IsFiniteSet({a, a, a, b}) /\ IsFiniteSet({a, a, b, d})
    BY <1>1
  <2> QED
    BY <1>1, <2>1, <2>2
<1>2a. \A n \in 1..6 : n \in Nat /\ n >= 1
  OBVIOUS
<1>3. CASE e \in {"circles", "summary", "detail", "members"}
  <2>1. Stages[e] \in {listCircles, circlesSummary, circleDetail, circleMembers}
    BY <1>3 DEF Stages
  <2>1a. Len(Stages[e]) \in 1..6
    BY <2>1 DEF listCircles, circlesSummary, circleDetail, circleMembers
  <2>2. \A j \in 1..Len(Stages[e]) :
          Stages[e][j] \in {{"rows", "count"}, {"count"}, {"circle"}, {"members"}, {"state"},
                            {"members", "totals"}}
    BY <2>1 DEF listCircles, circlesSummary, circleDetail, circleMembers
  <2>3. /\ IsFiniteSet({"rows", "count"})
        /\ IsFiniteSet({"count"})
        /\ IsFiniteSet({"circle"})
        /\ IsFiniteSet({"members"})
        /\ IsFiniteSet({"state"})
        /\ IsFiniteSet({"members", "totals"})
    BY <1>2
  <2>4. \A j \in 1..Len(Stages[e]) : IsFiniteSet(Stages[e][j])
    BY <2>2, <2>3
  <2>5. e \in Exact => \A j \in 1..Len(Stages[e]) : "rpc" \notin Stages[e][j]
    BY <2>2
  <2>6. Len(Stages[e]) \in Nat /\ Len(Stages[e]) >= 1
    BY <1>2a, <2>1a, Zenon
  <2> QED
    BY <2>4, <2>5, <2>6
<1>4. CASE e \in {"rounds", "history", "contributions", "reputation"}
  <2>1. Stages[e] \in {circleRounds, circleHistory, memberContributions, memberReputation}
    BY <1>4 DEF Stages
  <2>1a. Len(Stages[e]) \in 1..6
    BY <2>1 DEF circleRounds, circleHistory, memberContributions, memberReputation
  <2>2. \A j \in 1..Len(Stages[e]) :
          Stages[e][j] \in {{"circle"}, {"payouts", "contributions", "defaults"}, {"rows"},
                            {"count"}, {"rows", "count"}, {"reputation"}, {"contributions"},
                            {"defaults"}}
    BY <2>1 DEF circleRounds, circleHistory, memberContributions, memberReputation
  <2>3. /\ IsFiniteSet({"circle"})
        /\ IsFiniteSet({"payouts", "contributions", "defaults"})
        /\ IsFiniteSet({"rows"})
        /\ IsFiniteSet({"count"})
        /\ IsFiniteSet({"rows", "count"})
        /\ IsFiniteSet({"reputation"})
        /\ IsFiniteSet({"contributions"})
        /\ IsFiniteSet({"defaults"})
    BY <1>2
  <2>4. \A j \in 1..Len(Stages[e]) : IsFiniteSet(Stages[e][j])
    BY <2>2, <2>3
  <2>5. e \in Exact => \A j \in 1..Len(Stages[e]) : "rpc" \notin Stages[e][j]
    BY <2>2
  <2>6. Len(Stages[e]) \in Nat /\ Len(Stages[e]) >= 1
    BY <1>2a, <2>1a, Zenon
  <2> QED
    BY <2>4, <2>5, <2>6
<1>5. CASE e \in {"audit", "export"}
  <2>1. Stages[e] \in {auditEvents, exportCsv}
    BY <1>5 DEF Stages
  <2>1a. Len(Stages[e]) \in 1..6
    BY <2>1 DEF auditEvents, exportCsv
  <2>2. \A j \in 1..Len(Stages[e]) :
          Stages[e][j] \in {{"circle"}, {"rows"}, {"count"}, {"members"}, {"contributions"},
                            {"defaults"}, {"payouts"}}
    BY <2>1 DEF auditEvents, exportCsv
  <2>3. /\ IsFiniteSet({"circle"})
        /\ IsFiniteSet({"rows"})
        /\ IsFiniteSet({"count"})
        /\ IsFiniteSet({"members"})
        /\ IsFiniteSet({"contributions"})
        /\ IsFiniteSet({"defaults"})
        /\ IsFiniteSet({"payouts"})
    BY <1>2
  <2>4. \A j \in 1..Len(Stages[e]) : IsFiniteSet(Stages[e][j])
    BY <2>2, <2>3
  <2>5. e \in Exact => \A j \in 1..Len(Stages[e]) : "rpc" \notin Stages[e][j]
    BY <2>2
  <2>6. Len(Stages[e]) \in Nat /\ Len(Stages[e]) >= 1
    BY <1>2a, <2>1a, Zenon
  <2> QED
    BY <2>4, <2>5, <2>6
<1>6. CASE e \in {"state", "failures", "health"}
  <2>1. Stages[e] \in {indexerState, eventFailures, runAllHealthChecks}
    BY <1>6 DEF Stages
  <2>1a. Len(Stages[e]) \in 1..6
    BY <2>1 DEF indexerState, eventFailures, runAllHealthChecks
  <2>2. \A j \in 1..Len(Stages[e]) :
          Stages[e][j] \in {{"state", "events", "entities", "statuses"}, {"failures"},
                            {"db", "rpc"}, {"lag", "drift", "failures"}}
    BY <2>1 DEF indexerState, eventFailures, runAllHealthChecks
  <2>3. /\ IsFiniteSet({"state", "events", "entities", "statuses"})
        /\ IsFiniteSet({"failures"})
        /\ IsFiniteSet({"db", "rpc"})
        /\ IsFiniteSet({"lag", "drift", "failures"})
    BY <1>2
  <2>4. \A j \in 1..Len(Stages[e]) : IsFiniteSet(Stages[e][j])
    BY <2>2, <2>3
  <2>5. e \in Exact => \A j \in 1..Len(Stages[e]) : "rpc" \notin Stages[e][j]
    BY <1>6, <2>2 DEF Exact
  <2>6. Len(Stages[e]) \in Nat /\ Len(Stages[e]) >= 1
    BY <1>2a, <2>1a, Zenon
  <2> QED
    BY <2>4, <2>5, <2>6
<1> QED
  BY <1>3, <1>4, <1>5, <1>6 DEF Endpoints, Stages

\* The queries of the first stages.
LEMMA UptoFacts ==
  /\ \A e, n, q : q \in Upto(e, n) <=> \E j \in 1..n : q \in Stages[e][j]
  /\ \A e : Upto(e, 0) = {}
  /\ \A e : \A n \in Nat \ {0} : Upto(e, n) = Upto(e, n - 1) \cup Stages[e][n]
<1>1. \A e, n, q : q \in Upto(e, n) <=> \E j \in 1..n : q \in Stages[e][j]
  BY DEF Upto
<1>2. 1..0 = {}
  OBVIOUS
<1>3. \A n \in Nat \ {0} : 1..n = 1..(n - 1) \cup {n}
  OBVIOUS
<1>4. \A e : \A n \in Nat \ {0} : Upto(e, n) = Upto(e, n - 1) \cup Stages[e][n]
  BY <1>1, <1>3
<1> QED
  BY <1>1, <1>2, <1>4

\* What was true of a request stays true when a ledger is committed.
LEMMA CallLater ==
  ASSUME NEW c, NEW v \in Nat, NEW w \in Nat, v <= w, CallOK(c, v)
  PROVE  CallOK(c, w)
<1>1. SeenBy(c, v) => SeenBy(c, w)
  BY DEF SeenBy
<1> QED
  BY <1>1 DEF CallOK

\* A request begins with nothing read and holds nothing.
LEMMA CallBegins ==
  ASSUME NEW e \in Endpoints, NEW list, NEW circle, NEW m, NEW page \in Nat \ {0},
         e \in {"circles", "contributions"} => list \in Lists, NEW v \in Nat
  PROVE  LET c == Call(e, list, circle, m, page)
         IN  /\ CallOK(c, v) /\ c.status = 0 /\ DOMAIN c.at = {} /\ HeldBy(c) = 0
             /\ c.endpoint = e /\ c.list = list /\ c.member = m /\ c.page = page
<1> DEFINE c == Call(e, list, circle, m, page)
<1>1. PICK empty : empty = <<>>
  OBVIOUS
<1>2. c = [endpoint |-> e, list |-> list, circle |-> circle, member |-> m,
           page |-> page, stage |-> 1, todo |-> Stages[e][1], running |-> {},
           at |-> empty, status |-> 0]
  BY <1>1, Zenon DEF Call
<1> HIDE DEF c
<1>3. /\ DOMAIN c = CallFields /\ c.endpoint = e /\ c.list = list /\ c.member = m
      /\ c.page = page /\ c.stage = 1 /\ c.todo = Stages[e][1] /\ c.running = {}
      /\ c.at = empty /\ c.status = 0
  BY <1>2 DEF CallFields
<1>4. DOMAIN empty = {}
  BY <1>1
<1>5. Len(Stages[e]) \in Nat /\ Len(Stages[e]) >= 1
  BY StageFacts
<1>6. Staged(c)
  <2>1. Upto(e, 1 - 1) = {}
    BY UptoFacts
  <2>2. Read(c) = {}
    BY <1>3, <2>1 DEF Read, Due
  <2> QED
    BY <1>3, <1>4, <1>5, <2>2 DEF Staged, Due
<1>7. SeenBy(c, v) /\ ReadsAgree(c) /\ OnePage(c)
  BY <1>3, <1>4 DEF SeenBy, ReadsAgree, OnePage
<1>8. c.at = <<>>
  BY <1>1, <1>3
<1>9. HeldBy(c) = 0
  <2>1. Cardinality({}) = 0
    BY FS_EmptySet
  <2> QED
    BY <1>3, <1>8, <2>1 DEF HeldBy
<1>10. CallOK(c, v)
  <2>1. e # "none"
    BY DEF Endpoints, Stages
  <2> QED
    BY <1>3, <1>6, <1>7, <1>8, <2>1 DEF CallOK
<1>11. DOMAIN c.at = {}
  BY <1>3, <1>4
<1> QED
  BY <1>3, <1>9, <1>10, <1>11 DEF c

\* One that has failed is nobody's any more.
LEMMA CallEnds ==
  ASSUME NEW status, status # 0, NEW v
  PROVE  LET c == [NoCall EXCEPT !.status = status]
         IN  CallOK(c, v) /\ c.status = status /\ c.endpoint = "none" /\ HeldBy(c) = 0
<1> DEFINE c == [NoCall EXCEPT !.status = status]
<1>1. PICK empty : empty = <<>>
  OBVIOUS
<1>2. NoCall = [endpoint |-> "none", list |-> "", circle |-> "", member |-> "",
                page |-> 0, stage |-> 1, todo |-> {}, running |-> {}, at |-> empty,
                status |-> 200]
  BY <1>1, Zenon DEF NoCall
<1>3. /\ DOMAIN c = CallFields /\ c.endpoint = "none" /\ c.status = status
      /\ c.at = empty
  BY <1>2 DEF CallFields
<1> HIDE DEF c
<1>4. c.at = <<>>
  BY <1>1, <1>3
<1> QED
  BY <1>3, <1>4 DEF CallOK, Alive, HeldBy, c

\* The queries that hold a connection can be counted.
LEMMA RunningFacts ==
  ASSUME NEW c, NEW v, CallOK(c, v), c.status = 0
  PROVE  /\ IsFiniteSet(c.running) /\ Cardinality(c.running) \in Nat
         /\ c.endpoint \in Endpoints /\ c.stage \in 1..Len(Stages[c.endpoint])
         /\ Staged(c)
<1>1. Staged(c)
  BY DEF CallOK, Alive
<1>2. IsFiniteSet(Due(c))
  BY <1>1, StageFacts DEF Staged, Due
<1>3. IsFiniteSet(c.running)
  BY <1>1, <1>2, FS_Subset DEF Staged
<1> QED
  BY <1>1, <1>3, FS_CardinalityType DEF Staged

\* A request holds a number of connections.
LEMMA HeldFacts ==
  ASSUME NEW c, NEW v, CallOK(c, v)
  PROVE  HeldBy(c) \in Nat
BY RunningFacts DEF HeldBy

\* A query gets a connection: its own, or the export's.
LEMMA QueryStarts ==
  ASSUME NEW c, NEW v, CallOK(c, v), c.status = 0, NEW q \in c.todo
  PROVE  LET d == [c EXCEPT !.todo = @ \ {q}, !.running = @ \cup {q}]
         IN  /\ CallOK(d, v) /\ d.at = c.at /\ d.status = 0
             /\ d.endpoint = c.endpoint /\ d.list = c.list /\ d.member = c.member
             /\ d.page = c.page
             /\ HeldBy(d) <= HeldBy(c) + 1
             /\ c.endpoint = "export" /\ HeldBy(c) = 1 => HeldBy(d) = 1
<1> DEFINE d == [c EXCEPT !.todo = @ \ {q}, !.running = @ \cup {q}]
<1>1. DOMAIN c = CallFields
  BY DEF CallOK
<1>2. /\ DOMAIN d = CallFields /\ d.todo = c.todo \ {q} /\ d.running = c.running \cup {q}
      /\ d.at = c.at /\ d.status = c.status /\ d.endpoint = c.endpoint
      /\ d.list = c.list /\ d.member = c.member /\ d.page = c.page
      /\ d.stage = c.stage /\ d.circle = c.circle
  BY <1>1 DEF CallFields
<1> HIDE DEF d
<1>3. Staged(c)
  BY RunningFacts
<1>4. Staged(d)
  <2>1. d.todo \cup d.running = c.todo \cup c.running
    BY <1>2
  <2>2. Due(d) = Due(c)
    BY <1>2 DEF Due
  <2>3. Read(d) = Read(c)
    BY <1>2, <2>1, <2>2 DEF Read
  <2> QED
    BY <1>2, <1>3, <2>1, <2>2, <2>3 DEF Staged
<1>5. SeenBy(d, v) /\ ReadsAgree(d) /\ OnePage(d) /\ (d.at = <<>> \/ DOMAIN d.at # {})
      /\ d.endpoint # "none"
  BY <1>2 DEF CallOK, Alive, SeenBy, ReadsAgree, OnePage
<1>6. CallOK(d, v)
  BY <1>2, <1>4, <1>5 DEF CallOK
<1>7. IsFiniteSet(c.running) /\ Cardinality(c.running) \in Nat /\ q \notin c.running
  BY <1>3, RunningFacts DEF Staged
<1>8. Cardinality(d.running) = Cardinality(c.running) + 1
  <2>1. d.running = c.running \cup {q}
    BY <1>2
  <2>2. Cardinality(c.running \cup {q}) = Cardinality(c.running) + 1
    BY <1>7, FS_AddElement
  <2> QED
    BY <2>1, <2>2
<1>9. HeldBy(d) <= HeldBy(c) + 1 /\ (c.endpoint = "export" => HeldBy(d) = 1)
  <2>1. d.running # {}
    BY <1>2
  <2> QED
    BY <1>2, <1>7, <1>8, <2>1 DEF HeldBy
<1> QED
  BY <1>2, <1>6, <1>9 DEF d

\* What a query leaves behind when it is over.
LEMMA OverFacts ==
  ASSUME NEW c, DOMAIN c = CallFields, NEW q, NEW seen
  PROVE  LET d == Over(c, q, seen)
         IN  /\ DOMAIN d = CallFields /\ d.todo = c.todo \ {q}
             /\ d.running = c.running \ {q} /\ d.status = c.status
             /\ d.endpoint = c.endpoint /\ d.list = c.list /\ d.member = c.member
             /\ d.page = c.page /\ d.stage = c.stage /\ d.circle = c.circle
             /\ DOMAIN d.at = DOMAIN c.at \cup {q}
             /\ \A r \in DOMAIN c.at : d.at[r] = c.at[r]
             /\ q \notin DOMAIN c.at /\ c.endpoint \in Exact => d.at[q] = seen
<1> DEFINE x == IF seen = Failed \/ Dated(c.endpoint, q) THEN seen ELSE 0
           f == [r \in DOMAIN c.at \cup {q} |-> IF r \in DOMAIN c.at THEN c.at[r] ELSE x]
           d == Over(c, q, seen)
<1>1. d = [c EXCEPT !.todo = c.todo \ {q}, !.running = c.running \ {q}, !.at = f]
  BY DEF Over
<1>2. /\ DOMAIN f = DOMAIN c.at \cup {q}
      /\ \A r \in DOMAIN c.at : f[r] = c.at[r]
      /\ q \notin DOMAIN c.at => f[q] = x
  <2> HIDE DEF x
  <2> QED
    OBVIOUS
<1>3. c.endpoint \in Exact => x = seen
  BY DEF Dated, Exact
<1> HIDE DEF f, d, x
<1>4. /\ DOMAIN d = CallFields /\ d.todo = c.todo \ {q}
      /\ d.running = c.running \ {q} /\ d.status = c.status
      /\ d.endpoint = c.endpoint /\ d.list = c.list /\ d.member = c.member
      /\ d.page = c.page /\ d.stage = c.stage /\ d.circle = c.circle
      /\ d.at = f
  BY <1>1 DEF CallFields
<1> QED
  BY <1>2, <1>3, <1>4 DEF d

\* The stages of the two endpoints whose reads have an order.
LEMMA OrderOfReads ==
  ASSUME NEW c, Staged(c), NEW q \in c.todo \cup c.running
  PROVE  /\ c.endpoint = "rounds" /\ q = "circle" => Read(c) = {}
         /\ c.endpoint = "detail" => "state" \notin Read(c)
<1>1. q \in Due(c)
  BY DEF Staged
<1>2. ASSUME c.endpoint = "rounds", q = "circle" PROVE Read(c) = {}
  <2>1. Stages[c.endpoint] = <<{"circle"}, {"payouts", "contributions", "defaults"}>>
    BY <1>2 DEF Stages, circleRounds
  <2>2. c.stage \in 1..2
    BY <2>1 DEF Staged
  <2>3. c.stage = 1
    BY <1>1, <1>2, <2>1, <2>2 DEF Due
  <2>4. Due(c) = {"circle"} /\ Upto(c.endpoint, c.stage - 1) = {}
    BY <2>1, <2>3, UptoFacts DEF Due
  <2> QED
    BY <1>2, <2>4 DEF Read
<1>3. ASSUME c.endpoint = "detail" PROVE "state" \notin Read(c)
  <2>1. Stages[c.endpoint] = <<{"circle"}, {"members"}, {"state"}>>
    BY <1>3 DEF Stages, circleDetail
  <2>2. c.stage \in 1..3
    BY <2>1 DEF Staged
  <2>3. \A j \in 1..(c.stage - 1) : "state" \notin Stages[c.endpoint][j]
    BY <2>1, <2>2
  <2>4. "state" \in Due(c) => q = "state"
    BY <1>1, <2>1, <2>2 DEF Due
  <2>5. "state" \notin Upto(c.endpoint, c.stage - 1)
    BY <2>3, UptoFacts
  <2>6. "state" \notin Due(c) \ (c.todo \cup c.running)
    BY <2>4
  <2> QED
    BY <2>5, <2>6 DEF Read
<1> QED
  BY <1>2, <1>3

\* A query is read once: the same name stands in one stage of an endpoint.
LEMMA ReadOnce ==
  ASSUME NEW c, Staged(c), c.endpoint \in Exact, NEW q \in c.todo \cup c.running
  PROVE  q \notin DOMAIN c.at
<1>0. Len(Stages[c.endpoint]) \in Nat /\ c.stage \in 1..Len(Stages[c.endpoint])
  BY StageFacts DEF Staged
<1>1. \A i, j \in 1..Len(Stages[c.endpoint]) :
        q \in Stages[c.endpoint][i] /\ q \in Stages[c.endpoint][j] => i = j
  <2>1. CASE c.endpoint \in {"circles", "contributions"}
    <3>1. Stages[c.endpoint] = <<{"rows", "count"}>>
      BY <2>1 DEF Stages, listCircles, memberContributions
    <3> QED
      BY <3>1
  <2>2. CASE c.endpoint = "detail"
    <3>1. Stages[c.endpoint] = <<{"circle"}, {"members"}, {"state"}>>
      BY <2>2 DEF Stages, circleDetail
    <3> QED
      BY <3>1
  <2>3. CASE c.endpoint = "rounds"
    <3>1. Stages[c.endpoint] = <<{"circle"}, {"payouts", "contributions", "defaults"}>>
      BY <2>3 DEF Stages, circleRounds
    <3> QED
      BY <3>1
  <2>4. CASE c.endpoint = "export"
    <3>1. Stages[c.endpoint] = <<{"circle"}, {"count"}, {"members"}, {"contributions"},
                                 {"defaults"}, {"payouts"}>>
      BY <2>4 DEF Stages, exportCsv
    <3> QED
      BY <3>1
  <2> QED
    BY <2>1, <2>2, <2>3, <2>4 DEF Exact
<1>2. q \in Stages[c.endpoint][c.stage]
  BY DEF Due, Staged
<1>3. \A j \in 1..(c.stage - 1) : q \notin Stages[c.endpoint][j]
  BY <1>0, <1>1, <1>2
<1>4. q \notin Upto(c.endpoint, c.stage - 1)
  BY <1>3, UptoFacts
<1> QED
  BY <1>4 DEF Read, Staged

\* The next stage begins, or the answer is there; nothing else changes.
LEMMA ProceedFacts ==
  ASSUME NEW d, DOMAIN d = CallFields, d.stage \in Nat, NEW answer
  PROVE  LET p == Proceed(d, answer)
         IN  /\ DOMAIN p = CallFields /\ p.at = d.at /\ p.endpoint = d.endpoint
             /\ p.list = d.list /\ p.member = d.member /\ p.page = d.page
             /\ p.circle = d.circle /\ p.running = d.running
             /\ \/ p = d /\ d.todo \cup d.running # {}
                \/ /\ d.todo \cup d.running = {} /\ d.stage < Len(Stages[d.endpoint])
                   /\ p.stage = d.stage + 1 /\ p.todo = Stages[d.endpoint][d.stage + 1]
                   /\ p.status = d.status
                \/ /\ d.todo \cup d.running = {} /\ ~(d.stage < Len(Stages[d.endpoint]))
                   /\ p.stage = d.stage /\ p.todo = d.todo /\ p.status = answer
<1> DEFINE p == Proceed(d, answer)
<1>1. CASE d.todo \cup d.running # {}
  <2>1. p = d
    BY <1>1 DEF Proceed
  <2> QED
    BY <1>1, <2>1
<1>2. CASE d.todo \cup d.running = {} /\ d.stage < Len(Stages[d.endpoint])
  <2>1. p = [d EXCEPT !.stage = d.stage + 1, !.todo = Stages[d.endpoint][d.stage + 1]]
    BY <1>2 DEF Proceed
  <2> HIDE DEF p
  <2>2. /\ DOMAIN p = CallFields /\ p.at = d.at /\ p.endpoint = d.endpoint
        /\ p.list = d.list /\ p.member = d.member /\ p.page = d.page
        /\ p.circle = d.circle /\ p.running = d.running /\ p.status = d.status
        /\ p.stage = d.stage + 1 /\ p.todo = Stages[d.endpoint][d.stage + 1]
    BY <2>1 DEF CallFields
  <2> QED
    BY <1>2, <2>2 DEF p
<1>3. CASE d.todo \cup d.running = {} /\ ~(d.stage < Len(Stages[d.endpoint]))
  <2>1. p = [d EXCEPT !.status = answer]
    BY <1>3 DEF Proceed
  <2> HIDE DEF p
  <2>2. /\ DOMAIN p = CallFields /\ p.at = d.at /\ p.endpoint = d.endpoint
        /\ p.list = d.list /\ p.member = d.member /\ p.page = d.page
        /\ p.circle = d.circle /\ p.running = d.running /\ p.status = answer
        /\ p.stage = d.stage /\ p.todo = d.todo
    BY <2>1 DEF CallFields
  <2> QED
    BY <1>3, <2>2 DEF p
<1> QED
  BY <1>1, <1>2, <1>3

\* What a query that is over has to have seen.
Fits(c, q, seen, v) ==
  c.endpoint \in Exact =>
    /\ seen \in 0..v /\ \A r \in DOMAIN c.at : c.at[r] <= seen
    /\ c.endpoint = "export" => \A r \in DOMAIN c.at : c.at[r] = seen
    /\ q = "circle" /\ c.endpoint \in {"rounds", "export"} =>
         c.circle \in DOMAIN Tables[seen].circles

\* So the request stays what it is when one of its queries is over, and holds
\* no more than before.
LEMMA QueryEnds ==
  ASSUME NEW c, NEW v \in Nat, CallOK(c, v), c.status = 0,
         NEW q \in c.todo \cup c.running, NEW seen, Fits(c, q, seen, v), NEW answer
  PROVE  LET p == Proceed(Over(c, q, seen), answer)
         IN  /\ CallOK(p, v)
             /\ p.endpoint = c.endpoint /\ p.list = c.list /\ p.member = c.member
             /\ p.page = c.page /\ p.running = c.running \ {q}
             /\ DOMAIN p.at = DOMAIN c.at \cup {q}
             /\ \A r \in DOMAIN c.at : p.at[r] = c.at[r]
             /\ c.endpoint \in Exact => q \notin DOMAIN c.at /\ p.at[q] = seen
<1> DEFINE d == Over(c, q, seen)
           p == Proceed(d, answer)
<1>1. /\ DOMAIN d = CallFields /\ d.todo = c.todo \ {q}
      /\ d.running = c.running \ {q} /\ d.status = c.status
      /\ d.endpoint = c.endpoint /\ d.list = c.list /\ d.member = c.member
      /\ d.page = c.page /\ d.stage = c.stage /\ d.circle = c.circle
      /\ DOMAIN d.at = DOMAIN c.at \cup {q}
      /\ \A r \in DOMAIN c.at : d.at[r] = c.at[r]
      /\ q \notin DOMAIN c.at /\ c.endpoint \in Exact => d.at[q] = seen
  BY OverFacts DEF CallOK
<1>2. Staged(c)
  BY RunningFacts
<1>3. d.stage \in Nat /\ d.endpoint \in Endpoints
      /\ Len(Stages[c.endpoint]) \in Nat /\ d.stage \in 1..Len(Stages[c.endpoint])
  BY <1>1, <1>2, StageFacts DEF Staged
<1> HIDE DEF d
<1>4. /\ DOMAIN p = CallFields /\ p.at = d.at /\ p.endpoint = d.endpoint
      /\ p.list = d.list /\ p.member = d.member /\ p.page = d.page
      /\ p.circle = d.circle /\ p.running = d.running
      /\ \/ p = d /\ d.todo \cup d.running # {}
         \/ /\ d.todo \cup d.running = {} /\ d.stage < Len(Stages[d.endpoint])
            /\ p.stage = d.stage + 1 /\ p.todo = Stages[d.endpoint][d.stage + 1]
            /\ p.status = d.status
         \/ /\ d.todo \cup d.running = {} /\ ~(d.stage < Len(Stages[d.endpoint]))
            /\ p.stage = d.stage /\ p.todo = d.todo /\ p.status = answer
  BY <1>1, <1>3, ProceedFacts
<1> HIDE DEF p
\* What has been read.
<1>6. Read(d) = Read(c) \cup {q} /\ Due(d) = Due(c) /\ q \in Due(c)
  <2>1. Due(d) = Due(c) /\ q \in Due(c)
    BY <1>1, <1>2 DEF Due, Staged
  <2>2. d.todo \cup d.running = (c.todo \cup c.running) \ {q}
    BY <1>1
  <2> QED
    BY <1>1, <2>1, <2>2 DEF Read
<1>7. DOMAIN d.at = Read(d)
  BY <1>1, <1>2, <1>6 DEF Staged
<1>8. Staged(p)
  <2>1. CASE p = d /\ d.todo \cup d.running # {}
    <3>1. d.todo \subseteq Due(d) /\ d.running \subseteq Due(d) /\ d.todo \cap d.running = {}
      BY <1>1, <1>2, <1>6 DEF Staged
    <3> QED
      BY <1>1, <1>3, <1>7, <2>1, <3>1 DEF Staged
  <2>2. CASE /\ d.todo \cup d.running = {} /\ d.stage < Len(Stages[d.endpoint])
             /\ p.stage = d.stage + 1 /\ p.todo = Stages[d.endpoint][d.stage + 1]
             /\ p.status = d.status
    <3>1. p.stage \in 1..Len(Stages[p.endpoint]) /\ p.running = {} /\ p.todo = Due(p)
      BY <1>1, <1>3, <1>4, <2>2 DEF Due
    <3>2. Read(d) = Upto(d.endpoint, d.stage)
      <4>1. Read(d) = Upto(d.endpoint, d.stage - 1) \cup Stages[d.endpoint][d.stage]
        BY <2>2 DEF Read, Due
      <4>2. d.stage \in Nat \ {0}
        BY <1>3
      <4> QED
        BY <4>1, <4>2, UptoFacts
    <3>3. Read(p) = Upto(d.endpoint, d.stage)
      <4>1. p.stage - 1 = d.stage
        BY <1>3, <2>2
      <4>2. Due(p) \ (p.todo \cup p.running) = {}
        BY <3>1
      <4> QED
        BY <1>4, <4>1, <4>2 DEF Read
    <3> QED
      BY <1>1, <1>3, <1>4, <1>7, <2>2, <3>1, <3>2, <3>3 DEF Staged
  <2>3. CASE /\ d.todo \cup d.running = {} /\ ~(d.stage < Len(Stages[d.endpoint]))
             /\ p.stage = d.stage /\ p.todo = d.todo /\ p.status = answer
    <3>1. p.stage = Len(Stages[p.endpoint]) /\ p.todo \cup p.running = {}
      BY <1>1, <1>3, <1>4, <2>3
    <3>2. Read(p) = Read(d)
      BY <1>4, <2>3 DEF Read, Due
    <3> QED
      BY <1>3, <1>1, <1>4, <1>7, <3>1, <3>2 DEF Staged
  <2> QED
    BY <1>4, <2>1, <2>2, <2>3
<1>9. c.endpoint \in Exact => q \notin DOMAIN c.at
  BY <1>2, ReadOnce
<1>10. /\ DOMAIN p.at = DOMAIN c.at \cup {q} /\ \A r \in DOMAIN c.at : p.at[r] = c.at[r]
       /\ c.endpoint \in Exact => p.at[q] = seen
       /\ p.endpoint = c.endpoint /\ p.circle = c.circle
  BY <1>1, <1>4, <1>9
<1>11. SeenBy(c, v) /\ ReadsAgree(c) /\ OnePage(c)
  BY DEF CallOK, Alive
<1>12. SeenBy(p, v)
  BY <1>10, <1>11 DEF SeenBy, Fits
<1>13. ReadsAgree(p)
  <2>1. CASE c.endpoint = "export"
    <3>1. \A r \in DOMAIN p.at : p.at[r] = seen
      BY <1>10, <2>1 DEF Exact, Fits
    <3>2. ASSUME "circle" \in DOMAIN p.at
          PROVE  c.circle \in DOMAIN Tables[p.at["circle"]].circles
      <4>1. CASE q = "circle"
        BY <1>10, <2>1, <4>1 DEF Exact, Fits
      <4>2. CASE q # "circle"
        <5>1. "circle" \in DOMAIN c.at /\ p.at["circle"] = c.at["circle"]
          BY <1>10, <3>2, <4>2
        <5> QED
          BY <1>11, <2>1, <5>1 DEF ReadsAgree
      <4> QED
        BY <4>1, <4>2
    <3> QED
      BY <1>10, <2>1, <3>1, <3>2 DEF ReadsAgree
  <2>2. CASE c.endpoint = "rounds"
    <3>1. ASSUME "circle" \in DOMAIN p.at
          PROVE  /\ \A r \in DOMAIN p.at : p.at["circle"] <= p.at[r]
                 /\ c.circle \in DOMAIN Tables[p.at["circle"]].circles
      <4>1. CASE q = "circle"
        <5>1. DOMAIN c.at = {}
          BY <1>2, <2>2, <4>1, OrderOfReads DEF Staged
        <5>2. p.at["circle"] = seen /\ seen \in 0..v
          BY <1>10, <2>2, <4>1 DEF Exact, Fits
        <5>3. \A r \in DOMAIN p.at : p.at["circle"] <= p.at[r]
          BY <1>10, <4>1, <5>1, <5>2
        <5> QED
          BY <2>2, <4>1, <5>2, <5>3 DEF Exact, Fits
      <4>2. CASE q # "circle"
        <5>1. "circle" \in DOMAIN c.at /\ p.at["circle"] = c.at["circle"]
          BY <1>10, <3>1, <4>2
        <5>2. \A r \in DOMAIN c.at : p.at["circle"] <= p.at[r]
          BY <1>10, <1>11, <2>2, <5>1 DEF ReadsAgree
        <5>3. p.at["circle"] <= p.at[q]
          BY <1>10, <2>2, <5>1 DEF Exact, Fits
        <5> QED
          BY <1>10, <1>11, <2>2, <5>1, <5>2, <5>3 DEF ReadsAgree
      <4> QED
        BY <4>1, <4>2
    <3> QED
      BY <1>10, <2>2, <3>1 DEF ReadsAgree
  <2>3. CASE c.endpoint = "detail"
    <3>1. "state" \notin DOMAIN c.at
      BY <1>2, <2>3, OrderOfReads DEF Staged
    <3>2. ASSUME "state" \in DOMAIN p.at PROVE \A r \in DOMAIN p.at : p.at[r] <= p.at["state"]
      <4>1. q = "state" /\ p.at["state"] = seen /\ seen \in 0..v
        BY <1>10, <2>3, <3>1, <3>2 DEF Exact, Fits
      <4>2. \A r \in DOMAIN c.at : p.at[r] <= seen
        BY <1>10, <2>3 DEF Exact, Fits
      <4> QED
        BY <1>10, <4>1, <4>2
    <3> QED
      BY <1>10, <2>3, <3>2 DEF ReadsAgree
  <2>4. CASE c.endpoint \notin {"export", "rounds", "detail"}
    BY <1>10, <2>4 DEF ReadsAgree
  <2> QED
    BY <2>1, <2>2, <2>3, <2>4
<1>14. OnePage(p) /\ p.endpoint # "none" /\ DOMAIN p.at # {}
  <2>1. p.endpoint # "none"
    BY <1>10 DEF CallOK
  <2> QED
    BY <1>1, <1>4, <1>10, <1>11, <2>1 DEF OnePage
<1>15. CallOK(p, v)
  BY <1>4, <1>8, <1>12, <1>13, <1>14 DEF CallOK
<1> QED
  BY <1>1, <1>4, <1>9, <1>10, <1>15 DEF p, d

\* What a query sees: the ledger committed last, or the export's.
LEMMA SnapshotFits ==
  ASSUME NEW c, NEW v \in Nat, CallOK(c, v), c.status = 0, c.endpoint \in Exact
  PROVE  /\ SnapshotOf(c, v) \in 0..v
         /\ \A r \in DOMAIN c.at : c.at[r] <= SnapshotOf(c, v)
         /\ c.endpoint = "export" => \A r \in DOMAIN c.at : c.at[r] = SnapshotOf(c, v)
         /\ c.endpoint # "export" => SnapshotOf(c, v) = v
<1>1. SeenBy(c, v) /\ ReadsAgree(c) /\ (c.at = <<>> \/ DOMAIN c.at # {})
  BY DEF CallOK, Alive
<1>2. \A r \in DOMAIN c.at : c.at[r] \in 0..v
  BY <1>1 DEF SeenBy
<1>3. CASE c.endpoint = "export" /\ c.at # <<>>
  <2>1. PICK r : r \in DOMAIN c.at
    BY <1>1, <1>3
  <2> DEFINE x == c.at[r]
  <2>2. \A s \in DOMAIN c.at : c.at[s] = x
    BY <1>1, <1>3, <2>1 DEF ReadsAgree
  <2>3. {c.at[s] : s \in DOMAIN c.at} = {x}
    BY <2>1, <2>2
  <2>4. x \in 0..v
    BY <1>2, <2>1
  <2>5. SnapshotOf(c, v) = Min({x})
    BY <1>3, <2>3 DEF SnapshotOf
  <2> HIDE DEF x
  <2>6. Min({x}) = x
    BY <2>4 DEF Min
  <2>7. SnapshotOf(c, v) = x /\ x <= x
    BY <2>4, <2>5, <2>6
  <2>8. \A s \in DOMAIN c.at : c.at[s] = SnapshotOf(c, v) /\ c.at[s] <= SnapshotOf(c, v)
    BY <2>2, <2>7
  <2> QED
    BY <1>3, <2>4, <2>7, <2>8
<1>4. CASE c.endpoint # "export"
  <2>1. SnapshotOf(c, v) = v
    BY <1>4 DEF SnapshotOf
  <2> QED
    BY <1>2, <1>4, <2>1
<1>5. CASE c.at = <<>>
  <2>1. SnapshotOf(c, v) = v
    BY <1>5 DEF SnapshotOf
  <2>2. DOMAIN c.at = {}
    BY <1>5
  <2> QED
    BY <2>1, <2>2
<1> QED
  BY <1>3, <1>4, <1>5

\* What a request holds when one of its queries is over.
LEMMA HeldEnds ==
  ASSUME NEW c, NEW v, CallOK(c, v), c.status = 0, NEW q,
         NEW p, p.endpoint = c.endpoint, p.running = c.running \ {q},
         q \in c.running \/ c.endpoint # "export"
  PROVE  /\ HeldBy(p) <= HeldBy(c)
         /\ q \in c.running /\ c.endpoint # "export" =>
              /\ HeldBy(p) <= HeldBy(c) - 1
              /\ HeldBy(c) = Cardinality(p.running) + 1
         /\ c.endpoint # "export" => HeldBy(c) = Cardinality(c.running)
<1>1. IsFiniteSet(c.running) /\ Cardinality(c.running) \in Nat
  BY RunningFacts
<1>2. IsFiniteSet(p.running) /\ Cardinality(p.running) \in Nat
      /\ Cardinality(p.running) =
           IF q \in c.running THEN Cardinality(c.running) - 1 ELSE Cardinality(c.running)
  BY <1>1, FS_RemoveElement, FS_CardinalityType
<1>3. CASE c.endpoint = "export"
  <2>1. HeldBy(c) = 1 /\ HeldBy(p) \in {0, 1}
    BY <1>3 DEF HeldBy
  <2> QED
    BY <1>3, <2>1
<1>4. CASE c.endpoint # "export"
  <2>1. HeldBy(c) = Cardinality(c.running) /\ HeldBy(p) \in {0, Cardinality(p.running)}
    BY <1>4 DEF HeldBy
  <2> QED
    BY <1>1, <1>2, <1>4, <2>1
<1> QED
  BY <1>3, <1>4

-----------------------------------------------------------------------------
(* The steps of the process, of the pool and of the request.               *)

\* What is always true of the process, the pool and the request.
PoolInv ==
  /\ TypeOK /\ StopsInOrder /\ CallOK(call, version)
  /\ poller = "tx" => version < Len(Ledgers)

\* With the walk, this is kept by every step.
ServiceInv == PoolInv /\ WalkOK(walk, call, version)

\* Before the first request there is none, and it holds nothing.
LEMMA NoCallFacts ==
  ASSUME NEW v
  PROVE  CallOK(NoCall, v) /\ NoCall.status = 200 /\ NoCall.endpoint = "none"
         /\ HeldBy(NoCall) = 0
<1> DEFINE c == NoCall
<1>1. PICK empty : empty = <<>>
  OBVIOUS
<1>2. c = [endpoint |-> "none", list |-> "", circle |-> "", member |-> "",
           page |-> 0, stage |-> 1, todo |-> {}, running |-> {}, at |-> empty,
           status |-> 200]
  BY <1>1, Zenon DEF NoCall
<1> HIDE DEF c
<1>3. /\ DOMAIN c = CallFields /\ c.endpoint = "none" /\ c.status = 200
      /\ c.at = empty
  BY <1>2 DEF CallFields
<1>4. c.at = <<>>
  BY <1>1, <1>3
<1>5. CallOK(c, v) /\ c.status = 200 /\ c.endpoint = "none" /\ HeldBy(c) = 0
  BY <1>3, <1>4 DEF CallOK, Alive, HeldBy
<1> QED
  BY <1>5 DEF c

\* It is so at first.
LEMMA PoolInvStarts == Init => PoolInv
<1> SUFFICES ASSUME Init PROVE PoolInv
  OBVIOUS
<1>1. CallOK(NoCall, version) /\ NoCall.status = 200 /\ NoCall.endpoint = "none"
      /\ HeldBy(NoCall) = 0
  BY NoCallFacts
<1>2. call = NoCall /\ walk = NoWalk /\ version = 0
  BY DEF Init
<1>3. CallOK(call, version) /\ call.status = 200 /\ call.endpoint = "none" /\ HeldBy(call) = 0
  BY <1>1, <1>2
<1>4. walk.end = "no"
  BY DEF Init, NoWalk
<1>5. DB_POOL_MAX \in Nat /\ MaxOthers \in Nat
  BY ServiceAssumption
<1>6. InUse = 0
  BY <1>3 DEF InUse, Init
<1>7. version \in Version
  BY VersionFacts DEF Init, Version
<1>8. /\ phase = "connecting" /\ exit = "none" /\ poller = "off"
      /\ others = 0 /\ strays = 0 /\ cut = FALSE
  BY DEF Init
<1>9. others \in 0..MaxOthers /\ strays \in Nat /\ InUse <= DB_POOL_MAX
  BY <1>5, <1>6, <1>8
<1>10. (exit = "none") = (phase # "exited")
  BY <1>8
<1>11. TypeOK
  BY <1>3, <1>4, <1>7, <1>8, <1>9, <1>10 DEF TypeOK
<1> QED
  BY <1>3, <1>8, <1>11 DEF PoolInv, StopsInOrder

\* What a step has to keep when it leaves the request alone.
LEMMA PoolSteps ==
  ASSUME PoolInv,
         \/ connectWithRetry \/ main \/ tick \/ BeginLedger \/ CommitLedger
         \/ RollBackLedger \/ EndCycle \/ OtherArrives \/ OtherAnswered \/ OtherAbandons
         \/ StrayEnds \/ Signal \/ PollerStopped \/ HttpClosed
  PROVE  PoolInv'
<1> DEFINE tx == IF poller = "tx" THEN 1 ELSE 0
<1>0. tx \in {0, 1}
  OBVIOUS
<1>1. /\ HeldBy(call) \in Nat /\ others \in Nat /\ strays \in Nat /\ others <= MaxOthers
      /\ InUse = HeldBy(call) + others + strays + tx /\ InUse <= DB_POOL_MAX
      /\ DB_POOL_MAX \in Nat /\ MaxOthers \in Nat
  BY HeldFacts, ServiceAssumption DEF PoolInv, TypeOK, InUse
<1>2. version \in Nat /\ version <= Len(Ledgers) /\ Len(Ledgers) \in Nat
  BY VersionFacts DEF PoolInv, TypeOK
<1>3. call' = call /\ walk' = walk /\ cut' = cut
  BY DEF connectWithRetry, main, tick, BeginLedger, CommitLedger, RollBackLedger, EndCycle,
         OtherArrives, OtherAnswered, OtherAbandons, StrayEnds, Signal, PollerStopped,
         HttpClosed, client
<1>4. version' \in {version, version + 1} /\ version' <= Len(Ledgers)
  <2>1. CASE CommitLedger
    BY <1>2, <2>1 DEF CommitLedger, PoolInv
  <2>2. CASE ~CommitLedger
    BY <1>2, <2>2
       DEF connectWithRetry, main, tick, BeginLedger, RollBackLedger, EndCycle,
           OtherArrives, OtherAnswered, OtherAbandons, StrayEnds, Signal, PollerStopped,
           HttpClosed
  <2> QED
    BY <2>1, <2>2
<1>5. version' \in Version /\ CallOK(call, version)' /\ HeldBy(call)' = HeldBy(call)
  <2>1. version' \in Nat /\ version <= version' /\ CallOK(call, version)
    BY <1>2, <1>4 DEF PoolInv
  <2>2. CallOK(call, version')
    BY <1>2, <2>1, CallLater
  <2> QED
    BY <1>2, <1>3, <1>4, <2>1, <2>2 DEF Version
\* The rest, action by action.
<1> DEFINE Rest ==
      /\ phase' \in {"connecting", "migrating", "serving", "poller", "http", "pool", "exited"}
      /\ exit' \in {"none", "clean", "forced", "died"}
      /\ (exit' = "none") = (phase' # "exited")
      /\ poller' \in {"off", "idle", "cycle", "tx"}
      /\ others' \in 0..MaxOthers /\ strays' \in Nat
      /\ others' + strays' + (IF poller' = "tx" THEN 1 ELSE 0)
           <= DB_POOL_MAX - HeldBy(call)
      /\ phase' \in {"http", "pool", "exited"} => poller' = "off"
      /\ phase' = "pool" => call.status # 0 /\ others' = 0
      /\ phase' = "exited" => call.status # 0 /\ others' = 0 /\ strays' = 0
      /\ poller' = "tx" => version' < Len(Ledgers)
<1>6. Rest
  <2>0. PICK h \in Nat : h = HeldBy(call)
    BY <1>1
  <2> DEFINE Before ==
        /\ phase \in {"connecting", "migrating", "serving", "poller", "http", "pool", "exited"}
        /\ exit \in {"none", "clean", "forced", "died"}
        /\ (exit = "none") = (phase # "exited")
        /\ poller \in {"off", "idle", "cycle", "tx"}
        /\ others \in 0..MaxOthers /\ strays \in Nat
        /\ others + strays + tx <= DB_POOL_MAX - h
        /\ DB_POOL_MAX \in Nat /\ MaxOthers \in Nat
        /\ phase \in {"http", "pool", "exited"} => poller = "off"
        /\ phase = "pool" => call.status # 0 /\ others = 0
        /\ phase = "exited" => call.status # 0 /\ others = 0 /\ strays = 0
        /\ poller = "tx" => version < Len(Ledgers)
  <2>1. Before
    BY <1>0, <1>1, <2>0 DEF PoolInv, TypeOK, StopsInOrder
  <2>2. acquireClient => others + strays + tx < DB_POOL_MAX - h
    BY <1>0, <1>1, <2>0, <2>1 DEF acquireClient
  <2>3. CASE connectWithRetry
    BY <2>0, <2>1, <2>3 DEF connectWithRetry, process
  <2>4. CASE main
    BY <2>0, <2>1, <2>4 DEF main, process
  <2>5. CASE tick
    BY <2>0, <2>1, <2>5 DEF tick, process
  <2>6. CASE BeginLedger
    BY <2>0, <2>1, <2>2, <2>6 DEF BeginLedger, process
  <2>7. CASE CommitLedger
    BY <2>0, <2>1, <2>7 DEF CommitLedger, process
  <2>8. CASE RollBackLedger
    BY <2>0, <2>1, <2>8 DEF RollBackLedger, process
  <2>9. CASE EndCycle
    BY <2>0, <2>1, <2>9 DEF EndCycle, process
  <2>10. CASE OtherArrives
    BY <2>0, <2>1, <2>2, <2>10 DEF OtherArrives, Listening, process
  <2>11. CASE OtherAnswered
    BY <2>0, <2>1, <2>11 DEF OtherAnswered, process
  <2>12. CASE OtherAbandons
    BY <2>0, <2>1, <2>12 DEF OtherAbandons, process
  <2>13. CASE StrayEnds
    BY <2>0, <2>1, <2>13 DEF StrayEnds, process
  <2>14. CASE Signal
    BY <2>0, <2>1, <2>14 DEF Signal, process
  <2>15. CASE PollerStopped
    BY <2>0, <2>1, <2>15 DEF PollerStopped, process
  <2>16. CASE HttpClosed
    BY <2>0, <2>1, <2>16 DEF HttpClosed, process
  <2> QED
    BY <2>3, <2>4, <2>5, <2>6, <2>7, <2>8, <2>9, <2>10, <2>11, <2>12, <2>13, <2>14, <2>15, <2>16
<1>7. InUse' <= DB_POOL_MAX
  <2> DEFINE held == IF poller' = "tx" THEN 1 ELSE 0
             h == HeldBy(call)
             o == others'
             s == strays'
  <2>1. InUse' = h + o + s + held
    BY <1>5 DEF InUse
  <2>2. o \in Nat /\ s \in Nat /\ h \in Nat /\ o + s + held <= DB_POOL_MAX - h
    BY <1>1, <1>6
  <2>3. held \in Nat
    OBVIOUS
  <2> HIDE DEF held, h, o, s
  <2> QED
    BY <1>1, <2>1, <2>2, <2>3
<1> HIDE DEF tx
<1>8. TypeOK'
  BY <1>3, <1>5, <1>6, <1>7 DEF TypeOK, PoolInv
<1>9. StopsInOrder'
  BY <1>3, <1>6 DEF StopsInOrder, PoolInv
<1> QED
  BY <1>5, <1>6, <1>8, <1>9 DEF PoolInv

-----------------------------------------------------------------------------
(* The steps of a walk.                                                    *)

\* What has been shown of an earlier ledger's rows has been shown of a later's.
LEMMA ShownLater ==
  ASSUME NEW w, w.list \in Lists, NEW u \in Version, NEW v \in Version, u <= v,
         w.since \in 0..u, NEW n \in Nat, ShownTo(w, u, n)
  PROVE  ShownTo(w, v, n)
<1> SUFFICES ASSUME NEW k \in RowsAt(w.list, w.member, w.since),
                    Place(w.list, w.member, v, k) <= n
             PROVE  Shown(w, k)
  BY DEF ShownTo
<1>1. w.since \in Version /\ w.since <= u
  BY VersionFacts DEF Version
<1>2. k \in RowsAt(w.list, w.member, u)
  BY <1>1, PlacesOnlyGrow
<1>3. /\ Place(w.list, w.member, u, k) \in Nat /\ Place(w.list, w.member, v, k) \in Nat
      /\ Place(w.list, w.member, u, k) <= Place(w.list, w.member, v, k)
  BY <1>2, PlacesOnlyGrow
<1>4. Place(w.list, w.member, u, k) <= n
  BY <1>3
<1> QED
  BY <1>4 DEF ShownTo

\* The ledger of a page is a committed one, not before the walk began.
LEMMA HorizonFacts ==
  ASSUME NEW w, NEW c, NEW v \in Version, CallOK(c, v), WalkOK(w, c, v),
         w.list # "none", w.end = "no"
  PROVE  /\ Horizon(c, v) \in Version /\ Horizon(c, v) <= v
         /\ w.since \in 0..Horizon(c, v) /\ w.since \in Version
         /\ Offset(w.page) \in Nat /\ w.list \in Lists
<1>1. v \in Nat /\ v <= Len(Ledgers) /\ Len(Ledgers) \in Nat
  BY VersionFacts
<1>2. w.list \in Lists /\ w.since \in 0..v /\ w.page \in Nat \ {0}
  BY DEF WalkOK
<1>3. Offset(w.page) \in Nat
  BY <1>2, OffsetFacts
<1>4. CASE Alive(c) /\ "rows" \in DOMAIN c.at
  <2>1. ForPage(w, c)
    BY <1>4 DEF WalkOK, Alive
  <2>2. c.endpoint \in Exact
    BY <2>1 DEF ForPage, Exact
  <2>3. c.at["rows"] \in 0..v /\ w.since <= c.at["rows"]
    BY <1>4, <2>1, <2>2 DEF CallOK, SeenBy, ForPage
  <2>4. Horizon(c, v) = c.at["rows"]
    BY <1>4 DEF Horizon
  <2> QED
    BY <1>1, <1>2, <1>3, <2>3, <2>4 DEF Version
<1>5. CASE ~(Alive(c) /\ "rows" \in DOMAIN c.at)
  <2>1. Horizon(c, v) = v
    BY <1>5 DEF Horizon
  <2> QED
    BY <1>1, <1>2, <1>3, <2>1 DEF Version
<1> QED
  BY <1>4, <1>5

\* A ledger is committed while the walk is under way.
LEMMA WalkLater ==
  ASSUME NEW w, NEW c, NEW u \in Version, NEW v \in Version, u <= v,
         CallOK(c, u), WalkOK(w, c, u)
  PROVE  WalkOK(w, c, v)
<1>1. u \in Nat /\ v \in Nat
  BY VersionFacts
<1>2. ASSUME w.list # "none", w.end = "no"
      PROVE  ShownTo(w, Horizon(c, v), Offset(w.page))
  <2>1. /\ Horizon(c, u) \in Version /\ Horizon(c, u) <= u
        /\ w.since \in 0..Horizon(c, u) /\ Offset(w.page) \in Nat /\ w.list \in Lists
    BY <1>2, HorizonFacts
  <2>2. Horizon(c, v) \in {Horizon(c, u), v}
    BY DEF Horizon
  <2>3. Horizon(c, v) \in Version /\ Horizon(c, u) <= Horizon(c, v)
    <3>1. Horizon(c, u) \in Nat
      BY <2>1, VersionFacts
    <3> QED
      BY <1>1, <2>1, <2>2, <3>1
  <2>4. ShownTo(w, Horizon(c, u), Offset(w.page))
    BY <1>2 DEF WalkOK
  <2> QED
    BY <2>1, <2>3, <2>4, ShownLater
<1>3. w.list # "none" => w.since \in 0..v
  BY <1>1 DEF WalkOK
<1> QED
  BY <1>2, <1>3 DEF WalkOK

\* What becomes of a request that was under way, as far as a walk can tell: it
\* has failed, or has read more, from the ledger that is committed.
Continues(c, d, v) ==
  \/ d.status \notin {0, 200}
  \/ /\ d.endpoint = c.endpoint /\ d.list = c.list /\ d.member = c.member
     /\ d.page = c.page
     /\ c.endpoint \in {"circles", "contributions"} =>
          /\ DOMAIN c.at \subseteq DOMAIN d.at
          /\ \A r \in DOMAIN d.at : d.at[r] = IF r \in DOMAIN c.at THEN c.at[r] ELSE v

\* So a walk is as far as it was.
LEMMA WalkKeeps ==
  ASSUME NEW w, NEW c, NEW d, NEW v \in Version, CallOK(c, v), WalkOK(w, c, v),
         c.status = 0, Continues(c, d, v)
  PROVE  WalkOK(w, d, v)
<1>1. w.end # "done"
  BY DEF WalkOK
<1>2. ASSUME w.list # "none", w.end = "no"
      PROVE  /\ d.status \in {0, 200} => ForPage(w, d)
             /\ ShownTo(w, Horizon(d, v), Offset(w.page))
  <2>1. ForPage(w, c) /\ w.since \in 0..v /\ v \in Nat
    BY <1>2, VersionFacts DEF WalkOK
  <2>2. c.endpoint \in {"circles", "contributions"}
    BY <2>1 DEF ForPage
  <2>3. Alive(c)
    BY <2>2 DEF Alive
  <2>4. /\ Horizon(c, v) \in Version /\ Horizon(c, v) <= v
        /\ w.since \in 0..Horizon(c, v) /\ Offset(w.page) \in Nat /\ w.list \in Lists
    BY <1>2, HorizonFacts
  <2>5. ShownTo(w, Horizon(c, v), Offset(w.page))
    BY <1>2 DEF WalkOK
  <2>6. CASE d.status \notin {0, 200}
    <3>1. Horizon(d, v) = v
      BY <2>6 DEF Horizon, Alive
    <3>2. ShownTo(w, v, Offset(w.page))
      BY <2>4, <2>5, ShownLater
    <3> QED
      BY <2>6, <3>1, <3>2
  <2>7. CASE d.status \in {0, 200}
    <3>1. /\ d.endpoint = c.endpoint /\ d.list = c.list /\ d.member = c.member
          /\ d.page = c.page /\ DOMAIN c.at \subseteq DOMAIN d.at
          /\ \A r \in DOMAIN d.at : d.at[r] = IF r \in DOMAIN c.at THEN c.at[r] ELSE v
      BY <2>2, <2>7 DEF Continues
    <3>2. ForPage(w, d)
      BY <2>1, <3>1 DEF ForPage
    <3>3. Horizon(d, v) = Horizon(c, v)
      BY <2>2, <2>3, <2>7, <3>1 DEF Horizon, Alive
    <3> QED
      BY <2>5, <3>2, <3>3
  <2> QED
    BY <2>6, <2>7
<1> QED
  BY <1>1, <1>2 DEF WalkOK

\* A walk that has failed needs nothing more of the request.
LEMMA NoWalkFacts == NoWalk.end = "no" /\ \A c, v : WalkOK(NoWalk, c, v)
<1>1. PICK empty : empty = <<>>
  OBVIOUS
<1>2. NoWalk = [list |-> "none", member |-> "", page |-> 0, since |-> 0,
                shown |-> empty, end |-> "no"]
  BY <1>1, Zenon DEF NoWalk
<1>3. DOMAIN NoWalk = WalkFields /\ NoWalk.list = "none" /\ NoWalk.end = "no"
  BY <1>2 DEF WalkFields
<1> QED
  BY <1>3 DEF WalkOK

\* A walk begins before its first row.
LEMMA WalkStarts ==
  ASSUME NEW list \in Lists, NEW m, NEW v \in Version
  PROVE  LET w == Walk(list, m, v)
         IN  /\ WalkOK(w, PageCall(w), v) /\ CallOK(PageCall(w), v)
             /\ HeldBy(PageCall(w)) = 0 /\ PageCall(w).endpoint \in Endpoints /\ w.end = "no"
<1> DEFINE w == Walk(list, m, v)
           c == PageCall(w)
<1>1. PICK empty : empty = <<>>
  OBVIOUS
<1>2. w = [list |-> list, member |-> m, page |-> 1, since |-> v, shown |-> empty,
           end |-> "no"]
  BY <1>1, Zenon DEF Walk
<1>3. DOMAIN w = WalkFields /\ w.list = list /\ w.member = m /\ w.page = 1
      /\ w.since = v /\ w.shown = empty /\ w.end = "no"
  BY <1>2 DEF WalkFields
<1>4. Len(empty) = 0 /\ \A S : empty \in Seq(S)
  BY <1>1
<1> DEFINE e == IF list = "contributions" THEN "contributions" ELSE "circles"
<1>5. c = Call(e, w.list, "", w.member, w.page)
  BY <1>3 DEF PageCall
<1>6. e \in {"circles", "contributions"} /\ e \in Endpoints
  BY DEF Endpoints, Stages
<1>7. v \in Nat /\ list # "none"
  BY VersionFacts DEF Lists
<1> HIDE DEF w, c, e
<1>8. PICK circle : circle = ""
  OBVIOUS
<1>9. c = Call(e, list, circle, m, 1)
  BY <1>3, <1>5, <1>8
<1>10. 1 \in Nat \ {0}
  OBVIOUS
<1>11. /\ CallOK(c, v) /\ c.status = 0 /\ DOMAIN c.at = {} /\ HeldBy(c) = 0
       /\ c.endpoint = e /\ c.list = list /\ c.member = m /\ c.page = 1
  <2>1. LET d == Call(e, list, circle, m, 1)
        IN  /\ CallOK(d, v) /\ d.status = 0 /\ DOMAIN d.at = {} /\ HeldBy(d) = 0
            /\ d.endpoint = e /\ d.list = list /\ d.member = m /\ d.page = 1
    BY <1>6, <1>7, <1>10, CallBegins
  <2> QED
    BY <1>9, <2>1
<1>12. ForPage(w, c)
  BY <1>3, <1>11 DEF ForPage, e
<1>13. Horizon(c, v) = v
  BY <1>11 DEF Horizon
<1>14. Offset(1) = 0
  BY <1>10, OffsetFacts
<1>15. ShownTo(w, v, 0)
  <2> SUFFICES ASSUME NEW k \in RowsAt(list, m, v), Place(list, m, v, k) <= 0
               PROVE  FALSE
    BY <1>3 DEF ShownTo
  <2>1. Place(list, m, v, k) \in 1..Len(ListAt(list, m, v))
    BY ListFacts
  <2> QED
    BY <2>1
<1>16. Once(w, 0)
  BY <1>3, <1>4 DEF Once
<1>17. WalkOK(w, c, v)
  BY <1>3, <1>4, <1>7, <1>11, <1>12, <1>13, <1>14, <1>15, <1>16 DEF WalkOK
<1> QED
  BY <1>3, <1>6, <1>11, <1>17 DEF w, c

\* A page that was answered has both of its reads, each of a committed ledger.
LEMMA AnsweredPage ==
  ASSUME NEW w, NEW c, NEW v \in Version, CallOK(c, v), WalkOK(w, c, v),
         w.list # "none", w.end = "no", c.status = 200
  PROVE  /\ DOMAIN c.at = {"rows", "count"}
         /\ c.at["rows"] \in Version /\ c.at["count"] \in Version
         /\ w.since \in Version /\ w.since <= c.at["rows"] /\ w.since <= c.at["count"]
         /\ Horizon(c, v) = c.at["rows"] /\ c.at["rows"] <= v
         /\ c.list = w.list /\ c.member = w.member /\ c.page = w.page
         /\ w.list \in Lists /\ w.page \in Nat \ {0} /\ c.endpoint # "none"
<1>1. ForPage(w, c) /\ w.list \in Lists /\ w.page \in Nat \ {0}
  BY DEF WalkOK
<1>2. c.endpoint \in {"circles", "contributions"}
  BY <1>1 DEF ForPage
<1>3. Alive(c) /\ Staged(c) /\ SeenBy(c, v)
  BY <1>2 DEF CallOK, Alive
<1>4. Stages[c.endpoint] = <<{"rows", "count"}>>
  BY <1>2 DEF Stages, listCircles, memberContributions
<1>5. c.stage = 1 /\ c.todo \cup c.running = {}
  BY <1>3, <1>4 DEF Staged
<1>6. DOMAIN c.at = {"rows", "count"}
  <2>1. Due(c) = {"rows", "count"}
    BY <1>4, <1>5 DEF Due
  <2>2. Upto(c.endpoint, c.stage - 1) = {}
    BY <1>5, UptoFacts
  <2> QED
    BY <1>3, <1>5, <2>1, <2>2 DEF Staged, Read
<1>7. c.at["rows"] \in 0..v /\ c.at["count"] \in 0..v
  BY <1>2, <1>3, <1>6 DEF SeenBy, Exact
<1>8. v \in Nat /\ v <= Len(Ledgers) /\ Len(Ledgers) \in Nat
  BY VersionFacts
<1>9. w.since <= c.at["rows"] /\ w.since <= c.at["count"] /\ w.since \in 0..v
  BY <1>1, <1>6 DEF ForPage, WalkOK
<1>10. c.list = w.list /\ c.member = w.member /\ c.page = w.page
  BY <1>1 DEF ForPage
<1>11. Horizon(c, v) = c.at["rows"]
  BY <1>3, <1>6 DEF Horizon
<1>12. \A x \in 0..v : x \in Version
  BY <1>8 DEF Version
<1> QED
  BY <1>1, <1>2, <1>6, <1>7, <1>8, <1>9, <1>10, <1>11, <1>12

\* What is shown after a page.
LEMMA PageShown ==
  ASSUME NEW w, NEW x, NEW r \in Version, w.list \in Lists, w.page \in Nat \ {0},
         w.since \in Version, w.since <= r, w.shown \in Seq(AllRows(w.list)),
         x.list = w.list, x.member = w.member, x.since = w.since,
         x.shown = w.shown \o PageOf(ListAt(w.list, w.member, r), w.page),
         ShownTo(w, r, Offset(w.page))
  PROVE  /\ x.shown \in Seq(AllRows(w.list))
         /\ ShownTo(x, r, Offset(w.page + 1))
         /\ w.list = "asc" /\ Once(w, Offset(w.page)) => Once(x, Offset(w.page + 1))
<1> DEFINE rows == PageOf(ListAt(w.list, w.member, r), w.page)
           lo == Offset(w.page)
           at(k) == Place(w.list, w.member, r, k)
<1>1. /\ lo \in Nat /\ Limit \in Nat /\ Offset(w.page + 1) = lo + Limit
  BY OffsetFacts
<1>2. /\ rows \in Seq(AllRows(w.list)) /\ Len(rows) \in Nat /\ Len(rows) <= Limit
      /\ \A k \in RowsAt(w.list, w.member, r) :
           lo < at(k) /\ at(k) <= lo + Limit => \E i \in 1..Len(rows) : rows[i] = k
      /\ \A i \in 1..Len(rows) :
           rows[i] \in RowsAt(w.list, w.member, r) /\ at(rows[i]) = lo + i
  BY PageFacts
<1>3. /\ x.shown \in Seq(AllRows(w.list))
      /\ Len(w.shown) \in Nat /\ Len(x.shown) = Len(w.shown) + Len(rows)
      /\ \A i \in 1..Len(w.shown) : x.shown[i] = w.shown[i]
      /\ \A i \in 1..Len(rows) : x.shown[Len(w.shown) + i] = rows[i]
  <2> HIDE DEF rows
  <2>1. x.shown = w.shown \o rows
    BY DEF rows
  <2>2. /\ w.shown \o rows \in Seq(AllRows(w.list))
        /\ Len(w.shown \o rows) = Len(w.shown) + Len(rows)
        /\ \A i \in 1..(Len(w.shown) + Len(rows)) :
             (w.shown \o rows)[i] = IF i <= Len(w.shown) THEN w.shown[i]
                                    ELSE rows[i - Len(w.shown)]
    BY <1>2, ConcatProperties
  <2>3. Len(w.shown) \in Nat
    BY LenProperties
  <2>4. \A i \in 1..Len(rows) :
          /\ Len(w.shown) + i \in 1..(Len(w.shown) + Len(rows))
          /\ ~(Len(w.shown) + i <= Len(w.shown)) /\ Len(w.shown) + i - Len(w.shown) = i
    BY <1>2, <2>3
  <2>5. \A i \in 1..Len(w.shown) :
          i \in 1..(Len(w.shown) + Len(rows)) /\ i <= Len(w.shown)
    BY <1>2, <2>3
  <2> QED
    BY <2>1, <2>2, <2>3, <2>4, <2>5
<1> HIDE DEF rows, lo, at
<1>4. ASSUME NEW k \in RowsAt(w.list, w.member, w.since), at(k) <= lo + Limit
      PROVE  Shown(x, k)
  <2>1. k \in RowsAt(w.list, w.member, r) /\ at(k) \in Nat
    BY PlacesOnlyGrow DEF at
  <2>2. CASE at(k) <= lo
    <3>1. Shown(w, k)
      BY <2>2 DEF ShownTo, at, lo
    <3>2. PICK i \in 1..Len(w.shown) : w.shown[i] = k
      BY <3>1 DEF Shown
    <3>3. x.shown[i] = k
      BY <1>3, <3>2
    <3>4. \A a, b \in Nat : 1..a \subseteq 1..(a + b)
      OBVIOUS
    <3>5. i \in 1..Len(x.shown)
      BY <1>2, <1>3, <3>4
    <3> QED
      BY <3>3, <3>5 DEF Shown
  <2>3. CASE lo < at(k)
    <3>1. PICK i \in 1..Len(rows) : rows[i] = k
      BY <1>2, <1>4, <2>1, <2>3
    <3>2. x.shown[Len(w.shown) + i] = k
      BY <1>3, <3>1
    <3>3. Len(w.shown) + i \in 1..Len(x.shown)
      BY <1>2, <1>3, <3>1
    <3> QED
      BY <3>2, <3>3 DEF Shown
  <2> QED
    BY <1>1, <2>1, <2>2, <2>3
<1>5. ShownTo(x, r, Offset(w.page + 1))
  BY <1>1, <1>4 DEF ShownTo, at
<1>6. ASSUME w.list = "asc", Once(w, lo) PROVE Once(x, lo + Limit)
  <2> DEFINE final(k) == Place(w.list, w.member, Len(Ledgers), k)
             n == Len(w.shown)
  <2>1. \A i \in 1..Len(rows) : /\ rows[i] \in RowsAt(w.list, w.member, Len(Ledgers))
                                /\ final(rows[i]) = lo + i
    <3> TAKE i \in 1..Len(rows)
    <3>1. rows[i] \in RowsAt(w.list, w.member, r) /\ at(rows[i]) = lo + i
      BY <1>2
    <3>2. Len(Ledgers) \in Version /\ r <= Len(Ledgers)
      BY VersionFacts
    <3> QED
      BY <1>6, <3>1, <3>2, PlacesOnlyGrow DEF at
  <2>2. /\ \A i, j \in 1..n : w.shown[i] = w.shown[j] => i = j
        /\ \A i \in 1..n : /\ w.shown[i] \in RowsAt(w.list, w.member, Len(Ledgers))
                           /\ final(w.shown[i]) <= lo
    BY <1>6 DEF Once
  <2>3. \A i \in 1..n : final(w.shown[i]) \in Nat
    BY <2>2, VersionFacts, PlacesOnlyGrow
  <2> HIDE DEF final, n
  <2>4. /\ n \in Nat /\ Len(x.shown) = n + Len(rows)
        /\ \A i \in 1..n : x.shown[i] = w.shown[i]
        /\ \A i \in 1..Len(rows) : x.shown[n + i] = rows[i]
    BY <1>3 DEF n
  <2>5. \A i \in 1..Len(x.shown) :
          i \in 1..n \/ \E j \in 1..Len(rows) : i = n + j
    <3> TAKE i \in 1..Len(x.shown)
    <3>1. i \in 1..n \/ (i - n \in 1..Len(rows) /\ i = n + (i - n))
      BY <1>2, <2>4
    <3> QED
      BY <3>1
  <2>6. ASSUME NEW i \in 1..Len(x.shown)
        PROVE  /\ x.shown[i] \in RowsAt(w.list, w.member, Len(Ledgers))
               /\ final(x.shown[i]) <= lo + Limit
    <3>1. CASE i \in 1..n
      <4>1. x.shown[i] = w.shown[i]
        BY <2>4, <3>1
      <4>2. final(w.shown[i]) <= lo /\ final(w.shown[i]) \in Nat
        BY <2>2, <2>3, <3>1
      <4>3. final(w.shown[i]) <= lo + Limit
        BY <1>1, <4>2
      <4> QED
        BY <2>2, <3>1, <4>1, <4>3
    <3>2. CASE \E j \in 1..Len(rows) : i = n + j
      <4>1. PICK j \in 1..Len(rows) : i = n + j
        BY <3>2
      <4>2. x.shown[i] = rows[j]
        <5>1. x.shown[n + j] = rows[j]
          BY <2>4
        <5> QED
          BY <4>1, <5>1
      <4>3. lo + j <= lo + Limit
        BY <1>1, <1>2, <4>1
      <4> QED
        BY <2>1, <4>1, <4>2, <4>3
    <3> QED
      BY <2>5, <3>1, <3>2
  <2>7. ASSUME NEW i \in 1..n, NEW j \in 1..Len(rows) PROVE x.shown[i] # x.shown[n + j]
    <3>1. x.shown[i] = w.shown[i] /\ x.shown[n + j] = rows[j]
      BY <2>4
    <3>2. final(w.shown[i]) <= lo /\ final(w.shown[i]) \in Nat /\ final(rows[j]) = lo + j
      BY <2>1, <2>2, <2>3
    <3>3. final(w.shown[i]) # final(rows[j])
      BY <1>1, <3>2
    <3> QED
      BY <3>1, <3>3
  <2>8. ASSUME NEW i \in 1..Len(rows), NEW j \in 1..Len(rows), x.shown[n + i] = x.shown[n + j]
        PROVE  i = j
    <3>1. rows[i] = rows[j]
      <4>1. x.shown[n + i] = rows[i] /\ x.shown[n + j] = rows[j]
        BY <2>4
      <4> QED
        BY <2>8, <4>1
    <3>2. lo + i = lo + j
      BY <2>1, <3>1
    <3> QED
      BY <1>1, <3>2
  <2>9. ASSUME NEW i \in 1..Len(x.shown), NEW j \in 1..Len(x.shown), x.shown[i] = x.shown[j]
        PROVE  i = j
    <3>1. CASE i \in 1..n /\ j \in 1..n
      BY <2>2, <2>4, <2>9, <3>1 DEF n
    <3>2. CASE i \in 1..n /\ j \notin 1..n
      BY <2>5, <2>7, <2>9, <3>2
    <3>3. CASE i \notin 1..n /\ j \in 1..n
      BY <2>5, <2>7, <2>9, <3>3
    <3>4. CASE i \notin 1..n /\ j \notin 1..n
      BY <2>5, <2>8, <2>9, <3>4
    <3> QED
      BY <3>1, <3>2, <3>3, <3>4
  <2> QED
    BY <2>6, <2>9 DEF Once, final
<1> QED
  BY <1>1, <1>3, <1>5, <1>6 DEF lo

\* What a page that was answered makes of the walk.  If it is the last one by
\* its own count then nothing that was counted is missing, and rows above that
\* count are later ones when the list only grows at its end.
LEMMA WalkGoesOn ==
  ASSUME NEW w, NEW c, NEW v \in Version, CallOK(c, v), WalkOK(w, c, v),
         w.list # "none", w.end = "no", c.status = 200
  PROVE  LET x == paginate(w, c)
         IN  /\ DOMAIN x = WalkFields /\ x.list = w.list /\ x.member = w.member
             /\ x.since = w.since /\ x.page = w.page + 1
             /\ x.end \in {"done", "bound", "no"}
             /\ x.shown \in Seq(AllRows(w.list))
             /\ ShownTo(x, c.at["rows"], Offset(x.page))
             /\ w.list = "asc" => Once(x, Offset(x.page))
             /\ x.end = "done" => FoundAll(x, c)
<1> DEFINE r == c.at["rows"]
           t == c.at["count"]
           rows == PageOf(ListAt(w.list, w.member, r), w.page)
           total == Len(ListAt(w.list, w.member, t))
           last == w.page >= totalPages(total) \/ Len(rows) = 0
           end == CASE last -> "done"
                    [] ~last /\ w.page >= MaxPages -> "bound"
                    [] OTHER -> "no"
           x == paginate(w, c)
<1>1. /\ DOMAIN c.at = {"rows", "count"} /\ r \in Version /\ t \in Version
      /\ w.since \in Version /\ w.since <= r /\ w.since <= t
      /\ Horizon(c, v) = r
      /\ c.list = w.list /\ c.member = w.member /\ c.page = w.page
      /\ w.list \in Lists /\ w.page \in Nat \ {0} /\ c.endpoint # "none"
  BY AnsweredPage
<1>2. /\ rows \in Seq(AllRows(w.list)) /\ Len(rows) \in Nat
      /\ Len(rows) = 0 => Len(ListAt(w.list, w.member, r)) <= Offset(w.page)
  BY <1>1, PageFacts
<1>3. x = [w EXCEPT !.shown = w.shown \o rows, !.page = w.page + 1, !.end = end]
  <2>1. PageRows(c) = rows /\ PageTotal(c) = total
    BY <1>1 DEF PageRows, PageTotal
  <2>2. rows = <<>> <=> Len(rows) = 0
    <3> HIDE DEF rows
    <3>1. rows = <<>> <=> Len(rows) = 0
      BY <1>2, EmptySeq
    <3> QED
      BY <3>1
  <2>3. (w.page >= totalPages(PageTotal(c)) \/ PageRows(c) = <<>>) = last
    BY <2>1, <2>2
  <2> HIDE DEF last, rows, total
  <2> QED
    BY <2>1, <2>3 DEF paginate
<1>4. end \in {"done", "bound", "no"} /\ (end = "done" => last)
  <2> HIDE DEF last
  <2> QED
    OBVIOUS
<1> HIDE DEF end, x, rows
<1>5. /\ DOMAIN x = WalkFields /\ x.list = w.list /\ x.member = w.member
      /\ x.since = w.since /\ x.page = w.page + 1 /\ x.end = end
      /\ x.shown = w.shown \o rows
  <2>1. DOMAIN w = WalkFields
    BY DEF WalkOK
  <2> QED
    BY <1>3, <2>1 DEF WalkFields
<1>6. ShownTo(w, r, Offset(w.page)) /\ w.shown \in Seq(AllRows(w.list))
      /\ (w.list = "asc" => Once(w, Offset(w.page)))
  BY <1>1 DEF WalkOK
<1> HIDE DEF r, t, total
<1>7. /\ x.shown \in Seq(AllRows(w.list)) /\ ShownTo(x, r, Offset(w.page + 1))
      /\ w.list = "asc" => Once(x, Offset(w.page + 1))
  <2>1. x.shown = w.shown \o PageOf(ListAt(w.list, w.member, r), w.page)
    BY <1>5 DEF rows
  <2> QED
    BY <1>1, <1>5, <1>6, <2>1, PageShown
<1>8. Offset(w.page) \in Nat /\ Limit \in Nat /\ Offset(w.page + 1) = Offset(w.page) + Limit
  BY <1>1, OffsetFacts
<1>9. ASSUME last PROVE FoundAll(x, c)
  <2> DEFINE here == Len(ListAt(w.list, w.member, r))
  <2>1. here \in Nat /\ total \in Nat
    BY <1>1, ListFacts DEF total
  <2>2. w.list = "asc" => \A i, j \in 1..Len(x.shown) : x.shown[i] = x.shown[j] => i = j
    BY <1>7 DEF Once
  <2>3. ASSUME NEW k \in RowsAt(w.list, w.member, w.since)
        PROVE  /\ Place(w.list, w.member, r, k) \in 1..here
               /\ Place(w.list, w.member, t, k) \in 1..total
               /\ w.list = "asc" =>
                    Place(w.list, w.member, r, k) = Place(w.list, w.member, t, k)
    <3>1. k \in RowsAt(w.list, w.member, r) /\ k \in RowsAt(w.list, w.member, t)
      BY <1>1, PlacesOnlyGrow
    <3>2. w.list = "asc" =>
            /\ Place(w.list, w.member, w.since, k) = Place(w.list, w.member, r, k)
            /\ Place(w.list, w.member, w.since, k) = Place(w.list, w.member, t, k)
      BY <1>1, PlacesOnlyGrow
    <3> QED
      BY <1>1, <3>1, <3>2, ListFacts DEF total
  <2>4. ASSUME NEW k \in RowsAt(w.list, w.member, w.since),
               Place(w.list, w.member, r, k) <= Offset(w.page + 1)
        PROVE  Shown(x, k)
    BY <1>5, <1>7, <2>4 DEF ShownTo
  <2> HIDE DEF here
  <2>5. CASE Len(rows) = 0
    <3>1. here <= Offset(w.page)
      BY <1>2, <2>5 DEF here
    <3>2. ASSUME NEW k \in RowsAt(w.list, w.member, w.since) PROVE Shown(x, k)
      <4>1. Place(w.list, w.member, r, k) \in 1..here
        BY <2>3
      <4>2. Place(w.list, w.member, r, k) <= Offset(w.page + 1)
        BY <1>8, <2>1, <3>1, <4>1
      <4> QED
        BY <2>4, <4>2
    <3> QED
      BY <1>5, <2>2, <3>2 DEF FoundAll
  <2>6. CASE w.page >= totalPages(total)
    <3>1. total <= Offset(w.page + 1)
      BY <1>1, <1>8, <2>1, <2>6, LastPage
    <3>2. Offset(w.page + 1) \in Nat
      BY <1>8
    <3>3. CASE w.list = "asc" \/ here <= total
      <4>1. ASSUME NEW k \in RowsAt(w.list, w.member, w.since) PROVE Shown(x, k)
        <5>1. /\ Place(w.list, w.member, r, k) \in 1..here
              /\ Place(w.list, w.member, t, k) \in 1..total
              /\ w.list = "asc" =>
                   Place(w.list, w.member, r, k) = Place(w.list, w.member, t, k)
          BY <2>3
        <5>2. Place(w.list, w.member, r, k) <= Offset(w.page + 1)
          BY <2>1, <3>1, <3>2, <3>3, <5>1
        <5> QED
          BY <2>4, <5>2
      <4> QED
        BY <1>5, <2>2, <4>1 DEF FoundAll
    <3>4. CASE w.list # "asc" /\ total < here
      <4>1. Len(ListAt(x.list, x.member, c.at["count"])) = total
            /\ Len(ListAt(x.list, x.member, c.at["rows"])) = here
        BY <1>5 DEF total, here, r, t
      <4> QED
        BY <1>5, <2>2, <3>4, <4>1 DEF FoundAll
    <3> QED
      BY <2>1, <3>3, <3>4
  <2> QED
    BY <1>9, <2>5, <2>6
<1>10. ShownTo(x, r, Offset(x.page)) /\ (w.list = "asc" => Once(x, Offset(x.page)))
  BY <1>5, <1>7
<1>11. x.end = "done" => FoundAll(x, c)
  BY <1>4, <1>5, <1>9
<1> HIDE DEF last
<1>12. x.end \in {"done", "bound", "no"}
  BY <1>4, <1>5
<1> QED
  BY <1>5, <1>7, <1>10, <1>11, <1>12 DEF x, r

-----------------------------------------------------------------------------
(* The steps of the request.                                               *)

\* What a step of the request has to keep: it takes no more from the pool than
\* there is, leaves nothing behind unless it was under way, and begins only
\* while the server listens.
LEMMA ClientSteps ==
  ASSUME PoolInv, UNCHANGED <<version, process, poller, others>>,
         CallOK(call', version), call'.endpoint \in Endpoints \cup {"none"},
         walk'.end \in {"no", "done", "bound", "failed"}, cut' \in BOOLEAN, ~cut',
         strays' \in Nat,
         \/ HeldBy(call') + strays' <= HeldBy(call) + strays
         \/ HeldBy(call') + strays' <= HeldBy(call) + strays + 1 /\ InUse < DB_POOL_MAX,
         call'.status = 0 => call.status = 0 \/ Listening,
         strays' = strays \/ call.status = 0
  PROVE  PoolInv'
<1>1. /\ version' = version /\ phase' = phase /\ exit' = exit /\ poller' = poller
      /\ others' = others
  BY DEF process
<1>2. CallOK(call, version)'
  BY <1>1
<1>3. InUse' <= DB_POOL_MAX
  <2> DEFINE tx == IF poller = "tx" THEN 1 ELSE 0
             h == HeldBy(call)
             g == HeldBy(call')
             s == strays'
  <2>1. CallOK(call, version) /\ InUse <= DB_POOL_MAX /\ others \in Nat /\ strays \in Nat
    BY DEF PoolInv, TypeOK
  <2>2. h \in Nat /\ g \in Nat /\ s \in Nat /\ DB_POOL_MAX \in Nat
    BY <2>1, HeldFacts, ServiceAssumption
  <2>3. InUse = h + others + strays + tx /\ InUse' = g + others + s + tx
    BY <1>1 DEF InUse
  <2>4. \/ g + s <= h + strays
        \/ g + s <= h + strays + 1 /\ InUse < DB_POOL_MAX
    OBVIOUS
  <2>5. tx \in Nat
    OBVIOUS
  <2> HIDE DEF tx, h, g, s
  <2> QED
    BY <2>1, <2>2, <2>3, <2>4, <2>5
<1>4. TypeOK'
  BY <1>1, <1>3 DEF PoolInv, TypeOK
<1>5. StopsInOrder'
  BY <1>1 DEF PoolInv, StopsInOrder, Listening
<1> QED
  BY <1>1, <1>2, <1>4, <1>5 DEF PoolInv

\* A new request, and one that is refused at once.
LEMMA RequestSteps ==
  ASSUME ServiceInv,
         \/ \E e \in Endpoints \ {"circles", "contributions"} : Request(e)
         \/ Refused
         \/ \E list \in Lists : \E m : StartWalk(list, m)
  PROVE  ServiceInv'
<1>1. PoolInv /\ version \in Version /\ version \in Nat /\ strays \in Nat
      /\ HeldBy(call) \in Nat /\ ~cut /\ cut \in BOOLEAN
  BY VersionFacts, HeldFacts DEF ServiceInv, PoolInv, TypeOK, StopsInOrder
<1>2. UNCHANGED <<version, process, poller, others, strays, cut>> /\ Listening
  BY DEF Request, Refused, StartWalk
<1>3. CASE \E e \in Endpoints \ {"circles", "contributions"} : Request(e)
  <2>1. PICK e \in Endpoints \ {"circles", "contributions"} : Request(e)
    BY <1>3
  <2>2. PICK empty : empty = ""
    OBVIOUS
  <2>3. PICK c \in Addresses :
          call' = Call(e, empty, IF e \in OfCircle THEN c ELSE empty, empty, 1)
    BY <2>1, <2>2 DEF Request
  <2> DEFINE circle == IF e \in OfCircle THEN c ELSE empty
  <2>4. call' = Call(e, empty, circle, empty, 1)
    BY <2>3
  <2> HIDE DEF circle
  <2>5. 1 \in Nat \ {0} /\ e \in Endpoints
        /\ (e \in {"circles", "contributions"} => empty \in Lists)
    BY <2>1
  <2>6. LET d == Call(e, empty, circle, empty, 1)
        IN  /\ CallOK(d, version) /\ d.status = 0 /\ DOMAIN d.at = {} /\ HeldBy(d) = 0
            /\ d.endpoint = e /\ d.list = empty /\ d.member = empty /\ d.page = 1
    BY <1>1, <2>1, <2>5, CallBegins
  <2>7. CallOK(call', version) /\ HeldBy(call') = 0 /\ call'.endpoint = e
    BY <2>4, <2>6
  <2>8. walk' = NoWalk
    BY <2>1 DEF Request
  <2>9. walk'.end = "no" /\ WalkOK(walk', call', version')
    BY <2>8, NoWalkFacts
  <2>10. PoolInv'
    BY <1>1, <1>2, <2>7, <2>9, ClientSteps
  <2> QED
    BY <2>9, <2>10 DEF ServiceInv
<1>4. CASE Refused
  <2>1. PICK status \in {parseError, corsRejection, rateLimit} :
          call' = [NoCall EXCEPT !.status = status]
    BY <1>4 DEF Refused
  <2>2. status \notin {0, 200}
    BY <2>1 DEF parseError, corsRejection, rateLimit
  <2>3. CallOK(call', version) /\ call'.status = status /\ call'.endpoint = "none"
        /\ HeldBy(call') = 0
    BY <2>1, <2>2, CallEnds
  <2>4. walk' = NoWalk
    BY <1>4 DEF Refused
  <2>5. walk'.end = "no" /\ WalkOK(walk', call', version')
    BY <2>4, NoWalkFacts
  <2>6. PoolInv'
    BY <1>1, <1>2, <2>2, <2>3, <2>5, ClientSteps
  <2> QED
    BY <2>5, <2>6 DEF ServiceInv
<1>5. CASE \E list \in Lists : \E m : StartWalk(list, m)
  <2>1. PICK list \in Lists : \E m : StartWalk(list, m)
    BY <1>5
  <2>a. PICK m : StartWalk(list, m)
    BY <2>1
  <2>2. walk' = Walk(list, m, version) /\ call' = PageCall(Walk(list, m, version))
    BY <2>a DEF StartWalk
  <2>3. LET w == Walk(list, m, version)
        IN  /\ WalkOK(w, PageCall(w), version) /\ CallOK(PageCall(w), version)
            /\ HeldBy(PageCall(w)) = 0 /\ PageCall(w).endpoint \in Endpoints /\ w.end = "no"
    BY <1>1, <2>1, WalkStarts
  <2>4. /\ WalkOK(walk', call', version) /\ CallOK(call', version)
        /\ HeldBy(call') = 0 /\ call'.endpoint \in Endpoints /\ walk'.end = "no"
    BY <2>2, <2>3
  <2>5. PoolInv'
    BY <1>1, <1>2, <2>4, ClientSteps
  <2> QED
    BY <1>2, <2>4, <2>5 DEF ServiceInv
<1> QED
  BY <1>3, <1>4, <1>5

\* The page is there: on to the next, or to the end of the walk.
LEMMA PageSteps ==
  ASSUME ServiceInv, NextPage
  PROVE  ServiceInv'
<1>1. PoolInv /\ version \in Version /\ version \in Nat /\ strays \in Nat
      /\ HeldBy(call) \in Nat /\ ~cut /\ cut \in BOOLEAN
      /\ CallOK(call, version) /\ WalkOK(walk, call, version)
      /\ call.endpoint \in Endpoints \cup {"none"}
  BY VersionFacts, HeldFacts DEF ServiceInv, PoolInv, TypeOK, StopsInOrder
<1>2. UNCHANGED <<version, process, poller, others, strays, cut>>
      /\ walk.end = "no" /\ walk.list # "none" /\ call.status = 200
      /\ walk' = paginate(walk, call)
  BY DEF NextPage
<1>3. /\ walk.list \in Lists /\ walk.page \in Nat \ {0} /\ call.endpoint # "none"
      /\ call.at["rows"] \in Version /\ walk.since \in Version
      /\ walk.since <= call.at["rows"] /\ call.at["rows"] <= version
  BY <1>1, <1>2, AnsweredPage
<1> DEFINE r == call.at["rows"]
<1>4. /\ DOMAIN walk' = WalkFields /\ walk'.list = walk.list /\ walk'.member = walk.member
      /\ walk'.since = walk.since /\ walk'.page = walk.page + 1
      /\ walk'.end \in {"done", "bound", "no"}
      /\ walk'.shown \in Seq(AllRows(walk.list))
      /\ ShownTo(walk', r, Offset(walk'.page))
      /\ walk.list = "asc" => Once(walk', Offset(walk'.page))
      /\ walk'.end = "done" => FoundAll(walk', call)
  <2>1. LET x == paginate(walk, call)
        IN  /\ DOMAIN x = WalkFields /\ x.list = walk.list /\ x.member = walk.member
            /\ x.since = walk.since /\ x.page = walk.page + 1
            /\ x.end \in {"done", "bound", "no"}
            /\ x.shown \in Seq(AllRows(walk.list))
            /\ ShownTo(x, call.at["rows"], Offset(x.page))
            /\ walk.list = "asc" => Once(x, Offset(x.page))
            /\ x.end = "done" => FoundAll(x, call)
    BY <1>1, <1>2, WalkGoesOn
  <2> QED
    BY <1>2, <2>1
<1> HIDE DEF r
<1>5. /\ walk'.page \in Nat \ {0} /\ walk'.since \in 0..version /\ walk'.since \in 0..r
      /\ walk'.list \in Lists /\ Offset(walk'.page) \in Nat /\ r \in Version /\ r <= version
  <2>1. walk.since \in Nat /\ r \in Nat
    BY <1>3, VersionFacts DEF r
  <2>2. walk'.page \in Nat \ {0}
    BY <1>3, <1>4
  <2>3. Offset(walk'.page) \in Nat
    BY <2>2, OffsetFacts
  <2>4. walk'.since = walk.since /\ walk'.list = walk.list /\ walk.since <= r
        /\ r <= version /\ r \in Version /\ walk.list \in Lists
    BY <1>3, <1>4 DEF r
  <2> QED
    BY <1>1, <2>1, <2>2, <2>3, <2>4
<1>6. CASE walk'.end # "no"
  <2>1. call' = call
    BY <1>6 DEF NextPage
  <2>2. WalkOK(walk', call, version)
    BY <1>2, <1>3, <1>4, <1>5, <1>6 DEF WalkOK
  <2>3. PoolInv'
    BY <1>1, <1>2, <1>4, <2>1, ClientSteps
  <2> QED
    BY <1>2, <2>1, <2>2, <2>3 DEF ServiceInv
<1>7. CASE walk'.end = "no"
  <2>1. ShownTo(walk', version, Offset(walk'.page))
    BY <1>1, <1>4, <1>5, ShownLater
  <2>2. CASE Listening
    <3> DEFINE e == IF walk.list = "contributions" THEN "contributions" ELSE "circles"
    <3>1. PICK circle : circle = ""
      OBVIOUS
    <3>2. call' = Call(e, walk.list, circle, walk.member, walk'.page)
      BY <1>4, <1>7, <2>2, <3>1 DEF NextPage, PageCall
    <3>3. e \in {"circles", "contributions"} /\ e \in Endpoints
      BY DEF Endpoints, Stages
    <3>4. e = IF walk.list = "contributions" THEN "contributions" ELSE "circles"
      OBVIOUS
    <3> HIDE DEF e
    <3>5. LET d == Call(e, walk.list, circle, walk.member, walk'.page)
          IN  /\ CallOK(d, version) /\ d.status = 0 /\ DOMAIN d.at = {} /\ HeldBy(d) = 0
              /\ d.endpoint = e /\ d.list = walk.list /\ d.member = walk.member
              /\ d.page = walk'.page
      BY <1>1, <1>3, <1>5, <3>3, CallBegins
    <3>6. /\ CallOK(call', version) /\ call'.status = 0 /\ DOMAIN call'.at = {}
          /\ HeldBy(call') = 0 /\ call'.endpoint = e /\ call'.list = walk.list
          /\ call'.member = walk.member /\ call'.page = walk'.page
      BY <3>2, <3>5
    <3>7. ForPage(walk', call')
      BY <1>4, <3>4, <3>6 DEF ForPage
    <3>8. Horizon(call', version) = version
      BY <3>6 DEF Horizon
    <3>9. WalkOK(walk', call', version)
      BY <1>3, <1>4, <1>5, <1>7, <2>1, <3>7, <3>8 DEF WalkOK
    <3>10. PoolInv'
      BY <1>1, <1>2, <1>4, <2>2, <3>3, <3>6, ClientSteps
    <3> QED
      BY <1>2, <3>9, <3>10 DEF ServiceInv
  <2>3. CASE ~Listening
    <3>1. call' = [NoCall EXCEPT !.status = -1]
      BY <1>7, <2>3 DEF NextPage
    <3>2. -1 # 0 /\ -1 # 200
      OBVIOUS
    <3>3. CallOK(call', version) /\ call'.status = -1 /\ call'.endpoint = "none"
          /\ HeldBy(call') = 0
      BY <3>1, <3>2, CallEnds
    <3>4. Horizon(call', version) = version
      BY <3>3 DEF Horizon, Alive
    <3>5. WalkOK(walk', call', version)
      BY <1>3, <1>4, <1>5, <1>7, <2>1, <3>2, <3>3, <3>4 DEF WalkOK
    <3>6. PoolInv'
      BY <1>1, <1>2, <1>4, <3>2, <3>3, ClientSteps
    <3> QED
      BY <1>2, <3>5, <3>6 DEF ServiceInv
  <2> QED
    BY <2>2, <2>3
<1> QED
  BY <1>6, <1>7

\* What a step of a request under way has to keep.
LEMMA QueryKeeps ==
  ASSUME ServiceInv, UNCHANGED <<version, process, poller, others, walk>>,
         call.status = 0, Continues(call, call', version),
         CallOK(call', version), call'.endpoint \in Endpoints \cup {"none"},
         cut' \in BOOLEAN, ~cut', strays' \in Nat,
         \/ HeldBy(call') + strays' <= HeldBy(call) + strays
         \/ HeldBy(call') + strays' <= HeldBy(call) + strays + 1 /\ InUse < DB_POOL_MAX
  PROVE  ServiceInv'
<1>1. PoolInv /\ version \in Version /\ CallOK(call, version) /\ WalkOK(walk, call, version)
      /\ walk'.end \in {"no", "done", "bound", "failed"}
  BY DEF ServiceInv, PoolInv, TypeOK
<1>2. PoolInv'
  BY <1>1, ClientSteps
<1>3. WalkOK(walk, call', version)
  BY <1>1, WalkKeeps
<1>4. WalkOK(walk, call, version)'
  BY <1>3
<1> QED
  BY <1>2, <1>4 DEF ServiceInv

\* What is known of a request under way.
LEMMA UnderWay ==
  ASSUME ServiceInv, call.status = 0
  PROVE  /\ PoolInv /\ CallOK(call, version) /\ version \in Nat /\ version \in Version
         /\ Staged(call) /\ call.endpoint \in Endpoints
         /\ IsFiniteSet(call.running) /\ Cardinality(call.running) \in Nat
         /\ HeldBy(call) \in Nat /\ strays \in Nat /\ cut \in BOOLEAN /\ ~cut
         /\ phase # "pool" /\ phase # "exited"
BY RunningFacts, HeldFacts, VersionFacts DEF ServiceInv, PoolInv, TypeOK, StopsInOrder

\* The client gives up, or the walk has failed.
LEMMA GivesUp ==
  ASSUME ServiceInv, GiveUp \/ WalkFails
  PROVE  ServiceInv'
<1>1. CASE GiveUp
  <2>1. call.status = 0 /\ call' = [NoCall EXCEPT !.status = -1]
        /\ strays' = strays + HeldBy(call)
        /\ UNCHANGED <<version, process, poller, others, walk, cut>>
    BY <1>1 DEF GiveUp
  <2>2. -1 \notin {0, 200}
    OBVIOUS
  <2>3. CallOK(call', version) /\ call'.status = -1 /\ call'.endpoint = "none"
        /\ HeldBy(call') = 0
    BY <2>1, <2>2, CallEnds
  <2>4. Continues(call, call', version)
    BY <2>2, <2>3 DEF Continues
  <2>5. strays \in Nat /\ HeldBy(call) \in Nat /\ cut \in BOOLEAN /\ ~cut
    BY <2>1, UnderWay
  <2>6. strays' \in Nat /\ HeldBy(call') + strays' <= HeldBy(call) + strays
    <3> DEFINE h == HeldBy(call)
               g == HeldBy(call')
    <3>1. h \in Nat /\ g = 0 /\ strays' = strays + h /\ strays \in Nat
      BY <2>1, <2>3, <2>5
    <3> HIDE DEF h, g
    <3>2. strays' \in Nat /\ g + strays' <= h + strays
      BY <3>1
    <3> QED
      BY <3>2 DEF h, g
  <2>7. cut' = cut
    BY <2>1
  <2> QED
    BY <2>1, <2>3, <2>4, <2>5, <2>6, <2>7, QueryKeeps
<1>2. CASE WalkFails
  <2>1. /\ UNCHANGED <<version, process, poller, others, strays, call, cut>>
        /\ walk' = [walk EXCEPT !.end = "failed"]
        /\ walk.list # "none" /\ PoolInv /\ WalkOK(walk, call, version)
        /\ CallOK(call, version)
    BY <1>2 DEF WalkFails, ServiceInv, PoolInv
  <2>2. /\ DOMAIN walk' = WalkFields /\ walk'.end = "failed" /\ walk'.list = walk.list
        /\ walk'.page = walk.page /\ walk'.since = walk.since /\ walk'.shown = walk.shown
    <3>1. DOMAIN walk = WalkFields
      BY <2>1 DEF WalkOK
    <3> QED
      BY <2>1, <3>1 DEF WalkFields
  <2>3. WalkOK(walk', call, version)
    BY <2>1, <2>2 DEF WalkOK
  <2>4. strays \in Nat /\ HeldBy(call) \in Nat /\ cut \in BOOLEAN /\ ~cut
        /\ call.endpoint \in Endpoints \cup {"none"}
    BY <2>1, HeldFacts DEF PoolInv, TypeOK, StopsInOrder
  <2>5. call' = call /\ strays' = strays /\ cut' = cut /\ version' = version
        /\ UNCHANGED <<version, process, poller, others>>
    BY <2>1
  <2>6. HeldBy(call') + strays' <= HeldBy(call) + strays
    BY <2>4, <2>5
  <2>7. PoolInv'
    BY <2>1, <2>2, <2>4, <2>5, <2>6, ClientSteps
  <2> QED
    BY <2>3, <2>5, <2>7 DEF ServiceInv
<1> QED
  BY <1>1, <1>2

\* A query gets its connection.
LEMMA StartQueryKeeps ==
  ASSUME ServiceInv, NEW q, StartQuery(q)
  PROVE  ServiceInv'
<1>1. /\ call.status = 0 /\ q \in call.todo
      /\ acquireClient \/ (call.endpoint = "export" /\ HeldBy(call) = 1)
      /\ call' = [call EXCEPT !.todo = @ \ {q}, !.running = @ \cup {q}]
      /\ UNCHANGED <<version, process, poller, others, strays, walk, cut>>
  BY DEF StartQuery
<1>2. /\ CallOK(call, version) /\ HeldBy(call) \in Nat /\ strays \in Nat
      /\ cut \in BOOLEAN /\ ~cut /\ call.endpoint \in Endpoints
  BY <1>1, UnderWay
<1>3. /\ CallOK(call', version) /\ call'.at = call.at /\ call'.status = 0
      /\ call'.endpoint = call.endpoint /\ call'.list = call.list
      /\ call'.member = call.member /\ call'.page = call.page
      /\ HeldBy(call') <= HeldBy(call) + 1
      /\ call.endpoint = "export" /\ HeldBy(call) = 1 => HeldBy(call') = 1
  <2>1. LET d == [call EXCEPT !.todo = @ \ {q}, !.running = @ \cup {q}]
        IN  /\ CallOK(d, version) /\ d.at = call.at /\ d.status = 0
            /\ d.endpoint = call.endpoint /\ d.list = call.list /\ d.member = call.member
            /\ d.page = call.page
            /\ HeldBy(d) <= HeldBy(call) + 1
            /\ call.endpoint = "export" /\ HeldBy(call) = 1 => HeldBy(d) = 1
    BY <1>1, <1>2, QueryStarts
  <2> QED
    BY <1>1, <2>1
<1>4. Continues(call, call', version)
  BY <1>3 DEF Continues
<1>5. strays' = strays /\ cut' = cut
  BY <1>1
<1>6. HeldBy(call') \in Nat
  BY <1>3, HeldFacts
<1>7. \/ HeldBy(call') + strays' <= HeldBy(call) + strays
      \/ HeldBy(call') + strays' <= HeldBy(call) + strays + 1 /\ InUse < DB_POOL_MAX
  BY <1>1, <1>2, <1>3, <1>5, <1>6 DEF acquireClient
<1> QED
  BY <1>1, <1>2, <1>3, <1>4, <1>5, <1>7, QueryKeeps

\* The database fails a query and with it the request.
LEMMA QueryFailsKeeps ==
  ASSUME ServiceInv, NEW q, QueryFails(q)
  PROVE  ServiceInv'
<1>1. /\ call.status = 0 /\ call' = [NoCall EXCEPT !.status = 500]
      /\ strays' = IF call.endpoint = "export" THEN strays
                   ELSE strays + Cardinality(call.running \ {q})
      /\ cut' = (cut \/ phase = "pool")
      /\ UNCHANGED <<version, process, poller, others, walk>>
  BY DEF QueryFails
<1>2. /\ IsFiniteSet(call.running) /\ Cardinality(call.running) \in Nat
      /\ HeldBy(call) \in Nat /\ strays \in Nat /\ ~cut /\ phase # "pool"
  BY <1>1, UnderWay
<1>3. 500 \notin {0, 200}
  OBVIOUS
<1>4. CallOK(call', version) /\ call'.status = 500 /\ call'.endpoint = "none"
      /\ HeldBy(call') = 0
  BY <1>1, <1>3, CallEnds
<1>5. Continues(call, call', version)
  BY <1>3, <1>4 DEF Continues
<1>6. Cardinality(call.running \ {q}) \in Nat
      /\ Cardinality(call.running \ {q}) <= Cardinality(call.running)
  <2>1. /\ IsFiniteSet(call.running \ {q})
        /\ Cardinality(call.running \ {q}) \in {Cardinality(call.running),
                                                Cardinality(call.running) - 1}
    BY <1>2, FS_RemoveElement
  <2> QED
    BY <1>2, <2>1, FS_CardinalityType
<1>7. call.endpoint # "export" => HeldBy(call) = Cardinality(call.running)
  BY <1>1 DEF HeldBy
<1>8. strays' \in Nat /\ HeldBy(call') + strays' <= HeldBy(call) + strays
  <2> DEFINE h == HeldBy(call)
             g == HeldBy(call')
             m == Cardinality(call.running \ {q})
             n == Cardinality(call.running)
  <2>1. /\ h \in Nat /\ g = 0 /\ m \in Nat /\ n \in Nat /\ m <= n /\ strays \in Nat
        /\ call.endpoint # "export" => h = n
        /\ strays' = IF call.endpoint = "export" THEN strays ELSE strays + m
    BY <1>1, <1>2, <1>4, <1>6, <1>7
  <2> HIDE DEF h, g, m, n
  <2>2. strays' \in Nat /\ g + strays' <= h + strays
    BY <2>1
  <2> QED
    BY <2>2 DEF h, g
<1>9. cut' \in BOOLEAN /\ ~cut'
  BY <1>1, <1>2
<1> QED
  BY <1>1, <1>4, <1>5, <1>8, <1>9, QueryKeeps

\* A query is over and the request goes on, or is answered.
LEMMA ReadKeeps ==
  ASSUME ServiceInv, call.status = 0, NEW q \in call.todo \cup call.running, NEW seen,
         Fits(call, q, seen, version),
         call.endpoint \in {"circles", "contributions"} => seen = version,
         NEW answer, call' = Proceed(Over(call, q, seen), answer),
         UNCHANGED <<version, process, poller, others, walk, cut>>,
         q \in call.running \/ call.endpoint # "export",
         \/ strays' = strays
         \/ q \in call.running /\ call.endpoint # "export" /\ strays' = strays + 1
  PROVE  ServiceInv'
<1>1. /\ CallOK(call, version) /\ version \in Nat /\ call.endpoint \in Endpoints
      /\ HeldBy(call) \in Nat /\ strays \in Nat /\ cut \in BOOLEAN /\ ~cut
  BY UnderWay
<1>2. /\ CallOK(call', version)
      /\ call'.endpoint = call.endpoint /\ call'.list = call.list
      /\ call'.member = call.member
      /\ call'.page = call.page /\ call'.running = call.running \ {q}
      /\ DOMAIN call'.at = DOMAIN call.at \cup {q}
      /\ \A r \in DOMAIN call.at : call'.at[r] = call.at[r]
      /\ call.endpoint \in Exact => q \notin DOMAIN call.at /\ call'.at[q] = seen
  <2>1. LET p == Proceed(Over(call, q, seen), answer)
        IN  /\ CallOK(p, version)
            /\ p.endpoint = call.endpoint /\ p.list = call.list /\ p.member = call.member
            /\ p.page = call.page /\ p.running = call.running \ {q}
            /\ DOMAIN p.at = DOMAIN call.at \cup {q}
            /\ \A r \in DOMAIN call.at : p.at[r] = call.at[r]
            /\ call.endpoint \in Exact => q \notin DOMAIN call.at /\ p.at[q] = seen
    BY <1>1, QueryEnds
  <2> QED
    BY <2>1
<1>3. Continues(call, call', version)
  BY <1>2 DEF Continues, Exact
<1>4. /\ HeldBy(call') <= HeldBy(call)
      /\ q \in call.running /\ call.endpoint # "export" => HeldBy(call') <= HeldBy(call) - 1
  BY <1>1, <1>2, HeldEnds
<1>5. HeldBy(call') \in Nat
  BY <1>2, HeldFacts
<1>6. strays' \in Nat /\ HeldBy(call') + strays' <= HeldBy(call) + strays
  <2> DEFINE h == HeldBy(call)
             g == HeldBy(call')
  <2>1. /\ h \in Nat /\ g \in Nat /\ strays \in Nat /\ g <= h
        /\ strays' = strays \/ (strays' = strays + 1 /\ g <= h - 1)
    BY <1>1, <1>4, <1>5
  <2> HIDE DEF h, g
  <2>2. strays' \in Nat /\ g + strays' <= h + strays
    BY <2>1
  <2> QED
    BY <2>2 DEF h, g
<1>7. cut' \in BOOLEAN /\ ~cut'
  BY <1>1
<1> QED
  BY <1>1, <1>2, <1>3, <1>6, <1>7, QueryKeeps

\* A query of the database is over.
LEMMA FinishQueryKeeps ==
  ASSUME ServiceInv, NEW q, FinishQuery(q)
  PROVE  ServiceInv'
<1> DEFINE seen == SnapshotOf(call, version)
           read == Over(call, q, seen)
<1>1. /\ call.status = 0 /\ q \in call.running
      /\ UNCHANGED <<version, process, poller, others, strays, walk, cut>>
  BY DEF FinishQuery
<1>2. PICK schema \in BOOLEAN, failures \in BOOLEAN :
        call' = IF Refusal(read, q) # 0
                  THEN [read EXCEPT !.status = Refusal(read, q), !.todo = {}, !.running = {}]
                ELSE Proceed(read, StatusOf(read, schema, failures))
  BY DEF FinishQuery
<1>3. /\ CallOK(call, version) /\ version \in Nat /\ call.endpoint \in Endpoints
      /\ HeldBy(call) \in Nat /\ strays \in Nat /\ cut \in BOOLEAN /\ ~cut
      /\ Staged(call)
  BY <1>1, UnderWay
<1>4. call.endpoint \in Exact =>
        /\ seen \in 0..version /\ \A r \in DOMAIN call.at : call.at[r] <= seen
        /\ call.endpoint = "export" => \A r \in DOMAIN call.at : call.at[r] = seen
        /\ call.endpoint # "export" => seen = version
  BY <1>1, <1>3, SnapshotFits
<1>5. /\ DOMAIN read = CallFields /\ read.circle = call.circle
      /\ read.endpoint = call.endpoint
      /\ DOMAIN read.at = DOMAIN call.at \cup {q}
      /\ q \notin DOMAIN call.at /\ call.endpoint \in Exact => read.at[q] = seen
  <2>1. DOMAIN call = CallFields
    BY <1>3 DEF CallOK
  <2> HIDE DEF seen
  <2>2. LET d == Over(call, q, seen)
        IN  /\ DOMAIN d = CallFields /\ d.todo = call.todo \ {q}
            /\ d.running = call.running \ {q} /\ d.status = call.status
            /\ d.endpoint = call.endpoint /\ d.list = call.list /\ d.member = call.member
            /\ d.page = call.page /\ d.stage = call.stage /\ d.circle = call.circle
            /\ DOMAIN d.at = DOMAIN call.at \cup {q}
            /\ \A r \in DOMAIN call.at : d.at[r] = call.at[r]
            /\ q \notin DOMAIN call.at /\ call.endpoint \in Exact => d.at[q] = seen
    BY <2>1, OverFacts
  <2> QED
    BY <2>2
<1> HIDE DEF read, seen
<1>6. CASE Refusal(read, q) # 0
  <2>1. Refusal(read, q) \in {404, 413}
    BY <1>6 DEF Refusal
  <2>2. call' = [read EXCEPT !.status = Refusal(read, q), !.todo = {}, !.running = {}]
    BY <1>2, <1>6
  <2>3. /\ DOMAIN call' = CallFields /\ call'.status = Refusal(read, q)
        /\ call'.endpoint = read.endpoint /\ call'.at = read.at
    BY <1>5, <2>2 DEF CallFields
  <2>4. call'.status \notin {0, 200}
    BY <2>1, <2>3
  <2>5. CallOK(call', version)
    BY <1>5, <2>3, <2>4 DEF CallOK, Alive
  <2>6. HeldBy(call') = 0
    BY <2>4 DEF HeldBy
  <2>7. Continues(call, call', version)
    BY <2>4 DEF Continues
  <2>8. strays' = strays /\ cut' = cut /\ call'.endpoint = call.endpoint
    BY <1>1, <1>5, <2>3
  <2>9. HeldBy(call') + strays' <= HeldBy(call) + strays
    BY <1>3, <2>6, <2>8
  <2> QED
    BY <1>1, <1>3, <2>5, <2>7, <2>8, <2>9, QueryKeeps
<1>7. CASE Refusal(read, q) = 0
  <2>1. call' = Proceed(Over(call, q, seen), StatusOf(read, schema, failures))
    BY <1>2, <1>7 DEF read
  <2>2. Fits(call, q, seen, version)
    <3>1. ASSUME q = "circle", call.endpoint \in {"rounds", "export"}
          PROVE  call.circle \in DOMAIN Tables[seen].circles
      <4>1. call.endpoint \in Exact /\ q \notin DOMAIN call.at
        BY <1>1, <1>3, <3>1, ReadOnce DEF Exact
      <4>2. read.at[q] = seen /\ read.circle = call.circle
        BY <1>5, <4>1
      <4>3. read.circle \in DOMAIN Tables[read.at[q]].circles
        BY <1>7, <3>1 DEF Refusal
      <4> QED
        BY <4>2, <4>3
    <3> QED
      BY <1>4, <3>1 DEF Fits
  <2>3. call.endpoint \in {"circles", "contributions"} => seen = version
    BY <1>4 DEF Exact
  <2>4. q \in call.todo \cup call.running
    BY <1>1
  <2> QED
    BY <1>1, <2>1, <2>2, <2>3, <2>4, ReadKeeps
<1> QED
  BY <1>6, <1>7

\* The RPC answers, or a health check fails: only the health report waits for
\* either.
LEMMA HealthKeeps ==
  ASSUME ServiceInv, RpcAnswers \/ \E q \in Open : CheckFails(q)
  PROVE  ServiceInv'
<1>1. CASE RpcAnswers
  <2>1. PICK h \in (version..Len(Ledgers)) \cup {Failed} :
          call' = Proceed(Over(call, "rpc", h), 200)
    BY <1>1 DEF RpcAnswers
  <2>2. call.status = 0 /\ "rpc" \in call.todo
        /\ UNCHANGED <<version, process, poller, others, strays, walk, cut>>
    BY <1>1 DEF RpcAnswers
  <2>3. call.endpoint \notin Exact
    <3>1. Staged(call) /\ call.endpoint \in Endpoints
      BY <2>2, UnderWay
    <3>2. "rpc" \in Stages[call.endpoint][call.stage]
          /\ call.stage \in 1..Len(Stages[call.endpoint])
      BY <2>2, <3>1 DEF Staged, Due
    <3> QED
      BY <3>1, <3>2, StageFacts
  <2>4. Fits(call, "rpc", h, version)
    BY <2>3 DEF Fits
  <2>5. call.endpoint \notin {"circles", "contributions", "export"}
    BY <2>3 DEF Exact
  <2>6. "rpc" \in call.todo \cup call.running
    BY <2>2
  <2> QED
    BY <2>1, <2>2, <2>4, <2>5, <2>6, ReadKeeps
<1>2. CASE \E q \in Open : CheckFails(q)
  <2>1. PICK q : CheckFails(q)
    BY <1>2
  <2>2. /\ call.status = 0 /\ call.endpoint = "health"
        /\ q \in call.todo \cup call.running
        /\ strays' = strays \/ (q \in call.running /\ strays' = strays + 1)
        /\ UNCHANGED <<version, process, poller, others, walk, cut>>
    BY <2>1 DEF CheckFails
  <2>3. PICK answer : call' = Proceed(Over(call, q, Failed), answer)
    BY <2>1 DEF CheckFails
  <2>4. Fits(call, q, Failed, version)
    BY <2>2 DEF Fits, Exact
  <2>5. call.endpoint \notin {"circles", "contributions", "export"}
    BY <2>2
  <2> QED
    BY <2>2, <2>3, <2>4, <2>5, ReadKeeps
<1> QED
  BY <1>1, <1>2

-----------------------------------------------------------------------------
(* The steps of the others, and the end.                                   *)

\* What the request does not do leaves the walk what it is.
LEMMA ProcessKeeps ==
  ASSUME ServiceInv,
         \/ connectWithRetry \/ main \/ tick \/ BeginLedger \/ CommitLedger
         \/ RollBackLedger \/ EndCycle \/ OtherArrives \/ OtherAnswered \/ OtherAbandons
         \/ StrayEnds \/ Signal \/ PollerStopped \/ HttpClosed
  PROVE  ServiceInv'
<1>1. PoolInv /\ WalkOK(walk, call, version) /\ CallOK(call, version) /\ version \in Version
  BY DEF ServiceInv, PoolInv, TypeOK
<1>2. PoolInv'
  BY <1>1, PoolSteps
<1>3. call' = call /\ walk' = walk
  BY DEF connectWithRetry, main, tick, BeginLedger, CommitLedger, RollBackLedger, EndCycle,
         OtherArrives, OtherAnswered, OtherAbandons, StrayEnds, Signal, PollerStopped,
         HttpClosed, client
<1>4. version' \in {version, version + 1}
  BY DEF connectWithRetry, main, tick, BeginLedger, CommitLedger, RollBackLedger, EndCycle,
         OtherArrives, OtherAnswered, OtherAbandons, StrayEnds, Signal, PollerStopped,
         HttpClosed
<1>5. version' \in Version
  BY <1>2 DEF PoolInv, TypeOK
<1>6. version <= version'
  <2>1. version \in Nat
    BY <1>1, VersionFacts
  <2> QED
    BY <1>4, <2>1
<1>7. WalkOK(walk, call, version')
  BY <1>1, <1>5, <1>6, WalkLater
<1> QED
  BY <1>2, <1>3, <1>7 DEF ServiceInv

\* When the process ends, so does everything else.
LEMMA ExitKeeps ==
  ASSUME ServiceInv, Dies \/ PoolEnded \/ ForceExit
  PROVE  ServiceInv'
<1>1. PICK how \in {"clean", "forced", "died"} : Exit(how)
  BY DEF Dies, PoolEnded, ForceExit
<1>2. /\ phase' = "exited" /\ exit' = how /\ poller' = "off" /\ others' = 0 /\ strays' = 0
      /\ call' = [NoCall EXCEPT !.status = -1] /\ walk' = NoWalk
      /\ UNCHANGED <<version, cut>>
  BY <1>1 DEF Exit
<1>3. -1 # 0
  OBVIOUS
<1>4. CallOK(call', version) /\ call'.status = -1 /\ call'.endpoint = "none"
      /\ HeldBy(call') = 0
  BY <1>2, <1>3, CallEnds
<1>5. WalkOK(walk', call', version) /\ walk'.end = "no"
  BY <1>2, NoWalkFacts
<1>6. version \in Version /\ cut \in BOOLEAN /\ ~cut
  BY DEF ServiceInv, PoolInv, TypeOK, StopsInOrder
<1>7. DB_POOL_MAX \in Nat /\ MaxOthers \in Nat
  BY ServiceAssumption
<1>8. InUse' = 0
  BY <1>2, <1>4 DEF InUse
<1>9. others' \in 0..MaxOthers /\ strays' \in Nat /\ InUse' <= DB_POOL_MAX
  BY <1>2, <1>7, <1>8
<1>10. how # "none"
  BY <1>1
<1>11. TypeOK'
  BY <1>2, <1>4, <1>5, <1>6, <1>9, <1>10 DEF TypeOK
<1>12. StopsInOrder'
  BY <1>2, <1>3, <1>4, <1>6 DEF StopsInOrder
<1>13. CallOK(call, version)' /\ WalkOK(walk, call, version)'
  BY <1>2, <1>4, <1>5
<1> QED
  BY <1>2, <1>11, <1>12, <1>13 DEF ServiceInv, PoolInv

\* It is so at first,
LEMMA InvStarts == Init => ServiceInv
<1> SUFFICES ASSUME Init PROVE ServiceInv
  OBVIOUS
<1>1. PoolInv
  BY PoolInvStarts
<1>2. walk = NoWalk
  BY DEF Init
<1>3. WalkOK(walk, call, version)
  BY <1>2, NoWalkFacts
<1> QED
  BY <1>1, <1>3 DEF ServiceInv

\* and every step keeps it.
LEMMA InvHolds == ServiceInv /\ [Next]_vars => ServiceInv'
<1> SUFFICES ASSUME ServiceInv, [Next]_vars PROVE ServiceInv'
  OBVIOUS
<1> DEFINE Parts ==
      \/ connectWithRetry \/ main \/ tick \/ BeginLedger \/ CommitLedger
      \/ RollBackLedger \/ EndCycle \/ OtherArrives \/ OtherAnswered \/ OtherAbandons
      \/ StrayEnds \/ Signal \/ PollerStopped \/ HttpClosed
    Requests ==
      \/ \E e \in Endpoints \ {"circles", "contributions"} : Request(e)
      \/ Refused
      \/ \E list \in Lists : \E m : StartWalk(list, m)
    Queries ==
      \/ \E q : StartQuery(q)
      \/ \E q : FinishQuery(q)
      \/ \E q : QueryFails(q)
      \/ RpcAnswers \/ \E q \in Open : CheckFails(q)
    Ends == Dies \/ PoolEnded \/ ForceExit
<1>1. Next => Parts \/ Requests \/ NextPage \/ WalkFails \/ GiveUp \/ Queries \/ Ends
  <2>1. ASSUME NEW list \in {"asc", "desc"}, StartWalk(list, "") PROVE Requests
    <3>1. list \in Lists
      BY <2>1, Zenon DEF Lists
    <3> QED
      BY <2>1, <3>1, Zenon
  <2>2. ASSUME NEW m \in Members, StartWalk("contributions", m) PROVE Requests
    <3>1. "contributions" \in Lists
      BY Zenon DEF Lists
    <3> QED
      BY <2>2, <3>1, Zenon
  <2> QED
    BY <2>1, <2>2, Zenon DEF Next
<1> HIDE DEF Parts, Requests, Queries, Ends
<1>2. CASE Parts
  BY <1>2, ProcessKeeps DEF Parts
<1>3. CASE Requests
  BY <1>3, RequestSteps DEF Requests
<1>4. CASE NextPage
  BY <1>4, PageSteps
<1>5. CASE WalkFails \/ GiveUp
  BY <1>5, GivesUp
<1>6. CASE Queries
  BY <1>6, StartQueryKeeps, FinishQueryKeeps, QueryFailsKeeps, HealthKeeps DEF Queries
<1>7. CASE Ends
  BY <1>7, ExitKeeps DEF Ends
<1>8. CASE UNCHANGED vars
  <2>1. /\ version' = version /\ phase' = phase /\ exit' = exit /\ poller' = poller
        /\ others' = others /\ strays' = strays /\ call' = call /\ walk' = walk
        /\ cut' = cut
    BY <1>8 DEF vars, process, client
  <2>2. InUse' = InUse
    BY <2>1 DEF InUse
  <2> QED
    BY <2>1, <2>2 DEF ServiceInv, PoolInv, TypeOK, StopsInOrder
<1> QED
  BY <1>1, <1>2, <1>3, <1>4, <1>5, <1>6, <1>7, <1>8

\* What is true of the process, its pool, its request and its client at all
\* times.
LEMMA InvAlways == Spec => []ServiceInv
BY InvStarts, InvHolds, PTL DEF Spec

-----------------------------------------------------------------------------
(* Theorems.                                                               *)

\* Every state is well-formed; above all the connections in use are never more
\* than the pool has (db/pool.ts), whatever is left behind by requests that
\* failed or were given up.
THEOREM TypeCorrect == Spec => []TypeOK
<1>1. ServiceInv => TypeOK
  BY DEF ServiceInv, PoolInv
<1> QED
  BY <1>1, InvAlways, PTL

\* An exit code of zero means that nothing was cut off: gracefulShutdown
\* (index.ts) closes the pool only when the poller, the requests and their
\* queries are over.
THEOREM StopsCleanly == Spec => []CleanExit
<1>1. ServiceInv => CleanExit
  <2> SUFFICES ASSUME ServiceInv PROVE CleanExit
    OBVIOUS
  <2>1. TypeOK /\ StopsInOrder
    BY DEF ServiceInv, PoolInv
  <2>2. exit = "clean" => InUse = 0
    <3> SUFFICES ASSUME exit = "clean" PROVE InUse = 0
      OBVIOUS
    <3>1. phase = "exited"
      BY <2>1 DEF TypeOK
    <3>2. call.status # 0 /\ others = 0 /\ strays = 0 /\ poller = "off"
      BY <2>1, <3>1 DEF StopsInOrder
    <3> QED
      BY <3>2 DEF InUse, HeldBy
  <2> QED
    BY <2>1, <2>2 DEF StopsInOrder, CleanExit
<1> QED
  BY <1>1, InvAlways, PTL

\* An iteration that has come to its end (paginate, sdk/src/client.ts) has
\* shown every row that was there when it began, and in order of creation none
\* twice, whatever ledgers were committed between its requests and between the
\* two queries of one.
THEOREM WalksFindAll == Spec => []WalkFindsAll
<1>1. ServiceInv => WalkFindsAll
  <2> SUFFICES ASSUME ServiceInv, walk.end = "done" PROVE WalkFindsAll
    BY DEF WalkFindsAll
  <2>1. WalkOK(walk, call, version) /\ walk.list # "none"
    BY DEF ServiceInv, WalkOK
  <2>2. FoundAll(walk, call) /\ walk.list \in Lists /\ walk.since \in 0..version
        /\ walk.shown \in Seq(AllRows(walk.list))
    BY <2>1 DEF WalkOK
  <2>3. version \in Version
    BY DEF ServiceInv, PoolInv, TypeOK
  <2>4. walk.since \in Version
    BY <2>2, <2>3, VersionFacts DEF Version
  <2> DEFINE begun == ListAt(walk.list, walk.member, walk.since)
             old == ToSet(begun)
  <2>5. old \subseteq RowsAt(walk.list, walk.member, walk.since)
    <3>1. \A i \in 1..Len(begun) : begun[i] \in RowsAt(walk.list, walk.member, walk.since)
      BY <2>2, <2>4, ListFacts
    <3>2. begun \in Seq(RowsAt(walk.list, walk.member, walk.since))
      BY <2>2, <2>4, ListFacts
    <3> HIDE DEF begun
    <3>3. DOMAIN begun = 1..Len(begun)
      BY <3>2
    <3> QED
      BY <3>1, <3>3 DEF ToSet
  <2>6. ASSUME \A k \in RowsAt(walk.list, walk.member, walk.since) : Shown(walk, k)
        PROVE  old \subseteq ToSet(walk.shown)
    <3> SUFFICES ASSUME NEW k \in old PROVE k \in ToSet(walk.shown)
      OBVIOUS
    <3>1. PICK i \in 1..Len(walk.shown) : walk.shown[i] = k
      BY <2>5, <2>6 DEF Shown
    <3>2. DOMAIN walk.shown = 1..Len(walk.shown)
      BY <2>2
    <3> QED
      BY <3>1, <3>2 DEF ToSet
  <2>7. walk.list = "asc" => IsInjective(walk.shown)
    <3>1. DOMAIN walk.shown = 1..Len(walk.shown)
      BY <2>2
    <3> QED
      BY <2>2, <3>1 DEF FoundAll, IsInjective
  <2> HIDE DEF old
  <2>8. \/ old \subseteq ToSet(walk.shown)
        \/ /\ walk.list # "asc"
           /\ Len(ListAt(walk.list, walk.member, call.at["count"]))
                < Len(ListAt(walk.list, walk.member, call.at["rows"]))
    BY <2>2, <2>6 DEF FoundAll
  <2> QED
    BY <2>7, <2>8 DEF WalkFindsAll, old
<1> QED
  BY <1>1, InvAlways, PTL

-----------------------------------------------------------------------------
(* Answers.                                                                *)

\* An answer that is there has read everything.
LEMMA AllRead ==
  ASSUME NEW c, NEW v \in Version, CallOK(c, v), c.status = 200, c.endpoint # "none"
  PROVE  /\ \A j \in 1..Len(Stages[c.endpoint]) : Stages[c.endpoint][j] \subseteq DOMAIN c.at
         /\ SeenBy(c, v) /\ ReadsAgree(c) /\ OnePage(c) /\ c.endpoint \in Endpoints
<1>1. Alive(c) /\ Staged(c) /\ SeenBy(c, v) /\ ReadsAgree(c) /\ OnePage(c)
  BY DEF CallOK, Alive
<1>2. c.stage = Len(Stages[c.endpoint]) /\ c.stage \in Nat /\ c.todo \cup c.running = {}
      /\ c.endpoint \in Endpoints
  BY <1>1, StageFacts DEF Staged
<1>3. ASSUME NEW j \in 1..c.stage, NEW q \in Stages[c.endpoint][j] PROVE q \in DOMAIN c.at
  <2>1. q \in Read(c)
    <3>1. CASE j = c.stage
      BY <1>2, <3>1 DEF Read, Due
    <3>2. CASE j # c.stage
      <4>1. j \in 1..(c.stage - 1)
        BY <1>2, <3>2
      <4>2. q \in Upto(c.endpoint, c.stage - 1)
        BY <4>1, UptoFacts
      <4> QED
        BY <4>2 DEF Read
    <3> QED
      BY <3>1, <3>2
  <2> QED
    BY <1>1, <2>1 DEF Staged
<1> QED
  BY <1>1, <1>2, <1>3

\* The client and the API agree on what they ask and answer.
LEMMA ClientAndApiAgree == ClientFitsApi
<1>1. ASSUME NEW method \in Methods
      PROVE  validateEnvelope(Body[method.endpoint], method.envelope)
  <2>1. CASE method \in {getCircles, getMemberContributions, getCircleHistory}
    BY <2>1 DEF getCircles, getMemberContributions, getCircleHistory, GetPage,
                validateEnvelope, Body
  <2>2. CASE method \in {getCircleDetail, getMembers, getRounds}
    BY <2>2 DEF getCircleDetail, getMembers, getRounds, Get, validateEnvelope, Body
  <2>3. CASE method \in {getReputation, getCircleAuditEvents, health}
    BY <2>3 DEF getReputation, getCircleAuditEvents, health, Get, validateEnvelope, Body
  <2> QED
    BY <2>1, <2>2, <2>3 DEF Methods
<1>2. CIRCLE_SORT_FIELDS = SORTABLE_FIELDS /\ CIRCLE_STATUS_FILTERS = CIRCLE_STATUSES
  BY DEF CIRCLE_SORT_FIELDS, SORTABLE_FIELDS, CIRCLE_STATUS_FILTERS, CIRCLE_STATUSES
<1>3. ASSUME NEW page \in Numbers, NEW limit \in Numbers
      PROVE  /\ buildContributionsQuery(page, limit) <=> parsePage(page) /\ parseLimit(limit)
             /\ buildCirclesQuery(page, limit) /\ page <= Largest
                  <=> parsePage(page) /\ parseLimit(limit)
  BY DEF Numbers, buildContributionsQuery, buildCirclesQuery, integer, parsePage, parseLimit,
         Absent, NotANumber, Hundred, Largest, LargestSafe
<1>4. ASSUME NEW o \in Outcomes
      PROVE  retryable(o) <=> \/ o.how \in {"network", "timeout"}
                              \/ o.how = "answer" /\ o.status \in {429, 500, 503}
  <2>1. CASE o.how # "answer"
    <3>1. request(o) = o.how /\ o.how \in {"network", "timeout", "aborted"}
      BY <2>1 DEF request, Outcomes
    <3> QED
      BY <2>1, <3>1 DEF retryable
  <2>2. CASE o.how = "answer"
    <3>1. o.status \in {200, 400, 403, 404, 413, 429, 500, 503}
      BY <2>2 DEF Outcomes
    <3>2. request(o) \in {"http", "json", "schema", "none"}
          /\ (request(o) = "http" <=> o.status # 200)
      BY <2>2 DEF request
    <3> QED
      BY <2>2, <3>1, <3>2 DEF retryable
  <2> QED
    BY <2>1, <2>2
<1> QED
  BY <1>1, <1>2, <1>3, <1>4 DEF ClientFitsApi

\* What the contract's ledgers promise, one promise at a time.
LEMMA ContractFacts ==
  ASSUME NEW u \in Version, NEW circle \in DOMAIN Tables[u].circles
  PROVE  /\ Tables[u].circles[circle].status \in {"Active", "Cancelled"} =>
              Tables[u].circles[circle].current_round \notin PaidRounds(circle, u)
         /\ \A d \in DOMAIN Tables[u].defaults :
              d.circle = circle => Tables[u].defaults[d] = 1
         /\ \A k \in DOMAIN Tables[u].contributions :
              k[1] = circle => Tables[u].circle_members[<<circle, k[2]>>].collateral > 0
         /\ \A p \in DOMAIN Tables[u].payouts :
              p[1] = circle /\ ~Tables[u].payouts[p].is_exceptional =>
                \A k \in DOMAIN Tables[u].circle_members :
                  k[1] = circle => <<circle, k[2], p[2]>> \in DOMAIN Tables[u].contributions
BY ContractAssumption, Zenon

\* An answer put together from several reads is sound in what it can promise
\* (api.ts): rounds, the stamp of a circle's detail, and pages that the client
\* accepts, whatever was committed between the reads.
THEOREM AnswersHold == Spec => []AnswersAreSound
<1>1. ASSUME ServiceInv PROVE RoundsAreSound
  <2> SUFFICES ASSUME Answered("rounds") PROVE RoundsAreSound
    BY DEF RoundsAreSound
  <2>1. CallOK(call, version) /\ version \in Version /\ call.endpoint = "rounds"
        /\ call.status = 200 /\ call.endpoint # "none"
    BY <1>1 DEF ServiceInv, PoolInv, TypeOK, Answered
  <2>2. /\ \A j \in 1..Len(Stages[call.endpoint]) :
             Stages[call.endpoint][j] \subseteq DOMAIN call.at
        /\ SeenBy(call, version) /\ ReadsAgree(call)
    BY <2>1, AllRead
  <2>3. {"circle", "payouts"} \subseteq DOMAIN call.at
    <3>1. Stages["rounds"] = <<{"circle"}, {"payouts", "contributions", "defaults"}>>
      BY DEF Stages, circleRounds
    <3>2. Stages["rounds"][1] = {"circle"}
          /\ Stages["rounds"][2] = {"payouts", "contributions", "defaults"}
          /\ 1 \in 1..Len(Stages["rounds"]) /\ 2 \in 1..Len(Stages["rounds"])
      BY <3>1
    <3> QED
      BY <2>1, <2>2, <3>2
  <2> DEFINE c == call.circle
             u == call.at["circle"]
             v == call.at["payouts"]
             row == Tables[u].circles[c]
             paid == PaidRounds(c, v)
             some == ContributedRounds(c, call.at["contributions"])
             none == DefaultedRounds(c, call.at["defaults"])
             groups == groupCircleRounds(row, paid, some, none)
             current == {r \in DOMAIN groups : groups[r] \in {"current", "cancelled"}}
  <2>4. u \in Version /\ v \in Version /\ v <= version /\ c \in DOMAIN Tables[u].circles
    <3>1. u \in 0..version /\ v \in 0..version /\ c \in DOMAIN Tables[u].circles
      BY <2>1, <2>2, <2>3 DEF SeenBy, ReadsAgree, Exact
    <3>2. version \in Nat /\ version <= Len(Ledgers) /\ Len(Ledgers) \in Nat
      BY <2>1, VersionFacts
    <3> QED
      BY <3>1, <3>2 DEF Version
  <2>5. row.status \in {"Active", "Cancelled"} => row.current_round \notin PaidRounds(c, u)
    BY <2>4, ContractFacts, Zenon
  <2>6. paid \subseteq PaidRounds(c, version)
    <3>1. Grows(Tables[v], Tables[version])
      BY <2>1, <2>4, TablesFacts
    <3> QED
      BY <3>1 DEF Grows, PaidRounds
  <2> HIDE DEF row, paid, some, none
  <2>7. /\ DOMAIN groups = paid \cup some \cup none
                     \cup (IF row.status \in {"Active", "Cancelled"}
                             THEN {row.current_round} ELSE {})
        /\ \A r \in DOMAIN groups : groups[r] = resolveStatus(r, r \in paid, row)
    BY DEF groupCircleRounds
  <2> HIDE DEF groups
  <2>8. /\ \A r \in DOMAIN groups : groups[r] = "completed" => r \in paid
        /\ \A r \in DOMAIN groups : groups[r] \in {"current", "cancelled"} <=>
             /\ r \notin paid /\ r = row.current_round
             /\ row.status \in {"Active", "Cancelled"}
    BY <2>7 DEF resolveStatus
  <2>9. current \cap paid = {}
    BY <2>8
  <2>10. row.status \in {"Active", "Cancelled"} =>
           current = {row.current_round} \/ row.current_round \in paid
    BY <2>7, <2>8
  <2> HIDE DEF current
  <2>11. /\ \A r \in DOMAIN groups : groups[r] = "completed" => r \in PaidRounds(c, version)
         /\ current \cap paid = {}
         /\ row.status \in {"Active", "Cancelled"} =>
              \/ current = {row.current_round}
              \/ row.current_round \in paid \ PaidRounds(c, u)
    BY <2>5, <2>6, <2>8, <2>9, <2>10
  <2> QED
    BY <2>11 DEF RoundsAreSound, current, groups, row, paid, some, none
<1>2. ASSUME ServiceInv PROVE DetailIsStamped
  <2> SUFFICES ASSUME Answered("detail")
               PROVE  \A q \in DOMAIN call.at : call.at[q] <= call.at["state"]
    BY DEF DetailIsStamped
  <2>1. CallOK(call, version) /\ version \in Version /\ call.endpoint = "detail"
        /\ call.status = 200 /\ call.endpoint # "none"
    BY <1>2 DEF ServiceInv, PoolInv, TypeOK, Answered
  <2>2. /\ \A j \in 1..Len(Stages[call.endpoint]) :
             Stages[call.endpoint][j] \subseteq DOMAIN call.at
        /\ ReadsAgree(call)
    BY <2>1, AllRead
  <2>3. Stages["detail"] = <<{"circle"}, {"members"}, {"state"}>>
    BY DEF Stages, circleDetail
  <2>4. Stages["detail"][3] = {"state"} /\ 3 \in 1..Len(Stages["detail"])
    BY <2>3
  <2>5. "state" \in DOMAIN call.at
    BY <2>1, <2>2, <2>4
  <2> QED
    BY <2>1, <2>2, <2>5 DEF ReadsAgree
<1>3. ASSUME ServiceInv PROVE PagesFit
  <2> SUFFICES ASSUME call.endpoint \in {"circles", "contributions"}, call.status = 200
               PROVE  getPage(call.page, Pagination(call.page, PageTotal(call)),
                              PageRows(call))
    BY DEF PagesFit
  <2>1. CallOK(call, version) /\ version \in Version /\ call.endpoint # "none"
    BY <1>3 DEF ServiceInv, PoolInv, TypeOK
  <2>2. /\ \A j \in 1..Len(Stages[call.endpoint]) :
             Stages[call.endpoint][j] \subseteq DOMAIN call.at
        /\ SeenBy(call, version) /\ OnePage(call)
    BY <2>1, AllRead
  <2>3. {"rows", "count"} \subseteq DOMAIN call.at
    <3>1. Stages[call.endpoint] = <<{"rows", "count"}>>
      BY DEF Stages, listCircles, memberContributions
    <3>2. Stages[call.endpoint][1] = {"rows", "count"} /\ 1 \in 1..Len(Stages[call.endpoint])
      BY <3>1
    <3> QED
      BY <2>2, <3>2
  <2>4. call.at["rows"] \in Version /\ call.at["count"] \in Version
    <3>1. call.at["rows"] \in 0..version /\ call.at["count"] \in 0..version
      BY <2>2, <2>3 DEF SeenBy, Exact
    <3>2. version \in Nat /\ version <= Len(Ledgers) /\ Len(Ledgers) \in Nat
      BY <2>1, VersionFacts
    <3> QED
      BY <3>1, <3>2 DEF Version
  <2>5. call.page \in Nat \ {0} /\ call.list \in Lists
    BY <2>2 DEF OnePage
  <2>6. PageTotal(call) \in Nat
    BY <2>4, <2>5, ListFacts DEF PageTotal
  <2>7. totalPages(PageTotal(call)) \in Nat
    BY <2>5, <2>6, LastPage
  <2>8. Len(PageRows(call)) \in Nat /\ Len(PageRows(call)) <= Limit
    BY <2>4, <2>5, PageFacts DEF PageRows
  <2>9. Limit \in Nat \ {0}
    BY ApiAssumption
  <2> DEFINE pagination == Pagination(call.page, PageTotal(call))
  <2>10. /\ pagination.page = call.page /\ pagination.limit = Limit
         /\ pagination.total = PageTotal(call)
         /\ pagination.totalPages = totalPages(PageTotal(call))
    BY DEF Pagination
  <2> HIDE DEF pagination
  <2>11. getPage(call.page, pagination, PageRows(call))
    BY <2>5, <2>6, <2>7, <2>8, <2>9, <2>10 DEF getPage
  <2> QED
    BY <2>11 DEF pagination
<1>4. ServiceInv => AnswersAreSound
  BY <1>1, <1>2, <1>3, ClientAndApiAgree DEF AnswersAreSound
<1> QED
  BY <1>4, InvAlways, PTL

\* The export (withTransaction, REPEATABLE READ; api.ts) is one moment of the
\* circle although the poller commits between its queries: what is true of the
\* tables after every ledger is true of the file, and it has exactly the rows
\* that were counted against the limit.
THEOREM ExportHolds == Spec => []ExportIsSnapshot
<1>1. ASSUME ServiceInv PROVE ExportIsSnapshot
  <2> SUFFICES ASSUME Answered("export") PROVE ExportIsSnapshot
    BY DEF ExportIsSnapshot
  <2>1. CallOK(call, version) /\ version \in Version /\ call.endpoint = "export"
        /\ call.status = 200 /\ call.endpoint # "none"
    BY <1>1 DEF ServiceInv, PoolInv, TypeOK, Answered
  <2>2. /\ \A j \in 1..Len(Stages[call.endpoint]) :
             Stages[call.endpoint][j] \subseteq DOMAIN call.at
        /\ SeenBy(call, version) /\ ReadsAgree(call)
    BY <2>1, AllRead
  <2>3. {"circle", "count", "members", "contributions", "defaults", "payouts"}
          \subseteq DOMAIN call.at
    <3>1. Stages["export"] = <<{"circle"}, {"count"}, {"members"}, {"contributions"},
                               {"defaults"}, {"payouts"}>>
      BY DEF Stages, exportCsv
    <3>2. /\ Stages["export"][1] = {"circle"} /\ Stages["export"][2] = {"count"}
          /\ Stages["export"][3] = {"members"} /\ Stages["export"][4] = {"contributions"}
          /\ Stages["export"][5] = {"defaults"} /\ Stages["export"][6] = {"payouts"}
          /\ 1..6 \subseteq 1..Len(Stages["export"])
      BY <3>1
    <3> QED
      BY <2>1, <2>2, <3>2
  <2> DEFINE circle == call.circle
             u == call.at["circle"]
             t == Tables[u]
  <2>4. /\ call.at["count"] = u /\ call.at["members"] = u /\ call.at["contributions"] = u
        /\ call.at["defaults"] = u /\ call.at["payouts"] = u
    BY <2>1, <2>2, <2>3 DEF ReadsAgree
  <2>5. u \in Version /\ circle \in DOMAIN t.circles
    <3>1. u \in 0..version /\ circle \in DOMAIN t.circles
      BY <2>1, <2>2, <2>3 DEF SeenBy, ReadsAgree, Exact
    <3>2. version \in Nat /\ version <= Len(Ledgers) /\ Len(Ledgers) \in Nat
      BY <2>1, VersionFacts
    <3> QED
      BY <3>1, <3>2 DEF Version
  <2> HIDE DEF u
  <2> DEFINE M == {k \in DOMAIN t.circle_members : k[1] = circle}
             C == {k \in DOMAIN t.contributions : k[1] = circle}
             D == {d \in DOMAIN t.defaults : d.circle = circle}
             P == {k \in DOMAIN t.payouts : k[1] = circle}
             rows == [d \in D |-> t.defaults[d]]
             file == buildCircleActivityCsv(call)
  <2>6. file = [member |-> M, contribution |-> C, default |-> D, payout |-> P]
    BY <2>4, Zenon DEF buildCircleActivityCsv
  <2>7. RowsOf(circle, u) = Cardinality(M) + Cardinality(C) + SumOf(rows) + Cardinality(P)
    BY Zenon DEF RowsOf
\* A default is one row.
  <2>8. SumOf(rows) = Cardinality(D) /\ Cardinality(D) \in Nat
    <3>1. \A d \in D : t.defaults[d] = 1
      BY <2>5, ContractFacts
    <3>2. IsFiniteSet(D)
      <4>1. IsFiniteSet(DOMAIN t.defaults)
        BY <2>5, TablesFacts DEF WellFormed
      <4> QED
        BY <4>1, FS_Subset
    <3> HIDE DEF D
    <3>3. DOMAIN rows = D /\ \A x \in DOMAIN rows : rows[x] = IF x \in D THEN 1 ELSE 0
      BY <3>1
    <3> HIDE DEF rows
    <3>4. 1 \in Int
      OBVIOUS
    <3>5. SumOf(rows) = 1 * Cardinality(D) /\ Cardinality(D) \in Nat
      BY <3>2, <3>3, <3>4, RowsAdd
    <3> QED
      BY <3>5
\* What each row promises of another.
  <2>9. /\ \A k \in C : t.circle_members[<<circle, k[2]>>].collateral > 0
        /\ \A k \in P : ~t.payouts[k].is_exceptional =>
             \A m \in M : <<circle, m[2], k[2]>> \in DOMAIN t.contributions
    BY <2>5, ContractFacts
  <2>10. /\ \A k \in C : t.circle_members[<<k[1], k[2]>>].collateral > 0
         /\ \A k \in P : ~t.payouts[k].is_exceptional =>
              \A m \in M : <<k[1], m[2], k[2]>> \in C
    <3>1. (\A k \in C : k[1] = circle) /\ (\A k \in P : k[1] = circle)
      OBVIOUS
    <3>2. ASSUME NEW k \in P, ~t.payouts[k].is_exceptional, NEW m \in M
          PROVE  <<circle, m[2], k[2]>> \in C
      <4>1. <<circle, m[2], k[2]>> \in DOMAIN t.contributions
        BY <2>9, <3>2
      <4> QED
        BY <4>1
    <3> HIDE DEF C, P, M
    <3> QED
      BY <2>9, <3>1, <3>2
  <2> HIDE DEF file, M, C, D, P, rows
  <2>11. /\ file.member = M /\ file.contribution = C /\ file.default = D /\ file.payout = P
    BY <2>6
  <2>12. Cardinality(M) + Cardinality(C) + Cardinality(D) + Cardinality(P)
           = RowsOf(circle, u)
    BY <2>7, <2>8
  <2>13. LET members == Tables[call.at["members"]].circle_members
             payouts == Tables[call.at["payouts"]].payouts
         IN  /\ Cardinality(file.member) + Cardinality(file.contribution)
                  + Cardinality(file.default) + Cardinality(file.payout)
                  = RowsOf(call.circle, call.at["count"])
             /\ \A k \in file.contribution : members[<<k[1], k[2]>>].collateral > 0
             /\ \A k \in file.payout : ~payouts[k].is_exceptional =>
                  \A m \in file.member : <<k[1], m[2], k[2]>> \in file.contribution
    BY <2>4, <2>10, <2>11, <2>12
  <2> QED
    BY <2>13 DEF ExportIsSnapshot, file
<1>2. ServiceInv => ExportIsSnapshot
  BY <1>1
<1> QED
  BY <1>2, InvAlways, PTL
=============================================================================
