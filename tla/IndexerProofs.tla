---------------------------- MODULE IndexerProofs ----------------------------
(***************************************************************************)
(* Theorems about the indexer's ingestion, for every chain of events that   *)
(* ChainOrder allows, every batch size, build and replay command: what the  *)
(* cursor has passed is accounted for, and what is in the tables was put    *)
(* there by the ingested events, once each and in order.                    *)
(***************************************************************************)
EXTENDS Indexer, SumsProofs

-----------------------------------------------------------------------------
(* The chain.                                                              *)

\* Ledgers and places are numbered from 1.
LEMMA ChainFacts ==
  /\ Len(Chain) \in Nat /\ DOMAIN Chain = 1..Len(Chain)
  /\ \A l \in 1..Len(Chain) :
       Len(Chain[l]) \in Nat /\ DOMAIN Chain[l] = 1..Len(Chain[l])
BY ChainOrder

\* An event is where its identity says.
LEMMA EventFacts ==
  ASSUME NEW id \in EventId
  PROVE  /\ id = <<id[1], id[2]>>
         /\ id[1] \in 1..Len(Chain) /\ id[2] \in 1..Len(Chain[id[1]])
BY ChainFacts DEF EventId

\* And every place in a ledger is an event.
LEMMA PlaceIsEvent ==
  ASSUME NEW l \in 1..Len(Chain), NEW i \in 1..Len(Chain[l])
  PROVE  <<l, i>> \in EventId
BY ChainFacts DEF EventId

\* A circle is announced before it emits anything, and only once.
LEMMA AnnouncedFirst ==
  ASSUME NEW c \in Creation, NEW id \in EventId,
         event(id).contract = event(c).circle
  PROVE  c[1] <= id[1]
<1>1. event(c).circle \notin {"factory", "reputation"}
  BY ChainOrder
<1>2. PICK d \in Creation : event(d).circle = event(id).contract /\ d[1] <= id[1]
  BY <1>1, ChainOrder
<1>3. d = c
  BY <1>2, ChainOrder
<1> QED
  BY <1>2, <1>3

-----------------------------------------------------------------------------
(* The handlers.                                                           *)

\* A handler keeps the tables and every circle it finds; that of circle_created
\* leaves a row for the circle.
LEMMA HandleFacts ==
  ASSUME NEW t, DOMAIN t = DERIVED_TABLES, NEW e, e.name \in Projected
  PROVE  /\ DOMAIN Handle(t, e) = DERIVED_TABLES
         /\ DOMAIN t.circles \subseteq DOMAIN Handle(t, e).circles
         /\ e.name = "circle_created" => e.circle \in DOMAIN Handle(t, e).circles
<1>0. "circles" \in DOMAIN t
  BY DEF DERIVED_TABLES, EmptyTables
<1>1. \A f, k, row : DOMAIN Upsert(f, k, row) = DOMAIN f \cup {k}
  BY DEF Upsert
<1>2. CASE e.name = "circle_created"
  <2>1. Handle(t, e) = handleFactoryCircleCreated(t, e)
    BY <1>2 DEF Handle
  <2>2. CASE e.circle \in DOMAIN t.circles
    BY <1>0, <1>2, <2>1, <2>2 DEF handleFactoryCircleCreated
  <2>3. CASE e.circle \notin DOMAIN t.circles
    <3>1. PICK row : Handle(t, e) =
                       [t EXCEPT !.circles = Upsert(@, e.circle, row)]
      BY <2>1, <2>3 DEF handleFactoryCircleCreated
    <3>2. Handle(t, e).circles = Upsert(t.circles, e.circle, row)
      BY <1>0, <3>1
    <3>3. DOMAIN Handle(t, e) = DOMAIN t
      BY <3>1
    <3>4. DOMAIN Handle(t, e).circles = DOMAIN t.circles \cup {e.circle}
      BY <3>2 DEF Upsert
    <3> QED
      BY <3>3, <3>4
  <2> QED
    BY <2>2, <2>3
<1>3. CASE e.name = "initialized"
  <2>1. Handle(t, e) = handleCircleInitialized(t, e)
    BY <1>3 DEF Handle
  <2>2. PICK row, slots : Handle(t, e) =
                            [t EXCEPT !.circles = Upsert(@, e.circle, row),
                                      !.circle_members = slots]
    BY <2>1 DEF handleCircleInitialized
  <2>3. Handle(t, e).circles = Upsert(t.circles, e.circle, row)
    BY <1>0, <2>2
  <2>4. DOMAIN Handle(t, e) = DOMAIN t
    BY <2>2
  <2>5. DOMAIN Handle(t, e).circles = DOMAIN t.circles \cup {e.circle}
    BY <2>3 DEF Upsert
  <2> QED
    BY <1>3, <2>4, <2>5
<1>4. CASE e.name = "joined"
  <2>1. Handle(t, e) = handleCircleJoined(t, e)
    BY <1>4 DEF Handle
  <2> QED
    BY <1>0, <1>4, <2>1 DEF handleCircleJoined
<1>5. CASE e.name \in {"active", "completed", "paused", "resumed",
                       "round_started"}
  <2>1. Handle(t, e) \in {handleCircleActive(t, e), handleCircleCompleted(t, e),
          handleCirclePaused(t, e), handleCircleResumed(t, e),
          handleCircleRoundStarted(t, e)}
    BY <1>5 DEF Handle
  <2> QED
    BY <1>0, <1>5, <2>1
       DEF handleCircleActive, handleCircleCompleted, handleCirclePaused,
           handleCircleResumed, handleCircleRoundStarted, SetStatus, SetRound,
           UpdateCircle
<1>6. CASE e.name = "contributed"
  <2>1. Handle(t, e) = handleCircleContributed(t, e)
    BY <1>6 DEF Handle
  <2> QED
    BY <1>0, <1>6, <2>1 DEF handleCircleContributed
<1>7. CASE e.name = "payout"
  <2>1. Handle(t, e) = handleCirclePayout(t, e)
    BY <1>7 DEF Handle
  <2> QED
    BY <1>0, <1>7, <2>1 DEF handleCirclePayout, SetRound, UpdateCircle
<1>8. CASE e.name = "default"
  <2>1. Handle(t, e) = handleCircleDefault(t, e)
    BY <1>8 DEF Handle
  <2> QED
    BY <1>0, <1>8, <2>1 DEF handleCircleDefault
<1>9. CASE e.name = "exceptional_settlement"
  <2>1. Handle(t, e) = handleCircleExceptionalSettlement(t, e)
    BY <1>9 DEF Handle
  <2> QED
    BY <1>0, <1>9, <2>1 DEF handleCircleExceptionalSettlement
<1>10. CASE e.name \in {"cancelled", "closed"}
  <2>1. Handle(t, e) \in {handleCircleCancelled(t, e), handleCircleClosed(t, e)}
    BY <1>10 DEF Handle
  <2> QED
    BY <1>0, <1>10, <2>1
       DEF handleCircleCancelled, handleCircleClosed, SetStatus, Audited,
           UpdateCircle
<1>11. CASE e.name \in {"score_updated", "increment"}
  <2>1. Handle(t, e) \in {handleReputationScoreUpdated(t, e),
                          handleReputationIncrement(t, e)}
    BY <1>11 DEF Handle
  <2> QED
    BY <1>0, <1>11, <2>1
       DEF handleReputationScoreUpdated, handleReputationIncrement
<1> QED
  BY <1>2, <1>3, <1>4, <1>5, <1>6, <1>7, <1>8, <1>9, <1>10, <1>11 DEF Projected

-----------------------------------------------------------------------------
(* The ledger transaction.                                                 *)

\* A is what the transaction has made of base after each place up to k.
IsRun(A, base, l, ids, k) ==
  /\ A = [i \in 0..k |-> A[i]] /\ A[0] = base
  /\ \A i \in 1..k : A[i] = IF <<l, i>> \notin ids THEN A[i - 1]
                            ELSE ingestEventInTx(A[i - 1], <<l, i>>)

\* There is such a run.
LEMMA RunExists ==
  ASSUME NEW base, NEW l, NEW ids
  PROVE  \A k \in Nat : \E A : IsRun(A, base, l, ids, k)
<1> DEFINE S == {k \in Nat : \E A : IsRun(A, base, l, ids, k)}
<1>1. 0 \in S
  <2>1. IsRun([i \in 0..0 |-> base], base, l, ids, 0)
    BY DEF IsRun
  <2> QED
    BY <2>1
<1>2. ASSUME NEW k \in Nat, k \in S PROVE k + 1 \in S
  <2>1. PICK g : IsRun(g, base, l, ids, k)
    BY <1>2
  <2> DEFINE next == IF <<l, k + 1>> \notin ids THEN g[k]
                     ELSE ingestEventInTx(g[k], <<l, k + 1>>)
             h == [i \in 0..(k + 1) |-> IF i = k + 1 THEN next ELSE g[i]]
  <2>2. h = [i \in 0..(k + 1) |-> h[i]]
    OBVIOUS
  <2>3. h[k + 1] = next /\ \A i \in 0..k : h[i] = g[i]
    OBVIOUS
  <2>4. h[0] = base
    BY <2>1, <2>3 DEF IsRun
  <2>5. ASSUME NEW i \in 1..(k + 1)
        PROVE  h[i] = IF <<l, i>> \notin ids THEN h[i - 1]
                      ELSE ingestEventInTx(h[i - 1], <<l, i>>)
    <3> HIDE DEF h
    <3>1. CASE i = k + 1
      <4>1. i - 1 = k /\ h[i - 1] = g[k]
        BY <3>1, <2>3
      <4> QED
        BY <3>1, <4>1, <2>3
    <3>2. CASE i # k + 1
      <4>1. i \in 1..k /\ i \in 0..k /\ i - 1 \in 0..k
        BY <3>2
      <4>2. h[i] = g[i] /\ h[i - 1] = g[i - 1]
        BY <4>1, <2>3
      <4> QED
        BY <4>1, <4>2, <2>1 DEF IsRun
    <3> QED
      BY <3>1, <3>2
  <2> HIDE DEF h
  <2>6. IsRun(h, base, l, ids, k + 1)
    BY <2>2, <2>4, <2>5 DEF IsRun
  <2> QED
    BY <2>6
<1> HIDE DEF S
<1>3. \A k \in Nat : k \in S
  BY <1>1, <1>2, InductiveSet
<1> QED
  BY <1>3 DEF S

\* InLedger is that function.
LEMMA RunIs ==
  ASSUME NEW base, NEW l \in 1..Len(Chain), NEW ids
  PROVE  IsRun(InLedger(ingestEventInTx, base, l, ids), base, l, ids,
               Len(Chain[l]))
<1> DEFINE n == Len(Chain[l])
           Step(p, i) ==
             IF i = 0 THEN base
             ELSE IF <<l, i>> \notin ids THEN p[i - 1]
             ELSE CHOOSE v \in {ingestEventInTx(before, <<l, i>>) :
                                  before \in {p[i - 1]}} : TRUE
           Body(p) == [i \in 0..n |-> Step(p, i)]
           A == InLedger(ingestEventInTx, base, l, ids)
<1>1. PICK g : IsRun(g, base, l, ids, n)
  BY RunExists, ChainFacts
<1>2. \A p : \A i \in 1..n :
        Step(p, i) = IF <<l, i>> \notin ids THEN p[i - 1]
                     ELSE ingestEventInTx(p[i - 1], <<l, i>>)
  <2>1. TAKE p
  <2>2. TAKE i \in 1..n
  <2> QED
    BY ChainFacts
<1>3. \A i \in 0..n : g[i] = Step(g, i)
  <2> HIDE DEF n
  <2>1. n \in Nat
    BY ChainFacts DEF n
  <2>2. Step(g, 0) = base
    OBVIOUS
  <2>3. g[0] = base /\ \A i \in 1..n : g[i] = IF <<l, i>> \notin ids THEN g[i - 1]
                             ELSE ingestEventInTx(g[i - 1], <<l, i>>)
    BY <1>1 DEF IsRun
  <2> HIDE DEF Step
  <2>4. \A i \in 1..n : g[i] = Step(g, i)
    BY <1>2, <2>3
  <2>5. \A i \in 0..n : i = 0 \/ i \in 1..n
    BY <2>1
  <2> QED
    BY <2>2, <2>3, <2>4, <2>5
<1>4. g = Body(g)
  BY <1>1, <1>3 DEF IsRun
<1>5. A = CHOOSE p : p = Body(p)
  BY DEF InLedger
<1>6. A = Body(A)
  <2> HIDE DEF Body, A
  <2> QED
    BY <1>4, <1>5
<1>7. \A i \in 0..n : A[i] = Step(A, i)
  <2> HIDE DEF A, Step
  <2> QED
    BY <1>6
<1>8. A = [i \in 0..n |-> A[i]]
  <2> HIDE DEF A, Step
  <2> QED
    BY <1>6, <1>7
<1>9. A[0] = base
  <2>1. Step(A, 0) = base
    OBVIOUS
  <2>2. 0 \in 0..n
    BY ChainFacts
  <2> HIDE DEF A, Step
  <2> QED
    BY <1>7, <2>1, <2>2
<1>10. \A i \in 1..n : A[i] = IF <<l, i>> \notin ids THEN A[i - 1]
                             ELSE ingestEventInTx(A[i - 1], <<l, i>>)
  <2>1. \A i \in 1..n : i \in 0..n
    BY ChainFacts
  <2> HIDE DEF A, Step, n
  <2> QED
    BY <1>2, <1>7, <2>1
<1> QED
  <2> HIDE DEF A, Step, n
  <2>1. IsRun(A, base, l, ids, n)
    BY <1>8, <1>9, <1>10 DEF IsRun
  <2> QED
    BY <2>1 DEF A, n

\* What the transaction has made of base, a state that has neither failed nor
\* succeeded with anything, after the places up to k: every event of the ledger
\* that it was given is taken in, or has failed.
RunInv(s, base, l, ids, k) ==
  /\ s = [tables |-> s.tables, ingested |-> s.ingested,
          failed |-> s.failed, succeeded |-> s.succeeded]
  /\ DOMAIN s.tables = DERIVED_TABLES
  /\ DOMAIN base.tables.circles \subseteq DOMAIN s.tables.circles
  /\ s.ingested = base.ingested \cup s.succeeded
  /\ s.succeeded \cap base.ingested = {}
  /\ s.failed \cap s.ingested = {}
  /\ \A id \in s.failed \cup s.succeeded :
       id \in ids /\ id = <<l, id[2]>> /\ id[2] \in 1..k
  /\ \A i \in 1..k : <<l, i>> \in ids => <<l, i>> \in s.ingested \cup s.failed
  /\ \A id \in s.succeeded : event(id).name \in supported
  /\ \A id \in s.succeeded \cap Creation :
       event(id).circle \in DOMAIN s.tables.circles
  /\ \A id \in s.failed \cap Creation : "circle_created" \notin supported

\* Nothing has been processed.
Untouched(base) ==
  /\ base = [tables |-> base.tables, ingested |-> base.ingested,
             failed |-> {}, succeeded |-> {}]
  /\ DOMAIN base.tables = DERIVED_TABLES

\* One event more.
LEMMA IngestKeepsRunInv ==
  ASSUME NEW base, NEW l \in 1..Len(Chain), NEW ids, NEW k \in Nat,
         k + 1 \in 1..Len(Chain[l]), supported \subseteq Projected,
         NEW s, RunInv(s, base, l, ids, k), <<l, k + 1>> \in ids
  PROVE  RunInv(ingestEventInTx(s, <<l, k + 1>>), base, l, ids, k + 1)
<1> DEFINE id == <<l, k + 1>>
           n == ingestEventInTx(s, id)
<1>1. /\ id \in EventId /\ id[1] = l /\ id[2] = k + 1
      /\ \A i \in 1..(k + 1) : i \in 1..k \/ i = k + 1
      /\ \A i \in 1..k : i \in 1..(k + 1) /\ i # k + 1
      /\ k + 1 \in 1..(k + 1)
  BY PlaceIsEvent
<1>2. id \notin s.failed \cup s.succeeded
  BY <1>1 DEF RunInv
<1>3. CASE id \in s.ingested
  <2>1. n = s
    BY <1>3 DEF ingestEventInTx
  <2> QED
    BY <1>1, <1>3, <2>1 DEF RunInv
<1>4. CASE id \notin s.ingested
            /\ (event(id).name \notin supported \/ Rejects(s.tables, event(id)))
  <2>1. n = [s EXCEPT !.failed = @ \cup {id}]
    BY <1>4 DEF ingestEventInTx
  <2>2. n = [tables |-> s.tables, ingested |-> s.ingested,
             failed |-> s.failed \cup {id}, succeeded |-> s.succeeded]
    BY <2>1 DEF RunInv
  <2>3. id \in Creation => "circle_created" \notin supported
    BY <1>4 DEF Creation, Rejects, NeedsCircleRow
  <2> HIDE DEF n, id
  <2>4. /\ n.tables = s.tables /\ n.ingested = s.ingested
        /\ n.failed = s.failed \cup {id} /\ n.succeeded = s.succeeded
        /\ n = [tables |-> n.tables, ingested |-> n.ingested,
                failed |-> n.failed, succeeded |-> n.succeeded]
    BY <2>2
  <2>5. /\ \A x \in n.failed \cup n.succeeded :
             x \in ids /\ x = <<l, x[2]>> /\ x[2] \in 1..(k + 1)
        /\ \A i \in 1..(k + 1) : <<l, i>> \in ids =>
             <<l, i>> \in n.ingested \cup n.failed
    BY <1>1, <2>4 DEF RunInv, id
  <2>6. /\ n.failed \cap n.ingested = {}
        /\ \A x \in n.failed \cap Creation : "circle_created" \notin supported
    BY <1>4, <2>3, <2>4 DEF RunInv
  <2>7. RunInv(n, base, l, ids, k + 1)
    BY <2>4, <2>5, <2>6 DEF RunInv
  <2> QED
    BY <2>7 DEF n, id
<1>5. CASE /\ id \notin s.ingested /\ event(id).name \in supported
           /\ ~Rejects(s.tables, event(id))
  <2> DEFINE t == Handle(s.tables, event(id))
  <2>1. n = [s EXCEPT !.tables = t, !.ingested = @ \cup {id},
                      !.succeeded = @ \cup {id}]
    BY <1>5 DEF ingestEventInTx
  <2>2. n = [tables |-> t, ingested |-> s.ingested \cup {id},
             failed |-> s.failed, succeeded |-> s.succeeded \cup {id}]
    <3> HIDE DEF t
    <3> QED
      BY <2>1 DEF RunInv
  <2>3. /\ DOMAIN t = DERIVED_TABLES
        /\ DOMAIN s.tables.circles \subseteq DOMAIN t.circles
        /\ id \in Creation => event(id).circle \in DOMAIN t.circles
    BY <1>5, HandleFacts DEF RunInv, Creation
  <2> HIDE DEF n, t, id
  <2>4. /\ n.ingested = base.ingested \cup n.succeeded
        /\ n.succeeded \cap base.ingested = {}
        /\ n.failed \cap n.ingested = {}
    BY <1>2, <1>5, <2>2 DEF RunInv
  <2>5. /\ \A x \in n.failed \cup n.succeeded :
             x \in ids /\ x = <<l, x[2]>> /\ x[2] \in 1..(k + 1)
        /\ \A i \in 1..(k + 1) : <<l, i>> \in ids =>
             <<l, i>> \in n.ingested \cup n.failed
    BY <1>1, <2>2 DEF RunInv, id
  <2>6. /\ \A x \in n.succeeded : event(x).name \in supported
        /\ \A x \in n.failed \cap Creation : "circle_created" \notin supported
    BY <1>5, <2>2 DEF RunInv
  <2>7. \A x \in n.succeeded \cap Creation :
          event(x).circle \in DOMAIN n.tables.circles
    BY <2>2, <2>3 DEF RunInv
  <2>8. /\ n.tables = t
        /\ n = [tables |-> n.tables, ingested |-> n.ingested,
                failed |-> n.failed, succeeded |-> n.succeeded]
    BY <2>2
  <2>9. /\ DOMAIN n.tables = DERIVED_TABLES
        /\ DOMAIN base.tables.circles \subseteq DOMAIN n.tables.circles
    BY <2>3, <2>8 DEF RunInv
  <2>10. RunInv(n, base, l, ids, k + 1)
    BY <2>4, <2>5, <2>6, <2>7, <2>8, <2>9 DEF RunInv
  <2> QED
    BY <2>10 DEF n, id
<1> QED
  BY <1>3, <1>4, <1>5

\* All the events of a ledger up to a place.
LEMMA LedgerRunTo ==
  ASSUME NEW base, Untouched(base), NEW l \in 1..Len(Chain), NEW ids,
         supported \subseteq Projected
  PROVE  \A k \in 0..Len(Chain[l]) :
           RunInv(InLedger(ingestEventInTx, base, l, ids)[k], base, l, ids, k)
<1> DEFINE A == InLedger(ingestEventInTx, base, l, ids)
           n == Len(Chain[l])
           S == {k \in Nat : k <= n => RunInv(A[k], base, l, ids, k)}
<1>1. IsRun(A, base, l, ids, n)
  BY RunIs
<1>2. n \in Nat
  BY ChainFacts
<1> HIDE DEF A
<1>3. 0 \in S
  <2>1. RunInv(base, base, l, ids, 0)
    BY DEF RunInv, Untouched
  <2> QED
    BY <1>1, <2>1 DEF IsRun
<1>4. ASSUME NEW k \in Nat, k \in S PROVE k + 1 \in S
  <2>1. SUFFICES ASSUME k + 1 <= n PROVE RunInv(A[k + 1], base, l, ids, k + 1)
    OBVIOUS
  <2>2. k + 1 \in 1..n /\ (k + 1) - 1 = k /\ RunInv(A[k], base, l, ids, k)
    BY <1>2, <1>4, <2>1
  <2>3. CASE <<l, k + 1>> \in ids
    <3>1. A[k + 1] = ingestEventInTx(A[k], <<l, k + 1>>)
      BY <1>1, <2>2, <2>3 DEF IsRun
    <3> QED
      BY <2>2, <2>3, <3>1, IngestKeepsRunInv
  <2>4. CASE <<l, k + 1>> \notin ids
    <3>1. A[k + 1] = A[k]
      BY <1>1, <2>2, <2>4 DEF IsRun
    <3>2. \A i \in 1..(k + 1) : i \in 1..k \/ i = k + 1
      OBVIOUS
    <3>3. \A i \in 1..k : i \in 1..(k + 1)
      OBVIOUS
    <3> QED
      BY <2>2, <2>4, <3>1, <3>2, <3>3 DEF RunInv
  <2> QED
    BY <2>3, <2>4
<1> HIDE DEF S
<1>5. \A k \in Nat : k \in S
  BY <1>3, <1>4, InductiveSet
<1> QED
  BY <1>2, <1>5 DEF S, A

\* The whole ledger.
LEMMA LedgerRun ==
  ASSUME NEW base, Untouched(base), NEW l \in 1..Len(Chain), NEW ids,
         supported \subseteq Projected
  PROVE  RunInv(InLedger(ingestEventInTx, base, l, ids)[Len(Chain[l])],
                base, l, ids, Len(Chain[l]))
<1>1. Len(Chain[l]) \in 0..Len(Chain[l])
  BY ChainFacts
<1> QED
  BY <1>1, LedgerRunTo

-----------------------------------------------------------------------------
(* The invariant.                                                          *)

\* What became of an event that the cursor has passed.
Accounted(id) == id \in ingested \/ Skipped(id) \/ Undiscovered(id)

\* The events that a poller started at START_LEDGER has to take in.
ToIngest == {id \in EventId : /\ START_LEDGER < id[1]
                              /\ event(id).name \notin Ignored}

Covered(l) == \A id \in ToIngest : id[1] <= l => Accounted(id)

\* A circle whose announcement is ingested is known.
AnnouncedIsKnown ==
  ~emptied => \A c \in Creation \cap ingested :
                event(c).circle \in DOMAIN tables.circles

\* A cycle works on from the durable cursor.
FromCursor ==
  pc \in {"head", "fetch"} =>
    lastLedger = IF cursor = 0 THEN START_LEDGER ELSE cursor

\* The event waits for the announcement of its circle, in the same batch, to
\* fail: the build does not understand it.
Awaits(id) ==
  /\ "circle_created" \notin supported
  /\ \E c \in (Creation \cap items) \ ingested :
       event(c).circle = event(id).contract

\* With an announcement, a batch holds everything that its circle emits up to
\* the end of the batch.
FollowsAnnouncements ==
  "circle_created" \in supported =>
    \A c \in Creation \cap items, id \in ToIngest :
      event(id).contract = event(c).circle /\ id[1] <= toLedger => id \in items

\* Up to the end of the batch nothing is missing that is not accounted for.
LeavesNothingOut ==
  ~jumped /\ ~emptied =>
    \A id \in ToIngest :
      id[1] <= toLedger => id \in items \/ Accounted(id) \/ Awaits(id)

\* A batch holds all that it must.
BatchComplete ==
  pc = "process" =>
    /\ \A id \in items : id[1] <= toLedger /\ event(id).name \notin Ignored
    /\ FollowsAnnouncements
    /\ LeavesNothingOut

\* NothingLost says this of the cursor, which a commit moves: the poller's memory
\* and what the tables know of the circles have to be right for that.
IngestInv ==
  /\ TypeOK /\ AnnouncedIsKnown /\ FromCursor /\ BatchComplete
  /\ ~jumped /\ ~emptied => Covered(cursor)

-----------------------------------------------------------------------------
(* What the actions do.                                                    *)

\* The least ledger of a set of events.
LEMMA FirstLedger ==
  ASSUME NEW ids, ids \subseteq EventId, ids # {}
  PROVE  /\ Min({id[1] : id \in ids}) \in 1..Len(Chain)
         /\ \E id \in ids : id[1] = Min({x[1] : x \in ids})
         /\ \A id \in ids : Min({x[1] : x \in ids}) <= id[1]
<1> DEFINE L == {id[1] : id \in ids}
<1>1. L \subseteq 1..Len(Chain)
  BY EventFacts
<1>2. L \subseteq Nat /\ L # {}
  BY <1>1, ChainFacts
<1>3. \E i \in L : \A j \in L : i <= j
  <2> HIDE DEF L
  <2> QED
    BY <1>2, LeastNatural
<1>4. Min(L) \in L /\ \A j \in L : Min(L) <= j
  <2> HIDE DEF L
  <2> QED
    BY <1>3 DEF Min
<1> QED
  BY <1>1, <1>4

\* A ledger's events are taken in or fail; the others are left alone; evidence
\* is kept of the failures.
Committed(ids, failed, succeeded) ==
  /\ DOMAIN tables' = DERIVED_TABLES
  /\ DOMAIN tables.circles \subseteq DOMAIN tables'.circles
  /\ ingested' = ingested \cup succeeded
  /\ succeeded \cap ingested = {} /\ failed \cap ingested' = {}
  /\ failed \cup succeeded \subseteq ids
  /\ ids \subseteq ingested' \cup failed
  /\ \A id \in succeeded : event(id).name \in supported
  /\ \A id \in succeeded \cap Creation :
       event(id).circle \in DOMAIN tables'.circles
  /\ \A id \in failed \cap Creation : "circle_created" \notin supported
  /\ recordLedgerFailureEvidence(failed, succeeded)

\* A build handles no event the handlers do not know.
LEMMA BuildKnows ==
  ASSUME TypeOK PROVE supported \subseteq Projected
BY ChainAssumption DEF TypeOK

\* A ledger transaction does that.
LEMMA LedgerCommit ==
  ASSUME TypeOK, NEW l \in 1..Len(Chain),
         NEW ids, ids \subseteq {id \in EventId : id[1] = l},
         processLedger(l, ids)
  PROVE  /\ \E failed, succeeded : Committed(ids, failed, succeeded)
         /\ cursor' = l /\ highWater' \in Nat /\ reordered' \in BOOLEAN
<1> DEFINE base == [tables |-> tables, ingested |-> ingested,
                    failed |-> {}, succeeded |-> {}]
           after == InLedger(ingestEventInTx, base, l, ids)[Len(Chain[l])]
<1>1. /\ tables' = after.tables /\ ingested' = after.ingested
      /\ recordLedgerFailureEvidence(after.failed, after.succeeded)
      /\ cursor' = l /\ highWater' = Max({highWater, l})
      /\ reordered' = (reordered \/ \E a \in after.succeeded, b \in ingested :
                                      Before(a, b))
  BY DEF processLedger
<1>2. Untouched(base)
  BY DEF Untouched, TypeOK
<1>3. base.tables = tables /\ base.ingested = ingested
  OBVIOUS
<1> HIDE DEF base
<1>4. RunInv(after, base, l, ids, Len(Chain[l]))
  BY <1>2, BuildKnows, LedgerRun
<1> HIDE DEF after
<1>5. \A id \in ids : id = <<l, id[2]>> /\ id[2] \in 1..Len(Chain[l])
  BY EventFacts
<1>6. ids \subseteq after.ingested \cup after.failed
  BY <1>4, <1>5 DEF RunInv
<1>7. Committed(ids, after.failed, after.succeeded)
  BY <1>1, <1>3, <1>4, <1>6 DEF RunInv, Committed
<1>8. highWater' \in Nat
  <2>1. highWater \in Nat /\ l \in Nat
    BY ChainFacts DEF TypeOK
  <2>2. highWater <= l \/ l <= highWater
    BY <2>1
  <2>3. \E x \in {highWater, l} : \A y \in {highWater, l} : y <= x
    BY <2>1, <2>2
  <2>4. Max({highWater, l}) \in {highWater, l}
    BY <2>3 DEF Max
  <2> QED
    BY <1>1, <2>1, <2>4
<1> QED
  BY <1>1, <1>7, <1>8 DEF TypeOK

\* A failure leaves evidence, which only success takes away.
LEMMA Evidence ==
  ASSUME NEW ids, NEW failed, NEW succeeded, Committed(ids, failed, succeeded)
  PROVE  /\ \A id \in failed : Skipped(id)'
         /\ \A id : Skipped(id) /\ id \notin succeeded => Skipped(id)'
<1>1. failed \cap succeeded = {}
  BY DEF Committed
<1> QED
  BY <1>1 DEF Committed, recordLedgerFailureEvidence, Skipped

\* What a replay or a retry does; only the first two delete anything.
ReplayFull(from) ==
  /\ tables' = EmptyTables
  /\ ingested' = ingested \ FromLedger(ingested, from)
  /\ cursor' = cursorAfterReplay(from)
  /\ partial' = FALSE /\ reordered' = FALSE /\ highWater' = cursor'
  /\ emptied' = (ingested' # {} \/ (emptied /\ cursor' # 0))

ReplayPartial(from) ==
  /\ from # 0
  /\ tables' = wipeFromLedger(tables, from)
  /\ ingested' = ingested \ FromLedger(ingested, from)
  /\ cursor' = cursorAfterReplay(from)
  /\ partial' = TRUE /\ UNCHANGED <<reordered, highWater, emptied>>

RetryFailed(from) ==
  /\ cursor' = IF from > cursor THEN cursor ELSE cursorAfterReplay(from)
  /\ UNCHANGED <<tables, ingested, partial, reordered, highWater, emptied>>

\* A command as the operator types it.
IsCommand(args) ==
  /\ args = [from |-> args.from, partial |-> args.partial,
             retryFailed |-> args.retryFailed, dryRun |-> args.dryRun,
             confirm |-> args.confirm]
  /\ args.from \in {-1} \cup Nat

\* Its plan begins at a ledger, and is of one of three kinds.
LEMMA PlanIs ==
  ASSUME TypeOK, NEW args, IsCommand(args)
  PROVE  LET plan == buildPreflight(replayDb, parsed(args))
         IN  /\ plan.fromLedger \in Nat
             /\ plan.mode \in {"full", "partial", "retry-failed"}
             /\ plan.mode = "partial" => plan.fromLedger # 0
             /\ plan.mode = "retry-failed" => args.retryFailed
<1> DEFINE plan == buildPreflight(replayDb, parsed(args))
           from == plan.fromLedger
<1>3. failures = replayDb.failures
  BY DEF replayDb
<1>4. parsed(args).from \in Nat /\ parsed(args).retryFailed = args.retryFailed
  <2>2. /\ parsed(args).from = Max({args.from, 0})
        /\ parsed(args).retryFailed = args.retryFailed
    BY DEF parsed, IsCommand
  <2>3. args.from \in Int /\ 0 \in Int
    BY DEF IsCommand
  <2>4. Max({args.from, 0}) \in Nat
    <3> DEFINE m == Max({args.from, 0})
    <3>1. args.from <= 0 \/ 0 <= args.from
      BY <2>3
    <3>2. \E x \in {args.from, 0} : \A y \in {args.from, 0} : y <= x
      BY <2>3, <3>1
    <3>3. m \in {args.from, 0} /\ 0 <= m
      BY <3>2 DEF Max
    <3> QED
      BY <2>3, <3>3
  <2> QED
    BY <2>2, <2>4
<1>5. from \in Nat
  <2>1. from = startLedger(replayDb, parsed(args))
    BY DEF buildPreflight
  <2>2. CASE from = parsed(args).from
    BY <1>4, <2>2
  <2>3. CASE /\ from = Min({id[1] : id \in replayDb.failures})
             /\ replayDb.failures # {}
    <3>1. failures \subseteq EventId /\ failures # {}
      BY <1>3, <2>3 DEF TypeOK
    <3>2. Min({id[1] : id \in failures}) \in 1..Len(Chain)
      BY <3>1, FirstLedger
    <3>3. Min({id[1] : id \in failures}) \in Nat
      BY <3>2, ChainFacts
    <3> HIDE DEF from, plan
    <3> QED
      BY <1>3, <2>3, <3>3
  <2> QED
    BY <2>1, <2>2, <2>3 DEF startLedger
<1>6. plan.mode = IF args.retryFailed THEN "retry-failed"
                  ELSE resolveReplayMode(from, ~parsed(args).partial)
  BY <1>4 DEF buildPreflight
<1>7. plan.mode \in {"full", "partial", "retry-failed"}
      /\ (plan.mode = "partial" => from # 0)
      /\ (plan.mode = "retry-failed" => args.retryFailed)
  BY <1>6 DEF resolveReplayMode
<1> QED
  BY <1>5, <1>7

\* What a confirmed command makes of the database.
LEMMA ReplayedIs ==
  ASSUME NEW args, replayOutcome(replayDb, args) = "prepared"
  PROVE  LET plan == buildPreflight(replayDb, parsed(args))
             from == plan.fromLedger
             after == replayed(replayDb, args)
         IN  /\ plan.mode = "retry-failed" =>
                  /\ after.tables = tables /\ after.ingested = ingested
                  /\ after.cursor = IF from > cursor THEN cursor
                                                     ELSE cursorAfterReplay(from)
             /\ plan.mode # "retry-failed" =>
                  /\ after.tables = IF plan.mode = "full" THEN EmptyTables
                                                   ELSE wipeFromLedger(tables, from)
                  /\ after.ingested = ingested \ FromLedger(ingested, from)
                  /\ after.cursor = cursorAfterReplay(from)
<1> DEFINE plan == buildPreflight(replayDb, parsed(args))
           from == plan.fromLedger
           after == replayed(replayDb, args)
<1>1. after = IF plan.mode = "retry-failed"
                THEN prepareFailedEventRetry(replayDb, from)
                ELSE prepareReplay(replayDb, plan.mode, from)
  BY DEF replayed
<1> HIDE DEF plan, from, after
<1>2. CASE plan.mode = "retry-failed"
  <2>1. after = [replayDb EXCEPT !.cursor =
                   IF from > @ THEN @ ELSE cursorAfterReplay(from)]
    BY <1>1, <1>2 DEF prepareFailedEventRetry
  <2>2. /\ after.tables = tables /\ after.ingested = ingested
        /\ after.cursor = IF from > cursor THEN cursor
                                           ELSE cursorAfterReplay(from)
    BY <2>1 DEF replayDb
  <2> QED
    BY <1>2, <2>2 DEF plan, from, after
<1>3. CASE plan.mode # "retry-failed"
  <2>1. after = prepareReplay(replayDb, plan.mode, from)
    BY <1>1, <1>3
  <2>2. /\ after.tables = IF plan.mode = "full" THEN EmptyTables
                                               ELSE wipeFromLedger(tables, from)
        /\ after.ingested = ingested \ FromLedger(ingested, from)
        /\ after.cursor = cursorAfterReplay(from)
    BY <2>1 DEF prepareReplay, replayDb
  <2> QED
    BY <1>3, <2>2 DEF plan, from, after
<1> QED
  BY <1>2, <1>3

\* A replay is one of the three.
LEMMA ReplayIs ==
  ASSUME TypeOK, NEW args \in Commands, Replay(args)
  PROVE  \E from \in Nat : ReplayFull(from) \/ ReplayPartial(from)
                                           \/ RetryFailed(from)
<1> DEFINE plan == buildPreflight(replayDb, parsed(args))
           from == plan.fromLedger
           after == replayed(replayDb, args)
<1>1. /\ tables' = after.tables /\ ingested' = after.ingested
      /\ cursor' = after.cursor
      /\ highWater' = IF plan.mode = "full" THEN cursor' ELSE highWater
      /\ reordered' = (reordered /\ plan.mode # "full")
      /\ partial' = (plan.mode = "partial" \/ (partial /\ plan.mode # "full"))
      /\ emptied' = IF plan.mode = "full"
                      THEN ingested' # {} \/ (emptied /\ cursor' # 0)
                      ELSE emptied
      /\ replayOutcome(replayDb, args) = "prepared"
  BY DEF Replay
<1>2. /\ plan.mode = "retry-failed" =>
           /\ after.tables = tables /\ after.ingested = ingested
           /\ after.cursor = IF from > cursor THEN cursor
                                              ELSE cursorAfterReplay(from)
      /\ plan.mode # "retry-failed" =>
           /\ after.tables = IF plan.mode = "full" THEN EmptyTables
                                            ELSE wipeFromLedger(tables, from)
           /\ after.ingested = ingested \ FromLedger(ingested, from)
           /\ after.cursor = cursorAfterReplay(from)
  BY <1>1, ReplayedIs
<1>3. /\ from \in Nat /\ plan.mode \in {"full", "partial", "retry-failed"}
      /\ plan.mode = "partial" => from # 0
  <2>1. args \in [from : {-1} \cup Nat,
                  partial : BOOLEAN, retryFailed : BOOLEAN, dryRun : BOOLEAN,
                  confirm : {<<>>} \cup
                              ({"full", "partial", "retry-failed"} \X Nat)]
    BY ChainAssumption
  <2>2. IsCommand(args)
    BY <2>1 DEF IsCommand
  <2> QED
    BY <2>2, PlanIs
<1> HIDE DEF plan, from, after
<1>4. CASE plan.mode = "retry-failed"
  <2>1. RetryFailed(from)
    BY <1>1, <1>2, <1>4 DEF RetryFailed, TypeOK
  <2> QED
    BY <1>3, <2>1
<1>5. CASE plan.mode # "retry-failed"
  <2>1. CASE plan.mode = "full"
    <3>1. ReplayFull(from)
      BY <1>1, <1>2, <1>5, <2>1 DEF ReplayFull
    <3> QED
      BY <1>3, <3>1
  <2>2. CASE plan.mode = "partial"
    <3>1. ReplayPartial(from)
      BY <1>1, <1>2, <1>3, <1>5, <2>2 DEF ReplayPartial, TypeOK
    <3> QED
      BY <1>3, <3>1
  <2> QED
    BY <1>3, <1>5, <2>1, <2>2
<1> QED
  BY <1>4, <1>5

-----------------------------------------------------------------------------
(* Every step keeps the invariant.                                         *)

\* The end of a batch that ObserveHead chooses, and of one that is halved.
LEMMA BatchEnds ==
  ASSUME TypeOK
  PROVE  /\ \A h \in 0..Len(Chain) :
              batchEnd(lastLedger + 1, h) > lastLedger
                => batchEnd(lastLedger + 1, h) \in 0..Len(Chain)
         /\ toLedger > lastLedger + 1
              => Halve(lastLedger, toLedger) \in 0..Len(Chain)
<1>0. Len(Chain) \in Nat /\ lastLedger \in Nat /\ toLedger \in 0..Len(Chain)
      /\ BACKFILL_MAX_LEDGERS \in Nat \ {0}
  BY ChainFacts, ChainAssumption DEF TypeOK
<1>1. ASSUME NEW h \in 0..Len(Chain), batchEnd(lastLedger + 1, h) > lastLedger
      PROVE  batchEnd(lastLedger + 1, h) \in 0..Len(Chain)
  <2> DEFINE e == lastLedger + 1 + BACKFILL_MAX_LEDGERS - 1
             m == Min({h, e})
  <2>1. e \in Int /\ h \in Int /\ e > lastLedger
    BY <1>0
  <2>2. h <= e \/ e <= h
    BY <2>1
  <2>3. \E x \in {h, e} : \A y \in {h, e} : x <= y
    BY <2>1, <2>2
  <2>4. m \in {h, e} /\ m <= h
    <3> HIDE DEF e
    <3> QED
      BY <2>3 DEF Min
  <2>5. batchEnd(lastLedger + 1, h) = m
    BY DEF batchEnd
  <2> HIDE DEF m, e
  <2> QED
    BY <1>0, <1>1, <2>1, <2>4, <2>5
<1>2. ASSUME toLedger > lastLedger + 1
      PROVE  Halve(lastLedger, toLedger) \in 0..Len(Chain)
  <2> DEFINE d == (toLedger - lastLedger) \div 2
             m == Max({1, d})
  <2>1. d \in Nat /\ 1 <= d /\ d <= toLedger - lastLedger
    BY <1>0, <1>2
  <2>2. m \in {1, d}
    <3> HIDE DEF d
    <3>1. \E x \in {1, d} : \A y \in {1, d} : y <= x
      BY <2>1
    <3> QED
      BY <3>1 DEF Max
  <2>3. Halve(lastLedger, toLedger) = lastLedger + m
    BY DEF Halve
  <2> HIDE DEF m, d
  <2> QED
    BY <1>0, <1>2, <2>1, <2>2, <2>3
<1> QED
  BY <1>1, <1>2

\* What is fetched are events.
LEMMA FetchedAreEvents ==
  ASSUME NEW from, NEW to PROVE Fetched(from, to) \subseteq EventId
BY DEF Fetched, InRange

\* The ledger that CommitLedger or FinishBatch commits, and its events.
LEMMA CommitLedgerIs ==
  ASSUME TypeOK, CommitLedger
  PROVE  \E l \in 1..Len(Chain) : LET ids == {id \in items : id[1] = l} IN
           /\ processLedger(l, ids) /\ items' = items \ ids
           /\ ids \subseteq {id \in EventId : id[1] = l}
           /\ \E id \in items : id[1] = l
           /\ \A id \in items : l <= id[1]
<1> DEFINE l == Min({id[1] : id \in items})
           ids == {id \in items : id[1] = l}
<1>1. items \subseteq EventId /\ items # {}
  BY DEF TypeOK, CommitLedger
<1>2. /\ l \in 1..Len(Chain) /\ \E id \in items : id[1] = l
      /\ \A id \in items : l <= id[1]
  BY <1>1, FirstLedger
<1>3. processLedger(l, ids) /\ items' = items \ ids
  BY DEF CommitLedger
<1>4. ids \subseteq {id \in EventId : id[1] = l}
  BY <1>1
<1> HIDE DEF l
<1> QED
  BY <1>2, <1>3, <1>4

\* The end of a batch moves the cursor over an empty ledger or not at all.
LEMMA FinishBatchIs ==
  ASSUME TypeOK, FinishBatch
  PROVE  \/ toLedger \in 1..Len(Chain) /\ processLedger(toLedger, {})
         \/ UNCHANGED database
<1>1. CASE cursor < toLedger
  <2>1. toLedger \in 1..Len(Chain)
    BY <1>1, ChainFacts DEF TypeOK
  <2> QED
    BY <1>1, <2>1 DEF FinishBatch
<1>2. CASE ~(cursor < toLedger)
  BY <1>2 DEF FinishBatch
<1> QED
  BY <1>1, <1>2

\* The types of what a commit changes.
LEMMA CommitTypes ==
  ASSUME TypeOK, NEW l \in 1..Len(Chain),
         NEW ids, ids \subseteq {id \in EventId : id[1] = l},
         processLedger(l, ids)
  PROVE  /\ cursor' \in Nat /\ highWater' \in Nat /\ reordered' \in BOOLEAN
         /\ DOMAIN tables' = DERIVED_TABLES
         /\ ingested' \subseteq EventId /\ failures' \subseteq EventId
         /\ unrecorded' \subseteq EventId
<1>1. PICK failed, succeeded : Committed(ids, failed, succeeded)
  BY LedgerCommit
<1>2. ids \subseteq EventId /\ failed \subseteq EventId
      /\ succeeded \subseteq EventId
  BY <1>1 DEF Committed
<1>3. ingested' \subseteq EventId /\ DOMAIN tables' = DERIVED_TABLES
  BY <1>1, <1>2 DEF Committed, TypeOK
<1>4. failures' \subseteq EventId /\ unrecorded' \subseteq EventId
  BY <1>1, <1>2 DEF Committed, TypeOK, recordLedgerFailureEvidence
<1>5. cursor' \in Nat /\ highWater' \in Nat /\ reordered' \in BOOLEAN
  BY LedgerCommit, ChainFacts
<1> QED
  BY <1>3, <1>4, <1>5

\* And of what a replay changes.
LEMMA ReplayTypes ==
  ASSUME TypeOK, NEW args \in Commands, Replay(args)
  PROVE  TypeOK'
<1>1. PICK from \in Nat : ReplayFull(from) \/ ReplayPartial(from)
                                          \/ RetryFailed(from)
  BY ReplayIs
<1>2. cursorAfterReplay(from) \in Nat
  BY DEF cursorAfterReplay
<1>3. DOMAIN wipeFromLedger(tables, from) = DOMAIN tables
  BY DEF wipeFromLedger
<1>4. /\ DOMAIN tables' = DERIVED_TABLES
      /\ ingested' \subseteq EventId
      /\ cursor' \in Nat /\ highWater' \in Nat
      /\ {reordered', partial', emptied'} \subseteq BOOLEAN
  BY <1>1, <1>2, <1>3
     DEF ReplayFull, ReplayPartial, RetryFailed, TypeOK, DERIVED_TABLES
<1>5. /\ UNCHANGED <<memory, deployment, shuttingDown, failures, unrecorded>>
      /\ operations' = operations + 1 /\ operations < MaxOperations
      /\ jumped' = (cursor' > cursor \/ (jumped /\ cursor' # 0))
  BY DEF Replay
<1>6. operations' \in 0..MaxOperations
  BY <1>5, ChainAssumption DEF TypeOK
<1>7. jumped' \in BOOLEAN
  BY <1>5
<1> QED
  BY <1>4, <1>5, <1>6, <1>7 DEF TypeOK, memory, deployment

\* Every step keeps the types.
LEMMA TypeStep ==
  ASSUME TypeOK, [Next]_vars PROVE TypeOK'
<1>0. START_LEDGER \in Nat
  BY ChainAssumption
<1>1. CASE UNCHANGED vars
  BY <1>1 DEF TypeOK, vars, database, memory, deployment, history
<1>2. CASE startIndexer \/ tick
  BY <1>0, <1>2
     DEF TypeOK, startIndexer, tick, BeginCycle, database, deployment, history
<1>3. CASE stopIndexer \/ Upgrade
  BY <1>3
     DEF TypeOK, stopIndexer, Upgrade, database, memory, deployment, history
<1>4. CASE Stopped \/ BackoffElapses
  BY <1>4 DEF TypeOK, Stopped, BackoffElapses, database, deployment, history
<1>5. CASE Crash \/ CycleFails
  <2>1. 0 \in 0..Len(Chain)
    BY ChainFacts
  <2> QED
    BY <1>5, <2>1
       DEF TypeOK, Crash, CycleFails, EndCycle, database, deployment, history
<1>6. ASSUME NEW h \in 0..Len(Chain), ObserveHead(h) PROVE TypeOK'
  <2>1. 0 \in 0..Len(Chain)
    BY ChainFacts
  <2> QED
    BY <1>6, <2>1, BatchEnds
       DEF TypeOK, ObserveHead, EndCycle, database, deployment, history
<1>7. CASE FetchEvents
  <2>1. items' \subseteq EventId
    BY <1>7, FetchedAreEvents DEF FetchEvents
  <2> QED
    BY <1>7, <2>1 DEF TypeOK, FetchEvents, database, deployment, history
<1>8. CASE ShrinkBatch
  BY <1>8, BatchEnds DEF TypeOK, ShrinkBatch, database, deployment, history
<1>9. CASE CommitLedger
  <2>1. PICK l \in 1..Len(Chain) :
          LET ids == {id \in items : id[1] = l} IN
            /\ processLedger(l, ids) /\ items' = items \ ids
            /\ ids \subseteq {id \in EventId : id[1] = l}
    BY <1>9, CommitLedgerIs
  <2>2. items' \subseteq EventId
    BY <2>1 DEF TypeOK
  <2>3. /\ cursor' \in Nat /\ highWater' \in Nat /\ reordered' \in BOOLEAN
        /\ DOMAIN tables' = DERIVED_TABLES
        /\ ingested' \subseteq EventId /\ failures' \subseteq EventId
        /\ unrecorded' \subseteq EventId
    BY <2>1, CommitTypes
  <2> QED
    BY <1>9, <2>2, <2>3 DEF TypeOK, CommitLedger, deployment, history
<1>10. CASE FinishBatch
  <2>1. /\ cursor' \in Nat /\ highWater' \in Nat /\ reordered' \in BOOLEAN
        /\ DOMAIN tables' = DERIVED_TABLES
        /\ ingested' \subseteq EventId /\ failures' \subseteq EventId
        /\ unrecorded' \subseteq EventId
    <3>1. CASE toLedger \in 1..Len(Chain) /\ processLedger(toLedger, {})
      BY <3>1, CommitTypes
    <3>2. CASE UNCHANGED database
      BY <3>2 DEF TypeOK, database
    <3> QED
      BY <1>10, <3>1, <3>2, FinishBatchIs
  <2>2. 0 \in 0..Len(Chain)
    BY ChainFacts
  <2> QED
    BY <1>10, <2>1, <2>2 DEF TypeOK, FinishBatch, EndCycle, deployment, history
<1>11. ASSUME NEW args \in Commands, Replay(args) PROVE TypeOK'
  BY <1>11, ReplayTypes
<1> QED
  BY <1>1, <1>2, <1>3, <1>4, <1>5, <1>6, <1>7, <1>8, <1>9, <1>10, <1>11 DEF Next

\* What is accounted for, and known, does not change when the database does not.
LEMMA Quiet ==
  ASSUME IngestInv, UNCHANGED <<database, history>>
  PROVE  /\ AnnouncedIsKnown'
         /\ (~jumped /\ ~emptied => Covered(cursor))'
         /\ \A id : Accounted(id)' <=> Accounted(id)
<1>1. UNCHANGED <<cursor, tables, ingested, failures, unrecorded, jumped, emptied>>
  BY DEF database, history
<1>2. \A id : Skipped(id)' <=> Skipped(id)
  BY <1>1 DEF Skipped
<1>3. \A id : Undiscovered(id)' <=> Undiscovered(id)
  BY <1>2 DEF Undiscovered
<1>4. \A id : Accounted(id)' <=> Accounted(id)
  BY <1>1, <1>2, <1>3 DEF Accounted
<1> QED
  BY <1>1, <1>4 DEF IngestInv, AnnouncedIsKnown, Covered

\* A batch is fetched: what it leaves out belongs to a circle whose announcement
\* has been skipped, or is about to be.
LEMMA FetchStep ==
  ASSUME IngestInv, FetchEvents PROVE BatchComplete'
<1> DEFINE range == InRange(lastLedger + 1, toLedger)
           contracts == {"factory", "reputation"} \cup KnownCircles(range)
<1>1. /\ items' = {id \in range : /\ event(id).contract \in contracts
                                  /\ event(id).name \notin Ignored}
      /\ UNCHANGED <<database, lastLedger, toLedger, deployment, history>>
      /\ pc = "fetch"
  BY DEF FetchEvents, Fetched
<1>2. /\ lastLedger \in Nat /\ toLedger \in Nat /\ START_LEDGER \in Nat
      /\ cursor \in Nat
      /\ \A id \in EventId : id[1] \in Nat
      /\ lastLedger = IF cursor = 0 THEN START_LEDGER ELSE cursor
  BY <1>1, ChainAssumption, ChainFacts, EventFacts DEF IngestInv, TypeOK, FromCursor
<1>3. \A id : id \in range <=>
        id \in EventId /\ lastLedger < id[1] /\ id[1] <= toLedger
  BY <1>2 DEF InRange
<1>4. /\ supported' = supported /\ jumped' = jumped /\ emptied' = emptied
      /\ ingested' = ingested /\ toLedger' = toLedger
      /\ \A id : Accounted(id)' <=> Accounted(id)
  BY <1>1, Quiet DEF database, deployment, history
<1>5. \A c \in Creation \cap range :
        "circle_created" \in supported => event(c).circle \in contracts
  BY DEF KnownCircles
<1>6. \A c \in Creation : /\ c \in EventId /\ event(c).contract = "factory"
                          /\ event(c).name \notin Ignored
                          /\ START_LEDGER < c[1]
  BY ChainOrder DEF Creation, Ignored
<1>7. DOMAIN tables.circles \subseteq contracts
  BY DEF KnownCircles
<1>8. {"factory", "reputation"} \subseteq contracts
  OBVIOUS
<1> HIDE DEF range, contracts
<1>9. \A id \in items' : id[1] <= toLedger' /\ event(id).name \notin Ignored
  BY <1>1, <1>3, <1>4
<1>10. FollowsAnnouncements'
  <2>1. SUFFICES ASSUME "circle_created" \in supported,
                        NEW c \in Creation \cap items', NEW id \in ToIngest,
                        event(id).contract = event(c).circle,
                        id[1] <= toLedger
                 PROVE  id \in items'
    BY <1>4 DEF FollowsAnnouncements
  <2>2. id \in EventId /\ event(id).name \notin Ignored
    BY DEF ToIngest
  <2>3. c \in range /\ c \in EventId /\ lastLedger < c[1] /\ c[1] <= id[1]
    BY <1>1, <1>3, <2>1, <2>2, AnnouncedFirst
  <2>4. id \in range
    BY <1>2, <1>3, <2>1, <2>2, <2>3
  <2> QED
    BY <1>1, <1>5, <2>1, <2>2, <2>3, <2>4
<1>11. LeavesNothingOut'
  <2>1. SUFFICES ASSUME ~jumped, ~emptied, NEW id \in ToIngest,
                        id[1] <= toLedger
                 PROVE  id \in items' \/ Accounted(id) \/ Awaits(id)'
    BY <1>4 DEF LeavesNothingOut
  <2>2. id \in EventId /\ event(id).name \notin Ignored /\ START_LEDGER < id[1]
    BY DEF ToIngest
  <2>3. \A x \in ToIngest : x[1] <= lastLedger => Accounted(x)
    <3>1. CASE cursor = 0
      BY <1>2, <3>1 DEF ToIngest
    <3>2. CASE cursor # 0
      BY <1>2, <2>1, <3>2 DEF IngestInv, Covered
    <3> QED
      BY <3>1, <3>2
  <2>4. CASE id[1] <= lastLedger
    BY <2>3, <2>4
  <2>5. CASE ~(id[1] <= lastLedger)
    <3>1. id \in range
      BY <1>2, <1>3, <2>1, <2>2, <2>5
    <3>2. event(id).contract \in contracts => id \in items'
      BY <1>1, <2>2, <3>1
    <3>3. CASE event(id).contract \in {"factory", "reputation"}
      BY <1>8, <3>2, <3>3
    <3>4. CASE event(id).contract \notin {"factory", "reputation"}
      <4>1. PICK c \in Creation :
              event(c).circle = event(id).contract /\ c[1] <= id[1]
        BY <2>2, <3>4, ChainOrder
      <4>2. c \in ingested => id \in items'
        BY <1>7, <2>1, <3>2, <4>1 DEF IngestInv, AnnouncedIsKnown
      <4>3. CASE c \in range
        <5>1. CASE "circle_created" \in supported
          BY <1>5, <3>2, <4>1, <4>3, <5>1
        <5>2. CASE "circle_created" \notin supported
          <6>1. c \in items'
            BY <1>1, <1>6, <1>8, <4>3
          <6> QED
            BY <1>4, <4>1, <4>2, <5>2, <6>1 DEF Awaits
        <5> QED
          BY <5>1, <5>2
      <4>4. CASE c \notin range
        <5>1. c[1] <= lastLedger
          <6>1. /\ c \in EventId /\ c[1] \in Nat /\ id[1] \in Nat
                /\ c[1] <= id[1] /\ id[1] <= toLedger
            BY <1>2, <1>6, <2>1, <2>2, <4>1
          <6>2. ~(lastLedger < c[1] /\ c[1] <= toLedger)
            BY <1>3, <4>4, <6>1
          <6> QED
            BY <1>2, <6>1, <6>2
        <5>2. c \in ToIngest
          BY <1>6 DEF ToIngest
        <5>3. Accounted(c)
          BY <2>3, <5>1, <5>2
        <5>4. ~Undiscovered(c)
          BY <1>6, ChainOrder DEF Undiscovered
        <5>5. Skipped(c) => Undiscovered(id)
          BY <4>1 DEF Undiscovered
        <5>6. CASE c \in ingested
          BY <4>2, <5>6
        <5> QED
          BY <5>3, <5>4, <5>5, <5>6 DEF Accounted
      <4> QED
        BY <4>3, <4>4
    <3> QED
      BY <3>3, <3>4
  <2> QED
    BY <2>4, <2>5
<1> QED
  BY <1>9, <1>10, <1>11 DEF BatchComplete

\* A ledger of the batch is committed: what has been accounted for stays so, and
\* the events of the ledger are.
LEMMA CommitStep ==
  ASSUME IngestInv, CommitLedger
  PROVE  /\ AnnouncedIsKnown' /\ BatchComplete'
         /\ (~jumped /\ ~emptied => Covered(cursor))'
<1>1. PICK l \in 1..Len(Chain) : LET ids == {id \in items : id[1] = l} IN
           /\ processLedger(l, ids) /\ items' = items \ ids
           /\ ids \subseteq {id \in EventId : id[1] = l}
           /\ \E id \in items : id[1] = l
           /\ \A id \in items : l <= id[1]
  BY CommitLedgerIs DEF IngestInv
<1> DEFINE ids == {id \in items : id[1] = l}
<1>2. PICK failed, succeeded : Committed(ids, failed, succeeded)
  BY <1>1, LedgerCommit DEF IngestInv
<1>3. cursor' = l
  BY <1>1, LedgerCommit DEF IngestInv
<1>4. /\ pc = "process" /\ pc' = pc /\ toLedger' = toLedger
      /\ supported' = supported /\ jumped' = jumped /\ emptied' = emptied
  BY DEF CommitLedger, deployment, history
<1>5. /\ l \in Nat /\ toLedger \in Nat /\ \A id \in EventId : id[1] \in Nat
      /\ items \subseteq EventId
  BY ChainFacts, EventFacts DEF IngestInv, TypeOK
<1>6. /\ \A id \in items : id[1] <= toLedger /\ event(id).name \notin Ignored
      /\ FollowsAnnouncements /\ LeavesNothingOut
  BY <1>4 DEF IngestInv, BatchComplete
<1>7. /\ items' = items \ ids /\ items' \subseteq items
      /\ \A id \in ids : id \in items /\ id[1] = l
      /\ \A id \in items' : id[1] \in Nat /\ l < id[1]
  <2>1. \A id \in items : id[1] # l => id[1] \in Nat /\ l < id[1]
    BY <1>1, <1>5
  <2> QED
    BY <1>1, <2>1
<1> HIDE DEF ids
<1>8. /\ \A id \in failed : Skipped(id)'
      /\ \A id : Skipped(id) /\ id \notin succeeded => Skipped(id)'
  BY <1>2, Evidence
<1>9. \A id \in ids : id \in ingested' \/ Skipped(id)'
  BY <1>2, <1>8 DEF Committed
<1>10. AnnouncedIsKnown'
  BY <1>2, <1>4 DEF Committed, AnnouncedIsKnown, IngestInv
<1>11. FollowsAnnouncements'
  <2>1. SUFFICES ASSUME "circle_created" \in supported,
                        NEW c \in Creation \cap items', NEW id \in ToIngest,
                        event(id).contract = event(c).circle,
                        id[1] <= toLedger
                 PROVE  id \in items'
    BY <1>4 DEF FollowsAnnouncements
  <2>2. id \in items
    BY <1>6, <1>7, <2>1 DEF FollowsAnnouncements
  <2>3. c[1] <= id[1] /\ id[1] \in Nat
    BY <1>5, <2>1, <2>2, AnnouncedFirst
  <2>4. id[1] # l
    BY <1>5, <1>7, <2>1, <2>3
  <2> QED
    BY <1>7, <2>2, <2>4
<1>12. LeavesNothingOut'
  <2>1. SUFFICES ASSUME ~jumped, ~emptied, NEW id \in ToIngest,
                        id[1] <= toLedger
                 PROVE  id \in items' \/ Accounted(id)' \/ Awaits(id)'
    BY <1>4 DEF LeavesNothingOut
  <2>2. id \in items \/ Accounted(id) \/ Awaits(id)
    BY <1>6, <2>1 DEF LeavesNothingOut
  <2>3. CASE id \in items
    BY <1>7, <1>9, <2>3 DEF Accounted
  <2>4. CASE id \in ingested
    BY <1>2, <2>4 DEF Committed, Accounted
  <2>5. CASE Skipped(id)
    BY <1>2, <1>8, <2>5 DEF Committed, Accounted
  <2>6. CASE Undiscovered(id)
    <3>1. PICK c \in Creation : Skipped(c) /\ event(c).circle = event(id).contract
      BY <2>6 DEF Undiscovered
    <3>2. CASE c \notin succeeded
      BY <1>8, <3>1, <3>2 DEF Undiscovered, Accounted
    <3>3. CASE c \in succeeded
      <4>1. c \in items /\ "circle_created" \in supported
        BY <1>2, <1>7, <3>3 DEF Committed, Creation
      <4>2. id \in items
        BY <1>6, <2>1, <3>1, <4>1 DEF FollowsAnnouncements
      <4> QED
        BY <2>3, <4>2
    <3> QED
      BY <3>2, <3>3
  <2>7. CASE Awaits(id)
    <3>1. PICK c \in (Creation \cap items) \ ingested :
            event(c).circle = event(id).contract
      BY <2>7 DEF Awaits
    <3>2. "circle_created" \notin supported /\ event(c).name = "circle_created"
      BY <2>7 DEF Awaits, Creation
    <3>3. c \notin succeeded
      BY <1>2, <3>2 DEF Committed
    <3>4. c \notin ingested'
      BY <1>2, <3>1, <3>3 DEF Committed
    <3>5. CASE c \in ids
      <4>1. Skipped(c)'
        BY <1>9, <3>4, <3>5
      <4> QED
        BY <3>1, <4>1 DEF Undiscovered, Accounted
    <3>6. CASE c \notin ids
      BY <1>4, <1>7, <3>1, <3>2, <3>4, <3>6 DEF Awaits
    <3> QED
      BY <3>5, <3>6
  <2> QED
    BY <2>2, <2>3, <2>4, <2>5, <2>6, <2>7 DEF Accounted
<1>13. ASSUME ~jumped, ~emptied PROVE Covered(cursor)'
  <2>1. SUFFICES ASSUME NEW id \in ToIngest, id[1] <= l PROVE Accounted(id)'
    BY <1>3 DEF Covered
  <2>2. id \in EventId /\ id[1] \in Nat
    BY <1>5 DEF ToIngest
  <2>3. l <= toLedger
    BY <1>1, <1>6
  <2>4. id[1] <= toLedger
    BY <1>5, <2>1, <2>2, <2>3
  <2>5. id \notin items'
    BY <1>5, <1>7, <2>1, <2>2
  <2>6. ~Awaits(id)'
    <3>1. SUFFICES ASSUME NEW c \in Creation \cap items',
                          event(c).circle = event(id).contract
                   PROVE  FALSE
      BY DEF Awaits
    <3>2. c[1] <= id[1] /\ c[1] \in Nat /\ l < c[1]
      BY <1>7, <2>2, <3>1, AnnouncedFirst
    <3> QED
      BY <1>5, <2>1, <2>2, <3>2
  <2> QED
    BY <1>4, <1>12, <1>13, <2>4, <2>5, <2>6 DEF LeavesNothingOut
<1>14. BatchComplete'
  BY <1>4, <1>6, <1>7, <1>11, <1>12 DEF BatchComplete
<1> QED
  BY <1>4, <1>10, <1>13, <1>14

\* The batch is at its end: nothing in it waits any more.
LEMMA FinishStep ==
  ASSUME IngestInv, FinishBatch
  PROVE  /\ AnnouncedIsKnown'
         /\ (~jumped /\ ~emptied => Covered(cursor))'
<1>1. jumped' = jumped /\ emptied' = emptied /\ UNCHANGED history
  BY DEF FinishBatch, history
<1>2. CASE UNCHANGED database
  BY <1>1, <1>2, Quiet
<1>3. CASE toLedger \in 1..Len(Chain) /\ processLedger(toLedger, {})
  <2>1. PICK failed, succeeded : Committed({}, failed, succeeded)
    BY <1>3, LedgerCommit DEF IngestInv
  <2>2. cursor' = toLedger
    BY <1>3, LedgerCommit DEF IngestInv
  <2>3. failed = {} /\ succeeded = {}
    BY <2>1 DEF Committed
  <2>4. ingested' = ingested /\ \A id : Skipped(id) => Skipped(id)'
    BY <2>1, <2>3, Evidence DEF Committed
  <2>5. \A id : Accounted(id) => Accounted(id)'
    BY <2>4 DEF Accounted, Undiscovered
  <2>6. \A id : ~Awaits(id)
    BY DEF FinishBatch, Awaits
  <2>7. AnnouncedIsKnown'
    BY <1>1, <2>1, <2>4 DEF Committed, AnnouncedIsKnown, IngestInv
  <2>8. ASSUME ~jumped, ~emptied PROVE Covered(cursor)'
    <3>1. LeavesNothingOut /\ items = {}
      BY DEF IngestInv, BatchComplete, FinishBatch
    <3> QED
      BY <2>2, <2>5, <2>6, <2>8, <3>1 DEF LeavesNothingOut, Covered
  <2> QED
    BY <1>1, <2>7, <2>8
<1> QED
  BY <1>2, <1>3, FinishBatchIs DEF IngestInv

\* A replay takes the cursor back to before the events that it deletes.
LEMMA ReplayStep ==
  ASSUME IngestInv, NEW args \in Commands, Replay(args)
  PROVE  /\ AnnouncedIsKnown'
         /\ (~jumped /\ ~emptied => Covered(cursor))'
<1>1. PICK from \in Nat : ReplayFull(from) \/ ReplayPartial(from)
                                          \/ RetryFailed(from)
  BY ReplayIs DEF IngestInv
<1>2. /\ failures' = failures /\ unrecorded' = unrecorded
      /\ jumped' = (cursor' > cursor \/ (jumped /\ cursor' # 0))
  BY DEF Replay
<1>3. \A id : Skipped(id)' <=> Skipped(id)
  BY <1>2 DEF Skipped
<1>4. \A id : Undiscovered(id)' <=> Undiscovered(id)
  BY <1>3 DEF Undiscovered
<1>5. /\ cursor \in Nat /\ cursorAfterReplay(from) \in Nat
      /\ ingested \subseteq EventId /\ \A id \in EventId : id[1] \in Nat
      /\ \A id \in ToIngest : id \in EventId /\ 0 < id[1]
  <2>1. START_LEDGER \in Nat
    BY ChainAssumption
  <2>2. \A id \in EventId : id[1] \in Nat
    BY EventFacts, ChainFacts
  <2> QED
    BY <2>1, <2>2 DEF IngestInv, TypeOK, cursorAfterReplay, ToIngest
<1>6. cursor' \in Nat
  BY <1>1, <1>5 DEF ReplayFull, ReplayPartial, RetryFailed
<1>7. AnnouncedIsKnown'
  <2>1. CASE ReplayFull(from)
    BY <2>1 DEF ReplayFull, AnnouncedIsKnown
  <2>2. CASE ReplayPartial(from)
    <3>1. DOMAIN tables'.circles = DOMAIN tables.circles
      BY <2>2 DEF ReplayPartial, wipeFromLedger
    <3> QED
      BY <2>2, <3>1 DEF ReplayPartial, AnnouncedIsKnown, IngestInv
  <2>3. CASE RetryFailed(from)
    BY <2>3 DEF RetryFailed, AnnouncedIsKnown, IngestInv
  <2> QED
    BY <1>1, <2>1, <2>2, <2>3
<1>8. ASSUME ~jumped', ~emptied' PROVE Covered(cursor)'
  <2>1. ~(cursor' > cursor) /\ ~(jumped /\ cursor' # 0)
    BY <1>2, <1>8, Zenon
  <2>2. SUFFICES ASSUME NEW id \in ToIngest, id[1] <= cursor'
                 PROVE  Accounted(id)'
    BY DEF Covered
  <2>3. id \in EventId /\ id[1] \in Nat /\ 0 < id[1]
    BY <1>5
  <2>4. cursor' # 0 /\ cursor' <= cursor
    BY <1>5, <1>6, <2>1, <2>2, <2>3
  <2>5. ~jumped
    BY <2>1, <2>4
  <2>6. ~emptied
    BY <1>1, <1>8, <2>4 DEF ReplayFull, ReplayPartial, RetryFailed
  <2>7. id[1] <= cursor
    BY <1>5, <1>6, <2>2, <2>3, <2>4
  <2>8. Accounted(id)
    BY <2>2, <2>5, <2>6, <2>7 DEF IngestInv, Covered
  <2>9. id \in ingested => id \in ingested'
    <3>1. CASE RetryFailed(from)
      BY <3>1 DEF RetryFailed
    <3>2. CASE ReplayFull(from) \/ ReplayPartial(from)
      <4>1. /\ ingested' = ingested \ FromLedger(ingested, from)
            /\ cursor' = cursorAfterReplay(from)
        BY <3>2 DEF ReplayFull, ReplayPartial
      <4>2. ~(id[1] >= from)
        BY <2>2, <2>3, <2>4, <4>1 DEF cursorAfterReplay
      <4> QED
        BY <4>1, <4>2 DEF FromLedger
    <3> QED
      BY <1>1, <3>1, <3>2
  <2> QED
    BY <1>3, <1>4, <2>8, <2>9 DEF Accounted
<1> QED
  BY <1>7, <1>8

\* Every step keeps IngestInv.
LEMMA IngestStep ==
  ASSUME IngestInv, [Next]_vars PROVE IngestInv'
<1>0. TypeOK'
  BY TypeStep DEF IngestInv
<1>1. ASSUME UNCHANGED <<database, history>>, FromCursor', BatchComplete'
      PROVE  IngestInv'
  <2>1. AnnouncedIsKnown' /\ (~jumped /\ ~emptied => Covered(cursor))'
    BY <1>1, Quiet
  <2> QED
    BY <1>0, <1>1, <2>1 DEF IngestInv
<1>2. ASSUME AnnouncedIsKnown', (~jumped /\ ~emptied => Covered(cursor))',
             pc' \notin {"head", "fetch"}, BatchComplete'
      PROVE  IngestInv'
  <2>1. FromCursor'
    BY <1>2 DEF FromCursor
  <2> QED
    BY <1>0, <1>2, <2>1 DEF IngestInv
<1>3. pc' # "process" => BatchComplete'
  BY DEF BatchComplete
<1>4. CASE UNCHANGED vars \/ stopIndexer
  <2>1. UNCHANGED <<database, memory, supported, history>>
    BY <1>4 DEF vars, deployment, stopIndexer
  <2>2. FromCursor'
    BY <2>1 DEF FromCursor, IngestInv, memory, database
  <2>3. BatchComplete'
    <3>1. /\ \A id : Accounted(id)' <=> Accounted(id)
          /\ UNCHANGED <<pc, toLedger, items, supported, ingested, jumped, emptied>>
      BY <2>1, Quiet DEF memory, database, history
    <3>2. \A id : Awaits(id)' <=> Awaits(id)
      BY <3>1 DEF Awaits
    <3>3. FollowsAnnouncements <=> FollowsAnnouncements'
      BY <3>1 DEF FollowsAnnouncements
    <3>4. LeavesNothingOut <=> LeavesNothingOut'
      BY <3>1, <3>2 DEF LeavesNothingOut
    <3> QED
      BY <3>1, <3>3, <3>4 DEF BatchComplete, IngestInv
  <2> QED
    BY <1>1, <2>1, <2>2, <2>3
<1>5. CASE startIndexer \/ tick
  <2>1. /\ UNCHANGED <<database, history>> /\ pc' = "head"
        /\ lastLedger' = IF cursor = 0 THEN START_LEDGER ELSE cursor
    BY <1>5 DEF startIndexer, tick, BeginCycle
  <2>2. FromCursor'
    BY <2>1 DEF FromCursor, database
  <2> QED
    BY <1>1, <1>3, <2>1, <2>2
<1>6. CASE Stopped \/ BackoffElapses \/ Crash \/ CycleFails
  <2>1. UNCHANGED <<database, history>> /\ pc' \in {"stopped", "idle", "backoff"}
    BY <1>6 DEF Stopped, BackoffElapses, Crash, CycleFails, EndCycle
  <2>2. FromCursor'
    BY <2>1 DEF FromCursor
  <2> QED
    BY <1>1, <1>3, <2>1, <2>2
<1>7. CASE Upgrade
  <2>1. UNCHANGED <<database, history>> /\ pc' = "stopped"
    BY <1>7 DEF Upgrade, memory
  <2>2. FromCursor'
    BY <2>1 DEF FromCursor
  <2> QED
    BY <1>1, <1>3, <2>1, <2>2
<1>8. ASSUME NEW h \in 0..Len(Chain), ObserveHead(h) PROVE IngestInv'
  <2>1. /\ UNCHANGED <<database, history>>
        /\ \/ pc' \in {"idle", "backoff"}
           \/ pc' = "fetch" /\ pc = "head" /\ lastLedger' = lastLedger
    BY <1>8 DEF ObserveHead, EndCycle
  <2>2. FromCursor'
    BY <2>1 DEF FromCursor, IngestInv, database
  <2> QED
    BY <1>1, <1>3, <2>1, <2>2
<1>9. CASE FetchEvents
  <2>1. UNCHANGED <<database, history>> /\ pc' = "process"
    BY <1>9 DEF FetchEvents
  <2>2. FromCursor'
    BY <2>1 DEF FromCursor
  <2> QED
    BY <1>1, <1>9, <2>1, <2>2, FetchStep
<1>10. CASE ShrinkBatch
  <2>1. UNCHANGED <<database, history, pc, lastLedger>> /\ pc = "fetch"
    BY <1>10 DEF ShrinkBatch
  <2>2. FromCursor'
    BY <2>1 DEF FromCursor, IngestInv, database
  <2> QED
    BY <1>1, <1>3, <2>1, <2>2
<1>11. CASE CommitLedger
  <2>1. pc' = "process"
    BY <1>11 DEF CommitLedger
  <2> QED
    BY <1>2, <1>11, <2>1, CommitStep
<1>12. CASE FinishBatch
  <2>1. pc' = "idle"
    BY <1>12 DEF FinishBatch, EndCycle
  <2> QED
    BY <1>2, <1>3, <1>12, <2>1, FinishStep
<1>13. ASSUME NEW args \in Commands, Replay(args) PROVE IngestInv'
  <2>1. pc' = "stopped"
    BY <1>13 DEF Replay, memory
  <2> QED
    BY <1>2, <1>3, <1>13, <2>1, ReplayStep
<1> QED
  BY <1>4, <1>5, <1>6, <1>7, <1>8, <1>9, <1>10, <1>11, <1>12, <1>13 DEF Next

\* Nothing is ingested at the start.
LEMMA IngestInit ==
  ASSUME Init PROVE IngestInv
<1>1. TypeOK
  <2>1. 0 \in 0..Len(Chain) /\ 0 \in 0..MaxOperations
    BY ChainFacts, ChainAssumption
  <2> QED
    BY <2>1 DEF Init, TypeOK, DERIVED_TABLES
<1>2. Covered(0)
  <2>1. START_LEDGER \in Nat /\ \A id \in EventId : id[1] \in Nat
    BY ChainAssumption, ChainFacts, EventFacts
  <2> QED
    BY <2>1 DEF Covered, ToIngest
<1> QED
  BY <1>1, <1>2 DEF Init, IngestInv, AnnouncedIsKnown, FromCursor, BatchComplete

\* Whatever fails and however the operators intervene, IngestInv holds.
THEOREM IngestInvariance == Spec => []IngestInv
<1>1. Init => IngestInv
  BY IngestInit
<1>2. IngestInv /\ [Next]_vars => IngestInv'
  BY IngestStep
<1> QED
  BY <1>1, <1>2, PTL DEF Spec

\* The cursor of the indexer never passes an event that is lost without a trace.
THEOREM NothingIsLost == Spec => []NothingLost
<1>1. IngestInv => NothingLost
  BY DEF IngestInv, NothingLost, Covered, ToIngest, Accounted
<1> QED
  BY <1>1, IngestInvariance, PTL

-----------------------------------------------------------------------------
(* The projection of a set of events.                                      *)

\* A is what the events of ids have made of base after each place up to k.
IsApplied(A, base, l, ids, k) ==
  /\ A = [i \in 0..k |-> A[i]] /\ A[0] = base
  /\ \A i \in 1..k : A[i] = IF <<l, i>> \notin ids THEN A[i - 1]
                            ELSE Apply(A[i - 1], <<l, i>>)

\* There is such a list.
LEMMA AppliedExists ==
  ASSUME NEW base, NEW l, NEW ids
  PROVE  \A k \in Nat : \E A : IsApplied(A, base, l, ids, k)
<1> DEFINE S == {k \in Nat : \E A : IsApplied(A, base, l, ids, k)}
<1>1. 0 \in S
  <2>1. IsApplied([i \in 0..0 |-> base], base, l, ids, 0)
    BY DEF IsApplied
  <2> QED
    BY <2>1
<1>2. ASSUME NEW k \in Nat, k \in S PROVE k + 1 \in S
  <2>1. PICK g : IsApplied(g, base, l, ids, k)
    BY <1>2
  <2> DEFINE next == IF <<l, k + 1>> \notin ids THEN g[k]
                     ELSE Apply(g[k], <<l, k + 1>>)
             h == [i \in 0..(k + 1) |-> IF i = k + 1 THEN next ELSE g[i]]
  <2>2. h = [i \in 0..(k + 1) |-> h[i]]
    OBVIOUS
  <2>3. h[k + 1] = next /\ \A i \in 0..k : h[i] = g[i]
    OBVIOUS
  <2>4. h[0] = base
    BY <2>1, <2>3 DEF IsApplied
  <2>5. ASSUME NEW i \in 1..(k + 1)
        PROVE  h[i] = IF <<l, i>> \notin ids THEN h[i - 1]
                      ELSE Apply(h[i - 1], <<l, i>>)
    <3> HIDE DEF h
    <3>1. CASE i = k + 1
      <4>1. i - 1 = k /\ h[i - 1] = g[k]
        BY <3>1, <2>3
      <4> QED
        BY <3>1, <4>1, <2>3
    <3>2. CASE i # k + 1
      <4>1. i \in 1..k /\ i \in 0..k /\ i - 1 \in 0..k
        BY <3>2
      <4>2. h[i] = g[i] /\ h[i - 1] = g[i - 1]
        BY <4>1, <2>3
      <4> QED
        BY <4>1, <4>2, <2>1 DEF IsApplied
    <3> QED
      BY <3>1, <3>2
  <2> HIDE DEF h
  <2>6. IsApplied(h, base, l, ids, k + 1)
    BY <2>2, <2>4, <2>5 DEF IsApplied
  <2> QED
    BY <2>6
<1> HIDE DEF S
<1>3. \A k \in Nat : k \in S
  BY <1>1, <1>2, InductiveSet
<1> QED
  BY <1>3 DEF S

\* InLedger is that function here.
LEMMA AppliedIs ==
  ASSUME NEW base, NEW l \in 1..Len(Chain), NEW ids
  PROVE  IsApplied(InLedger(Apply, base, l, ids), base, l, ids,
               Len(Chain[l]))
<1> DEFINE n == Len(Chain[l])
           Step(p, i) ==
             IF i = 0 THEN base
             ELSE IF <<l, i>> \notin ids THEN p[i - 1]
             ELSE CHOOSE v \in {Apply(before, <<l, i>>) :
                                  before \in {p[i - 1]}} : TRUE
           Body(p) == [i \in 0..n |-> Step(p, i)]
           A == InLedger(Apply, base, l, ids)
<1>1. PICK g : IsApplied(g, base, l, ids, n)
  BY AppliedExists, ChainFacts
<1>2. \A p : \A i \in 1..n :
        Step(p, i) = IF <<l, i>> \notin ids THEN p[i - 1]
                     ELSE Apply(p[i - 1], <<l, i>>)
  <2>1. TAKE p
  <2>2. TAKE i \in 1..n
  <2> QED
    BY ChainFacts
<1>3. \A i \in 0..n : g[i] = Step(g, i)
  <2> HIDE DEF n
  <2>1. n \in Nat
    BY ChainFacts DEF n
  <2>2. Step(g, 0) = base
    OBVIOUS
  <2>3. g[0] = base /\ \A i \in 1..n : g[i] = IF <<l, i>> \notin ids THEN g[i - 1]
                             ELSE Apply(g[i - 1], <<l, i>>)
    BY <1>1 DEF IsApplied
  <2> HIDE DEF Step
  <2>4. \A i \in 1..n : g[i] = Step(g, i)
    BY <1>2, <2>3
  <2>5. \A i \in 0..n : i = 0 \/ i \in 1..n
    BY <2>1
  <2> QED
    BY <2>2, <2>3, <2>4, <2>5
<1>4. g = Body(g)
  BY <1>1, <1>3 DEF IsApplied
<1>5. A = CHOOSE p : p = Body(p)
  BY DEF InLedger
<1>6. A = Body(A)
  <2> HIDE DEF Body, A
  <2> QED
    BY <1>4, <1>5
<1>7. \A i \in 0..n : A[i] = Step(A, i)
  <2> HIDE DEF A, Step
  <2> QED
    BY <1>6
<1>8. A = [i \in 0..n |-> A[i]]
  <2> HIDE DEF A, Step
  <2> QED
    BY <1>6, <1>7
<1>9. A[0] = base
  <2>1. Step(A, 0) = base
    OBVIOUS
  <2>2. 0 \in 0..n
    BY ChainFacts
  <2> HIDE DEF A, Step
  <2> QED
    BY <1>7, <2>1, <2>2
<1>10. \A i \in 1..n : A[i] = IF <<l, i>> \notin ids THEN A[i - 1]
                             ELSE Apply(A[i - 1], <<l, i>>)
  <2>1. \A i \in 1..n : i \in 0..n
    BY ChainFacts
  <2> HIDE DEF A, Step, n
  <2> QED
    BY <1>2, <1>7, <2>1
<1> QED
  <2> HIDE DEF A, Step, n
  <2>1. IsApplied(A, base, l, ids, n)
    BY <1>8, <1>9, <1>10 DEF IsApplied
  <2> QED
    BY <2>1 DEF A, n

\* T is what the events of ids have made of base after each ledger.
IsProjected(T, base, ids, k) ==
  /\ T = [l \in 0..k |-> T[l]] /\ T[0] = base
  /\ \A l \in 1..k : T[l] = InLedger(Apply, T[l - 1], l, ids)[Len(Chain[l])]

\* There is such a list.
LEMMA ProjectedExists ==
  ASSUME NEW base, NEW ids
  PROVE  \A k \in Nat : \E T : IsProjected(T, base, ids, k)
<1> DEFINE S == {k \in Nat : \E T : IsProjected(T, base, ids, k)}
<1>1. 0 \in S
  <2>1. IsProjected([l \in 0..0 |-> base], base, ids, 0)
    BY DEF IsProjected
  <2> QED
    BY <2>1
<1>2. ASSUME NEW k \in Nat, k \in S PROVE k + 1 \in S
  <2>1. PICK g : IsProjected(g, base, ids, k)
    BY <1>2
  <2> DEFINE next == InLedger(Apply, g[k], k + 1, ids)[Len(Chain[k + 1])]
             h == [l \in 0..(k + 1) |-> IF l = k + 1 THEN next ELSE g[l]]
  <2> HIDE DEF next
  <2>2. h = [l \in 0..(k + 1) |-> h[l]]
    OBVIOUS
  <2>3. h[k + 1] = next /\ \A l \in 0..k : h[l] = g[l]
    OBVIOUS
  <2>4. h[0] = base
    BY <2>1, <2>3 DEF IsProjected
  <2>5. ASSUME NEW l \in 1..(k + 1)
        PROVE  h[l] = InLedger(Apply, h[l - 1], l, ids)[Len(Chain[l])]
    <3> HIDE DEF h
    <3>1. CASE l = k + 1
      <4>1. l - 1 = k /\ h[l - 1] = g[k]
        BY <3>1, <2>3
      <4>2. next = InLedger(Apply, h[l - 1], l, ids)[Len(Chain[l])]
        BY <3>1, <4>1 DEF next
      <4> QED
        BY <3>1, <4>2, <2>3
    <3>2. CASE l # k + 1
      <4>1. l \in 1..k /\ l \in 0..k /\ l - 1 \in 0..k
        BY <3>2
      <4>2. h[l] = g[l] /\ h[l - 1] = g[l - 1]
        BY <4>1, <2>3
      <4>3. g[l] = InLedger(Apply, g[l - 1], l, ids)[Len(Chain[l])]
        BY <4>1, <2>1 DEF IsProjected
      <4> QED
        BY <4>2, <4>3
    <3> QED
      BY <3>1, <3>2
  <2> HIDE DEF h
  <2>6. IsProjected(h, base, ids, k + 1)
    BY <2>2, <2>4, <2>5 DEF IsProjected
  <2> QED
    BY <2>6
<1> HIDE DEF S
<1>3. \A k \in Nat : k \in S
  BY <1>1, <1>2, InductiveSet
<1> QED
  BY <1>3 DEF S

\* Through is that function.
LEMMA ProjectedIs ==
  ASSUME NEW base, NEW ids
  PROVE  IsProjected(Through(Apply, base, ids), base, ids, Len(Chain))
<1> DEFINE Step(p, l) ==
             IF l = 0 THEN base
             ELSE InLedger(Apply, p[l - 1], l, ids)[Len(Chain[l])]
           Body(p) == [l \in 0..Len(Chain) |-> Step(p, l)]
           T == Through(Apply, base, ids)
<1>0. Len(Chain) \in Nat
  BY ChainFacts
<1>1. PICK g : IsProjected(g, base, ids, Len(Chain))
  BY <1>0, ProjectedExists
<1>2. /\ \A p : Step(p, 0) = base
      /\ \A p : \A l \in 1..Len(Chain) :
           Step(p, l) = InLedger(Apply, p[l - 1], l, ids)[Len(Chain[l])]
      /\ \A l \in 0..Len(Chain) : l = 0 \/ l \in 1..Len(Chain)
      /\ \A l \in 1..Len(Chain) : l \in 0..Len(Chain)
      /\ 0 \in 0..Len(Chain)
  BY <1>0
<1>3. T = CHOOSE p : p = Body(p)
  BY DEF Through
<1> HIDE DEF Step, T
<1>4. \A l \in 0..Len(Chain) : g[l] = Step(g, l)
  BY <1>1, <1>2 DEF IsProjected
<1>5. g = Body(g)
  BY <1>1, <1>4 DEF IsProjected
<1>6. T = Body(T)
  <2> HIDE DEF Body
  <2> QED
    BY <1>3, <1>5
<1>7. \A l \in 0..Len(Chain) : T[l] = Step(T, l)
  BY <1>6
<1>8. T = [l \in 0..Len(Chain) |-> T[l]]
  BY <1>6, <1>7
<1>9. IsProjected(T, base, ids, Len(Chain))
  BY <1>2, <1>7, <1>8 DEF IsProjected
<1> QED
  BY <1>9 DEF T

\* The tables after a ledger's events, from the tables before it; after all the
\* ledgers up to one; and after all of them.
AfterPlace(base, l, ids, k) == InLedger(Apply, base, l, ids)[k]
AfterLedger(base, l, ids) == AfterPlace(base, l, ids, Len(Chain[l]))
UpTo(base, l, ids) == Through(Apply, base, ids)[l]
ProjectOn(base, ids) == UpTo(base, Len(Chain), ids)

\* Ledger by ledger.
LEMMA UpToFacts ==
  ASSUME NEW base, NEW ids
  PROVE  /\ UpTo(base, 0, ids) = base /\ UpTo(base, Len(Chain), ids) = ProjectOn(base, ids)
         /\ \A l \in 1..Len(Chain) :
              UpTo(base, l, ids) = AfterLedger(UpTo(base, l - 1, ids), l, ids)
<1>1. IsProjected(Through(Apply, base, ids), base, ids, Len(Chain))
  BY ProjectedIs
<1>2. \A l \in 1..Len(Chain) :
        Through(Apply, base, ids)[l]
          = InLedger(Apply, Through(Apply, base, ids)[l - 1], l, ids)
              [Len(Chain[l])]
  BY <1>1 DEF IsProjected
<1>3. Through(Apply, base, ids)[0] = base
  BY <1>1 DEF IsProjected
<1> QED
  BY <1>2, <1>3 DEF UpTo, AfterLedger, AfterPlace, ProjectOn

\* So much for the next ledger.
LEMMA NextLedger ==
  ASSUME NEW base, NEW ids, NEW l \in 1..Len(Chain)
  PROVE  UpTo(base, l, ids) = AfterLedger(UpTo(base, l - 1, ids), l, ids)
BY UpToFacts

\* Two sets with the same events up to a place agree there.
LEMMA SamePlaces ==
  ASSUME NEW base, NEW l \in 1..Len(Chain), NEW Y, NEW Z,
         NEW k \in 0..Len(Chain[l]),
         \A i \in 1..k : <<l, i>> \in Y <=> <<l, i>> \in Z
  PROVE  AfterPlace(base, l, Y, k) = AfterPlace(base, l, Z, k)
<1> DEFINE A == InLedger(Apply, base, l, Y)
           B == InLedger(Apply, base, l, Z)
           S == {i \in Nat : i <= k => A[i] = B[i]}
<1>1. /\ IsApplied(A, base, l, Y, Len(Chain[l]))
      /\ IsApplied(B, base, l, Z, Len(Chain[l]))
  BY AppliedIs
<1>2. Len(Chain[l]) \in Nat /\ k \in Nat /\ k <= Len(Chain[l])
  BY ChainFacts
<1> HIDE DEF A, B
<1>3. 0 \in S
  BY <1>1 DEF IsApplied
<1>4. ASSUME NEW i \in Nat, i \in S PROVE i + 1 \in S
  <2>1. SUFFICES ASSUME i + 1 <= k PROVE A[i + 1] = B[i + 1]
    OBVIOUS
  <2>2. /\ i + 1 \in 1..Len(Chain[l]) /\ (i + 1) - 1 = i /\ A[i] = B[i]
        /\ i + 1 \in 1..k
    BY <1>2, <1>4, <2>1
  <2>3. /\ A[i + 1] = IF <<l, i + 1>> \notin Y THEN A[i]
                      ELSE Apply(A[i], <<l, i + 1>>)
        /\ B[i + 1] = IF <<l, i + 1>> \notin Z THEN B[i]
                      ELSE Apply(B[i], <<l, i + 1>>)
    BY <1>1, <2>2 DEF IsApplied
  <2> QED
    BY <2>2, <2>3
<1> HIDE DEF S
<1>5. \A i \in Nat : i \in S
  BY <1>3, <1>4, InductiveSet
<1> QED
  BY <1>2, <1>5 DEF S, A, B, AfterPlace

\* So they agree after a ledger if they have the same events of it.
LEMMA SameLedger ==
  ASSUME NEW base, NEW l \in 1..Len(Chain), NEW Y, NEW Z,
         \A i \in 1..Len(Chain[l]) : <<l, i>> \in Y <=> <<l, i>> \in Z
  PROVE  AfterLedger(base, l, Y) = AfterLedger(base, l, Z)
<1>1. Len(Chain[l]) \in 0..Len(Chain[l])
  BY ChainFacts
<1> QED
  BY <1>1, SamePlaces DEF AfterLedger

\* Places without an event change nothing.
LEMMA NoMorePlaces ==
  ASSUME NEW base, NEW l \in 1..Len(Chain), NEW Y,
         NEW k \in 0..Len(Chain[l]),
         \A i \in 1..Len(Chain[l]) : k < i => <<l, i>> \notin Y
  PROVE  AfterLedger(base, l, Y) = AfterPlace(base, l, Y, k)
<1> DEFINE A == InLedger(Apply, base, l, Y)
           n == Len(Chain[l])
           S == {i \in Nat : k <= i /\ i <= n => A[i] = A[k]}
<1>1. IsApplied(A, base, l, Y, n)
  BY AppliedIs
<1>2. n \in Nat /\ k \in Nat /\ k <= n
  BY ChainFacts
<1> HIDE DEF A
<1>3. 0 \in S
  BY <1>2
<1>4. ASSUME NEW i \in Nat, i \in S PROVE i + 1 \in S
  <2>1. SUFFICES ASSUME k <= i + 1, i + 1 <= n PROVE A[i + 1] = A[k]
    OBVIOUS
  <2>2. CASE k = i + 1
    BY <2>2
  <2>3. CASE k # i + 1
    <3>1. /\ i + 1 \in 1..n /\ (i + 1) - 1 = i /\ A[i] = A[k] /\ k < i + 1
      BY <1>2, <1>4, <2>1, <2>3
    <3>2. A[i + 1] = A[i]
      BY <1>1, <3>1 DEF IsApplied
    <3> QED
      BY <3>1, <3>2
  <2> QED
    BY <2>2, <2>3
<1> HIDE DEF S
<1>5. \A i \in Nat : i \in S
  BY <1>3, <1>4, InductiveSet
<1> QED
  BY <1>2, <1>5 DEF S, A, AfterLedger, AfterPlace

\* The same for ledgers: two sets with the same events up to a ledger agree.
LEMMA SameLedgers ==
  ASSUME NEW base, NEW Y, NEW Z, NEW m \in 0..Len(Chain),
         \A l \in 1..m, i \in Nat : <<l, i>> \in Y <=> <<l, i>> \in Z
  PROVE  UpTo(base, m, Y) = UpTo(base, m, Z)
<1> DEFINE S == {l \in Nat : l <= m => UpTo(base, l, Y) = UpTo(base, l, Z)}
<1>1. Len(Chain) \in Nat /\ m \in Nat /\ m <= Len(Chain)
  BY ChainFacts
<1>2. 0 \in S
  BY UpToFacts
<1>3. ASSUME NEW l \in Nat, l \in S PROVE l + 1 \in S
  <2>1. SUFFICES ASSUME l + 1 <= m PROVE UpTo(base, l + 1, Y) = UpTo(base, l + 1, Z)
    OBVIOUS
  <2>2. /\ l + 1 \in 1..Len(Chain) /\ (l + 1) - 1 = l /\ l + 1 \in 1..m
        /\ UpTo(base, l, Y) = UpTo(base, l, Z)
    BY <1>1, <1>3, <2>1
  <2>3. Len(Chain[l + 1]) \in Nat
    BY <2>2, ChainFacts
  <2>4. \A i \in 1..Len(Chain[l + 1]) : <<l + 1, i>> \in Y <=> <<l + 1, i>> \in Z
    BY <2>2, <2>3
  <2>5. \A b : AfterLedger(b, l + 1, Y) = AfterLedger(b, l + 1, Z)
    BY <2>2, <2>4, SameLedger
  <2>6. /\ UpTo(base, l + 1, Y) = AfterLedger(UpTo(base, l, Y), l + 1, Y)
        /\ UpTo(base, l + 1, Z) = AfterLedger(UpTo(base, l, Z), l + 1, Z)
    BY <2>2, NextLedger
  <2> QED
    BY <2>2, <2>5, <2>6
<1> HIDE DEF S
<1>4. \A l \in Nat : l \in S
  BY <1>2, <1>3, InductiveSet
<1> QED
  BY <1>1, <1>4 DEF S

\* And ledgers without an event change nothing.
LEMMA NoMoreLedgers ==
  ASSUME NEW base, NEW Y, NEW m \in 0..Len(Chain),
         \A l \in 1..Len(Chain), i \in Nat : m < l => <<l, i>> \notin Y
  PROVE  ProjectOn(base, Y) = UpTo(base, m, Y)
<1> DEFINE S == {l \in Nat : m <= l /\ l <= Len(Chain) => UpTo(base, l, Y) = UpTo(base, m, Y)}
<1>1. Len(Chain) \in Nat /\ m \in Nat /\ m <= Len(Chain)
  BY ChainFacts
<1>2. 0 \in S
  BY <1>1
<1>3. ASSUME NEW l \in Nat, l \in S PROVE l + 1 \in S
  <2>1. SUFFICES ASSUME m <= l + 1, l + 1 <= Len(Chain)
                 PROVE  UpTo(base, l + 1, Y) = UpTo(base, m, Y)
    OBVIOUS
  <2>2. CASE m = l + 1
    BY <2>2
  <2>3. CASE m # l + 1
    <3>1. /\ l + 1 \in 1..Len(Chain) /\ (l + 1) - 1 = l /\ m < l + 1
          /\ UpTo(base, l, Y) = UpTo(base, m, Y)
      BY <1>1, <1>3, <2>1, <2>3
    <3> DEFINE b == UpTo(base, l, Y)
               n == Len(Chain[l + 1])
    <3>2. n \in Nat /\ 0 \in 0..n
      BY <3>1, ChainFacts
    <3>3. \A i \in 1..n : <<l + 1, i>> \notin Y
      BY <3>1, <3>2
    <3>4. AfterLedger(b, l + 1, Y) = AfterPlace(b, l + 1, Y, 0)
      <4> HIDE DEF b
      <4> QED
        BY <3>1, <3>2, <3>3, NoMorePlaces
    <3>5. AfterPlace(b, l + 1, Y, 0) = b
      BY <3>1, AppliedIs DEF IsApplied, AfterPlace
    <3>6. UpTo(base, l + 1, Y) = AfterLedger(b, l + 1, Y)
      BY <3>1, NextLedger
    <3> QED
      BY <3>1, <3>4, <3>5, <3>6
  <2> QED
    BY <2>2, <2>3
<1> HIDE DEF S
<1>4. \A l \in Nat : l \in S
  BY <1>2, <1>3, InductiveSet
<1>5. UpTo(base, Len(Chain), Y) = UpTo(base, m, Y)
  BY <1>1, <1>4 DEF S
<1> QED
  BY <1>5, UpToFacts

\* An event after all the others is applied to what they give.
LEMMA AddLastOn ==
  ASSUME NEW base, NEW Y, Y \subseteq EventId, NEW id \in EventId,
         \A y \in Y : Before(y, id)
  PROVE  ProjectOn(base, Y \cup {id}) = Apply(ProjectOn(base, Y), id)
<1> DEFINE l == id[1]
           k == id[2]
           Z == Y \cup {id}
           b == UpTo(base, l - 1, Y)
<1>1. /\ id = <<l, k>> /\ l \in 1..Len(Chain) /\ k \in 1..Len(Chain[l])
      /\ Len(Chain) \in Nat /\ Len(Chain[l]) \in Nat
  BY EventFacts, ChainFacts
<1>2. \A y \in Y : /\ y[1] \in Nat /\ y[2] \in Nat /\ y = <<y[1], y[2]>>
                   /\ y[1] < l \/ (y[1] = l /\ y[2] < k)
  <2>1. \A y \in Y : /\ y[1] \in 1..Len(Chain) /\ y[2] \in 1..Len(Chain[y[1]])
                     /\ y = <<y[1], y[2]>>
    BY EventFacts
  <2>2. \A y \in Y : Len(Chain[y[1]]) \in Nat
    BY <2>1, ChainFacts
  <2> QED
    BY <1>1, <2>1, <2>2 DEF Before
<1> HIDE DEF l, k
<1>3. \A m, i : <<m, i>> \in Y => /\ m \in Nat /\ i \in Nat
                                  /\ m < l \/ (m = l /\ i < k)
  BY <1>2
<1>4. \A m, i : <<m, i>> \in Z <=> <<m, i>> \in Y \/ (m = l /\ i = k)
  BY <1>1
<1> HIDE DEF Z
<1>5. l \in 0..Len(Chain) /\ l - 1 \in 0..Len(Chain)
      /\ k \in 0..Len(Chain[l]) /\ k - 1 \in 0..Len(Chain[l])
      /\ k \in Nat /\ l \in Nat
  BY <1>1
<1>6. ProjectOn(base, Y) = UpTo(base, l, Y)
  <2>1. \A m \in 1..Len(Chain), i \in Nat : l < m => <<m, i>> \notin Y
    BY <1>3, <1>5
  <2> QED
    BY <1>5, <2>1, NoMoreLedgers
<1>7. ProjectOn(base, Z) = UpTo(base, l, Z)
  <2>1. \A m \in 1..Len(Chain), i \in Nat : l < m => <<m, i>> \notin Z
    BY <1>3, <1>4, <1>5
  <2> QED
    BY <1>5, <2>1, NoMoreLedgers
<1>8. UpTo(base, l - 1, Z) = b
  <2>1. \A m \in 1..(l - 1), i \in Nat : <<m, i>> \in Y <=> <<m, i>> \in Z
    <3>1. \A m \in 1..(l - 1) : m # l
      BY <1>5
    <3> QED
      BY <1>4, <3>1
  <2> QED
    BY <1>5, <2>1, SameLedgers
<1>9. /\ UpTo(base, l, Y) = AfterLedger(b, l, Y)
      /\ UpTo(base, l, Z) = AfterLedger(b, l, Z)
  BY <1>1, <1>8, NextLedger
<1> HIDE DEF b
<1>10. AfterLedger(b, l, Y) = AfterPlace(b, l, Y, k - 1)
  <2>1. \A i \in 1..Len(Chain[l]) : k - 1 < i => <<l, i>> \notin Y
    BY <1>3, <1>5
  <2> QED
    BY <1>1, <1>5, <2>1, NoMorePlaces
<1>11. AfterLedger(b, l, Z) = AfterPlace(b, l, Z, k)
  <2>1. \A i \in 1..Len(Chain[l]) : k < i => <<l, i>> \notin Z
    BY <1>3, <1>4, <1>5
  <2> QED
    BY <1>1, <1>5, <2>1, NoMorePlaces
<1>12. AfterPlace(b, l, Z, k - 1) = AfterPlace(b, l, Y, k - 1)
  <2>1. \A i \in 1..(k - 1) : <<l, i>> \in Z <=> <<l, i>> \in Y
    BY <1>4, <1>5
  <2> QED
    BY <1>1, <1>5, <2>1, SamePlaces
<1>13. AfterPlace(b, l, Z, k)
         = Apply(AfterPlace(b, l, Z, k - 1), <<l, k>>)
  <2>1. <<l, k>> \in Z
    BY <1>4
  <2> DEFINE A == InLedger(Apply, b, l, Z)
  <2>2. IsApplied(A, b, l, Z, Len(Chain[l]))
    BY <1>1, AppliedIs
  <2> HIDE DEF A
  <2>3. A[k] = Apply(A[k - 1], <<l, k>>)
    BY <1>1, <2>1, <2>2 DEF IsApplied
  <2> QED
    BY <2>3 DEF A, AfterPlace
<1>14. ProjectOn(base, Z) = Apply(ProjectOn(base, Y), <<l, k>>)
  BY <1>6, <1>7, <1>9, <1>10, <1>11, <1>12, <1>13
<1> QED
  BY <1>1, <1>14 DEF Z

\* On the empty tables.
LEMMA AddLast ==
  ASSUME NEW Y, Y \subseteq EventId, NEW id \in EventId,
         \A y \in Y : Before(y, id)
  PROVE  Project(Y \cup {id}) = Apply(Project(Y), id)
<1>1. \A Z : Project(Z) = ProjectOn(EmptyTables, Z)
  BY DEF Project, ProjectOn, UpTo
<1>2. \A base : ProjectOn(base, Y \cup {id}) = Apply(ProjectOn(base, Y), id)
  BY AddLastOn
<1> QED
  BY <1>1, <1>2

\* No events, no change.
LEMMA NothingOn ==
  ASSUME NEW base PROVE ProjectOn(base, {}) = base
<1>1. 0 \in 0..Len(Chain)
  BY ChainFacts
<1>2. ProjectOn(base, {}) = UpTo(base, 0, {})
  BY <1>1, NoMoreLedgers
<1> QED
  BY <1>2, UpToFacts

\* Nothing has been ingested, nothing is in the tables.
LEMMA ProjectNothing == Project({}) = EmptyTables
<1>1. Project({}) = ProjectOn(EmptyTables, {})
  BY DEF Project, ProjectOn, UpTo
<1>2. \A base : ProjectOn(base, {}) = base
  BY NothingOn
<1> QED
  BY <1>1, <1>2

-----------------------------------------------------------------------------
(* The tables are the projection of what has been ingested.                *)

\* Two events are in some order.
LEMMA BeforeTotal ==
  ASSUME NEW a \in EventId, NEW b \in EventId, a # b, ~Before(a, b)
  PROVE  Before(b, a)
<1>1. /\ a = <<a[1], a[2]>> /\ b = <<b[1], b[2]>>
      /\ a[1] \in 1..Len(Chain) /\ b[1] \in 1..Len(Chain)
      /\ a[2] \in 1..Len(Chain[a[1]]) /\ b[2] \in 1..Len(Chain[b[1]])
  BY EventFacts
<1>2. a[1] \in Nat /\ a[2] \in Nat /\ b[1] \in Nat /\ b[2] \in Nat
  BY <1>1, ChainFacts
<1>3. a[1] # b[1] \/ a[2] # b[2]
  BY <1>1
<1> QED
  BY <1>2, <1>3 DEF Before

\* The transaction has taken in nothing that comes before what was there.
InOrder(s, base) == \A a \in s.succeeded, b \in base.ingested : ~Before(a, b)

\* One event more: it comes after all the others, and its handler is applied to
\* what they have given.
LEMMA IngestApplies ==
  ASSUME NEW base, base.ingested \subseteq EventId, NEW l \in 1..Len(Chain),
         NEW ids, ids \subseteq EventId, NEW k \in Nat,
         k + 1 \in 1..Len(Chain[l]), NEW s, RunInv(s, base, l, ids, k),
         InOrder(s, base) => s.tables = Project(s.ingested),
         NEW n, n = ingestEventInTx(s, <<l, k + 1>>), InOrder(n, base)
  PROVE  n.tables = Project(n.ingested)
<1> DEFINE id == <<l, k + 1>>
<1>1. id \in EventId /\ id[1] = l /\ id[2] = k + 1
  BY PlaceIsEvent
<1>2. s = [tables |-> s.tables, ingested |-> s.ingested,
           failed |-> s.failed, succeeded |-> s.succeeded]
  BY DEF RunInv
<1>3. CASE id \in s.ingested
  BY <1>3 DEF ingestEventInTx
<1>4. CASE id \notin s.ingested
            /\ (event(id).name \notin supported \/ Rejects(s.tables, event(id)))
  <2>1. n = [s EXCEPT !.failed = @ \cup {id}]
    BY <1>4 DEF ingestEventInTx
  <2>2. /\ n.tables = s.tables /\ n.ingested = s.ingested
        /\ n.succeeded = s.succeeded
    BY <1>2, <2>1
  <2> QED
    BY <2>2 DEF InOrder
<1>5. CASE /\ id \notin s.ingested /\ event(id).name \in supported
           /\ ~Rejects(s.tables, event(id))
  <2> DEFINE t == Apply(s.tables, id)
  <2>1. n = [s EXCEPT !.tables = t, !.ingested = @ \cup {id},
                      !.succeeded = @ \cup {id}]
    BY <1>5 DEF ingestEventInTx, Apply
  <2>2. /\ n.tables = t /\ n.ingested = s.ingested \cup {id}
        /\ n.succeeded = s.succeeded \cup {id}
    <3> HIDE DEF t
    <3> QED
      BY <1>2, <2>1
  <2>3. s.tables = Project(s.ingested)
    BY <2>2 DEF InOrder
  <2> HIDE DEF id
  <2>4. s.ingested = base.ingested \cup s.succeeded /\ s.ingested \subseteq EventId
    BY DEF RunInv
  <2>5. ASSUME NEW y \in s.ingested PROVE Before(y, id)
    <3>1. CASE y \in base.ingested
      <4>1. ~Before(id, y) /\ y \in EventId /\ y # id
        BY <1>5, <2>2, <3>1 DEF InOrder
      <4> QED
        BY <1>1, <4>1, BeforeTotal
    <3>2. CASE y \in s.succeeded
      <4>1. y = <<l, y[2]>> /\ y[2] \in 1..k
        BY <3>2 DEF RunInv
      <4> QED
        BY <1>1, <4>1 DEF Before
    <3> QED
      BY <2>4, <3>1, <3>2
  <2>6. Project(s.ingested \cup {id}) = Apply(Project(s.ingested), id)
    BY <1>1, <2>4, <2>5, AddLast
  <2> QED
    BY <2>2, <2>3, <2>6
<1> QED
  BY <1>3, <1>4, <1>5

\* So a ledger that is taken in after all that was there is projected.
LEMMA RunApplies ==
  ASSUME NEW base, Untouched(base), base.ingested \subseteq EventId,
         base.tables = Project(base.ingested),
         NEW l \in 1..Len(Chain), NEW ids, ids \subseteq EventId,
         supported \subseteq Projected,
         NEW after, after = InLedger(ingestEventInTx, base, l, ids)[Len(Chain[l])],
         InOrder(after, base)
  PROVE  after.tables = Project(after.ingested)
<1> DEFINE A == InLedger(ingestEventInTx, base, l, ids)
           n == Len(Chain[l])
           S == {k \in Nat : k <= n /\ InOrder(A[k], base)
                               => A[k].tables = Project(A[k].ingested)}
<1>1. IsRun(A, base, l, ids, n)
  BY RunIs
<1>2. n \in Nat
  BY ChainFacts
<1>3. \A k \in 0..n : RunInv(A[k], base, l, ids, k)
  BY LedgerRunTo
<1>4. after = A[n]
  OBVIOUS
<1> HIDE DEF A
<1>5. 0 \in S
  BY <1>1 DEF IsRun
<1>6. ASSUME NEW k \in Nat, k \in S PROVE k + 1 \in S
  <2>1. SUFFICES ASSUME k + 1 <= n, InOrder(A[k + 1], base)
                 PROVE  A[k + 1].tables = Project(A[k + 1].ingested)
    OBVIOUS
  <2>2. /\ k + 1 \in 1..n /\ (k + 1) - 1 = k /\ k \in 0..n
        /\ RunInv(A[k], base, l, ids, k)
        /\ InOrder(A[k], base) => A[k].tables = Project(A[k].ingested)
    BY <1>2, <1>3, <1>6, <2>1
  <2>3. CASE <<l, k + 1>> \in ids
    <3>1. A[k + 1] = ingestEventInTx(A[k], <<l, k + 1>>)
      BY <1>1, <2>2, <2>3 DEF IsRun
    <3> QED
      BY <2>1, <2>2, <3>1, IngestApplies
  <2>4. CASE <<l, k + 1>> \notin ids
    <3>1. A[k + 1] = A[k]
      BY <1>1, <2>2, <2>4 DEF IsRun
    <3> QED
      BY <2>1, <2>2, <3>1
  <2> QED
    BY <2>3, <2>4
<1> HIDE DEF S
<1>7. \A k \in Nat : k \in S
  BY <1>5, <1>6, InductiveSet
<1>8. n \in S
  BY <1>2, <1>7
<1> QED
  BY <1>2, <1>4, <1>8 DEF S

\* Without retries of what failed, partial replays and full ones from the
\* middle on, the tables are the ingested events applied once each, in order.
ExactlyOnce ==
  ~reordered /\ ~partial /\ ~emptied => tables = Project(ingested)

\* A ledger transaction applies the next events of the order.
LEMMA CommitProjects ==
  ASSUME TypeOK, ExactlyOnce, UNCHANGED history,
         NEW l \in 1..Len(Chain),
         NEW ids, ids \subseteq {id \in EventId : id[1] = l},
         processLedger(l, ids)
  PROVE  ExactlyOnce'
<1> DEFINE base == [tables |-> tables, ingested |-> ingested,
                    failed |-> {}, succeeded |-> {}]
           after == InLedger(ingestEventInTx, base, l, ids)[Len(Chain[l])]
<1>1. /\ tables' = after.tables /\ ingested' = after.ingested
      /\ reordered' = (reordered \/ \E a \in after.succeeded, b \in ingested :
                                      Before(a, b))
  BY DEF processLedger
<1>2. /\ Untouched(base) /\ base.tables = tables /\ base.ingested = ingested
      /\ ingested \subseteq EventId /\ ids \subseteq EventId
  BY DEF Untouched, TypeOK
<1> HIDE DEF base
<1>3. SUFFICES ASSUME ~reordered', ~partial, ~emptied
               PROVE  tables' = Project(ingested)'
  BY DEF ExactlyOnce, history
<1>4. ~(reordered \/ \E a \in after.succeeded, b \in ingested : Before(a, b))
  <2> HIDE DEF after
  <2> QED
    BY <1>1, <1>3, Zenon
<1>5. tables = Project(ingested)
  BY <1>3, <1>4 DEF ExactlyOnce
<1>6. InOrder(after, base)
  <2> HIDE DEF after
  <2> QED
    BY <1>2, <1>4 DEF InOrder
<1>7. after.tables = Project(after.ingested)
  <2>1. after = InLedger(ingestEventInTx, base, l, ids)[Len(Chain[l])]
    OBVIOUS
  <2> HIDE DEF after
  <2> QED
    BY <1>2, <1>5, <1>6, <2>1, BuildKnows, RunApplies
<1> HIDE DEF after
<1> QED
  BY <1>1, <1>7

\* A replay without one of the three exceptions empties the tables.
LEMMA ReplayProjects ==
  ASSUME TypeOK, ExactlyOnce, NEW args \in Commands, Replay(args)
  PROVE  ExactlyOnce'
<1>1. PICK from \in Nat : ReplayFull(from) \/ ReplayPartial(from)
                                          \/ RetryFailed(from)
  BY ReplayIs
<1>2. CASE ReplayFull(from)
  <2>1. SUFFICES ASSUME ~emptied' PROVE tables' = Project(ingested)'
    BY DEF ExactlyOnce
  <2>2. ingested' = {} /\ tables' = EmptyTables
    BY <1>2, <2>1 DEF ReplayFull
  <2> QED
    BY <2>2, ProjectNothing
<1>3. CASE ReplayPartial(from)
  BY <1>3 DEF ReplayPartial, ExactlyOnce
<1>4. CASE RetryFailed(from)
  BY <1>4 DEF RetryFailed, ExactlyOnce
<1> QED
  BY <1>1, <1>2, <1>3, <1>4

\* Every step keeps it.
LEMMA OnceStep ==
  ASSUME TypeOK, ExactlyOnce, [Next]_vars PROVE ExactlyOnce'
<1>1. CASE UNCHANGED <<database, history>>
  BY <1>1 DEF ExactlyOnce, database, history
<1>2. CASE CommitLedger
  <2>1. PICK l \in 1..Len(Chain) :
          LET ids == {id \in items : id[1] = l} IN
            /\ processLedger(l, ids)
            /\ ids \subseteq {id \in EventId : id[1] = l}
    BY <1>2, CommitLedgerIs
  <2>2. UNCHANGED history
    BY <1>2 DEF CommitLedger
  <2> QED
    BY <2>1, <2>2, CommitProjects
<1>3. CASE FinishBatch
  <2>1. CASE toLedger \in 1..Len(Chain) /\ processLedger(toLedger, {})
    <3>1. UNCHANGED history
      BY <1>3 DEF FinishBatch
    <3> QED
      BY <2>1, <3>1, CommitProjects
  <2>2. CASE UNCHANGED database
    BY <1>1, <1>3, <2>2 DEF FinishBatch
  <2> QED
    BY <1>3, <2>1, <2>2, FinishBatchIs
<1>4. ASSUME NEW args \in Commands, Replay(args) PROVE ExactlyOnce'
  BY <1>4, ReplayProjects
<1>5. [Next]_vars => \/ UNCHANGED <<database, history>>
                     \/ CommitLedger \/ FinishBatch
                     \/ \E args \in Commands : Replay(args)
  BY DEF Next, vars, startIndexer, stopIndexer, Stopped, Crash, Upgrade, tick,
         ObserveHead, FetchEvents, ShrinkBatch, CycleFails, BackoffElapses
<1> QED
  BY <1>1, <1>2, <1>3, <1>4, <1>5

\* Crashes, transient errors, lagging answers and batches cut in two: every
\* ingested event has been applied once, and in the order of the chain.
THEOREM AppliedOnce == Spec => []ExactlyOnce
<1>1. Init => ExactlyOnce
  BY ProjectNothing DEF Init, ExactlyOnce
<1>2. TypeOK /\ ExactlyOnce /\ [Next]_vars => ExactlyOnce'
  BY OnceStep
<1>3. Spec => []TypeOK
  <2>1. IngestInv => TypeOK
    BY DEF IngestInv
  <2> QED
    BY <2>1, IngestInvariance, PTL
<1> QED
  BY <1>1, <1>2, <1>3, PTL DEF Spec

-----------------------------------------------------------------------------
(* The order of the chain.                                                 *)

\* Induction along the order of the chain: what holds of no event, and of a set
\* with a last event if it holds of the others, holds of every set of events.
LEMMA ChainInduction ==
  ASSUME NEW F, {} \in F,
         \A Y \in SUBSET EventId, id \in EventId :
           Y \in F /\ (\A y \in Y : Before(y, id)) => Y \cup {id} \in F
  PROVE  \A Y \in SUBSET EventId : Y \in F
<1> DEFINE Fits(Y, l, i) == \A y \in Y : y[1] <= l \/ (y[1] = l + 1 /\ y[2] <= i)
           P == {l \in Nat : l <= Len(Chain) =>
                   \A Y \in SUBSET EventId : Fits(Y, l, 0) => Y \in F}
<1>1. \A id \in EventId : /\ id = <<id[1], id[2]>> /\ id[1] \in Nat /\ id[2] \in Nat
                          /\ 1 <= id[1] /\ 1 <= id[2] /\ id[1] <= Len(Chain)
                          /\ id[2] <= Len(Chain[id[1]])
  <2>1. TAKE id \in EventId
  <2>2. /\ id = <<id[1], id[2]>>
        /\ id[1] \in 1..Len(Chain) /\ id[2] \in 1..Len(Chain[id[1]])
    BY EventFacts
  <2>3. Len(Chain) \in Nat /\ Len(Chain[id[1]]) \in Nat
    BY <2>2, ChainFacts
  <2> QED
    BY <2>2, <2>3
<1>2. 0 \in P
  <2>1. SUFFICES ASSUME NEW Y \in SUBSET EventId, Fits(Y, 0, 0) PROVE Y = {}
    OBVIOUS
  <2> QED
    BY <1>1, <2>1
<1>3. ASSUME NEW l \in Nat, l \in P PROVE l + 1 \in P
  <2>1. SUFFICES ASSUME l + 1 <= Len(Chain)
                 PROVE  \A Y \in SUBSET EventId : Fits(Y, l + 1, 0) => Y \in F
    OBVIOUS
  <2> DEFINE n == Len(Chain[l + 1])
             Q == {i \in Nat : i <= n =>
                     \A Y \in SUBSET EventId : Fits(Y, l, i) => Y \in F}
  <2>2. n \in Nat /\ Len(Chain) \in Nat /\ l + 1 \in 1..Len(Chain)
    BY <2>1, ChainFacts
  <2>3. 0 \in Q
    BY <1>3, <2>1, <2>2
  <2>4. ASSUME NEW i \in Nat, i \in Q PROVE i + 1 \in Q
    <3>1. SUFFICES ASSUME i + 1 <= n, NEW Y \in SUBSET EventId, Fits(Y, l, i + 1)
                   PROVE  Y \in F
      OBVIOUS
    <3> DEFINE id == <<l + 1, i + 1>>
               Z == Y \ {id}
    <3>2. id \in EventId /\ id[1] = l + 1 /\ id[2] = i + 1
      BY <2>2, <3>1, PlaceIsEvent
    <3> HIDE DEF id
    <3>3. ASSUME NEW y \in Z
          PROVE  y[1] <= l \/ (y[1] = l + 1 /\ y[2] <= i)
      <4>1. /\ y = <<y[1], y[2]>> /\ y[1] \in Nat /\ y[2] \in Nat /\ y # id
            /\ y[1] <= l \/ (y[1] = l + 1 /\ y[2] <= i + 1)
        BY <1>1, <3>1
      <4>2. ~(y[1] = l + 1 /\ y[2] = i + 1)
        BY <4>1 DEF id
      <4> QED
        BY <4>1, <4>2
    <3>4. Z \in F
      BY <2>4, <3>1, <3>3
    <3>5. \A y \in Z : Before(y, id)
      <4>1. TAKE y \in Z
      <4>2. y[1] \in Nat /\ y[2] \in Nat
        BY <1>1
      <4> QED
        BY <3>2, <3>3, <4>2 DEF Before
    <3>6. CASE id \in Y
      <4>1. Y = Z \cup {id}
        BY <3>6
      <4>2. Z \in SUBSET EventId
        OBVIOUS
      <4> HIDE DEF Z
      <4> QED
        BY <3>2, <3>4, <3>5, <4>1, <4>2
    <3>7. CASE id \notin Y
      <4>1. Y = Z
        BY <3>7
      <4> QED
        BY <3>4, <4>1
    <3> QED
      BY <3>6, <3>7
  <2> HIDE DEF Q
  <2>5. \A i \in Nat : i \in Q
    BY <2>3, <2>4, InductiveSet
  <2>6. SUFFICES ASSUME NEW Y \in SUBSET EventId, Fits(Y, l + 1, 0) PROVE Y \in F
    OBVIOUS
  <2>7. Fits(Y, l, n)
    <3>1. SUFFICES ASSUME NEW y \in Y PROVE y[1] <= l \/ (y[1] = l + 1 /\ y[2] <= n)
      OBVIOUS
    <3>2. y \in EventId /\ (y[1] <= l + 1 \/ (y[1] = l + 1 + 1 /\ y[2] <= 0))
      BY <2>6
    <3> QED
      BY <1>1, <3>2
  <2> QED
    BY <2>2, <2>5, <2>6, <2>7 DEF Q
<1> HIDE DEF P
<1>4. \A l \in Nat : l \in P
  BY <1>2, <1>3, InductiveSet
<1>5. SUFFICES ASSUME NEW Y \in SUBSET EventId PROVE Y \in F
  OBVIOUS
<1>6. Len(Chain) \in Nat /\ \A y \in Y : y[1] <= Len(Chain)
  BY <1>1, ChainFacts
<1> QED
  BY <1>4, <1>6 DEF P

-----------------------------------------------------------------------------
(* What an event writes.                                                   *)

\* A column of a row, or its value in a row that is still to be made.
Cell(T, blank, k, col) == IF k \in DOMAIN T THEN T[k][col] ELSE blank[col]

\* N is T after an event that makes the rows of made and writes into the cells of
\* written what is in W.
Effect(N, T, blank, cols, made, written, W) ==
  /\ DOMAIN N = DOMAIN T \cup made
  /\ \A k \in DOMAIN N, col \in cols :
       N[k][col] = IF <<k, col>> \in written THEN W[k][col]
                                             ELSE Cell(T, blank, k, col)

\* T is P but for rows of made and the cells of written.
Like(T, P, blank, cols, made, written) ==
  /\ DOMAIN P \subseteq DOMAIN T /\ DOMAIN T \subseteq DOMAIN P \cup made
  /\ \A k \in DOMAIN T, col \in cols :
       T[k][col] = Cell(P, blank, k, col) \/ <<k, col>> \in written

\* An event that is applied to both makes up for its differences, if it finds or
\* makes the rows it writes to.
LEMMA LikeBoth ==
  ASSUME NEW T, NEW P, NEW blank, NEW cols, NEW D, NEW X, NEW made, NEW written,
         NEW W, NEW N, NEW Q, Like(T, P, blank, cols, D, X),
         Effect(N, T, blank, cols, made, written, W),
         Effect(Q, P, blank, cols, made, written, W),
         NEW D2, NEW X2, D \subseteq D2 \cup made, X \subseteq X2 \cup written,
         \A k \in D, col \in cols : <<k, col>> \in written => k \in made
  PROVE  Like(N, Q, blank, cols, D2, X2)
<1>1. DOMAIN N = DOMAIN T \cup made /\ DOMAIN Q = DOMAIN P \cup made
  BY DEF Effect
<1>2. DOMAIN Q \subseteq DOMAIN N /\ DOMAIN N \subseteq DOMAIN Q \cup D2
  BY <1>1 DEF Like
<1>3. ASSUME NEW k \in DOMAIN N, NEW col \in cols
      PROVE  N[k][col] = Cell(Q, blank, k, col) \/ <<k, col>> \in X2
  <2>1. CASE <<k, col>> \in written
    <3>1. k \in DOMAIN Q
      BY <1>1, <2>1 DEF Like
    <3> QED
      BY <2>1, <3>1 DEF Effect, Cell
  <2>2. CASE <<k, col>> \notin written
    <3>1. N[k][col] = Cell(T, blank, k, col)
      BY <2>2 DEF Effect
    <3>2. Cell(Q, blank, k, col) = Cell(P, blank, k, col)
      BY <1>1, <2>2 DEF Effect, Cell
    <3>3. CASE k \in DOMAIN T
      BY <2>2, <3>1, <3>2, <3>3 DEF Like, Cell
    <3>4. CASE k \notin DOMAIN T
      BY <3>1, <3>2, <3>4 DEF Like, Cell
    <3> QED
      BY <3>3, <3>4
  <2> QED
    BY <2>1, <2>2
<1> QED
  BY <1>2, <1>3 DEF Like

\* One that is applied to the first only makes differences of its own.
LEMMA LikeOne ==
  ASSUME NEW T, NEW P, NEW blank, NEW cols, NEW D, NEW X, NEW made, NEW written,
         NEW W, NEW N, Like(T, P, blank, cols, D, X),
         Effect(N, T, blank, cols, made, written, W),
         NEW D2, NEW X2, D \cup made \subseteq D2, X \cup written \subseteq X2
  PROVE  Like(N, P, blank, cols, D2, X2)
<1>1. DOMAIN N = DOMAIN T \cup made
  BY DEF Effect
<1>2. DOMAIN P \subseteq DOMAIN N /\ DOMAIN N \subseteq DOMAIN P \cup D2
  BY <1>1 DEF Like
<1>3. ASSUME NEW k \in DOMAIN N, NEW col \in cols
      PROVE  N[k][col] = Cell(P, blank, k, col) \/ <<k, col>> \in X2
  <2>1. CASE <<k, col>> \in written
    BY <2>1
  <2>2. CASE <<k, col>> \notin written
    <3>1. N[k][col] = Cell(T, blank, k, col)
      BY <2>2 DEF Effect
    <3>2. CASE k \in DOMAIN T
      BY <3>1, <3>2 DEF Like, Cell
    <3>3. CASE k \notin DOMAIN T
      BY <3>1, <3>3 DEF Like, Cell
    <3> QED
      BY <3>2, <3>3
  <2> QED
    BY <2>1, <2>2
<1> QED
  BY <1>2, <1>3 DEF Like

\* A table is like itself.
LEMMA LikeItself ==
  ASSUME NEW T, NEW blank, NEW cols, NEW D, NEW X
  PROVE  Like(T, T, blank, cols, D, X)
BY DEF Like, Cell

-----------------------------------------------------------------------------
(* What the handlers write.                                                *)

CircleColumns == DOMAIN NewCircle("", 0, 0)
MemberColumns == {"payout_order", "join_order", "collateral"}

BlankCircle == NewCircle("", 0, 0)
BlankMember == [payout_order |-> 0, join_order |-> 0, collateral |-> 0,
                defaults |-> 0]
BlankScore == [score |-> 0]

\* The rows and the cells of the tables that no partial replay trims.
CirclesMade(e) ==
  IF e.name \in {"circle_created", "initialized"} THEN {e.circle} ELSE {}

CircleColumnsOf(e) ==
  CASE e.name = "circle_created"                    -> {"creator"}
    [] e.name = "initialized"                       -> {"round_amount", "member_count"}
    [] e.name \in {"active", "completed", "cancelled"} -> {"status"}
    [] e.name \in {"payout", "round_started"}       -> {"current_round"}
    [] e.name \in {"paused", "resumed"}             -> {"paused"}
    [] e.name = "closed"       -> {"status", "total_released", "close_reason"}
    [] OTHER                                        -> {}


Slots(e) == {<<e.circle, m>> : m \in Range(e.members)}

MembersMade(e) == IF e.name = "initialized" THEN Slots(e) ELSE {}

MembersWritten(e) ==
  IF e.name = "initialized" THEN {<<k, "payout_order">> : k \in Slots(e)}
  ELSE IF e.name = "joined"
    THEN {<<<<e.circle, e.member>>, col>> : col \in {"join_order", "collateral"}}
  ELSE {}

ScoresMade(e) == IF e.name = "score_updated" THEN {e.member}
                 ELSE IF e.name = "increment" THEN {e.topics[2]} ELSE {}

ScoresWritten(e) == {<<m, "score">> : m \in ScoresMade(e)}

\* The scores as a table of rows.
Scores(t) == [m \in DOMAIN t.reputation |-> [score |-> t.reputation[m]]]

\* The place of a member in the rotation.
SlotOf(e, m) == (CHOOSE i \in DOMAIN e.members : e.members[i] = m) - 1

\* The tables hold what the chain says: a creator is that of the announcement,
\* a member has its place in the rotation.
IsCircle(r) ==
  r = [creator |-> r.creator, round_amount |-> r.round_amount,
       member_count |-> r.member_count, status |-> r.status,
       current_round |-> r.current_round, paused |-> r.paused,
       total_released |-> r.total_released, close_reason |-> r.close_reason]

IsMember(r) ==
  r = [payout_order |-> r.payout_order, join_order |-> r.join_order,
       collateral |-> r.collateral, defaults |-> r.defaults]

\* A circle's creator is still to be filled in, or that of its announcement.
CreatorOf(c, creator) ==
  creator = "" \/ \E a \in Creation : event(a).circle = c /\ event(a).creator = creator

\* A member's place is that of the rotation.
PlaceOf(k, n) ==
  \E a \in EventId : /\ event(a).name = "initialized"
                     /\ k \in Slots(event(a)) /\ n = SlotOf(event(a), k[2])

CirclesTrue(T) ==
  /\ T = [c \in DOMAIN T |-> T[c]]
  /\ \A c \in DOMAIN T : IsCircle(T[c]) /\ CreatorOf(c, T[c].creator)

MembersTrue(T) ==
  /\ T = [k \in DOMAIN T |-> T[k]]
  /\ \A k \in DOMAIN T : IsMember(T[k]) /\ PlaceOf(k, T[k].payout_order)

IsTables(t) ==
  t = [circles |-> t.circles, circle_members |-> t.circle_members,
       contributions |-> t.contributions, payouts |-> t.payouts,
       defaults |-> t.defaults, circle_audit_events |-> t.circle_audit_events,
       reputation |-> t.reputation]

Truthful(t) ==
  /\ IsTables(t) /\ CirclesTrue(t.circles) /\ MembersTrue(t.circle_members)
  /\ t.reputation = [m \in DOMAIN t.reputation |-> t.reputation[m]]

\* The columns of a circle.
LEMMA Columns ==
  CircleColumns = {"creator", "round_amount", "member_count", "status",
                   "current_round", "paused", "total_released", "close_reason"}
BY DEF CircleColumns, NewCircle

\* The cells of a row, or of a new one.
LEMMA NewCircleCells ==
  ASSUME NEW creator, NEW amount, NEW count
  PROVE  LET r == NewCircle(creator, amount, count)
         IN  /\ IsCircle(r) /\ r.creator = creator
             /\ r.round_amount = amount /\ r.member_count = count
             /\ \A col \in CircleColumns :
                  col \notin {"creator", "round_amount", "member_count"}
                    => r[col] = BlankCircle[col]
<1>1. PICK none : none = ""
  OBVIOUS
<1>2. PICK pending : pending = "Pending"
  OBVIOUS
<1>3. /\ NewCircle(creator, amount, count) =
           [creator |-> creator, round_amount |-> amount, member_count |-> count,
            status |-> pending, current_round |-> 0, paused |-> FALSE,
            total_released |-> 0, close_reason |-> none]
      /\ BlankCircle =
           [creator |-> none, round_amount |-> 0, member_count |-> 0,
            status |-> pending, current_round |-> 0, paused |-> FALSE,
            total_released |-> 0, close_reason |-> none]
  BY <1>1, <1>2, Zenon DEF NewCircle, BlankCircle
<1>4. PICK no : no = FALSE
  OBVIOUS
<1> QED
  BY <1>3, Columns DEF IsCircle

\* The cells of a column set.
CellsOf(c, cols) == {<<c, col>> : col \in cols}

\* What an event leaves in the row of a circle.
Fills(r, T, c, cols, V) ==
  /\ IsCircle(r) /\ CreatorOf(c, r.creator)
  /\ \A col \in cols : r[col] = V[c][col]
  /\ \A col \in CircleColumns \ cols : r[col] = Cell(T, BlankCircle, c, col)

\* A row that exists is updated, or nothing happens.
LEMMA RowUpdated ==
  ASSUME NEW T, CirclesTrue(T), NEW c, NEW cols, NEW r, NEW V,
         NEW N, N = IF c \in DOMAIN T THEN [T EXCEPT ![c] = r] ELSE T,
         c \in DOMAIN T => Fills(r, T, c, cols, V)
  PROVE  /\ CirclesTrue(N)
         /\ Effect(N, T, BlankCircle, CircleColumns, {}, CellsOf(c, cols), V)
<1>1. DOMAIN N = DOMAIN T /\ \A k \in DOMAIN N : N[k] = IF k = c THEN r ELSE T[k]
  BY DEF CirclesTrue
<1>2. CirclesTrue(N)
  BY <1>1 DEF CirclesTrue, Fills
<1> QED
  BY <1>1, <1>2 DEF Effect, Cell, Fills, CellsOf

\* A row is made, or what is there is filled in.
LEMMA RowUpserted ==
  ASSUME NEW T, CirclesTrue(T), NEW c, NEW cols, NEW r, NEW V,
         NEW N, N = Upsert(T, c, r), Fills(r, T, c, cols, V)
  PROVE  /\ CirclesTrue(N)
         /\ Effect(N, T, BlankCircle, CircleColumns, {c}, CellsOf(c, cols), V)
<1>1. /\ N = [k \in DOMAIN T \cup {c} |-> IF k = c THEN r ELSE T[k]]
  BY DEF Upsert
<1>2. /\ DOMAIN N = DOMAIN T \cup {c}
      /\ \A k \in DOMAIN N : N[k] = IF k = c THEN r ELSE T[k]
      /\ N = [k \in DOMAIN N |-> N[k]]
  BY <1>1
<1>3. CirclesTrue(N)
  BY <1>2 DEF CirclesTrue, Fills
<1> QED
  BY <1>2, <1>3 DEF Effect, Cell, Fills, CellsOf

CirclesWritten(e) == CellsOf(e.circle, CircleColumnsOf(e))

\* A table that is left alone.
LEMMA LeftAlone ==
  ASSUME NEW T, NEW blank, NEW cols, NEW V
  PROVE  Effect(T, T, blank, cols, {}, {}, V)
BY DEF Effect, Cell

\* An event of the chain and its handler.
LEMMA CreatedOnce ==
  ASSUME NEW a \in Creation, NEW b \in Creation, event(a).circle = event(b).circle
  PROVE  a = b
BY ChainOrder

\* No event comes before itself, nor before one that it follows.
LEMMA NotBoth ==
  ASSUME NEW a \in EventId, NEW b \in EventId, Before(a, b) PROVE ~Before(b, a)
<1>1. /\ a[1] \in 1..Len(Chain) /\ b[1] \in 1..Len(Chain)
      /\ a[2] \in 1..Len(Chain[a[1]]) /\ b[2] \in 1..Len(Chain[b[1]])
  BY EventFacts
<1>2. a[1] \in Nat /\ a[2] \in Nat /\ b[1] \in Nat /\ b[2] \in Nat
  BY <1>1, ChainFacts
<1> QED
  BY <1>2 DEF Before

\* A circle is initialized once.
LEMMA InitializedOnce ==
  ASSUME NEW a \in EventId, NEW b \in EventId,
         event(a).name = "initialized", event(b).name = "initialized",
         event(a).circle = event(b).circle
  PROVE  a = b
<1>1. a \in AboutCircle /\ b \in AboutCircle
  BY DEF AboutCircle, Projected
<1>2. a # b => Before(a, b) /\ Before(b, a)
  BY <1>1, ChainEvents
<1> QED
  BY <1>2, NotBoth

\* The row of a circle that is closed.
LEMMA ClosedRow ==
  ASSUME NEW r, IsCircle(r), NEW status, NEW released, NEW reason
  PROVE  [r EXCEPT !.status = status, !.total_released = released,
                   !.close_reason = reason]
           = [creator |-> r.creator, round_amount |-> r.round_amount,
              member_count |-> r.member_count, status |-> status,
              current_round |-> r.current_round, paused |-> r.paused,
              total_released |-> released, close_reason |-> reason]
<1>1. PICK a1, a2, a3, a4, a5, a6, a7, a8 :
        r = [creator |-> a1, round_amount |-> a2, member_count |-> a3,
             status |-> a4, current_round |-> a5, paused |-> a6,
             total_released |-> a7, close_reason |-> a8]
  BY Zenon DEF IsCircle
<1> DEFINE r1 == [r EXCEPT !.status = status]
           r2 == [r1 EXCEPT !.total_released = released]
           r3 == [r2 EXCEPT !.close_reason = reason]
<1>2. r1 = [creator |-> a1, round_amount |-> a2, member_count |-> a3,
            status |-> status, current_round |-> a5, paused |-> a6,
            total_released |-> a7, close_reason |-> a8]
  BY <1>1
<1> HIDE DEF r1
<1>3. r2 = [creator |-> a1, round_amount |-> a2, member_count |-> a3,
            status |-> status, current_round |-> a5, paused |-> a6,
            total_released |-> released, close_reason |-> a8]
  BY <1>2
<1> HIDE DEF r2
<1>4. r3 = [creator |-> a1, round_amount |-> a2, member_count |-> a3,
            status |-> status, current_round |-> a5, paused |-> a6,
            total_released |-> released, close_reason |-> reason]
  BY <1>3
<1>5. [r EXCEPT !.status = status, !.total_released = released,
                !.close_reason = reason] = r3
  BY DEF r1, r2
<1>6. /\ r.creator = a1 /\ r.round_amount = a2 /\ r.member_count = a3
      /\ r.current_round = a5 /\ r.paused = a6
  BY <1>1
<1> QED
  BY <1>4, <1>5, <1>6

\* N is T, with the row r for c if there is one.
IsUpdate(N, T, c, cols, r, w) ==
  /\ N = IF c \in DOMAIN T THEN [T EXCEPT ![c] = r] ELSE T
  /\ c \in DOMAIN T => /\ IsCircle(r) /\ r.creator = T[c].creator
                       /\ \A col \in cols : r[col] = w[col]
                       /\ \A col \in CircleColumns \ cols : r[col] = T[c][col]

\* The circles after an event.
LEMMA CirclesEffect ==
  ASSUME NEW id \in EventId, event(id).name \in Projected
  PROVE  \E V : \A t : Truthful(t) =>
           LET e == event(id)
               n == Handle(t, e)
           IN  /\ IsTables(n) /\ CirclesTrue(n.circles)
               /\ Effect(n.circles, t.circles, BlankCircle, CircleColumns,
                         CirclesMade(e), CirclesWritten(e), V)
<1> DEFINE e == event(id)
           c == e.circle
           Good(t, V) == /\ IsTables(Handle(t, e)) /\ CirclesTrue(Handle(t, e).circles)
                         /\ Effect(Handle(t, e).circles, t.circles, BlankCircle,
                                   CircleColumns, CirclesMade(e), CirclesWritten(e), V)
<1> SUFFICES \E V : \A t : Truthful(t) => Good(t, V)
  OBVIOUS
<1> DEFINE Updates(t, w) ==
             /\ IsTables(Handle(t, e))
             /\ \E r : IsUpdate(Handle(t, e).circles, t.circles, c,
                               CircleColumnsOf(e), r, w)
<1>0. e.name \in Projected /\ (e.name = "circle_created" <=> id \in Creation)
  BY DEF Creation
<1>1. CASE e.name \in {"joined", "contributed", "default", "exceptional_settlement",
                       "score_updated", "increment"}
  <2>1. CirclesMade(e) = {} /\ CirclesWritten(e) = {}
    BY <1>1 DEF CirclesMade, CirclesWritten, CircleColumnsOf, CellsOf
  <2>2. ASSUME NEW t, Truthful(t) PROVE IsTables(Handle(t, e)) /\ Handle(t, e).circles = t.circles
    <3> USE <2>2 DEF Truthful, IsTables
    <3>1. CASE e.name = "joined"
      <4>1. Handle(t, e) = handleCircleJoined(t, e)
        BY <3>1 DEF Handle
      <4> QED
        BY <4>1 DEF handleCircleJoined
    <3>2. CASE e.name = "contributed"
      <4>1. Handle(t, e) = handleCircleContributed(t, e)
        BY <3>2 DEF Handle
      <4> QED
        BY <4>1 DEF handleCircleContributed
    <3>3. CASE e.name = "default"
      <4>1. Handle(t, e) = handleCircleDefault(t, e)
        BY <3>3 DEF Handle
      <4> QED
        BY <4>1 DEF handleCircleDefault
    <3>4. CASE e.name = "exceptional_settlement"
      <4>1. Handle(t, e) = handleCircleExceptionalSettlement(t, e)
        BY <3>4 DEF Handle
      <4> QED
        BY <4>1 DEF handleCircleExceptionalSettlement
    <3>5. CASE e.name \in {"score_updated", "increment"}
      <4>1. Handle(t, e) \in {handleReputationScoreUpdated(t, e), handleReputationIncrement(t, e)}
        BY <3>5 DEF Handle
      <4> QED
        BY <4>1 DEF handleReputationScoreUpdated, handleReputationIncrement
    <3> QED
      BY <1>1, <3>1, <3>2, <3>3, <3>4, <3>5
  <2> HIDE DEF e
  <2>3. \A t : Truthful(t) => Good(t, <<>>)
    <3>1. SUFFICES ASSUME NEW t, Truthful(t) PROVE Good(t, <<>>)
      OBVIOUS
    <3>2. PICK V : V = <<>>
      OBVIOUS
    <3>3. Effect(t.circles, t.circles, BlankCircle, CircleColumns, {}, {}, V)
      BY LeftAlone
    <3> QED
      BY <2>1, <2>2, <3>1, <3>2, <3>3 DEF Truthful
  <2> QED
    BY <2>3
<1>2. ASSUME e.name \in {"active", "completed", "cancelled"}
      PROVE  \E w : \A t : Truthful(t) => Updates(t, w)
  <2>1. PICK w : w = [status |-> IF e.name = "active" THEN "Active"
                              ELSE IF e.name = "completed" THEN "Completed"
                              ELSE "Cancelled"]
    OBVIOUS
  <2>2. CirclesMade(e) = {} /\ CircleColumnsOf(e) = {"status"}
    BY <1>2 DEF CirclesMade, CircleColumnsOf
  <2>3. ASSUME NEW t, Truthful(t) PROVE Updates(t, w)
    <3> DEFINE T == t.circles
               r == [T[c] EXCEPT !.status = w.status]
    <3>1. IsTables(t) /\ CirclesTrue(T)
      BY <2>3 DEF Truthful
    <3>2. /\ IsTables(Handle(t, e))
          /\ Handle(t, e).circles = IF c \in DOMAIN T THEN [T EXCEPT ![c] = r] ELSE T
      <4>1. CASE e.name = "active"
        <5>1. Handle(t, e) = handleCircleActive(t, e)
          BY <4>1 DEF Handle
        <5> QED
          BY <2>1, <3>1, <4>1, <5>1 DEF IsTables, handleCircleActive, UpdateCircle, SetStatus
      <4>2. CASE e.name = "completed"
        <5>1. Handle(t, e) = handleCircleCompleted(t, e)
          BY <4>2 DEF Handle
        <5> QED
          BY <2>1, <3>1, <4>2, <5>1 DEF IsTables, handleCircleCompleted, UpdateCircle, SetStatus
      <4>3. CASE e.name = "cancelled"
        <5>1. Handle(t, e) = handleCircleCancelled(t, e)
          BY <4>3 DEF Handle
        <5> QED
          BY <2>1, <3>1, <4>3, <5>1 DEF IsTables, handleCircleCancelled, UpdateCircle, SetStatus, Audited
      <4> QED
        BY <1>2, <4>1, <4>2, <4>3
    <3>3. c \in DOMAIN T => /\ IsCircle(r) /\ r.creator = T[c].creator
                            /\ \A col \in CircleColumnsOf(e) : r[col] = w[col]
                            /\ \A col \in CircleColumns \ CircleColumnsOf(e) :
                                 r[col] = T[c][col]
      <4> HIDE DEF T, e, c
      <4> QED
        BY <2>1, <2>2, <3>1, Columns DEF CirclesTrue, IsCircle
    <3> HIDE DEF r, T, e, c
    <3>4. IsUpdate(Handle(t, e).circles, T, c, CircleColumnsOf(e), r, w)
      BY <3>2, <3>3 DEF IsUpdate
    <3>5. Updates(t, w)
      BY <3>2, <3>4 DEF T
    <3> QED
      BY <3>5
  <2> HIDE DEF Updates
  <2> QED
    BY <2>3
<1>3. ASSUME e.name \in {"payout", "round_started"}
      PROVE  \E w : \A t : Truthful(t) => Updates(t, w)
  <2>1. PICK w : w = [current_round |-> IF e.name = "payout" THEN e.round + 1
                                     ELSE e.round]
    OBVIOUS
  <2>2. CirclesMade(e) = {} /\ CircleColumnsOf(e) = {"current_round"}
    BY <1>3 DEF CirclesMade, CircleColumnsOf
  <2>3. ASSUME NEW t, Truthful(t) PROVE Updates(t, w)
    <3> DEFINE T == t.circles
               r == [T[c] EXCEPT !.current_round = w.current_round]
    <3>1. IsTables(t) /\ CirclesTrue(T)
      BY <2>3 DEF Truthful
    <3>2. /\ IsTables(Handle(t, e))
          /\ Handle(t, e).circles = IF c \in DOMAIN T THEN [T EXCEPT ![c] = r] ELSE T
      <4>1. CASE e.name = "payout"
        <5>1. Handle(t, e) = handleCirclePayout(t, e)
          BY <4>1 DEF Handle
        <5> QED
          BY <2>1, <3>1, <4>1, <5>1 DEF IsTables, handleCirclePayout, UpdateCircle, SetRound
      <4>2. CASE e.name = "round_started"
        <5>1. Handle(t, e) = handleCircleRoundStarted(t, e)
          BY <4>2 DEF Handle
        <5> QED
          BY <2>1, <3>1, <4>2, <5>1 DEF IsTables, handleCircleRoundStarted, UpdateCircle, SetRound
      <4> QED
        BY <1>3, <4>1, <4>2
    <3>3. c \in DOMAIN T => /\ IsCircle(r) /\ r.creator = T[c].creator
                            /\ \A col \in CircleColumnsOf(e) : r[col] = w[col]
                            /\ \A col \in CircleColumns \ CircleColumnsOf(e) :
                                 r[col] = T[c][col]
      <4> HIDE DEF T, e, c
      <4> QED
        BY <2>1, <2>2, <3>1, Columns DEF CirclesTrue, IsCircle
    <3> HIDE DEF r, T, e, c
    <3>4. IsUpdate(Handle(t, e).circles, T, c, CircleColumnsOf(e), r, w)
      BY <3>2, <3>3 DEF IsUpdate
    <3>5. Updates(t, w)
      BY <3>2, <3>4 DEF T
    <3> QED
      BY <3>5
  <2> HIDE DEF Updates
  <2> QED
    BY <2>3
<1>4. ASSUME e.name \in {"paused", "resumed"}
      PROVE  \E w : \A t : Truthful(t) => Updates(t, w)
  <2>1. PICK w : w = [paused |-> e.name = "paused"]
    OBVIOUS
  <2>2. CirclesMade(e) = {} /\ CircleColumnsOf(e) = {"paused"}
    BY <1>4 DEF CirclesMade, CircleColumnsOf
  <2>3. ASSUME NEW t, Truthful(t) PROVE Updates(t, w)
    <3> DEFINE T == t.circles
               r == [T[c] EXCEPT !.paused = w.paused]
    <3>1. IsTables(t) /\ CirclesTrue(T)
      BY <2>3 DEF Truthful
    <3>2. /\ IsTables(Handle(t, e))
          /\ Handle(t, e).circles = IF c \in DOMAIN T THEN [T EXCEPT ![c] = r] ELSE T
      <4>1. CASE e.name = "paused"
        <5>1. Handle(t, e) = handleCirclePaused(t, e)
          BY <4>1 DEF Handle
        <5> QED
          BY <2>1, <3>1, <4>1, <5>1 DEF IsTables, handleCirclePaused, UpdateCircle
      <4>2. CASE e.name = "resumed"
        <5>1. Handle(t, e) = handleCircleResumed(t, e)
          BY <4>2 DEF Handle
        <5> QED
          BY <2>1, <3>1, <4>2, <5>1 DEF IsTables, handleCircleResumed, UpdateCircle
      <4> QED
        BY <1>4, <4>1, <4>2
    <3>3. c \in DOMAIN T => /\ IsCircle(r) /\ r.creator = T[c].creator
                            /\ \A col \in CircleColumnsOf(e) : r[col] = w[col]
                            /\ \A col \in CircleColumns \ CircleColumnsOf(e) :
                                 r[col] = T[c][col]
      <4> HIDE DEF T, e, c
      <4> QED
        BY <2>1, <2>2, <3>1, Columns DEF CirclesTrue, IsCircle
    <3> HIDE DEF r, T, e, c
    <3>4. IsUpdate(Handle(t, e).circles, T, c, CircleColumnsOf(e), r, w)
      BY <3>2, <3>3 DEF IsUpdate
    <3>5. Updates(t, w)
      BY <3>2, <3>4 DEF T
    <3> QED
      BY <3>5
  <2> HIDE DEF Updates
  <2> QED
    BY <2>3
<1>5. ASSUME e.name \in {"closed"}
      PROVE  \E w : \A t : Truthful(t) => Updates(t, w)
  <2>1. PICK w : w = [status |-> "Closed", total_released |-> e.amount,
                  close_reason |-> e.reason]
    OBVIOUS
  <2>2. CirclesMade(e) = {} /\ CircleColumnsOf(e) = {"status", "total_released", "close_reason"}
    BY <1>5 DEF CirclesMade, CircleColumnsOf
  <2>3. ASSUME NEW t, Truthful(t) PROVE Updates(t, w)
    <3> DEFINE T == t.circles
               r == [T[c] EXCEPT !.status = w.status,
                             !.total_released = w.total_released,
                             !.close_reason = w.close_reason]
    <3>1. IsTables(t) /\ CirclesTrue(T)
      BY <2>3 DEF Truthful
    <3>2. /\ IsTables(Handle(t, e))
          /\ Handle(t, e).circles = IF c \in DOMAIN T THEN [T EXCEPT ![c] = r] ELSE T
      <4>1. CASE e.name = "closed"
        <5>1. Handle(t, e) = handleCircleClosed(t, e)
          BY <4>1 DEF Handle
        <5> QED
          BY <2>1, <3>1, <4>1, <5>1 DEF IsTables, handleCircleClosed, UpdateCircle, Audited
      <4> QED
        BY <1>5, <4>1
    <3>3. c \in DOMAIN T => /\ IsCircle(r) /\ r.creator = T[c].creator
                            /\ \A col \in CircleColumnsOf(e) : r[col] = w[col]
                            /\ \A col \in CircleColumns \ CircleColumnsOf(e) :
                                 r[col] = T[c][col]
      <4> HIDE DEF T, e, c
      <4>1. SUFFICES ASSUME c \in DOMAIN T
                     PROVE  /\ IsCircle(r) /\ r.creator = T[c].creator
                            /\ \A col \in CircleColumnsOf(e) : r[col] = w[col]
                            /\ \A col \in CircleColumns \ CircleColumnsOf(e) :
                                 r[col] = T[c][col]
        OBVIOUS
      <4>2. IsCircle(T[c])
        BY <3>1, <4>1 DEF CirclesTrue
      <4>3. r = [creator |-> T[c].creator, round_amount |-> T[c].round_amount,
                 member_count |-> T[c].member_count, status |-> w.status,
                 current_round |-> T[c].current_round, paused |-> T[c].paused,
                 total_released |-> w.total_released,
                 close_reason |-> w.close_reason]
        BY <4>2, ClosedRow
      <4> HIDE DEF r
      <4>4. IsCircle(r)
        BY <4>3 DEF IsCircle
      <4>5. \A col \in CircleColumnsOf(e) : r[col] = w[col]
        BY <2>2, <4>3
      <4> QED
        BY <2>2, <4>3, <4>4, <4>5, Columns
    <3> HIDE DEF r, T, e, c
    <3>4. IsUpdate(Handle(t, e).circles, T, c, CircleColumnsOf(e), r, w)
      BY <3>2, <3>3 DEF IsUpdate
    <3>5. Updates(t, w)
      BY <3>2, <3>4 DEF T
    <3> QED
      BY <3>5
  <2> HIDE DEF Updates
  <2> QED
    BY <2>3
<1>6. ASSUME CirclesMade(e) = {},
             NEW w, \A t : Truthful(t) => Updates(t, w)
      PROVE  \E V : \A t : Truthful(t) => Good(t, V)
  <2> DEFINE V == [k \in {c} |-> w]
  <2>1. V[c] = w
    OBVIOUS
  <2>2. CirclesWritten(e) = CellsOf(c, CircleColumnsOf(e))
    BY DEF CirclesWritten
  <2> HIDE DEF V
  <2>3. ASSUME NEW t, Truthful(t) PROVE Good(t, V)
    <3>0. Updates(t, w)
      <4> HIDE DEF Updates
      <4> QED
        BY <1>6, <2>3
    <3>1. PICK r : IsUpdate(Handle(t, e).circles, t.circles, c, CircleColumnsOf(e), r, w)
      <4> HIDE DEF c, e
      <4> QED
        BY <3>0
    <3>2. IsTables(Handle(t, e))
      BY <3>0
    <3>3. CirclesTrue(t.circles)
      BY <2>3 DEF Truthful
    <3> DEFINE cols == CircleColumnsOf(e)
               N == Handle(t, e).circles
               T == t.circles
    <3>4. c \in DOMAIN T => CreatorOf(c, r.creator)
      BY <3>1, <3>3 DEF CirclesTrue, IsUpdate
    <3> HIDE DEF c, e, cols, N, T
    <3>5. /\ N = IF c \in DOMAIN T THEN [T EXCEPT ![c] = r] ELSE T
          /\ c \in DOMAIN T => Fills(r, T, c, cols, V)
      BY <2>1, <3>1, <3>4 DEF T, N, cols, Fills, Cell, IsUpdate
    <3>6. /\ CirclesTrue(N)
          /\ Effect(N, T, BlankCircle, CircleColumns, {},
                    CellsOf(c, cols), V)
      <4>1. CirclesTrue(T)
        BY <3>3 DEF T
      <4> QED
        BY <3>5, <4>1, RowUpdated
    <3> QED
      BY <1>6, <2>2, <3>2, <3>6 DEF T, N, cols
  <2> QED
    BY <2>3
<1>7. CASE e.name = "circle_created"
  <2>1. CirclesMade(e) = {c} /\ CircleColumnsOf(e) = {"creator"}
    BY <1>7 DEF CirclesMade, CircleColumnsOf
  <2>2. CirclesWritten(e) = CellsOf(c, CircleColumnsOf(e))
    BY DEF CirclesWritten
  <2> DEFINE V == [k \in {c} |-> [creator |-> e.creator]]
  <2>3. V[c].creator = e.creator
    OBVIOUS
  <2>4. CreatorOf(c, e.creator)
    BY <1>0, <1>7 DEF CreatorOf
  <2>5. \A x : CreatorOf(c, x) => x = "" \/ x = e.creator
    BY <1>0, <1>7, CreatedOnce DEF CreatorOf
  <2> HIDE DEF V
  <2>6. ASSUME NEW t, Truthful(t) PROVE Good(t, V)
    <3> DEFINE T == t.circles
               N == Handle(t, e).circles
               r == IF c \in DOMAIN T THEN [T[c] EXCEPT !.creator = e.creator]
                                      ELSE NewCircle(e.creator, 0, 0)
               cols == CircleColumnsOf(e)
    <3>1. IsTables(t) /\ CirclesTrue(T)
      BY <2>6 DEF Truthful
    <3>2. Handle(t, e) = handleFactoryCircleCreated(t, e)
      BY <1>7 DEF Handle
    <3>3. c \in DOMAIN T => IsCircle(T[c]) /\ (T[c].creator = "" \/ T[c].creator = e.creator)
      BY <2>5, <3>1 DEF CirclesTrue
    <3>4. IsTables(Handle(t, e)) /\ N = Upsert(T, c, r)
      <4>1. CASE c \notin DOMAIN T
        BY <3>1, <3>2, <4>1 DEF handleFactoryCircleCreated, IsTables
      <4>2. CASE c \in DOMAIN T
        <5>1. IsTables(Handle(t, e))
              /\ N = IF T[c].creator = "" THEN [T EXCEPT ![c].creator = e.creator] ELSE T
          BY <3>1, <3>2, <4>2 DEF handleFactoryCircleCreated, IsTables
        <5>2. T = [k \in DOMAIN T |-> T[k]]
          BY <3>1 DEF CirclesTrue
        <5> HIDE DEF T, N, c, e
        <5>3. T[c].creator = e.creator => r = T[c]
          BY <3>3, <4>2 DEF IsCircle
        <5>4. Upsert(T, c, r) = [k \in DOMAIN T |-> IF k = c THEN r ELSE T[k]]
          <6>1. DOMAIN T \cup {c} = DOMAIN T
            BY <4>2
          <6> QED
            BY <6>1 DEF Upsert
        <5>5. CASE T[c].creator = e.creator
          <6>1. N = T \/ N = [T EXCEPT ![c].creator = e.creator]
            BY <5>1
          <6>2. r = T[c] /\ r = [T[c] EXCEPT !.creator = e.creator]
            BY <4>2, <5>3, <5>5
          <6> HIDE DEF r
          <6> QED
            BY <4>2, <5>1, <5>2, <5>4, <6>1, <6>2
        <5>6. CASE T[c].creator # e.creator
          <6>1. N = [T EXCEPT ![c].creator = e.creator]
            BY <3>3, <4>2, <5>1, <5>6
          <6>2. r = [T[c] EXCEPT !.creator = e.creator]
            BY <4>2
          <6> HIDE DEF r
          <6> QED
            BY <4>2, <5>1, <5>2, <5>4, <6>1, <6>2
        <5> QED
          BY <5>1, <5>5, <5>6
      <4> QED
        BY <4>1, <4>2
    <3> HIDE DEF T, N, c, e
    <3>5. Fills(r, T, c, cols, V)
      <4>1. CASE c \in DOMAIN T
        BY <2>1, <2>3, <2>4, <3>3, <4>1, Columns DEF IsCircle, Cell, Fills
      <4>2. CASE c \notin DOMAIN T
        <5>1. r = NewCircle(e.creator, 0, 0)
          BY <4>2
        <5> HIDE DEF r
        <5>2. IsCircle(r) /\ r.creator = e.creator
          BY <5>1, NewCircleCells
        <5>3. \A col \in CircleColumns \ cols : r[col] = BlankCircle[col]
          <6>1. \A x, y, z : BlankCircle = NewCircle(x, y, z) =>
                  /\ BlankCircle.round_amount = y /\ BlankCircle.member_count = z
            BY NewCircleCells
          <6>2. BlankCircle.round_amount = 0 /\ BlankCircle.member_count = 0
            BY <6>1 DEF BlankCircle
          <6>3. /\ r.round_amount = 0 /\ r.member_count = 0
                /\ \A col \in CircleColumns :
                     col \notin {"creator", "round_amount", "member_count"}
                       => r[col] = BlankCircle[col]
            BY <5>1, NewCircleCells
          <6> QED
            BY <2>1, <6>2, <6>3
        <5> QED
          BY <2>1, <2>3, <2>4, <4>2, <5>2, <5>3 DEF Cell, Fills
      <4> QED
        BY <4>1, <4>2
    <3> HIDE DEF r, cols
    <3>6. /\ CirclesTrue(N)
          /\ Effect(N, T, BlankCircle, CircleColumns, {c},
                    CellsOf(c, cols), V)
      BY <3>1, <3>4, <3>5, RowUpserted
    <3> QED
      BY <2>1, <2>2, <3>4, <3>6 DEF T, N, cols
  <2> QED
    BY <2>6
<1>8. CASE e.name = "initialized"
  <2>1. CirclesMade(e) = {c} /\ CircleColumnsOf(e) = {"round_amount", "member_count"}
    BY <1>8 DEF CirclesMade, CircleColumnsOf
  <2>2. CirclesWritten(e) = CellsOf(c, CircleColumnsOf(e))
    BY DEF CirclesWritten
  <2> DEFINE V == [k \in {c} |-> [round_amount |-> e.round_amount,
                                  member_count |-> Len(e.members)]]
  <2>3. /\ V[c].round_amount = e.round_amount
        /\ V[c].member_count = Len(e.members)
    OBVIOUS
  <2> HIDE DEF V
  <2>4. ASSUME NEW t, Truthful(t) PROVE Good(t, V)
    <3> DEFINE T == t.circles
               N == Handle(t, e).circles
               r == IF c \in DOMAIN T
                      THEN [T[c] EXCEPT !.round_amount = e.round_amount,
                                        !.member_count = Len(e.members)]
                      ELSE NewCircle("", e.round_amount, Len(e.members))
               cols == CircleColumnsOf(e)
    <3>1. IsTables(t) /\ CirclesTrue(T)
      BY <2>4 DEF Truthful
    <3>2. Handle(t, e) = handleCircleInitialized(t, e)
      BY <1>8 DEF Handle
    <3>3. IsTables(Handle(t, e)) /\ N = Upsert(T, c, r)
      <4>1. PICK slots : handleCircleInitialized(t, e) =
                           [t EXCEPT !.circles = Upsert(@, e.circle, r),
                                     !.circle_members = slots]
        BY DEF handleCircleInitialized
      <4> HIDE DEF r
      <4> QED
        BY <3>1, <3>2, <4>1 DEF IsTables
    <3> HIDE DEF T, N, c, e
    <3>4. Fills(r, T, c, cols, V)
      <4>1. CASE c \in DOMAIN T
        <5>1. IsCircle(T[c]) /\ CreatorOf(c, T[c].creator)
          BY <3>1, <4>1 DEF CirclesTrue
        <5> QED
          BY <2>1, <2>3, <4>1, <5>1, Columns DEF IsCircle, Cell, Fills
      <4>2. CASE c \notin DOMAIN T
        <5>0. PICK none : none = ""
          OBVIOUS
        <5>1. r = NewCircle(none, e.round_amount, Len(e.members))
          BY <4>2, <5>0
        <5> HIDE DEF r
        <5>2. /\ IsCircle(r) /\ r.creator = none
              /\ r.round_amount = e.round_amount /\ r.member_count = Len(e.members)
              /\ \A col \in CircleColumns :
                   col \notin {"creator", "round_amount", "member_count"}
                     => r[col] = BlankCircle[col]
          BY <5>1, NewCircleCells
        <5>3. BlankCircle.creator = none
          BY <5>0, Zenon DEF BlankCircle, NewCircle
        <5>4. CreatorOf(c, none)
          BY <5>0, Zenon DEF CreatorOf
        <5>5. \A col \in CircleColumns \ cols : r[col] = BlankCircle[col]
          BY <2>1, <5>2, <5>3
        <5> QED
          BY <2>1, <2>3, <4>2, <5>2, <5>4, <5>5 DEF Cell, Fills
      <4> QED
        BY <4>1, <4>2
    <3> HIDE DEF r, cols
    <3>5. /\ CirclesTrue(N)
          /\ Effect(N, T, BlankCircle, CircleColumns, {c},
                    CellsOf(c, cols), V)
      BY <3>1, <3>3, <3>4, RowUpserted
    <3> QED
      BY <2>1, <2>2, <3>3, <3>5 DEF T, N, cols
  <2> QED
    BY <2>4
<1> HIDE DEF Good, Updates, e
<1>9. CASE e.name \in {"active", "completed", "cancelled", "payout", "round_started",
                       "paused", "resumed", "closed"}
  <2>1. CirclesMade(e) = {}
    BY <1>9 DEF CirclesMade
  <2>2. \E w : \A t : Truthful(t) => Updates(t, w)
    BY <1>2, <1>3, <1>4, <1>5, <1>9
  <2> QED
    BY <1>6, <2>1, <2>2
<1> QED
  BY <1>0, <1>1, <1>7, <1>8, <1>9 DEF Projected

\* A handler leaves a table alone that its event does not concern.
LEMMA MembersLeftAlone ==
  ASSUME NEW t, IsTables(t), NEW e, e.name \in Projected,
         e.name \notin {"initialized", "joined", "default"}
  PROVE  Handle(t, e).circle_members = t.circle_members
<1> USE DEF IsTables
<1>1. CASE e.name = "circle_created"
  <2>1. Handle(t, e) = handleFactoryCircleCreated(t, e)
    BY <1>1 DEF Handle
  <2> QED
    BY <2>1 DEF handleFactoryCircleCreated
<1>2. CASE e.name \in {"active", "completed", "paused", "resumed", "round_started"}
  <2>1. Handle(t, e) \in {handleCircleActive(t, e), handleCircleCompleted(t, e),
          handleCirclePaused(t, e), handleCircleResumed(t, e),
          handleCircleRoundStarted(t, e)}
    BY <1>2 DEF Handle
  <2> QED
    BY <2>1 DEF handleCircleActive, handleCircleCompleted, handleCirclePaused,
                handleCircleResumed, handleCircleRoundStarted, SetStatus, SetRound,
                UpdateCircle
<1>3. CASE e.name = "contributed"
  <2>1. Handle(t, e) = handleCircleContributed(t, e)
    BY <1>3 DEF Handle
  <2> QED
    BY <2>1 DEF handleCircleContributed
<1>4. CASE e.name = "payout"
  <2>1. Handle(t, e) = handleCirclePayout(t, e)
    BY <1>4 DEF Handle
  <2> QED
    BY <2>1 DEF handleCirclePayout, SetRound, UpdateCircle
<1>5. CASE e.name = "exceptional_settlement"
  <2>1. Handle(t, e) = handleCircleExceptionalSettlement(t, e)
    BY <1>5 DEF Handle
  <2> QED
    BY <2>1 DEF handleCircleExceptionalSettlement
<1>6. CASE e.name \in {"cancelled", "closed"}
  <2>1. Handle(t, e) \in {handleCircleCancelled(t, e), handleCircleClosed(t, e)}
    BY <1>6 DEF Handle
  <2> QED
    BY <2>1 DEF handleCircleCancelled, handleCircleClosed, SetStatus, Audited,
                UpdateCircle
<1>7. CASE e.name \in {"score_updated", "increment"}
  <2>1. Handle(t, e) \in {handleReputationScoreUpdated(t, e),
                          handleReputationIncrement(t, e)}
    BY <1>7 DEF Handle
  <2> QED
    BY <2>1 DEF handleReputationScoreUpdated, handleReputationIncrement
<1> QED
  BY <1>1, <1>2, <1>3, <1>4, <1>5, <1>6, <1>7 DEF Projected

\* The same of the scores.
LEMMA ScoresLeftAlone ==
  ASSUME NEW t, IsTables(t), NEW e, e.name \in Projected,
         e.name \notin {"score_updated", "increment"}
  PROVE  Handle(t, e).reputation = t.reputation
<1> USE DEF IsTables
<1>1. CASE e.name \in {"circle_created", "initialized", "joined", "default"}
  <2>1. Handle(t, e) \in {handleFactoryCircleCreated(t, e),
          handleCircleInitialized(t, e), handleCircleJoined(t, e),
          handleCircleDefault(t, e)}
    BY <1>1 DEF Handle
  <2> QED
    BY <2>1 DEF handleFactoryCircleCreated, handleCircleInitialized,
                handleCircleJoined, handleCircleDefault
<1>2. CASE e.name \in {"active", "completed", "paused", "resumed", "round_started"}
  <2>1. Handle(t, e) \in {handleCircleActive(t, e), handleCircleCompleted(t, e),
          handleCirclePaused(t, e), handleCircleResumed(t, e),
          handleCircleRoundStarted(t, e)}
    BY <1>2 DEF Handle
  <2> QED
    BY <2>1 DEF handleCircleActive, handleCircleCompleted, handleCirclePaused,
                handleCircleResumed, handleCircleRoundStarted, SetStatus, SetRound,
                UpdateCircle
<1>3. CASE e.name = "contributed"
  <2>1. Handle(t, e) = handleCircleContributed(t, e)
    BY <1>3 DEF Handle
  <2> QED
    BY <2>1 DEF handleCircleContributed
<1>4. CASE e.name = "payout"
  <2>1. Handle(t, e) = handleCirclePayout(t, e)
    BY <1>4 DEF Handle
  <2> QED
    BY <2>1 DEF handleCirclePayout, SetRound, UpdateCircle
<1>5. CASE e.name = "exceptional_settlement"
  <2>1. Handle(t, e) = handleCircleExceptionalSettlement(t, e)
    BY <1>5 DEF Handle
  <2> QED
    BY <2>1 DEF handleCircleExceptionalSettlement
<1>6. CASE e.name \in {"cancelled", "closed"}
  <2>1. Handle(t, e) \in {handleCircleCancelled(t, e), handleCircleClosed(t, e)}
    BY <1>6 DEF Handle
  <2> QED
    BY <2>1 DEF handleCircleCancelled, handleCircleClosed, SetStatus, Audited,
                UpdateCircle
<1> QED
  BY <1>1, <1>2, <1>3, <1>4, <1>5, <1>6 DEF Projected

\* What a join fills in.
Filled(r, order, amount) == [r EXCEPT !.join_order = order, !.collateral = amount]

\* A member's row that a join fills in, or a default counts in.
LEMMA MemberRows ==
  ASSUME NEW r, IsMember(r), NEW order, NEW amount
  PROVE  /\ Filled(r, order, amount)
              = [payout_order |-> r.payout_order, join_order |-> order,
                 collateral |-> amount, defaults |-> r.defaults]
         /\ Counted(r) = [payout_order |-> r.payout_order, join_order |-> r.join_order,
                          collateral |-> r.collateral, defaults |-> r.defaults + 1]
<1>1. PICK a1, a2, a3, a4 :
        r = [payout_order |-> a1, join_order |-> a2, collateral |-> a3,
             defaults |-> a4]
  BY Zenon DEF IsMember
<1> DEFINE r1 == [r EXCEPT !.join_order = order]
           r2 == [r1 EXCEPT !.collateral = amount]
<1>2. r1 = [payout_order |-> a1, join_order |-> order, collateral |-> a3,
            defaults |-> a4]
  BY <1>1
<1> HIDE DEF r1
<1>3. r2 = [payout_order |-> a1, join_order |-> order, collateral |-> amount,
            defaults |-> a4]
  BY <1>2
<1>4. Filled(r, order, amount) = r2
  BY DEF r1, Filled
<1>5. /\ r.payout_order = a1 /\ r.join_order = a2 /\ r.collateral = a3
      /\ r.defaults = a4
  BY <1>1
<1>6. Counted(r) = [payout_order |-> a1, join_order |-> a2,
                    collateral |-> a3, defaults |-> a4 + 1]
  BY <1>1 DEF Counted
<1> HIDE DEF r2
<1> QED
  BY <1>3, <1>4, <1>5, <1>6

\* The members after an event.
LEMMA MembersEffect ==
  ASSUME NEW id \in EventId, event(id).name \in Projected
  PROVE  \E V : \A t : Truthful(t) =>
           LET e == event(id)
               n == Handle(t, e)
           IN  /\ MembersTrue(n.circle_members)
               /\ Effect(n.circle_members, t.circle_members, BlankMember, MemberColumns,
                         MembersMade(e), MembersWritten(e), V)
<1> DEFINE e == event(id)
           Good(t, V) == /\ MembersTrue(Handle(t, e).circle_members)
                         /\ Effect(Handle(t, e).circle_members, t.circle_members,
                                   BlankMember, MemberColumns, MembersMade(e),
                                   MembersWritten(e), V)
<1> SUFFICES \E V : \A t : Truthful(t) => Good(t, V)
  OBVIOUS
<1>1. CASE e.name \notin {"initialized", "joined"}
  <2>1. MembersMade(e) = {} /\ MembersWritten(e) = {}
    BY <1>1 DEF MembersMade, MembersWritten
  <2>2. PICK V : V = 0
    OBVIOUS
  <2>3. ASSUME NEW t, Truthful(t) PROVE Good(t, V)
    <3> DEFINE T == t.circle_members
               N == Handle(t, e).circle_members
    <3>1. IsTables(t) /\ MembersTrue(T)
      BY <2>3 DEF Truthful
    <3>2. CASE e.name # "default"
      <4>1. N = T
        BY <1>1, <3>1, <3>2, MembersLeftAlone
      <4>2. Effect(T, T, BlankMember, MemberColumns, {}, {}, V)
        BY LeftAlone
      <4> HIDE DEF T, N
      <4> QED
        BY <2>1, <3>1, <4>1, <4>2 DEF T, N
    <3>3. CASE e.name = "default"
      <4>1. Handle(t, e) = handleCircleDefault(t, e)
        BY <3>3 DEF Handle
      <4> DEFINE k == <<e.circle, e.member>>
      <4>2. N = [j \in DOMAIN T |-> IF j = k THEN Counted(T[j]) ELSE T[j]]
        BY <3>1, <4>1 DEF handleCircleDefault, IsTables
      <4> HIDE DEF k, e
      <4> HIDE DEF T, N
      <4>3. DOMAIN N = DOMAIN T
        BY <4>2
      <4>4. \A j \in DOMAIN T : IsMember(T[j]) =>
              /\ IsMember(N[j])
              /\ \A col \in MemberColumns : N[j][col] = T[j][col]
        <5>1. TAKE j \in DOMAIN T
        <5>2. HAVE IsMember(T[j])
        <5>3. Counted(T[j]) = [payout_order |-> T[j].payout_order,
                               join_order |-> T[j].join_order,
                               collateral |-> T[j].collateral,
                               defaults |-> T[j].defaults + 1]
          BY <5>2, MemberRows
        <5>4. N[j] = T[j] \/ N[j] = Counted(T[j])
          BY <4>2
        <5> QED
          BY <5>2, <5>3, <5>4 DEF IsMember, MemberColumns
      <4>5. MembersTrue(N)
        <5>1. N = [j \in DOMAIN N |-> N[j]]
          BY <4>2, <4>3
        <5> QED
          BY <3>1, <4>3, <4>4, <5>1 DEF MembersTrue, MemberColumns
      <4>6. Effect(N, T, BlankMember, MemberColumns, {}, {}, V)
        BY <3>1, <4>3, <4>4 DEF Effect, Cell, MembersTrue
      <4> QED
        BY <2>1, <4>5, <4>6 DEF T, N, e
    <3> QED
      BY <3>2, <3>3
  <2> HIDE DEF Good
  <2> QED
    BY <2>3
<1>2. CASE e.name = "initialized"
  <2> DEFINE V == [k \in Slots(e) |-> [payout_order |-> SlotOf(e, k[2])]]
  <2>1. \A k \in Slots(e) : V[k].payout_order = SlotOf(e, k[2])
    OBVIOUS
  <2>2. /\ MembersMade(e) = Slots(e)
        /\ MembersWritten(e) = {<<k, "payout_order">> : k \in Slots(e)}
    BY <1>2 DEF MembersMade, MembersWritten
  <2>3. \A k \in Slots(e) : \A n : PlaceOf(k, n) => n = SlotOf(e, k[2])
    <3>1. TAKE k \in Slots(e)
    <3>2. TAKE n
    <3>3. HAVE PlaceOf(k, n)
    <3>4. PICK a \in EventId : /\ event(a).name = "initialized"
                               /\ k \in Slots(event(a))
                               /\ n = SlotOf(event(a), k[2])
      BY <3>3 DEF PlaceOf
    <3>5. k[1] = e.circle /\ k[1] = event(a).circle
      BY <3>1, <3>4 DEF Slots
    <3>6. a = id
      BY <1>2, <3>4, <3>5, InitializedOnce
    <3> QED
      BY <3>4, <3>6
  <2>4. \A k \in Slots(e) : PlaceOf(k, SlotOf(e, k[2]))
    BY <1>2 DEF PlaceOf
  <2> HIDE DEF V
  <2>5. ASSUME NEW t, Truthful(t) PROVE Good(t, V)
    <3> DEFINE T == t.circle_members
               N == Handle(t, e).circle_members
               new(k) == [payout_order |-> SlotOf(e, k[2]), join_order |-> 0,
                          collateral |-> 0, defaults |-> 0]
    <3>1. IsTables(t) /\ MembersTrue(T)
      BY <2>5 DEF Truthful
    <3>2. Handle(t, e) = handleCircleInitialized(t, e)
      BY <1>2 DEF Handle
    <3>3. N = [k \in DOMAIN T \cup Slots(e) |-> IF k \in DOMAIN T THEN T[k] ELSE new(k)]
      <4> DEFINE slot == [k \in {<<e.circle, m>> : m \in Range(e.members)} |->
                 [payout_order |-> (CHOOSE i \in DOMAIN e.members :
                                      e.members[i] = k[2]) - 1,
                  join_order |-> 0, collateral |-> 0, defaults |-> 0]]
      <4>1. PICK row : handleCircleInitialized(t, e) =
                         [t EXCEPT !.circles = Upsert(@, e.circle, row),
                                   !.circle_members = [k \in DOMAIN @ \cup DOMAIN slot |->
                                      IF k \in DOMAIN @ THEN @[k] ELSE slot[k]]]
        BY DEF handleCircleInitialized
      <4>2. DOMAIN slot = Slots(e) /\ \A k \in Slots(e) : slot[k] = new(k)
        BY DEF Slots, SlotOf
      <4> HIDE DEF slot, new, T
      <4>3. N = [k \in DOMAIN T \cup DOMAIN slot |->
                                      IF k \in DOMAIN T THEN T[k] ELSE slot[k]]
        BY <3>1, <3>2, <4>1 DEF IsTables, T
      <4> HIDE DEF N
      <4> QED
        BY <4>2, <4>3
    <3> HIDE DEF T, N, e
    <3>4. /\ DOMAIN N = DOMAIN T \cup Slots(e)
          /\ \A k \in DOMAIN T : N[k] = T[k]
          /\ \A k \in Slots(e) : k \notin DOMAIN T => N[k] = new(k)
          /\ N = [k \in DOMAIN N |-> N[k]]
      <4> HIDE DEF new
      <4> QED
        BY <3>3
    <3>5. \A k : /\ IsMember(new(k)) /\ new(k).payout_order = SlotOf(e, k[2])
                 /\ new(k).join_order = 0 /\ new(k).collateral = 0
      BY DEF IsMember
    <3>6. BlankMember.join_order = 0 /\ BlankMember.collateral = 0
      BY DEF BlankMember
    <3> HIDE DEF new
    <3>7. ASSUME NEW k \in DOMAIN N
          PROVE  /\ IsMember(N[k]) /\ PlaceOf(k, N[k].payout_order)
                 /\ k \in Slots(e) => N[k].payout_order = SlotOf(e, k[2])
                 /\ N[k].join_order = Cell(T, BlankMember, k, "join_order")
                 /\ N[k].collateral = Cell(T, BlankMember, k, "collateral")
                 /\ k \notin Slots(e) => N[k].payout_order = Cell(T, BlankMember, k, "payout_order")
      <4>1. CASE k \in DOMAIN T
        BY <2>3, <3>1, <3>4, <4>1 DEF MembersTrue, Cell
      <4>2. CASE k \notin DOMAIN T
        <5>1. k \in Slots(e) /\ N[k] = new(k)
          BY <3>4, <3>7, <4>2
        <5> QED
          BY <2>4, <3>5, <3>6, <4>2, <5>1 DEF Cell
      <4> QED
        BY <4>1, <4>2
    <3>8. MembersTrue(N)
      BY <3>4, <3>7 DEF MembersTrue
    <3>9. Effect(N, T, BlankMember, MemberColumns, Slots(e),
                 {<<k, "payout_order">> : k \in Slots(e)}, V)
      <4>1. \A k, col : <<k, col>> \in {<<j, "payout_order">> : j \in Slots(e)}
                          <=> k \in Slots(e) /\ col = "payout_order"
        OBVIOUS
      <4>2. \A col \in MemberColumns : col \in {"payout_order", "join_order", "collateral"}
        BY DEF MemberColumns
      <4> QED
        BY <2>1, <3>4, <3>7, <4>1, <4>2 DEF Effect
    <3> QED
      BY <2>2, <3>8, <3>9 DEF T, N
  <2> HIDE DEF Good
  <2> QED
    BY <2>5
<1>3. CASE e.name = "joined"
  <2> DEFINE key == <<e.circle, e.member>>
             V == [k \in {key} |-> [join_order |-> e.join_order, collateral |-> e.amount]]
             X == {<<key, col>> : col \in {"join_order", "collateral"}}
  <2>1. V[key].join_order = e.join_order /\ V[key].collateral = e.amount
    OBVIOUS
  <2>2. MembersMade(e) = {} /\ MembersWritten(e) = X
    BY <1>3 DEF MembersMade, MembersWritten
  <2> HIDE DEF V
  <2>3. ASSUME NEW t, Truthful(t) PROVE Good(t, V)
    <3> DEFINE T == t.circle_members
               N == Handle(t, e).circle_members
               row == Filled(T[key], e.join_order, e.amount)
    <3>1. IsTables(t) /\ MembersTrue(T)
      BY <2>3 DEF Truthful
    <3>2. Handle(t, e) = handleCircleJoined(t, e)
      BY <1>3 DEF Handle
    <3>3. N = [T EXCEPT ![key] = row]
      BY <3>1, <3>2 DEF handleCircleJoined, IsTables, Filled
    <3>4. IsMember(T[key]) => row = [payout_order |-> T[key].payout_order,
            join_order |-> e.join_order, collateral |-> e.amount,
            defaults |-> T[key].defaults]
      <4> HIDE DEF T, key, e
      <4> QED
        BY MemberRows
    <3> HIDE DEF T, N, row, e, key
    <3>5. /\ DOMAIN N = DOMAIN T
          /\ \A k \in DOMAIN T : N[k] = IF k = key THEN row ELSE T[k]
          /\ N = [k \in DOMAIN N |-> N[k]]
      BY <3>1, <3>3 DEF MembersTrue
    <3>6. key \in DOMAIN T => /\ IsMember(row) /\ row.payout_order = T[key].payout_order
                              /\ row.join_order = e.join_order
                              /\ row.collateral = e.amount
      <4>1. HAVE key \in DOMAIN T
      <4>2. IsMember(T[key])
        BY <3>1, <4>1 DEF MembersTrue
      <4> QED
        BY <3>4, <4>2 DEF IsMember
    <3>7. MembersTrue(N)
      BY <3>1, <3>5, <3>6 DEF MembersTrue
    <3>8. Effect(N, T, BlankMember, MemberColumns, {}, X, V)
      <4>1. \A k, col : <<k, col>> \in X
                          <=> k = key /\ (col = "join_order" \/ col = "collateral")
        OBVIOUS
      <4> HIDE DEF X
      <4>2. \A col \in MemberColumns : col \in {"payout_order", "join_order", "collateral"}
        BY DEF MemberColumns
      <4> QED
        BY <2>1, <3>5, <3>6, <4>1, <4>2 DEF Effect, Cell
    <3> QED
      BY <2>2, <3>7, <3>8 DEF T, N
  <2> HIDE DEF Good
  <2> QED
    BY <2>3
<1> QED
  BY <1>1, <1>2, <1>3

\* The scores after an event.
LEMMA ScoresEffect ==
  ASSUME NEW id \in EventId, event(id).name \in Projected
  PROVE  \E V : \A t : Truthful(t) =>
           LET e == event(id)
               n == Handle(t, e)
           IN  /\ n.reputation = [m \in DOMAIN n.reputation |-> n.reputation[m]]
               /\ Effect(Scores(n), Scores(t), BlankScore, {"score"},
                         ScoresMade(e), ScoresWritten(e), V)
<1> DEFINE e == event(id)
           m == IF e.name = "score_updated" THEN e.member ELSE e.topics[2]
           V == [k \in {m} |-> [score |-> e.score]]
           X == {<<k, "score">> : k \in ScoresMade(e)}
           S(t) == [k \in DOMAIN t.reputation |-> [score |-> t.reputation[k]]]
           Good(t) == /\ Handle(t, e).reputation = [k \in DOMAIN Handle(t, e).reputation |->
                                                      Handle(t, e).reputation[k]]
                      /\ Effect(S(Handle(t, e)), S(t), BlankScore, {"score"},
                                ScoresMade(e), X, V)
<1>0. V[m].score = e.score
  OBVIOUS
<1>1. \A k, col : <<k, col>> \in X <=> k \in ScoresMade(e) /\ col = "score"
  OBVIOUS
<1> HIDE DEF V, X
<1>2. ASSUME NEW t, Truthful(t) PROVE Good(t)
  <2> DEFINE T == t.reputation
             N == Handle(t, e).reputation
  <2>1. IsTables(t) /\ T = [k \in DOMAIN T |-> T[k]]
    BY <1>2 DEF Truthful
  <2>2. /\ N = [k \in DOMAIN N |-> N[k]]
        /\ DOMAIN N = DOMAIN T \cup ScoresMade(e)
        /\ \A k \in DOMAIN N : N[k] = IF k \in ScoresMade(e) THEN e.score ELSE T[k]
        /\ \A k \in ScoresMade(e) : k = m
    <3>1. CASE e.name \notin {"score_updated", "increment"}
      <4>1. ScoresMade(e) = {}
        BY <3>1 DEF ScoresMade
      <4>2. N = T
        BY <2>1, <3>1, ScoresLeftAlone
      <4> HIDE DEF N, T
      <4> QED
        BY <2>1, <4>1, <4>2
    <3>2. CASE e.name \in {"score_updated", "increment"}
      <4>1. Handle(t, e) = IF e.name = "score_updated"
                             THEN handleReputationScoreUpdated(t, e)
                             ELSE handleReputationIncrement(t, e)
        BY <3>2 DEF Handle
      <4>2. N = Upsert(T, m, e.score)
        BY <2>1, <4>1 DEF IsTables, handleReputationScoreUpdated, handleReputationIncrement
      <4>3. ScoresMade(e) = {m}
        BY <3>2 DEF ScoresMade
      <4> HIDE DEF N, T, m, e
      <4> QED
        BY <4>2, <4>3 DEF Upsert
    <3> QED
      BY <3>1, <3>2
  <2> HIDE DEF N, T, m, e
  <2> DEFINE A == [k \in DOMAIN N |-> [score |-> N[k]]]
             B == [k \in DOMAIN T |-> [score |-> T[k]]]
  <2>3. Effect(A, B, BlankScore, {"score"}, ScoresMade(e), X, V)
    <3>1. /\ DOMAIN A = DOMAIN N /\ DOMAIN B = DOMAIN T
          /\ \A k \in DOMAIN N : A[k].score = N[k]
          /\ \A k \in DOMAIN T : B[k].score = T[k]
      OBVIOUS
    <3> HIDE DEF A, B
    <3> QED
      BY <1>0, <1>1, <2>2, <3>1 DEF Effect, Cell
  <2> QED
    BY <2>2, <2>3 DEF N, T
<1> HIDE DEF Good
<1> QED
  BY <1>2 DEF Good, X, Scores, ScoresWritten

\* A handler keeps the tables truthful.
LEMMA HandleTruthful ==
  ASSUME NEW id \in EventId, event(id).name \in Projected, NEW t, Truthful(t)
  PROVE  Truthful(Handle(t, event(id)))
<1> DEFINE n == Handle(t, event(id))
<1>1. IsTables(n) /\ CirclesTrue(n.circles)
  BY CirclesEffect
<1>2. MembersTrue(n.circle_members)
  BY MembersEffect
<1>3. n.reputation = [m \in DOMAIN n.reputation |-> n.reputation[m]]
  BY ScoresEffect
<1> QED
  BY <1>1, <1>2, <1>3 DEF Truthful

\* t is p but for what the events of K make and write.
Resembles(t, p, K) ==
  /\ Like(t.circles, p.circles, BlankCircle, CircleColumns,
          UNION {CirclesMade(event(k)) : k \in K},
          UNION {CirclesWritten(event(k)) : k \in K})
  /\ Like(t.circle_members, p.circle_members, BlankMember, MemberColumns,
          UNION {MembersMade(event(k)) : k \in K},
          UNION {MembersWritten(event(k)) : k \in K})
  /\ Like(Scores(t), Scores(p), BlankScore, {"score"},
          UNION {ScoresMade(event(k)) : k \in K},
          UNION {ScoresWritten(event(k)) : k \in K})

\* The rows an event writes to are not made by a later one.
LEMMA RowsAreThere ==
  ASSUME NEW id \in EventId, NEW j \in EventId, event(id).name \in Projected,
         event(j).name \in Projected, ~Before(j, id)
  PROVE  /\ \A k, col : k \in CirclesMade(event(j)) /\ <<k, col>> \in CirclesWritten(event(id))
                          => k \in CirclesMade(event(id))
         /\ \A k, col : k \in MembersMade(event(j)) /\ <<k, col>> \in MembersWritten(event(id))
                          => k \in MembersMade(event(id))
         /\ \A k, col : <<k, col>> \in ScoresWritten(event(id)) => k \in ScoresMade(event(id))
<1> DEFINE e == event(id)
           d == event(j)
<1>1. ASSUME NEW k, NEW col, k \in CirclesMade(d), <<k, col>> \in CirclesWritten(e)
      PROVE  k \in CirclesMade(e)
  <2>1. k = d.circle /\ d.name \in {"circle_created", "initialized"}
    BY <1>1 DEF CirclesMade
  <2>2. k = e.circle /\ col \in CircleColumnsOf(e)
    BY <1>1 DEF CirclesWritten, CellsOf
  <2>3. CASE e.name \in {"circle_created", "initialized"}
    BY <2>2, <2>3 DEF CirclesMade
  <2>4. CASE e.name \notin {"circle_created", "initialized"}
    <3>1. e.name \notin {"score_updated", "increment"}
      BY <2>2 DEF CircleColumnsOf
    <3>2. id \in AboutCircle /\ j \in AboutCircle /\ id # j
      BY <2>1, <2>4, <3>1 DEF AboutCircle
    <3>3. d.name = "initialized" \/ j \in Creation
      BY <2>1 DEF Creation
    <3> QED
      BY <2>1, <2>2, <2>4, <3>2, <3>3, ChainEvents
  <2> QED
    BY <2>3, <2>4
<1>2. ASSUME NEW k, NEW col, k \in MembersMade(d), <<k, col>> \in MembersWritten(e)
      PROVE  k \in MembersMade(e)
  <2>1. d.name = "initialized" /\ k[1] = d.circle
    BY <1>2 DEF MembersMade, Slots
  <2>2. CASE e.name = "initialized"
    BY <1>2, <2>2 DEF MembersMade, MembersWritten
  <2>3. CASE e.name = "joined"
    <3>1. k = <<e.circle, e.member>>
      BY <1>2, <2>3 DEF MembersWritten
    <3>2. id \in AboutCircle /\ j \in AboutCircle /\ id # j /\ d.circle = e.circle
      BY <2>1, <2>3, <3>1 DEF AboutCircle
    <3> QED
      BY <2>1, <3>2, ChainEvents
  <2> QED
    BY <1>2, <2>2, <2>3 DEF MembersWritten
<1>3. ASSUME NEW k, NEW col, <<k, col>> \in ScoresWritten(e)
      PROVE  k \in ScoresMade(e)
  BY <1>3 DEF ScoresWritten
<1> QED
  BY <1>1, <1>2, <1>3

\* What is applied to both makes up for its differences.
LEMMA ResembleBoth ==
  ASSUME NEW t, NEW p, Truthful(t), Truthful(p), NEW K, K \subseteq EventId,
         \A k \in K : event(k).name \in Projected, Resembles(t, p, K),
         NEW id \in EventId, event(id).name \in Projected,
         \A k \in K : ~Before(k, id)
  PROVE  Resembles(Apply(t, id), Apply(p, id), K \ {id})
<1> DEFINE e == event(id)
           n == Handle(t, e)
           q == Handle(p, e)
<1>1. Like(n.circles, q.circles, BlankCircle, CircleColumns,
           UNION {CirclesMade(event(k)) : k \in K \ {id}},
           UNION {CirclesWritten(event(k)) : k \in K \ {id}})
  <2> DEFINE D == UNION {CirclesMade(event(k)) : k \in K}
             X == UNION {CirclesWritten(event(k)) : k \in K}
             D2 == UNION {CirclesMade(event(k)) : k \in K \ {id}}
             X2 == UNION {CirclesWritten(event(k)) : k \in K \ {id}}
  <2>1. D \subseteq D2 \cup CirclesMade(e) /\ X \subseteq X2 \cup CirclesWritten(e)
    OBVIOUS
  <2>2. \A k \in D, col \in CircleColumns :
          <<k, col>> \in CirclesWritten(e) => k \in CirclesMade(e)
    BY RowsAreThere
  <2>3. Like(t.circles, p.circles, BlankCircle, CircleColumns, D, X)
    BY DEF Resembles
  <2>4. PICK V : /\ Effect(n.circles, t.circles, BlankCircle, CircleColumns,
                           CirclesMade(e), CirclesWritten(e), V)
                 /\ Effect(q.circles, p.circles, BlankCircle, CircleColumns,
                           CirclesMade(e), CirclesWritten(e), V)
    BY CirclesEffect
  <2> HIDE DEF D, X, D2, X2, e, n, q
  <2>5. Like(n.circles, q.circles, BlankCircle, CircleColumns, D2, X2)
    BY <2>1, <2>2, <2>3, <2>4, LikeBoth
  <2> QED
    BY <2>5 DEF D2, X2
<1>2. Like(n.circle_members, q.circle_members, BlankMember, MemberColumns,
           UNION {MembersMade(event(k)) : k \in K \ {id}},
           UNION {MembersWritten(event(k)) : k \in K \ {id}})
  <2> DEFINE D == UNION {MembersMade(event(k)) : k \in K}
             X == UNION {MembersWritten(event(k)) : k \in K}
             D2 == UNION {MembersMade(event(k)) : k \in K \ {id}}
             X2 == UNION {MembersWritten(event(k)) : k \in K \ {id}}
  <2>1. D \subseteq D2 \cup MembersMade(e) /\ X \subseteq X2 \cup MembersWritten(e)
    OBVIOUS
  <2>2. \A k \in D, col \in MemberColumns :
          <<k, col>> \in MembersWritten(e) => k \in MembersMade(e)
    BY RowsAreThere
  <2>3. Like(t.circle_members, p.circle_members, BlankMember, MemberColumns, D, X)
    BY DEF Resembles
  <2>4. PICK V : /\ Effect(n.circle_members, t.circle_members, BlankMember, MemberColumns,
                           MembersMade(e), MembersWritten(e), V)
                 /\ Effect(q.circle_members, p.circle_members, BlankMember, MemberColumns,
                           MembersMade(e), MembersWritten(e), V)
    BY MembersEffect
  <2> HIDE DEF D, X, D2, X2, e, n, q
  <2>5. Like(n.circle_members, q.circle_members, BlankMember, MemberColumns, D2, X2)
    BY <2>1, <2>2, <2>3, <2>4, LikeBoth
  <2> QED
    BY <2>5 DEF D2, X2
<1>3. Like(Scores(n), Scores(q), BlankScore, {"score"},
           UNION {ScoresMade(event(k)) : k \in K \ {id}},
           UNION {ScoresWritten(event(k)) : k \in K \ {id}})
  <2> DEFINE D == UNION {ScoresMade(event(k)) : k \in K}
             X == UNION {ScoresWritten(event(k)) : k \in K}
             D2 == UNION {ScoresMade(event(k)) : k \in K \ {id}}
             X2 == UNION {ScoresWritten(event(k)) : k \in K \ {id}}
  <2>0. PICK cols : cols = {"score"}
    OBVIOUS
  <2>1. D \subseteq D2 \cup ScoresMade(e) /\ X \subseteq X2 \cup ScoresWritten(e)
    OBVIOUS
  <2>2. \A k \in D, col \in cols :
          <<k, col>> \in ScoresWritten(e) => k \in ScoresMade(e)
    BY DEF ScoresWritten
  <2>3. Like(Scores(t), Scores(p), BlankScore, cols, D, X)
    BY <2>0 DEF Resembles
  <2>4. PICK V : /\ Effect(Scores(n), Scores(t), BlankScore, cols,
                           ScoresMade(e), ScoresWritten(e), V)
                 /\ Effect(Scores(q), Scores(p), BlankScore, cols,
                           ScoresMade(e), ScoresWritten(e), V)
    BY <2>0, ScoresEffect
  <2> HIDE DEF D, X, D2, X2, e, n, q
  <2>5. Like(Scores(n), Scores(q), BlankScore, cols, D2, X2)
    BY <2>1, <2>2, <2>3, <2>4, LikeBoth
  <2> QED
    BY <2>0, <2>5 DEF D2, X2
<1> QED
  BY <1>1, <1>2, <1>3 DEF Resembles, Apply

\* What is applied to the first only makes differences of its own.
LEMMA ResembleOne ==
  ASSUME NEW t, NEW p, Truthful(t), NEW K, Resembles(t, p, K),
         NEW id \in EventId, event(id).name \in Projected
  PROVE  Resembles(Apply(t, id), p, K \cup {id})
<1> DEFINE e == event(id)
           n == Handle(t, e)
           J == K \cup {id}
<1>1. Like(n.circles, p.circles, BlankCircle, CircleColumns,
           UNION {CirclesMade(event(k)) : k \in J},
           UNION {CirclesWritten(event(k)) : k \in J})
  <2> DEFINE D == UNION {CirclesMade(event(k)) : k \in K}
             X == UNION {CirclesWritten(event(k)) : k \in K}
             D2 == UNION {CirclesMade(event(k)) : k \in J}
             X2 == UNION {CirclesWritten(event(k)) : k \in J}
  <2>1. D \cup CirclesMade(e) \subseteq D2 /\ X \cup CirclesWritten(e) \subseteq X2
    OBVIOUS
  <2>2. Like(t.circles, p.circles, BlankCircle, CircleColumns, D, X)
    BY DEF Resembles
  <2>3. PICK V : Effect(n.circles, t.circles, BlankCircle, CircleColumns,
                        CirclesMade(e), CirclesWritten(e), V)
    BY CirclesEffect
  <2> HIDE DEF D, X, D2, X2, e, n, J
  <2>4. Like(n.circles, p.circles, BlankCircle, CircleColumns, D2, X2)
    BY <2>1, <2>2, <2>3, LikeOne
  <2> QED
    BY <2>4 DEF D2, X2
<1>2. Like(n.circle_members, p.circle_members, BlankMember, MemberColumns,
           UNION {MembersMade(event(k)) : k \in J},
           UNION {MembersWritten(event(k)) : k \in J})
  <2> DEFINE D == UNION {MembersMade(event(k)) : k \in K}
             X == UNION {MembersWritten(event(k)) : k \in K}
             D2 == UNION {MembersMade(event(k)) : k \in J}
             X2 == UNION {MembersWritten(event(k)) : k \in J}
  <2>1. D \cup MembersMade(e) \subseteq D2 /\ X \cup MembersWritten(e) \subseteq X2
    OBVIOUS
  <2>2. Like(t.circle_members, p.circle_members, BlankMember, MemberColumns, D, X)
    BY DEF Resembles
  <2>3. PICK V : Effect(n.circle_members, t.circle_members, BlankMember, MemberColumns,
                        MembersMade(e), MembersWritten(e), V)
    BY MembersEffect
  <2> HIDE DEF D, X, D2, X2, e, n, J
  <2>4. Like(n.circle_members, p.circle_members, BlankMember, MemberColumns, D2, X2)
    BY <2>1, <2>2, <2>3, LikeOne
  <2> QED
    BY <2>4 DEF D2, X2
<1>3. Like(Scores(n), Scores(p), BlankScore, {"score"},
           UNION {ScoresMade(event(k)) : k \in J},
           UNION {ScoresWritten(event(k)) : k \in J})
  <2> DEFINE D == UNION {ScoresMade(event(k)) : k \in K}
             X == UNION {ScoresWritten(event(k)) : k \in K}
             D2 == UNION {ScoresMade(event(k)) : k \in J}
             X2 == UNION {ScoresWritten(event(k)) : k \in J}
  <2>0. PICK cols : cols = {"score"}
    OBVIOUS
  <2>1. D \cup ScoresMade(e) \subseteq D2 /\ X \cup ScoresWritten(e) \subseteq X2
    OBVIOUS
  <2>2. Like(Scores(t), Scores(p), BlankScore, cols, D, X)
    BY <2>0 DEF Resembles
  <2>3. PICK V : Effect(Scores(n), Scores(t), BlankScore, cols,
                        ScoresMade(e), ScoresWritten(e), V)
    BY <2>0, ScoresEffect
  <2> HIDE DEF D, X, D2, X2, e, n, J
  <2>4. Like(Scores(n), Scores(p), BlankScore, cols, D2, X2)
    BY <2>1, <2>2, <2>3, LikeOne
  <2> QED
    BY <2>0, <2>4 DEF D2, X2
<1> QED
  BY <1>1, <1>2, <1>3 DEF Resembles, Apply

\* The empty tables are truthful.
LEMMA EmptyTruthful == Truthful(EmptyTables)
<1>1. IsTables(EmptyTables)
  BY DEF IsTables, EmptyTables
<1>2. \A f : f = <<>> => DOMAIN f = {} /\ f = [x \in DOMAIN f |-> f[x]]
  OBVIOUS
<1>3. PICK f : f = <<>>
  OBVIOUS
<1>4. EmptyTables.circles = f /\ EmptyTables.circle_members = f /\ EmptyTables.reputation = f
  BY <1>3, Zenon DEF EmptyTables
<1> QED
  BY <1>1, <1>2, <1>3, <1>4 DEF Truthful, CirclesTrue, MembersTrue

Understood(Y) == \A y \in Y : event(y).name \in Projected

\* So is every projection.
LEMMA ProjectTruthful ==
  ASSUME NEW Y \in SUBSET EventId, Understood(Y)
  PROVE  Truthful(Project(Y))
<1> DEFINE F == {Z \in SUBSET EventId : Understood(Z) => Truthful(Project(Z))}
<1>1. {} \in F
  BY ProjectNothing, EmptyTruthful
<1>2. ASSUME NEW Z \in SUBSET EventId, NEW id \in EventId, Z \in F,
             \A y \in Z : Before(y, id)
      PROVE  Z \cup {id} \in F
  <2>1. SUFFICES ASSUME Understood(Z \cup {id}) PROVE Truthful(Project(Z \cup {id}))
    OBVIOUS
  <2>2. Understood(Z) /\ event(id).name \in Projected
    BY <2>1 DEF Understood
  <2>3. Project(Z \cup {id}) = Apply(Project(Z), id)
    BY <1>2, AddLast
  <2> QED
    BY <1>2, <2>2, <2>3, HandleTruthful DEF Apply
<1> HIDE DEF F
<1>3. Y \in F
  BY <1>1, <1>2, ChainInduction
<1> QED
  BY <1>3 DEF F

\* Whatever a replay leaves of the ingested events I, the tables t are what they
\* give but for what the others of B, all that have been applied, make and write.
Rebuilds(t, I, B) ==
  \A C \in SUBSET I : (\A c \in C, x \in B \ C : Before(c, x))
                        => Resembles(t, Project(C), B \ C)

\* The next event of I keeps that.
LEMMA RebuildsStep ==
  ASSUME NEW t, Truthful(t), NEW B, B \subseteq EventId, NEW I, I \subseteq B,
         NEW id \in EventId, \A i \in I : Before(i, id),
         Understood(B \cup {id}), Rebuilds(t, I, B)
  PROVE  Rebuilds(Apply(t, id), I \cup {id}, B \cup {id})
<1>0. event(id).name \in Projected /\ \A k \in B : event(k).name \in Projected
  BY DEF Understood
<1>1. SUFFICES ASSUME NEW C \in SUBSET (I \cup {id}),
                      \A c \in C, x \in (B \cup {id}) \ C : Before(c, x)
               PROVE  Resembles(Apply(t, id), Project(C), (B \cup {id}) \ C)
  BY DEF Rebuilds
<1>2. CASE id \in C
  <2> DEFINE C0 == C \ {id}
             K == B \ C0
  <2>1. C0 \subseteq I /\ \A c \in C0 : Before(c, id)
    BY <1>1
  <2>2. \A c \in C0, x \in K : Before(c, x)
    BY <1>1, <2>1
  <2>3. Resembles(t, Project(C0), K)
    BY <2>1, <2>2 DEF Rebuilds
  <2>4. C0 \in SUBSET EventId /\ Understood(C0)
    BY <1>0, <2>1 DEF Understood
  <2>5. Truthful(Project(C0))
    BY <2>4, ProjectTruthful
  <2>6. \A k \in K : ~Before(k, id)
    <3>1. TAKE k \in K
    <3>2. CASE k = id
      <4>1. ~Before(id, id)
        BY NotBoth
      <4> QED
        BY <3>2, <4>1
    <3>3. CASE k # id
      <4>1. Before(id, k) /\ k \in EventId
        BY <1>1, <1>2, <3>3
      <4> QED
        BY <4>1, NotBoth
    <3> QED
      BY <3>2, <3>3
  <2>7. Project(C) = Apply(Project(C0), id)
    <3>1. C = C0 \cup {id}
      BY <1>2
    <3> HIDE DEF C0
    <3> QED
      BY <2>1, <2>4, <3>1, AddLast
  <2>8. (B \cup {id}) \ C = K \ {id}
    BY <1>2
  <2>9. K \subseteq EventId /\ \A k \in K : event(k).name \in Projected
    BY <1>0
  <2> HIDE DEF C0, K
  <2>10. Resembles(Apply(t, id), Apply(Project(C0), id), K \ {id})
    BY <1>0, <2>3, <2>5, <2>6, <2>9, ResembleBoth
  <2> QED
    BY <2>7, <2>8, <2>10
<1>3. CASE id \notin C
  <2>1. C \in SUBSET I /\ \A c \in C, x \in B \ C : Before(c, x)
    BY <1>1, <1>3
  <2>2. Resembles(t, Project(C), B \ C)
    BY <2>1 DEF Rebuilds
  <2>3. (B \cup {id}) \ C = (B \ C) \cup {id}
    BY <1>3
  <2>4. Resembles(Apply(t, id), Project(C), (B \ C) \cup {id})
    BY <1>0, <2>2, ResembleOne
  <2> QED
    BY <2>3, <2>4
<1> QED
  BY <1>2, <1>3

-----------------------------------------------------------------------------
(* The tables that keep the ledger.                                        *)

\* What an event makes of each of them.
Contributions(T, e) ==
  IF e.name = "contributed"
    THEN InsertOrIgnore(T, <<e.circle, e.member, e.round>>,
                        [amount |-> e.amount, ledger |-> e.ledger])
    ELSE T

PaidRow(e) == [recipient |-> e.member, amount |-> e.amount,
               ledger |-> e.ledger, is_exceptional |-> FALSE,
               defaulted_count |-> 0]
SettledRow(T, k, e) ==
  IF k \in DOMAIN T
    THEN [T[k] EXCEPT !.is_exceptional = TRUE,
                      !.defaulted_count = e.defaulted_count]
    ELSE [recipient |-> e.member, amount |-> e.amount,
          ledger |-> e.ledger, is_exceptional |-> TRUE,
          defaulted_count |-> e.defaulted_count]

Payouts(T, e) ==
  IF e.name = "payout" THEN InsertOrIgnore(T, <<e.circle, e.round>>, PaidRow(e))
  ELSE IF e.name = "exceptional_settlement"
    THEN Upsert(T, <<e.circle, e.round>>, SettledRow(T, <<e.circle, e.round>>, e))
  ELSE T

AuditRow(e, released, reason) ==
  [triggered_by |-> e.member, ledger |-> e.ledger,
   total_released |-> released, close_reason |-> reason]

AuditEvents(T, e) ==
  IF e.name = "cancelled"
    THEN InsertOrIgnore(T, <<e.circle, e.name>>, AuditRow(e, 0, ""))
  ELSE IF e.name = "closed"
    THEN InsertOrIgnore(T, <<e.circle, e.name>>, AuditRow(e, e.amount, e.reason))
  ELSE T

DefaultRow(e) ==
  [circle |-> e.circle, member |-> e.member, round |-> e.round,
   penalty |-> e.amount, ledger |-> e.ledger]

Defaults(B, e) ==
  IF e.name = "default" THEN B (+) SetToBag({DefaultRow(e)}) ELSE B

\* They follow from the tables before the event alone.
LEMMA ScopedTables ==
  ASSUME NEW t, IsTables(t), NEW e, e.name \in Projected
  PROVE  LET n == Handle(t, e)
         IN  /\ n.contributions = Contributions(t.contributions, e)
             /\ n.payouts = Payouts(t.payouts, e)
             /\ n.circle_audit_events = AuditEvents(t.circle_audit_events, e)
             /\ n.defaults = Defaults(t.defaults, e)
<1> DEFINE n == Handle(t, e)
<1> USE DEF IsTables
<1>1. CASE e.name = "contributed"
  <2>1. n = handleCircleContributed(t, e)
    BY <1>1 DEF Handle
  <2> QED
    BY <1>1, <2>1 DEF handleCircleContributed, Contributions, Payouts, AuditEvents, Defaults
<1>2. CASE e.name = "payout"
  <2>1. n = handleCirclePayout(t, e)
    BY <1>2 DEF Handle
  <2>2. PICK T : T = Payouts(t.payouts, e)
    OBVIOUS
  <2>3. PICK u : u = [t EXCEPT !.payouts = T]
    OBVIOUS
  <2>4. n = SetRound(u, e, e.round + 1)
    BY <1>2, <2>1, <2>2, <2>3, Zenon DEF handleCirclePayout, Payouts, PaidRow
  <2>5. /\ n.contributions = u.contributions /\ n.payouts = u.payouts
        /\ n.circle_audit_events = u.circle_audit_events /\ n.defaults = u.defaults
    BY <2>3, <2>4 DEF SetRound, UpdateCircle
  <2>6. /\ u.contributions = t.contributions /\ u.payouts = T
        /\ u.circle_audit_events = t.circle_audit_events /\ u.defaults = t.defaults
    BY <2>3
  <2> QED
    BY <1>2, <2>2, <2>5, <2>6 DEF Contributions, AuditEvents, Defaults
<1>3. CASE e.name = "exceptional_settlement"
  <2>1. n = handleCircleExceptionalSettlement(t, e)
    BY <1>3 DEF Handle
  <2>2. PICK T : T = Payouts(t.payouts, e)
    OBVIOUS
  <2>3. n = [t EXCEPT !.payouts = T]
    BY <1>3, <2>1, <2>2, Zenon DEF handleCircleExceptionalSettlement, Payouts, SettledRow
  <2> QED
    BY <1>3, <2>2, <2>3 DEF Contributions, AuditEvents, Defaults
<1>4. CASE e.name = "cancelled"
  <2>1. n = handleCircleCancelled(t, e)
    BY <1>4 DEF Handle
  <2>2. PICK T : T = AuditEvents(t.circle_audit_events, e)
    OBVIOUS
  <2>3. PICK u : u = SetStatus(t, e, "Cancelled")
    OBVIOUS
  <2>4. /\ u.contributions = t.contributions /\ u.payouts = t.payouts
        /\ u.circle_audit_events = t.circle_audit_events /\ u.defaults = t.defaults
        /\ IsTables(u)
    BY <2>3 DEF SetStatus, UpdateCircle
  <2>5. n = [u EXCEPT !.circle_audit_events = T]
    BY <1>4, <2>1, <2>2, <2>3, <2>4, Zenon DEF handleCircleCancelled, Audited, AuditEvents, AuditRow
  <2> QED
    BY <1>4, <2>2, <2>4, <2>5 DEF Contributions, Payouts, Defaults
<1>5. CASE e.name = "closed"
  <2>1. n = handleCircleClosed(t, e)
    BY <1>5 DEF Handle
  <2>2. PICK T : T = AuditEvents(t.circle_audit_events, e)
    OBVIOUS
  <2>3. PICK u : u = UpdateCircle(t, e.circle, LAMBDA row :
            [row EXCEPT !.status = "Closed", !.total_released = e.amount,
                        !.close_reason = e.reason])
    OBVIOUS
  <2>4. /\ u.contributions = t.contributions /\ u.payouts = t.payouts
        /\ u.circle_audit_events = t.circle_audit_events /\ u.defaults = t.defaults
        /\ IsTables(u)
    BY <2>3 DEF UpdateCircle
  <2>5. n = [u EXCEPT !.circle_audit_events = T]
    BY <1>5, <2>1, <2>2, <2>3, <2>4, Zenon DEF handleCircleClosed, Audited, AuditEvents, AuditRow
  <2> QED
    BY <1>5, <2>2, <2>4, <2>5 DEF Contributions, Payouts, Defaults
<1>6. CASE e.name = "default"
  <2>1. n = handleCircleDefault(t, e)
    BY <1>6 DEF Handle
  <2>2. PICK B : B = Defaults(t.defaults, e)
    OBVIOUS
  <2>3. PICK M : n = [t EXCEPT !.defaults = B, !.circle_members = M]
    BY <1>6, <2>1, <2>2, Zenon DEF handleCircleDefault, Defaults, DefaultRow
  <2> QED
    BY <1>6, <2>2, <2>3 DEF Contributions, AuditEvents, Payouts
<1>7. CASE e.name \notin {"contributed", "payout", "exceptional_settlement",
                          "cancelled", "closed", "default"}
  <2>0. /\ Contributions(t.contributions, e) = t.contributions
        /\ Payouts(t.payouts, e) = t.payouts
        /\ AuditEvents(t.circle_audit_events, e) = t.circle_audit_events
        /\ Defaults(t.defaults, e) = t.defaults
    BY <1>7 DEF Contributions, Payouts, AuditEvents, Defaults
  <2> SUFFICES /\ n.contributions = t.contributions /\ n.payouts = t.payouts
               /\ n.circle_audit_events = t.circle_audit_events
               /\ n.defaults = t.defaults
    BY <2>0
  <2>1. CASE e.name = "circle_created"
    <3>1. n = handleFactoryCircleCreated(t, e)
      BY <2>1 DEF Handle
    <3>2. CASE n = t
      BY <3>2
    <3>3. CASE \E row : n = [t EXCEPT !.circles[e.circle].creator = row]
      BY <3>3
    <3>4. CASE \E C : n = [t EXCEPT !.circles = C]
      BY <3>4
    <3> QED
      BY <3>1, <3>2, <3>3, <3>4 DEF handleFactoryCircleCreated
  <2>2. CASE e.name = "initialized"
    <3>1. n = handleCircleInitialized(t, e)
      BY <2>2 DEF Handle
    <3>2. PICK C, M : n = [t EXCEPT !.circles = C, !.circle_members = M]
      BY <3>1 DEF handleCircleInitialized
    <3> QED
      BY <3>2
  <2>3. CASE e.name = "joined"
    <3>1. n = handleCircleJoined(t, e)
      BY <2>3 DEF Handle
    <3> QED
      BY <3>1 DEF handleCircleJoined
  <2>4. CASE e.name \in {"active", "completed", "paused", "resumed", "round_started"}
    <3>1. n \in {handleCircleActive(t, e), handleCircleCompleted(t, e),
                 handleCirclePaused(t, e), handleCircleResumed(t, e),
                 handleCircleRoundStarted(t, e)}
      BY <2>4 DEF Handle
    <3> QED
      BY <3>1 DEF handleCircleActive, handleCircleCompleted, handleCirclePaused,
           handleCircleResumed, handleCircleRoundStarted, SetStatus, SetRound,
           UpdateCircle
  <2>5. CASE e.name \in {"score_updated", "increment"}
    <3>1. n \in {handleReputationScoreUpdated(t, e), handleReputationIncrement(t, e)}
      BY <2>5 DEF Handle
    <3> QED
      BY <3>1 DEF handleReputationScoreUpdated, handleReputationIncrement
  <2> QED
    BY <1>7, <2>1, <2>2, <2>3, <2>4, <2>5 DEF Projected
<1> QED
  BY <1>1, <1>2, <1>3, <1>4, <1>5, <1>6, <1>7


\* Every row is that of an event.
IsRows(T) == T = [k \in DOMAIN T |-> T[k]]

IsPayment(r) ==
  r = [recipient |-> r.recipient, amount |-> r.amount, ledger |-> r.ledger,
       is_exceptional |-> r.is_exceptional, defaulted_count |-> r.defaulted_count]

\* The event settles the round of a circle; it is the default of the row.
Settles(z, k) == /\ event(z).name \in {"payout", "exceptional_settlement"}
                 /\ k = <<event(z).circle, event(z).round>>
Enters(z, d) == event(z).name = "default" /\ d = DefaultRow(event(z))

OfLedgers(T, Z) == IsRows(T) /\ \A k \in DOMAIN T : \E z \in Z : T[k].ledger = z[1]
OfSettlements(T, Z) ==
  /\ IsRows(T)
  /\ \A k \in DOMAIN T :
       IsPayment(T[k]) /\ \E z \in Z : Settles(z, k) /\ T[k].ledger = z[1]
OfDefaults(B, Z) ==
  /\ IsRows(B)
  /\ \A d \in DOMAIN B :
       B[d] \in Nat \ {0} /\ \E z \in Z : Enters(z, d) /\ d.ledger = z[1]

Witnessed(t, Z) ==
  /\ OfLedgers(t.contributions, Z) /\ OfLedgers(t.circle_audit_events, Z)
  /\ OfSettlements(t.payouts, Z) /\ OfDefaults(t.defaults, Z)

\* A row that is inserted is that of the event.
LEMMA InsertedOf ==
  ASSUME NEW T, NEW Z, OfLedgers(T, Z), NEW key, NEW row, NEW id,
         row.ledger = id[1]
  PROVE  OfLedgers(InsertOrIgnore(T, key, row), Z \cup {id})
<1> DEFINE N == InsertOrIgnore(T, key, row)
<1>1. CASE key \in DOMAIN T
  BY <1>1 DEF InsertOrIgnore, OfLedgers
<1>2. CASE key \notin DOMAIN T
  <2>1. N = [k \in DOMAIN T \cup {key} |-> IF k = key THEN row ELSE T[k]]
    BY <1>2 DEF InsertOrIgnore, Upsert
  <2>2. /\ DOMAIN N = DOMAIN T \cup {key} /\ IsRows(N)
        /\ \A k \in DOMAIN N : N[k] = IF k = key THEN row ELSE T[k]
    BY <2>1 DEF IsRows
  <2> HIDE DEF N
  <2>3. OfLedgers(N, Z \cup {id})
    BY <2>2 DEF OfLedgers
  <2> QED
    BY <2>3 DEF N
<1> QED
  BY <1>1, <1>2

\* The row that an exceptional settlement leaves.
LEMMA SettledRowIs ==
  ASSUME NEW T, NEW Z, OfSettlements(T, Z), NEW k, NEW e
  PROVE  LET r == SettledRow(T, k, e)
         IN  IsPayment(r) /\ r.ledger = IF k \in DOMAIN T THEN T[k].ledger ELSE e.ledger
<1>1. CASE k \in DOMAIN T
  <2>1. IsPayment(T[k])
    BY <1>1 DEF OfSettlements
  <2>2. PICK a1, a2, a3, a4, a5 :
          T[k] = [recipient |-> a1, amount |-> a2, ledger |-> a3,
                  is_exceptional |-> a4, defaulted_count |-> a5]
    BY <2>1, Zenon DEF IsPayment
  <2>8. PICK yes : yes = TRUE
    OBVIOUS
  <2> DEFINE r0 == T[k]
             r1 == [r0 EXCEPT !.is_exceptional = yes]
             r2 == [r1 EXCEPT !.defaulted_count = e.defaulted_count]
  <2>5. r1 = [recipient |-> a1, amount |-> a2, ledger |-> a3,
              is_exceptional |-> yes, defaulted_count |-> a5]
    BY <2>2
  <2> HIDE DEF r1
  <2>6. r2 = [recipient |-> a1, amount |-> a2, ledger |-> a3,
              is_exceptional |-> yes, defaulted_count |-> e.defaulted_count]
    BY <2>5
  <2>7. SettledRow(T, k, e) = r2
    BY <1>1, <2>8 DEF SettledRow, r1
  <2>3. SettledRow(T, k, e) =
          [recipient |-> a1, amount |-> a2, ledger |-> a3,
           is_exceptional |-> yes, defaulted_count |-> e.defaulted_count]
    BY <2>6, <2>7
  <2>4. T[k].ledger = a3
    BY <2>2
  <2> QED
    BY <1>1, <2>3, <2>4 DEF IsPayment
<1>2. CASE k \notin DOMAIN T
  BY <1>2 DEF SettledRow, IsPayment
<1> QED
  BY <1>1, <1>2

\* An audit event is inserted.
LEMMA AuditInserts ==
  ASSUME NEW T, NEW e, e.name \in {"cancelled", "closed"}
  PROVE  \E row, key : AuditEvents(T, e) = InsertOrIgnore(T, key, row)
                       /\ row.ledger = e.ledger
<1>1. \A released, reason : AuditRow(e, released, reason).ledger = e.ledger
  BY DEF AuditRow
<1>2. PICK none : none = ""
  OBVIOUS
<1>3. \/ AuditEvents(T, e) = InsertOrIgnore(T, <<e.circle, e.name>>, AuditRow(e, 0, none))
      \/ AuditEvents(T, e) = InsertOrIgnore(T, <<e.circle, e.name>>,
                                           AuditRow(e, e.amount, e.reason))
  BY <1>2 DEF AuditEvents
<1> QED
  BY <1>1, <1>3

\* So every event keeps that.
LEMMA WitnessStep ==
  ASSUME NEW t, IsTables(t), NEW Z, Witnessed(t, Z),
         NEW id \in EventId, event(id).name \in Projected
  PROVE  Witnessed(Apply(t, id), Z \cup {id})
<1> DEFINE e == event(id)
           n == Handle(t, e)
           Y == Z \cup {id}
<1>1. /\ n.contributions = Contributions(t.contributions, e)
      /\ n.payouts = Payouts(t.payouts, e)
      /\ n.circle_audit_events = AuditEvents(t.circle_audit_events, e)
      /\ n.defaults = Defaults(t.defaults, e)
  BY ScopedTables
<1>2. e.name \in NeedsCircleRow => e.ledger = id[1]
  BY ChainEvents
<1> HIDE DEF n
<1>3. OfLedgers(n.contributions, Y)
  <2>1. CASE e.name = "contributed"
    <3>1. PICK row, key : /\ n.contributions = InsertOrIgnore(t.contributions, key, row)
                          /\ row.ledger = e.ledger
      BY <1>1, <2>1 DEF Contributions
    <3>2. row.ledger = id[1]
      BY <1>2, <2>1, <3>1 DEF NeedsCircleRow
    <3> QED
      BY <3>1, <3>2, InsertedOf DEF Witnessed
  <2>2. CASE e.name # "contributed"
    BY <1>1, <2>2 DEF Contributions, Witnessed, OfLedgers
  <2> QED
    BY <2>1, <2>2
<1>4. OfLedgers(n.circle_audit_events, Y)
  <2>1. CASE e.name \in {"cancelled", "closed"}
    <3>1. PICK row, key :
            /\ n.circle_audit_events = InsertOrIgnore(t.circle_audit_events, key, row)
            /\ row.ledger = e.ledger
      BY <1>1, <2>1, AuditInserts
    <3>2. row.ledger = id[1]
      BY <1>2, <2>1, <3>1 DEF NeedsCircleRow
    <3> QED
      BY <3>1, <3>2, InsertedOf DEF Witnessed
  <2>2. CASE e.name \notin {"cancelled", "closed"}
    BY <1>1, <2>2 DEF AuditEvents, Witnessed, OfLedgers
  <2> QED
    BY <2>1, <2>2
<1>5. OfSettlements(n.payouts, Y)
  <2> DEFINE T == t.payouts
             N == n.payouts
             key == <<e.circle, e.round>>
  <2>0. OfSettlements(T, Z)
    BY DEF Witnessed
  <2>1. CASE e.name \notin {"payout", "exceptional_settlement"}
    BY <1>1, <2>0, <2>1 DEF Payouts, OfSettlements
  <2>2. CASE e.name \in {"payout", "exceptional_settlement"}
    <3>1. Settles(id, key) /\ e.ledger = id[1]
      BY <1>2, <2>2 DEF Settles, NeedsCircleRow
    <3>2. CASE N = T
      BY <2>0, <3>2 DEF OfSettlements
    <3>3. CASE \E row : /\ N = Upsert(T, key, row) /\ IsPayment(row)
                        /\ row.ledger = IF key \in DOMAIN T THEN T[key].ledger
                                                            ELSE e.ledger
      <4>1. PICK row : /\ N = Upsert(T, key, row) /\ IsPayment(row)
                       /\ row.ledger = IF key \in DOMAIN T THEN T[key].ledger
                                                           ELSE e.ledger
        BY <3>3
      <4>2. N = [k \in DOMAIN T \cup {key} |-> IF k = key THEN row ELSE T[k]]
        BY <4>1 DEF Upsert
      <4> HIDE DEF N, T, key, Y
      <4>3. /\ DOMAIN N = DOMAIN T \cup {key} /\ IsRows(N)
            /\ \A k \in DOMAIN N : N[k] = IF k = key THEN row ELSE T[k]
        BY <4>2 DEF IsRows
      <4>4. Z \subseteq Y /\ id \in Y
        BY DEF Y
      <4>5. ASSUME NEW k \in DOMAIN N
            PROVE  IsPayment(N[k]) /\ \E z \in Y : Settles(z, k) /\ N[k].ledger = z[1]
        <5>1. CASE k \in DOMAIN T
          <6>1. PICK z \in Z : Settles(z, k) /\ T[k].ledger = z[1]
            BY <2>0, <5>1 DEF OfSettlements
          <6>2. N[k].ledger = T[k].ledger /\ IsPayment(N[k])
            BY <2>0, <4>1, <4>3, <5>1 DEF OfSettlements
          <6> QED
            BY <4>4, <6>1, <6>2
        <5>2. CASE k \notin DOMAIN T
          <6>1. k = key /\ N[k] = row /\ row.ledger = id[1]
            BY <3>1, <4>1, <4>3, <5>2
          <6> QED
            BY <3>1, <4>1, <4>4, <6>1
        <5> QED
          BY <5>1, <5>2
      <4>6. OfSettlements(N, Y)
        BY <4>3, <4>5 DEF OfSettlements
      <4> QED
        BY <4>6 DEF N, Y
    <3>4. CASE e.name = "payout"
      <4>1. N = InsertOrIgnore(T, key, PaidRow(e))
        BY <1>1, <3>4 DEF Payouts
      <4>2. IsPayment(PaidRow(e)) /\ PaidRow(e).ledger = e.ledger
        BY DEF PaidRow, IsPayment
      <4>3. CASE key \in DOMAIN T
        BY <3>2, <4>1, <4>3 DEF InsertOrIgnore
      <4>4. CASE key \notin DOMAIN T
        <5>1. N = Upsert(T, key, PaidRow(e))
          BY <4>1, <4>4 DEF InsertOrIgnore
        <5> HIDE DEF N, T, key
        <5> QED
          BY <3>3, <4>2, <4>4, <5>1
      <4> QED
        BY <4>3, <4>4
    <3>5. CASE e.name = "exceptional_settlement"
      <4>1. N = Upsert(T, key, SettledRow(T, key, e))
        BY <1>1, <3>5 DEF Payouts
      <4>2. LET r == SettledRow(T, key, e)
            IN IsPayment(r) /\ r.ledger = IF key \in DOMAIN T THEN T[key].ledger ELSE e.ledger
        BY <2>0, SettledRowIs
      <4> HIDE DEF N, T, key
      <4> QED
        BY <3>3, <4>1, <4>2
    <3> QED
      BY <2>2, <3>4, <3>5
  <2> QED
    BY <2>1, <2>2
<1>6. OfDefaults(n.defaults, Y)
  <2> DEFINE B == t.defaults
             N == n.defaults
             row == DefaultRow(e)
  <2>0. OfDefaults(B, Z)
    BY DEF Witnessed
  <2>1. CASE e.name # "default"
    BY <1>1, <2>0, <2>1 DEF Defaults, OfDefaults
  <2>2. CASE e.name = "default"
    <3>1. N = B (+) SetToBag({row})
      BY <1>1, <2>2 DEF Defaults
    <3>2. Enters(id, row) /\ row.ledger = id[1]
      BY <1>2, <2>2 DEF Enters, DefaultRow, NeedsCircleRow
    <3> HIDE DEF N, B, row, Y
    <3>3. /\ DOMAIN N = DOMAIN B \cup {row} /\ IsRows(N)
          /\ \A d \in DOMAIN N : N[d] = (IF d \in DOMAIN B THEN B[d] ELSE 0)
                                      + (IF d = row THEN 1 ELSE 0)
      BY <3>1 DEF (+), SetToBag, IsRows
    <3>6. \A d \in DOMAIN N : N[d] \in Nat \ {0}
      BY <2>0, <3>3 DEF OfDefaults
    <3>4. Z \subseteq Y /\ id \in Y
      BY DEF Y
    <3>5. OfDefaults(N, Y)
      BY <2>0, <3>2, <3>3, <3>4, <3>6 DEF OfDefaults
    <3> QED
      BY <3>5 DEF N, Y
  <2> QED
    BY <2>1, <2>2
<1>7. Witnessed(n, Y)
  BY <1>3, <1>4, <1>5, <1>6 DEF Witnessed
<1> QED
  BY <1>7 DEF n, Apply

-----------------------------------------------------------------------------
(* Partial replays.                                                        *)

\* The rows of the bag that a partial replay keeps.
KeptBag(B, from) == [d \in {x \in DOMAIN B : x.ledger < from} |-> B[d]]

\* A partial replay trims the tables that keep the ledger, and no other.
LEMMA Wiped ==
  ASSUME NEW t, IsTables(t), NEW from
  PROVE  LET w == wipeFromLedger(t, from)
         IN  /\ IsTables(w) /\ w.circles = t.circles
             /\ w.circle_members = t.circle_members /\ w.reputation = t.reputation
             /\ w.contributions = Kept(t.contributions, from)
             /\ w.payouts = Kept(t.payouts, from)
             /\ w.circle_audit_events = Kept(t.circle_audit_events, from)
             /\ w.defaults = KeptBag(t.defaults, from)
<1>1. PICK a1, a2, a3, a4, a5, a6, a7 :
        t = [circles |-> a1, circle_members |-> a2, contributions |-> a3,
             payouts |-> a4, defaults |-> a5, circle_audit_events |-> a6,
             reputation |-> a7]
  BY Zenon DEF IsTables
<1>2. PICK b3, b4, b5, b6 :
        /\ b3 = Kept(t.contributions, from) /\ b4 = Kept(t.payouts, from)
        /\ b6 = Kept(t.circle_audit_events, from) /\ b5 = KeptBag(t.defaults, from)
  OBVIOUS
<1> DEFINE r1 == [t EXCEPT !.contributions = b3]
           r2 == [r1 EXCEPT !.payouts = b4]
           r3 == [r2 EXCEPT !.circle_audit_events = b6]
           r4 == [r3 EXCEPT !.defaults = b5]
<1>3. r1 = [circles |-> a1, circle_members |-> a2, contributions |-> b3,
            payouts |-> a4, defaults |-> a5, circle_audit_events |-> a6,
            reputation |-> a7]
  BY <1>1
<1> HIDE DEF r1
<1>4. r2 = [circles |-> a1, circle_members |-> a2, contributions |-> b3,
            payouts |-> b4, defaults |-> a5, circle_audit_events |-> a6,
            reputation |-> a7]
  BY <1>3
<1> HIDE DEF r2
<1>5. r3 = [circles |-> a1, circle_members |-> a2, contributions |-> b3,
            payouts |-> b4, defaults |-> a5, circle_audit_events |-> b6,
            reputation |-> a7]
  BY <1>4
<1> HIDE DEF r3
<1>6. r4 = [circles |-> a1, circle_members |-> a2, contributions |-> b3,
            payouts |-> b4, defaults |-> b5, circle_audit_events |-> b6,
            reputation |-> a7]
  BY <1>5
<1>7. wipeFromLedger(t, from) = [t EXCEPT !.contributions = b3, !.payouts = b4,
                                   !.circle_audit_events = b6, !.defaults = b5]
  BY <1>2, Zenon DEF wipeFromLedger, KeptBag
<1>8. [t EXCEPT !.contributions = b3, !.payouts = b4,
                !.circle_audit_events = b6, !.defaults = b5] = r4
  BY DEF r1, r2, r3
<1> QED
  BY <1>1, <1>2, <1>6, <1>7, <1>8 DEF IsTables

\* The events before a ledger.
Earlier(Z, from) == {z \in Z : z[1] < from}

\* What it keeps are rows of the events that it keeps.
LEMMA WipeWitnessed ==
  ASSUME NEW t, IsTables(t), NEW Z, Witnessed(t, Z), NEW from
  PROVE  Witnessed(wipeFromLedger(t, from), Earlier(Z, from))
<1> DEFINE w == wipeFromLedger(t, from)
<1>1. /\ w.contributions = Kept(t.contributions, from)
      /\ w.payouts = Kept(t.payouts, from)
      /\ w.circle_audit_events = Kept(t.circle_audit_events, from)
      /\ w.defaults = KeptBag(t.defaults, from)
  BY Wiped
<1> HIDE DEF w
<1>2. \A T : /\ DOMAIN Kept(T, from) = {x \in DOMAIN T : T[x].ledger < from}
             /\ IsRows(Kept(T, from))
             /\ \A k \in DOMAIN Kept(T, from) : Kept(T, from)[k] = T[k]
  BY DEF Kept, IsRows
<1>3. ASSUME NEW T, OfLedgers(T, Z) PROVE OfLedgers(Kept(T, from), Earlier(Z, from))
  <2>1. PICK N : N = Kept(T, from)
    OBVIOUS
  <2>2. /\ DOMAIN N = {x \in DOMAIN T : T[x].ledger < from}
        /\ IsRows(N) /\ \A k \in DOMAIN N : N[k] = T[k]
    BY <1>2, <2>1
  <2>3. OfLedgers(N, Earlier(Z, from))
    BY <1>3, <2>2 DEF OfLedgers, Earlier
  <2> QED
    BY <2>1, <2>3
<1>4. OfSettlements(w.payouts, Earlier(Z, from))
  <2>1. ASSUME NEW T, OfSettlements(T, Z)
        PROVE  OfSettlements(Kept(T, from), Earlier(Z, from))
    <3>1. PICK N : N = Kept(T, from)
      OBVIOUS
    <3>2. /\ DOMAIN N = {x \in DOMAIN T : T[x].ledger < from}
          /\ IsRows(N) /\ \A k \in DOMAIN N : N[k] = T[k]
      BY <1>2, <3>1
    <3>3. OfSettlements(N, Earlier(Z, from))
      BY <2>1, <3>2 DEF OfSettlements, Earlier
    <3> QED
      BY <3>1, <3>3
  <2> QED
    BY <1>1, <2>1 DEF Witnessed
<1>5. OfDefaults(w.defaults, Earlier(Z, from))
  <2>1. PICK B, N : B = t.defaults /\ N = KeptBag(B, from)
    OBVIOUS
  <2>2. /\ DOMAIN N = {x \in DOMAIN B : x.ledger < from} /\ IsRows(N)
        /\ \A d \in DOMAIN N : N[d] = B[d]
    BY <2>1 DEF KeptBag, IsRows
  <2>3. OfDefaults(B, Z)
    BY <2>1 DEF Witnessed
  <2>4. OfDefaults(N, Earlier(Z, from))
    BY <2>2, <2>3 DEF OfDefaults, Earlier
  <2> QED
    BY <1>1, <2>1, <2>4
<1>6. OfLedgers(w.contributions, Earlier(Z, from))
      /\ OfLedgers(w.circle_audit_events, Earlier(Z, from))
  BY <1>1, <1>3 DEF Witnessed
<1>7. Witnessed(w, Earlier(Z, from))
  BY <1>4, <1>5, <1>6 DEF Witnessed
<1> QED
  BY <1>7 DEF w

\* The tables agree where the rows keep the ledger.
Agree(t, p) ==
  /\ t.contributions = p.contributions /\ t.payouts = p.payouts
  /\ t.circle_audit_events = p.circle_audit_events /\ t.defaults = p.defaults

\* They go on doing so with the same event.
LEMMA AgreeBoth ==
  ASSUME NEW t, IsTables(t), NEW p, IsTables(p), Agree(t, p),
         NEW id, event(id).name \in Projected
  PROVE  Agree(Apply(t, id), Apply(p, id))
BY ScopedTables DEF Agree, Apply

\* Tables of earlier events lose nothing.
LEMMA NothingToTrim ==
  ASSUME NEW t, IsTables(t), NEW Z, Witnessed(t, Z), NEW from,
         \A z \in Z : z[1] < from
  PROVE  Agree(wipeFromLedger(t, from), t)
<1>1. ASSUME NEW T, OfLedgers(T, Z) PROVE Kept(T, from) = T
  BY <1>1 DEF OfLedgers, Kept, IsRows
<1>2. Kept(t.payouts, from) = t.payouts
  BY DEF Witnessed, OfSettlements, Kept, IsRows
<1>3. KeptBag(t.defaults, from) = t.defaults
  BY DEF Witnessed, OfDefaults, KeptBag, IsRows
<1> QED
  BY <1>1, <1>2, <1>3, Wiped DEF Agree, Witnessed

\* A row from the ledger on is not kept.
LEMMA InsertTrimmed ==
  ASSUME NEW T, IsRows(T), NEW key, NEW row, NEW from, ~(row.ledger < from),
         key \in DOMAIN T => ~(T[key].ledger < from)
  PROVE  Kept(Upsert(T, key, row), from) = Kept(T, from)
<1> DEFINE N == Upsert(T, key, row)
<1>1. /\ DOMAIN N = DOMAIN T \cup {key} /\ N[key] = row
      /\ \A k \in DOMAIN T : k # key => N[k] = T[k]
  BY DEF Upsert
<1> HIDE DEF N
<1>2. {x \in DOMAIN N : N[x].ledger < from} = {x \in DOMAIN T : T[x].ledger < from}
  BY <1>1
<1>3. \A x \in {y \in DOMAIN T : T[y].ledger < from} : N[x] = T[x]
  BY <1>1
<1>4. Kept(N, from) = Kept(T, from)
  BY <1>2, <1>3 DEF Kept
<1> QED
  BY <1>4 DEF N

\* Nor one that is inserted only if there is none.
LEMMA IgnoreTrimmed ==
  ASSUME NEW T, NEW key, NEW row, NEW from, ~(row.ledger < from)
  PROVE  Kept(InsertOrIgnore(T, key, row), from) = Kept(T, from)
<1> DEFINE N == Upsert(T, key, row)
<1>0. CASE key \in DOMAIN T
  BY <1>0 DEF InsertOrIgnore
<1>1. CASE key \notin DOMAIN T
  <2>1. /\ DOMAIN N = DOMAIN T \cup {key} /\ N[key] = row
        /\ \A k \in DOMAIN T : k # key => N[k] = T[k]
    BY DEF Upsert
  <2>2. InsertOrIgnore(T, key, row) = N
    BY <1>1 DEF InsertOrIgnore
  <2> HIDE DEF N
  <2>3. {x \in DOMAIN N : N[x].ledger < from} = {x \in DOMAIN T : T[x].ledger < from}
    BY <1>1, <2>1
  <2>4. \A x \in {y \in DOMAIN T : T[y].ledger < from} : N[x] = T[x]
    BY <1>1, <2>1
  <2> QED
    BY <2>2, <2>3, <2>4 DEF Kept
<1> QED
  BY <1>0, <1>1

\* An event from the ledger on leaves nothing of itself.
LEMMA EventTrimmed ==
  ASSUME NEW t, Truthful(t), NEW Z \in SUBSET EventId, Witnessed(t, Z),
         NEW from \in Nat, NEW id \in EventId, event(id).name \in Projected,
         id \notin Z, ~(id[1] < from)
  PROVE  Agree(wipeFromLedger(Apply(t, id), from), wipeFromLedger(t, from))
<1> DEFINE e == event(id)
           n == Handle(t, e)
<1>1. /\ n.contributions = Contributions(t.contributions, e)
      /\ n.payouts = Payouts(t.payouts, e)
      /\ n.circle_audit_events = AuditEvents(t.circle_audit_events, e)
      /\ n.defaults = Defaults(t.defaults, e)
  BY ScopedTables DEF Truthful
<1>2. IsTables(n)
  BY HandleTruthful DEF Truthful
<1>3. e.name \in NeedsCircleRow => e.ledger = id[1] /\ ~(e.ledger < from)
  BY ChainEvents
<1> HIDE DEF n
<1>4. Kept(n.contributions, from) = Kept(t.contributions, from)
  <2>1. CASE e.name = "contributed"
    <3>1. PICK row, key : /\ n.contributions = InsertOrIgnore(t.contributions, key, row)
                          /\ row.ledger = e.ledger
      BY <1>1, <2>1 DEF Contributions
    <3>2. ~(row.ledger < from)
      BY <1>3, <2>1, <3>1 DEF NeedsCircleRow
    <3> QED
      BY <3>1, <3>2, IgnoreTrimmed
  <2>2. CASE e.name # "contributed"
    BY <1>1, <2>2 DEF Contributions
  <2> QED
    BY <2>1, <2>2
<1>5. Kept(n.circle_audit_events, from) = Kept(t.circle_audit_events, from)
  <2>1. CASE e.name \in {"cancelled", "closed"}
    <3>1. PICK row, key :
            /\ n.circle_audit_events = InsertOrIgnore(t.circle_audit_events, key, row)
            /\ row.ledger = e.ledger
      BY <1>1, <2>1, AuditInserts
    <3>2. ~(row.ledger < from)
      BY <1>3, <2>1, <3>1 DEF NeedsCircleRow
    <3> QED
      BY <3>1, <3>2, IgnoreTrimmed
  <2>2. CASE e.name \notin {"cancelled", "closed"}
    BY <1>1, <2>2 DEF AuditEvents
  <2> QED
    BY <2>1, <2>2
<1>6. Kept(n.payouts, from) = Kept(t.payouts, from)
  <2> DEFINE T == t.payouts
             N == n.payouts
             key == <<e.circle, e.round>>
  <2>0. OfSettlements(T, Z)
    BY DEF Witnessed
  <2>1. CASE e.name = "payout"
    <3>1. N = InsertOrIgnore(T, key, PaidRow(e)) /\ ~(PaidRow(e).ledger < from)
      BY <1>1, <1>3, <2>1 DEF Payouts, PaidRow, NeedsCircleRow
    <3> QED
      BY <3>1, IgnoreTrimmed
  <2>2. CASE e.name = "exceptional_settlement"
    <3>1. N = Upsert(T, key, SettledRow(T, key, e))
      BY <1>1, <2>2 DEF Payouts
    <3>2. e.ledger = id[1] /\ ~(e.ledger < from)
      BY <1>3, <2>2 DEF NeedsCircleRow
    <3>3. ASSUME key \in DOMAIN T PROVE ~(T[key].ledger < from)
      <4>1. PICK z \in Z : Settles(z, key) /\ T[key].ledger = z[1]
        BY <2>0, <3>3 DEF OfSettlements
      <4>2. /\ event(z).name \in {"payout", "exceptional_settlement"}
            /\ event(z).circle = e.circle /\ event(z).round = e.round
        BY <4>1 DEF Settles
      <4>3. z \in AboutCircle /\ id \in AboutCircle /\ z # id
        BY <2>2, <4>2 DEF AboutCircle, Projected
      <4>4. z[1] = id[1]
        BY <2>2, <4>2, <4>3, ChainEvents
      <4> QED
        BY <4>1, <4>4
    <3>4. SettledRow(T, key, e).ledger = IF key \in DOMAIN T THEN T[key].ledger ELSE e.ledger
      BY <2>0, SettledRowIs
    <3>5. ~(SettledRow(T, key, e).ledger < from)
      BY <3>2, <3>3, <3>4
    <3>6. IsRows(T)
      BY <2>0 DEF OfSettlements
    <3> HIDE DEF T, N, key
    <3> QED
      BY <3>1, <3>3, <3>5, <3>6, InsertTrimmed DEF T, N
  <2>3. CASE e.name \notin {"payout", "exceptional_settlement"}
    BY <1>1, <2>3 DEF Payouts
  <2> QED
    BY <2>1, <2>2, <2>3
<1>7. KeptBag(n.defaults, from) = KeptBag(t.defaults, from)
  <2>1. CASE e.name = "default"
    <3>1. PICK B, N, row : B = t.defaults /\ N = n.defaults /\ row = DefaultRow(e)
      OBVIOUS
    <3>2. N = B (+) SetToBag({row})
      BY <1>1, <2>1, <3>1 DEF Defaults
    <3>3. ~(row.ledger < from)
      BY <1>3, <2>1, <3>1 DEF DefaultRow, NeedsCircleRow
    <3>4. DOMAIN N = DOMAIN B \cup {row}
      BY <3>2 DEF (+), SetToBag
    <3>5. {x \in DOMAIN N : x.ledger < from} = {x \in DOMAIN B : x.ledger < from}
      BY <3>3, <3>4
    <3>6. ASSUME NEW x \in DOMAIN B, x.ledger < from PROVE N[x] = B[x]
      <4>1. N[x] = B[x] + 0
        BY <3>2, <3>3, <3>6 DEF (+), SetToBag
      <4>2. B[x] \in Nat
        BY <3>1 DEF Witnessed, OfDefaults
      <4> QED
        BY <4>1, <4>2
    <3> QED
      BY <3>1, <3>5, <3>6 DEF KeptBag
  <2>2. CASE e.name # "default"
    BY <1>1, <2>2 DEF Defaults
  <2> QED
    BY <2>1, <2>2
<1>8. Agree(wipeFromLedger(n, from), wipeFromLedger(t, from))
  BY <1>2, <1>4, <1>5, <1>6, <1>7, Wiped DEF Agree, Truthful
<1> QED
  BY <1>8 DEF n, Apply

\* There are no rows without events.
LEMMA EmptyWitnessed == Witnessed(EmptyTables, {})
<1>1. PICK f, b : f = <<>> /\ b = EmptyBag
  OBVIOUS
<1>2. /\ EmptyTables.contributions = f /\ EmptyTables.payouts = f
      /\ EmptyTables.circle_audit_events = f /\ EmptyTables.defaults = b
  BY <1>1, Zenon DEF EmptyTables
<1>3. DOMAIN f = {} /\ IsRows(f)
  BY <1>1 DEF IsRows
<1>4. DOMAIN b = {} /\ IsRows(b)
  BY <1>1 DEF IsRows, EmptyBag, SetToBag
<1> QED
  BY <1>2, <1>3, <1>4 DEF Witnessed, OfLedgers, OfSettlements, OfDefaults

\* The rows of a projection are those of its events.
LEMMA ProjectWitnessed ==
  ASSUME NEW Y \in SUBSET EventId, Understood(Y)
  PROVE  Witnessed(Project(Y), Y)
<1> DEFINE F == {Z \in SUBSET EventId : Understood(Z) => Witnessed(Project(Z), Z)}
<1>1. {} \in F
  BY ProjectNothing, EmptyWitnessed
<1>2. ASSUME NEW Z \in SUBSET EventId, NEW id \in EventId, Z \in F,
             \A y \in Z : Before(y, id)
      PROVE  Z \cup {id} \in F
  <2>1. SUFFICES ASSUME Understood(Z \cup {id})
                 PROVE  Witnessed(Project(Z \cup {id}), Z \cup {id})
    OBVIOUS
  <2>2. Understood(Z) /\ event(id).name \in Projected
    BY <2>1 DEF Understood
  <2>3. Project(Z \cup {id}) = Apply(Project(Z), id)
    BY <1>2, AddLast
  <2>4. IsTables(Project(Z))
    BY <2>2, ProjectTruthful DEF Truthful
  <2>5. Witnessed(Project(Z), Z)
    BY <1>2, <2>2
  <2> QED
    BY <2>2, <2>3, <2>4, <2>5, WitnessStep
<1> HIDE DEF F
<1>3. Y \in F
  BY <1>1, <1>2, ChainInduction
<1> QED
  BY <1>3 DEF F

\* What a partial replay leaves where rows keep the ledger are the rows of the
\* events that it leaves.
LEMMA Trims ==
  ASSUME NEW Y \in SUBSET EventId, Understood(Y), NEW from \in Nat
  PROVE  Agree(wipeFromLedger(Project(Y), from), Project(Earlier(Y, from)))
<1> DEFINE F == {Z \in SUBSET EventId : Understood(Z) =>
                   Agree(wipeFromLedger(Project(Z), from), Project(Earlier(Z, from)))}
<1>1. {} \in F
  <2>1. Earlier({}, from) = {}
    BY DEF Earlier
  <2>2. IsTables(EmptyTables)
    BY EmptyTruthful DEF Truthful
  <2>3. Agree(wipeFromLedger(EmptyTables, from), EmptyTables)
    BY <2>2, EmptyWitnessed, NothingToTrim
  <2> QED
    BY <2>1, <2>3, ProjectNothing
<1>2. ASSUME NEW Z \in SUBSET EventId, NEW id \in EventId, Z \in F,
             \A y \in Z : Before(y, id)
      PROVE  Z \cup {id} \in F
  <2>1. SUFFICES ASSUME Understood(Z \cup {id})
                 PROVE  Agree(wipeFromLedger(Project(Z \cup {id}), from),
                              Project(Earlier(Z \cup {id}, from)))
    OBVIOUS
  <2>2. Understood(Z) /\ event(id).name \in Projected
    BY <2>1 DEF Understood
  <2>3. /\ id[1] \in Nat /\ \A y \in Z : y[1] \in Nat /\ y[1] <= id[1]
    <3>1. \A y \in EventId : y[1] \in Nat
      BY EventFacts, ChainFacts
    <3> QED
      BY <1>2, <3>1 DEF Before
  <2>4. CASE id[1] < from
    <3>1. Earlier(Z \cup {id}, from) = Z \cup {id}
      BY <2>3, <2>4 DEF Earlier
    <3>2. \A z \in Z \cup {id} : z[1] < from
      BY <2>3, <2>4
    <3>3. Witnessed(Project(Z \cup {id}), Z \cup {id})
      BY <2>1, ProjectWitnessed
    <3>4. IsTables(Project(Z \cup {id}))
      BY <2>1, ProjectTruthful DEF Truthful
    <3> QED
      BY <3>1, <3>2, <3>3, <3>4, NothingToTrim
  <2>5. CASE ~(id[1] < from)
    <3>1. Earlier(Z \cup {id}, from) = Earlier(Z, from)
      BY <2>5 DEF Earlier
    <3>2. Project(Z \cup {id}) = Apply(Project(Z), id)
      BY <1>2, AddLast
    <3>3. id \notin Z
      <4>1. ~Before(id, id)
        BY NotBoth
      <4> QED
        BY <1>2, <4>1
    <3>4. Truthful(Project(Z)) /\ Witnessed(Project(Z), Z)
      BY <2>2, ProjectTruthful, ProjectWitnessed
    <3>5. Agree(wipeFromLedger(Apply(Project(Z), id), from), wipeFromLedger(Project(Z), from))
      BY <2>2, <2>5, <3>3, <3>4, EventTrimmed DEF Truthful
    <3>6. Agree(wipeFromLedger(Project(Z), from), Project(Earlier(Z, from)))
      BY <1>2, <2>2
    <3> QED
      BY <3>1, <3>2, <3>5, <3>6 DEF Agree
  <2> QED
    BY <2>4, <2>5
<1> HIDE DEF F
<1>3. Y \in F
  BY <1>1, <1>2, ChainInduction
<1> QED
  BY <1>3 DEF F

\* Tables that agree are trimmed to tables that agree.
LEMMA AgreeWiped ==
  ASSUME NEW t, IsTables(t), NEW p, IsTables(p), Agree(t, p), NEW from
  PROVE  Agree(wipeFromLedger(t, from), wipeFromLedger(p, from))
BY Wiped DEF Agree

-----------------------------------------------------------------------------
(* Tables that differ in nothing but the counters.                         *)

\* Like rows of equal columns are equal.
LEMMA LikeMeansEqual ==
  ASSUME NEW T, NEW P, NEW blank, NEW cols, Like(T, P, blank, cols, {}, {})
  PROVE  DOMAIN T = DOMAIN P /\ \A k \in DOMAIN T, col \in cols : T[k][col] = P[k][col]
BY DEF Like, Cell

\* Tables that resemble others to which nothing is missing have the same circles,
\* scores and members, but for the counter of the members.
LEMMA ButForCounters ==
  ASSUME NEW t, Truthful(t), NEW p, Truthful(p), Resembles(t, p, {})
  PROVE  /\ t.circles = p.circles /\ t.reputation = p.reputation
         /\ DOMAIN t.circle_members = DOMAIN p.circle_members
         /\ \A k \in DOMAIN t.circle_members :
              /\ t.circle_members[k].payout_order = p.circle_members[k].payout_order
              /\ t.circle_members[k].join_order = p.circle_members[k].join_order
              /\ t.circle_members[k].collateral = p.circle_members[k].collateral
<1>0. PICK none : none = {}
  OBVIOUS
<1>1. /\ Like(t.circles, p.circles, BlankCircle, CircleColumns, none, none)
      /\ Like(t.circle_members, p.circle_members, BlankMember, MemberColumns, none, none)
      /\ Like(Scores(t), Scores(p), BlankScore, {"score"}, none, none)
  <2>1. UNION {CirclesMade(event(k)) : k \in {}} = none /\ UNION {CirclesWritten(event(k)) : k \in {}} = none
        /\ UNION {MembersMade(event(k)) : k \in {}} = none /\ UNION {MembersWritten(event(k)) : k \in {}} = none
        /\ UNION {ScoresMade(event(k)) : k \in {}} = none /\ UNION {ScoresWritten(event(k)) : k \in {}} = none
    BY <1>0
  <2> QED
    BY <2>1 DEF Resembles
<1>2. t.circles = p.circles
  <2>1. PICK T, P : T = t.circles /\ P = p.circles
    OBVIOUS
  <2>2. DOMAIN T = DOMAIN P /\ \A k \in DOMAIN T, col \in CircleColumns : T[k][col] = P[k][col]
    BY <1>0, <1>1, <2>1, LikeMeansEqual
  <2>3. /\ T = [c \in DOMAIN T |-> T[c]] /\ P = [c \in DOMAIN P |-> P[c]]
        /\ \A c \in DOMAIN T : IsCircle(T[c]) /\ IsCircle(P[c])
    BY <2>1, <2>2 DEF Truthful, CirclesTrue
  <2>4. ASSUME NEW c \in DOMAIN T PROVE T[c] = P[c]
    <3>1. PICK r, q : r = T[c] /\ q = P[c]
      OBVIOUS
    <3>2. IsCircle(r) /\ IsCircle(q) /\ \A col \in CircleColumns : r[col] = q[col]
      BY <2>2, <2>3, <3>1
    <3>3. /\ r.creator = q.creator /\ r.round_amount = q.round_amount
          /\ r.member_count = q.member_count /\ r.status = q.status
          /\ r.current_round = q.current_round /\ r.paused = q.paused
          /\ r.total_released = q.total_released /\ r.close_reason = q.close_reason
      BY <3>2, Columns
    <3> QED
      BY <3>1, <3>2, <3>3, Zenon DEF IsCircle
  <2>5. T = P
    BY <2>2, <2>3, <2>4
  <2> QED
    BY <2>1, <2>5
<1>3. /\ DOMAIN t.circle_members = DOMAIN p.circle_members
      /\ \A k \in DOMAIN t.circle_members :
           /\ t.circle_members[k].payout_order = p.circle_members[k].payout_order
           /\ t.circle_members[k].join_order = p.circle_members[k].join_order
           /\ t.circle_members[k].collateral = p.circle_members[k].collateral
  <2>1. PICK T, P : T = t.circle_members /\ P = p.circle_members
    OBVIOUS
  <2>2. DOMAIN T = DOMAIN P /\ \A k \in DOMAIN T, col \in MemberColumns : T[k][col] = P[k][col]
    BY <1>0, <1>1, <2>1, LikeMeansEqual
  <2> QED
    BY <2>1, <2>2 DEF MemberColumns
<1>4. t.reputation = p.reputation
  <2>1. PICK T, P, cols : T = t.reputation /\ P = p.reputation /\ cols = {"score"}
    OBVIOUS
  <2>2. PICK S, Q : S = Scores(t) /\ Q = Scores(p)
    OBVIOUS
  <2>3. DOMAIN S = DOMAIN Q /\ \A k \in DOMAIN S, col \in cols : S[k][col] = Q[k][col]
    BY <1>0, <1>1, <2>1, <2>2, LikeMeansEqual
  <2>4. /\ S = [m \in DOMAIN T |-> [score |-> T[m]]] /\ Q = [m \in DOMAIN P |-> [score |-> P[m]]]
    BY <2>1, <2>2 DEF Scores
  <2>5. DOMAIN T = DOMAIN P
    BY <2>3, <2>4
  <2>6. ASSUME NEW m \in DOMAIN T PROVE T[m] = P[m]
    <3>1. S[m] = [score |-> T[m]] /\ Q[m] = [score |-> P[m]]
      BY <2>4, <2>5
    <3>2. S[m]["score"] = Q[m]["score"]
      BY <2>1, <2>3, <2>4
    <3>3. S[m].score = T[m] /\ Q[m].score = P[m]
      BY <3>1
    <3> QED
      BY <3>2, <3>3
  <2>7. T = [m \in DOMAIN T |-> T[m]] /\ P = [m \in DOMAIN P |-> P[m]]
    BY <2>1 DEF Truthful
  <2>8. T = P
    BY <2>5, <2>6, <2>7
  <2> QED
    BY <2>1, <2>8
<1> QED
  BY <1>2, <1>3, <1>4

\* If they also agree in what keeps the ledger, they are those but for the counter.
LEMMA OnlyCountersDiffer ==
  ASSUME NEW t, Truthful(t), NEW p, Truthful(p), Resembles(t, p, {}), Agree(t, p)
  PROVE  WithoutCounters(t) = WithoutCounters(p)
<1>1. /\ t.circles = p.circles /\ t.reputation = p.reputation
      /\ DOMAIN t.circle_members = DOMAIN p.circle_members
      /\ \A k \in DOMAIN t.circle_members :
           /\ t.circle_members[k].payout_order = p.circle_members[k].payout_order
           /\ t.circle_members[k].join_order = p.circle_members[k].join_order
           /\ t.circle_members[k].collateral = p.circle_members[k].collateral
  BY ButForCounters
<1>3. DOMAIN t.circle_members = DOMAIN p.circle_members
      /\ \A k \in DOMAIN t.circle_members :
           [t.circle_members[k] EXCEPT !.defaults = 0] = [p.circle_members[k] EXCEPT !.defaults = 0]
  <2>1. PICK T, P : T = t.circle_members /\ P = p.circle_members
    OBVIOUS
  <2>2. /\ DOMAIN T = DOMAIN P
        /\ \A k \in DOMAIN T : /\ T[k].payout_order = P[k].payout_order
                               /\ T[k].join_order = P[k].join_order
                               /\ T[k].collateral = P[k].collateral
    BY <1>1, <2>1
  <2>3. \A c \in DOMAIN T : IsMember(T[c]) /\ IsMember(P[c])
    BY <2>1, <2>2 DEF Truthful, MembersTrue
  <2>4. ASSUME NEW c \in DOMAIN T
        PROVE  [T[c] EXCEPT !.defaults = 0] = [P[c] EXCEPT !.defaults = 0]
    <3>1. PICK r, q : r = T[c] /\ q = P[c]
      OBVIOUS
    <3>2. IsMember(r) /\ IsMember(q)
      BY <2>3, <3>1
    <3>3. PICK a1, a2, a3, a4, b1, b2, b3, b4 :
            /\ r = [payout_order |-> a1, join_order |-> a2, collateral |-> a3, defaults |-> a4]
            /\ q = [payout_order |-> b1, join_order |-> b2, collateral |-> b3, defaults |-> b4]
      BY <3>2, Zenon DEF IsMember
    <3>4. r.payout_order = q.payout_order /\ r.join_order = q.join_order /\ r.collateral = q.collateral
      BY <2>2, <3>1
    <3>5. a1 = b1 /\ a2 = b2 /\ a3 = b3
      BY <3>3, <3>4
    <3>6. [r EXCEPT !.defaults = 0] = [payout_order |-> a1, join_order |-> a2, collateral |-> a3, defaults |-> 0]
      BY <3>3
    <3>7. [q EXCEPT !.defaults = 0] = [payout_order |-> b1, join_order |-> b2, collateral |-> b3, defaults |-> 0]
      BY <3>3
    <3> QED
      BY <3>1, <3>5, <3>6, <3>7
  <2> QED
    BY <2>1, <2>2, <2>4
<1>5. ASSUME NEW u, Truthful(u)
      PROVE  WithoutCounters(u) =
               [circles |-> u.circles,
                circle_members |-> [k \in DOMAIN u.circle_members |->
                                      [u.circle_members[k] EXCEPT !.defaults = 0]],
                contributions |-> u.contributions, payouts |-> u.payouts,
                defaults |-> u.defaults, circle_audit_events |-> u.circle_audit_events,
                reputation |-> u.reputation]
  <2>1. PICK M : M = [k \in DOMAIN u.circle_members |->
                        [u.circle_members[k] EXCEPT !.defaults = 0]]
    OBVIOUS
  <2>2. WithoutCounters(u) = [u EXCEPT !.circle_members = M]
    BY <2>1, Zenon DEF WithoutCounters
  <2>3. IsTables(u)
    BY <1>5 DEF Truthful
  <2>4. [u EXCEPT !.circle_members = M] =
          [circles |-> u.circles, circle_members |-> M,
           contributions |-> u.contributions, payouts |-> u.payouts,
           defaults |-> u.defaults, circle_audit_events |-> u.circle_audit_events,
           reputation |-> u.reputation]
    BY <2>3 DEF IsTables
  <2> QED
    BY <2>1, <2>2, <2>4
<1>6. PICK M : /\ M = [k \in DOMAIN t.circle_members |->
                         [t.circle_members[k] EXCEPT !.defaults = 0]]
               /\ M = [k \in DOMAIN p.circle_members |->
                         [p.circle_members[k] EXCEPT !.defaults = 0]]
  BY <1>3
<1>7. WithoutCounters(t) =
        [circles |-> t.circles, circle_members |-> M,
         contributions |-> t.contributions, payouts |-> t.payouts,
         defaults |-> t.defaults, circle_audit_events |-> t.circle_audit_events,
         reputation |-> t.reputation]
  BY <1>5, <1>6, Zenon
<1>8. WithoutCounters(p) =
        [circles |-> p.circles, circle_members |-> M,
         contributions |-> p.contributions, payouts |-> p.payouts,
         defaults |-> p.defaults, circle_audit_events |-> p.circle_audit_events,
         reputation |-> p.reputation]
  BY <1>5, <1>6, Zenon
<1> QED
  BY <1>1, <1>7, <1>8 DEF Agree

-----------------------------------------------------------------------------
(* A ledger that is taken in again.                                        *)

\* No circle and no member goes away.
Grows(t, n) == /\ DOMAIN t.circles \subseteq DOMAIN n.circles
               /\ DOMAIN t.circle_members \subseteq DOMAIN n.circle_members

\* No handler lets a circle or a member go.
LEMMA HandleGrows ==
  ASSUME NEW t, Truthful(t), NEW id \in EventId, event(id).name \in Projected
  PROVE  Grows(t, Apply(t, id))
<1>1. DOMAIN t.circles \subseteq DOMAIN Apply(t, id).circles
  BY CirclesEffect DEF Effect, Apply
<1>2. DOMAIN t.circle_members \subseteq DOMAIN Apply(t, id).circle_members
  BY MembersEffect DEF Effect, Apply
<1> QED
  BY <1>1, <1>2 DEF Grows

\* So what has been taken in once is never rejected.
LEMMA StillAccepted ==
  ASSUME NEW t, NEW n, Grows(t, n), NEW e, ~Rejects(t, e)
  PROVE  ~Rejects(n, e)
BY DEF Grows, Rejects

\* The transaction keeps the tables truthful, and says why an event failed.
RunTruthful(s, base) ==
  /\ Truthful(s.tables) /\ Grows(base.tables, s.tables)
  /\ \A id \in s.succeeded : ~Rejects(s.tables, event(id))
  /\ \A id \in s.failed :
       event(id).name \notin supported \/ Rejects(base.tables, event(id))

\* It rebuilds the tables, if nothing that it takes in comes before what was there.
RunRebuilds(s, base, B) ==
  InOrder(s, base) => /\ Rebuilds(s.tables, s.ingested, B \cup s.succeeded)
                      /\ Agree(s.tables, Project(s.ingested))

\* One event more.
LEMMA IngestRebuilds ==
  ASSUME NEW base, NEW B \in SUBSET EventId, base.ingested \subseteq B, Understood(B),
         NEW l \in 1..Len(Chain), NEW ids, ids \subseteq EventId, NEW k \in Nat,
         k + 1 \in 1..Len(Chain[l]), supported \subseteq Projected,
         NEW s, RunInv(s, base, l, ids, k), RunTruthful(s, base),
         RunRebuilds(s, base, B),
         NEW n, n = ingestEventInTx(s, <<l, k + 1>>)
  PROVE  RunTruthful(n, base) /\ RunRebuilds(n, base, B)
<1> DEFINE id == <<l, k + 1>>
<1>1. id \in EventId /\ id[1] = l /\ id[2] = k + 1
  BY PlaceIsEvent
<1>2. s = [tables |-> s.tables, ingested |-> s.ingested,
           failed |-> s.failed, succeeded |-> s.succeeded]
  BY DEF RunInv
<1>3. CASE id \in s.ingested
  BY <1>3 DEF ingestEventInTx
<1>4. CASE id \notin s.ingested
            /\ (event(id).name \notin supported \/ Rejects(s.tables, event(id)))
  <2>1. n = [s EXCEPT !.failed = @ \cup {id}]
    BY <1>4 DEF ingestEventInTx
  <2>2. /\ n.tables = s.tables /\ n.ingested = s.ingested
        /\ n.succeeded = s.succeeded /\ n.failed = s.failed \cup {id}
    BY <1>2, <2>1
  <2> HIDE DEF id
  <2>3. event(id).name \notin supported \/ Rejects(base.tables, event(id))
    BY <1>4, StillAccepted DEF RunTruthful
  <2>4. RunTruthful(n, base)
    BY <2>2, <2>3 DEF RunTruthful
  <2>5. RunRebuilds(n, base, B)
    BY <2>2 DEF InOrder, RunRebuilds
  <2> QED
    BY <2>4, <2>5
<1>5. CASE /\ id \notin s.ingested /\ event(id).name \in supported
           /\ ~Rejects(s.tables, event(id))
  <2> DEFINE t == Apply(s.tables, id)
  <2>1. n = [s EXCEPT !.tables = t, !.ingested = @ \cup {id},
                      !.succeeded = @ \cup {id}]
    BY <1>5 DEF ingestEventInTx, Apply
  <2>2. /\ n.tables = t /\ n.ingested = s.ingested \cup {id}
        /\ n.succeeded = s.succeeded \cup {id} /\ n.failed = s.failed
    <3> HIDE DEF t
    <3> QED
      BY <1>2, <2>1
  <2> HIDE DEF id
  <2>3. event(id).name \in Projected
    BY <1>5
  <2>4. Truthful(s.tables) /\ Truthful(t) /\ Grows(s.tables, t)
    BY <1>1, <2>3, HandleTruthful, HandleGrows DEF RunTruthful, Apply
  <2>5. RunTruthful(n, base)
    <3>1. Grows(base.tables, t)
      BY <2>4 DEF Grows, RunTruthful
    <3>2. \A x \in n.succeeded : ~Rejects(t, event(x))
      <4>1. TAKE x \in n.succeeded
      <4>2. ~Rejects(s.tables, event(x))
        BY <1>5, <2>2 DEF RunTruthful
      <4> HIDE DEF t
      <4> QED
        BY <2>4, <4>2, StillAccepted
    <3> HIDE DEF t
    <3> QED
      BY <2>2, <2>4, <3>1, <3>2 DEF RunTruthful
  <2>6. ASSUME InOrder(n, base)
        PROVE  /\ Rebuilds(t, n.ingested, B \cup n.succeeded)
               /\ Agree(t, Project(n.ingested))
    <3>1. /\ Rebuilds(s.tables, s.ingested, B \cup s.succeeded)
          /\ Agree(s.tables, Project(s.ingested))
      BY <2>2, <2>6 DEF InOrder, RunRebuilds
    <3>2. /\ s.ingested = base.ingested \cup s.succeeded
          /\ s.ingested \subseteq EventId /\ s.succeeded \subseteq EventId
          /\ \A x \in s.succeeded : event(x).name \in supported
      BY DEF RunInv
    <3>3. ASSUME NEW y \in s.ingested PROVE Before(y, id)
      <4>1. CASE y \in base.ingested
        <5>1. ~Before(id, y) /\ y \in EventId /\ y # id
          BY <1>5, <2>2, <2>6, <4>1 DEF InOrder
        <5> QED
          BY <1>1, <5>1, BeforeTotal
      <4>2. CASE y \in s.succeeded
        <5>1. y = <<l, y[2]>> /\ y[2] \in 1..k
          BY <4>2 DEF RunInv
        <5> QED
          BY <1>1, <5>1 DEF Before
      <4> QED
        BY <3>2, <4>1, <4>2
    <3>4. Project(s.ingested \cup {id}) = Apply(Project(s.ingested), id)
      BY <1>1, <3>2, <3>3, AddLast
    <3> DEFINE J == B \cup s.succeeded
    <3>5. /\ J \subseteq EventId /\ s.ingested \subseteq J /\ Understood(J \cup {id})
          /\ J \cup {id} = B \cup n.succeeded
      BY <2>2, <2>3, <3>2 DEF Understood
    <3>6. Rebuilds(s.tables, s.ingested, J)
      BY <3>1
    <3> HIDE DEF J
    <3>7. Rebuilds(t, s.ingested \cup {id}, J \cup {id})
      BY <1>1, <2>4, <3>3, <3>5, <3>6, RebuildsStep
    <3>8. Understood(s.ingested)
      BY <3>5 DEF Understood
    <3>9. IsTables(Project(s.ingested)) /\ IsTables(s.tables)
      BY <2>4, <3>2, <3>8, ProjectTruthful DEF Truthful
    <3>10. Agree(t, Apply(Project(s.ingested), id))
      BY <2>3, <3>1, <3>9, AgreeBoth
    <3> QED
      BY <2>2, <3>4, <3>5, <3>7, <3>10
  <2>7. RunRebuilds(n, base, B)
    <3> HIDE DEF t
    <3> QED
      BY <2>2, <2>6 DEF RunRebuilds
  <2> QED
    BY <2>5, <2>7
<1> QED
  BY <1>3, <1>4, <1>5

\* The whole ledger.
LEMMA LedgerRebuilds ==
  ASSUME NEW base, Untouched(base), Truthful(base.tables),
         NEW B \in SUBSET EventId, base.ingested \subseteq B, Understood(B),
         Rebuilds(base.tables, base.ingested, B),
         Agree(base.tables, Project(base.ingested)),
         NEW l \in 1..Len(Chain), NEW ids, ids \subseteq EventId,
         supported \subseteq Projected,
         NEW after, after = InLedger(ingestEventInTx, base, l, ids)[Len(Chain[l])]
  PROVE  RunTruthful(after, base) /\ RunRebuilds(after, base, B)
<1> DEFINE A == InLedger(ingestEventInTx, base, l, ids)
           n == Len(Chain[l])
           S == {k \in Nat : k <= n => /\ RunTruthful(A[k], base)
                                       /\ RunRebuilds(A[k], base, B)}
<1>1. IsRun(A, base, l, ids, n)
  BY RunIs
<1>2. n \in Nat
  BY ChainFacts
<1>3. \A k \in 0..n : RunInv(A[k], base, l, ids, k)
  BY LedgerRunTo
<1>4. after = A[n]
  OBVIOUS
<1> HIDE DEF A
<1>5. 0 \in S
  <2>1. RunTruthful(base, base)
    BY DEF RunTruthful, Untouched, Grows
  <2>2. B \cup base.succeeded = B
    BY DEF Untouched
  <2>3. RunRebuilds(base, base, B)
    BY <2>2 DEF RunRebuilds
  <2>4. A[0] = base
    BY <1>1 DEF IsRun
  <2> QED
    BY <2>1, <2>3, <2>4
<1>6. ASSUME NEW k \in Nat, k \in S PROVE k + 1 \in S
  <2>1. SUFFICES ASSUME k + 1 <= n
                 PROVE  RunTruthful(A[k + 1], base) /\ RunRebuilds(A[k + 1], base, B)
    OBVIOUS
  <2>2. /\ k + 1 \in 1..n /\ (k + 1) - 1 = k /\ k \in 0..n
        /\ RunInv(A[k], base, l, ids, k)
        /\ RunTruthful(A[k], base) /\ RunRebuilds(A[k], base, B)
    BY <1>2, <1>3, <1>6, <2>1
  <2>3. CASE <<l, k + 1>> \in ids
    <3>1. A[k + 1] = ingestEventInTx(A[k], <<l, k + 1>>)
      BY <1>1, <2>2, <2>3 DEF IsRun
    <3> QED
      BY <2>2, <3>1, IngestRebuilds
  <2>4. CASE <<l, k + 1>> \notin ids
    <3>1. A[k + 1] = A[k]
      BY <1>1, <2>2, <2>4 DEF IsRun
    <3> QED
      BY <2>2, <3>1
  <2> QED
    BY <2>3, <2>4
<1> HIDE DEF S
<1>7. \A k \in Nat : k \in S
  BY <1>5, <1>6, InductiveSet
<1>8. n \in S
  BY <1>2, <1>7
<1> QED
  BY <1>2, <1>4, <1>8 DEF S

-----------------------------------------------------------------------------
(* What a partial replay leaves is made up for when the poller is back.     *)

\* The events B have been applied since the tables were emptied, and each of
\* them would be accepted again.
AppliedSince(B) ==
  /\ B \in SUBSET EventId /\ ingested \subseteq B
  /\ \A b \in B : /\ event(b).name \in supported /\ ~Rejects(tables, event(b))
                  /\ event(b).contract \in {"factory", "reputation"}
                                             \cup DOMAIN tables.circles
                  /\ b[1] <= highWater

\* Those that a replay has deleted are still to come.
StillToCome(B) ==
  ~jumped /\ NothingBeforeStart => \A b \in B \ ingested :
    cursor < b[1] /\ (pc = "process" /\ b[1] <= toLedger => b \in items)

\* With them the tables will be those of the ingested events.
Rebuilt(B) == /\ Truthful(tables) /\ Rebuilds(tables, ingested, B)
              /\ Agree(tables, Project(ingested))

\* The circles of a batch are known when their events are taken in.
KnownIn(ids, id) ==
  \/ event(id).contract \in {"factory", "reputation"} \cup DOMAIN tables.circles
  \/ /\ "circle_created" \in supported
     /\ \E c \in Creation \cap ids : event(c).circle = event(id).contract

\* So it is in the batch that the poller works on.
BatchKnown == pc = "process" => \A id \in items : KnownIn(items, id)

\* The invariant behind TablesAreProjection: there are such events.
RebuildInv ==
  ~reordered /\ ~emptied =>
    BatchKnown /\ \E B : AppliedSince(B) /\ StillToCome(B) /\ Rebuilt(B)

\* When the poller is back, nothing is missing.
LEMMA RebuiltAgain ==
  ASSUME TypeOK, RebuildInv PROVE TablesAreProjection \/ ~partial
<1>1. SUFFICES ASSUME partial, cursor >= highWater, ~reordered, ~emptied, ~jumped,
                      NothingBeforeStart
               PROVE  WithoutCounters(tables) = WithoutCounters(Project(ingested))
  BY DEF TablesAreProjection
<1>2. PICK B : AppliedSince(B) /\ StillToCome(B) /\ Rebuilt(B)
  BY <1>1 DEF RebuildInv
<1>3. B \ ingested = {}
  <2>1. SUFFICES ASSUME NEW b \in B \ ingested PROVE FALSE
    OBVIOUS
  <2>2. cursor < b[1] /\ b[1] <= highWater /\ b \in EventId
    BY <1>1, <1>2 DEF StillToCome, AppliedSince
  <2>3. b[1] \in Nat /\ cursor \in Nat /\ highWater \in Nat
    BY <2>2, EventFacts, ChainFacts DEF TypeOK
  <2> QED
    BY <1>1, <2>2, <2>3
<1>4. B = ingested
  BY <1>2, <1>3 DEF AppliedSince
<1>5. Understood(ingested) /\ ingested \in SUBSET EventId
  BY <1>2, <1>4, BuildKnows DEF AppliedSince, Understood
<1>6. Resembles(tables, Project(ingested), {})
  BY <1>2, <1>4 DEF Rebuilt, Rebuilds
<1>7. Truthful(Project(ingested))
  BY <1>5, ProjectTruthful
<1> QED
  BY <1>2, <1>6, <1>7, OnlyCountersDiffer DEF Rebuilt

\* The events of the batch that are taken in belong to circles that are known then.
CirclesOf(ids) ==
  \A c \in Creation \cap ids :
    "circle_created" \in supported => event(c).circle \in DOMAIN tables'.circles

\* A ledger is committed.
LEMMA CommitRebuilds ==
  ASSUME TypeOK, AnnouncedIsKnown, NEW l \in 1..Len(Chain),
         NEW ids, ids \subseteq {id \in EventId : id[1] = l},
         processLedger(l, ids), UNCHANGED <<supported, history>>,
         ~reordered', ~emptied, \A id \in ids : KnownIn(ids, id),
         NEW B, AppliedSince(B), Rebuilt(B)
  PROVE  /\ ~reordered /\ CirclesOf(ids) /\ Grows(tables, tables')
         /\ \E C : /\ AppliedSince(C)' /\ Rebuilt(C)'
                   /\ C \ ingested' \subseteq (B \ ingested) \ ids
<1> DEFINE base == [tables |-> tables, ingested |-> ingested,
                    failed |-> {}, succeeded |-> {}]
           after == InLedger(ingestEventInTx, base, l, ids)[Len(Chain[l])]
<1>1. /\ tables' = after.tables /\ ingested' = after.ingested
      /\ highWater' = Max({highWater, l})
      /\ reordered' = (reordered \/ \E a \in after.succeeded, b \in ingested :
                                      Before(a, b))
  BY DEF processLedger
<1>2. /\ Untouched(base) /\ base.tables = tables /\ base.ingested = ingested
      /\ ingested \subseteq EventId /\ ids \subseteq EventId
  BY DEF Untouched, TypeOK
<1>3. after = InLedger(ingestEventInTx, base, l, ids)[Len(Chain[l])]
  OBVIOUS
<1> HIDE DEF base, after
<1>4. ~(reordered \/ \E a \in after.succeeded, b \in ingested : Before(a, b))
  BY <1>1, Zenon
<1>5. InOrder(after, base)
  BY <1>2, <1>4 DEF InOrder
<1>6. /\ B \in SUBSET EventId /\ ingested \subseteq B /\ Understood(B)
      /\ supported \subseteq Projected
  BY BuildKnows DEF AppliedSince, Understood
<1>7. RunTruthful(after, base) /\ RunRebuilds(after, base, B)
  BY <1>2, <1>3, <1>6, LedgerRebuilds DEF Rebuilt
<1>8. RunInv(after, base, l, ids, Len(Chain[l]))
  BY <1>2, <1>3, BuildKnows, LedgerRun
<1>20. PICK C : C = B \cup after.succeeded
  OBVIOUS
<1>9. /\ ingested' = ingested \cup after.succeeded
      /\ after.succeeded \subseteq ids /\ after.failed \cap ingested' = {}
      /\ \A id \in after.succeeded : event(id).name \in supported
      /\ \A id \in after.succeeded \cap Creation :
           event(id).circle \in DOMAIN tables'.circles
      /\ \A id \in after.failed \cap Creation : "circle_created" \notin supported
  BY <1>1, <1>2, <1>8 DEF RunInv
<1>10. ids \subseteq ingested' \cup after.failed
  <2>1. \A id \in ids : id = <<l, id[2]>> /\ id[2] \in 1..Len(Chain[l])
    BY <1>2, EventFacts
  <2> QED
    BY <1>1, <1>8, <2>1 DEF RunInv
<1>11. Grows(tables, tables') /\ Truthful(tables')
  BY <1>1, <1>2, <1>7 DEF RunTruthful
<1>12. CirclesOf(ids)
  <2>1. SUFFICES ASSUME NEW c \in Creation \cap ids, "circle_created" \in supported
                 PROVE  event(c).circle \in DOMAIN tables'.circles
    BY DEF CirclesOf
  <2>2. c \in ingested'
    BY <1>9, <1>10, <2>1
  <2>3. c \in ingested => event(c).circle \in DOMAIN tables.circles
    BY DEF AnnouncedIsKnown
  <2> QED
    BY <1>9, <1>11, <2>2, <2>3 DEF Grows
<1>13. Rebuilt(C)'
  <2>0. /\ Rebuilds(after.tables, after.ingested, B \cup after.succeeded)
        /\ Agree(after.tables, Project(after.ingested))
    BY <1>5, <1>7, Zenon DEF RunRebuilds
  <2>1. /\ Rebuilds(after.tables, after.ingested, C)
        /\ Agree(after.tables, Project(after.ingested))
    BY <1>20, <2>0, Zenon
  <2> QED
    BY <1>1, <1>11, <2>1 DEF Rebuilt
<1>14. highWater' \in Nat /\ highWater <= highWater' /\ l <= highWater'
  <2>1. highWater \in Nat /\ l \in Nat
    BY ChainFacts DEF TypeOK
  <2>2. highWater <= l \/ l <= highWater
    BY <2>1
  <2>3. \E x \in {highWater, l} : \A y \in {highWater, l} : y <= x
    BY <2>1, <2>2
  <2>4. /\ Max({highWater, l}) \in {highWater, l}
        /\ \A y \in {highWater, l} : y <= Max({highWater, l})
    BY <2>3 DEF Max
  <2> QED
    BY <1>1, <2>1, <2>4
<1>15. ASSUME NEW b \in C
       PROVE  /\ event(b).name \in supported /\ ~Rejects(tables', event(b))
              /\ event(b).contract \in {"factory", "reputation"} \cup DOMAIN tables'.circles
              /\ b[1] <= highWater'
  <2>1. CASE b \in B
    <3>1. ~Rejects(tables', event(b))
      BY <1>11, <2>1, StillAccepted DEF AppliedSince
    <3>2. b[1] \in Nat /\ highWater \in Nat /\ b[1] <= highWater
      BY <2>1, EventFacts, ChainFacts DEF AppliedSince, TypeOK
    <3>3. b[1] <= highWater'
      BY <1>14, <3>2
    <3> QED
      BY <1>11, <2>1, <3>1, <3>3 DEF AppliedSince, Grows
  <2>2. CASE b \in after.succeeded
    <3>1. b \in ids /\ b[1] = l /\ event(b).name \in supported
      BY <1>9, <2>2
    <3>2. ~Rejects(tables', event(b))
      BY <1>1, <1>7, <2>2 DEF RunTruthful
    <3>3. event(b).contract \in {"factory", "reputation"} \cup DOMAIN tables'.circles
      <4>1. PICK fixed : fixed = {"factory", "reputation"}
        OBVIOUS
      <4>2. CASE event(b).contract \in fixed \cup DOMAIN tables.circles
        BY <1>11, <4>1, <4>2 DEF Grows
      <4>3. CASE event(b).contract \notin fixed \cup DOMAIN tables.circles
        <5>1. /\ "circle_created" \in supported
              /\ \E c \in Creation \cap ids : event(c).circle = event(b).contract
          BY <3>1, <4>1, <4>3 DEF KnownIn
        <5>2. event(b).contract \in DOMAIN tables'.circles
          BY <1>12, <5>1 DEF CirclesOf
        <5> QED
          BY <5>2
      <4> QED
        BY <4>2, <4>3
    <3> QED
      BY <1>14, <3>1, <3>2, <3>3
  <2> QED
    BY <1>20, <2>1, <2>2
<1>16. AppliedSince(C)'
  <2>1. C \in SUBSET EventId /\ ingested' \subseteq C
    BY <1>2, <1>6, <1>9, <1>20
  <2> QED
    BY <1>15, <2>1 DEF AppliedSince
<1>17. ASSUME NEW b \in C, b \notin ingested' PROVE b \in B /\ b \notin ingested /\ b \notin ids
  <2>1. b \in B /\ b \notin ingested
    BY <1>9, <1>17, <1>20
  <2>2. event(b).name \in supported /\ ~Rejects(base.tables, event(b))
    BY <1>2, <2>1 DEF AppliedSince
  <2>3. b \notin after.failed
    BY <1>7, <2>2 DEF RunTruthful
  <2> QED
    BY <1>10, <1>17, <2>1, <2>3
<1>18. C \ ingested' \subseteq (B \ ingested) \ ids
  BY <1>17
<1>19. \E D : /\ AppliedSince(D)' /\ Rebuilt(D)'
             /\ D \ ingested' \subseteq (B \ ingested) \ ids
  BY <1>13, <1>16, <1>18
<1> QED
  BY <1>4, <1>11, <1>12, <1>19

\* A batch knows the circles of its first ledger when it is committed, and the
\* others afterwards.
LEMMA BatchStaysKnown ==
  ASSUME items \subseteq EventId, NEW l, \A id \in items : l <= id[1],
         l \in Nat,
         NEW ids, ids = {id \in items : id[1] = l},
         NEW rest, rest = items \ ids,
         \A id \in items : KnownIn(items, id)
  PROVE  /\ \A id \in ids : KnownIn(ids, id)
         /\ Grows(tables, tables') /\ CirclesOf(ids) /\ supported' = supported =>
              \A id \in rest : KnownIn(rest, id)'
<1>1. PICK fixed : fixed = {"factory", "reputation"}
  OBVIOUS
<1>2. PICK created : created = "circle_created"
  OBVIOUS
<1>3. \A x, id : KnownIn(x, id) <=>
        \/ event(id).contract \in fixed \cup DOMAIN tables.circles
        \/ created \in supported
           /\ \E c \in Creation \cap x : event(c).circle = event(id).contract
  BY <1>1, <1>2 DEF KnownIn
<1>4. \A x, id : KnownIn(x, id)' <=>
        \/ event(id).contract \in fixed \cup DOMAIN tables'.circles
        \/ created \in supported'
           /\ \E c \in Creation \cap x : event(c).circle = event(id).contract
  BY <1>1, <1>2 DEF KnownIn
<1>5. CirclesOf(ids) <=> \A c \in Creation \cap ids :
        created \in supported => event(c).circle \in DOMAIN tables'.circles
  BY <1>2 DEF CirclesOf
<1>6. ASSUME NEW id \in ids PROVE KnownIn(ids, id)
  <2>1. CASE event(id).contract \in fixed \cup DOMAIN tables.circles
    BY <1>3, <2>1
  <2>2. ASSUME created \in supported, NEW c \in Creation \cap items,
               event(c).circle = event(id).contract
        PROVE  KnownIn(ids, id)
    <3>1. c[1] <= id[1] /\ id[1] = l /\ l <= c[1] /\ c[1] \in Nat
      BY <2>2, AnnouncedFirst, EventFacts, ChainFacts
    <3>2. c \in ids
      BY <3>1
    <3> QED
      BY <1>3, <2>2, <3>2
  <2> QED
    BY <1>3, <2>1, <2>2
<1>7. ASSUME Grows(tables, tables'), CirclesOf(ids), supported' = supported,
             NEW id \in rest
      PROVE  KnownIn(rest, id)'
  <2>1. CASE event(id).contract \in fixed \cup DOMAIN tables.circles
    BY <1>4, <1>7, <2>1 DEF Grows
  <2>2. ASSUME created \in supported, NEW c \in Creation \cap items,
               event(c).circle = event(id).contract
        PROVE  KnownIn(rest, id)'
    <3>1. CASE c \in ids
      BY <1>4, <1>5, <1>7, <2>2, <3>1
    <3>2. CASE c \notin ids
      BY <1>4, <1>7, <2>2, <3>2
    <3> QED
      BY <3>1, <3>2
  <2> QED
    BY <1>3, <2>1, <2>2
<1> QED
  BY <1>6, <1>7

\* What the ingested events know of the tables does not change when the database
\* does not.
LEMMA RebuildQuiet ==
  ASSUME UNCHANGED <<database, supported, history>>, RebuildInv,
         pc' # "process" \/ UNCHANGED <<pc, items, toLedger>>
  PROVE  RebuildInv'
<1>1. UNCHANGED <<cursor, tables, ingested, highWater, reordered, supported,
                  partial, jumped, emptied>>
  BY DEF database, history
<1>2. SUFFICES ASSUME ~reordered, ~emptied
               PROVE  BatchKnown' /\ \E B : (AppliedSince(B) /\ StillToCome(B) /\ Rebuilt(B))'
  BY <1>1 DEF RebuildInv
<1>3. PICK B : AppliedSince(B) /\ StillToCome(B) /\ Rebuilt(B)
  BY <1>2 DEF RebuildInv
<1>4. BatchKnown'
  BY <1>1, <1>2 DEF RebuildInv, BatchKnown, KnownIn
<1>5. AppliedSince(B)'
  BY <1>1, <1>3 DEF AppliedSince
<1>6. Rebuilt(B)'
  BY <1>1, <1>3 DEF Rebuilt
<1>7. StillToCome(B)'
  BY <1>1, <1>3 DEF StillToCome
<1> QED
  BY <1>4, <1>5, <1>6, <1>7

\* A ledger is committed.
LEMMA CommitRebuild ==
  ASSUME IngestInv, RebuildInv, CommitLedger PROVE RebuildInv'
<1>0. TypeOK /\ AnnouncedIsKnown
  BY DEF IngestInv
<1>1. PICK l \in 1..Len(Chain) : LET ids == {id \in items : id[1] = l} IN
        /\ processLedger(l, ids) /\ items' = items \ ids
        /\ ids \subseteq {id \in EventId : id[1] = l}
        /\ \E id \in items : id[1] = l
        /\ \A id \in items : l <= id[1]
  BY <1>0, CommitLedgerIs
<1>2. PICK ids : ids = {id \in items : id[1] = l}
  OBVIOUS
<1>3. UNCHANGED <<pc, toLedger, supported, history>> /\ pc = "process"
  BY DEF CommitLedger, deployment
<1>4. SUFFICES ASSUME ~reordered', ~emptied'
               PROVE  BatchKnown' /\ \E B : (AppliedSince(B) /\ StillToCome(B) /\ Rebuilt(B))'
  BY DEF RebuildInv
<1>5. /\ processLedger(l, ids) /\ items' = items \ ids
      /\ ids \subseteq {id \in EventId : id[1] = l}
      /\ \A id \in items : l <= id[1]
      /\ items \subseteq EventId /\ l \in Nat /\ cursor' = l
  BY <1>0, <1>1, <1>2, ChainFacts, LedgerCommit DEF TypeOK
<1>6. ~emptied /\ jumped' = jumped
  BY <1>3, <1>4 DEF history
<1>7. ~reordered
  BY <1>4, <1>5 DEF processLedger
<1>8. PICK B : AppliedSince(B) /\ StillToCome(B) /\ Rebuilt(B)
  BY <1>6, <1>7 DEF RebuildInv
<1>9. \A id \in items : KnownIn(items, id)
  BY <1>3, <1>6, <1>7 DEF RebuildInv, BatchKnown
<1>10. \A id \in ids : KnownIn(ids, id)
  BY <1>2, <1>5, <1>9, BatchStaysKnown
<1>11. /\ CirclesOf(ids) /\ Grows(tables, tables')
       /\ \E C : /\ AppliedSince(C)' /\ Rebuilt(C)'
                 /\ C \ ingested' \subseteq (B \ ingested) \ ids
  BY <1>0, <1>3, <1>4, <1>5, <1>6, <1>8, <1>10, CommitRebuilds
<1>12. PICK C : /\ AppliedSince(C)' /\ Rebuilt(C)'
                /\ C \ ingested' \subseteq (B \ ingested) \ ids
  BY <1>11
<1>13. BatchKnown'
  <2>1. PICK rest : rest = items \ ids
    OBVIOUS
  <2>2. \A id \in rest : KnownIn(rest, id)'
    BY <1>2, <1>3, <1>5, <1>9, <1>11, <2>1, BatchStaysKnown
  <2> QED
    BY <1>5, <2>1, <2>2 DEF BatchKnown, KnownIn
<1>14. StillToCome(C)'
  <2>1. SUFFICES ASSUME ~jumped', NothingBeforeStart, NEW b \in C \ ingested'
                 PROVE  cursor' < b[1] /\ (b[1] <= toLedger' => b \in items')
    BY DEF StillToCome
  <2>2. b \in B \ ingested /\ b \notin ids /\ b[1] \in Nat
    BY <1>8, <1>12, <2>1, EventFacts, ChainFacts DEF AppliedSince
  <2>3. b[1] <= toLedger => b \in items
    BY <1>3, <1>6, <1>8, <2>1, <2>2 DEF StillToCome
  <2>4. l <= toLedger /\ toLedger \in Nat
    BY <1>0, <1>1, <1>3, ChainFacts DEF IngestInv, BatchComplete, TypeOK
  <2>5. CASE b[1] <= toLedger
    <3>1. b \in items /\ l <= b[1] /\ b[1] # l
      BY <1>2, <1>5, <2>2, <2>3, <2>5
    <3> QED
      BY <1>3, <1>5, <2>2, <3>1
  <2>6. CASE ~(b[1] <= toLedger)
    BY <1>3, <1>5, <2>2, <2>4, <2>6
  <2> QED
    BY <2>5, <2>6
<1> QED
  BY <1>12, <1>13, <1>14

\* The rest of a batch holds nothing.
LEMMA FinishRebuild ==
  ASSUME IngestInv, RebuildInv, FinishBatch PROVE RebuildInv'
<1>0. TypeOK /\ AnnouncedIsKnown
  BY DEF IngestInv
<1>1. /\ UNCHANGED <<supported, history>> /\ pc = "process" /\ pc' = "idle"
      /\ items = {}
  BY DEF FinishBatch, EndCycle, deployment
<1>2. CASE UNCHANGED database
  BY <1>1, <1>2, RebuildQuiet
<1>3. CASE toLedger \in 1..Len(Chain) /\ processLedger(toLedger, {})
  <2>1. SUFFICES ASSUME ~reordered', ~emptied'
                 PROVE  BatchKnown' /\ \E B : (AppliedSince(B) /\ StillToCome(B) /\ Rebuilt(B))'
    BY DEF RebuildInv
  <2>2. PICK none : none = {}
    OBVIOUS
  <2>3. /\ none \subseteq {id \in EventId : id[1] = toLedger}
        /\ processLedger(toLedger, none) /\ \A id \in none : KnownIn(none, id)
    BY <1>3, <2>2
  <2>4. cursor' = toLedger
    BY <1>0, <1>3, <2>3, LedgerCommit
  <2>5. ~emptied /\ jumped' = jumped /\ ~reordered
    BY <1>1, <1>3, <2>1 DEF history, processLedger
  <2>6. PICK B : AppliedSince(B) /\ StillToCome(B) /\ Rebuilt(B)
    BY <2>5 DEF RebuildInv
  <2>7. PICK C : /\ AppliedSince(C)' /\ Rebuilt(C)'
                 /\ C \ ingested' \subseteq (B \ ingested) \ none
    BY <1>0, <1>1, <1>3, <2>1, <2>3, <2>5, <2>6, CommitRebuilds
  <2>8. BatchKnown'
    BY <1>1 DEF BatchKnown
  <2>9. StillToCome(C)'
    <3>1. SUFFICES ASSUME ~jumped', NothingBeforeStart, NEW b \in C \ ingested'
                   PROVE  cursor' < b[1]
      BY <1>1 DEF StillToCome
    <3>2. b \in B \ ingested /\ b[1] \in Nat /\ toLedger \in Nat
      BY <1>3, <2>6, <2>7, <3>1, EventFacts, ChainFacts DEF AppliedSince
    <3>3. ~(b[1] <= toLedger)
      BY <1>1, <2>5, <2>6, <3>1, <3>2 DEF StillToCome
    <3> QED
      BY <2>4, <3>2, <3>3
  <2> QED
    BY <2>7, <2>8, <2>9
<1> QED
  BY <1>0, <1>2, <1>3, FinishBatchIs

\* What has been deleted and lies in the batch is fetched, and every circle of a
\* batch is known or announced in it.
LEMMA FetchRebuild ==
  ASSUME IngestInv, RebuildInv, FetchEvents PROVE RebuildInv'
<1> DEFINE range == InRange(lastLedger + 1, toLedger)
<1>1. PICK fixed : fixed = {"factory", "reputation"}
  OBVIOUS
<1>2. PICK created : created = "circle_created"
  OBVIOUS
<1>3. /\ UNCHANGED <<database, toLedger, supported, history>> /\ pc = "fetch"
      /\ items' = {id \in range :
                     /\ event(id).contract \in fixed \cup KnownCircles(range)
                     /\ event(id).name \notin Ignored}
  BY <1>1 DEF FetchEvents, Fetched, deployment
<1>4. UNCHANGED <<cursor, tables, ingested, highWater, reordered, partial,
                  jumped, emptied>>
  BY <1>3 DEF database, history
<1>5. KnownCircles(range) =
        DOMAIN tables.circles
          \cup {event(id).circle : id \in {x \in range :
                  x \in Creation /\ created \in supported}}
  BY <1>2 DEF KnownCircles
<1>6. SUFFICES ASSUME ~reordered, ~emptied
               PROVE  BatchKnown' /\ \E B : (AppliedSince(B) /\ StillToCome(B) /\ Rebuilt(B))'
  BY <1>4 DEF RebuildInv
<1>7. PICK B : AppliedSince(B) /\ StillToCome(B) /\ Rebuilt(B)
  BY <1>6 DEF RebuildInv
<1>8. AppliedSince(B)' /\ Rebuilt(B)'
  BY <1>3, <1>4, <1>7 DEF AppliedSince, Rebuilt
<1>9. \A c \in Creation : /\ event(c).contract \in fixed
                          /\ event(c).name \notin Ignored
  BY <1>1, ChainOrder DEF Creation, Ignored
<1> HIDE DEF range
<1>10. BatchKnown'
  <2>1. SUFFICES ASSUME NEW id \in items' PROVE KnownIn(items, id)'
    BY DEF BatchKnown
  <2>2. KnownIn(items, id)' <=>
          \/ event(id).contract \in fixed \cup DOMAIN tables.circles
          \/ created \in supported
             /\ \E c \in Creation \cap items' : event(c).circle = event(id).contract
    BY <1>1, <1>2, <1>3, <1>4 DEF KnownIn
  <2>3. event(id).contract \in fixed \cup KnownCircles(range)
    BY <1>3, <2>1
  <2>4. ASSUME NEW c \in range, c \in Creation, created \in supported,
               event(c).circle = event(id).contract
        PROVE  KnownIn(items, id)'
    <3>1. c \in items'
      BY <1>3, <1>9, <2>4
    <3> QED
      BY <2>2, <2>4, <3>1
  <2> QED
    BY <1>5, <2>2, <2>3, <2>4
<1>11. StillToCome(B)'
  <2>1. SUFFICES ASSUME ~jumped, NothingBeforeStart, NEW b \in B \ ingested
                 PROVE  cursor < b[1] /\ (b[1] <= toLedger => b \in items')
    BY <1>3, <1>4 DEF StillToCome
  <2>2. cursor < b[1]
    BY <1>7, <2>1 DEF StillToCome
  <2>3. ASSUME b[1] <= toLedger PROVE b \in items'
    <3>1. /\ b \in EventId /\ event(b).name \in supported
          /\ event(b).contract \in fixed \cup DOMAIN tables.circles
      BY <1>1, <1>7, <2>1 DEF AppliedSince
    <3>2. event(b).name \notin Ignored
      <4>1. event(b).name \in Projected
        BY <3>1, BuildKnows DEF IngestInv
      <4> QED
        BY <4>1 DEF Projected, Ignored
    <3>3. lastLedger < b[1]
      BY <1>3, <2>1, <2>2, <3>1 DEF NothingBeforeStart, IngestInv, FromCursor
    <3>4. b \in range
      <4>1. lastLedger \in Nat /\ toLedger \in Nat /\ b[1] \in Nat
        BY <3>1, EventFacts, ChainFacts DEF IngestInv, TypeOK
      <4>2. b[1] \in (lastLedger + 1)..toLedger
        BY <2>3, <3>3, <4>1
      <4> QED
        BY <3>1, <4>2 DEF range, InRange
    <3> QED
      BY <1>3, <1>5, <3>1, <3>2, <3>4
  <2> QED
    BY <2>2, <2>3
<1> QED
  BY <1>8, <1>10, <1>11

\* Tables that differ in the trimmed ones only resemble the same projections.
LEMMA RebuildsLess ==
  ASSUME NEW t, NEW w, w.circles = t.circles, w.circle_members = t.circle_members,
         w.reputation = t.reputation, NEW I, NEW J, J \subseteq I, NEW B,
         Rebuilds(t, I, B)
  PROVE  Rebuilds(w, J, B)
<1>1. Scores(w) = Scores(t)
  BY DEF Scores
<1>2. \A p, K : Resembles(t, p, K) => Resembles(w, p, K)
  BY <1>1 DEF Resembles
<1> QED
  BY <1>2 DEF Rebuilds

\* Nothing, and a circle like itself.
LEMMA NothingRebuilds == Rebuilds(EmptyTables, {}, {})
<1>1. SUFFICES ASSUME NEW C \in SUBSET {} PROVE Resembles(EmptyTables, Project(C), {} \ C)
  BY DEF Rebuilds
<1>2. C = {}
  BY <1>1
<1>3. Project(C) = EmptyTables
  BY <1>2, ProjectNothing
<1>4. Resembles(EmptyTables, EmptyTables, {} \ C)
  BY LikeItself DEF Resembles
<1> QED
  BY <1>3, <1>4

\* From empty tables everything begins anew.
LEMMA NothingApplied ==
  ASSUME tables = EmptyTables, ingested = {}, pc # "process" PROVE RebuildInv
<1>1. PICK B : B = {}
  OBVIOUS
<1>2. AppliedSince(B)
  BY <1>1 DEF AppliedSince
<1>3. StillToCome(B)
  BY <1>1 DEF StillToCome
<1>4. Rebuilt(B)
  <2>1. Truthful(tables)
    BY EmptyTruthful
  <2>2. Rebuilds(tables, ingested, B)
    BY <1>1, NothingRebuilds
  <2>3. Agree(tables, Project(ingested))
    BY ProjectNothing DEF Agree
  <2> QED
    BY <2>1, <2>2, <2>3 DEF Rebuilt
<1> QED
  BY <1>2, <1>3, <1>4 DEF RebuildInv, BatchKnown

\* A partial replay deletes, and what it deletes is still to come; a retry goes
\* back.
LEMMA ReplayRebuilds ==
  ASSUME TypeOK, RebuildInv, NEW args \in Commands, Replay(args)
  PROVE  RebuildInv'
<1>1. PICK from \in Nat : ReplayFull(from) \/ ReplayPartial(from)
                                          \/ RetryFailed(from)
  BY ReplayIs
<1>2. /\ jumped' = (cursor' > cursor \/ (jumped /\ cursor' # 0))
      /\ pc = "stopped" /\ pc' = pc /\ supported' = supported
  BY DEF Replay, memory, deployment
<1>3. BatchKnown'
  BY <1>2 DEF BatchKnown
<1>4. /\ cursor \in Nat /\ ingested \subseteq EventId /\ cursorAfterReplay(from) \in Nat
      /\ \A id \in EventId : id[1] \in Nat \ {0}
  BY EventFacts, ChainFacts DEF TypeOK, cursorAfterReplay
<1>5. CASE ReplayFull(from)
  <2>1. SUFFICES ASSUME ~emptied' PROVE RebuildInv'
    BY DEF RebuildInv
  <2>2. ingested' = {} /\ tables' = EmptyTables
    BY <1>5, <2>1 DEF ReplayFull
  <2>3. (tables = EmptyTables /\ ingested = {} /\ pc # "process" => RebuildInv)'
    BY NothingApplied, PTL
  <2> QED
    BY <1>2, <2>2, <2>3
<1>6. ASSUME ReplayPartial(from) \/ RetryFailed(from), ~reordered', ~emptied',
             NEW B, AppliedSince(B), StillToCome(B), ingested' \subseteq ingested,
             \A b \in ingested \ ingested' : cursor' < b[1]
      PROVE  StillToCome(B)'
  <2>1. SUFFICES ASSUME ~jumped', NothingBeforeStart, NEW b \in B \ ingested'
                 PROVE  cursor' < b[1]
    BY <1>2 DEF StillToCome
  <2>2. b[1] \in Nat \ {0} /\ cursor' \in Nat
    BY <1>4, <1>6, <2>1 DEF AppliedSince, ReplayPartial, RetryFailed
  <2>3. ~(cursor' > cursor) /\ ~(jumped /\ cursor' # 0)
    BY <1>2, <2>1, Zenon
  <2>4. CASE cursor' = 0
    BY <2>2, <2>4
  <2>5. CASE b \in ingested
    BY <1>6, <2>1, <2>5
  <2>6. CASE cursor' # 0 /\ b \notin ingested
    <3>1. cursor < b[1]
      BY <1>6, <2>1, <2>3, <2>6 DEF StillToCome
    <3> QED
      BY <1>4, <2>2, <2>3, <3>1
  <2> QED
    BY <2>4, <2>5, <2>6
<1>7. CASE ReplayPartial(from)
  <2>1. /\ from # 0 /\ tables' = wipeFromLedger(tables, from)
        /\ ingested' = ingested \ FromLedger(ingested, from)
        /\ cursor' = cursorAfterReplay(from)
        /\ UNCHANGED <<reordered, highWater, emptied>>
    BY <1>7 DEF ReplayPartial
  <2>2. SUFFICES ASSUME ~reordered, ~emptied
                 PROVE  \E B : (AppliedSince(B) /\ StillToCome(B) /\ Rebuilt(B))'
    BY <1>3, <2>1 DEF RebuildInv
  <2>3. PICK B : AppliedSince(B) /\ StillToCome(B) /\ Rebuilt(B)
    BY <2>2 DEF RebuildInv
  <2>4. ingested' = Earlier(ingested, from) /\ ingested' \subseteq ingested
    BY <1>4, <2>1 DEF FromLedger, Earlier
  <2>5. Truthful(tables) /\ IsTables(tables)
    BY <2>3 DEF Rebuilt, Truthful
  <2>6. /\ IsTables(tables') /\ tables'.circles = tables.circles
        /\ tables'.circle_members = tables.circle_members
        /\ tables'.reputation = tables.reputation
    BY <2>1, <2>5, Wiped
  <2>7. Truthful(tables')
    BY <2>5, <2>6 DEF Truthful
  <2>8. AppliedSince(B)'
    <3>1. Grows(tables, tables')
      BY <2>6 DEF Grows
    <3>2. \A b \in B : ~Rejects(tables', event(b))
      BY <2>3, <3>1, StillAccepted DEF AppliedSince
    <3> QED
      BY <1>2, <2>1, <2>3, <2>4, <2>6, <3>2 DEF AppliedSince
  <2>9. Rebuilds(tables', ingested', B)
    BY <2>3, <2>4, <2>6, RebuildsLess DEF Rebuilt
  <2>10. Agree(tables', Project(ingested'))
    <3>1. ingested \in SUBSET EventId /\ Understood(ingested)
      BY <1>4, <2>3, BuildKnows DEF AppliedSince, Understood
    <3>2. IsTables(Project(ingested))
      BY <3>1, ProjectTruthful DEF Truthful
    <3>3. Agree(tables', wipeFromLedger(Project(ingested), from))
      BY <2>1, <2>3, <2>5, <3>2, AgreeWiped DEF Rebuilt
    <3>4. Agree(wipeFromLedger(Project(ingested), from), Project(ingested'))
      BY <2>4, <3>1, Trims
    <3> QED
      BY <3>3, <3>4 DEF Agree
  <2>11. StillToCome(B)'
    <3>1. ASSUME NEW b \in ingested \ ingested' PROVE cursor' < b[1]
      <4>1. b[1] >= from /\ b[1] \in Nat
        BY <1>4, <2>1, <3>1 DEF FromLedger
      <4> QED
        BY <2>1, <4>1 DEF cursorAfterReplay
    <3> QED
      BY <1>6, <1>7, <2>1, <2>2, <2>3, <2>4, <3>1
  <2> QED
    BY <2>7, <2>8, <2>9, <2>10, <2>11 DEF Rebuilt
<1>8. CASE RetryFailed(from)
  <2>1. UNCHANGED <<tables, ingested, partial, reordered, highWater, emptied>>
    BY <1>8 DEF RetryFailed
  <2>2. SUFFICES ASSUME ~reordered, ~emptied
                 PROVE  \E B : (AppliedSince(B) /\ StillToCome(B) /\ Rebuilt(B))'
    BY <1>3, <2>1 DEF RebuildInv
  <2>3. PICK B : AppliedSince(B) /\ StillToCome(B) /\ Rebuilt(B)
    BY <2>2 DEF RebuildInv
  <2>4. AppliedSince(B)' /\ Rebuilt(B)'
    BY <1>2, <2>1, <2>3 DEF AppliedSince, Rebuilt
  <2>5. StillToCome(B)'
    BY <1>6, <1>8, <2>1, <2>2, <2>3
  <2> QED
    BY <2>4, <2>5
<1> QED
  BY <1>1, <1>5, <1>7, <1>8

\* A build that understands more would accept them too.
LEMMA UpgradeRebuilds ==
  ASSUME TypeOK, RebuildInv, Upgrade PROVE RebuildInv'
<1>1. /\ UNCHANGED <<cursor, tables, ingested, highWater, reordered, partial,
                     jumped, emptied>>
      /\ pc = "stopped" /\ pc' = pc /\ supported \subseteq supported'
  BY BuildKnows DEF Upgrade, database, memory, history
<1>2. SUFFICES ASSUME ~reordered, ~emptied
               PROVE  BatchKnown' /\ \E B : (AppliedSince(B) /\ StillToCome(B) /\ Rebuilt(B))'
  BY <1>1 DEF RebuildInv
<1>3. PICK B : AppliedSince(B) /\ StillToCome(B) /\ Rebuilt(B)
  BY <1>2 DEF RebuildInv
<1>4. AppliedSince(B)'
  BY <1>1, <1>3 DEF AppliedSince
<1>5. Rebuilt(B)'
  BY <1>1, <1>3 DEF Rebuilt
<1>6. BatchKnown' /\ StillToCome(B)'
  BY <1>1, <1>3 DEF StillToCome, BatchKnown
<1> QED
  BY <1>4, <1>5, <1>6

\* Every step keeps it.
LEMMA RebuildStep ==
  ASSUME IngestInv, RebuildInv, [Next]_vars PROVE RebuildInv'
<1>1. CASE CommitLedger
  BY <1>1, CommitRebuild
<1>2. CASE FinishBatch
  BY <1>2, FinishRebuild
<1>3. CASE FetchEvents
  BY <1>3, FetchRebuild
<1>4. ASSUME NEW args \in Commands, Replay(args) PROVE RebuildInv'
  BY <1>4, ReplayRebuilds DEF IngestInv
<1>5. CASE Upgrade
  BY <1>5, UpgradeRebuilds DEF IngestInv
<1>6. CASE UNCHANGED vars \/ stopIndexer
  <2>1. UNCHANGED <<database, supported, history, pc, items, toLedger>>
    BY <1>6 DEF vars, stopIndexer, memory, deployment
  <2> QED
    BY <2>1, RebuildQuiet
<1>7. CASE startIndexer \/ tick \/ Stopped \/ Crash \/ CycleFails \/ BackoffElapses
           \/ ShrinkBatch \/ \E h \in 0..Len(Chain) : ObserveHead(h)
  <2>1. UNCHANGED <<database, supported, history>> /\ pc' # "process"
    BY <1>7 DEF startIndexer, tick, BeginCycle, Stopped, Crash, CycleFails, EndCycle,
                BackoffElapses, ShrinkBatch, ObserveHead, deployment
  <2> QED
    BY <2>1, RebuildQuiet
<1> QED
  BY <1>1, <1>2, <1>3, <1>4, <1>5, <1>6, <1>7 DEF Next

\* Crashes, restarts, lagging answers and partial replays notwithstanding, the
\* tables are the projection of the ingested events as soon as the poller is back.
THEOREM TablesAreProjected == Spec => []TablesAreProjection
<1>1. Init => RebuildInv
  BY NothingApplied DEF Init
<1>2. IngestInv /\ RebuildInv /\ [Next]_vars => RebuildInv'
  BY RebuildStep
<1>3. IngestInv /\ RebuildInv => TablesAreProjection \/ ~partial
  BY RebuiltAgain DEF IngestInv
<1>4. ExactlyOnce => (~partial => TablesAreProjection)
  BY DEF ExactlyOnce, TablesAreProjection
<1> QED
  BY <1>1, <1>2, <1>3, <1>4, IngestInvariance, AppliedOnce, PTL DEF Spec

-----------------------------------------------------------------------------
(* How many rows there are.                                                *)

\* There are finitely many events.
LEMMA FinitelyMany ==
  ASSUME NEW Y \in SUBSET EventId
  PROVE  IsFiniteSet(Y)
<1> DEFINE F == {X \in SUBSET EventId : IsFiniteSet(X)}
<1>1. {} \in F
  BY FS_EmptySet
<1>2. ASSUME NEW X \in SUBSET EventId, NEW id \in EventId, X \in F
      PROVE  X \cup {id} \in F
  BY <1>2, FS_AddElement
<1> HIDE DEF F
<1>3. Y \in F
  BY <1>1, <1>2, ChainInduction
<1> QED
  BY <1>3 DEF F

\* No table has infinitely many rows.
FiniteRows(t) ==
  /\ IsFiniteSet(DOMAIN t.circles) /\ IsFiniteSet(DOMAIN t.circle_members)
  /\ IsFiniteSet(DOMAIN t.contributions) /\ IsFiniteSet(DOMAIN t.payouts)
  /\ IsFiniteSet(DOMAIN t.defaults) /\ IsFiniteSet(DOMAIN t.circle_audit_events)
  /\ IsFiniteSet(DOMAIN t.reputation)

\* A circle has finitely many members.
LEMMA FiniteSlots ==
  ASSUME NEW id \in EventId, event(id).name = "initialized"
  PROVE  IsFiniteSet(Slots(event(id)))
<1> DEFINE e == event(id)
           n == Len(e.members)
           f == [i \in 1..n |-> <<e.circle, e.members[i]>>]
<1>1. n \in Nat /\ DOMAIN e.members = 1..n
  BY ChainEvents
<1>2. Slots(e) = {<<e.circle, e.members[i]>> : i \in 1..n}
  BY <1>1 DEF Slots, Range
<1>3. f \in Surjection(1..n, Slots(e))
  BY <1>2 DEF Surjection
<1>4. IsFiniteSet(1..n)
  BY <1>1, FS_Interval
<1> HIDE DEF f, n, e
<1> QED
  BY <1>3, <1>4, FS_Surjection DEF e

\* A row is put into a bag.
LEMMA RowsOfBag ==
  ASSUME NEW b, NEW r
  PROVE  DOMAIN (b (+) SetToBag({r})) = DOMAIN b \cup {r}
BY DEF (+), SetToBag

\* A handler inserts finitely many.
LEMMA HandleFinite ==
  ASSUME NEW id \in EventId, event(id).name \in Projected,
         NEW t, Truthful(t), FiniteRows(t)
  PROVE  FiniteRows(Apply(t, id))
<1> DEFINE e == event(id)
           n == Handle(t, e)
<1>0. IsTables(t)
  BY DEF Truthful
<1>1. \A T, key, row : IsFiniteSet(DOMAIN T) => IsFiniteSet(DOMAIN Upsert(T, key, row))
                                                /\ IsFiniteSet(DOMAIN InsertOrIgnore(T, key, row))
  <2> SUFFICES ASSUME NEW T, NEW key, NEW row, IsFiniteSet(DOMAIN T)
               PROVE  IsFiniteSet(DOMAIN Upsert(T, key, row))
                      /\ IsFiniteSet(DOMAIN InsertOrIgnore(T, key, row))
    OBVIOUS
  <2>1. DOMAIN Upsert(T, key, row) = DOMAIN T \cup {key}
    BY DEF Upsert
  <2>2. IsFiniteSet(DOMAIN Upsert(T, key, row))
    BY <2>1, FS_AddElement
  <2> QED
    BY <2>2, Zenon DEF InsertOrIgnore
<1>2. IsFiniteSet(DOMAIN n.circles)
  <2>1. DOMAIN n.circles = DOMAIN t.circles \cup CirclesMade(e)
    BY CirclesEffect DEF Effect
  <2>2. CirclesMade(e) = {e.circle} \/ CirclesMade(e) = {}
    BY Zenon DEF CirclesMade
  <2>3. IsFiniteSet(CirclesMade(e))
    <3>1. \A a, S : S = {a} \/ S = {} => IsFiniteSet(S)
      BY FS_EmptySet, FS_Singleton
    <3> QED
      BY <2>2, <3>1, Zenon
  <2> QED
    BY <2>1, <2>3, FS_Union DEF FiniteRows
<1>3. IsFiniteSet(DOMAIN n.circle_members)
  <2>1. DOMAIN n.circle_members = DOMAIN t.circle_members \cup MembersMade(e)
    BY MembersEffect DEF Effect
  <2>2. CASE e.name = "initialized"
    <3>1. IsFiniteSet(MembersMade(e))
      BY <2>2, FiniteSlots DEF MembersMade
    <3> QED
      BY <2>1, <3>1, FS_Union DEF FiniteRows
  <2>3. CASE e.name # "initialized"
    <3>1. MembersMade(e) = {}
      BY <2>3 DEF MembersMade
    <3> QED
      BY <2>1, <3>1 DEF FiniteRows
  <2> QED
    BY <2>2, <2>3
<1>4. IsFiniteSet(DOMAIN n.reputation)
  <2>1. DOMAIN Scores(n) = DOMAIN Scores(t) \cup ScoresMade(e)
    <3>1. PICK cols : cols = {"score"}
      OBVIOUS
    <3>2. PICK V : Effect(Scores(n), Scores(t), BlankScore, cols,
                          ScoresMade(e), ScoresWritten(e), V)
      BY <3>1, ScoresEffect
    <3> QED
      BY <3>2 DEF Effect
  <2>2. DOMAIN Scores(n) = DOMAIN n.reputation /\ DOMAIN Scores(t) = DOMAIN t.reputation
    BY DEF Scores
  <2>3. ScoresMade(e) = {e.member} \/ ScoresMade(e) = {e.topics[2]} \/ ScoresMade(e) = {}
    BY Zenon DEF ScoresMade
  <2>4. IsFiniteSet(ScoresMade(e))
    <3>1. \A a, S : S = {a} \/ S = {} => IsFiniteSet(S)
      BY FS_EmptySet, FS_Singleton
    <3> QED
      BY <2>3, <3>1, Zenon
  <2>5. DOMAIN n.reputation = DOMAIN t.reputation \cup ScoresMade(e)
    BY <2>1, <2>2
  <2> QED
    BY <2>4, <2>5, FS_Union DEF FiniteRows
<1>5. /\ n.contributions = Contributions(t.contributions, e)
      /\ n.payouts = Payouts(t.payouts, e)
      /\ n.circle_audit_events = AuditEvents(t.circle_audit_events, e)
      /\ n.defaults = Defaults(t.defaults, e)
  BY <1>0, ScopedTables
<1> HIDE DEF n
<1>6. IsFiniteSet(DOMAIN n.contributions)
  BY <1>1, <1>5, Zenon DEF Contributions, FiniteRows
<1>7. IsFiniteSet(DOMAIN n.payouts)
  BY <1>1, <1>5, Zenon DEF Payouts, FiniteRows
<1>8. IsFiniteSet(DOMAIN n.circle_audit_events)
  BY <1>1, <1>5, Zenon DEF AuditEvents, FiniteRows
<1>9. IsFiniteSet(DOMAIN n.defaults)
  <2>1. \A r : DOMAIN (t.defaults (+) SetToBag({r})) = DOMAIN t.defaults \cup {r}
    BY RowsOfBag, Zenon
  <2>2. DOMAIN n.defaults = DOMAIN t.defaults \/ DOMAIN n.defaults = DOMAIN t.defaults \cup {DefaultRow(e)}
    BY <1>5, <2>1, Zenon DEF Defaults
  <2> QED
    BY <2>2, FS_AddElement DEF FiniteRows
<1> QED
  BY <1>2, <1>3, <1>4, <1>6, <1>7, <1>8, <1>9 DEF FiniteRows, Apply, n

\* The events of Z that enter the row d, and those that enter one of D.
Entering(Z, d) == {z \in Z : Enters(z, d)}
EnteringAny(Z, D) == {z \in Z : event(z).name = "default" /\ DefaultRow(event(z)) \in D}

\* The bag holds one copy of a row for each event of Z that enters it.
Tallies(B, Z) ==
  /\ IsRows(B) /\ IsFiniteSet(DOMAIN B)
  /\ \A d : d \in DOMAIN B <=> Entering(Z, d) # {}
  /\ \A d \in DOMAIN B : B[d] = Cardinality(Entering(Z, d))

\* One copy more.
LEMMA CopyAdded ==
  ASSUME NEW b, \A d \in DOMAIN b : b[d] \in Nat, NEW r
  PROVE  LET n == b (+) SetToBag({r})
         IN  /\ IsRows(n) /\ DOMAIN n = DOMAIN b \cup {r}
             /\ n[r] = (IF r \in DOMAIN b THEN b[r] ELSE 0) + 1
             /\ \A d \in DOMAIN b : d # r => n[d] = b[d]
BY DEF (+), SetToBag, IsRows

\* The next event.
LEMMA TallyStep ==
  ASSUME NEW B, NEW Z \in SUBSET EventId, Tallies(B, Z),
         NEW id \in EventId, id \notin Z
  PROVE  Tallies(Defaults(B, event(id)), Z \cup {id})
<1> DEFINE e == event(id)
           r == DefaultRow(e)
           N == Defaults(B, e)
<1>0. \A d : /\ IsFiniteSet(Entering(Z, d)) /\ Cardinality(Entering(Z, d)) \in Nat
              /\ (Entering(Z, d) = {} => Cardinality(Entering(Z, d)) = 0)
  <2>1. \A d : Entering(Z, d) \in SUBSET EventId
    BY DEF Entering
  <2> QED
    BY <2>1, FinitelyMany, FS_CardinalityType, FS_EmptySet
<1>1. CASE e.name # "default"
  <2>1. N = B
    BY <1>1 DEF Defaults
  <2>2. \A d : Entering(Z \cup {id}, d) = Entering(Z, d)
    BY <1>1 DEF Entering, Enters
  <2> QED
    BY <2>1, <2>2 DEF Tallies
<1>2. CASE e.name = "default"
  <2>1. N = B (+) SetToBag({r})
    BY <1>2 DEF Defaults
  <2>2. \A d \in DOMAIN B : B[d] \in Nat
    BY <1>0 DEF Tallies
  <2> HIDE DEF N, r
  <2>3. /\ IsRows(N) /\ DOMAIN N = DOMAIN B \cup {r}
        /\ N[r] = (IF r \in DOMAIN B THEN B[r] ELSE 0) + 1
        /\ \A d \in DOMAIN B : d # r => N[d] = B[d]
    BY <2>1, <2>2, CopyAdded
  <2> USE DEF r
  <2>4. \A d : d # r => Entering(Z \cup {id}, d) = Entering(Z, d)
    BY DEF Entering, Enters
  <2>5. Entering(Z \cup {id}, r) = Entering(Z, r) \cup {id}
    BY <1>2 DEF Entering, Enters
  <2>6. id \notin Entering(Z, r)
    BY DEF Entering
  <2>7. Cardinality(Entering(Z \cup {id}, r)) = Cardinality(Entering(Z, r)) + 1
    BY <1>0, <2>5, <2>6, FS_AddElement
  <2> HIDE DEF N, r, e
  <2>8. IsFiniteSet(DOMAIN N)
    BY <2>3, FS_AddElement DEF Tallies
  <2>9. N[r] = Cardinality(Entering(Z \cup {id}, r))
    <3>1. CASE r \in DOMAIN B
      BY <2>3, <2>7, <3>1 DEF Tallies
    <3>2. CASE r \notin DOMAIN B
      BY <1>0, <2>3, <2>7, <3>2 DEF Tallies
    <3> QED
      BY <3>1, <3>2
  <2>10. ASSUME NEW d \in DOMAIN N PROVE N[d] = Cardinality(Entering(Z \cup {id}, d))
    <3>1. CASE d = r
      BY <2>9, <3>1
    <3>2. CASE d # r
      BY <2>3, <2>4, <3>2 DEF Tallies
    <3> QED
      BY <3>1, <3>2
  <2>11. ASSUME NEW d PROVE d \in DOMAIN N <=> Entering(Z \cup {id}, d) # {}
    <3>1. CASE d = r
      BY <2>3, <2>5, <3>1
    <3>2. CASE d # r
      BY <2>3, <2>4, <3>2 DEF Tallies
    <3> QED
      BY <3>1, <3>2
  <2>12. Tallies(N, Z \cup {id})
    BY <2>3, <2>8, <2>10, <2>11 DEF Tallies
  <2> QED
    BY <2>12 DEF N, e
<1> QED
  BY <1>1, <1>2

\* A partial replay keeps the copies of the earlier events.
LEMMA TallyWiped ==
  ASSUME NEW B, NEW Z \in SUBSET EventId, Tallies(B, Z), NEW from
  PROVE  Tallies(KeptBag(B, from), Earlier(Z, from))
<1> DEFINE N == KeptBag(B, from)
<1>1. \A z \in Z : \A d : Enters(z, d) => d.ledger = z[1]
  BY ChainEvents DEF Enters, DefaultRow, NeedsCircleRow
<1>2. \A d : Entering(Earlier(Z, from), d)
             = IF d.ledger < from THEN Entering(Z, d) ELSE {}
  BY <1>1 DEF Entering, Earlier
<1>3. /\ DOMAIN N = {d \in DOMAIN B : d.ledger < from}
      /\ \A d \in DOMAIN N : N[d] = B[d]
      /\ IsRows(N)
  BY DEF KeptBag, IsRows
<1>4. IsFiniteSet(DOMAIN N)
  BY <1>3, FS_Subset DEF Tallies
<1> HIDE DEF N
<1>5. Tallies(N, Earlier(Z, from))
  BY <1>2, <1>3, <1>4 DEF Tallies
<1> QED
  BY <1>5 DEF N

\* The number of copies in a bag is what adding them up gives.
LEMMA CopiesAreSummed ==
  ASSUME NEW B, IsFiniteSet(DOMAIN B)
  PROVE  \E g : IsSetSum(g, DOMAIN B, B) /\ BagCardinality(B) = g[DOMAIN B]
<1> DEFINE S == DOMAIN B
           First(s) == CHOOSE x \in s : TRUE
           Body(p) == [s \in SUBSET S |->
                         IF s = {} THEN 0 ELSE B[First(s)] + p[s \ {First(s)}]]
           G == CHOOSE p : p = Body(p)
<1> HIDE DEF S
<1>0. IsFiniteSet(S)
  BY DEF S
<1>1. PICK g : g = [s \in SUBSET S |-> g[s]] /\ IsSetSum(g, S, B)
  BY <1>0, SetSumExists
<1>2. BagCardinality(B) = G[S]
  BY DEF S, BagCardinality
<1>3. g = Body(g)
  <2>1. \A s \in SUBSET S : g[s] = Body(g)[s]
    BY <1>1 DEF IsSetSum
  <2>2. Body(g) = [s \in SUBSET S |-> Body(g)[s]]
    OBVIOUS
  <2> HIDE DEF Body
  <2> QED
    BY <1>1, <2>1, <2>2
<1>4. G = Body(G)
  <2> HIDE DEF Body
  <2> QED
    BY <1>3
<1>5. IsSetSum(G, S, B)
  <2>1. DOMAIN Body(G) = SUBSET S
    OBVIOUS
  <2>2. \A s \in SUBSET S :
          Body(G)[s] = IF s = {} THEN 0 ELSE B[First(s)] + G[s \ {First(s)}]
    OBVIOUS
  <2> HIDE DEF Body, G
  <2> QED
    BY <1>4, <2>1, <2>2 DEF IsSetSum, First
<1> HIDE DEF G
<1> QED
  BY <1>2, <1>5 DEF S

\* And that is the number of the default events.
LEMMA TallyTotal ==
  ASSUME NEW B, NEW Z \in SUBSET EventId, Tallies(B, Z)
  PROVE  BagCardinality(B) = Cardinality({z \in Z : event(z).name = "default"})
<1> DEFINE S == DOMAIN B
<1>1. IsFiniteSet(S)
  BY DEF Tallies
<1>2. PICK g : IsSetSum(g, S, B) /\ BagCardinality(B) = g[S]
  BY <1>1, CopiesAreSummed
<1>3. \A X \in SUBSET Z : IsFiniteSet(X) /\ Cardinality(X) \in Nat
  BY FinitelyMany, FS_CardinalityType
<1>4. \A D : EnteringAny(Z, D) \in SUBSET Z
  BY DEF EnteringAny
<1>5. \A d : Entering(Z, d) \in SUBSET Z
  BY DEF Entering
<1>6. \A d \in S : B[d] \in Int
  BY <1>3, <1>5 DEF Tallies
<1> HIDE DEF S
<1>7. /\ g[{}] = 0
      /\ \A s \in SUBSET S : g[s] \in Int
      /\ \A s \in SUBSET S : \A x \in S : x \notin s => g[s \cup {x}] = g[s] + B[x]
  BY <1>1, <1>2, <1>6, SetSumInsert
<1> USE DEF S
<1> DEFINE T == {n \in Nat : \A s \in SUBSET S :
                   Cardinality(s) = n => g[s] = Cardinality(EnteringAny(Z, s))}
<1>8. \A s \in SUBSET S : IsFiniteSet(s) /\ Cardinality(s) \in Nat
                          /\ (Cardinality(s) = 0 <=> s = {})
  BY <1>1, FS_Subset, FS_CardinalityType, FS_EmptySet
<1>9. 0 \in T
  <2>1. EnteringAny(Z, {}) = {}
    BY DEF EnteringAny
  <2> QED
    BY <1>7, <1>8, <2>1, FS_EmptySet
<1>10. ASSUME NEW n \in Nat, n \in T PROVE n + 1 \in T
  <2> SUFFICES ASSUME NEW s \in SUBSET S, Cardinality(s) = n + 1
               PROVE  g[s] = Cardinality(EnteringAny(Z, s))
    OBVIOUS
  <2>1. PICK x : x \in s
    BY <1>8
  <2> DEFINE rest == s \ {x}
  <2>2. rest \in SUBSET S /\ x \in S /\ x \notin rest /\ s = rest \cup {x}
    BY <2>1
  <2>3. Cardinality(rest) = n
    BY <1>8, <2>1, FS_RemoveElement
  <2>4. EnteringAny(Z, s) = EnteringAny(Z, rest) \cup Entering(Z, x)
        /\ EnteringAny(Z, rest) \cap Entering(Z, x) = {}
    BY <2>2 DEF EnteringAny, Entering, Enters
  <2> HIDE DEF rest
  <2>5. g[rest] = Cardinality(EnteringAny(Z, rest)) /\ g[s] = g[rest] + B[x]
    BY <1>7, <1>10, <2>2, <2>3
  <2>6. Cardinality(EnteringAny(Z, s))
          = Cardinality(EnteringAny(Z, rest)) + Cardinality(Entering(Z, x)) - Cardinality({})
    BY <1>3, <1>4, <1>5, <2>4, FS_Union
  <2>7. B[x] = Cardinality(Entering(Z, x)) /\ Cardinality({}) = 0
    BY <2>2, FS_EmptySet DEF Tallies
  <2> QED
    BY <1>3, <1>4, <1>5, <2>5, <2>6, <2>7
<1> HIDE DEF T
<1>11. \A n \in Nat : n \in T
  BY <1>9, <1>10, InductiveSet
<1>12. g[S] = Cardinality(EnteringAny(Z, S))
  BY <1>8, <1>11 DEF T
<1>13. EnteringAny(Z, S) = {z \in Z : event(z).name = "default"}
  <2>1. ASSUME NEW z \in Z, event(z).name = "default" PROVE DefaultRow(event(z)) \in S
    <3>1. z \in Entering(Z, DefaultRow(event(z)))
      BY <2>1 DEF Entering, Enters
    <3> QED
      BY <3>1 DEF Tallies
  <2> QED
    BY <2>1 DEF EnteringAny
<1> QED
  BY <1>2, <1>12, <1>13

\* What is in the tables comes from events: those of Z.
RowsOf(t, Z) ==
  Truthful(t) /\ FiniteRows(t) /\ Witnessed(t, Z) /\ Understood(Z)

\* The invariant behind DefaultsOnce.
RowsInv ==
  RowsOf(tables, ingested) /\ (~emptied => Tallies(tables.defaults, ingested))

\* One event in its savepoint.
LEMMA IngestRows ==
  ASSUME NEW s, s = [tables |-> s.tables, ingested |-> s.ingested,
                     failed |-> s.failed, succeeded |-> s.succeeded],
         s.ingested \subseteq EventId, RowsOf(s.tables, s.ingested),
         NEW id \in EventId, supported \subseteq Projected
  PROVE  LET n == ingestEventInTx(s, id)
         IN  /\ RowsOf(n.tables, n.ingested)
             /\ Tallies(s.tables.defaults, s.ingested)
                  => Tallies(n.tables.defaults, n.ingested)
<1> DEFINE n == ingestEventInTx(s, id)
           e == event(id)
<1>1. CASE id \in s.ingested \/ e.name \notin supported \/ Rejects(s.tables, e)
  <2>1. n.tables = s.tables /\ n.ingested = s.ingested
    BY <1>1 DEF ingestEventInTx
  <2> HIDE DEF n
  <2>2. RowsOf(n.tables, n.ingested)
        /\ (Tallies(s.tables.defaults, s.ingested) => Tallies(n.tables.defaults, n.ingested))
    BY <2>1
  <2> QED
    BY <2>2 DEF n
<1>2. CASE id \notin s.ingested /\ e.name \in supported /\ ~Rejects(s.tables, e)
  <2>1. n.tables = Apply(s.tables, id) /\ n.ingested = s.ingested \cup {id}
    BY <1>2 DEF ingestEventInTx, Apply
  <2>2. e.name \in Projected /\ Truthful(s.tables) /\ IsTables(s.tables)
    BY <1>2 DEF RowsOf, Truthful
  <2> HIDE DEF n
  <2>3. Truthful(n.tables)
    BY <2>1, <2>2, HandleTruthful DEF Apply
  <2>4. FiniteRows(n.tables)
    BY <2>1, <2>2, HandleFinite DEF RowsOf
  <2>5. Witnessed(n.tables, n.ingested)
    BY <2>1, <2>2, WitnessStep DEF RowsOf
  <2>6. n.tables.defaults = Defaults(s.tables.defaults, e)
    BY <2>1, <2>2, ScopedTables DEF Apply
  <2>7. Tallies(s.tables.defaults, s.ingested) => Tallies(n.tables.defaults, n.ingested)
    BY <1>2, <2>1, <2>6, TallyStep
  <2>8. RowsOf(n.tables, n.ingested)
    BY <2>1, <2>2, <2>3, <2>4, <2>5 DEF RowsOf, Understood
  <2> QED
    BY <2>7, <2>8 DEF n
<1> QED
  BY <1>1, <1>2

\* A ledger.
LEMMA LedgerRows ==
  ASSUME NEW base, Untouched(base), base.ingested \subseteq EventId,
         RowsOf(base.tables, base.ingested),
         NEW l \in 1..Len(Chain), NEW ids, ids \subseteq EventId,
         supported \subseteq Projected,
         NEW after, after = InLedger(ingestEventInTx, base, l, ids)[Len(Chain[l])]
  PROVE  /\ RowsOf(after.tables, after.ingested)
         /\ Tallies(base.tables.defaults, base.ingested)
              => Tallies(after.tables.defaults, after.ingested)
<1> DEFINE A == InLedger(ingestEventInTx, base, l, ids)
           n == Len(Chain[l])
           Good(s) == /\ RowsOf(s.tables, s.ingested)
                      /\ Tallies(base.tables.defaults, base.ingested)
                           => Tallies(s.tables.defaults, s.ingested)
           S == {k \in Nat : k <= n => Good(A[k])}
<1>1. IsRun(A, base, l, ids, n)
  BY RunIs
<1>2. n \in Nat
  BY ChainFacts
<1>3. \A k \in 0..n : RunInv(A[k], base, l, ids, k)
  BY LedgerRunTo
<1>4. after = A[n]
  OBVIOUS
<1> HIDE DEF A
<1>5. 0 \in S
  <2>1. A[0] = base
    BY <1>1 DEF IsRun
  <2> QED
    BY <2>1
<1>6. ASSUME NEW k \in Nat, k \in S PROVE k + 1 \in S
  <2>1. SUFFICES ASSUME k + 1 <= n PROVE Good(A[k + 1])
    OBVIOUS
  <2>2. /\ k + 1 \in 1..n /\ (k + 1) - 1 = k /\ k \in 0..n
        /\ RunInv(A[k], base, l, ids, k) /\ Good(A[k])
    BY <1>2, <1>3, <1>6, <2>1
  <2>3. CASE <<l, k + 1>> \in ids
    <3>1. A[k + 1] = ingestEventInTx(A[k], <<l, k + 1>>)
      BY <1>1, <2>2, <2>3 DEF IsRun
    <3>2. A[k].ingested \subseteq EventId
      BY <2>2 DEF RunInv
    <3>3. /\ RowsOf(A[k + 1].tables, A[k + 1].ingested)
          /\ Tallies(A[k].tables.defaults, A[k].ingested)
               => Tallies(A[k + 1].tables.defaults, A[k + 1].ingested)
      <4>1. PICK s : s = A[k]
        OBVIOUS
      <4>2. s = [tables |-> s.tables, ingested |-> s.ingested,
                 failed |-> s.failed, succeeded |-> s.succeeded]
        BY <2>2, <4>1 DEF RunInv
      <4>3. s.ingested \subseteq EventId /\ RowsOf(s.tables, s.ingested)
        BY <2>2, <3>2, <4>1
      <4>4. <<l, k + 1>> \in EventId
        BY <2>3
      <4>5. A[k + 1] = ingestEventInTx(s, <<l, k + 1>>)
        BY <3>1, <4>1
      <4>6. /\ RowsOf(A[k + 1].tables, A[k + 1].ingested)
            /\ Tallies(s.tables.defaults, s.ingested)
                 => Tallies(A[k + 1].tables.defaults, A[k + 1].ingested)
        BY <4>2, <4>3, <4>4, <4>5, IngestRows
      <4> QED
        BY <4>1, <4>6
    <3> QED
      BY <2>2, <3>3
  <2>4. CASE <<l, k + 1>> \notin ids
    <3>1. A[k + 1] = A[k]
      BY <1>1, <2>2, <2>4 DEF IsRun
    <3> QED
      BY <2>2, <3>1
  <2> QED
    BY <2>3, <2>4
<1> HIDE DEF S
<1>7. \A k \in Nat : k \in S
  BY <1>5, <1>6, InductiveSet
<1>8. n \in S
  BY <1>2, <1>7
<1> QED
  BY <1>2, <1>4, <1>8 DEF S

\* A commit.
LEMMA CommitRows ==
  ASSUME TypeOK, RowsInv, NEW l \in 1..Len(Chain),
         NEW ids, ids \subseteq {id \in EventId : id[1] = l},
         processLedger(l, ids), UNCHANGED history
  PROVE  RowsInv'
<1> DEFINE base == [tables |-> tables, ingested |-> ingested,
                    failed |-> {}, succeeded |-> {}]
           after == InLedger(ingestEventInTx, base, l, ids)[Len(Chain[l])]
<1>1. tables' = after.tables /\ ingested' = after.ingested
  BY DEF processLedger
<1>2. /\ Untouched(base) /\ base.tables = tables /\ base.ingested = ingested
      /\ ingested \subseteq EventId /\ ids \subseteq EventId
  BY DEF Untouched, TypeOK
<1>3. after = InLedger(ingestEventInTx, base, l, ids)[Len(Chain[l])]
  OBVIOUS
<1> HIDE DEF base, after
<1>4. /\ RowsOf(after.tables, after.ingested)
      /\ Tallies(base.tables.defaults, base.ingested)
           => Tallies(after.tables.defaults, after.ingested)
  BY <1>2, <1>3, BuildKnows, LedgerRows DEF RowsInv
<1>5. emptied' = emptied
  BY DEF history
<1> QED
  BY <1>1, <1>2, <1>4, <1>5 DEF RowsInv

\* Nothing in the tables.
LEMMA EmptyRows ==
  ASSUME NEW Z, Understood(Z)
  PROVE  /\ RowsOf(EmptyTables, Z)
         /\ Z = {} => Tallies(EmptyTables.defaults, Z)
<1>1. PICK f, b : f = <<>> /\ b = EmptyBag
  OBVIOUS
<1>2. /\ EmptyTables.contributions = f /\ EmptyTables.payouts = f
      /\ EmptyTables.circle_audit_events = f /\ EmptyTables.defaults = b
      /\ EmptyTables.circles = f /\ EmptyTables.circle_members = f
      /\ EmptyTables.reputation = f
  BY <1>1, Zenon DEF EmptyTables
<1>3. DOMAIN f = {}
  BY <1>1
<1>4. DOMAIN b = {} /\ IsRows(b)
  BY <1>1 DEF EmptyBag, SetToBag, IsRows
<1>5. FiniteRows(EmptyTables)
  BY <1>2, <1>3, <1>4, FS_EmptySet DEF FiniteRows
<1>6. Witnessed(EmptyTables, Z)
  BY <1>2, <1>3, <1>4, EmptyWitnessed
     DEF Witnessed, OfLedgers, OfSettlements, OfDefaults
<1>7. Z = {} => Tallies(EmptyTables.defaults, Z)
  BY <1>2, <1>4, FS_EmptySet DEF Tallies, Entering
<1> QED
  BY <1>5, <1>6, <1>7, EmptyTruthful DEF RowsOf

\* What a partial replay leaves.
LEMMA WipedRows ==
  ASSUME NEW t, NEW Z \in SUBSET EventId, RowsOf(t, Z), NEW from
  PROVE  /\ RowsOf(wipeFromLedger(t, from), Earlier(Z, from))
         /\ Tallies(t.defaults, Z)
              => Tallies(wipeFromLedger(t, from).defaults, Earlier(Z, from))
<1> DEFINE w == wipeFromLedger(t, from)
<1>1. Truthful(t) /\ IsTables(t) /\ FiniteRows(t) /\ Witnessed(t, Z)
  BY DEF RowsOf, Truthful
<1>2. /\ IsTables(w) /\ w.circles = t.circles
      /\ w.circle_members = t.circle_members /\ w.reputation = t.reputation
      /\ w.contributions = Kept(t.contributions, from)
      /\ w.payouts = Kept(t.payouts, from)
      /\ w.circle_audit_events = Kept(t.circle_audit_events, from)
      /\ w.defaults = KeptBag(t.defaults, from)
  BY <1>1, Wiped
<1>3. Witnessed(w, Earlier(Z, from))
  BY <1>1, WipeWitnessed
<1>4. Tallies(t.defaults, Z) => Tallies(w.defaults, Earlier(Z, from))
  BY <1>2, TallyWiped
<1> HIDE DEF w
<1>5. Truthful(w)
  BY <1>1, <1>2 DEF Truthful
<1>6. \A T : /\ DOMAIN Kept(T, from) \subseteq DOMAIN T
             /\ DOMAIN KeptBag(T, from) \subseteq DOMAIN T
  BY DEF Kept, KeptBag
<1>7. FiniteRows(w)
  BY <1>1, <1>2, <1>6, FS_Subset DEF FiniteRows
<1>8. RowsOf(w, Earlier(Z, from))
  BY <1>3, <1>5, <1>7 DEF RowsOf, Understood, Earlier
<1> QED
  BY <1>4, <1>8 DEF w

\* A replay.
LEMMA ReplayRows ==
  ASSUME TypeOK, RowsInv, NEW args \in Commands, Replay(args)
  PROVE  RowsInv'
<1>1. PICK from \in Nat : ReplayFull(from) \/ ReplayPartial(from)
                                          \/ RetryFailed(from)
  BY ReplayIs
<1>2. CASE ReplayFull(from)
  <2>1. /\ tables' = EmptyTables /\ (~emptied' => ingested' = {})
        /\ ingested' \subseteq ingested
    BY <1>2 DEF ReplayFull
  <2>2. Understood(ingested')
    BY <2>1 DEF RowsInv, RowsOf, Understood
  <2> QED
    BY <2>1, <2>2, EmptyRows DEF RowsInv
<1>3. CASE ReplayPartial(from)
  <2>1. ingested \in SUBSET EventId /\ \A id \in EventId : id[1] \in Nat
    BY EventFacts, ChainFacts DEF TypeOK
  <2>2. tables' = wipeFromLedger(tables, from) /\ emptied' = emptied
        /\ ingested' = ingested \ FromLedger(ingested, from)
    BY <1>3 DEF ReplayPartial
  <2>3. ingested' = Earlier(ingested, from)
    BY <2>1, <2>2 DEF FromLedger, Earlier
  <2> QED
    BY <2>1, <2>2, <2>3, WipedRows DEF RowsInv
<1>4. CASE RetryFailed(from)
  BY <1>4 DEF RetryFailed, RowsInv
<1> QED
  BY <1>1, <1>2, <1>3, <1>4

\* Every step keeps RowsInv.
LEMMA RowsStep ==
  ASSUME TypeOK, RowsInv, [Next]_vars PROVE RowsInv'
<1>1. CASE UNCHANGED <<database, history>>
  BY <1>1 DEF RowsInv, database, history
<1>2. CASE CommitLedger
  <2>1. PICK l \in 1..Len(Chain) :
          LET ids == {id \in items : id[1] = l} IN
            /\ processLedger(l, ids)
            /\ ids \subseteq {id \in EventId : id[1] = l}
    BY <1>2, CommitLedgerIs
  <2>2. UNCHANGED history
    BY <1>2 DEF CommitLedger
  <2> QED
    BY <2>1, <2>2, CommitRows
<1>3. CASE FinishBatch
  <2>1. CASE toLedger \in 1..Len(Chain) /\ processLedger(toLedger, {})
    <3>1. UNCHANGED history
      BY <1>3 DEF FinishBatch
    <3> QED
      BY <2>1, <3>1, CommitRows
  <2>2. CASE UNCHANGED database
    BY <1>1, <1>3, <2>2 DEF FinishBatch
  <2> QED
    BY <1>3, <2>1, <2>2, FinishBatchIs
<1>4. ASSUME NEW args \in Commands, Replay(args) PROVE RowsInv'
  BY <1>4, ReplayRows
<1>5. [Next]_vars => \/ UNCHANGED <<database, history>>
                     \/ CommitLedger \/ FinishBatch
                     \/ \E args \in Commands : Replay(args)
  BY DEF Next, vars, startIndexer, stopIndexer, Stopped, Crash, Upgrade, tick,
         ObserveHead, FetchEvents, ShrinkBatch, CycleFails, BackoffElapses
<1> QED
  BY <1>1, <1>2, <1>3, <1>4, <1>5

\* The rows of the tables are, at all times, those of events that a handler knows,
\* and a row of defaults occurs as often as ingested events enter it.
THEOREM RowsHold == Spec => [](TypeOK /\ RowsInv)
<1>1. Init => RowsInv
  <2>1. SUFFICES ASSUME Init PROVE RowsInv
    OBVIOUS
  <2>2. tables = EmptyTables /\ ingested = {}
    BY <2>1 DEF Init
  <2>3. Understood(ingested)
    BY <2>2 DEF Understood
  <2> QED
    BY <2>2, <2>3, EmptyRows DEF RowsInv
<1>2. TypeOK /\ RowsInv /\ [Next]_vars => RowsInv'
  BY RowsStep
<1>3. Spec => []TypeOK
  <2>1. IngestInv => TypeOK
    BY DEF IngestInv
  <2> QED
    BY <2>1, IngestInvariance, PTL
<1> QED
  BY <1>1, <1>2, <1>3, PTL DEF Spec

\* The rows of defaults are those of the ingested default events.
LEMMA RowsAreCounted ==
  ASSUME TypeOK, RowsInv PROVE DefaultsOnce
<1> DEFINE ids == {id \in ingested : event(id).name = "default"}
           Of(d) == {id \in ids : /\ event(id).circle = d.circle
                                  /\ event(id).member = d.member
                                  /\ event(id).round = d.round}
<1>1. ~emptied => BagCardinality(tables.defaults) = Cardinality(ids)
  BY TallyTotal DEF RowsInv, TypeOK
<1>2. ASSUME NEW d \in DOMAIN tables.defaults PROVE Of(d) # {}
  <2>1. PICK z \in ingested : Enters(z, d)
    BY <1>2 DEF RowsInv, RowsOf, Witnessed, OfDefaults
  <2>2. z \in Of(d)
    BY <2>1 DEF Enters, DefaultRow
  <2> QED
    BY <2>2
<1> QED
  BY <1>1, <1>2 DEF DefaultsOnce

-----------------------------------------------------------------------------
(* Taking the deleted events in again.                                     *)

\* The defaults of a projection are those of its events.
LEMMA ProjectTallies ==
  ASSUME NEW Y \in SUBSET EventId, Understood(Y)
  PROVE  Tallies(Project(Y).defaults, Y)
<1> DEFINE F == {Z \in SUBSET EventId :
                   Understood(Z) => Tallies(Project(Z).defaults, Z)}
<1>1. {} \in F
  <2>1. PICK none : none = {}
    OBVIOUS
  <2>2. Understood(none)
    BY <2>1 DEF Understood
  <2>3. Tallies(EmptyTables.defaults, none)
    BY <2>1, <2>2, EmptyRows
  <2> QED
    BY <2>1, <2>3, ProjectNothing
<1>2. ASSUME NEW Z \in SUBSET EventId, NEW id \in EventId, Z \in F,
             \A y \in Z : Before(y, id)
      PROVE  Z \cup {id} \in F
  <2>1. SUFFICES ASSUME Understood(Z \cup {id})
                 PROVE  Tallies(Project(Z \cup {id}).defaults, Z \cup {id})
    OBVIOUS
  <2>2. Understood(Z) /\ event(id).name \in Projected
    BY <2>1 DEF Understood
  <2>3. Project(Z \cup {id}) = Apply(Project(Z), id)
    BY <1>2, AddLast
  <2>4. IsTables(Project(Z))
    BY <2>2, ProjectTruthful DEF Truthful
  <2>5. Project(Z \cup {id}).defaults = Defaults(Project(Z).defaults, event(id))
    BY <2>2, <2>3, <2>4, ScopedTables DEF Apply
  <2>6. Tallies(Project(Z).defaults, Z)
    BY <1>2, <2>2
  <2>7. id \notin Z
    <3>1. ~Before(id, id)
      BY NotBoth
    <3> QED
      BY <1>2, <3>1
  <2>8. Tallies(Defaults(Project(Z).defaults, event(id)), Z \cup {id})
    BY <2>6, <2>7, TallyStep
  <2> QED
    BY <2>5, <2>8
<1> HIDE DEF F
<1>3. Y \in F
  BY <1>1, <1>2, ChainInduction
<1> QED
  BY <1>3 DEF F

\* A projection is that of its first events but for what the others make and write.
LEMMA ProjectRebuilds ==
  ASSUME NEW Y \in SUBSET EventId, Understood(Y)
  PROVE  Rebuilds(Project(Y), Y, Y)
<1> DEFINE F == {Z \in SUBSET EventId :
                   Understood(Z) => Rebuilds(Project(Z), Z, Z)}
<1>1. {} \in F
  BY ProjectNothing, NothingRebuilds
<1>2. ASSUME NEW Z \in SUBSET EventId, NEW id \in EventId, Z \in F,
             \A y \in Z : Before(y, id)
      PROVE  Z \cup {id} \in F
  <2>1. SUFFICES ASSUME Understood(Z \cup {id})
                 PROVE  Rebuilds(Project(Z \cup {id}), Z \cup {id}, Z \cup {id})
    OBVIOUS
  <2>2. Understood(Z)
    BY <2>1 DEF Understood
  <2>3. Project(Z \cup {id}) = Apply(Project(Z), id)
    BY <1>2, AddLast
  <2>4. Truthful(Project(Z)) /\ Rebuilds(Project(Z), Z, Z)
    BY <1>2, <2>2, ProjectTruthful
  <2>5. Rebuilds(Apply(Project(Z), id), Z \cup {id}, Z \cup {id})
    BY <1>2, <2>1, <2>4, RebuildsStep
  <2> QED
    BY <2>3, <2>5
<1> HIDE DEF F
<1>3. Y \in F
  BY <1>1, <1>2, ChainInduction
<1> QED
  BY <1>3 DEF F

\* No event but a default moves the counter of a member that there is.
LEMMA CounterStays ==
  ASSUME NEW id \in EventId, event(id).name \in Projected,
         event(id).name # "default", NEW t, Truthful(t),
         NEW k \in DOMAIN t.circle_members
  PROVE  Apply(t, id).circle_members[k].defaults = t.circle_members[k].defaults
<1> DEFINE e == event(id)
           T == t.circle_members
           N == Handle(t, e).circle_members
<1>1. IsTables(t) /\ MembersTrue(T)
  BY DEF Truthful
<1>2. CASE e.name \notin {"initialized", "joined"}
  <2>1. N = T
    BY <1>1, <1>2, MembersLeftAlone
  <2> QED
    BY <2>1 DEF Apply
<1>3. CASE e.name = "initialized"
  <2> DEFINE slot == [j \in {<<e.circle, m>> : m \in Range(e.members)} |->
               [payout_order |-> (CHOOSE i \in DOMAIN e.members :
                                    e.members[i] = j[2]) - 1,
                join_order |-> 0, collateral |-> 0, defaults |-> 0]]
  <2>1. Handle(t, e) = handleCircleInitialized(t, e)
    BY <1>3 DEF Handle
  <2>2. PICK row : handleCircleInitialized(t, e) =
                     [t EXCEPT !.circles = Upsert(@, e.circle, row),
                               !.circle_members = [j \in DOMAIN @ \cup DOMAIN slot |->
                                  IF j \in DOMAIN @ THEN @[j] ELSE slot[j]]]
    BY DEF handleCircleInitialized
  <2> HIDE DEF slot, T
  <2>3. N = [j \in DOMAIN T \cup DOMAIN slot |->
               IF j \in DOMAIN T THEN T[j] ELSE slot[j]]
    BY <1>1, <2>1, <2>2 DEF IsTables, T
  <2> HIDE DEF N
  <2>4. N[k] = T[k]
    BY <2>3 DEF T
  <2> QED
    BY <2>4 DEF N, T, Apply
<1>4. CASE e.name = "joined"
  <2> DEFINE key == <<e.circle, e.member>>
             row == Filled(T[key], e.join_order, e.amount)
  <2>1. Handle(t, e) = handleCircleJoined(t, e)
    BY <1>4 DEF Handle
  <2>2. N = [T EXCEPT ![key] = row]
    BY <1>1, <2>1 DEF handleCircleJoined, IsTables, Filled
  <2>3. key \in DOMAIN T => row.defaults = T[key].defaults
    <3>1. HAVE key \in DOMAIN T
    <3>2. IsMember(T[key])
      BY <1>1, <3>1 DEF MembersTrue
    <3> HIDE DEF T, key, e
    <3>3. row = [payout_order |-> T[key].payout_order,
                 join_order |-> e.join_order, collateral |-> e.amount,
                 defaults |-> T[key].defaults]
      BY <3>2, MemberRows
    <3> HIDE DEF row
    <3> QED
      BY <3>3
  <2> HIDE DEF N, row, key
  <2>4. N[k] = IF k = key THEN row ELSE T[k]
    BY <2>2
  <2>5. N[k].defaults = T[k].defaults
    BY <2>3, <2>4
  <2> QED
    BY <2>5 DEF N, Apply
<1> QED
  BY <1>2, <1>3, <1>4

\* Tables that differ in no more than the counters, and agree in those too.
LEMMA NothingDiffers ==
  ASSUME NEW t, Truthful(t), NEW p, Truthful(p), Resembles(t, p, {}), Agree(t, p),
         \A k \in DOMAIN p.circle_members :
           t.circle_members[k].defaults = p.circle_members[k].defaults
  PROVE  t = p
<1>0. PICK none : none = {}
  OBVIOUS
<1>1. /\ t.circles = p.circles /\ t.reputation = p.reputation
      /\ DOMAIN t.circle_members = DOMAIN p.circle_members
      /\ \A k \in DOMAIN t.circle_members :
           t.circle_members[k].payout_order = p.circle_members[k].payout_order
           /\ t.circle_members[k].join_order = p.circle_members[k].join_order
           /\ t.circle_members[k].collateral = p.circle_members[k].collateral
  BY ButForCounters
<1>2. t.circle_members = p.circle_members
  <2>1. PICK T, P : T = t.circle_members /\ P = p.circle_members
    OBVIOUS
  <2>2. /\ MembersTrue(T) /\ MembersTrue(P)
    BY <2>1 DEF Truthful
  <2>3. ASSUME NEW k \in DOMAIN T PROVE T[k] = P[k]
    <3>1. PICK r, q : r = T[k] /\ q = P[k]
      OBVIOUS
    <3>2. IsMember(r) /\ IsMember(q)
      BY <1>1, <2>1, <2>2, <3>1 DEF MembersTrue
    <3>3. /\ r.payout_order = q.payout_order /\ r.join_order = q.join_order
          /\ r.collateral = q.collateral /\ r.defaults = q.defaults
      BY <1>1, <2>1, <3>1
    <3>4. r = q
      BY <3>2, <3>3, Zenon DEF IsMember
    <3> QED
      BY <3>1, <3>4
  <2>4. DOMAIN T = DOMAIN P /\ T = [k \in DOMAIN T |-> T[k]] /\ P = [k \in DOMAIN P |-> P[k]]
    BY <1>1, <2>1, <2>2 DEF MembersTrue
  <2>5. T = P
    BY <2>3, <2>4
  <2> QED
    BY <2>1, <2>5
<1> QED
  BY <1>1, <1>2, Zenon DEF Truthful, IsTables, Agree

\* Where a partial replay has got to: it has taken in the events Y of those of I
\* from the ledger on, and the tables t are those of all the events so far, but
\* for what is still missing; the counters are those of the tables p before.
GotTo(t, p, I, from, Y) ==
  LET done == Earlier(I, from) \cup Y
  IN  /\ Truthful(t) /\ Resembles(t, Project(done), I \ done)
      /\ Agree(t, Project(done))
      /\ \A k \in DOMAIN p.circle_members :
           /\ k \in DOMAIN t.circle_members
           /\ t.circle_members[k].defaults = p.circle_members[k].defaults

\* After the deletion.
LEMMA StartsOver ==
  ASSUME NEW I \in SUBSET EventId, Understood(I), NEW from \in Nat
  PROVE  GotTo(wipeFromLedger(Project(I), from), Project(I), I, from, {})
<1> DEFINE p == Project(I)
           w == wipeFromLedger(p, from)
           E == Earlier(I, from)
<1>1. Truthful(p) /\ IsTables(p)
  BY ProjectTruthful DEF Truthful
<1>2. Truthful(w) /\ w.circles = p.circles
      /\ w.circle_members = p.circle_members /\ w.reputation = p.reputation
  <2> HIDE DEF p
  <2> QED
    BY <1>1, Wiped DEF Truthful
<1>3. Agree(w, Project(E))
  BY Trims
<1>4. Resembles(p, Project(E), I \ E)
  <2>1. E \in SUBSET I /\ \A c \in E, x \in I \ E : Before(c, x)
    <3>1. \A y \in EventId : y[1] \in Nat
      BY EventFacts, ChainFacts
    <3> QED
      BY <3>1 DEF Earlier, Before
  <2>2. Rebuilds(p, I, I)
    BY ProjectRebuilds
  <2> HIDE DEF p, E
  <2> QED
    BY <2>1, <2>2 DEF Rebuilds
<1> HIDE DEF p, w, E
<1>5. Resembles(w, Project(E), I \ E)
  BY <1>2, <1>4 DEF Resembles, Scores
<1>6. E \cup {} = E
  OBVIOUS
<1>7. GotTo(w, p, I, from, {})
  BY <1>2, <1>3, <1>5, <1>6 DEF GotTo, E
<1> QED
  BY <1>7 DEF w, p

\* The next event.
LEMMA GetsFurther ==
  ASSUME NEW I \in SUBSET EventId, Understood(I), NEW from \in Nat, NEW p,
         NEW t, NEW Y \in SUBSET (I \ Earlier(I, from)), GotTo(t, p, I, from, Y),
         NEW id \in I \ Earlier(I, from), event(id).name # "default",
         \A y \in Y : Before(y, id),
         \A x \in (I \ Earlier(I, from)) \ Y : x # id => Before(id, x)
  PROVE  GotTo(Apply(t, id), p, I, from, Y \cup {id})
<1> DEFINE done == Earlier(I, from) \cup Y
           K == I \ done
           q == Project(done)
<1>1. /\ done \in SUBSET EventId /\ Understood(done) /\ K \subseteq EventId
      /\ \A k \in K : event(k).name \in Projected
      /\ id \in EventId /\ event(id).name \in Projected
  BY DEF Understood, Earlier
<1>2. \A y \in done : Before(y, id)
  <2>1. \A y \in EventId : y[1] \in Nat
    BY EventFacts, ChainFacts
  <2>2. \A y \in Earlier(I, from) : Before(y, id)
    BY <2>1 DEF Earlier, Before
  <2> QED
    BY <2>2
<1>3. \A k \in K : ~Before(k, id)
  <2>1. TAKE k \in K
  <2>2. CASE k = id
    <3>1. ~Before(id, id)
      BY <1>1, NotBoth
    <3> QED
      BY <2>2, <3>1
  <2>3. CASE k # id
    <3>1. Before(id, k) /\ k \in EventId
      BY <2>3
    <3> QED
      BY <1>1, <3>1, NotBoth
  <2> QED
    BY <2>2, <2>3
<1>4. Project(done \cup {id}) = Apply(q, id)
  <2> HIDE DEF done
  <2> QED
    BY <1>1, <1>2, AddLast
<1>5. /\ Truthful(t) /\ Resembles(t, q, K) /\ Agree(t, q)
      /\ \A k \in DOMAIN p.circle_members :
           /\ k \in DOMAIN t.circle_members
           /\ t.circle_members[k].defaults = p.circle_members[k].defaults
  BY DEF GotTo
<1>6. done \cup {id} = Earlier(I, from) \cup (Y \cup {id})
      /\ K \ {id} = I \ (done \cup {id})
  OBVIOUS
<1>7. Truthful(q)
  <2> HIDE DEF done
  <2> QED
    BY <1>1, ProjectTruthful
<1> HIDE DEF done, K, q
<1>8. Resembles(Apply(t, id), Apply(q, id), K \ {id})
  BY <1>1, <1>3, <1>5, <1>7, ResembleBoth
<1>9. Agree(Apply(t, id), Apply(q, id))
  BY <1>1, <1>5, <1>7, AgreeBoth DEF Truthful
<1>10. Truthful(Apply(t, id))
  BY <1>1, <1>5, HandleTruthful DEF Apply
<1>11. ASSUME NEW k \in DOMAIN p.circle_members
       PROVE  /\ k \in DOMAIN Apply(t, id).circle_members
              /\ Apply(t, id).circle_members[k].defaults = p.circle_members[k].defaults
  <2>1. k \in DOMAIN t.circle_members
        /\ t.circle_members[k].defaults = p.circle_members[k].defaults
    BY <1>5
  <2>2. k \in DOMAIN Apply(t, id).circle_members
    BY <1>1, <1>5, <2>1, HandleGrows DEF Grows
  <2>3. Apply(t, id).circle_members[k].defaults = t.circle_members[k].defaults
    BY <1>1, <1>5, <2>1, CounterStays
  <2> QED
    BY <2>1, <2>2, <2>3
<1> QED
  BY <1>4, <1>6, <1>8, <1>9, <1>10, <1>11 DEF GotTo

\* Without a default among them, taking in again the events that a partial replay
\* has deleted gives the tables back as they were.
LEMMA BackAgain ==
  ASSUME NEW I \in SUBSET EventId, Understood(I), NEW from \in Nat,
         \A id \in I \ Earlier(I, from) : event(id).name # "default"
  PROVE  ProjectOn(wipeFromLedger(Project(I), from), I \ Earlier(I, from)) = Project(I)
<1> DEFINE p == Project(I)
           w == wipeFromLedger(p, from)
           R == I \ Earlier(I, from)
           First(Y) == Y \subseteq R /\ \A y \in Y, x \in R \ Y : Before(y, x)
           F == {Y \in SUBSET EventId :
                   First(Y) => GotTo(ProjectOn(w, Y), p, I, from, Y)}
<1>1. {} \in F
  <2>1. GotTo(w, p, I, from, {})
    BY StartsOver
  <2> QED
    BY <2>1, NothingOn
<1>2. ASSUME NEW Y \in SUBSET EventId, NEW id \in EventId, Y \in F,
             \A y \in Y : Before(y, id)
      PROVE  Y \cup {id} \in F
  <2>1. SUFFICES ASSUME First(Y \cup {id})
                 PROVE  GotTo(ProjectOn(w, Y \cup {id}), p, I, from, Y \cup {id})
    OBVIOUS
  <2>2. Y \subseteq R /\ id \in R /\ \A y \in Y, x \in R \ Y : Before(y, x)
    BY <1>2, <2>1
  <2>3. \A x \in R \ Y : x # id => Before(id, x)
    BY <2>1
  <2> DEFINE t == ProjectOn(w, Y)
  <2>4. GotTo(t, p, I, from, Y)
    BY <1>2, <2>2
  <2>5. ProjectOn(w, Y \cup {id}) = Apply(t, id)
    <3> HIDE DEF w
    <3> QED
      BY <1>2, AddLastOn
  <2> HIDE DEF t, p, w
  <2>6. GotTo(Apply(t, id), p, I, from, Y \cup {id})
    BY <1>2, <2>2, <2>3, <2>4, GetsFurther
  <2> QED
    BY <2>5, <2>6
<1> HIDE DEF F
<1>3. R \in F
  BY <1>1, <1>2, ChainInduction
<1>4. GotTo(ProjectOn(w, R), p, I, from, R)
  BY <1>3 DEF F
<1> DEFINE t == ProjectOn(w, R)
<1>5. Truthful(p)
  BY ProjectTruthful
<1>6. Earlier(I, from) \cup R = I
  BY DEF Earlier
<1> HIDE DEF w, R
<1>7. /\ Truthful(t) /\ Resembles(t, p, {}) /\ Agree(t, p)
      /\ \A k \in DOMAIN p.circle_members :
           t.circle_members[k].defaults = p.circle_members[k].defaults
  <2>1. I \ I = {}
    OBVIOUS
  <2> QED
    BY <1>4, <1>6, <2>1 DEF GotTo
<1> HIDE DEF p, t
<1>8. t = p
  BY <1>5, <1>7, NothingDiffers
<1> QED
  BY <1>8 DEF t, p, w, R

-----------------------------------------------------------------------------
(* The preflight.                                                          *)

\* The number of rows of a table is a number.
LEMMA RowsAreNumbers ==
  ASSUME NEW t, NEW Z, RowsOf(t, Z), NEW table \in DERIVED_TABLES
  PROVE  Rows(t, table) \in Int
<1>1. FiniteRows(t) /\ OfDefaults(t.defaults, Z)
  BY DEF RowsOf, Witnessed
<1>2. DERIVED_TABLES = {"circles", "circle_members", "contributions", "payouts",
                        "defaults", "circle_audit_events", "reputation"}
  BY DEF DERIVED_TABLES, EmptyTables
<1>3. CASE table = "defaults"
  <2>1. PICK B : B = t.defaults
    OBVIOUS
  <2>2. IsFiniteSet(DOMAIN B) /\ \A d \in DOMAIN B : B[d] \in Int
    BY <1>1, <2>1 DEF FiniteRows, OfDefaults
  <2>3. PICK g : IsSetSum(g, DOMAIN B, B) /\ BagCardinality(B) = g[DOMAIN B]
    BY <2>2, CopiesAreSummed
  <2>4. \A s \in SUBSET DOMAIN B : g[s] \in Int
    BY <2>2, <2>3, SetSumInsert
  <2> QED
    BY <1>3, <2>1, <2>3, <2>4 DEF Rows
<1>4. CASE table # "defaults"
  <2>1. IsFiniteSet(DOMAIN t[table])
    BY <1>1, <1>2, <1>4 DEF FiniteRows
  <2>2. Rows(t, table) = Cardinality(DOMAIN t[table])
    BY <1>4 DEF Rows
  <2> QED
    BY <2>1, <2>2, FS_CardinalityType
<1> QED
  BY <1>3, <1>4

\* Empty tables have no rows.
LEMMA NoRows ==
  ASSUME NEW table \in DERIVED_TABLES PROVE Rows(EmptyTables, table) = 0
<1>1. PICK none : none = {}
  OBVIOUS
<1>2. none \in SUBSET EventId /\ Understood(none)
  BY <1>1 DEF Understood
<1>3. CASE table = "defaults"
  <2>1. Tallies(EmptyTables.defaults, none)
    BY <1>1, <1>2, EmptyRows
  <2>2. BagCardinality(EmptyTables.defaults)
          = Cardinality({z \in none : event(z).name = "default"})
    BY <1>2, <2>1, TallyTotal
  <2>3. {z \in none : event(z).name = "default"} = {}
    BY <1>1
  <2> QED
    BY <1>3, <2>2, <2>3, FS_EmptySet DEF Rows
<1>4. CASE table # "defaults"
  <2>1. DERIVED_TABLES = {"circles", "circle_members", "contributions", "payouts",
                          "defaults", "circle_audit_events", "reputation"}
    BY DEF DERIVED_TABLES, EmptyTables
  <2>2. PICK f : f = <<>>
    OBVIOUS
  <2>3. EmptyTables[table] = f /\ DOMAIN f = {}
    BY <1>4, <2>1, <2>2 DEF EmptyTables
  <2>4. Rows(EmptyTables, table) = Cardinality(DOMAIN f)
    BY <1>4, <2>3 DEF Rows
  <2> QED
    BY <2>3, <2>4, FS_EmptySet
<1> QED
  BY <1>3, <1>4

\* A partial replay keeps the rows of the tables that do not keep the ledger.
LEMMA RowsKept ==
  ASSUME NEW t, IsTables(t), NEW from,
         NEW table \in DERIVED_TABLES \ LEDGER_SCOPED_TABLES
  PROVE  Rows(wipeFromLedger(t, from), table) = Rows(t, table)
<1>1. table \in {"circles", "circle_members", "reputation"}
  BY DEF DERIVED_TABLES, EmptyTables, LEDGER_SCOPED_TABLES
<1>2. wipeFromLedger(t, from)[table] = t[table]
  BY <1>1, Wiped
<1> QED
  BY <1>1, <1>2 DEF Rows

\* The plan, from its mode and its ledger.
LEMMA PlanSays ==
  ASSUME NEW args
  PROVE  LET plan == buildPreflight(replayDb, parsed(args))
             from == plan.fromLedger
         IN  /\ \A table \in DERIVED_TABLES :
                  plan.deletes[table] = deletedRows(replayDb, plan.mode, from, table)
             /\ plan.eventsDeleted = IF plan.mode = "retry-failed" THEN 0
                                     ELSE Cardinality(FromLedger(ingested, from))
             /\ plan.cursorAfter = cursorAfterReplay(from)
             /\ plan.warnings = preflightWarnings(replayDb, plan.mode, from)
<1>1. replayDb.ingested = ingested
  BY DEF replayDb
<1>2. PICK d : d = [table \in DERIVED_TABLES |->
                      deletedRows(replayDb, buildPreflight(replayDb, parsed(args)).mode,
                                  buildPreflight(replayDb, parsed(args)).fromLedger, table)]
  OBVIOUS
<1> QED
  BY <1>1 DEF buildPreflight

\* When it warns.
LEMMA WarnsWhen ==
  ASSUME NEW mode, NEW from
  PROVE  LET warnings == preflightWarnings(replayDb, mode, from)
         IN  /\ from > cursor => "ahead_of_cursor" \in warnings
             /\ mode = "full" /\ from > 0 => "history_lost" \in warnings
             /\ mode = "partial" /\ RowsFrom(tables, "defaults", from) > 0
                  => "counted_twice" \in warnings
<1>1. replayDb.cursor = cursor /\ replayDb.tables = tables
  BY DEF replayDb
<1> QED
  BY <1>1, Zenon DEF preflightWarnings

\* The commands in question are commands.
LEMMA ConfirmedAreCommands ==
  ASSUME NEW args \in Confirmed PROVE IsCommand(args)
<1>1. Len(Chain) \in Nat
  BY ChainFacts
<1>2. PICK a \in [from : -1..Len(Chain) + 1, partial : BOOLEAN,
                  retryFailed : BOOLEAN, dryRun : {FALSE}, confirm : {<<>>}] :
        args = [a EXCEPT !.confirm = buildPreflight(replayDb, parsed(a)).confirmationToken]
  BY DEF Confirmed
<1>3. PICK c : args = [a EXCEPT !.confirm = c]
  BY <1>2
<1>4. /\ a = [from |-> a.from, partial |-> a.partial, retryFailed |-> a.retryFailed,
              dryRun |-> a.dryRun, confirm |-> a.confirm]
      /\ a.from \in -1..Len(Chain) + 1
  OBVIOUS
<1>5. args = [from |-> a.from, partial |-> a.partial, retryFailed |-> a.retryFailed,
              dryRun |-> a.dryRun, confirm |-> c]
  BY <1>3, <1>4
<1> QED
  BY <1>1, <1>4, <1>5 DEF IsCommand

\* The plan of a command announces what becomes of the database.
LEMMA PlansAreHonest ==
  ASSUME TypeOK, RowsInv, NEW args, IsCommand(args),
         replayOutcome(replayDb, args) = "prepared"
  PROVE  AnnouncesDeletions(args)
<1> DEFINE plan == buildPreflight(replayDb, parsed(args))
           from == plan.fromLedger
           after == replayed(replayDb, args)
<1>1. /\ from \in Nat /\ plan.mode \in {"full", "partial", "retry-failed"}
      /\ plan.mode = "retry-failed" => args.retryFailed
  BY PlanIs
<1>2. /\ plan.mode = "retry-failed" =>
           /\ after.tables = tables /\ after.ingested = ingested
           /\ after.cursor = IF from > cursor THEN cursor
                                              ELSE cursorAfterReplay(from)
      /\ plan.mode # "retry-failed" =>
           /\ after.tables = IF plan.mode = "full" THEN EmptyTables
                                            ELSE wipeFromLedger(tables, from)
           /\ after.ingested = ingested \ FromLedger(ingested, from)
           /\ after.cursor = cursorAfterReplay(from)
  BY ReplayedIs
<1>3. /\ \A table \in DERIVED_TABLES :
           plan.deletes[table] = deletedRows(replayDb, plan.mode, from, table)
      /\ plan.eventsDeleted = IF plan.mode = "retry-failed" THEN 0
                              ELSE Cardinality(FromLedger(ingested, from))
      /\ plan.cursorAfter = cursorAfterReplay(from)
      /\ plan.warnings = preflightWarnings(replayDb, plan.mode, from)
  BY PlanSays
<1>4. replayDb.tables = tables
  BY DEF replayDb
<1> HIDE DEF plan, after, from
<1>5. ASSUME NEW table \in DERIVED_TABLES
      PROVE  plan.deletes[table] = Rows(tables, table) - Rows(after.tables, table)
  <2>1. plan.deletes[table] = deletedRows(replayDb, plan.mode, from, table)
    BY <1>3
  <2>2. Rows(tables, table) \in Int
    BY RowsAreNumbers DEF RowsInv
  <2>3. CASE plan.mode = "full"
    <3>1. deletedRows(replayDb, plan.mode, from, table) = Rows(tables, table)
      BY <1>4, <2>3 DEF deletedRows
    <3>2. after.tables = EmptyTables
      BY <1>2, <2>3
    <3>3. Rows(EmptyTables, table) = 0
      BY NoRows
    <3> QED
      BY <2>1, <2>2, <3>1, <3>2, <3>3
  <2>4. CASE plan.mode = "partial" /\ table \in LEDGER_SCOPED_TABLES
    <3>1. deletedRows(replayDb, plan.mode, from, table) = RowsFrom(tables, table, from)
      BY <1>4, <2>4 DEF deletedRows
    <3>2. after.tables = wipeFromLedger(tables, from)
      BY <1>2, <2>4
    <3> QED
      BY <2>1, <3>1, <3>2 DEF RowsFrom
  <2>5. CASE plan.mode = "partial" /\ table \notin LEDGER_SCOPED_TABLES
    <3>1. deletedRows(replayDb, plan.mode, from, table) = 0
      BY <2>5 DEF deletedRows
    <3>2. after.tables = wipeFromLedger(tables, from)
      BY <1>2, <2>5
    <3>3. Rows(wipeFromLedger(tables, from), table) = Rows(tables, table)
      BY <2>5, RowsKept DEF RowsInv, RowsOf, Truthful
    <3> QED
      BY <2>1, <2>2, <3>1, <3>2, <3>3
  <2>6. CASE plan.mode = "retry-failed"
    <3>1. deletedRows(replayDb, plan.mode, from, table) = 0
      BY <2>6 DEF deletedRows
    <3>2. after.tables = tables
      BY <1>2, <2>6
    <3> QED
      BY <2>1, <2>2, <3>1, <3>2
  <2> QED
    BY <1>1, <2>3, <2>4, <2>5, <2>6
<1>6. plan.eventsDeleted = Cardinality(ingested) - Cardinality(after.ingested)
  <2>1. IsFiniteSet(ingested) /\ Cardinality(ingested) \in Nat
    BY FinitelyMany, FS_CardinalityType DEF TypeOK
  <2>2. CASE plan.mode = "retry-failed"
    <3>1. after.ingested = ingested /\ plan.eventsDeleted = 0
      BY <1>2, <1>3, <2>2
    <3> QED
      BY <2>1, <3>1
  <2>3. CASE plan.mode # "retry-failed"
    <3> DEFINE gone == FromLedger(ingested, from)
    <3>1. after.ingested = ingested \ gone /\ plan.eventsDeleted = Cardinality(gone)
      BY <1>2, <1>3, <2>3
    <3>2. ingested \cap gone = gone /\ gone \in SUBSET ingested
      BY DEF FromLedger
    <3> HIDE DEF gone
    <3>3. IsFiniteSet(gone) /\ Cardinality(gone) \in Nat
      BY <2>1, <3>2, FS_Subset, FS_CardinalityType
    <3>4. Cardinality(ingested \ gone) = Cardinality(ingested) - Cardinality(gone)
      BY <2>1, <3>2, FS_Difference
    <3> QED
      BY <2>1, <3>1, <3>3, <3>4
  <2> QED
    BY <2>2, <2>3
<1>7. \/ plan.cursorAfter = after.cursor
      \/ args.retryFailed /\ "ahead_of_cursor" \in plan.warnings
  <2>1. from > cursor => "ahead_of_cursor" \in plan.warnings
    BY <1>3, WarnsWhen
  <2>2. CASE plan.mode = "retry-failed" /\ from > cursor
    BY <1>1, <2>1, <2>2
  <2>3. CASE ~(plan.mode = "retry-failed" /\ from > cursor)
    BY <1>2, <1>3, <2>3
  <2> QED
    BY <2>2, <2>3
<1> QED
  BY <1>5, <1>6, <1>7 DEF AnnouncesDeletions, plan, after

\* No default row is deleted: no default event is to be taken in again.
LEMMA NoDefaultComesAgain ==
  ASSUME NEW I \in SUBSET EventId, Understood(I), NEW from \in Nat,
         ~(RowsFrom(Project(I), "defaults", from) > 0)
  PROVE  \A id \in I \ Earlier(I, from) : event(id).name # "default"
<1> DEFINE p == Project(I)
           D == {z \in I : event(z).name = "default"}
           E == {z \in Earlier(I, from) : event(z).name = "default"}
<1>1. IsTables(p)
  BY ProjectTruthful DEF Truthful
<1>2. Tallies(p.defaults, I)
  BY ProjectTallies
<1>3. BagCardinality(p.defaults) = Cardinality(D)
  BY <1>2, TallyTotal
<1> HIDE DEF p
<1>4. Earlier(I, from) \in SUBSET EventId
  BY DEF Earlier
<1>5. Tallies(KeptBag(p.defaults, from), Earlier(I, from))
  BY <1>2, TallyWiped
<1>6. BagCardinality(KeptBag(p.defaults, from)) = Cardinality(E)
  BY <1>4, <1>5, TallyTotal
<1>7. RowsFrom(p, "defaults", from) = Cardinality(D) - Cardinality(E)
  <2>1. wipeFromLedger(p, from).defaults = KeptBag(p.defaults, from)
    BY <1>1, Wiped
  <2> HIDE DEF D, E
  <2> QED
    BY <1>3, <1>6, <2>1 DEF RowsFrom, Rows
<1>8. D \in SUBSET EventId /\ E \in SUBSET D
  BY DEF Earlier
<1> SUFFICES ASSUME NEW id \in I \ Earlier(I, from), event(id).name = "default"
             PROVE  FALSE
  OBVIOUS
<1>9. id \in D /\ id \notin E
  OBVIOUS
<1>10. ~(RowsFrom(p, "defaults", from) > 0)
  BY DEF p
<1> HIDE DEF D, E
<1>11. IsFiniteSet(D) /\ Cardinality(D) \in Nat /\ Cardinality(E) \in Nat
  BY <1>8, FinitelyMany, FS_Subset, FS_CardinalityType
<1>12. Cardinality(E) < Cardinality(D)
  <2>1. E # D
    BY <1>9
  <2>2. Cardinality(E) <= Cardinality(D)
        /\ (Cardinality(E) = Cardinality(D) => E = D)
    BY <1>8, <1>11, FS_Subset
  <2> QED
    BY <1>11, <2>1, <2>2
<1> QED
  BY <1>7, <1>10, <1>11, <1>12

\* Nor does any harm come of which it does not warn.
LEMMA PlansWarn ==
  ASSUME TypeOK, RowsInv, NEW args, IsCommand(args),
         replayOutcome(replayDb, args) = "prepared"
  PROVE  WarnsOfHarm(args)
<1> DEFINE plan == buildPreflight(replayDb, parsed(args))
           from == plan.fromLedger
           after == replayed(replayDb, args)
           again == ingested \ after.ingested
<1>1. /\ from \in Nat /\ plan.mode \in {"full", "partial", "retry-failed"}
  BY PlanIs
<1>2. /\ plan.mode = "retry-failed" =>
           after.tables = tables /\ after.ingested = ingested
      /\ plan.mode # "retry-failed" =>
           /\ after.tables = IF plan.mode = "full" THEN EmptyTables
                                            ELSE wipeFromLedger(tables, from)
           /\ after.ingested = ingested \ FromLedger(ingested, from)
  BY ReplayedIs
<1>3. /\ plan.mode = "full" /\ from > 0 => "history_lost" \in plan.warnings
      /\ plan.mode = "partial" /\ RowsFrom(tables, "defaults", from) > 0
           => "counted_twice" \in plan.warnings
  <2>1. plan.warnings = preflightWarnings(replayDb, plan.mode, from)
    BY PlanSays
  <2> QED
    BY <2>1, WarnsWhen
<1>4. ingested \in SUBSET EventId /\ Understood(ingested)
      /\ \A id \in ingested : id[1] \in Nat
  <2>1. \A id \in EventId : id[1] \in Nat
    BY EventFacts, ChainFacts
  <2> QED
    BY <2>1 DEF TypeOK, RowsInv, RowsOf
<1> HIDE DEF plan, from, after
<1>5. SUFFICES ASSUME plan.warnings \cap {"history_lost", "counted_twice"} = {},
                      tables = Project(ingested)
               PROVE  tables = ProjectOn(after.tables, again)
  BY DEF WarnsOfHarm, ProjectOn, UpTo, plan, from, after
<1>6. CASE plan.mode = "retry-failed"
  <2>1. after.tables = tables /\ again = {}
    BY <1>2, <1>6
  <2> QED
    BY <2>1, NothingOn
<1>7. CASE plan.mode = "full"
  <2>1. from = 0
    BY <1>1, <1>3, <1>5, <1>7
  <2>2. after.tables = EmptyTables /\ after.ingested = ingested \ FromLedger(ingested, from)
    BY <1>2, <1>7
  <2>3. again = ingested
    BY <1>4, <2>1, <2>2 DEF FromLedger
  <2> HIDE DEF again
  <2> QED
    BY <1>5, <2>2, <2>3 DEF Project, ProjectOn, UpTo
<1>8. CASE plan.mode = "partial"
  <2>1. after.tables = wipeFromLedger(Project(ingested), from)
        /\ after.ingested = ingested \ FromLedger(ingested, from)
    BY <1>2, <1>5, <1>8
  <2>2. again = ingested \ Earlier(ingested, from)
    BY <1>1, <1>4, <2>1 DEF FromLedger, Earlier
  <2>3. ~(RowsFrom(Project(ingested), "defaults", from) > 0)
    BY <1>3, <1>5, <1>8
  <2>4. \A id \in ingested \ Earlier(ingested, from) : event(id).name # "default"
    BY <1>1, <1>4, <2>3, NoDefaultComesAgain
  <2>5. ProjectOn(wipeFromLedger(Project(ingested), from),
                  ingested \ Earlier(ingested, from)) = Project(ingested)
    BY <1>1, <1>4, <2>4, BackAgain
  <2> QED
    BY <1>5, <2>1, <2>2, <2>5
<1> QED
  BY <1>1, <1>6, <1>7, <1>8

\* The tables are made of the ingested events, each once, for any chain, builds,
\* crashes and replays; and the preflight of a replay announces what it deletes and
\* warns of the harm it may do.
THEOREM TablesAreMadeOnce == Spec => []ProjectedOnce
<1>1. TypeOK /\ RowsInv => DefaultsOnce /\ PreflightKeepsItsWord
  <2>1. SUFFICES ASSUME TypeOK, RowsInv PROVE DefaultsOnce /\ PreflightKeepsItsWord
    OBVIOUS
  <2>2. ASSUME NEW args \in Confirmed, replayOutcome(replayDb, args) = "prepared"
        PROVE  AnnouncesDeletions(args) /\ WarnsOfHarm(args)
    <3>1. IsCommand(args)
      BY ConfirmedAreCommands
    <3> QED
      BY <2>1, <2>2, <3>1, PlansAreHonest, PlansWarn
  <2> QED
    BY <2>1, <2>2, RowsAreCounted DEF PreflightKeepsItsWord
<1>2. TablesAreProjection /\ DefaultsOnce /\ PreflightKeepsItsWord => ProjectedOnce
  BY DEF ProjectedOnce
<1> QED
  BY <1>1, <1>2, RowsHold, TablesAreProjected, PTL

=============================================================================
