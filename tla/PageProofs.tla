----------------------------- MODULE PageProofs -----------------------------
(***************************************************************************)
(* Theorems about the circle page, which is put together from what the      *)
(* indexer has made of the contract's events: its history is true whatever  *)
(* was lost, late or came between its queries, and its gates and buttons    *)
(* are the contract's once the tables have caught up.                       *)
(***************************************************************************)
EXTENDS CirclePage, EventProofs

-----------------------------------------------------------------------------
(* The page only watches.                                                  *)

\* The page only watches: it is so in every run of the page, too.
THEOREM PageTablesFollow == PageSpec => []TablesFollowContract
<1>1. PageInit => EventInit
  BY DEF PageInit
<1>2. [PageNext]_pageVars => [EventNext]_allVars
  BY DEF PageNext, pageVars
<1>3. PageSpec => EventSpec
  BY <1>1, <1>2, PTL DEF PageSpec, EventSpec
<1> QED
  BY <1>3, TablesFollow, PTL

\* The page only watches: the books balance in every run of the page, too.
THEOREM PageBooksBalance == PageSpec => []BooksBalance
<1>1. PageInit => EventInit
  BY DEF PageInit
<1>2. [PageNext]_pageVars => [EventNext]_allVars
  BY DEF PageNext, pageVars
<1>3. PageSpec => EventSpec
  BY <1>1, <1>2, PTL DEF PageSpec, EventSpec
<1> QED
  BY <1>3, BooksAlwaysBalance, PTL

\* So is every version of the tables that a page may see.
TruthInv ==
  /\ TablesAreTrue
  /\ \E S : past \in Seq(S)
  /\ \A v \in 1..Len(past) : True(past[v])

\* Nor has the page seen anything.
LEMMA TruthInit == PageInit => TruthInv
<1>1. SUFFICES ASSUME PageInit PROVE TruthInv
  OBVIOUS
<1>2. past = <<>> /\ EventInit
  BY <1>1 DEF PageInit
<1>3. past \in Seq({}) /\ 1..Len(past) = {}
  BY <1>2
<1> QED
  BY <1>2, <1>3, TrueInit DEF TruthInv

\* A sequence whose members are all of a kind, one more appended, and perhaps
\* the first dropped.
LEMMA OneMoreOld ==
  ASSUME NEW S, NEW p \in Seq(S), NEW t, NEW first \in {1, 2}
  PROVE  LET q == SubSeq(Append(p, t), first, Len(Append(p, t)))
         IN  /\ q \in Seq(S \cup {t})
             /\ \A v \in 1..Len(q) : q[v] = t \/ \E u \in 1..Len(p) : q[v] = p[u]
<1>1. PICK a : a = Append(p, t)
  OBVIOUS
<1>2. a \in Seq(S \cup {t}) /\ Len(a) = Len(p) + 1 /\ Len(p) \in Nat
  BY <1>1
<1>3. \A i \in 1..Len(a) : a[i] = t \/ \E u \in 1..Len(p) : a[i] = p[u]
  BY <1>1
<1>4. PICK q : q = SubSeq(a, first, Len(a))
  OBVIOUS
<1>5. /\ q \in Seq(S \cup {t}) /\ Len(q) = Len(a) - first + 1
      /\ \A v \in 1..Len(q) : q[v] = a[v + first - 1]
  BY <1>2, <1>4
<1>6. \A v \in 1..Len(q) : v + first - 1 \in 1..Len(a)
  BY <1>2, <1>5
<1> QED
  BY <1>1, <1>3, <1>4, <1>5, <1>6

\* No step of the page makes a version of them untrue.
LEMMA TruthStep ==
  IndInv /\ TruthInv /\ [PageNext]_pageVars => TruthInv'
<1> SUFFICES ASSUME IndInv, TruthInv, [PageNext]_pageVars PROVE TruthInv'
  OBVIOUS
<1>0. PICK C, D, n : C = contributed' /\ D = defaulted' /\ n = rounds_completed'
  OBVIOUS
<1> DEFINE Now(t) == TrueTables(t, C, D, n)
<1>1. [EventNext]_allVars
  BY DEF PageNext, pageVars
<1>2. \A t : True(t) => Now(t)
  BY <1>0, <1>1, EventStepIsStep, RecordsGrow, TruthLasts DEF True
<1>3. PICK S : past \in Seq(S)
  BY DEF TruthInv
<1>5. Now(tables) /\ \A v \in 1..Len(past) : Now(past[v])
  BY <1>2 DEF TruthInv, TablesAreTrue
<1> HIDE DEF Now
<1>6. ASSUME past' = past \/
             past' = SubSeq(Append(past, tables), IF Len(Append(past, tables)) > MaxTorn
                                                    THEN 2 ELSE 1, Len(Append(past, tables)))
      PROVE  (\E T : past' \in Seq(T)) /\ \A v \in 1..Len(past') : Now(past'[v])
  <2>1. CASE past' = past
    BY <1>3, <1>5, <2>1
  <2>2. CASE past' = SubSeq(Append(past, tables), IF Len(Append(past, tables)) > MaxTorn
                                                    THEN 2 ELSE 1, Len(Append(past, tables)))
    <3>1. PICK first \in {1, 2} :
            past' = SubSeq(Append(past, tables), first, Len(Append(past, tables)))
      BY <2>2
    <3> QED
      <4>1. PICK q : q = past'
        OBVIOUS
      <4>2. /\ q \in Seq(S \cup {tables})
            /\ \A v \in 1..Len(q) : q[v] = tables \/ \E u \in 1..Len(past) : q[v] = past[u]
        BY <1>3, <3>1, <4>1, OneMoreOld
      <4> QED
        BY <1>5, <4>1, <4>2
  <2> QED
    BY <1>6, <2>1, <2>2
<1>7. TablesAreTrue'
  BY <1>1, TrueStep DEF TruthInv
<1>8. CASE PageNext
  <2>1. past' = past \/
        past' = SubSeq(Append(past, tables), IF Len(Append(past, tables)) > MaxTorn
                                               THEN 2 ELSE 1, Len(Append(past, tables)))
    BY <1>8 DEF PageNext
  <2> QED
    BY <1>0, <1>6, <1>7, <2>1 DEF TruthInv, True, Now
<1>9. CASE UNCHANGED pageVars
  <2>1. past' = past
    BY <1>9 DEF pageVars
  <2> QED
    BY <1>0, <1>6, <1>7, <2>1 DEF TruthInv, True, Now
<1> QED
  BY <1>8, <1>9

\* So every version of the tables is true in every state.
LEMMA TruthInvariance == PageSpec => [](IndInv /\ TruthInv)
<1>1. PageInit => IndInv
  BY IndInit DEF PageInit, EventInit
<1>2. IndInv /\ [PageNext]_pageVars => IndInv'
  BY EventStepIsStep, IndStep DEF PageNext, pageVars
<1> QED
  BY <1>1, <1>2, TruthInit, TruthStep, PTL DEF PageSpec

-----------------------------------------------------------------------------
(* The page: what it shows is so.                                          *)

\* The recipient nobody knows is nobody of the circle.
LEMMA NobodyIsNoMember == Nobody \notin MemberSet
<1>1. \A i \in 1..N : members[i] \in Address
  BY ConfigAssumption DEF N
<1>2. Nobody \notin Address
  BY AddressAssumption DEF Nobody
<1> QED
  BY <1>1, <1>2 DEF MemberSet

\* The rounds that table t has a payout for.
PaidIn(t) == {k[2] : k \in DOMAIN t.payouts}

\* What the page is shown of a round, of three versions of the tables.
IsShown(r, p, c, f) ==
  /\ r.status \in {"completed", "current", "cancelled", "open"}
  /\ r.status = "completed" <=> r.roundIndex \in PaidIn(p)
  /\ r.roundIndex \in PaidIn(p) =>
       /\ r.recipient = p.payouts[<<CircleAddress, r.roundIndex>>].recipient
       /\ r.amount = p.payouts[<<CircleAddress, r.roundIndex>>].amount
  /\ r.roundIndex \notin PaidIn(p) => r.recipient = Nobody
  /\ r.contributions = ContributionsOf(c, r.roundIndex)
  /\ r.defaults = DefaultsOf(f, r.roundIndex)

\* What a round shown is made of.
LEMMA ShownIs ==
  ASSUME NEW row, NEW p, NEW c, NEW f, NEW r \in Shown(RoundsResponse(row, p, c, f))
  PROVE  IsShown(r, p, c, f)
<1> DEFINE groups == groupCircleRounds(row, {k[2] : k \in DOMAIN p.payouts},
                       {k[3] : k \in DOMAIN c.contributions},
                       {d.round : d \in DOMAIN f.defaults})
           Rec(k) == [roundIndex |-> k, status |-> groups[k],
                      recipient |-> IF k \in PaidIn(p)
                                      THEN p.payouts[<<CircleAddress, k>>].recipient
                                      ELSE Nobody,
                      amount |-> IF k \in PaidIn(p)
                                   THEN p.payouts[<<CircleAddress, k>>].amount
                                   ELSE Null,
                      contributions |-> ContributionsOf(c, k),
                      defaults |-> DefaultsOf(f, k)]
           With(phases) == {Rec(k) : k \in {x \in DOMAIN groups : groups[x] \in phases}}
<1>1. RoundsResponse(row, p, c, f) =
        [rounds |-> With({"completed"}), openRounds |-> With({"open"}),
         currentRound |-> With({"current", "cancelled"}),
         pendingDefaults |-> {d \in DOMAIN f.defaults : d.round \notin PaidIn(p)}]
  BY DEF RoundsResponse, PaidIn, Nobody
<1>2. PICK k \in DOMAIN groups : r = Rec(k)
  <2> HIDE DEF Rec, groups
  <2> QED
    BY <1>1 DEF Shown
<1>3. groups[k] = resolveStatus(k, k \in PaidIn(p), row)
  BY <1>2 DEF groupCircleRounds, PaidIn
<1>4. /\ groups[k] \in {"completed", "current", "cancelled", "open"}
      /\ groups[k] = "completed" <=> k \in PaidIn(p)
  BY <1>3 DEF resolveStatus
<1> HIDE DEF groups
<1> QED
  BY <1>2, <1>4 DEF IsShown

\* What the page says of a round it was shown by true tables is true.
LEMMA ShownIsTrue ==
  ASSUME TypeOK, NeverPaidAndDefaulted, NEW row, NEW p, NEW c, NEW f,
         True(p), True(c), True(f), NEW r \in Shown(RoundsResponse(row, p, c, f))
  PROVE  TrueOfRound(r)
<1>1. IsShown(r, p, c, f)
  BY ShownIs
<1>2. PICK k : k = r.roundIndex
  OBVIOUS
<1>3. ASSUME k \in PaidIn(p)
      PROVE  /\ k \in Rounds /\ k < rounds_completed
             /\ r.recipient = members[k + 1]
  <2>1. PICK q \in DOMAIN p.payouts : k = q[2]
    BY <1>3 DEF PaidIn
  <2>2. PICK j \in Rounds : /\ q = <<CircleAddress, j>> /\ j < rounds_completed
                            /\ p.payouts[q].recipient = members[j + 1]
    BY <2>1 DEF True, TrueTables
  <2>3. j = k
    BY <2>1, <2>2
  <2> QED
    BY <1>1, <1>2, <1>3, <2>2, <2>3 DEF IsShown
<1>4. ASSUME NEW m \in r.contributions PROVE k \in Rounds /\ m \in contributed[k]
  <2>1. PICK q \in DOMAIN c.contributions : q[3] = k /\ m = q[2]
    BY <1>1, <1>2, <1>4 DEF ContributionsOf, IsShown
  <2>2. PICK a \in MemberSet, j \in Rounds : q = <<CircleAddress, a, j>> /\ a \in contributed[j]
    BY <2>1 DEF True, TrueTables
  <2> QED
    BY <2>1, <2>2
<1>5. ASSUME NEW m \in r.defaults PROVE k \in Rounds /\ m \in defaulted[k]
  <2>1. PICK d \in DOMAIN f.defaults : d.round = k /\ m = d.member
    BY <1>1, <1>2, <1>5 DEF DefaultsOf, IsShown
  <2> QED
    BY <2>1 DEF True, TrueTables
<1>6. ASSUME NEW m \in MemberSet
      PROVE  /\ MemberRoundStatus(m, r) = "contributed" => m \in contributed[k]
             /\ MemberRoundStatus(m, r) = "defaulted" => m \in defaulted[k]
             /\ MemberRoundStatus(m, r) = "received" => m = members[k + 1]
             /\ MemberRoundStatus(m, r) \notin {"inconsistent", "not_obligated"}
  <2>1. CASE r.recipient = m
    <3>1. k \in PaidIn(p)
      BY <1>1, <1>2, <2>1, NobodyIsNoMember DEF IsShown
    <3>2. MemberRoundStatus(m, r) = "received"
      BY <1>1, <1>2, <2>1, <3>1 DEF MemberRoundStatus, IsShown
    <3> QED
      BY <1>3, <2>1, <3>1, <3>2
  <2>2. CASE r.recipient # m /\ r.status # "completed"
    <3>1. MemberRoundStatus(m, r) \in {"unavailable", "not_yet_recorded"}
      BY <1>1, <2>2 DEF MemberRoundStatus, IsShown
    <3> QED
      BY <3>1
  <2>3. CASE r.recipient # m /\ r.status = "completed"
    <3>1. MemberRoundStatus(m, r)
            = Participation(m \in r.contributions, m \in r.defaults)
      BY <2>3 DEF MemberRoundStatus, IsShown
    <3>2. ~(m \in r.contributions /\ m \in r.defaults)
      BY <1>4, <1>5 DEF NeverPaidAndDefaulted
    <3> QED
      BY <1>4, <1>5, <3>1, <3>2 DEF Participation
  <2> QED
    BY <2>1, <2>2, <2>3
<1> QED
  BY <1>1, <1>2, <1>3, <1>6 DEF TrueOfRound, IsShown

\* The mirror of the versions suffices.
LEMMA TruthSuffices == IndInv /\ TruthInv => RoundsAreTrue
<1> SUFFICES ASSUME IndInv, TruthInv, NEW response \in RoundsResponses,
                    NEW r \in Shown(response)
             PROVE  TrueOfRound(r)
  BY DEF RoundsAreTrue
<1>1. PICK S : past \in Seq(S)
  BY DEF TruthInv
<1>2. \A v \in 1..Latest : True(Versions[v])
  <2>1. PICK V : V = Versions
    OBVIOUS
  <2>2. /\ Len(V) = Len(past) + 1 /\ V[Len(past) + 1] = tables /\ Len(past) \in Nat
        /\ \A v \in 1..Len(past) : V[v] = past[v]
    <3>1. past \in Seq(S \cup {tables})
      BY <1>1
    <3> QED
      BY <2>1, <3>1 DEF Versions
  <2>3. \A v \in 1..Len(V) : v \in 1..Len(past) \/ v = Len(past) + 1
    BY <2>2
  <2> QED
    BY <2>1, <2>2, <2>3 DEF TruthInv, TablesAreTrue, Latest
<1>3. PICK s \in [1..4 -> 1..Latest] :
        response = RoundsResponse(RowAt(s[1]), Versions[s[2]], Versions[s[3]],
                                  Versions[s[4]])
  BY DEF RoundsResponses
<1>4. PICK row, p, c, f : /\ row = RowAt(s[1]) /\ p = Versions[s[2]]
                          /\ c = Versions[s[3]] /\ f = Versions[s[4]]
  OBVIOUS
<1>5. s[2] \in 1..Latest /\ s[3] \in 1..Latest /\ s[4] \in 1..Latest
  OBVIOUS
<1>6. True(p) /\ True(c) /\ True(f)
  BY <1>2, <1>4, <1>5
<1>7. r \in Shown(RoundsResponse(row, p, c, f))
  BY <1>3, <1>4
<1> QED
  BY <1>6, <1>7, ShownIsTrue DEF IndInv

\* Whatever the indexer lost, however far it is behind and whatever came between
\* the queries of a page, what the page says of a round is so.
THEOREM PageTellsTheTruth == PageSpec => []RoundsAreTrue
  BY TruthSuffices, TruthInvariance, PTL

-----------------------------------------------------------------------------
(* The page: nothing is left out.                                          *)

\* The rounds that one version of the tables has a row for are all shown, the
\* paid ones as completed.
HasRound(t, k) ==
  \/ k \in PaidIn(t)
  \/ \E x \in DOMAIN t.contributions : x[3] = k
  \/ \E x \in DOMAIN t.defaults : x.round = k

\* Every row of a round is found in what is shown of it.
LEMMA ShownHas ==
  ASSUME NEW row, NEW t
  PROVE  LET R == RoundsResponse(row, t, t, t)
         IN  /\ \A r \in R.rounds : r \in Shown(R) /\ r.status = "completed"
             /\ \A k : HasRound(t, k) =>
                  \E r \in Shown(R) : r.roundIndex = k /\ (k \in PaidIn(t) => r \in R.rounds)
             /\ R.pendingDefaults = {x \in DOMAIN t.defaults : x.round \notin PaidIn(t)}
<1> DEFINE groups == groupCircleRounds(row, {k[2] : k \in DOMAIN t.payouts},
                       {k[3] : k \in DOMAIN t.contributions},
                       {x.round : x \in DOMAIN t.defaults})
           Rec(k) == [roundIndex |-> k, status |-> groups[k],
                      recipient |-> IF k \in PaidIn(t)
                                      THEN t.payouts[<<CircleAddress, k>>].recipient
                                      ELSE Nobody,
                      amount |-> IF k \in PaidIn(t)
                                   THEN t.payouts[<<CircleAddress, k>>].amount
                                   ELSE Null,
                      contributions |-> ContributionsOf(t, k),
                      defaults |-> DefaultsOf(t, k)]
           With(phases) == {Rec(k) : k \in {x \in DOMAIN groups : groups[x] \in phases}}
<1>1. PICK R : R = RoundsResponse(row, t, t, t)
  OBVIOUS
<1>2. R = [rounds |-> With({"completed"}), openRounds |-> With({"open"}),
           currentRound |-> With({"current", "cancelled"}),
           pendingDefaults |-> {x \in DOMAIN t.defaults : x.round \notin PaidIn(t)}]
  BY <1>1 DEF RoundsResponse, PaidIn, Nobody
<1>3. /\ R.rounds = With({"completed"}) /\ R.openRounds = With({"open"})
      /\ R.currentRound = With({"current", "cancelled"})
      /\ R.pendingDefaults = {x \in DOMAIN t.defaults : x.round \notin PaidIn(t)}
  <2> HIDE DEF With
  <2> QED
    BY <1>2
<1>4. \A k : HasRound(t, k) => k \in DOMAIN groups
  BY DEF HasRound, groupCircleRounds, PaidIn
<1>5. \A k \in DOMAIN groups :
        /\ groups[k] \in {"completed", "current", "cancelled", "open"}
        /\ k \in PaidIn(t) => groups[k] = "completed"
  BY DEF groupCircleRounds, resolveStatus, PaidIn
<1>6. \A k : Rec(k).roundIndex = k /\ Rec(k).status = groups[k]
  OBVIOUS
<1> HIDE DEF groups, Rec
<1>7. \A r \in R.rounds : r \in Shown(R) /\ r.status = "completed"
  BY <1>3, <1>6 DEF Shown
<1>8. ASSUME NEW k, HasRound(t, k)
      PROVE  \E r \in Shown(R) : r.roundIndex = k /\ (k \in PaidIn(t) => r \in R.rounds)
  <2>1. k \in DOMAIN groups
    BY <1>4, <1>8
  <2>2. Rec(k) \in Shown(R)
    BY <1>3, <1>5, <2>1 DEF Shown
  <2>3. k \in PaidIn(t) => Rec(k) \in R.rounds
    BY <1>3, <1>5, <2>1
  <2> QED
    BY <1>6, <2>2, <2>3
<1> QED
  BY <1>1, <1>3, <1>7, <1>8

\* The members are shown in the order of the rotation.
LEMMA MembersParsed ==
  ASSUME NEW t, WholeMembers(t)
  PROVE  /\ Len(parseMemberRows(t)) = N
         /\ \A i \in 1..N : parseMemberRows(t)[i] = members[i]
<1>1. PICK all : all = {k[2] : k \in DOMAIN t.circle_members}
  OBVIOUS
<1>2. all = MemberSet
  <2>1. DOMAIN t.circle_members = {<<CircleAddress, m>> : m \in MemberSet}
    BY DEF WholeMembers
  <2>2. \A m \in MemberSet : m \in all
    <3> TAKE m \in MemberSet
    <3>1. <<CircleAddress, m>> \in DOMAIN t.circle_members /\ <<CircleAddress, m>>[2] = m
      BY <2>1
    <3> QED
      BY <1>1, <3>1
  <2>3. \A m \in all : m \in MemberSet
    <3> TAKE m \in all
    <3>1. PICK k \in DOMAIN t.circle_members : m = k[2]
      BY <1>1
    <3>2. PICK a \in MemberSet : k = <<CircleAddress, a>>
      BY <2>1
    <3> QED
      BY <3>1, <3>2
  <2> QED
    BY <2>2, <2>3
<1>3. Cardinality(all) = N
  BY <1>2, MembersFinite
<1>4. parseMemberRows(t) =
        [i \in 1..N |-> CHOOSE m \in all :
           t.circle_members[<<CircleAddress, m>>].payout_order = i - 1]
  BY <1>1, <1>3 DEF parseMemberRows
<1>5. ASSUME NEW i \in 1..N
      PROVE  (CHOOSE m \in all : t.circle_members[<<CircleAddress, m>>].payout_order = i - 1)
               = members[i]
  <2>1. /\ members[i] \in all
        /\ t.circle_members[<<CircleAddress, members[i]>>].payout_order = i - 1
    BY <1>2, RotationFacts DEF WholeMembers
  <2>2. ASSUME NEW m \in all,
               t.circle_members[<<CircleAddress, m>>].payout_order = i - 1
        PROVE  m = members[i]
    <3>1. PICK j \in 1..N : m = members[j]
      BY <1>2, RotationFacts
    <3>2. t.circle_members[<<CircleAddress, members[j]>>].payout_order = j - 1
      BY DEF WholeMembers
    <3>3. j = i
      BY <2>2, <3>1, <3>2, RotationFacts
    <3> QED
      BY <3>1, <3>3
  <2> QED
    BY <2>1, <2>2
<1>6. Len(parseMemberRows(t)) = N
  BY <1>4, RotationFacts
<1> QED
  BY <1>4, <1>5, <1>6

\* The timeline of the rounds shown has the three kinds of entries.
PaidEntry(t, k) == <<"circle_payout", t.payouts[k].recipient, k[2]>>
TimelineOf(t) ==
  {<<"circle_contribute", k[2], k[3]>> : k \in DOMAIN t.contributions}
    \cup {<<"circle_default", x.member, x.round>> : x \in DOMAIN t.defaults}
    \cup {PaidEntry(t, k) : k \in DOMAIN t.payouts}

\* It has them and no others.
LEMMA TimelineIs ==
  ASSUME NEW t, NEW row, NEW d,
         Shown(d) = Shown(RoundsResponse(row, t, t, t)),
         \A k \in DOMAIN t.payouts : k = <<CircleAddress, k[2]>>
  PROVE  buildTimelineEvents(d) = TimelineOf(t)
<1>1. \A r \in Shown(d) : IsShown(r, t, t, t)
  BY ShownIs
<1>2. \A k : HasRound(t, k) => \E r \in Shown(d) : r.roundIndex = k
  BY ShownHas
<1>3. ASSUME NEW e \in buildTimelineEvents(d) PROVE e \in TimelineOf(t)
  <2>1. PICK r \in Shown(d) :
          \/ \E m \in r.contributions : e = <<"circle_contribute", m, r.roundIndex>>
          \/ \E m \in r.defaults : e = <<"circle_default", m, r.roundIndex>>
          \/ r.status = "completed" /\ e = <<"circle_payout", r.recipient, r.roundIndex>>
    BY <1>3 DEF buildTimelineEvents
  <2>2. CASE \E m \in r.contributions : e = <<"circle_contribute", m, r.roundIndex>>
    <3>1. PICK m \in r.contributions : e = <<"circle_contribute", m, r.roundIndex>>
      BY <2>2
    <3>2. PICK k \in DOMAIN t.contributions : k[3] = r.roundIndex /\ m = k[2]
      <4>1. m \in ContributionsOf(t, r.roundIndex)
        BY <1>1, <3>1 DEF IsShown
      <4> QED
        BY <4>1 DEF ContributionsOf
    <3> QED
      BY <3>1, <3>2 DEF TimelineOf
  <2>3. CASE \E m \in r.defaults : e = <<"circle_default", m, r.roundIndex>>
    <3>1. PICK m \in r.defaults : e = <<"circle_default", m, r.roundIndex>>
      BY <2>3
    <3>2. PICK x \in DOMAIN t.defaults : x.round = r.roundIndex /\ m = x.member
      <4>1. m \in DefaultsOf(t, r.roundIndex)
        BY <1>1, <3>1 DEF IsShown
      <4> QED
        BY <4>1 DEF DefaultsOf
    <3> QED
      BY <3>1, <3>2 DEF TimelineOf
  <2>4. CASE r.status = "completed" /\ e = <<"circle_payout", r.recipient, r.roundIndex>>
    <3>1. r.roundIndex \in PaidIn(t)
          /\ r.recipient = t.payouts[<<CircleAddress, r.roundIndex>>].recipient
      BY <1>1, <2>4 DEF IsShown
    <3>2. PICK k \in DOMAIN t.payouts : r.roundIndex = k[2]
      BY <3>1 DEF PaidIn
    <3>3. e = PaidEntry(t, k)
      BY <2>4, <3>1, <3>2 DEF PaidEntry
    <3> QED
      BY <3>3 DEF TimelineOf
  <2> QED
    BY <2>1, <2>2, <2>3, <2>4
<1>4. ASSUME NEW e \in TimelineOf(t) PROVE e \in buildTimelineEvents(d)
  <2>1. CASE \E k \in DOMAIN t.contributions : e = <<"circle_contribute", k[2], k[3]>>
    <3>1. PICK k \in DOMAIN t.contributions : e = <<"circle_contribute", k[2], k[3]>>
      BY <2>1
    <3>2. PICK r \in Shown(d) : r.roundIndex = k[3]
      BY <1>2 DEF HasRound
    <3>3. k[2] \in r.contributions
      BY <1>1, <3>2 DEF IsShown, ContributionsOf
    <3> QED
      BY <3>1, <3>2, <3>3 DEF buildTimelineEvents
  <2>2. CASE \E x \in DOMAIN t.defaults : e = <<"circle_default", x.member, x.round>>
    <3>1. PICK x \in DOMAIN t.defaults : e = <<"circle_default", x.member, x.round>>
      BY <2>2
    <3>2. PICK r \in Shown(d) : r.roundIndex = x.round
      BY <1>2 DEF HasRound
    <3>3. x.member \in r.defaults
      BY <1>1, <3>2 DEF IsShown, DefaultsOf
    <3> QED
      BY <3>1, <3>2, <3>3 DEF buildTimelineEvents
  <2>3. CASE \E k \in DOMAIN t.payouts : e = PaidEntry(t, k)
    <3>1. PICK k \in DOMAIN t.payouts : e = PaidEntry(t, k)
      BY <2>3
    <3>2. k[2] \in PaidIn(t)
      BY DEF PaidIn
    <3>3. PICK r \in Shown(d) : r.roundIndex = k[2]
      BY <1>2, <3>2 DEF HasRound
    <3>4. r.status = "completed" /\ r.recipient = t.payouts[k].recipient
      BY <1>1, <3>2, <3>3 DEF IsShown
    <3>5. e = <<"circle_payout", r.recipient, r.roundIndex>>
      BY <3>1, <3>3, <3>4 DEF PaidEntry
    <3> QED
      BY <3>4, <3>5 DEF buildTimelineEvents
  <2> QED
    BY <1>4, <2>1, <2>2, <2>3 DEF TimelineOf
<1> QED
  BY <1>3, <1>4

\* Three disjoint sets of finitely many.
LEMMA ThreeDisjoint ==
  ASSUME NEW A, NEW B, NEW C, IsFiniteSet(A), IsFiniteSet(B), IsFiniteSet(C),
         A \cap B = {}, A \cap C = {}, B \cap C = {}
  PROVE  Cardinality(A \cup B \cup C) = Cardinality(A) + Cardinality(B) + Cardinality(C)
<1>1. /\ Cardinality(A) \in Nat /\ Cardinality(B) \in Nat /\ Cardinality(C) \in Nat
      /\ Cardinality(A \cap B) = 0
  BY FS_CardinalityType, FS_EmptySet
<1>2. IsFiniteSet(A \cup B) /\ Cardinality(A \cup B) = Cardinality(A) + Cardinality(B)
  <2>1. Cardinality(A \cup B) = Cardinality(A) + Cardinality(B) - Cardinality(A \cap B)
    BY FS_Union
  <2>2. IsFiniteSet(A \cup B)
    BY FS_Union
  <2> QED
    BY <1>1, <2>1, <2>2
<1>3. PICK D : D = A \cup B
  OBVIOUS
<1>4. D \cap C = {}
  BY <1>3
<1>5. Cardinality(D \cup C) = Cardinality(D) + Cardinality(C) - Cardinality(D \cap C)
  BY <1>2, <1>3, FS_Union
<1>6. Cardinality(D \cap C) = 0
  BY <1>4, FS_EmptySet
<1> QED
  BY <1>1, <1>2, <1>3, <1>5, <1>6

\* An entry for every row.
LEMMA TimelineCounts ==
  ASSUME NEW t, NEW n \in 0..N, WholePayouts(t, n), WholeRecords(t, n)
  PROVE  Cardinality(TimelineOf(t))
           = Cardinality(DOMAIN t.contributions) + SumOf(t.defaults)
             + Cardinality(DOMAIN t.payouts)
<1> DEFINE C == DOMAIN t.contributions
           B == DOMAIN t.defaults
           P == DOMAIN t.payouts
           fc == [k \in C |-> <<"circle_contribute", k[2], k[3]>>]
           fb == [x \in B |-> <<"circle_default", x.member, x.round>>]
           fp == [k \in P |-> PaidEntry(t, k)]
           EC == {fc[k] : k \in C}
           EB == {fb[x] : x \in B}
           EP == {fp[k] : k \in P}
           MR == MemberSet \X Rounds
<1>0. n \in Nat /\ IsFiniteSet(MemberSet) /\ IsFiniteSet(Rounds) /\ IsFiniteSet(0..(n - 1))
  <2>1. n \in Nat /\ N \in Nat
    BY RotationFacts
  <2>2. IsFiniteSet(0..(N - 1)) /\ IsFiniteSet(0..(n - 1))
    BY <2>1, FS_Interval
  <2> QED
    BY <2>1, <2>2, MembersFinite DEF Rounds
<1>1. IsFiniteSet(MR)
  BY <1>0, FS_Product
<1>2. IsFiniteSet(C) /\ \A j, k \in C : fc[j] = fc[k] => j = k
  <2>1. \A k \in C : \E m \in MemberSet, r \in Rounds : k = <<CircleAddress, m, r>>
    BY DEF WholeRecords
  <2> DEFINE f == [x \in MR |-> <<CircleAddress, x[1], x[2]>>]
             K == {f[x] : x \in MR}
  <2>2. DOMAIN f = MR /\ \A x, y \in MR : f[x] = f[y] => x = y
    OBVIOUS
  <2>3. C \subseteq K
    <3> SUFFICES ASSUME NEW k \in C PROVE k \in K
      OBVIOUS
    <3>1. PICK m \in MemberSet, r \in Rounds : k = <<CircleAddress, m, r>>
      BY <2>1
    <3>2. <<m, r>> \in MR /\ f[<<m, r>>] = k
      BY <3>1
    <3> QED
      BY <3>2
  <2>4. \A j, k \in C : fc[j] = fc[k] => j = k
    <3> SUFFICES ASSUME NEW j \in C, NEW k \in C, fc[j] = fc[k] PROVE j = k
      OBVIOUS
    <3>1. j[2] = k[2] /\ j[3] = k[3]
      OBVIOUS
    <3>2. PICK m \in MemberSet, r \in Rounds : j = <<CircleAddress, m, r>>
      BY <2>1
    <3>3. PICK a \in MemberSet, b \in Rounds : k = <<CircleAddress, a, b>>
      BY <2>1
    <3> QED
      BY <3>1, <3>2, <3>3
  <2> HIDE DEF f, K, C, MR
  <2>5. IsFiniteSet({f[x] : x \in MR})
    BY <1>1, <2>2, KeysCount
  <2>6. IsFiniteSet(K)
    BY <2>5 DEF K
  <2> QED
    BY <2>3, <2>4, <2>6, FS_Subset
<1>3. IsFiniteSet(B) /\ \A x, y \in B : fb[x] = fb[y] => x = y
  <2>1. \A x \in B : x.member \in MemberSet /\ x.round \in Rounds
    BY DEF WholeRecords
  <2>2. \A x, y \in B : x.member = y.member /\ x.round = y.round => x = y
    BY DEF WholeRecords
  <2> DEFINE f == [x \in B |-> <<x.member, x.round>>]
  <2>3. f \in Injection(B, MR)
    <3>1. f \in [B -> MR]
      BY <2>1
    <3>2. \A x, y \in B : f[x] = f[y] => x = y
      BY <2>2
    <3> QED
      BY <3>1, <3>2 DEF Injection, IsInjective
  <2>4. \A x, y \in B : fb[x] = fb[y] => x = y
    BY <2>2
  <2> HIDE DEF f, B, MR
  <2>5. IsFiniteSet(B)
    BY <1>1, <2>3, FS_Injection
  <2> QED
    BY <2>4, <2>5
<1>4. IsFiniteSet(P) /\ \A j, k \in P : fp[j] = fp[k] => j = k
  <2>1. P = {<<CircleAddress, r>> : r \in 0..(n - 1)}
    BY DEF WholePayouts
  <2> DEFINE M == 0..(n - 1)
             f == [r \in M |-> <<CircleAddress, r>>]
  <2>2. DOMAIN f = M /\ (\A p, q \in M : f[p] = f[q] => p = q) /\ P = {f[r] : r \in M}
    BY <2>1
  <2>3. \A j, k \in P : fp[j] = fp[k] => j = k
    <3> SUFFICES ASSUME NEW j \in P, NEW k \in P, fp[j] = fp[k] PROVE j = k
      OBVIOUS
    <3>1. fp[j] = PaidEntry(t, j) /\ fp[k] = PaidEntry(t, k)
      OBVIOUS
    <3>2. j[2] = k[2]
      BY <3>1 DEF PaidEntry
    <3> QED
      BY <2>1, <3>2
  <2> HIDE DEF f, M, P
  <2>4. IsFiniteSet(P)
    BY <1>0, <2>2, KeysCount DEF M
  <2> QED
    BY <2>3, <2>4
<1>5. TimelineOf(t) = EC \cup EB \cup EP
  BY DEF TimelineOf
<1>6. EC \cap EB = {} /\ EC \cap EP = {} /\ EB \cap EP = {}
  <2>1. \A e \in EC : e[1] = "circle_contribute"
    <3>1. \A k \in C : fc[k] = <<"circle_contribute", k[2], k[3]>>
      OBVIOUS
    <3>2. \A k \in C : fc[k][1] = "circle_contribute"
      BY <3>1
    <3> HIDE DEF fc
    <3> QED
      BY <3>2
  <2>2. \A e \in EB : e[1] = "circle_default"
    <3>1. \A x \in B : fb[x] = <<"circle_default", x.member, x.round>>
      OBVIOUS
    <3>2. \A x \in B : fb[x][1] = "circle_default"
      BY <3>1
    <3> HIDE DEF fb
    <3> QED
      BY <3>2
  <2>3. \A e \in EP : e[1] = "circle_payout"
    <3>1. \A k : PaidEntry(t, k)[1] = "circle_payout"
      BY DEF PaidEntry
    <3> QED
      BY <3>1
  <2> HIDE DEF EC, EB, EP
  <2> QED
    BY <2>1, <2>2, <2>3
<1>7. /\ DOMAIN fc = C /\ DOMAIN fb = B /\ DOMAIN fp = P
  OBVIOUS
<1>8. SumOf(t.defaults) = Cardinality(B)
  <2>1. /\ \A x \in DOMAIN t.defaults : t.defaults[x] = IF x \in B THEN 1 ELSE 0
        /\ B \subseteq DOMAIN t.defaults /\ IsFiniteSet(DOMAIN t.defaults)
    BY <1>3 DEF WholeRecords
  <2> HIDE DEF B
  <2>2. SumOf(t.defaults) = 1 * Cardinality(B) /\ Cardinality(B) \in Nat
    BY <2>1, RowsAdd
  <2> QED
    BY <2>2
<1> HIDE DEF fc, fb, fp, C, B, P
<1>9. /\ IsFiniteSet({fc[k] : k \in C}) /\ Cardinality({fc[k] : k \in C}) = Cardinality(C)
      /\ IsFiniteSet({fb[k] : k \in B}) /\ Cardinality({fb[k] : k \in B}) = Cardinality(B)
      /\ IsFiniteSet({fp[k] : k \in P}) /\ Cardinality({fp[k] : k \in P}) = Cardinality(P)
  BY <1>2, <1>3, <1>4, <1>7, KeysCount
<1>10. /\ IsFiniteSet(EC) /\ Cardinality(EC) = Cardinality(C)
       /\ IsFiniteSet(EB) /\ Cardinality(EB) = Cardinality(B)
       /\ IsFiniteSet(EP) /\ Cardinality(EP) = Cardinality(P)
  BY <1>9
<1> HIDE DEF EC, EB, EP
<1>11. Cardinality(EC \cup EB \cup EP)
         = Cardinality(EC) + Cardinality(EB) + Cardinality(EP)
  BY <1>6, <1>10, ThreeDisjoint
<1> QED
  BY <1>5, <1>8, <1>10, <1>11 DEF C, P

-----------------------------------------------------------------------------
(* The page: the history as a whole.                                       *)

\* A page nobody disturbed, of whole tables, says the history completely.
LEMMA WholeIsComplete ==
  ASSUME Whole(tables), RowAt(Latest) = RowIn(tables)
  PROVE  CompleteHistory(CurrentPage)
<1>0. PICK t, row, R, d : /\ t = tables /\ row = RowIn(tables)
                          /\ R = RoundsResponse(row, t, t, t) /\ d = CurrentPage
  OBVIOUS
<1>1. PICK n \in 0..N : /\ row.current_round = n
                        /\ WholeMembers(t) /\ WholePayouts(t, n) /\ WholeRecords(t, n)
  BY <1>0 DEF Whole
<1>2. /\ d.circle = row /\ d.members = parseMemberRows(t)
      /\ d.rounds = R.rounds /\ d.openRounds = R.openRounds
      /\ d.currentRound = R.currentRound /\ d.pendingDefaults = R.pendingDefaults
  BY <1>0 DEF CurrentPage, getCircleDetail, fetchCircleData
<1>3. Shown(d) = Shown(R)
  BY <1>2 DEF Shown
<1>4. \A r \in Shown(d) : IsShown(r, t, t, t)
  BY <1>0, <1>3, ShownIs
<1>5. /\ \A r \in R.rounds : r \in Shown(R) /\ r.status = "completed"
      /\ \A k : HasRound(t, k) =>
           \E r \in Shown(R) : r.roundIndex = k /\ (k \in PaidIn(t) => r \in R.rounds)
      /\ R.pendingDefaults = {x \in DOMAIN t.defaults : x.round \notin PaidIn(t)}
  BY <1>0, ShownHas
<1>6. /\ \A k \in DOMAIN t.payouts : k = <<CircleAddress, k[2]>> /\ k[2] \in 0..(n - 1)
      /\ \A r \in 0..(n - 1) : <<CircleAddress, r>> \in DOMAIN t.payouts
  BY <1>1 DEF WholePayouts
<1>7. PaidIn(t) = 0..(n - 1)
  <2>1. \A k \in PaidIn(t) : k \in 0..(n - 1)
    BY <1>6 DEF PaidIn
  <2>2. \A r \in 0..(n - 1) : r \in PaidIn(t)
    <3> TAKE r \in 0..(n - 1)
    <3>1. <<CircleAddress, r>>[2] = r
      OBVIOUS
    <3> QED
      BY <1>6, <3>1 DEF PaidIn
  <2> QED
    BY <2>1, <2>2
<1>8. ASSUME NEW m \in MemberSet, NEW e \in computeMemberRoundSummary(m, Shown(d))
      PROVE  e[2] # "unknown"
  <2>1. PICK r \in Shown(d) : e = <<r.roundIndex, MemberRoundStatus(m, r)>>
    BY DEF computeMemberRoundSummary
  <2>2. PICK k : k = r.roundIndex
    OBVIOUS
  <2>3. IsShown(r, t, t, t)
    BY <1>4
  <2>4. CASE r.recipient = m
    <3>1. MemberRoundStatus(m, r) \in {"received", "not_obligated"}
      BY <2>4 DEF MemberRoundStatus
    <3> QED
      BY <2>1, <3>1
  <2>5. CASE r.recipient # m /\ r.status # "completed"
    <3>1. MemberRoundStatus(m, r) \in {"unavailable", "not_yet_recorded"}
      BY <2>3, <2>5 DEF MemberRoundStatus, IsShown
    <3> QED
      BY <2>1, <3>1
  <2>6. CASE r.recipient # m /\ r.status = "completed"
    <3>1. k \in 0..(n - 1)
      BY <1>7, <2>2, <2>3, <2>6 DEF IsShown
    <3>2. \/ <<CircleAddress, m, k>> \in DOMAIN t.contributions
          \/ \E x \in DOMAIN t.defaults : x.member = m /\ x.round = k
      BY <1>1, <3>1 DEF WholeRecords
    <3>3. m \in ContributionsOf(t, k) \/ m \in DefaultsOf(t, k)
      <4>1. <<CircleAddress, m, k>>[3] = k /\ <<CircleAddress, m, k>>[2] = m
        OBVIOUS
      <4>2. CASE <<CircleAddress, m, k>> \in DOMAIN t.contributions
        BY <4>1, <4>2 DEF ContributionsOf
      <4>3. CASE \E x \in DOMAIN t.defaults : x.member = m /\ x.round = k
        BY <4>3 DEF DefaultsOf
      <4> QED
        BY <3>2, <4>2, <4>3
    <3>4. m \in r.contributions \/ m \in r.defaults
      BY <2>2, <2>3, <3>3 DEF IsShown
    <3>5. MemberRoundStatus(m, r)
            = Participation(m \in r.contributions, m \in r.defaults)
      BY <2>6 DEF MemberRoundStatus
    <3>6. MemberRoundStatus(m, r) # "unknown"
      BY <3>4, <3>5 DEF Participation
    <3> QED
      BY <2>1, <3>6
  <2> QED
    BY <2>4, <2>5, <2>6
<1>9. Cardinality(buildTimelineEvents(d))
        = Cardinality(DOMAIN t.contributions) + SumOf(t.defaults)
          + Cardinality(DOMAIN t.payouts)
  <2>1. \A k \in DOMAIN t.payouts : k = <<CircleAddress, k[2]>>
    BY <1>6
  <2>2. Shown(d) = Shown(RoundsResponse(row, t, t, t))
    BY <1>0, <1>3
  <2>3. buildTimelineEvents(d) = TimelineOf(t)
    BY <2>1, <2>2, TimelineIs
  <2> QED
    BY <1>1, <2>3, TimelineCounts
<1>10. ASSUME NEW i \in 0..(Len(d.members) - 1), isPaid(d, i)
       PROVE  LET p == t.payouts[<<CircleAddress, i>>]
              IN  p.recipient = d.members[i + 1] /\ PaidAmount(d, i) = p.amount
  <2>1. Len(d.members) = N /\ \A j \in 1..N : d.members[j] = members[j]
    BY <1>1, <1>2, MembersParsed
  <2>2. i \in 0..(n - 1) /\ i + 1 \in 1..N
    BY <1>1, <1>2, <1>10, <2>1, RotationFacts DEF isPaid
  <2>3. t.payouts[<<CircleAddress, i>>].recipient = d.members[i + 1]
    BY <1>1, <2>1, <2>2 DEF WholePayouts
  <2>4. PICK S : S = {r \in d.rounds : r.roundIndex = i}
    OBVIOUS
  <2>5. S # {}
    <3>1. HasRound(t, i) /\ i \in PaidIn(t)
      BY <1>7, <2>2 DEF HasRound
    <3> QED
      BY <1>2, <1>5, <2>4, <3>1
  <2>6. \A r \in S : r.amount = t.payouts[<<CircleAddress, i>>].amount
    <3> TAKE r \in S
    <3>1. r \in Shown(d) /\ r.roundIndex = i
      BY <1>2, <1>3, <1>5, <2>4
    <3>2. i \in PaidIn(t)
      BY <1>7, <2>2
    <3> QED
      BY <1>4, <3>1, <3>2 DEF IsShown
  <2>7. PaidAmount(d, i) = (CHOOSE r \in S : TRUE).amount
    BY <2>4, <2>5 DEF PaidAmount
  <2>8. (CHOOSE r \in S : TRUE) \in S
    BY <2>5
  <2> QED
    BY <2>3, <2>6, <2>7, <2>8
<1>11. {<<x.member, x.round>> : x \in d.pendingDefaults} =
         {<<x.member, x.round>> : x \in {y \in DOMAIN t.defaults :
            y.round = d.circle.current_round /\ d.circle.status = "Active"}}
  <2>1. \A x \in DOMAIN t.defaults :
          x.round \notin 0..(n - 1) <=> x.round = n /\ row.status = "Active"
    <3> TAKE x \in DOMAIN t.defaults
    <3>1. /\ x.round \in Rounds
          /\ x.round < n \/ (x.round = n /\ row.status = "Active")
      BY <1>0, <1>1 DEF WholeRecords
    <3>2. x.round \in Nat
      BY <3>1, RotationFacts
    <3> QED
      BY <3>1, <3>2
  <2>2. d.pendingDefaults = {y \in DOMAIN t.defaults :
          y.round = d.circle.current_round /\ d.circle.status = "Active"}
    BY <1>1, <1>2, <1>5, <1>7, <2>1
  <2> QED
    BY <2>2
<1>12. CompleteHistory(d)
  BY <1>0, <1>8, <1>9, <1>10, <1>11, Zenon DEF CompleteHistory
<1> QED
  BY <1>0, <1>12

\* The mirror of what is pending, and that of the versions, suffice.
LEMMA HistorySuffices == IndInv /\ TruthInv /\ EventInv => HistoryIsTrue
<1> SUFFICES ASSUME IndInv, TruthInv, EventInv PROVE HistoryIsTrue
  OBVIOUS
<1>1. RoundsAreTrue
  BY TruthSuffices
<1>2. ASSUME Ready(Latest), altered = {} PROVE CompleteHistory(CurrentPage)
  <2>1. Versions[Latest] = tables
    <3>1. PICK S : past \in Seq(S)
      BY DEF TruthInv
    <3>2. past \in Seq(S \cup {tables})
      BY <3>1
    <3> QED
      BY <3>2 DEF Versions, Latest
  <2>2. RowAt(Latest) = RowIn(tables) /\ CircleAddress \in DOMAIN tables.circles
    BY <1>2, <2>1 DEF RowAt, RowIn, Ready
  <2>3. PICK g : Ahead(g)
    BY <1>2 DEF EventInv
  <2>4. 0 \in 0..Len(pending)
    <3>1. PICK S : pending \in Seq(S)
      BY DEF EventInv
    <3> QED
      BY <3>1
  <2>5. Sound(g[0].tables) /\ g[0].tables = tables
    BY <2>3, <2>4 DEF Ahead
  <2> QED
    BY <2>2, <2>5, WholeIsComplete DEF Sound
<1> QED
  BY <1>1, <1>2 DEF HistoryIsTrue

\* However far the indexer is behind, whatever it lost and whatever came between
\* the queries: what the page says of the history is so, and when nothing was
\* lost and nothing came between, the page says all of it.
THEOREM HistoryHolds == PageSpec => []HistoryIsTrue
<1>1. PageInit => EventInit
  BY DEF PageInit
<1>2. [PageNext]_pageVars => [EventNext]_allVars
  BY DEF PageNext, pageVars
<1>3. PageSpec => EventSpec
  BY <1>1, <1>2, PTL DEF PageSpec, EventSpec
<1> QED
  BY <1>3, EventInvariance, TruthInvariance, HistorySuffices, PTL

-----------------------------------------------------------------------------
(* The page: its gates and buttons against the contract.                   *)

\* The first reason of a list of checks that holds; the application's list.
LEMMA AppFirst ==
  ASSUME NEW n \in Nat, NEW c, DOMAIN c = 1..n
  PROVE  /\ (\A i \in 1..n : ~c[i][1]) => App!G!FirstReason(c) = "allowed"
         /\ \A i \in 1..n : (c[i][1] /\ \A j \in 1..n : j < i => ~c[j][1])
                              => App!G!FirstReason(c) = c[i][2]
<1> DEFINE hits == {i \in DOMAIN c : c[i][1]}
<1>0. PICK first : first = CHOOSE i \in hits : \A j \in hits : i <= j
  OBVIOUS
<1>1. App!G!FirstReason(c) = IF hits = {} THEN "allowed" ELSE c[first][2]
  BY <1>0 DEF App!G!FirstReason
<1>2. ASSUME NEW i \in 1..n, c[i][1], \A j \in 1..n : j < i => ~c[j][1]
      PROVE  App!G!FirstReason(c) = c[i][2]
  <2>1. i \in hits /\ \A j \in hits : j \in Nat /\ i <= j
    BY <1>2
  <2>2. i \in Nat
    OBVIOUS
  <2> HIDE DEF hits
  <2>3. first = i
    <3>1. first \in hits /\ \A j \in hits : first <= j
      BY <1>0, <2>1, Zenon
    <3> QED
      BY <2>1, <2>2, <3>1
  <2>4. hits # {}
    BY <2>1
  <2>5. c[first] = c[i]
    BY <2>3
  <2> QED
    BY <1>1, <2>4, <2>5, Zenon
<1> QED
  BY <1>1, <1>2

\* Of three checks, the first that holds.
LEMMA AppFirstOfThree ==
  ASSUME NEW a, NEW b, NEW c
  PROVE  App!G!FirstReason(<<a, b, c>>) =
           IF a[1] THEN a[2] ELSE IF b[1] THEN b[2] ELSE IF c[1] THEN c[2] ELSE "allowed"
<1> DEFINE checks == <<a, b, c>>
<1>1. DOMAIN checks = 1..3 /\ \A i \in 1..3 : i = 1 \/ i = 2 \/ i = 3
  OBVIOUS
<1>2. checks[1] = a /\ checks[2] = b /\ checks[3] = c
  OBVIOUS
<1> HIDE DEF checks
<1>3. (\A i \in 1..3 : ~checks[i][1]) => App!G!FirstReason(checks) = "allowed"
  BY <1>1, AppFirst
<1>4. \A i \in 1..3 : (checks[i][1] /\ \A j \in 1..3 : j < i => ~checks[j][1])
                     => App!G!FirstReason(checks) = checks[i][2]
  BY <1>1, AppFirst
<1>5. a[1] => App!G!FirstReason(checks) = a[2]
  BY <1>1, <1>2, <1>4
<1>6. ~a[1] /\ b[1] => App!G!FirstReason(checks) = b[2]
  BY <1>1, <1>2, <1>4
<1>7. ~a[1] /\ ~b[1] /\ c[1] => App!G!FirstReason(checks) = c[2]
  BY <1>1, <1>2, <1>4
<1>8. ~a[1] /\ ~b[1] /\ ~c[1] => App!G!FirstReason(checks) = "allowed"
  BY <1>1, <1>2, <1>3
<1> QED
  BY <1>5, <1>6, <1>7, <1>8 DEF checks

\* Of four checks, the first that holds.
LEMMA AppFirstOfFour ==
  ASSUME NEW a, NEW b, NEW c, NEW d
  PROVE  App!G!FirstReason(<<a, b, c, d>>) =
           IF a[1] THEN a[2] ELSE IF b[1] THEN b[2] ELSE IF c[1] THEN c[2]
           ELSE IF d[1] THEN d[2] ELSE "allowed"
<1> DEFINE checks == <<a, b, c, d>>
<1>1. DOMAIN checks = 1..4 /\ \A i \in 1..4 : i = 1 \/ i = 2 \/ i = 3 \/ i = 4
  OBVIOUS
<1>2. checks[1] = a /\ checks[2] = b /\ checks[3] = c /\ checks[4] = d
  OBVIOUS
<1> HIDE DEF checks
<1>3. (\A i \in 1..4 : ~checks[i][1]) => App!G!FirstReason(checks) = "allowed"
  BY <1>1, AppFirst
<1>4. \A i \in 1..4 : (checks[i][1] /\ \A j \in 1..4 : j < i => ~checks[j][1])
                     => App!G!FirstReason(checks) = checks[i][2]
  BY <1>1, AppFirst
<1>5. a[1] => App!G!FirstReason(checks) = a[2]
  BY <1>1, <1>2, <1>4
<1>6. ~a[1] /\ b[1] => App!G!FirstReason(checks) = b[2]
  BY <1>1, <1>2, <1>4
<1>7. ~a[1] /\ ~b[1] /\ c[1] => App!G!FirstReason(checks) = c[2]
  BY <1>1, <1>2, <1>4
<1>8. ~a[1] /\ ~b[1] /\ ~c[1] /\ d[1] => App!G!FirstReason(checks) = d[2]
  BY <1>1, <1>2, <1>4
<1>9. ~a[1] /\ ~b[1] /\ ~c[1] /\ ~d[1] => App!G!FirstReason(checks) = "allowed"
  BY <1>1, <1>2, <1>3
<1> QED
  BY <1>5, <1>6, <1>7, <1>8, <1>9 DEF checks

\* Of five checks, the first that holds.
LEMMA AppFirstOfFive ==
  ASSUME NEW a, NEW b, NEW c, NEW d, NEW e
  PROVE  App!G!FirstReason(<<a, b, c, d, e>>) =
           IF a[1] THEN a[2] ELSE IF b[1] THEN b[2] ELSE IF c[1] THEN c[2]
           ELSE IF d[1] THEN d[2] ELSE IF e[1] THEN e[2] ELSE "allowed"
<1> DEFINE checks == <<a, b, c, d, e>>
<1>1. DOMAIN checks = 1..5 /\ \A i \in 1..5 : i = 1 \/ i = 2 \/ i = 3 \/ i = 4 \/ i = 5
  OBVIOUS
<1>2. checks[1] = a /\ checks[2] = b /\ checks[3] = c /\ checks[4] = d /\ checks[5] = e
  OBVIOUS
<1> HIDE DEF checks
<1>3. (\A i \in 1..5 : ~checks[i][1]) => App!G!FirstReason(checks) = "allowed"
  BY <1>1, AppFirst
<1>4. \A i \in 1..5 : (checks[i][1] /\ \A j \in 1..5 : j < i => ~checks[j][1])
                     => App!G!FirstReason(checks) = checks[i][2]
  BY <1>1, AppFirst
<1>5. a[1] => App!G!FirstReason(checks) = a[2]
  BY <1>1, <1>2, <1>4
<1>6. ~a[1] /\ b[1] => App!G!FirstReason(checks) = b[2]
  BY <1>1, <1>2, <1>4
<1>7. ~a[1] /\ ~b[1] /\ c[1] => App!G!FirstReason(checks) = c[2]
  BY <1>1, <1>2, <1>4
<1>8. ~a[1] /\ ~b[1] /\ ~c[1] /\ d[1] => App!G!FirstReason(checks) = d[2]
  BY <1>1, <1>2, <1>4
<1>9. ~a[1] /\ ~b[1] /\ ~c[1] /\ ~d[1] /\ e[1] => App!G!FirstReason(checks) = e[2]
  BY <1>1, <1>2, <1>4
<1>10. ~a[1] /\ ~b[1] /\ ~c[1] /\ ~d[1] /\ ~e[1] => App!G!FirstReason(checks) = "allowed"
  BY <1>1, <1>2, <1>3
<1> QED
  BY <1>5, <1>6, <1>7, <1>8, <1>9, <1>10 DEF checks

\* And the SDK's.
LEMMA SdkFirst ==
  ASSUME NEW n \in Nat, NEW c, DOMAIN c = 1..n
  PROVE  /\ (\A i \in 1..n : ~c[i][1]) => Sdk!FirstReason(c) = "allowed"
         /\ \A i \in 1..n : (c[i][1] /\ \A j \in 1..n : j < i => ~c[j][1])
                              => Sdk!FirstReason(c) = c[i][2]
<1> DEFINE hits == {i \in DOMAIN c : c[i][1]}
<1>0. PICK first : first = CHOOSE i \in hits : \A j \in hits : i <= j
  OBVIOUS
<1>1. Sdk!FirstReason(c) = IF hits = {} THEN "allowed" ELSE c[first][2]
  BY <1>0 DEF Sdk!FirstReason
<1>2. ASSUME NEW i \in 1..n, c[i][1], \A j \in 1..n : j < i => ~c[j][1]
      PROVE  Sdk!FirstReason(c) = c[i][2]
  <2>1. i \in hits /\ \A j \in hits : j \in Nat /\ i <= j
    BY <1>2
  <2>2. i \in Nat
    OBVIOUS
  <2> HIDE DEF hits
  <2>3. first = i
    <3>1. first \in hits /\ \A j \in hits : first <= j
      BY <1>0, <2>1, Zenon
    <3> QED
      BY <2>1, <2>2, <3>1
  <2>4. hits # {}
    BY <2>1
  <2>5. c[first] = c[i]
    BY <2>3
  <2> QED
    BY <1>1, <2>4, <2>5, Zenon
<1> QED
  BY <1>1, <1>2

\* The SDK's list of three checks: the first that holds.
LEMMA SdkFirstOfThree ==
  ASSUME NEW a, NEW b, NEW c
  PROVE  Sdk!FirstReason(<<a, b, c>>) =
           IF a[1] THEN a[2] ELSE IF b[1] THEN b[2] ELSE IF c[1] THEN c[2] ELSE "allowed"
<1> DEFINE checks == <<a, b, c>>
<1>1. DOMAIN checks = 1..3 /\ \A i \in 1..3 : i = 1 \/ i = 2 \/ i = 3
  OBVIOUS
<1>2. checks[1] = a /\ checks[2] = b /\ checks[3] = c
  OBVIOUS
<1> HIDE DEF checks
<1>3. (\A i \in 1..3 : ~checks[i][1]) => Sdk!FirstReason(checks) = "allowed"
  BY <1>1, SdkFirst
<1>4. \A i \in 1..3 : (checks[i][1] /\ \A j \in 1..3 : j < i => ~checks[j][1])
                     => Sdk!FirstReason(checks) = checks[i][2]
  BY <1>1, SdkFirst
<1>5. a[1] => Sdk!FirstReason(checks) = a[2]
  BY <1>1, <1>2, <1>4
<1>6. ~a[1] /\ b[1] => Sdk!FirstReason(checks) = b[2]
  BY <1>1, <1>2, <1>4
<1>7. ~a[1] /\ ~b[1] /\ c[1] => Sdk!FirstReason(checks) = c[2]
  BY <1>1, <1>2, <1>4
<1>8. ~a[1] /\ ~b[1] /\ ~c[1] => Sdk!FirstReason(checks) = "allowed"
  BY <1>1, <1>2, <1>3
<1> QED
  BY <1>5, <1>6, <1>7, <1>8 DEF checks

\* The SDK's list of four checks.
LEMMA SdkFirstOfFour ==
  ASSUME NEW a, NEW b, NEW c, NEW d
  PROVE  Sdk!FirstReason(<<a, b, c, d>>) =
           IF a[1] THEN a[2] ELSE IF b[1] THEN b[2] ELSE IF c[1] THEN c[2]
           ELSE IF d[1] THEN d[2] ELSE "allowed"
<1> DEFINE checks == <<a, b, c, d>>
<1>1. DOMAIN checks = 1..4 /\ \A i \in 1..4 : i = 1 \/ i = 2 \/ i = 3 \/ i = 4
  OBVIOUS
<1>2. checks[1] = a /\ checks[2] = b /\ checks[3] = c /\ checks[4] = d
  OBVIOUS
<1> HIDE DEF checks
<1>3. (\A i \in 1..4 : ~checks[i][1]) => Sdk!FirstReason(checks) = "allowed"
  BY <1>1, SdkFirst
<1>4. \A i \in 1..4 : (checks[i][1] /\ \A j \in 1..4 : j < i => ~checks[j][1])
                     => Sdk!FirstReason(checks) = checks[i][2]
  BY <1>1, SdkFirst
<1>5. a[1] => Sdk!FirstReason(checks) = a[2]
  BY <1>1, <1>2, <1>4
<1>6. ~a[1] /\ b[1] => Sdk!FirstReason(checks) = b[2]
  BY <1>1, <1>2, <1>4
<1>7. ~a[1] /\ ~b[1] /\ c[1] => Sdk!FirstReason(checks) = c[2]
  BY <1>1, <1>2, <1>4
<1>8. ~a[1] /\ ~b[1] /\ ~c[1] /\ d[1] => Sdk!FirstReason(checks) = d[2]
  BY <1>1, <1>2, <1>4
<1>9. ~a[1] /\ ~b[1] /\ ~c[1] /\ ~d[1] => Sdk!FirstReason(checks) = "allowed"
  BY <1>1, <1>2, <1>3
<1> QED
  BY <1>5, <1>6, <1>7, <1>8, <1>9 DEF checks

\* The SDK's list of six checks, those of its gate for defaults.
LEMMA SdkFirstOfSix ==
  ASSUME NEW a, NEW b, NEW c, NEW d, NEW e, NEW f
  PROVE  Sdk!FirstReason(<<a, b, c, d, e, f>>) =
           IF a[1] THEN a[2] ELSE IF b[1] THEN b[2] ELSE IF c[1] THEN c[2]
           ELSE IF d[1] THEN d[2] ELSE IF e[1] THEN e[2] ELSE IF f[1] THEN f[2] ELSE "allowed"
<1> DEFINE checks == <<a, b, c, d, e, f>>
<1>1. DOMAIN checks = 1..6 /\ \A i \in 1..6 : i = 1 \/ i = 2 \/ i = 3 \/ i = 4 \/ i = 5 \/ i = 6
  OBVIOUS
<1>2. checks[1] = a /\ checks[2] = b /\ checks[3] = c /\ checks[4] = d /\ checks[5] = e /\ checks[6] = f
  OBVIOUS
<1> HIDE DEF checks
<1>3. (\A i \in 1..6 : ~checks[i][1]) => Sdk!FirstReason(checks) = "allowed"
  BY <1>1, SdkFirst
<1>4. \A i \in 1..6 : (checks[i][1] /\ \A j \in 1..6 : j < i => ~checks[j][1])
                     => Sdk!FirstReason(checks) = checks[i][2]
  BY <1>1, SdkFirst
<1>5. a[1] => Sdk!FirstReason(checks) = a[2]
  BY <1>1, <1>2, <1>4
<1>6. ~a[1] /\ b[1] => Sdk!FirstReason(checks) = b[2]
  BY <1>1, <1>2, <1>4
<1>7. ~a[1] /\ ~b[1] /\ c[1] => Sdk!FirstReason(checks) = c[2]
  BY <1>1, <1>2, <1>4
<1>8. ~a[1] /\ ~b[1] /\ ~c[1] /\ d[1] => Sdk!FirstReason(checks) = d[2]
  BY <1>1, <1>2, <1>4
<1>9. ~a[1] /\ ~b[1] /\ ~c[1] /\ ~d[1] /\ e[1] => Sdk!FirstReason(checks) = e[2]
  BY <1>1, <1>2, <1>4
<1>10. ~a[1] /\ ~b[1] /\ ~c[1] /\ ~d[1] /\ ~e[1] /\ f[1] => Sdk!FirstReason(checks) = f[2]
  BY <1>1, <1>2, <1>4
<1>11. ~a[1] /\ ~b[1] /\ ~c[1] /\ ~d[1] /\ ~e[1] /\ ~f[1] => Sdk!FirstReason(checks) = "allowed"
  BY <1>1, <1>2, <1>3
<1> QED
  BY <1>5, <1>6, <1>7, <1>8, <1>9, <1>10, <1>11 DEF checks

\* What the application's gates answer on a fresh snapshot.
LEMMA AppVerdict ==
  ASSUME NEW s, s.fresh = TRUE, NEW net \in {"match", "mismatch"},
         s.networkCheck = net
  PROVE  /\ net = "mismatch" =>
              \A action : App!computeActionEligibility(action, s) = "network_mismatch"
         /\ net = "match" =>
              /\ App!computeActionEligibility("join", s) =
                   IF s.status # "Pending" THEN "wrong_status"
                   ELSE IF s.hasLockedCollateral THEN "already_joined" ELSE "allowed"
              /\ App!computeActionEligibility("contribute", s) =
                   IF s.status # "Active" THEN "wrong_status"
                   ELSE IF /\ s.deadlineLedger # Null /\ s.latestLedger # Null
                           /\ s.latestLedger > s.deadlineLedger THEN "deadline_passed"
                   ELSE IF s.hasContributedCurrentRound THEN "already_contributed"
                   ELSE "allowed"
              /\ App!computeActionEligibility("payout", s) =
                   IF s.status # "Active" THEN "wrong_status"
                   ELSE IF s.contributionsReceived < s.memberAddresses
                          THEN "round_not_complete" ELSE "allowed"
              /\ App!computeActionEligibility("default", s) =
                   IF s.status # "Active" THEN "wrong_status"
                   ELSE IF \/ ~(s.deadlineLedger # Null /\ s.latestLedger # Null)
                           \/ s.latestLedger <= s.deadlineLedger
                          THEN "deadline_not_passed"
                   ELSE IF s.hasContributedCurrentRound THEN "already_contributed"
                   ELSE "allowed"
              /\ App!computeActionEligibility("close", s) =
                   IF s.status \notin {"Completed", "Cancelled", "Closed"}
                     THEN "wrong_status" ELSE "allowed"
<1>1. CASE net = "mismatch"
  BY <1>1 DEF App!computeActionEligibility
<1>2. CASE net = "match"
  <2>1. App!G!Null = Null
    BY DEF App!G!Null, Null, Sdk!Null
  <2> DEFINE stale == ~s.fresh
             other == s.networkCheck = "mismatch"
             notPending == s.status # "Pending"
             notActive == s.status # "Active"
             notOver == s.status \notin {"Completed", "Cancelled", "Closed"}
             known == s.deadlineLedger # Null /\ s.latestLedger # Null
             late == known /\ s.latestLedger > s.deadlineLedger
             early == ~known \/ s.latestLedger <= s.deadlineLedger
             short == s.contributionsReceived < s.memberAddresses
             locked == s.hasLockedCollateral
             done == s.hasContributedCurrentRound
  <2>2. /\ App!computeActionEligibility("join", s) = App!gateJoin(s)
        /\ App!computeActionEligibility("contribute", s) = App!gateContribute(s)
        /\ App!computeActionEligibility("payout", s) = App!gatePayout(s)
        /\ App!computeActionEligibility("default", s) = App!gateDefault(s)
        /\ App!computeActionEligibility("close", s) = App!gateClose(s)
    BY <1>2 DEF App!computeActionEligibility
  <2>3. /\ App!gateJoin(s) =
             App!G!FirstReason(<<<<stale, "stale_snapshot">>, <<other, "network_mismatch">>,
               <<notPending, "wrong_status">>, <<locked, "already_joined">>>>)
        /\ App!gateContribute(s) =
             App!G!FirstReason(<<<<stale, "stale_snapshot">>, <<other, "network_mismatch">>,
               <<notActive, "wrong_status">>, <<late, "deadline_passed">>,
               <<done, "already_contributed">>>>)
        /\ App!gatePayout(s) =
             App!G!FirstReason(<<<<stale, "stale_snapshot">>, <<other, "network_mismatch">>,
               <<notActive, "wrong_status">>, <<short, "round_not_complete">>>>)
        /\ App!gateDefault(s) =
             App!G!FirstReason(<<<<stale, "stale_snapshot">>, <<other, "network_mismatch">>,
               <<notActive, "wrong_status">>, <<early, "deadline_not_passed">>,
               <<done, "already_contributed">>>>)
        /\ App!gateClose(s) =
             App!G!FirstReason(<<<<stale, "stale_snapshot">>, <<other, "network_mismatch">>,
               <<notOver, "wrong_status">>>>)
    <3>1. /\ App!isSnapshotFresh(s) = <<stale, "stale_snapshot">>
          /\ App!checkNetworkGate(s) = <<other, "network_mismatch">>
      BY DEF App!isSnapshotFresh, App!checkNetworkGate
    <3>2. /\ App!WrongStatus(s, {"Pending"}) = <<notPending, "wrong_status">>
          /\ App!WrongStatus(s, {"Active"}) = <<notActive, "wrong_status">>
      BY DEF App!WrongStatus
    <3>3. App!isTerminalStatus(s.status) = ~notOver /\ App!Known(s) = known
      BY <2>1 DEF App!isTerminalStatus, App!Known
    <3>4. /\ (App!Known(s) /\ s.latestLedger > s.deadlineLedger) = late
          /\ (~App!Known(s) \/ s.latestLedger <= s.deadlineLedger) = early
          /\ (~App!isTerminalStatus(s.status)) = notOver
      BY <3>3
    <3> HIDE DEF stale, other, notPending, notActive, notOver, known, late, early
    <3> QED
      BY <3>1, <3>2, <3>4, Zenon DEF App!gateJoin, App!gateContribute, App!gatePayout,
         App!gateDefault, App!gateClose, short, locked, done
  <2>4. ~stale /\ ~other
    BY <1>2
  <2> HIDE DEF stale, other, notPending, notActive, notOver, known, late, early, short,
               locked, done
  <2>5. /\ App!gateJoin(s) = IF notPending THEN "wrong_status"
                             ELSE IF locked THEN "already_joined" ELSE "allowed"
        /\ App!gatePayout(s) = IF notActive THEN "wrong_status"
                               ELSE IF short THEN "round_not_complete" ELSE "allowed"
        /\ App!gateClose(s) = IF notOver THEN "wrong_status" ELSE "allowed"
    BY <2>3, <2>4, AppFirstOfThree, AppFirstOfFour, AppFirstOfFive
  <2>6. /\ App!gateContribute(s) = IF notActive THEN "wrong_status"
                                   ELSE IF late THEN "deadline_passed"
                                   ELSE IF done THEN "already_contributed" ELSE "allowed"
        /\ App!gateDefault(s) = IF notActive THEN "wrong_status"
                                ELSE IF early THEN "deadline_not_passed"
                                ELSE IF done THEN "already_contributed" ELSE "allowed"
    BY <2>3, <2>4, AppFirstOfThree, AppFirstOfFour, AppFirstOfFive
  <2> QED
    BY <1>2, <2>2, <2>5, <2>6 DEF notPending, notActive, notOver, known, late, early,
       short, locked, done
<1> QED
  BY <1>1, <1>2

\* What the SDK's gates answer over the contract.
LEMMA SdkVerdict ==
  ASSUME TypeOK, NEW m \in MemberSet
  PROVE  LET Verdict(action) ==
               Sdk!computeActionEligibility(action, SdkSnapshot, SdkOptions(m))
         IN  /\ Verdict("join") =
                  IF status # "Pending" THEN "wrong_status"
                  ELSE IF m \in joined THEN "already_joined" ELSE "allowed"
             /\ Verdict("contribute") =
                  IF status # "Active" THEN "wrong_status"
                  ELSE IF deadline_passed THEN "deadline_passed"
                  ELSE IF m \in contributed[round.round_index]
                         THEN "already_contributed" ELSE "allowed"
             /\ Verdict("payout") =
                  IF status # "Active" THEN "wrong_status"
                  ELSE IF round.contributions_received < N
                         THEN "round_not_complete" ELSE "allowed"
             /\ Verdict("default") =
                  IF status # "Active" THEN "wrong_status"
                  ELSE IF m \in contributed[round.round_index]
                         THEN "already_contributed"
                  ELSE IF ~deadline_passed THEN "deadline_not_passed" ELSE "allowed"
             /\ Verdict("close") =
                  IF status \notin {"Completed", "Cancelled"}
                    THEN "wrong_status" ELSE "allowed"
<1> DEFINE s == SdkSnapshot
           o == SdkOptions(m)
           notPending == <<status # "Pending", "wrong_status">>
           notActive == <<status # "Active", "wrong_status">>
           notOver == <<status \notin {"Completed", "Cancelled"}, "wrong_status">>
           locked == <<m \in joined, "already_joined">>
           done == <<m \in contributed[round.round_index], "already_contributed">>
           late == <<deadline_passed, "deadline_passed">>
           early == <<~deadline_passed, "deadline_not_passed">>
           short == <<round.contributions_received < N, "round_not_complete">>
<1>1. /\ s.members = members /\ s.fresh = TRUE /\ s.latestLedger = ledger
      /\ s.status = status /\ s.currentRound = round /\ o.memberAddress = m
      /\ o.hasLockedCollateral = (m \in joined)
      /\ o.hasContributed = (m \in contributed[round.round_index])
  BY DEF SdkSnapshot, SdkOptions
<1>2. /\ round.round_index \in Nat /\ ledger \in Nat
      /\ round.deadline_ledger \in Nat /\ N \in Nat
  BY RotationFacts DEF TypeOK, RoundState
<1>3. round # Sdk!NoRound /\ ledger # Sdk!Null
  <2>1. Sdk!NoRound.round_index = Sdk!Null /\ ~(Sdk!Null \in Nat)
    BY DEF Sdk!NoRound, Sdk!Null
  <2> QED
    BY <1>2, <2>1
<1>4. /\ (ledger # Sdk!Null /\ ledger > round.deadline_ledger) = deadline_passed
      /\ (ledger = Sdk!Null \/ ledger <= round.deadline_ledger) = ~deadline_passed
  BY <1>2, <1>3 DEF deadline_passed
<1>5. (round.contributions_received < Len(members)) = (round.contributions_received < N)
  BY DEF N
<1>6. m \in Sdk!ToSet(members)
  BY ConfigAssumption DEF Sdk!ToSet, MemberSet, N
<1> HIDE DEF s, o
<1>7. PICK stale, none, stranger :
        /\ stale = Sdk!Stale(s) /\ none = Sdk!NoActiveRound(s)
        /\ stranger = Sdk!NotAMember(s, o)
        /\ ~stale[1] /\ ~none[1] /\ ~stranger[1]
  <2>1. ~Sdk!Stale(s)[1] /\ ~Sdk!NoActiveRound(s)[1]
    BY <1>1, <1>3 DEF Sdk!Stale, Sdk!NoActiveRound
  <2>2. ~Sdk!NotAMember(s, o)[1]
    BY <1>1, <1>6 DEF Sdk!NotAMember
  <2> QED
    BY <2>1, <2>2
<1>8. /\ Sdk!WrongStatus(s, {"Pending"}) = notPending
      /\ Sdk!WrongStatus(s, {"Active"}) = notActive
      /\ Sdk!WrongStatus(s, {"Completed", "Cancelled"}) = notOver
  BY <1>1 DEF Sdk!WrongStatus
<1>9. /\ <<o.hasLockedCollateral, "already_joined">> = locked
      /\ <<o.hasContributed, "already_contributed">> = done
      /\ <<s.currentRound.contributions_received < Len(s.members),
           "round_not_complete">> = short
      /\ <<s.latestLedger # Sdk!Null /\ s.latestLedger > s.currentRound.deadline_ledger,
           "deadline_passed">> = late
      /\ <<s.latestLedger = Sdk!Null \/ s.latestLedger <= s.currentRound.deadline_ledger,
           "deadline_not_passed">> = early
  BY <1>1, <1>4, <1>5
<1>10. /\ locked[1] = (m \in joined) /\ locked[2] = "already_joined"
       /\ done[1] = (m \in contributed[round.round_index])
       /\ done[2] = "already_contributed"
       /\ late[1] = deadline_passed /\ late[2] = "deadline_passed"
       /\ early[1] = ~deadline_passed /\ early[2] = "deadline_not_passed"
       /\ short[1] = (round.contributions_received < N) /\ short[2] = "round_not_complete"
       /\ notPending[1] = (status # "Pending") /\ notPending[2] = "wrong_status"
       /\ notActive[1] = (status # "Active") /\ notActive[2] = "wrong_status"
       /\ notOver[1] = (status \notin {"Completed", "Cancelled"})
       /\ notOver[2] = "wrong_status"
  OBVIOUS
<1> HIDE DEF notPending, notActive, notOver, locked, done, late, early, short
<1>11. /\ Sdk!gateJoin(s, o) =
            Sdk!FirstReason(<<stale, notPending, stranger, locked>>)
       /\ Sdk!gateContribute(s, o) =
            Sdk!FirstReason(<<stale, notActive, none, stranger, late, done>>)
       /\ Sdk!gatePayout(s, o) = Sdk!FirstReason(<<stale, notActive, none, short>>)
       /\ Sdk!gateDefault(s, o) =
            Sdk!FirstReason(<<stale, notActive, none, stranger, done, early>>)
       /\ Sdk!gateClose(s, o) = Sdk!FirstReason(<<stale, notOver, stranger>>)
  BY <1>7, <1>8, <1>9, Zenon
  DEF Sdk!gateJoin, Sdk!gateContribute, Sdk!gatePayout, Sdk!gateDefault, Sdk!gateClose
<1>12. /\ Sdk!gateJoin(s, o) = IF notPending[1] THEN notPending[2]
                               ELSE IF locked[1] THEN locked[2] ELSE "allowed"
       /\ Sdk!gatePayout(s, o) = IF notActive[1] THEN notActive[2]
                                 ELSE IF short[1] THEN short[2] ELSE "allowed"
       /\ Sdk!gateClose(s, o) = IF notOver[1] THEN notOver[2] ELSE "allowed"
  BY <1>7, <1>11, SdkFirstOfThree, SdkFirstOfFour
<1>13. /\ Sdk!gateContribute(s, o) = IF notActive[1] THEN notActive[2]
                                     ELSE IF late[1] THEN late[2]
                                     ELSE IF done[1] THEN done[2] ELSE "allowed"
       /\ Sdk!gateDefault(s, o) = IF notActive[1] THEN notActive[2]
                                  ELSE IF done[1] THEN done[2]
                                  ELSE IF early[1] THEN early[2] ELSE "allowed"
  BY <1>7, <1>11, SdkFirstOfSix
<1>14. /\ Sdk!computeActionEligibility("join", s, o) = Sdk!gateJoin(s, o)
       /\ Sdk!computeActionEligibility("contribute", s, o) = Sdk!gateContribute(s, o)
       /\ Sdk!computeActionEligibility("payout", s, o) = Sdk!gatePayout(s, o)
       /\ Sdk!computeActionEligibility("default", s, o) = Sdk!gateDefault(s, o)
       /\ Sdk!computeActionEligibility("close", s, o) = Sdk!gateClose(s, o)
  BY DEF Sdk!computeActionEligibility
<1>15. /\ Sdk!gateJoin(s, o) =
            IF status # "Pending" THEN "wrong_status"
            ELSE IF m \in joined THEN "already_joined" ELSE "allowed"
       /\ Sdk!gatePayout(s, o) =
            IF status # "Active" THEN "wrong_status"
            ELSE IF round.contributions_received < N
                   THEN "round_not_complete" ELSE "allowed"
       /\ Sdk!gateClose(s, o) =
            IF status \notin {"Completed", "Cancelled"}
              THEN "wrong_status" ELSE "allowed"
  BY <1>10, <1>12
<1>16. /\ Sdk!gateContribute(s, o) =
            IF status # "Active" THEN "wrong_status"
            ELSE IF deadline_passed THEN "deadline_passed"
            ELSE IF m \in contributed[round.round_index]
                   THEN "already_contributed" ELSE "allowed"
       /\ Sdk!gateDefault(s, o) =
            IF status # "Active" THEN "wrong_status"
            ELSE IF m \in contributed[round.round_index]
                   THEN "already_contributed"
            ELSE IF ~deadline_passed THEN "deadline_not_passed" ELSE "allowed"
  BY <1>10, <1>13
<1> QED
  BY <1>14, <1>15, <1>16, Zenon DEF s, o

\* The round that a response says is going on is the row's, if it is not paid.
LEMMA CurrentRoundIs ==
  ASSUME NEW row, NEW p, NEW c, NEW f
  PROVE  LET now == RoundsResponse(row, p, c, f).currentRound
         IN  /\ \A r \in now :
                  /\ r.roundIndex = row.current_round
                  /\ r.contributions = ContributionsOf(c, row.current_round)
             /\ \A r, q \in now : r = q
             /\ row.status = "Active" /\ row.current_round \notin PaidIn(p)
                  => now # {}
<1> DEFINE groups == groupCircleRounds(row, {k[2] : k \in DOMAIN p.payouts},
                       {k[3] : k \in DOMAIN c.contributions},
                       {d.round : d \in DOMAIN f.defaults})
           Rec(k) == [roundIndex |-> k, status |-> groups[k],
                      recipient |-> IF k \in PaidIn(p)
                                      THEN p.payouts[<<CircleAddress, k>>].recipient
                                      ELSE Nobody,
                      amount |-> IF k \in PaidIn(p)
                                   THEN p.payouts[<<CircleAddress, k>>].amount
                                   ELSE Null,
                      contributions |-> ContributionsOf(c, k),
                      defaults |-> DefaultsOf(f, k)]
           With(phases) == {Rec(k) : k \in {x \in DOMAIN groups : groups[x] \in phases}}
<1>1. PICK now : now = RoundsResponse(row, p, c, f).currentRound
  OBVIOUS
<1>2. now = With({"current", "cancelled"})
  <2>1. RoundsResponse(row, p, c, f) =
          [rounds |-> With({"completed"}), openRounds |-> With({"open"}),
           currentRound |-> With({"current", "cancelled"}),
           pendingDefaults |-> {d \in DOMAIN f.defaults : d.round \notin PaidIn(p)}]
    BY DEF RoundsResponse, PaidIn, Nobody
  <2> HIDE DEF With
  <2> QED
    BY <1>1, <2>1
<1>3. \A k \in DOMAIN groups : groups[k] = resolveStatus(k, k \in PaidIn(p), row)
  BY DEF groupCircleRounds, PaidIn
<1>4. \A k \in DOMAIN groups :
        groups[k] \in {"current", "cancelled"} => k = row.current_round
  BY <1>3 DEF resolveStatus
<1>5. row.status = "Active" /\ row.current_round \notin PaidIn(p) =>
        /\ row.current_round \in DOMAIN groups
        /\ groups[row.current_round] = "current"
  <2>1. row.status = "Active" => row.current_round \in DOMAIN groups
    BY DEF groupCircleRounds
  <2> QED
    BY <1>3, <2>1 DEF resolveStatus
<1>6. \A k : /\ Rec(k).roundIndex = k
             /\ Rec(k).contributions = ContributionsOf(c, k)
  OBVIOUS
<1> HIDE DEF groups, Rec
<1>7. \A r \in now : r = Rec(row.current_round)
  BY <1>2, <1>4
<1>8. row.status = "Active" /\ row.current_round \notin PaidIn(p)
        => Rec(row.current_round) \in now
  BY <1>2, <1>5
<1> QED
  BY <1>1, <1>6, <1>7, <1>8

\* What a page that is up to date, and was served this deadline, has at hand.
IsUpToDate(d, deadline) ==
  /\ d.circle.status = RowStatus /\ d.circle.current_round = rounds_completed
  /\ d.circle.member_count = N
  /\ d.deadline_ledger = deadline /\ d.latestLedger = ledger
  /\ Len(d.members) = N /\ \A i \in 1..N : d.members[i] = members[i]
  /\ DOMAIN d.row = MemberSet
  /\ \A m \in MemberSet :
       /\ d.row[m].collateral = IF m \in joined THEN CollateralDue ELSE 0
       /\ d.row[m].defaults = defaults[m]
  /\ \A r, q \in d.currentRound : r = q
  /\ status = "Active" =>
       /\ d.currentRound # {}
       /\ \A r \in d.currentRound : r.contributions = contributed[round.round_index]

\* The versions of the tables end with the latest.
LEMMA LatestIs ==
  ASSUME NEW S, past \in Seq(S)
  PROVE  Latest \in Nat /\ Latest >= 1 /\ Versions[Latest] = tables
<1>1. past \in Seq(S \cup {tables})
  OBVIOUS
<1> QED
  BY <1>1 DEF Versions, Latest

\* That is the page of tables that have caught up.
LEMMA PageIsUpToDate ==
  ASSUME IndInv, ClosedIsOver, EventInv, NEW S, past \in Seq(S), UpToDate
  PROVE  /\ IsUpToDate(CurrentPage, Null)
         /\ IsUpToDate(WithDeadline(CurrentPage), round.deadline_ledger)
<1>1. status # "Uninitialized" /\ FollowsContract(tables)
  <2>1. PICK g : Ahead(g)
    BY DEF EventInv, UpToDate
  <2>2. 0 \in 0..Len(pending) /\ Len(pending) = 0
    BY DEF UpToDate, CaughtUp
  <2>3. PICK t : g[0] = At(t) /\ UpToContract(t)
    BY <2>1, <2>2 DEF Ahead
  <2>4. At(t) = [tables |-> tables, rejected |-> rejected]
    BY <2>1, <2>2, <2>3 DEF Ahead
  <2>5. t = tables
    BY <2>4 DEF At
  <2> QED
    BY <2>3, <2>5 DEF UpToDate, CaughtUp, UpToContract
<1>2. Versions[Latest] = tables
  BY LatestIs
<1>3. PICK t, row, R, d : /\ t = tables /\ row = RowIn(tables)
                          /\ R = RoundsResponse(row, t, t, t) /\ d = CurrentPage
  OBVIOUS
<1>4. RowAt(Latest) = row
  BY <1>2, <1>3 DEF RowAt, RowIn
<1>5. /\ d.circle = row /\ d.members = parseMemberRows(t)
      /\ d.deadline_ledger = circleDeadline(row) /\ d.latestLedger = ledger
      /\ d.row = [m \in {k[2] : k \in DOMAIN t.circle_members} |->
                    t.circle_members[<<CircleAddress, m>>]]
      /\ d.currentRound = R.currentRound
  BY <1>3, <1>4 DEF CurrentPage, getCircleDetail, fetchCircleData
<1>6. row = RowAfter(Released)
  BY <1>1, <1>3 DEF FollowsContract, FollowsRow, Circles, RowIn
<1>7. /\ row.status = RowStatus /\ row.current_round = rounds_completed
      /\ row.member_count = N
  BY <1>6 DEF RowAfter
<1>8. circleDeadline(row) = Null
  BY DEF circleDeadline, round_deadline_column
<1>9. FollowsMembers(t) /\ FollowsContributions(t) /\ FollowsPayouts(t)
  BY <1>1, <1>3 DEF FollowsContract
<1>10. DOMAIN t.circle_members = {<<CircleAddress, m>> : m \in MemberSet}
  BY <1>9 DEF FollowsMembers, FollowsCounts
<1>11. WholeMembers(t)
  <2>1. ASSUME NEW i \in 1..N
        PROVE  t.circle_members[<<CircleAddress, members[i]>>].payout_order = i - 1
    <3>1. members[i] \in MemberSet
      BY RotationFacts
    <3>2. PICK place \in 1..N :
            /\ members[place] = members[i]
            /\ t.circle_members[<<CircleAddress, members[i]>>].payout_order = place - 1
      BY <1>9, <3>1 DEF FollowsMembers, FollowsCounts
    <3>3. place = i
      BY <3>2, ConfigAssumption DEF N
    <3> QED
      BY <3>2, <3>3
  <2> QED
    BY <1>10, <2>1 DEF WholeMembers
<1>12. Len(d.members) = N /\ \A i \in 1..N : d.members[i] = members[i]
  BY <1>5, <1>11, MembersParsed
<1>13. {k[2] : k \in DOMAIN t.circle_members} = MemberSet
  <2>1. \A m \in MemberSet : <<CircleAddress, m>> \in DOMAIN t.circle_members
                             /\ <<CircleAddress, m>>[2] = m
    BY <1>10
  <2>2. \A k \in DOMAIN t.circle_members : k[2] \in MemberSet
    BY <1>10
  <2> QED
    BY <2>1, <2>2
<1>14. ASSUME NEW m \in MemberSet
       PROVE  /\ d.row[m].collateral = IF m \in joined THEN CollateralDue ELSE 0
              /\ d.row[m].defaults = defaults[m]
  <2>1. PICK x : x = t.circle_members[<<CircleAddress, m>>]
    OBVIOUS
  <2>2. x = [payout_order |-> x.payout_order, join_order |-> x.join_order,
             collateral |-> IF m \in joined THEN CollateralDue ELSE 0,
             defaults |-> defaults[m]]
    BY <1>9, <2>1, Zenon DEF FollowsMembers, FollowsCounts
  <2>3. d.row[m] = x
    BY <1>5, <1>13, <2>1
  <2> QED
    BY <2>2, <2>3
<1>15. /\ \A r \in d.currentRound :
            r.contributions = ContributionsOf(t, rounds_completed)
       /\ \A r, q \in d.currentRound : r = q
       /\ row.status = "Active" /\ rounds_completed \notin PaidIn(t)
            => d.currentRound # {}
  BY <1>3, <1>5, <1>7, CurrentRoundIs
<1>16. ASSUME status = "Active"
       PROVE  /\ d.currentRound # {}
              /\ ContributionsOf(t, rounds_completed) = contributed[round.round_index]
  <2>1. row.status = "Active"
    BY <1>7, <1>16 DEF ClosedIsOver, RowStatus
  <2>2. rounds_completed \notin PaidIn(t)
    <3>1. rounds_completed \in Nat
      BY RotationFacts DEF IndInv, TypeOK
    <3>2. \A k \in DOMAIN t.payouts : k[2] \in 0..(rounds_completed - 1)
      BY <1>9 DEF FollowsPayouts
    <3> QED
      BY <3>1, <3>2 DEF PaidIn
  <2>3. /\ rounds_completed = round.round_index /\ round.round_index \in Rounds
        /\ contributed[round.round_index] \subseteq MemberSet
    BY <1>16 DEF IndInv, RotationProgress, TypeOK, RoundState
  <2>4. PICK r \in Rounds : r = round.round_index
    BY <2>3
  <2>5. \A m \in contributed[r] : m \in ContributionsOf(t, r)
    <3> TAKE m \in contributed[r]
    <3>1. <<CircleAddress, m, r>> \in DOMAIN t.contributions
      BY <1>9 DEF FollowsContributions
    <3>2. <<CircleAddress, m, r>>[2] = m /\ <<CircleAddress, m, r>>[3] = r
      OBVIOUS
    <3> QED
      BY <3>1, <3>2 DEF ContributionsOf
  <2>6. \A m \in ContributionsOf(t, r) : m \in contributed[r]
    <3> TAKE m \in ContributionsOf(t, r)
    <3>1. PICK k \in DOMAIN t.contributions : k[3] = r /\ m = k[2]
      BY DEF ContributionsOf
    <3>2. PICK a \in MemberSet, q \in Rounds :
            k = <<CircleAddress, a, q>> /\ a \in contributed[q]
      BY <1>9, <3>1 DEF FollowsContributions
    <3> QED
      BY <3>1, <3>2
  <2>7. ContributionsOf(t, r) = contributed[r]
    BY <2>5, <2>6
  <2> QED
    BY <1>15, <2>1, <2>2, <2>3, <2>4, <2>7
<1>17. IsUpToDate(d, Null)
  BY <1>5, <1>7, <1>8, <1>12, <1>13, <1>14, <1>15, <1>16 DEF IsUpToDate
<1>18. PICK e : e = WithDeadline(d)
  OBVIOUS
<1>19. /\ e.circle = d.circle /\ e.latestLedger = d.latestLedger
       /\ e.members = d.members /\ e.row = d.row /\ e.currentRound = d.currentRound
       /\ e.deadline_ledger = round.deadline_ledger
  BY <1>3, <1>18 DEF WithDeadline, CurrentPage, getCircleDetail, fetchCircleData
<1>20. IsUpToDate(e, round.deadline_ledger)
  BY <1>17, <1>19 DEF IsUpToDate
<1> QED
  BY <1>3, <1>17, <1>18, <1>20

\* What the application's gates answer on it, in terms of the contract.
LEMMA AppOverContract ==
  ASSUME IndInv, ClosedIsOver, NEW deadline, NEW d, IsUpToDate(d, deadline), NEW m,
         NEW s, s = buildAppSnapshot(d, m, "match")
  PROVE  /\ App!computeActionEligibility("join", s) =
              IF RowStatus # "Pending" THEN "wrong_status"
              ELSE IF m \in joined THEN "already_joined" ELSE "allowed"
         /\ App!computeActionEligibility("contribute", s) =
              IF status # "Active" THEN "wrong_status"
              ELSE IF deadline # Null /\ ledger > deadline THEN "deadline_passed"
              ELSE IF m \in contributed[round.round_index]
                     THEN "already_contributed" ELSE "allowed"
         /\ App!computeActionEligibility("payout", s) =
              IF status # "Active" THEN "wrong_status"
              ELSE IF round.contributions_received < N
                     THEN "round_not_complete" ELSE "allowed"
         /\ App!computeActionEligibility("default", s) =
              IF status # "Active" THEN "wrong_status"
              ELSE IF deadline = Null \/ ledger <= deadline THEN "deadline_not_passed"
              ELSE IF m \in contributed[round.round_index]
                     THEN "already_contributed" ELSE "allowed"
         /\ App!computeActionEligibility("close", s) =
              IF status \notin {"Completed", "Cancelled"} THEN "wrong_status"
              ELSE "allowed"
<1>1. /\ s.status = d.circle.status /\ s.deadlineLedger = d.deadline_ledger
      /\ s.latestLedger = d.latestLedger /\ s.memberAddresses = Len(d.members)
      /\ s.hasLockedCollateral <=> m \in DOMAIN d.row /\ d.row[m].collateral > 0
      /\ s.hasContributedCurrentRound <=> HasContributed(d, m)
      /\ s.contributionsReceived = ContributionsReceived(d)
      /\ s.networkCheck = "match" /\ s.fresh = TRUE
  BY DEF buildAppSnapshot
<1>2. s.hasLockedCollateral <=> m \in joined
  <2>1. CollateralDue > 0
    BY ConfigAssumption DEF CollateralDue, COLLATERAL_MULTIPLIER
  <2>2. joined \subseteq MemberSet
    BY DEF IndInv, TypeOK
  <2>3. /\ DOMAIN d.row = MemberSet /\ CollateralDue \in Int
        /\ \A x \in MemberSet :
             d.row[x].collateral = IF x \in joined THEN CollateralDue ELSE 0
    BY ConfigAssumption DEF IsUpToDate, CollateralDue, COLLATERAL_MULTIPLIER
  <2>4. m \in MemberSet => (d.row[m].collateral > 0 <=> m \in joined)
    BY <2>1, <2>3
  <2> QED
    BY <1>1, <2>2, <2>3, <2>4
<1>3. status = "Active" =>
        (s.hasContributedCurrentRound <=> m \in contributed[round.round_index])
  <2>1. status = "Active" =>
          (HasContributed(d, m) <=> m \in contributed[round.round_index])
    BY DEF HasContributed, IsUpToDate
  <2> QED
    BY <1>1, <2>1
<1>4. status = "Active" => s.contributionsReceived = round.contributions_received
  <2>1. ASSUME status = "Active"
        PROVE  ContributionsReceived(d) = Cardinality(contributed[round.round_index])
    <3>1. PICK now : now = d.currentRound
      OBVIOUS
    <3>2. now # {} /\ \A r \in now : r.contributions = contributed[round.round_index]
      BY <2>1, <3>1 DEF IsUpToDate
    <3>3. PICK r : r = CHOOSE x \in now : TRUE
      OBVIOUS
    <3>4. r \in now
      BY <3>2, <3>3
    <3>5. ContributionsReceived(d) = Cardinality(r.contributions)
      BY <3>1, <3>2, <3>3 DEF ContributionsReceived
    <3> QED
      BY <3>2, <3>4, <3>5
  <2> QED
    BY <1>1, <2>1 DEF IndInv, TallyMatchesRecords
<1>5. /\ s.status = RowStatus /\ s.deadlineLedger = deadline
      /\ s.latestLedger = ledger /\ s.memberAddresses = N /\ ledger # Null
  <2>1. ledger \in Nat
    BY DEF IndInv, TypeOK
  <2>2. ledger # Null
    BY <2>1 DEF Null, Sdk!Null
  <2> QED
    BY <1>1, <2>2 DEF IsUpToDate
<1>6. /\ RowStatus = "Active" <=> status = "Active"
      /\ RowStatus \in {"Completed", "Cancelled", "Closed"}
           <=> status \in {"Completed", "Cancelled"}
  <2>1. status # "Closed"
    BY DEF IndInv, TypeOK, CircleStatus
  <2> QED
    BY <2>1 DEF ClosedIsOver, RowStatus
<1>7. PICK net \in {"match", "mismatch"} : net = "match"
  OBVIOUS
<1>8. /\ App!computeActionEligibility("join", s) =
           IF s.status # "Pending" THEN "wrong_status"
           ELSE IF s.hasLockedCollateral THEN "already_joined" ELSE "allowed"
      /\ App!computeActionEligibility("contribute", s) =
           IF s.status # "Active" THEN "wrong_status"
           ELSE IF /\ s.deadlineLedger # Null /\ s.latestLedger # Null
                   /\ s.latestLedger > s.deadlineLedger THEN "deadline_passed"
           ELSE IF s.hasContributedCurrentRound THEN "already_contributed"
           ELSE "allowed"
      /\ App!computeActionEligibility("payout", s) =
           IF s.status # "Active" THEN "wrong_status"
           ELSE IF s.contributionsReceived < s.memberAddresses
                  THEN "round_not_complete" ELSE "allowed"
      /\ App!computeActionEligibility("default", s) =
           IF s.status # "Active" THEN "wrong_status"
           ELSE IF \/ ~(s.deadlineLedger # Null /\ s.latestLedger # Null)
                   \/ s.latestLedger <= s.deadlineLedger
                  THEN "deadline_not_passed"
           ELSE IF s.hasContributedCurrentRound THEN "already_contributed"
           ELSE "allowed"
      /\ App!computeActionEligibility("close", s) =
           IF s.status \notin {"Completed", "Cancelled", "Closed"}
             THEN "wrong_status" ELSE "allowed"
  BY <1>1, <1>7, AppVerdict
<1> QED
  BY <1>2, <1>3, <1>4, <1>5, <1>6, <1>8

\* Nothing that the mirror follows freezes anybody's tokens.
NobodyFrozen == frozen = {}

\* What is behind a run of the page.
PageInv == Complete /\ PenaltyLedger /\ EventInv /\ TruthInv /\ NobodyFrozen

\* Neither an invocation nor a delivery freezes anybody.
LEMMA NobodyFrozenStep == NobodyFrozen /\ [EventNext]_allVars => NobodyFrozen'
<1> SUFFICES ASSUME [EventNext]_allVars PROVE UNCHANGED frozen
  BY DEF NobodyFrozen
<1>1. CASE Invocation
  BY <1>1 DEF Invocation, initialize, join, cancel, contribute, mark_default, close, pause,
     resume, payout, settle_round, safe_transfer_in, safe_transfer_out, PayPot,
     ReleaseCollateral, Penalise, SettleAndAdvance, tokenVars
<1>2. CASE Quiet
  BY <1>2 DEF Quiet, AdvanceLedger, add_authorized_caller, tokenVars
<1>3. CASE Ingest \/ IngestLosing \/ UNCHANGED allVars
  BY <1>3 DEF Ingest, IngestLosing, allVars, vars, tokenVars
<1> QED
  BY <1>1, <1>2, <1>3 DEF EventNext

\* The contract, the tables and what they tell, along a run of the page.
LEMMA PageInvariance == PageSpec => [](IndInv /\ PageInv)
<1>1. PageInit => EventInit
  BY DEF PageInit
<1>2. [PageNext]_pageVars => [EventNext]_allVars
  BY DEF PageNext, pageVars
<1>3. PageSpec => EventSpec
  BY <1>1, <1>2, PTL DEF PageSpec, EventSpec
<1>4. EventSpec => []NobodyFrozen
  <2>1. EventInit => NobodyFrozen
    BY DEF EventInit, Init, NobodyFrozen
  <2> QED
    BY <2>1, NobodyFrozenStep, PTL DEF EventSpec
<1>5. EventSpec => Spec
  <2>1. EventInit => Init
    BY DEF EventInit
  <2> QED
    BY <2>1, EventStepIsStep, PTL DEF EventSpec, Spec
<1>6. Spec => []Complete
  BY CompleteAlways
<1> QED
  BY <1>3, <1>4, <1>5, <1>6, EventInvariance, TruthInvariance, LedgerOfPenalties, PTL
  DEF PageInv

-----------------------------------------------------------------------------

\* The round that is being contributed to, and who owes it.
LEMMA RoundFacts ==
  ASSUME IndInv, PenaltyLedger
  PROVE  /\ round.contributions_received \in Nat /\ N \in Nat
         /\ round.contributions_received < N \/ round.contributions_received = N
         /\ round.deadline_ledger \in Nat /\ ledger \in Nat
         /\ \A m \in MemberSet : ~(defaults[m] > 0) => m \notin defaulted[round.round_index]
<1>1. /\ round.round_index \in Rounds /\ contributed[round.round_index] \subseteq MemberSet
      /\ round.contributions_received \in Nat /\ N \in Nat
      /\ round.deadline_ledger \in Nat /\ ledger \in Nat
  BY RotationFacts DEF IndInv, TypeOK, RoundState
<1>2. Cardinality(contributed[round.round_index]) <= N
  BY <1>1, MembersFinite, FS_Subset
<1>3. ASSUME NEW m \in MemberSet, m \in defaulted[round.round_index]
      PROVE  defaults[m] > 0
  <2>1. PICK S : S = {r \in Rounds : m \in defaulted[r]}
    OBVIOUS
  <2>2. IsFiniteSet(S) /\ S # {}
    <3>1. IsFiniteSet(Rounds)
      BY RotationFacts, FS_Interval DEF Rounds
    <3> QED
      BY <1>1, <1>3, <2>1, <3>1, FS_Subset
  <2>3. Cardinality(S) \in Nat /\ Cardinality(S) # 0
    BY <2>2, FS_CardinalityType, FS_EmptySet
  <2>4. defaults[m] = Cardinality(S)
    BY <2>1 DEF PenaltyLedger
  <2> QED
    BY <2>3, <2>4
<1> QED
  BY <1>1, <1>2, <1>3 DEF IndInv, TallyMatchesRecords

\* On caught-up tables the two verdicts coincide, gate by gate.
LEMMA MirrorSuffices == IndInv /\ PageInv => GatesMirrorSdk
<1> SUFFICES ASSUME IndInv, PageInv, UpToDate
             PROVE
    LET d == WithDeadline(CurrentPage)
    IN  /\ \A w \in MemberSet : \A action \in {"join", "contribute", "payout",
                                               "default", "close"} :
             LET app == App!computeActionEligibility(action,
                          buildAppSnapshot(d, w, "match"))
                 sdk == Sdk!computeActionEligibility(action, SdkSnapshot,
                                                     SdkOptions(w))
             IN  /\ (app = "allowed") <=> (sdk = "allowed")
                 /\ action # "default" => app = sdk
        /\ status = "Active" =>
             (computeDeadlineDisplay(d) = "Payout overdue") = deadline_passed
        /\ \A i \in 0..(N - 1) :
             (MarkDefaultOffered(d, i, "match") /\ ~paused) =>
               Accepts("default", members[i + 1])
  BY DEF GatesMirrorSdk
<1>1. PICK d : d = WithDeadline(CurrentPage)
  OBVIOUS
<1>2. PICK deadline : deadline = round.deadline_ledger
  OBVIOUS
<1>3. IsUpToDate(d, deadline)
  BY <1>1, <1>2, PageIsUpToDate DEF PageInv, Complete, TruthInv
<1>4. /\ round.contributions_received \in Nat /\ N \in Nat
      /\ deadline \in Nat /\ ledger \in Nat
      /\ \A m \in MemberSet : ~(defaults[m] > 0) => m \notin defaulted[round.round_index]
  BY <1>2, RoundFacts DEF PageInv
<1>5. deadline # Null /\ (ledger > deadline <=> deadline_passed)
      /\ (ledger <= deadline <=> ~deadline_passed)
  BY <1>2, <1>4 DEF Null, Sdk!Null, deadline_passed
<1>6. RowStatus = "Pending" <=> status = "Pending"
  BY DEF RowStatus, PageInv, Complete, ClosedIsOver
<1>7. ASSUME NEW m \in MemberSet
      PROVE  LET App1(action) == App!computeActionEligibility(action,
                                   buildAppSnapshot(d, m, "match"))
                 Sdk1(action) == Sdk!computeActionEligibility(action, SdkSnapshot,
                                                              SdkOptions(m))
             IN  /\ App1("join") = Sdk1("join")
                 /\ App1("contribute") = Sdk1("contribute")
                 /\ App1("payout") = Sdk1("payout")
                 /\ App1("close") = Sdk1("close")
                 /\ App1("default") = "allowed" <=> Sdk1("default") = "allowed"
                 /\ App1("default") = "allowed" =>
                      m \notin contributed[round.round_index]
  <2>1. PICK s : s = buildAppSnapshot(d, m, "match")
    OBVIOUS
  <2>2. PICK o, t : o = SdkOptions(m) /\ t = SdkSnapshot
    OBVIOUS
  <2>3. /\ App!computeActionEligibility("join", s) =
              IF status # "Pending" THEN "wrong_status"
              ELSE IF m \in joined THEN "already_joined" ELSE "allowed"
        /\ App!computeActionEligibility("contribute", s) =
              IF status # "Active" THEN "wrong_status"
              ELSE IF deadline_passed THEN "deadline_passed"
              ELSE IF m \in contributed[round.round_index]
                     THEN "already_contributed" ELSE "allowed"
        /\ App!computeActionEligibility("payout", s) =
              IF status # "Active" THEN "wrong_status"
              ELSE IF round.contributions_received < N
                     THEN "round_not_complete" ELSE "allowed"
        /\ App!computeActionEligibility("default", s) =
              IF status # "Active" THEN "wrong_status"
              ELSE IF ~deadline_passed THEN "deadline_not_passed"
              ELSE IF m \in contributed[round.round_index]
                     THEN "already_contributed" ELSE "allowed"
        /\ App!computeActionEligibility("close", s) =
              IF status \notin {"Completed", "Cancelled"} THEN "wrong_status"
              ELSE "allowed"
    BY <1>3, <1>5, <1>6, <2>1, AppOverContract DEF PageInv, Complete
  <2>4. /\ Sdk!computeActionEligibility("join", t, o) =
              IF status # "Pending" THEN "wrong_status"
              ELSE IF m \in joined THEN "already_joined" ELSE "allowed"
        /\ Sdk!computeActionEligibility("contribute", t, o) =
              IF status # "Active" THEN "wrong_status"
              ELSE IF deadline_passed THEN "deadline_passed"
              ELSE IF m \in contributed[round.round_index]
                     THEN "already_contributed" ELSE "allowed"
        /\ Sdk!computeActionEligibility("payout", t, o) =
              IF status # "Active" THEN "wrong_status"
              ELSE IF round.contributions_received < N
                     THEN "round_not_complete" ELSE "allowed"
        /\ Sdk!computeActionEligibility("default", t, o) =
              IF status # "Active" THEN "wrong_status"
              ELSE IF m \in contributed[round.round_index]
                     THEN "already_contributed"
              ELSE IF ~deadline_passed THEN "deadline_not_passed" ELSE "allowed"
        /\ Sdk!computeActionEligibility("close", t, o) =
              IF status \notin {"Completed", "Cancelled"}
                THEN "wrong_status" ELSE "allowed"
    BY <2>2, SdkVerdict DEF IndInv
  <2> QED
    BY <2>1, <2>2, <2>3, <2>4
<1>8. ASSUME status = "Active"
      PROVE  (computeDeadlineDisplay(d) = "Payout overdue") = deadline_passed
  <2>1. d.deadline_ledger = deadline /\ d.latestLedger = ledger
    BY <1>3 DEF IsUpToDate
  <2>2. deadlinePassed(d) <=> deadline_passed
    BY <1>5, <2>1 DEF deadlinePassed
  <2>3. CASE deadlinePassed(d)
    <3>1. computeDeadlineDisplay(d) = "Payout overdue"
      BY <1>5, <2>1, <2>3 DEF computeDeadlineDisplay
    <3>2. deadline_passed = TRUE
      BY <2>2, <2>3 DEF deadline_passed
    <3> QED
      BY <3>1, <3>2
  <2>4. CASE ~deadlinePassed(d)
    <3>1. computeDeadlineDisplay(d) = "Time remaining"
      BY <1>5, <2>1, <2>4 DEF computeDeadlineDisplay
    <3>2. deadline_passed = FALSE
      BY <2>2, <2>4 DEF deadline_passed
    <3>3. computeDeadlineDisplay(d) # "Payout overdue"
      BY <3>1
    <3> QED
      BY <3>2, <3>3
  <2> QED
    BY <2>3, <2>4
<1>9. ASSUME NEW i \in 0..(N - 1), MarkDefaultOffered(d, i, "match"), ~paused
      PROVE  Accepts("default", members[i + 1])
  <2>1. PICK m \in MemberSet : m = members[i + 1] /\ m = d.members[i + 1]
    <3>1. i + 1 \in 1..N
      BY <1>4
    <3> QED
      BY <1>3, <3>1, RotationFacts DEF IsUpToDate
  <2>2. /\ getMemberContributionStatus(d, i) = "pending"
        /\ d.circle.status = "Active" /\ deadlinePassed(d)
        /\ Allowed("default", d, m, "match")
    BY <1>9, <2>1 DEF MarkDefaultOffered
  <2>3. status = "Active" /\ deadline_passed
    <3>1. RowStatus = "Active" /\ d.latestLedger > d.deadline_ledger
      BY <1>3, <2>2 DEF IsUpToDate, deadlinePassed
    <3> QED
      BY <1>3, <1>5, <3>1 DEF IsUpToDate, RowStatus
  <2>4. m \notin contributed[round.round_index]
    BY <1>7, <2>2 DEF Allowed
  <2>5. ~(d.row[m].defaults > 0)
    BY <2>1, <2>2 DEF getMemberContributionStatus
  <2>6. m \notin defaulted[round.round_index]
    BY <1>3, <1>4, <2>5 DEF IsUpToDate
  <2> QED
    BY <1>9, <2>1, <2>3, <2>4, <2>6, AcceptanceIs DEF PageInv, Complete, NobodyFrozen
<1> QED
  BY <1>1, <1>7, <1>8, <1>9

\* The application's gates, had they the deadline, are the SDK's over a contract
\* that the indexer has caught up with, in every state that it can reach; the
\* deadline shown is the contract's and no default is offered that it would refuse.
THEOREM GatesAreTheSdks == PageSpec => []GatesMirrorSdk
  BY MirrorSuffices, PageInvariance, PTL

\* The page's table of the statuses in which an action is at hand.
LEMMA StatusesFor ==
  /\ DOMAIN App!statusesForAction =
       {"join", "contribute", "payout", "default", "close", "cancel"}
  /\ App!statusesForAction["join"] = {"Pending"}
  /\ App!statusesForAction["contribute"] = {"Active"}
  /\ App!statusesForAction["payout"] = {"Active"}
  /\ App!statusesForAction["default"] = {"Active"}
  /\ App!statusesForAction["close"] = {"Completed", "Cancelled"}
  /\ App!statusesForAction["cancel"] = {"Pending"}
  BY DEF App!statusesForAction

\* On caught-up tables each button is there when the contract would take the call.
LEMMA ButtonsMatchSuffices == IndInv /\ PageInv => ButtonsMatch
<1> SUFFICES ASSUME IndInv, PageInv, UpToDate, NEW w \in Callers
             PROVE
    LET d == CurrentPage
        Has(amount) == w \in MemberSet /\ wallet[w] >= amount
    IN  /\ ~paused =>
             /\ JoinOffered(d, w, "match") /\ Has(CollateralDue)
                  <=> Accepts("join", w)
             /\ registration = "authorized" =>
                  (PayoutOffered(d, w, "match") <=> Accepts("payout", w))
             /\ CloseOffered(d, w, "match") /\ w \in MemberSet \cup {Admin}
                  <=> Accepts("close", w)
             /\ Accepts("contribute", w) => ContributeOffered(d, w, "match")
             /\ ContributeOffered(d, w, "match") /\ Has(round_amount) =>
                  Accepts("contribute", w) \/ deadline_passed
        /\ \A action \in DOMAIN App!statusesForAction :
             Accepts(action, w) =>
               RowStatus \in App!statusesForAction[action]
  BY DEF ButtonsMatch
<1>1. PICK d : d = CurrentPage
  OBVIOUS
<1>2. IsUpToDate(d, Null)
  BY <1>1, PageIsUpToDate DEF PageInv, Complete, TruthInv
<1>3. /\ round.contributions_received \in Nat /\ N \in Nat
      /\ round.contributions_received < N \/ round.contributions_received = N
  BY RoundFacts DEF PageInv
<1>4. /\ RowStatus = "Pending" <=> status = "Pending"
      /\ RowStatus = "Active" <=> status = "Active"
      /\ RowStatus \in {"Completed", "Cancelled"}
           <=> ~closed /\ status \in {"Completed", "Cancelled"}
  <2>1. status # "Closed"
    BY DEF IndInv, TypeOK, CircleStatus
  <2> QED
    BY <2>1 DEF RowStatus, PageInv, Complete, ClosedIsOver
<1>5. PICK s : s = buildAppSnapshot(d, w, "match")
  OBVIOUS
<1>6. /\ Allowed("join", d, w, "match") <=> status = "Pending" /\ w \notin joined
      /\ Allowed("contribute", d, w, "match") <=>
           status = "Active" /\ w \notin contributed[round.round_index]
      /\ Allowed("payout", d, w, "match") <=>
           status = "Active" /\ round.contributions_received = N
      /\ Allowed("close", d, w, "match") <=> status \in {"Completed", "Cancelled"}
  <2>1. PICK null : null = Null
    OBVIOUS
  <2>2. IsUpToDate(d, null)
    BY <1>2, <2>1
  <2>3. /\ App!computeActionEligibility("join", s) =
              IF RowStatus # "Pending" THEN "wrong_status"
              ELSE IF w \in joined THEN "already_joined" ELSE "allowed"
        /\ App!computeActionEligibility("contribute", s) =
              IF status # "Active" THEN "wrong_status"
              ELSE IF null # Null /\ ledger > null THEN "deadline_passed"
              ELSE IF w \in contributed[round.round_index]
                     THEN "already_contributed" ELSE "allowed"
        /\ App!computeActionEligibility("payout", s) =
              IF status # "Active" THEN "wrong_status"
              ELSE IF round.contributions_received < N
                     THEN "round_not_complete" ELSE "allowed"
        /\ App!computeActionEligibility("close", s) =
              IF status \notin {"Completed", "Cancelled"} THEN "wrong_status"
              ELSE "allowed"
    BY <1>5, <2>2, AppOverContract DEF PageInv, Complete
  <2>4. \A action : Allowed(action, d, w, "match") <=>
                      App!computeActionEligibility(action, s) = "allowed"
    BY <1>5 DEF Allowed
  <2> QED
    BY <1>3, <1>4, <2>1, <2>3, <2>4
<1>7. computeDataReadiness(d) = "ready" /\ d.members # <<>>
  <2>1. d.members # <<>>
    <3>1. Len(d.members) = N /\ N # 0
      BY <1>2, RotationFacts DEF IsUpToDate
    <3> QED
      BY <3>1
  <2>2. ~(d.circle.status = "Active" /\ d.currentRound = {})
    BY <1>2, <1>4 DEF IsUpToDate
  <2> QED
    BY <2>1, <2>2 DEF computeDataReadiness
<1>8. /\ w \in DOMAIN d.row <=> w \in MemberSet
      /\ w \in MemberSet => (d.row[w].collateral = 0 <=> w \notin joined)
      /\ joined \subseteq MemberSet /\ d.circle.status = RowStatus
  <2>1. CollateralDue > 0 /\ CollateralDue \in Int
    BY ConfigAssumption DEF CollateralDue, COLLATERAL_MULTIPLIER
  <2>2. /\ DOMAIN d.row = MemberSet /\ d.circle.status = RowStatus
        /\ \A x \in MemberSet :
             d.row[x].collateral = IF x \in joined THEN CollateralDue ELSE 0
    BY <1>2 DEF IsUpToDate
  <2>3. joined \subseteq MemberSet
    BY DEF IndInv, TypeOK
  <2> QED
    BY <2>1, <2>2, <2>3
<1>9. status = "Active" => (HasContributed(d, w) <=> w \in contributed[round.round_index])
  BY <1>2 DEF HasContributed, IsUpToDate
<1>10. /\ JoinOffered(d, w, "match") <=>
            status = "Pending" /\ w \in MemberSet /\ w \notin joined
       /\ ContributeOffered(d, w, "match") <=>
            /\ status = "Active" /\ w \in MemberSet
            /\ w \notin contributed[round.round_index]
       /\ PayoutOffered(d, w, "match") <=>
            status = "Active" /\ round.contributions_received = N
       /\ CloseOffered(d, w, "match") <=>
            ~closed /\ status \in {"Completed", "Cancelled"}
  BY <1>4, <1>6, <1>7, <1>8, <1>9
  DEF JoinOffered, ContributeOffered, PayoutOffered, CloseOffered
<1>11. frozen = {} /\ PenaltyLedger /\ ClosedIsOver
  BY DEF PageInv, Complete, NobodyFrozen
<1>12. ASSUME ~paused
       PROVE  /\ JoinOffered(d, w, "match") /\ w \in MemberSet /\ wallet[w] >= CollateralDue
                   <=> Accepts("join", w)
              /\ registration = "authorized" =>
                   (PayoutOffered(d, w, "match") <=> Accepts("payout", w))
              /\ CloseOffered(d, w, "match") /\ w \in MemberSet \cup {Admin}
                   <=> Accepts("close", w)
              /\ Accepts("contribute", w) => ContributeOffered(d, w, "match")
              /\ (ContributeOffered(d, w, "match") /\ w \in MemberSet
                    /\ wallet[w] >= round_amount) =>
                   Accepts("contribute", w) \/ deadline_passed
  BY <1>10, <1>11, <1>12, AcceptanceIs
<1>13. ASSUME NEW action \in DOMAIN App!statusesForAction, Accepts(action, w)
       PROVE  RowStatus \in App!statusesForAction[action]
  <2>1. /\ Accepts("join", w) => RowStatus = "Pending"
        /\ Accepts("cancel", w) => RowStatus = "Pending"
        /\ Accepts("contribute", w) => RowStatus = "Active"
        /\ Accepts("payout", w) => RowStatus = "Active"
        /\ Accepts("default", w) => RowStatus = "Active"
        /\ Accepts("close", w) => RowStatus \in {"Completed", "Cancelled"}
    BY <1>4, <1>11, AcceptanceIs
  <2> QED
    BY <1>13, <2>1, StatusesFor
<1> QED
  BY <1>1, <1>12, <1>13

-----------------------------------------------------------------------------
(* Whatever is lost: the round that the tables show.                       *)

\* The circle's member rows are all there or none is.
MembersIn(t) ==
  DOMAIN t.circle_members \in {{}, {<<CircleAddress, m>> : m \in MemberSet}}

HasCircle(t) == CircleAddress \in DOMAIN t.circles

\* No payout beyond the first r rounds.
PaidUpTo(t, r) ==
  /\ IsTables(t) /\ MembersIn(t)
  /\ PaidIn(t) \subseteq 0..(r - 1)
  /\ HasCircle(t) => {"status", "current_round"} \subseteq DOMAIN RowIn(t)

\* A row that says Active, and any before the first settlement, is at round r.
OnTime(t, r) ==
  (HasCircle(t) /\ (RowIn(t).status = "Active" \/ r = 0)) => RowIn(t).current_round = r

\* An event published before the round after r, and the events each of which
\* takes the row there from the round before.
UpToRound(e, r) ==
  /\ e.name \in Projected \cup Ignored
  /\ e.name \notin {"score_updated", "increment"} \cup Ignored => e.circle = CircleAddress
  /\ e.name = "initialized" => e.members = members
  /\ e.name = "active" => r = 0
  /\ e.name = "completed" => r # 0
  /\ e.name = "round_started" => e.round = r
  /\ e.name = "payout" => e.round + 1 = r
  /\ e.name \in {"payout", "exceptional_settlement"} => e.round \in 0..(r - 1)

Turns(e) == e.name \in {"payout", "round_started", "completed"}

\* A change to the circle's row and to nothing else.
LEMMA RowChanged ==
  ASSUME NEW t, IsTables(t), HasCircle(t), NEW row, NEW u,
         u = [t EXCEPT !.circles[CircleAddress] = row]
  PROVE  /\ IsTables(u) /\ HasCircle(u) /\ RowIn(u) = row
         /\ u.circle_members = t.circle_members /\ u.payouts = t.payouts
<1>1. PICK c : c = [t.circles EXCEPT ![CircleAddress] = row]
  OBVIOUS
<1>2. c[CircleAddress] = row /\ CircleAddress \in DOMAIN c
  BY <1>1 DEF HasCircle
<1>3. u = [t EXCEPT !.circles = c]
  BY <1>1
<1>4. IsTables(u) /\ u.circles = c /\ u.circle_members = t.circle_members
      /\ u.payouts = t.payouts
  BY <1>3 DEF IsTables
<1> QED
  BY <1>2, <1>4 DEF HasCircle, RowIn

\* What a handler may do to the row, as far as its round goes.
Keeps(t, u, e, r) ==
  /\ IsTables(u) /\ MembersIn(u) /\ PaidIn(u) \subseteq 0..(r - 1)
  /\ HasCircle(u) => {"status", "current_round"} \subseteq DOMAIN RowIn(u)
  /\ (OnTime(t, r) \/ Turns(e)) => OnTime(u, r)

\* A handler that leaves the row where it is.
LEMMA SameCircle ==
  ASSUME NEW r \in Nat, NEW t, PaidUpTo(t, r), NEW u, NEW e, ~Turns(e),
         IsTables(u), u.circles = t.circles, PaidIn(u) \subseteq 0..(r - 1),
         DOMAIN u.circle_members = DOMAIN t.circle_members
  PROVE  Keeps(t, u, e, r)
BY DEF Keeps, PaidUpTo, MembersIn, OnTime, HasCircle, RowIn

\* A handler that changes the row.
LEMMA NewCircleRow ==
  ASSUME NEW r \in Nat, NEW t, PaidUpTo(t, r), NEW u, NEW e, IsTables(u), MembersIn(u),
         PaidIn(u) \subseteq 0..(r - 1),
         HasCircle(u), {"status", "current_round"} \subseteq DOMAIN RowIn(u),
         \/ RowIn(u).current_round = r
         \/ RowIn(u).status # "Active" /\ r # 0
         \/ /\ ~Turns(e) /\ HasCircle(t)
            /\ RowIn(u).current_round = RowIn(t).current_round
            /\ r = 0 \/ (RowIn(u).status = "Active" => RowIn(t).status = "Active")
  PROVE  Keeps(t, u, e, r)
BY DEF Keeps, OnTime

\* The handlers that change a column of the row, if there is one.
LEMMA UpdateKeeps ==
  ASSUME NEW r \in Nat, NEW t, PaidUpTo(t, r), NEW e, NEW row, NEW u,
         HasCircle(t) => u = [t EXCEPT !.circles[CircleAddress] = row],
         ~HasCircle(t) => u = t,
         HasCircle(t) =>
           /\ {"status", "current_round"} \subseteq DOMAIN row
           /\ \/ row.current_round = r
              \/ row.status # "Active" /\ r # 0
              \/ /\ ~Turns(e)
                 /\ row.current_round = RowIn(t).current_round
                 /\ r = 0 \/ (row.status = "Active" => RowIn(t).status = "Active")
  PROVE  Keeps(t, u, e, r)
<1>1. CASE HasCircle(t)
  <2>1. /\ IsTables(u) /\ HasCircle(u) /\ RowIn(u) = row
        /\ u.circle_members = t.circle_members /\ u.payouts = t.payouts
    BY <1>1, RowChanged DEF PaidUpTo
  <2>2. MembersIn(u) /\ PaidIn(u) \subseteq 0..(r - 1)
    BY <2>1 DEF PaidUpTo, MembersIn, PaidIn
  <2> QED
    BY <1>1, <2>1, <2>2, NewCircleRow
<1>2. CASE ~HasCircle(t)
  BY <1>2 DEF Keeps, PaidUpTo, OnTime
<1> QED
  BY <1>1, <1>2

\* The two events that may come first.
LEMMA BeginningKeeps ==
  ASSUME NEW r \in Nat, NEW t, PaidUpTo(t, r), NEW e, UpToRound(e, r),
         e.name \in {"circle_created", "initialized"}
  PROVE  Keeps(t, Handle(t, e), e, r)
<1>1. e.circle = CircleAddress /\ ~Turns(e)
  BY DEF UpToRound, Turns, Ignored
<1>2. ASSUME NEW creator, NEW amount, NEW count, NEW row, row = NewCircle(creator, amount, count)
      PROVE  {"status", "current_round"} \subseteq DOMAIN row
             /\ row.status = "Pending" /\ row.current_round = 0
  BY <1>2 DEF NewCircle
<1>3. CASE e.name = "circle_created"
  <2>1. Handle(t, e) = handleFactoryCircleCreated(t, e)
    BY <1>3 DEF Handle
  <2>2. CASE HasCircle(t)
    <3>1. CASE RowIn(t).creator = Nobody
      <4>1. PICK row : row = [RowIn(t) EXCEPT !.creator = e.creator]
        OBVIOUS
      <4>2. Handle(t, e) = [t EXCEPT !.circles[CircleAddress] = row]
        BY <1>1, <2>1, <2>2, <3>1, <4>1
        DEF handleFactoryCircleCreated, Nobody, RowIn, HasCircle
      <4>3. {"status", "current_round"} \subseteq DOMAIN RowIn(t)
        BY <2>2 DEF PaidUpTo
      <4>4. /\ {"status", "current_round"} \subseteq DOMAIN row
            /\ row.status = RowIn(t).status /\ row.current_round = RowIn(t).current_round
        BY <4>1, <4>3
      <4> QED
        BY <1>1, <2>2, <4>2, <4>4, UpdateKeeps
    <3>2. CASE RowIn(t).creator # Nobody
      <4>1. Handle(t, e) = t
        BY <1>1, <2>1, <2>2, <3>2 DEF handleFactoryCircleCreated, Nobody, RowIn, HasCircle
      <4> QED
        BY <1>1, <4>1, SameCircle DEF PaidUpTo
    <3> QED
      BY <3>1, <3>2
  <2>3. CASE ~HasCircle(t)
    <3>1. PICK row : row = NewCircle(e.creator, 0, 0)
      OBVIOUS
    <3>2. PICK f : f = Upsert(t.circles, CircleAddress, row)
      OBVIOUS
    <3>3. f[CircleAddress] = row /\ CircleAddress \in DOMAIN f
      BY <3>2 DEF Upsert
    <3>4. PICK u : u = [t EXCEPT !.circles = f]
      OBVIOUS
    <3>5. Handle(t, e) = u
      BY <1>1, <2>1, <2>3, <3>1, <3>2, <3>4 DEF handleFactoryCircleCreated, HasCircle
    <3>6. IsTables(u) /\ u.circles = f /\ u.circle_members = t.circle_members
          /\ u.payouts = t.payouts
      BY <3>4 DEF IsTables, PaidUpTo
    <3>7. HasCircle(u) /\ RowIn(u) = row
      BY <3>3, <3>6 DEF HasCircle, RowIn
    <3>8. MembersIn(u) /\ PaidIn(u) \subseteq 0..(r - 1)
      BY <3>6 DEF PaidUpTo, MembersIn, PaidIn
    <3> QED
      BY <1>2, <3>1, <3>5, <3>6, <3>7, <3>8, NewCircleRow
  <2> QED
    BY <2>2, <2>3
<1>4. CASE e.name = "initialized"
  <2>1. Handle(t, e) = handleCircleInitialized(t, e)
    BY <1>4 DEF Handle
  <2>2. e.members = members
    BY <1>4 DEF UpToRound
  <2> DEFINE slot == [k \in {<<e.circle, m>> : m \in Range(e.members)} |->
                 [payout_order |-> (CHOOSE i \in DOMAIN e.members :
                                      e.members[i] = k[2]) - 1,
                  join_order |-> 0, collateral |-> 0, defaults |-> 0]]
             row == IF e.circle \in DOMAIN t.circles
                      THEN [t.circles[e.circle] EXCEPT !.round_amount = e.round_amount,
                                                       !.member_count = Len(e.members)]
                      ELSE NewCircle("", e.round_amount, Len(e.members))
             f == Upsert(t.circles, e.circle, row)
             g == [k \in DOMAIN t.circle_members \cup DOMAIN slot |->
                     IF k \in DOMAIN t.circle_members THEN t.circle_members[k]
                                                      ELSE slot[k]]
  <2>7. Handle(t, e) = [t EXCEPT !.circles = f, !.circle_members = g]
    BY <2>1 DEF handleCircleInitialized
  <2>4. row = IF HasCircle(t)
                THEN [RowIn(t) EXCEPT !.round_amount = e.round_amount,
                                      !.member_count = Len(members)]
                ELSE NewCircle(Nobody, e.round_amount, Len(members))
    BY <1>1, <2>2 DEF HasCircle, RowIn, Nobody
  <2>3. DOMAIN slot = {<<CircleAddress, m>> : m \in Range(members)}
    BY <1>1, <2>2
  <2> HIDE DEF slot, row
  <2>6. DOMAIN g = DOMAIN t.circle_members \cup DOMAIN slot
    OBVIOUS
  <2>8. f[CircleAddress] = row /\ CircleAddress \in DOMAIN f
    BY <1>1 DEF Upsert
  <2> HIDE DEF f, g
  <2>9. DOMAIN slot = {<<CircleAddress, m>> : m \in MemberSet}
    <3>1. Range(members) = MemberSet
      BY RotationFacts DEF Range, MemberSet, N
    <3> QED
      BY <2>3, <3>1
  <2>10. DOMAIN g = {<<CircleAddress, m>> : m \in MemberSet}
    BY <2>6, <2>9 DEF PaidUpTo, MembersIn
  <2>11. PICK u : u = [t EXCEPT !.circles = f, !.circle_members = g]
    OBVIOUS
  <2>12. IsTables(u) /\ u.circles = f /\ u.circle_members = g /\ u.payouts = t.payouts
    BY <2>11 DEF IsTables, PaidUpTo
  <2>13. HasCircle(u) /\ RowIn(u) = row
    BY <2>8, <2>12 DEF HasCircle, RowIn
  <2>14. MembersIn(u) /\ PaidIn(u) \subseteq 0..(r - 1)
    BY <2>10, <2>12 DEF PaidUpTo, MembersIn, PaidIn
  <2>15. CASE HasCircle(t)
    <3>1. {"status", "current_round"} \subseteq DOMAIN RowIn(t)
      BY <2>15 DEF PaidUpTo
    <3>2. row = [RowIn(t) EXCEPT !.round_amount = e.round_amount, !.member_count = Len(members)]
      BY <2>4, <2>15
    <3>3. /\ {"status", "current_round"} \subseteq DOMAIN row
          /\ row.status = RowIn(t).status /\ row.current_round = RowIn(t).current_round
      BY <3>1, <3>2
    <3> QED
      BY <1>1, <2>7, <2>11, <2>12, <2>13, <2>14, <2>15, <3>3, NewCircleRow
  <2>16. CASE ~HasCircle(t)
    <3>1. row = NewCircle(Nobody, e.round_amount, Len(members))
      BY <2>4, <2>16
    <3> QED
      BY <1>2, <2>7, <2>11, <2>12, <2>13, <2>14, <3>1, NewCircleRow
  <2> QED
    BY <2>15, <2>16
<1> QED
  BY <1>3, <1>4

\* The handlers that write a status, a round or the pause flag.
LEMMA ColumnsKeep ==
  ASSUME NEW r \in Nat, NEW t, PaidUpTo(t, r), NEW e, UpToRound(e, r),
         e.name \in {"active", "completed", "round_started", "paused", "resumed"}
  PROVE  Keeps(t, Handle(t, e), e, r)
<1>1. e.circle = CircleAddress
  BY DEF UpToRound, Ignored
<1>2. HasCircle(t) => {"status", "current_round"} \subseteq DOMAIN RowIn(t)
  BY DEF PaidUpTo
<1>3. ASSUME NEW row, NEW s, row = [RowIn(t) EXCEPT !.status = s], HasCircle(t)
      PROVE  /\ {"status", "current_round"} \subseteq DOMAIN row
             /\ row.status = s /\ row.current_round = RowIn(t).current_round
  BY <1>2, <1>3
<1>4. ASSUME NEW s PROVE SetStatus(t, e, s) =
        IF HasCircle(t) THEN [t EXCEPT !.circles[CircleAddress] =
                                [RowIn(t) EXCEPT !.status = s]] ELSE t
  BY <1>1 DEF SetStatus, UpdateCircle, HasCircle, RowIn
<1>5. CASE e.name = "active"
  <2>1. r = 0 /\ ~Turns(e)
    BY <1>5 DEF UpToRound, Turns
  <2>2. PICK row : row = [RowIn(t) EXCEPT !.status = "Active"]
    OBVIOUS
  <2>3. Handle(t, e) = IF HasCircle(t) THEN [t EXCEPT !.circles[CircleAddress] = row] ELSE t
    BY <1>4, <1>5, <2>2 DEF Handle, handleCircleActive
  <2> QED
    BY <1>3, <2>1, <2>2, <2>3, UpdateKeeps
<1>6. CASE e.name = "completed"
  <2>1. r # 0
    BY <1>6 DEF UpToRound
  <2>2. PICK row : row = [RowIn(t) EXCEPT !.status = "Completed"]
    OBVIOUS
  <2>3. Handle(t, e) = IF HasCircle(t) THEN [t EXCEPT !.circles[CircleAddress] = row] ELSE t
    BY <1>4, <1>6, <2>2 DEF Handle, handleCircleCompleted
  <2>4. HasCircle(t) => row.status # "Active"
                        /\ {"status", "current_round"} \subseteq DOMAIN row
    BY <1>3, <2>2
  <2> QED
    BY <2>1, <2>3, <2>4, UpdateKeeps
<1>7. CASE e.name = "round_started"
  <2>1. e.round = r
    BY <1>7 DEF UpToRound
  <2>2. PICK row : row = [RowIn(t) EXCEPT !.current_round = r]
    OBVIOUS
  <2>3. Handle(t, e) = IF HasCircle(t) THEN [t EXCEPT !.circles[CircleAddress] = row] ELSE t
    BY <1>1, <1>7, <2>1, <2>2
    DEF Handle, handleCircleRoundStarted, SetRound, UpdateCircle, HasCircle, RowIn
  <2>4. HasCircle(t) => row.current_round = r
                        /\ {"status", "current_round"} \subseteq DOMAIN row
    BY <1>2, <2>2
  <2> QED
    BY <2>3, <2>4, UpdateKeeps
<1>8. ASSUME NEW b, ~Turns(e),
             Handle(t, e) = IF HasCircle(t)
               THEN [t EXCEPT !.circles[CircleAddress] = [RowIn(t) EXCEPT !.paused = b]] ELSE t
      PROVE  Keeps(t, Handle(t, e), e, r)
  <2>1. PICK row : row = [RowIn(t) EXCEPT !.paused = b]
    OBVIOUS
  <2>2. HasCircle(t) => /\ {"status", "current_round"} \subseteq DOMAIN row
                        /\ row.status = RowIn(t).status
                        /\ row.current_round = RowIn(t).current_round
    BY <1>2, <2>1
  <2> QED
    BY <1>8, <2>1, <2>2, UpdateKeeps
<1>9. CASE e.name = "paused"
  <2>1. PICK b : b = TRUE
    OBVIOUS
  <2>2. Handle(t, e) = IF HasCircle(t)
          THEN [t EXCEPT !.circles[CircleAddress] = [RowIn(t) EXCEPT !.paused = b]] ELSE t
    BY <1>1, <1>9, <2>1 DEF Handle, handleCirclePaused, UpdateCircle, HasCircle, RowIn
  <2> QED
    BY <1>8, <1>9, <2>2 DEF Turns
<1>10. CASE e.name = "resumed"
  <2>1. PICK b : b = FALSE
    OBVIOUS
  <2>2. Handle(t, e) = IF HasCircle(t)
          THEN [t EXCEPT !.circles[CircleAddress] = [RowIn(t) EXCEPT !.paused = b]] ELSE t
    BY <1>1, <1>10, <2>1 DEF Handle, handleCircleResumed, UpdateCircle, HasCircle, RowIn
  <2> QED
    BY <1>8, <1>10, <2>2 DEF Turns
<1> QED
  BY <1>5, <1>6, <1>7, <1>9, <1>10

\* The handlers that end a circle.
LEMMA EndKeeps ==
  ASSUME NEW r \in Nat, NEW t, PaidUpTo(t, r), NEW e, UpToRound(e, r),
         e.name \in {"cancelled", "closed"}
  PROVE  Keeps(t, Handle(t, e), e, r)
<1>1. e.circle = CircleAddress /\ ~Turns(e)
  BY DEF UpToRound, Turns, Ignored
<1>2. HasCircle(t) => {"status", "current_round"} \subseteq DOMAIN RowIn(t)
  BY DEF PaidUpTo
<1>3. ASSUME NEW u, Keeps(t, u, e, r), NEW x, NEW y
      PROVE  Keeps(t, Audited(u, e, x, y), e, r)
  <2>1. PICK f : Audited(u, e, x, y) = [u EXCEPT !.circle_audit_events = f]
    BY DEF Audited
  <2>2. PICK w : w = [u EXCEPT !.circle_audit_events = f]
    OBVIOUS
  <2>3. IsTables(w) /\ w.circles = u.circles /\ w.circle_members = u.circle_members
        /\ w.payouts = u.payouts
    BY <1>3, <2>2 DEF IsTables, Keeps
  <2> QED
    BY <1>3, <2>1, <2>2, <2>3 DEF Keeps, MembersIn, OnTime, HasCircle, RowIn, PaidIn
<1>4. CASE e.name = "cancelled"
  <2>1. PICK row : row = [RowIn(t) EXCEPT !.status = "Cancelled"]
    OBVIOUS
  <2>2. PICK u : u = IF HasCircle(t) THEN [t EXCEPT !.circles[CircleAddress] = row] ELSE t
    OBVIOUS
  <2>3. HasCircle(t) => /\ row.status # "Active"
                        /\ row.current_round = RowIn(t).current_round
                        /\ {"status", "current_round"} \subseteq DOMAIN row
    BY <1>2, <2>1
  <2>4. Keeps(t, u, e, r)
    BY <1>1, <2>2, <2>3, UpdateKeeps
  <2>5. PICK x, y : x = 0 /\ y = Nobody
    OBVIOUS
  <2>6. Handle(t, e) = Audited(u, e, x, y)
    BY <1>1, <1>4, <2>1, <2>2, <2>5
    DEF Handle, handleCircleCancelled, SetStatus, UpdateCircle, HasCircle, RowIn, Nobody
  <2> QED
    BY <1>3, <2>4, <2>6
<1>5. CASE e.name = "closed"
  <2>1. PICK row : row = [RowIn(t) EXCEPT !.status = "Closed", !.total_released = e.amount,
                                          !.close_reason = e.reason]
    OBVIOUS
  <2>2. PICK u : u = IF HasCircle(t) THEN [t EXCEPT !.circles[CircleAddress] = row] ELSE t
    OBVIOUS
  <2>3. HasCircle(t) => /\ row.status # "Active"
                        /\ row.current_round = RowIn(t).current_round
                        /\ {"status", "current_round"} \subseteq DOMAIN row
    BY <1>2, <2>1
  <2>4. Keeps(t, u, e, r)
    BY <1>1, <2>2, <2>3, UpdateKeeps
  <2>5. Handle(t, e) = Audited(u, e, e.amount, e.reason)
    BY <1>1, <1>5, <2>1, <2>2
    DEF Handle, handleCircleClosed, UpdateCircle, HasCircle, RowIn
  <2> QED
    BY <1>3, <2>4, <2>5
<1> QED
  BY <1>4, <1>5

\* The handlers of payments, defaults and points.
LEMMA HistoryKeeps ==
  ASSUME NEW r \in Nat, NEW t, PaidUpTo(t, r), NEW e, UpToRound(e, r),
         e.name \in {"joined", "contributed", "default", "exceptional_settlement",
                     "score_updated", "increment"}
  PROVE  Keeps(t, Handle(t, e), e, r)
<1>1. ~Turns(e) /\ IsTables(t) /\ PaidIn(t) \subseteq 0..(r - 1)
  BY DEF Turns, PaidUpTo
<1>2. ASSUME NEW u, IsTables(u), u.circles = t.circles, u.payouts = t.payouts,
             DOMAIN u.circle_members = DOMAIN t.circle_members
      PROVE  Keeps(t, u, e, r)
  <2>1. PaidIn(u) \subseteq 0..(r - 1)
    BY <1>1, <1>2 DEF PaidIn
  <2> QED
    BY <1>1, <1>2, <2>1, SameCircle
<1>3. CASE e.name = "joined"
  <2>1. PICK row : row = [t.circle_members[<<e.circle, e.member>>] EXCEPT
                            !.join_order = e.join_order, !.collateral = e.amount]
    OBVIOUS
  <2>2. PICK g : g = [t.circle_members EXCEPT ![<<e.circle, e.member>>] = row]
    OBVIOUS
  <2>3. PICK u : u = [t EXCEPT !.circle_members = g]
    OBVIOUS
  <2>4. Handle(t, e) = u
    BY <1>3, <2>1, <2>2, <2>3 DEF Handle, handleCircleJoined
  <2>5. DOMAIN g = DOMAIN t.circle_members
    BY <2>2
  <2>6. IsTables(u) /\ u.circles = t.circles /\ u.payouts = t.payouts /\ u.circle_members = g
    BY <1>1, <2>3 DEF IsTables
  <2> QED
    BY <1>2, <2>4, <2>5, <2>6
<1>4. CASE e.name = "contributed"
  <2>1. PICK f : Handle(t, e) = [t EXCEPT !.contributions = f]
    BY <1>4 DEF Handle, handleCircleContributed
  <2>2. PICK u : u = [t EXCEPT !.contributions = f]
    OBVIOUS
  <2>3. IsTables(u) /\ u.circles = t.circles /\ u.payouts = t.payouts
        /\ u.circle_members = t.circle_members
    BY <1>1, <2>2 DEF IsTables
  <2> QED
    BY <1>2, <2>1, <2>2, <2>3
<1>5. CASE e.name = "default"
  <2>1. PICK g : g = CountedIn(t.circle_members, <<e.circle, e.member>>)
    OBVIOUS
  <2>2. PICK b : b = t.defaults (+) SetToBag({[circle |-> e.circle, member |-> e.member,
                       round |-> e.round, penalty |-> e.amount, ledger |-> e.ledger]})
    OBVIOUS
  <2>3. Handle(t, e) = [t EXCEPT !.defaults = b, !.circle_members = g]
    BY <1>5, <2>1, <2>2 DEF Handle, handleCircleDefault, CountedIn
  <2>4. PICK u : u = [t EXCEPT !.defaults = b, !.circle_members = g]
    OBVIOUS
  <2>5. IsTables(u) /\ u.circles = t.circles /\ u.payouts = t.payouts /\ u.circle_members = g
    BY <1>1, <2>4 DEF IsTables
  <2>6. DOMAIN g = DOMAIN t.circle_members
    BY <2>1 DEF CountedIn
  <2> QED
    BY <1>2, <2>3, <2>4, <2>5, <2>6
<1>6. CASE e.name = "exceptional_settlement"
  <2>1. PICK k : k = <<e.circle, e.round>>
    OBVIOUS
  <2>2. PICK row : Handle(t, e) = [t EXCEPT !.payouts = Upsert(t.payouts, k, row)]
    BY <1>6, <2>1 DEF Handle, handleCircleExceptionalSettlement
  <2>3. PICK f : f = Upsert(t.payouts, k, row)
    OBVIOUS
  <2>4. PICK u : u = [t EXCEPT !.payouts = f]
    OBVIOUS
  <2>5. IsTables(u) /\ u.circles = t.circles /\ u.payouts = f
        /\ u.circle_members = t.circle_members
    BY <1>1, <2>4 DEF IsTables
  <2>6. k[2] \in 0..(r - 1)
    BY <1>6, <2>1 DEF UpToRound
  <2>7. \A j \in DOMAIN f : j \in DOMAIN t.payouts \/ j = k
    BY <2>3 DEF Upsert
  <2>8. PaidIn(u) \subseteq 0..(r - 1)
    BY <1>1, <2>5, <2>6, <2>7 DEF PaidIn
  <2> QED
    BY <1>1, <2>2, <2>3, <2>4, <2>5, <2>8, SameCircle
<1>7. ASSUME NEW f, Handle(t, e) = [t EXCEPT !.reputation = f]
      PROVE  Keeps(t, Handle(t, e), e, r)
  <2>1. PICK u : u = [t EXCEPT !.reputation = f]
    OBVIOUS
  <2>2. IsTables(u) /\ u.circles = t.circles /\ u.payouts = t.payouts
        /\ u.circle_members = t.circle_members
    BY <1>1, <2>1 DEF IsTables
  <2> QED
    BY <1>2, <1>7, <2>1, <2>2
<1>8. CASE e.name \in {"score_updated", "increment"}
  BY <1>7, <1>8 DEF Handle, handleReputationScoreUpdated, handleReputationIncrement
<1> QED
  BY <1>3, <1>4, <1>5, <1>6, <1>8

\* The payout takes the row to the next round, whether its own row is new or not.
LEMMA PaymentKeeps ==
  ASSUME NEW r \in Nat, NEW t, PaidUpTo(t, r), NEW e, UpToRound(e, r), e.name = "payout"
  PROVE  Keeps(t, Handle(t, e), e, r)
<1>1. e.circle = CircleAddress /\ e.round + 1 = r /\ e.round \in 0..(r - 1)
  BY DEF UpToRound, Ignored
<1>2. PICK k : k = <<CircleAddress, e.round>>
  OBVIOUS
<1>3. PICK f : f = InsertOrIgnore(t.payouts, k,
                     [recipient |-> e.member, amount |-> e.amount, ledger |-> e.ledger,
                      is_exceptional |-> FALSE, defaulted_count |-> 0])
  OBVIOUS
<1>4. PICK s : s = [t EXCEPT !.payouts = f]
  OBVIOUS
<1>5. IsTables(s) /\ s.circles = t.circles /\ s.payouts = f
      /\ s.circle_members = t.circle_members
  BY <1>4 DEF IsTables, PaidUpTo
<1>6. \A j \in DOMAIN f : j \in DOMAIN t.payouts \/ j = k
  BY <1>3 DEF InsertOrIgnore, Upsert
<1>7. PaidIn(s) \subseteq 0..(r - 1)
  BY <1>1, <1>2, <1>5, <1>6 DEF PaidIn, PaidUpTo
<1>8. PaidUpTo(s, r)
  BY <1>5, <1>7 DEF PaidUpTo, MembersIn, HasCircle, RowIn
<1>9. PICK row : row = [RowIn(s) EXCEPT !.current_round = r]
  OBVIOUS
<1>10. PICK u : u = IF HasCircle(s) THEN [s EXCEPT !.circles[CircleAddress] = row] ELSE s
  OBVIOUS
<1>11. Handle(t, e) = u
  <2>1. Handle(t, e) = SetRound(s, e, e.round + 1)
    BY <1>1, <1>2, <1>3, <1>4 DEF Handle, handleCirclePayout
  <2> QED
    BY <1>1, <1>9, <1>10, <2>1 DEF SetRound, UpdateCircle, HasCircle, RowIn
<1>12. HasCircle(s) => row.current_round = r
                       /\ {"status", "current_round"} \subseteq DOMAIN row
  BY <1>8, <1>9 DEF PaidUpTo
<1>13. Keeps(s, u, e, r)
  BY <1>8, <1>10, <1>12, UpdateKeeps
<1> QED
  BY <1>11, <1>13 DEF Keeps, Turns

\* One handler after the other.
LEMMA HandleKeeps ==
  ASSUME NEW r \in Nat, NEW t, PaidUpTo(t, r), NEW e, UpToRound(e, r), e.name \in Projected
  PROVE  Keeps(t, Handle(t, e), e, r)
BY BeginningKeeps, ColumnsKeep, EndKeeps, HistoryKeeps, PaymentKeeps DEF Projected

\* A state of the indexer that has not gone beyond the first r rounds.
StateUpTo(s, r) ==
  /\ s = [tables |-> s.tables, rejected |-> s.rejected]
  /\ PaidUpTo(s.tables, r)

\* Whether the event is refused or not.
LEMMA ApplyKeeps ==
  ASSUME NEW r \in Nat, NEW s, StateUpTo(s, r), NEW e, UpToRound(e, r)
  PROVE  /\ StateUpTo(Apply(s, e), r)
         /\ (OnTime(s.tables, r) \/ Turns(e)) => OnTime(Apply(s, e).tables, r)
<1>1. CASE e.name \in Ignored
  <2>1. Apply(s, e) = s /\ ~Turns(e)
    BY <1>1, AppliedIgnored DEF Turns, Ignored
  <2> QED
    BY <2>1
<1>2. CASE e.name \notin Ignored /\ Rejects(s.tables, e)
  <2>1. PICK x : Apply(s, e) = [s EXCEPT !.rejected = x]
    BY <1>2 DEF Apply
  <2>2. PICK u : u = [s EXCEPT !.rejected = x]
    OBVIOUS
  <2>3. u.tables = s.tables /\ u = [tables |-> u.tables, rejected |-> u.rejected]
    BY <2>2 DEF StateUpTo
  <2>4. Turns(e) => ~HasCircle(s.tables)
    <3>1. Turns(e) => e.name = "payout" /\ e.circle = CircleAddress
      BY <1>2 DEF Turns, Rejects, NeedsCircleRow, UpToRound, Ignored
    <3> QED
      BY <1>2, <3>1 DEF Rejects, NeedsCircleRow, HasCircle
  <2> QED
    BY <2>1, <2>2, <2>3, <2>4 DEF StateUpTo, OnTime
<1>3. CASE e.name \notin Ignored /\ ~Rejects(s.tables, e)
  <2>1. e.name \in Projected
    BY <1>3 DEF UpToRound
  <2>2. PICK h : h = Handle(s.tables, e)
    OBVIOUS
  <2>3. Keeps(s.tables, h, e, r)
    BY <2>1, <2>2, HandleKeeps DEF StateUpTo
  <2>4. Apply(s, e) = [s EXCEPT !.tables = h]
    BY <1>3, <2>2 DEF Apply
  <2>5. PICK u : u = [s EXCEPT !.tables = h]
    OBVIOUS
  <2>6. u.tables = h /\ u = [tables |-> u.tables, rejected |-> u.rejected]
    BY <2>5 DEF StateUpTo
  <2> QED
    BY <2>3, <2>4, <2>5, <2>6 DEF StateUpTo, Keeps, PaidUpTo
<1> QED
  BY <1>1, <1>2, <1>3

\* A list of such events.
ListUpTo(l, r) ==
  \E S : l \in Seq(S) /\ \A i \in 1..Len(l) : UpToRound(l[i], r)

\* Any one of the turning events is enough.
LEMMA AppliedKeeps ==
  ASSUME NEW r \in Nat, NEW s, StateUpTo(s, r), NEW l, ListUpTo(l, r)
  PROVE  /\ StateUpTo(Applied(s, l), r)
         /\ (OnTime(s.tables, r) \/ \E i \in 1..Len(l) : Turns(l[i]))
              => OnTime(Applied(s, l).tables, r)
<1>1. PICK S : l \in Seq(S) /\ \A i \in 1..Len(l) : UpToRound(l[i], r)
  BY DEF ListUpTo
<1>2. PICK g : IsDelivery(g, s, l, Len(l)) /\ Applied(s, l) = g[1..Len(l)]
  BY <1>1, AppliedIs
<1> DEFINE Ok(k) == /\ StateUpTo(g[1..k], r)
                    /\ (OnTime(s.tables, r) \/ \E i \in 1..k : Turns(l[i]))
                         => OnTime(g[1..k].tables, r)
           K == {k \in Nat : k <= Len(l) => Ok(k)}
<1>3. Len(l) \in Nat
  BY <1>1
<1>4. 0 \in K
  <2>1. 1..0 = {} /\ {} \in SUBSET (1..Len(l))
    OBVIOUS
  <2>2. g[{}] = s
    BY <1>2, <2>1 DEF IsDelivery
  <2> QED
    BY <2>1, <2>2
<1>5. ASSUME NEW k \in Nat, k \in K PROVE k + 1 \in K
  <2> SUFFICES ASSUME k + 1 <= Len(l) PROVE Ok(k + 1)
    OBVIOUS
  <2>1. PICK i : i = k + 1
    OBVIOUS
  <2>2. i \in 1..Len(l) /\ i - 1 = k /\ k <= Len(l)
    BY <1>3, <2>1
  <2>3. g[1..i] = Apply(g[1..(i - 1)], l[i])
    BY <1>2, <1>3, <2>2, DeliveryOfPrefix
  <2>4. Ok(k) /\ UpToRound(l[i], r)
    BY <1>1, <1>5, <2>2
  <2>5. PICK a, b : a = g[1..k] /\ b = g[1..i] /\ b = Apply(a, l[i])
    BY <2>2, <2>3
  <2>6. /\ StateUpTo(b, r)
        /\ (OnTime(a.tables, r) \/ Turns(l[i])) => OnTime(b.tables, r)
    BY <2>4, <2>5, ApplyKeeps
  <2>7. \A j \in 1..i : j \in 1..k \/ j = i
    BY <2>1
  <2> QED
    BY <2>1, <2>4, <2>5, <2>6, <2>7
<1> HIDE DEF K
<1>6. Len(l) \in K
  BY <1>3, <1>4, <1>5, InductiveSet
<1> QED
  BY <1>2, <1>3, <1>6 DEF K

\* What one invocation publishes while the rounds settled go from a to b: all of
\* it belongs there, and if b is the next round two events say so.
Leads(l, a, b) ==
  /\ a \in Nat /\ b \in Nat /\ ListUpTo(l, b)
  /\ \/ b = a
     \/ /\ b = a + 1
        /\ \E i, j \in 1..Len(l) : i # j /\ Turns(l[i]) /\ Turns(l[j])

\* What tables that are at round r say.
AtRound(t, r) == PaidUpTo(t, r) /\ OnTime(t, r)

\* A list without one of its events.
LEMMA WithoutIs ==
  ASSUME NEW S, NEW l \in Seq(S), NEW k \in DOMAIN l
  PROVE  LET q == RemoveAt(l, k)
         IN  /\ q \in Seq(S) /\ Len(q) = Len(l) - 1
             /\ \A i \in 1..Len(q) : q[i] = IF i < k THEN l[i] ELSE l[i + 1]
<1>1. k \in 1..Len(l) /\ Len(l) \in Nat
  OBVIOUS
<1>2. PICK p : p = SubSeq(l, 1, k - 1)
  OBVIOUS
<1>3. p \in Seq(S) /\ Len(p) = k - 1 /\ \A i \in 1..(k - 1) : p[i] = l[i]
  BY <1>1, <1>2
<1>4. PICK z : z = SubSeq(l, k + 1, Len(l))
  OBVIOUS
<1>5. z \in Seq(S) /\ Len(z) = Len(l) - k /\ \A i \in 1..(Len(l) - k) : z[i] = l[i + k]
  BY <1>1, <1>4
<1>6. PICK q : q = RemoveAt(l, k)
  OBVIOUS
<1>7. q = p \o z
  BY <1>2, <1>4, <1>6 DEF RemoveAt
<1>8. /\ q \in Seq(S) /\ Len(q) = Len(l) - 1
      /\ \A i \in 1..Len(p) : q[i] = p[i]
      /\ \A i \in 1..Len(q) : i > Len(p) => q[i] = z[i - Len(p)]
  <2>1. Len(p) \in Nat /\ Len(z) \in Nat /\ Len(p) + Len(z) = Len(l) - 1
    BY <1>1, <1>3, <1>5
  <2>2. /\ q \in Seq(S) /\ Len(q) = Len(p) + Len(z)
        /\ \A i \in 1..Len(p) : q[i] = p[i]
        /\ \A i \in 1..Len(q) : i > Len(p) => q[i] = z[i - Len(p)]
    BY <1>3, <1>5, <1>7
  <2> QED
    BY <2>1, <2>2
<1>9. ASSUME NEW i \in 1..Len(q) PROVE q[i] = IF i < k THEN l[i] ELSE l[i + 1]
  <2>1. CASE i < k
    <3>1. i \in 1..Len(p) /\ i \in 1..(k - 1)
      BY <1>1, <1>3, <2>1
    <3> QED
      BY <1>3, <1>8, <2>1, <3>1
  <2>2. CASE ~(i < k)
    <3>1. i > Len(p) /\ i - Len(p) \in 1..(Len(l) - k) /\ (i - Len(p)) + k = i + 1
      BY <1>1, <1>3, <1>8, <2>2
    <3> QED
      BY <1>5, <1>8, <2>2, <3>1
  <2> QED
    BY <2>1, <2>2
<1> QED
  BY <1>6, <1>8, <1>9

\* With all of it, or all but one event, the tables get to round b.
LEMMA LeadsOn ==
  ASSUME NEW a, NEW b, NEW l, Leads(l, a, b), NEW s, StateUpTo(s, a), OnTime(s.tables, a),
         NEW q, q = l \/ \E k \in DOMAIN l : q = RemoveAt(l, k)
  PROVE  AtRound(Applied(s, q).tables, b)
<1>1. a \in Nat /\ b \in Nat /\ a <= b /\ ListUpTo(l, b)
  BY DEF Leads
<1>2. StateUpTo(s, b)
  <2>1. 0..(a - 1) \subseteq 0..(b - 1)
    BY <1>1
  <2> QED
    BY <2>1 DEF StateUpTo, PaidUpTo
<1>3. PICK S : l \in Seq(S) /\ \A i \in 1..Len(l) : UpToRound(l[i], b)
  BY <1>1 DEF ListUpTo
<1>4. /\ ListUpTo(q, b)
      /\ b = a \/ \E i \in 1..Len(q) : Turns(q[i])
  <2>1. CASE q = l
    BY <1>1, <2>1 DEF Leads
  <2>2. ASSUME NEW k \in DOMAIN l, q = RemoveAt(l, k)
        PROVE  /\ ListUpTo(q, b)
               /\ b = a \/ \E i \in 1..Len(q) : Turns(q[i])
    <3>1. /\ q \in Seq(S) /\ Len(q) = Len(l) - 1
          /\ \A i \in 1..Len(q) : q[i] = IF i < k THEN l[i] ELSE l[i + 1]
      BY <1>3, <2>2, WithoutIs
    <3>2. k \in 1..Len(l) /\ Len(l) \in Nat
      BY <1>3
    <3>3. \A i \in 1..Len(q) : i \in 1..Len(l) /\ i + 1 \in 1..Len(l)
      BY <3>1, <3>2
    <3>4. \A i \in 1..Len(q) : UpToRound(q[i], b)
      BY <1>3, <3>1, <3>3
    <3>5. ASSUME b # a PROVE \E i \in 1..Len(q) : Turns(q[i])
      <4>1. PICK x \in 1..Len(l) : x # k /\ Turns(l[x])
        <5>1. PICK i, j \in 1..Len(l) : i # j /\ Turns(l[i]) /\ Turns(l[j])
          BY <3>5 DEF Leads
        <5> QED
          BY <5>1
      <4>2. CASE x < k
        <5>1. x \in 1..Len(q) /\ q[x] = l[x]
          BY <3>1, <3>2, <4>2
        <5> QED
          BY <4>1, <5>1
      <4>3. CASE x > k
        <5>1. PICK y : y = x - 1
          OBVIOUS
        <5>2. y \in 1..Len(q) /\ ~(y < k) /\ y + 1 = x
          BY <3>1, <3>2, <4>3, <5>1
        <5>3. q[y] = l[x]
          BY <3>1, <5>2
        <5> QED
          BY <4>1, <5>2, <5>3
      <4> QED
        BY <3>2, <4>1, <4>2, <4>3
    <3> QED
      BY <3>1, <3>4, <3>5 DEF ListUpTo
  <2> QED
    BY <2>1, <2>2
<1>5. /\ StateUpTo(Applied(s, q), b)
      /\ (OnTime(s.tables, b) \/ \E i \in 1..Len(q) : Turns(q[i]))
           => OnTime(Applied(s, q).tables, b)
  BY <1>1, <1>2, <1>4, AppliedKeeps
<1> QED
  BY <1>4, <1>5 DEF StateUpTo, AtRound

\* Lists of such events: one, one after the other, one for each of another list.
LEMMA UpToOne ==
  ASSUME NEW r, NEW e, UpToRound(e, r)
  PROVE  ListUpTo(<<e>>, r)
<1> DEFINE l == <<e>>
<1>1. l \in Seq({e}) /\ Len(l) = 1 /\ l[1] = e
  OBVIOUS
<1>2. \A i \in 1..Len(l) : l[i] = e
  BY <1>1
<1> HIDE DEF l
<1>3. ListUpTo(l, r)
  BY <1>1, <1>2 DEF ListUpTo
<1> QED
  BY <1>3 DEF l

\* One list after another.
LEMMA UpToBoth ==
  ASSUME NEW r, NEW p, NEW q, ListUpTo(p, r), ListUpTo(q, r)
  PROVE  /\ ListUpTo(p \o q, r)
         /\ Len(p \o q) = Len(p) + Len(q) /\ Len(p) \in Nat /\ Len(q) \in Nat
         /\ \A i \in 1..Len(q) : (p \o q)[i + Len(p)] = q[i]
<1>1. PICK S : p \in Seq(S) /\ \A i \in 1..Len(p) : UpToRound(p[i], r)
  BY DEF ListUpTo
<1>2. PICK T : q \in Seq(T) /\ \A i \in 1..Len(q) : UpToRound(q[i], r)
  BY DEF ListUpTo
<1>3. p \in Seq(S \cup T) /\ q \in Seq(S \cup T)
  BY <1>1, <1>2
<1>4. PICK l : l = p \o q
  OBVIOUS
<1>5. /\ l \in Seq(S \cup T) /\ Len(l) = Len(p) + Len(q)
      /\ \A i \in 1..Len(p) : l[i] = p[i]
      /\ \A i \in 1..Len(l) : i > Len(p) => l[i] = q[i - Len(p)]
  BY <1>3, <1>4
<1>6. Len(p) \in Nat /\ Len(q) \in Nat
  BY <1>1, <1>2
<1>7. ASSUME NEW i \in 1..Len(l) PROVE UpToRound(l[i], r)
  <2>1. CASE i <= Len(p)
    <3>1. i \in 1..Len(p)
      BY <1>6, <2>1
    <3> QED
      BY <1>1, <1>5, <3>1
  <2>2. CASE i > Len(p)
    <3>1. i - Len(p) \in 1..Len(q)
      BY <1>5, <1>6, <2>2
    <3> QED
      BY <1>2, <1>5, <2>2, <3>1
  <2> QED
    BY <1>6, <2>1, <2>2
<1>8. ASSUME NEW i \in 1..Len(q) PROVE l[i + Len(p)] = q[i]
  <2>1. PICK j : j = i + Len(p)
    OBVIOUS
  <2>2. j \in 1..Len(l) /\ j > Len(p) /\ j - Len(p) = i
    BY <1>5, <1>6, <2>1
  <2> QED
    BY <1>5, <2>1, <2>2
<1> QED
  BY <1>4, <1>5, <1>6, <1>7, <1>8 DEF ListUpTo

\* An event for each element of a list.
LEMMA UpToEach ==
  ASSUME NEW r, NEW M, NEW q \in Seq(M), NEW f,
         f = [i \in DOMAIN q |-> f[i]], \A i \in DOMAIN q : UpToRound(f[i], r)
  PROVE  ListUpTo(f, r)
<1>1. PICK T : T = {f[i] : i \in DOMAIN q}
  OBVIOUS
<1>2. DOMAIN q = 1..Len(q) /\ Len(q) \in Nat
  OBVIOUS
<1>3. f \in Seq(T) /\ Len(f) = Len(q)
  <2>1. f \in [1..Len(q) -> T]
    BY <1>1, <1>2
  <2> QED
    BY <1>2, <2>1
<1> QED
  BY <1>2, <1>3 DEF ListUpTo

\* Events that do not speak of rounds.
LEMMA UpToOther ==
  ASSUME NEW r, NEW e, e.circle = CircleAddress,
         e.name \in (Projected \cup Ignored)
                      \ {"initialized", "active", "completed", "round_started", "payout",
                         "exceptional_settlement"}
  PROVE  UpToRound(e, r)
BY DEF UpToRound

\* The events of a settlement of round r - 1, two of which take the row to r.
LEMMA SettledLeads ==
  ASSUME NEW r \in Nat, NEW pot, round.round_index \in Nat, round.round_index + 1 = r,
         NEW p, ListUpTo(p, r)
  PROVE  Leads(p \o SettledEvents(pot), round.round_index, r)
<1>1. PICK s : s = [name |-> "score_updated", ledger |-> ledger,
                    member |-> round.recipient, score |-> awarded[round.recipient] + 1]
  OBVIOUS
<1>2. PICK d : d = Ev("payout", round.recipient, round.round_index, pot)
  OBVIOUS
<1>3. PICK z : z = IF round.round_index + 1 >= N
                     THEN Ev("completed", round.recipient, round.round_index, 0)
                     ELSE Ev("round_started", members[round.round_index + 2],
                             round.round_index + 1, 0)
  OBVIOUS
<1>4. UpToRound(s, r)
  <2>1. s.name = "score_updated"
    BY <1>1
  <2> QED
    BY <2>1 DEF UpToRound, Projected, Ignored
<1>5. UpToRound(d, r) /\ Turns(d)
  <2>1. /\ d.name = "payout" /\ d.circle = CircleAddress
        /\ d.round = round.round_index
    BY <1>2 DEF Ev
  <2>2. round.round_index \in 0..(r - 1)
    OBVIOUS
  <2> QED
    BY <2>1, <2>2 DEF UpToRound, Turns, Projected
<1>6. UpToRound(z, r) /\ Turns(z)
  <2>1. CASE round.round_index + 1 >= N
    <3>1. z.name = "completed" /\ z.circle = CircleAddress /\ r # 0
      BY <1>3, <2>1 DEF Ev
    <3> QED
      BY <3>1 DEF UpToRound, Turns, Projected
  <2>2. CASE ~(round.round_index + 1 >= N)
    <3>1. z.name = "round_started" /\ z.circle = CircleAddress /\ z.round = r
      BY <1>3, <2>2 DEF Ev
    <3> QED
      BY <3>1 DEF UpToRound, Turns, Projected
  <2> QED
    BY <2>1, <2>2
<1>7. PICK q : q = SettledEvents(pot)
  OBVIOUS
<1>8. q = (<<s>> \o <<d>>) \o <<z>>
  <2>1. SettledEvents(pot) = <<s, d>> \o <<z>>
    BY <1>1, <1>2, <1>3 DEF SettledEvents
  <2>2. <<s, d>> = <<s>> \o <<d>>
    OBVIOUS
  <2> QED
    BY <1>7, <2>1, <2>2
<1>9. ListUpTo(q, r)
  BY <1>4, <1>5, <1>6, <1>8, UpToOne, UpToBoth
<1>10. Len(q) = 3 /\ q[2] = d /\ q[3] = z
  BY <1>8
<1>11. PICK l : l = p \o q
  OBVIOUS
<1>12. /\ ListUpTo(l, r) /\ Len(l) = Len(p) + 3 /\ Len(p) \in Nat
       /\ l[2 + Len(p)] = d /\ l[3 + Len(p)] = z
  <2>1. /\ ListUpTo(l, r) /\ Len(l) = Len(p) + Len(q) /\ Len(p) \in Nat
        /\ \A i \in 1..Len(q) : l[i + Len(p)] = q[i]
    BY <1>9, <1>11, UpToBoth
  <2>2. 2 \in 1..Len(q) /\ 3 \in 1..Len(q)
    BY <1>10
  <2> QED
    BY <1>10, <2>1, <2>2
<1>13. PICK i, j \in 1..Len(l) : i # j /\ l[i] = d /\ l[j] = z
  <2>1. 2 + Len(p) \in 1..Len(l) /\ 3 + Len(p) \in 1..Len(l) /\ 2 + Len(p) # 3 + Len(p)
    BY <1>12
  <2> QED
    BY <1>12, <2>1
<1> QED
  BY <1>5, <1>6, <1>7, <1>11, <1>12, <1>13 DEF Leads
\* Whatever is invoked, what it publishes leads on to the rounds then settled.
LEMMA InvocationLeads ==
  ASSUME IndInv, Invocation
  PROVE  \E l : Publish(l) /\ Leads(l, rounds_completed, rounds_completed')
<1>1. TypeOK /\ RotationProgress
  BY DEF IndInv
<1>2. /\ round.round_index \in Rounds /\ round.round_index \in Nat
      /\ rounds_completed \in Nat
  BY <1>1, RotationFacts DEF TypeOK, RoundState
<1>3. PICK n : n = rounds_completed
  OBVIOUS
<1>4. ASSUME NEW l, ListUpTo(l, n), Publish(l), rounds_completed' = n
      PROVE  \E x : Publish(x) /\ Leads(x, n, rounds_completed')
  <2>1. Leads(l, n, n)
    BY <1>2, <1>3, <1>4 DEF Leads
  <2> QED
    BY <1>4, <2>1
<1>5. ASSUME NEW name \in {"joined", "cancelled", "contributed", "default", "paused", "resumed",
                           "collateral_released"},
             NEW m, NEW k, NEW x, NEW r
      PROVE  UpToRound(Ev(name, m, k, x), r) /\ ListUpTo(<<Ev(name, m, k, x)>>, r)
  <2>1. PICK e : e = Ev(name, m, k, x)
    OBVIOUS
  <2>2. e.name = name /\ e.circle = CircleAddress
    BY <2>1 DEF Ev
  <2>3. UpToRound(e, r)
    BY <2>2, UpToOther DEF Projected, Ignored
  <2> QED
    BY <2>1, <2>3, UpToOne
<1>10. CASE initialize /\ Publish(InitializedEvents)
  <2>1. PICK d : d = [name |-> "initialized", circle |-> CircleAddress, ledger |-> ledger,
                      members |-> members, round_amount |-> round_amount]
    OBVIOUS
  <2>2. PICK e : e = [name |-> "circle_created", circle |-> CircleAddress,
                      ledger |-> ledger, creator |-> Creator]
    OBVIOUS
  <2>3. InitializedEvents = <<d>> \o <<e>>
    <3>1. InitializedEvents = <<d, e>>
      BY <2>1, <2>2 DEF InitializedEvents
    <3> QED
      BY <3>1
  <2>4. UpToRound(d, n)
    <3>1. d.name = "initialized" /\ d.circle = CircleAddress /\ d.members = members
      BY <2>1
    <3> QED
      BY <3>1 DEF UpToRound, Projected
  <2>5. UpToRound(e, n)
    <3>1. e.name = "circle_created" /\ e.circle = CircleAddress
      BY <2>2
    <3> QED
      BY <3>1, UpToOther DEF Projected, Ignored
  <2>6. PICK l : l = InitializedEvents
    OBVIOUS
  <2>7. ListUpTo(l, n)
    BY <2>3, <2>4, <2>5, <2>6, UpToOne, UpToBoth
  <2>8. rounds_completed' = n
    BY <1>1, <1>3, <1>10 DEF initialize, RotationProgress
  <2> QED
    BY <1>3, <1>4, <1>10, <2>6, <2>7, <2>8
<1>11. ASSUME NEW a \in Address, join(a), Publish(JoinedEvents(a))
       PROVE  \E l : Publish(l) /\ Leads(l, n, rounds_completed')
  <2>1. PICK e : e = [name |-> "joined", circle |-> CircleAddress, ledger |-> ledger,
                      member |-> a, join_order |-> Cardinality(joined \cup {a}),
                      amount |-> CollateralDue]
    OBVIOUS
  <2>2. UpToRound(e, n) /\ ListUpTo(<<e>>, n)
    <3>1. e.name = "joined" /\ e.circle = CircleAddress
      BY <2>1
    <3> QED
      BY <3>1, UpToOther, UpToOne DEF Projected, Ignored
  <2>3. rounds_completed' = n /\ n = 0
    BY <1>1, <1>3, <1>11 DEF join, JoinChecks, RotationProgress
  <2>4. PICK f : f = Ev("active", a, 0, 0)
    OBVIOUS
  <2>5. f.name = "active" /\ f.circle = CircleAddress
    BY <2>4 DEF Ev
  <2>6. UpToRound(f, n)
    BY <2>3, <2>5 DEF UpToRound, Projected
  <2>7. CASE joined \cup {a} = MemberSet
    <3>1. JoinedEvents(a) = <<f>> \o <<e>>
      BY <2>1, <2>4, <2>7 DEF JoinedEvents
    <3> QED
      BY <1>4, <1>11, <2>2, <2>3, <2>6, <3>1, UpToOne, UpToBoth
  <2>8. CASE joined \cup {a} # MemberSet
    <3>1. JoinedEvents(a) = <<e>>
      BY <2>1, <2>8 DEF JoinedEvents
    <3> QED
      BY <1>4, <1>11, <2>2, <2>3, <3>1
  <2> QED
    BY <2>7, <2>8
<1>12. ASSUME NEW a \in Address, NEW name \in {"cancelled", "paused", "resumed"},
              Publish(<<Ev(name, a, 0, 0)>>), rounds_completed' = n
       PROVE  \E l : Publish(l) /\ Leads(l, n, rounds_completed')
  BY <1>4, <1>5, <1>12
<1>13. ASSUME NEW a \in Address, \/ cancel(a) /\ Publish(<<Ev("cancelled", a, 0, 0)>>)
                                 \/ pause(a) /\ Publish(<<Ev("paused", a, 0, 0)>>)
                                 \/ resume(a) /\ Publish(<<Ev("resumed", a, 0, 0)>>)
       PROVE  \E l : Publish(l) /\ Leads(l, n, rounds_completed')
  <2>1. rounds_completed' = n
    BY <1>3, <1>13 DEF cancel, pause, resume
  <2> QED
    BY <1>12, <1>13, <2>1
<1>14. ASSUME NEW a \in Address, contribute(a),
              Publish(<<Ev("contributed", a, round.round_index, round_amount)>>)
       PROVE  \E l : Publish(l) /\ Leads(l, n, rounds_completed')
  <2>1. rounds_completed' = n
    BY <1>3, <1>14 DEF contribute
  <2> QED
    BY <1>4, <1>5, <1>14, <2>1
<1>15. ASSUME NEW a \in Address, mark_default(a), Publish(<<DefaultEvent(a)>>)
       PROVE  \E l : Publish(l) /\ Leads(l, n, rounds_completed')
  <2>1. rounds_completed' = n
    BY <1>3, <1>15 DEF mark_default
  <2> QED
    BY <1>4, <1>5, <1>15, <2>1 DEF DefaultEvent
<1>16. ASSUME NEW a \in Address, close(a), Publish(ClosedEvents(a))
       PROVE  \E l : Publish(l) /\ Leads(l, n, rounds_completed')
  <2>1. PICK q : q = InRotation({m \in MemberSet : collateral[m] > 0}) /\ q \in Seq(MemberSet)
    BY InRotationType
  <2>2. PICK f : f = [i \in DOMAIN q |-> Ev("collateral_released", q[i], 0, collateral[q[i]])]
    OBVIOUS
  <2>3. PICK e : ClosedEvents(a) = f \o <<e>> /\ e.name = "closed" /\ e.circle = CircleAddress
    <3>1. PICK e : e = [name |-> "closed", circle |-> CircleAddress, ledger |-> ledger,
                        member |-> a, amount |-> Total(collateral),
                        reason |-> IF status = "Completed" THEN "completed"
                                                           ELSE "cancelled"]
      OBVIOUS
    <3>2. ClosedEvents(a) = f \o <<e>>
      BY <2>1, <2>2, <3>1, Zenon DEF ClosedEvents
    <3>3. e.name = "closed" /\ e.circle = CircleAddress
      BY <3>1
    <3> QED
      BY <3>2, <3>3
  <2>4. \A i \in DOMAIN q : UpToRound(f[i], n)
    BY <1>5, <2>2
  <2>5. f = [i \in DOMAIN q |-> f[i]]
    BY <2>2
  <2>6. ListUpTo(f, n)
    BY <2>1, <2>4, <2>5, UpToEach
  <2>7. ListUpTo(<<e>>, n)
    BY <2>3, UpToOther, UpToOne DEF Projected, Ignored
  <2>8. ListUpTo(f \o <<e>>, n)
    BY <2>6, <2>7, UpToBoth
  <2>9. rounds_completed' = n
    BY <1>3, <1>16 DEF close
  <2> QED
    BY <1>4, <1>16, <2>3, <2>8, <2>9
<1>17. ASSUME payout \/ settle_round
       PROVE  /\ round.round_index = n /\ rounds_completed' = n + 1
              /\ n + 1 \in Nat /\ n \in 0..((n + 1) - 1)
  <2>1. status = "Active" /\ rounds_completed' = n + 1
    BY <1>3, <1>17 DEF payout, PayoutChecks, settle_round, RoundOpen, SettleAndAdvance
  <2> QED
    BY <1>1, <1>2, <1>3, <2>1 DEF RotationProgress
<1>18. CASE payout /\ Publish(SettledEvents(round_amount * N))
  <2>1. PICK pot : pot = round_amount * N
    OBVIOUS
  <2>2. PICK p : p = <<>> /\ ListUpTo(p, n + 1)
    <3>1. <<>> \in Seq({}) /\ \A i \in 1..Len(<<>>) : FALSE
      OBVIOUS
    <3> QED
      BY <3>1 DEF ListUpTo
  <2>3. p \o SettledEvents(pot) = SettledEvents(pot)
    BY <2>2 DEF SettledEvents
  <2>4. Leads(p \o SettledEvents(pot), round.round_index, n + 1)
    BY <1>2, <1>17, <1>18, <2>2, SettledLeads
  <2> QED
    BY <1>3, <1>17, <1>18, <2>1, <2>3, <2>4
<1>19. CASE settle_round /\ Publish(ExceptionalEvents \o SettledEvents(SettlementPot))
  <2>1. PICK pot : pot = SettlementPot
    OBVIOUS
  <2>2. PICK q : q = InRotation(Delinquent) /\ q \in Seq(Delinquent)
    BY InRotationType
  <2>3. PICK f : f = [i \in DOMAIN q |-> DefaultEvent(q[i])]
    OBVIOUS
  <2>4. PICK e : e = [name |-> "exceptional_settlement", circle |-> CircleAddress,
                      ledger |-> ledger, member |-> round.recipient,
                      round |-> round.round_index, amount |-> SettlementPot,
                      defaulted_count |-> N - Cardinality(contributed[round.round_index])]
    OBVIOUS
  <2>5. ExceptionalEvents = f \o <<e>>
    BY <2>2, <2>3, <2>4, Zenon DEF ExceptionalEvents
  <2>6. UpToRound(e, n + 1) /\ ListUpTo(<<e>>, n + 1)
    <3>1. /\ e.name = "exceptional_settlement" /\ e.circle = CircleAddress
          /\ e.round = round.round_index
      BY <2>4
    <3>2. e.round \in 0..((n + 1) - 1)
      BY <1>17, <1>19, <3>1
    <3> QED
      BY <3>1, <3>2, UpToOne DEF UpToRound, Projected
  <2>7. \A i \in DOMAIN q : UpToRound(f[i], n + 1)
    BY <1>5, <2>3 DEF DefaultEvent
  <2>8. f = [i \in DOMAIN q |-> f[i]]
    BY <2>3
  <2>9. ListUpTo(f, n + 1)
    BY <2>2, <2>7, <2>8, UpToEach
  <2>10. PICK p : p = ExceptionalEvents
    OBVIOUS
  <2>11. ListUpTo(p, n + 1)
    BY <2>5, <2>6, <2>9, <2>10, UpToBoth
  <2>12. Leads(p \o SettledEvents(pot), round.round_index, n + 1)
    BY <1>2, <1>17, <1>19, <2>11, SettledLeads
  <2> QED
    BY <1>3, <1>17, <1>19, <2>1, <2>10, <2>12
<1> QED
  BY <1>3, <1>10, <1>11, <1>13, <1>14, <1>15, <1>16, <1>18, <1>19 DEF Invocation

\* The tables are at a round, and what is pending leads from there, round by
\* round, to the rounds that the contract has settled.
StageInv ==
  /\ \E S : pending \in Seq(S)
  /\ \E reached :
       /\ AtRound(tables, reached[0]) /\ reached[0] \in Nat
       /\ reached[Len(pending)] = rounds_completed
       /\ \A i \in 1..Len(pending) : Leads(pending[i], reached[i - 1], reached[i])

\* At the start there is no row.
LEMMA StageInit == EventInit => StageInv
<1> SUFFICES ASSUME EventInit PROVE StageInv
  OBVIOUS
<1>1. pending = <<>> /\ tables = EmptyTables /\ rounds_completed = 0
  BY DEF EventInit, Init
<1>2. pending \in Seq({}) /\ Len(pending) = 0 /\ 1..Len(pending) = {}
  BY <1>1
<1>3. PICK reached : reached = [i \in 0..0 |-> 0]
  OBVIOUS
<1>4. reached[0] = 0
  BY <1>3
<1>5. AtRound(tables, reached[0])
  <2>1. PICK a, b : a = <<>> /\ b = EmptyBag /\ DOMAIN a = {}
    OBVIOUS
  <2>2. tables = [circles |-> a, circle_members |-> a, contributions |-> a,
                  payouts |-> a, defaults |-> b, circle_audit_events |-> a,
                  reputation |-> a]
    BY <1>1, <2>1, Zenon DEF EmptyTables
  <2>3. /\ IsTables(tables) /\ DOMAIN tables.circles = {}
        /\ DOMAIN tables.circle_members = {} /\ DOMAIN tables.payouts = {}
    BY <2>1, <2>2 DEF IsTables
  <2> QED
    BY <2>3 DEF AtRound, PaidUpTo, OnTime, MembersIn, HasCircle, PaidIn
<1> QED
  BY <1>1, <1>2, <1>4, <1>5 DEF StageInv

\* No step of contract or indexer leads elsewhere, whatever event is lost.
LEMMA StageStep ==
  IndInv /\ StageInv /\ [EventNext]_allVars => StageInv'
<1> SUFFICES ASSUME IndInv, StageInv, [EventNext]_allVars PROVE StageInv'
  OBVIOUS
<1>1. PICK S : pending \in Seq(S)
  BY DEF StageInv
<1>2. PICK n : n = Len(pending) /\ n \in Nat
  BY <1>1
<1>3. PICK reached : /\ AtRound(tables, reached[0]) /\ reached[0] \in Nat
                     /\ reached[n] = rounds_completed
                     /\ \A i \in 1..n : Leads(pending[i], reached[i - 1], reached[i])
  BY <1>2 DEF StageInv
<1>4. CASE Invocation
  <2>1. PICK l : Publish(l) /\ Leads(l, rounds_completed, rounds_completed')
    BY <1>4, InvocationLeads
  <2>2. pending' = Append(pending, l) /\ tables' = tables
    BY <2>1 DEF Publish
  <2>3. /\ pending' \in Seq(S \cup {l}) /\ Len(pending') = n + 1
        /\ \A i \in 1..n : pending'[i] = pending[i]
        /\ pending'[n + 1] = l
    BY <1>1, <1>2, <2>2
  <2>4. PICK h : h = [i \in 0..(n + 1) |-> IF i = n + 1 THEN rounds_completed' ELSE reached[i]]
    OBVIOUS
  <2>5. h[n + 1] = rounds_completed' /\ \A i \in 0..n : h[i] = reached[i]
    BY <1>2, <2>4
  <2>6. h[0] = reached[0]
    BY <1>2, <2>5
  <2>7. ASSUME NEW i \in 1..(n + 1) PROVE Leads(pending'[i], h[i - 1], h[i])
    <3>1. CASE i = n + 1
      <4>1. i - 1 = n /\ n \in 0..n
        BY <1>2, <3>1
      <4> QED
        BY <1>3, <2>1, <2>3, <2>5, <3>1, <4>1
    <3>2. CASE i # n + 1
      <4>1. i \in 1..n /\ i \in 0..n /\ i - 1 \in 0..n
        BY <1>2, <3>2
      <4> QED
        BY <1>3, <2>3, <2>5, <4>1
    <3> QED
      BY <3>1, <3>2
  <2>8. AtRound(tables', h[0])
    BY <1>3, <2>2, <2>6
  <2> QED
    BY <1>3, <2>3, <2>5, <2>6, <2>7, <2>8
    DEF StageInv, AtRound, PaidUpTo, OnTime, MembersIn, HasCircle, PaidIn, IsTables, RowIn
<1>5. CASE Quiet \/ UNCHANGED allVars
  <2>1. UNCHANGED <<pending, tables, rounds_completed>>
    BY <1>5 DEF Quiet, AdvanceLedger, add_authorized_caller, contractVars, eventVars,
       allVars, vars
  <2> QED
    BY <1>1, <1>2, <1>3, <2>1 DEF StageInv
<1>6. ASSUME pending # <<>>, pending' = Tail(pending), UNCHANGED vars, NEW q,
             q = Head(pending) \/ \E k \in DOMAIN Head(pending) : q = RemoveAt(Head(pending), k),
             Deliver(q)
      PROVE  StageInv'
  <2>1. /\ n > 0 /\ 1 \in 1..n /\ Head(pending) = pending[1]
        /\ pending' \in Seq(S) /\ Len(pending') = n - 1
        /\ \A i \in 1..(n - 1) : pending'[i] = pending[i + 1]
    BY <1>1, <1>2, <1>6
  <2>2. PICK s : s = [tables |-> tables, rejected |-> rejected]
    OBVIOUS
  <2>3. s.tables = tables /\ s = [tables |-> s.tables, rejected |-> s.rejected]
    BY <2>2
  <2>4. StateUpTo(s, reached[0]) /\ OnTime(s.tables, reached[0])
    BY <1>3, <2>3 DEF AtRound, StateUpTo
  <2>5. PICK a, b, l : a = reached[0] /\ b = reached[1] /\ l = Head(pending)
    OBVIOUS
  <2>6. Leads(l, a, b)
    <3>1. 1 - 1 = 0
      OBVIOUS
    <3> QED
      BY <1>3, <2>1, <2>5, <3>1
  <2>7. AtRound(Applied(s, q).tables, b)
    BY <1>6, <2>4, <2>5, <2>6, LeadsOn
  <2>8. tables' = Applied(s, q).tables
    BY <1>6, <2>2 DEF Deliver
  <2>9. b \in Nat
    BY <2>6 DEF Leads
  <2>10. PICK h : h = [i \in 0..(n - 1) |-> reached[i + 1]]
    OBVIOUS
  <2>11. \A i \in 0..(n - 1) : h[i] = reached[i + 1]
    BY <2>10
  <2>12. h[0] = b
    <3>1. 0 \in 0..(n - 1) /\ 0 + 1 = 1
      BY <1>2, <2>1
    <3> QED
      BY <2>5, <2>11, <3>1
  <2>13. h[n - 1] = rounds_completed'
    <3>1. n - 1 \in 0..(n - 1) /\ (n - 1) + 1 = n
      BY <1>2, <2>1
    <3>2. rounds_completed' = rounds_completed
      BY <1>6 DEF vars, contractVars
    <3> QED
      BY <1>3, <2>11, <3>1, <3>2
  <2>14. ASSUME NEW i \in 1..(n - 1) PROVE Leads(pending'[i], h[i - 1], h[i])
    <3>1. PICK j : j = i + 1
      OBVIOUS
    <3>2. j \in 1..n /\ j - 1 = i /\ i \in 0..(n - 1) /\ i - 1 \in 0..(n - 1) /\ (i - 1) + 1 = i
      BY <1>2, <3>1
    <3>3. Leads(pending[j], reached[j - 1], reached[j])
      BY <1>3, <3>2
    <3>4. h[i] = reached[j] /\ h[i - 1] = reached[i] /\ pending'[i] = pending[j]
      BY <2>1, <2>11, <3>1, <3>2
    <3> QED
      BY <3>2, <3>3, <3>4
  <2> QED
    BY <2>1, <2>7, <2>8, <2>9, <2>12, <2>13, <2>14 DEF StageInv
<1>7. CASE Ingest
  BY <1>6, <1>7 DEF Ingest
<1>8. CASE IngestLosing
  <2>1. PICK i \in DOMAIN Head(pending) : Deliver(RemoveAt(Head(pending), i))
    BY <1>8 DEF IngestLosing
  <2>2. PICK q : q = RemoveAt(Head(pending), i)
    OBVIOUS
  <2> QED
    BY <1>6, <1>8, <2>1, <2>2 DEF IngestLosing
<1> QED
  BY <1>4, <1>5, <1>7, <1>8 DEF EventNext

-----------------------------------------------------------------------------
(* The versions of the tables.                                             *)

\* The versions after the tables have changed: the earlier ones, perhaps but for
\* the first, and the tables as they are now.
LEMMA NextVersions ==
  ASSUME NEW S, NEW p \in Seq(S), NEW t, NEW u, NEW first \in {1, 2}
  PROVE  LET V == Append(p, t)
             W == Append(SubSeq(V, first, Len(V)), u)
         IN  /\ Len(V) \in Nat /\ Len(V) >= 1 /\ V[Len(V)] = t
             /\ Len(W) = Len(V) - first + 2 /\ W[Len(W)] = u
             /\ \A v \in 1..(Len(W) - 1) :
                  v + first - 1 \in 1..Len(V) /\ W[v] = V[v + first - 1]
<1>1. PICK V : V = Append(p, t)
  OBVIOUS
<1>2. V \in Seq(S \cup {t}) /\ Len(V) = Len(p) + 1 /\ Len(p) \in Nat /\ V[Len(V)] = t
  BY <1>1
<1>3. PICK q : q = SubSeq(V, first, Len(V))
  OBVIOUS
<1>4. /\ q \in Seq(S \cup {t}) /\ Len(q) = Len(V) - first + 1
      /\ \A v \in 1..Len(q) : q[v] = V[v + first - 1]
  BY <1>2, <1>3
<1>5. PICK W : W = Append(q, u)
  OBVIOUS
<1>6. /\ Len(W) = Len(q) + 1 /\ W[Len(W)] = u
      /\ \A v \in 1..Len(q) : W[v] = q[v]
  <2>1. q \in Seq(S \cup {t, u})
    BY <1>4
  <2> QED
    BY <1>5, <2>1
<1>7. \A v \in 1..(Len(W) - 1) : v \in 1..Len(q) /\ v + first - 1 \in 1..Len(V)
  BY <1>2, <1>4, <1>6
<1> QED
  BY <1>1, <1>2, <1>3, <1>4, <1>5, <1>6, <1>7

\* Every version has all of the member rows or none; and while nothing is lost
\* the status moves on from each version to the next.
VersionsMove(V) ==
  /\ \A v \in 1..Len(V) : MembersIn(V[v])
  /\ altered = {} => \A v \in 1..(Len(V) - 1) : Moved(V[v], V[v + 1])

RowsInv == StageInv /\ (\E S : past \in Seq(S)) /\ VersionsMove(Versions)

\* A step that changes the tables while nothing is lost moves the status on.
LEMMA TablesMove ==
  ASSUME EventInv, EventNext, tables' # tables, altered' = {}
  PROVE  altered = {} /\ Moved(tables, tables')
<1>1. Ingest
  <2>1. ~Invocation /\ ~Quiet
    BY DEF Invocation, Quiet, AdvanceLedger, add_authorized_caller, contractVars, eventVars,
       allVars, vars, Publish
  <2>2. ~IngestLosing
    <3>1. IngestLosing => altered' # {}
      BY DEF IngestLosing
    <3> QED
      BY <3>1
  <2> QED
    BY <2>1, <2>2 DEF EventNext
<1>2. pending # <<>> /\ altered = {}
  BY <1>1 DEF Ingest
<1>3. PICK g : Ahead(g)
  BY <1>2 DEF EventInv
<1>4. Head(pending) = pending[1] /\ 1 \in 1..Len(pending) /\ 1 - 1 = 0 /\ 0 \in 0..Len(pending)
  BY <1>2 DEF EventInv
<1>5. /\ g[0] = [tables |-> tables, rejected |-> rejected]
      /\ g[1] = Applied(g[0], pending[1])
      /\ Moved(g[0].tables, g[1].tables)
  BY <1>3, <1>4 DEF Ahead
<1>6. tables' = g[1].tables
  BY <1>1, <1>4, <1>5 DEF Ingest, Deliver
<1>7. g[0].tables = tables
  BY <1>5
<1> QED
  BY <1>2, <1>5, <1>6, <1>7

\* So no step of the page undoes what the versions have in common.
LEMMA RowsStep ==
  IndInv /\ EventInv /\ RowsInv /\ [PageNext]_pageVars => RowsInv'
<1> SUFFICES ASSUME IndInv, EventInv, RowsInv, [PageNext]_pageVars PROVE RowsInv'
  OBVIOUS
<1>1. [EventNext]_allVars
  BY DEF PageNext, pageVars
<1>2. StageInv'
  BY <1>1, StageStep DEF RowsInv
<1>3. PICK S : past \in Seq(S)
  BY DEF RowsInv
<1>4. altered' = {} => altered = {}
  <2>1. CASE Invocation
    BY <2>1 DEF Invocation, Publish
  <2>2. CASE Quiet
    BY <2>2 DEF Quiet, eventVars
  <2>3. CASE Ingest \/ UNCHANGED allVars
    BY <2>3 DEF Ingest, allVars, eventVars
  <2>4. CASE IngestLosing
    BY <2>4 DEF IngestLosing
  <2> QED
    BY <1>1, <2>1, <2>2, <2>3, <2>4 DEF EventNext
<1>5. CASE past' = past /\ tables' = tables
  BY <1>2, <1>3, <1>4, <1>5 DEF RowsInv, VersionsMove, Versions
<1>6. ASSUME PageNext, tables' # tables PROVE RowsInv'
  <2>1. past' = SubSeq(Append(past, tables), IF Len(Append(past, tables)) > MaxTorn
                                               THEN 2 ELSE 1, Len(Append(past, tables)))
    BY <1>6 DEF PageNext
  <2>2. PICK first \in {1, 2} :
          past' = SubSeq(Append(past, tables), first, Len(Append(past, tables)))
    BY <2>1
  <2>3. PICK V, W : V = Versions /\ W = Versions'
    OBVIOUS
  <2>4. /\ Len(V) \in Nat /\ Len(V) >= 1 /\ V[Len(V)] = tables
        /\ Len(W) = Len(V) - first + 2 /\ W[Len(W)] = tables'
        /\ \A v \in 1..(Len(W) - 1) :
             v + first - 1 \in 1..Len(V) /\ W[v] = V[v + first - 1]
    <3>1. PICK u : u = tables'
      OBVIOUS
    <3>2. V = Append(past, tables) /\ W = Append(SubSeq(V, first, Len(V)), u)
      BY <2>2, <2>3, <3>1 DEF Versions
    <3> QED
      BY <1>3, <3>1, <3>2, NextVersions
  <2>5. \E T : past' \in Seq(T)
    <3>1. PICK q : q = past'
      OBVIOUS
    <3>2. q \in Seq(S \cup {tables})
      BY <1>3, <2>2, <3>1, OneMoreOld
    <3> QED
      BY <3>1, <3>2
  <2>6. MembersIn(tables')
    <3>1. PICK k : AtRound(tables', k)
      BY <1>2 DEF StageInv
    <3> QED
      BY <3>1 DEF AtRound, PaidUpTo
  <2>7. ASSUME NEW v \in 1..Len(W) PROVE MembersIn(W[v])
    <3>1. CASE v = Len(W)
      BY <2>4, <2>6, <3>1
    <3>2. CASE v # Len(W)
      <4>1. v \in 1..(Len(W) - 1)
        BY <2>4, <3>2
      <4> QED
        BY <2>3, <2>4, <4>1 DEF RowsInv, VersionsMove
    <3> QED
      BY <3>1, <3>2
  <2>8. ASSUME altered' = {}, NEW v \in 1..(Len(W) - 1) PROVE Moved(W[v], W[v + 1])
    <3>1. PICK k : k = v + first - 1
      OBVIOUS
    <3>2. k \in 1..Len(V) /\ W[v] = V[k]
      BY <2>4, <3>1
    <3>3. CASE v + 1 = Len(W)
      <4>1. k = Len(V)
        BY <2>4, <3>1, <3>3
      <4>2. Moved(tables, tables')
        BY <1>6, <2>8, TablesMove DEF PageNext
      <4> QED
        BY <2>4, <3>2, <3>3, <4>1, <4>2
    <3>4. CASE v + 1 # Len(W)
      <4>1. v + 1 \in 1..(Len(W) - 1) /\ (v + 1) + first - 1 = k + 1 /\ k \in 1..(Len(V) - 1)
        BY <2>4, <3>1, <3>4
      <4>2. W[v + 1] = V[k + 1]
        BY <2>4, <4>1
      <4>3. Moved(V[k], V[k + 1])
        BY <1>4, <2>3, <2>8, <4>1 DEF RowsInv, VersionsMove
      <4> QED
        BY <3>2, <4>2, <4>3
    <3> QED
      BY <3>3, <3>4
  <2>9. VersionsMove(W)'
    BY <2>7, <2>8 DEF VersionsMove, MembersIn, Moved, RowIn
  <2> QED
    BY <1>2, <2>3, <2>5, <2>9 DEF RowsInv
<1> QED
  <2>1. CASE UNCHANGED pageVars
    <3>1. past' = past /\ tables' = tables
      BY <2>1 DEF pageVars, allVars, eventVars
    <3> QED
      BY <1>5, <3>1
  <2>2. CASE PageNext
    BY <1>5, <1>6, <2>2 DEF PageNext
  <2> QED
    BY <2>1, <2>2

\* At the start there is one version, and nothing in it.
LEMMA RowsInit == PageInit => RowsInv
<1> SUFFICES ASSUME PageInit PROVE RowsInv
  OBVIOUS
<1>1. StageInv /\ past = <<>>
  BY StageInit DEF PageInit
<1>2. past \in Seq({}) /\ \E k : AtRound(tables, k)
  BY <1>1 DEF StageInv
<1>3. MembersIn(tables)
  BY <1>2 DEF AtRound, PaidUpTo
<1>4. PICK V : V = Versions
  OBVIOUS
<1>5. Len(V) = 1 /\ V[1] = tables
  BY <1>1, <1>4 DEF Versions
<1>6. 1..Len(V) = {1} /\ 1..(Len(V) - 1) = {}
  BY <1>5
<1>7. VersionsMove(V)
  BY <1>3, <1>5, <1>6 DEF VersionsMove
<1> QED
  BY <1>1, <1>2, <1>4, <1>7 DEF RowsInv

\* The versions of the tables along a run of the page.
LEMMA RowsInvariance == PageSpec => [](IndInv /\ PageInv /\ RowsInv)
<1>1. IndInv /\ PageInv => EventInv
  BY DEF PageInv
<1>2. PageSpec => []EventInv
  BY <1>1, PageInvariance, PTL
<1>3. PageSpec => []RowsInv
  BY <1>2, RowsInit, RowsStep, PageInvariance, PTL DEF PageSpec
<1> QED
  BY <1>3, PageInvariance, PTL

-----------------------------------------------------------------------------
(* Advice, payouts and the lifecycle.                                      *)

\* Where a row's status moves, the lifecycle table has the move.
LEMMA MovesAreValid ==
  ASSUME NEW from, NEW to, Onward(from, to), from # to
  PROVE  App!isValidTransition(from, to)
<1>1. PICK table : table = App!VALID_TRANSITIONS
  OBVIOUS
<1>2. /\ DOMAIN table = {"Pending", "Active", "Completed", "Cancelled", "Closed"}
      /\ table["Pending"] = {"Active", "Cancelled"} /\ table["Active"] = {"Completed"}
      /\ table["Completed"] = {"Closed"} /\ table["Cancelled"] = {"Closed"}
  BY <1>1 DEF App!VALID_TRANSITIONS
<1>3. from \in DOMAIN table /\ to \in table[from]
  BY <1>2 DEF Onward
<1> QED
  BY <1>1, <1>3, Zenon DEF App!isValidTransition

\* So the versions suffice for the lifecycle.
LEMMA StatusSuffices == RowsInv => StatusMovesOn
<1> SUFFICES ASSUME RowsInv, altered = {}, NEW v \in 1..(Latest - 1), Ready(v)
             PROVE  \/ RowAt(v).status = RowAt(v + 1).status
                    \/ App!isValidTransition(RowAt(v).status, RowAt(v + 1).status)
  BY Zenon DEF StatusMovesOn
<1>1. Moved(Versions[v], Versions[v + 1])
  BY DEF RowsInv, VersionsMove, Latest
<1>2. Onward(RowAt(v).status, RowAt(v + 1).status)
  BY <1>1 DEF Moved, Ready, RowAt, RowIn
<1> QED
  BY <1>2, MovesAreValid

\* The members that the rows of a version give.
LEMMA MembersCounted ==
  ASSUME NEW t, MembersIn(t)
  PROVE  /\ parseMemberRows(t) # <<>> =>
              DOMAIN t.circle_members = {<<CircleAddress, m>> : m \in MemberSet}
         /\ DOMAIN t.circle_members # {} =>
              /\ Len(parseMemberRows(t)) = N /\ parseMemberRows(t) # <<>>
              /\ {k[2] : k \in DOMAIN t.circle_members} = MemberSet
<1>1. PICK all : all = {k[2] : k \in DOMAIN t.circle_members}
  OBVIOUS
<1>2. PICK p : p = parseMemberRows(t)
  OBVIOUS
<1>3. p = [i \in 1..Cardinality(all) |->
             CHOOSE m \in all : t.circle_members[<<CircleAddress, m>>].payout_order = i - 1]
  BY <1>1, <1>2 DEF parseMemberRows
<1>4. CASE DOMAIN t.circle_members = {}
  <2>1. all = {}
    BY <1>1, <1>4
  <2>2. Cardinality(all) = 0
    BY <2>1, FS_EmptySet
  <2>3. p = <<>>
    BY <1>3, <2>2
  <2> QED
    BY <1>2, <1>4, <2>3
<1>5. CASE DOMAIN t.circle_members = {<<CircleAddress, m>> : m \in MemberSet}
  <2>1. all = MemberSet
    <3>1. \A m \in MemberSet : <<CircleAddress, m>> \in DOMAIN t.circle_members
                               /\ <<CircleAddress, m>>[2] = m
      BY <1>5
    <3>2. \A k \in DOMAIN t.circle_members : k[2] \in MemberSet
      BY <1>5
    <3> QED
      BY <1>1, <3>1, <3>2
  <2>2. Cardinality(all) = N /\ N \in Nat /\ N >= 2
    BY <2>1, MembersFinite, RotationFacts
  <2>3. Len(p) = N
    <3>1. p = [i \in 1..N |->
                 CHOOSE m \in all : t.circle_members[<<CircleAddress, m>>].payout_order = i - 1]
      BY <1>3, <2>2
    <3> QED
      BY <2>2, <3>1
  <2>4. p # <<>>
    BY <2>2, <2>3
  <2> QED
    BY <1>1, <1>2, <1>5, <2>1, <2>3, <2>4
<1> QED
  BY <1>4, <1>5 DEF MembersIn

\* Whatever the page's age, what its rounds show as paid was paid.
LEMMA PayoutsSuffice == IndInv /\ TruthInv /\ RowsInv => PayoutsAreDue
<1> SUFFICES ASSUME IndInv, TruthInv, RowsInv, NEW response \in RoundsResponses,
                    NEW w \in MemberSet, NEW v \in {x \in 1..Latest : Ready(x)}, NEW d,
                    d = fetchCircleData(RowAt(v), Versions[v], response),
                    PayoutOffered(d, w, "match"), NEW r \in d.currentRound
             PROVE  contributed[r.roundIndex] = MemberSet
  BY DEF PayoutsAreDue
<1>1. d.members = parseMemberRows(Versions[v]) /\ d.currentRound = response.currentRound
  BY DEF fetchCircleData
<1>2. Len(d.members) = N
  <2>1. MembersIn(Versions[v])
    BY DEF RowsInv, VersionsMove, Latest
  <2>2. d.members # <<>>
    BY DEF PayoutOffered
  <2>3. N >= 2 /\ N \in Nat /\ 1 \in 1..N
    BY RotationFacts
  <2>4. DOMAIN Versions[v].circle_members # {}
    <3>1. DOMAIN Versions[v].circle_members = {<<CircleAddress, m>> : m \in MemberSet}
      BY <1>1, <2>1, <2>2, MembersCounted
    <3>2. <<CircleAddress, w>> \in DOMAIN Versions[v].circle_members
      BY <3>1
    <3> QED
      BY <3>2
  <2> QED
    BY <1>1, <2>1, <2>4, MembersCounted
<1>3. PICK s \in [1..4 -> 1..Latest] :
        response = RoundsResponse(RowAt(s[1]), Versions[s[2]], Versions[s[3]],
                                  Versions[s[4]])
  BY DEF RoundsResponses
<1>4. PICK row, p, c, f : /\ row = RowAt(s[1]) /\ p = Versions[s[2]]
                          /\ c = Versions[s[3]] /\ f = Versions[s[4]]
  OBVIOUS
<1>5. s[3] \in 1..Latest
  BY <1>3
<1>6. /\ \A q \in d.currentRound : /\ q.roundIndex = row.current_round
                                   /\ q.contributions = ContributionsOf(c, row.current_round)
      /\ \A q, z \in d.currentRound : q = z
  <2>1. PICK now : now = RoundsResponse(row, p, c, f).currentRound
    OBVIOUS
  <2>2. /\ \A q \in now : /\ q.roundIndex = row.current_round
                          /\ q.contributions = ContributionsOf(c, row.current_round)
        /\ \A q, z \in now : q = z
    BY <2>1, CurrentRoundIs
  <2>3. d.currentRound = now
    BY <1>1, <1>3, <1>4, <2>1
  <2> QED
    BY <2>2, <2>3
<1>7. True(c)
  <2>1. s[3] \in 1..Len(past) \/ Versions[s[3]] = tables
    <3>1. PICK S : past \in Seq(S)
      BY DEF TruthInv
    <3>2. past \in Seq(S \cup {tables}) /\ Len(past) \in Nat
      BY <3>1
    <3> QED
      BY <1>5, <3>2 DEF Latest, Versions
  <2>2. s[3] \in 1..Len(past) => Versions[s[3]] = past[s[3]]
    <3>1. PICK S : past \in Seq(S)
      BY DEF TruthInv
    <3>2. past \in Seq(S \cup {tables}) /\ Len(past) \in Nat
      BY <3>1
    <3> QED
      BY <3>2 DEF Versions
  <2> QED
    BY <1>4, <2>1, <2>2 DEF TruthInv, TablesAreTrue
<1>8. PICK k : k = r.roundIndex
  OBVIOUS
<1>9. r.contributions \subseteq contributed[k] /\ (r.contributions # {} => k \in Rounds)
  <2>1. ASSUME NEW m \in r.contributions PROVE k \in Rounds /\ m \in contributed[k]
    <3>1. PICK q \in DOMAIN c.contributions : q[3] = k /\ m = q[2]
      BY <1>6, <1>8, <2>1 DEF ContributionsOf
    <3>2. PICK a \in MemberSet, j \in Rounds : q = <<CircleAddress, a, j>> /\ a \in contributed[j]
      BY <1>7, <3>1 DEF True, TrueTables
    <3> QED
      BY <3>1, <3>2
  <2> QED
    BY <2>1
<1>10. ContributionsReceived(d) = Cardinality(r.contributions)
  <2>1. (CHOOSE q \in d.currentRound : TRUE) = r
    BY <1>6
  <2> QED
    BY <2>1 DEF ContributionsReceived
<1>11. ~(Cardinality(r.contributions) < N)
  <2>0. PICK net : net = "match"
    OBVIOUS
  <2>1. PICK x : x = buildAppSnapshot(d, w, net)
    OBVIOUS
  <2>9. x.fresh = TRUE /\ x.networkCheck = net /\ x.memberAddresses = Len(d.members)
        /\ x.contributionsReceived = ContributionsReceived(d)
    BY <2>1 DEF buildAppSnapshot
  <2>2. /\ x.fresh = TRUE /\ x.networkCheck = "match"
        /\ x.memberAddresses = N /\ x.contributionsReceived = Cardinality(r.contributions)
    BY <1>2, <1>10, <2>0, <2>9
  <2>3. App!computeActionEligibility("payout", x) = "allowed"
    BY <2>0, <2>1 DEF PayoutOffered, Allowed
  <2>4. App!computeActionEligibility("payout", x) =
          IF x.status # "Active" THEN "wrong_status"
          ELSE IF x.contributionsReceived < x.memberAddresses
                 THEN "round_not_complete" ELSE "allowed"
    BY <2>2, AppVerdict
  <2> QED
    BY <2>2, <2>3, <2>4
<1>12. r.contributions = MemberSet /\ contributed[k] \subseteq MemberSet
  <2>1. N >= 2 /\ N \in Nat
    BY RotationFacts
  <2>2. r.contributions # {}
    <3>1. Cardinality({}) = 0
      BY FS_EmptySet
    <3> QED
      BY <1>11, <2>1, <3>1
  <2>3. k \in Rounds
    BY <1>9, <2>2
  <2>4. contributed[k] \subseteq MemberSet
    BY <2>3 DEF IndInv, TypeOK
  <2>5. r.contributions \in SUBSET MemberSet
    BY <1>9, <2>4
  <2>6. /\ Cardinality(r.contributions) <= N
        /\ N = Cardinality(r.contributions) => MemberSet = r.contributions
    BY <2>5, MembersFinite, FS_Subset
  <2>7. Cardinality(r.contributions) \in Nat
    BY <2>5, MembersFinite, FS_Subset, FS_CardinalityType
  <2>8. N = Cardinality(r.contributions)
    BY <1>11, <2>1, <2>6, <2>7
  <2> QED
    BY <2>4, <2>6, <2>8
<1> QED
  BY <1>8, <1>9, <1>12

\* Nothing is offered on the wrong network.
LEMMA MismatchOffersNothing ==
  ASSUME NEW d, NEW w, NEW net, net = "mismatch"
  PROVE  /\ ~JoinOffered(d, w, net) /\ ~ContributeOffered(d, w, net)
         /\ ~PayoutOffered(d, w, net) /\ ~CloseOffered(d, w, net)
<1>1. PICK s : s = buildAppSnapshot(d, w, net)
  OBVIOUS
<1>2. s.fresh = TRUE /\ s.networkCheck = net
  BY <1>1 DEF buildAppSnapshot
<1>3. \A action : App!computeActionEligibility(action, s) = "network_mismatch"
  BY <1>2, AppVerdict
<1>4. \A action : ~Allowed(action, d, w, net)
  BY <1>1, <1>3 DEF Allowed
<1> QED
  BY <1>4 DEF JoinOffered, ContributeOffered, PayoutOffered, CloseOffered

\* A circle that waits for members is not full.
LEMMA PendingIsOpen ==
  ASSUME NEW t, Whole(t), NEW d, d.circle = RowIn(t),
         d.row = [m \in {k[2] : k \in DOMAIN t.circle_members} |->
                    t.circle_members[<<CircleAddress, m>>]]
  PROVE  buildJoinIntroContent(d) # "pending_full"
<1>1. WholeMembers(t) /\ WholeRow(t)
  BY DEF Whole
<1>2. PICK J : J = {m \in DOMAIN d.row : d.row[m].collateral > 0}
  OBVIOUS
<1>3. d.circle.member_count = N /\ d.circle.status \in CircleStatus \cup {"Closed"}
  BY <1>1 DEF WholeRow
<1>4. CASE d.circle.status = "Pending"
  <2>1. PICK m \in MemberSet : t.circle_members[<<CircleAddress, m>>].collateral = 0
    BY <1>1, <1>4 DEF WholeRow
  <2>2. DOMAIN d.row = MemberSet
    <3>1. DOMAIN t.circle_members = {<<CircleAddress, a>> : a \in MemberSet}
      BY <1>1 DEF WholeMembers
    <3>2. \A a \in MemberSet : <<CircleAddress, a>> \in DOMAIN t.circle_members
                               /\ <<CircleAddress, a>>[2] = a
      BY <3>1
    <3>3. \A k \in DOMAIN t.circle_members : k[2] \in MemberSet
      BY <3>1
    <3>4. {k[2] : k \in DOMAIN t.circle_members} = MemberSet
      BY <3>2, <3>3
    <3> QED
      BY <3>4
  <2>3. m \notin J
    <3>1. d.row[m].collateral = 0
      BY <2>1, <2>2
    <3> QED
      BY <1>2, <3>1
  <2>4. J \in SUBSET MemberSet /\ J # MemberSet
    BY <1>2, <2>1, <2>2, <2>3
  <2>5. Cardinality(J) \in Nat /\ Cardinality(J) <= N /\ Cardinality(J) # N /\ N \in Nat
    BY <2>4, MembersFinite, RotationFacts, FS_Subset, FS_CardinalityType
  <2>6. ~(Cardinality(J) >= d.circle.member_count)
    BY <1>3, <2>5
  <2>7. Cardinality(J) < d.circle.member_count
    BY <1>3, <2>5
  <2> QED
    BY <1>2, <1>4, <2>6, <2>7 DEF buildJoinIntroContent
<1>5. CASE d.circle.status # "Pending"
  <2>1. buildJoinIntroContent(d) = d.circle.status
    BY <1>5 DEF buildJoinIntroContent
  <2> QED
    BY <1>3, <2>1 DEF CircleStatus
<1> QED
  BY <1>4, <1>5

\* Who is told to contribute can.
LEMMA DueCanContribute ==
  ASSUME NEW k \in Nat, NEW t, AtRound(t, k), HasCircle(t),
         NEW d, d = getCircleDetail(RowIn(t), t, RoundsResponse(RowIn(t), t, t, t)),
         NEW w, WorkflowBanner(d, w) = "due"
  PROVE  ContributeOffered(d, w, "match")
<1>1. /\ d.circle = RowIn(t) /\ d.members = parseMemberRows(t)
      /\ d.deadline_ledger = circleDeadline(RowIn(t))
      /\ d.currentRound = RoundsResponse(RowIn(t), t, t, t).currentRound
      /\ DOMAIN d.row = {a[2] : a \in DOMAIN t.circle_members}
  BY DEF getCircleDetail, fetchCircleData
<1>2. d.circle.status = "Active" /\ w \in DOMAIN d.row /\ ~HasContributed(d, w)
  <2>1. /\ d.circle.status = "Pending" /\ w \notin DOMAIN d.row => FALSE
        /\ ~(d.circle.status = "Active" /\ w \in DOMAIN d.row) => FALSE
    BY DEF WorkflowBanner
  <2>2. d.circle.status = "Active" /\ w \in DOMAIN d.row
    BY <2>1
  <2>3. ~HasContributed(d, w)
    BY <2>2 DEF WorkflowBanner
  <2> QED
    BY <2>2, <2>3
<1>3. d.members # <<>>
  <2>1. MembersIn(t) /\ DOMAIN t.circle_members # {}
    BY <1>1, <1>2 DEF AtRound, PaidUpTo
  <2> QED
    BY <1>1, <2>1, MembersCounted
<1>4. d.currentRound # {}
  <2>1. RowIn(t).current_round = k /\ PaidIn(t) \subseteq 0..(k - 1)
    BY <1>1, <1>2 DEF AtRound, PaidUpTo, OnTime
  <2>2. RowIn(t).status = "Active" /\ RowIn(t).current_round \notin PaidIn(t)
    BY <1>1, <1>2, <2>1
  <2>3. PICK row, now : row = RowIn(t) /\ now = RoundsResponse(row, t, t, t).currentRound
    OBVIOUS
  <2>4. now # {}
    BY <2>2, <2>3, CurrentRoundIs
  <2> QED
    BY <1>1, <2>3, <2>4
<1>5. computeDataReadiness(d) = "ready"
  BY <1>3, <1>4 DEF computeDataReadiness
<1>6. d.deadline_ledger = Null
  BY <1>1, <1>2 DEF circleDeadline, round_deadline_column
<1>7. Allowed("contribute", d, w, "match")
  <2>1. PICK net : net = "match"
    OBVIOUS
  <2>2. PICK s : s = buildAppSnapshot(d, w, net)
    OBVIOUS
  <2>3. /\ s.fresh = TRUE /\ s.networkCheck = net /\ s.status = d.circle.status
        /\ s.deadlineLedger = d.deadline_ledger
        /\ s.hasContributedCurrentRound <=> HasContributed(d, w)
    BY <2>2 DEF buildAppSnapshot
  <2>4. App!computeActionEligibility("contribute", s) =
          IF s.status # "Active" THEN "wrong_status"
          ELSE IF /\ s.deadlineLedger # Null /\ s.latestLedger # Null
                  /\ s.latestLedger > s.deadlineLedger THEN "deadline_passed"
          ELSE IF s.hasContributedCurrentRound THEN "already_contributed"
          ELSE "allowed"
    BY <2>1, <2>3, AppVerdict
  <2>5. App!computeActionEligibility("contribute", s) = "allowed"
    BY <1>2, <1>6, <2>3, <2>4
  <2> QED
    BY <2>1, <2>2, <2>5 DEF Allowed
<1> QED
  BY <1>2, <1>5, <1>7 DEF ContributeOffered

\* What the page advises is right.
LEMMA AdviceSuffices == PageInv /\ RowsInv => AdviceHolds
<1> SUFFICES ASSUME PageInv, RowsInv, Ready(Latest), NEW w \in Address,
                    NEW d, d = CurrentPage, NEW p, p = PartialPage
             PROVE  /\ ~JoinOffered(d, w, "mismatch") /\ ~ContributeOffered(d, w, "mismatch")
                    /\ ~PayoutOffered(d, w, "mismatch") /\ ~CloseOffered(d, w, "mismatch")
                    /\ ~ContributeOffered(p, w, "match") /\ ~PayoutOffered(p, w, "match")
                    /\ altered = {} => buildJoinIntroContent(d) # "pending_full"
                    /\ WorkflowBanner(d, w) = "due" => ContributeOffered(d, w, "match")
  BY Zenon DEF AdviceHolds
<1>1. Versions[Latest] = tables
  BY LatestIs DEF RowsInv
<1>2. RowAt(Latest) = RowIn(tables) /\ HasCircle(tables)
  BY <1>1 DEF RowAt, RowIn, Ready, HasCircle
<1>3. /\ ~JoinOffered(d, w, "mismatch") /\ ~ContributeOffered(d, w, "mismatch")
      /\ ~PayoutOffered(d, w, "mismatch") /\ ~CloseOffered(d, w, "mismatch")
  <2>1. PICK net : net = "mismatch"
    OBVIOUS
  <2> QED
    BY <2>1, MismatchOffersNothing
<1>4. ~ContributeOffered(p, w, "match") /\ ~PayoutOffered(p, w, "match")
  <2>1. p.currentRound = {}
    BY DEF PartialPage, fetchCircleData, NoRoundsResponse
  <2>2. p.circle.status = "Active" => computeDataReadiness(p) # "ready"
    BY <2>1 DEF computeDataReadiness
  <2> QED
    BY <2>2 DEF ContributeOffered, PayoutOffered
<1>5. d = getCircleDetail(RowIn(tables), tables,
                          RoundsResponse(RowIn(tables), tables, tables, tables))
  BY <1>2 DEF CurrentPage
<1>6. ASSUME altered = {} PROVE buildJoinIntroContent(d) # "pending_full"
  <2>1. PICK g : Ahead(g)
    BY <1>6 DEF PageInv, EventInv
  <2>2. 0 \in 0..Len(pending)
    <3>1. PICK S : pending \in Seq(S)
      BY DEF PageInv, EventInv
    <3> QED
      BY <3>1
  <2>3. Sound(g[0].tables) /\ g[0].tables = tables
    BY <2>1, <2>2 DEF Ahead
  <2>4. Whole(tables)
    BY <1>2, <2>3 DEF Sound, HasCircle
  <2>5. /\ d.circle = RowIn(tables)
        /\ d.row = [m \in {k[2] : k \in DOMAIN tables.circle_members} |->
                      tables.circle_members[<<CircleAddress, m>>]]
    BY <1>5 DEF getCircleDetail, fetchCircleData
  <2> QED
    BY <2>4, <2>5, PendingIsOpen
<1>7. ASSUME WorkflowBanner(d, w) = "due" PROVE ContributeOffered(d, w, "match")
  <2>1. PICK reached : AtRound(tables, reached[0]) /\ reached[0] \in Nat
    BY DEF RowsInv, StageInv
  <2>2. PICK k \in Nat : AtRound(tables, k)
    BY <2>1
  <2> QED
    BY <1>2, <1>5, <1>7, <2>2, DueCanContribute
<1> QED
  BY <1>3, <1>4, <1>6, <1>7

\* The parts of the property together.
LEMMA ButtonsSuffice == IndInv /\ PageInv /\ RowsInv => ButtonsAreRight
BY ButtonsMatchSuffices, AdviceSuffices, PayoutsSuffice, StatusSuffices
DEF ButtonsAreRight, PageInv

\* Each button of a page that has caught up is there exactly when the contract
\* would take the call, but for what the page does not know; and on any page,
\* whatever the indexer lost and whatever came between its queries, a payout is
\* offered only for a round that everybody has paid into, who is told to
\* contribute can, and nothing is offered that needs rounds which are not there.
THEOREM ButtonsHold == PageSpec => []ButtonsAreRight
BY RowsInvariance, ButtonsSuffice, PTL
=============================================================================
