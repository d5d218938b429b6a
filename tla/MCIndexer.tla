----------------------------- MODULE MCIndexer -----------------------------
(* An instance of the indexer: the events of two circles with the same two  *)
(* members, one that runs to its close and one that is cancelled, over five  *)
(* ledgers (deadlines are scaled down), a score that a circle of another     *)
(* factory raises, and one event of the legacy reputation contract.          *)
EXTENDS Indexer

Ev(l, name, c, m, r, amount) ==
  [name |-> name, contract |-> c, circle |-> c, ledger |-> l,
   member |-> m, round |-> r, amount |-> amount]

Initialized(l, c) ==
  [name |-> "initialized", contract |-> c, circle |-> c, ledger |-> l,
   members |-> <<"m1", "m2">>, round_amount |-> 10]

CallerAdded(l, c) ==
  [name |-> "caller_added", contract |-> "reputation", circle |-> c,
   ledger |-> l]

Created(l, c) ==
  [name |-> "circle_created", contract |-> "factory", circle |-> c,
   ledger |-> l, creator |-> "m1"]

Joined(l, c, m, i) ==
  [name |-> "joined", contract |-> c, circle |-> c, ledger |-> l,
   member |-> m, join_order |-> i, amount |-> 10]

Exceptional(l, c, m, r, pot, missing) ==
  [name |-> "exceptional_settlement", contract |-> c, circle |-> c,
   ledger |-> l, member |-> m, round |-> r, amount |-> pot,
   defaulted_count |-> missing]

Score(l, m, n) ==
  [name |-> "score_updated", contract |-> "reputation", ledger |-> l,
   member |-> m, score |-> n]

Legacy(l, m, n) ==
  [name |-> "increment", contract |-> "reputation", ledger |-> l,
   topics |-> <<"reputation", "increment", m>>, score |-> n]

Closed(l, c, m, released) ==
  [name |-> "closed", contract |-> c, circle |-> c, ledger |-> l,
   member |-> m, amount |-> released, reason |-> "completed"]

MCChain == <<
  << Legacy(1, "m3", 1), Initialized(1, "c1"), CallerAdded(1, "c1"),
     Created(1, "c1"), Joined(1, "c1", "m1", 1) >>,
  << Ev(2, "active", "c1", "m2", 0, 0), Joined(2, "c1", "m2", 2),
     Ev(2, "contributed", "c1", "m1", 0, 10),
     Initialized(2, "c2"), CallerAdded(2, "c2"), Created(2, "c2") >>,
  << Ev(3, "default", "c1", "m2", 0, 2),
     Exceptional(3, "c1", "m1", 0, 10, 1), Score(3, "m1", 1),
     Ev(3, "payout", "c1", "m1", 0, 10),
     Ev(3, "round_started", "c1", "m2", 1, 0), Joined(3, "c2", "m1", 1) >>,
  << >>,
  << Ev(5, "cancelled", "c2", "m2", 0, 0), Score(5, "m1", 2),
     Ev(5, "default", "c1", "m1", 1, 2), Ev(5, "default", "c1", "m2", 1, 1),
     Exceptional(5, "c1", "m2", 1, 0, 2), Score(5, "m2", 1),
     Ev(5, "payout", "c1", "m2", 1, 0), Ev(5, "completed", "c1", "m2", 1, 0),
     Closed(5, "c1", "m1", 15) >> >>

\* A full replay from the start and one from ledger 3, partial ones, a retry of
\* the failures from the oldest and from a ledger; a full one from ledger 3
\* whose token was not typed, one that was typed for another plan, and a dry
\* run.
Command(from, mode, token) ==
  [from |-> from, partial |-> mode = "partial", dryRun |-> FALSE,
   retryFailed |-> mode = "retry-failed", confirm |-> token]

MCCommands ==
  {Command(0, "full", <<"full", 0>>), Command(3, "partial", <<"partial", 3>>),
   Command(3, "full", <<"full", 3>>), Command(3, "full", <<>>),
   Command(3, "full", <<"partial", 3>>),
   Command(3, "retry-failed", <<"retry-failed", 3>>),
   [Command(0, "full", <<"full", 0>>) EXCEPT !.dryRun = TRUE]}
    \cup {Command(-1, "retry-failed", <<"retry-failed", l>>) : l \in 1..5}

\* The build of today, and builds that lack some of its schemas.
MCToday == {Projected}
MCBuilds == MCToday \cup {Projected \ {"score_updated", "initialized"},
                         Projected \ {"circle_created"}}
=============================================================================
