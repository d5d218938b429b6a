----------------------------- MODULE MCService -----------------------------
(* An instance of the service: the ledgers of MCIndexer's first circle, and  *)
(* two more circles that are created while it runs.                          *)
EXTENDS Service

Ev(l, name, m, r, amount) ==
  [name |-> name, circle |-> "c1", ledger |-> l, member |-> m, round |-> r,
   amount |-> amount]

Initialized(l, c) ==
  [name |-> "initialized", circle |-> c, ledger |-> l,
   members |-> <<"m1", "m2">>, round_amount |-> 10]

Joined(l, m, i) ==
  [name |-> "joined", circle |-> "c1", ledger |-> l, member |-> m,
   join_order |-> i, amount |-> 10]

\* A full life in five ledgers: created, joined by both, a round that both pay,
\* and a round in which one defaults, with its end.
MCLedgers == <<
  << Initialized(1, "c1"), Joined(1, "m1", 1) >>,
  << Ev(2, "active", "m2", 0, 0), Joined(2, "m2", 2), Initialized(2, "c2"),
     Ev(2, "contributed", "m1", 0, 10) >>,
  << Ev(3, "contributed", "m2", 0, 10), Ev(3, "payout", "m1", 0, 20),
     Ev(3, "round_started", "m2", 1, 0), Initialized(3, "c3") >>,
  << Ev(4, "contributed", "m1", 1, 10), Ev(4, "default", "m2", 1, 2) >>,
  << Ev(5, "exceptional_settlement", "m2", 1, 10) @@ [defaulted_count |-> 1],
     Ev(5, "payout", "m2", 1, 10), Ev(5, "completed", "m2", 1, 0) >> >>

MCAddresses == {"c1", "c2"}
MCMembers == {"m1"}
=============================================================================
