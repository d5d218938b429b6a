-------------------------- MODULE MCReconciliation --------------------------
(* Instances of the contract, the indexer's handlers and the tools.        *)
EXTENDS Reconciliation

MCAddress == {"alice", "bob", "admin"}
MCTwo == <<"bob", "alice">>
MCFunds == [m \in MemberSet |-> round_amount * (N + 1)]

\* One event per kind of effect: a row, a counter, a round, a final status.
MCLosable == {"contributed", "default", "payout", "round_started", "completed"}
=============================================================================
