---------------------------- MODULE MCCirclePage ----------------------------
(* An instance of the contract, the indexer's handlers and the page.       *)
EXTENDS CirclePage

MCAddress == {"alice", "bob", "admin"}
MCTwo == <<"bob", "alice">>
MCFunds == [m \in MemberSet |-> round_amount * (N + 1)]

MCLosable == {"contributed", "default", "payout"}
=============================================================================
