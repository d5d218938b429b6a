--------------------------- MODULE MCCircleClient ---------------------------
(* Instances of the SDK's client of one member beside the contract.         *)
EXTENDS Diagnosis

\* carol is not a member.
MCAddress == {"alice", "bob", "carol"}
MCTwo == <<"bob", "alice">>
MCFunds == [m \in MemberSet |-> round_amount * (N + 1)]
=============================================================================
