------------------------------ MODULE MCCircle ------------------------------
(* Instances of the circle contract for TLC.                               *)
EXTENDS Circle

MCAddress == {"alice", "bob", "carol", "admin"}

MCTwo == <<"bob", "alice">>
MCThree == <<"bob", "alice", "carol">>

\* Everyone can pay the deposit and every contribution.
MCRich == [m \in MemberSet |-> round_amount * (N + 1)]

\* The first member of the rotation can just pay the deposit and the first
\* contribution; it lives on the pot after that.
MCPoor == [m \in MemberSet |->
             IF m = members[1] THEN round_amount * 2 ELSE round_amount * (N + 1)]

MCFirst == {members[1]}
=============================================================================
