-------------------------- MODULE CallerRegistration --------------------------
(***************************************************************************)
(* What a circle and the reputation contract promise each other about one  *)
(* circle: it is registered at most once, revoked at most once and for     *)
(* good, and its members gain points, one at a time, only in between.      *)
(* Module Circle assumes this of its environment and keeps its own side of *)
(* it; module Reputation provides it to every circle.                      *)
(***************************************************************************)
EXTENDS Naturals

CONSTANT Member     \* the addresses that can gain a point

VARIABLES
  standing,         \* "unregistered", "authorized" or "revoked"
  points            \* the points this circle has awarded to each member

Init ==
  /\ standing = "unregistered"
  /\ points = [m \in Member |-> 0]

Register ==
  /\ standing = "unregistered"
  /\ standing' = "authorized"
  /\ UNCHANGED points

Revoke ==
  /\ standing = "authorized"
  /\ standing' = "revoked"
  /\ UNCHANGED points

Award(m) ==
  /\ standing = "authorized"
  /\ points' = [points EXCEPT ![m] = @ + 1]
  /\ UNCHANGED standing

Next == Register \/ Revoke \/ \E m \in Member : Award(m)

Spec == Init /\ [][Next]_<<standing, points>>
=============================================================================
