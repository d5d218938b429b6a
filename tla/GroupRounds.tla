----------------------------- MODULE GroupRounds -----------------------------
(***************************************************************************)
(* How the API groups payouts, contributions and defaults into rounds       *)
(* (indexer/src/groupRounds.ts), from a circle's row and the rounds that    *)
(* the rows of the three tables name.                                       *)
(***************************************************************************)
EXTENDS Integers

\* A payout outweighs what the circle's row says.
resolveStatus(r, hasPayout, row) ==
  CASE hasPayout -> "completed"
    [] ~hasPayout /\ r = row.current_round /\ row.status = "Active" -> "current"
    [] ~hasPayout /\ r = row.current_round /\ row.status = "Cancelled" ->
         "cancelled"
    [] OTHER -> "open"

\* Every round with a row, and the current one, with its status.
groupCircleRounds(row, paid, contributed, defaulted) ==
  LET current == IF row.status \in {"Active", "Cancelled"}
                   THEN {row.current_round} ELSE {}
  IN  [r \in paid \cup contributed \cup defaulted \cup current |->
         resolveStatus(r, r \in paid, row)]
=============================================================================
