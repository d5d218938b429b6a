-------------------------------- MODULE Sums --------------------------------
(* Sums along a sequence, the loops that add up one amount per member, and    *)
(* over a column of a table.                                                 *)
EXTENDS Integers, Sequences, FiniteSetsExt

\* PartialSum(s, f)[i] is f[s[1]] + ... + f[s[i]].
PartialSum(s, f) ==
  LET part[i \in 0..Len(s)] == IF i = 0 THEN 0 ELSE part[i - 1] + f[s[i]]
  IN  part

SumAlong(s, f) == PartialSum(s, f)[Len(s)]

SumOf(amounts) == MapThenSumSet(LAMBDA k : amounts[k], DOMAIN amounts)
=============================================================================
