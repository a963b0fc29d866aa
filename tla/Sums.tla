-------------------------------- MODULE Sums --------------------------------
(* The sum of a sequence of numbers, as a loop adds them up.                *)
EXTENDS Naturals, Sequences

SumOf(s) ==
  LET sum[n \in 0..Len(s)] == IF n = 0 THEN 0 ELSE sum[n - 1] + s[n]
  IN sum[Len(s)]
=============================================================================
