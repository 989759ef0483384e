-------------------------------- MODULE Sums ---------------------------------
(* Running totals: what the first k numbers of a sequence add up to.       *)
EXTENDS Integers, Sequences

PartialSums(lens) ==
  LET sum[k \in 0 .. Len(lens)] == IF k = 0 THEN 0 ELSE sum[k - 1] + lens[k] IN sum
=============================================================================
