------------------------------- MODULE Sums --------------------------------
(* The sum of a sequence of numbers.                                       *)
EXTENDS Integers, Sequences

SumSeq(q) ==
    LET sum[n \in 0..Len(q)] == IF n = 0 THEN 0 ELSE sum[n - 1] + q[n]
    IN  sum[Len(q)]
============================================================================
