-------------------------------- MODULE Sums --------------------------------
(***************************************************************************)
(* Sums along a sequence of numbers.  Written as a recursive function, so  *)
(* that SumsProofs can reason about it.                                    *)
(***************************************************************************)
EXTENDS Integers

\* The sums of the first 0, 1, ..., n numbers v[1], ..., v[n].
PartialSums(v, n) ==
  LET sum[i \in 0..n] == IF i = 0 THEN 0 ELSE sum[i - 1] + v[i] IN sum
=============================================================================
