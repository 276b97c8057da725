-------------------------------- MODULE Sums --------------------------------
(***************************************************************************)
(* Sums of the first entries of a function on 1..n, as a recursive         *)
(* function, so that the proofs can unfold them.                           *)
(***************************************************************************)
EXTENDS Integers

\* h[1] + ... + h[n]
SumTo(n, h) ==
  LET upto[j \in 0..n] == IF j = 0 THEN 0 ELSE upto[j - 1] + h[j]
  IN upto[n]
=============================================================================
