------------------------------- MODULE Powers -------------------------------
(* u64's pow, without a limit of width, as a recursive function: the       *)
(* provers know nothing of the exponentiation of Naturals.                 *)
EXTENDS Naturals

Power(b, n) == LET p[i \in 0..n] == IF i = 0 THEN 1 ELSE b * p[i - 1] IN p[n]
=============================================================================
