------------------------------- MODULE Powers -------------------------------
(***************************************************************************)
(* Powers of whole numbers, as 2 ** attempt, 1n << 6n and 10n ** decimals  *)
(* compute them.                                                           *)
(***************************************************************************)
EXTENDS Naturals

Pow(b, n) == LET p[k \in 0 .. n] == IF k = 0 THEN 1 ELSE b * p[k - 1] IN p[n]
=============================================================================
