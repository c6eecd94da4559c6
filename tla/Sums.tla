-------------------------------- MODULE Sums --------------------------------
(***************************************************************************)
(* Adding up, as a recursive function that can be reasoned about.          *)
(***************************************************************************)
EXTENDS Integers

(* What w[1] to w[k] add up to, for every k up to n.                       *)
Totals(w, n) ==
    LET total[k \in 0..n] == IF k = 0 THEN 0 ELSE total[k - 1] + w[k]
    IN total
=============================================================================
