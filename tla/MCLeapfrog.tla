----------------------------- MODULE MCLeapfrog -----------------------------
(***************************************************************************)
(* A small instance of Leapfrog: a box of one cut-off, the least that main *)
(* can make, so that one step can nearly cross it, and kicks in both       *)
(* directions that exceed the cut-off together.                            *)
(***************************************************************************)
EXTENDS Leapfrog

Kicks == {-7, 0, 5}
Initial == {-25, 0, 11}
=============================================================================
