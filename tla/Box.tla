--------------------------------- MODULE Box ---------------------------------
(***************************************************************************)
(* The parameters of the box that the initial particles are put into and   *)
(* that the walls of the leapfrog step close: params.hpp.                  *)
(***************************************************************************)
EXTENDS Integers

CONSTANTS Size, \* simsize
          RC    \* cut_off

ASSUME BoxAssumption == Size \in Nat \ {0} /\ RC \in 1..Size

(* main rounds the size up to whole cells (nbmpi.cpp:32).                  *)
ASSUME GridAssumption == Size % RC = 0
=============================================================================
