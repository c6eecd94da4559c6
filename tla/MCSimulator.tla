---------------------------- MODULE MCSimulator ----------------------------
(***************************************************************************)
(* Small instances of Simulator: the branch and bound found a cost of 1    *)
(* and an efficiency of 1 for a load balancing.  The files of decisions    *)
(* hold two frames' worth: one dataset, one that replaces an earlier one,  *)
(* and one whose last line is a number alone.                              *)
(***************************************************************************)
EXTENDS Simulator

MCFirstEff == <<1, 1>>

MCFiles == {<<<<5, 1>>, <<5, 0>>>>,
            <<<<5, 0>>, <<7>>, <<5, 1>>, <<5, 1>>>>,
            <<<<5, 0>>, <<7>>, <<5, 0>>, <<5, 1>>, <<7>>>>}
=============================================================================
