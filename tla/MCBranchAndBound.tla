-------------------------- MODULE MCBranchAndBound --------------------------
(***************************************************************************)
(* Small instances of BranchAndBound: a batch takes either of two totals,  *)
(* and all but its last iteration take one unit.                           *)
(***************************************************************************)
EXTENDS BranchAndBound

CONSTANT LastTimes \* times of the last iteration of a batch

MCBatchTimes ==
    {[k \in 1..NPFrame |-> IF k = NPFrame THEN t ELSE 1] : t \in LastTimes}
=============================================================================
