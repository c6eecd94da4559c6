---------------------------- MODULE MCCellLists ----------------------------
(***************************************************************************)
(* Small instances of CellLists: a few positions, chosen so that the boxes *)
(* they span differ in size in every dimension, start at 0 or not, and end *)
(* on a face of a cell or not; regions cut in x or in y.  The boxes have a *)
(* margin of two cells except where it would begin below 0, so a particle  *)
(* is in an outer cell only next to 0.  With the regions Slices, where the *)
(* code finds the right neighbours of an outer cell as they depend on x    *)
(* only, such a particle has no other rank to go to when it is at x = 0,   *)
(* one at x = 2 and two at x = 4.                                          *)
(***************************************************************************)
EXTENDS CellLists

Spread == {<<0, 0, 0>>, <<2, 0, 4>>, <<4, 0, 3>>, <<7, 3, 5>>}

(* Zoltan extends the outer regions without end.                           *)
All == <<-1000, -1000, -1000>>
End == <<1000, 1000, 1000>>

Slices == [r \in {0, 1, 2} |->
             [lo |-> IF r = 0 THEN All ELSE <<3 + 2 * r, -1000, -1000>>,
              hi |-> IF r = 2 THEN End ELSE <<5 + 2 * r, 1000, 1000>>]]

CutInX == [r \in {0, 1} |-> IF r = 0 THEN [lo |-> All, hi |-> <<5, 1000, 1000>>]
                                     ELSE [lo |-> <<5, -1000, -1000>>, hi |-> End]]
CutInY == [r \in {0, 1} |-> IF r = 0 THEN [lo |-> All, hi |-> <<1000, 3, 1000>>]
                                     ELSE [lo |-> <<-1000, 3, -1000>>, hi |-> End]]
=============================================================================
