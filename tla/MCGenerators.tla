---------------------------- MODULE MCGenerators ----------------------------
(***************************************************************************)
(* A box of 100, cells of 50, particles at least 5 apart.  Positions are   *)
(* on a face, in the box, outside of it; some are too close to each        *)
(* other; three of the first tenth of the box can be used together.        *)
(***************************************************************************)
EXTENDS Generators

Places == {<<0, 0, 0>>, <<1, 1, 1>>, <<3, 1, 1>>, <<8, 1, 1>>, <<5, 60, 60>>,
           <<60, 99, 99>>, <<99, 1, 1>>, <<99, 4, 1>>, <<120, 1, 1>>}
=============================================================================
