--------------------------- MODULE MCUnloadingModel ---------------------------
(***************************************************************************)
(* Small instances of UnloadingModel; the particles are interchangeable.   *)
(***************************************************************************)
EXTENDS UnloadingModel, TLC

Symmetry == Permutations(Particle)
=============================================================================
