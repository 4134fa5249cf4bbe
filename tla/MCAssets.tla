------------------------------ MODULE MCAssets ------------------------------
(***************************************************************************)
(* Assets for model checking: no load differs from another, and the        *)
(* properties are invariants, so the loads are a symmetry set.             *)
(***************************************************************************)
EXTENDS Assets, TLC

LoadSymmetry == Permutations(Loads)
=============================================================================
