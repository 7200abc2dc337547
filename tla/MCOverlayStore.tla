--------------------------- MODULE MCOverlayStore ---------------------------
(***************************************************************************)
(* Instances of OverlayStore for TLC.  A path is a number, for the service  *)
(* goes through records and paths in their order; processes and contents    *)
(* are model values, and no definition tells one from another.              *)
(***************************************************************************)
EXTENDS OverlayStore, TLC

Symmetry == Permutations(Apps) \union Permutations(Contents)
=============================================================================
