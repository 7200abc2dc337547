-------------------------- MODULE MCOverlayService --------------------------
(***************************************************************************)
(* Instances of OverlayService for TLC.  Rules are model values that no     *)
(* definition tells apart; the instance with a liveness property uses no    *)
(* symmetry.                                                                *)
(***************************************************************************)
EXTENDS OverlayService
=============================================================================
