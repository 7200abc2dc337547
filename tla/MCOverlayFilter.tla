--------------------------- MODULE MCOverlayFilter ---------------------------
(***************************************************************************)
(* OverlayFilter for TLC.                                                   *)
(***************************************************************************)
EXTENDS OverlayFilter, TLC

CONSTANTS p1, p2, link, x1, x2

Processes == Permutations(Apps)

Scene(used, met) == [paths |-> used, trouble |-> met]

AllScenes ==
    {Scene({p1}, {"stop", "pause", "fault"}), Scene({p1}, {"stop", "push"}),
     Scene({p1}, {"stop", "late"}), Scene({p1, p2}, {"fault"}), Scene({p1, p2}, {"race"}),
     Scene({p1, link}, {"fault"}), Scene({p1}, {"raw", "pause"}), Scene({p1, p2}, {"raw"}),
     Scene({p1}, {"blind", "pause"})}
PushOnly == {Scene({p1}, {"push"})}
=============================================================================
