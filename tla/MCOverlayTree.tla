---------------------------- MODULE MCOverlayTree ----------------------------
(***************************************************************************)
(* OverlayTree for TLC: a directory in a directory, one file, and as much   *)
(* room for a second.                                                       *)
(***************************************************************************)
EXTENDS OverlayTree

Nested ==
    <<<<"d">>, <<"d", "s">>, <<"d", "s", "f">>, <<"e">>, <<"e", "s">>, <<"e", "s", "f">>>>

\* The paths that start with top hold directories and a file.
Only(top) ==
    [p \in ToSet(Nested) |-> IF p[1] # top THEN NoFile ELSE IF Len(p) = 3 THEN "old" ELSE Dir]

\* The directory comes first or last in the commit's order.
OneDirectory == {Only("d"), Only("e")}
FirstDirectory == {Only("d")}
=============================================================================
