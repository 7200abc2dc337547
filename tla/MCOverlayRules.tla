--------------------------- MODULE MCOverlayRules ---------------------------
(***************************************************************************)
(* OverlayRules for TLC.  The names of the first rule's source have         *)
(* 8.3 forms, which processes mix.  Some offers share a store or nest it in *)
(* another's shadow tree, and some have to be refused next to another.      *)
(***************************************************************************)
EXTENDS OverlayRules

Work == <<"C", "Workspace", "Projects">>
Docs == <<"C", "Docs">>
Box == <<"D", "Box">>

Short == [n \in {"Workspace", "Projects"} |-> IF n = "Projects" THEN "PROJEC~1" ELSE "WORKSP~1"]
NoPaths == {}
AnyName == STRING
Boxes == <<"B">>
Asides == <<"discard-1", "discard-2">>

Offer(i, from, to) == [id |-> i, source |-> from, store |-> to]

OwnStores == {Offer("r1", <<"C", "Workspace", "PROJEC~1">>, Box), Offer("r2", Docs, <<>>)}
OneStore == {Offer("r1", Work, Box), Offer("r2", Docs, Box)}
NestedStores == {Offer("r1", Work, Box), Offer("r2", Docs, Append(Box, "drive"))}
Refused ==
    {Offer("r2", Append(Work, "sub"), <<>>), Offer("r2", Box, <<>>),
     Offer("r2", Docs, Append(Work, "store")), Offer("r2", <<"C">>, <<>>)}

Scene(add, met, most) == [offers |-> add, trouble |-> met, trees |-> most]

AllScenes ==
    {Scene(OwnStores \union OneStore \union Refused, {"source"}, 1),
     Scene(OwnStores, {"crash"}, 1), Scene(OwnStores, {"fault"}, 2),
     Scene({Offer("r1", Work, Box)}, {"crash", "fault"}, 1), Scene(NestedStores, {}, 1)}
SharedOnly == {Scene(OneStore, {}, 1)}

LinkInWork == {Append(Work, "link")}
WrittenPaths ==
    {<<"C", "WORKSP~1", "Projects", "a">>, Append(Work, "a"), Append(Docs, "a"), Work \o <<"link", "a">>}
TwoPaths == {Append(Work, "a"), Append(Docs, "a")}
OnlyDocs == {Docs}
=============================================================================
