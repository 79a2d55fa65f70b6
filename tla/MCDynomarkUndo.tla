--------------------------- MODULE MCDynomarkUndo ---------------------------
(* Instances of DynomarkUndo for TLC: a tree Dynomark has not touched, and  *)
(* one it has, both with a saved bookmark in Follow Up and a folder of the  *)
(* user's own.                                                              *)
EXTENDS DynomarkUndo

(* The nodes of a tree, numbered and placed in this order.                  *)
N(parent, title) == <<parent, title>>
Nodes(list) == [n \in DOMAIN list |-> NodeAt(list[n][1], list[n][2], n)]

FreshNodes == <<N(0, "Follow Up"), N(1, ""), N(0, "A"), N(3, "")>>
Fresh == Nodes(FreshNodes)
Grown == Nodes(FreshNodes \o <<N(0, "Dynomark"), N(5, "A"), N(6, "")>>)
MCTrees == {Fresh, Grown}

MCNames == {"", "Follow Up", "Dynomark", "Graveyard", "A", "B"}

Plan(for, node, at, to) == [for |-> for, node |-> node, at |-> at, to |-> to]
MCPlans == {
  Plan("file", 2, FollowUp, <<"Dynomark", "A", "B">>),
  Plan("park", 2, FollowUp, Graveyard),
  Plan("add", None, <<>>, <<"Dynomark", "B">>),
  Plan("move", 3, <<>>, <<"Dynomark", "B">>),
  Plan("move", 3, <<>>, <<"B">>)}
=============================================================================
