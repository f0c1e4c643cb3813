--------------------------- MODULE GroupExpandMC ---------------------------
(* Instances of GroupExpand for TLC: every database of so many IDs.  Which    *)
(* IDs are asked for does not matter, as the databases are all there.         *)
EXTENDS GroupExpand

CONSTANTS g1, g2, g3, u1

ThreeGroups == {g1, g2, g3}
OneUser == {u1}

\* two groups one after the other, and a user, then a group
GroupsAndUser == {<<g1, g2>>, <<u1, g1, u1>>}

SomeDenied == {{}, {g2}}
=============================================================================
