---------------------------- MODULE MCContainers -----------------------------
(***************************************************************************)
(* Two lists and four entries: the shortest lists on which the neighbours  *)
(* of a node, its head and the other list are all different nodes, and a   *)
(* loop has a list to move entries to and entries to add.  Three threads   *)
(* and four references: two threads may put the last two at once while a   *)
(* third takes one, and one may put several.                               *)
(***************************************************************************)
EXTENDS Containers, TLC

CONSTANTS a, b, e1, e2, e3, e4

MCHeads == {a, b}
MCEntries == {e1, e2, e3, e4}
MCSharers == {"t1", "t2", "t3"}
MCSymmetry == Permutations(MCHeads) \cup Permutations(MCEntries)
=============================================================================
