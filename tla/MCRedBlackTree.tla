--------------------------- MODULE MCRedBlackTree ---------------------------
(* RedBlackTree and RedBlackTreeCopy for TLC. *)
EXTENDS RedBlackTreeCopy

CONSTANTS item1, item2, t1, t2

(* Many keys make every case of the rebalancing happen; few keys are       *)
(* enough to replace items and to move traversers about, and a tree that   *)
(* has to be copied to the left of its root and to the right needs few.    *)
SomeClients ==
  { [keys |-> 1 .. 8, items |-> {item1}, traversers |-> {}, copies |-> FALSE],
    [keys |-> 1 .. 6, items |-> {item1}, traversers |-> {}, copies |-> TRUE],
    [keys |-> 1 .. 4, items |-> {item1}, traversers |-> {t1}, copies |-> FALSE],
    [keys |-> 1 .. 2, items |-> {item1, item2}, traversers |-> {t1, t2}, copies |-> FALSE] }
AllKeys == 1 .. 8

(* The smallest trees with a node that waits while its left child is       *)
(* copied.                                                                 *)
CopyingClients ==
  { [keys |-> 1 .. 3, items |-> {item1}, traversers |-> {}, copies |-> TRUE] }
=============================================================================
