---------------------------- MODULE RedBlackTree ----------------------------
(***************************************************************************)
(* red_black_tree.c: a table of items in a red-black tree, and traversers  *)
(* over it.  A call that changes the tree walks down it once, noting the   *)
(* path in pa and da, and then repairs the tree upwards along that path:   *)
(* one action is one turn of the loop that does it.                        *)
(*                                                                         *)
(* A node is named by the key of the item it was made for.  Header is the  *)
(* table itself, taken for a node whose left child is the root.  The       *)
(* generation of a table is only compared with those of the traversers, so *)
(* a traverser knows whether its own is the current one.                   *)
(***************************************************************************)
EXTENDS Integers, FiniteSets, SequencesExt

CONSTANTS
  Keys, Items, Traversers,
  Clients,       \* the keys, items and traversers that a client makes use of
  NULL, Header,
  Freed          \* a pointer to a node that was freed

ASSUME KeysAreIntegers == Keys \subseteq Int

VARIABLES
  client,
  links, color, data, \* the nodes
  allocated,          \* the nodes that were allocated and not freed
  count,
  trav,               \* the traversers
  call,               \* the call that is repairing the tree
  result              \* what the last call returned

vars == <<client, links, color, data, allocated, count, trav, call, result>>
nodes == <<links, color, data, allocated>>

RBT_BLACK == "black"
RBT_RED == "red"

Idle == [label |-> "idle", node |-> NULL, trav |-> NULL, pa |-> << >>, da |-> << >>]
NoLinks == [d \in 0 .. 1 |-> NULL]

(* rbt_create, and rbt_t_init for every traverser. *)
Init ==
  /\ client \in Clients
  /\ links = [n \in Keys \cup {Header} |-> NoLinks]
  /\ color = [n \in Keys |-> RBT_BLACK]
  /\ data = [n \in Keys |-> NULL]
  /\ allocated = {}
  /\ count = 0
  /\ trav = [t \in Traversers |-> [node |-> NULL, stack |-> << >>, fresh |-> TRUE]]
  /\ call = Idle
  /\ result = NULL

Root == links[Header][0]
IsRed(n) == n # NULL /\ color[n] = RBT_RED
IsIdle == call = Idle

-----------------------------------------------------------------------------
(* The way down the tree. *)
Side(key, n) == IF n = Header \/ key <= n THEN 0 ELSE 1

(* From a node to the one of the key, or to the one that lacks it. *)
RECURSIVE DescentFrom(_, _)
DescentFrom(n, key) ==
  IF n = NULL THEN << >>
  ELSE <<n>> \o (IF n = key THEN << >> ELSE DescentFrom(links[n][Side(key, n)], key))
Descent(key) == DescentFrom(Header, key)

Sides(key, path) == [i \in DOMAIN path |-> Side(key, path[i])]

(* From a node as far as the links on one side go. *)
RECURSIVE Chain(_, _)
Chain(n, d) == IF n = NULL THEN << >> ELSE <<n>> \o Chain(links[n][d], d)

Present(key) == Last(Descent(key)) = key

(* Mutant: the generation stays the same. *)
OutdatedNever == trav

(* The traversers after an insertion or a deletion, by the generation. *)
Outdated == [t \in Traversers |-> [trav[t] EXCEPT !.fresh = FALSE]]
Fresh(n, stack) == [node |-> n, stack |-> stack, fresh |-> TRUE]

-----------------------------------------------------------------------------
(* x is the child of parent on a side.  Its child y on side 1 - d takes    *)
(* its place, x becomes the child of y on side d, and takes over the       *)
(* child that y has there.                                                 *)
Rotated(l, parent, side, x, d) ==
  LET y == l[x][1 - d]
  IN  [l EXCEPT ![x][1 - d] = l[y][d], ![y][d] = x, ![parent][side] = y]

(* rbt_probe, the search and the insertion, for the three calls that use   *)
(* it: the item that is found, or a new red node.                          *)
ProbeFound(key) == IsIdle /\ Present(key) /\ UNCHANGED <<client, links, color, allocated, count, call>>

ProbeNew(key, item, t) ==
  /\ IsIdle /\ ~Present(key)
  /\ LET path == Descent(key)
     IN  /\ links' = [links EXCEPT ![Last(path)][Side(key, Last(path))] = key, ![key] = NoLinks]
         /\ call' = [label |-> "insert", node |-> key, trav |-> t, pa |-> path, da |-> Sides(key, path)]
  /\ color' = [color EXCEPT ![key] = RBT_RED]
  /\ data' = [data EXCEPT ![key] = item]
  /\ allocated' = allocated \cup {key}
  /\ count' = count + 1
  /\ trav' = Outdated
  /\ UNCHANGED client

(* No memory: the link below the last node is assigned all the same. *)
ProbeFails(key) ==
  /\ IsIdle /\ ~Present(key)
  /\ LET path == Descent(key)
     IN  links' = [links EXCEPT ![Last(path)][Side(key, Last(path))] = NULL]
  /\ UNCHANGED <<client, color, data, allocated, count, call>>

Duplicate(key, item) == IF data[key] = item THEN NULL ELSE data[key]

Insert(key, item) ==
  \/ ProbeFound(key) /\ result' = Duplicate(key, item) /\ UNCHANGED <<data, trav>>
  \/ ProbeNew(key, item, NULL) /\ result' = NULL
  \/ ProbeFails(key) /\ result' = NULL /\ UNCHANGED trav

Replace(key, item) ==
  \/ /\ ProbeFound(key)
     /\ result' = Duplicate(key, item)
     /\ data' = [data EXCEPT ![key] = item]
     /\ UNCHANGED trav
  \/ ProbeNew(key, item, NULL) /\ result' = NULL
  \/ ProbeFails(key) /\ result' = NULL /\ UNCHANGED trav

(* After an insertion or not, the generation of the traverser is set to    *)
(* one less than that of the table.                                        *)
TraverserInsert(t, key, item) ==
  \/ /\ ProbeFound(key)
     /\ result' = data[key]
     /\ trav' = [trav EXCEPT ![t].node = key, ![t].fresh = FALSE]
     /\ UNCHANGED data
  \/ ProbeNew(key, item, t) /\ result' = item
  \/ ProbeFails(key) /\ result' = NULL /\ trav' = [trav EXCEPT ![t] = Fresh(NULL, << >>)]

(* The rebalancing after an insertion: pa[k - 1] is red, its parent        *)
(* pa[k - 2] is black, and so is the sibling of the one, or red.           *)
k == Len(call.pa)
Violation == call.label = "insert" /\ k >= 3 /\ IsRed(call.pa[k])
Uncle == links[call.pa[k - 1]][1 - call.da[k - 1]]

(* Case 1: go on two levels higher. *)
InsertRecolor ==
  /\ Violation /\ IsRed(Uncle)
  /\ color' = [color EXCEPT ![call.pa[k]] = RBT_BLACK, ![Uncle] = RBT_BLACK, ![call.pa[k - 1]] = RBT_RED]
  /\ call' = [call EXCEPT !.pa = SubSeq(@, 1, k - 2), !.da = SubSeq(@, 1, k - 2)]
  /\ UNCHANGED <<client, links, data, allocated, count, trav, result>>

(* Case 2, after case 3 when the new node is an inner grandchild. *)
InsertRotate ==
  /\ Violation /\ ~IsRed(Uncle)
  /\ LET d == call.da[k - 1]
         x == call.pa[k - 1]
         straight == IF call.da[k] = d THEN links ELSE Rotated(links, x, d, call.pa[k], d)
     IN  /\ links' = Rotated(straight, call.pa[k - 2], call.da[k - 2], x, 1 - d)
         /\ color' = [color EXCEPT ![x] = RBT_RED, ![straight[x][d]] = RBT_BLACK]
  /\ call' = [call EXCEPT !.label = "inserted"]
  /\ UNCHANGED <<client, data, allocated, count, trav, result>>

InsertEnd ==
  /\ call.label \in {"insert", "inserted"} /\ ~Violation
  /\ color' = [color EXCEPT ![Root] = RBT_BLACK]
  /\ trav' = IF call.trav = NULL THEN trav ELSE [trav EXCEPT ![call.trav].node = call.node]
  /\ call' = Idle
  /\ UNCHANGED <<client, links, data, allocated, count, result>>

-----------------------------------------------------------------------------
(* rbt_delete: the search, and the node p is unlinked.                     *)
DeleteNothing(key) ==
  /\ IsIdle /\ ~Present(key)
  /\ result' = NULL
  /\ UNCHANGED <<client, nodes, count, trav, call>>

(* Another node takes the place of p and its color, p gets the other one.  *)
Exchanged(p, q) == [color EXCEPT ![p] = color[q], ![q] = color[p]]

Unlinked(p, newLinks, newColor, pa, da) ==
  /\ links' = newLinks
  /\ color' = newColor
  /\ call' = [label |-> IF newColor[p] = RBT_BLACK THEN "delete" ELSE "free",
              node |-> p, trav |-> NULL, pa |-> pa, da |-> da]

Delete(p) ==
  /\ IsIdle /\ Present(p)
  /\ result' = data[p]
  /\ LET pa == Front(Descent(p))
         da == Sides(p, pa)
         r == links[p][1]
     IN  \/ /\ r = NULL
            /\ Unlinked(p, [links EXCEPT ![Last(pa)][Last(da)] = links[p][0]], color, pa, da)
         \/ /\ r # NULL /\ links[r][0] = NULL
            /\ Unlinked(p, [links EXCEPT ![r][0] = links[p][0], ![Last(pa)][Last(da)] = r],
                        Exchanged(p, r), Append(pa, r), Append(da, 1))
         \/ /\ r # NULL /\ links[r][0] # NULL
            /\ LET down == Front(Chain(r, 0))
                   s == Last(Chain(r, 0))
               IN  Unlinked(p,
                     [links EXCEPT ![Last(pa)][Last(da)] = s, ![s][0] = links[p][0],
                                   ![Last(down)][0] = links[s][1], ![s][1] = links[p][1]],
                     Exchanged(p, s),
                     pa \o <<s>> \o down, da \o <<1>> \o [i \in DOMAIN down |-> 0])
  /\ UNCHANGED <<client, data, allocated, count, trav>>

(* The rebalancing: the subtree of pa[k - 1] on side da[k - 1] is short of *)
(* one black node.                                                         *)
Parent == call.pa[k]
Short == call.da[k]
Child == links[Parent][Short]
Sibling == links[Parent][1 - Short]
Deficit == call.label = "delete" /\ ~IsRed(Child) /\ k >= 2

DeleteEndLoop ==
  /\ call.label = "delete" /\ ~Deficit
  /\ color' = IF IsRed(Child) THEN [color EXCEPT ![Child] = RBT_BLACK] ELSE color
  /\ call' = [call EXCEPT !.label = "free"]
  /\ UNCHANGED <<client, links, data, allocated, count, trav, result>>

(* Mutant: the sibling that came up is not put on the stack. *)
DeleteRedSiblingUnstacked ==
  /\ Deficit /\ IsRed(Sibling)
  /\ color' = [color EXCEPT ![Sibling] = RBT_BLACK, ![Parent] = RBT_RED]
  /\ links' = Rotated(links, call.pa[k - 1], call.da[k - 1], Parent, Short)
  /\ UNCHANGED <<client, data, allocated, count, trav, call, result>>

(* A red sibling is rotated up first, and the turn is begun again.         *)
DeleteRedSibling ==
  /\ Deficit /\ IsRed(Sibling)
  /\ color' = [color EXCEPT ![Sibling] = RBT_BLACK, ![Parent] = RBT_RED]
  /\ links' = Rotated(links, call.pa[k - 1], call.da[k - 1], Parent, Short)
  /\ call' = [call EXCEPT !.pa = Front(@) \o <<Sibling, Parent>>, !.da = Append(@, Short)]
  /\ UNCHANGED <<client, data, allocated, count, trav, result>>

(* Mutant: the sibling stays black. *)
DeleteRecolorBlack ==
  /\ Deficit /\ ~IsRed(Sibling)
  /\ ~IsRed(links[Sibling][0]) /\ ~IsRed(links[Sibling][1])
  /\ call' = [call EXCEPT !.pa = Front(@), !.da = Front(@)]
  /\ UNCHANGED <<client, links, color, data, allocated, count, trav, result>>

(* Case 1: the sibling becomes red too, and the parent is the short one.   *)
DeleteRecolor ==
  /\ Deficit /\ ~IsRed(Sibling)
  /\ ~IsRed(links[Sibling][0]) /\ ~IsRed(links[Sibling][1])
  /\ color' = [color EXCEPT ![Sibling] = RBT_RED]
  /\ call' = [call EXCEPT !.pa = Front(@), !.da = Front(@)]
  /\ UNCHANGED <<client, links, data, allocated, count, trav, result>>

(* Case 2, after case 3 when the outer child of the sibling is black.      *)
DeleteRotate ==
  /\ Deficit /\ ~IsRed(Sibling)
  /\ IsRed(links[Sibling][0]) \/ IsRed(links[Sibling][1])
  /\ LET far == 1 - Short
         inner == ~IsRed(links[Sibling][far])
         l == IF inner THEN Rotated(links, Parent, far, Sibling, far) ELSE links
         w == l[Parent][far]
         c == IF inner THEN [color EXCEPT ![w] = RBT_BLACK, ![Sibling] = RBT_RED] ELSE color
     IN  /\ color' = [c EXCEPT ![w] = c[Parent], ![Parent] = RBT_BLACK, ![l[w][far]] = RBT_BLACK]
         /\ links' = Rotated(l, call.pa[k - 1], call.da[k - 1], Parent, Short)
  /\ call' = [call EXCEPT !.label = "free"]
  /\ UNCHANGED <<client, data, allocated, count, trav, result>>

(* The fields of a node that was freed have no value. *)
DeleteEnd ==
  /\ call.label = "free"
  /\ LET p == call.node
     IN  /\ allocated' = allocated \ {p}
         /\ links' = [links EXCEPT ![p] = NoLinks]
         /\ color' = [color EXCEPT ![p] = RBT_BLACK]
         /\ data' = [data EXCEPT ![p] = NULL]
         /\ trav' = [t \in Traversers |-> [Outdated[t] EXCEPT !.node = IF @ = p THEN Freed ELSE @]]
  /\ count' = count - 1
  /\ call' = Idle
  /\ UNCHANGED <<client, result>>

Find(key) ==
  /\ IsIdle
  /\ result' = IF Present(key) THEN data[key] ELSE NULL
  /\ UNCHANGED <<client, nodes, count, trav, call>>

-----------------------------------------------------------------------------
(* Traversers: the current node, and the nodes above it. *)
Moved(t, traverser) ==
  /\ trav' = [trav EXCEPT ![t] = traverser]
  /\ result' = IF traverser.node = NULL THEN NULL ELSE data[traverser.node]
  /\ UNCHANGED <<client, nodes, count, call>>

(* The end of the tree on side d. *)
Extreme(d) ==
  IF Root = NULL THEN Fresh(NULL, << >>) ELSE Fresh(Last(Chain(Root, d)), Front(Chain(Root, d)))

TraverserInit(t) ==
  /\ IsIdle
  /\ trav' = [trav EXCEPT ![t] = Fresh(NULL, << >>)]
  /\ UNCHANGED <<client, nodes, count, call, result>>

First(t) == IsIdle /\ Moved(t, Extreme(0))
LastItem(t) == IsIdle /\ Moved(t, Extreme(1))

(* Without the Header, which is not a node to a traverser. *)
Located(key) == Fresh(key, Front(Tail(Descent(key))))

TraverserFind(t, key) ==
  /\ IsIdle
  /\ Moved(t, IF Present(key) THEN Located(key) ELSE Fresh(NULL, << >>))

(* The stack of a traverser that is out of date is not copied. *)
Copy(t, src) ==
  /\ IsIdle /\ trav[src].node # Freed
  /\ Moved(t, IF trav[src].fresh THEN trav[src] ELSE [trav[src] EXCEPT !.stack = trav[t].stack])

(* Mutant: the stack is never refreshed. *)
RefreshedNever(t) == [trav[t] EXCEPT !.fresh = TRUE]

(* trav_refresh finds the node again by its key. *)
Refreshed(t) ==
  IF trav[t].fresh \/ trav[t].node = NULL THEN [trav[t] EXCEPT !.fresh = TRUE]
  ELSE Located(trav[t].node)

(* The next node on side d: the nearest below, or else the first one above *)
(* that is not reached from side d.                                        *)
Stepped(now, d) ==
  LET path == Append(now.stack, now.node)
      above == {i \in DOMAIN now.stack : links[path[i]][d] # path[i + 1]}
      below == Chain(links[now.node][d], 1 - d)
      top == CHOOSE i \in above : \A j \in above : j <= i
  IN  IF now.node = NULL THEN Extreme(1 - d)
      ELSE IF links[now.node][d] # NULL THEN Fresh(Last(below), path \o Front(below))
      ELSE IF above = {} THEN Fresh(NULL, << >>)
      ELSE Fresh(path[top], SubSeq(path, 1, top - 1))

Step(t, d) == IsIdle /\ trav[t].node # Freed /\ Moved(t, Stepped(Refreshed(t), d))
NextItem(t) == Step(t, 1)
PreviousItem(t) == Step(t, 0)

Current(t) == IsIdle /\ trav[t].node # Freed /\ Moved(t, trav[t])

TraverserReplace(t, item) ==
  /\ IsIdle /\ trav[t].node \notin {NULL, Freed}
  /\ result' = data[trav[t].node]
  /\ data' = [data EXCEPT ![trav[t].node] = item]
  /\ UNCHANGED <<client, links, color, allocated, count, trav, call>>

-----------------------------------------------------------------------------
Repair ==
  \/ InsertRecolor \/ InsertRotate \/ InsertEnd
  \/ DeleteEndLoop \/ DeleteRedSibling \/ DeleteRecolor \/ DeleteRotate \/ DeleteEnd

Call ==
  \/ \E key \in client.keys :
       \/ DeleteNothing(key) \/ Delete(key) \/ Find(key)
       \/ \E item \in client.items : Insert(key, item) \/ Replace(key, item)
  \/ \E t \in client.traversers :
       \/ TraverserInit(t) \/ First(t) \/ LastItem(t) \/ NextItem(t) \/ PreviousItem(t) \/ Current(t)
       \/ \E src \in client.traversers : Copy(t, src)
       \/ \E key \in client.keys :
            TraverserFind(t, key) \/ \E item \in client.items : TraverserInsert(t, key, item)
       \/ \E item \in client.items : TraverserReplace(t, item)

Next == Repair \/ Call

Spec == Init /\ [][Next]_vars
-----------------------------------------------------------------------------
(* The nodes that can be reached from one. *)
RECURSIVE Below(_)
Below(n) == IF n = NULL THEN {} ELSE {n} \cup Below(links[n][0]) \cup Below(links[n][1])

InTree == Below(Root)

(* The search tree is sound in every state, also half way through a        *)
(* rotation: nodes to the left of one are smaller and those to the right   *)
(* larger, none is lost or reached twice, and they are as many as counted. *)
SearchTree ==
  /\ \A n \in InTree : /\ \A m \in Below(links[n][0]) : m < n
                       /\ \A m \in Below(links[n][1]) : m > n
  /\ allocated = InTree \cup (IF call.label \in {"delete", "free"} THEN {call.node} ELSE {})
  /\ count = Cardinality(allocated)

(* How many black nodes there are on the ways down from a node. *)
RECURSIVE Blacks(_)
Blacks(n) ==
  IF n = NULL THEN {0}
  ELSE {b + (IF IsRed(n) THEN 0 ELSE 1) : b \in Blacks(links[n][0]) \cup Blacks(links[n][1])}

(* The same number on both sides of a node, once the side that is short,   *)
(* if it is one of this node, is given one more.                           *)
Balanced(n, lack) ==
  LET Height(d) == {b + (IF lack = <<n, d>> THEN 1 ELSE 0) : b \in Blacks(links[n][d])}
  IN  Height(0) = Height(1) /\ Cardinality(Height(0)) = 1

(* The rules of a red-black tree between two calls. *)
RedBlack ==
  IsIdle =>
    /\ ~IsRed(Root)
    /\ \A n \in InTree : /\ Balanced(n, << >>)
                         /\ IsRed(n) => ~IsRed(links[n][0]) /\ ~IsRed(links[n][1])

(* The invariant that the comment on the insertion loop states: rule 2     *)
(* holds all the time, and rule 1 is broken in one place at most, below    *)
(* the node on the top of the stack.                                       *)
InsertKeepsRule2 ==
  call.label = "insert" =>
    /\ \A n \in InTree : Balanced(n, << >>)
    /\ \A n \in InTree, d \in 0 .. 1 :
         IsRed(n) /\ IsRed(links[n][d]) => n = call.pa[k] /\ d = call.da[k]

(* The invariant of the deletion loop: on side da[k - 1] of pa[k - 1] one  *)
(* black node is missing for every node above as well, and nowhere else;   *)
(* rule 1 is broken at the root of that subtree at most, which will be     *)
(* made black.                                                             *)
DeleteLacksOneBlack ==
  call.label = "delete" =>
    LET above == {call.pa[i] : i \in 1 .. k - 1}
    IN  /\ \A n \in InTree \ above : Balanced(n, <<Parent, Short>>)
        /\ \A n \in InTree, d \in 0 .. 1 :
             IsRed(n) /\ IsRed(links[n][d]) => Child \in {n, links[n][d]}

(* Both loops keep their invariant, and the tree that of a search tree, at *)
(* every turn, and at the end it is a red-black tree again.                *)
Rebalancing == SearchTree /\ RedBlack /\ InsertKeepsRule2 /\ DeleteLacksOneBlack

(* The stack of the loops is the path in the tree as it is now, although   *)
(* rotations and the node that was exchanged have changed it.              *)
StackIsPath ==
  call.label \in {"insert", "delete"} =>
    /\ call.pa[1] = Header
    /\ \A i \in 1 .. k - 1 : links[call.pa[i]][call.da[i]] = call.pa[i + 1]

(* A traverser whose generation is current has the right stack. *)
TraverserStackFresh ==
  IsIdle => \A t \in Traversers :
    trav[t].fresh /\ trav[t].node \in Keys => trav[t] = Located(trav[t].node)

(* The table implements an ordered map, in whatever order calls, failures  *)
(* of malloc and modifications under a traverser come.  A new item and its *)
(* traverser count from when it is linked, and a traverser is invalid from *)
(* when its item is unlinked.                                              *)
At(t) ==
  IF call.trav = t THEN call.node
  ELSE IF trav[t].node = NULL \/ trav[t].node \in InTree THEN trav[t].node ELSE Freed

Table == INSTANCE OrderedMap WITH
           items <- [n \in InTree |-> data[n]], at <- [t \in Traversers |-> At(t)],
           result <- result, Invalid <- Freed
ImplementsOrderedMap == Table!Spec
=============================================================================
