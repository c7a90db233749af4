-------------------------- MODULE RedBlackTreeCopy ---------------------------
(***************************************************************************)
(* rbt_copy and rbt_destroy, the two operations on a table as a whole.     *)
(* The copy walks down the old tree and the new one together; when memory  *)
(* is short, or an item cannot be copied, what there is of the new tree is *)
(* destroyed.  A node of the new tree has the name of the node that it is  *)
(* a copy of.  Unset is what malloc leaves in a field.                     *)
(***************************************************************************)
EXTENDS RedBlackTree

CONSTANT Unset

VARIABLES
  nlinks, ncolor, ndata, \* the nodes of the new tree
  nallocated,
  walk,      \* where the copy is: x and y, which have one name, and the stack of such pairs
  copied,    \* the items that were copied
  destroyed  \* the items that destroy was called with, one after the other

new == <<nlinks, ncolor, ndata, nallocated>>
copyVars == <<nlinks, ncolor, ndata, nallocated, walk, copied, destroyed>>

UnsetLinks == [d \in 0 .. 1 |-> Unset]
NoWalk == [label |-> "none", node |-> NULL, stack |-> << >>]

(* The table that rbt_create returns, and the state before there is one. *)
CopyInit ==
  /\ Init
  /\ walk = NoWalk
  /\ nlinks = [n \in Keys \cup {Header} |-> IF n = Header THEN NoLinks ELSE UnsetLinks]
  /\ ncolor = [n \in Keys |-> Unset]
  /\ ndata = [n \in Keys |-> Unset]
  /\ nallocated = {}
  /\ copied = {}
  /\ destroyed = << >>

Here == walk.node
Walks(label) == walk.label = label /\ UNCHANGED vars

-----------------------------------------------------------------------------
(* The way down to the left. *)
BeginCopy ==
  /\ IsIdle /\ client.copies
  /\ count # 0
  /\ call' = [Idle EXCEPT !.label = "copy"]
  /\ walk' = [label |-> "down", node |-> Header, stack |-> << >>]
  /\ UNCHANGED <<client, nodes, count, trav, result, new, copied, destroyed>>

Allocated(d) == nallocated' = nallocated \cup {links[Here][d]}

CopyLeft ==
  /\ Walks("down") /\ links[Here][0] # NULL
  /\ nlinks' = [nlinks EXCEPT ![Here][0] = links[Here][0]]
  /\ Allocated(0)
  /\ walk' = [walk EXCEPT !.node = links[Here][0], !.stack = Append(@, Here)]
  /\ UNCHANGED <<ncolor, ndata, copied, destroyed>>

(* Mutant: the node on the top of the stack is left out. *)
RecoverFewer(l) ==
  LET waiting == {walk.stack[i] : i \in 2 .. Len(walk.stack) - 1}
      closed == [n \in DOMAIN l |-> IF n \in waiting THEN [l[n] EXCEPT ![1] = NULL] ELSE l[n]]
  IN  /\ nlinks' = closed
      /\ walk' = [label |-> "destroy", node |-> closed[Header][0], stack |-> << >>]

(* copy_error_recovery: the nodes on the stack, whose right links have not *)
(* been reached, are given null ones, and the new tree is destroyed.       *)
Recover(l) ==
  LET waiting == {walk.stack[i] : i \in 2 .. Len(walk.stack)}
      closed == [n \in DOMAIN l |-> IF n \in waiting THEN [l[n] EXCEPT ![1] = NULL] ELSE l[n]]
  IN  /\ nlinks' = closed
      /\ walk' = [label |-> "destroy", node |-> closed[Header][0], stack |-> << >>]

CopyLeftFails ==
  /\ Walks("down") /\ links[Here][0] # NULL
  /\ IF Here = Header THEN Recover(nlinks) /\ UNCHANGED ndata
     ELSE Recover([nlinks EXCEPT ![Here] = NoLinks]) /\ ndata' = [ndata EXCEPT ![Here] = NULL]
  /\ UNCHANGED <<ncolor, nallocated, copied, destroyed>>

CopyLeftEnd ==
  /\ Walks("down") /\ links[Here][0] = NULL
  /\ nlinks' = [nlinks EXCEPT ![Here][0] = NULL]
  /\ walk' = [walk EXCEPT !.label = "item"]
  /\ UNCHANGED <<ncolor, ndata, nallocated, copied, destroyed>>

(* The item, and the link to the right. *)
ItemCopied ==
  /\ ncolor' = [ncolor EXCEPT ![Here] = color[Here]]
  /\ ndata' = [ndata EXCEPT ![Here] = data[Here]]
  /\ copied' = copied \cup {Here}

ItemFails ==
  /\ Walks("item")
  /\ ncolor' = [ncolor EXCEPT ![Here] = color[Here]]
  /\ ndata' = [ndata EXCEPT ![Here] = NULL]
  /\ Recover([nlinks EXCEPT ![Here][1] = NULL])
  /\ UNCHANGED <<nallocated, copied, destroyed>>

CopyRight ==
  /\ Walks("item") /\ links[Here][1] # NULL
  /\ ItemCopied
  /\ nlinks' = [nlinks EXCEPT ![Here][1] = links[Here][1]]
  /\ Allocated(1)
  /\ walk' = [walk EXCEPT !.label = "down", !.node = links[Here][1]]
  /\ UNCHANGED destroyed

CopyRightFails ==
  /\ Walks("item") /\ links[Here][1] # NULL
  /\ ItemCopied
  /\ Recover([nlinks EXCEPT ![Here][1] = NULL])
  /\ UNCHANGED <<nallocated, destroyed>>

(* Up to the nearest node that waits, or the copy is returned. *)
CopyUp ==
  /\ Walks("item") /\ links[Here][1] = NULL
  /\ ItemCopied
  /\ nlinks' = [nlinks EXCEPT ![Here][1] = NULL]
  /\ walk' = IF Len(walk.stack) <= 1 THEN [walk EXCEPT !.label = "returned"]
             ELSE [walk EXCEPT !.node = Last(walk.stack), !.stack = Front(walk.stack)]
  /\ UNCHANGED <<nallocated, destroyed>>

-----------------------------------------------------------------------------
(* rbt_destroy: a node without a left child is freed, and a rotation to    *)
(* the right gets rid of a left child.                                     *)
BeginDestroy ==
  /\ Walks("returned")
  /\ walk' = [walk EXCEPT !.label = "destroy", !.node = nlinks[Header][0]]
  /\ UNCHANGED <<new, copied, destroyed>>

(* A node that waited on the stack when the copy failed has no item yet:   *)
(* what malloc left there may pass the test for null, and then destroy is  *)
(* called with it.                                                         *)
DestroyNode ==
  /\ Walks("destroy") /\ Here # NULL
  /\ nlinks[Here][0] = NULL
  /\ \/ ndata[Here] \in {NULL, Unset} /\ destroyed' = destroyed
     \/ ndata[Here] # NULL /\ destroyed' = Append(destroyed, Here)
  /\ nallocated' = nallocated \ {Here}
  /\ walk' = [walk EXCEPT !.node = nlinks[Here][1]]
  /\ UNCHANGED <<nlinks, ncolor, ndata, copied>>

RotateRight ==
  /\ Walks("destroy") /\ Here # NULL
  /\ nlinks[Here][0] # NULL
  /\ LET left == nlinks[Here][0]
     IN  /\ nlinks' = [nlinks EXCEPT ![Here][0] = nlinks[left][1], ![left][1] = Here]
         /\ walk' = [walk EXCEPT !.node = left]
  /\ UNCHANGED <<ncolor, ndata, nallocated, copied, destroyed>>

DestroyEnd ==
  /\ walk.label = "destroy" /\ Here = NULL
  /\ walk' = NoWalk
  /\ call' = Idle
  /\ nlinks' = [n \in Keys \cup {Header} |-> IF n = Header THEN NoLinks ELSE UnsetLinks]
  /\ ncolor' = [n \in Keys |-> Unset]
  /\ ndata' = [n \in Keys |-> Unset]
  /\ copied' = {}
  /\ destroyed' = << >>
  /\ UNCHANGED <<client, nodes, count, trav, result, nallocated>>

CopyNext ==
  \/ Next /\ UNCHANGED copyVars
  \/ BeginCopy
  \/ CopyLeft \/ CopyLeftFails \/ CopyLeftEnd
  \/ ItemFails \/ CopyRight \/ CopyRightFails \/ CopyUp
  \/ BeginDestroy \/ DestroyNode \/ RotateRight \/ DestroyEnd

CopySpec == CopyInit /\ [][CopyNext]_<<vars, copyVars>>

-----------------------------------------------------------------------------
(* A copy that is returned is the same tree.  The destruction of a copy,   *)
(* whole or broken off anywhere, follows no link that was not set and no   *)
(* node that was freed, and in the end it has freed every node and called  *)
(* destroy for each item that was copied, and for no node twice.           *)
CopySound ==
  /\ walk.label = "returned" =>
       /\ nallocated = allocated /\ nlinks[Header] = links[Header]
       /\ \A n \in allocated : /\ nlinks[n] = links[n]
                               /\ ncolor[n] = color[n]
                               /\ ndata[n] = data[n]
  /\ walk.label = "destroy" => walk.node \in nallocated \cup {NULL}
  /\ walk.label = "destroy" /\ walk.node = NULL =>
       /\ nallocated = {}
       /\ IsInjective(destroyed) /\ copied \subseteq ToSet(destroyed)

(* What the docs of rbt_copy and copy_error_recovery say: destroy is       *)
(* called for the items already copied, and no uninitialized data is       *)
(* touched on the way.                                                     *)
DestroysCopiedItems == walk.label = "destroy" => ToSet(destroyed) \subseteq copied
=============================================================================
