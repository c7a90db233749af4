----------------------------- MODULE OrderedMap -----------------------------
(***************************************************************************)
(* What red_black_tree.h promises of a table: a map from keys to items,    *)
(* and traversers that are at an item or at the null item.  They go on     *)
(* working when the table is modified; one is invalid from when its own    *)
(* item is deleted until it is initialised again.                          *)
(***************************************************************************)
EXTENDS Integers, FiniteSetsExt, Functions, TLC

CONSTANTS
  Keys, Items,  \* the keys are integers
  Traversers,
  NULL,         \* the null pointer: no item, and the null item
  Invalid       \* where a traverser is whose item was deleted

VARIABLES
  items,        \* the items in the table by their keys
  at,           \* the key of the current item of each traverser
  result        \* what the last call returned

Present == DOMAIN items
ItemAt(k) == IF k = NULL THEN NULL ELSE items[k]

Init ==
  /\ items = << >>
  /\ at = [t \in Traversers |-> NULL]
  /\ result = NULL

Returns(value) == result' = value

(* rbt_insert and rbt_replace: memory may be short. *)
Insert(k, item) ==
  /\ UNCHANGED at
  /\ \/ k \notin Present /\ items' = (k :> item) @@ items /\ Returns(NULL)
     \/ k \notin Present /\ UNCHANGED items /\ Returns(NULL)
     \/ k \in Present /\ UNCHANGED items /\ Returns(IF items[k] = item THEN NULL ELSE items[k])

Replace(k, item) ==
  /\ UNCHANGED at
  /\ \/ k \notin Present /\ items' = (k :> item) @@ items /\ Returns(NULL)
     \/ k \notin Present /\ UNCHANGED items /\ Returns(NULL)
     \/ /\ k \in Present
        /\ items' = [items EXCEPT ![k] = item]
        /\ Returns(IF items[k] = item THEN NULL ELSE items[k])

Delete(k) ==
  /\ Returns(IF k \in Present THEN items[k] ELSE NULL)
  /\ items' = Restrict(items, Present \ {k})
  /\ at' = [t \in Traversers |-> IF k \in Present /\ at[t] = k THEN Invalid ELSE at[t]]

Find(k) == Returns(IF k \in Present THEN items[k] ELSE NULL) /\ UNCHANGED <<items, at>>

(* A traverser moves to a place and its item is returned. *)
MoveTo(t, k) == at' = [at EXCEPT ![t] = k] /\ Returns(ItemAt(k)) /\ UNCHANGED items

Least(keys) == IF keys = {} THEN NULL ELSE Min(keys)
Greatest(keys) == IF keys = {} THEN NULL ELSE Max(keys)

Constructor(t) ==
  \/ at' = [at EXCEPT ![t] = NULL] /\ UNCHANGED <<items, result>>
  \/ MoveTo(t, Least(Present))
  \/ MoveTo(t, Greatest(Present))
  \/ \E k \in Keys : MoveTo(t, IF k \in Present THEN k ELSE NULL)
  \/ \E s \in Traversers : at[s] # Invalid /\ MoveTo(t, at[s])

(* rbt_t_insert *)
TraverserInsert(t, k, item) ==
  \/ k \in Present /\ MoveTo(t, k)
  \/ k \notin Present /\ MoveTo(t, NULL)
  \/ /\ k \notin Present
     /\ items' = (k :> item) @@ items
     /\ at' = [at EXCEPT ![t] = k]
     /\ Returns(item)

Manipulator(t) ==
  /\ at[t] # Invalid
  /\ \/ MoveTo(t, Least(IF at[t] = NULL THEN Present ELSE {k \in Present : k > at[t]}))
     \/ MoveTo(t, Greatest(IF at[t] = NULL THEN Present ELSE {k \in Present : k < at[t]}))
     \/ MoveTo(t, at[t])
     \/ \E item \in Items :
          /\ at[t] # NULL
          /\ items' = [items EXCEPT ![at[t]] = item]
          /\ Returns(items[at[t]])
          /\ UNCHANGED at

Next ==
  \/ \E k \in Keys :
       \/ Delete(k) \/ Find(k)
       \/ \E item \in Items : Insert(k, item) \/ Replace(k, item)
  \/ \E t \in Traversers :
       \/ Constructor(t) \/ Manipulator(t)
       \/ \E k \in Keys, item \in Items : TraverserInsert(t, k, item)

Spec == Init /\ [][Next]_<<items, at, result>>
=============================================================================
