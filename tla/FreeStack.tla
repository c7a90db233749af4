------------------------------ MODULE FreeStack ------------------------------
(***************************************************************************)
(* The storage discipline that the principal variation environment uses    *)
(* twice, once for its lines and once for its cells (PVEnv fields          *)
(* lines_* and cells_*, game_tree_utils.h): objects live in segments that  *)
(* are never moved nor returned, and an array of pointers, the stack,      *)
(* lists the ones that are free.  Slots below the head belong to objects   *)
(* in use and hold NULL; slots from the head up hold the free objects.     *)
(*                                                                         *)
(* An object is named by its rank in allocation order: the first segment   *)
(* holds 0 .. first_size-1, and each further segment as many objects as    *)
(* all the earlier ones together.                                          *)
(***************************************************************************)
EXTENDS Integers

CONSTANT NULL      \* the C null pointer

ASSUME NullAssumption == NULL \notin Int

(* A pool with its first segment allocated and every object free. *)
NewPool(first_size) ==
  [ size      |-> first_size,
    head      |-> 0,
    stack     |-> [i \in 0 .. first_size - 1 |-> i],
    segments  |-> 1,
    max_usage |-> 0 ]

(* The object that the next Pop hands out. *)
Top(p) == p.stack[p.head]

(* Mutant: the new stack lists the objects of the old segments. *)
DoubleRelisting(p) ==
  [ p EXCEPT !.size     = 2 * p.size,
             !.segments = p.segments + 1,
             !.stack    = [i \in 0 .. 2 * p.size - 1 |->
                             IF i < p.size THEN NULL ELSE i - p.size] ]

(* pve_double_lines_size, pve_double_cells_size: a new segment as large as *)
(* the pool, and a new stack whose upper half lists the objects of the     *)
(* segment.                                                                *)
Double(p) ==
  [ p EXCEPT !.size     = 2 * p.size,
             !.segments = p.segments + 1,
             !.stack    = [i \in 0 .. 2 * p.size - 1 |->
                             IF i < p.size THEN NULL ELSE i] ]

(* Mutant: the slot of a taken object is not cleared. *)
TakenUncleared(p) ==
  [ p EXCEPT !.head = p.head + 1, !.max_usage = IF p.head + 1 > p.max_usage
                                                THEN p.max_usage + 1 ELSE p.max_usage ]

(* Taking the object at the head; the pool doubles when none is left. *)
Taken(p) ==
  [ p EXCEPT !.stack     = [p.stack EXCEPT ![p.head] = NULL],
             !.head      = p.head + 1,
             !.max_usage = IF p.head + 1 > p.max_usage
                           THEN p.max_usage + 1 ELSE p.max_usage ]

(* Mutant: the pool doubles when the stack is past its end only. *)
PopLate(p) == IF p.head = p.size THEN Double(Taken(p)) ELSE Taken(p)

Pop(p) == IF p.head + 1 = p.size THEN Double(Taken(p)) ELSE Taken(p)

(* Doubling asserts that a slot is left in the array of segments. *)
CanPop(p, segments_size) == p.head + 1 = p.size => p.segments < segments_size

(* Giving object x back. *)
Push(p, x) ==
  [ p EXCEPT !.head = p.head - 1, !.stack = [p.stack EXCEPT ![p.head - 1] = x] ]

(* pve_state_unset_lines_stack_sorted: the used half goes back to NULL. *)
ClearUsedHalf(p) ==
  [ p EXCEPT !.stack = [i \in 0 .. p.size - 1 |->
                          IF i < p.head THEN NULL ELSE p.stack[i]] ]

(* An array of object fields after the pool grew to n objects: the fields  *)
(* of the new objects are initialised to v.                                *)
Grow(f, n, v) == [i \in 0 .. n - 1 |-> IF i \in DOMAIN f THEN f[i] ELSE v]

-----------------------------------------------------------------------------
Objects(p) == 0 .. p.size - 1
FreeObjects(p) == {p.stack[i] : i \in p.head .. p.size - 1}
UsedObjects(p) == Objects(p) \ FreeObjects(p)

PoolType(p) ==
  p \in [ size : Nat \ {0}, head : Nat, segments : Nat, max_usage : Nat,
          stack : [0 .. p.size - 1 -> Objects(p) \cup {NULL}] ]

(* There is always a free object, the slots from the head up hold          *)
(* distinct objects.                                                       *)
PoolOK(p) ==
  /\ PoolType(p)
  /\ p.head < p.size
  /\ p.head <= p.max_usage
  /\ \A i \in p.head .. p.size - 1 : p.stack[i] \in Objects(p)
  /\ \A i, j \in p.head .. p.size - 1 : p.stack[i] = p.stack[j] => i = j

UsedHalfIsNull(p) == \A i \in 0 .. p.head - 1 : p.stack[i] = NULL
=============================================================================
