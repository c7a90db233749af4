----------------------------- MODULE SortArrays -----------------------------
(***************************************************************************)
(* Arrays as sort_utils.c sorts them: functions from 0 .. count - 1 to     *)
(* elements.  A comparator sees only the key of an element.  Its id, the   *)
(* place it had at first, tells equal elements apart: an element moves as  *)
(* a whole, so the ids show what was lost, doubled or put out of order.    *)
(* Sizes are far from the end of size_t.                                   *)
(***************************************************************************)
EXTENDS Integers, Sequences

CONSTANT cmp(_, _)   \* the compare function

(* The array with the given keys. *)
ArrayOf(keys) == [i \in 0 .. Len(keys) - 1 |-> [key |-> keys[i + 1], id |-> i]]

(* The comparator that the functions for doubles, integers and pointers use. *)
ThreeWay(x, y) == IF x.key < y.key THEN -1 ELSE IF x.key > y.key THEN 1 ELSE 0

(* Stable order, from first to last: by key, and by age when keys agree. *)
InOrder(a, first, last) ==
  \A i \in first .. last - 1 :
    a[i].key < a[i + 1].key \/ (a[i].key = a[i + 1].key /\ a[i].id < a[i + 1].id)

Ids(a, places) == {a[i].id : i \in places}

(* The binary searches of the file: the first index from left on, and      *)
(* before right, that does not come before the key.                        *)
BinarySearch(before, left, right) ==
  LET search[part \in Nat \X Nat] ==
        LET l == part[1]
            r == part[2]
            mid == (l + r) \div 2
        IN  IF l >= r THEN r
            ELSE IF before[mid] THEN search[<<mid + 1, r>>] ELSE search[<<l, mid>>]
  IN  search[<<left, right>>]

(* One turn of the loop of bnr_sort_from_ordered_initial_run, on the part  *)
(* of the array that begins at base: element i goes after those that are   *)
(* not larger.                                                             *)
Inserted(a, base, i) ==
  LET tmp == a[base + i]
      before == [m \in 0 .. i - 1 |-> cmp(tmp, a[base + m]) >= 0]
      left == base + BinarySearch(before, 0, i)
  IN  [j \in DOMAIN a |-> CASE j = left -> tmp
                            [] j \in left + 1 .. base + i -> a[j - 1]
                            [] OTHER -> a[j]]

bnr_sort_from_ordered_initial_run(a, base, count, start) ==
  LET sort[i \in 0 .. count] == IF i <= start THEN a ELSE Inserted(sort[i - 1], base, i - 1)
  IN  sort[count]
=============================================================================
