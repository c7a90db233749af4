----------------------------- MODULE SortUtils ------------------------------
(***************************************************************************)
(* The sorts of sort_utils.c but timsort: each of them is an operator from *)
(* an array to the sorted array, and timsort has to end with what they     *)
(* return.  Positions are indexes here and not pointers, so that the size  *)
(* of an element matters to the pivot of quicksort only.                   *)
(***************************************************************************)
EXTENDS TimSort, SequencesExt

CONSTANTS
  SmallArray,      \* small_array_threshold of quicksort and mergesort, 7
  MedianOfThree,   \* fst_threshold_for_med, 7
  MedianOfNine     \* snd_threshold_for_med, 40

Count(a) == Cardinality(DOMAIN a)
Upwards(first, last) == [k \in 1 .. last - first + 1 |-> first + k - 1]
Downwards(first, last) == Reverse(Upwards(last, first))
Swapped(a, i, j) == [a EXCEPT ![i] = a[j], ![j] = a[i]]

-----------------------------------------------------------------------------
(* Insertion sort and binary sort. *)

RECURSIVE Sunk(_, _, _)
Sunk(a, base, j) ==
  IF j = base \/ cmp(a[j - 1], a[j]) <= 0 THEN a ELSE Sunk(Swapped(a, j, j - 1), base, j - 1)

insertionsort(a, base, n) ==
  FoldLeft(LAMBDA b, i : Sunk(b, base, i), a, Upwards(base + 1, base + n - 1))

binarysort(a) == bnr_sort_from_ordered_initial_run(a, 0, Count(a), 0)

-----------------------------------------------------------------------------
(* Heap sort: the larger child goes up until the parent is not smaller. *)

RECURSIVE hps_sift_down(_, _, _)
hps_sift_down(a, root, end) ==
  LET left == 2 * root + 1
      child == IF left < end - 1 /\ cmp(a[left], a[left + 1]) < 0 THEN left + 1 ELSE left
  IN  IF left < end /\ cmp(a[root], a[child]) < 0
        THEN hps_sift_down(Swapped(a, child, root), child, end)
        ELSE a

heapsort(a) ==
  LET n == Count(a)
      heap == FoldLeft(LAMBDA b, start : hps_sift_down(b, start, n), a,
                       Downwards((n - 2) \div 2, 0))
  IN  FoldLeft(LAMBDA b, end : hps_sift_down(Swapped(b, end, 0), 0, end), heap, Downwards(n - 1, 1))

-----------------------------------------------------------------------------
(* Smooth sort.  The array is a row of heaps with Leonardo numbers of      *)
(* elements, each with its root at its end.  b and c are the size of the   *)
(* last heap and the Leonardo number before it, and the bits of p are the  *)
(* sizes that are there, from b upwards.                                   *)

sms_up(bc) == <<bc[1] + bc[2] + 1, bc[1]>>

(* Mutant: the number before is one too large. *)
sms_down_late(bc) == <<bc[2], bc[1] - bc[2]>>

sms_down(bc) == <<bc[2], bc[1] - bc[2] - 1>>

(* The larger of the roots of the two heaps below r, and the size of the   *)
(* heap it is the root of; the right one of two equal ones.                *)
LargerChild(a, r, bc) ==
  LET left == r + bc[2] - bc[1]
  IN  IF cmp(a[r - 1], a[left]) >= 0 THEN [at |-> r - 1, bc |-> sms_down(bc), right |-> TRUE]
      ELSE [at |-> left, bc |-> bc, right |-> FALSE]

(* x goes down from r to where no root below is larger or equal. *)
RECURSIVE Sifted(_, _, _, _)
Sifted(a, x, r, bc) ==
  LET child == LargerChild(a, r, bc)
  IN  IF bc[1] < 3 \/ cmp(a[child.at], x) < 0 THEN [a EXCEPT ![r] = x]
      ELSE Sifted([a EXCEPT ![r] = a[child.at]], x, child.at, sms_down(child.bc))

sms_sift(a, r, bc) == Sifted(a, a[r], r, bc)

(* x goes to the left along the roots of the heaps as long as they are not *)
(* smaller, and from there down into its heap.                             *)
RECURSIVE Trinkled(_, _, _, _, _)
Trinkled(a, x, r, p, bc) ==
  LET r3 == r - bc[1]
      child == LargerChild(a, r, bc)
      p1 == IF child.right THEN 2 * (p - 1) ELSE p - 1
  IN  IF p > 0 /\ p % 2 = 0 THEN Trinkled(a, x, r, p \div 2, sms_up(bc))
      ELSE IF p <= 1 \/ cmp(a[r3], x) < 0 THEN Sifted([a EXCEPT ![r] = x], x, r, bc)
      ELSE IF bc[1] = 1 THEN Trinkled([a EXCEPT ![r] = a[r3]], x, r3, p - 1, bc)
      ELSE IF cmp(a[child.at], a[r3]) < 0 THEN Trinkled([a EXCEPT ![r] = a[r3]], x, r3, p1, child.bc)
      ELSE Trinkled([a EXCEPT ![r] = a[child.at]], x, child.at, 0, sms_down(child.bc))

sms_trinkle(a, r, p, bc) == Trinkled(a, a[r], r, p, bc)

sms_semitrinkle(a, r, p, bc) ==
  LET r1 == r - bc[2]
  IN  IF cmp(a[r1], a[r]) >= 0 THEN sms_trinkle(Swapped(a, r, r1), r1, p, bc) ELSE a

(* Down to heaps of one element. *)
RECURSIVE Lowered(_, _)
Lowered(p, bc) == IF bc[1] <= 1 THEN <<p, bc>> ELSE Lowered(2 * p, sms_down(bc))

(* Up to the size of a heap that is there. *)
RECURSIVE Raised(_, _)
Raised(p, bc) == IF p % 2 = 1 THEN <<p, bc>> ELSE Raised(p \div 2, sms_up(bc))

RECURSIVE Grown(_, _, _, _)
Grown(a, q, p, bc) ==
  LET r == q - 1
      low == Lowered(2 * p, sms_down(bc))
  IN  CASE q >= Count(a) -> [a |-> sms_trinkle(a, r, p, bc), p |-> p, bc |-> bc]
        [] q < Count(a) /\ p % 8 = 3 ->
             Grown(sms_sift(a, r, bc), q + 1, (p + 1) \div 4, sms_up(sms_up(bc)))
        [] q < Count(a) /\ p % 4 = 1 ->
             Grown(IF q + bc[2] < Count(a) THEN sms_sift(a, r, bc) ELSE sms_trinkle(a, r, p, bc),
                   q + 1, low[1] + 1, low[2])
        [] OTHER -> Grown(a, q + 1, p, bc)

RECURSIVE Shrunk(_, _, _, _)
Shrunk(a, q, p, bc) ==
  LET r == q - 1
      up == Raised(p - 1, bc)
      r1 == r + bc[2] - bc[1]
      one == IF p > 1 THEN sms_semitrinkle(a, r1, p - 1, bc) ELSE a
      bc1 == sms_down(bc)
      p1 == 2 * (p - 1) + 1
      two == sms_semitrinkle(one, r1 + bc1[2], p1, bc1)
  IN  CASE q <= 1 -> a
        [] q > 1 /\ bc[1] = 1 -> Shrunk(a, q - 1, up[1], up[2])
        [] q > 1 /\ bc[1] >= 3 -> Shrunk(two, q - 1, 2 * p1 + 1, sms_down(bc1))
        [] OTHER -> Shrunk(a, q - 1, p, bc)

smoothsort(a) == LET grown == Grown(a, 1, 1, <<1, 1>>) IN Shrunk(grown.a, Count(a), grown.p, grown.bc)

-----------------------------------------------------------------------------
(* Quick sort of the part [base, base + count). *)

qks_med3(a, i, j, k) ==
  IF cmp(a[i], a[j]) < 0
    THEN IF cmp(a[j], a[k]) < 0 THEN j ELSE IF cmp(a[i], a[k]) < 0 THEN k ELSE i
    ELSE IF cmp(a[j], a[k]) > 0 THEN j ELSE IF cmp(a[i], a[k]) > 0 THEN k ELSE i

(* The index of the partition value. *)
PartitionAt(a, base, n) ==
  LET first == base
      middle == base + n \div 2
      last == base + n - 1
      s == n \div 8
  IN  IF n <= MedianOfThree THEN middle
      ELSE IF n <= MedianOfNine THEN qks_med3(a, first, middle, last)
      ELSE qks_med3(a, qks_med3(a, first, first + s, first + 2 * s),
                       qks_med3(a, middle - s, middle, middle + s),
                       qks_med3(a, last - 2 * s, last - s, last))

(* Elements from pb to pc are yet to be partitioned; those equal to the    *)
(* value v are before pa and after pd.                                     *)
RECURSIVE Partitioned(_, _)
Partitioned(s, v) ==
  LET a == s.a
      left == cmp(a[s.pb], v)
      right == cmp(a[s.pc], v)
  IN  IF s.pb <= s.pc /\ left <= 0
        THEN Partitioned([s EXCEPT !.a = IF left = 0 THEN Swapped(a, s.pa, s.pb) ELSE a,
                                   !.pa = IF left = 0 THEN @ + 1 ELSE @, !.pb = @ + 1], v)
      ELSE IF s.pc >= s.pb /\ right >= 0
        THEN Partitioned([s EXCEPT !.a = IF right = 0 THEN Swapped(a, s.pc, s.pd) ELSE a,
                                   !.pd = IF right = 0 THEN @ - 1 ELSE @, !.pc = @ - 1], v)
      ELSE IF s.pb > s.pc THEN s
      ELSE Partitioned([s EXCEPT !.a = Swapped(a, s.pb, s.pc), !.pb = @ + 1, !.pc = @ - 1], v)

(* qks_vec_swap *)
BlocksSwapped(a, i, j, n) ==
  [k \in DOMAIN a |-> CASE k \in i .. i + n - 1 -> a[k - i + j]
                        [] k \in j .. j + n - 1 -> a[k - j + i]
                        [] OTHER -> a[k]]

qks_min(a, b) == IF a < b THEN a ELSE b

(* An element of one word is copied to be the partition value; a longer   *)
(* or a shorter one is put at the front and stays there while the rest is  *)
(* partitioned.                                                            *)
RECURSIVE quicksort(_, _, _, _)
quicksort(a, base, n, of_words) ==
  LET pm == PartitionAt(a, base, n)
      start == IF of_words THEN a ELSE Swapped(a, base, pm)
      last == base + n - 1
      s == Partitioned([a |-> start, pa |-> base, pb |-> base, pc |-> last, pd |-> last], a[pm])
      smaller == s.pb - s.pa
      larger == s.pd - s.pc
      near == qks_min(s.pa - base, smaller)
      far == qks_min(larger, last - s.pd)
      parted == BlocksSwapped(BlocksSwapped(s.a, base, s.pb - near, near),
                              s.pb, last + 1 - far, far)
      lower == IF smaller > 1 THEN quicksort(parted, base, smaller, of_words) ELSE parted
  IN  IF n < SmallArray THEN insertionsort(a, base, n)
      ELSE IF larger > 1 THEN quicksort(lower, last + 1 - larger, larger, of_words) ELSE lower

-----------------------------------------------------------------------------
(* Shell sort.  An element goes down by steps of the gap until it finds a  *)
(* smaller one: equal elements are exchanged.                              *)

gap_seq == <<1, 4, 9, 20, 46, 103>>   \* its first members; the rest is past any bound here

RECURSIVE Shelled(_, _, _)
Shelled(a, j, gap) ==
  LET b == Swapped(a, j, j + gap)
  IN  IF cmp(a[j], a[j + gap]) < 0 THEN a
      ELSE IF j < gap THEN b ELSE Shelled(b, j - gap, gap)

shellsort(a) ==
  LET n == Count(a)
      WithGap(b, gap) == FoldLeft(LAMBDA d, i : Shelled(d, i - gap, gap), b, Upwards(gap, n - 1))
      gaps == SelectSeq(gap_seq, LAMBDA gap : gap <= n)
  IN  IF n < 2 THEN a ELSE FoldLeft(WithGap, a, Reverse(gaps))

-----------------------------------------------------------------------------
(* Merge sort.  Of two equal elements the one on the right goes first, so  *)
(* that only arrays below the threshold are sorted stably.                 *)

(* What the auxiliary array holds after the two parts were merged. *)
RECURSIVE Merged(_, _)
Merged(left, right) ==
  CASE left = << >> -> right
    [] right = << >> -> left
    [] left # << >> /\ right # << >> ->
         IF cmp(Head(left), Head(right)) < 0
           THEN <<Head(left)>> \o Merged(Tail(left), right)
           ELSE <<Head(right)>> \o Merged(left, Tail(right))

RECURSIVE mergesort(_, _, _)
mergesort(a, base, n) ==
  LET hc == n \div 2
      halves == mergesort(mergesort(a, base, hc), base + hc, n - hc)
      Part(first, last) == [k \in 1 .. last - first + 1 |-> halves[first + k - 1]]
      aux == Merged(Part(base, base + hc - 1), Part(base + hc, base + n - 1))
  IN  IF n < SmallArray THEN insertionsort(a, base, n)
      ELSE [i \in DOMAIN a |-> IF i \in base .. base + n - 1 THEN aux[i - base + 1] ELSE a[i]]

-----------------------------------------------------------------------------
(* The array that timsort was called with. *)
Given == [i \in DOMAIN array |-> CHOOSE e \in {array[j] : j \in DOMAIN array} : e.id = i]

(* The other sorts return the elements they were given in ascending order, *)
(* and the two that compare neighbours return what timsort does, since all *)
(* three are stable.                                                       *)
SortsAgree ==
  phase = "done" /\ count > 0 =>
    LET SameKeys(a) == /\ Ids(a, 0 .. count - 1) = 0 .. count - 1
                       /\ \A i \in 0 .. count - 1 : a[i].key = array[i].key
    IN  /\ insertionsort(Given, 0, count) = array
        /\ binarysort(Given) = array
        /\ SameKeys(heapsort(Given))
        /\ SameKeys(smoothsort(Given))
        /\ SameKeys(quicksort(Given, 0, count, TRUE)) /\ SameKeys(quicksort(Given, 0, count, FALSE))
        /\ SameKeys(shellsort(Given))
        /\ SameKeys(mergesort(Given, 0, count))
=============================================================================
