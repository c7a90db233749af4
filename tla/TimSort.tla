------------------------------ MODULE TimSort -------------------------------
(***************************************************************************)
(* sort_utils_timsort.  The array is cut into ascending runs from left to  *)
(* right.  The runs wait on a stack, and neighbours are merged in place    *)
(* with one of the two copied to a temporary array.  tms_merge_lo and      *)
(* tms_merge_hi are one algorithm here, upwards and downwards.  A step is  *)
(* one turn of a loop of the code.                                         *)
(***************************************************************************)
EXTENDS SortArrays

CONSTANTS
  Arrays,      \* the sequences of keys to sort
  MinMerge,    \* tms_min_merge, 32
  MinGallop,   \* tms_min_gallop, 7
  InitialTmp   \* initial_tmp_storage_length, 256

ASSUME TimSortAssumption ==
  /\ Arrays \subseteq Seq(Int)
  /\ MinMerge \in Nat \ {0} /\ MinGallop \in Nat \ {0} /\ InitialTmp \in Nat

(* The elements that occur, and what their comparator is to say of them.   *)
Elements ==
  [ key : UNION {{keys[i] : i \in DOMAIN keys} : keys \in Arrays},
    id : UNION {DOMAIN ArrayOf(keys) : keys \in Arrays} ]

ASSUME ComparatorAssumption ==
  \A x, y \in Elements : /\ cmp(x, y) \in Int
                         /\ cmp(x, y) < 0 <=> x.key < y.key
                         /\ cmp(x, y) > 0 <=> x.key > y.key

VARIABLES
  array, count,  \* what is sorted, and its length
  stack,         \* the runs yet to be merged, the oldest first: base and len
  tmp,           \* the elements copied to the temporary array
  tmp_count,     \* the number of elements for which it has memory
  min_gallop,
  lo,            \* how much of the array has been cut into runs
  phase,         \* "runs", "collapse", "force" or "done"
  merge          \* the merge under way

vars == <<array, count, stack, tmp, tmp_count, min_gallop, lo, phase, merge>>

NoMerge == << >>

-----------------------------------------------------------------------------
(* Galloping: probes at 1, 3, 7, ... from hint, to the right while the     *)
(* elements come before the key or to the left while they do not, and then *)
(* a binary search between the last two probes.                            *)

(* The first probe that fails, or the first one past the end. *)
FirstFailing(passes, max_ofs) ==
  LET probe[ofs \in Nat] == IF ofs < max_ofs /\ passes[ofs] THEN probe[2 * ofs + 1] ELSE ofs
  IN  probe[1]

(* before says which of len elements come before the key. *)
Gallop(before, len, hint) ==
  LET right == FirstFailing([o \in 1 .. len - hint - 1 |-> before[hint + o]], len - hint)
      left == FirstFailing([o \in 1 .. hint |-> ~before[hint - o]], hint + 1)
      Clamped(ofs, max_ofs) == IF ofs < max_ofs THEN ofs ELSE max_ofs
      Last(ofs) == (ofs - 1) \div 2   \* the probe before
  IN  IF before[hint]
        THEN BinarySearch(before, hint + Last(right) + 1, hint + Clamped(right, len - hint))
        ELSE BinarySearch(before, hint - Clamped(left, hint + 1) + 1, hint - Last(left))

(* How many of len elements are less than the key, and how many not larger. *)
tms_gallop_left(key, a, base, len, hint) ==
  Gallop([i \in 0 .. len - 1 |-> cmp(key, a[base + i]) > 0], len, hint)

(* Mutant: equal elements are not passed. *)
tms_gallop_right_strict(key, a, base, len, hint) ==
  Gallop([i \in 0 .. len - 1 |-> cmp(key, a[base + i]) > 0], len, hint)

tms_gallop_right(key, a, base, len, hint) ==
  Gallop([i \in 0 .. len - 1 |-> cmp(key, a[base + i]) >= 0], len, hint)

-----------------------------------------------------------------------------
(* Cutting the array into runs. *)

Descends(a, i) == cmp(a[i], a[i - 1]) < 0

(* A run goes on as long as its elements compare as the first two do. *)
RunLength(a, base, n) ==
  LET Stops(r) == r = n \/ Descends(a, base + r) # Descends(a, base + 1)
  IN  CHOOSE r \in 1 .. n : Stops(r) /\ \A s \in 1 .. r - 1 : ~Stops(s)

(* Only a run that descends strictly is reversed. *)
MadeAscending(a, base, len) ==
  IF len > 1 /\ Descends(a, base + 1)
    THEN [i \in DOMAIN a |-> IF i \in base .. base + len - 1 THEN a[2 * base + len - 1 - i] ELSE a[i]]
    ELSE a

(* The bits of n below the highest ones, rounded up. *)
tms_min_run_length(n) ==
  LET shift == CHOOSE k \in 0 .. n : /\ n \div 2 ^ k < MinMerge
                                     /\ \A j \in 0 .. k - 1 : n \div 2 ^ j >= MinMerge
  IN  n \div 2 ^ shift + (IF n % 2 ^ shift = 0 THEN 0 ELSE 1)

Init ==
  /\ \E keys \in Arrays : array = ArrayOf(keys) /\ count = Len(keys)
  /\ stack = << >> /\ lo = 0
  /\ tmp = << >>
  /\ tmp_count = IF count < 2 * InitialTmp THEN count \div 2 ELSE InitialTmp
  /\ min_gallop = MinGallop
  /\ phase = "runs"
  /\ merge = NoMerge

(* An array of less than two elements, or too short for merges. *)
ShortArray ==
  /\ phase = "runs" /\ count < MinMerge
  /\ LET len == RunLength(array, 0, count)
     IN  array' = IF count < 2 THEN array
                  ELSE bnr_sort_from_ordered_initial_run(MadeAscending(array, 0, len), 0, count, len)
  /\ phase' = "done"
  /\ UNCHANGED <<count, stack, tmp, tmp_count, min_gallop, lo, merge>>

(* The length that a short run is extended to. *)
Forced(len) ==
  LET min_run == tms_min_run_length(count)
  IN  IF len >= min_run THEN len ELSE IF count - lo <= min_run THEN count - lo ELSE min_run

(* The next run is found, extended and pushed.  lo moves on here already:  *)
(* the merges of the collapse do not read it.                              *)
PushRun ==
  /\ phase = "runs" /\ count >= MinMerge
  /\ LET natural == RunLength(array, lo, count - lo)
         len == Forced(natural)
     IN  /\ array' = bnr_sort_from_ordered_initial_run(MadeAscending(array, lo, natural), lo, len, natural)
         /\ stack' = Append(stack, [base |-> lo, len |-> len])
         /\ lo' = lo + len
  /\ phase' = "collapse"
  /\ UNCHANGED <<count, tmp, tmp_count, min_gallop, merge>>

-----------------------------------------------------------------------------
(* Merging two runs.  One of them, the far end of which is at dest, is     *)
(* copied to tmp, and both are put in place from that end on: dir is 1 for *)
(* tms_merge_lo, where tmp holds the first run, and -1 for tms_merge_hi,   *)
(* where it holds the second.  cur_a and len_a are the cursor and the rest *)
(* of the run that is in the array, cur_t and len_t those of tmp, count_a  *)
(* and count_t how often the one has won in a row.                         *)

(* c elements of src, from cur on in the direction of m, put at dest. *)
Moved(a, m, src, cur, c) ==
  [i \in DOMAIN a |-> LET k == m.dir * (i - m.dest)
                      IN  IF k \in 0 .. c - 1 THEN src[cur + m.dir * k] ELSE a[i]]

(* s.a is the array and s.m the merge. *)
TakeA(s, c) ==
  [a |-> Moved(s.a, s.m, s.a, s.m.cur_a, c),
   m |-> [s.m EXCEPT !.dest = @ + s.m.dir * c, !.cur_a = @ + s.m.dir * c, !.len_a = @ - c]]

(* Mutant: the place to fill next goes up in both directions. *)
TakeTUp(s, c) ==
  [a |-> Moved(s.a, s.m, tmp, s.m.cur_t, c),
   m |-> [s.m EXCEPT !.dest = @ + c, !.cur_t = @ + s.m.dir * c, !.len_t = @ - c]]

TakeT(s, c) ==
  [a |-> Moved(s.a, s.m, tmp, s.m.cur_t, c),
   m |-> [s.m EXCEPT !.dest = @ + s.m.dir * c, !.cur_t = @ + s.m.dir * c, !.len_t = @ - c]]

Now == [a |-> array, m |-> merge]

(* The merge ends when one run is used up but for one element of tmp. *)
Ends(s) == s.m.len_a = 0 \/ s.m.len_t <= 1

At(s, step) == [s EXCEPT !.m.step = IF Ends(s) THEN "outer" ELSE step]

tms_ensure_capacity(min_capacity) ==
  LET log == CHOOSE k \in 0 .. min_capacity : /\ 2 ^ k > min_capacity
                                              /\ \A j \in 0 .. k - 1 : 2 ^ j <= min_capacity
      half_a_size == count \div 2
  IN  IF tmp_count >= min_capacity THEN tmp_count
      ELSE IF 2 ^ log < half_a_size THEN 2 ^ log ELSE half_a_size

Becomes(s) == array' = s.a /\ merge' = s.m

(* The run that is not longer is copied, and the first element of the      *)
(* other one is in place at once.                                          *)
StartMerge(base1, len1, base2, len2) ==
  LET up == len1 <= len2
      base == IF up THEN base1 ELSE base2
      len == IF up THEN len1 ELSE len2
      m == [dir |-> IF up THEN 1 ELSE -1, step |-> "race", min_gallop |-> min_gallop,
            dest |-> IF up THEN base1 ELSE base2 + len2 - 1,
            cur_a |-> IF up THEN base2 ELSE base1 + len1 - 1,
            len_a |-> IF up THEN len2 ELSE len1,
            cur_t |-> IF up THEN 0 ELSE len2 - 1,
            len_t |-> len,
            count_a |-> 0, count_t |-> 0]
  IN  /\ tmp' = [i \in 0 .. len - 1 |-> array[base + i]]
      /\ tmp_count' = tms_ensure_capacity(len)
      /\ Becomes(At(TakeA([a |-> array, m |-> m], 1), "race"))

(* Mutant: the run above stays where it was. *)
StackMergedUnshifted(i) ==
  [j \in 1 .. Len(stack) - 1 |->
     IF j = i THEN [base |-> stack[i].base, len |-> stack[i].len + stack[i + 1].len] ELSE stack[j]]

(* The runs i and i + 1 of the stack are one, and a run above them moves   *)
(* down.                                                                   *)
StackMerged(i) ==
  [j \in 1 .. Len(stack) - 1 |->
     IF j < i THEN stack[j]
     ELSE IF j = i THEN [base |-> stack[i].base, len |-> stack[i].len + stack[i + 1].len]
     ELSE stack[j + 1]]

(* The runs i and i + 1 of the stack are merged; what is in place at the   *)
(* start of the first and at the end of the second is not merged.          *)
tms_merge_at(i) ==
  LET run1 == stack[i]
      run2 == stack[i + 1]
      k == tms_gallop_right(array[run2.base], array, run1.base, run1.len, 0)
      len1 == run1.len - k
      len2 == tms_gallop_left(array[run2.base - 1], array, run2.base, run2.len, run2.len - 1)
  IN  /\ stack' = StackMerged(i)
      /\ IF len1 = 0 \/ len2 = 0 THEN UNCHANGED <<array, tmp, tmp_count, merge>>
         ELSE StartMerge(run1.base + k, len1, run2.base, len2)
      /\ UNCHANGED <<count, min_gallop, lo, phase>>

Merging == merge # NoMerge

(* One comparison, and the smaller element is put in place; of equal ones  *)
(* the one of the first run, which is at the right end when going down.    *)
Race ==
  /\ Merging /\ merge.step = "race"
  /\ LET wins_a == IF merge.dir = 1 THEN cmp(array[merge.cur_a], tmp[merge.cur_t]) < 0
                                    ELSE cmp(tmp[merge.cur_t], array[merge.cur_a]) < 0
         taken == IF wins_a THEN TakeA(Now, 1) ELSE TakeT(Now, 1)
         count_a == IF wins_a THEN merge.count_a + 1 ELSE 0
         count_t == IF wins_a THEN 0 ELSE merge.count_t + 1
         next == IF count_a + count_t < merge.min_gallop THEN "race" ELSE "gallop"
     IN  Becomes(At([taken EXCEPT !.m = [@ EXCEPT !.count_a = count_a, !.count_t = count_t]], next))
  /\ UNCHANGED <<count, stack, tmp, tmp_count, min_gallop, lo, phase>>

(* After the first half of a turn of galloping comes the other.  After     *)
(* that galloping goes on if one half has gained enough, and else racing   *)
(* does, for longer than before.                                           *)
HalfTurn(s) ==
  LET left == s.m.min_gallop - 1
      gains == s.m.count_a >= MinGallop \/ s.m.count_t >= MinGallop
  IN  CASE Ends(s) -> At(s, "outer")
        [] ~Ends(s) /\ s.m.step = "gallop" -> At(s, "gallop2")
        [] ~Ends(s) /\ s.m.step = "gallop2" /\ gains ->
             At([s EXCEPT !.m.min_gallop = left], "gallop")
        [] ~Ends(s) /\ s.m.step = "gallop2" /\ ~gains ->
             At([s EXCEPT !.m = [@ EXCEPT !.min_gallop = (IF left < 0 THEN 0 ELSE left) + 2,
                                          !.count_a = 0, !.count_t = 0]], "race")

(* All the elements of tmp that go before the next one of the array, and   *)
(* then that one: the first half going up, the second going down.          *)
GallopT ==
  /\ Merging /\ merge.step = (IF merge.dir = 1 THEN "gallop" ELSE "gallop2")
  /\ LET key == array[merge.cur_a]
         gained == IF merge.dir = 1
                     THEN tms_gallop_right(key, tmp, merge.cur_t, merge.len_t, 0)
                     ELSE merge.len_t - tms_gallop_left(key, tmp, 0, merge.len_t, merge.len_t - 1)
         taken == [TakeT(Now, gained) EXCEPT !.m.count_t = gained]
     IN  Becomes(HalfTurn(IF Ends(taken) THEN taken ELSE TakeA(taken, 1)))
  /\ UNCHANGED <<count, stack, tmp, tmp_count, min_gallop, lo, phase>>

(* The same for the run in the array, which going down still begins where  *)
(* it did.                                                                 *)
GallopA ==
  /\ Merging /\ merge.step = (IF merge.dir = 1 THEN "gallop2" ELSE "gallop")
  /\ LET key == tmp[merge.cur_t]
         base == IF merge.dir = 1 THEN merge.cur_a ELSE merge.cur_a - merge.len_a + 1
         gained == IF merge.dir = 1
                     THEN tms_gallop_left(key, array, base, merge.len_a, 0)
                     ELSE merge.len_a - tms_gallop_right(key, array, base, merge.len_a, merge.len_a - 1)
         taken == [TakeA(Now, gained) EXCEPT !.m.count_a = gained]
     IN  Becomes(HalfTurn(IF Ends(taken) THEN taken ELSE TakeT(taken, 1)))
  /\ UNCHANGED <<count, stack, tmp, tmp_count, min_gallop, lo, phase>>

(* What is left of the array's run moves up to make room for the last      *)
(* element of tmp, or what is left in tmp fills the hole.  No action takes *)
(* the branch in which tmp is empty: there the code gives up.              *)
FinishMerge ==
  /\ Merging /\ merge.step = "outer" /\ merge.len_t > 0
  /\ array' = TakeT(TakeA(Now, merge.len_a), merge.len_t).a
  /\ min_gallop' = IF merge.min_gallop < 1 THEN 1 ELSE merge.min_gallop
  /\ tmp' = << >>
  /\ merge' = NoMerge
  /\ UNCHANGED <<count, stack, tmp_count, lo, phase>>

-----------------------------------------------------------------------------
(* Which runs to merge. *)

RunLen(i) == stack[i].len
Top == Len(stack)

(* tms_merge_collapse: one turn of its loop, and its end. *)
ThirdTooShort == Top > 2 /\ RunLen(Top - 2) <= RunLen(Top - 1) + RunLen(Top)
SecondTooShort == Top > 1 /\ RunLen(Top - 1) <= RunLen(Top)

(* The shorter neighbour of the run in the middle is merged with it. *)
MiddlePair == IF Top > 2 /\ RunLen(Top - 2) < RunLen(Top) THEN Top - 2 ELSE Top - 1

Collapse ==
  /\ phase = "collapse" /\ ~Merging
  /\ \/ ThirdTooShort /\ tms_merge_at(MiddlePair)
     \/ ~ThirdTooShort /\ SecondTooShort /\ tms_merge_at(Top - 1)

EndCollapse ==
  /\ phase = "collapse" /\ ~Merging
  /\ ~ThirdTooShort /\ ~SecondTooShort
  /\ phase' = IF lo < count THEN "runs" ELSE "force"
  /\ UNCHANGED <<array, count, stack, tmp, tmp_count, min_gallop, lo, merge>>

ForceCollapse ==
  /\ phase = "force" /\ ~Merging
  /\ Top > 1
  /\ tms_merge_at(MiddlePair)

EndSort ==
  /\ phase = "force" /\ ~Merging
  /\ Top = 1
  /\ phase' = "done"
  /\ UNCHANGED <<array, count, stack, tmp, tmp_count, min_gallop, lo, merge>>

(* The caller has the sorted array. *)
Sorted == phase = "done" /\ UNCHANGED vars

Next ==
  \/ ShortArray \/ PushRun
  \/ Collapse \/ EndCollapse
  \/ Race \/ GallopT \/ GallopA \/ FinishMerge
  \/ ForceCollapse \/ EndSort
  \/ Sorted

Spec == Init /\ [][Next]_vars

-----------------------------------------------------------------------------
(* What the documentation of TimSort says is always true, and what         *)
(* tms_merge_at asserts: no run on the stack is empty, and each one ends   *)
(* where the next one begins.  The first begins the array, and the last    *)
(* ends where the search for runs goes on.                                 *)
RunsTile ==
  stack # << >> =>
    /\ \A i \in 1 .. Top : stack[i].len > 0
    /\ stack[1].base = 0
    /\ \A i \in 1 .. Top - 1 : stack[i].base + stack[i].len = stack[i + 1].base
    /\ stack[Top].base + stack[Top].len = lo

(* tmp never holds more elements than it has memory for, although its      *)
(* growth stops at half the length of the array.                           *)
TmpFits == Merging => \A i \in DOMAIN tmp : i < tmp_count

(* Nothing is lost while the merge goes on: between the next place and the *)
(* rest of the array's run there is a hole, and what remains in tmp fits   *)
(* into it exactly and is what the rest of the array lacks.                *)
HoleHoldsRest ==
  IF ~Merging THEN Ids(array, 0 .. count - 1) = 0 .. count - 1
  ELSE LET up == merge.dir = 1
           hole == IF up THEN merge.dest .. merge.cur_a - 1 ELSE merge.cur_a + 1 .. merge.dest
           rest == IF up THEN merge.cur_t .. merge.cur_t + merge.len_t - 1
                         ELSE merge.cur_t - merge.len_t + 1 .. merge.cur_t
       IN  /\ merge.len_t = IF up THEN merge.cur_a - merge.dest ELSE merge.dest - merge.cur_a
           /\ Ids(array, (0 .. count - 1) \ hole) \cup Ids(tmp, rest) = 0 .. count - 1

(* The sort is stable: the runs are in stable order whenever no merge is   *)
(* under way, and so is the whole array at the end.                        *)
SortsStably ==
  ~Merging =>
    /\ \A i \in 1 .. Top : InOrder(array, stack[i].base, stack[i].base + stack[i].len - 1)
    /\ phase = "done" => InOrder(array, 0, count - 1)

(* A merge stays within the memory it has, and loses nothing.              *)
MergeSafe == TmpFits /\ HoleHoldsRest
=============================================================================
