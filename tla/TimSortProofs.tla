--------------------------- MODULE TimSortProofs ----------------------------
(***************************************************************************)
(* TimSort, for arrays of any length and with any thresholds: its binary   *)
(* searches and gallops find what they look for, its runs tile the array,  *)
(* a merge loses nothing and stays within its memory, and the sort is      *)
(* stable.                                                                 *)
(*                                                                         *)
(* The lemmas go from the parts to the whole: the recursions of the binary *)
(* search and of the probes, the insertions into an ordered part, the cut  *)
(* into runs, what a step of a merge does to the elements in question seen *)
(* from the end that is filled first (so that tms_merge_lo and             *)
(* tms_merge_hi are one argument), and the invariant SortInv with a lemma  *)
(* for each action.                                                        *)
(***************************************************************************)
EXTENDS TimSort, FiniteSetTheorems, SequenceTheorems, WellFoundedInduction, TLAPS

(* A set of natural numbers that is not empty has a least element. *)
LEMMA LeastNatural ==
  ASSUME NEW T, T \subseteq Nat, T # {}
  PROVE  \E x \in T : \A y \in T : x <= y
<1>1. PICK x \in T : \A y \in T : ~(<<y, x>> \in OpToRel(<, Nat))
  BY NatLessThanWellFounded, WFMin
<1>2. \A y \in T : ~(y < x)
  BY <1>1 DEF OpToRel
<1> QED
  BY <1>2

LEMMA NextNumber ==
  \A a, b \in Int : a < b + 1 => a = b \/ a < b
OBVIOUS

-----------------------------------------------------------------------------
(* Recursion.  A function is well defined by a recursion that goes down in *)
(* rank.  What the recursion makes of an argument p and of a function f is *)
(* step[p, f].                                                             *)
Ranked(D, V, rank, below, step) ==
  /\ V # {}
  /\ rank \in [D -> Nat]
  /\ below \in [D -> SUBSET D]
  /\ \A p \in D : \A q \in below[p] : rank[q] < rank[p]
  /\ step \in [D \X [D -> V] -> V]
  /\ \A p \in D : \A f, h \in [D -> V] :
       (\A q \in below[p] : f[q] = h[q]) => step[<<p, f>>] = step[<<p, h>>]

(* f solves the recursion for the arguments of less than rank k. *)
SolvesBelow(D, V, rank, step, k, f) ==
  f \in [D -> V] /\ \A p \in D : rank[p] < k => f[p] = step[<<p, f>>]

LEMMA SolutionBelow ==
  ASSUME NEW D, NEW V, NEW rank, NEW below, NEW step,
         Ranked(D, V, rank, below, step), NEW n \in Nat
  PROVE  \E f : SolvesBelow(D, V, rank, step, n, f)
<1>0. /\ rank \in [D -> Nat]
      /\ below \in [D -> SUBSET D]
      /\ \A p \in D : \A q \in below[p] : rank[q] < rank[p]
      /\ step \in [D \X [D -> V] -> V]
      /\ \A p \in D : \A f, h \in [D -> V] :
           (\A q \in below[p] : f[q] = h[q]) => step[<<p, f>>] = step[<<p, h>>]
  BY DEF Ranked
<1> PICK v0 : v0 \in V
  BY DEF Ranked
<1> USE <1>0
<1> DEFINE Defined(k) == \E f \in [D -> V] : \A p \in D : rank[p] < k => f[p] = step[<<p, f>>]
           T == {k \in Nat : ~Defined(k)}
<1>1. Defined(0)
  <2>1. [p \in D |-> v0] \in [D -> V] /\ \A p \in D : ~(rank[p] < 0)
    OBVIOUS
  <2> QED
    BY <2>1
<1>2. ASSUME NEW k \in Nat, Defined(k) PROVE Defined(k + 1)
  <2>1. PICK f \in [D -> V] : \A p \in D : rank[p] < k => f[p] = step[<<p, f>>]
    BY <1>2
  <2> DEFINE h == [p \in D |-> IF rank[p] = k THEN step[<<p, f>>] ELSE f[p]]
  <2>2. h \in [D -> V]
    <3>1. \A p \in D : <<p, f>> \in D \X [D -> V]
      OBVIOUS
    <3> QED
      BY <3>1
  <2>3. ASSUME NEW p \in D, rank[p] < k + 1 PROVE h[p] = step[<<p, h>>]
    <3>1. k \in Int /\ rank[p] \in Int /\ \A q \in below[p] : q \in D /\ rank[q] \in Int
      OBVIOUS
    <3>2. \A q \in below[p] : rank[q] # k
      BY <2>3, <3>1
    <3>3. \A q \in below[p] : f[q] = h[q]
      BY <3>1, <3>2
    <3>4. h[p] = IF rank[p] = k THEN step[<<p, f>>] ELSE f[p]
      OBVIOUS
    <3>5. rank[p] = k \/ rank[p] < k
      <4> HIDE DEF h
      <4> QED
        BY <2>3, <3>1, NextNumber
    <3> HIDE DEF h
    <3>6. step[<<p, f>>] = step[<<p, h>>]
      BY <2>2, <3>3
    <3> QED
      BY <2>1, <3>4, <3>5, <3>6
  <2> HIDE DEF h
  <2> QED
    BY <2>2, <2>3
<1>3. ASSUME T # {} PROVE FALSE
  <2>1. PICK k \in T : \A j \in T : k <= j
    <3>1. T \subseteq Nat
      OBVIOUS
    <3> HIDE DEF T
    <3> QED
      BY <1>3, <3>1, LeastNatural
  <2>2. k # 0 /\ k - 1 \in Nat /\ k - 1 \notin T /\ (k - 1) + 1 = k
    <3>1. k \in Nat /\ ~Defined(k)
      BY <2>1
    <3>2. k # 0 /\ k - 1 \in Nat /\ ~(k <= k - 1) /\ (k - 1) + 1 = k
      <4>1. k # 0
        BY <1>1, <3>1, Zenon
      <4> QED
        BY <3>1, <4>1
    <3> HIDE DEF T
    <3> QED
      BY <2>1, <3>2
  <2>3. Defined(k - 1)
    BY <2>2
  <2>4. Defined((k - 1) + 1)
    <3> HIDE DEF Defined
    <3> QED
      BY <1>2, <2>2, <2>3
  <2>5. Defined(k)
    <3> HIDE DEF Defined
    <3> QED
      BY <2>2, <2>4
  <2> QED
    BY <2>1, <2>5
<1> QED
  BY <1>3 DEF SolvesBelow

(* Two solutions agree as far as both of them go. *)
LEMMA SolutionsAgree ==
  ASSUME NEW D, NEW V, NEW rank, NEW below, NEW step,
         Ranked(D, V, rank, below, step), NEW m \in Nat, NEW n \in Nat, NEW f, NEW h,
         SolvesBelow(D, V, rank, step, m, f), SolvesBelow(D, V, rank, step, n, h),
         NEW p \in D, rank[p] < m, rank[p] < n
  PROVE  f[p] = h[p]
<1> DEFINE Differs(k) == \E q \in D : rank[q] = k /\ rank[q] < m /\ rank[q] < n /\ f[q] # h[q]
           T == {k \in Nat : Differs(k)}
<1>1. ASSUME T # {} PROVE FALSE
  <2>1. PICK k \in T : \A j \in T : k <= j
    <3>1. T \subseteq Nat
      OBVIOUS
    <3> HIDE DEF T
    <3> QED
      BY <1>1, <3>1, LeastNatural
  <2>2. PICK q \in D : rank[q] = k /\ rank[q] < m /\ rank[q] < n /\ f[q] # h[q]
    OBVIOUS
  <2>3. ASSUME NEW r \in below[q] PROVE f[r] = h[r]
    <3>1. r \in D /\ rank[r] \in Nat /\ rank[q] \in Nat /\ rank[r] < rank[q]
      BY DEF Ranked
    <3>2. rank[r] \notin T
      <4> HIDE DEF T
      <4> QED
        BY <2>1, <2>2, <3>1
    <3>3. ~Differs(rank[r])
      BY <3>1, <3>2
    <3> QED
      BY <2>2, <3>1, <3>3
  <2>4. f \in [D -> V] /\ h \in [D -> V]
    BY DEF SolvesBelow
  <2>5. step[<<q, f>>] = step[<<q, h>>]
    <3>1. \A a \in D : \A x, y \in [D -> V] :
            (\A b \in below[a] : x[b] = y[b]) => step[<<a, x>>] = step[<<a, y>>]
      BY DEF Ranked
    <3> QED
      BY <2>3, <2>4, <3>1
  <2> QED
    BY <2>2, <2>5 DEF SolvesBelow
<1>2. rank[p] \in Nat
  BY DEF Ranked
<1> QED
  BY <1>1, <1>2

LEMMA RankedRecursion ==
  ASSUME NEW D, NEW V, NEW rank, NEW below, NEW step,
         Ranked(D, V, rank, below, step)
  PROVE  \E f \in [D -> V] : \A p \in D : f[p] = step[<<p, f>>]
<1> DEFINE Part(k) == CHOOSE f : SolvesBelow(D, V, rank, step, k, f)
           f == [p \in D |-> Part(rank[p] + 1)[p]]
<1>1. \A k \in Nat : SolvesBelow(D, V, rank, step, k, Part(k))
  BY SolutionBelow
<1>2. \A p \in D : rank[p] \in Nat /\ rank[p] + 1 \in Nat /\ rank[p] < rank[p] + 1
  <2>1. \A p \in D : rank[p] \in Nat
    BY DEF Ranked
  <2> QED
    BY <2>1
<1> HIDE DEF Part
<1>3. \A p \in D : f[p] = Part(rank[p] + 1)[p]
  OBVIOUS
<1>4. f \in [D -> V]
  <2>1. \A p \in D : Part(rank[p] + 1) \in [D -> V]
    BY <1>1, <1>2 DEF SolvesBelow
  <2> QED
    BY <2>1
<1> HIDE DEF f
<1>5. ASSUME NEW p \in D PROVE f[p] = step[<<p, f>>]
  <2> DEFINE g == Part(rank[p] + 1)
  <2>1. SolvesBelow(D, V, rank, step, rank[p] + 1, g)
    BY <1>1, <1>2
  <2>2. g \in [D -> V] /\ g[p] = step[<<p, g>>]
    BY <1>2, <2>1 DEF SolvesBelow
  <2>3. ASSUME NEW q \in below[p] PROVE f[q] = g[q]
    <3>1. q \in D /\ rank[q] < rank[p]
      BY DEF Ranked
    <3>2. rank[q] < rank[p] + 1 /\ rank[q] < rank[q] + 1
      BY <1>2, <3>1
    <3>3. SolvesBelow(D, V, rank, step, rank[q] + 1, Part(rank[q] + 1))
      BY <1>1, <1>2, <3>1
    <3> HIDE DEF g
    <3>4. Part(rank[q] + 1)[q] = g[q]
      BY <1>2, <2>1, <3>1, <3>2, <3>3, SolutionsAgree
    <3> QED
      BY <1>3, <3>1, <3>4
  <2>4. f[p] = g[p]
    BY <1>3
  <2> HIDE DEF g
  <2>5. step[<<p, f>>] = step[<<p, g>>]
    BY <1>4, <2>2, <2>3 DEF Ranked
  <2> QED
    BY <2>2, <2>4, <2>5
<1> QED
  BY <1>4, <1>5

-----------------------------------------------------------------------------
(* The binary search. *)

Middle(l, r) == (l + r) \div 2

LEMMA MiddleBetween ==
  ASSUME NEW l \in Nat, NEW r \in Nat, l < r
  PROVE  Middle(l, r) \in Nat /\ l <= Middle(l, r) /\ Middle(l, r) < r
BY DEF Middle

(* One turn of the loop, which goes on as f. *)
SearchTurn(before, f, l, r) ==
  IF l >= r THEN r
  ELSE IF before[Middle(l, r)] THEN f[<<Middle(l, r) + 1, r>>] ELSE f[<<l, Middle(l, r)>>]

(* Its results satisfy the equation of the loop. *)
LEMMA SearchEquation ==
  ASSUME NEW before
  PROVE  \E f :
           /\ \A l, r \in Nat : f[<<l, r>>] = SearchTurn(before, f, l, r)
           /\ \A l, r \in Nat : BinarySearch(before, l, r) = f[<<l, r>>]
<1> DEFINE D == Nat \X Nat
           rank == [p \in D |-> IF p[1] >= p[2] THEN 0 ELSE p[2] - p[1]]
           below == [p \in D |-> IF p[1] >= p[2] THEN {}
                                 ELSE {<<Middle(p[1], p[2]) + 1, p[2]>>, <<p[1], Middle(p[1], p[2])>>}]
           step == [pf \in D \X [D -> Nat] |-> SearchTurn(before, pf[2], pf[1][1], pf[1][2])]
           Solves(f) == f = [p \in D |-> SearchTurn(before, f, p[1], p[2])]
<1>1. ASSUME NEW p \in D
      PROVE  \E l, r \in Nat : /\ p = <<l, r>> /\ p[1] = l /\ p[2] = r
                               /\ rank[p] = IF l >= r THEN 0 ELSE r - l
                               /\ below[p] = IF l >= r THEN {} ELSE {<<Middle(l, r) + 1, r>>, <<l, Middle(l, r)>>}
  <2>1. PICK l \in Nat, r \in Nat : p = <<l, r>>
    OBVIOUS
  <2>2. p[1] = l /\ p[2] = r
    BY <2>1
  <2>3. rank[p] = IF p[1] >= p[2] THEN 0 ELSE p[2] - p[1]
    OBVIOUS
  <2>4. below[p] = IF p[1] >= p[2] THEN {}
                   ELSE {<<Middle(p[1], p[2]) + 1, p[2]>>, <<p[1], Middle(p[1], p[2])>>}
    OBVIOUS
  <2> HIDE DEF rank, below, D
  <2> QED
    BY <2>1, <2>2, <2>3, <2>4
<1>2. ASSUME NEW l \in Nat, NEW r \in Nat, NEW f \in [D -> Nat]
      PROVE  /\ step[<<<<l, r>>, f>>] = SearchTurn(before, f, l, r)
             /\ SearchTurn(before, f, l, r) \in Nat
  <2>1. <<<<l, r>>, f>> \in D \X [D -> Nat]
    OBVIOUS
  <2>2. step[<<<<l, r>>, f>>] = SearchTurn(before, f, l, r)
    BY <2>1
  <2>3. l < r => <<Middle(l, r) + 1, r>> \in D /\ <<l, Middle(l, r)>> \in D
    BY MiddleBetween
  <2>4. SearchTurn(before, f, l, r) \in Nat
    BY <2>3 DEF SearchTurn
  <2> QED
    BY <2>2, <2>4
<1>3. Ranked(D, Nat, rank, below, step)
  <2>1. rank \in [D -> Nat]
    OBVIOUS
  <2>2. below \in [D -> SUBSET D]
    <3>1. ASSUME NEW p \in D PROVE below[p] \in SUBSET D
      <4>1. PICK l \in Nat, r \in Nat :
              /\ p = <<l, r>>
              /\ below[p] = IF l >= r THEN {} ELSE {<<Middle(l, r) + 1, r>>, <<l, Middle(l, r)>>}
        BY <1>1
      <4> HIDE DEF below
      <4> QED
        BY <4>1, MiddleBetween
    <3>2. below = [p \in D |-> below[p]]
      OBVIOUS
    <3> HIDE DEF below, D
    <3> QED
      BY <3>1, <3>2
  <2>3. ASSUME NEW p \in D, NEW q \in below[p] PROVE rank[q] < rank[p]
    <3>1. PICK l \in Nat, r \in Nat :
              /\ p = <<l, r>> /\ rank[p] = IF l >= r THEN 0 ELSE r - l
              /\ below[p] = IF l >= r THEN {} ELSE {<<Middle(l, r) + 1, r>>, <<l, Middle(l, r)>>}
      BY <1>1
    <3>2. l < r /\ (q = <<Middle(l, r) + 1, r>> \/ q = <<l, Middle(l, r)>>)
      <4> HIDE DEF below
      <4> QED
        BY <2>3, <3>1
    <3>3. Middle(l, r) \in Nat /\ l <= Middle(l, r) /\ Middle(l, r) < r
      BY <3>2, MiddleBetween
    <3>4. \A x, y \in Nat : rank[<<x, y>>] = IF x >= y THEN 0 ELSE y - x
      OBVIOUS
    <3> HIDE DEF rank
    <3>5. CASE q = <<Middle(l, r) + 1, r>>
      BY <3>1, <3>2, <3>3, <3>4, <3>5
    <3>6. CASE q = <<l, Middle(l, r)>>
      BY <3>1, <3>2, <3>3, <3>4, <3>6
    <3> QED
      BY <3>2, <3>5, <3>6
  <2>4. step \in [D \X [D -> Nat] -> Nat]
    <3>1. ASSUME NEW pf \in D \X [D -> Nat] PROVE step[pf] \in Nat
      <4>1. PICK l \in Nat, r \in Nat, f \in [D -> Nat] : pf = <<<<l, r>>, f>>
        OBVIOUS
      <4> HIDE DEF step
      <4> QED
        BY <1>2, <4>1
    <3>2. step = [pf \in D \X [D -> Nat] |-> step[pf]]
      OBVIOUS
    <3> HIDE DEF step, D
    <3> QED
      BY <3>1, <3>2
  <2>5. ASSUME NEW p \in D, NEW f \in [D -> Nat], NEW h \in [D -> Nat],
               \A q \in below[p] : f[q] = h[q]
        PROVE  step[<<p, f>>] = step[<<p, h>>]
    <3>1. PICK l \in Nat, r \in Nat :
              /\ p = <<l, r>>
              /\ below[p] = IF l >= r THEN {} ELSE {<<Middle(l, r) + 1, r>>, <<l, Middle(l, r)>>}
      BY <1>1
    <3>2. SearchTurn(before, f, l, r) = SearchTurn(before, h, l, r)
      <4> HIDE DEF below
      <4> QED
        BY <2>5, <3>1 DEF SearchTurn
    <3> HIDE DEF step, below
    <3> QED
      BY <1>2, <3>1, <3>2
  <2> HIDE DEF D, rank, below, step
  <2> QED
    BY <2>1, <2>2, <2>3, <2>4, <2>5 DEF Ranked
<1>4. PICK f \in [D -> Nat] : \A p \in D : f[p] = step[<<p, f>>]
  <2> HIDE DEF D, rank, below, step
  <2> QED
    BY <1>3, RankedRecursion
<1>5. \A l, r \in Nat : f[<<l, r>>] = SearchTurn(before, f, l, r)
  <2> TAKE l, r \in Nat
  <2>1. <<l, r>> \in D
    OBVIOUS
  <2> HIDE DEF step
  <2> QED
    BY <1>2, <1>4, <2>1
<1>6. Solves(f)
  <2>1. f = [p \in D |-> f[p]]
    BY <1>4
  <2>2. \A p \in D : f[p] = SearchTurn(before, f, p[1], p[2])
    BY <1>5
  <2> HIDE DEF D
  <2> QED
    BY <2>1, <2>2
<1> DEFINE s == CHOOSE g : Solves(g)
<1>7. Solves(s)
  BY <1>6
<1>8. \A l, r \in Nat : BinarySearch(before, l, r) = s[<<l, r>>]
  BY DEF BinarySearch, SearchTurn, Middle
<1> HIDE DEF s
<1>9. ASSUME NEW l \in Nat, NEW r \in Nat PROVE s[<<l, r>>] = SearchTurn(before, s, l, r)
  <2>1. <<l, r>> \in D /\ <<l, r>>[1] = l /\ <<l, r>>[2] = r
    OBVIOUS
  <2>2. \A p \in D : s[p] = SearchTurn(before, s, p[1], p[2])
    BY <1>7
  <2> HIDE DEF D
  <2> QED
    BY <2>1, <2>2
<1> QED
  BY <1>8, <1>9

(* What is found lies between the ends. *)
LEMMA SearchBounds ==
  ASSUME NEW before, NEW left \in Nat, NEW right \in Nat, left <= right
  PROVE  BinarySearch(before, left, right) \in left .. right
<1>1. PICK f : /\ \A l, r \in Nat : f[<<l, r>>] = SearchTurn(before, f, l, r)
               /\ \A l, r \in Nat : BinarySearch(before, l, r) = f[<<l, r>>]
  BY SearchEquation
<1> DEFINE Bad(n) == \E l, r \in Nat : l <= r /\ r - l = n /\ f[<<l, r>>] \notin l .. r
           T == {n \in Nat : Bad(n)}
<1>2. ASSUME T # {} PROVE FALSE
  <2>1. PICK n \in T : \A k \in T : n <= k
    <3>1. T \subseteq Nat
      OBVIOUS
    <3> HIDE DEF T
    <3> QED
      BY <1>2, <3>1, LeastNatural
  <2>2. PICK l \in Nat, r \in Nat : l <= r /\ r - l = n /\ f[<<l, r>>] \notin l .. r
    OBVIOUS
  <2> DEFINE m == Middle(l, r)
  <2>3. l < r
    <3>1. l >= r => f[<<l, r>>] = r
      BY <1>1 DEF SearchTurn
    <3> QED
      BY <2>2, <3>1
  <2>4. m \in Nat /\ l <= m /\ m < r
    BY <2>3, MiddleBetween
  <2> HIDE DEF m
  <2>5. ASSUME NEW x \in Nat, NEW y \in Nat, x <= y, y - x < n PROVE f[<<x, y>>] \in x .. y
    <3>1. y - x \in Nat /\ n \in Nat /\ ~(n <= y - x)
      BY <2>5
    <3>2. y - x \notin T
      <4> HIDE DEF T
      <4> QED
        BY <2>1, <3>1
    <3>3. ~Bad(y - x)
      BY <3>1, <3>2
    <3> QED
      BY <2>5, <3>3
  <2>6. f[<<m + 1, r>>] \in m + 1 .. r /\ f[<<l, m>>] \in l .. m
    BY <2>2, <2>4, <2>5
  <2>7. f[<<l, r>>] = IF before[m] THEN f[<<m + 1, r>>] ELSE f[<<l, m>>]
    BY <1>1, <2>3 DEF SearchTurn, m
  <2>8. f[<<l, r>>] \in l .. r
    BY <2>4, <2>6, <2>7
  <2> QED
    BY <2>2, <2>8
<1>3. right - left \in Nat
  OBVIOUS
<1>4. f[<<left, right>>] \in left .. right
  BY <1>2, <1>3
<1> QED
  BY <1>1, <1>4

(* The first n elements come before the key, and no others of those that   *)
(* are looked at.                                                          *)
Splits(before, left, right, n) == \A i \in left .. right : before[i] <=> i < n

(* Where the elements before the key come first, the search finds them. *)
LEMMA SearchFinds ==
  ASSUME NEW before, NEW left \in Nat, NEW right \in Nat, NEW n \in left .. right,
         Splits(before, left, right - 1, n)
  PROVE  BinarySearch(before, left, right) = n
<1>1. PICK f : /\ \A l, r \in Nat : f[<<l, r>>] = SearchTurn(before, f, l, r)
               /\ \A l, r \in Nat : BinarySearch(before, l, r) = f[<<l, r>>]
  BY SearchEquation
<1> DEFINE Inside(l, r) == left <= l /\ l <= n /\ n <= r /\ r <= right
           Bad(k) == \E l, r \in Nat : Inside(l, r) /\ r - l = k /\ f[<<l, r>>] # n
           T == {k \in Nat : Bad(k)}
<1>2. ASSUME T # {} PROVE FALSE
  <2>1. PICK d \in T : \A k \in T : d <= k
    <3>1. T \subseteq Nat
      OBVIOUS
    <3> HIDE DEF T
    <3> QED
      BY <1>2, <3>1, LeastNatural
  <2>2. PICK l \in Nat, r \in Nat : Inside(l, r) /\ r - l = d /\ f[<<l, r>>] # n
    OBVIOUS
  <2> DEFINE m == Middle(l, r)
  <2>3. l < r
    <3>1. l >= r => f[<<l, r>>] = r
      BY <1>1 DEF SearchTurn
    <3> QED
      BY <2>2, <3>1
  <2>4. m \in Nat /\ l <= m /\ m < r
    BY <2>3, MiddleBetween
  <2> HIDE DEF m
  <2>5. ASSUME NEW x \in Nat, NEW y \in Nat, Inside(x, y), y - x < d PROVE f[<<x, y>>] = n
    <3>1. y - x \in Nat /\ d \in Nat /\ ~(d <= y - x)
      BY <2>5
    <3>2. y - x \notin T
      <4> HIDE DEF T
      <4> QED
        BY <2>1, <3>1
    <3>3. ~Bad(y - x)
      BY <3>1, <3>2
    <3> QED
      BY <2>5, <3>3
  <2>6. before[m] <=> m < n
    BY <2>2, <2>4 DEF Splits
  <2>7. f[<<l, r>>] = IF before[m] THEN f[<<m + 1, r>>] ELSE f[<<l, m>>]
    BY <1>1, <2>3 DEF SearchTurn, m
  <2>8. CASE m < n
    <3>1. Inside(m + 1, r) /\ r - (m + 1) < d /\ m + 1 \in Nat
      BY <2>2, <2>4, <2>8
    <3> HIDE DEF Inside
    <3> QED
      BY <2>2, <2>5, <2>6, <2>7, <2>8, <3>1
  <2>9. CASE ~(m < n)
    <3>1. Inside(l, m) /\ m - l < d
      BY <2>2, <2>4, <2>9
    <3> HIDE DEF Inside
    <3> QED
      BY <2>2, <2>4, <2>5, <2>6, <2>7, <2>9, <3>1
  <2> QED
    BY <2>8, <2>9
<1>3. right - left \in Nat /\ Inside(left, right)
  OBVIOUS
<1>4. f[<<left, right>>] = n
  <2>1. ~Bad(right - left)
    BY <1>2, <1>3
  <2> HIDE DEF Inside
  <2> QED
    BY <1>3, <2>1
<1> QED
  BY <1>1, <1>4

-----------------------------------------------------------------------------
(* Galloping. *)

(* One probe, after which f goes on. *)
ProbeTurn(passes, max_ofs, f, o) == IF o < max_ofs /\ passes[o] THEN f[2 * o + 1] ELSE o

LEMMA ProbeEquation ==
  ASSUME NEW passes, NEW max_ofs \in Nat
  PROVE  \E f : /\ \A o \in Nat : f[o] = ProbeTurn(passes, max_ofs, f, o)
                /\ FirstFailing(passes, max_ofs) = f[1]
<1> DEFINE rank == [o \in Nat |-> IF o < max_ofs THEN max_ofs - o ELSE 0]
           below == [o \in Nat |-> IF o < max_ofs THEN {2 * o + 1} ELSE {}]
           step == [of \in Nat \X [Nat -> Nat] |-> ProbeTurn(passes, max_ofs, of[2], of[1])]
           Solves(f) == f = [o \in Nat |-> ProbeTurn(passes, max_ofs, f, o)]
<1>1. ASSUME NEW o \in Nat, NEW f \in [Nat -> Nat]
      PROVE  /\ step[<<o, f>>] = ProbeTurn(passes, max_ofs, f, o)
             /\ ProbeTurn(passes, max_ofs, f, o) \in Nat
  <2>1. <<o, f>> \in Nat \X [Nat -> Nat]
    OBVIOUS
  <2>2. step[<<o, f>>] = ProbeTurn(passes, max_ofs, f, o)
    BY <2>1
  <2>3. 2 * o + 1 \in Nat
    OBVIOUS
  <2>4. ProbeTurn(passes, max_ofs, f, o) \in Nat
    BY <2>3 DEF ProbeTurn
  <2> QED
    BY <2>2, <2>4
<1>2. Ranked(Nat, Nat, rank, below, step)
  <2>1. rank \in [Nat -> Nat]
    OBVIOUS
  <2>2. below \in [Nat -> SUBSET Nat]
    OBVIOUS
  <2>3. ASSUME NEW o \in Nat, NEW q \in below[o] PROVE rank[q] < rank[o]
    <3>1. o < max_ofs /\ q = 2 * o + 1 /\ q \in Nat
      OBVIOUS
    <3>2. rank[q] = IF q < max_ofs THEN max_ofs - q ELSE 0
      BY <3>1
    <3>3. rank[o] = max_ofs - o
      BY <3>1
    <3> HIDE DEF rank
    <3> QED
      BY <3>1, <3>2, <3>3
  <2>4. step \in [Nat \X [Nat -> Nat] -> Nat]
    <3>1. ASSUME NEW of \in Nat \X [Nat -> Nat] PROVE step[of] \in Nat
      <4>1. PICK o \in Nat, f \in [Nat -> Nat] : of = <<o, f>>
        OBVIOUS
      <4> HIDE DEF step
      <4> QED
        BY <1>1, <4>1
    <3>2. step = [of \in Nat \X [Nat -> Nat] |-> step[of]]
      OBVIOUS
    <3> HIDE DEF step
    <3> QED
      BY <3>1, <3>2
  <2>5. ASSUME NEW o \in Nat, NEW f \in [Nat -> Nat], NEW h \in [Nat -> Nat],
               \A q \in below[o] : f[q] = h[q]
        PROVE  step[<<o, f>>] = step[<<o, h>>]
    <3>1. ProbeTurn(passes, max_ofs, f, o) = ProbeTurn(passes, max_ofs, h, o)
      BY <2>5 DEF ProbeTurn
    <3> HIDE DEF step
    <3> QED
      BY <1>1, <3>1
  <2> HIDE DEF rank, below, step
  <2> QED
    BY <2>1, <2>2, <2>3, <2>4, <2>5 DEF Ranked
<1>3. PICK f \in [Nat -> Nat] : \A o \in Nat : f[o] = step[<<o, f>>]
  <2> HIDE DEF rank, below, step
  <2> QED
    BY <1>2, RankedRecursion
<1>4. Solves(f)
  <2>1. f = [o \in Nat |-> f[o]]
    OBVIOUS
  <2>2. \A o \in Nat : f[o] = ProbeTurn(passes, max_ofs, f, o)
    <3> HIDE DEF step
    <3> QED
      BY <1>1, <1>3
  <2> QED
    BY <2>1, <2>2
<1> DEFINE s == CHOOSE g : Solves(g)
<1>5. Solves(s)
  BY <1>4
<1>6. FirstFailing(passes, max_ofs) = s[1]
  BY DEF FirstFailing, ProbeTurn
<1> HIDE DEF s
<1>7. \A o \in Nat : s[o] = ProbeTurn(passes, max_ofs, s, o)
  BY <1>5
<1> QED
  BY <1>6, <1>7

(* The probe at ofs is the first one, or comes after one that passes; and  *)
(* it does not pass itself, unless it is past the end.                     *)
ProbeStops(passes, max_ofs, first, ofs) ==
  /\ ofs \in Nat
  /\ \/ ofs = first
     \/ \E prev \in first .. max_ofs - 1 : ofs = 2 * prev + 1 /\ passes[prev]
  /\ ~(ofs < max_ofs /\ passes[ofs])

LEMMA FirstFailingStops ==
  ASSUME NEW passes, NEW max_ofs \in Nat
  PROVE  ProbeStops(passes, max_ofs, 1, FirstFailing(passes, max_ofs))
<1>1. PICK f : /\ \A o \in Nat : f[o] = ProbeTurn(passes, max_ofs, f, o)
               /\ FirstFailing(passes, max_ofs) = f[1]
  BY ProbeEquation
<1> DEFINE Rest(o) == IF o < max_ofs THEN max_ofs - o ELSE 0
           Bad(k) == \E o \in Nat : Rest(o) = k /\ ~ProbeStops(passes, max_ofs, o, f[o])
           T == {k \in Nat : Bad(k)}
<1>2. ASSUME T # {} PROVE FALSE
  <2>1. PICK k \in T : \A j \in T : k <= j
    <3>1. T \subseteq Nat
      OBVIOUS
    <3> HIDE DEF T
    <3> QED
      BY <1>2, <3>1, LeastNatural
  <2>2. PICK o \in Nat : Rest(o) = k /\ ~ProbeStops(passes, max_ofs, o, f[o])
    OBVIOUS
  <2>3. o < max_ofs /\ passes[o]
    <3>1. ~(o < max_ofs /\ passes[o]) => f[o] = o
      BY <1>1 DEF ProbeTurn
    <3> QED
      BY <2>2, <3>1 DEF ProbeStops
  <2> DEFINE q == 2 * o + 1
  <2>4. q \in Nat /\ o < q
    OBVIOUS
  <2>5. f[o] = f[q]
    BY <1>1, <2>3 DEF ProbeTurn
  <2> HIDE DEF q
  <2>6. Rest(q) \in Nat /\ Rest(q) < k
    BY <2>2, <2>3, <2>4
  <2>7. ProbeStops(passes, max_ofs, q, f[q])
    <3>1. Rest(q) \notin T
      <4>1. k \in Nat
        OBVIOUS
      <4> HIDE DEF T, Rest
      <4> QED
        BY <2>1, <2>6, <4>1
    <3>2. ~Bad(Rest(q))
      BY <2>6, <3>1
    <3> HIDE DEF Rest
    <3> QED
      BY <2>4, <3>2
  <2>8. ProbeStops(passes, max_ofs, o, f[q])
    <3>1. CASE f[q] = q
      <4>1. o \in o .. max_ofs - 1 /\ f[q] = 2 * o + 1
        BY <2>3, <3>1 DEF q
      <4> QED
        BY <2>3, <2>7, <4>1 DEF ProbeStops
    <3>2. CASE f[q] # q
      <4>1. PICK prev \in q .. max_ofs - 1 : f[q] = 2 * prev + 1 /\ passes[prev]
        BY <2>7, <3>2 DEF ProbeStops
      <4>2. prev \in o .. max_ofs - 1
        BY <2>4
      <4> QED
        BY <2>7, <4>1, <4>2 DEF ProbeStops
    <3> QED
      BY <3>1, <3>2
  <2> QED
    BY <2>2, <2>5, <2>8
<1>3. ProbeStops(passes, max_ofs, 1, f[1])
  <2>1. Rest(1) \in Nat
    OBVIOUS
  <2>2. ~Bad(Rest(1))
    BY <1>2, <2>1
  <2> HIDE DEF Rest
  <2> QED
    BY <2>2
<1> QED
  BY <1>1, <1>3

(* The offset of the last probe that passed, and of the end of the search. *)
LastPassed(ofs) == (ofs - 1) \div 2
Clipped(ofs, max_ofs) == IF ofs < max_ofs THEN ofs ELSE max_ofs

LEMMA ProbeInterval ==
  ASSUME NEW passes, NEW max_ofs \in Nat \ {0}, NEW ofs, ProbeStops(passes, max_ofs, 1, ofs)
  PROVE  /\ ofs \in Nat /\ LastPassed(ofs) \in Nat /\ Clipped(ofs, max_ofs) \in Nat
         /\ LastPassed(ofs) + 1 <= Clipped(ofs, max_ofs) /\ Clipped(ofs, max_ofs) <= max_ofs
         /\ LastPassed(ofs) = 0 \/ (LastPassed(ofs) \in 1 .. max_ofs - 1 /\ passes[LastPassed(ofs)])
         /\ Clipped(ofs, max_ofs) = max_ofs
              \/ (Clipped(ofs, max_ofs) \in 1 .. max_ofs - 1 /\ ~passes[Clipped(ofs, max_ofs)])
<1>1. CASE ofs = 1
  BY <1>1 DEF ProbeStops, LastPassed, Clipped
<1>2. CASE ofs # 1
  <2>1. PICK prev \in 1 .. max_ofs - 1 : ofs = 2 * prev + 1 /\ passes[prev]
    BY <1>2 DEF ProbeStops
  <2>2. LastPassed(ofs) = prev
    BY <2>1 DEF LastPassed
  <2>3. ~(ofs < max_ofs /\ passes[ofs])
    BY DEF ProbeStops
  <2> QED
    BY <2>1, <2>2, <2>3 DEF Clipped
<1> QED
  BY <1>1, <1>2

(* The two halves of a gallop, with the interval that is searched. *)
LEMMA GallopRight ==
  ASSUME NEW before, NEW len \in Nat \ {0}, NEW hint \in 0 .. len - 1, before[hint]
  PROVE  \E l, r \in Nat :
           /\ Gallop(before, len, hint) = BinarySearch(before, l, r)
           /\ hint < l /\ l <= r /\ r <= len
           /\ before[l - 1]
           /\ r = len \/ (r < len /\ ~before[r])
<1> DEFINE max_ofs == len - hint
           passes == [o \in 1 .. max_ofs - 1 |-> before[hint + o]]
           ofs == FirstFailing(passes, max_ofs)
           l == hint + LastPassed(ofs) + 1
           r == hint + Clipped(ofs, max_ofs)
<1>1. max_ofs \in Nat \ {0}
  OBVIOUS
<1>2. Gallop(before, len, hint) = BinarySearch(before, l, r)
  BY DEF Gallop, LastPassed, Clipped
<1>3. ProbeStops(passes, max_ofs, 1, ofs)
  <2> HIDE DEF passes, max_ofs
  <2> QED
    BY <1>1, FirstFailingStops
<1>4. \A o \in 1 .. max_ofs - 1 : passes[o] = before[hint + o]
  OBVIOUS
<1> HIDE DEF passes, ofs
<1> DEFINE x == LastPassed(ofs)
           y == Clipped(ofs, max_ofs)
<1>5. /\ x \in Nat /\ y \in Nat /\ x + 1 <= y /\ y <= max_ofs
      /\ x = 0 \/ (x \in 1 .. max_ofs - 1 /\ passes[x])
      /\ y = max_ofs \/ (y \in 1 .. max_ofs - 1 /\ ~passes[y])
  <2> HIDE DEF max_ofs
  <2> QED
    BY <1>1, <1>3, ProbeInterval
<1>6. l = hint + x + 1 /\ r = hint + y
  OBVIOUS
<1> HIDE DEF l, r, x, y
<1>7. l \in Nat /\ r \in Nat /\ hint < l /\ l <= r /\ r <= len /\ l - 1 = hint + x
  BY <1>5, <1>6
<1>8. before[l - 1]
  <2>1. CASE x = 0
    BY <1>7, <2>1
  <2>2. CASE x # 0
    <3>1. before[hint + x]
      BY <1>4, <1>5, <2>2
    <3>2. passes[x] = before[hint + x] /\ passes[x]
      BY <1>4, <1>5, <2>2
    <3> QED
      BY <1>7, <3>1
  <2> QED
    BY <2>1, <2>2
<1>9. r = len \/ (r < len /\ ~before[r])
  BY <1>4, <1>5, <1>6
<1> QED
  BY <1>2, <1>7, <1>8, <1>9

LEMMA GallopLeft ==
  ASSUME NEW before, NEW len \in Nat \ {0}, NEW hint \in 0 .. len - 1, ~before[hint]
  PROVE  \E l, r \in Nat :
           /\ Gallop(before, len, hint) = BinarySearch(before, l, r)
           /\ l <= r /\ r <= hint
           /\ ~before[r]
           /\ l = 0 \/ (l > 0 /\ before[l - 1])
<1> DEFINE max_ofs == hint + 1
           passes == [o \in 1 .. hint |-> ~before[hint - o]]
           ofs == FirstFailing(passes, max_ofs)
           l == hint - Clipped(ofs, max_ofs) + 1
           r == hint - LastPassed(ofs)
<1>1. max_ofs \in Nat \ {0} /\ max_ofs - 1 = hint
  OBVIOUS
<1>2. Gallop(before, len, hint) = BinarySearch(before, l, r)
  BY DEF Gallop, LastPassed, Clipped
<1>3. ProbeStops(passes, max_ofs, 1, ofs)
  <2> HIDE DEF passes, max_ofs
  <2> QED
    BY <1>1, FirstFailingStops
<1>4. \A o \in 1 .. hint : passes[o] = ~before[hint - o]
  OBVIOUS
<1> HIDE DEF passes, ofs
<1> DEFINE x == LastPassed(ofs)
           y == Clipped(ofs, max_ofs)
<1>5. /\ x \in Nat /\ y \in Nat /\ x + 1 <= y /\ y <= max_ofs
      /\ x = 0 \/ (x \in 1 .. max_ofs - 1 /\ passes[x])
      /\ y = max_ofs \/ (y \in 1 .. max_ofs - 1 /\ ~passes[y])
  <2> HIDE DEF max_ofs
  <2> QED
    BY <1>1, <1>3, ProbeInterval
<1>6. l = hint - y + 1 /\ r = hint - x
  OBVIOUS
<1> HIDE DEF l, r, x, y
<1>7. l \in Nat /\ r \in Nat /\ l <= r /\ r <= hint /\ l - 1 = hint - y
  BY <1>5, <1>6
<1>8. ~before[r]
  <2>1. CASE x = 0
    <3>1. r = hint
      BY <1>6, <2>1
    <3> QED
      BY <3>1
  <2>2. CASE x # 0
    <3>1. x \in 1 .. hint /\ passes[x]
      BY <1>1, <1>5, <2>2
    <3> QED
      BY <1>4, <1>6, <3>1
  <2> QED
    BY <2>1, <2>2
<1>9. l = 0 \/ (l > 0 /\ before[l - 1])
  <2>1. CASE y = max_ofs
    BY <1>6, <2>1
  <2>2. CASE y # max_ofs
    <3>1. y \in 1 .. hint /\ ~passes[y]
      BY <1>1, <1>5, <2>2
    <3>2. before[hint - y]
      BY <1>4, <3>1
    <3> QED
      BY <1>6, <1>7, <3>1, <3>2
  <2> QED
    BY <2>1, <2>2
<1> QED
  BY <1>2, <1>7, <1>8, <1>9

(* A gallop counts elements of the run, in any run; and in a run that has  *)
(* the elements before the key first, it counts these.                     *)
LEMMA GallopBounds ==
  ASSUME NEW before, NEW len \in Nat \ {0}, NEW hint \in 0 .. len - 1
  PROVE  Gallop(before, len, hint) \in 0 .. len
<1>1. CASE before[hint]
  <2>1. PICK l \in Nat, r \in Nat :
          Gallop(before, len, hint) = BinarySearch(before, l, r) /\ l <= r /\ r <= len
    BY <1>1, GallopRight
  <2> QED
    BY <2>1, SearchBounds
<1>2. CASE ~before[hint]
  <2>1. PICK l \in Nat, r \in Nat :
          Gallop(before, len, hint) = BinarySearch(before, l, r) /\ l <= r /\ r <= hint
    BY <1>2, GallopLeft
  <2>2. BinarySearch(before, l, r) \in l .. r
    BY <2>1, SearchBounds
  <2> QED
    BY <2>1, <2>2
<1> QED
  BY <1>1, <1>2

LEMMA GallopFinds ==
  ASSUME NEW before, NEW len \in Nat \ {0}, NEW hint \in 0 .. len - 1, NEW n \in 0 .. len,
         Splits(before, 0, len - 1, n)
  PROVE  Gallop(before, len, hint) = n
<1>1. CASE before[hint]
  <2>1. PICK l \in Nat, r \in Nat :
           /\ Gallop(before, len, hint) = BinarySearch(before, l, r)
           /\ hint < l /\ l <= r /\ r <= len
           /\ before[l - 1]
           /\ r = len \/ (r < len /\ ~before[r])
    BY <1>1, GallopRight
  <2>2. l <= n
    <3>1. l - 1 \in 0 .. len - 1
      BY <2>1
    <3>2. l - 1 < n
      BY <2>1, <3>1 DEF Splits
    <3> QED
      BY <3>2
  <2>3. n <= r
    BY <2>1 DEF Splits
  <2>4. Splits(before, l, r - 1, n)
    BY <2>1 DEF Splits
  <2> QED
    BY <2>1, <2>2, <2>3, <2>4, SearchFinds
<1>2. CASE ~before[hint]
  <2>1. PICK l \in Nat, r \in Nat :
           /\ Gallop(before, len, hint) = BinarySearch(before, l, r)
           /\ l <= r /\ r <= hint
           /\ ~before[r]
           /\ l = 0 \/ (l > 0 /\ before[l - 1])
    BY <1>2, GallopLeft
  <2>2. l <= n
    <3>1. CASE l = 0
      BY <3>1
    <3>2. CASE l > 0
      <4>1. l - 1 \in 0 .. len - 1 /\ before[l - 1]
        BY <2>1, <3>2
      <4>2. l - 1 < n
        BY <4>1 DEF Splits
      <4> QED
        BY <4>2
    <3> QED
      BY <3>1, <3>2
  <2>3. n <= r
    <3>1. r \in 0 .. len - 1
      BY <2>1
    <3> QED
      BY <2>1, <3>1 DEF Splits
  <2>4. Splits(before, l, r - 1, n)
    BY <2>1 DEF Splits
  <2> QED
    BY <2>1, <2>2, <2>3, <2>4, SearchFinds
<1> QED
  BY <1>1, <1>2

(* Powers of two are positive and larger than their exponents, since a set *)
(* of k elements has that many subsets, all its singletons among them.     *)
LEMMA PowersGrow ==
  ASSUME NEW k \in Nat
  PROVE  2 ^ k \in Nat /\ 2 ^ k > k
<1> DEFINE S == 1 .. k
           Singletons == {{x} : x \in S}
<1>1. IsFiniteSet(S) /\ Cardinality(S) = k
  BY FS_Interval
<1>2. IsFiniteSet(SUBSET S) /\ Cardinality(SUBSET S) = 2 ^ k
  BY <1>1, FS_SUBSET
<1>3. IsFiniteSet(Singletons) /\ Cardinality(Singletons) = k
  <2> DEFINE f == [x \in S |-> {x}]
  <2>1. f \in Bijection(S, Singletons)
    BY DEF Bijection, Injection, Surjection, IsInjective
  <2>2. ExistsBijection(S, Singletons)
    BY <2>1 DEF ExistsBijection
  <2> QED
    BY <1>1, <2>2, FS_Bijection
<1>4. Singletons \in SUBSET (SUBSET S)
  OBVIOUS
<1>5. Singletons # SUBSET S
  <2>1. {} \in SUBSET S /\ {} \notin Singletons
    OBVIOUS
  <2> QED
    BY <2>1
<1>6. k <= 2 ^ k /\ k # 2 ^ k
  <2> HIDE DEF Singletons, S
  <2> QED
    BY <1>2, <1>3, <1>4, <1>5, FS_Subset
<1>7. 2 ^ k \in Nat
  BY <1>2, FS_CardinalityType
<1> QED
  BY <1>6, <1>7

(* tms_min_run_length returns a number. *)
LEMMA MinRunIsNumber ==
  ASSUME NEW n \in Nat
  PROVE  tms_min_run_length(n) \in Int
<1> DEFINE Fits(k) == n \div 2 ^ k < MinMerge
           T == {k \in 0 .. n : Fits(k)}
<1>1. \A k \in 0 .. n : 2 ^ k \in Nat \ {0} /\ n \div 2 ^ k \in Nat
  <2> TAKE k \in 0 .. n
  <2> DEFINE p == 2 ^ k
  <2>1. p \in Nat \ {0}
    BY PowersGrow
  <2> HIDE DEF p
  <2>2. n \div p \in Nat
    BY <2>1
  <2> QED
    BY <2>1, <2>2 DEF p
<1>2. n \in T
  <2> DEFINE p == 2 ^ n
  <2>1. p \in Nat /\ n < p
    BY PowersGrow
  <2> HIDE DEF p
  <2>2. n \div p = 0
    BY <2>1
  <2> QED
    BY <2>2, TimSortAssumption DEF p
<1>3. PICK k \in T : \A j \in T : k <= j
  <2>1. T \subseteq Nat /\ T # {}
    BY <1>2
  <2> QED
    BY <2>1, LeastNatural
<1> DEFINE Shift(i) == Fits(i) /\ \A j \in 0 .. i - 1 : n \div 2 ^ j >= MinMerge
           shift == CHOOSE i \in 0 .. n : Shift(i)
<1>4. Shift(k)
  <2> SUFFICES ASSUME NEW j \in 0 .. k - 1
               PROVE  n \div 2 ^ j >= MinMerge
    BY <1>3
  <2>1. j \in 0 .. n /\ j \notin T
    BY <1>3
  <2>2. n \div 2 ^ j \in Nat /\ ~(n \div 2 ^ j < MinMerge)
    BY <2>1, <1>1
  <2> HIDE DEF T
  <2> QED
    BY <2>2, TimSortAssumption
<1>5. shift \in 0 .. n
  <2> HIDE DEF Shift
  <2> QED
    BY <1>3, <1>4
<1> HIDE DEF shift
<1>6. n \div 2 ^ shift \in Nat
  BY <1>1, <1>5
<1>7. tms_min_run_length(n) = n \div 2 ^ shift + (IF n % 2 ^ shift = 0 THEN 0 ELSE 1)
  BY DEF tms_min_run_length, shift
<1> QED
  BY <1>6, <1>7

(* A run is not empty and ends in the array. *)
LEMMA RunLengthBounds ==
  ASSUME NEW a, NEW base, NEW n \in Nat \ {0}
  PROVE  RunLength(a, base, n) \in 1 .. n
<1> DEFINE Stops(r) == r = n \/ Descends(a, base + r) # Descends(a, base + 1)
           T == {r \in 1 .. n : Stops(r)}
           First(r) == Stops(r) /\ \A s \in 1 .. r - 1 : ~Stops(s)
<1>1. T \subseteq Nat /\ T # {}
  <2>1. n \in T
    OBVIOUS
  <2> QED
    BY <2>1
<1>2. PICK r \in T : \A s \in T : r <= s
  BY <1>1, LeastNatural
<1>3. r \in 1 .. n /\ First(r)
  <2> HIDE DEF Stops
  <2>1. ASSUME NEW s \in 1 .. r - 1, Stops(s)
        PROVE  FALSE
    <3>1. s \in T
      BY <2>1, <1>2
    <3> QED
      BY <3>1, <1>2
  <2> QED
    BY <2>1, <1>2
<1>4. RunLength(a, base, n) = CHOOSE i \in 1 .. n : First(i)
  BY DEF RunLength
<1> HIDE DEF First
<1> QED
  BY <1>3, <1>4

(* Extending it keeps it so, and makes it no shorter. *)
LEMMA ForcedBounds ==
  ASSUME count \in Nat, lo \in 0 .. count, NEW len \in 1 .. count - lo
  PROVE  Forced(len) \in 1 .. count - lo /\ len <= Forced(len)
<1> DEFINE min_run == tms_min_run_length(count)
<1>1. min_run \in Int
  BY MinRunIsNumber
<1> HIDE DEF min_run
<1>2. Forced(len) = IF len >= min_run THEN len ELSE IF count - lo <= min_run THEN count - lo ELSE min_run
  BY DEF Forced, min_run
<1> QED
  BY <1>1, <1>2

-----------------------------------------------------------------------------

Run == [base : Nat, len : Nat \ {0}]

(* The runs tile what was cut, and the search for runs goes on only where  *)
(* there is something left to cut.                                         *)
TileInv ==
  /\ count \in Nat /\ lo \in 0 .. count
  /\ stack \in Seq(Run)
  /\ phase = "runs" /\ count >= MinMerge => lo < count
  /\ stack = << >> => lo = 0
  /\ RunsTile

LEMMA RunsNotEmpty ==
  ASSUME NEW s \in Seq(Run), NEW i \in 1 .. Len(s)
  PROVE  s[i].len > 0
<1>1. s[i] \in Run
  OBVIOUS
<1> QED
  BY <1>1 DEF Run

LEMMA InitTiles == Init => TileInv
<1> SUFFICES ASSUME Init
             PROVE  TileInv
  OBVIOUS
<1>1. count \in Nat
  <2>1. PICK keys \in Arrays : count = Len(keys)
    BY DEF Init
  <2> QED
    BY <2>1, TimSortAssumption
<1> QED
  BY <1>1, TimSortAssumption DEF Init, TileInv, RunsTile

(* A new run is laid against the last one. *)
LEMMA PushTiles == TileInv /\ PushRun => TileInv'
<1> SUFFICES ASSUME TileInv, PushRun
             PROVE  TileInv'
  OBVIOUS
<1> DEFINE natural == RunLength(array, lo, count - lo)
           len == Forced(natural)
<1>1. count - lo \in Nat \ {0}
  BY DEF TileInv, PushRun
<1>2. natural \in 1 .. count - lo
  BY <1>1, RunLengthBounds
<1>3. len \in 1 .. count - lo
  BY <1>2, ForcedBounds DEF TileInv
<1> HIDE DEF natural
<1>4. /\ stack' = Append(stack, [base |-> lo, len |-> len])
      /\ lo' = lo + len /\ count' = count /\ phase' = "collapse"
  BY DEF PushRun, natural
<1> HIDE DEF len
<1> DEFINE new == [base |-> lo, len |-> len]
<1>5. new \in Run /\ stack \in Seq(Run) /\ lo \in 0 .. count /\ count \in Nat
  BY <1>3 DEF TileInv, Run
<1>6. /\ stack' \in Seq(Run) /\ Len(stack') = Len(stack) + 1
      /\ \A i \in 1 .. Len(stack) : stack'[i] = stack[i]
      /\ stack'[Len(stack) + 1] = new
  BY <1>4, <1>5
<1>7. RunsTile'
  <2>1. \A i \in 1 .. Len(stack') : stack'[i].len > 0
    BY <1>6, RunsNotEmpty
  <2>2. stack'[1].base = 0
    BY <1>5, <1>6 DEF TileInv, RunsTile, Top
  <2>3. ASSUME NEW i \in 1 .. Len(stack') - 1
        PROVE  stack'[i].base + stack'[i].len = stack'[i + 1].base
    <3>1. CASE i < Len(stack)
      BY <3>1, <1>5, <1>6, SMTT(30) DEF TileInv, RunsTile, Top
    <3>2. CASE i = Len(stack)
      BY <3>2, <1>5, <1>6 DEF TileInv, RunsTile, Top
    <3> QED
      BY <3>1, <3>2, <1>5, <1>6
  <2>4. stack'[Len(stack')].base + stack'[Len(stack')].len = lo'
    BY <1>3, <1>4, <1>5, <1>6
  <2> QED
    BY <2>1, <2>2, <2>3, <2>4 DEF RunsTile, Top
<1>8. stack' # << >>
  BY <1>5, <1>6
<1>9. lo' \in 0 .. count'
  BY <1>3, <1>4, <1>5
<1> QED
  BY <1>4, <1>5, <1>6, <1>7, <1>8, <1>9 DEF TileInv

(* Two neighbours become one run, from the start of the first to the end   *)
(* of the second, and a third one moves down by one place.                 *)
LEMMA MergeTiles ==
  ASSUME TileInv, NEW i \in 1 .. Top - 1, tms_merge_at(i)
  PROVE  TileInv'
<1>1. /\ stack' = StackMerged(i)
      /\ count' = count /\ lo' = lo /\ phase' = phase
  BY DEF tms_merge_at
<1>2. /\ stack \in Seq(Run) /\ Len(stack) \in Nat /\ stack # << >>
      /\ \A j \in 1 .. Len(stack) : stack[j] \in Run
  BY DEF TileInv, Top
<1> DEFINE n == Len(stack) - 1
           merged == [base |-> stack[i].base, len |-> stack[i].len + stack[i + 1].len]
<1>3. n \in Nat \ {0} /\ i \in 1 .. n
  BY <1>2 DEF Top
<1>4. merged \in Run
  <2>1. stack[i] \in Run /\ stack[i + 1] \in Run
    BY <1>2, <1>3
  <2> QED
    BY <2>1 DEF Run
<1>5. /\ Len(stack') = n /\ stack' \in Seq(Run)
      /\ \A j \in 1 .. n : stack'[j] = IF j < i THEN stack[j] ELSE IF j = i THEN merged ELSE stack[j + 1]
  <2> DEFINE s == [j \in 1 .. n |-> IF j < i THEN stack[j] ELSE IF j = i THEN merged ELSE stack[j + 1]]
  <2>1. stack' = s
    BY <1>1 DEF StackMerged
  <2> HIDE DEF merged
  <2>2. ASSUME NEW j \in 1 .. n
        PROVE  s[j] \in Run
    BY <1>2, <1>3, <1>4
  <2>3. s \in Seq(Run) /\ Len(s) = n
    BY <2>2, <1>3
  <2> QED
    BY <2>1, <2>3
<1>6. RunsTile'
  <2>0. /\ stack[1].base = 0
        /\ \A j \in 1 .. n : stack[j].base + stack[j].len = stack[j + 1].base
        /\ stack[n + 1].base + stack[n + 1].len = lo
    BY <1>2, <1>3 DEF TileInv, RunsTile, Top
  <2>1. \A j \in 1 .. n : stack'[j].len > 0
    BY <1>5, RunsNotEmpty
  <2>2. stack'[1].base = 0
    BY <2>0, <1>3, <1>5
  <2>3. stack[i].base + (stack[i].len + stack[i + 1].len) = stack[i + 1].base + stack[i + 1].len
    <3>1. stack[i] \in Run /\ stack[i + 1] \in Run
      BY <1>2, <1>3
    <3> QED
      BY <3>1, <2>0, <1>3 DEF Run
  <2>4. ASSUME NEW j \in 1 .. n - 1
        PROVE  stack'[j].base + stack'[j].len = stack'[j + 1].base
    <3>1. CASE j + 1 < i
      BY <3>1, <2>0, <1>3, <1>5
    <3>2. CASE j + 1 = i
      BY <3>2, <2>0, <1>3, <1>5
    <3>3. CASE j = i
      BY <3>3, <2>0, <2>3, <1>3, <1>5
    <3>4. CASE j > i
      <4>0. j \in 1 .. n /\ ~(j < i) /\ j # i /\ j + 1 \in 1 .. n /\ ~(j + 1 < i) /\ j + 1 # i
        BY <3>4, <1>3
      <4>1. stack'[j] = stack[j + 1] /\ stack'[j + 1] = stack[(j + 1) + 1]
        BY <4>0, <1>5
      <4>2. stack[j + 1].base + stack[j + 1].len = stack[(j + 1) + 1].base
        BY <2>0, <1>3
      <4> QED
        BY <4>1, <4>2
    <3> QED
      BY <3>1, <3>2, <3>3, <3>4, <1>3
  <2>5. stack'[n].base + stack'[n].len = lo
    <3>1. CASE n = i
      BY <3>1, <2>0, <2>3, <1>3, <1>5
    <3>2. CASE n # i
      BY <3>2, <2>0, <1>3, <1>5
    <3> QED
      BY <3>1, <3>2
  <2> QED
    BY <2>1, <2>2, <2>4, <2>5, <1>1, <1>5 DEF RunsTile, Top
<1>7. stack' # << >>
  BY <1>3, <1>5
<1> QED
  BY <1>1, <1>5, <1>6, <1>7 DEF TileInv

LEMMA MiddlePairInStack ==
  ASSUME TileInv, Top > 1
  PROVE  MiddlePair \in 1 .. Top - 1
<1>1. Top \in Nat
  BY DEF TileInv, Top
<1> QED
  BY <1>1 DEF MiddlePair

LEMMA NextTiles == TileInv /\ [Next]_vars => TileInv'
<1> SUFFICES ASSUME TileInv, [Next]_vars
             PROVE  TileInv'
  OBVIOUS
<1> USE DEF TileInv, RunsTile, Top
<1>1. CASE ShortArray
  BY <1>1 DEF ShortArray
<1>2. CASE PushRun
  BY <1>2, PushTiles
<1>3. CASE Collapse
  <2>1. Top \in Nat
    OBVIOUS
  <2>2. CASE ThirdTooShort /\ tms_merge_at(MiddlePair)
    BY <2>1, <2>2, MergeTiles, MiddlePairInStack DEF ThirdTooShort
  <2>3. CASE SecondTooShort /\ tms_merge_at(Top - 1)
    <3>1. Top - 1 \in 1 .. Top - 1
      BY <2>1, <2>3 DEF SecondTooShort
    <3> QED
      BY <3>1, <2>3, MergeTiles
  <2> QED
    BY <1>3, <2>2, <2>3 DEF Collapse
<1>4. CASE EndCollapse
  BY <1>4 DEF EndCollapse
<1>5. CASE Race
  BY <1>5 DEF Race
<1>6. CASE GallopT
  BY <1>6 DEF GallopT
<1>7. CASE GallopA
  BY <1>7 DEF GallopA
<1>8. CASE FinishMerge
  BY <1>8 DEF FinishMerge
<1>9. CASE ForceCollapse
  BY <1>9, MergeTiles, MiddlePairInStack DEF ForceCollapse
<1>10. CASE EndSort
  BY <1>10 DEF EndSort
<1>11. CASE Sorted
  BY <1>11 DEF Sorted, vars
<1>12. CASE UNCHANGED vars
  BY <1>12 DEF vars
<1> QED
  BY <1>1, <1>2, <1>3, <1>4, <1>5, <1>6, <1>7, <1>8, <1>9, <1>10, <1>11, <1>12 DEF Next

(* In every sort the runs on the stack tile the part of the array that has *)
(* been cut, so that the assertions of tms_merge_at on its two runs hold.  *)
THEOREM StackTilesArray == Spec => []RunsTile
<1>1. TileInv => RunsTile
  BY DEF TileInv
<1> QED
  BY <1>1, InitTiles, NextTiles, PTL DEF Spec

-----------------------------------------------------------------------------
(* Arrays whose elements change places. *)

ArrayOn(n, E) == [0 .. n - 1 -> E]

(* b has the elements of a, those outside of first .. last in their places. *)
Rearranged(a, b, first, last) ==
  /\ {b[i] : i \in first .. last} = {a[i] : i \in first .. last}
  /\ \A i \in DOMAIN a \ (first .. last) : b[i] = a[i]

LEMMA RearrangedInPart ==
  ASSUME NEW n \in Nat, NEW E, NEW a \in ArrayOn(n, E), NEW b \in ArrayOn(n, E),
         NEW first \in Nat, NEW part \in Int, NEW last \in Int, part <= last, last < n,
         Rearranged(a, b, first, part)
  PROVE  Rearranged(a, b, first, last)
<1>1. \A i \in 0 .. n - 1 : i \notin first .. part => b[i] = a[i]
  BY DEF Rearranged, ArrayOn
<1>2. \A i \in part + 1 .. last : i >= first => b[i] = a[i]
  BY <1>1
<1>3. ASSUME NEW i \in first .. last PROVE \E j \in first .. last : b[i] = a[j]
  <2>1. CASE i <= part
    <3>1. b[i] \in {b[k] : k \in first .. part}
      BY <2>1
    <3>2. PICK j \in first .. part : b[i] = a[j]
      BY <3>1 DEF Rearranged
    <3> QED
      BY <3>2
  <2>2. CASE i > part
    BY <1>2, <2>2
  <2> QED
    BY <2>1, <2>2
<1>4. ASSUME NEW i \in first .. last PROVE \E j \in first .. last : a[i] = b[j]
  <2>1. CASE i <= part
    <3>1. a[i] \in {a[k] : k \in first .. part}
      BY <2>1
    <3>2. PICK j \in first .. part : a[i] = b[j]
      BY <3>1 DEF Rearranged
    <3> QED
      BY <3>2
  <2>2. CASE i > part
    BY <1>2, <2>2
  <2> QED
    BY <2>1, <2>2
<1>5. {b[i] : i \in first .. last} = {a[i] : i \in first .. last}
  BY <1>3, <1>4
<1>6. \A i \in DOMAIN a \ (first .. last) : b[i] = a[i]
  BY <1>1 DEF ArrayOn
<1> QED
  BY <1>5, <1>6 DEF Rearranged

LEMMA RearrangedTwice ==
  ASSUME NEW n, NEW E, NEW a \in ArrayOn(n, E), NEW b \in ArrayOn(n, E), NEW c, NEW first, NEW last,
         Rearranged(a, b, first, last), Rearranged(b, c, first, last)
  PROVE  Rearranged(a, c, first, last)
BY DEF Rearranged, ArrayOn

(* Then no id is lost. *)
LEMMA RearrangedIds ==
  ASSUME NEW n \in Nat, NEW E, NEW a \in ArrayOn(n, E), NEW b \in ArrayOn(n, E),
         NEW first \in Nat, NEW last \in Int, last < n, Rearranged(a, b, first, last)
  PROVE  Ids(b, 0 .. n - 1) = Ids(a, 0 .. n - 1)
<1> DEFINE D == 0 .. n - 1
           R == first .. last
<1>1. R \subseteq D /\ DOMAIN a = D
  BY DEF ArrayOn
<1>2. {b[i] : i \in R} = {a[i] : i \in R} /\ \A i \in D \ R : b[i] = a[i]
  BY <1>1 DEF Rearranged
<1> HIDE DEF D, R
<1>3. {b[i] : i \in D} = {a[i] : i \in D}
  <2>1. ASSUME NEW i \in D PROVE \E j \in D : b[i] = a[j]
    <3>1. i \in R => b[i] \in {a[k] : k \in R}
      BY <1>2
    <3> QED
      BY <1>1, <1>2, <3>1
  <2>2. ASSUME NEW i \in D PROVE \E j \in D : a[i] = b[j]
    <3>1. i \in R => a[i] \in {b[k] : k \in R}
      BY <1>2
    <3> QED
      BY <1>1, <1>2, <3>1
  <2> QED
    BY <2>1, <2>2
<1>4. ASSUME NEW c, NEW d, {c[i] : i \in D} = {d[i] : i \in D}, NEW x \in Ids(c, D)
      PROVE  x \in Ids(d, D)
  <2>1. PICK i \in D : x = c[i].id
    BY DEF Ids
  <2>2. c[i] \in {d[k] : k \in D}
    BY <1>4
  <2>3. PICK k \in D : c[i] = d[k]
    BY <2>2
  <2> QED
    BY <2>1, <2>3 DEF Ids
<1>5. Ids(b, D) = Ids(a, D)
  <2>1. \A x \in Ids(b, D) : x \in Ids(a, D)
    BY <1>3, <1>4
  <2>2. \A x \in Ids(a, D) : x \in Ids(b, D)
    BY <1>3, <1>4
  <2> QED
    BY <2>1, <2>2
<1> QED
  BY <1>5 DEF D

-----------------------------------------------------------------------------
(* Stable order. *)

Precedes(x, y) == x.key < y.key \/ (x.key = y.key /\ x.id < y.id)

(* What InOrder says of neighbours, for all pairs. *)
Ordered(a, first, last) == \A i, j \in first .. last : i < j => Precedes(a[i], a[j])

Keyed(E) == \A x \in E : x.key \in Int /\ x.id \in Int

LEMMA PrecedesTransitive ==
  ASSUME NEW E, Keyed(E), NEW x \in E, NEW y \in E, NEW z \in E, Precedes(x, y), Precedes(y, z)
  PROVE  Precedes(x, z)
BY DEF Keyed, Precedes

LEMMA PrecedesTotal ==
  ASSUME NEW E, Keyed(E), NEW x \in E, NEW y \in E, x.id # y.id
  PROVE  Precedes(x, y) <=> ~Precedes(y, x)
BY DEF Keyed, Precedes

LEMMA OrderedPairs ==
  ASSUME NEW n \in Nat, NEW E, Keyed(E), NEW a \in ArrayOn(n, E), NEW first \in Nat,
         NEW last \in Int, last < n, InOrder(a, first, last)
  PROVE  Ordered(a, first, last)
<1> DEFINE Bad(d) == \E i, j \in first .. last : i < j /\ j - i = d /\ ~Precedes(a[i], a[j])
           T == {d \in Nat : Bad(d)}
<1>0. \A i \in first .. last : a[i] \in E
  BY DEF ArrayOn
<1>1. ASSUME T # {} PROVE FALSE
  <2>1. PICK d \in T : \A k \in T : d <= k
    <3>1. T \subseteq Nat
      OBVIOUS
    <3> HIDE DEF T
    <3> QED
      BY <1>1, <3>1, LeastNatural
  <2>2. PICK i \in first .. last, j \in first .. last : i < j /\ j - i = d /\ ~Precedes(a[i], a[j])
    OBVIOUS
  <2>3. i \in Int /\ j \in Int /\ j - 1 \in first .. last /\ (j - 1) + 1 = j /\ j - 1 \in first .. last - 1
    BY <2>2
  <2>4. Precedes(a[j - 1], a[j])
    <3>1. a[j - 1].key < a[(j - 1) + 1].key
            \/ (a[j - 1].key = a[(j - 1) + 1].key /\ a[j - 1].id < a[(j - 1) + 1].id)
      BY <2>3 DEF InOrder
    <3> QED
      BY <2>3, <3>1 DEF Precedes
  <2>5. i # j - 1
    BY <2>2, <2>4
  <2>6. i < j - 1 /\ (j - 1) - i \in Nat /\ (j - 1) - i < d /\ d \in Nat
    BY <2>2, <2>3, <2>5
  <2>7. (j - 1) - i \notin T
    <3> HIDE DEF T
    <3> QED
      BY <2>1, <2>6
  <2>8. Precedes(a[i], a[j - 1])
    BY <2>3, <2>6, <2>7
  <2>9. a[i] \in E /\ a[j - 1] \in E /\ a[j] \in E
    BY <1>0, <2>3
  <2>10. Precedes(a[i], a[j])
    BY <2>4, <2>8, <2>9, PrecedesTransitive, ZenonT(30)
  <2> QED
    BY <2>2, <2>10
<1>2. ASSUME NEW i \in first .. last, NEW j \in first .. last, i < j PROVE Precedes(a[i], a[j])
  <2>1. j - i \in Nat
    BY <1>2
  <2>2. ~Bad(j - i)
    <3>1. T = {}
      BY <1>1
    <3> HIDE DEF Bad
    <3> QED
      BY <2>1, <3>1
  <2> QED
    BY <1>2, <2>2
<1> QED
  BY <1>2 DEF Ordered

LEMMA OrderedNeighbours ==
  ASSUME NEW a, NEW first \in Int, NEW last \in Int, Ordered(a, first, last)
  PROVE  InOrder(a, first, last)
<1> SUFFICES ASSUME NEW i \in first .. last - 1 PROVE Precedes(a[i], a[i + 1])
  BY DEF InOrder, Precedes
<1>1. i \in first .. last /\ i + 1 \in first .. last /\ i < i + 1
  OBVIOUS
<1> QED
  BY <1>1 DEF Ordered

(* The element at last goes to left, and those between move up. *)
Rotated(a, n, left, last) ==
  [j \in 0 .. n - 1 |-> IF j = left THEN a[last]
                        ELSE IF j \in left + 1 .. last THEN a[j - 1] ELSE a[j]]

LEMMA RotatedRearranges ==
  ASSUME NEW n \in Nat, NEW E, NEW a \in ArrayOn(n, E), NEW first \in Nat, NEW last \in Nat,
         last < n, NEW left \in first .. last
  PROVE  Rotated(a, n, left, last) \in ArrayOn(n, E) /\ Rearranged(a, Rotated(a, n, left, last), first, last)
<1> DEFINE b == Rotated(a, n, left, last)
<1>1. \A j \in 0 .. n - 1 : b[j] = IF j = left THEN a[last]
                                   ELSE IF j \in left + 1 .. last THEN a[j - 1] ELSE a[j]
  BY DEF Rotated
<1>2. b \in ArrayOn(n, E)
  BY DEF ArrayOn, Rotated
<1> HIDE DEF b
<1>3. ASSUME NEW i \in first .. last PROVE \E j \in first .. last : b[i] = a[j]
  <2>1. CASE i = left
    BY <1>1, <2>1
  <2>2. CASE i > left
    <3>1. b[i] = a[i - 1] /\ i - 1 \in first .. last
      BY <1>1, <2>2
    <3> QED
      BY <3>1
  <2>3. CASE i < left
    BY <1>1, <2>3
  <2> QED
    BY <2>1, <2>2, <2>3
<1>4. ASSUME NEW i \in first .. last PROVE \E j \in first .. last : a[i] = b[j]
  <2>1. CASE i = last
    BY <1>1, <2>1
  <2>2. CASE i # last /\ i >= left
    <3>1. b[i + 1] = a[(i + 1) - 1] /\ (i + 1) - 1 = i /\ i + 1 \in first .. last
      BY <1>1, <2>2
    <3> QED
      BY <3>1
  <2>3. CASE i < left
    BY <1>1, <2>3
  <2> QED
    BY <2>1, <2>2, <2>3
<1>5. {b[i] : i \in first .. last} = {a[i] : i \in first .. last}
  BY <1>3, <1>4
<1>6. \A i \in DOMAIN a \ (first .. last) : b[i] = a[i]
  BY <1>1 DEF ArrayOn
<1> QED
  BY <1>2, <1>5, <1>6 DEF Rearranged, b

LEMMA RotatedOrdered ==
  ASSUME NEW n \in Nat, NEW a, NEW first \in Nat, NEW last \in Nat,
         last < n, NEW left \in first .. last,
         Ordered(a, first, last - 1),
         \A k \in first .. left - 1 : Precedes(a[k], a[last]),
         \A k \in left .. last - 1 : Precedes(a[last], a[k])
  PROVE  Ordered(Rotated(a, n, left, last), first, last)
<1> DEFINE b == Rotated(a, n, left, last)
<1>1. \A j \in 0 .. n - 1 : b[j] = IF j = left THEN a[last]
                                   ELSE IF j \in left + 1 .. last THEN a[j - 1] ELSE a[j]
  BY DEF Rotated
<1>2. \A i, j \in first .. last - 1 : i < j => Precedes(a[i], a[j])
  BY DEF Ordered
<1> HIDE DEF b
<1> SUFFICES ASSUME NEW i \in first .. last, NEW j \in first .. last, i < j
             PROVE  Precedes(b[i], b[j])
  BY DEF Ordered, b
<1>3. i \in 0 .. n - 1 /\ j \in 0 .. n - 1
  OBVIOUS
<1>4. CASE j < left
  BY <1>1, <1>2, <1>3, <1>4
<1>5. CASE j = left
  BY <1>1, <1>3, <1>5
<1>6. CASE j > left /\ i = left
  <2>1. b[i] = a[last] /\ b[j] = a[j - 1] /\ j - 1 \in left .. last - 1
    BY <1>1, <1>3, <1>6
  <2> QED
    BY <2>1
<1>7. CASE j > left /\ i < left
  <2>1. b[i] = a[i] /\ b[j] = a[j - 1] /\ i \in first .. last - 1 /\ j - 1 \in first .. last - 1 /\ i < j - 1
    BY <1>1, <1>3, <1>7
  <2> QED
    BY <1>2, <2>1
<1>8. CASE i > left
  <2>1. /\ b[i] = a[i - 1] /\ b[j] = a[j - 1]
        /\ i - 1 \in first .. last - 1 /\ j - 1 \in first .. last - 1 /\ i - 1 < j - 1
    BY <1>1, <1>3, <1>8
  <2> QED
    BY <1>2, <2>1
<1> QED
  BY <1>4, <1>5, <1>6, <1>7, <1>8

(* One insertion, and the sort made of them. *)
Left(a, base, i) ==
  base + BinarySearch([m \in 0 .. i - 1 |-> cmp(a[base + i], a[base + m]) >= 0], 0, i)

LEMMA InsertedRotates ==
  ASSUME NEW n \in Nat, NEW E, NEW a \in ArrayOn(n, E), NEW base \in Nat, NEW i \in Nat, base + i < n
  PROVE  /\ Left(a, base, i) \in base .. base + i
         /\ Inserted(a, base, i) = Rotated(a, n, Left(a, base, i), base + i)
<1> DEFINE before == [m \in 0 .. i - 1 |-> cmp(a[base + i], a[base + m]) >= 0]
           found == BinarySearch(before, 0, i)
           left == base + found
<1>1. found \in 0 .. i
  BY SearchBounds
<1>2. Inserted(a, base, i) =
        [j \in DOMAIN a |-> CASE j = left -> a[base + i]
                              [] j \in left + 1 .. base + i -> a[j - 1]
                              [] OTHER -> a[j]]
  BY DEF Inserted
<1>3. left = Left(a, base, i)
  BY DEF Left
<1> HIDE DEF found, before
<1>4. left \in base .. base + i
  BY <1>1
<1>5. DOMAIN a = 0 .. n - 1
  BY DEF ArrayOn
<1> HIDE DEF left
<1>6. left \in Int /\ left \notin left + 1 .. base + i
  BY <1>4
<1>7. Inserted(a, base, i) = Rotated(a, n, left, base + i)
  BY <1>2, <1>5, <1>6 DEF Rotated
<1> QED
  BY <1>3, <1>4, <1>7

(* What the comparator says of elements. *)
Compares(E) ==
  \A x, y \in E : /\ cmp(x, y) \in Int
                  /\ cmp(x, y) < 0 <=> x.key < y.key
                  /\ cmp(x, y) > 0 <=> x.key > y.key

(* A predicate that holds of no element after one it does not hold of      *)
(* splits a list.                                                          *)
LEMMA InitialSegment ==
  ASSUME NEW len \in Nat, NEW before,
         \A i, j \in 0 .. len - 1 : i < j /\ before[j] => before[i]
  PROVE  \E n \in 0 .. len : Splits(before, 0, len - 1, n)
<1> DEFINE T == {i \in 0 .. len : i = len \/ ~before[i]}
<1>1. T \subseteq Nat /\ len \in T
  OBVIOUS
<1>2. PICK n \in T : \A i \in T : n <= i
  <2> HIDE DEF T
  <2> QED
    BY <1>1, LeastNatural
<1>3. n \in 0 .. len /\ (n = len \/ ~before[n])
  OBVIOUS
<1>4. ASSUME NEW i \in 0 .. len - 1 PROVE before[i] <=> i < n
  <2>1. CASE i < n
    <3>1. i \notin T
      <4> HIDE DEF T
      <4> QED
        BY <1>2, <1>3, <2>1
    <3> QED
      BY <2>1, <3>1
  <2>2. CASE i = n
    BY <1>3, <2>2
  <2>3. CASE n < i
    <3>1. n \in 0 .. len - 1 /\ ~before[n]
      BY <1>3, <2>3
    <3> QED
      BY <2>3, <3>1
  <2> QED
    BY <1>3, <2>1, <2>2, <2>3
<1> QED
  BY <1>3, <1>4 DEF Splits

(* The younger element goes in its place among older ones. *)
LEMMA InsertedOrdered ==
  ASSUME NEW n \in Nat, NEW E, Keyed(E), Compares(E),
         NEW a \in ArrayOn(n, E), NEW base \in Nat, NEW i \in Nat, base + i < n,
         Ordered(a, base, base + i - 1),
         \A k \in base .. base + i - 1 : a[k].id < a[base + i].id
  PROVE  Ordered(Inserted(a, base, i), base, base + i)
<1> DEFINE x == a[base + i]
           before == [m \in 0 .. i - 1 |-> cmp(x, a[base + m]) >= 0]
<1>1. \A k \in base .. base + i : a[k] \in E /\ a[k].key \in Int /\ a[k].id \in Int
  BY DEF ArrayOn, Keyed
<1>2. ASSUME NEW m \in 0 .. i - 1
      PROVE  /\ before[m] <=> a[base + m].key <= x.key
             /\ before[m] <=> Precedes(a[base + m], x)
             /\ ~before[m] <=> Precedes(x, a[base + m])
  <2>1. base + m \in base .. base + i - 1 /\ base + m \in base .. base + i
    OBVIOUS
  <2>2. a[base + m] \in E /\ x \in E
    BY <1>1, <2>1
  <2>3. a[base + m].key \in Int /\ x.key \in Int /\ a[base + m].id \in Int /\ x.id \in Int
    BY <1>1, <2>1
  <2>4. cmp(x, a[base + m]) \in Int /\ (cmp(x, a[base + m]) < 0 <=> x.key < a[base + m].key)
    BY <2>2 DEF Compares
  <2>5. before[m] <=> cmp(x, a[base + m]) >= 0
    OBVIOUS
  <2>6. a[base + m].id < x.id
    BY <2>1
  <2> HIDE DEF before, x
  <2>7. before[m] <=> a[base + m].key <= x.key
    BY <2>3, <2>4, <2>5
  <2> QED
    BY <2>3, <2>6, <2>7 DEF Precedes
<1>3. ASSUME NEW j \in 0 .. i - 1, NEW m \in 0 .. i - 1, j < m, before[m] PROVE before[j]
  <2>1. base + j \in base .. base + i - 1 /\ base + m \in base .. base + i - 1 /\ base + j < base + m
    BY <1>3
  <2>2. Precedes(a[base + j], a[base + m])
    BY <2>1 DEF Ordered
  <2>3. a[base + m].key <= x.key
    BY <1>2, <1>3
  <2>4. a[base + j].key \in Int /\ a[base + m].key \in Int /\ x.key \in Int
    BY <1>1, <2>1
  <2> HIDE DEF before, x
  <2>5. a[base + j].key <= x.key
    BY <2>2, <2>3, <2>4 DEF Precedes
  <2> QED
    BY <1>2, <2>5
<1> HIDE DEF before
<1>4. PICK c \in 0 .. i : Splits(before, 0, i - 1, c)
  BY <1>3, InitialSegment
<1>5. BinarySearch(before, 0, i) = c
  BY <1>4, SearchFinds
<1>6. Left(a, base, i) = base + c
  BY <1>5 DEF Left, before
<1>7. Inserted(a, base, i) = Rotated(a, n, base + c, base + i)
  BY <1>6, InsertedRotates
<1>8. ASSUME NEW k \in base .. base + c - 1 PROVE Precedes(a[k], x)
  <2>1. k - base \in 0 .. i - 1 /\ k - base < c /\ base + (k - base) = k
    OBVIOUS
  <2>2. before[k - base]
    BY <1>4, <2>1 DEF Splits
  <2> HIDE DEF x
  <2>3. Precedes(a[base + (k - base)], x)
    BY <1>2, <2>1, <2>2
  <2> QED
    BY <2>1, <2>3
<1>9. ASSUME NEW k \in base + c .. base + i - 1 PROVE Precedes(x, a[k])
  <2>1. k - base \in 0 .. i - 1 /\ ~(k - base < c) /\ base + (k - base) = k
    OBVIOUS
  <2>2. ~before[k - base]
    BY <1>4, <2>1 DEF Splits
  <2> HIDE DEF x
  <2>3. Precedes(x, a[base + (k - base)])
    BY <1>2, <2>1, <2>2
  <2> QED
    BY <2>1, <2>3
<1> DEFINE left == base + c
           last == base + i
<1>10. left \in base .. last /\ last \in Nat /\ last < n
  OBVIOUS
<1>11. /\ \A k \in base .. left - 1 : Precedes(a[k], a[last])
       /\ \A k \in left .. last - 1 : Precedes(a[last], a[k])
  BY <1>8, <1>9
<1>12. Ordered(a, base, last - 1)
  OBVIOUS
<1>13. Inserted(a, base, i) = Rotated(a, n, left, last)
  BY <1>7
<1> HIDE DEF left, last, x
<1>14. Ordered(Rotated(a, n, left, last), base, last)
  BY <1>10, <1>11, <1>12, RotatedOrdered
<1> QED
  BY <1>13, <1>14 DEF last

(* The sort of count elements from base on, of which the first start are   *)
(* in order: one turn of its loop.                                         *)
SortTurn(a, base, start, f, i) == IF i <= start THEN a ELSE Inserted(f[i - 1], base, i - 1)

LEMMA InsertedRearranges ==
  ASSUME NEW n \in Nat, NEW E, NEW a \in ArrayOn(n, E), NEW base \in Nat, NEW i \in Nat, base + i < n
  PROVE  /\ Inserted(a, base, i) \in ArrayOn(n, E)
         /\ Rearranged(a, Inserted(a, base, i), base, base + i)
<1>1. /\ Left(a, base, i) \in base .. base + i
      /\ Inserted(a, base, i) = Rotated(a, n, Left(a, base, i), base + i)
  BY InsertedRotates
<1>2. base + i \in Nat
  OBVIOUS
<1> QED
  BY <1>1, <1>2, RotatedRearranges

LEMMA BinarySortEquation ==
  ASSUME NEW n \in Nat, NEW E, NEW a \in ArrayOn(n, E), NEW base \in Nat, NEW cnt \in Nat,
         base + cnt <= n, NEW start \in Nat
  PROVE  \E f : /\ \A i \in 0 .. cnt : f[i] = SortTurn(a, base, start, f, i)
                /\ bnr_sort_from_ordered_initial_run(a, base, cnt, start) = f[cnt]
<1> DEFINE D == 0 .. cnt
           V == ArrayOn(n, E)
           rank == [i \in D |-> i]
           below == [i \in D |-> IF i <= start THEN {} ELSE {i - 1}]
           step == [g \in D \X [D -> V] |-> SortTurn(a, base, start, g[2], g[1])]
           Solves(f) == f = [i \in D |-> SortTurn(a, base, start, f, i)]
<1>1. ASSUME NEW i \in D, NEW f \in [D -> V]
      PROVE  /\ step[<<i, f>>] = SortTurn(a, base, start, f, i)
             /\ SortTurn(a, base, start, f, i) \in V
  <2>1. <<i, f>> \in D \X [D -> V]
    OBVIOUS
  <2>2. step[<<i, f>>] = SortTurn(a, base, start, f, i)
    BY <2>1
  <2>3. CASE i <= start
    BY <2>2, <2>3 DEF SortTurn
  <2>4. CASE ~(i <= start)
    <3>1. i - 1 \in D /\ i - 1 \in Nat /\ base + (i - 1) < n
      BY <2>4
    <3>2. f[i - 1] \in V
      BY <3>1
    <3>3. Inserted(f[i - 1], base, i - 1) \in V
      BY <3>1, <3>2, InsertedRearranges
    <3> QED
      BY <2>2, <2>4, <3>3 DEF SortTurn
  <2> QED
    BY <2>3, <2>4
<1>2. Ranked(D, V, rank, below, step)
  <2>1. rank \in [D -> Nat]
    OBVIOUS
  <2>2. below \in [D -> SUBSET D]
    OBVIOUS
  <2>3. ASSUME NEW i \in D, NEW q \in below[i] PROVE rank[q] < rank[i]
    <3>1. ~(i <= start) /\ q = i - 1 /\ q \in D
      OBVIOUS
    <3>2. rank[q] = q /\ rank[i] = i
      BY <3>1
    <3> HIDE DEF rank
    <3> QED
      BY <3>1, <3>2
  <2>4. step \in [D \X [D -> V] -> V]
    <3>1. ASSUME NEW g \in D \X [D -> V] PROVE step[g] \in V
      <4>1. PICK i \in D, f \in [D -> V] : g = <<i, f>>
        OBVIOUS
      <4> HIDE DEF step, V, D
      <4> QED
        BY <1>1, <4>1
    <3>2. step = [g \in D \X [D -> V] |-> step[g]]
      OBVIOUS
    <3> HIDE DEF step, D, V
    <3> QED
      BY <3>1, <3>2
  <2>5. ASSUME NEW i \in D, NEW f \in [D -> V], NEW h \in [D -> V],
               \A q \in below[i] : f[q] = h[q]
        PROVE  step[<<i, f>>] = step[<<i, h>>]
    <3>1. SortTurn(a, base, start, f, i) = SortTurn(a, base, start, h, i)
      BY <2>5 DEF SortTurn
    <3> HIDE DEF step
    <3> QED
      BY <1>1, <3>1
  <2>6. V # {}
    OBVIOUS
  <2> HIDE DEF D, V, rank, below, step
  <2> QED
    BY <2>1, <2>2, <2>3, <2>4, <2>5, <2>6 DEF Ranked
<1>3. PICK f \in [D -> V] : \A i \in D : f[i] = step[<<i, f>>]
  <2> HIDE DEF D, V, rank, below, step
  <2> QED
    BY <1>2, RankedRecursion
<1>4. Solves(f)
  <2>1. f = [i \in D |-> f[i]]
    OBVIOUS
  <2>2. \A i \in D : f[i] = SortTurn(a, base, start, f, i)
    <3> HIDE DEF step, D, V
    <3> QED
      BY <1>1, <1>3
  <2> QED
    BY <2>1, <2>2
<1> DEFINE s == CHOOSE g : Solves(g)
<1>5. Solves(s)
  BY <1>4
<1>6. bnr_sort_from_ordered_initial_run(a, base, cnt, start) = s[cnt]
  BY DEF bnr_sort_from_ordered_initial_run, SortTurn
<1> HIDE DEF s
<1>7. \A i \in 0 .. cnt : s[i] = SortTurn(a, base, start, s, i)
  BY <1>5
<1> QED
  BY <1>6, <1>7

(* What holds before the loop and is kept by each turn holds in the end. *)
LEMMA BinarySortKeeps ==
  ASSUME NEW n \in Nat, NEW E, NEW a \in ArrayOn(n, E), NEW base \in Nat, NEW cnt \in Nat,
         base + cnt <= n, NEW start \in Nat
  PROVE  LET b == bnr_sort_from_ordered_initial_run(a, base, cnt, start)
         IN  b \in ArrayOn(n, E) /\ Rearranged(a, b, base, base + cnt - 1)
<1>1. PICK f : /\ \A i \in 0 .. cnt : f[i] = SortTurn(a, base, start, f, i)
               /\ bnr_sort_from_ordered_initial_run(a, base, cnt, start) = f[cnt]
  BY BinarySortEquation
<1> DEFINE Good(i) == f[i] \in ArrayOn(n, E) /\ Rearranged(a, f[i], base, base + i - 1)
           T == {i \in 0 .. cnt : ~Good(i)}
<1>2. ASSUME T # {} PROVE FALSE
  <2>1. PICK i \in T : \A k \in T : i <= k
    <3>1. T \subseteq Nat
      OBVIOUS
    <3> HIDE DEF T
    <3> QED
      BY <1>2, <3>1, LeastNatural
  <2>2. i \in 0 .. cnt /\ ~Good(i)
    OBVIOUS
  <2>3. CASE i <= start
    <3>1. f[i] = a
      BY <1>1, <2>2, <2>3 DEF SortTurn
    <3>2. Rearranged(a, a, base, base + i - 1)
      BY DEF Rearranged
    <3> QED
      BY <2>2, <3>1, <3>2
  <2>4. CASE ~(i <= start)
    <3>1. i - 1 \in 0 .. cnt /\ i - 1 \in Nat /\ base + (i - 1) < n /\ ~(i <= i - 1)
      BY <2>2, <2>4
    <3>2. i - 1 \notin T
      <4> HIDE DEF T
      <4> QED
        BY <2>1, <3>1
    <3>3. Good(i - 1)
      BY <3>1, <3>2
    <3>4. f[i] = Inserted(f[i - 1], base, i - 1)
      BY <1>1, <2>2, <2>4 DEF SortTurn
    <3> DEFINE p == f[i - 1]
               q == f[i]
               last == base + (i - 1)
    <3>5. p \in ArrayOn(n, E) /\ Rearranged(a, p, base, last - 1)
      <4>1. last - 1 = base + (i - 1) - 1
        OBVIOUS
      <4> QED
        BY <3>3, <4>1
    <3>6. q \in ArrayOn(n, E) /\ Rearranged(p, q, base, last)
      BY <3>1, <3>4, <3>5, InsertedRearranges
    <3>7. last \in Nat /\ last - 1 \in Int /\ last - 1 <= last /\ last < n /\ last = base + i - 1
      BY <3>1
    <3> HIDE DEF p, q, last
    <3>8. Rearranged(a, p, base, last)
      BY <3>5, <3>7, RearrangedInPart
    <3>9. Rearranged(a, q, base, last)
      BY <3>5, <3>6, <3>8, RearrangedTwice
    <3> QED
      BY <2>2, <3>6, <3>7, <3>9 DEF q
  <2> QED
    BY <2>3, <2>4
<1>3. Good(cnt)
  BY <1>2
<1> QED
  BY <1>1, <1>3

(* The first elements are in order and have the first ids; the others are  *)
(* still where they were at first.                                         *)
ReadyToInsert(a, base, cnt, start) ==
  /\ Ordered(a, base, base + start - 1)
  /\ \A k \in base .. base + start - 1 : a[k].id \in base .. base + start - 1
  /\ \A k \in base + start .. base + cnt - 1 : a[k].id = k

LEMMA BinarySortOrders ==
  ASSUME NEW n \in Nat, NEW E, Keyed(E), Compares(E), NEW a \in ArrayOn(n, E), NEW base \in Nat,
         NEW cnt \in Nat, base + cnt <= n, NEW start \in 0 .. cnt, ReadyToInsert(a, base, cnt, start)
  PROVE  Ordered(bnr_sort_from_ordered_initial_run(a, base, cnt, start), base, base + cnt - 1)
<1>1. PICK f : /\ \A i \in 0 .. cnt : f[i] = SortTurn(a, base, start, f, i)
               /\ bnr_sort_from_ordered_initial_run(a, base, cnt, start) = f[cnt]
  BY BinarySortEquation
<1> DEFINE Good(i) == /\ f[i] \in ArrayOn(n, E) /\ Rearranged(a, f[i], base, base + i - 1)
                      /\ Ordered(f[i], base, base + i - 1)
           T == {i \in 0 .. cnt : ~Good(i)}
<1>2. ASSUME T # {} PROVE FALSE
  <2>1. PICK i \in T : \A k \in T : i <= k
    <3>1. T \subseteq Nat
      OBVIOUS
    <3> HIDE DEF T
    <3> QED
      BY <1>2, <3>1, LeastNatural
  <2>2. i \in 0 .. cnt /\ ~Good(i)
    OBVIOUS
  <2>3. CASE i <= start
    <3>1. f[i] = a
      BY <1>1, <2>2, <2>3 DEF SortTurn
    <3>2. Rearranged(a, a, base, base + i - 1)
      BY DEF Rearranged
    <3>3. Ordered(a, base, base + i - 1)
      <4>1. \A j \in base .. base + i - 1 : j \in base .. base + start - 1
        BY <2>2, <2>3
      <4> QED
        BY <4>1 DEF ReadyToInsert, Ordered
    <3> QED
      BY <2>2, <3>1, <3>2, <3>3
  <2>4. CASE ~(i <= start)
    <3>1. i - 1 \in 0 .. cnt /\ i - 1 \in Nat /\ base + (i - 1) < n /\ ~(i <= i - 1)
      BY <2>2, <2>4
    <3>2. i - 1 \notin T
      <4> HIDE DEF T
      <4> QED
        BY <2>1, <3>1
    <3>3. Good(i - 1)
      BY <3>1, <3>2
    <3>4. f[i] = Inserted(f[i - 1], base, i - 1)
      BY <1>1, <2>2, <2>4 DEF SortTurn
    <3> DEFINE p == f[i - 1]
               q == f[i]
               last == base + (i - 1)
    <3>5. p \in ArrayOn(n, E) /\ Rearranged(a, p, base, last - 1) /\ Ordered(p, base, last - 1)
      <4>1. last - 1 = base + (i - 1) - 1
        OBVIOUS
      <4> QED
        BY <3>3, <4>1
    <3>6. q \in ArrayOn(n, E) /\ Rearranged(p, q, base, last)
      BY <3>1, <3>4, <3>5, InsertedRearranges
    <3>7. last \in Nat /\ last - 1 \in Int /\ last - 1 <= last /\ last < n /\ last = base + i - 1
      BY <3>1
    <3>71. last >= base + start /\ last <= base + cnt - 1
      BY <2>2, <2>4
    <3>72. q = Inserted(p, base, i - 1) /\ base + (i - 1) = last
      BY <3>4
    <3> HIDE DEF p, q, last
    <3>8. Rearranged(a, p, base, last)
      BY <3>5, <3>7, RearrangedInPart
    <3>9. Rearranged(a, q, base, last)
      BY <3>5, <3>6, <3>8, RearrangedTwice
    <3>10. p[last] = a[last] /\ a[last].id = last
      <4>1. last \in DOMAIN a \ (base .. last - 1)
        BY <3>7 DEF ArrayOn
      <4>2. p[last] = a[last]
        BY <3>5, <4>1 DEF Rearranged
      <4>3. last \in base + start .. base + cnt - 1
        BY <3>7, <3>71
      <4> QED
        BY <4>2, <4>3 DEF ReadyToInsert
    <3>11. ASSUME NEW k \in base .. last - 1 PROVE p[k].id < p[last].id
      <4>1. p[k] \in {p[j] : j \in base .. last - 1}
        OBVIOUS
      <4>2. PICK j \in base .. last - 1 : p[k] = a[j]
        BY <3>5, <4>1 DEF Rearranged
      <4>3. CASE j <= base + start - 1
        <5>1. j \in base .. base + start - 1
          BY <4>3, <3>7
        <5>2. a[j].id \in base .. base + start - 1
          BY <5>1 DEF ReadyToInsert
        <5> QED
          BY <3>7, <3>71, <3>10, <4>2, <5>2
      <4>4. CASE ~(j <= base + start - 1)
        <5>1. j \in base + start .. base + cnt - 1
          BY <3>7, <3>71, <4>4
        <5>2. a[j].id = j
          BY <5>1 DEF ReadyToInsert
        <5> QED
          BY <3>7, <3>10, <4>2, <5>2
      <4> QED
        BY <4>3, <4>4
    <3>12. Ordered(Inserted(p, base, i - 1), base, base + (i - 1))
      <4>1. \A k \in base .. base + (i - 1) - 1 : p[k].id < p[base + (i - 1)].id
        BY <3>11, <3>72
      <4>2. Ordered(p, base, base + (i - 1) - 1)
        BY <3>5, <3>72
      <4> QED
        BY <3>1, <3>5, <4>1, <4>2, InsertedOrdered
    <3>13. Ordered(q, base, base + i - 1)
      BY <3>7, <3>12, <3>72
    <3> QED
      BY <2>2, <3>6, <3>7, <3>9, <3>13 DEF q
  <2> QED
    BY <2>3, <2>4
<1>3. Good(cnt)
  BY <1>2
<1> QED
  BY <1>1, <1>3

-----------------------------------------------------------------------------
(* Runs. *)

(* All the neighbours in a run compare as the first two do. *)
LEMMA RunCompares ==
  ASSUME NEW a, NEW base, NEW n \in Nat \ {0}
  PROVE  /\ RunLength(a, base, n) \in 1 .. n
         /\ \A s \in 1 .. RunLength(a, base, n) - 1 : Descends(a, base + s) <=> Descends(a, base + 1)
<1> DEFINE Stops(r) == r = n \/ Descends(a, base + r) # Descends(a, base + 1)
           T == {r \in 1 .. n : Stops(r)}
           First(r) == Stops(r) /\ \A s \in 1 .. r - 1 : ~Stops(s)
           run == CHOOSE i \in 1 .. n : First(i)
<1>1. T \subseteq Nat /\ T # {}
  <2>1. n \in T
    OBVIOUS
  <2> QED
    BY <2>1
<1>2. PICK r \in T : \A s \in T : r <= s
  BY <1>1, LeastNatural
<1>3. r \in 1 .. n /\ First(r)
  <2> HIDE DEF Stops
  <2>1. ASSUME NEW s \in 1 .. r - 1, Stops(s)
        PROVE  FALSE
    <3>1. s \in T
      BY <2>1, <1>2
    <3> QED
      BY <3>1, <1>2
  <2> QED
    BY <2>1, <1>2
<1>4. RunLength(a, base, n) = run
  BY DEF RunLength
<1>5. run \in 1 .. n /\ First(run)
  <2> HIDE DEF First
  <2> QED
    BY <1>3
<1>6. ASSUME NEW s \in 1 .. run - 1
      PROVE  Descends(a, base + s) <=> Descends(a, base + 1)
  <2>1. ~Stops(s)
    BY <1>5
  <2> HIDE DEF run
  <2> QED
    BY <2>1
<1> HIDE DEF run, First
<1> QED
  BY <1>4, <1>5, <1>6

(* The elements of first .. last in the opposite order. *)
Reversed(a, n, first, last) ==
  [i \in 0 .. n - 1 |-> IF i \in first .. last THEN a[first + last - i] ELSE a[i]]

LEMMA ReversedRearranges ==
  ASSUME NEW n \in Nat, NEW E, NEW a \in ArrayOn(n, E), NEW first \in Nat, NEW last \in Int, last < n
  PROVE  Reversed(a, n, first, last) \in ArrayOn(n, E) /\ Rearranged(a, Reversed(a, n, first, last), first, last)
<1> DEFINE b == Reversed(a, n, first, last)
<1>1. \A i \in first .. last : first + last - i \in first .. last /\ i \in 0 .. n - 1
  OBVIOUS
<1>2. \A i \in first .. last : b[i] = a[first + last - i]
  BY <1>1 DEF Reversed
<1>3. \A i \in (0 .. n - 1) \ (first .. last) : b[i] = a[i]
  BY DEF Reversed
<1>4. DOMAIN a = 0 .. n - 1 /\ \A i \in 0 .. n - 1 : a[i] \in E
  BY DEF ArrayOn
<1>5. b \in ArrayOn(n, E)
  BY <1>1, <1>4 DEF Reversed, ArrayOn
<1> HIDE DEF b
<1>6. \A i \in first .. last : first + last - (first + last - i) = i
  OBVIOUS
<1>7. {b[i] : i \in first .. last} = {a[i] : i \in first .. last}
  <2>1. ASSUME NEW i \in first .. last
        PROVE  b[i] \in {a[j] : j \in first .. last}
    BY <1>1, <1>2
  <2>2. ASSUME NEW i \in first .. last
        PROVE  a[i] \in {b[j] : j \in first .. last}
    <3> DEFINE j == first + last - i
    <3>1. j \in first .. last /\ b[j] = a[i]
      BY <1>1, <1>2, <1>6
    <3> HIDE DEF j
    <3> QED
      BY <3>1
  <2> QED
    BY <2>1, <2>2
<1>8. Rearranged(a, b, first, last)
  BY <1>3, <1>4, <1>7 DEF Rearranged
<1> QED
  BY <1>5, <1>8 DEF b

LEMMA RearrangedNot ==
  ASSUME NEW a, NEW first, NEW last
  PROVE  Rearranged(a, a, first, last)
BY DEF Rearranged

LEMMA MadeAscendingReverses ==
  ASSUME NEW n \in Nat, NEW E, NEW a \in ArrayOn(n, E), NEW base \in Nat, NEW len \in Nat
  PROVE  MadeAscending(a, base, len) =
           IF len > 1 /\ Descends(a, base + 1) THEN Reversed(a, n, base, base + len - 1) ELSE a
<1>1. DOMAIN a = 0 .. n - 1
  BY DEF ArrayOn
<1>2. \A i \in 0 .. n - 1 : a[2 * base + len - 1 - i] = a[base + (base + len - 1) - i]
  <2>1. \A i \in 0 .. n - 1 : 2 * base + len - 1 - i = base + (base + len - 1) - i
    OBVIOUS
  <2> QED
    BY <2>1
<1> DEFINE b == [i \in DOMAIN a |-> IF i \in base .. base + len - 1 THEN a[2 * base + len - 1 - i] ELSE a[i]]
<1>3. b = Reversed(a, n, base, base + len - 1)
  BY <1>1, <1>2 DEF Reversed
<1>4. MadeAscending(a, base, len) = IF len > 1 /\ Descends(a, base + 1) THEN b ELSE a
  BY DEF MadeAscending
<1> HIDE DEF b
<1> QED
  BY <1>3, <1>4

LEMMA MadeAscendingKeeps ==
  ASSUME NEW n \in Nat, NEW E, NEW a \in ArrayOn(n, E), NEW base \in Nat, NEW len \in Nat, base + len <= n
  PROVE  /\ MadeAscending(a, base, len) \in ArrayOn(n, E)
         /\ Rearranged(a, MadeAscending(a, base, len), base, base + len - 1)
<1> DEFINE last == base + len - 1
           b == Reversed(a, n, base, last)
<1>1. last \in Int /\ last < n
  OBVIOUS
<1>2. MadeAscending(a, base, len) = IF len > 1 /\ Descends(a, base + 1) THEN b ELSE a
  BY MadeAscendingReverses
<1> HIDE DEF last
<1>3. b \in ArrayOn(n, E) /\ Rearranged(a, b, base, last)
  BY <1>1, ReversedRearranges
<1>4. Rearranged(a, a, base, last)
  BY RearrangedNot
<1> HIDE DEF b
<1>5. /\ MadeAscending(a, base, len) \in ArrayOn(n, E)
      /\ Rearranged(a, MadeAscending(a, base, len), base, last)
  BY <1>2, <1>3, <1>4
<1> QED
  BY <1>5 DEF last

(* A run of elements that are still where they were at first is put in     *)
(* stable order.                                                           *)
LEMMA RunMadeOrdered ==
  ASSUME NEW n \in Nat, NEW E, Keyed(E), Compares(E), NEW a \in ArrayOn(n, E), NEW base \in Nat,
         NEW len \in Nat \ {0}, base + len <= n,
         \A i \in base .. base + len - 1 : a[i].id = i,
         \A s \in 1 .. len - 1 : Descends(a, base + s) <=> Descends(a, base + 1)
  PROVE  Ordered(MadeAscending(a, base, len), base, base + len - 1)
<1> DEFINE last == base + len - 1
           b == Reversed(a, n, base, last)
<1>0. last \in Nat /\ last < n
  OBVIOUS
<1>1. /\ \A i \in base .. last : a[i] \in E /\ a[i].key \in Int
      /\ \A i \in base .. last - 1 : i \in base .. last /\ i + 1 \in base .. last
  BY <1>0 DEF ArrayOn, Keyed
<1>2. ASSUME NEW i \in base .. last - 1
      PROVE  /\ Descends(a, i + 1) <=> Descends(a, base + 1)
             /\ Descends(a, i + 1) <=> a[i + 1].key < a[i].key
  <2>1. /\ i + 1 - base \in 1 .. len - 1 /\ base + (i + 1 - base) = i + 1
        /\ (i + 1) - 1 = i
    OBVIOUS
  <2>2. Descends(a, i + 1) <=> Descends(a, base + 1)
    BY <2>1
  <2>3. Descends(a, i + 1) <=> cmp(a[i + 1], a[i]) < 0
    BY <2>1 DEF Descends
  <2>4. a[i + 1] \in E /\ a[i] \in E
    BY <1>1
  <2> QED
    BY <2>2, <2>3, <2>4 DEF Compares
<1>3. CASE len > 1 /\ Descends(a, base + 1)
  <2>1. b \in ArrayOn(n, E)
    BY <1>0, ReversedRearranges
  <2>2. InOrder(b, base, last)
    <3> SUFFICES ASSUME NEW i \in base .. last - 1
                 PROVE  b[i].key < b[i + 1].key
      BY DEF InOrder
    <3> DEFINE j == base + last - (i + 1)
    <3>1. j \in base .. last - 1 /\ base + last - i = j + 1 /\ i \in 0 .. n - 1 /\ i + 1 \in 0 .. n - 1
      BY <1>0
    <3>2. b[i] = a[j + 1] /\ b[i + 1] = a[j]
      BY <3>1, <1>1 DEF Reversed
    <3> HIDE DEF j
    <3>3. a[j + 1].key < a[j].key
      BY <1>2, <1>3, <3>1
    <3> QED
      BY <3>2, <3>3
  <2>3. Ordered(b, base, last)
    <3> HIDE DEF b, last
    <3> QED
      BY <2>1, <2>2, <1>0, OrderedPairs
  <2> QED
    BY <1>3, <2>3, MadeAscendingReverses
<1>4. CASE ~(len > 1 /\ Descends(a, base + 1))
  <2>1. InOrder(a, base, last)
    <3> SUFFICES ASSUME NEW i \in base .. last - 1
                 PROVE  a[i].key < a[i + 1].key \/ (a[i].key = a[i + 1].key /\ a[i].id < a[i + 1].id)
      BY DEF InOrder
    <3>1. len > 1
      OBVIOUS
    <3>2. ~(a[i + 1].key < a[i].key)
      BY <1>2, <1>4, <3>1
    <3>3. a[i].key \in Int /\ a[i + 1].key \in Int /\ a[i].id = i /\ a[i + 1].id = i + 1
      BY <1>1
    <3> QED
      BY <3>2, <3>3
  <2>2. Ordered(a, base, last)
    <3> HIDE DEF last
    <3> QED
      BY <2>1, <1>0, OrderedPairs
  <2> QED
    BY <1>4, <2>2, MadeAscendingReverses
<1> QED
  BY <1>3, <1>4

(* The memory is enough for half of the array. *)
LEMMA CapacityEnough ==
  ASSUME tmp_count \in Nat, count \in Nat, NEW len \in Nat, 2 * len <= count
  PROVE  tms_ensure_capacity(len) \in Nat /\ len <= tms_ensure_capacity(len)
<1> DEFINE Above(k) == 2 ^ k > len /\ \A j \in 0 .. k - 1 : 2 ^ j <= len
           T == {k \in 0 .. len : 2 ^ k > len}
           log == CHOOSE k \in 0 .. len : Above(k)
           half == count \div 2
<1>1. \A k \in 0 .. len : 2 ^ k \in Nat
  BY PowersGrow
<1>2. PICK k \in T : \A j \in T : k <= j
  <2>1. len \in T
    BY PowersGrow
  <2>2. T \subseteq Nat /\ T # {}
    BY <2>1
  <2> QED
    BY <2>2, LeastNatural
<1>3. k \in 0 .. len /\ Above(k)
  <2>1. ASSUME NEW j \in 0 .. k - 1
        PROVE  2 ^ j <= len
    <3>1. j \in 0 .. len /\ j \notin T
      BY <1>2
    <3> QED
      BY <3>1, <1>1
  <2> QED
    BY <2>1, <1>2
<1>4. log \in 0 .. len /\ Above(log)
  <2> HIDE DEF Above
  <2> QED
    BY <1>3
<1>5. 2 ^ log \in Nat /\ 2 ^ log > len
  BY <1>1, <1>4
<1>6. tms_ensure_capacity(len) =
        IF tmp_count >= len THEN tmp_count ELSE IF 2 ^ log < half THEN 2 ^ log ELSE half
  BY DEF tms_ensure_capacity
<1>7. half \in Nat /\ len <= half
  OBVIOUS
<1> HIDE DEF log, half
<1> DEFINE p == 2 ^ log
<1> HIDE DEF p
<1>8. p \in Nat /\ p > len
  BY <1>5 DEF p
<1>9. tms_ensure_capacity(len) = IF tmp_count >= len THEN tmp_count ELSE IF p < half THEN p ELSE half
  BY <1>6 DEF p
<1> QED
  BY <1>7, <1>8, <1>9

-----------------------------------------------------------------------------
(* Merging, seen from the end that is filled first: going down, everything *)
(* is the other way round.                                                 *)

Before(dir, x, y) == IF dir = 1 THEN Precedes(x, y) ELSE Precedes(y, x)

LEMMA BeforeTransitive ==
  ASSUME NEW E, Keyed(E), NEW dir, NEW x \in E, NEW y \in E, NEW z \in E,
         Before(dir, x, y), Before(dir, y, z)
  PROVE  Before(dir, x, z)
BY PrecedesTransitive DEF Before

(* The region r of the array that is merged begins with the p elements     *)
(* that are in place, goes on with a hole of h places, and ends with the l *)
(* elements that are left of the array's run; u is what is left of the     *)
(* other run, in the temporary array.                                      *)
Outside(p, h, l) == (0 .. p + h + l - 1) \ (p .. p + h - 1)

MixedType(E, r, u, p, h, l) ==
  /\ p \in Nat /\ h \in Nat \ {0} /\ l \in Nat
  /\ r \in [0 .. p + h + l - 1 -> E] /\ u \in [0 .. h - 1 -> E]

(* These elements are all there are. *)
MixedAll(all, r, u, p, h, l) ==
  all = {r[i] : i \in Outside(p, h, l)} \cup {u[i] : i \in 0 .. h - 1}

(* Each list is in order, and what is in place comes before what is not.   *)
(* The very last element is in the temporary array, and of equal elements  *)
(* the one there comes first.                                              *)
MixedOrder(dir, r, u, p, h, l) ==
  /\ \A i, j \in 0 .. h - 1 : i < j => Before(dir, u[i], u[j])
  /\ \A i, j \in Outside(p, h, l) : i < j => Before(dir, r[i], r[j])
  /\ \A i \in 0 .. p - 1, j \in 0 .. h - 1 : Before(dir, r[i], u[j])
  /\ \A i \in p + h .. p + h + l - 1 : Before(dir, r[i], u[h - 1])
  /\ \A i \in p + h .. p + h + l - 1, j \in 0 .. h - 1 : r[i].key = u[j].key => Before(dir, u[j], r[i])

Mixed(E, dir, all, r, u, p, h, l) ==
  MixedType(E, r, u, p, h, l) /\ MixedAll(all, r, u, p, h, l) /\ MixedOrder(dir, r, u, p, h, l)

(* The next c elements of the array's run are put in place. *)
MovedUp(r, p, h, l, c) == [k \in 0 .. p + h + l - 1 |-> IF k \in p .. p + c - 1 THEN r[k + h] ELSE r[k]]

LEMMA TakeAMixes ==
  ASSUME NEW E, Keyed(E), NEW dir, NEW all, NEW r, NEW u, NEW p, NEW h, NEW l,
         Mixed(E, dir, all, r, u, p, h, l), NEW c \in 0 .. l,
         \A i \in p + h .. p + h + c - 1 : Before(dir, r[i], u[0])
  PROVE  Mixed(E, dir, all, MovedUp(r, p, h, l, c), u, p + c, h, l - c)
<1> DEFINE s == MovedUp(r, p, h, l, c)
           old(k) == IF k \in p .. p + c - 1 THEN k + h ELSE k
           before == Outside(p, h, l)
           after == Outside(p + c, h, l - c)
<1>1. /\ p \in Nat /\ h \in Nat \ {0} /\ l \in Nat /\ c \in Nat /\ c <= l
      /\ p + c \in Nat /\ l - c \in Nat /\ (p + c) + h + (l - c) = p + h + l
  BY DEF Mixed, MixedType
<1>2. /\ r \in [0 .. p + h + l - 1 -> E] /\ u \in [0 .. h - 1 -> E]
      /\ \A i \in 0 .. p + h + l - 1 : r[i] \in E
      /\ \A i \in 0 .. h - 1 : u[i] \in E
  BY DEF Mixed, MixedType
<1>3. \A k \in 0 .. p + h + l - 1 : k \in after => old(k) \in before /\ s[k] = r[old(k)]
  BY <1>1 DEF Outside, MovedUp
<1>4. \A i, j \in after : i < j => old(i) < old(j)
  BY <1>1 DEF Outside
<1>5. after \subseteq 0 .. p + h + l - 1 /\ before \subseteq 0 .. p + h + l - 1
  BY <1>1 DEF Outside
<1>6. s \in [0 .. (p + c) + h + (l - c) - 1 -> E]
  <2>1. \A k \in 0 .. p + h + l - 1 : k \in p .. p + c - 1 => k + h \in 0 .. p + h + l - 1
    BY <1>1
  <2>2. s \in [0 .. p + h + l - 1 -> E]
    BY <2>1, <1>2 DEF MovedUp
  <2>3. (p + c) + h + (l - c) - 1 = p + h + l - 1
    BY <1>1
  <2> QED
    BY <2>2, <2>3
<1>7. {s[i] : i \in after} = {r[i] : i \in before}
  <2>1. ASSUME NEW i \in after
        PROVE  s[i] \in {r[j] : j \in before}
    BY <1>3, <1>5
  <2>2. ASSUME NEW i \in before
        PROVE  r[i] \in {s[j] : j \in after}
    <3> DEFINE k == IF i \in p + h .. p + h + c - 1 THEN i - h ELSE i
    <3>1. k \in after /\ old(k) = i
      BY <1>1 DEF Outside
    <3>2. s[k] = r[i]
      BY <3>1, <1>3, <1>5
    <3> HIDE DEF k, s, after
    <3> QED
      BY <3>1, <3>2
  <2> HIDE DEF s, before, after
  <2> QED
    BY <2>1, <2>2
<1>8. \A i, j \in after : i < j => Before(dir, s[i], s[j])
  <2>1. \A i, j \in before : i < j => Before(dir, r[i], r[j])
    BY DEF Mixed, MixedOrder
  <2> HIDE DEF s, before, after, old
  <2> QED
    BY <2>1, <1>3, <1>4, <1>5
<1>9. \A i \in p + h .. p + h + c - 1, j \in 0 .. h - 1 : Before(dir, r[i], u[j])
  <2> TAKE i \in p + h .. p + h + c - 1, j \in 0 .. h - 1
  <2>1. r[i] \in E /\ u[0] \in E /\ u[j] \in E /\ Before(dir, r[i], u[0])
    BY <1>1, <1>2
  <2>2. CASE j = 0
    BY <2>1, <2>2
  <2>3. CASE j > 0
    <3>1. Before(dir, u[0], u[j])
      BY <2>3, <1>1 DEF Mixed, MixedOrder
    <3> QED
      BY <3>1, <2>1, BeforeTransitive
  <2> QED
    BY <2>2, <2>3
<1>10. \A i \in 0 .. p + c - 1, j \in 0 .. h - 1 : Before(dir, s[i], u[j])
  <2> TAKE i \in 0 .. p + c - 1, j \in 0 .. h - 1
  <2>1. CASE i < p
    <3>1. s[i] = r[i] /\ i \in 0 .. p - 1
      BY <2>1, <1>1 DEF MovedUp
    <3> QED
      BY <3>1 DEF Mixed, MixedOrder
  <2>2. CASE i >= p
    <3>1. s[i] = r[i + h] /\ i + h \in p + h .. p + h + c - 1
      BY <2>2, <1>1 DEF MovedUp
    <3> QED
      BY <3>1, <1>9
  <2> QED
    BY <2>1, <2>2, <1>1
<1>11. \A i \in (p + c) + h .. (p + c) + h + (l - c) - 1 : s[i] = r[i] /\ i \in p + h .. p + h + l - 1
  BY <1>1 DEF MovedUp
<1>12. /\ \A i \in (p + c) + h .. (p + c) + h + (l - c) - 1 : Before(dir, s[i], u[h - 1])
       /\ \A i \in (p + c) + h .. (p + c) + h + (l - c) - 1, j \in 0 .. h - 1 :
            s[i].key = u[j].key => Before(dir, u[j], s[i])
  <2> HIDE DEF s
  <2> QED
    BY <1>11 DEF Mixed, MixedOrder
<1>13. \A i, j \in 0 .. h - 1 : i < j => Before(dir, u[i], u[j])
  BY DEF Mixed, MixedOrder
<1>14. MixedAll(all, s, u, p + c, h, l - c)
  <2>1. all = {r[i] : i \in before} \cup {u[i] : i \in 0 .. h - 1}
    BY DEF Mixed, MixedAll
  <2>2. all = {s[i] : i \in after} \cup {u[i] : i \in 0 .. h - 1}
    BY <1>7, <2>1
  <2> QED
    BY <2>2, Zenon DEF MixedAll
<1>15. MixedType(E, s, u, p + c, h, l - c)
  BY <1>1, <1>2, <1>6, Zenon DEF MixedType
<1>16. MixedOrder(dir, s, u, p + c, h, l - c)
  <2> HIDE DEF s
  <2>1. \A i, j \in Outside(p + c, h, l - c) : i < j => Before(dir, s[i], s[j])
    BY <1>8
  <2> QED
    BY <2>1, <1>1, <1>10, <1>12, <1>13 DEF MixedOrder
<1> QED
  BY <1>14, <1>15, <1>16, Zenon DEF Mixed

(* The next c elements in the temporary array are put in place. *)
Filled(r, u, p, h, l, c) == [k \in 0 .. p + h + l - 1 |-> IF k \in p .. p + c - 1 THEN u[k - p] ELSE r[k]]

LeftOver(u, h, c) == [j \in 0 .. h - c - 1 |-> u[j + c]]

FilledWell(E, dir, r, u, p, h, l, c) ==
  LET s == Filled(r, u, p, h, l, c)
  IN  /\ s \in [0 .. p + h + l - 1 -> E]
      /\ \A i, j \in Outside(p + c, h - c, l) : i < j => Before(dir, s[i], s[j])
      /\ {s[i] : i \in Outside(p + c, h - c, l)} =
           {r[i] : i \in Outside(p, h, l)} \cup {u[j] : j \in 0 .. c - 1}

(* The order in the region after that, in which the last element may be    *)
(* put in place too.                                                       *)
LEMMA FilledOrder ==
  ASSUME NEW E, Keyed(E), NEW dir, NEW all, NEW r, NEW u, NEW p, NEW h, NEW l,
         Mixed(E, dir, all, r, u, p, h, l), NEW c \in 0 .. h,
         l = 0 \/ \A j \in 0 .. c - 1 : Before(dir, u[j], r[p + h])
  PROVE  FilledWell(E, dir, r, u, p, h, l, c)
<1> DEFINE s == Filled(r, u, p, h, l, c)
           before == Outside(p, h, l)
           after == Outside(p + c, h - c, l)
<1>1. p \in Nat /\ h \in Nat \ {0} /\ l \in Nat /\ c \in Nat /\ c <= h
  BY DEF Mixed, MixedType
<1>2. /\ r \in [0 .. p + h + l - 1 -> E] /\ u \in [0 .. h - 1 -> E]
      /\ \A i \in 0 .. p + h + l - 1 : r[i] \in E
      /\ \A i \in 0 .. h - 1 : u[i] \in E
  BY DEF Mixed, MixedType
<1>3. \A k \in p .. p + c - 1 : s[k] = u[k - p] /\ k - p \in 0 .. c - 1 /\ k - p \in 0 .. h - 1
  BY <1>1 DEF Filled
<1>4. \A k \in before : s[k] = r[k] /\ k \in 0 .. p + h + l - 1 /\ ~(k \in p .. p + c - 1)
  BY <1>1 DEF Outside, Filled
<1>5. after = before \cup (p .. p + c - 1)
  BY <1>1 DEF Outside
<1>6. s \in [0 .. p + h + l - 1 -> E]
  BY <1>1, <1>2, <1>3 DEF Filled
<1>7. \A j \in 0 .. c - 1, i \in p + h .. p + h + l - 1 : Before(dir, u[j], r[i])
  <2> TAKE j \in 0 .. c - 1, i \in p + h .. p + h + l - 1
  <2>1. /\ i \in before /\ p + h \in before /\ j \in 0 .. h - 1
        /\ l # 0 /\ r[i] \in E /\ r[p + h] \in E /\ u[j] \in E
    BY <1>1, <1>2 DEF Outside
  <2>2. Before(dir, u[j], r[p + h])
    BY <2>1
  <2>3. CASE i = p + h
    BY <2>2, <2>3
  <2>4. CASE i > p + h
    <3>1. Before(dir, r[p + h], r[i])
      BY <2>1, <2>4, <1>1 DEF Mixed, MixedOrder
    <3> QED
      BY <3>1, <2>1, <2>2, BeforeTransitive
  <2> QED
    BY <2>3, <2>4, <1>1
<1>8. ASSUME NEW i \in after, NEW j \in after, i < j
      PROVE  Before(dir, s[i], s[j])
  <2>1. CASE i \in before /\ j \in before
    BY <2>1, <1>1, <1>4, <1>8 DEF Mixed, MixedOrder
  <2>2. CASE i \in p .. p + c - 1 /\ j \in p .. p + c - 1
    <3>1. i - p < j - p
      BY <2>2, <1>1, <1>8
    <3> QED
      BY <3>1, <2>2, <1>1, <1>3 DEF Mixed, MixedOrder
  <2>3. CASE i \in before /\ j \in p .. p + c - 1
    <3>1. i \in 0 .. p - 1
      BY <2>3, <1>1, <1>8 DEF Outside
    <3>2. s[i] = r[i] /\ s[j] = u[j - p] /\ j - p \in 0 .. h - 1
      BY <2>3, <1>3, <1>4
    <3> QED
      BY <3>1, <3>2 DEF Mixed, MixedOrder
  <2>4. CASE i \in p .. p + c - 1 /\ j \in before
    <3>1. j \in p + h .. p + h + l - 1
      BY <2>4, <1>1, <1>8 DEF Outside
    <3>2. s[j] = r[j] /\ s[i] = u[i - p] /\ i - p \in 0 .. c - 1
      BY <2>4, <1>3, <1>4
    <3> QED
      BY <3>1, <3>2, <1>7
  <2> QED
    BY <2>1, <2>2, <2>3, <2>4, <1>5
<1>9. {s[i] : i \in after} = {r[i] : i \in before} \cup {u[j] : j \in 0 .. c - 1}
  <2>1. ASSUME NEW i \in after
        PROVE  s[i] \in {r[j] : j \in before} \cup {u[j] : j \in 0 .. c - 1}
    <3>1. CASE i \in before
      BY <3>1, <1>4
    <3>2. CASE i \in p .. p + c - 1
      BY <3>2, <1>3
    <3> QED
      BY <3>1, <3>2, <1>5
  <2>2. ASSUME NEW i \in before
        PROVE  r[i] \in {s[j] : j \in after}
    BY <1>4, <1>5
  <2>3. ASSUME NEW j \in 0 .. c - 1
        PROVE  u[j] \in {s[i] : i \in after}
    <3> DEFINE i == p + j
    <3>1. i \in p .. p + c - 1 /\ i - p = j
      BY <1>1
    <3> HIDE DEF i
    <3>2. s[i] = u[j] /\ i \in after
      BY <3>1, <1>3, <1>5
    <3> HIDE DEF s, after
    <3> QED
      BY <3>2
  <2> HIDE DEF s, before, after
  <2> QED
    BY <2>1, <2>2, <2>3
<1> QED
  BY <1>6, <1>8, <1>9, Zenon DEF FilledWell

LEMMA TakeTMixes ==
  ASSUME NEW E, Keyed(E), NEW dir, NEW all, NEW r, NEW u, NEW p, NEW h, NEW l,
         Mixed(E, dir, all, r, u, p, h, l), NEW c \in 0 .. h - 1,
         l = 0 \/ \A j \in 0 .. c - 1 : Before(dir, u[j], r[p + h])
  PROVE  Mixed(E, dir, all, Filled(r, u, p, h, l, c), LeftOver(u, h, c), p + c, h - c, l)
<1> DEFINE s == Filled(r, u, p, h, l, c)
           v == LeftOver(u, h, c)
           before == Outside(p, h, l)
           after == Outside(p + c, h - c, l)
<1>1. /\ p \in Nat /\ h \in Nat \ {0} /\ l \in Nat /\ c \in Nat /\ c < h /\ c \in 0 .. h
      /\ p + c \in Nat /\ h - c \in Nat \ {0} /\ (p + c) + (h - c) + l = p + h + l
  BY DEF Mixed, MixedType
<1>2. /\ r \in [0 .. p + h + l - 1 -> E] /\ u \in [0 .. h - 1 -> E]
      /\ \A i \in 0 .. h - 1 : u[i] \in E
  BY DEF Mixed, MixedType
<1>3. /\ s \in [0 .. p + h + l - 1 -> E]
      /\ \A i, j \in after : i < j => Before(dir, s[i], s[j])
      /\ {s[i] : i \in after} = {r[i] : i \in before} \cup {u[j] : j \in 0 .. c - 1}
  <2>1. FilledWell(E, dir, r, u, p, h, l, c)
    BY <1>1, FilledOrder
  <2> QED
    BY <2>1, Zenon DEF FilledWell
<1>4. \A j \in 0 .. h - c - 1 : v[j] = u[j + c] /\ j + c \in 0 .. h - 1
  BY <1>1 DEF LeftOver
<1>5. v \in [0 .. h - c - 1 -> E]
  BY <1>1, <1>2 DEF LeftOver
<1>6. MixedType(E, s, v, p + c, h - c, l)
  <2>1. (p + c) + (h - c) + l - 1 = p + h + l - 1
    BY <1>1
  <2> HIDE DEF s, v
  <2> QED
    BY <2>1, <1>1, <1>3, <1>5 DEF MixedType
<1>7. MixedAll(all, s, v, p + c, h - c, l)
  <2>1. all = {r[i] : i \in before} \cup {u[i] : i \in 0 .. h - 1}
    BY DEF Mixed, MixedAll
  <2>2. {u[i] : i \in 0 .. h - 1} = {u[j] : j \in 0 .. c - 1} \cup {v[j] : j \in 0 .. h - c - 1}
    <3>1. ASSUME NEW i \in 0 .. h - 1
          PROVE  u[i] \in {u[j] : j \in 0 .. c - 1} \cup {v[j] : j \in 0 .. h - c - 1}
      <4>1. CASE i < c
        BY <4>1, <1>1
      <4>2. CASE i >= c
        <5> DEFINE j == i - c
        <5>1. j \in 0 .. h - c - 1 /\ j + c = i
          BY <4>2, <1>1
        <5> HIDE DEF j
        <5> QED
          BY <5>1, <1>4
      <4> QED
        BY <4>1, <4>2, <1>1
    <3>2. 0 .. c - 1 \subseteq 0 .. h - 1
      BY <1>1
    <3> HIDE DEF v
    <3> QED
      BY <3>1, <3>2, <1>4
  <2> HIDE DEF s, v, before
  <2>3. all = {s[i] : i \in after} \cup {v[j] : j \in 0 .. h - c - 1}
    <3> HIDE DEF after
    <3> QED
      BY <2>1, <2>2, <1>3
  <2> QED
    BY <2>3, Zenon DEF MixedAll
<1>8. \A i, j \in 0 .. h - c - 1 : i < j => Before(dir, v[i], v[j])
  <2> TAKE i, j \in 0 .. h - c - 1
  <2>1. i < j => i + c < j + c
    BY <1>1
  <2> HIDE DEF v
  <2> QED
    BY <2>1, <1>4 DEF Mixed, MixedOrder
<1>9. \A i \in 0 .. p + c - 1, j \in 0 .. h - c - 1 : Before(dir, s[i], v[j])
  <2> TAKE i \in 0 .. p + c - 1, j \in 0 .. h - c - 1
  <2>1. CASE i < p
    <3>1. s[i] = r[i] /\ i \in 0 .. p - 1
      BY <2>1, <1>1 DEF Filled
    <3> HIDE DEF s, v
    <3> QED
      BY <3>1, <1>4 DEF Mixed, MixedOrder
  <2>2. CASE i >= p
    <3>1. s[i] = u[i - p] /\ i - p \in 0 .. h - 1 /\ i - p < j + c
      BY <2>2, <1>1 DEF Filled
    <3> HIDE DEF s, v
    <3> QED
      BY <3>1, <1>4 DEF Mixed, MixedOrder
  <2> QED
    BY <2>1, <2>2, <1>1
<1>10. \A i \in p + h .. p + h + l - 1 : s[i] = r[i]
  <2>1. \A i \in p + h .. p + h + l - 1 : i \in 0 .. p + h + l - 1 /\ ~(i \in p .. p + c - 1)
    BY <1>1
  <2> QED
    BY <2>1 DEF Filled
<1>11. v[h - c - 1] = u[h - 1]
  <2>1. h - c - 1 \in 0 .. h - c - 1 /\ (h - c - 1) + c = h - 1
    BY <1>1
  <2> HIDE DEF v
  <2> QED
    BY <2>1, <1>4
<1>12. /\ \A i \in p + h .. p + h + l - 1 : Before(dir, s[i], v[h - c - 1])
       /\ \A i \in p + h .. p + h + l - 1, j \in 0 .. h - c - 1 : s[i].key = v[j].key => Before(dir, v[j], s[i])
  <2> HIDE DEF s, v
  <2> QED
    BY <1>1, <1>4, <1>10, <1>11 DEF Mixed, MixedOrder
<1>13. MixedOrder(dir, s, v, p + c, h - c, l)
  <2>1. (p + c) + (h - c) = p + h
    BY <1>1
  <2>2. \A i, j \in Outside(p + c, h - c, l) : i < j => Before(dir, s[i], s[j])
    BY <1>3
  <2> HIDE DEF s, v
  <2> QED
    BY <2>1, <2>2, <1>1, <1>8, <1>9, <1>12 DEF MixedOrder
<1> QED
  BY <1>6, <1>7, <1>13, Zenon DEF Mixed

(* In the end the region has all the elements, in order. *)
Merged(dir, all, s, len) ==
  /\ all = {s[i] : i \in 0 .. len - 1}
  /\ \A i, j \in 0 .. len - 1 : i < j => Before(dir, s[i], s[j])

LEMMA LastMixes ==
  ASSUME NEW E, Keyed(E), NEW dir, NEW all, NEW r, NEW u, NEW p, NEW h,
         Mixed(E, dir, all, r, u, p, h, 0)
  PROVE  Merged(dir, all, Filled(r, u, p, h, 0, h), p + h)
<1> DEFINE s == Filled(r, u, p, h, 0, h)
<1>1. p \in Nat /\ h \in Nat \ {0} /\ h \in 0 .. h
  BY DEF Mixed, MixedType
<1>2. Outside(p + h, h - h, 0) = 0 .. p + h - 1
  BY <1>1 DEF Outside
<1>3. /\ \A i, j \in Outside(p + h, h - h, 0) : i < j => Before(dir, s[i], s[j])
      /\ {s[i] : i \in Outside(p + h, h - h, 0)} = {r[i] : i \in Outside(p, h, 0)} \cup {u[j] : j \in 0 .. h - 1}
  <2>1. FilledWell(E, dir, r, u, p, h, 0, h)
    BY <1>1, FilledOrder
  <2> QED
    BY <2>1, Zenon DEF FilledWell
<1>4. all = {r[i] : i \in Outside(p, h, 0)} \cup {u[i] : i \in 0 .. h - 1}
  BY Zenon DEF Mixed, MixedAll
<1> HIDE DEF s
<1>5. all = {s[i] : i \in 0 .. p + h - 1}
  BY <1>2, <1>3, <1>4
<1>6. \A i, j \in 0 .. p + h - 1 : i < j => Before(dir, s[i], s[j])
  BY <1>2, <1>3
<1>7. Merged(dir, all, s, p + h)
  BY <1>1, <1>5, <1>6 DEF Merged
<1> QED
  BY <1>7 DEF s

-----------------------------------------------------------------------------
(* The merge in the array. *)

MergeType ==
  [ dir : {1, -1}, step : {"race", "gallop", "gallop2", "outer"}, min_gallop : Int,
    dest : Int, cur_a : Int, len_a : Nat, cur_t : Int, len_t : Nat, count_a : Int, count_t : Int ]

(* j places on from cur. *)
Onward(dir, cur, j) == IF dir = 1 THEN cur + j ELSE cur - j

(* The region is first .. last, filled from the one end or the other. *)
Place(dir, first, last, j) == IF dir = 1 THEN first + j ELSE last - j

InPlace(m, first, last) == (last - first + 1) - m.len_t - m.len_a

(* n is the length of the array and k the number of elements copied. *)
Located(m, n, k, first, last) ==
  /\ first \in Nat /\ last \in Nat /\ first <= last /\ last < n
  /\ InPlace(m, first, last) \in Nat
  /\ m.dest = Place(m.dir, first, last, InPlace(m, first, last))
  /\ m.cur_a = Place(m.dir, first, last, InPlace(m, first, last) + m.len_t)
  /\ k \in Nat /\ m.len_t <= k
  /\ m.cur_t = IF m.dir = 1 THEN k - m.len_t ELSE m.len_t - 1

Region(a, dir, first, last) == [j \in 0 .. last - first |-> a[Place(dir, first, last, j)]]

Waiting(t, m) == [j \in 0 .. m.len_t - 1 |-> t[Onward(m.dir, m.cur_t, j)]]

(* z is the array as it was when the merge began. *)
Merges(E, n, s, t, k, z, first, last) ==
  /\ z \in ArrayOn(n, E) /\ s.a \in ArrayOn(n, E) /\ s.m \in MergeType /\ t \in [0 .. k - 1 -> E]
  /\ Located(s.m, n, k, first, last)
  /\ \A i \in (0 .. n - 1) \ (first .. last) : s.a[i] = z[i]
  /\ Mixed(E, s.m.dir, {z[i] : i \in first .. last}, Region(s.a, s.m.dir, first, last),
           Waiting(t, s.m), InPlace(s.m, first, last), s.m.len_t, s.m.len_a)

(* The inner loops are left as soon as the merge ends. *)
StepOK(m) == m.step = "outer" <=> m.len_a = 0 \/ m.len_t <= 1

(* The parts of that. *)
MergeParts(E, n, s, k, first, last) ==
  /\ s.m.dir \in {1, -1} /\ s.m.dest \in Int /\ s.m.cur_a \in Int /\ s.m.cur_t \in Int
  /\ s.m.len_a \in Nat /\ s.m.len_t \in Nat \ {0}
  /\ first \in Nat /\ last \in Nat /\ first <= last /\ last < n /\ k \in Nat
  /\ InPlace(s.m, first, last) \in Nat
  /\ InPlace(s.m, first, last) + s.m.len_t + s.m.len_a = last - first + 1
  /\ \A i \in 0 .. n - 1 : s.a[i] \in E
  /\ DOMAIN s.a = 0 .. n - 1

LEMMA MergesParts ==
  ASSUME NEW n \in Nat, NEW E, NEW s, NEW t, NEW k, NEW z, NEW first, NEW last,
         Merges(E, n, s, t, k, z, first, last)
  PROVE  MergeParts(E, n, s, k, first, last)
<1>1. s.m \in MergeType /\ s.a \in ArrayOn(n, E) /\ Located(s.m, n, k, first, last)
  BY DEF Merges
<1>2. /\ s.m.dir \in {1, -1} /\ s.m.dest \in Int /\ s.m.cur_a \in Int /\ s.m.cur_t \in Int
      /\ s.m.len_a \in Nat /\ s.m.len_t \in Nat
  BY <1>1 DEF MergeType
<1>3. s.m.len_t \in Nat \ {0}
  BY DEF Merges, Mixed, MixedType
<1>4. /\ first \in Nat /\ last \in Nat /\ first <= last /\ last < n /\ k \in Nat
      /\ InPlace(s.m, first, last) \in Nat
  BY <1>1 DEF Located
<1>5. InPlace(s.m, first, last) + s.m.len_t + s.m.len_a = last - first + 1
  BY <1>2, <1>4 DEF InPlace
<1>6. (\A i \in 0 .. n - 1 : s.a[i] \in E) /\ DOMAIN s.a = 0 .. n - 1
  BY <1>1 DEF ArrayOn
<1> QED
  BY <1>2, <1>3, <1>4, <1>5, <1>6, Zenon DEF MergeParts

LEMMA Onwards ==
  ASSUME NEW dir \in {1, -1}, NEW cur \in Int, NEW j \in Int
  PROVE  cur + dir * j = Onward(dir, cur, j) /\ Onward(dir, cur, j) \in Int
<1>1. CASE dir = 1
  BY <1>1 DEF Onward
<1>2. CASE dir = -1
  <2>1. (-1) * j = -j
    OBVIOUS
  <2>2. dir * j = -j
    BY <1>2, <2>1
  <2> QED
    BY <1>2, <2>2 DEF Onward
<1> QED
  BY <1>1, <1>2

(* What Moved does, in the region and around it. *)
MovedPart(E, n, a, b, dir, src, cur, first, last, p, c) ==
  /\ b \in ArrayOn(n, E)
  /\ \A i \in (0 .. n - 1) \ (first .. last) : b[i] = a[i]
  /\ \A j \in 0 .. last - first : Region(b, dir, first, last)[j] =
       IF j \in p .. p + c - 1 THEN src[Onward(dir, cur, j - p)] ELSE Region(a, dir, first, last)[j]

LEMMA MovedInRegion ==
  ASSUME NEW n \in Nat, NEW E, NEW a \in ArrayOn(n, E), NEW m, NEW src, NEW cur \in Int,
         m.dir \in {1, -1}, NEW first \in Nat, NEW last \in Nat, first <= last, last < n,
         NEW p \in Nat, NEW c \in Nat, p + c <= last - first + 1,
         m.dest = Place(m.dir, first, last, p),
         \A j \in 0 .. c - 1 : src[Onward(m.dir, cur, j)] \in E
  PROVE  MovedPart(E, n, a, Moved(a, m, src, cur, c), m.dir, src, cur, first, last, p, c)
<1> DEFINE b == Moved(a, m, src, cur, c)
           K(i) == m.dir * (i - m.dest)
           J(i) == IF m.dir = 1 THEN i - first ELSE last - i
<1>1. DOMAIN a = 0 .. n - 1 /\ \A i \in 0 .. n - 1 : a[i] \in E
  BY DEF ArrayOn
<1>2. \A i \in Int : K(i) = J(i) - p /\ J(i) \in Int
  <2> TAKE i \in Int
  <2>1. CASE m.dir = 1
    BY <2>1 DEF Place
  <2>2. CASE m.dir = -1
    <3>1. m.dest = last - p
      BY <2>2 DEF Place
    <3>2. (-1) * (i - (last - p)) = (last - i) - p
      OBVIOUS
    <3> QED
      BY <2>2, <3>1, <3>2
  <2> QED
    BY <2>1, <2>2
<1>3. \A q \in Int : m.dir * q \in Int /\ cur + m.dir * q = Onward(m.dir, cur, q)
  <2> TAKE q \in Int
  <2>1. cur + m.dir * q = Onward(m.dir, cur, q)
    BY Onwards
  <2> QED
    BY <2>1
<1>4. b = [i \in 0 .. n - 1 |-> IF K(i) \in 0 .. c - 1 THEN src[cur + m.dir * K(i)] ELSE a[i]]
  BY <1>1 DEF Moved
<1> HIDE DEF K, J, b
<1>5. \A i \in 0 .. n - 1 : b[i] = IF J(i) \in p .. p + c - 1 THEN src[Onward(m.dir, cur, J(i) - p)] ELSE a[i]
  <2> TAKE i \in 0 .. n - 1
  <2>1. K(i) = J(i) - p /\ J(i) \in Int
    BY <1>2
  <2>2. K(i) \in 0 .. c - 1 <=> J(i) \in p .. p + c - 1
    BY <2>1
  <2>3. cur + m.dir * K(i) = Onward(m.dir, cur, J(i) - p)
    BY <2>1, <1>3
  <2>4. b[i] = IF K(i) \in 0 .. c - 1 THEN src[cur + m.dir * K(i)] ELSE a[i]
    BY <1>4
  <2> QED
    BY <2>2, <2>3, <2>4
<1>6. \A i \in 0 .. n - 1 : J(i) \in p .. p + c - 1 => J(i) - p \in 0 .. c - 1
  BY <1>2
<1>7. \A i \in 0 .. n - 1 : b[i] \in E
  BY <1>1, <1>5, <1>6
<1>8. b \in ArrayOn(n, E)
  <2>1. b = [i \in 0 .. n - 1 |-> b[i]]
    BY <1>4
  <2> QED
    BY <2>1, <1>7 DEF ArrayOn
<1>9. \A i \in (0 .. n - 1) \ (first .. last) : b[i] = a[i]
  <2>1. \A i \in (0 .. n - 1) \ (first .. last) : J(i) \notin p .. p + c - 1
    BY DEF J
  <2> QED
    BY <2>1, <1>5
<1>10. \A j \in 0 .. last - first : Place(m.dir, first, last, j) \in 0 .. n - 1 /\ J(Place(m.dir, first, last, j)) = j
  BY DEF J, Place
<1>11. ASSUME NEW j \in 0 .. last - first
       PROVE  Region(b, m.dir, first, last)[j] =
                IF j \in p .. p + c - 1 THEN src[Onward(m.dir, cur, j - p)] ELSE Region(a, m.dir, first, last)[j]
  <2> DEFINE i == Place(m.dir, first, last, j)
  <2>1. i \in 0 .. n - 1 /\ J(i) = j
    BY <1>10
  <2>2. Region(b, m.dir, first, last)[j] = b[i] /\ Region(a, m.dir, first, last)[j] = a[i]
    BY DEF Region
  <2> HIDE DEF i
  <2>3. b[i] = IF j \in p .. p + c - 1 THEN src[Onward(m.dir, cur, j - p)] ELSE a[i]
    BY <2>1, <1>5
  <2> QED
    BY <2>2, <2>3
<1> QED
  BY <1>8, <1>9, <1>11, Zenon DEF b, MovedPart

-----------------------------------------------------------------------------
(* One of the runs is put in place. *)

Ahead(s, j) == s.a[Onward(s.m.dir, s.m.cur_a, j)]

LEMMA TakeAFields ==
  ASSUME NEW s, s.m \in MergeType, NEW c \in 0 .. s.m.len_a
  PROVE  LET m == TakeA(s, c).m
         IN  /\ m \in MergeType
             /\ m.dir = s.m.dir /\ m.step = s.m.step /\ m.len_t = s.m.len_t /\ m.cur_t = s.m.cur_t
             /\ m.dest = Onward(s.m.dir, s.m.dest, c) /\ m.cur_a = Onward(s.m.dir, s.m.cur_a, c)
             /\ m.len_a = s.m.len_a - c
             /\ m.count_a = s.m.count_a /\ m.count_t = s.m.count_t /\ m.min_gallop = s.m.min_gallop
             /\ TakeA(s, c).a = Moved(s.a, s.m, s.a, s.m.cur_a, c)
<1> DEFINE o == s.m
           dest == o.dest + o.dir * c
           cur == o.cur_a + o.dir * c
           len == o.len_a - c
           m == [o EXCEPT !.dest = dest, !.cur_a = cur, !.len_a = len]
<1>0. c \in Int
  OBVIOUS
<1>1. o \in MergeType /\ o.dir \in {1, -1} /\ o.dest \in Int /\ o.cur_a \in Int /\ o.len_a \in Nat
  BY DEF MergeType
<1>2. /\ dest = Onward(o.dir, o.dest, c) /\ dest \in Int
      /\ cur = Onward(o.dir, o.cur_a, c) /\ cur \in Int
  <2> HIDE DEF o
  <2>1. \A cur0 \in Int : cur0 + o.dir * c = Onward(o.dir, cur0, c) /\ Onward(o.dir, cur0, c) \in Int
    BY <1>0, <1>1, Onwards
  <2> QED
    BY <2>1, <1>1
<1>3. len \in Nat
  BY <1>1
<1>4. TakeA(s, c).m = m /\ TakeA(s, c).a = Moved(s.a, s.m, s.a, s.m.cur_a, c)
  BY DEF TakeA
<1> HIDE DEF o, dest, cur, len
<1>5. /\ m \in MergeType
      /\ m.dir = o.dir /\ m.step = o.step /\ m.len_t = o.len_t /\ m.cur_t = o.cur_t
      /\ m.dest = dest /\ m.cur_a = cur /\ m.len_a = len
      /\ m.count_a = o.count_a /\ m.count_t = o.count_t /\ m.min_gallop = o.min_gallop
  BY <1>1, <1>2, <1>3 DEF MergeType
<1> HIDE DEF m
<1> QED
  BY <1>2, <1>4, <1>5 DEF o, len

LEMMA TakeTFields ==
  ASSUME NEW s, s.m \in MergeType, NEW c \in 0 .. s.m.len_t
  PROVE  LET m == TakeT(s, c).m
         IN  /\ m \in MergeType
             /\ m.dir = s.m.dir /\ m.step = s.m.step /\ m.len_a = s.m.len_a /\ m.cur_a = s.m.cur_a
             /\ m.dest = Onward(s.m.dir, s.m.dest, c) /\ m.cur_t = Onward(s.m.dir, s.m.cur_t, c)
             /\ m.len_t = s.m.len_t - c
             /\ m.count_a = s.m.count_a /\ m.count_t = s.m.count_t /\ m.min_gallop = s.m.min_gallop
             /\ TakeT(s, c).a = Moved(s.a, s.m, tmp, s.m.cur_t, c)
<1> DEFINE o == s.m
           dest == o.dest + o.dir * c
           cur == o.cur_t + o.dir * c
           len == o.len_t - c
           m == [o EXCEPT !.dest = dest, !.cur_t = cur, !.len_t = len]
<1>0. c \in Int
  OBVIOUS
<1>1. o \in MergeType /\ o.dir \in {1, -1} /\ o.dest \in Int /\ o.cur_t \in Int /\ o.len_t \in Nat
  BY DEF MergeType
<1>2. /\ dest = Onward(o.dir, o.dest, c) /\ dest \in Int
      /\ cur = Onward(o.dir, o.cur_t, c) /\ cur \in Int
  <2> HIDE DEF o
  <2>1. \A cur0 \in Int : cur0 + o.dir * c = Onward(o.dir, cur0, c) /\ Onward(o.dir, cur0, c) \in Int
    BY <1>0, <1>1, Onwards
  <2> QED
    BY <2>1, <1>1
<1>3. len \in Nat
  BY <1>1
<1>4. TakeT(s, c).m = m /\ TakeT(s, c).a = Moved(s.a, s.m, tmp, s.m.cur_t, c)
  BY DEF TakeT
<1> HIDE DEF o, dest, cur, len
<1>5. /\ m \in MergeType
      /\ m.dir = o.dir /\ m.step = o.step /\ m.len_a = o.len_a /\ m.cur_a = o.cur_a
      /\ m.dest = dest /\ m.cur_t = cur /\ m.len_t = len
      /\ m.count_a = o.count_a /\ m.count_t = o.count_t /\ m.min_gallop = o.min_gallop
  BY <1>1, <1>2, <1>3 DEF MergeType
<1> HIDE DEF m
<1> QED
  BY <1>2, <1>4, <1>5 DEF o, len

(* The next element of the array's run is the one behind the hole. *)
LEMMA AheadInRegion ==
  ASSUME NEW n \in Nat, NEW E, NEW s, NEW t, NEW k, NEW z, NEW first, NEW last,
         Merges(E, n, s, t, k, z, first, last), NEW j \in 0 .. s.m.len_a - 1
  PROVE  /\ Ahead(s, j) \in E
         /\ InPlace(s.m, first, last) + s.m.len_t + j \in 0 .. last - first
         /\ Ahead(s, j) = Region(s.a, s.m.dir, first, last)[InPlace(s.m, first, last) + s.m.len_t + j]
<1> DEFINE p == InPlace(s.m, first, last)
           h == s.m.len_t
           l == s.m.len_a
           dir == s.m.dir
<1>1. /\ dir \in {1, -1} /\ h \in Nat \ {0} /\ l \in Nat /\ p \in Nat
      /\ first \in Nat /\ last \in Nat /\ first <= last /\ last < n
      /\ p + h + l = last - first + 1 /\ \A i \in 0 .. n - 1 : s.a[i] \in E
  <2>1. MergeParts(E, n, s, k, first, last)
    BY MergesParts
  <2> QED
    BY <2>1, Zenon DEF MergeParts
<1>2. s.m.cur_a = Place(dir, first, last, p + h)
  BY DEF Merges, Located
<1> HIDE DEF p, h, l, dir
<1>3. j \in 0 .. l - 1
  BY DEF l
<1>4. p + h + j \in 0 .. last - first
  BY <1>1, <1>3
<1>5. /\ Onward(dir, Place(dir, first, last, p + h), j) = Place(dir, first, last, p + h + j)
      /\ Place(dir, first, last, p + h + j) \in 0 .. n - 1
  BY <1>1, <1>3 DEF Onward, Place
<1>6. Ahead(s, j) = s.a[Place(dir, first, last, p + h + j)]
  BY <1>2, <1>5 DEF Ahead, dir
<1>7. Region(s.a, dir, first, last)[p + h + j] = s.a[Place(dir, first, last, p + h + j)]
  BY <1>4 DEF Region
<1> QED
  BY <1>1, <1>4, <1>5, <1>6, <1>7 DEF p, h, dir

LEMMA TakeAMerges ==
  ASSUME NEW n \in Nat, NEW E, Keyed(E), NEW s, NEW t, NEW k, NEW z, NEW first, NEW last,
         Merges(E, n, s, t, k, z, first, last), NEW c \in 0 .. s.m.len_a,
         \A j \in 0 .. c - 1 : Before(s.m.dir, Ahead(s, j), t[s.m.cur_t])
  PROVE  Merges(E, n, TakeA(s, c), t, k, z, first, last)
<1> DEFINE p == InPlace(s.m, first, last)
           h == s.m.len_t
           l == s.m.len_a
           dir == s.m.dir
           all == {z[i] : i \in first .. last}
           r == Region(s.a, dir, first, last)
           u == Waiting(t, s.m)
           b == TakeA(s, c).a
           m == TakeA(s, c).m
<1>1. /\ dir \in {1, -1} /\ h \in Nat \ {0} /\ l \in Nat /\ p \in Nat
      /\ first \in Nat /\ last \in Nat /\ first <= last /\ last < n
      /\ p + h + l = last - first + 1 /\ \A i \in 0 .. n - 1 : s.a[i] \in E
      /\ s.m.cur_a \in Int /\ s.m.cur_t \in Int
  <2>1. MergeParts(E, n, s, k, first, last)
    BY MergesParts
  <2> QED
    BY <2>1, Zenon DEF MergeParts
<1>2. /\ z \in ArrayOn(n, E) /\ s.a \in ArrayOn(n, E) /\ s.m \in MergeType /\ t \in [0 .. k - 1 -> E]
      /\ Located(s.m, n, k, first, last)
      /\ \A i \in (0 .. n - 1) \ (first .. last) : s.a[i] = z[i]
      /\ Mixed(E, dir, all, r, u, p, h, l)
  BY DEF Merges
<1>3. /\ s.m.dest = Place(dir, first, last, p) /\ s.m.cur_a = Place(dir, first, last, p + h)
      /\ k \in Nat /\ h <= k /\ s.m.cur_t = IF dir = 1 THEN k - h ELSE h - 1
  BY <1>2 DEF Located
<1>4. /\ m \in MergeType
      /\ m.dir = dir /\ m.len_t = h /\ m.cur_t = s.m.cur_t
      /\ m.dest = Onward(dir, s.m.dest, c) /\ m.cur_a = Onward(dir, s.m.cur_a, c)
      /\ m.len_a = l - c
      /\ b = Moved(s.a, s.m, s.a, s.m.cur_a, c)
  BY <1>2, TakeAFields
<1>5. c \in 0 .. l /\ c \in Nat /\ p + c \in Nat /\ l - c \in Nat
  BY <1>1
<1>6. \A j \in 0 .. l - 1 :
        /\ s.a[Onward(dir, s.m.cur_a, j)] \in E
        /\ p + h + j \in 0 .. last - first
        /\ s.a[Onward(dir, s.m.cur_a, j)] = r[p + h + j]
  BY AheadInRegion DEF Ahead
<1>7. u[0] = t[s.m.cur_t]
  <2>1. 0 \in 0 .. h - 1 /\ Onward(dir, s.m.cur_t, 0) = s.m.cur_t
    BY <1>1 DEF Onward
  <2> QED
    BY <2>1 DEF Waiting
<1>8. \A j \in 0 .. c - 1 : Before(dir, s.a[Onward(dir, s.m.cur_a, j)], u[0])
  BY <1>7 DEF Ahead
<1> HIDE DEF p, h, l, dir, all, r, u, b, m
<1>9. \A i \in p + h .. p + h + c - 1 : Before(dir, r[i], u[0])
  <2> TAKE i \in p + h .. p + h + c - 1
  <2>1. i - (p + h) \in 0 .. c - 1 /\ i - (p + h) \in 0 .. l - 1 /\ p + h + (i - (p + h)) = i
    BY <1>1, <1>5
  <2> QED
    BY <2>1, <1>6, <1>8
<1>10. Mixed(E, dir, all, MovedUp(r, p, h, l, c), u, p + c, h, l - c)
  BY <1>2, <1>5, <1>9, TakeAMixes
<1>11. /\ b \in ArrayOn(n, E)
       /\ \A i \in (0 .. n - 1) \ (first .. last) : b[i] = s.a[i]
       /\ \A j \in 0 .. last - first : Region(b, dir, first, last)[j] =
            IF j \in p .. p + c - 1 THEN s.a[Onward(dir, s.m.cur_a, j - p)] ELSE r[j]
  <2>1. \A j \in 0 .. c - 1 : s.a[Onward(s.m.dir, s.m.cur_a, j)] \in E
    BY <1>1, <1>5, <1>6 DEF dir
  <2>2. p + c <= last - first + 1
    BY <1>1, <1>5
  <2>3. s.m.dir \in {1, -1} /\ s.m.dest = Place(s.m.dir, first, last, p)
    BY <1>1, <1>3 DEF dir
  <2> QED
    <3> DEFINE o == s.m
               cur == o.cur_a
    <3>1. /\ s.a \in ArrayOn(n, E) /\ cur \in Int /\ o.dir \in {1, -1} /\ p \in Nat /\ c \in Nat
          /\ first \in Nat /\ last \in Nat /\ first <= last /\ last < n
          /\ o.dest = Place(o.dir, first, last, p)
          /\ \A j \in 0 .. c - 1 : s.a[Onward(o.dir, cur, j)] \in E
      BY <2>1, <2>3, <1>1, <1>2, <1>5
    <3>2. b = Moved(s.a, o, s.a, cur, c) /\ r = Region(s.a, o.dir, first, last) /\ dir = o.dir
      BY <1>4 DEF r, dir
    <3> HIDE DEF o, cur
    <3>3. MovedPart(E, n, s.a, Moved(s.a, o, s.a, cur, c), o.dir, s.a, cur, first, last, p, c)
      BY <2>2, <3>1, MovedInRegion
    <3>4. MovedPart(E, n, s.a, b, dir, s.a, cur, first, last, p, c)
      BY <3>2, <3>3
    <3> QED
      BY <3>2, <3>4 DEF MovedPart, cur, o
<1>12. Region(b, dir, first, last) = MovedUp(r, p, h, l, c)
  <2>1. \A j \in p .. p + c - 1 : /\ j - p \in 0 .. l - 1 /\ p + h + (j - p) = j + h
                                  /\ j \in 0 .. last - first
    BY <1>1, <1>5
  <2>2. \A j \in p .. p + c - 1 : s.a[Onward(dir, s.m.cur_a, j - p)] = r[j + h]
    BY <2>1, <1>6
  <2>3. Region(b, dir, first, last) = [j \in 0 .. last - first |-> Region(b, dir, first, last)[j]]
    BY DEF Region
  <2>4. p + h + l - 1 = last - first
    BY <1>1
  <2>5. MovedUp(r, p, h, l, c) = [j \in 0 .. last - first |-> IF j \in p .. p + c - 1 THEN r[j + h] ELSE r[j]]
    BY <2>4 DEF MovedUp
  <2>6. \A j \in 0 .. last - first :
          Region(b, dir, first, last)[j] = IF j \in p .. p + c - 1 THEN r[j + h] ELSE r[j]
    BY <2>2, <1>11
  <2> QED
    BY <2>3, <2>5, <2>6
<1>13. InPlace(m, first, last) = p + c
  BY <1>1, <1>4, <1>5 DEF InPlace, p, h, l
<1>14. Located(m, n, k, first, last)
  <2>1. /\ Onward(dir, Place(dir, first, last, p), c) = Place(dir, first, last, p + c)
        /\ Onward(dir, Place(dir, first, last, p + h), c) = Place(dir, first, last, p + c + h)
    BY <1>1, <1>5 DEF Onward, Place
  <2> QED
    BY <2>1, <1>1, <1>3, <1>4, <1>5, <1>13 DEF Located
<1>15. Waiting(t, m) = u
  BY <1>4 DEF Waiting, u, h, dir
<1>16. Mixed(E, m.dir, all, Region(b, m.dir, first, last), Waiting(t, m), InPlace(m, first, last), m.len_t, m.len_a)
  BY <1>4, <1>10, <1>12, <1>13, <1>15
<1>17. \A i \in (0 .. n - 1) \ (first .. last) : b[i] = z[i]
  BY <1>2, <1>11
<1> QED
  BY <1>2, <1>4, <1>11, <1>14, <1>16, <1>17, Zenon DEF Merges, b, m, all

-----------------------------------------------------------------------------
(* What has been copied is put in place. *)

LEMMA TakeTFills ==
  ASSUME NEW n \in Nat, NEW E, NEW s, NEW k, NEW z, NEW first, NEW last,
         Merges(E, n, s, tmp, k, z, first, last), NEW c \in 0 .. s.m.len_t
  PROVE  /\ TakeT(s, c).a \in ArrayOn(n, E)
         /\ \A i \in (0 .. n - 1) \ (first .. last) : TakeT(s, c).a[i] = z[i]
         /\ Region(TakeT(s, c).a, s.m.dir, first, last) =
              Filled(Region(s.a, s.m.dir, first, last), Waiting(tmp, s.m), InPlace(s.m, first, last),
                     s.m.len_t, s.m.len_a, c)
<1> DEFINE o == s.m
           p == InPlace(o, first, last)
           h == o.len_t
           l == o.len_a
           cur == o.cur_t
           dir == o.dir
           r == Region(s.a, dir, first, last)
           u == Waiting(tmp, o)
           b == TakeT(s, c).a
<1>1. /\ dir \in {1, -1} /\ h \in Nat \ {0} /\ l \in Nat /\ p \in Nat
      /\ first \in Nat /\ last \in Nat /\ first <= last /\ last < n
      /\ p + h + l = last - first + 1 /\ cur \in Int
  <2>1. MergeParts(E, n, s, k, first, last)
    BY MergesParts
  <2> QED
    BY <2>1, Zenon DEF MergeParts
<1>2. /\ s.a \in ArrayOn(n, E) /\ o \in MergeType /\ tmp \in [0 .. k - 1 -> E]
      /\ Located(o, n, k, first, last)
      /\ \A i \in (0 .. n - 1) \ (first .. last) : s.a[i] = z[i]
  BY DEF Merges
<1>3. /\ o.dest = Place(dir, first, last, p)
      /\ k \in Nat /\ h <= k /\ cur = IF dir = 1 THEN k - h ELSE h - 1
  BY <1>2 DEF Located
<1>4. b = Moved(s.a, o, tmp, cur, c)
  BY <1>2, TakeTFields
<1>5. u = [j \in 0 .. h - 1 |-> tmp[Onward(dir, cur, j)]]
  BY DEF Waiting
<1>6. c \in 0 .. h /\ c \in Nat
  BY <1>1
<1>7. r = Region(s.a, o.dir, first, last) /\ dir = o.dir
  OBVIOUS
<1> HIDE DEF p, h, l, cur, r, u, b
<1>8. \A j \in 0 .. h - 1 : tmp[Onward(dir, cur, j)] \in E
  <2>1. \A j \in 0 .. h - 1 : Onward(dir, cur, j) \in 0 .. k - 1
    <3> HIDE DEF dir
    <3> QED
      BY <1>1, <1>3 DEF Onward
  <2> QED
    BY <2>1, <1>2
<1>9. MovedPart(E, n, s.a, b, dir, tmp, cur, first, last, p, c)
  <2>1. \A j \in 0 .. c - 1 : tmp[Onward(dir, cur, j)] \in E
    BY <1>1, <1>6, <1>8
  <2>2. p + c <= last - first + 1
    BY <1>1, <1>6
  <2> HIDE DEF o
  <2>3. /\ cur \in Int /\ o.dir \in {1, -1} /\ p \in Nat /\ c \in Nat
        /\ first \in Nat /\ last \in Nat /\ first <= last /\ last < n
        /\ o.dest = Place(o.dir, first, last, p)
        /\ \A j \in 0 .. c - 1 : tmp[Onward(o.dir, cur, j)] \in E
    BY <2>1, <1>1, <1>3, <1>6
  <2>4. MovedPart(E, n, s.a, Moved(s.a, o, tmp, cur, c), o.dir, tmp, cur, first, last, p, c)
    BY <2>2, <2>3, <1>2, MovedInRegion
  <2> QED
    BY <2>4, <1>4
<1>10. /\ b \in ArrayOn(n, E)
       /\ \A i \in (0 .. n - 1) \ (first .. last) : b[i] = s.a[i]
       /\ \A j \in 0 .. last - first : Region(b, dir, first, last)[j] =
            IF j \in p .. p + c - 1 THEN tmp[Onward(dir, cur, j - p)] ELSE r[j]
  BY <1>7, <1>9 DEF MovedPart
<1> HIDE DEF o, dir
<1>11. Region(b, dir, first, last) = Filled(r, u, p, h, l, c)
  <2>1. \A j \in p .. p + c - 1 : j - p \in 0 .. h - 1
    BY <1>1, <1>6
  <2>2. \A j \in p .. p + c - 1 : tmp[Onward(dir, cur, j - p)] = u[j - p]
    BY <2>1, <1>5
  <2>3. Region(b, dir, first, last) = [j \in 0 .. last - first |-> Region(b, dir, first, last)[j]]
    BY DEF Region
  <2>4. p + h + l - 1 = last - first
    BY <1>1
  <2>5. Filled(r, u, p, h, l, c) = [j \in 0 .. last - first |-> IF j \in p .. p + c - 1 THEN u[j - p] ELSE r[j]]
    BY <2>4 DEF Filled
  <2>6. \A j \in 0 .. last - first :
          Region(b, dir, first, last)[j] = IF j \in p .. p + c - 1 THEN u[j - p] ELSE r[j]
    BY <2>2, <1>10
  <2> QED
    BY <2>3, <2>5, <2>6
<1>12. \A i \in (0 .. n - 1) \ (first .. last) : b[i] = z[i]
  BY <1>2, <1>10
<1> QED
  BY <1>10, <1>11, <1>12 DEF b, r, u, p, h, l, o, dir

LEMMA TakeTMerges ==
  ASSUME NEW n \in Nat, NEW E, Keyed(E), NEW s, NEW k, NEW z, NEW first, NEW last,
         Merges(E, n, s, tmp, k, z, first, last), NEW c \in 0 .. s.m.len_t - 1,
         \/ s.m.len_a = 0
         \/ \A j \in 0 .. c - 1 : Before(s.m.dir, tmp[Onward(s.m.dir, s.m.cur_t, j)], Ahead(s, 0))
  PROVE  Merges(E, n, TakeT(s, c), tmp, k, z, first, last)
<1> DEFINE p == InPlace(s.m, first, last)
           h == s.m.len_t
           l == s.m.len_a
           dir == s.m.dir
           cur == s.m.cur_t
           all == {z[i] : i \in first .. last}
           r == Region(s.a, dir, first, last)
           u == Waiting(tmp, s.m)
           b == TakeT(s, c).a
           m == TakeT(s, c).m
<1>1. /\ dir \in {1, -1} /\ h \in Nat \ {0} /\ l \in Nat /\ p \in Nat
      /\ first \in Nat /\ last \in Nat /\ first <= last /\ last < n
      /\ p + h + l = last - first + 1 /\ s.m.cur_a \in Int /\ cur \in Int
  <2>1. MergeParts(E, n, s, k, first, last)
    BY MergesParts
  <2> QED
    BY <2>1, Zenon DEF MergeParts
<1>2. /\ z \in ArrayOn(n, E) /\ s.a \in ArrayOn(n, E) /\ s.m \in MergeType /\ tmp \in [0 .. k - 1 -> E]
      /\ Located(s.m, n, k, first, last)
      /\ Mixed(E, dir, all, r, u, p, h, l)
  BY DEF Merges
<1>3. /\ s.m.dest = Place(dir, first, last, p) /\ s.m.cur_a = Place(dir, first, last, p + h)
      /\ k \in Nat /\ h <= k /\ cur = IF dir = 1 THEN k - h ELSE h - 1
  BY <1>2 DEF Located
<1>4. c \in 0 .. h /\ c \in 0 .. h - 1 /\ c \in Nat
  BY <1>1
<1>5. /\ m \in MergeType
      /\ m.dir = dir /\ m.len_a = l /\ m.cur_a = s.m.cur_a
      /\ m.dest = Onward(dir, s.m.dest, c) /\ m.cur_t = Onward(dir, cur, c)
      /\ m.len_t = h - c
  BY <1>2, <1>4, TakeTFields
<1>6. /\ b \in ArrayOn(n, E)
      /\ \A i \in (0 .. n - 1) \ (first .. last) : b[i] = z[i]
      /\ Region(b, dir, first, last) = Filled(r, u, p, h, l, c)
  BY <1>4, TakeTFills
<1>7. \A j \in 0 .. h - 1 : u[j] = tmp[Onward(dir, cur, j)]
  BY DEF Waiting
<1>8. l = 0 \/ \A j \in 0 .. c - 1 : Before(dir, u[j], r[p + h])
  <2> SUFFICES ASSUME l # 0, NEW j \in 0 .. c - 1
               PROVE  Before(dir, u[j], r[p + h])
    OBVIOUS
  <2>1. 0 \in 0 .. l - 1 /\ j \in 0 .. h - 1 /\ p + h + 0 = p + h
    BY <1>1, <1>4
  <2>2. Ahead(s, 0) = r[p + h + 0]
    BY <2>1, AheadInRegion
  <2>3. Before(dir, tmp[Onward(dir, cur, j)], Ahead(s, 0))
    OBVIOUS
  <2> QED
    BY <2>1, <2>2, <2>3, <1>7
<1> HIDE DEF p, h, l, dir, cur, all, r, u, b, m
<1>9. Mixed(E, dir, all, Filled(r, u, p, h, l, c), LeftOver(u, h, c), p + c, h - c, l)
  BY <1>2, <1>4, <1>8, TakeTMixes
<1>10. InPlace(m, first, last) = p + c
  <2>1. p = (last - first + 1) - h - l
    BY DEF p, InPlace, h, l
  <2> QED
    BY <2>1, <1>1, <1>4, <1>5 DEF InPlace
<1>11. Located(m, n, k, first, last)
  <2>1. /\ Onward(dir, Place(dir, first, last, p), c) = Place(dir, first, last, p + c)
        /\ p + c + (h - c) = p + h
        /\ Onward(dir, cur, c) = IF dir = 1 THEN k - (h - c) ELSE (h - c) - 1
        /\ p + c \in Nat /\ h - c <= k
    BY <1>1, <1>3, <1>4 DEF Onward, Place
  <2> QED
    BY <2>1, <1>1, <1>3, <1>5, <1>10 DEF Located
<1>12. Waiting(tmp, m) = LeftOver(u, h, c)
  <2>1. Waiting(tmp, m) = [j \in 0 .. h - c - 1 |-> tmp[Onward(dir, Onward(dir, cur, c), j)]]
    BY <1>5 DEF Waiting
  <2>2. \A j \in 0 .. h - c - 1 : /\ Onward(dir, Onward(dir, cur, c), j) = Onward(dir, cur, j + c)
                                  /\ j + c \in 0 .. h - 1
    BY <1>1, <1>4 DEF Onward
  <2>3. \A j \in 0 .. h - c - 1 : tmp[Onward(dir, Onward(dir, cur, c), j)] = u[j + c]
    BY <2>2, <1>7
  <2> QED
    BY <2>1, <2>3 DEF LeftOver
<1>13. Mixed(E, m.dir, all, Region(b, m.dir, first, last), Waiting(tmp, m), InPlace(m, first, last), m.len_t, m.len_a)
  BY <1>5, <1>6, <1>9, <1>10, <1>12
<1> QED
  BY <1>2, <1>5, <1>6, <1>11, <1>13, Zenon DEF Merges, b, m, all

(* With nothing left of the array's run, what has been copied fills the    *)
(* hole, and the region is in order.                                       *)
LEMMA LastMerges ==
  ASSUME NEW n \in Nat, NEW E, Keyed(E), NEW s, NEW k, NEW z, NEW first, NEW last,
         Merges(E, n, s, tmp, k, z, first, last), s.m.len_a = 0
  PROVE  LET b == TakeT(s, s.m.len_t).a
         IN  b \in ArrayOn(n, E) /\ Rearranged(z, b, first, last) /\ Ordered(b, first, last)
<1> DEFINE p == InPlace(s.m, first, last)
           h == s.m.len_t
           dir == s.m.dir
           all == {z[i] : i \in first .. last}
           r == Region(s.a, dir, first, last)
           u == Waiting(tmp, s.m)
           b == TakeT(s, h).a
           q == Filled(r, u, p, h, 0, h)
<1>1. /\ dir \in {1, -1} /\ h \in Nat \ {0} /\ p \in Nat
      /\ first \in Nat /\ last \in Nat /\ first <= last /\ last < n
      /\ p + h + s.m.len_a = last - first + 1
  <2>1. MergeParts(E, n, s, k, first, last)
    BY MergesParts
  <2> QED
    BY <2>1, Zenon DEF MergeParts
<1>2. h \in 0 .. h /\ p + h - 1 = last - first
  BY <1>1
<1>3. /\ b \in ArrayOn(n, E)
      /\ \A i \in (0 .. n - 1) \ (first .. last) : b[i] = z[i]
      /\ Region(b, dir, first, last) = q
  BY <1>2, TakeTFills
<1>4. Mixed(E, dir, all, r, u, p, h, 0) /\ z \in ArrayOn(n, E)
  BY DEF Merges
<1> HIDE DEF p, h, dir, all, r, u, b
<1>5. /\ all = {q[i] : i \in 0 .. p + h - 1}
      /\ \A i, j \in 0 .. p + h - 1 : i < j => Before(dir, q[i], q[j])
  <2>1. Merged(dir, all, q, p + h)
    BY <1>4, LastMixes
  <2> HIDE DEF q
  <2> QED
    BY <2>1, <1>1 DEF Merged
<1> HIDE DEF q
<1>6. \A j \in 0 .. last - first : q[j] = b[Place(dir, first, last, j)]
  BY <1>3 DEF Region
<1>7. \A i \in first .. last : \E j \in 0 .. last - first : Place(dir, first, last, j) = i
  <2> TAKE i \in first .. last
  <2> DEFINE j == IF dir = 1 THEN i - first ELSE last - i
  <2>1. j \in 0 .. last - first /\ Place(dir, first, last, j) = i
    BY <1>1 DEF Place
  <2> QED
    BY <2>1
<1>8. \A j \in 0 .. last - first : Place(dir, first, last, j) \in first .. last
  BY <1>1 DEF Place
<1>9. {b[i] : i \in first .. last} = {z[i] : i \in first .. last}
  <2>1. {b[i] : i \in first .. last} = {q[j] : j \in 0 .. last - first}
    <3>1. ASSUME NEW i \in first .. last
          PROVE  b[i] \in {q[j] : j \in 0 .. last - first}
      BY <1>6, <1>7
    <3>2. ASSUME NEW j \in 0 .. last - first
          PROVE  q[j] \in {b[i] : i \in first .. last}
      BY <1>6, <1>8
    <3> QED
      BY <3>1, <3>2
  <2> QED
    BY <2>1, <1>2, <1>5 DEF all
<1>10. Ordered(b, first, last)
  <2> SUFFICES ASSUME NEW i \in first .. last, NEW j \in first .. last, i < j
               PROVE  Precedes(b[i], b[j])
    BY DEF Ordered
  <2> DEFINE K(x) == IF dir = 1 THEN x - first ELSE last - x
  <2>1. /\ K(i) \in 0 .. p + h - 1 /\ K(j) \in 0 .. p + h - 1
        /\ Place(dir, first, last, K(i)) = i /\ Place(dir, first, last, K(j)) = j
        /\ dir = 1 => K(i) < K(j)
        /\ dir # 1 => K(j) < K(i)
    BY <1>1, <1>2 DEF Place
  <2> HIDE DEF K
  <2>2. q[K(i)] = b[i] /\ q[K(j)] = b[j]
    BY <2>1, <1>2, <1>6
  <2>3. CASE dir = 1
    <3>1. Before(dir, q[K(i)], q[K(j)])
      BY <2>1, <2>3, <1>5
    <3> QED
      BY <3>1, <2>2, <2>3 DEF Before
  <2>4. CASE dir # 1
    <3>1. Before(dir, q[K(j)], q[K(i)])
      BY <2>1, <2>4, <1>5
    <3> QED
      BY <3>1, <2>2, <2>4 DEF Before
  <2> QED
    BY <2>3, <2>4
<1>11. Rearranged(z, b, first, last)
  <2>1. DOMAIN z = 0 .. n - 1
    BY <1>4 DEF ArrayOn
  <2> QED
    BY <2>1, <1>3, <1>9 DEF Rearranged
<1> QED
  BY <1>3, <1>10, <1>11 DEF b, h

-----------------------------------------------------------------------------
(* What the gallops count in a list that is in order. *)

LEMMA GallopSplits ==
  ASSUME NEW before, NEW len \in Nat \ {0}, NEW hint \in 0 .. len - 1,
         \A i, j \in 0 .. len - 1 : i < j /\ before[j] => before[i]
  PROVE  /\ Gallop(before, len, hint) \in 0 .. len
         /\ \A i \in 0 .. len - 1 : before[i] <=> i < Gallop(before, len, hint)
<1>1. PICK n \in 0 .. len : Splits(before, 0, len - 1, n)
  BY InitialSegment
<1>2. Gallop(before, len, hint) = n
  BY <1>1, GallopFinds
<1>3. \A i \in 0 .. len - 1 : before[i] <=> i < n
  BY <1>1 DEF Splits
<1> QED
  BY <1>2, <1>3

LEMMA KeysAscend ==
  ASSUME NEW E, Keyed(E), NEW x \in E, NEW y \in E, Precedes(x, y)
  PROVE  x.key <= y.key /\ x.key \in Int /\ y.key \in Int
BY DEF Precedes, Keyed

LEMMA GallopLeftCounts ==
  ASSUME NEW E, Keyed(E), Compares(E), NEW key \in E, NEW a, NEW base \in Int, NEW len \in Nat \ {0},
         NEW hint \in 0 .. len - 1, \A i \in base .. base + len - 1 : a[i] \in E,
         Ordered(a, base, base + len - 1)
  PROVE  /\ tms_gallop_left(key, a, base, len, hint) \in 0 .. len
         /\ \A i \in 0 .. len - 1 :
              a[base + i].key < key.key <=> i < tms_gallop_left(key, a, base, len, hint)
<1> DEFINE before == [i \in 0 .. len - 1 |-> cmp(key, a[base + i]) > 0]
<1>1. \A i \in 0 .. len - 1 : base + i \in base .. base + len - 1 /\ a[base + i] \in E
  <2> TAKE i \in 0 .. len - 1
  <2>1. base + i \in base .. base + len - 1
    OBVIOUS
  <2> QED
    BY <2>1
<1>2. \A i \in 0 .. len - 1 : before[i] <=> a[base + i].key < key.key
  <2> TAKE i \in 0 .. len - 1
  <2>1. a[base + i] \in E
    BY <1>1
  <2>2. cmp(key, a[base + i]) > 0 <=> key.key > a[base + i].key
    BY <2>1 DEF Compares
  <2>3. key.key \in Int /\ a[base + i].key \in Int
    BY <2>1 DEF Keyed
  <2> QED
    BY <2>2, <2>3
<1>3. tms_gallop_left(key, a, base, len, hint) = Gallop(before, len, hint)
  BY DEF tms_gallop_left
<1> HIDE DEF before
<1>4. \A i, j \in 0 .. len - 1 : i < j /\ before[j] => before[i]
  <2> SUFFICES ASSUME NEW i \in 0 .. len - 1, NEW j \in 0 .. len - 1, i < j, before[j]
               PROVE  before[i]
    OBVIOUS
  <2>1. /\ base + i \in base .. base + len - 1 /\ base + j \in base .. base + len - 1
        /\ base + i < base + j
    OBVIOUS
  <2>2. Precedes(a[base + i], a[base + j])
    BY <2>1 DEF Ordered
  <2>3. /\ a[base + i].key <= a[base + j].key
        /\ a[base + i].key \in Int /\ a[base + j].key \in Int /\ key.key \in Int
    BY <2>2, <1>1, KeysAscend DEF Keyed
  <2>4. a[base + j].key < key.key
    BY <1>2
  <2>5. a[base + i].key < key.key
    BY <2>3, <2>4
  <2> QED
    BY <2>5, <1>2
<1>5. /\ Gallop(before, len, hint) \in 0 .. len
      /\ \A i \in 0 .. len - 1 : before[i] <=> i < Gallop(before, len, hint)
  BY <1>4, GallopSplits
<1> QED
  BY <1>2, <1>3, <1>5

LEMMA GallopRightCounts ==
  ASSUME NEW E, Keyed(E), Compares(E), NEW key \in E, NEW a, NEW base \in Int, NEW len \in Nat \ {0},
         NEW hint \in 0 .. len - 1, \A i \in base .. base + len - 1 : a[i] \in E,
         Ordered(a, base, base + len - 1)
  PROVE  /\ tms_gallop_right(key, a, base, len, hint) \in 0 .. len
         /\ \A i \in 0 .. len - 1 :
              a[base + i].key <= key.key <=> i < tms_gallop_right(key, a, base, len, hint)
<1> DEFINE before == [i \in 0 .. len - 1 |-> cmp(key, a[base + i]) >= 0]
<1>1. \A i \in 0 .. len - 1 : base + i \in base .. base + len - 1 /\ a[base + i] \in E
  <2> TAKE i \in 0 .. len - 1
  <2>1. base + i \in base .. base + len - 1
    OBVIOUS
  <2> QED
    BY <2>1
<1>2. \A i \in 0 .. len - 1 : before[i] <=> a[base + i].key <= key.key
  <2> TAKE i \in 0 .. len - 1
  <2>1. a[base + i] \in E
    BY <1>1
  <2>2. cmp(key, a[base + i]) \in Int /\ (cmp(key, a[base + i]) < 0 <=> key.key < a[base + i].key)
    BY <2>1 DEF Compares
  <2>3. key.key \in Int /\ a[base + i].key \in Int
    BY <2>1 DEF Keyed
  <2>4. before[i] <=> ~(cmp(key, a[base + i]) < 0)
    <3> DEFINE c == cmp(key, a[base + i])
    <3>1. before[i] = (c >= 0)
      OBVIOUS
    <3>2. c \in Int
      BY <2>2
    <3> HIDE DEF c, before
    <3>3. c >= 0 <=> ~(c < 0)
      BY <3>2
    <3> QED
      BY <3>1, <3>3 DEF c
  <2>5. a[base + i].key <= key.key <=> ~(key.key < a[base + i].key)
    BY <2>3
  <2> QED
    BY <2>2, <2>4, <2>5
<1>3. tms_gallop_right(key, a, base, len, hint) = Gallop(before, len, hint)
  BY DEF tms_gallop_right
<1> HIDE DEF before
<1>4. \A i, j \in 0 .. len - 1 : i < j /\ before[j] => before[i]
  <2> SUFFICES ASSUME NEW i \in 0 .. len - 1, NEW j \in 0 .. len - 1, i < j, before[j]
               PROVE  before[i]
    OBVIOUS
  <2>1. /\ base + i \in base .. base + len - 1 /\ base + j \in base .. base + len - 1
        /\ base + i < base + j
    OBVIOUS
  <2>2. Precedes(a[base + i], a[base + j])
    BY <2>1 DEF Ordered
  <2>3. /\ a[base + i].key <= a[base + j].key
        /\ a[base + i].key \in Int /\ a[base + j].key \in Int /\ key.key \in Int
    BY <2>2, <1>1, KeysAscend DEF Keyed
  <2>4. a[base + j].key <= key.key
    BY <1>2
  <2>5. a[base + i].key <= key.key
    BY <2>3, <2>4
  <2> QED
    BY <2>5, <1>2
<1>5. /\ Gallop(before, len, hint) \in 0 .. len
      /\ \A i \in 0 .. len - 1 : before[i] <=> i < Gallop(before, len, hint)
  BY <1>4, GallopSplits
<1> QED
  BY <1>2, <1>3, <1>5

(* The keys decide on which element of two lists goes first. *)
LEMMA ByKey ==
  ASSUME NEW E, Keyed(E), NEW dir \in {1, -1}, NEW x \in E, NEW y \in E
  PROVE  /\ (IF dir = 1 THEN x.key < y.key ELSE y.key < x.key) => Before(dir, x, y)
         /\ Before(dir, x, y) /\ x.key # y.key => IF dir = 1 THEN x.key < y.key ELSE y.key < x.key
         /\ ~(Before(dir, x, y) /\ Before(dir, y, x))
         /\ x.key \in Int /\ y.key \in Int
BY DEF Before, Precedes, Keyed

-----------------------------------------------------------------------------
(* The two lists that are merged. *)

Copied(t, m, j) == t[Onward(m.dir, m.cur_t, j)]

ListsOK(E, s, t) ==
  /\ s.m.dir \in {1, -1} /\ s.m.cur_a \in Int /\ s.m.cur_t \in Int /\ s.m.len_a \in Nat /\ s.m.len_t \in Nat \ {0}
  /\ s.m.dir = -1 => s.m.cur_t = s.m.len_t - 1
  /\ \A i \in 0 .. s.m.len_t - 1 : Copied(t, s.m, i) \in E
  /\ \A j \in 0 .. s.m.len_a - 1 : Ahead(s, j) \in E
  /\ \A i, j \in 0 .. s.m.len_t - 1 : i < j => Before(s.m.dir, Copied(t, s.m, i), Copied(t, s.m, j))
  /\ \A i, j \in 0 .. s.m.len_a - 1 : i < j => Before(s.m.dir, Ahead(s, i), Ahead(s, j))
  /\ \A j \in 0 .. s.m.len_a - 1 : Before(s.m.dir, Ahead(s, j), Copied(t, s.m, s.m.len_t - 1))
  /\ \A i \in 0 .. s.m.len_t - 1, j \in 0 .. s.m.len_a - 1 :
       Ahead(s, j).key = Copied(t, s.m, i).key => Before(s.m.dir, Copied(t, s.m, i), Ahead(s, j))

LEMMA MergeLists ==
  ASSUME NEW n \in Nat, NEW E, NEW s, NEW t, NEW k, NEW z, NEW first, NEW last,
         Merges(E, n, s, t, k, z, first, last)
  PROVE  ListsOK(E, s, t)
<1> DEFINE p == InPlace(s.m, first, last)
           h == s.m.len_t
           l == s.m.len_a
           dir == s.m.dir
           all == {z[i] : i \in first .. last}
           r == Region(s.a, dir, first, last)
           u == Waiting(t, s.m)
           T(i) == Copied(t, s.m, i)
           A(j) == Ahead(s, j)
<1>1. /\ dir \in {1, -1} /\ h \in Nat \ {0} /\ l \in Nat /\ p \in Nat
      /\ first \in Nat /\ last \in Nat
      /\ p + h + l = last - first + 1 /\ s.m.cur_a \in Int /\ s.m.cur_t \in Int
  <2>1. MergeParts(E, n, s, k, first, last)
    BY MergesParts
  <2> QED
    BY <2>1, Zenon DEF MergeParts
<1>2. Located(s.m, n, k, first, last) /\ Mixed(E, dir, all, r, u, p, h, l)
  BY DEF Merges
<1>3. dir = -1 => s.m.cur_t = h - 1
  BY <1>2 DEF Located
<1>4. \A j \in 0 .. l - 1 : A(j) \in E /\ A(j) = r[p + h + j]
  BY AheadInRegion
<1>5. \A i \in 0 .. h - 1 : u[i] = T(i)
  BY DEF Waiting, Copied
<1> HIDE DEF p, h, l, dir, all, r, u, T, A
<1>6. \A i \in 0 .. h - 1 : T(i) \in E
  BY <1>2, <1>5 DEF Mixed, MixedType
<1>7. \A i, j \in 0 .. h - 1 : i < j => Before(dir, T(i), T(j))
  BY <1>2, <1>5 DEF Mixed, MixedOrder
<1>8. \A i, j \in 0 .. l - 1 : i < j => Before(dir, A(i), A(j))
  <2> SUFFICES ASSUME NEW i \in 0 .. l - 1, NEW j \in 0 .. l - 1, i < j
               PROVE  Before(dir, A(i), A(j))
    OBVIOUS
  <2>1. p + h + i \in Outside(p, h, l) /\ p + h + j \in Outside(p, h, l) /\ p + h + i < p + h + j
    BY <1>1 DEF Outside
  <2>2. Before(dir, r[p + h + i], r[p + h + j])
    BY <2>1, <1>2 DEF Mixed, MixedOrder
  <2> QED
    BY <2>2, <1>4
<1>9. h - 1 \in 0 .. h - 1 /\ \A j \in 0 .. l - 1 : p + h + j \in p + h .. p + h + l - 1
  BY <1>1
<1>10. \A j \in 0 .. l - 1 : Before(dir, A(j), T(h - 1))
  BY <1>2, <1>4, <1>5, <1>9 DEF Mixed, MixedOrder
<1>11. \A i \in 0 .. h - 1, j \in 0 .. l - 1 : A(j).key = T(i).key => Before(dir, T(i), A(j))
  BY <1>2, <1>4, <1>5, <1>9 DEF Mixed, MixedOrder
<1> QED
  BY <1>1, <1>3, <1>4, <1>6, <1>7, <1>8, <1>10, <1>11, Zenon DEF ListsOK, h, l, dir, T, A

(* In the temporary array, all the elements before the next one of the     *)
(* array's run are counted, and one is not among them.                     *)
GainedT(s, key) ==
  IF s.m.dir = 1 THEN tms_gallop_right(key, tmp, s.m.cur_t, s.m.len_t, 0)
                 ELSE s.m.len_t - tms_gallop_left(key, tmp, 0, s.m.len_t, s.m.len_t - 1)

LEMMA GainedTCounts ==
  ASSUME NEW E, Keyed(E), Compares(E), NEW s, ListsOK(E, s, tmp), s.m.len_a > 0
  PROVE  /\ GainedT(s, Ahead(s, 0)) \in 0 .. s.m.len_t - 1
         /\ \A j \in 0 .. GainedT(s, Ahead(s, 0)) - 1 : Before(s.m.dir, Copied(tmp, s.m, j), Ahead(s, 0))
         /\ Before(s.m.dir, Ahead(s, 0), Copied(tmp, s.m, GainedT(s, Ahead(s, 0))))
<1> DEFINE h == s.m.len_t
           dir == s.m.dir
           cur == s.m.cur_t
           key == Ahead(s, 0)
           T(i) == Copied(tmp, s.m, i)
           g == GainedT(s, key)
<1>1. /\ dir \in {1, -1} /\ h \in Nat \ {0} /\ cur \in Int /\ (dir = -1 => cur = h - 1)
      /\ key \in E /\ \A i \in 0 .. h - 1 : T(i) \in E
      /\ \A i, j \in 0 .. h - 1 : i < j => Before(dir, T(i), T(j))
      /\ Before(dir, key, T(h - 1))
      /\ \A i \in 0 .. h - 1 : key.key = T(i).key => Before(dir, T(i), key)
  <2>1. 0 \in 0 .. s.m.len_a - 1
    BY DEF ListsOK
  <2> QED
    BY <2>1 DEF ListsOK
<1>2. \A i \in 0 .. h - 1 : T(i) = IF dir = 1 THEN tmp[cur + i] ELSE tmp[cur - i]
  BY DEF Copied, Onward
<1>3. g = IF dir = 1 THEN tms_gallop_right(key, tmp, cur, h, 0) ELSE h - tms_gallop_left(key, tmp, 0, h, h - 1)
  BY DEF GainedT
<1> HIDE DEF h, dir, cur, key, T, g
<1>4. h - 1 \in 0 .. h - 1 /\ 0 \in 0 .. h - 1
  BY <1>1
<1>5. IF dir = 1 THEN key.key < T(h - 1).key ELSE T(h - 1).key < key.key
  <2>1. key.key # T(h - 1).key
    BY <1>1, <1>4, ByKey
  <2> QED
    BY <2>1, <1>1, <1>4, ByKey
<1>6. \A i \in 0 .. h - 1 : T(i).key \in Int /\ key.key \in Int
  BY <1>1 DEF Keyed
<1>7. CASE dir = 1
  <2> DEFINE x == tms_gallop_right(key, tmp, cur, h, 0)
  <2>1. \A i \in 0 .. h - 1 : T(i) = tmp[cur + i]
    BY <1>2, <1>7
  <2>2. \A i \in cur .. cur + h - 1 : i - cur \in 0 .. h - 1 /\ tmp[i] = T(i - cur)
    <3>1. \A i \in cur .. cur + h - 1 : i - cur \in 0 .. h - 1 /\ cur + (i - cur) = i
      BY <1>1
    <3> QED
      BY <3>1, <2>1
  <2>3. \A i \in cur .. cur + h - 1 : tmp[i] \in E
    BY <2>2, <1>1
  <2>4. Ordered(tmp, cur, cur + h - 1)
    <3> SUFFICES ASSUME NEW i \in cur .. cur + h - 1, NEW j \in cur .. cur + h - 1, i < j
                 PROVE  Precedes(tmp[i], tmp[j])
      BY DEF Ordered
    <3>1. i - cur < j - cur
      BY <1>1
    <3>2. Before(dir, T(i - cur), T(j - cur))
      BY <3>1, <2>2, <1>1
    <3> QED
      BY <3>2, <2>2, <1>7 DEF Before
  <2>5. x \in 0 .. h /\ \A i \in 0 .. h - 1 : tmp[cur + i].key <= key.key <=> i < x
    BY <2>3, <2>4, <1>1, <1>4, GallopRightCounts
  <2>6. g = x
    BY <1>3, <1>7
  <2> HIDE DEF x
  <2>7. \A i \in 0 .. h - 1 : T(i).key <= key.key <=> i < x
    BY <2>1, <2>5
  <2>8. x \in 0 .. h - 1
    <3>1. ~(T(h - 1).key <= key.key)
      BY <1>4, <1>5, <1>6, <1>7
    <3>2. ~(h - 1 < x)
      BY <3>1, <2>7, <1>4
    <3> QED
      BY <3>2, <2>5, <1>1
  <2>9. ASSUME NEW j \in 0 .. x - 1
        PROVE  Before(dir, T(j), key)
    <3>1. j \in 0 .. h - 1 /\ j < x
      BY <2>8, <1>1
    <3>2. T(j).key <= key.key
      BY <3>1, <2>7
    <3>3. CASE T(j).key = key.key
      BY <3>1, <3>3, <1>1
    <3>4. CASE T(j).key < key.key
      BY <3>1, <3>4, <1>1, <1>7, ByKey
    <3> QED
      BY <3>1, <3>2, <3>3, <3>4, <1>6
  <2>10. Before(dir, key, T(x))
    <3>1. ~(T(x).key <= key.key)
      BY <2>7, <2>8
    <3>2. key.key < T(x).key
      BY <3>1, <2>8, <1>6
    <3> QED
      BY <3>2, <2>8, <1>1, <1>7, ByKey
  <2> QED
    BY <2>6, <2>8, <2>9, <2>10 DEF h, dir, key, T, g
<1>8. CASE dir = -1
  <2> DEFINE x == tms_gallop_left(key, tmp, 0, h, h - 1)
  <2>1. \A i \in 0 .. h - 1 : T(i) = tmp[(h - 1) - i]
    BY <1>1, <1>2, <1>8
  <2>2. \A i \in 0 .. h - 1 : (h - 1) - i \in 0 .. h - 1 /\ tmp[i] = T((h - 1) - i)
    <3>1. \A i \in 0 .. h - 1 : (h - 1) - i \in 0 .. h - 1 /\ (h - 1) - ((h - 1) - i) = i
      BY <1>1
    <3> QED
      BY <3>1, <2>1
  <2>3. \A i \in 0 .. 0 + h - 1 : tmp[i] \in E
    BY <2>2, <1>1
  <2>4. Ordered(tmp, 0, 0 + h - 1)
    <3> SUFFICES ASSUME NEW i \in 0 .. h - 1, NEW j \in 0 .. h - 1, i < j
                 PROVE  Precedes(tmp[i], tmp[j])
      BY <1>1 DEF Ordered
    <3>1. (h - 1) - j < (h - 1) - i
      BY <1>1
    <3>2. Before(dir, T((h - 1) - j), T((h - 1) - i))
      BY <3>1, <2>2, <1>1
    <3> QED
      BY <3>2, <2>2, <1>8 DEF Before
  <2>5. x \in 0 .. h /\ \A i \in 0 .. h - 1 : tmp[0 + i].key < key.key <=> i < x
    <3> DEFINE base == 0
    <3>1. base \in Int
      OBVIOUS
    <3>2. (\A i \in base .. base + h - 1 : tmp[i] \in E) /\ Ordered(tmp, base, base + h - 1)
      BY <2>3, <2>4
    <3>3. x = tms_gallop_left(key, tmp, base, h, h - 1)
      OBVIOUS
    <3> HIDE DEF base, x
    <3>4. x \in 0 .. h /\ \A i \in 0 .. h - 1 : tmp[base + i].key < key.key <=> i < x
      BY <3>1, <3>2, <3>3, <1>1, <1>4, GallopLeftCounts
    <3> QED
      BY <3>4 DEF base
  <2>6. g = h - x
    BY <1>3, <1>8
  <2> HIDE DEF x
  <2>7. \A i \in 0 .. h - 1 : T((h - 1) - i).key < key.key <=> i < x
    <3>1. \A i \in 0 .. h - 1 : 0 + i = i
      OBVIOUS
    <3> QED
      BY <3>1, <2>2, <2>5
  <2>8. x \in 1 .. h
    <3>1. (h - 1) - 0 = h - 1
      BY <1>1
    <3>2. 0 < x
      BY <3>1, <2>7, <1>4, <1>5, <1>8
    <3> QED
      BY <3>2, <2>5, <1>1
  <2>9. ASSUME NEW j \in 0 .. (h - x) - 1
        PROVE  Before(dir, T(j), key)
    <3> DEFINE i == (h - 1) - j
    <3>1. i \in 0 .. h - 1 /\ ~(i < x) /\ (h - 1) - i = j /\ j \in 0 .. h - 1
      BY <2>8, <1>1
    <3> HIDE DEF i
    <3>2. ~(T(j).key < key.key)
      BY <3>1, <2>7
    <3>3. CASE T(j).key = key.key
      BY <3>1, <3>3, <1>1
    <3>4. CASE key.key < T(j).key
      BY <3>1, <3>4, <1>1, <1>8, ByKey
    <3> QED
      BY <3>1, <3>2, <3>3, <3>4, <1>6
  <2>10. Before(dir, key, T(h - x))
    <3>1. x - 1 \in 0 .. h - 1 /\ x - 1 < x /\ (h - 1) - (x - 1) = h - x /\ h - x \in 0 .. h - 1
      BY <2>8, <1>1
    <3>2. T(h - x).key < key.key
      BY <3>1, <2>7
    <3> QED
      BY <3>1, <3>2, <1>1, <1>8, ByKey
  <2>11. h - x \in 0 .. h - 1
    BY <2>8, <1>1
  <2> QED
    BY <2>6, <2>9, <2>10, <2>11 DEF h, dir, key, T, g
<1> QED
  BY <1>1, <1>7, <1>8

(* In the array's run, all the elements that come before the next one in   *)
(* the temporary array are counted.                                        *)
GainedA(s, key) ==
  LET base == IF s.m.dir = 1 THEN s.m.cur_a ELSE s.m.cur_a - s.m.len_a + 1
  IN  IF s.m.dir = 1 THEN tms_gallop_left(key, s.a, base, s.m.len_a, 0)
                     ELSE s.m.len_a - tms_gallop_right(key, s.a, base, s.m.len_a, s.m.len_a - 1)

LEMMA GainedACounts ==
  ASSUME NEW E, Keyed(E), Compares(E), NEW s, NEW t, ListsOK(E, s, t), s.m.len_a > 0
  PROVE  /\ GainedA(s, Copied(t, s.m, 0)) \in 0 .. s.m.len_a
         /\ \A j \in 0 .. GainedA(s, Copied(t, s.m, 0)) - 1 : Before(s.m.dir, Ahead(s, j), Copied(t, s.m, 0))
         /\ GainedA(s, Copied(t, s.m, 0)) < s.m.len_a =>
              Before(s.m.dir, Copied(t, s.m, 0), Ahead(s, GainedA(s, Copied(t, s.m, 0))))
<1> DEFINE l == s.m.len_a
           dir == s.m.dir
           cur == s.m.cur_a
           a == s.a
           key == Copied(t, s.m, 0)
           A(i) == Ahead(s, i)
           g == GainedA(s, key)
           base == cur - l + 1
<1>1. /\ dir \in {1, -1} /\ l \in Nat \ {0} /\ cur \in Int
      /\ key \in E /\ \A i \in 0 .. l - 1 : A(i) \in E
      /\ \A i, j \in 0 .. l - 1 : i < j => Before(dir, A(i), A(j))
      /\ \A i \in 0 .. l - 1 : A(i).key = key.key => Before(dir, key, A(i))
  <2>1. 0 \in 0 .. s.m.len_t - 1
    BY DEF ListsOK
  <2> QED
    BY <2>1 DEF ListsOK
<1>2. \A i \in 0 .. l - 1 : A(i) = IF dir = 1 THEN a[cur + i] ELSE a[cur - i]
  BY DEF Ahead, Onward
<1>3. g = IF dir = 1 THEN tms_gallop_left(key, a, cur, l, 0) ELSE l - tms_gallop_right(key, a, base, l, l - 1)
  BY DEF GainedA
<1> HIDE DEF l, dir, cur, a, key, A, g
<1>4. l - 1 \in 0 .. l - 1 /\ 0 \in 0 .. l - 1
  BY <1>1
<1>6. \A i \in 0 .. l - 1 : A(i).key \in Int /\ key.key \in Int
  BY <1>1 DEF Keyed
<1>7. CASE dir = 1
  <2> DEFINE x == tms_gallop_left(key, a, cur, l, 0)
  <2>1. \A i \in 0 .. l - 1 : A(i) = a[cur + i]
    BY <1>2, <1>7
  <2>2. \A i \in cur .. cur + l - 1 : i - cur \in 0 .. l - 1 /\ a[i] = A(i - cur)
    <3>1. \A i \in cur .. cur + l - 1 : i - cur \in 0 .. l - 1 /\ cur + (i - cur) = i
      BY <1>1
    <3> QED
      BY <3>1, <2>1
  <2>3. \A i \in cur .. cur + l - 1 : a[i] \in E
    BY <2>2, <1>1
  <2>4. Ordered(a, cur, cur + l - 1)
    <3> SUFFICES ASSUME NEW i \in cur .. cur + l - 1, NEW j \in cur .. cur + l - 1, i < j
                 PROVE  Precedes(a[i], a[j])
      BY DEF Ordered
    <3>1. i - cur < j - cur
      BY <1>1
    <3>2. Before(dir, A(i - cur), A(j - cur))
      BY <3>1, <2>2, <1>1
    <3> QED
      BY <3>2, <2>2, <1>7 DEF Before
  <2>5. x \in 0 .. l /\ \A i \in 0 .. l - 1 : a[cur + i].key < key.key <=> i < x
    BY <2>3, <2>4, <1>1, <1>4, GallopLeftCounts
  <2>6. g = x
    BY <1>3, <1>7
  <2> HIDE DEF x
  <2>7. \A i \in 0 .. l - 1 : A(i).key < key.key <=> i < x
    BY <2>1, <2>5
  <2>8. ASSUME NEW j \in 0 .. x - 1
        PROVE  Before(dir, A(j), key)
    <3>1. j \in 0 .. l - 1 /\ j < x
      BY <2>5, <1>1
    <3>2. A(j).key < key.key
      BY <3>1, <2>7
    <3> QED
      BY <3>1, <3>2, <1>1, <1>7, ByKey
  <2>9. ASSUME x < l
        PROVE  Before(dir, key, A(x))
    <3>1. x \in 0 .. l - 1 /\ ~(x < x)
      BY <2>5, <2>9, <1>1
    <3>2. ~(A(x).key < key.key)
      BY <3>1, <2>7
    <3>3. CASE A(x).key = key.key
      BY <3>1, <3>3, <1>1
    <3>4. CASE key.key < A(x).key
      BY <3>1, <3>4, <1>1, <1>7, ByKey
    <3> QED
      BY <3>1, <3>2, <3>3, <3>4, <1>6
  <2> QED
    BY <2>5, <2>6, <2>8, <2>9 DEF l, dir, key, A, g
<1>8. CASE dir = -1
  <2> DEFINE x == tms_gallop_right(key, a, base, l, l - 1)
  <2>1. \A i \in 0 .. l - 1 : A(i) = a[cur - i]
    BY <1>1, <1>2, <1>8
  <2>2. \A i \in 0 .. l - 1 : (l - 1) - i \in 0 .. l - 1 /\ a[base + i] = A((l - 1) - i)
    <3>1. \A i \in 0 .. l - 1 : (l - 1) - i \in 0 .. l - 1 /\ cur - ((l - 1) - i) = base + i
      BY <1>1
    <3> QED
      BY <3>1, <2>1
  <2>3. base \in Int /\ \A i \in base .. base + l - 1 : i - base \in 0 .. l - 1 /\ base + (i - base) = i
    BY <1>1
  <2> HIDE DEF base
  <2>4. \A i \in base .. base + l - 1 : a[i] = A((l - 1) - (i - base)) /\ (l - 1) - (i - base) \in 0 .. l - 1
    BY <2>2, <2>3
  <2>5. \A i \in base .. base + l - 1 : a[i] \in E
    BY <2>4, <1>1
  <2>6. Ordered(a, base, base + l - 1)
    <3> SUFFICES ASSUME NEW i \in base .. base + l - 1, NEW j \in base .. base + l - 1, i < j
                 PROVE  Precedes(a[i], a[j])
      BY DEF Ordered
    <3>1. (l - 1) - (j - base) < (l - 1) - (i - base)
      BY <1>1, <2>3
    <3>2. Before(dir, A((l - 1) - (j - base)), A((l - 1) - (i - base)))
      BY <3>1, <2>4, <1>1
    <3> QED
      BY <3>2, <2>4, <1>8 DEF Before
  <2>7. x \in 0 .. l /\ \A i \in 0 .. l - 1 : a[base + i].key <= key.key <=> i < x
    BY <2>3, <2>5, <2>6, <1>1, <1>4, GallopRightCounts
  <2>8. g = l - x
    BY <1>3, <1>8
  <2> HIDE DEF x
  <2>9. \A i \in 0 .. l - 1 : A((l - 1) - i).key <= key.key <=> i < x
    BY <2>2, <2>7
  <2>10. ASSUME NEW j \in 0 .. (l - x) - 1
         PROVE  Before(dir, A(j), key)
    <3> DEFINE i == (l - 1) - j
    <3>1. i \in 0 .. l - 1 /\ ~(i < x) /\ (l - 1) - i = j /\ j \in 0 .. l - 1
      BY <2>7, <1>1
    <3> HIDE DEF i
    <3>2. ~(A(j).key <= key.key)
      BY <3>1, <2>9
    <3>3. key.key < A(j).key
      BY <3>1, <3>2, <1>6
    <3> QED
      BY <3>1, <3>3, <1>1, <1>8, ByKey
  <2>11. ASSUME l - x < l
         PROVE  Before(dir, key, A(l - x))
    <3>1. x - 1 \in 0 .. l - 1 /\ x - 1 < x /\ (l - 1) - (x - 1) = l - x /\ l - x \in 0 .. l - 1
      BY <2>7, <2>11, <1>1
    <3>2. A(l - x).key <= key.key
      BY <3>1, <2>9
    <3>3. CASE A(l - x).key = key.key
      BY <3>1, <3>3, <1>1
    <3>4. CASE A(l - x).key < key.key
      BY <3>1, <3>4, <1>1, <1>8, ByKey
    <3> QED
      BY <3>1, <3>2, <3>3, <3>4, <1>6
  <2>12. l - x \in 0 .. l
    BY <2>7, <1>1
  <2> QED
    BY <2>8, <2>10, <2>11, <2>12 DEF l, dir, key, A, g
<1> QED
  BY <1>1, <1>7, <1>8

-----------------------------------------------------------------------------
(* The invariant of the sort. *)

RunLast(i) == stack[i].base + stack[i].len - 1

(* All the elements are there, and those not yet cut into runs where they  *)
(* were at first.  Each run has its own elements, in order if it is not    *)
(* the one that is open.                                                   *)
ArrayInv(z, open) ==
  /\ z \in ArrayOn(count, Elements)
  /\ Ids(z, 0 .. count - 1) = 0 .. count - 1
  /\ phase # "done" => \A i \in lo .. count - 1 : z[i].id = i
  /\ \A j \in 1 .. Top : \A i \in stack[j].base .. RunLast(j) : z[i].id \in stack[j].base .. RunLast(j)
  /\ \A j \in 1 .. Top : j # open => Ordered(z, stack[j].base, RunLast(j))

(* What is around first .. last is in order, and so are those with it. *)
Framed(z, base, first, last, end) ==
  \A i, j \in base .. end : i < j /\ ~(first <= i /\ j <= last) => Precedes(z[i], z[j])

(* The part of a run that is merged. *)
Opened(z, open, first, last) ==
  /\ ArrayInv(z, open)
  /\ stack[open].base <= first /\ last <= RunLast(open)
  /\ Framed(z, stack[open].base, first, last, RunLast(open))

(* z is the array as it was when the merge of the run began, and k the     *)
(* number of elements that were copied.                                    *)
MergeInv ==
  \E z \in ArrayOn(count, Elements), open \in 1 .. Top, first, last, k \in Nat :
    /\ Opened(z, open, first, last)
    /\ k <= tmp_count
    /\ Merges(Elements, count, Now, tmp, k, z, first, last)
    /\ StepOK(merge)

SortInv ==
  /\ TileInv
  /\ min_gallop \in Int /\ tmp_count \in Nat
  /\ phase = "force" => lo = count
  /\ count < MinMerge => stack = << >>
  /\ ~Merging => ArrayInv(array, 0) /\ (phase = "done" => Ordered(array, 0, count - 1))
  /\ Merging => phase \in {"collapse", "force"} /\ MergeInv

LEMMA ElementsCompare == Keyed(Elements) /\ Compares(Elements)
<1>1. Compares(Elements)
  BY ComparatorAssumption DEF Compares
<1>2. ASSUME NEW x \in Elements
      PROVE  x.key \in Int /\ x.id \in Int
  <2>1. PICK keys \in Arrays : x.key \in {keys[i] : i \in DOMAIN keys}
    BY DEF Elements
  <2>2. keys \in Seq(Int)
    BY TimSortAssumption
  <2>3. x.key \in Int
    BY <2>1, <2>2
  <2>4. PICK ks \in Arrays : x.id \in DOMAIN ArrayOf(ks)
    BY DEF Elements
  <2>5. ks \in Seq(Int)
    BY TimSortAssumption
  <2>6. x.id \in Int
    BY <2>4, <2>5 DEF ArrayOf
  <2> QED
    BY <2>3, <2>6
<1> QED
  BY <1>1, <1>2 DEF Keyed

(* The runs are where they should be, one after the other. *)
LEMMA RunsApart ==
  ASSUME TileInv
  PROVE  /\ Top \in Nat
         /\ \A j \in 1 .. Top : /\ stack[j].base \in Nat /\ stack[j].len \in Nat \ {0}
                                /\ RunLast(j) \in Nat /\ stack[j].base <= RunLast(j) /\ RunLast(j) < lo
         /\ \A i, j \in 1 .. Top : i < j => RunLast(i) < stack[j].base
<1>1. Top \in Nat /\ stack \in Seq(Run) /\ lo \in Nat /\ Top = Len(stack)
  BY DEF TileInv, Top
<1>2. \A j \in 1 .. Top : stack[j] \in Run
  BY <1>1
<1>3. \A j \in 1 .. Top : stack[j].base \in Nat /\ stack[j].len \in Nat \ {0}
  BY <1>2 DEF Run
<1>4. \A j \in 1 .. Top : RunLast(j) \in Nat /\ stack[j].base <= RunLast(j)
  BY <1>3 DEF RunLast
<1>5. \A j \in 1 .. Top - 1 : stack[j].base + stack[j].len = stack[j + 1].base
  <2>1. Top # 0 => stack # << >>
    BY <1>1
  <2> QED
    BY <2>1, <1>1 DEF TileInv, RunsTile
<1>6. ASSUME NEW i \in 1 .. Top, NEW j \in 1 .. Top, i < j
      PROVE  RunLast(i) < stack[j].base
  <2> DEFINE Bad(m) == m \in 1 .. Top /\ i < m /\ ~(RunLast(i) < stack[m].base)
             T == {m \in Nat : Bad(m)}
  <2>1. ASSUME T # {}
        PROVE  FALSE
    <3>1. PICK m \in T : \A y \in T : m <= y
      BY <2>1, LeastNatural
    <3>2. m \in 1 .. Top /\ i < m /\ ~(RunLast(i) < stack[m].base)
      BY <3>1
    <3>3. m - 1 \in 1 .. Top - 1 /\ m - 1 \in 1 .. Top /\ (m - 1) + 1 = m
      BY <3>2, <1>1
    <3>4. stack[m - 1].base + stack[m - 1].len = stack[m].base
      BY <3>3, <1>5
    <3>5. CASE i = m - 1
      BY <3>2, <3>3, <3>4, <3>5, <1>3 DEF RunLast
    <3>6. CASE i < m - 1
      <4>1. m - 1 \notin T
        BY <3>1
      <4>2. RunLast(i) < stack[m - 1].base
        BY <4>1, <3>3, <3>6
      <4>3. stack[m - 1].base < stack[m].base
        BY <3>3, <3>4, <1>3, <3>2
      <4> QED
        BY <4>2, <4>3, <3>2, <3>3, <1>3, <1>4
    <3> QED
      BY <3>2, <3>5, <3>6
  <2>2. T = {}
    BY <2>1
  <2>3. j \in Nat /\ ~Bad(j)
    <3> HIDE DEF Bad
    <3> QED
      BY <2>2, <1>6
  <2> QED
    BY <2>3, <1>6
<1>7. ASSUME NEW j \in 1 .. Top
      PROVE  RunLast(j) < lo
  <2>1. Top \in 1 .. Top /\ stack # << >>
    BY <1>1
  <2>2. RunLast(Top) < lo
    BY <2>1, <1>1, <1>3 DEF TileInv, RunsTile, RunLast
  <2>3. CASE j = Top
    BY <2>2, <2>3
  <2>4. CASE j < Top
    BY <2>1, <2>2, <2>4, <1>1, <1>3, <1>4, <1>6
  <2> QED
    BY <2>3, <2>4, <1>1
<1> QED
  BY <1>1, <1>3, <1>4, <1>6, <1>7

(* A run whose open part is put in order is in order. *)
LEMMA FramedOrdered ==
  ASSUME NEW n \in Nat, NEW E, NEW z \in ArrayOn(n, E), NEW b \in ArrayOn(n, E),
         NEW base \in Nat, NEW first \in Int, NEW last \in Int, NEW end \in Int,
         base <= first, first <= last, last <= end, end < n,
         Framed(z, base, first, last, end), Rearranged(z, b, first, last), Ordered(b, first, last)
  PROVE  Ordered(b, base, end)
<1> SUFFICES ASSUME NEW i \in base .. end, NEW j \in base .. end, i < j
             PROVE  Precedes(b[i], b[j])
  BY DEF Ordered
<1>1. \A m \in base .. end : m \notin first .. last => b[m] = z[m]
  <2>1. DOMAIN z = 0 .. n - 1
    BY DEF ArrayOn
  <2> QED
    BY <2>1 DEF Rearranged
<1>2. \A m \in first .. last : \E q \in first .. last : b[m] = z[q]
  BY DEF Rearranged
<1>3. \A x, y \in base .. end : x < y /\ ~(first <= x /\ y <= last) => Precedes(z[x], z[y])
  BY DEF Framed
<1>4. CASE i \in first .. last /\ j \in first .. last
  BY <1>4 DEF Ordered
<1>5. CASE i \in first .. last /\ j \notin first .. last
  <2>1. PICK q \in first .. last : b[i] = z[q]
    BY <1>2, <1>5
  <2>2. q \in base .. end /\ q < j /\ ~(j <= last)
    BY <1>5
  <2> QED
    BY <1>1, <1>3, <1>5, <2>1, <2>2
<1>6. CASE i \notin first .. last /\ j \in first .. last
  <2>1. PICK q \in first .. last : b[j] = z[q]
    BY <1>2, <1>6
  <2>2. q \in base .. end /\ i < q /\ ~(first <= i)
    BY <1>6
  <2> QED
    BY <1>1, <1>3, <1>6, <2>1, <2>2
<1>7. CASE i \notin first .. last /\ j \notin first .. last
  BY <1>1, <1>3, <1>7
<1> QED
  BY <1>4, <1>5, <1>6, <1>7

(* Elements change places only within a run that is cut. *)
LEMMA RearrangedRuns ==
  ASSUME TileInv, NEW open \in 1 .. Top, NEW z, ArrayInv(z, open),
         NEW first \in Nat, NEW last \in Nat, first <= last,
         stack[open].base <= first, last <= RunLast(open),
         NEW b \in ArrayOn(count, Elements), Rearranged(z, b, first, last),
         Ordered(b, stack[open].base, RunLast(open))
  PROVE  ArrayInv(b, 0)
<1>1. /\ Top \in Nat /\ lo \in Nat /\ count \in Nat /\ lo <= count
      /\ \A j \in 1 .. Top : /\ stack[j].base \in Nat /\ stack[j].len \in Nat \ {0}
                             /\ RunLast(j) \in Nat /\ stack[j].base <= RunLast(j) /\ RunLast(j) < lo
      /\ \A i, j \in 1 .. Top : i < j => RunLast(i) < stack[j].base
  BY RunsApart DEF TileInv
<1>2. z \in ArrayOn(count, Elements) /\ DOMAIN z = 0 .. count - 1
  BY DEF ArrayInv, ArrayOn
<1>3. \A i \in 0 .. count - 1 : i \notin first .. last => b[i] = z[i]
  BY <1>2 DEF Rearranged
<1>4. \A i \in first .. last : \E q \in first .. last : b[i] = z[q]
  BY DEF Rearranged
<1>5. last < count
  BY <1>1
<1>6. Ids(b, 0 .. count - 1) = 0 .. count - 1
  BY <1>1, <1>2, <1>5, RearrangedIds DEF ArrayInv
<1>7. ASSUME phase # "done", NEW i \in lo .. count - 1
      PROVE  b[i].id = i
  <2>1. i \in 0 .. count - 1 /\ i \notin first .. last
    BY <1>1
  <2> QED
    BY <2>1, <1>3, <1>7 DEF ArrayInv
<1>8. ASSUME NEW j \in 1 .. Top, NEW i \in stack[j].base .. RunLast(j)
      PROVE  b[i].id \in stack[j].base .. RunLast(j) /\ (j # open => b[i] = z[i])
  <2>0. i \in 0 .. count - 1
    BY <1>1
  <2>1. CASE j = open
    <3>1. CASE i \in first .. last
      <4>1. PICK q \in first .. last : b[i] = z[q]
        BY <1>4, <3>1
      <4>2. q \in stack[j].base .. RunLast(j)
        BY <2>1, <1>1
      <4> QED
        BY <2>1, <4>1, <4>2 DEF ArrayInv
    <3>2. CASE i \notin first .. last
      BY <2>0, <2>1, <3>2, <1>3 DEF ArrayInv
    <3> QED
      BY <3>1, <3>2
  <2>2. CASE j # open
    <3>1. CASE j < open
      BY <3>1, <2>0, <1>1, <1>3 DEF ArrayInv
    <3>2. CASE open < j
      BY <3>2, <2>0, <1>1, <1>3 DEF ArrayInv
    <3> QED
      BY <2>2, <3>1, <3>2, <1>1
  <2> QED
    BY <2>1, <2>2
<1>9. ASSUME NEW j \in 1 .. Top
      PROVE  Ordered(b, stack[j].base, RunLast(j))
  <2>1. CASE j = open
    BY <2>1
  <2>2. CASE j # open
    <3>1. Ordered(z, stack[j].base, RunLast(j))
      BY <2>2 DEF ArrayInv
    <3> QED
      BY <2>2, <3>1, <1>8 DEF Ordered
  <2> QED
    BY <2>1, <2>2
<1> QED
  BY <1>6, <1>7, <1>8, <1>9 DEF ArrayInv

(* Two runs of the stack become one that is open. *)
LEMMA MergedRuns ==
  ASSUME TileInv, NEW i \in 1 .. Top - 1, NEW z, ArrayInv(z, 0),
         stack' = StackMerged(i), count' = count, lo' = lo, phase' = phase
  PROVE  /\ ArrayInv(z, i)'
         /\ Top' = Top - 1 /\ i \in 1 .. Top'
         /\ stack'[i].base = stack[i].base /\ RunLast(i)' = RunLast(i + 1)
<1>1. /\ Top \in Nat
      /\ \A j \in 1 .. Top : /\ stack[j].base \in Nat /\ stack[j].len \in Nat \ {0}
                             /\ RunLast(j) \in Nat /\ stack[j].base <= RunLast(j)
      /\ \A m, j \in 1 .. Top : m < j => RunLast(m) < stack[j].base
  BY RunsApart
<1>2. i \in Nat \ {0} /\ i \in 1 .. Top /\ i + 1 \in 1 .. Top /\ Top - 1 \in Nat
  BY <1>1
<1>3. stack[i].base + stack[i].len = stack[i + 1].base
  <2>1. stack # << >>
    BY <1>2 DEF Top
  <2> QED
    BY <2>1 DEF TileInv, RunsTile
<1> DEFINE merged == [base |-> stack[i].base, len |-> stack[i].len + stack[i + 1].len]
<1>4. stack' = [j \in 1 .. Top - 1 |-> IF j < i THEN stack[j] ELSE IF j = i THEN merged ELSE stack[j + 1]]
  BY DEF StackMerged, Top
<1>5. Top' = Top - 1
  <2>1. DOMAIN stack' = 1 .. Top - 1
    BY <1>4
  <2>2. \A j \in 1 .. Top - 1 : stack'[j] \in {stack[m] : m \in 1 .. Top} \cup {merged}
    <3> HIDE DEF merged
    <3>1. \A j \in 1 .. Top - 1 : j \in 1 .. Top /\ j + 1 \in 1 .. Top
      BY <1>1
    <3> QED
      BY <3>1, <1>4
  <2>3. stack' \in Seq({stack[m] : m \in 1 .. Top} \cup {merged})
    <3> HIDE DEF merged
    <3> DEFINE S == {stack[m] : m \in 1 .. Top} \cup {merged}
    <3>1. stack' = [j \in 1 .. Top - 1 |-> stack'[j]]
      BY <1>4
    <3>2. \A j \in 1 .. Top - 1 : stack'[j] \in S
      BY <2>2
    <3> HIDE DEF S
    <3>3. stack' \in [1 .. Top - 1 -> S]
      BY <3>1, <3>2
    <3>4. stack' \in Seq(S)
      BY <3>3, <1>2
    <3> QED
      BY <3>4 DEF S
  <2>4. Len(stack') = Top - 1
    BY <2>1, <2>3, <1>2
  <2> QED
    BY <2>4 DEF Top
<1> HIDE DEF merged
<1>6. /\ \A j \in 1 .. Top - 1 : j < i => stack'[j] = stack[j]
      /\ stack'[i] = merged
      /\ \A j \in 1 .. Top - 1 : i < j => stack'[j] = stack[j + 1]
  <2>1. i \in 1 .. Top - 1
    OBVIOUS
  <2>2. \A j \in 1 .. Top - 1 : i < j => ~(j < i) /\ j # i
    BY <1>2
  <2> QED
    BY <2>1, <2>2, <1>4, <1>2
<1>7. /\ stack'[i].base = stack[i].base
      /\ RunLast(i)' = RunLast(i + 1)
  <2>1. merged.base = stack[i].base /\ merged.len = stack[i].len + stack[i + 1].len
    BY DEF merged
  <2>2. /\ stack[i].base \in Nat /\ stack[i].len \in Nat /\ stack[i + 1].len \in Nat /\ stack[i + 1].base \in Nat
    BY <1>1, <1>2
  <2>3. RunLast(i)' = stack[i].base + (stack[i].len + stack[i + 1].len) - 1
    BY <2>1, <1>6 DEF RunLast
  <2>4. RunLast(i + 1) = stack[i + 1].base + stack[i + 1].len - 1
    BY DEF RunLast
  <2> QED
    BY <2>1, <2>2, <2>3, <2>4, <1>3, <1>6
<1>8. ASSUME NEW j \in 1 .. Top - 1, NEW m \in stack'[j].base .. (RunLast(j)')
      PROVE  z[m].id \in stack'[j].base .. (RunLast(j)')
  <2>1. CASE j < i
    <3>1. stack'[j].base = stack[j].base /\ RunLast(j)' = RunLast(j) /\ j \in 1 .. Top
      BY <2>1, <1>1, <1>6 DEF RunLast
    <3> QED
      BY <3>1 DEF ArrayInv
  <2>2. CASE j = i
    <3>1. RunLast(i) = stack[i + 1].base - 1
      BY <1>1, <1>2, <1>3 DEF RunLast
    <3>2. CASE m <= RunLast(i)
      <4>1. m \in stack[i].base .. RunLast(i)
        BY <2>2, <3>2, <1>7, <1>1, <1>2
      <4>2. z[m].id \in stack[i].base .. RunLast(i)
        BY <4>1, <1>2 DEF ArrayInv
      <4> QED
        BY <4>2, <3>1, <2>2, <1>7, <1>1, <1>2
    <3>3. CASE m > RunLast(i)
      <4>1. m \in stack[i + 1].base .. RunLast(i + 1)
        BY <2>2, <3>1, <3>3, <1>7, <1>1, <1>2
      <4>2. z[m].id \in stack[i + 1].base .. RunLast(i + 1)
        BY <4>1, <1>2 DEF ArrayInv
      <4> QED
        BY <4>2, <3>1, <2>2, <1>7, <1>1, <1>2
    <3>4. m \in Int /\ RunLast(i) \in Int
      BY <1>1, <1>2
    <3> QED
      BY <3>2, <3>3, <3>4
  <2>3. CASE i < j
    <3>1. stack'[j].base = stack[j + 1].base /\ RunLast(j)' = RunLast(j + 1) /\ j + 1 \in 1 .. Top
      BY <2>3, <1>1, <1>6 DEF RunLast
    <3> QED
      BY <3>1 DEF ArrayInv
  <2> QED
    BY <2>1, <2>2, <2>3, <1>2
<1>9. ASSUME NEW j \in 1 .. Top - 1, j # i
      PROVE  Ordered(z, stack'[j].base, RunLast(j)')
  <2>1. CASE j < i
    <3>1. stack'[j].base = stack[j].base /\ RunLast(j)' = RunLast(j) /\ j \in 1 .. Top /\ j # 0
      BY <2>1, <1>1, <1>6 DEF RunLast
    <3> QED
      BY <3>1 DEF ArrayInv
  <2>2. CASE i < j
    <3>1. stack'[j].base = stack[j + 1].base /\ RunLast(j)' = RunLast(j + 1) /\ j + 1 \in 1 .. Top /\ j + 1 # 0
      BY <2>2, <1>1, <1>6 DEF RunLast
    <3> QED
      BY <3>1 DEF ArrayInv
  <2> QED
    BY <2>1, <2>2, <1>9, <1>2
<1>10. ArrayInv(z, i)'
  BY <1>5, <1>8, <1>9 DEF ArrayInv
<1> QED
  BY <1>5, <1>7, <1>10

-----------------------------------------------------------------------------
(* The steps of a merge. *)

IsPair(s) == s = [a |-> s.a, m |-> s.m]

SameLists(s, q) ==
  /\ IsPair(q) /\ q.a = s.a /\ q.m \in MergeType
  /\ q.m.dir = s.m.dir /\ q.m.dest = s.m.dest
  /\ q.m.cur_a = s.m.cur_a /\ q.m.len_a = s.m.len_a
  /\ q.m.cur_t = s.m.cur_t /\ q.m.len_t = s.m.len_t

LEMMA SameMerges ==
  ASSUME NEW n, NEW E, NEW s, NEW t, NEW k, NEW z, NEW first, NEW last,
         Merges(E, n, s, t, k, z, first, last), NEW q, SameLists(s, q)
  PROVE  Merges(E, n, q, t, k, z, first, last)
<1>1. InPlace(q.m, first, last) = InPlace(s.m, first, last) /\ Waiting(t, q.m) = Waiting(t, s.m)
  BY DEF SameLists, InPlace, Waiting
<1>2. Located(q.m, n, k, first, last)
  BY <1>1 DEF SameLists, Merges, Located
<1>3. /\ z \in ArrayOn(n, E) /\ q.a \in ArrayOn(n, E) /\ q.m \in MergeType /\ t \in [0 .. k - 1 -> E]
      /\ \A i \in (0 .. n - 1) \ (first .. last) : q.a[i] = z[i]
  BY DEF SameLists, Merges
<1>4. Mixed(E, s.m.dir, {z[i] : i \in first .. last}, Region(s.a, s.m.dir, first, last),
            Waiting(t, s.m), InPlace(s.m, first, last), s.m.len_t, s.m.len_a)
  BY DEF Merges
<1>5. Mixed(E, q.m.dir, {z[i] : i \in first .. last}, Region(q.a, q.m.dir, first, last),
            Waiting(t, q.m), InPlace(q.m, first, last), q.m.len_t, q.m.len_a)
  BY <1>1, <1>4 DEF SameLists
<1> QED
  BY <1>2, <1>3, <1>5, Zenon DEF Merges

LEMMA TakenPairs ==
  ASSUME NEW s, NEW c
  PROVE  IsPair(TakeA(s, c)) /\ IsPair(TakeT(s, c))
BY DEF IsPair, TakeA, TakeT

(* A step of the loops, with the check for the end of the merge. *)
LEMMA AtStep ==
  ASSUME NEW s, IsPair(s), s.m \in MergeType, NEW step \in {"race", "gallop", "gallop2"}
  PROVE  SameLists(s, At(s, step)) /\ StepOK(At(s, step).m)
<1> DEFINE to == IF Ends(s) THEN "outer" ELSE step
           m == [s.m EXCEPT !.step = to]
<1>1. At(s, step) = [a |-> s.a, m |-> m]
  BY DEF IsPair, At
<1>2. to \in {"race", "gallop", "gallop2", "outer"}
  OBVIOUS
<1>3. to = "outer" <=> Ends(s)
  OBVIOUS
<1> HIDE DEF to
<1>4. /\ m \in MergeType /\ m.step = to
      /\ m.dir = s.m.dir /\ m.dest = s.m.dest
      /\ m.cur_a = s.m.cur_a /\ m.len_a = s.m.len_a
      /\ m.cur_t = s.m.cur_t /\ m.len_t = s.m.len_t
  BY <1>2 DEF MergeType
<1> HIDE DEF m
<1>5. SameLists(s, At(s, step))
  BY <1>1, <1>4 DEF SameLists, IsPair
<1>6. At(s, step).m = m
  BY <1>1
<1>7. StepOK(m)
  BY <1>3, <1>4 DEF StepOK, Ends
<1> QED
  BY <1>5, <1>6, <1>7

LEMMA SameListsTwice ==
  ASSUME NEW s, NEW q, NEW r, SameLists(s, q), SameLists(q, r)
  PROVE  SameLists(s, r)
BY DEF SameLists

LEMMA HalfTurnStep ==
  ASSUME NEW s, IsPair(s), s.m \in MergeType, s.m.step \in {"gallop", "gallop2"}
  PROVE  SameLists(s, HalfTurn(s)) /\ StepOK(HalfTurn(s).m)
<1> DEFINE left == s.m.min_gallop - 1
           gains == s.m.count_a >= MinGallop \/ s.m.count_t >= MinGallop
           q == [s EXCEPT !.m.min_gallop = left]
           more == (IF left < 0 THEN 0 ELSE left) + 2
           r == [s EXCEPT !.m = [@ EXCEPT !.min_gallop = more, !.count_a = 0, !.count_t = 0]]
<1>0. s.m.min_gallop \in Int
  BY DEF MergeType
<1>1. CASE Ends(s)
  <2>1. HalfTurn(s) = [s EXCEPT !.m.step = "outer"]
    BY <1>1 DEF HalfTurn, At
  <2>2. At(s, "gallop") = [s EXCEPT !.m.step = "outer"]
    BY <1>1 DEF At
  <2> QED
    BY <2>1, <2>2, AtStep
<1>2. CASE ~Ends(s) /\ s.m.step = "gallop"
  <2>1. HalfTurn(s) = At(s, "gallop2")
    BY <1>2 DEF HalfTurn
  <2> QED
    BY <2>1, AtStep
<1>3. CASE ~Ends(s) /\ s.m.step = "gallop2" /\ gains
  <2>1. HalfTurn(s) = At(q, "gallop")
    BY <1>3 DEF HalfTurn
  <2> DEFINE m == [s.m EXCEPT !.min_gallop = left]
  <2>2. q = [a |-> s.a, m |-> m]
    BY DEF IsPair
  <2>3. left \in Int
    BY <1>0
  <2> HIDE DEF left
  <2>4. /\ m \in MergeType
        /\ m.dir = s.m.dir /\ m.dest = s.m.dest
        /\ m.cur_a = s.m.cur_a /\ m.len_a = s.m.len_a
        /\ m.cur_t = s.m.cur_t /\ m.len_t = s.m.len_t
    BY <2>3 DEF MergeType
  <2> HIDE DEF m, q
  <2>5. SameLists(s, q)
    BY <2>2, <2>4 DEF SameLists, IsPair
  <2>6. IsPair(q) /\ q.m \in MergeType
    BY <2>5 DEF SameLists
  <2>7. SameLists(q, At(q, "gallop")) /\ StepOK(At(q, "gallop").m)
    BY <2>6, AtStep
  <2> QED
    BY <2>1, <2>5, <2>7, SameListsTwice
<1>4. CASE ~Ends(s) /\ s.m.step = "gallop2" /\ ~gains
  <2>1. HalfTurn(s) = At(r, "race")
    BY <1>4 DEF HalfTurn
  <2> DEFINE o == s.m
             none == 0
             m == [o EXCEPT !.min_gallop = more, !.count_a = none, !.count_t = none]
  <2>2. r = [a |-> s.a, m |-> m] /\ o \in MergeType
    BY DEF IsPair
  <2>3. more \in Int /\ none \in Int
    BY <1>0
  <2> HIDE DEF more, none, o
  <2>4. /\ m \in MergeType
        /\ m.dir = o.dir /\ m.dest = o.dest
        /\ m.cur_a = o.cur_a /\ m.len_a = o.len_a
        /\ m.cur_t = o.cur_t /\ m.len_t = o.len_t
    BY <2>2, <2>3 DEF MergeType
  <2> HIDE DEF m, r
  <2>5. SameLists(s, r)
    BY <2>2, <2>4 DEF SameLists, IsPair, o
  <2>6. IsPair(r) /\ r.m \in MergeType
    BY <2>5 DEF SameLists
  <2>7. SameLists(r, At(r, "race")) /\ StepOK(At(r, "race").m)
    BY <2>6, AtStep
  <2> QED
    BY <2>1, <2>5, <2>7, SameListsTwice
<1> QED
  BY <1>1, <1>2, <1>3, <1>4

LEMMA MergesType ==
  ASSUME NEW n, NEW E, NEW s, NEW t, NEW k, NEW z, NEW first, NEW last,
         Merges(E, n, s, t, k, z, first, last)
  PROVE  s.m \in MergeType
BY DEF Merges

LEMMA MergeIsRecord ==
  ASSUME NEW m \in MergeType
  PROVE  m # << >>
<1>1. "dir" \in DOMAIN m
  BY DEF MergeType
<1>2. DOMAIN << >> = {}
  OBVIOUS
<1> QED
  BY <1>1, <1>2

(* What a step within a merge leaves to be shown. *)
LEMMA StillMerging ==
  ASSUME SortInv, Merging, UNCHANGED <<count, stack, tmp, tmp_count, min_gallop, lo, phase>>,
         NEW z \in ArrayOn(count, Elements), NEW open \in 1 .. Top,
         NEW first \in Nat, NEW last \in Nat, NEW k \in Nat,
         Opened(z, open, first, last), k <= tmp_count,
         NEW q, IsPair(q), Merges(Elements, count, q, tmp, k, z, first, last), StepOK(q.m), Becomes(q)
  PROVE  SortInv'
<1>1. Now' = q
  BY DEF Becomes, Now, IsPair
<1>2. merge' \in MergeType /\ merge' = q.m
  BY MergesType DEF Becomes
<1>3. Merging'
  BY <1>2, MergeIsRecord DEF Merging, NoMerge
<1>4. TileInv'
  BY DEF SortInv, TileInv, RunsTile, Top
<1>5. Top' = Top /\ Opened(z, open, first, last)'
  BY DEF Opened, ArrayInv, RunLast, Top
<1>6. Merges(Elements, count, Now, tmp, k, z, first, last)'
  BY <1>1
<1>7. MergeInv'
  BY <1>1, <1>2, <1>5, <1>6 DEF MergeInv
<1> QED
  BY <1>3, <1>4, <1>7 DEF SortInv

-----------------------------------------------------------------------------
(* What the steps of a merge leave as it is. *)

(* Whatever merge s is in, q is in. *)
Goes(s, q) ==
  /\ IsPair(q)
  /\ \A z, k, first, last :
       Merges(Elements, count, s, tmp, k, z, first, last) => Merges(Elements, count, q, tmp, k, z, first, last)

InMerge(s) == \E z, k, first, last : Merges(Elements, count, s, tmp, k, z, first, last)

LEMMA GoesOn ==
  ASSUME NEW s, NEW q, NEW r, Goes(s, q), Goes(q, r)
  PROVE  Goes(s, r)
BY DEF Goes

LEMMA GoesSame ==
  ASSUME NEW s, NEW q, SameLists(s, q)
  PROVE  Goes(s, q)
<1>1. IsPair(q)
  BY DEF SameLists
<1>2. ASSUME NEW z, NEW k, NEW first, NEW last, Merges(Elements, count, s, tmp, k, z, first, last)
      PROVE  Merges(Elements, count, q, tmp, k, z, first, last)
  BY <1>2, SameMerges
<1> QED
  BY <1>1, <1>2, Zenon DEF Goes

LEMMA GoesTakeA ==
  ASSUME count \in Nat, NEW s, NEW c \in 0 .. s.m.len_a,
         \A j \in 0 .. c - 1 : Before(s.m.dir, Ahead(s, j), Copied(tmp, s.m, 0)),
         s.m.cur_t \in Int
  PROVE  Goes(s, TakeA(s, c))
<1>1. Copied(tmp, s.m, 0) = tmp[s.m.cur_t]
  BY DEF Copied, Onward
<1>2. \A j \in 0 .. c - 1 : Before(s.m.dir, Ahead(s, j), tmp[s.m.cur_t])
  BY <1>1
<1>3. ASSUME NEW z, NEW k, NEW first, NEW last, Merges(Elements, count, s, tmp, k, z, first, last)
      PROVE  Merges(Elements, count, TakeA(s, c), tmp, k, z, first, last)
  BY <1>2, <1>3, ElementsCompare, TakeAMerges
<1> QED
  BY <1>3, TakenPairs, Zenon DEF Goes

LEMMA GoesTakeT ==
  ASSUME count \in Nat, NEW s, NEW c \in 0 .. s.m.len_t - 1,
         \A j \in 0 .. c - 1 : Before(s.m.dir, Copied(tmp, s.m, j), Ahead(s, 0))
  PROVE  Goes(s, TakeT(s, c))
<1>2. \A j \in 0 .. c - 1 : Before(s.m.dir, tmp[Onward(s.m.dir, s.m.cur_t, j)], Ahead(s, 0))
  BY DEF Copied
<1>3. ASSUME NEW z, NEW k, NEW first, NEW last, Merges(Elements, count, s, tmp, k, z, first, last)
      PROVE  Merges(Elements, count, TakeT(s, c), tmp, k, z, first, last)
  BY <1>2, <1>3, ElementsCompare, TakeTMerges
<1> QED
  BY <1>3, TakenPairs, Zenon DEF Goes

(* A merge under way has its two lists. *)
LEMMA MergeGoesOn ==
  ASSUME count \in Nat, NEW s, InMerge(s)
  PROVE  s.m \in MergeType /\ ListsOK(Elements, s, tmp)
<1>1. PICK z, k, first, last : Merges(Elements, count, s, tmp, k, z, first, last)
  BY DEF InMerge
<1> QED
  BY <1>1, MergesType, MergeLists

LEMMA InMergeGoes ==
  ASSUME NEW s, NEW q, InMerge(s), Goes(s, q)
  PROVE  InMerge(q)
BY DEF InMerge, Goes

LEMMA NowInMerge ==
  ASSUME SortInv, Merging
  PROVE  count \in Nat /\ InMerge(Now) /\ StepOK(merge) /\ IsPair(Now) /\ Now.a = array /\ Now.m = merge
<1>1. MergeInv
  BY DEF SortInv
<1>2. InMerge(Now) /\ StepOK(merge)
  BY <1>1 DEF MergeInv, InMerge
<1>3. count \in Nat
  BY DEF SortInv, TileInv
<1> QED
  BY <1>2, <1>3 DEF Now, IsPair

LEMMA GoesStep ==
  ASSUME SortInv, Merging, UNCHANGED <<count, stack, tmp, tmp_count, min_gallop, lo, phase>>,
         NEW q, Goes(Now, q), StepOK(q.m), Becomes(q)
  PROVE  SortInv'
<1>1. MergeInv
  BY DEF SortInv
<1>2. PICK z \in ArrayOn(count, Elements), open \in 1 .. Top, first \in Nat, last \in Nat, k \in Nat :
        /\ Opened(z, open, first, last)
        /\ k <= tmp_count
        /\ Merges(Elements, count, Now, tmp, k, z, first, last)
  BY <1>1 DEF MergeInv
<1>3. Merges(Elements, count, q, tmp, k, z, first, last) /\ IsPair(q)
  BY <1>2 DEF Goes
<1> QED
  BY <1>2, <1>3, StillMerging

(* The next element of the array's run is not moved before its turn. *)
LEMMA AheadStays ==
  ASSUME count \in Nat, NEW s, InMerge(s), NEW j \in 0 .. s.m.len_a - 1,
         NEW src, NEW cur, NEW c \in Nat, c <= s.m.len_t + j
  PROVE  Moved(s.a, s.m, src, cur, c)[Onward(s.m.dir, s.m.cur_a, j)] = Ahead(s, j)
<1>1. PICK z, k, first, last : Merges(Elements, count, s, tmp, k, z, first, last)
  BY DEF InMerge
<1> DEFINE p == InPlace(s.m, first, last)
           h == s.m.len_t
           l == s.m.len_a
           dir == s.m.dir
           dest == s.m.dest
           i == Onward(dir, s.m.cur_a, j)
<1>2. MergeParts(Elements, count, s, k, first, last)
  BY <1>1, MergesParts
<1>3. /\ dir \in {1, -1} /\ h \in Nat /\ l \in Nat /\ p \in Nat /\ dest \in Int
      /\ first \in Nat /\ last \in Nat /\ last < count
      /\ p + h + l = last - first + 1 /\ DOMAIN s.a = 0 .. count - 1
  BY <1>2, Zenon DEF MergeParts
<1>4. Located(s.m, count, k, first, last)
  BY <1>1 DEF Merges
<1>5. dest = Place(dir, first, last, p) /\ s.m.cur_a = Place(dir, first, last, p + h)
  BY <1>4 DEF Located
<1>6. i \in 0 .. count - 1 /\ dir * (i - dest) = h + j
  <2>0. j \in 0 .. l - 1
    OBVIOUS
  <2> HIDE DEF p, h, l
  <2>1. CASE dir = 1
    <3>1. i = first + (p + h) + j /\ dest = first + p
      BY <2>1, <1>5 DEF Onward, Place
    <3> HIDE DEF i, dest
    <3>2. i - dest = h + j /\ i \in 0 .. count - 1
      BY <3>1, <2>0, <1>3
    <3> QED
      BY <3>2, <2>1, <1>3
  <2>2. CASE dir = -1
    <3>1. i = last - (p + h) - j /\ dest = last - p
      BY <2>2, <1>5 DEF Onward, Place
    <3> HIDE DEF i, dest
    <3>2. i - dest = -(h + j) /\ i \in 0 .. count - 1
      BY <3>1, <2>0, <1>3
    <3>3. (-1) * (-(h + j)) = h + j
      BY <1>3
    <3> QED
      BY <3>2, <3>3, <2>2
  <2> QED
    BY <2>1, <2>2, <1>3
<1>7. ~(h + j \in 0 .. c - 1)
  BY <1>3
<1> HIDE DEF i
<1>8. Moved(s.a, s.m, src, cur, c)[i] = s.a[i]
  BY <1>3, <1>6, <1>7 DEF Moved
<1> QED
  BY <1>8 DEF Ahead, i

-----------------------------------------------------------------------------
(* The race. *)

WinsA(s) ==
  IF s.m.dir = 1 THEN cmp(s.a[s.m.cur_a], tmp[s.m.cur_t]) < 0
                 ELSE cmp(tmp[s.m.cur_t], s.a[s.m.cur_a]) < 0

(* The winner of a comparison comes before the loser. *)
LEMMA WinnerFirst ==
  ASSUME NEW s, ListsOK(Elements, s, tmp), s.m.len_a > 0
  PROVE  /\ Ahead(s, 0) = s.a[s.m.cur_a] /\ Copied(tmp, s.m, 0) = tmp[s.m.cur_t]
         /\ WinsA(s) => Before(s.m.dir, Ahead(s, 0), Copied(tmp, s.m, 0))
         /\ ~WinsA(s) => Before(s.m.dir, Copied(tmp, s.m, 0), Ahead(s, 0))
<1> DEFINE x == Ahead(s, 0)
           y == Copied(tmp, s.m, 0)
           dir == s.m.dir
<1>1. /\ dir \in {1, -1} /\ s.m.cur_a \in Int /\ s.m.cur_t \in Int
      /\ 0 \in 0 .. s.m.len_a - 1 /\ 0 \in 0 .. s.m.len_t - 1
  BY DEF ListsOK
<1>2. x = s.a[s.m.cur_a] /\ y = tmp[s.m.cur_t]
  BY <1>1 DEF Ahead, Copied, Onward
<1>3. x \in Elements /\ y \in Elements /\ (x.key = y.key => Before(dir, y, x))
  BY <1>1 DEF ListsOK
<1>4. WinsA(s) <=> IF dir = 1 THEN cmp(x, y) < 0 ELSE cmp(y, x) < 0
  BY <1>2 DEF WinsA
<1> HIDE DEF x, y, dir
<1>5. (cmp(x, y) < 0 <=> x.key < y.key) /\ (cmp(y, x) < 0 <=> y.key < x.key)
  BY <1>3, ElementsCompare DEF Compares
<1>6. /\ (IF dir = 1 THEN x.key < y.key ELSE y.key < x.key) => Before(dir, x, y)
      /\ (IF dir = 1 THEN y.key < x.key ELSE x.key < y.key) => Before(dir, y, x)
      /\ x.key \in Int /\ y.key \in Int
  BY <1>1, <1>3, ElementsCompare, ByKey
<1>7. WinsA(s) => Before(dir, x, y)
  BY <1>4, <1>5, <1>6
<1>8. ~WinsA(s) => Before(dir, y, x)
  <2>1. x.key < y.key \/ x.key = y.key \/ y.key < x.key
    BY <1>6
  <2> QED
    BY <2>1, <1>1, <1>3, <1>4, <1>5, <1>6
<1> QED
  BY <1>2, <1>7, <1>8 DEF x, y, dir

LEMMA RaceKeeps == SortInv /\ Race => SortInv'
<1> SUFFICES ASSUME SortInv, Race PROVE SortInv'
  OBVIOUS
<1> DEFINE s == Now
           wins_a == WinsA(s)
           taken == IF wins_a THEN TakeA(s, 1) ELSE TakeT(s, 1)
           count_a == IF wins_a THEN merge.count_a + 1 ELSE 0
           count_t == IF wins_a THEN 0 ELSE merge.count_t + 1
           next == IF count_a + count_t < merge.min_gallop THEN "race" ELSE "gallop"
           m == [taken.m EXCEPT !.count_a = count_a, !.count_t = count_t]
           counted == [taken EXCEPT !.m = m]
           q == At(counted, next)
<1>1. Merging /\ merge.step = "race" /\ UNCHANGED <<count, stack, tmp, tmp_count, min_gallop, lo, phase>>
  BY DEF Race
<1>2. /\ count \in Nat /\ InMerge(s) /\ StepOK(merge) /\ IsPair(s) /\ s.a = array /\ s.m = merge
      /\ s.m \in MergeType /\ ListsOK(Elements, s, tmp)
  BY <1>1, NowInMerge, MergeGoesOn
<1>3. Becomes(q)
  <2>1. taken.m = taken.m
    OBVIOUS
  <2> QED
    BY <1>2 DEF Race, WinsA
<1>4. /\ s.m.len_a \in Nat \ {0} /\ s.m.len_t \in Nat /\ s.m.len_t > 1 /\ s.m.cur_t \in Int
      /\ merge.count_a \in Int /\ merge.count_t \in Int
  BY <1>1, <1>2 DEF StepOK, MergeType
<1>5. Goes(s, taken)
  <2>1. \A j \in 0 .. 1 - 1 : j = 0
    OBVIOUS
  <2>2. /\ wins_a => Before(s.m.dir, Ahead(s, 0), Copied(tmp, s.m, 0))
        /\ ~wins_a => Before(s.m.dir, Copied(tmp, s.m, 0), Ahead(s, 0))
    BY <1>2, <1>4, WinnerFirst
  <2>3. 1 \in 0 .. s.m.len_a /\ 1 \in 0 .. s.m.len_t - 1
    BY <1>4
  <2> HIDE DEF s, wins_a
  <2>4. CASE wins_a
    <3>1. Goes(s, TakeA(s, 1))
      BY <2>1, <2>2, <2>3, <2>4, <1>2, <1>4, GoesTakeA
    <3> QED
      BY <3>1, <2>4
  <2>5. CASE ~wins_a
    <3>1. Goes(s, TakeT(s, 1))
      BY <2>1, <2>2, <2>3, <2>5, <1>2, GoesTakeT
    <3> QED
      BY <3>1, <2>5
  <2> QED
    BY <2>4, <2>5
<1>6. count_a \in Int /\ count_t \in Int /\ next \in {"race", "gallop", "gallop2"}
  BY <1>4
<1>7. taken.m \in MergeType /\ IsPair(taken)
  <2>1. InMerge(taken)
    BY <1>2, <1>5, InMergeGoes
  <2> QED
    BY <2>1, <1>2, <1>5, MergeGoesOn DEF Goes
<1> HIDE DEF s, taken, count_a, count_t, next
<1>8. SameLists(taken, counted)
  <2> DEFINE o == taken.m
  <2>1. o \in MergeType
    BY <1>7
  <2>2. counted = [a |-> taken.a, m |-> m]
    BY <1>7 DEF IsPair
  <2>3. /\ m \in MergeType
        /\ m.dir = o.dir /\ m.dest = o.dest
        /\ m.cur_a = o.cur_a /\ m.len_a = o.len_a
        /\ m.cur_t = o.cur_t /\ m.len_t = o.len_t
    <3> HIDE DEF o
    <3>1. m = [o EXCEPT !.count_a = count_a, !.count_t = count_t]
      BY DEF o
    <3> HIDE DEF m
    <3> QED
      BY <2>1, <3>1, <1>6 DEF MergeType
  <2> HIDE DEF m, counted
  <2> QED
    BY <2>2, <2>3 DEF SameLists, IsPair
<1> HIDE DEF counted
<1>9. SameLists(counted, q) /\ StepOK(q.m)
  <2>1. IsPair(counted) /\ counted.m \in MergeType
    BY <1>8 DEF SameLists
  <2> QED
    BY <2>1, <1>6, AtStep
<1> HIDE DEF q
<1>10. Goes(s, q)
  BY <1>5, <1>8, <1>9, GoesSame, GoesOn
<1> QED
  BY <1>1, <1>3, <1>9, <1>10, GoesStep DEF s

-----------------------------------------------------------------------------
(* Galloping. *)

(* Noting how many were gained leaves the lists as they are. *)
LEMMA CountedA ==
  ASSUME NEW s, IsPair(s), s.m \in MergeType, NEW c \in Int
  PROVE  LET q == [s EXCEPT !.m.count_a = c]
         IN  SameLists(s, q) /\ q.m.step = s.m.step /\ q.a = s.a
<1> DEFINE o == s.m
           m == [o EXCEPT !.count_a = c]
           q == [s EXCEPT !.m.count_a = c]
<1>1. q = [a |-> s.a, m |-> m]
  BY DEF IsPair
<1>2. /\ m \in MergeType /\ m.step = o.step
      /\ m.dir = o.dir /\ m.dest = o.dest
      /\ m.cur_a = o.cur_a /\ m.len_a = o.len_a
      /\ m.cur_t = o.cur_t /\ m.len_t = o.len_t
  <2>1. o \in MergeType
    OBVIOUS
  <2> HIDE DEF o
  <2> QED
    BY <2>1 DEF MergeType
<1> HIDE DEF m, q
<1>3. SameLists(s, q) /\ q.m.step = s.m.step /\ q.a = s.a
  BY <1>1, <1>2 DEF SameLists, IsPair
<1> QED
  BY <1>3 DEF q

LEMMA CountedT ==
  ASSUME NEW s, IsPair(s), s.m \in MergeType, NEW c \in Int
  PROVE  LET q == [s EXCEPT !.m.count_t = c]
         IN  SameLists(s, q) /\ q.m.step = s.m.step /\ q.a = s.a
<1> DEFINE o == s.m
           m == [o EXCEPT !.count_t = c]
           q == [s EXCEPT !.m.count_t = c]
<1>1. q = [a |-> s.a, m |-> m]
  BY DEF IsPair
<1>2. /\ m \in MergeType /\ m.step = o.step
      /\ m.dir = o.dir /\ m.dest = o.dest
      /\ m.cur_a = o.cur_a /\ m.len_a = o.len_a
      /\ m.cur_t = o.cur_t /\ m.len_t = o.len_t
  <2>1. o \in MergeType
    OBVIOUS
  <2> HIDE DEF o
  <2> QED
    BY <2>1 DEF MergeType
<1> HIDE DEF m, q
<1>3. SameLists(s, q) /\ q.m.step = s.m.step /\ q.a = s.a
  BY <1>1, <1>2 DEF SameLists, IsPair
<1> QED
  BY <1>3 DEF q

LEMMA SameViews ==
  ASSUME NEW s, NEW q, SameLists(s, q)
  PROVE  /\ Ahead(q, 0) = Ahead(s, 0) /\ Copied(tmp, q.m, 0) = Copied(tmp, s.m, 0)
         /\ q.m.dir = s.m.dir /\ q.m.len_a = s.m.len_a /\ q.m.len_t = s.m.len_t
BY DEF SameLists, Ahead, Copied

(* The half of the turn that puts in place what the temporary array has    *)
(* before the next element of the array's run, and then that one.          *)
LEMMA GallopTKeeps == SortInv /\ GallopT => SortInv'
<1> SUFFICES ASSUME SortInv, GallopT PROVE SortInv'
  OBVIOUS
<1> DEFINE s == Now
           x == Ahead(s, 0)
           gained == GainedT(s, x)
           moved == TakeT(s, gained)
           taken == [moved EXCEPT !.m.count_t = gained]
           next == IF Ends(taken) THEN taken ELSE TakeA(taken, 1)
           q == HalfTurn(next)
           dir == s.m.dir
<1>1. /\ Merging /\ merge.step \in {"gallop", "gallop2"}
      /\ UNCHANGED <<count, stack, tmp, tmp_count, min_gallop, lo, phase>>
  BY DEF GallopT
<1>2. /\ count \in Nat /\ InMerge(s) /\ StepOK(merge) /\ IsPair(s) /\ s.a = array /\ s.m = merge
      /\ s.m \in MergeType /\ ListsOK(Elements, s, tmp)
  BY <1>1, NowInMerge, MergeGoesOn
<1>3. s.m.len_a \in Nat \ {0} /\ s.m.len_t \in Nat /\ s.m.cur_t \in Int /\ s.m.cur_a \in Int /\ dir \in {1, -1}
  BY <1>1, <1>2 DEF StepOK, MergeType
<1>4. Becomes(q)
  <2>1. x = array[merge.cur_a]
    BY <1>2, <1>3 DEF Ahead, Onward
  <2>2. gained = IF merge.dir = 1
                   THEN tms_gallop_right(array[merge.cur_a], tmp, merge.cur_t, merge.len_t, 0)
                   ELSE merge.len_t - tms_gallop_left(array[merge.cur_a], tmp, 0, merge.len_t, merge.len_t - 1)
    <3> HIDE DEF x
    <3> QED
      BY <2>1, <1>2 DEF GainedT
  <2> HIDE DEF gained, x
  <2> QED
    BY <2>2 DEF GallopT
<1>5. /\ gained \in 0 .. s.m.len_t - 1
      /\ \A j \in 0 .. gained - 1 : Before(dir, Copied(tmp, s.m, j), x)
      /\ Before(dir, x, Copied(tmp, s.m, gained))
  BY <1>2, <1>3, ElementsCompare, GainedTCounts
<1> HIDE DEF s, gained
<1>6. Goes(s, moved) /\ moved.m \in MergeType /\ IsPair(moved) /\ InMerge(moved)
  <2>1. Goes(s, moved)
    BY <1>2, <1>5, GoesTakeT
  <2> HIDE DEF moved
  <2> QED
    BY <2>1, <1>2, InMergeGoes, MergeGoesOn DEF Goes
<1>7. /\ moved.m.step = s.m.step /\ moved.m.len_a = s.m.len_a /\ moved.m.cur_a = s.m.cur_a /\ moved.m.dir = dir
      /\ moved.m.cur_t = Onward(dir, s.m.cur_t, gained)
      /\ moved.a = Moved(s.a, s.m, tmp, s.m.cur_t, gained)
  <2>1. gained \in 0 .. s.m.len_t
    BY <1>3, <1>5
  <2> QED
    BY <2>1, <1>2, TakeTFields
<1>8. Ahead(moved, 0) = x
  <2>1. 0 \in 0 .. s.m.len_a - 1 /\ gained \in Nat /\ gained <= s.m.len_t + 0
    BY <1>3, <1>5
  <2>2. Moved(s.a, s.m, tmp, s.m.cur_t, gained)[Onward(s.m.dir, s.m.cur_a, 0)] = Ahead(s, 0)
    BY <2>1, <1>2, AheadStays
  <2> HIDE DEF moved
  <2> QED
    BY <2>2, <1>7 DEF Ahead
<1>9. Copied(tmp, moved.m, 0) = Copied(tmp, s.m, gained)
  <2>1. Onward(dir, Onward(dir, s.m.cur_t, gained), 0) = Onward(dir, s.m.cur_t, gained)
    BY <1>3, <1>5 DEF Onward
  <2> HIDE DEF moved
  <2> QED
    BY <2>1, <1>7 DEF Copied
<1> HIDE DEF moved, x
<1>10. SameLists(moved, taken) /\ taken.m.step = moved.m.step
  BY <1>5, <1>6, CountedT
<1>11. Goes(moved, taken) /\ IsPair(taken) /\ taken.m \in MergeType
  BY <1>10, GoesSame DEF SameLists
<1>12. Goes(s, taken)
  BY <1>6, <1>11, GoesOn
<1>13. Ahead(taken, 0) = x /\ Copied(tmp, taken.m, 0) = Copied(tmp, s.m, gained) /\ taken.m.dir = dir
       /\ taken.m.len_a = s.m.len_a
  <2>1. /\ Ahead(taken, 0) = Ahead(moved, 0) /\ Copied(tmp, taken.m, 0) = Copied(tmp, moved.m, 0)
        /\ taken.m.dir = moved.m.dir /\ taken.m.len_a = moved.m.len_a
    BY <1>10, SameViews
  <2> QED
    BY <2>1, <1>7, <1>8, <1>9
<1> HIDE DEF taken
<1>14. Goes(s, next) /\ next.m \in MergeType /\ IsPair(next) /\ next.m.step \in {"gallop", "gallop2"}
  <2>1. CASE Ends(taken)
    BY <2>1, <1>1, <1>2, <1>7, <1>10, <1>11, <1>12
  <2>2. CASE ~Ends(taken)
    <3>1. 1 \in 0 .. taken.m.len_a /\ \A j \in 0 .. 1 - 1 : j = 0
      BY <1>3, <1>13
    <3>2. Before(taken.m.dir, Ahead(taken, 0), Copied(tmp, taken.m, 0))
      BY <1>5, <1>13
    <3>3. taken.m.cur_t \in Int
      BY <1>11 DEF MergeType
    <3>4. Goes(taken, TakeA(taken, 1))
      BY <3>1, <3>2, <3>3, <1>2, GoesTakeA
    <3>5. TakeA(taken, 1).m \in MergeType /\ TakeA(taken, 1).m.step = taken.m.step
      BY <3>1, <1>11, TakeAFields
    <3>6. Goes(s, TakeA(taken, 1))
      BY <3>4, <1>12, GoesOn
    <3> QED
      BY <2>2, <3>5, <3>6, <1>1, <1>2, <1>7, <1>10 DEF Goes
  <2> QED
    BY <2>1, <2>2
<1> HIDE DEF next
<1>15. SameLists(next, q) /\ StepOK(q.m)
  BY <1>14, HalfTurnStep
<1> HIDE DEF q
<1>16. Goes(s, q)
  BY <1>14, <1>15, GoesSame, GoesOn
<1> QED
  BY <1>1, <1>4, <1>15, <1>16, GoesStep DEF s

(* The other half, which does the same for the array's run. *)
LEMMA GallopAKeeps == SortInv /\ GallopA => SortInv'
<1> SUFFICES ASSUME SortInv, GallopA PROVE SortInv'
  OBVIOUS
<1> DEFINE s == Now
           y == Copied(tmp, s.m, 0)
           gained == GainedA(s, y)
           moved == TakeA(s, gained)
           taken == [moved EXCEPT !.m.count_a = gained]
           next == IF Ends(taken) THEN taken ELSE TakeT(taken, 1)
           q == HalfTurn(next)
           dir == s.m.dir
<1>1. /\ Merging /\ merge.step \in {"gallop", "gallop2"}
      /\ UNCHANGED <<count, stack, tmp, tmp_count, min_gallop, lo, phase>>
  BY DEF GallopA
<1>2. /\ count \in Nat /\ InMerge(s) /\ StepOK(merge) /\ IsPair(s) /\ s.a = array /\ s.m = merge
      /\ s.m \in MergeType /\ ListsOK(Elements, s, tmp)
  BY <1>1, NowInMerge, MergeGoesOn
<1>3. s.m.len_a \in Nat \ {0} /\ s.m.len_t \in Nat /\ s.m.cur_t \in Int /\ s.m.cur_a \in Int /\ dir \in {1, -1}
  BY <1>1, <1>2 DEF StepOK, MergeType
<1>4. Becomes(q)
  <2>1. y = tmp[merge.cur_t]
    BY <1>2, <1>3 DEF Copied, Onward
  <2> DEFINE base == IF merge.dir = 1 THEN merge.cur_a ELSE merge.cur_a - merge.len_a + 1
  <2>2. gained = IF merge.dir = 1
                   THEN tms_gallop_left(tmp[merge.cur_t], array, base, merge.len_a, 0)
                   ELSE merge.len_a - tms_gallop_right(tmp[merge.cur_t], array, base, merge.len_a, merge.len_a - 1)
    <3> HIDE DEF y
    <3> QED
      BY <2>1, <1>2 DEF GainedA
  <2> HIDE DEF gained, y
  <2> QED
    BY <2>2 DEF GallopA
<1>5. /\ gained \in 0 .. s.m.len_a
      /\ \A j \in 0 .. gained - 1 : Before(dir, Ahead(s, j), y)
      /\ gained < s.m.len_a => Before(dir, y, Ahead(s, gained))
  BY <1>2, <1>3, ElementsCompare, GainedACounts
<1> HIDE DEF s, gained
<1>6. Goes(s, moved) /\ moved.m \in MergeType /\ IsPair(moved) /\ InMerge(moved)
  <2>1. Goes(s, moved)
    BY <1>2, <1>3, <1>5, GoesTakeA
  <2> HIDE DEF moved
  <2> QED
    BY <2>1, <1>2, InMergeGoes, MergeGoesOn DEF Goes
<1>7. /\ moved.m.step = s.m.step /\ moved.m.len_t = s.m.len_t /\ moved.m.cur_t = s.m.cur_t /\ moved.m.dir = dir
      /\ moved.m.cur_a = Onward(dir, s.m.cur_a, gained) /\ moved.m.len_a = s.m.len_a - gained
      /\ moved.a = Moved(s.a, s.m, s.a, s.m.cur_a, gained)
  BY <1>2, <1>5, TakeAFields
<1>8. gained < s.m.len_a => Ahead(moved, 0) = Ahead(s, gained)
  <2> SUFFICES ASSUME gained < s.m.len_a PROVE Ahead(moved, 0) = Ahead(s, gained)
    OBVIOUS
  <2>1. gained \in 0 .. s.m.len_a - 1 /\ gained \in Nat /\ gained <= s.m.len_t + gained
    BY <1>3, <1>5
  <2>2. Moved(s.a, s.m, s.a, s.m.cur_a, gained)[Onward(s.m.dir, s.m.cur_a, gained)] = Ahead(s, gained)
    BY <2>1, <1>2, AheadStays
  <2>3. Onward(dir, Onward(dir, s.m.cur_a, gained), 0) = Onward(dir, s.m.cur_a, gained)
    BY <1>3, <1>5 DEF Onward
  <2>4. Ahead(moved, 0) = moved.a[Onward(dir, Onward(dir, s.m.cur_a, gained), 0)]
    <3> HIDE DEF moved
    <3> QED
      BY <1>7 DEF Ahead
  <2> HIDE DEF moved
  <2> QED
    BY <2>2, <2>3, <2>4, <1>7
<1>9. Copied(tmp, moved.m, 0) = y
  <2> HIDE DEF moved
  <2> QED
    BY <1>7 DEF Copied
<1> HIDE DEF moved, y
<1>10. SameLists(moved, taken) /\ taken.m.step = moved.m.step
  BY <1>5, <1>6, CountedA
<1>11. Goes(moved, taken) /\ IsPair(taken) /\ taken.m \in MergeType
  BY <1>10, GoesSame DEF SameLists
<1>12. Goes(s, taken)
  BY <1>6, <1>11, GoesOn
<1>13. /\ Ahead(taken, 0) = Ahead(moved, 0) /\ Copied(tmp, taken.m, 0) = y /\ taken.m.dir = dir
       /\ taken.m.len_a = s.m.len_a - gained /\ taken.m.len_t \in Nat
  <2>1. /\ Ahead(taken, 0) = Ahead(moved, 0) /\ Copied(tmp, taken.m, 0) = Copied(tmp, moved.m, 0)
        /\ taken.m.dir = moved.m.dir /\ taken.m.len_a = moved.m.len_a
    BY <1>10, SameViews
  <2>2. taken.m.len_t \in Nat
    BY <1>11 DEF MergeType
  <2> QED
    BY <2>1, <2>2, <1>7, <1>9
<1> HIDE DEF taken
<1>14. Goes(s, next) /\ next.m \in MergeType /\ IsPair(next) /\ next.m.step \in {"gallop", "gallop2"}
  <2>1. CASE Ends(taken)
    BY <2>1, <1>1, <1>2, <1>7, <1>10, <1>11, <1>12
  <2>2. CASE ~Ends(taken)
    <3>1. 1 \in 0 .. taken.m.len_t /\ 1 \in 0 .. taken.m.len_t - 1 /\ \A j \in 0 .. 1 - 1 : j = 0
      BY <2>2, <1>13 DEF Ends
    <3>2. Before(taken.m.dir, Copied(tmp, taken.m, 0), Ahead(taken, 0))
      <4>1. gained < s.m.len_a
        BY <2>2, <1>3, <1>5, <1>13 DEF Ends
      <4> QED
        BY <4>1, <1>5, <1>8, <1>13
    <3>4. Goes(taken, TakeT(taken, 1))
      BY <3>1, <3>2, <1>2, GoesTakeT
    <3>5. TakeT(taken, 1).m \in MergeType /\ TakeT(taken, 1).m.step = taken.m.step
      BY <3>1, <1>11, TakeTFields
    <3>6. Goes(s, TakeT(taken, 1))
      BY <3>4, <1>12, GoesOn
    <3> QED
      BY <2>2, <3>5, <3>6, <1>1, <1>2, <1>7, <1>10 DEF Goes
  <2> QED
    BY <2>1, <2>2
<1> HIDE DEF next
<1>15. SameLists(next, q) /\ StepOK(q.m)
  BY <1>14, HalfTurnStep
<1> HIDE DEF q
<1>16. Goes(s, q)
  BY <1>14, <1>15, GoesSame, GoesOn
<1> QED
  BY <1>1, <1>4, <1>15, <1>16, GoesStep DEF s

-----------------------------------------------------------------------------
(* The end of a merge. *)

(* Only the last element of the temporary array may be left, and the rest  *)
(* of the array's run comes before it.                                     *)
LEMMA RestMoves ==
  ASSUME SortInv, Merging, merge.step = "outer"
  PROVE  Goes(Now, TakeA(Now, merge.len_a))
<1> DEFINE s == Now
<1>1. /\ count \in Nat /\ InMerge(s) /\ StepOK(merge) /\ s.m = merge
      /\ s.m \in MergeType /\ ListsOK(Elements, s, tmp)
  BY NowInMerge, MergeGoesOn
<1> HIDE DEF s
<1>2. s.m.len_a \in Nat /\ s.m.len_t \in Nat \ {0} /\ s.m.cur_t \in Int
  BY <1>1 DEF ListsOK
<1>3. s.m.len_a = 0 \/ s.m.len_t <= 1
  BY <1>1 DEF StepOK
<1>4. \A j \in 0 .. s.m.len_a - 1 : Before(s.m.dir, Ahead(s, j), Copied(tmp, s.m, 0))
  <2> TAKE j \in 0 .. s.m.len_a - 1
  <2>1. s.m.len_t - 1 = 0
    BY <1>2, <1>3
  <2>2. Before(s.m.dir, Ahead(s, j), Copied(tmp, s.m, s.m.len_t - 1))
    BY <1>1 DEF ListsOK
  <2> QED
    BY <2>1, <2>2
<1>5. s.m.len_a \in 0 .. s.m.len_a
  BY <1>2
<1>6. Goes(s, TakeA(s, s.m.len_a))
  BY <1>1, <1>2, <1>4, <1>5, GoesTakeA
<1> QED
  BY <1>1, <1>6 DEF s

LEMMA FinishMergeKeeps == SortInv /\ FinishMerge => SortInv'
<1> SUFFICES ASSUME SortInv, FinishMerge PROVE SortInv'
  OBVIOUS
<1>1. /\ Merging /\ merge.step = "outer" /\ UNCHANGED <<count, stack, tmp_count, lo, phase>>
      /\ array' = TakeT(TakeA(Now, merge.len_a), merge.len_t).a /\ merge' = NoMerge
      /\ min_gallop' = IF merge.min_gallop < 1 THEN 1 ELSE merge.min_gallop
  BY DEF FinishMerge
<1> DEFINE s == Now
           q == TakeA(s, merge.len_a)
           b == TakeT(q, merge.len_t).a
<1>2. count \in Nat /\ InMerge(s) /\ s.m = merge /\ merge \in MergeType
  BY <1>1, NowInMerge, MergeGoesOn
<1>3. MergeInv /\ TileInv /\ phase \in {"collapse", "force"} /\ (phase = "force" => lo = count)
      /\ (count < MinMerge => stack = << >>) /\ tmp_count \in Nat
  BY <1>1 DEF SortInv
<1>4. PICK z \in ArrayOn(count, Elements), open \in 1 .. Top, first \in Nat, last \in Nat, k \in Nat :
        /\ Opened(z, open, first, last)
        /\ Merges(Elements, count, s, tmp, k, z, first, last)
  BY <1>3 DEF MergeInv
<1>5. merge.len_a \in Nat /\ merge.len_t \in Nat /\ merge.min_gallop \in Int
  BY <1>2 DEF MergeType
<1>6. q.m.len_a = 0 /\ q.m.len_t = merge.len_t
  <2>1. merge.len_a \in 0 .. s.m.len_a
    BY <1>2, <1>5
  <2>2. q.m.len_a = s.m.len_a - merge.len_a /\ q.m.len_t = s.m.len_t
    BY <2>1, <1>2, TakeAFields
  <2> QED
    BY <2>2, <1>2, <1>5
<1>7. Goes(s, q)
  BY <1>1, RestMoves
<1> HIDE DEF s, q
<1>8. Merges(Elements, count, q, tmp, k, z, first, last)
  BY <1>4, <1>7 DEF Goes
<1>9. b \in ArrayOn(count, Elements) /\ Rearranged(z, b, first, last) /\ Ordered(b, first, last)
  BY <1>2, <1>6, <1>8, LastMerges, ElementsCompare
<1>10. first <= last /\ last < count
  <2>1. MergeParts(Elements, count, q, k, first, last)
    BY <1>2, <1>8, MergesParts
  <2> QED
    BY <2>1 DEF MergeParts
<1> HIDE DEF b
<1>11. /\ ArrayInv(z, open) /\ stack[open].base <= first /\ last <= RunLast(open)
       /\ Framed(z, stack[open].base, first, last, RunLast(open))
  BY <1>4 DEF Opened
<1>12. /\ stack[open].base \in Nat /\ RunLast(open) \in Nat /\ RunLast(open) < count
  <2>1. stack[open].base \in Nat /\ RunLast(open) \in Nat /\ RunLast(open) < lo
    BY <1>3, RunsApart
  <2>2. lo \in 0 .. count
    BY <1>3 DEF TileInv
  <2> QED
    BY <2>1, <2>2, <1>2
<1>13. Ordered(b, stack[open].base, RunLast(open))
  BY <1>2, <1>9, <1>10, <1>11, <1>12, FramedOrdered
<1>14. ArrayInv(b, 0)
  BY <1>3, <1>9, <1>10, <1>11, <1>13, RearrangedRuns
<1>15. array' = b
  BY <1>1 DEF b, q, s
<1>16. ArrayInv(array, 0)'
  <2>1. array' = b /\ UNCHANGED <<count, stack, lo, phase>>
    BY <1>1, <1>15
  <2> QED
    BY <2>1, <1>14 DEF ArrayInv, RunLast, Top
<1>17. ~Merging'
  BY <1>1 DEF Merging
<1>18. TileInv'
  BY <1>1, <1>3 DEF TileInv, RunsTile, Top
<1>19. min_gallop' \in Int
  BY <1>1, <1>5
<1> QED
  BY <1>1, <1>3, <1>16, <1>17, <1>18, <1>19 DEF SortInv

-----------------------------------------------------------------------------
(* The beginning of a merge. *)

(* Two neighbouring parts of an array, from first on and from mid on.  Each *)
(* is in order, of equal elements those of the first part come first, and  *)
(* neither the first element of all nor the last is where it belongs.      *)
Parts(z, first, mid, last) ==
  /\ Ordered(z, first, mid - 1) /\ Ordered(z, mid, last)
  /\ \A i \in first .. mid - 1 : Precedes(z[mid], z[i])
  /\ \A i \in mid .. last : Precedes(z[i], z[mid - 1])
  /\ \A i \in first .. mid - 1, j \in mid .. last : z[i].key = z[j].key => Precedes(z[i], z[j])

(* Seen from the end that is filled first, the h elements that are copied  *)
(* come first.                                                             *)
PartsSeen(dir, r, h, l) ==
  /\ \A i, j \in 0 .. h - 1 : i < j => Before(dir, r[i], r[j])
  /\ \A i, j \in h .. h + l - 1 : i < j => Before(dir, r[i], r[j])
  /\ \A i \in h .. h + l - 1 : Before(dir, r[i], r[h - 1])
  /\ Before(dir, r[h], r[0])
  /\ \A i \in h .. h + l - 1, j \in 0 .. h - 1 : r[i].key = r[j].key => Before(dir, r[j], r[i])

LEMMA MixedAtFirst ==
  ASSUME NEW E, NEW dir, NEW r, NEW u, NEW h \in Nat \ {0}, NEW l \in Nat,
         r \in [0 .. h + l - 1 -> E], u \in [0 .. h - 1 -> E],
         \A j \in 0 .. h - 1 : u[j] = r[j], PartsSeen(dir, r, h, l),
         NEW none, none = 0
  PROVE  Mixed(E, dir, {r[i] : i \in 0 .. h + l - 1}, r, u, none, h, l)
<1>1. MixedType(E, r, u, none, h, l)
  <2>1. none \in Nat /\ none + h + l - 1 = h + l - 1
    OBVIOUS
  <2> QED
    BY <2>1 DEF MixedType
<1>2. Outside(none, h, l) = h .. h + l - 1
  BY DEF Outside
<1>3. MixedAll({r[i] : i \in 0 .. h + l - 1}, r, u, none, h, l)
  <2> DEFINE all == {r[i] : i \in 0 .. h + l - 1}
             far == {r[i] : i \in h .. h + l - 1}
             near == {u[i] : i \in 0 .. h - 1}
  <2>1. ASSUME NEW i \in 0 .. h + l - 1 PROVE r[i] \in far \cup near
    <3>1. CASE i < h
      <4>1. i \in 0 .. h - 1 /\ r[i] = u[i]
        BY <3>1
      <4> QED
        BY <4>1
    <3>2. CASE i >= h
      <4>1. i \in h .. h + l - 1
        BY <3>2
      <4> QED
        BY <4>1
    <3> QED
      BY <3>1, <3>2
  <2>2. \A i \in h .. h + l - 1 : r[i] \in all
    OBVIOUS
  <2>3. \A i \in 0 .. h - 1 : u[i] \in all
    BY SMTT(30)
  <2>4. all = far \cup near
    <3> HIDE DEF all
    <3>1. all \subseteq far \cup near
      <4> HIDE DEF far, near
      <4> QED
        BY <2>1 DEF all
    <3>2. far \cup near \subseteq all
      BY <2>2, <2>3
    <3> QED
      BY <3>1, <3>2
  <2>5. all = {r[i] : i \in Outside(none, h, l)} \cup near
    BY <1>2, <2>4
  <2> QED
    BY <2>5, Zenon DEF MixedAll
<1>4. MixedOrder(dir, r, u, none, h, l)
  <2>1. none + h = h /\ none + h + l - 1 = h + l - 1 /\ (\A i \in 0 .. none - 1 : FALSE) /\ h - 1 \in 0 .. h - 1
    OBVIOUS
  <2>2. \A i, j \in 0 .. h - 1 : i < j => Before(dir, u[i], u[j])
    BY DEF PartsSeen
  <2>3. \A i, j \in Outside(none, h, l) : i < j => Before(dir, r[i], r[j])
    BY <1>2 DEF PartsSeen
  <2>4. \A i \in h .. h + l - 1 : Before(dir, r[i], u[h - 1])
    BY <2>1 DEF PartsSeen
  <2>5. \A i \in h .. h + l - 1, j \in 0 .. h - 1 : r[i].key = u[j].key => Before(dir, u[j], r[i])
    BY DEF PartsSeen
  <2> QED
    BY <2>1, <2>2, <2>3, <2>4, <2>5 DEF MixedOrder
<1> QED
  BY <1>1, <1>3, <1>4, Zenon DEF Mixed

LEMMA SeenFromEither ==
  ASSUME NEW z, NEW dir \in {1, -1}, NEW first \in Nat, NEW mid \in Nat, NEW last \in Nat,
         first < mid, mid <= last, Parts(z, first, mid, last)
  PROVE  LET len1 == mid - first
             len2 == last - mid + 1
         IN  PartsSeen(dir, Region(z, dir, first, last), IF dir = 1 THEN len1 ELSE len2,
                       IF dir = 1 THEN len2 ELSE len1)
<1> DEFINE r == Region(z, dir, first, last)
           len1 == mid - first
           len2 == last - mid + 1
<1>1. /\ \A i, j \in first .. mid - 1 : i < j => Precedes(z[i], z[j])
      /\ \A i, j \in mid .. last : i < j => Precedes(z[i], z[j])
      /\ \A i \in first .. mid - 1 : Precedes(z[mid], z[i])
      /\ \A i \in mid .. last : Precedes(z[i], z[mid - 1])
      /\ \A i \in first .. mid - 1, j \in mid .. last : z[i].key = z[j].key => Precedes(z[i], z[j])
  BY DEF Parts, Ordered
<1>2. len1 \in Nat \ {0} /\ len2 \in Nat \ {0} /\ len1 + len2 = last - first + 1 /\ len2 + len1 = last - first + 1
  OBVIOUS
<1>3. CASE dir = 1
  <2>1. \A i \in 0 .. last - first : r[i] = z[first + i]
    BY <1>3 DEF Region, Place
  <2> HIDE DEF r
  <2>2. \A i \in 0 .. len1 - 1 : r[i] = z[first + i] /\ first + i \in first .. mid - 1
    BY <2>1
  <2>3. \A i \in len1 .. len1 + len2 - 1 : r[i] = z[first + i] /\ first + i \in mid .. last
    BY <2>1
  <2>4. r[len1 - 1] = z[mid - 1] /\ r[len1] = z[mid] /\ r[0] = z[first]
    <3>1. /\ first + (len1 - 1) = mid - 1 /\ first + len1 = mid /\ first + 0 = first
          /\ len1 - 1 \in 0 .. last - first /\ len1 \in 0 .. last - first /\ 0 \in 0 .. last - first
      OBVIOUS
    <3> HIDE DEF len1
    <3> QED
      BY <3>1, <2>1
  <2>5. \A i, j \in Int : i < j <=> first + i < first + j
    OBVIOUS
  <2>6. first \in first .. mid - 1
    OBVIOUS
  <2> HIDE DEF len1, len2
  <2>7. PartsSeen(dir, r, len1, len2)
    <3>1. \A i, j \in 0 .. len1 - 1 : i < j => Before(dir, r[i], r[j])
      BY <1>1, <1>3, <2>2, <2>5 DEF Before
    <3>2. \A i, j \in len1 .. len1 + len2 - 1 : i < j => Before(dir, r[i], r[j])
      BY <1>1, <1>2, <1>3, <2>3, <2>5 DEF Before
    <3>3. \A i \in len1 .. len1 + len2 - 1 : Before(dir, r[i], r[len1 - 1])
      BY <1>1, <1>3, <2>3, <2>4 DEF Before
    <3>4. Before(dir, r[len1], r[0])
      BY <1>1, <1>3, <2>4, <2>6 DEF Before
    <3>5. \A i \in len1 .. len1 + len2 - 1, j \in 0 .. len1 - 1 : r[i].key = r[j].key => Before(dir, r[j], r[i])
      BY <1>1, <1>3, <2>2, <2>3 DEF Before
    <3> QED
      BY <3>1, <3>2, <3>3, <3>4, <3>5, Zenon DEF PartsSeen
  <2> QED
    BY <1>3, <2>7 DEF r, len1, len2
<1>4. CASE dir = -1
  <2>1. \A i \in 0 .. last - first : r[i] = z[last - i]
    BY <1>4 DEF Region, Place
  <2> HIDE DEF r
  <2>2. \A i \in 0 .. len2 - 1 : r[i] = z[last - i] /\ last - i \in mid .. last
    BY <2>1
  <2>3. \A i \in len2 .. len2 + len1 - 1 : r[i] = z[last - i] /\ last - i \in first .. mid - 1
    BY <2>1
  <2>4. r[len2 - 1] = z[mid] /\ r[len2] = z[mid - 1] /\ r[0] = z[last]
    <3>1. /\ last - (len2 - 1) = mid /\ last - len2 = mid - 1 /\ last - 0 = last
          /\ len2 - 1 \in 0 .. last - first /\ len2 \in 0 .. last - first /\ 0 \in 0 .. last - first
      OBVIOUS
    <3> HIDE DEF len2
    <3> QED
      BY <3>1, <2>1
  <2>5. \A i, j \in Int : i < j <=> last - j < last - i
    OBVIOUS
  <2>6. last \in mid .. last
    OBVIOUS
  <2> HIDE DEF len1, len2
  <2>7. PartsSeen(dir, r, len2, len1)
    <3>1. \A i, j \in 0 .. len2 - 1 : i < j => Before(dir, r[i], r[j])
      BY <1>1, <1>4, <2>2, <2>5 DEF Before
    <3>2. \A i, j \in len2 .. len2 + len1 - 1 : i < j => Before(dir, r[i], r[j])
      BY <1>1, <1>2, <1>4, <2>3, <2>5 DEF Before
    <3>3. \A i \in len2 .. len2 + len1 - 1 : Before(dir, r[i], r[len2 - 1])
      BY <1>1, <1>4, <2>3, <2>4 DEF Before
    <3>4. Before(dir, r[len2], r[0])
      BY <1>1, <1>4, <2>4, <2>6 DEF Before
    <3>5. \A i \in len2 .. len2 + len1 - 1, j \in 0 .. len2 - 1 : r[i].key = r[j].key => Before(dir, r[j], r[i])
      BY <1>1, <1>4, <2>2, <2>3 DEF Before
    <3> QED
      BY <3>1, <3>2, <3>3, <3>4, <3>5, Zenon DEF PartsSeen
  <2> QED
    BY <1>4, <2>7 DEF r, len1, len2
<1> QED
  BY <1>3, <1>4

Begins(m, first, mid, last) ==
  /\ m.len_t = IF m.dir = 1 THEN mid - first ELSE last - mid + 1
  /\ m.len_a = IF m.dir = 1 THEN last - mid + 1 ELSE mid - first
  /\ m.dest = IF m.dir = 1 THEN first ELSE last
  /\ m.cur_a = IF m.dir = 1 THEN mid ELSE mid - 1
  /\ m.cur_t = IF m.dir = 1 THEN 0 ELSE last - mid

(* What is copied is the part that begins at first or the one at mid. *)
Copies(m, z, t, first, mid) == t = [i \in 0 .. m.len_t - 1 |-> z[(IF m.dir = 1 THEN first ELSE mid) + i]]

LEMMA MergeBegins ==
  ASSUME NEW n \in Nat, NEW E, NEW z \in ArrayOn(n, E), NEW first \in Nat, NEW mid \in Nat, NEW last \in Nat,
         first < mid, mid <= last, last < n, Parts(z, first, mid, last),
         NEW m \in MergeType, Begins(m, first, mid, last),
         NEW t, Copies(m, z, t, first, mid)
  PROVE  /\ Merges(E, n, [a |-> z, m |-> m], t, m.len_t, z, first, last)
         /\ Before(m.dir, z[m.cur_a], t[m.cur_t])
<1> DEFINE dir == m.dir
           h == m.len_t
           l == m.len_a
           r == Region(z, dir, first, last)
           u == Waiting(t, m)
           none == InPlace(m, first, last)
           len1 == mid - first
           len2 == last - mid + 1
<1>1. dir \in {1, -1}
  BY DEF MergeType
<1>2. /\ h = (IF dir = 1 THEN len1 ELSE len2) /\ l = (IF dir = 1 THEN len2 ELSE len1)
      /\ h \in Nat \ {0} /\ l \in Nat \ {0} /\ h + l - 1 = last - first /\ none = 0
  BY <1>1 DEF Begins, InPlace
<1>3. /\ \A i \in 0 .. n - 1 : z[i] \in E
  BY DEF ArrayOn
<1>4. \A j \in 0 .. last - first : r[j] = z[Place(dir, first, last, j)] /\ Place(dir, first, last, j) \in first .. last
  BY <1>1 DEF Region, Place
<1>5. r \in [0 .. h + l - 1 -> E]
  <2>1. \A j \in 0 .. last - first : Place(dir, first, last, j) \in 0 .. n - 1
    BY <1>4
  <2> HIDE DEF h, l
  <2> QED
    BY <2>1, <1>2, <1>3 DEF Region
<1>6. \A j \in 0 .. h - 1 : /\ Onward(dir, m.cur_t, j) \in 0 .. h - 1
                            /\ t[Onward(dir, m.cur_t, j)] = z[Place(dir, first, last, j)]
  <2> TAKE j \in 0 .. h - 1
  <2> DEFINE i == Onward(dir, m.cur_t, j)
  <2>1. CASE dir = 1
    <3>1. i = j /\ i \in 0 .. h - 1 /\ Place(dir, first, last, j) = first + i
      BY <2>1 DEF Begins, Onward, Place
    <3> HIDE DEF i
    <3>2. t[i] = z[first + i]
      BY <2>1, <3>1 DEF Copies
    <3> QED
      BY <3>1, <3>2 DEF i
  <2>2. CASE dir = -1
    <3>1. i = last - mid - j /\ i \in 0 .. h - 1 /\ Place(dir, first, last, j) = mid + i
      BY <2>2 DEF Begins, Onward, Place
    <3> HIDE DEF i
    <3>2. t[i] = z[mid + i]
      BY <2>2, <3>1 DEF Copies
    <3> QED
      BY <3>1, <3>2 DEF i
  <2> QED
    BY <1>1, <2>1, <2>2
<1>7. \A j \in 0 .. h - 1 : u[j] = r[j]
  <2>1. \A j \in 0 .. h - 1 : j \in 0 .. last - first
    BY <1>2
  <2>2. \A j \in 0 .. h - 1 : u[j] = t[Onward(dir, m.cur_t, j)]
    BY DEF Waiting
  <2> HIDE DEF r, u
  <2> QED
    BY <2>1, <2>2, <1>4, <1>6
<1>8. u \in [0 .. h - 1 -> E]
  <2>1. \A j \in 0 .. h - 1 : r[j] \in E
    <3>1. \A j \in 0 .. h - 1 : j \in 0 .. h + l - 1
      BY <1>2
    <3> HIDE DEF r, h, l
    <3> QED
      BY <3>1, <1>5
  <2>2. u = [j \in 0 .. h - 1 |-> u[j]]
    BY DEF Waiting
  <2> HIDE DEF u
  <2> QED
    BY <2>1, <2>2, <1>7
<1>9. PartsSeen(dir, r, h, l)
  BY <1>1, <1>2, SeenFromEither
<1>10. {r[j] : j \in 0 .. h + l - 1} = {z[i] : i \in first .. last}
  <2>1. ASSUME NEW i \in first .. last PROVE \E j \in 0 .. last - first : z[i] = r[j]
    <3> DEFINE j == IF dir = 1 THEN i - first ELSE last - i
    <3>1. j \in 0 .. last - first /\ Place(dir, first, last, j) = i
      BY <1>1 DEF Place
    <3> HIDE DEF j, r
    <3> QED
      BY <3>1, <1>4
  <2>2. ASSUME NEW j \in 0 .. last - first PROVE r[j] \in {z[i] : i \in first .. last}
    BY <1>4
  <2>3. {r[j] : j \in 0 .. last - first} = {z[i] : i \in first .. last}
    <3> HIDE DEF r
    <3> QED
      BY <2>1, <2>2
  <2> QED
    BY <2>3, <1>2
<1> DEFINE all == {z[i] : i \in first .. last}
<1>11. Mixed(E, dir, all, r, u, none, h, l)
  <2>1. h \in Nat \ {0} /\ l \in Nat /\ none = 0 /\ {r[j] : j \in 0 .. h + l - 1} = all
    BY <1>2, <1>10
  <2> HIDE DEF all, r, u, h, l, none, dir
  <2>2. Mixed(E, dir, {r[j] : j \in 0 .. h + l - 1}, r, u, none, h, l)
    BY <2>1, <1>5, <1>7, <1>8, <1>9, MixedAtFirst
  <2> QED
    BY <2>1, <2>2
<1>12. Located(m, n, h, first, last)
  <2>1. /\ m.dest = Place(dir, first, last, none) /\ m.cur_a = Place(dir, first, last, none + h)
        /\ m.cur_t = (IF dir = 1 THEN h - h ELSE h - 1) /\ h <= h
    <3>1. CASE dir = 1
      BY <3>1, <1>2 DEF Begins, Place
    <3>2. CASE dir = -1
      BY <3>2, <1>2 DEF Begins, Place
    <3> QED
      BY <1>1, <3>1, <3>2
  <2> HIDE DEF none
  <2> QED
    BY <2>1, <1>2 DEF Located, none
<1>13. t \in [0 .. h - 1 -> E]
  <2>1. ASSUME NEW i \in 0 .. h - 1
        PROVE  (IF dir = 1 THEN first ELSE mid) + i \in 0 .. n - 1
    BY <1>1, <1>2
  <2> QED
    BY <2>1, <1>3 DEF Copies
<1>14. Merges(E, n, [a |-> z, m |-> m], t, h, z, first, last)
  <2> DEFINE s == [a |-> z, m |-> m]
  <2>1. s.a = z /\ s.m = m
    OBVIOUS
  <2> HIDE DEF s
  <2>2. Merges(E, n, s, t, h, z, first, last)
    BY <2>1, <1>11, <1>12, <1>13 DEF Merges
  <2> QED
    BY <2>2 DEF s
<1>15. Before(m.dir, z[m.cur_a], t[m.cur_t])
  <2>1. Before(dir, r[h], r[0])
    BY <1>9, Zenon DEF PartsSeen
  <2>2. r[h] = z[Place(dir, first, last, h)] /\ r[0] = z[Place(dir, first, last, 0)]
    <3>1. h \in 0 .. last - first /\ 0 \in 0 .. last - first
      BY <1>2
    <3> HIDE DEF r, h
    <3> QED
      BY <3>1, <1>4
  <2>3. Place(dir, first, last, h) = m.cur_a
    <3>1. CASE dir = 1
      BY <3>1, <1>2 DEF Begins, Place
    <3>2. CASE dir = -1
      BY <3>2, <1>2 DEF Begins, Place
    <3> QED
      BY <1>1, <3>1, <3>2
  <2>4. t[m.cur_t] = z[Place(dir, first, last, 0)]
    <3>1. 0 \in 0 .. h - 1 /\ Onward(dir, m.cur_t, 0) = m.cur_t
      <4>1. m.cur_t \in Int
        BY DEF MergeType
      <4> QED
        BY <4>1, <1>2 DEF Onward
    <3> HIDE DEF h, dir
    <3> QED
      BY <3>1, <1>6
  <2> HIDE DEF r
  <2> QED
    BY <2>1, <2>2, <2>3, <2>4
<1> QED
  BY <1>14, <1>15

(* Two neighbouring runs of an array, each in order and the first with the *)
(* older elements. *)
TwoRuns(n, z, base, mid, end) ==
  /\ base \in Nat /\ mid \in Nat /\ end \in Nat /\ base < mid /\ mid <= end /\ end < n
  /\ Ordered(z, base, mid - 1) /\ Ordered(z, mid, end)
  /\ \A i \in base .. mid - 1, j \in mid .. end : z[i].id < z[j].id

(* Before first and behind last the elements are where they belong. *)
PartsBetween(z, base, mid, end, first, last) ==
  /\ first \in base .. mid /\ last \in mid - 1 .. end
  /\ \A i \in base .. mid - 1 : z[i].key <= z[mid].key <=> i < first
  /\ \A i \in mid .. end : z[i].key < z[mid - 1].key <=> i <= last

LEMMA PartsFound ==
  ASSUME NEW n \in Nat, NEW E, Keyed(E), NEW z \in ArrayOn(n, E), NEW base, NEW mid, NEW end,
         TwoRuns(n, z, base, mid, end), NEW first, NEW last, PartsBetween(z, base, mid, end, first, last)
  PROVE  /\ Framed(z, base, first, last, end)
         /\ first < mid /\ mid <= last => Parts(z, first, mid, last)
         /\ first = mid \/ last = mid - 1 => Ordered(z, base, end)
<1>1. /\ base \in Nat /\ mid \in Nat /\ end \in Nat /\ base < mid /\ mid <= end /\ end < n
      /\ first \in base .. mid /\ last \in mid - 1 .. end
      /\ \A i, j \in base .. mid - 1 : i < j => Precedes(z[i], z[j])
      /\ \A i, j \in mid .. end : i < j => Precedes(z[i], z[j])
      /\ \A i \in base .. mid - 1, j \in mid .. end : z[i].id < z[j].id
      /\ \A i \in base .. mid - 1 : z[i].key <= z[mid].key <=> i < first
      /\ \A i \in mid .. end : z[i].key < z[mid - 1].key <=> i <= last
  BY DEF TwoRuns, PartsBetween, Ordered
<1>2. \A i \in base .. end : z[i] \in E /\ z[i].key \in Int
  BY <1>1 DEF ArrayOn, Keyed
<1>3. mid - 1 \in base .. mid - 1 /\ mid \in mid .. end /\ mid \in base .. end /\ mid - 1 \in base .. end
  BY <1>1
<1>4. \A i \in base .. mid - 1 : i < first => Precedes(z[i], z[mid])
  BY <1>1, <1>2, <1>3 DEF Precedes
<1>5. \A i \in mid .. end : i > last => Precedes(z[mid - 1], z[i])
  BY <1>1, <1>2, <1>3 DEF Precedes
<1>6. \A i \in base .. mid - 1 : i >= first => Precedes(z[mid], z[i])
  BY <1>1, <1>2, <1>3 DEF Precedes
<1>7. \A i \in mid .. end : i <= last => Precedes(z[i], z[mid - 1])
  BY <1>1, <1>2, <1>3 DEF Precedes
<1>8. \A i \in base .. mid - 1, j \in mid .. end : i < first \/ j > last => Precedes(z[i], z[j])
  <2> TAKE i \in base .. mid - 1, j \in mid .. end
  <2>0. z[i] \in E /\ z[j] \in E /\ z[mid] \in E /\ z[mid - 1] \in E
    BY <1>1, <1>2, <1>3
  <2>1. CASE i < first
    <3>1. Precedes(z[i], z[mid])
      BY <2>1, <1>4
    <3>2. j = mid \/ Precedes(z[mid], z[j])
      BY <1>1, <1>3
    <3> QED
      BY <3>1, <3>2, <2>0, PrecedesTransitive
  <2>2. CASE j > last
    <3>1. Precedes(z[mid - 1], z[j])
      BY <2>2, <1>5
    <3>2. i = mid - 1 \/ Precedes(z[i], z[mid - 1])
      BY <1>1, <1>3
    <3> QED
      BY <3>1, <3>2, <2>0, PrecedesTransitive
  <2> QED
    BY <2>1, <2>2
<1>9. \A i, j \in base .. end : i < j /\ ~(first <= i /\ j <= last) => Precedes(z[i], z[j])
  <2> TAKE i, j \in base .. end
  <2>1. CASE j < mid
    BY <2>1, <1>1
  <2>2. CASE i >= mid
    BY <2>2, <1>1
  <2>3. CASE i < mid /\ j >= mid
    <3>1. i \in base .. mid - 1 /\ j \in mid .. end
      BY <2>3, <1>1
    <3> QED
      BY <3>1, <1>1, <1>8
  <2> QED
    BY <2>1, <2>2, <2>3, <1>1
<1>10. Framed(z, base, first, last, end)
  BY <1>9, Zenon DEF Framed
<1>11. ASSUME first < mid, mid <= last
       PROVE  Parts(z, first, mid, last)
  <2>1. Ordered(z, first, mid - 1) /\ Ordered(z, mid, last)
    <3>1. \A i \in first .. mid - 1 : i \in base .. mid - 1
      BY <1>1
    <3>2. \A i \in mid .. last : i \in mid .. end
      BY <1>1
    <3> QED
      BY <3>1, <3>2, <1>1 DEF Ordered
  <2>2. \A i \in first .. mid - 1 : Precedes(z[mid], z[i])
    BY <1>1, <1>6
  <2>3. \A i \in mid .. last : Precedes(z[i], z[mid - 1])
    BY <1>1, <1>7
  <2>4. \A i \in first .. mid - 1, j \in mid .. last : z[i].key = z[j].key => Precedes(z[i], z[j])
    BY <1>1 DEF Precedes
  <2> QED
    BY <2>1, <2>2, <2>3, <2>4, Zenon DEF Parts
<1>12. ASSUME first = mid \/ last = mid - 1
       PROVE  Ordered(z, base, end)
  <2>1. ASSUME NEW i \in base .. end, NEW j \in base .. end, i < j
        PROVE  Precedes(z[i], z[j])
    <3>1. CASE j < mid
      BY <3>1, <2>1, <1>1
    <3>2. CASE i >= mid
      BY <3>2, <2>1, <1>1
    <3>3. CASE i < mid /\ j >= mid
      <4>1. i \in base .. mid - 1 /\ j \in mid .. end /\ (i < first \/ j > last)
        BY <3>3, <1>1, <1>12
      <4> QED
        BY <4>1, <1>8
    <3> QED
      BY <3>1, <3>2, <3>3, <1>1
  <2> QED
    BY <2>1 DEF Ordered
<1> QED
  BY <1>10, <1>11, <1>12

(* Such are two neighbours on the stack. *)
LEMMA NeighboursAreRuns ==
  ASSUME TileInv, NEW i \in 1 .. Top - 1, NEW z, ArrayInv(z, 0)
  PROVE  /\ TwoRuns(count, z, stack[i].base, stack[i + 1].base, RunLast(i + 1))
         /\ stack[i].len \in Nat \ {0} /\ stack[i + 1].len \in Nat \ {0}
         /\ stack[i].base + stack[i].len = stack[i + 1].base
         /\ stack[i + 1].base + stack[i + 1].len = RunLast(i + 1) + 1
<1> DEFINE base == stack[i].base
           mid == stack[i + 1].base
           end == RunLast(i + 1)
<1>1. Top \in Nat /\ i \in 1 .. Top /\ i + 1 \in 1 .. Top
  BY RunsApart
<1>2. /\ stack[i].base \in Nat /\ stack[i].len \in Nat \ {0}
      /\ stack[i + 1].base \in Nat /\ stack[i + 1].len \in Nat \ {0}
      /\ RunLast(i + 1) \in Nat /\ stack[i + 1].base <= RunLast(i + 1) /\ RunLast(i + 1) < lo
  BY <1>1, RunsApart
<1>3. stack[i].base + stack[i].len = stack[i + 1].base
  <2>1. stack # << >>
    <3>1. Top = Len(stack) /\ Len(<< >>) = 0
      BY DEF Top
    <3> QED
      BY <3>1, <1>1
  <2> QED
    BY <2>1 DEF TileInv, RunsTile
<1>4. RunLast(i) = mid - 1 /\ stack[i + 1].base + stack[i + 1].len = RunLast(i + 1) + 1
  BY <1>2, <1>3 DEF RunLast
<1>5. lo \in 0 .. count /\ count \in Nat
  BY DEF TileInv
<1>6. base < mid /\ mid <= end /\ end < count
  BY <1>2, <1>3, <1>5
<1>7. Ordered(z, base, mid - 1) /\ Ordered(z, mid, end)
  BY <1>1, <1>4 DEF ArrayInv
<1>8. \A x \in base .. mid - 1, y \in mid .. end : z[x].id < z[y].id
  <2> TAKE x \in base .. mid - 1, y \in mid .. end
  <2>1. z[x].id \in base .. mid - 1
    BY <1>1, <1>4 DEF ArrayInv
  <2>2. z[y].id \in mid .. end
    BY <1>1 DEF ArrayInv
  <2> QED
    BY <2>1, <2>2, <1>2
<1>9. TwoRuns(count, z, base, mid, end)
  <2> HIDE DEF base, mid, end
  <2>1. base \in Nat /\ mid \in Nat /\ end \in Nat
    BY <1>2 DEF base, mid, end
  <2> QED
    BY <2>1, <1>6, <1>7, <1>8, Zenon DEF TwoRuns
<1> QED
  BY <1>2, <1>3, <1>4, <1>9

-----------------------------------------------------------------------------
(* Two runs become one, at once or by a merge that begins. *)

(* The two gallops of tms_merge_at find what is to be merged. *)
First(z, i) == stack[i].base + tms_gallop_right(z[stack[i + 1].base], z, stack[i].base, stack[i].len, 0)

Last(z, i) ==
  stack[i + 1].base - 1
    + tms_gallop_left(z[stack[i + 1].base - 1], z, stack[i + 1].base, stack[i + 1].len, stack[i + 1].len - 1)

LEMMA GallopsFindParts ==
  ASSUME TileInv, NEW i \in 1 .. Top - 1, NEW z, ArrayInv(z, 0)
  PROVE  PartsBetween(z, stack[i].base, stack[i + 1].base, RunLast(i + 1), First(z, i), Last(z, i))
<1> DEFINE base == stack[i].base
           mid == stack[i + 1].base
           end == RunLast(i + 1)
           n1 == stack[i].len
           n2 == stack[i + 1].len
           k == tms_gallop_right(z[mid], z, base, n1, 0)
           len2 == tms_gallop_left(z[mid - 1], z, mid, n2, n2 - 1)
<1>1. /\ base \in Nat /\ mid \in Nat /\ end \in Nat /\ base < mid /\ mid <= end /\ end < count
      /\ Ordered(z, base, mid - 1) /\ Ordered(z, mid, end)
      /\ n1 \in Nat \ {0} /\ n2 \in Nat \ {0} /\ base + n1 = mid /\ mid + n2 = end + 1
  BY NeighboursAreRuns DEF TwoRuns
<1>2. \A p \in base .. end : z[p] \in Elements
  <2>1. z \in [0 .. count - 1 -> Elements]
    BY DEF ArrayInv, ArrayOn
  <2> HIDE DEF base, mid, end
  <2>2. \A p \in base .. end : p \in 0 .. count - 1
    <3>1. count \in Nat
      BY DEF TileInv
    <3> QED
      BY <3>1, <1>1
  <2> QED
    BY <2>1, <2>2
<1>3. First(z, i) = base + k /\ Last(z, i) = mid - 1 + len2
  BY DEF First, Last
<1> HIDE DEF base, mid, end, n1, n2
<1>4. k \in 0 .. n1 /\ \A p \in 0 .. n1 - 1 : z[base + p].key <= z[mid].key <=> p < k
  <2>1. z[mid] \in Elements /\ (\A p \in base .. base + n1 - 1 : z[p] \in Elements)
    BY <1>1, <1>2
  <2>2. Ordered(z, base, base + n1 - 1) /\ 0 \in 0 .. n1 - 1
    BY <1>1
  <2>3. base \in Int /\ n1 \in Nat \ {0}
    BY <1>1
  <2> QED
    BY <2>1, <2>2, <2>3, ElementsCompare, GallopRightCounts
<1>5. len2 \in 0 .. n2 /\ \A p \in 0 .. n2 - 1 : z[mid + p].key < z[mid - 1].key <=> p < len2
  <2>1. z[mid - 1] \in Elements /\ (\A p \in mid .. mid + n2 - 1 : z[p] \in Elements)
    BY <1>1, <1>2
  <2>2. Ordered(z, mid, mid + n2 - 1) /\ n2 - 1 \in 0 .. n2 - 1
    <3>1. mid + n2 - 1 = end
      BY <1>1
    <3> QED
      BY <3>1, <1>1
  <2>3. mid \in Int /\ n2 \in Nat \ {0}
    BY <1>1
  <2> QED
    BY <2>1, <2>2, <2>3, ElementsCompare, GallopLeftCounts
<1> HIDE DEF k, len2
<1>6. \A p \in base .. mid - 1 : z[p].key <= z[mid].key <=> p < base + k
  <2> TAKE p \in base .. mid - 1
  <2>1. p - base \in 0 .. n1 - 1 /\ base + (p - base) = p /\ (p - base < k <=> p < base + k)
    BY <1>1, <1>4
  <2> QED
    BY <2>1, <1>4
<1>7. \A p \in mid .. end : z[p].key < z[mid - 1].key <=> p <= mid - 1 + len2
  <2> TAKE p \in mid .. end
  <2>1. p - mid \in 0 .. n2 - 1 /\ mid + (p - mid) = p /\ (p - mid < len2 <=> p <= mid - 1 + len2)
    BY <1>1, <1>5
  <2> QED
    BY <2>1, <1>5
<1>8. base + k \in base .. mid /\ mid - 1 + len2 \in mid - 1 .. end
  BY <1>1, <1>4, <1>5
<1>9. PartsBetween(z, base, mid, end, base + k, mid - 1 + len2)
  BY <1>6, <1>7, <1>8, Zenon DEF PartsBetween
<1> QED
  BY <1>3, <1>9 DEF base, mid, end

(* The step that begins a merge. *)
LEMMA StartMergeKeeps ==
  ASSUME SortInv, ~Merging, phase \in {"collapse", "force"}, count >= MinMerge,
         NEW z, z = array, NEW i, NEW first \in Nat, NEW mid \in Nat, NEW last \in Nat,
         first < mid, mid <= last, last < count, Parts(z, first, mid, last),
         TileInv', i \in 1 .. Top', Opened(z, i, first, last)',
         UNCHANGED <<count, min_gallop, lo, phase>>,
         StartMerge(first, mid - first, mid, last - mid + 1)
  PROVE  SortInv'
<1> DEFINE len1 == mid - first
           len2 == last - mid + 1
           up == len1 <= len2
           dir == IF up THEN 1 ELSE -1
           base == IF up THEN first ELSE mid
           len == IF up THEN len1 ELSE len2
           m == [dir |-> IF up THEN 1 ELSE -1, step |-> "race", min_gallop |-> min_gallop,
                 dest |-> IF up THEN first ELSE mid + len2 - 1,
                 cur_a |-> IF up THEN mid ELSE first + len1 - 1,
                 len_a |-> IF up THEN len2 ELSE len1,
                 cur_t |-> IF up THEN 0 ELSE len2 - 1,
                 len_t |-> len,
                 count_a |-> 0, count_t |-> 0]
           s == [a |-> array, m |-> m]
           q == At(TakeA(s, 1), "race")
<1>1. /\ tmp' = [j \in 0 .. len - 1 |-> array[base + j]]
      /\ tmp_count' = tms_ensure_capacity(len)
      /\ Becomes(q)
  BY DEF StartMerge
<1>2. count \in Nat /\ tmp_count \in Nat /\ min_gallop \in Int /\ z \in ArrayOn(count, Elements)
  BY DEF SortInv, TileInv, ArrayInv
<1>3. len \in Nat \ {0} /\ len1 \in Nat \ {0} /\ len2 \in Nat \ {0} /\ 2 * len <= count
  BY <1>2
<1>4. m \in MergeType
  <2>1. /\ dir \in {1, -1} /\ (IF up THEN first ELSE mid + len2 - 1) \in Int
        /\ (IF up THEN mid ELSE first + len1 - 1) \in Int /\ (IF up THEN len2 ELSE len1) \in Nat
        /\ (IF up THEN 0 ELSE len2 - 1) \in Int /\ len \in Nat /\ 0 \in Int
    BY <1>3
  <2> HIDE DEF len, len1, len2, up
  <2> QED
    BY <2>1, <1>2 DEF MergeType
<1>5. Begins(m, first, mid, last) /\ m.len_t = len /\ m.step = "race" /\ m.dir = dir /\ (dir = 1 <=> up)
      /\ m.len_a \in Nat \ {0}
  <2>1. /\ m.dir = dir /\ m.len_t = len /\ m.len_a = (IF up THEN len2 ELSE len1)
        /\ m.dest = (IF up THEN first ELSE mid + len2 - 1) /\ m.cur_a = (IF up THEN mid ELSE first + len1 - 1)
        /\ m.cur_t = (IF up THEN 0 ELSE len2 - 1) /\ m.step = "race"
    BY Zenon
  <2>2. dir = 1 <=> up
    OBVIOUS
  <2> HIDE DEF m, up
  <2>3. Begins(m, first, mid, last)
    <3> HIDE DEF dir
    <3> QED
      BY <2>1, <2>2 DEF Begins
  <2> QED
    BY <2>1, <2>2, <2>3, <1>3
<1> HIDE DEF m
<1>6. PICK t : t = tmp'
  OBVIOUS
<1>7. Copies(m, z, t, first, mid)
  <2>1. base = IF m.dir = 1 THEN first ELSE mid
    BY <1>5
  <2> HIDE DEF base, len
  <2> QED
    BY <2>1, <1>1, <1>5, <1>6 DEF Copies
<1>8. /\ Merges(Elements, count, [a |-> z, m |-> m], t, m.len_t, z, first, last)
      /\ Before(m.dir, z[m.cur_a], t[m.cur_t])
  BY <1>2, <1>4, <1>5, <1>7, MergeBegins
<1>9. s.a = z /\ s.m = m /\ s = [a |-> z, m |-> m]
  OBVIOUS
<1> HIDE DEF s
<1>10. Merges(Elements, count, TakeA(s, 1), t, m.len_t, z, first, last)
  <2>1. Merges(Elements, count, s, t, m.len_t, z, first, last)
    BY <1>8, <1>9
  <2>2. Ahead(s, 0) = z[m.cur_a]
    <3>1. Onward(m.dir, m.cur_a, 0) = m.cur_a
      BY <1>4 DEF Onward, MergeType
    <3> QED
      BY <3>1, <1>9 DEF Ahead
  <2>3. \A j \in 0 .. 1 - 1 : j = 0
    OBVIOUS
  <2>4. \A j \in 0 .. 1 - 1 : Before(s.m.dir, Ahead(s, j), t[s.m.cur_t])
    BY <2>2, <2>3, <1>8, <1>9
  <2>5. 1 \in 0 .. s.m.len_a
    BY <1>5, <1>9
  <2> QED
    BY <2>1, <2>4, <2>5, <1>2, ElementsCompare, TakeAMerges
<1>11. SameLists(TakeA(s, 1), q) /\ StepOK(q.m)
  BY <1>10, MergesType, TakenPairs, AtStep
<1>12. Merges(Elements, count, q, t, m.len_t, z, first, last) /\ IsPair(q) /\ q.m \in MergeType
  BY <1>10, <1>11, SameMerges DEF SameLists
<1>13. Now' = q
  <2> HIDE DEF q
  <2> QED
    BY <1>1, <1>12 DEF Becomes, Now, IsPair
<1>14. merge' = q.m
  BY <1>1 DEF Becomes
<1> HIDE DEF q
<1>15. Merging'
  BY <1>12, <1>14, MergeIsRecord DEF Merging, NoMerge
<1>16. m.len_t \in Nat /\ m.len_t <= tmp_count' /\ tmp_count' \in Nat
  <2>1. len \in Nat /\ 2 * len <= count
    BY <1>3
  <2> HIDE DEF len
  <2> QED
    BY <2>1, <1>1, <1>2, <1>5, CapacityEnough
<1>17. PICK k : k = m.len_t
  OBVIOUS
<1>18. k \in Nat /\ k <= tmp_count' /\ z \in ArrayOn(count, Elements)'
       /\ Merges(Elements, count, Now, tmp, k, z, first, last)' /\ StepOK(merge)'
  <2>1. Merges(Elements, count', Now', tmp', k, z, first, last) /\ count' = count
    BY <1>6, <1>12, <1>13, <1>17
  <2>2. z \in ArrayOn(count', Elements)
    BY <1>2, <2>1
  <2>3. StepOK(merge')
    BY <1>11, <1>14
  <2>4. k \in Nat /\ k <= tmp_count'
    BY <1>16, <1>17
  <2> QED
    BY <2>1, <2>2, <2>3, <2>4
<1>19. Opened(z, i, first, last)' /\ i \in 1 .. Top'
  OBVIOUS
<1>20. MergeInv'
  BY <1>18, <1>19 DEF MergeInv
<1>21. TileInv' /\ min_gallop' \in Int /\ tmp_count' \in Nat /\ phase' \in {"collapse", "force"}
  BY <1>2, <1>16
<1>22. (phase' = "force" => lo' = count') /\ (count' < MinMerge => stack' = << >>)
  BY <1>2, TimSortAssumption DEF SortInv
<1> QED
  BY <1>15, <1>20, <1>21, <1>22 DEF SortInv

LEMMA MergeAtKeeps ==
  ASSUME SortInv, ~Merging, phase \in {"collapse", "force"}, NEW i \in 1 .. Top - 1, tms_merge_at(i)
  PROVE  SortInv'
<1>1. TileInv /\ ArrayInv(array, 0) /\ tmp_count \in Nat /\ min_gallop \in Int
  BY DEF SortInv
<1>2. count >= MinMerge
  <2>1. stack # << >>
    <3>1. Top = Len(stack) /\ Len(<< >>) = 0 /\ Top \in Nat
      BY <1>1, RunsApart DEF Top
    <3> QED
      BY <3>1
  <2> QED
    BY <2>1, <1>1, TimSortAssumption DEF SortInv, TileInv
<1>3. PICK z : z = array
  OBVIOUS
<1>4. PICK base : base = stack[i].base
  OBVIOUS
<1>5. PICK mid : mid = stack[i + 1].base
  OBVIOUS
<1>6. PICK end : end = RunLast(i + 1)
  OBVIOUS
<1>7. PICK first : first = First(z, i)
  OBVIOUS
<1>8. PICK last : last = Last(z, i)
  OBVIOUS
<1> DEFINE k == tms_gallop_right(array[stack[i + 1].base], array, stack[i].base, stack[i].len, 0)
           len1 == stack[i].len - k
           len2 == tms_gallop_left(array[stack[i + 1].base - 1], array, stack[i + 1].base, stack[i + 1].len,
                                   stack[i + 1].len - 1)
<1>9. /\ stack' = StackMerged(i)
      /\ IF len1 = 0 \/ len2 = 0 THEN UNCHANGED <<array, tmp, tmp_count, merge>>
         ELSE StartMerge(stack[i].base + k, len1, stack[i + 1].base, len2)
      /\ UNCHANGED <<count, min_gallop, lo, phase>>
  BY DEF tms_merge_at
<1>10. TwoRuns(count, z, base, mid, end) /\ stack[i].len \in Nat \ {0} /\ base + stack[i].len = mid
  BY <1>1, <1>3, <1>4, <1>5, <1>6, NeighboursAreRuns
<1>11. PartsBetween(z, base, mid, end, first, last)
  BY <1>1, <1>3, <1>4, <1>5, <1>6, <1>7, <1>8, GallopsFindParts
<1>12. z \in ArrayOn(count, Elements) /\ count \in Nat
  BY <1>1, <1>3 DEF ArrayInv, TileInv
<1>13. /\ Framed(z, base, first, last, end)
       /\ first < mid /\ mid <= last => Parts(z, first, mid, last)
       /\ first = mid \/ last = mid - 1 => Ordered(z, base, end)
  BY <1>10, <1>11, <1>12, ElementsCompare, PartsFound
<1>14. /\ base \in Nat /\ mid \in Nat /\ end \in Nat /\ end < count
       /\ first \in base .. mid /\ last \in mid - 1 .. end
  BY <1>10, <1>11 DEF TwoRuns, PartsBetween
<1>15. TileInv'
  BY <1>1, MergeTiles
<1>16. /\ ArrayInv(z, i)' /\ i \in 1 .. Top'
       /\ stack'[i].base = base /\ RunLast(i)' = end
  BY <1>1, <1>3, <1>4, <1>6, <1>9, MergedRuns
<1>17. stack[i].base + k = first /\ stack[i + 1].base = mid /\ len1 = mid - first /\ len2 = last - mid + 1
  <2>1. first = base + k /\ last = mid - 1 + len2
    BY <1>3, <1>4, <1>5, <1>7, <1>8 DEF First, Last
  <2> HIDE DEF k, len2
  <2>2. k = first - base /\ len2 = last - mid + 1
    <3>1. first \in Int /\ last \in Int
      BY <1>14
    <3>2. len2 \in Int
      <4>1. stack[i + 1].len \in Nat \ {0} /\ mid + stack[i + 1].len = end + 1
        BY <1>1, <1>3, <1>5, <1>6, NeighboursAreRuns
      <4>2. stack[i + 1].len - 1 \in 0 .. stack[i + 1].len - 1
        BY <4>1
      <4> QED
        BY <4>1, <4>2, GallopBounds DEF len2, tms_gallop_left
    <3>3. k \in Int
      <4>1. 0 \in 0 .. stack[i].len - 1
        BY <1>10
      <4> QED
        BY <4>1, <1>10, GallopBounds DEF k, tms_gallop_right
    <3> QED
      BY <2>1, <3>1, <3>2, <3>3, <1>14
  <2> QED
    BY <2>2, <1>4, <1>5, <1>10, <1>14
<1> HIDE DEF k, len1, len2
<1>18. CASE len1 = 0 \/ len2 = 0
  <2>1. first = mid \/ last = mid - 1
    BY <1>14, <1>17, <1>18
  <2>2. Ordered(z, base, end)
    BY <2>1, <1>13
  <2>3. Ordered(z, stack[i].base, RunLast(i))'
    BY <2>2, <1>16
  <2>4. ArrayInv(z, 0)'
    BY <2>3, <1>16 DEF ArrayInv
  <2>5. UNCHANGED <<array, tmp, tmp_count, merge, count, min_gallop, lo, phase>>
    BY <1>9, <1>18
  <2>6. ArrayInv(array, 0)'
    BY <2>4, <2>5, <1>3
  <2>7. ~Merging'
    BY <2>5 DEF Merging
  <2>8. (phase' = "force" => lo' = count') /\ ~(count' < MinMerge) /\ phase' # "done"
    BY <2>5, <1>2, <1>12, TimSortAssumption DEF SortInv
  <2>9. min_gallop' \in Int /\ tmp_count' \in Nat
    BY <2>5, <1>1
  <2> QED
    BY <2>6, <2>7, <2>8, <2>9, <1>15 DEF SortInv
<1>19. CASE ~(len1 = 0 \/ len2 = 0)
  <2>1. first < mid /\ mid <= last /\ first \in Nat /\ last \in Nat /\ last < count
    <3>1. first \in Int /\ last \in Int /\ first # mid /\ last - mid + 1 # 0
      BY <1>14, <1>17, <1>19
    <3> QED
      BY <3>1, <1>12, <1>14
  <2>2. StartMerge(first, mid - first, mid, last - mid + 1)
    <3>1. StartMerge(stack[i].base + k, len1, stack[i + 1].base, len2)
      BY <1>9, <1>19
    <3> QED
      BY <3>1, <1>17
  <2>3. Parts(z, first, mid, last)
    BY <2>1, <1>13
  <2>4. Opened(z, i, first, last)'
    <3>1. stack'[i].base <= first /\ last <= RunLast(i)'
      BY <1>14, <1>16
    <3>2. Framed(z, stack[i].base, first, last, RunLast(i))'
      BY <1>13, <1>16
    <3> QED
      BY <3>1, <3>2, <1>16 DEF Opened
  <2> QED
    BY <2>1, <2>2, <2>3, <2>4, <1>2, <1>3, <1>9, <1>14, <1>15, <1>16, StartMergeKeeps
<1> QED
  BY <1>18, <1>19

LEMMA CollapseKeeps == SortInv /\ (Collapse \/ ForceCollapse) => SortInv'
<1> SUFFICES ASSUME SortInv, Collapse \/ ForceCollapse PROVE SortInv'
  OBVIOUS
<1>1. TileInv
  BY DEF SortInv
<1>2. Top \in Nat
  BY <1>1, RunsApart
<1>3. \E i \in 1 .. Top - 1 : tms_merge_at(i)
  <2>1. Top > 1 => MiddlePair \in 1 .. Top - 1
    BY <1>1, MiddlePairInStack
  <2>2. CASE Collapse
    BY <2>1, <2>2, <1>2 DEF Collapse, ThirdTooShort, SecondTooShort
  <2>3. CASE ForceCollapse
    BY <2>1, <2>3 DEF ForceCollapse
  <2> QED
    BY <2>2, <2>3
<1>4. ~Merging /\ phase \in {"collapse", "force"}
  BY DEF Collapse, ForceCollapse
<1> QED
  BY <1>3, <1>4, MergeAtKeeps

-----------------------------------------------------------------------------
(* The sort begins, and runs are cut. *)

LEMMA InitSorts == Init => SortInv
<1> SUFFICES ASSUME Init PROVE SortInv
  OBVIOUS
<1>1. PICK keys \in Arrays : array = ArrayOf(keys) /\ count = Len(keys)
  BY DEF Init
<1>2. /\ stack = << >> /\ lo = 0 /\ min_gallop = MinGallop /\ phase = "runs" /\ merge = NoMerge
      /\ tmp_count = IF count < 2 * InitialTmp THEN count \div 2 ELSE InitialTmp
  BY DEF Init
<1>3. keys \in Seq(Int) /\ count \in Nat /\ MinGallop \in Int /\ InitialTmp \in Nat
  BY <1>1, TimSortAssumption
<1>4. DOMAIN array = 0 .. count - 1 /\ \A i \in 0 .. count - 1 : array[i] = [key |-> keys[i + 1], id |-> i]
  BY <1>1 DEF ArrayOf
<1>5. \A i \in 0 .. count - 1 : array[i] \in Elements
  <2> TAKE i \in 0 .. count - 1
  <2>1. i + 1 \in DOMAIN keys
    BY <1>1, <1>3
  <2>2. keys[i + 1] \in UNION {{x[j] : j \in DOMAIN x} : x \in Arrays}
    BY <2>1
  <2>3. i \in UNION {DOMAIN ArrayOf(x) : x \in Arrays}
    BY <1>1, <1>4
  <2> QED
    BY <2>2, <2>3, <1>4 DEF Elements
<1>6. array \in ArrayOn(count, Elements)
  <2>1. array = [i \in DOMAIN array |-> array[i]]
    BY <1>1 DEF ArrayOf
  <2> QED
    BY <2>1, <1>4, <1>5 DEF ArrayOn
<1>7. \A i \in 0 .. count - 1 : array[i].id = i
  BY <1>4
<1>8. Ids(array, 0 .. count - 1) = 0 .. count - 1
  BY <1>7 DEF Ids
<1>9. Top = 0
  BY <1>2 DEF Top
<1>10. ArrayInv(array, 0)
  BY <1>2, <1>6, <1>7, <1>8, <1>9 DEF ArrayInv
<1>11. ~Merging
  BY <1>2 DEF Merging
<1>12. tmp_count \in Nat
  BY <1>2, <1>3
<1> QED
  BY <1>2, <1>3, <1>10, <1>11, <1>12, InitTiles DEF SortInv

(* What is made of the elements from base on, which begin with a run of    *)
(* the given length.                                                       *)
RunSorted(n, z, b, base, cnt) ==
  /\ b \in ArrayOn(n, Elements) /\ Rearranged(z, b, base, base + cnt - 1)
  /\ Ordered(b, base, base + cnt - 1)
  /\ \A i \in base .. base + cnt - 1 : b[i].id \in base .. base + cnt - 1

LEMMA RunIsSorted ==
  ASSUME NEW n \in Nat, NEW z \in ArrayOn(n, Elements), NEW base \in Nat, NEW cnt \in Nat \ {0},
         base + cnt <= n, \A i \in base .. base + cnt - 1 : z[i].id = i,
         NEW rest \in Nat \ {0}, NEW natural, natural = RunLength(z, base, rest), natural <= cnt
  PROVE  RunSorted(n, z, bnr_sort_from_ordered_initial_run(MadeAscending(z, base, natural), base, cnt, natural), base, cnt)
<1> DEFINE a == MadeAscending(z, base, natural)
           b == bnr_sort_from_ordered_initial_run(a, base, cnt, natural)
           end == base + cnt - 1
<1>1. natural \in 1 .. cnt /\ \A s \in 1 .. natural - 1 : Descends(z, base + s) <=> Descends(z, base + 1)
  BY RunCompares
<1>2. natural \in Nat \ {0} /\ natural \in Nat /\ natural \in 0 .. cnt /\ base + natural <= n /\ end \in Int /\ end < n
      /\ base + natural - 1 \in Int /\ base + natural - 1 <= end /\ cnt \in Nat
  BY <1>1
<1>3. a \in ArrayOn(n, Elements) /\ Rearranged(z, a, base, base + natural - 1)
  BY <1>2, MadeAscendingKeeps
<1>4. b \in ArrayOn(n, Elements) /\ Rearranged(a, b, base, end)
  BY <1>2, <1>3, BinarySortKeeps
<1>5. Ordered(a, base, base + natural - 1)
  <2>1. \A i \in base .. base + natural - 1 : z[i].id = i
    BY <1>2
  <2> QED
    BY <2>1, <1>1, <1>2, RunMadeOrdered, ElementsCompare
<1> HIDE DEF a
<1>6. \A k \in base .. base + natural - 1 : a[k].id \in base .. base + natural - 1
  <2> TAKE k \in base .. base + natural - 1
  <2>1. a[k] \in {a[i] : i \in base .. base + natural - 1}
    OBVIOUS
  <2>2. PICK i \in base .. base + natural - 1 : a[k] = z[i]
    BY <2>1, <1>3 DEF Rearranged
  <2> QED
    BY <2>2, <1>2
<1>7. \A k \in base + natural .. base + cnt - 1 : a[k].id = k
  <2> TAKE k \in base + natural .. base + cnt - 1
  <2>1. k \in 0 .. n - 1 /\ k \notin base .. base + natural - 1 /\ k \in base .. base + cnt - 1
    BY <1>2
  <2>2. a[k] = z[k]
    BY <2>1, <1>3 DEF Rearranged, ArrayOn
  <2> QED
    BY <2>1, <2>2
<1>8. ReadyToInsert(a, base, cnt, natural)
  BY <1>5, <1>6, <1>7 DEF ReadyToInsert
<1>9. Ordered(b, base, end)
  BY <1>2, <1>3, <1>8, BinarySortOrders, ElementsCompare
<1>10. Rearranged(z, b, base, end)
  <2>1. Rearranged(z, a, base, end)
    BY <1>2, <1>3, RearrangedInPart
  <2> HIDE DEF b
  <2> QED
    BY <2>1, <1>3, <1>4, RearrangedTwice
<1> HIDE DEF b
<1>11. \A i \in base .. end : b[i].id \in base .. end
  <2> TAKE i \in base .. end
  <2>1. b[i] \in {b[k] : k \in base .. end}
    OBVIOUS
  <2>2. PICK k \in base .. end : b[i] = z[k]
    BY <2>1, <1>10 DEF Rearranged
  <2> QED
    BY <2>2
<1>12. RunSorted(n, z, b, base, cnt)
  BY <1>4, <1>9, <1>10, <1>11, Zenon DEF RunSorted
<1> QED
  BY <1>12 DEF a, b

(* An array that is too short for merges. *)
LEMMA ShortArrayKeeps == SortInv /\ ShortArray => SortInv'
<1> SUFFICES ASSUME SortInv, ShortArray PROVE SortInv'
  OBVIOUS
<1>1. /\ phase = "runs" /\ count < MinMerge /\ phase' = "done"
      /\ UNCHANGED <<count, stack, tmp, tmp_count, min_gallop, lo, merge>>
  BY DEF ShortArray
<1>2. TileInv /\ tmp_count \in Nat /\ min_gallop \in Int /\ stack = << >> /\ lo = 0 /\ count \in Nat
  BY <1>1 DEF SortInv, TileInv
<1>3. ~Merging /\ ArrayInv(array, 0)
  BY <1>1 DEF SortInv
<1>4. PICK z : z = array
  OBVIOUS
<1>5. PICK base : base = 0
  OBVIOUS
<1>6. PICK b : b = array'
  OBVIOUS
<1>7. /\ z \in ArrayOn(count, Elements) /\ Ids(z, 0 .. count - 1) = 0 .. count - 1
      /\ \A i \in 0 .. count - 1 : z[i].id = i
  BY <1>1, <1>2, <1>3, <1>4 DEF ArrayInv
<1>8. b \in ArrayOn(count, Elements) /\ Ids(b, 0 .. count - 1) = 0 .. count - 1 /\ Ordered(b, 0, count - 1)
  <2>1. CASE count < 2
    <3>1. b = z
      BY <2>1, <1>4, <1>6 DEF ShortArray
    <3>2. Ordered(b, 0, count - 1)
      BY <2>1, <1>2 DEF Ordered
    <3> QED
      BY <3>1, <3>2, <1>7
  <2>2. CASE count >= 2
    <3> DEFINE natural == RunLength(z, base, count)
    <3>1. b = bnr_sort_from_ordered_initial_run(MadeAscending(z, base, natural), base, count, natural)
      <4>1. ~(count < 2)
        BY <2>2, <1>2
      <4> QED
        BY <4>1, <1>4, <1>5, <1>6 DEF ShortArray
    <3>2. count \in Nat \ {0} /\ base \in Nat /\ base + count <= count /\ base + count - 1 = count - 1
      BY <2>2, <1>2, <1>5
    <3>3. natural \in 1 .. count /\ natural <= count
      BY <3>2, RunCompares
    <3>4. \A i \in base .. base + count - 1 : z[i].id = i
      BY <3>2, <1>5, <1>7
    <3>5. RunSorted(count, z, b, base, count)
      BY <3>1, <3>2, <3>3, <3>4, <1>2, <1>7, RunIsSorted
    <3> HIDE DEF natural
    <3>6. b \in ArrayOn(count, Elements) /\ Rearranged(z, b, base, count - 1) /\ Ordered(b, base, count - 1)
      BY <3>2, <3>5 DEF RunSorted
    <3>7. Ids(b, 0 .. count - 1) = Ids(z, 0 .. count - 1)
      <4>1. count - 1 \in Int /\ count - 1 < count
        BY <3>2
      <4> QED
        BY <4>1, <3>2, <3>6, <1>7, RearrangedIds
    <3> QED
      BY <3>6, <3>7, <1>5, <1>7
  <2> QED
    BY <2>1, <2>2, <1>2
<1>9. Top' = 0
  BY <1>1, <1>2 DEF Top
<1>10. ArrayInv(array, 0)' /\ Ordered(array, 0, count - 1)'
  <2>1. ArrayInv(b, 0)'
    BY <1>1, <1>8, <1>9 DEF ArrayInv
  <2> QED
    BY <2>1, <1>1, <1>6, <1>8
<1>11. ~Merging'
  BY <1>1, <1>3 DEF Merging
<1>12. TileInv'
  BY <1>1, <1>2 DEF TileInv, RunsTile, Top
<1>13. phase' # "force" /\ stack' = << >> /\ min_gallop' \in Int /\ tmp_count' \in Nat
  BY <1>1, <1>2
<1> QED
  BY <1>10, <1>11, <1>12, <1>13 DEF SortInv

(* A run is cut, put in order and pushed. *)
LEMMA PushRunKeeps == SortInv /\ PushRun => SortInv'
<1> SUFFICES ASSUME SortInv, PushRun PROVE SortInv'
  OBVIOUS
<1>1. /\ phase = "runs" /\ count >= MinMerge /\ phase' = "collapse"
      /\ UNCHANGED <<count, tmp, tmp_count, min_gallop, merge>>
  BY DEF PushRun
<1>2. TileInv /\ tmp_count \in Nat /\ min_gallop \in Int /\ count \in Nat /\ lo \in Nat /\ lo < count
  BY <1>1 DEF SortInv, TileInv
<1>3. ~Merging /\ ArrayInv(array, 0)
  BY <1>1 DEF SortInv
<1>4. PICK z : z = array
  OBVIOUS
<1>5. PICK base : base = lo
  OBVIOUS
<1>6. PICK b : b = array'
  OBVIOUS
<1> DEFINE rest == count - base
           natural == RunLength(z, base, rest)
<1>7. PICK len : len = Forced(natural)
  OBVIOUS
<1>8. /\ b = bnr_sort_from_ordered_initial_run(MadeAscending(z, base, natural), base, len, natural)
      /\ stack' = Append(stack, [base |-> base, len |-> len])
      /\ lo' = base + len
  BY <1>4, <1>5, <1>6, <1>7 DEF PushRun
<1>9. base \in Nat /\ rest \in Nat \ {0} /\ base + rest = count
  BY <1>2, <1>5
<1>10. natural \in 1 .. rest
  BY <1>9, RunCompares
<1> HIDE DEF natural
<1>11. len \in 1 .. rest /\ natural <= len
  <2>1. natural \in 1 .. count - lo /\ lo \in 0 .. count
    BY <1>2, <1>5, <1>10
  <2> QED
    BY <2>1, <1>2, <1>5, <1>7, ForcedBounds
<1>12. len \in Nat \ {0} /\ base + len <= count /\ lo' = base + len
  BY <1>2, <1>8, <1>9, <1>11
<1>13. /\ z \in ArrayOn(count, Elements) /\ Ids(z, 0 .. count - 1) = 0 .. count - 1
       /\ \A i \in base .. count - 1 : z[i].id = i
       /\ \A j \in 1 .. Top : \A i \in stack[j].base .. RunLast(j) : z[i].id \in stack[j].base .. RunLast(j)
       /\ \A j \in 1 .. Top : Ordered(z, stack[j].base, RunLast(j))
  <2>1. \A j \in 1 .. Top : j # 0
    OBVIOUS
  <2> QED
    BY <2>1, <1>1, <1>3, <1>4, <1>5 DEF ArrayInv
<1>14. RunSorted(count, z, b, base, len)
  <2>1. \A i \in base .. base + len - 1 : z[i].id = i
    BY <1>9, <1>12, <1>13
  <2>2. natural = RunLength(z, base, rest)
    BY DEF natural
  <2> QED
    BY <2>1, <2>2, <1>2, <1>8, <1>9, <1>11, <1>12, <1>13, RunIsSorted
<1>15. /\ b \in ArrayOn(count, Elements) /\ Ordered(b, base, base + len - 1)
       /\ \A i \in base .. base + len - 1 : b[i].id \in base .. base + len - 1
       /\ \A i \in 0 .. count - 1 : ~(base <= i /\ i <= base + len - 1) => b[i] = z[i]
       /\ Ids(b, 0 .. count - 1) = 0 .. count - 1
  <2>1. /\ b \in ArrayOn(count, Elements) /\ Ordered(b, base, base + len - 1)
        /\ \A i \in base .. base + len - 1 : b[i].id \in base .. base + len - 1
        /\ Rearranged(z, b, base, base + len - 1)
    BY <1>14, Zenon DEF RunSorted
  <2>2. \A i \in 0 .. count - 1 : ~(base <= i /\ i <= base + len - 1) => b[i] = z[i]
    BY <2>1, <1>9, <1>12, <1>13 DEF Rearranged, ArrayOn
  <2>3. Ids(b, 0 .. count - 1) = Ids(z, 0 .. count - 1)
    <3>1. base + len - 1 \in Int /\ base + len - 1 < count
      BY <1>2, <1>9, <1>12
    <3> QED
      BY <2>1, <3>1, <1>2, <1>9, <1>13, RearrangedIds
  <2> QED
    BY <2>1, <2>2, <2>3, <1>13
<1>30. PICK next : next = Top + 1
  OBVIOUS
<1>16. /\ Top \in Nat /\ Top' = Top + 1
       /\ \A j \in 1 .. Top : stack'[j] = stack[j] /\ RunLast(j)' = RunLast(j)
       /\ stack'[next].base = base /\ RunLast(next)' = base + len - 1
  <2>1. stack \in Seq(Run) /\ Top = Len(stack) /\ Top' = Len(stack')
    BY <1>2 DEF TileInv, Top
  <2> DEFINE run == [base |-> base, len |-> len]
  <2>2. run.base = base /\ run.len = len
    OBVIOUS
  <2>3. stack' = Append(stack, run)
    BY <1>8
  <2> HIDE DEF run
  <2>4. /\ Len(stack') = Len(stack) + 1 /\ stack'[Len(stack) + 1] = run
        /\ \A j \in 1 .. Len(stack) : stack'[j] = stack[j]
    <3> DEFINE S == Seq(Run)
    <3>1. stack \in Seq(Run \cup {run}) /\ run \in Run \cup {run}
      BY <2>1
    <3> QED
      BY <2>3, <3>1
  <2>5. \A j \in 1 .. Top : stack'[j] = stack[j] /\ RunLast(j)' = RunLast(j)
    BY <2>1, <2>4 DEF RunLast
  <2>6. stack'[next] = run
    BY <2>1, <2>4, <1>30
  <2>7. stack'[next].base = base /\ RunLast(next)' = base + len - 1
    BY <2>2, <2>6 DEF RunLast
  <2>8. Top \in Nat /\ Top' = Top + 1
    BY <2>1, <2>4
  <2> QED
    BY <2>5, <2>7, <2>8
<1>17. ASSUME NEW j \in 1 .. Top
       PROVE  /\ \A i \in stack[j].base .. RunLast(j) : b[i] = z[i]
              /\ \A i \in stack[j].base .. RunLast(j) : i \in 0 .. count - 1
  <2>1. stack[j].base \in Nat /\ RunLast(j) \in Nat /\ RunLast(j) < base
    BY <1>2, <1>5, RunsApart
  <2> QED
    BY <2>1, <1>2, <1>9, <1>12, <1>15
<1>18. ASSUME NEW j \in 1 .. Top'
       PROVE  /\ \A i \in stack'[j].base .. RunLast(j)' : b[i].id \in stack'[j].base .. RunLast(j)'
              /\ Ordered(b, stack'[j].base, RunLast(j)')
  <2>1. CASE j \in 1 .. Top
    <3>1. stack'[j] = stack[j] /\ RunLast(j)' = RunLast(j)
      BY <2>1, <1>16
    <3>2. \A i \in stack[j].base .. RunLast(j) : b[i] = z[i]
      BY <2>1, <1>17
    <3>3. \A i \in stack[j].base .. RunLast(j) : z[i].id \in stack[j].base .. RunLast(j)
      BY <2>1, <1>13
    <3>4. Ordered(b, stack[j].base, RunLast(j))
      BY <2>1, <3>2, <1>13 DEF Ordered
    <3> QED
      BY <3>1, <3>2, <3>3, <3>4
  <2>2. CASE j = next
    BY <2>2, <1>15, <1>16
  <2> QED
    BY <2>1, <2>2, <1>16, <1>30
<1>19. \A i \in lo' .. count - 1 : b[i].id = i
  BY <1>9, <1>12, <1>13, <1>15
<1>20. ArrayInv(array, 0)'
  <2>1. ArrayInv(b, 0)'
    <3>1. /\ b \in ArrayOn(count', Elements) /\ Ids(b, 0 .. count' - 1) = 0 .. count' - 1
          /\ \A i \in lo' .. count' - 1 : b[i].id = i
      BY <1>1, <1>15, <1>19
    <3> QED
      BY <3>1, <1>18 DEF ArrayInv
  <2> QED
    BY <2>1, <1>6
<1>21. ~Merging'
  BY <1>1, <1>3 DEF Merging
<1>22. TileInv'
  BY <1>2, PushTiles
<1>23. phase' # "force" /\ phase' # "done" /\ ~(count' < MinMerge) /\ min_gallop' \in Int /\ tmp_count' \in Nat
  BY <1>1, <1>2, TimSortAssumption
<1> QED
  BY <1>20, <1>21, <1>22, <1>23 DEF SortInv

LEMMA EndCollapseKeeps == SortInv /\ EndCollapse => SortInv'
<1> SUFFICES ASSUME SortInv, EndCollapse PROVE SortInv'
  OBVIOUS
<1>1. /\ phase = "collapse" /\ ~Merging /\ phase' = (IF lo < count THEN "runs" ELSE "force")
      /\ UNCHANGED <<array, count, stack, tmp, tmp_count, min_gallop, lo, merge>>
  BY DEF EndCollapse
<1>2. TileInv /\ ArrayInv(array, 0) /\ tmp_count \in Nat /\ min_gallop \in Int /\ lo \in 0 .. count /\ count \in Nat
      /\ (count < MinMerge => stack = << >>)
  BY <1>1 DEF SortInv, TileInv
<1>3. TileInv'
  <2>1. [Next]_vars
    BY DEF Next
  <2> QED
    BY <2>1, <1>2, NextTiles
<1>4. ArrayInv(array, 0)'
  <2>1. phase # "done" /\ Top' = Top /\ \A j : RunLast(j)' = RunLast(j)
    BY <1>1 DEF Top, RunLast
  <2> QED
    BY <2>1, <1>1, <1>2 DEF ArrayInv
<1>5. ~Merging' /\ phase' # "done" /\ (phase' = "force" => lo' = count') /\ (count' < MinMerge => stack' = << >>)
  BY <1>1, <1>2 DEF Merging
<1> QED
  BY <1>1, <1>2, <1>3, <1>4, <1>5 DEF SortInv

(* At last there is one run, which is the whole array. *)
LEMMA EndSortKeeps == SortInv /\ EndSort => SortInv'
<1> SUFFICES ASSUME SortInv, EndSort PROVE SortInv'
  OBVIOUS
<1>1. /\ phase = "force" /\ ~Merging /\ phase' = "done" /\ Top = 1
      /\ UNCHANGED <<array, count, stack, tmp, tmp_count, min_gallop, lo, merge>>
  BY DEF EndSort
<1>2. TileInv /\ ArrayInv(array, 0) /\ tmp_count \in Nat /\ min_gallop \in Int /\ lo = count /\ count \in Nat
      /\ (count < MinMerge => stack = << >>)
  BY <1>1 DEF SortInv, TileInv
<1>3. TileInv'
  <2>1. [Next]_vars
    BY DEF Next
  <2> QED
    BY <2>1, <1>2, NextTiles
<1>4. ArrayInv(array, 0)'
  <2>1. Top' = Top /\ \A j : RunLast(j)' = RunLast(j)
    BY <1>1 DEF Top, RunLast
  <2> QED
    BY <2>1, <1>1, <1>2 DEF ArrayInv
<1>5. Ordered(array, 0, count - 1)
  <2>1. 1 \in 1 .. Top /\ 1 # 0
    BY <1>1
  <2>2. Ordered(array, stack[1].base, RunLast(1))
    BY <2>1, <1>2 DEF ArrayInv
  <2>3. stack # << >>
    BY <1>1 DEF Top
  <2>4. stack[1].base = 0 /\ stack[1].base + stack[1].len = lo
    BY <2>3, <1>1, <1>2 DEF TileInv, RunsTile
  <2>5. RunLast(1) = count - 1
    <3>1. stack[1].base \in Nat /\ stack[1].len \in Nat
      BY <2>1, <1>2, RunsApart
    <3>2. stack[1].base + stack[1].len = count
      BY <2>4, <1>2
    <3> QED
      BY <3>1, <3>2, <1>2 DEF RunLast
  <2> QED
    BY <2>2, <2>4, <2>5
<1>6. Ordered(array, 0, count - 1)'
  BY <1>1, <1>5
<1>7. ~Merging' /\ phase' = "done" /\ (count' < MinMerge => stack' = << >>)
  BY <1>1, <1>2 DEF Merging
<1> QED
  BY <1>1, <1>2, <1>3, <1>4, <1>6, <1>7 DEF SortInv

LEMMA SortInvStutters == SortInv /\ UNCHANGED vars => SortInv'
<1> SUFFICES ASSUME SortInv, UNCHANGED vars PROVE SortInv'
  OBVIOUS
<1>1. /\ array' = array /\ count' = count /\ stack' = stack /\ tmp' = tmp /\ tmp_count' = tmp_count
      /\ min_gallop' = min_gallop /\ lo' = lo /\ phase' = phase /\ merge' = merge
  BY DEF vars
<1>2. Now' = Now /\ Top' = Top /\ (Merging' <=> Merging)
  BY <1>1 DEF Now, Top, Merging
<1>3. TileInv => TileInv'
  BY <1>1 DEF TileInv, RunsTile, Top
<1>4. ASSUME NEW z, NEW open
      PROVE  /\ ArrayInv(z, open) => ArrayInv(z, open)'
             /\ \A first, last : Opened(z, open, first, last) => Opened(z, open, first, last)'
  BY <1>1 DEF ArrayInv, Opened, RunLast, Top
<1>5. ASSUME MergeInv PROVE MergeInv'
  <2>1. PICK z \in ArrayOn(count, Elements), open \in 1 .. Top, first \in Nat, last \in Nat, k \in Nat :
          /\ Opened(z, open, first, last)
          /\ k <= tmp_count
          /\ Merges(Elements, count, Now, tmp, k, z, first, last)
          /\ StepOK(merge)
    BY <1>5 DEF MergeInv
  <2>2. /\ z \in ArrayOn(count, Elements)' /\ open \in 1 .. Top' /\ k <= tmp_count' /\ StepOK(merge)'
        /\ Merges(Elements, count, Now, tmp, k, z, first, last)'
    BY <2>1, <1>1, <1>2
  <2>3. Opened(z, open, first, last)'
    BY <2>1, <1>4
  <2> QED
    BY <2>2, <2>3 DEF MergeInv
<1>6. ArrayInv(array, 0) => ArrayInv(array, 0)'
  BY <1>1 DEF ArrayInv, RunLast, Top
<1> QED
  BY <1>1, <1>2, <1>3, <1>5, <1>6 DEF SortInv

(* So the invariant holds in every state. *)
LEMMA NextSorts == SortInv /\ [Next]_vars => SortInv'
<1> SUFFICES ASSUME SortInv, [Next]_vars PROVE SortInv'
  OBVIOUS
<1>1. CASE ShortArray
  BY <1>1, ShortArrayKeeps
<1>2. CASE PushRun
  BY <1>2, PushRunKeeps
<1>3. CASE Collapse \/ ForceCollapse
  BY <1>3, CollapseKeeps
<1>4. CASE EndCollapse
  BY <1>4, EndCollapseKeeps
<1>5. CASE Race
  BY <1>5, RaceKeeps
<1>6. CASE GallopT
  BY <1>6, GallopTKeeps
<1>7. CASE GallopA
  BY <1>7, GallopAKeeps
<1>8. CASE FinishMerge
  BY <1>8, FinishMergeKeeps
<1>9. CASE EndSort
  BY <1>9, EndSortKeeps
<1>10. CASE Sorted
  BY <1>10, SortInvStutters DEF Sorted
<1>11. CASE UNCHANGED vars
  BY <1>11, SortInvStutters
<1> QED
  BY <1>1, <1>2, <1>3, <1>4, <1>5, <1>6, <1>7, <1>8, <1>9, <1>10, <1>11 DEF Next

LEMMA AlwaysSortInv == Spec => []SortInv
BY InitSorts, NextSorts, PTL DEF Spec

-----------------------------------------------------------------------------
(* What follows from the invariant. *)

(* The hole in the array, and what has been copied and is not in it yet. *)
Hole(m) == IF m.dir = 1 THEN m.dest .. m.cur_a - 1 ELSE m.cur_a + 1 .. m.dest

Remains(m) == IF m.dir = 1 THEN m.cur_t .. m.cur_t + m.len_t - 1 ELSE m.cur_t - m.len_t + 1 .. m.cur_t

(* Two arrays, as far as they go, have the elements of one. *)
Together(a, A, t, T, z, Z) == {a[i] : i \in A} \cup {t[i] : i \in T} = {z[i] : i \in Z}

LEMMA NothingLost ==
  ASSUME NEW n \in Nat, NEW E, NEW s, NEW t, NEW k, NEW z, NEW first, NEW last,
         Merges(E, n, s, t, k, z, first, last)
  PROVE  /\ s.m.len_t = IF s.m.dir = 1 THEN s.m.cur_a - s.m.dest ELSE s.m.dest - s.m.cur_a
         /\ Together(s.a, (0 .. n - 1) \ Hole(s.m), t, Remains(s.m), z, 0 .. n - 1)
<1> DEFINE p == InPlace(s.m, first, last)
           h == s.m.len_t
           l == s.m.len_a
           dir == s.m.dir
           cur == s.m.cur_t
           all == {z[i] : i \in first .. last}
           r == Region(s.a, dir, first, last)
           u == Waiting(t, s.m)
           hole == Hole(s.m)
           remains == Remains(s.m)
           J(i) == IF dir = 1 THEN i - first ELSE last - i
<1>1. /\ dir \in {1, -1} /\ h \in Nat \ {0} /\ l \in Nat /\ p \in Nat
      /\ first \in Nat /\ last \in Nat /\ first <= last /\ last < n
      /\ p + h + l = last - first + 1 /\ s.m.cur_a \in Int /\ cur \in Int
  <2>1. MergeParts(E, n, s, k, first, last)
    BY MergesParts
  <2> QED
    BY <2>1, Zenon DEF MergeParts
<1>2. Located(s.m, n, k, first, last) /\ Mixed(E, dir, all, r, u, p, h, l)
      /\ \A i \in (0 .. n - 1) \ (first .. last) : s.a[i] = z[i]
  BY DEF Merges
<1>3. s.m.dest = Place(dir, first, last, p) /\ s.m.cur_a = Place(dir, first, last, p + h)
  BY <1>2 DEF Located
<1>4. h = IF dir = 1 THEN s.m.cur_a - s.m.dest ELSE s.m.dest - s.m.cur_a
  <2> HIDE DEF p, h
  <2>1. CASE dir = 1
    BY <2>1, <1>1, <1>3 DEF Place
  <2>2. CASE dir = -1
    BY <2>2, <1>1, <1>3 DEF Place
  <2> QED
    BY <2>1, <2>2, <1>1
<1>5. all = {r[i] : i \in Outside(p, h, l)} \cup {u[i] : i \in 0 .. h - 1}
  BY <1>2 DEF Mixed, MixedAll
<1>6. hole = IF dir = 1 THEN first + p .. first + p + h - 1 ELSE last - p - h + 1 .. last - p
  <2> HIDE DEF p, h
  <2>1. CASE dir = 1
    <3>1. s.m.dest = first + p /\ s.m.cur_a = first + p + h
      BY <2>1, <1>1, <1>3 DEF Place
    <3> QED
      BY <2>1, <3>1, <1>1 DEF Hole
  <2>2. CASE dir = -1
    <3>1. s.m.dest = last - p /\ s.m.cur_a = last - p - h
      BY <2>2, <1>1, <1>3 DEF Place
    <3> QED
      BY <2>2, <3>1, <1>1 DEF Hole
  <2> QED
    BY <2>1, <2>2, <1>1
<1>7. \A j \in 0 .. last - first : r[j] = s.a[Place(dir, first, last, j)]
  BY DEF Region
<1>8. \A j \in 0 .. h - 1 : u[j] = t[Onward(dir, cur, j)]
  BY DEF Waiting
<1>9. remains = IF dir = 1 THEN cur .. cur + h - 1 ELSE cur - h + 1 .. cur
  BY DEF Remains
<1> HIDE DEF p, h, l, dir, cur, r, u, hole, remains
<1>10. hole \subseteq first .. last
  <2>1. CASE dir = 1
    BY <2>1, <1>1, <1>6
  <2>2. CASE dir = -1
    BY <2>2, <1>1, <1>6
  <2> QED
    BY <2>1, <2>2, <1>1
<1>11. \A j \in Outside(p, h, l) : /\ j \in 0 .. last - first
                                   /\ Place(dir, first, last, j) \in (first .. last) \ hole
  <2> TAKE j \in Outside(p, h, l)
  <2>1. j \in 0 .. last - first /\ ~(p <= j /\ j <= p + h - 1)
    BY <1>1 DEF Outside
  <2>2. CASE dir = 1
    BY <2>1, <2>2, <1>1, <1>6, SMTT(30) DEF Place
  <2>3. CASE dir = -1
    BY <2>1, <2>3, <1>1, <1>6 DEF Place
  <2> QED
    BY <2>1, <2>2, <2>3, <1>1
<1>12. \A i \in (first .. last) \ hole : J(i) \in Outside(p, h, l) /\ Place(dir, first, last, J(i)) = i
  <2> TAKE i \in (first .. last) \ hole
  <2>1. CASE dir = 1
    BY <2>1, <1>1, <1>6 DEF Place, Outside
  <2>2. CASE dir = -1
    BY <2>2, <1>1, <1>6 DEF Place, Outside
  <2> QED
    BY <2>1, <2>2, <1>1
<1>13. \A j \in 0 .. h - 1 : Onward(dir, cur, j) \in remains
  <2>1. CASE dir = 1
    BY <2>1, <1>1, <1>9 DEF Onward
  <2>2. CASE dir = -1
    BY <2>2, <1>1, <1>9 DEF Onward
  <2> QED
    BY <2>1, <2>2, <1>1
<1>14. \A i \in remains : \E j \in 0 .. h - 1 : Onward(dir, cur, j) = i
  <2> TAKE i \in remains
  <2> DEFINE j == IF dir = 1 THEN i - cur ELSE cur - i
  <2>1. j \in 0 .. h - 1 /\ Onward(dir, cur, j) = i
    <3>1. CASE dir = 1
      BY <3>1, <1>1, <1>9 DEF Onward
    <3>2. CASE dir = -1
      BY <3>2, <1>1, <1>9 DEF Onward
    <3> QED
      BY <3>1, <3>2, <1>1
  <2> HIDE DEF j
  <2> QED
    BY <2>1
<1> DEFINE there == {s.a[i] : i \in (0 .. n - 1) \ hole}
           copied == {t[i] : i \in remains}
           whole == {z[i] : i \in 0 .. n - 1}
<1>15. \A i \in first .. last : i \in 0 .. n - 1
  BY <1>1
<1>16. ASSUME NEW i \in (0 .. n - 1) \ hole PROVE s.a[i] \in whole
  <2>1. CASE i \in first .. last
    <3>1. r[J(i)] = s.a[i] /\ J(i) \in Outside(p, h, l)
      <4>1. J(i) \in Outside(p, h, l) /\ Place(dir, first, last, J(i)) = i
        BY <2>1, <1>12
      <4> HIDE DEF J
      <4> QED
        BY <4>1, <1>7, <1>11
    <3> HIDE DEF J
    <3>2. s.a[i] \in all
      <4> HIDE DEF all
      <4> QED
        BY <3>1, <1>5
    <3> QED
      BY <3>2, <1>15
  <2>2. CASE i \notin first .. last
    <3>1. s.a[i] = z[i]
      BY <2>2, <1>2
    <3> QED
      BY <3>1
  <2> QED
    BY <2>1, <2>2
<1>17. ASSUME NEW i \in remains PROVE t[i] \in whole
  <2>1. PICK j \in 0 .. h - 1 : Onward(dir, cur, j) = i
    BY <1>14
  <2>2. u[j] = t[i]
    BY <2>1, <1>8
  <2>3. t[i] \in all
    <3> HIDE DEF all
    <3> QED
      BY <2>1, <2>2, <1>5
  <2> QED
    BY <2>3, <1>15
<1>18. ASSUME NEW i \in 0 .. n - 1 PROVE z[i] \in there \cup copied
  <2>1. CASE i \in first .. last
    <3>1. z[i] \in all
      BY <2>1
    <3>2. CASE z[i] \in {r[j] : j \in Outside(p, h, l)}
      <4>1. PICK j \in Outside(p, h, l) : z[i] = r[j]
        BY <3>2
      <4> DEFINE q == Place(dir, first, last, j)
      <4>2. q \in (0 .. n - 1) \ hole /\ r[j] = s.a[q]
        BY <1>7, <1>11, <1>15
      <4> HIDE DEF q
      <4> QED
        BY <4>1, <4>2
    <3>3. CASE z[i] \in {u[j] : j \in 0 .. h - 1}
      <4>1. PICK j \in 0 .. h - 1 : z[i] = u[j]
        BY <3>3
      <4> QED
        BY <4>1, <1>8, <1>13
    <3> HIDE DEF all
    <3> QED
      BY <3>1, <3>2, <3>3, <1>5
  <2>2. CASE i \notin first .. last
    <3>1. s.a[i] = z[i] /\ i \notin hole
      BY <2>2, <1>2, <1>10
    <3> QED
      BY <3>1
  <2> QED
    BY <2>1, <2>2
<1>19. there \cup copied = whole
  <2>1. there \cup copied \subseteq whole
    <3> HIDE DEF whole
    <3> QED
      BY <1>16, <1>17
  <2>2. whole \subseteq there \cup copied
    <3> HIDE DEF there, copied
    <3> QED
      BY <1>18
  <2> QED
    BY <2>1, <2>2
<1> QED
  BY <1>4, <1>19 DEF h, dir, hole, remains, Together

(* The same for the ids. *)
LEMMA NoIdLost ==
  ASSUME NEW a, NEW A, NEW t, NEW T, NEW z, NEW Z,
         Together(a, A, t, T, z, Z)
  PROVE  Ids(a, A) \cup Ids(t, T) = Ids(z, Z)
<1>1. ASSUME NEW i \in A PROVE a[i].id \in Ids(z, Z)
  <2>1. a[i] \in {z[j] : j \in Z}
    BY <1>1 DEF Together
  <2>2. PICK j \in Z : a[i] = z[j]
    BY <2>1
  <2> QED
    BY <2>2 DEF Ids
<1>2. ASSUME NEW i \in T PROVE t[i].id \in Ids(z, Z)
  <2>1. t[i] \in {z[j] : j \in Z}
    BY <1>2 DEF Together
  <2>2. PICK j \in Z : t[i] = z[j]
    BY <2>1
  <2> QED
    BY <2>2 DEF Ids
<1>3. ASSUME NEW j \in Z PROVE z[j].id \in Ids(a, A) \cup Ids(t, T)
  <2>1. z[j] \in {a[i] : i \in A} \cup {t[i] : i \in T}
    BY <1>3 DEF Together
  <2>2. CASE z[j] \in {a[i] : i \in A}
    <3>1. PICK i \in A : z[j] = a[i]
      BY <2>2
    <3> QED
      BY <3>1 DEF Ids
  <2>3. CASE z[j] \in {t[i] : i \in T}
    <3>1. PICK i \in T : z[j] = t[i]
      BY <2>3
    <3> QED
      BY <3>1 DEF Ids
  <2> QED
    BY <2>1, <2>2, <2>3
<1>4. Ids(a, A) \subseteq Ids(z, Z)
  BY <1>1 DEF Ids
<1>5. Ids(t, T) \subseteq Ids(z, Z)
  BY <1>2 DEF Ids
<1>6. Ids(z, Z) \subseteq Ids(a, A) \cup Ids(t, T)
  <2>1. \A x \in Ids(z, Z) : \E j \in Z : x = z[j].id
    BY DEF Ids
  <2> QED
    BY <2>1, <1>3
<1> QED
  BY <1>4, <1>5, <1>6

LEMMA InvMergeSafe == SortInv => MergeSafe
<1> SUFFICES ASSUME SortInv PROVE MergeSafe
  OBVIOUS
<1>1. CASE ~Merging
  <2>1. ArrayInv(array, 0)
    BY <1>1 DEF SortInv
  <2> QED
    BY <2>1, <1>1 DEF MergeSafe, TmpFits, HoleHoldsRest, ArrayInv
<1>2. CASE Merging
  <2>1. MergeInv /\ count \in Nat /\ tmp_count \in Nat
    BY <1>2 DEF SortInv, TileInv
  <2>2. PICK z \in ArrayOn(count, Elements), open \in 1 .. Top, first \in Nat, last \in Nat, k \in Nat :
          /\ Opened(z, open, first, last) /\ k <= tmp_count
          /\ Merges(Elements, count, Now, tmp, k, z, first, last)
    BY <2>1 DEF MergeInv
  <2>3. Ids(z, 0 .. count - 1) = 0 .. count - 1
    BY <2>2 DEF Opened, ArrayInv
  <2>4. Now.a = array /\ Now.m = merge
    BY DEF Now
  <2>5. TmpFits
    <3>1. DOMAIN tmp = 0 .. k - 1
      BY <2>2 DEF Merges
    <3> QED
      BY <3>1, <2>1, <2>2 DEF TmpFits
  <2>6. /\ merge.len_t = IF merge.dir = 1 THEN merge.cur_a - merge.dest ELSE merge.dest - merge.cur_a
        /\ Together(array, (0 .. count - 1) \ Hole(merge), tmp, Remains(merge), z, 0 .. count - 1)
    <3>1. /\ Now.m.len_t = IF Now.m.dir = 1 THEN Now.m.cur_a - Now.m.dest ELSE Now.m.dest - Now.m.cur_a
          /\ Together(Now.a, (0 .. count - 1) \ Hole(Now.m), tmp, Remains(Now.m), z, 0 .. count - 1)
      BY <2>1, <2>2, NothingLost
    <3> QED
      BY <3>1, <2>4
  <2>7. Ids(array, (0 .. count - 1) \ Hole(merge)) \cup Ids(tmp, Remains(merge)) = 0 .. count - 1
    <3> DEFINE A == (0 .. count - 1) \ Hole(merge)
               Z == 0 .. count - 1
    <3>1. Together(array, A, tmp, Remains(merge), z, Z)
      BY <2>6
    <3>2. Ids(z, Z) = Z
      BY <2>3
    <3> HIDE DEF A, Z
    <3>3. Ids(array, A) \cup Ids(tmp, Remains(merge)) = Ids(z, Z)
      BY <3>1, NoIdLost
    <3>4. Ids(array, A) \cup Ids(tmp, Remains(merge)) = Z
      BY <3>2, <3>3
    <3> QED
      BY <3>4 DEF A, Z
  <2>8. HoleHoldsRest
    BY <1>2, <2>6, <2>7 DEF HoleHoldsRest, Hole, Remains
  <2> QED
    BY <2>5, <2>8 DEF MergeSafe
<1> QED
  BY <1>1, <1>2

LEMMA InvSortsStably == SortInv => SortsStably
<1> SUFFICES ASSUME SortInv, ~Merging PROVE
      /\ \A i \in 1 .. Top : InOrder(array, stack[i].base, stack[i].base + stack[i].len - 1)
      /\ phase = "done" => InOrder(array, 0, count - 1)
  BY DEF SortsStably
<1>1. TileInv /\ ArrayInv(array, 0) /\ (phase = "done" => Ordered(array, 0, count - 1)) /\ count \in Nat
  BY DEF SortInv, TileInv
<1>2. ASSUME NEW i \in 1 .. Top
      PROVE  InOrder(array, stack[i].base, stack[i].base + stack[i].len - 1)
  <2>1. stack[i].base \in Int /\ stack[i].len \in Nat /\ RunLast(i) \in Int
    BY <1>1, RunsApart
  <2>2. Ordered(array, stack[i].base, RunLast(i))
    <3>1. i # 0
      OBVIOUS
    <3> QED
      BY <3>1, <1>1 DEF ArrayInv
  <2>3. InOrder(array, stack[i].base, RunLast(i))
    BY <2>1, <2>2, OrderedNeighbours
  <2> QED
    BY <2>3 DEF RunLast
<1>3. ASSUME phase = "done" PROVE InOrder(array, 0, count - 1)
  <2>1. 0 \in Int /\ count - 1 \in Int
    BY <1>1
  <2> QED
    BY <2>1, <1>1, <1>3, OrderedNeighbours
<1> QED
  BY <1>2, <1>3

(* Whatever is sorted, a merge never copies more than it has memory for,   *)
(* and at every step of it the array outside of the hole and what is left  *)
(* in the temporary array are together all the elements there were.        *)
THEOREM MergesSafely == Spec => []MergeSafe
BY AlwaysSortInv, InvMergeSafe, PTL

(* The runs on the stack are in stable order, and so is the whole array    *)
(* when tms_merge_force_collapse has merged them all.                      *)
THEOREM SortsInStableOrder == Spec => []SortsStably
BY AlwaysSortInv, InvSortsStably, PTL

=============================================================================
