--------------------- MODULE FastEndgameSolverProofs ---------------------
(***************************************************************************)
(* The three searches of improved_fast_endgame_solver.c change one board,  *)
(* one list, one set of parities and one stack, and put them back.  The    *)
(* invariant keeps a history of what they shared when each activation was  *)
(* last running: a move of the activation leads from one entry to the      *)
(* next, and taking it back leads exactly to where it was.                 *)
(*                                                                         *)
(* With each entry goes what its activation knows of the value of the      *)
(* position there, by the rules of Board: that the moves which have left   *)
(* its loop are worth no more than its best one, and, as far as it is      *)
(* above the window of the call, that the best one is worth what it says.  *)
(* Hence what an activation returns is exact inside its window and a bound *)
(* outside of it, and what the first one returns solves the problem.       *)
(*                                                                         *)
(* The rest is about the rules themselves, on bitboards: that all the ways *)
(* of board.c to find legal moves and to make them are one, at every       *)
(* position of every play of BoardPlay, whose hash is that of its position.*)
(***************************************************************************)
EXTENDS FastEndgameSolver, BoardPlay, FiniteSetTheorems, SequenceTheorems, WellFoundedInduction, TLAPS

(* A set of natural numbers that is not empty has a least element. *)
LEMMA LeastNatural ==
  ASSUME NEW T, T \subseteq Nat, T # {}
  PROVE  \E x \in T : \A y \in T : x <= y
<1>1. PICK x \in T : \A y \in T : ~(<<y, x>> \in OpToRel(<, Nat))
  BY NatLessThanWellFounded, WFMin
<1>2. \A y \in T : ~(y < x)
  BY <1>1 DEF OpToRel
<1> QED
  BY <1>2

(* A finite range of numbers has a greatest one of each kind. *)
LEMMA GreatestUpTo ==
  ASSUME NEW T, NEW n \in Nat, T \subseteq 0 .. n, T # {}
  PROVE  \E x \in T : \A y \in T : y <= x
<1> DEFINE U == {n - x : x \in T}
<1>1. U \subseteq Nat /\ U # {}
  <2>1. \A x \in T : x \in 0 .. n
    OBVIOUS
  <2>2. \A x \in T : n - x \in Nat
    BY <2>1
  <2> QED
    BY <2>2
<1>2. PICK u \in U : \A v \in U : u <= v
  BY <1>1, LeastNatural
<1>3. PICK x \in T : u = n - x
  BY <1>2
<1>4. ASSUME NEW y \in T PROVE y <= x
  <2>1. n - y \in U
    OBVIOUS
  <2>2. n - x <= n - y
    BY <2>1, <1>2, <1>3
  <2> QED
    BY <2>2
<1> QED
  BY <1>4

-----------------------------------------------------------------------------
(* The board array. *)

(* The board has at least four columns. *)
LEMMA SizeType == Size \in Nat /\ Size > 3
BY SizeAssumption

(* The division of the row and the column of a square. *)
LEMMA Quotients ==
  ASSUME NEW n \in Nat \ {0}, NEW s \in Nat
  PROVE  /\ s = n * (s \div n) + (s % n)
         /\ s % n \in 0 .. n - 1 /\ s \div n \in Nat
OBVIOUS

(* A multiple that is smaller than the factor is zero. *)
LEMMA SmallMultiple ==
  ASSUME NEW n \in Nat \ {0}, NEW x \in Int, NEW y \in Int, n * x = y, -n < y, y < n
  PROVE  x = 0
OBVIOUS

(* The index of a square by its column and row. *)
CellAt(c, r) == Size + 2 + c + (Size + 1) * r

(* A step of at most one row and one column is read off the index, because *)
(* of the column of dummies.                                               *)
LEMMA CellsDiffer ==
  ASSUME NEW c \in Int, NEW d \in Int, NEW r \in Int, NEW q \in Int, NEW a \in -1 .. 1, NEW b \in -1 .. 1,
         0 <= c, c < Size, 0 <= d, d < Size,
         CellAt(d, q) = CellAt(c, r) + (a * (Size + 1) + b)
  PROVE  d = c + b /\ q = r + a
<1> USE SizeType
<1>1. (Size + 1) * q = (Size + 1) * r + a * (Size + 1) + (c + b - d)
  BY DEF CellAt
<1>2. (Size + 1) * (q - r - a) = c + b - d
  BY <1>1
<1>3. q - r - a = 0
  BY <1>2, SmallMultiple
<1>4. c + b - d = 0
  BY <1>2, <1>3
<1> QED
  BY <1>3, <1>4

(* A square has a column and a row, and they make its index. *)
LEMMA SquareCoordinates ==
  ASSUME NEW s \in Squares
  PROVE  /\ Column(s) \in 0 .. Size - 1 /\ Row(s) \in 0 .. Size - 1
         /\ s = Size * Row(s) + Column(s)
         /\ Index(s) = CellAt(Column(s), Row(s))
<1> USE SizeType
<1>1. s \in Nat /\ s < Size * Size
  BY DEF Squares
<1>2. /\ s = Size * Row(s) + Column(s)
      /\ Column(s) \in 0 .. Size - 1 /\ Row(s) \in Nat
  <2>1. Size \in Nat \ {0} /\ s \in Nat
    BY <1>1
  <2>2. /\ s = Size * (s \div Size) + (s % Size)
        /\ s % Size \in 0 .. Size - 1 /\ s \div Size \in Nat
    BY <2>1, Quotients
  <2> QED
    BY <2>2 DEF Row, Column
<1>3. Row(s) < Size
  <2> SUFFICES ASSUME Row(s) >= Size PROVE FALSE
    BY <1>2
  <2>1. Size * Row(s) >= Size * Size
    BY <1>2
  <2> QED
    BY <2>1, <1>1, <1>2
<1> QED
  BY <1>2, <1>3 DEF Index, CellAt

(* An index on the board is that of a column and a row. *)
LEMMA OnBoardCells ==
  ASSUME NEW x \in OnBoardIndexes
  PROVE  \E c, r \in 0 .. Size - 1 : x = CellAt(c, r)
BY SquareCoordinates DEF OnBoardIndexes

(* Different squares have different indexes. *)
LEMMA IndexInjective ==
  ASSUME NEW s \in Squares, NEW t \in Squares, Index(s) = Index(t)
  PROVE  s = t
<1> USE SizeType
<1>1. CellAt(Column(s), Row(s)) = CellAt(Column(t), Row(t)) + (0 * (Size + 1) + 0)
  BY SquareCoordinates DEF CellAt
<1>2. Column(s) = Column(t) + 0 /\ Row(s) = Row(t) + 0
  BY <1>1, SquareCoordinates, CellsDiffer
<1> QED
  BY <1>2, SquareCoordinates

(* A square of the board lies inside the array with all its neighbours. *)
LEMMA OnBoardRange ==
  ASSUME NEW x \in OnBoardIndexes
  PROVE  /\ x \in Nat \ {0} /\ x \in Indexes
         /\ \A d \in -(Size + 2) .. Size + 2 : x + d \in Indexes
<1> USE SizeType
<1>1. PICK c, r \in 0 .. Size - 1 : x = CellAt(c, r)
  BY OnBoardCells
<1>2. (Size + 1) * r >= 0 /\ (Size + 1) * r <= (Size + 1) * (Size - 1)
  BY <1>1
<1>3. x >= Size + 2 /\ x + Size + 2 <= (Size + 1) * (Size + 2)
  <2>1. x + Size + 2 = 2 * Size + 4 + c + (Size + 1) * r
    BY <1>1 DEF CellAt
  <2>2. (Size + 1) * (Size + 2) = (Size + 1) * (Size - 1) + 3 * (Size + 1)
    OBVIOUS
  <2>3. (Size + 1) * r \in Int /\ (Size + 1) * (Size - 1) \in Int /\ (Size + 1) * (Size + 2) \in Int
    BY <1>1
  <2>4. x + Size + 2 <= 2 * Size + 4 + (Size - 1) + (Size + 1) * (Size - 1)
    BY <2>1, <2>3, <1>1, <1>2
  <2>5. x \in Int
    BY <1>1, <2>3 DEF CellAt
  <2>6. x >= Size + 2
    BY <1>1, <1>2, <2>3 DEF CellAt
  <2> QED
    BY <2>2, <2>3, <2>4, <2>5, <2>6
<1>4. (Size + 1) * (Size + 2) \in Nat /\ x \in Int
  BY <1>1 DEF CellAt
<1> QED
  BY <1>3, <1>4 DEF Indexes

(* The step of each direction in rows and columns. *)
Down == <<-1, 1, -1, 1, -1, 1, 0, 0>>
Right == <<-1, 1, 0, 0, 1, -1, -1, 1>>

(* Each of the eight increments is a step of rows and columns. *)
LEMMA DirectionParts ==
  ASSUME NEW i \in 1 .. 8
  PROVE  /\ i \in DOMAIN dir_inc
         /\ Down[i] \in -1 .. 1 /\ Right[i] \in -1 .. 1
         /\ dir_inc[i] = Down[i] * (Size + 1) + Right[i]
         /\ dir_inc[i] \in -(Size + 2) .. Size + 2 /\ dir_inc[i] # 0
<1> USE SizeType DEF dir_inc, Down, Right
<1>1. DOMAIN dir_inc = 1 .. 8
  OBVIOUS
<1>2. CASE i = 1
  BY <1>1, <1>2
<1>3. CASE i = 2
  BY <1>1, <1>3
<1>4. CASE i = 3
  BY <1>1, <1>4
<1>5. CASE i = 4
  BY <1>1, <1>5
<1>6. CASE i = 5
  BY <1>1, <1>6
<1>7. CASE i = 6
  BY <1>1, <1>7
<1>8. CASE i = 7
  BY <1>1, <1>8
<1>9. CASE i = 8
  BY <1>1, <1>9
<1>10. i = 1 \/ i = 2 \/ i = 3 \/ i = 4 \/ i = 5 \/ i = 6 \/ i = 7 \/ i = 8
  OBVIOUS
<1> QED
  BY <1>2, <1>3, <1>4, <1>5, <1>6, <1>7, <1>8, <1>9, <1>10

(* No two of them are the same step. *)
LEMMA DirectionsDiffer ==
  ASSUME NEW i \in 1 .. 8, NEW j \in 1 .. 8, Down[i] = Down[j], Right[i] = Right[j]
  PROVE  i = j
<1> USE DEF Down, Right
<1>1. /\ i = 1 \/ i = 2 \/ i = 3 \/ i = 4 \/ i = 5 \/ i = 6 \/ i = 7 \/ i = 8
      /\ j = 1 \/ j = 2 \/ j = 3 \/ j = 4 \/ j = 5 \/ j = 6 \/ j = 7 \/ j = 8
  OBVIOUS
<1> QED
  BY <1>1

(* Two numbers of steps along the same unit are equal. *)
LEMMA UnitMultiples ==
  ASSUME NEW k \in Nat \ {0}, NEW l \in Nat \ {0}, NEW v \in -1 .. 1, NEW w \in -1 .. 1, k * v = l * w
  PROVE  v = w
<1>1. v \in {-1, 0, 1} /\ w \in {-1, 0, 1}
  OBVIOUS
<1>2. k * (-1) = -k /\ k * 0 = 0 /\ k * 1 = k /\ l * (-1) = -l /\ l * 0 = 0 /\ l * 1 = l
  OBVIOUS
<1> QED
  BY <1>1, <1>2

(* A product is zero only with one of its factors. *)
LEMMA ZeroProduct ==
  ASSUME NEW p \in Int, NEW q \in Int, NEW d \in Int, d # 0, p * d = q * d
  PROVE  p = q
<1>1. d * (p - q) = 0
  OBVIOUS
<1>2. CASE d > 0
  <2>1. p - q = 0
    BY <1>1, <1>2, SmallMultiple
  <2> QED
    BY <2>1
<1>3. CASE d < 0
  <2>1. (-d) * (p - q) = 0
    BY <1>1
  <2>2. p - q = 0
    BY <2>1, <1>3, SmallMultiple
  <2> QED
    BY <2>2
<1> QED
  BY <1>2, <1>3

(* x is reached from the cell (c, r) in direction i. *)
OnRay(c, r, i, x) ==
  \E k \in Nat \ {0} :
    /\ c + k * Right[i] \in 0 .. Size - 1 /\ r + k * Down[i] \in 0 .. Size - 1
    /\ x = CellAt(c + k * Right[i], r + k * Down[i])

(* No square is reached in two directions. *)
LEMMA RaysApart ==
  ASSUME NEW c \in Int, NEW r \in Int, NEW i \in 1 .. 8, NEW j \in 1 .. 8, NEW x,
         OnRay(c, r, i, x), OnRay(c, r, j, x)
  PROVE  i = j
<1> USE SizeType
<1>1. PICK k \in Nat \ {0} :
        /\ c + k * Right[i] \in 0 .. Size - 1 /\ r + k * Down[i] \in 0 .. Size - 1
        /\ x = CellAt(c + k * Right[i], r + k * Down[i])
  BY DEF OnRay
<1>2. PICK l \in Nat \ {0} :
        /\ c + l * Right[j] \in 0 .. Size - 1 /\ r + l * Down[j] \in 0 .. Size - 1
        /\ x = CellAt(c + l * Right[j], r + l * Down[j])
  BY DEF OnRay
<1> PICK c1, r1, c2, r2 \in Int :
        /\ c1 = c + k * Right[i] /\ r1 = r + k * Down[i]
        /\ c2 = c + l * Right[j] /\ r2 = r + l * Down[j]
  BY <1>1, <1>2
<1>3. CellAt(c1, r1) = CellAt(c2, r2) + (0 * (Size + 1) + 0)
  BY <1>1, <1>2 DEF CellAt
<1>4. c1 = c2 + 0 /\ r1 = r2 + 0
  BY <1>1, <1>2, <1>3, CellsDiffer
<1>5. /\ Right[i] \in -1 .. 1 /\ Right[j] \in -1 .. 1 /\ Down[i] \in -1 .. 1 /\ Down[j] \in -1 .. 1
  BY DirectionParts
<1>6. k * Right[i] = l * Right[j] /\ k * Down[i] = l * Down[j]
  BY <1>4, <1>5
<1>7. Right[i] = Right[j] /\ Down[i] = Down[j]
  BY <1>5, <1>6, UnitMultiples
<1> QED
  BY <1>7, DirectionsDiffer

(* One more step. *)
LEMMA NextMultiple ==
  ASSUME NEW k \in Int, NEW x \in Int
  PROVE  (k + 1) * x = k * x + x /\ k * x \in Int
OBVIOUS

(* The squares that are k steps away are k rows and columns away. *)
LEMMA RayPositions ==
  ASSUME NEW c \in 0 .. Size - 1, NEW r \in 0 .. Size - 1, NEW i \in 1 .. 8, NEW n \in Nat,
         \A k \in 1 .. n : CellAt(c, r) + k * dir_inc[i] \in OnBoardIndexes
  PROVE  \A k \in 1 .. n : /\ c + k * Right[i] \in 0 .. Size - 1 /\ r + k * Down[i] \in 0 .. Size - 1
                         /\ CellAt(c, r) + k * dir_inc[i] = CellAt(c + k * Right[i], r + k * Down[i])
<1> USE SizeType
<1> DEFINE P(k) == /\ c + k * Right[i] \in 0 .. Size - 1 /\ r + k * Down[i] \in 0 .. Size - 1
                   /\ CellAt(c, r) + k * dir_inc[i] = CellAt(c + k * Right[i], r + k * Down[i])
           Bad == {k \in 1 .. n : ~P(k)}
<1>1. /\ Right[i] \in -1 .. 1 /\ Down[i] \in -1 .. 1 /\ dir_inc[i] \in Int
      /\ dir_inc[i] = Down[i] * (Size + 1) + Right[i]
  BY DirectionParts
<1>2. P(0)
  <2>1. 0 * Right[i] = 0 /\ 0 * Down[i] = 0 /\ 0 * dir_inc[i] = 0
    BY <1>1
  <2>2. CellAt(c, r) \in Int
    BY DEF CellAt
  <2>3. c + 0 = c /\ r + 0 = r /\ CellAt(c, r) + 0 = CellAt(c, r)
    BY <2>2
  <2> QED
    BY <2>1, <2>3
<1>3. ASSUME NEW k \in Nat, k < n, P(k) PROVE P(k + 1)
  <2>1. /\ (k + 1) * Right[i] = k * Right[i] + Right[i]
        /\ (k + 1) * Down[i] = k * Down[i] + Down[i]
        /\ (k + 1) * dir_inc[i] = k * dir_inc[i] + dir_inc[i]
        /\ k * Right[i] \in Int /\ k * Down[i] \in Int /\ k * dir_inc[i] \in Int
    <3>1. Right[i] \in Int /\ Down[i] \in Int /\ dir_inc[i] \in Int /\ k \in Int
      BY <1>1
    <3> QED
      BY ONLY <3>1, NextMultiple
  <2>2. CellAt(c, r) + (k + 1) * dir_inc[i] \in OnBoardIndexes
    BY <1>3
  <2>3. PICK d, q \in 0 .. Size - 1 : CellAt(c, r) + (k + 1) * dir_inc[i] = CellAt(d, q)
    BY <2>2, OnBoardCells
  <2>4. PICK c1, r1 \in Int : c1 = c + k * Right[i] /\ r1 = r + k * Down[i]
    BY <2>1
  <2>5. c1 \in 0 .. Size - 1 /\ CellAt(c, r) + k * dir_inc[i] = CellAt(c1, r1)
    BY <2>4, <1>3
  <2>6. CellAt(c, r) \in Int /\ CellAt(c1, r1) \in Int
    BY DEF CellAt
  <2>7. CellAt(d, q) = CellAt(c1, r1) + (Down[i] * (Size + 1) + Right[i])
    <3>1. CellAt(d, q) = CellAt(c1, r1) + dir_inc[i]
      <4>1. k * dir_inc[i] \in Int /\ dir_inc[i] \in Int
        BY <2>1, <1>1
      <4> QED
        BY ONLY <4>1, <2>1, <2>3, <2>5, <2>6
    <3> QED
      BY ONLY <3>1, <1>1
  <2>8. d = c1 + Right[i] /\ q = r1 + Down[i]
    <3>1. /\ c1 \in Int /\ d \in Int /\ r1 \in Int /\ q \in Int /\ Down[i] \in -1 .. 1 /\ Right[i] \in -1 .. 1
          /\ 0 <= c1 /\ c1 < Size /\ 0 <= d /\ d < Size
      BY <2>3, <2>4, <2>5, <1>1
    <3> QED
      BY ONLY <3>1, <2>7, CellsDiffer
  <2>9. d = c + (k + 1) * Right[i] /\ q = r + (k + 1) * Down[i]
    BY <2>1, <2>4, <2>8, <1>1
  <2> QED
    BY <2>3, <2>9
<1>4. Bad = {}
  <2> SUFFICES ASSUME Bad # {} PROVE FALSE
    OBVIOUS
  <2>1. Bad \subseteq Nat
    OBVIOUS
  <2>2. PICK k \in Bad : \A l \in Bad : k <= l
    <3> HIDE DEF Bad
    <3> QED
      BY <2>1, LeastNatural
  <2>3. k \in Nat \ {0} /\ k <= n /\ ~P(k) /\ k - 1 \in Nat
    OBVIOUS
  <2>4. P(k - 1)
    <3>1. CASE k = 1
      BY <3>1, <1>2
    <3>2. CASE k # 1
      <4>1. k - 1 \in 1 .. n /\ ~(k <= k - 1)
        BY <3>2, <2>3
      <4> QED
        BY <4>1, <2>2
    <3> QED
      BY <3>1, <3>2
  <2>5. (k - 1) + 1 = k /\ k - 1 < n
    BY <2>3
  <2> HIDE DEF P, Bad
  <2> QED
    BY <2>3, <2>4, <2>5, <1>3
<1>5. \A k \in 1 .. n : P(k)
  BY <1>4
<1> QED
  BY <1>5

(* They are on the ray. *)
LEMMA RayCells ==
  ASSUME NEW c \in 0 .. Size - 1, NEW r \in 0 .. Size - 1, NEW i \in 1 .. 8, NEW n \in Nat,
         \A k \in 1 .. n : CellAt(c, r) + k * dir_inc[i] \in OnBoardIndexes
  PROVE  \A k \in 1 .. n : OnRay(c, r, i, CellAt(c, r) + k * dir_inc[i])
<1> TAKE k \in 1 .. n
<1>1. /\ c + k * Right[i] \in 0 .. Size - 1 /\ r + k * Down[i] \in 0 .. Size - 1
      /\ CellAt(c, r) + k * dir_inc[i] = CellAt(c + k * Right[i], r + k * Down[i])
  BY RayPositions
<1>2. k \in Nat \ {0}
  OBVIOUS
<1> QED
  BY ONLY <1>1, <1>2 DEF OnRay

BoardType(b) ==
  /\ b \in [Indexes -> 0 .. 3]
  /\ \A i \in Indexes : b[i] = IFES_DUMMY <=> i \notin OnBoardIndexes

(* A run of discs in one direction stays on the board: the dummy squares   *)
(* stop it.                                                                *)
LEMMA RunOnBoard ==
  ASSUME NEW b, BoardType(b), NEW sq \in OnBoardIndexes, NEW i \in 1 .. 8, NEW color \in {0, 2}, NEW n \in Nat,
         \A k \in 1 .. n : b[sq + k * dir_inc[i]] = opponent_color(color)
  PROVE  \A k \in 1 .. n : sq + k * dir_inc[i] \in OnBoardIndexes
<1> DEFINE Bad == {k \in 1 .. n : sq + k * dir_inc[i] \notin OnBoardIndexes}
<1> SUFFICES ASSUME Bad # {} PROVE FALSE
  OBVIOUS
<1>1. Bad \subseteq Nat
  OBVIOUS
<1>2. PICK k \in Bad : \A l \in Bad : k <= l
  <2> HIDE DEF Bad
  <2> QED
    BY <1>1, LeastNatural
<1>3. /\ k \in Nat \ {0} /\ k <= n /\ k \in 1 .. n /\ k - 1 \in Nat
      /\ sq + k * dir_inc[i] \notin OnBoardIndexes
  OBVIOUS
<1>4. dir_inc[i] \in Int /\ dir_inc[i] \in -(Size + 2) .. Size + 2
  BY DirectionParts, SizeType
<1>5. sq + (k - 1) * dir_inc[i] \in OnBoardIndexes
  <2>1. CASE k = 1
    <3>1. sq \in Int /\ (k - 1) = 0 /\ 0 * dir_inc[i] = 0
      BY <2>1, <1>4, OnBoardRange
    <3>2. sq + 0 = sq
      BY <3>1
    <3> QED
      BY <3>1, <3>2
  <2>2. CASE k # 1
    <3>1. k - 1 \in 1 .. n /\ ~(k <= k - 1)
      BY <2>2, <1>3
    <3> QED
      BY <3>1, <1>2
  <2> QED
    BY <2>1, <2>2
<1>6. sq + k * dir_inc[i] \in Indexes
  <2>1. (sq + (k - 1) * dir_inc[i]) + dir_inc[i] \in Indexes
    BY <1>5, <1>4, OnBoardRange
  <2>2. ((k - 1) + 1) * dir_inc[i] = (k - 1) * dir_inc[i] + dir_inc[i] /\ (k - 1) * dir_inc[i] \in Int
    BY <1>3, <1>4, NextMultiple
  <2>3. (k - 1) + 1 = k /\ sq \in Int
    BY <1>3, OnBoardRange
  <2>4. k * dir_inc[i] = (k - 1) * dir_inc[i] + dir_inc[i]
    BY <2>2, <2>3
  <2>5. \A u, v, w \in Int : u + (v + w) = (u + v) + w
    OBVIOUS
  <2> QED
    BY <2>1, <2>2, <2>3, <2>4, <2>5, <1>4
<1>7. b[sq + k * dir_inc[i]] = IFES_DUMMY
  BY <1>3, <1>6 DEF BoardType
<1>8. b[sq + k * dir_inc[i]] = opponent_color(color)
  BY <1>3
<1> QED
  BY <1>7, <1>8 DEF IFES_DUMMY, opponent_color

(* Squares of discs of the opponent, none of them twice, that are reached  *)
(* from the cell (c, r) in the directions in D.                            *)
Turning(t, b, color, c, r, D) ==
  /\ t \in Seq(OnBoardIndexes)
  /\ \A k \in 1 .. Len(t) : b[t[k]] = opponent_color(color) /\ \E i \in D : OnRay(c, r, i, t[k])
  /\ \A k, l \in 1 .. Len(t) : t[k] = t[l] => k = l

(* No disc is turned in no direction. *)
LEMMA NoneTurning ==
  ASSUME NEW b, NEW color, NEW c, NEW r, NEW D
  PROVE  Turning(<< >>, b, color, c, r, D)
BY DEF Turning

(* The discs turned in some directions, followed by those of another one. *)
LEMMA Joined ==
  ASSUME NEW b, NEW color, NEW c \in Int, NEW r \in Int, NEW j \in 1 .. 7, NEW s, NEW t,
         Turning(s, b, color, c, r, 1 .. j), Turning(t, b, color, c, r, {j + 1})
  PROVE  Turning(s \o t, b, color, c, r, 1 .. j + 1)
<1>1. /\ s \in Seq(OnBoardIndexes) /\ t \in Seq(OnBoardIndexes) /\ s \o t \in Seq(OnBoardIndexes)
      /\ Len(s) \in Nat /\ Len(t) \in Nat /\ Len(s \o t) = Len(s) + Len(t)
  BY DEF Turning
<1>2. \A k \in 1 .. Len(s \o t) :
        \/ k \in 1 .. Len(s) /\ (s \o t)[k] = s[k]
        \/ k - Len(s) \in 1 .. Len(t) /\ (s \o t)[k] = t[k - Len(s)] /\ k \notin 1 .. Len(s)
  BY <1>1
<1>3. ASSUME NEW k \in 1 .. Len(s \o t)
      PROVE  /\ (s \o t)[k] = (s \o t)[k] /\ b[(s \o t)[k]] = opponent_color(color)
             /\ \E i \in 1 .. j + 1 : OnRay(c, r, i, (s \o t)[k])
  <2>1. 1 .. j \subseteq 1 .. j + 1 /\ j + 1 \in 1 .. j + 1
    OBVIOUS
  <2>2. CASE k \in 1 .. Len(s) /\ (s \o t)[k] = s[k]
    <3>1. b[s[k]] = opponent_color(color) /\ \E i \in 1 .. j : OnRay(c, r, i, s[k])
      BY <2>2 DEF Turning
    <3> QED
      BY <3>1, <2>1, <2>2
  <2>3. CASE k - Len(s) \in 1 .. Len(t) /\ (s \o t)[k] = t[k - Len(s)]
    <3>1. b[t[k - Len(s)]] = opponent_color(color) /\ OnRay(c, r, j + 1, t[k - Len(s)])
      BY <2>3 DEF Turning
    <3> QED
      BY <3>1, <2>1, <2>3
  <2> QED
    BY <1>2, <2>2, <2>3
<1>4. ASSUME NEW k \in 1 .. Len(s), NEW l \in 1 .. Len(t) PROVE s[k] # t[l]
  <2>1. PICK i \in 1 .. j : OnRay(c, r, i, s[k])
    BY DEF Turning
  <2>2. OnRay(c, r, j + 1, t[l])
    BY DEF Turning
  <2>3. i \in 1 .. 8 /\ j + 1 \in 1 .. 8 /\ i # j + 1
    OBVIOUS
  <2> QED
    BY <2>1, <2>2, <2>3, RaysApart
<1>5. ASSUME NEW k \in 1 .. Len(s \o t), NEW l \in 1 .. Len(s \o t), (s \o t)[k] = (s \o t)[l]
      PROVE  k = l
  <2>1. CASE k \in 1 .. Len(s) /\ (s \o t)[k] = s[k]
    <3>1. l \in 1 .. Len(s) /\ (s \o t)[l] = s[l]
      BY <1>2, <1>4, <1>5, <2>1
    <3> QED
      BY <3>1, <2>1, <1>5 DEF Turning
  <2>2. CASE k - Len(s) \in 1 .. Len(t) /\ (s \o t)[k] = t[k - Len(s)]
    <3>1. l - Len(s) \in 1 .. Len(t) /\ (s \o t)[l] = t[l - Len(s)]
      BY <1>2, <1>4, <1>5, <2>2
    <3>2. k - Len(s) = l - Len(s)
      BY <3>1, <2>2, <1>5 DEF Turning
    <3> QED
      BY <3>2, <1>1
  <2> QED
    BY <1>2, <2>1, <2>2
<1> QED
  BY <1>1, <1>3, <1>5 DEF Turning

(* directional_flips turns discs of the opponent, each once, all in its    *)
(* direction.                                                              *)
LEMMA DirectionTurning ==
  ASSUME NEW b, BoardType(b), NEW c \in 0 .. Size - 1, NEW r \in 0 .. Size - 1, NEW i \in 1 .. 8,
         NEW color \in {0, 2}, NEW sq \in OnBoardIndexes, sq = CellAt(c, r)
  PROVE  Turning(directional_flips(b, sq, dir_inc[i], color), b, color, c, r, {i})
<1> DEFINE inc == dir_inc[i]
           Over(n) == \A k \in 1 .. n : b[sq + k * inc] = opponent_color(color)
           lengths == {n \in 0 .. Size - 2 : Over(n)}
           run == Max(lengths)
           t == [k \in 1 .. run |-> sq + (run + 1 - k) * inc]
<1>1. run \in 0 .. Size - 2 /\ Over(run)
  <2>1. 0 \in lengths
    <3>1. 0 \in 0 .. Size - 2 /\ 1 .. 0 = {}
      BY SizeType
    <3>2. Over(0)
      BY <3>1
    <3> HIDE DEF Over
    <3> QED
      BY <3>1, <3>2
  <2>2. lengths \subseteq 0 .. Size - 2 /\ lengths # {} /\ Size - 2 \in Nat
    <3> HIDE DEF Over
    <3> QED
      BY <2>1, SizeType
  <2>3. \E x \in lengths : \A y \in lengths : y <= x
    <3> HIDE DEF lengths
    <3> QED
      BY <2>2, GreatestUpTo
  <2>4. \A x, y \in lengths : x >= y <=> y <= x
    BY <2>2
  <2>5. run \in lengths
    <3> HIDE DEF lengths
    <3> QED
      BY <2>3, <2>4 DEF Max
  <2> QED
    BY <2>5
<1>2. directional_flips(b, sq, inc, color)
        = IF run > 0 /\ b[sq + (run + 1) * inc] = color THEN t ELSE << >>
  BY DEF directional_flips
<1>3. Turning(t, b, color, c, r, {i})
  <2>1. \A n \in 0 .. Size - 2 : n \in Nat
    BY SizeType
  <2> PICK m \in Nat : m = run
    <3> HIDE DEF run
    <3> QED
      BY <1>1, <2>1
  <2>2. \A k \in 1 .. m : b[sq + k * inc] = opponent_color(color)
    BY <1>1
  <2> DEFINE u == [k \in 1 .. m |-> sq + (m + 1 - k) * inc]
  <2>3. t = u
    OBVIOUS
  <2> HIDE DEF run, t
  <2>4. \A k \in 1 .. m : sq + k * inc \in OnBoardIndexes
    BY <2>2, RunOnBoard
  <2>5. \A k \in 1 .. m : OnRay(c, r, i, sq + k * inc)
    BY <2>4, RayCells
  <2>6. \A k \in 1 .. m : m + 1 - k \in 1 .. m
    OBVIOUS
  <2>7. u \in Seq(OnBoardIndexes) /\ Len(u) = m /\ \A k \in 1 .. m : u[k] = sq + (m + 1 - k) * inc
    <3>1. u \in [1 .. m -> OnBoardIndexes]
      BY <2>4, <2>6
    <3> QED
      BY <3>1
  <2>8. \A k \in 1 .. m : b[u[k]] = opponent_color(color) /\ OnRay(c, r, i, u[k])
    <3> HIDE DEF u
    <3> QED
      BY <2>2, <2>5, <2>6, <2>7
  <2>9. ASSUME NEW k \in 1 .. m, NEW l \in 1 .. m, u[k] = u[l] PROVE k = l
    <3> PICK p, q \in Int : p = m + 1 - k /\ q = m + 1 - l
      OBVIOUS
    <3>1. sq + p * inc = sq + q * inc
      BY <2>7, <2>9
    <3>2. inc \in Int /\ inc # 0 /\ sq \in Int
      BY DirectionParts, OnBoardRange, SizeType
    <3> HIDE DEF inc
    <3>3. p * inc \in Int /\ q * inc \in Int
      BY <3>2
    <3>4. p * inc = q * inc
      BY <3>1, <3>2, <3>3
    <3>5. p = q
      BY <3>2, <3>4, ZeroProduct
    <3> QED
      BY <3>5
  <2> HIDE DEF u
  <2>10. Turning(u, b, color, c, r, {i})
    BY <2>7, <2>8, <2>9 DEF Turning
  <2> QED
    BY <2>3, <2>10
<1> HIDE DEF t, run
<1> QED
  BY <1>2, <1>3, NoneTurning

(* The discs that a move turns. *)
LEMMA FlipsTurning ==
  ASSUME NEW b, BoardType(b), NEW sq \in OnBoardIndexes, NEW color \in {0, 2}
  PROVE  \E c, r \in 0 .. Size - 1 : Turning(flips(b, sq, color), b, color, c, r, 1 .. 8)
<1> PICK c, r \in 0 .. Size - 1 : sq = CellAt(c, r)
  BY OnBoardCells
<1> DEFINE along(i) == IF dir_inc[i] \in flipping_dirs[sq]
                       THEN directional_flips(b, sq, dir_inc[i], color) ELSE << >>
<1>1. \A i \in 1 .. 8 : Turning(along(i), b, color, c, r, {i})
  BY DirectionTurning, NoneTurning
<1>2. c \in Int /\ r \in Int
  BY SizeType
<1> DEFINE T(s, j) == Turning(s, b, color, c, r, 1 .. j)
<1>3. ASSUME NEW s, NEW j \in 1 .. 7, T(s, j) PROVE T(s \o along(j + 1), j + 1)
  <2> HIDE DEF along
  <2>1. j + 1 \in 1 .. 8
    OBVIOUS
  <2>2. Turning(along(j + 1), b, color, c, r, {j + 1})
    BY <1>1, <2>1
  <2> QED
    BY <1>2, <1>3, <2>2, Joined
<1>4. T(along(1), 1)
  <2>1. 1 .. 1 = {1}
    OBVIOUS
  <2> QED
    BY <2>1, <1>1
<1>5. /\ 1 + 1 = 2 /\ 2 + 1 = 3 /\ 3 + 1 = 4 /\ 4 + 1 = 5 /\ 5 + 1 = 6 /\ 6 + 1 = 7 /\ 7 + 1 = 8
      /\ 1 \in 1 .. 7 /\ 2 \in 1 .. 7 /\ 3 \in 1 .. 7 /\ 4 \in 1 .. 7 /\ 5 \in 1 .. 7 /\ 6 \in 1 .. 7 /\ 7 \in 1 .. 7
  OBVIOUS
<1>6. flips(b, sq, color)
        = along(1) \o along(2) \o along(3) \o along(4) \o along(5) \o along(6) \o along(7) \o along(8)
  BY DEF flips
<1> HIDE DEF along, T
<1>7. T(along(1) \o along(2), 2)
  BY <1>3, <1>4, <1>5
<1>8. T(along(1) \o along(2) \o along(3), 3)
  BY <1>3, <1>7, <1>5
<1>9. T(along(1) \o along(2) \o along(3) \o along(4), 4)
  BY <1>3, <1>8, <1>5
<1>10. T(along(1) \o along(2) \o along(3) \o along(4) \o along(5), 5)
  BY <1>3, <1>9, <1>5
<1>11. T(along(1) \o along(2) \o along(3) \o along(4) \o along(5) \o along(6), 6)
  BY <1>3, <1>10, <1>5
<1>12. T(along(1) \o along(2) \o along(3) \o along(4) \o along(5) \o along(6) \o along(7), 7)
  BY <1>3, <1>11, <1>5
<1>13. T(flips(b, sq, color), 8)
  BY <1>3, <1>12, <1>5, <1>6
<1> QED
  BY <1>13 DEF T

(* What the searches need to know of them. *)
TurnedDiscs(t, b, color) ==
  /\ t \in Seq(OnBoardIndexes)
  /\ \A x \in ToSet(t) : x \in OnBoardIndexes /\ b[x] = opponent_color(color)
  /\ IsFiniteSet(ToSet(t)) /\ Cardinality(ToSet(t)) = Len(t)

(* The flips of a move are different discs of the opponent. *)
LEMMA TurnedDiscsOfMove ==
  ASSUME NEW b, BoardType(b), NEW sq \in OnBoardIndexes, NEW color \in {0, 2}
  PROVE  TurnedDiscs(flips(b, sq, color), b, color)
<1> PICK c, r \in 0 .. Size - 1 : Turning(flips(b, sq, color), b, color, c, r, 1 .. 8)
  BY FlipsTurning
<1> DEFINE t == flips(b, sq, color)
<1>1. /\ t \in Seq(OnBoardIndexes) /\ Len(t) \in Nat /\ t \in [1 .. Len(t) -> OnBoardIndexes]
      /\ \A k \in 1 .. Len(t) : b[t[k]] = opponent_color(color)
      /\ \A k, l \in 1 .. Len(t) : t[k] = t[l] => k = l
  BY DEF Turning
<1> HIDE DEF t
<1> PICK n \in Nat : n = Len(t)
  BY <1>1
<1>2. /\ t \in [1 .. n -> OnBoardIndexes]
      /\ \A k \in 1 .. n : b[t[k]] = opponent_color(color)
      /\ \A k, l \in 1 .. n : t[k] = t[l] => k = l
  BY <1>1
<1>3. ToSet(t) = {t[k] : k \in 1 .. n}
  <2>1. DOMAIN t = 1 .. n
    BY <1>2
  <2> QED
    BY ONLY <2>1, Zenon DEF ToSet
<1>4. IsFiniteSet(ToSet(t)) /\ Cardinality(ToSet(t)) = n
  <2>1. t \in Bijection(1 .. n, ToSet(t))
    BY <1>2, <1>3 DEF Bijection, Injection, Surjection, IsInjective
  <2>2. ExistsBijection(1 .. n, ToSet(t))
    BY <2>1 DEF ExistsBijection
  <2> QED
    BY <2>2, FS_NatBijection, FS_CountingElements
<1>5. TurnedDiscs(t, b, color)
  <2>1. \A x \in ToSet(t) : x \in OnBoardIndexes /\ b[x] = opponent_color(color)
    BY <1>2, <1>3
  <2> QED
    BY <1>1, <1>4, <2>1 DEF TurnedDiscs
<1> QED
  BY <1>5 DEF t

(* The board is finite, so that its squares can be counted. *)
LEMMA OnBoardFinite == IsFiniteSet(OnBoardIndexes)
<1>1. (Size + 1) * (Size + 2) \in Int /\ 0 \in Int
  BY SizeType
<1>2. IsFiniteSet(Indexes)
  BY <1>1, FS_Interval DEF Indexes
<1>3. OnBoardIndexes \in SUBSET Indexes
  BY OnBoardRange
<1> QED
  BY <1>2, <1>3, FS_Subset

(* The number of discs of a color changes with the squares. *)
LEMMA CountOfSet ==
  ASSUME NEW b, NEW v
  PROVE  /\ IsFiniteSet({i \in OnBoardIndexes : b[i] = v})
         /\ Count(b, v) = Cardinality({i \in OnBoardIndexes : b[i] = v})
         /\ Count(b, v) \in Nat
<1>1. {i \in OnBoardIndexes : b[i] = v} \in SUBSET OnBoardIndexes
  OBVIOUS
<1>2. IsFiniteSet({i \in OnBoardIndexes : b[i] = v})
  BY <1>1, OnBoardFinite, FS_Subset
<1> QED
  BY <1>2, FS_CardinalityType DEF Count

(* The disc is placed on sq and the discs in t are turned. *)
PlacedCorrectly(b, sq, t, color, c) ==
  /\ BoardType(c)
  /\ EmptySquares(c) = EmptySquares(b) \ {sq}
  /\ Count(c, IFES_EMPTY) = Count(b, IFES_EMPTY) - 1
  /\ Count(c, color) = Count(b, color) + Len(t) + 1
  /\ Count(c, opponent_color(color)) = Count(b, opponent_color(color)) - Len(t)
  /\ [i \in Indexes |-> IF i = sq THEN IFES_EMPTY
                        ELSE IF i \in ToSet(t) THEN opponent_color(color) ELSE c[i]] = b

(* A move on the board: what it counts, and that undo_flips takes it back. *)
LEMMA PlacedBoard ==
  ASSUME NEW b, BoardType(b), NEW sq \in EmptySquares(b), NEW color \in {0, 2}, NEW t, TurnedDiscs(t, b, color)
  PROVE  PlacedCorrectly(b, sq, t, color, Placed(b, sq, t, color))
<1> DEFINE c == Placed(b, sq, t, color)
           T == ToSet(t)
           other == opponent_color(color)
<1>1. /\ sq \in OnBoardIndexes /\ sq \in Indexes /\ b[sq] = 1
      /\ other \in {0, 2} /\ other # color /\ OnBoardIndexes \subseteq Indexes
  BY OnBoardRange DEF EmptySquares, opponent_color, IFES_EMPTY
<1>2. /\ \A x \in T : x \in OnBoardIndexes /\ x \in Indexes /\ b[x] = other /\ x # sq
      /\ IsFiniteSet(T) /\ Cardinality(T) = Len(t) /\ Len(t) \in Nat
  BY <1>1, OnBoardRange DEF TurnedDiscs
<1>3. \A i \in Indexes : c[i] = IF i = sq \/ i \in T THEN color ELSE b[i]
  BY DEF Placed
<1>4. \A i \in Indexes : b[i] \in 0 .. 3 /\ (b[i] = 3 <=> i \notin OnBoardIndexes)
  BY DEF BoardType, IFES_DUMMY
<1> HIDE DEF T, other
<1>5. BoardType(c)
  <2>1. c \in [Indexes -> 0 .. 3]
    BY <1>4 DEF Placed
  <2>2. ASSUME NEW i \in Indexes PROVE c[i] = 3 <=> i \notin OnBoardIndexes
    <3> HIDE DEF c
    <3> QED
      BY <1>1, <1>2, <1>3, <1>4
  <2> HIDE DEF c
  <2> QED
    BY <2>1, <2>2 DEF BoardType, IFES_DUMMY
<1>6. [i \in Indexes |-> IF i = sq THEN IFES_EMPTY ELSE IF i \in T THEN other ELSE c[i]] = b
  <2> DEFINE d == [i \in Indexes |-> IF i = sq THEN IFES_EMPTY ELSE IF i \in T THEN other ELSE c[i]]
  <2>1. ASSUME NEW i \in Indexes PROVE d[i] = b[i]
    <3> HIDE DEF c
    <3> QED
      BY <1>1, <1>2, <1>3 DEF IFES_EMPTY
  <2>2. b = [i \in Indexes |-> b[i]]
    BY DEF BoardType
  <2>3. d = [i \in Indexes |-> d[i]]
    OBVIOUS
  <2> HIDE DEF d
  <2>4. d = b
    BY <2>1, <2>2, <2>3
  <2> QED
    BY <2>4 DEF d
<1> HIDE DEF c
<1>7. EmptySquares(c) = EmptySquares(b) \ {sq}
  BY <1>1, <1>2, <1>3 DEF EmptySquares, IFES_EMPTY
<1> DEFINE Of(x, v) == {i \in OnBoardIndexes : x[i] = v}
<1>8. Of(c, 1) = Of(b, 1) \ {sq} /\ sq \in Of(b, 1)
  BY <1>1, <1>2, <1>3
<1>9. Of(c, color) = (Of(b, color) \cup T) \cup {sq} /\ Of(b, color) \cap T = {} /\ sq \notin Of(b, color) \cup T
  BY <1>1, <1>2, <1>3
<1>10. Of(c, other) = Of(b, other) \ T /\ T \subseteq Of(b, other)
  BY <1>1, <1>2, <1>3
<1>11. \A x, v : IsFiniteSet(Of(x, v)) /\ Count(x, v) = Cardinality(Of(x, v)) /\ Count(x, v) \in Nat
  BY CountOfSet
<1> HIDE DEF Of
<1>12. Count(c, 1) = Count(b, 1) - 1
  BY <1>8, <1>11, FS_RemoveElement
<1>13. Count(c, color) = Count(b, color) + Len(t) + 1
  <2>1. IsFiniteSet(Of(b, color) \cup T) /\ Cardinality(Of(b, color) \cup T) = Count(b, color) + Len(t)
    <3>1. Cardinality(Of(b, color) \cap T) = 0
      BY <1>9, FS_EmptySet
    <3>2. /\ IsFiniteSet(Of(b, color)) /\ Cardinality(Of(b, color)) = Count(b, color) /\ Count(b, color) \in Nat
          /\ IsFiniteSet(T) /\ Cardinality(T) = Len(t) /\ Len(t) \in Nat
      BY <1>2, <1>11
    <3>3. /\ IsFiniteSet(Of(b, color) \cup T)
          /\ Cardinality(Of(b, color) \cup T)
               = Cardinality(Of(b, color)) + Cardinality(T) - Cardinality(Of(b, color) \cap T)
      BY <3>2, FS_Union
    <3> QED
      BY <3>1, <3>2, <3>3
  <2>2. Cardinality((Of(b, color) \cup T) \cup {sq}) = Cardinality(Of(b, color) \cup T) + 1
    BY <2>1, <1>9, FS_AddElement
  <2> QED
    BY <2>1, <2>2, <1>2, <1>9, <1>11
<1>14. Count(c, other) = Count(b, other) - Len(t)
  <2>1. Of(b, other) \cap T = T
    BY <1>10
  <2>2. Cardinality(Of(b, other) \ T) = Cardinality(Of(b, other)) - Cardinality(T)
    BY <2>1, <1>11, FS_Difference
  <2> QED
    BY <2>2, <1>2, <1>10, <1>11
<1> QED
  BY <1>5, <1>6, <1>7, <1>12, <1>13, <1>14 DEF PlacedCorrectly, T, other, c, IFES_EMPTY

(* The list. *)
LEMMA RankOfSquare ==
  ASSUME NEW x \in OnBoardIndexes
  PROVE  /\ Rank(x) \in 1 .. Size * Size /\ Rank(x) \in Nat /\ Rank(x) < Rank(em_head)
         /\ Index(worst_to_best[Rank(x)]) = x /\ x # em_head /\ x # Nil
<1>1. PICK s \in Squares : x = Index(s)
  BY DEF OnBoardIndexes
<1>2. PICK i \in 1 .. Size * Size : worst_to_best[i] = s
  BY TableAssumption
<1>3. DOMAIN worst_to_best = 1 .. Size * Size
  BY TableAssumption
<1>4. /\ worst_to_best_reverse_lookup[x] \in 1 .. Size * Size
      /\ Index(worst_to_best[worst_to_best_reverse_lookup[x]]) = x
  <2>1. \E j \in DOMAIN worst_to_best : Index(worst_to_best[j]) = x
    BY <1>1, <1>2, <1>3
  <2>2. worst_to_best_reverse_lookup[x] = CHOOSE j \in DOMAIN worst_to_best : Index(worst_to_best[j]) = x
    BY DEF worst_to_best_reverse_lookup
  <2> QED
    BY <2>1, <2>2, <1>3
<1>5. x # em_head /\ x # Nil
  BY OnBoardRange DEF em_head, Nil
<1>6. Rank(x) = worst_to_best_reverse_lookup[x] /\ Rank(em_head) = Size * Size + 1
  BY <1>5 DEF Rank
<1>7. Size * Size \in Nat
  BY SizeType
<1> QED
  BY <1>4, <1>5, <1>6, <1>7

(* Ranks tell the nodes apart, em_head coming first. *)
LEMMA RankOfNode ==
  /\ Rank(em_head) \in Nat /\ em_head \notin OnBoardIndexes /\ em_head # Nil
  /\ \A x \in Nodes : Rank(x) \in Nat /\ Rank(x) <= Rank(em_head) /\ x # Nil
  /\ \A x, y \in Nodes : Rank(x) = Rank(y) => x = y
  /\ \A x \in OnBoardIndexes : Rank(x) < Rank(em_head)
<1>1. Rank(em_head) \in Nat /\ em_head # Nil
  BY SizeType DEF Rank, em_head, Nil
<1>2. em_head \notin OnBoardIndexes
  BY OnBoardRange DEF em_head
<1>3. \A x \in OnBoardIndexes : Rank(x) < Rank(em_head) /\ Rank(x) \in Nat /\ x # Nil
  BY RankOfSquare
<1>4. \A x, y \in OnBoardIndexes : Rank(x) = Rank(y) => x = y
  BY RankOfSquare
<1>5. \A x, y \in Nodes : Rank(x) = Rank(y) => x = y
  BY <1>1, <1>3, <1>4 DEF Nodes
<1> QED
  BY <1>1, <1>2, <1>3, <1>5 DEF Nodes

(* What it is to be the next node, or the one before. *)
IsNext(E, x, y) ==
  \/ y = Nil /\ \A z \in E : ~(Rank(z) < Rank(x))
  \/ y \in E /\ Rank(y) < Rank(x) /\ \A z \in E : Rank(z) < Rank(x) => Rank(z) <= Rank(y)
IsLast(E, x, y) ==
  \/ y = Nil /\ \A z \in E \cup {em_head} : ~(Rank(z) > Rank(x))
  \/ /\ y \in E \cup {em_head} /\ Rank(y) > Rank(x)
     /\ \A z \in E \cup {em_head} : Rank(z) > Rank(x) => Rank(y) <= Rank(z)

(* Following is the next node by rank, and nothing else is. *)
LEMMA FollowingIsNext ==
  ASSUME NEW E, E \subseteq OnBoardIndexes, NEW x \in Nodes
  PROVE  /\ IsNext(E, x, Following(E, x))
         /\ \A y : IsNext(E, x, y) => Following(E, x) = y
<1> DEFINE later == {z \in E : Rank(z) < Rank(x)}
<1>1. \A z \in E : z \in Nodes /\ Rank(z) \in Nat /\ z # Nil
  BY RankOfNode DEF Nodes
<1>2. Rank(x) \in Nat
  BY RankOfNode
<1>3. CASE later = {}
  <2>1. Following(E, x) = Nil
    BY <1>3 DEF Following
  <2> QED
    BY <2>1, <1>1, <1>3 DEF IsNext
<1>4. CASE later # {}
  <2> DEFINE ranks == {Rank(z) : z \in later}
  <2>1. ranks \subseteq 0 .. Rank(x) /\ ranks # {}
    BY <1>1, <1>2, <1>4
  <2>2. PICK n \in ranks : \A m \in ranks : m <= n
    <3> HIDE DEF ranks
    <3> QED
      BY <2>1, <1>2, GreatestUpTo
  <2>3. \E y \in later : \A z \in later : Rank(z) <= Rank(y)
    BY <2>2
  <2>4. Following(E, x) = CHOOSE y \in later : \A z \in later : Rank(z) <= Rank(y)
    BY <1>4 DEF Following
  <2>5. Following(E, x) \in later /\ \A z \in later : Rank(z) <= Rank(Following(E, x))
    <3> HIDE DEF later
    <3> QED
      BY <2>3, <2>4
  <2>6. IsNext(E, x, Following(E, x))
    BY <2>5 DEF IsNext
  <2>7. ASSUME NEW y, IsNext(E, x, y) PROVE Following(E, x) = y
    <3>1. y \in later /\ \A z \in later : Rank(z) <= Rank(y)
      BY <2>7, <1>4 DEF IsNext
    <3>2. Rank(y) = Rank(Following(E, x))
      BY <3>1, <2>5, <1>1
    <3> QED
      BY <3>1, <3>2, <2>5, <1>1, RankOfNode
  <2> QED
    BY <2>6, <2>7
<1> QED
  BY <1>3, <1>4

(* Preceding is the one before. *)
LEMMA PrecedingIsLast ==
  ASSUME NEW E, E \subseteq OnBoardIndexes, NEW x \in Nodes
  PROVE  /\ IsLast(E, x, Preceding(E, x))
         /\ \A y : IsLast(E, x, y) => Preceding(E, x) = y
<1> DEFINE earlier == {z \in E \cup {em_head} : Rank(z) > Rank(x)}
<1>1. \A z \in E \cup {em_head} : z \in Nodes /\ Rank(z) \in Nat /\ z # Nil
  BY RankOfNode DEF Nodes
<1>2. Rank(x) \in Nat
  BY RankOfNode
<1>3. CASE earlier = {}
  <2>1. Preceding(E, x) = Nil
    BY <1>3 DEF Preceding
  <2> QED
    BY <2>1, <1>1, <1>3 DEF IsLast
<1>4. CASE earlier # {}
  <2> DEFINE ranks == {Rank(z) : z \in earlier}
  <2>1. ranks \subseteq Nat /\ ranks # {}
    BY <1>1, <1>2, <1>4
  <2>2. PICK n \in ranks : \A m \in ranks : n <= m
    <3> HIDE DEF ranks
    <3> QED
      BY <2>1, LeastNatural
  <2>3. \E y \in earlier : \A z \in earlier : Rank(y) <= Rank(z)
    BY <2>2
  <2>4. Preceding(E, x) = CHOOSE y \in earlier : \A z \in earlier : Rank(y) <= Rank(z)
    BY <1>4 DEF Preceding
  <2>5. Preceding(E, x) \in earlier /\ \A z \in earlier : Rank(Preceding(E, x)) <= Rank(z)
    <3> HIDE DEF earlier
    <3> QED
      BY <2>3, <2>4
  <2>6. IsLast(E, x, Preceding(E, x))
    BY <2>5 DEF IsLast
  <2>7. ASSUME NEW y, IsLast(E, x, y) PROVE Preceding(E, x) = y
    <3>1. y \in earlier /\ \A z \in earlier : Rank(y) <= Rank(z)
      BY <2>7, <1>4 DEF IsLast
    <3>2. Rank(y) = Rank(Preceding(E, x))
      BY <3>1, <2>5, <1>1
    <3> QED
      BY <3>1, <3>2, <2>5, <1>1, RankOfNode
  <2> QED
    BY <2>6, <2>7
<1> QED
  BY <1>3, <1>4

(* The links around sq in the list of E, and in the list without it. *)
LinksAround(E, sq, p, n) ==
  /\ p \in {em_head} \cup (E \ {sq}) /\ Following(E, p) = sq
  /\ n # sq
  /\ n # Nil => n \in E /\ Preceding(E, n) = sq
LinksWithout(E, sq, p, n) ==
  \A x \in {em_head} \cup (E \ {sq}) :
    /\ Following(E \ {sq}, x) = IF x = p THEN n ELSE Following(E, x)
    /\ Preceding(E \ {sq}, x) = IF x = n THEN p ELSE Preceding(E, x)

(* Of the links among the squares in E, only the two around sq change when *)
(* it leaves.                                                              *)
LEMMA Unlinked ==
  ASSUME NEW E, E \subseteq OnBoardIndexes, NEW sq \in E
  PROVE  /\ LinksAround(E, sq, Preceding(E, sq), Following(E, sq))
         /\ LinksWithout(E, sq, Preceding(E, sq), Following(E, sq))
<1> DEFINE p == Preceding(E, sq)
           n == Following(E, sq)
           R == E \ {sq}
<1>1. /\ \A z \in {em_head} \cup E : z \in Nodes /\ Rank(z) \in Nat /\ z # Nil
      /\ Rank(em_head) > Rank(sq) /\ em_head # sq /\ em_head \notin E
      /\ \A z \in E : Rank(z) < Rank(em_head)
      /\ \A y, z \in {em_head} \cup E : Rank(y) = Rank(z) => y = z
      /\ R \subseteq OnBoardIndexes
  BY RankOfNode DEF Nodes
<1>2. IsNext(E, sq, n) /\ IsLast(E, sq, p)
  BY <1>1, FollowingIsNext, PrecedingIsLast
<1> HIDE DEF p, n
<1>3. /\ p \in {em_head} \cup R /\ Rank(p) > Rank(sq) /\ p # sq
      /\ \A z \in E \cup {em_head} : Rank(z) > Rank(sq) => Rank(p) <= Rank(z)
  BY <1>1, <1>2 DEF IsLast
<1>4. \/ n = Nil /\ \A z \in E : ~(Rank(z) < Rank(sq))
      \/ n \in R /\ Rank(n) < Rank(sq) /\ \A z \in E : Rank(z) < Rank(sq) => Rank(z) <= Rank(n)
  BY <1>1, <1>2 DEF IsNext
<1>5. Following(E, p) = sq
  <2>1. IsNext(E, p, sq)
    <3> SUFFICES ASSUME NEW z \in E, Rank(z) < Rank(p) PROVE Rank(z) <= Rank(sq)
      BY <1>3 DEF IsNext
    <3> QED
      BY <1>1, <1>3
  <2> QED
    BY <2>1, <1>1, <1>3, FollowingIsNext
<1>6. n # Nil => n \in E /\ Preceding(E, n) = sq
  <2> SUFFICES ASSUME n # Nil PROVE n \in E /\ Preceding(E, n) = sq
    OBVIOUS
  <2>1. IsLast(E, n, sq)
    <3> SUFFICES ASSUME NEW z \in E \cup {em_head}, Rank(z) > Rank(n) PROVE Rank(sq) <= Rank(z)
      BY <1>4 DEF IsLast
    <3> QED
      BY <1>1, <1>4
  <2> QED
    BY <2>1, <1>1, <1>4, PrecedingIsLast
<1>7. n # sq
  BY <1>1, <1>4
<1>8. ASSUME NEW x \in {em_head} \cup R PROVE Following(R, x) = IF x = p THEN n ELSE Following(E, x)
  <2> DEFINE f == Following(E, x)
  <2>1. IsNext(E, x, f) /\ (f = sq => x = p)
    <3>1. IsNext(E, x, f)
      BY <1>1, FollowingIsNext
    <3>2. ASSUME f = sq, x # p PROVE FALSE
      <4>1. Rank(x) > Rank(sq) /\ \A z \in E : Rank(z) < Rank(x) => Rank(z) <= Rank(sq)
        BY <3>1, <3>2, <1>1 DEF IsNext
      <4>2. Rank(p) <= Rank(x) /\ Rank(p) # Rank(x)
        BY <4>1, <3>2, <1>1, <1>3
      <4>3. p # em_head
        BY <4>2, <1>1
      <4> QED
        BY <4>1, <4>2, <4>3, <1>1, <1>3
    <3> QED
      BY <3>1, <3>2
  <2> HIDE DEF f
  <2>2. CASE x = p
    <3>1. IsNext(R, p, n)
      <4>1. \A z \in R : Rank(z) < Rank(p) => Rank(z) < Rank(sq)
        BY <1>1, <1>3
      <4>2. CASE n = Nil
        BY <4>1, <4>2, <1>1, <1>4 DEF IsNext
      <4>3. CASE n # Nil
        BY <4>1, <4>3, <1>1, <1>3, <1>4 DEF IsNext
      <4> QED
        BY <4>2, <4>3
    <3> QED
      BY <2>2, <3>1, <1>1, FollowingIsNext
  <2>3. CASE x # p
    <3>1. IsNext(R, x, f)
      BY <2>1, <2>3, <1>1 DEF IsNext
    <3> QED
      BY <2>3, <3>1, <1>1, FollowingIsNext DEF f
  <2> QED
    BY <2>2, <2>3
<1>9. ASSUME NEW x \in {em_head} \cup R PROVE Preceding(R, x) = IF x = n THEN p ELSE Preceding(E, x)
  <2> DEFINE f == Preceding(E, x)
  <2>1. IsLast(E, x, f) /\ (f = sq => x = n)
    <3>1. IsLast(E, x, f)
      BY <1>1, PrecedingIsLast
    <3>2. ASSUME f = sq, x # n PROVE FALSE
      <4>1. Rank(x) < Rank(sq) /\ x \in R /\ \A z \in E : Rank(z) > Rank(x) => Rank(sq) <= Rank(z)
        BY <3>1, <3>2, <1>1 DEF IsLast
      <4>2. n \in R /\ Rank(x) <= Rank(n) /\ Rank(n) # Rank(x) /\ Rank(n) < Rank(sq)
        BY <4>1, <3>2, <1>1, <1>4
      <4> QED
        BY <4>1, <4>2, <1>1
    <3> QED
      BY <3>1, <3>2
  <2> HIDE DEF f
  <2>2. CASE x = n
    <3>1. n \in R
      BY <2>2, <1>1, <1>4
    <3>2. IsLast(R, n, p)
      <4>1. \A z \in R \cup {em_head} : Rank(z) > Rank(n) => Rank(z) > Rank(sq)
        BY <1>1, <1>4, <3>1
      <4> QED
        BY <4>1, <3>1, <1>1, <1>3, <1>4 DEF IsLast
    <3> QED
      BY <2>2, <3>2, <1>1, PrecedingIsLast
  <2>3. CASE x # n
    <3>1. IsLast(R, x, f)
      BY <2>1, <2>3, <1>1 DEF IsLast
    <3> QED
      BY <2>3, <3>1, <1>1, PrecedingIsLast DEF f
  <2> QED
    BY <2>2, <2>3
<1> QED
  BY <1>3, <1>5, <1>6, <1>7, <1>8, <1>9 DEF LinksAround, LinksWithout, p, n

(* One more square makes an odd region even and an even one odd. *)
LEMMA OddEven ==
  ASSUME NEW n \in Nat, n > 0
  PROVE  (n - 1) % 2 = 1 <=> ~(n % 2 = 1)
OBVIOUS

Toggles(b, c, id, h) ==
  /\ OddRegions(c, id) = SymDiff(OddRegions(b, id), {h})
  /\ SymDiff(SymDiff(OddRegions(b, id), {h}), {h}) = OddRegions(b, id)

(* A region becomes odd or even with each of its squares. *)
LEMMA OddRegionsWithout ==
  ASSUME NEW b, NEW c, NEW id, NEW sq \in EmptySquares(b), EmptySquares(c) = EmptySquares(b) \ {sq}
  PROVE  Toggles(b, c, id, id[sq])
<1> DEFINE E == EmptySquares(b)
           Region(S, h) == {x \in S : id[x] = h}
           Odd(S) == {h \in {id[x] : x \in S} : Cardinality(Region(S, h)) % 2 = 1}
<1>1. OddRegions(b, id) = Odd(E) /\ OddRegions(c, id) = Odd(E \ {sq})
  BY DEF OddRegions
<1>2. IsFiniteSet(E) /\ sq \in E
  <2>1. E \in SUBSET OnBoardIndexes
    BY DEF EmptySquares
  <2> QED
    BY <2>1, OnBoardFinite, FS_Subset
<1> HIDE DEF E
<1>3. \A h : IsFiniteSet(Region(E, h)) /\ Cardinality(Region(E, h)) \in Nat
  <2>1. \A h : Region(E, h) \in SUBSET E
    OBVIOUS
  <2> HIDE DEF Region
  <2> QED
    BY <2>1, <1>2, FS_Subset, FS_CardinalityType
<1>4. \A h : h # id[sq] => Region(E \ {sq}, h) = Region(E, h)
  OBVIOUS
<1>5. Cardinality(Region(E \ {sq}, id[sq])) = Cardinality(Region(E, id[sq])) - 1 /\ Cardinality(Region(E, id[sq])) > 0
  <2>1. Region(E \ {sq}, id[sq]) = Region(E, id[sq]) \ {sq} /\ sq \in Region(E, id[sq])
    BY <1>2
  <2>2. Region(E, id[sq]) # {}
    BY <2>1
  <2> HIDE DEF Region
  <2>3. Cardinality(Region(E, id[sq]) \ {sq}) = Cardinality(Region(E, id[sq])) - 1
    BY <2>1, <1>3, FS_RemoveElement
  <2>4. Cardinality(Region(E, id[sq])) # 0
    BY <2>2, <1>3, FS_EmptySet
  <2> PICK k \in Nat : k = Cardinality(Region(E, id[sq]))
    BY <1>3
  <2>5. k # 0 /\ Cardinality(Region(E \ {sq}, id[sq])) = k - 1
    BY <2>1, <2>3, <2>4
  <2>6. k > 0
    BY <2>5
  <2> QED
    BY <2>5, <2>6
<1>6. Cardinality(Region(E \ {sq}, id[sq])) % 2 = 1 <=> ~(Cardinality(Region(E, id[sq])) % 2 = 1)
  <2> HIDE DEF Region
  <2> QED
    BY <1>3, <1>5, OddEven
<1>7. Cardinality({}) = 0 /\ 0 % 2 = 0
  BY FS_EmptySet
<1>8. \A S, h : h \in Odd(S) <=> Cardinality(Region(S, h)) % 2 = 1
  <2> SUFFICES ASSUME NEW S, NEW h, Cardinality(Region(S, h)) % 2 = 1 PROVE h \in {id[x] : x \in S}
    OBVIOUS
  <2>1. Region(S, h) # {}
    BY <1>7
  <2> QED
    BY <2>1
<1> HIDE DEF Odd
<1>9. \A h : h \in Odd(E \ {sq}) <=> IF h = id[sq] THEN h \notin Odd(E) ELSE h \in Odd(E)
  <2> HIDE DEF Region
  <2>1. ASSUME NEW h, h = id[sq] PROVE h \in Odd(E \ {sq}) <=> h \notin Odd(E)
    BY <1>6, <1>8, <2>1
  <2>2. ASSUME NEW h, h # id[sq] PROVE h \in Odd(E \ {sq}) <=> h \in Odd(E)
    <3>1. Cardinality(Region(E \ {sq}, h)) % 2 = 1 <=> Cardinality(Region(E, h)) % 2 = 1
      BY <1>4, <2>2, Zenon
    <3> QED
      BY <1>8, <3>1
  <2> QED
    BY <2>1, <2>2
<1>10. Odd(E \ {sq}) = SymDiff(Odd(E), {id[sq]})
  BY <1>9 DEF SymDiff
<1>11. SymDiff(SymDiff(Odd(E), {id[sq]}), {id[sq]}) = Odd(E)
  BY DEF SymDiff
<1> QED
  BY <1>1, <1>10, <1>11 DEF Toggles

-----------------------------------------------------------------------------
(* The rules of the game and the board array. *)

(* The squares of the array where a player may move. *)
Moves(b, color) == {x \in EmptySquares(b) : flips(b, x, color) # << >>}

(* The square of an index is the one it was made of. *)
LEMMA SquareOfIndex ==
  ASSUME NEW s \in Squares
  PROVE  Index(s) \in OnBoardIndexes /\ SquareOf[Index(s)] = s
<1>1. Index(s) \in OnBoardIndexes
  BY DEF OnBoardIndexes
<1>2. SquareOf[Index(s)] = CHOOSE t \in Squares : Index(t) = Index(s)
  BY <1>1 DEF SquareOf
<1>3. \A t \in Squares : Index(t) = Index(s) => t = s
  BY IndexInjective
<1> QED
  BY <1>1, <1>2, <1>3

(* The greatest of some numbers is their Max.                              *)
LEMMA GreatestIsMax ==
  ASSUME NEW T, T \subseteq Int, NEW x \in T, \A y \in T : y <= x
  PROVE  Max(T) = x
<1>1. \A y \in T : x >= y
  OBVIOUS
<1>2. \A y \in T : (\A z \in T : y >= z) => y = x
  <2> TAKE y \in T
  <2> HAVE \A z \in T : y >= z
  <2>1. y >= x /\ x >= y /\ x \in Int /\ y \in Int
    BY <1>1
  <2> QED
    BY <2>1
<1>3. Max(T) = CHOOSE y \in T : \A z \in T : y >= z
  BY DEF Max
<1> QED
  BY <1>1, <1>2, <1>3

(* The runs of discs of the opponent that end at one of the player. *)
LineTurns(g, s, step) ==
  {n \in 1 .. Size - 2 :
     /\ OnBoard(Column(s) + (n + 1) * step[1], Row(s) + (n + 1) * step[2])
     /\ \A k \in 1 .. n : At(s, step, k) \in OpponentSet(g)
     /\ At(s, step, n + 1) \in PlayerSet(g)}

(* Run is the longest of them. *)
LEMMA RunIsLength ==
  ASSUME NEW g, NEW s, NEW step
  PROVE  /\ Run(g, s, step) \in Nat
         /\ Run(g, s, step) # 0 => Run(g, s, step) \in LineTurns(g, s, step)
         /\ LineTurns(g, s, step) = {} => Run(g, s, step) = 0
         /\ \A x \in LineTurns(g, s, step) : (\A y \in LineTurns(g, s, step) : y <= x) => Run(g, s, step) = x
<1> DEFINE lengths == LineTurns(g, s, step)
<1>1. Run(g, s, step) = IF lengths = {} THEN 0 ELSE Max(lengths)
  BY DEF Run, LineTurns
<1>2. lengths \subseteq 0 .. Size - 2 /\ Size - 2 \in Nat /\ lengths \subseteq Int
  BY SizeType DEF LineTurns
<1> HIDE DEF lengths
<1>3. CASE lengths = {}
  BY <1>1, <1>3 DEF lengths
<1>4. CASE lengths # {}
  <2>1. PICK x \in lengths : \A y \in lengths : y <= x
    BY <1>2, <1>4, GreatestUpTo
  <2>2. \A z \in lengths : (\A y \in lengths : y <= z) => Max(lengths) = z
    BY <1>2, GreatestIsMax
  <2>3. Max(lengths) = x
    BY <2>1, <2>2
  <2>4. x \in Nat
    BY <1>2
  <2> QED
    BY <1>1, <1>4, <2>1, <2>2, <2>3, <2>4 DEF lengths
<1> QED
  BY <1>3, <1>4

(* The discs that are turned are the opponent's. *)
LEMMA TurnedAreOpponents ==
  ASSUME NEW g, NEW s
  PROVE  Turned(g, s) \subseteq OpponentSet(g)
<1> SUFFICES ASSUME NEW step \in Steps, NEW k \in 1 .. Run(g, s, step) PROVE At(s, step, k) \in OpponentSet(g)
  BY DEF Turned
<1>1. Run(g, s, step) \in Nat /\ (Run(g, s, step) # 0 => Run(g, s, step) \in LineTurns(g, s, step))
  BY RunIsLength
<1>2. Run(g, s, step) # 0
  BY <1>1
<1>3. \A j \in 1 .. Run(g, s, step) : At(s, step, j) \in OpponentSet(g)
  BY <1>1, <1>2 DEF LineTurns
<1> QED
  BY <1>3

(* The board has Size * Size squares.                                      *)
LEMMA SquaresFinite == IsFiniteSet(Squares) /\ Size * Size \in Nat /\ Cardinality(Squares) = Size * Size
<1> PICK n \in Nat : n = Size * Size
  BY SizeType
<1>1. Squares = 0 .. n - 1
  BY DEF Squares
<1>2. 0 \in Int /\ n - 1 \in Int /\ (n - 1) - 0 + 1 = n /\ (0 > n - 1 <=> n = 0)
  OBVIOUS
<1> PICK m \in Int : m = n - 1
  BY <1>2
<1>3. IsFiniteSet(0 .. m) /\ Cardinality(0 .. m) = (IF 0 > m THEN 0 ELSE m - 0 + 1)
  BY <1>2, FS_Interval
<1>4. (IF 0 > m THEN 0 ELSE m - 0 + 1) = n
  OBVIOUS
<1> QED
  BY <1>1, <1>3, <1>4

(* The parts of a position. *)
LEMMA PartsOfPosition ==
  ASSUME NEW g \in Positions
  PROVE  /\ g.blacks \subseteq Squares /\ g.whites \subseteq Squares
         /\ g.player \in {0, 1}
         /\ g = Position(g.blacks, g.whites, g.player)
         /\ PlayerSet(g) \subseteq Squares /\ OpponentSet(g) \subseteq Squares
         /\ PlayerSet(g) \cup OpponentSet(g) = g.blacks \cup g.whites
BY DEF Positions, Position, PlayerSet, OpponentSet, BLACK_PLAYER, WHITE_PLAYER

(* Empty squares and moves are finitely many.                              *)
LEMMA EmptiesFinite ==
  ASSUME NEW g \in Positions
  PROVE  /\ IsFiniteSet(Empties(g)) /\ Cardinality(Empties(g)) \in Nat
         /\ IsFiniteSet(LegalMoves(g)) /\ LegalMoves(g) \subseteq Empties(g)
         /\ Cardinality(Empties(g)) <= Size * Size
<1>1. Empties(g) \subseteq Squares /\ LegalMoves(g) \subseteq Empties(g)
  BY DEF Empties, LegalMoves
<1>2. IsFiniteSet(Empties(g)) /\ Cardinality(Empties(g)) <= Cardinality(Squares)
  BY <1>1, SquaresFinite, FS_Subset
<1> QED
  BY <1>1, <1>2, SquaresFinite, FS_Subset, FS_CardinalityType

(* A move fills one square. *)
LEMMA AfterFills ==
  ASSUME NEW g \in Positions, NEW s \in LegalMoves(g)
  PROVE  After(g, s) \in Positions /\ Empties(After(g, s)) = Empties(g) \ {s} /\ s \in Empties(g)
<1> DEFINE t == Turned(g, s)
           p == PlayerSet(g) \cup t \cup {s}
           o == OpponentSet(g) \ t
<1>1. s \in Empties(g) /\ s \in Squares
  BY DEF LegalMoves, Empties
<1>2. t \subseteq OpponentSet(g)
  BY TurnedAreOpponents
<1> HIDE DEF t
<1>3. p \subseteq Squares /\ o \subseteq Squares /\ p \cup o = g.blacks \cup g.whites \cup {s}
  BY <1>1, <1>2, PartsOfPosition
<1>4. After(g, s) = AfterMove(g.player, p, o)
  BY DEF After, t
<1> HIDE DEF p, o
<1>5. /\ After(g, s) \in Positions
      /\ After(g, s).blacks \cup After(g, s).whites = p \cup o
  BY <1>3, <1>4, PartsOfPosition DEF AfterMove, Position, Positions, BLACK_PLAYER, WHITE_PLAYER
<1>6. Empties(After(g, s)) = Empties(g) \ {s}
  BY <1>3, <1>5 DEF Empties
<1> QED
  BY <1>1, <1>5, <1>6

(* A pass changes the player only.                                         *)
LEMMA PassKeepsDiscs ==
  ASSUME NEW g \in Positions
  PROVE  /\ game_position_x_pass(g) = Position(g.blacks, g.whites, 1 - g.player)
         /\ game_position_x_pass(g) \in Positions /\ Empties(game_position_x_pass(g)) = Empties(g)
<1>1. game_position_x_pass(g) = Position(g.blacks, g.whites, 1 - g.player)
  BY PartsOfPosition DEF game_position_x_pass, player_opponent, Position
<1>2. 1 - g.player \in {0, 1}
  BY PartsOfPosition
<1> QED
  BY <1>1, <1>2, PartsOfPosition DEF Position, Positions, Empties, BLACK_PLAYER, WHITE_PLAYER

(* How far a position is from the end of the game. *)
Stage(g) == 2 * Cardinality(Empties(g)) + (IF LegalMoves(g) = {} THEN 1 ELSE 0)

(* It comes nearer with every move, and with a pass after which the other  *)
(* player has a move: two passes in a row never happen.                    *)
LEMMA StageFalls ==
  ASSUME NEW g \in Positions
  PROVE  /\ Stage(g) \in Nat /\ Stage(g) <= 2 * (Size * Size) + 1
         /\ \A s \in LegalMoves(g) : Stage(After(g, s)) < Stage(g)
         /\ LegalMoves(g) = {} /\ LegalMoves(game_position_x_pass(g)) # {} =>
              Stage(game_position_x_pass(g)) < Stage(g)
<1>1. Stage(g) \in Nat /\ Stage(g) <= 2 * (Size * Size) + 1
  <2>1. Cardinality(Empties(g)) \in Nat /\ Cardinality(Empties(g)) <= Size * Size /\ Size * Size \in Nat
    BY EmptiesFinite, SquaresFinite
  <2> QED
    BY <2>1 DEF Stage
<1>2. ASSUME NEW s \in LegalMoves(g) PROVE Stage(After(g, s)) < Stage(g)
  <2>1. After(g, s) \in Positions /\ Empties(After(g, s)) = Empties(g) \ {s} /\ s \in Empties(g)
    BY AfterFills
  <2>2. Cardinality(Empties(g)) \in Nat /\ IsFiniteSet(Empties(g))
    BY EmptiesFinite
  <2>3. Cardinality(Empties(After(g, s))) = Cardinality(Empties(g)) - 1
    BY <2>1, <2>2, FS_RemoveElement
  <2>4. LegalMoves(g) # {}
    OBVIOUS
  <2> QED
    BY <2>2, <2>3, <2>4 DEF Stage
<1>3. ASSUME LegalMoves(g) = {}, LegalMoves(game_position_x_pass(g)) # {}
      PROVE  Stage(game_position_x_pass(g)) < Stage(g)
  <2>1. Empties(game_position_x_pass(g)) = Empties(g)
    BY PassKeepsDiscs
  <2>2. Cardinality(Empties(g)) \in Nat
    BY EmptiesFinite
  <2> QED
    BY <1>3, <2>1, <2>2 DEF Stage
<1> QED
  BY <1>1, <1>2, <1>3

-----------------------------------------------------------------------------
(* The values that a position may have. *)
Scores == -BestScore .. BestScore

(* The greatest of some scores. *)
LEMMA GreatestScore ==
  ASSUME NEW T, T \subseteq Scores, T # {}
  PROVE  Max(T) \in T /\ Max(T) \in Int /\ \A y \in T : y <= Max(T)
<1> PICK n \in Nat : n = BestScore
  BY SizeType DEF BestScore
<1> DEFINE U == {x + n : x \in T}
<1>1. T \subseteq -n .. n
  BY DEF Scores
<1>2. U \subseteq 0 .. 2 * n /\ U # {} /\ 2 * n \in Nat
  <2>1. \A x \in -n .. n : x + n \in 0 .. 2 * n
    OBVIOUS
  <2>2. \A u \in U : u \in 0 .. 2 * n
    BY <1>1, <2>1
  <2> QED
    BY <2>2
<1>3. PICK u \in U : \A v \in U : v <= u
  <2> HIDE DEF U
  <2> QED
    BY <1>2, GreatestUpTo
<1>4. PICK x \in T : u = x + n
  OBVIOUS
<1>5. T \subseteq Int
  BY DEF Scores
<1>6. \A y \in T : y <= x
  <2> TAKE y \in T
  <2>1. y + n \in U
    OBVIOUS
  <2>2. y + n <= x + n
    BY <1>3, <1>4, <2>1
  <2>3. y \in Int /\ x \in Int
    BY <1>5
  <2> QED
    BY <2>2, <2>3
<1>7. Max(T) = x
  BY <1>5, <1>6, GreatestIsMax
<1> QED
  BY <1>5, <1>6, <1>7

(* What a finished game is worth is a score. *)
LEMMA FinalScore ==
  ASSUME NEW g \in Positions
  PROVE  final_value(g) \in Scores
<1> DEFINE P == PlayerSet(g)
           O == OpponentSet(g)
           E == Empties(g)
<1>1. P \subseteq Squares /\ O \subseteq Squares /\ E \subseteq Squares /\ P \cap E = {} /\ O \cap E = {}
  BY PartsOfPosition DEF Empties
<1> HIDE DEF P, O, E
<1>2. /\ IsFiniteSet(P) /\ IsFiniteSet(O) /\ IsFiniteSet(E)
      /\ Cardinality(P) \in Nat /\ Cardinality(O) \in Nat /\ Cardinality(E) \in Nat
  BY <1>1, SquaresFinite, FS_Subset, FS_CardinalityType
<1>3. /\ Cardinality(P \cup E) = Cardinality(P) + Cardinality(E)
      /\ Cardinality(O \cup E) = Cardinality(O) + Cardinality(E)
  <2>1. /\ Cardinality(P \cup E) = Cardinality(P) + Cardinality(E) - Cardinality(P \cap E)
        /\ Cardinality(O \cup E) = Cardinality(O) + Cardinality(E) - Cardinality(O \cap E)
    BY <1>2, FS_Union
  <2>2. Cardinality({}) = 0
    BY FS_EmptySet
  <2>3. Cardinality(P \cap E) = 0 /\ Cardinality(O \cap E) = 0
    BY <1>1, <2>2
  <2>4. \A x, y \in Nat : x + y - 0 = x + y
    OBVIOUS
  <2> QED
    BY <1>2, <2>1, <2>3, <2>4
<1>4. Cardinality(P \cup E) <= Size * Size /\ Cardinality(O \cup E) <= Size * Size
  <2>1. P \cup E \subseteq Squares /\ O \cup E \subseteq Squares
    BY <1>1
  <2> QED
    BY <2>1, SquaresFinite, FS_Subset
<1>5. Size * Size \in Nat
  BY SquaresFinite
<1> PICK p, o, e, n \in Nat : p = Cardinality(P) /\ o = Cardinality(O) /\ e = Cardinality(E) /\ n = Size * Size
  BY <1>2, <1>5
<1>6. p + e <= n /\ o + e <= n
  BY <1>3, <1>4
<1>7. final_value(g) = IF p - o = 0 THEN 0 ELSE (p - o) + (IF p - o > 0 THEN e ELSE -e)
  BY DEF final_value, P, O, E
<1> QED
  BY <1>6, <1>7 DEF Scores, BestScore

-----------------------------------------------------------------------------
(* One step of the recursion that Value is. *)
ValueAt(g, f) ==
  IF LegalMoves(g) # {} THEN Max({-f[After(g, s)] : s \in LegalMoves(g)})
  ELSE IF LegalMoves(game_position_x_pass(g)) # {} THEN -f[game_position_x_pass(g)] ELSE final_value(g)

(* The positions that it looks at. *)
Below(g) ==
  {q \in Positions : \/ \E s \in LegalMoves(g) : q = After(g, s)
                     \/ /\ LegalMoves(g) = {} /\ LegalMoves(game_position_x_pass(g)) # {}
                        /\ q = game_position_x_pass(g)}

(* They are nearer to the end.                                             *)
LEMMA BelowIsLower ==
  ASSUME NEW g \in Positions, NEW q \in Below(g)
  PROVE  q \in Positions /\ Stage(q) \in Nat /\ Stage(g) \in Nat /\ Stage(q) < Stage(g)
BY StageFalls DEF Below

(* It is a score, when all the values it looks at are, and no other ones   *)
(* matter.                                                                 *)
LEMMA ValueStep ==
  ASSUME NEW g \in Positions, NEW f, NEW h, \A q \in Below(g) : f[q] \in Scores /\ h[q] = f[q]
  PROVE  ValueAt(g, f) \in Scores /\ ValueAt(g, h) = ValueAt(g, f)
<1> DEFINE T == {-f[After(g, s)] : s \in LegalMoves(g)}
<1>1. \A x \in Scores : -x \in Scores
  BY SizeType DEF Scores, BestScore
<1>2. CASE LegalMoves(g) # {}
  <2>1. \A s \in LegalMoves(g) : After(g, s) \in Below(g)
    BY AfterFills DEF Below
  <2>2. T = {-h[After(g, s)] : s \in LegalMoves(g)}
    BY <2>1
  <2>3. T \subseteq Scores /\ T # {}
    BY <1>1, <1>2, <2>1
  <2> HIDE DEF T
  <2>4. Max(T) \in Scores
    BY <2>3, GreatestScore
  <2> QED
    BY <1>2, <2>2, <2>4 DEF ValueAt, T
<1>3. CASE LegalMoves(g) = {} /\ LegalMoves(game_position_x_pass(g)) # {}
  <2>1. game_position_x_pass(g) \in Below(g)
    BY <1>3, PassKeepsDiscs DEF Below
  <2> QED
    BY <1>1, <1>3, <2>1 DEF ValueAt
<1>4. CASE LegalMoves(g) = {} /\ LegalMoves(game_position_x_pass(g)) = {}
  BY <1>4, FinalScore DEF ValueAt
<1> QED
  BY <1>2, <1>3, <1>4

(* There is no number between two consecutive ones.                        *)
LEMMA NextNumber ==
  \A a, b \in Int : a < b + 1 => a = b \/ a < b
OBVIOUS

(* The equation by which Value is defined has a solution: it is built      *)
(* stage by stage, from the end of the games on.                           *)
Solved(f, k) == f \in [Positions -> Scores] /\ \A g \in Positions : Stage(g) < k => f[g] = ValueAt(g, f)

(* A function that satisfies it below stage k is changed at that stage only. *)
LEMMA StageSolved ==
  ASSUME NEW k \in Nat, NEW f, Solved(f, k)
  PROVE  \E h : Solved(h, k + 1)
<1> DEFINE h == [g \in Positions |-> IF Stage(g) = k THEN ValueAt(g, f) ELSE f[g]]
<1>1. f \in [Positions -> Scores] /\ \A g \in Positions : Stage(g) < k => f[g] = ValueAt(g, f)
  BY DEF Solved
<1>2. \A g \in Positions : Stage(g) \in Nat
  BY StageFalls
<1>3. \A g \in Positions : ValueAt(g, f) \in Scores
  <2> TAKE g \in Positions
  <2>1. \A q \in Below(g) : f[q] \in Scores /\ f[q] = f[q]
    BY <1>1, BelowIsLower
  <2> QED
    BY <2>1, ValueStep
<1>4. h \in [Positions -> Scores]
  BY <1>1, <1>3
<1>5. ASSUME NEW g \in Positions, Stage(g) < k + 1 PROVE h[g] = ValueAt(g, h)
  <2>1. h[g] = IF Stage(g) = k THEN ValueAt(g, f) ELSE f[g]
    OBVIOUS
  <2>2. Stage(g) = k \/ Stage(g) < k
    BY <1>2, <1>5, NextNumber
  <2>3. h[g] = ValueAt(g, f)
    <3> HIDE DEF h
    <3> QED
      BY <1>1, <2>1, <2>2
  <2>4. ASSUME NEW q \in Below(g) PROVE f[q] \in Scores /\ h[q] = f[q]
    <3>1. q \in Positions /\ Stage(q) \in Nat /\ Stage(g) \in Nat /\ Stage(q) < Stage(g)
      BY BelowIsLower
    <3>2. Stage(q) # k
      BY <2>2, <3>1
    <3> QED
      BY <1>1, <3>1, <3>2
  <2> HIDE DEF h
  <2>5. ValueAt(g, h) = ValueAt(g, f)
    BY <2>4, ValueStep
  <2> QED
    BY <2>3, <2>5
<1> HIDE DEF h
<1> QED
  BY <1>4, <1>5 DEF Solved

(* There is one that satisfies it at all stages.                           *)
LEMMA AllStagesSolved ==
  \E f : f \in [Positions -> Scores] /\ \A g \in Positions : f[g] = ValueAt(g, f)
<1> PICK n \in Nat : n = Size * Size
  BY SizeType
<1> DEFINE T == {k \in 0 .. 2 * n + 2 : ~\E f : Solved(f, k)}
<1>1. T = {}
  <2> SUFFICES ASSUME T # {} PROVE FALSE
    OBVIOUS
  <2>1. PICK k \in T : \A j \in T : k <= j
    <3>1. T \subseteq Nat
      OBVIOUS
    <3> HIDE DEF T
    <3> QED
      BY <3>1, LeastNatural
  <2>2. k # 0
    <3>1. Solved([g \in Positions |-> 0], 0)
      <4>1. 0 \in Scores
        BY SizeType DEF Scores, BestScore
      <4>2. \A g \in Positions : ~(Stage(g) < 0)
        BY StageFalls
      <4> QED
        BY <4>1, <4>2 DEF Solved
    <3> QED
      BY <3>1
  <2>3. k \in 0 .. 2 * n + 2 /\ k - 1 \in 0 .. 2 * n + 2 /\ ~(k <= k - 1) /\ k - 1 \in Nat /\ (k - 1) + 1 = k
    BY <2>2
  <2>4. k - 1 \notin T
    <3> HIDE DEF T
    <3> QED
      BY <2>1, <2>3
  <2>5. PICK f : Solved(f, k - 1)
    BY <2>3, <2>4
  <2>6. \E h : Solved(h, k)
    BY <2>3, <2>5, StageSolved
  <2> QED
    BY <2>6
<1>2. 2 * n + 2 \in 0 .. 2 * n + 2
  OBVIOUS
<1>3. PICK f : Solved(f, 2 * n + 2)
  BY <1>1, <1>2
<1>4. \A g \in Positions : Stage(g) < 2 * n + 2
  BY StageFalls
<1> QED
  BY <1>3, <1>4 DEF Solved

(* So Value is what the rules of the game make it. *)
LEMMA ValueRules ==
  \E f : /\ \A g \in Positions : f[g] \in Scores /\ f[g] = ValueAt(g, f)
         /\ \A g : Value(g) = f[g]
<1> DEFINE Solves(v) == v = [g \in Positions |-> ValueAt(g, v)]
           f == CHOOSE v : Solves(v)
<1>1. Solves(f)
  <2>1. PICK v : v \in [Positions -> Scores] /\ \A g \in Positions : v[g] = ValueAt(g, v)
    BY AllStagesSolved
  <2>2. v = [g \in Positions |-> v[g]]
    BY <2>1
  <2>3. Solves(v)
    BY <2>1, <2>2
  <2> HIDE DEF Solves
  <2> QED
    BY <2>3
<1>2. \A g : Value(g) = f[g]
  BY DEF Value, ValueAt
<1> HIDE DEF f
<1>3. \A g \in Positions : f[g] = ValueAt(g, f)
  BY <1>1
<1> HIDE DEF Solves
<1> DEFINE T == {r \in Nat : \E g \in Positions : Stage(g) = r /\ f[g] \notin Scores}
<1>4. T = {}
  <2> SUFFICES ASSUME T # {} PROVE FALSE
    OBVIOUS
  <2>1. PICK r \in T : \A j \in T : r <= j
    <3>1. T \subseteq Nat
      OBVIOUS
    <3> HIDE DEF T
    <3> QED
      BY <3>1, LeastNatural
  <2>2. PICK g \in Positions : Stage(g) = r /\ f[g] \notin Scores
    BY <2>1
  <2>3. ASSUME NEW q \in Below(g) PROVE f[q] \in Scores /\ f[q] = f[q]
    <3>1. q \in Positions /\ Stage(q) \in Nat /\ Stage(g) \in Nat /\ Stage(q) < Stage(g)
      BY BelowIsLower
    <3>2. Stage(q) \notin T
      <4>1. ~(r <= Stage(q))
        BY <2>2, <3>1
      <4> HIDE DEF T
      <4> QED
        BY <2>1, <4>1
    <3> QED
      BY <3>1, <3>2
  <2>4. ValueAt(g, f) \in Scores
    <3> HIDE DEF T
    <3> QED
      BY <2>3, ValueStep
  <2> QED
    BY <1>3, <2>2, <2>4
<1>5. \A g \in Positions : f[g] \in Scores
  BY <1>4, StageFalls
<1> QED
  BY <1>2, <1>3, <1>5

(* The rules for the value of a position. *)
LEMMA ValueOfPosition ==
  ASSUME NEW g \in Positions
  PROVE  /\ Value(g) \in Scores /\ Value(g) \in Int
         /\ \A s \in LegalMoves(g) : Value(After(g, s)) \in Scores /\ -Value(After(g, s)) <= Value(g)
         /\ LegalMoves(g) # {} => \E s \in LegalMoves(g) : -Value(After(g, s)) = Value(g)
         /\ LegalMoves(g) = {} /\ LegalMoves(game_position_x_pass(g)) # {} =>
              Value(g) = -Value(game_position_x_pass(g))
         /\ LegalMoves(g) = {} /\ LegalMoves(game_position_x_pass(g)) = {} => Value(g) = final_value(g)
<1> PICK f : /\ \A q \in Positions : f[q] \in Scores /\ f[q] = ValueAt(q, f)
             /\ \A q : Value(q) = f[q]
  BY ValueRules
<1>1. Value(g) = ValueAt(g, f) /\ Value(g) \in Scores /\ Value(g) \in Int
  BY DEF Scores
<1>2. \A s \in LegalMoves(g) : After(g, s) \in Positions
  BY AfterFills
<1> DEFINE T == {-f[After(g, s)] : s \in LegalMoves(g)}
<1>3. CASE LegalMoves(g) # {}
  <2>1. T \subseteq Scores /\ T # {}
    <3>1. \A x \in Scores : -x \in Scores
      BY SizeType DEF Scores, BestScore
    <3> QED
      BY <1>2, <1>3, <3>1
  <2>2. Value(g) = Max(T)
    BY <1>1, <1>3 DEF ValueAt
  <2>3. Max(T) \in T /\ \A y \in T : y <= Max(T)
    <3> HIDE DEF T
    <3> QED
      BY <2>1, GreatestScore
  <2>4. \A s \in LegalMoves(g) : -f[After(g, s)] \in T /\ f[After(g, s)] = Value(After(g, s))
    OBVIOUS
  <2>5. \E s \in LegalMoves(g) : -Value(After(g, s)) = Value(g)
    BY <2>2, <2>3
  <2> HIDE DEF T
  <2> QED
    BY <1>1, <1>2, <1>3, <2>2, <2>3, <2>4, <2>5
<1>4. CASE LegalMoves(g) = {}
  BY <1>1, <1>4 DEF ValueAt
<1> QED
  BY <1>3, <1>4

(* A product distributes over a sum. *)
LEMMA Distributed ==
  ASSUME NEW k \in Int, NEW x \in Int, NEW y \in Int, NEW z \in Int
  PROVE  k * (x + y * z) = k * x + z * (k * y) /\ k * x \in Int /\ k * y \in Int
OBVIOUS

(* A column and a row make a square. *)
LEMMA SquareOfCell ==
  ASSUME NEW c \in 0 .. Size - 1, NEW r \in 0 .. Size - 1, NEW s, s = Size * r + c
  PROVE  s \in Squares /\ Column(s) = c /\ Row(s) = r /\ Index(s) = CellAt(c, r)
<1> USE SizeType
<1>1. s \in Nat /\ s \in 0 .. Size * Size - 1
  <2>1. Size * r <= Size * (Size - 1)
    OBVIOUS
  <2>2. Size * (Size - 1) = Size * Size - Size
    OBVIOUS
  <2>3. Size * r \in Nat /\ Size * Size \in Nat
    OBVIOUS
  <2> QED
    BY <2>1, <2>2, <2>3
<1>2. s \in Squares
  BY <1>1 DEF Squares
<1>3. /\ s = Size * Row(s) + Column(s)
      /\ Column(s) \in 0 .. Size - 1 /\ Row(s) \in 0 .. Size - 1
      /\ Index(s) = CellAt(Column(s), Row(s))
  BY <1>2, SquareCoordinates
<1>4. Size * (Row(s) - r) = c - Column(s)
  BY <1>3
<1>5. Row(s) - r = 0
  <2>1. Row(s) - r \in Int /\ c - Column(s) \in Int /\ -Size < c - Column(s) /\ c - Column(s) < Size
    BY <1>3
  <2> QED
    BY <1>4, <2>1, SmallMultiple
<1>6. Row(s) = r /\ Column(s) = c
  BY <1>3, <1>4, <1>5
<1> QED
  BY <1>2, <1>3, <1>6

(* The step of the rules in direction i. *)
StepOf(i) == <<Right[i], Down[i]>>

(* The eight directions are all the steps of the rules.                    *)
LEMMA StepsAreDirections ==
  /\ \A i \in 1 .. 8 : StepOf(i) \in Steps
  /\ \A step \in Steps : \E i \in 1 .. 8 : step = StepOf(i)
<1>1. ASSUME NEW i \in 1 .. 8 PROVE StepOf(i) \in Steps
  <2>1. Down[i] \in -1 .. 1 /\ Right[i] \in -1 .. 1
    BY DirectionParts
  <2>2. Right[i] # 0 \/ Down[i] # 0
    <3>1. i = 1 \/ i = 2 \/ i = 3 \/ i = 4 \/ i = 5 \/ i = 6 \/ i = 7 \/ i = 8
      OBVIOUS
    <3> QED
      BY <3>1 DEF Right, Down
  <2> QED
    BY <2>1, <2>2 DEF StepOf, Steps
<1>2. ASSUME NEW step \in Steps PROVE \E i \in 1 .. 8 : step = StepOf(i)
  <2>1. PICK x \in -1 .. 1, y \in -1 .. 1 : step = <<x, y>>
    BY DEF Steps
  <2>2. (x = -1 \/ x = 0 \/ x = 1) /\ (y = -1 \/ y = 0 \/ y = 1) /\ (x # 0 \/ y # 0)
    BY <2>1 DEF Steps
  <2>3. /\ StepOf(1) = <<-1, -1>> /\ StepOf(2) = <<1, 1>> /\ StepOf(3) = <<0, -1>> /\ StepOf(4) = <<0, 1>>
        /\ StepOf(5) = <<1, -1>> /\ StepOf(6) = <<-1, 1>> /\ StepOf(7) = <<-1, 0>> /\ StepOf(8) = <<1, 0>>
    BY DEF StepOf, Right, Down
  <2>4. 1 \in 1 .. 8 /\ 2 \in 1 .. 8 /\ 3 \in 1 .. 8 /\ 4 \in 1 .. 8 /\ 5 \in 1 .. 8 /\ 6 \in 1 .. 8 /\ 7 \in 1 .. 8 /\ 8 \in 1 .. 8
    OBVIOUS
  <2> QED
    BY <2>1, <2>2, <2>3, <2>4
<1> QED
  BY <1>1, <1>2

(* From a square, k steps in direction i lead to column and row (c, r). *)
Column_(s, i, k) == Column(s) + k * Right[i]
Row_(s, i, k) == Row(s) + k * Down[i]

(* The same squares are counted by the rules and by the array. *)
LEMMA SquareAlong ==
  ASSUME NEW s \in Squares, NEW i \in 1 .. 8, NEW k \in Int, OnBoard(Column_(s, i, k), Row_(s, i, k))
  PROVE  At(s, StepOf(i), k) \in Squares /\ Index(At(s, StepOf(i), k)) = Index(s) + k * dir_inc[i]
<1> USE SizeType
<1>1. /\ Column(s) \in 0 .. Size - 1 /\ Row(s) \in 0 .. Size - 1
      /\ s = Size * Row(s) + Column(s) /\ Index(s) = CellAt(Column(s), Row(s))
  BY SquareCoordinates
<1>2. /\ Down[i] \in -1 .. 1 /\ Right[i] \in -1 .. 1 /\ Down[i] \in Int /\ Right[i] \in Int
      /\ dir_inc[i] = Down[i] * (Size + 1) + Right[i]
  BY DirectionParts
<1>3. Column_(s, i, k) \in 0 .. Size - 1 /\ Row_(s, i, k) \in 0 .. Size - 1
  BY DEF OnBoard, Ordinals
<1> PICK x, y \in Int : x = k * Right[i] /\ y = k * Down[i]
  BY <1>2
<1> PICK c, r \in Int : c = Column(s) /\ r = Row(s)
  BY <1>1
<1>4. Column_(s, i, k) = c + x /\ Row_(s, i, k) = r + y
  BY DEF Column_, Row_
<1>5. At(s, StepOf(i), k) = s + (x + Size * y)
  <2>1. At(s, StepOf(i), k) = s + k * (Right[i] + Down[i] * Size)
    BY DEF At, StepOf
  <2>2. k * (Right[i] + Down[i] * Size) = k * Right[i] + Size * (k * Down[i])
    BY <1>2, Distributed
  <2> QED
    BY <2>1, <2>2
<1>6. k * dir_inc[i] = x + (Size + 1) * y
  <2>1. k * (Right[i] + Down[i] * (Size + 1)) = k * Right[i] + (Size + 1) * (k * Down[i])
    BY <1>2, Distributed
  <2>2. dir_inc[i] = Right[i] + Down[i] * (Size + 1)
    BY <1>2
  <2> QED
    BY <2>1, <2>2
<1>7. s + (x + Size * y) = Size * (r + y) + (c + x)
  BY <1>1
<1>8. /\ At(s, StepOf(i), k) \in Squares
      /\ Index(At(s, StepOf(i), k)) = CellAt(c + x, r + y)
  BY <1>3, <1>4, <1>5, <1>7, SquareOfCell
<1>9. CellAt(c + x, r + y) = CellAt(c, r) + (x + (Size + 1) * y)
  <2>1. (Size + 1) * (r + y) = (Size + 1) * r + (Size + 1) * y /\ (Size + 1) * r \in Int /\ (Size + 1) * y \in Int
    OBVIOUS
  <2> PICK u, v, w \in Int : u = (Size + 1) * r /\ v = (Size + 1) * y /\ w = (Size + 1) * (r + y)
    BY <2>1
  <2>2. CellAt(c + x, r + y) = Size + 2 + (c + x) + w /\ CellAt(c, r) = Size + 2 + c + u /\ w = u + v
    BY <2>1 DEF CellAt
  <2> QED
    BY <2>2
<1> QED
  BY <1>1, <1>6, <1>8, <1>9

(* The squares between two squares of the board are on it. *)
LEMMA Between ==
  ASSUME NEW n \in Int, NEW c \in 0 .. n, NEW d \in -1 .. 1, NEW m \in Nat, NEW k \in 0 .. m, c + m * d \in 0 .. n
  PROVE  c + k * d \in 0 .. n
<1>1. CASE d = 0
  BY <1>1
<1>2. CASE d = 1
  BY <1>2
<1>3. CASE d = -1
  <2>1. m * d = -m /\ k * d = -k
    BY <1>3
  <2> QED
    BY <2>1
<1> QED
  BY <1>1, <1>2, <1>3

(* When square m of a line is on the board, so are those before it.        *)
LEMMA LineOnBoard ==
  ASSUME NEW s \in Squares, NEW i \in 1 .. 8, NEW m \in Nat, NEW k \in 0 .. m, OnBoard(Column_(s, i, m), Row_(s, i, m))
  PROVE  OnBoard(Column_(s, i, k), Row_(s, i, k))
<1> USE SizeType
<1>1. Column(s) \in 0 .. Size - 1 /\ Row(s) \in 0 .. Size - 1 /\ Size - 1 \in Int
  BY SquareCoordinates
<1>2. Down[i] \in -1 .. 1 /\ Right[i] \in -1 .. 1
  BY DirectionParts
<1>3. Column(s) + m * Right[i] \in 0 .. Size - 1 /\ Row(s) + m * Down[i] \in 0 .. Size - 1
  BY DEF OnBoard, Ordinals, Column_, Row_
<1>4. Column(s) + k * Right[i] \in 0 .. Size - 1 /\ Row(s) + k * Down[i] \in 0 .. Size - 1
  BY <1>1, <1>2, <1>3, Between
<1> QED
  BY <1>4 DEF OnBoard, Ordinals, Column_, Row_

-----------------------------------------------------------------------------
(* The position on the board. *)
LEMMA TranslatedSets ==
  ASSUME NEW b, NEW color \in {0, 2}, NEW g, g = ifes_game_position_translation(b, color)
  PROVE  /\ g \in Positions
         /\ PlayerSet(g) = {x \in Squares : b[Index(x)] = color}
         /\ OpponentSet(g) = {x \in Squares : b[Index(x)] = opponent_color(color)}
         /\ g.player = (IF color = 0 THEN WHITE_PLAYER ELSE BLACK_PLAYER)
         /\ g.blacks = {x \in Squares : b[Index(x)] = 2} /\ g.whites = {x \in Squares : b[Index(x)] = 0}
<1> DEFINE bs == {x \in Squares : b[Index(x)] = 2}
           ws == {x \in Squares : b[Index(x)] = 0}
<1>1. g = Position(bs, ws, IF color = 0 THEN WHITE_PLAYER ELSE BLACK_PLAYER)
  BY DEF ifes_game_position_translation, IFES_WHITE, IFES_BLACK
<1>2. bs \in SUBSET Squares /\ ws \in SUBSET Squares
  OBVIOUS
<1> HIDE DEF bs, ws
<1>3. /\ g \in Positions /\ g.blacks = bs /\ g.whites = ws
      /\ g.player = (IF color = 0 THEN WHITE_PLAYER ELSE BLACK_PLAYER)
  BY <1>1, <1>2 DEF Position, Positions, WHITE_PLAYER, BLACK_PLAYER
<1>4. CASE color = 0
  BY <1>3, <1>4 DEF PlayerSet, OpponentSet, opponent_color, WHITE_PLAYER, BLACK_PLAYER, bs, ws
<1>5. CASE color = 2
  BY <1>3, <1>5 DEF PlayerSet, OpponentSet, opponent_color, WHITE_PLAYER, BLACK_PLAYER, bs, ws
<1> QED
  BY <1>3, <1>4, <1>5 DEF bs, ws

-----------------------------------------------------------------------------
(* The same line in the array. *)
ArrayTurns(b, sq, inc, color, n) ==
  /\ \A k \in 1 .. n : b[sq + k * inc] = opponent_color(color)
  /\ b[sq + (n + 1) * inc] = color

(* A run on the board is one in the array, at the same squares.            *)
LEMMA LineIsArray ==
  ASSUME NEW b, BoardType(b), NEW s \in Squares, NEW i \in 1 .. 8, NEW color \in {0, 2},
         NEW g, g = ifes_game_position_translation(b, color), NEW n \in LineTurns(g, s, StepOf(i))
  PROVE  /\ dir_inc[i] \in flipping_dirs[Index(s)]
         /\ ArrayTurns(b, Index(s), dir_inc[i], color, n)
         /\ \A k \in 1 .. n : Index(At(s, StepOf(i), k)) = Index(s) + k * dir_inc[i]
<1> USE SizeType
<1>1. n \in 1 .. Size - 2 /\ n + 1 \in Nat /\ n \in Nat
  BY DEF LineTurns
<1>2. OnBoard(Column_(s, i, n + 1), Row_(s, i, n + 1))
  BY DEF LineTurns, Column_, Row_, StepOf
<1>3. ASSUME NEW k \in 0 .. n + 1
      PROVE  At(s, StepOf(i), k) \in Squares /\ Index(At(s, StepOf(i), k)) = Index(s) + k * dir_inc[i]
  <2>1. k \in Int /\ OnBoard(Column_(s, i, k), Row_(s, i, k))
    BY <1>1, <1>2, LineOnBoard
  <2> QED
    BY <2>1, SquareAlong
<1>4. \A k \in 1 .. n : b[Index(At(s, StepOf(i), k))] = opponent_color(color)
  BY TranslatedSets DEF LineTurns
<1>5. b[Index(At(s, StepOf(i), n + 1))] = color
  BY TranslatedSets DEF LineTurns
<1>6. \A k \in 1 .. n : k \in 0 .. n + 1
  BY <1>1
<1>7. n + 1 \in 0 .. n + 1 /\ 1 \in 0 .. n + 1 /\ 2 \in 0 .. n + 1
  BY <1>1
<1>8. ArrayTurns(b, Index(s), dir_inc[i], color, n)
  BY <1>3, <1>4, <1>5, <1>6, <1>7 DEF ArrayTurns
<1>9. dir_inc[i] \in flipping_dirs[Index(s)]
  <2>1. Index(s) + 1 * dir_inc[i] \in OnBoardIndexes /\ Index(s) + 2 * dir_inc[i] \in OnBoardIndexes
    BY <1>3, <1>7 DEF OnBoardIndexes
  <2>2. i \in DOMAIN dir_inc /\ dir_inc[i] \in Int /\ dir_inc[i] \in ToSet(dir_inc)
    BY DirectionParts DEF ToSet
  <2>3. Index(s) \in OnBoardIndexes
    BY DEF OnBoardIndexes
  <2>4. 1 * dir_inc[i] = dir_inc[i]
    BY <2>2
  <2> QED
    BY <2>1, <2>2, <2>3, <2>4 DEF flipping_dirs
<1> QED
  BY <1>3, <1>6, <1>8, <1>9

(* And the other way round: a run in the array cannot leave the board, as  *)
(* dummy squares surround it.                                              *)
LEMMA ArrayIsLine ==
  ASSUME NEW b, BoardType(b), NEW s \in Squares, NEW i \in 1 .. 8, NEW color \in {0, 2},
         NEW g, g = ifes_game_position_translation(b, color), NEW n \in 1 .. Size - 2,
         ArrayTurns(b, Index(s), dir_inc[i], color, n)
  PROVE  n \in LineTurns(g, s, StepOf(i))
<1> USE SizeType
<1> DEFINE sq == Index(s)
           inc == dir_inc[i]
<1>1. n \in Nat /\ n + 1 \in Nat /\ n \in 1 .. n /\ n + 1 \in 1 .. n + 1
  OBVIOUS
<1>2. /\ \A k \in 1 .. n : b[sq + k * inc] = opponent_color(color)
      /\ b[sq + (n + 1) * inc] = color
  BY DEF ArrayTurns
<1>3. sq \in OnBoardIndexes /\ sq = CellAt(Column(s), Row(s)) /\ sq \in Int
      /\ Column(s) \in 0 .. Size - 1 /\ Row(s) \in 0 .. Size - 1
  BY SquareCoordinates, OnBoardRange DEF OnBoardIndexes
<1>4. inc \in Int /\ inc \in -(Size + 2) .. Size + 2
  BY DirectionParts
<1> HIDE DEF sq
<1>5. \A k \in 1 .. n : sq + k * inc \in OnBoardIndexes
  BY <1>1, <1>2, <1>3, RunOnBoard
<1> HIDE DEF inc
<1>6. sq + (n + 1) * inc \in OnBoardIndexes
  <2>1. sq + n * inc \in OnBoardIndexes
    BY <1>1, <1>5
  <2>2. (sq + n * inc) + inc \in Indexes
    BY <2>1, <1>4, OnBoardRange
  <2>3. (n + 1) * inc = n * inc + inc /\ n * inc \in Int
    BY <1>1, <1>4, NextMultiple
  <2>4. (sq + n * inc) + inc = sq + (n + 1) * inc
    BY <1>3, <1>4, <2>3
  <2>5. b[sq + (n + 1) * inc] # IFES_DUMMY
    BY <1>2 DEF IFES_DUMMY
  <2> QED
    BY <2>2, <2>4, <2>5 DEF BoardType
<1>7. \A k \in 1 .. n + 1 : sq + k * inc \in OnBoardIndexes
  <2> TAKE k \in 1 .. n + 1
  <2>1. k \in 1 .. n \/ k = n + 1
    OBVIOUS
  <2> QED
    BY <2>1, <1>5, <1>6
<1>8. ASSUME NEW k \in 1 .. n + 1
      PROVE  /\ OnBoard(Column_(s, i, k), Row_(s, i, k))
             /\ At(s, StepOf(i), k) \in Squares /\ Index(At(s, StepOf(i), k)) = sq + k * inc
  <2>1. \A j \in 1 .. n + 1 : CellAt(Column(s), Row(s)) + j * dir_inc[i] \in OnBoardIndexes
    BY <1>3, <1>7 DEF inc
  <2>2. Column(s) + k * Right[i] \in 0 .. Size - 1 /\ Row(s) + k * Down[i] \in 0 .. Size - 1
    BY <1>1, <1>3, <2>1, RayPositions
  <2>3. OnBoard(Column_(s, i, k), Row_(s, i, k))
    BY <2>2 DEF OnBoard, Ordinals, Column_, Row_
  <2>4. k \in Int
    OBVIOUS
  <2> QED
    BY <2>3, <2>4, SquareAlong DEF sq, inc
<1>9. \A k \in 1 .. n : k \in 1 .. n + 1
  OBVIOUS
<1>10. \A k \in 1 .. n : At(s, StepOf(i), k) \in OpponentSet(g)
  BY <1>2, <1>8, <1>9, TranslatedSets
<1>11. At(s, StepOf(i), n + 1) \in PlayerSet(g)
  BY <1>1, <1>2, <1>8, TranslatedSets
<1>12. OnBoard(Column(s) + (n + 1) * StepOf(i)[1], Row(s) + (n + 1) * StepOf(i)[2])
  BY <1>1, <1>8 DEF Column_, Row_, StepOf
<1> QED
  BY <1>10, <1>11, <1>12 DEF LineTurns

(* A line turns the same discs however it is followed. *)
LEMMA ArrayTurnsOnce ==
  ASSUME NEW b, NEW sq, NEW inc, NEW color \in {0, 2}, NEW n \in Nat, NEW m \in Nat, n < m,
         ArrayTurns(b, sq, inc, color, n)
  PROVE  ~(\A k \in 1 .. m : b[sq + k * inc] = opponent_color(color))
<1>1. n + 1 \in 1 .. m
  OBVIOUS
<1>2. color # opponent_color(color)
  BY DEF opponent_color
<1> QED
  BY <1>1, <1>2 DEF ArrayTurns

(* The discs that a move turns in direction i. *)
Along(b, sq, i, color) ==
  IF dir_inc[i] \in flipping_dirs[sq] THEN directional_flips(b, sq, dir_inc[i], color) ELSE << >>

(* What directional_flips finds in a direction are the squares that the    *)
(* rules turn there.                                                       *)
LEMMA DirectionTurns ==
  ASSUME NEW b, BoardType(b), NEW s \in Squares, NEW i \in 1 .. 8, NEW color \in {0, 2},
         NEW g, g = ifes_game_position_translation(b, color)
  PROVE  ToSet(Along(b, Index(s), i, color)) = {Index(At(s, StepOf(i), k)) : k \in 1 .. Run(g, s, StepOf(i))}
<1> USE SizeType
<1> DEFINE sq == Index(s)
           inc == dir_inc[i]
           Over(n) == \A k \in 1 .. n : b[sq + k * inc] = opponent_color(color)
           lengths == {n \in 0 .. Size - 2 : Over(n)}
           run == Max(lengths)
<1>1. run \in 0 .. Size - 2 /\ Over(run) /\ \A n \in 0 .. Size - 2 : Over(n) => n <= run
  <2>1. 0 \in lengths
    <3>1. 0 \in 0 .. Size - 2 /\ 1 .. 0 = {}
      BY SizeType
    <3>2. Over(0)
      BY <3>1
    <3> HIDE DEF Over
    <3> QED
      BY <3>1, <3>2
  <2>2. lengths \subseteq 0 .. Size - 2 /\ lengths # {} /\ Size - 2 \in Nat /\ lengths \subseteq Int
    <3> HIDE DEF Over
    <3> QED
      BY <2>1, SizeType
  <2>3. PICK x \in lengths : \A y \in lengths : y <= x
    <3> HIDE DEF lengths
    <3> QED
      BY <2>2, GreatestUpTo
  <2>4. run = x
    <3> HIDE DEF lengths
    <3> QED
      BY <2>2, <2>3, GreatestIsMax
  <2> HIDE DEF Over, run
  <2> QED
    BY <2>3, <2>4
<1>2. directional_flips(b, sq, inc, color)
        = IF run > 0 /\ b[sq + (run + 1) * inc] = color THEN [k \in 1 .. run |-> sq + (run + 1 - k) * inc] ELSE << >>
  BY DEF directional_flips
<1> HIDE DEF lengths, run
<1> PICK m \in Nat : m = run
  BY <1>1
<1> DEFINE L == LineTurns(g, s, StepOf(i))
<1>3. Run(g, s, StepOf(i)) \in Nat /\ (L = {} => Run(g, s, StepOf(i)) = 0)
      /\ \A x \in L : (\A y \in L : y <= x) => Run(g, s, StepOf(i)) = x
  BY RunIsLength
<1>4. ASSUME NEW n \in L
      PROVE  n = m /\ m \in 1 .. Size - 2 /\ inc \in flipping_dirs[sq] /\ b[sq + (m + 1) * inc] = color
             /\ \A k \in 1 .. n : Index(At(s, StepOf(i), k)) = sq + k * inc
  <2>1. /\ inc \in flipping_dirs[sq] /\ ArrayTurns(b, sq, inc, color, n)
        /\ \A k \in 1 .. n : Index(At(s, StepOf(i), k)) = sq + k * inc
    BY LineIsArray
  <2>2. n \in 1 .. Size - 2 /\ n \in 0 .. Size - 2 /\ n \in Nat
    BY DEF LineTurns
  <2>3. Over(n) /\ b[sq + (n + 1) * inc] = color
    BY <2>1 DEF ArrayTurns
  <2>4. n <= m
    BY <1>1, <2>2, <2>3
  <2>5. ~(n < m)
    <3> SUFFICES ASSUME n < m PROVE FALSE
      OBVIOUS
    <3>1. \A k \in 1 .. m : b[sq + k * inc] = opponent_color(color)
      BY <1>1
    <3>2. ArrayTurns(b, sq, inc, color, n) /\ n \in Nat /\ n < m
      BY <2>1, <2>2
    <3> HIDE DEF sq, inc, Over
    <3> QED
      BY ONLY <3>1, <3>2, ArrayTurnsOnce, m \in Nat, color \in {0, 2}, ZenonT(60)
  <2>6. n = m
    BY <2>2, <2>4, <2>5
  <2> QED
    BY <2>1, <2>2, <2>3, <2>6
<1>5. ASSUME m > 0, b[sq + (m + 1) * inc] = color PROVE m \in L
  <2>1. ArrayTurns(b, sq, inc, color, m) /\ m \in 1 .. Size - 2
    BY <1>1, <1>5 DEF ArrayTurns
  <2> QED
    BY <2>1, ArrayIsLine
<1>6. CASE L = {}
  <2>1. Along(b, sq, i, color) = << >>
    BY <1>2, <1>5, <1>6 DEF Along
  <2>2. Run(g, s, StepOf(i)) = 0 /\ 1 .. 0 = {}
    BY <1>3, <1>6
  <2>3. ToSet(<< >>) = {}
    BY DEF ToSet
  <2> QED
    BY <2>1, <2>2, <2>3
<1>7. CASE L # {}
  <2>1. m \in L /\ \A y \in L : y <= m
    BY <1>4, <1>7
  <2>2. Run(g, s, StepOf(i)) = m
    BY <1>3, <2>1
  <2> DEFINE t == [k \in 1 .. m |-> sq + (m + 1 - k) * inc]
  <2>3. Along(b, sq, i, color) = t
    BY <1>2, <1>4, <2>1 DEF Along
  <2>4. ToSet(t) = {t[k] : k \in 1 .. m}
    <3>1. DOMAIN t = 1 .. m
      OBVIOUS
    <3> HIDE DEF t
    <3> QED
      BY ONLY <3>1, Zenon DEF ToSet
  <2>5. {t[k] : k \in 1 .. m} = {sq + k * inc : k \in 1 .. m}
    <3>1. \A k \in 1 .. m : m + 1 - k \in 1 .. m /\ m + 1 - (m + 1 - k) = k
      OBVIOUS
    <3>2. \A k \in 1 .. m : t[k] = sq + (m + 1 - k) * inc
      OBVIOUS
    <3> HIDE DEF t, sq, inc
    <3> QED
      BY <3>1, <3>2
  <2>6. \A k \in 1 .. m : Index(At(s, StepOf(i), k)) = sq + k * inc
    BY <1>4, <2>1
  <2>7. {sq + k * inc : k \in 1 .. m} = {Index(At(s, StepOf(i), k)) : k \in 1 .. m}
    <3> HIDE DEF sq, inc
    <3> QED
      BY <2>6
  <2> QED
    BY <2>2, <2>3, <2>4, <2>5, <2>7
<1> QED
  BY <1>6, <1>7

(* The squares of one sequence after another. *)
LEMMA JoinedSets ==
  ASSUME NEW S, NEW s \in Seq(S), NEW t \in Seq(S)
  PROVE  s \o t \in Seq(S) /\ ToSet(s \o t) = ToSet(s) \cup ToSet(t)
<1> PICK m \in Nat, n \in Nat : m = Len(s) /\ n = Len(t)
  OBVIOUS
<1>1. s \o t \in Seq(S) /\ DOMAIN s = 1 .. m /\ DOMAIN t = 1 .. n /\ DOMAIN (s \o t) = 1 .. m + n
  OBVIOUS
<1>2. /\ \A k \in 1 .. m : (s \o t)[k] = s[k] /\ k \in 1 .. m + n
      /\ \A k \in 1 .. n : (s \o t)[m + k] = t[k] /\ m + k \in 1 .. m + n
      /\ \A k \in 1 .. m + n : k \in 1 .. m \/ (k - m \in 1 .. n /\ m + (k - m) = k)
  OBVIOUS
<1> DEFINE u == s \o t
<1>3. /\ ToSet(s) = {s[k] : k \in 1 .. m} /\ ToSet(t) = {t[k] : k \in 1 .. n}
      /\ ToSet(u) = {u[k] : k \in 1 .. m + n}
  BY <1>1, Zenon DEF ToSet
<1> HIDE DEF u
<1>4. /\ \A k \in 1 .. m : u[k] = s[k] /\ k \in 1 .. m + n
      /\ \A k \in 1 .. n : u[m + k] = t[k] /\ m + k \in 1 .. m + n
      /\ \A k \in 1 .. m + n : k \in 1 .. m \/ (k - m \in 1 .. n /\ m + (k - m) = k)
  BY <1>2 DEF u
<1>5. ASSUME NEW x \in ToSet(u) PROVE x \in ToSet(s) \cup ToSet(t)
  <2>1. PICK k \in 1 .. m + n : x = u[k]
    BY <1>3
  <2>2. CASE k \in 1 .. m
    BY <1>3, <1>4, <2>1, <2>2
  <2>3. CASE k - m \in 1 .. n /\ m + (k - m) = k
    <3>1. u[m + (k - m)] = t[k - m]
      BY <1>4, <2>3
    <3>2. t[k - m] \in ToSet(t)
      BY <1>3, <2>3
    <3> QED
      BY <2>1, <2>3, <3>1, <3>2
  <2> QED
    BY <1>4, <2>2, <2>3
<1>6. ASSUME NEW x \in ToSet(s) PROVE x \in ToSet(u)
  <2>1. PICK k \in 1 .. m : x = s[k]
    BY <1>3
  <2> QED
    BY <1>3, <1>4, <2>1
<1>7. ASSUME NEW x \in ToSet(t) PROVE x \in ToSet(u)
  <2>1. PICK k \in 1 .. n : x = t[k]
    BY <1>3
  <2> QED
    BY <1>3, <1>4, <2>1
<1>8. ToSet(u) = ToSet(s) \cup ToSet(t)
  BY <1>5, <1>6, <1>7
<1> QED
  BY <1>1, <1>8 DEF u

(* do_flips turns the discs that the rules say. *)
THEOREM FlipsFollowRules ==
  ASSUME NEW b, BoardType(b), NEW s \in Squares, NEW color \in {0, 2},
         NEW g, g = ifes_game_position_translation(b, color)
  PROVE  ToSet(flips(b, Index(s), color)) = {Index(x) : x \in Turned(g, s)}
<1> DEFINE a(i) == Along(b, Index(s), i, color)
           R(i) == {Index(At(s, StepOf(i), k)) : k \in 1 .. Run(g, s, StepOf(i))}
<1>1. /\ 1 \in 1 .. 8 /\ 2 \in 1 .. 8 /\ 3 \in 1 .. 8 /\ 4 \in 1 .. 8 
      /\ 5 \in 1 .. 8 /\ 6 \in 1 .. 8 /\ 7 \in 1 .. 8 /\ 8 \in 1 .. 8
      /\ \A i \in 1 .. 8 : i = 1 \/ i = 2 \/ i = 3 \/ i = 4 \/ i = 5 \/ i = 6 \/ i = 7 \/ i = 8
  OBVIOUS
<1>2. flips(b, Index(s), color) = a(1) \o a(2) \o a(3) \o a(4) \o a(5) \o a(6) \o a(7) \o a(8)
  BY DEF flips, Along
<1>3. ASSUME NEW i \in 1 .. 8 PROVE a(i) \in Seq(OnBoardIndexes) /\ ToSet(a(i)) = R(i)
  <2>1. Index(s) \in OnBoardIndexes /\ Index(s) = CellAt(Column(s), Row(s))
        /\ Column(s) \in 0 .. Size - 1 /\ Row(s) \in 0 .. Size - 1
    BY SquareCoordinates DEF OnBoardIndexes
  <2>2. Turning(directional_flips(b, Index(s), dir_inc[i], color), b, color, Column(s), Row(s), {i})
    BY <2>1, DirectionTurning
  <2>3. a(i) \in Seq(OnBoardIndexes)
    BY <2>2 DEF Turning, Along
  <2> QED
    BY <2>3, DirectionTurns
<1> HIDE DEF a
<1> DEFINE T(t, j) == t \in Seq(OnBoardIndexes) /\ \A x : x \in ToSet(t) <=> \E i \in 1 .. j : x \in R(i)
<1>4. \A x : x \in ToSet(flips(b, Index(s), color)) <=> \E i \in 1 .. 8 : x \in R(i)
  <2> HIDE DEF R
  <2>1. T(a(1), 1)
    <3>1. 1 .. 1 = {1}
      OBVIOUS
    <3> QED
      BY <3>1, <1>1, <1>3
  <2>2. ASSUME NEW t, NEW j \in 1 .. 7, T(t, j) PROVE T(t \o a(j + 1), j + 1)
    <3>1. a(j + 1) \in Seq(OnBoardIndexes) /\ ToSet(a(j + 1)) = R(j + 1)
      BY <1>3, SMTT(30)
    <3>2. t \o a(j + 1) \in Seq(OnBoardIndexes) /\ ToSet(t \o a(j + 1)) = ToSet(t) \cup ToSet(a(j + 1))
      BY <2>2, <3>1, JoinedSets
    <3>3. \A i : i \in 1 .. j + 1 <=> i \in 1 .. j \/ i = j + 1
      OBVIOUS
    <3> PICK l : l = j + 1
      OBVIOUS
    <3>4. \A x : x \in ToSet(t \o a(l)) <=> \E i \in 1 .. l : x \in R(i)
      BY <2>2, <3>1, <3>2, <3>3
    <3> QED
      BY <3>2, <3>4
  <2>3. /\ 1 + 1 = 2 /\ 2 + 1 = 3 /\ 3 + 1 = 4 /\ 4 + 1 = 5 /\ 5 + 1 = 6 /\ 6 + 1 = 7 /\ 7 + 1 = 8
        /\ 1 \in 1 .. 7 /\ 2 \in 1 .. 7 /\ 3 \in 1 .. 7 /\ 4 \in 1 .. 7 /\ 5 \in 1 .. 7 /\ 6 \in 1 .. 7 /\ 7 \in 1 .. 7
    OBVIOUS
  <2> HIDE DEF T
  <2>4. T(a(1) \o a(2), 2)
    BY <2>1, <2>2, <2>3
  <2>5. T(a(1) \o a(2) \o a(3), 3)
    BY <2>2, <2>3, <2>4
  <2>6. T(a(1) \o a(2) \o a(3) \o a(4), 4)
    BY <2>2, <2>3, <2>5
  <2>7. T(a(1) \o a(2) \o a(3) \o a(4) \o a(5), 5)
    BY <2>2, <2>3, <2>6
  <2>8. T(a(1) \o a(2) \o a(3) \o a(4) \o a(5) \o a(6), 6)
    BY <2>2, <2>3, <2>7
  <2>9. T(a(1) \o a(2) \o a(3) \o a(4) \o a(5) \o a(6) \o a(7), 7)
    BY <2>2, <2>3, <2>8
  <2>10. T(flips(b, Index(s), color), 8)
    BY <1>2, <2>2, <2>3, <2>9
  <2> QED
    BY <2>10 DEF T
<1>5. ASSUME NEW i \in 1 .. 8, NEW y \in R(i) PROVE y \in {Index(x) : x \in Turned(g, s)}
  <2>1. PICK k \in 1 .. Run(g, s, StepOf(i)) : y = Index(At(s, StepOf(i), k))
    OBVIOUS
  <2>2. At(s, StepOf(i), k) \in Turned(g, s)
    BY StepsAreDirections DEF Turned
  <2> QED
    BY <2>1, <2>2
<1>6. ASSUME NEW x \in Turned(g, s) PROVE \E i \in 1 .. 8 : Index(x) \in R(i)
  <2>1. PICK step \in Steps : x \in {At(s, step, k) : k \in 1 .. Run(g, s, step)}
    BY DEF Turned
  <2>2. PICK k \in 1 .. Run(g, s, step) : x = At(s, step, k)
    BY <2>1
  <2>3. PICK i \in 1 .. 8 : step = StepOf(i)
    BY StepsAreDirections
  <2>4. Index(x) \in R(i)
    BY <2>2, <2>3
  <2> HIDE DEF R
  <2> QED
    BY <2>4
<1> HIDE DEF R
<1> QED
  BY <1>4, <1>5, <1>6

(* The array and the rules count the same squares. *)
LEMMA CountedSquares ==
  ASSUME NEW b, NEW v
  PROVE  Cardinality({s \in Squares : b[Index(s)] = v}) = Count(b, v)
<1> DEFINE S == {s \in Squares : b[Index(s)] = v}
           T == {i \in OnBoardIndexes : b[i] = v}
           f == [s \in S |-> Index(s)]
<1>1. S \subseteq Squares
  OBVIOUS
<1>2. IsFiniteSet(S)
  <2> HIDE DEF S
  <2> QED
    BY <1>1, SquaresFinite, FS_Subset
<1>3. f \in Bijection(S, T)
  <2>1. \A s \in S : f[s] = Index(s) /\ f[s] \in T
    BY DEF OnBoardIndexes
  <2>2. \A i \in T : \E s \in S : f[s] = i
    <3> TAKE i \in T
    <3>1. PICK s \in Squares : i = Index(s)
      BY DEF OnBoardIndexes
    <3>2. s \in S
      BY <3>1
    <3> QED
      BY <2>1, <3>1, <3>2
  <2>3. \A s, t \in S : f[s] = f[t] => s = t
    BY <2>1, IndexInjective
  <2>4. f = [s \in S |-> f[s]]
    OBVIOUS
  <2> HIDE DEF f, S, T
  <2>5. f \in [S -> T]
    BY <2>1, <2>4
  <2> QED
    BY <2>2, <2>3, <2>5 DEF Bijection, Injection, Surjection, IsInjective
<1> HIDE DEF f, S, T
<1>4. Cardinality(T) = Cardinality(S)
  BY <1>2, <1>3, FS_Bijection DEF ExistsBijection
<1>5. Cardinality(T) = Count(b, v)
  BY CountOfSet DEF T
<1> QED
  BY <1>4, <1>5 DEF S

(* Every square is empty or has a disc. *)
LEMMA AllCounted ==
  ASSUME NEW b, BoardType(b)
  PROVE  Count(b, 0) + Count(b, 1) + Count(b, 2) = Size * Size
<1> DEFINE S(v) == {s \in Squares : b[Index(s)] = v}
<1>1. \A s \in Squares : b[Index(s)] = 0 \/ b[Index(s)] = 1 \/ b[Index(s)] = 2
  <2> TAKE s \in Squares
  <2>1. Index(s) \in OnBoardIndexes /\ Index(s) \in Indexes
    BY OnBoardRange DEF OnBoardIndexes
  <2>2. b[Index(s)] \in 0 .. 3 /\ b[Index(s)] # 3
    BY <2>1 DEF BoardType, IFES_DUMMY
  <2> QED
    BY <2>2
<1>2. Squares = (S(0) \cup S(1)) \cup S(2) /\ S(0) \cap S(1) = {} /\ (S(0) \cup S(1)) \cap S(2) = {}
  BY <1>1
<1>3. \A v : S(v) \subseteq Squares
  OBVIOUS
<1>4. \A v : Cardinality(S(v)) = Count(b, v)
  BY CountedSquares
<1> HIDE DEF S
<1>5. \A v : IsFiniteSet(S(v)) /\ Count(b, v) \in Nat
  BY <1>3, SquaresFinite, FS_Subset, CountOfSet
<1>6. Cardinality({}) = 0
  BY FS_EmptySet
<1> PICK c0, c1, c2 \in Nat : c0 = Count(b, 0) /\ c1 = Count(b, 1) /\ c2 = Count(b, 2)
  BY <1>5
<1>7. IsFiniteSet(S(0) \cup S(1)) /\ Cardinality(S(0) \cup S(1)) = c0 + c1
  <2>1. /\ IsFiniteSet(S(0) \cup S(1))
        /\ Cardinality(S(0) \cup S(1)) = Cardinality(S(0)) + Cardinality(S(1)) - Cardinality(S(0) \cap S(1))
    BY <1>5, FS_Union
  <2>2. Cardinality(S(0)) = c0 /\ Cardinality(S(1)) = c1 /\ Cardinality(S(0) \cap S(1)) = 0
    BY <1>2, <1>4, <1>6
  <2> QED
    BY <2>1, <2>2
<1>8. Cardinality(Squares) = (c0 + c1) + c2
  <2>1. Cardinality((S(0) \cup S(1)) \cup S(2))
          = Cardinality(S(0) \cup S(1)) + Cardinality(S(2)) - Cardinality((S(0) \cup S(1)) \cap S(2))
    BY <1>5, <1>7, FS_Union
  <2>2. Cardinality(S(2)) = c2 /\ Cardinality((S(0) \cup S(1)) \cap S(2)) = 0
    BY <1>2, <1>4, <1>6
  <2> QED
    BY <1>2, <1>7, <2>1, <2>2
<1> QED
  BY <1>8, SquaresFinite

-----------------------------------------------------------------------------
(* What the position of the board is worth to color, and what its move x   *)
(* is.                                                                     *)
TrueValue(b, color) == Value(ifes_game_position_translation(b, color))
MoveValue(b, x, color) == -TrueValue(Placed(b, x, flips(b, x, color), color), opponent_color(color))

(* A disc of the array is on the square of its index. *)
LEMMA DiscKinds ==
  ASSUME NEW b, BoardType(b), NEW s \in Squares, NEW color \in {0, 2}
  PROVE  /\ Index(s) \in OnBoardIndexes /\ Index(s) \in Indexes /\ Index(s) \in Nat /\ SquareOf[Index(s)] = s
         /\ b[Index(s)] \in {0, 1, 2}
         /\ opponent_color(color) \in {0, 2} /\ opponent_color(color) # color
         /\ opponent_color(opponent_color(color)) = color
<1>1. Index(s) \in OnBoardIndexes /\ Index(s) \in Indexes /\ Index(s) \in Nat
  BY OnBoardRange DEF OnBoardIndexes
<1>2. b[Index(s)] \in 0 .. 3 /\ b[Index(s)] # 3
  BY <1>1 DEF BoardType, IFES_DUMMY
<1> QED
  BY <1>1, <1>2, SquareOfIndex DEF opponent_color

(* The empty squares of both. *)
LEMMA EmptiesTranslated ==
  ASSUME NEW b, BoardType(b), NEW color \in {0, 2}, NEW g, g = ifes_game_position_translation(b, color)
  PROVE  /\ \A s \in Squares : s \in Empties(g) <=> Index(s) \in EmptySquares(b)
         /\ Cardinality(Empties(g)) = Count(b, 1)
         /\ Cardinality(PlayerSet(g)) = Count(b, color)
         /\ Cardinality(OpponentSet(g)) = Count(b, opponent_color(color))
<1>1. /\ g.blacks = {x \in Squares : b[Index(x)] = 2} /\ g.whites = {x \in Squares : b[Index(x)] = 0}
      /\ PlayerSet(g) = {x \in Squares : b[Index(x)] = color}
      /\ OpponentSet(g) = {x \in Squares : b[Index(x)] = opponent_color(color)}
  BY TranslatedSets
<1>2. \A s \in Squares : Index(s) \in OnBoardIndexes /\ b[Index(s)] \in {0, 1, 2}
  BY DiscKinds
<1>3. Empties(g) = {x \in Squares : b[Index(x)] = 1}
  BY <1>1, <1>2 DEF Empties
<1> QED
  BY <1>1, <1>2, <1>3, CountedSquares DEF EmptySquares, IFES_EMPTY

(* The moves of both. *)
LEMMA MovesTranslated ==
  ASSUME NEW b, BoardType(b), NEW color \in {0, 2}, NEW g, g = ifes_game_position_translation(b, color)
  PROVE  /\ \A s \in LegalMoves(g) : s \in Squares /\ Index(s) \in Moves(b, color)
         /\ \A x \in Moves(b, color) : SquareOf[x] \in LegalMoves(g) /\ Index(SquareOf[x]) = x
         /\ (Moves(b, color) = {}) <=> (LegalMoves(g) = {})
<1>1. ASSUME NEW s \in Squares
      PROVE  /\ s \in LegalMoves(g) <=> Index(s) \in Moves(b, color)
             /\ SquareOf[Index(s)] = s
  <2>1. Index(s) \in OnBoardIndexes /\ SquareOf[Index(s)] = s
    BY DiscKinds
  <2>2. TurnedDiscs(flips(b, Index(s), color), b, color)
    BY <2>1, TurnedDiscsOfMove
  <2> DEFINE t == flips(b, Index(s), color)
  <2>3. t \in Seq(OnBoardIndexes) /\ (t = << >> <=> ToSet(t) = {})
    <3>1. t \in Seq(OnBoardIndexes)
      BY <2>2 DEF TurnedDiscs
    <3> HIDE DEF t
    <3>2. t # << >> => t[1] \in ToSet(t)
      BY <3>1 DEF ToSet
    <3>3. t = << >> => ToSet(t) = {}
      BY DEF ToSet
    <3> QED
      BY <3>1, <3>2, <3>3
  <2>4. ToSet(t) = {Index(x) : x \in Turned(g, s)}
    BY FlipsFollowRules
  <2> HIDE DEF t
  <2>5. t # << >> <=> Turned(g, s) # {}
    BY <2>3, <2>4
  <2>6. s \in Empties(g) <=> Index(s) \in EmptySquares(b)
    BY EmptiesTranslated
  <2> QED
    BY <2>1, <2>5, <2>6 DEF LegalMoves, Moves, t
<1>2. \A s \in LegalMoves(g) : s \in Squares
  BY DEF LegalMoves, Empties
<1>3. \A x \in Moves(b, color) : \E s \in Squares : x = Index(s)
  BY DEF Moves, EmptySquares, OnBoardIndexes
<1> QED
  BY <1>1, <1>2, <1>3

(* A move makes of both what corresponds. *)
LEMMA AfterTranslated ==
  ASSUME NEW b, BoardType(b), NEW color \in {0, 2}, NEW g, g = ifes_game_position_translation(b, color),
         NEW s \in LegalMoves(g)
  PROVE  After(g, s) = ifes_game_position_translation(Placed(b, Index(s), flips(b, Index(s), color), color),
                                                      opponent_color(color))
<1> DEFINE sq == Index(s)
           t == flips(b, sq, color)
           c == Placed(b, sq, t, color)
           T == Turned(g, s)
<1>1. s \in Squares /\ s \in Empties(g)
  BY DEF LegalMoves, Empties
<1>2. \A x \in Squares : /\ Index(x) \in Indexes /\ b[Index(x)] \in {0, 1, 2}
                         /\ opponent_color(color) \in {0, 2} /\ opponent_color(color) # color
  BY DiscKinds
<1>3. ToSet(t) = {Index(x) : x \in T}
  BY <1>1, FlipsFollowRules
<1>4. /\ PlayerSet(g) = {x \in Squares : b[Index(x)] = color}
      /\ OpponentSet(g) = {x \in Squares : b[Index(x)] = opponent_color(color)}
      /\ g.player = (IF color = 0 THEN WHITE_PLAYER ELSE BLACK_PLAYER)
  BY TranslatedSets
<1>5. T \subseteq OpponentSet(g)
  BY TurnedAreOpponents
<1>6. b[sq] = 1
  BY <1>1, EmptiesTranslated DEF EmptySquares, IFES_EMPTY
<1> HIDE DEF t, T
<1>7. ASSUME NEW x \in Squares
      PROVE  c[Index(x)] = IF x = s \/ x \in T THEN color ELSE b[Index(x)]
  <2>1. Index(x) = sq <=> x = s
    BY <1>1, IndexInjective
  <2>2. Index(x) \in ToSet(t) <=> x \in T
    <3>1. \A y \in T : y \in Squares
      BY <1>4, <1>5
    <3> QED
      BY <1>3, <3>1, IndexInjective
  <2>3. c[Index(x)] = IF Index(x) = sq \/ Index(x) \in ToSet(t) THEN color ELSE b[Index(x)]
    BY <1>2 DEF Placed
  <2> QED
    BY <2>1, <2>2, <2>3
<1> HIDE DEF c, sq
<1> DEFINE P == {x \in Squares : c[Index(x)] = color}
           O == {x \in Squares : c[Index(x)] = opponent_color(color)}
<1>8. PlayerSet(g) \cup T \cup {s} = P
  BY <1>1, <1>4, <1>5, <1>7
<1>9. OpponentSet(g) \ T = O
  BY <1>1, <1>2, <1>4, <1>5, <1>6, <1>7 DEF sq
<1>10. After(g, s) = AfterMove(g.player, P, O)
  BY <1>8, <1>9 DEF After, T
<1>11. ifes_game_position_translation(c, opponent_color(color)) = AfterMove(g.player, P, O)
  <2>1. CASE color = 0
    BY <1>4, <2>1 DEF ifes_game_position_translation, AfterMove, opponent_color, WHITE_PLAYER, BLACK_PLAYER,
                      IFES_WHITE, IFES_BLACK
  <2>2. CASE color = 2
    BY <1>4, <2>2 DEF ifes_game_position_translation, AfterMove, opponent_color, WHITE_PLAYER, BLACK_PLAYER,
                      IFES_WHITE, IFES_BLACK
  <2> QED
    BY <2>1, <2>2
<1> QED
  BY <1>10, <1>11 DEF c, t, sq

(* A pass too. *)
LEMMA PassTranslated ==
  ASSUME NEW b, NEW color \in {0, 2}
  PROVE  game_position_x_pass(ifes_game_position_translation(b, color))
           = ifes_game_position_translation(b, opponent_color(color))
<1> DEFINE bs == {x \in Squares : b[Index(x)] = IFES_BLACK}
           ws == {x \in Squares : b[Index(x)] = IFES_WHITE}
<1>1. \A v : ifes_game_position_translation(b, v) = Position(bs, ws, IF v = 0 THEN WHITE_PLAYER ELSE BLACK_PLAYER)
  BY DEF ifes_game_position_translation, IFES_WHITE
<1> HIDE DEF bs, ws
<1>2. CASE color = 0
  BY <1>1, <1>2 DEF game_position_x_pass, player_opponent, Position, WHITE_PLAYER, BLACK_PLAYER, opponent_color
<1>3. CASE color = 2
  BY <1>1, <1>3 DEF game_position_x_pass, player_opponent, Position, WHITE_PLAYER, BLACK_PLAYER, opponent_color
<1> QED
  BY <1>2, <1>3

(* The value of a game that is over, from the number of discs. *)
EndValue(difference, empties) ==
  IF difference > 0 THEN difference + empties ELSE IF difference < 0 THEN difference - empties ELSE 0

(* What the searches rely on: the rules of the value of a position, on the *)
(* board.                                                                  *)
ValueFollows(b, color) ==
  LET other == opponent_color(color)
  IN  /\ TrueValue(b, color) \in Scores
      /\ \A x \in Moves(b, color) : MoveValue(b, x, color) \in Scores /\ MoveValue(b, x, color) <= TrueValue(b, color)
      /\ Moves(b, color) # {} => \E x \in Moves(b, color) : MoveValue(b, x, color) = TrueValue(b, color)
      /\ Moves(b, color) = {} => TrueValue(b, color) = -TrueValue(b, other)
      /\ Moves(b, color) = {} /\ Moves(b, other) = {} =>
           TrueValue(b, color) = EndValue(Count(b, color) - Count(b, other), Count(b, IFES_EMPTY))

(* When nobody can move the value is what final_value says of the discs.   *)
LEMMA GameOverValue ==
  ASSUME NEW b, BoardType(b), NEW color \in {0, 2}, Moves(b, color) = {}, Moves(b, opponent_color(color)) = {}
  PROVE  TrueValue(b, color) = EndValue(Count(b, color) - Count(b, opponent_color(color)), Count(b, IFES_EMPTY))
<1> DEFINE g == ifes_game_position_translation(b, color)
           other == opponent_color(color)
           p == game_position_x_pass(g)
<1>1. other \in {0, 2}
  BY DEF opponent_color
<1>2. g \in Positions /\ LegalMoves(g) = {}
  BY TranslatedSets, MovesTranslated
<1>3. p = ifes_game_position_translation(b, other)
  BY PassTranslated
<1>4. LegalMoves(p) = {}
  BY <1>1, <1>3, MovesTranslated
<1>5. Value(g) = final_value(g)
  BY <1>2, <1>4, ValueOfPosition
<1>6. /\ Cardinality(Empties(g)) = Count(b, 1)
      /\ Cardinality(PlayerSet(g)) = Count(b, color)
      /\ Cardinality(OpponentSet(g)) = Count(b, other)
      /\ Count(b, color) \in Nat /\ Count(b, other) \in Nat /\ Count(b, 1) \in Nat
  BY EmptiesTranslated, CountOfSet
<1> PICK d, e \in Int : d = Count(b, color) - Count(b, other) /\ e = Count(b, 1)
  BY <1>6
<1>7. final_value(g) = IF d = 0 THEN 0 ELSE d + (IF d > 0 THEN e ELSE -e)
  BY <1>6 DEF final_value
<1>8. EndValue(d, e) = IF d = 0 THEN 0 ELSE d + (IF d > 0 THEN e ELSE -e)
  BY DEF EndValue
<1> QED
  BY <1>5, <1>7, <1>8 DEF TrueValue, IFES_EMPTY

(* The value of a board follows from its moves: it is that of the best one, *)
(* with a pass that of the opponent, and at the end it is counted.         *)
THEOREM BoardValue ==
  ASSUME NEW b, BoardType(b), NEW color \in {0, 2}
  PROVE  ValueFollows(b, color)
<1> DEFINE g == ifes_game_position_translation(b, color)
           other == opponent_color(color)
           p == game_position_x_pass(g)
<1>1. other \in {0, 2} /\ opponent_color(other) = color
  BY DEF opponent_color
<1>2. g \in Positions /\ (Moves(b, color) = {} <=> LegalMoves(g) = {})
  BY TranslatedSets, MovesTranslated
<1>3. p = ifes_game_position_translation(b, other)
  BY PassTranslated
<1>4. Moves(b, other) = {} <=> LegalMoves(p) = {}
  BY <1>1, <1>3, MovesTranslated
<1>5. TrueValue(b, color) = Value(g) /\ TrueValue(b, other) = Value(p)
  BY <1>3 DEF TrueValue
<1>6. \A s \in LegalMoves(g) : Index(s) \in Moves(b, color) /\ MoveValue(b, Index(s), color) = -Value(After(g, s))
  BY MovesTranslated, AfterTranslated DEF MoveValue, TrueValue
<1>7. \A x \in Moves(b, color) : SquareOf[x] \in LegalMoves(g) /\ Index(SquareOf[x]) = x
  BY MovesTranslated
<1>8. /\ Value(g) \in Scores
      /\ \A s \in LegalMoves(g) : Value(After(g, s)) \in Scores /\ -Value(After(g, s)) <= Value(g)
      /\ (LegalMoves(g) # {} => \E s \in LegalMoves(g) : -Value(After(g, s)) = Value(g))
      /\ (LegalMoves(g) = {} /\ LegalMoves(p) # {} => Value(g) = -Value(p))
  BY <1>2, ValueOfPosition
<1>9. \A x \in Scores : -x \in Scores
  BY SizeType DEF Scores, BestScore
<1>10. ASSUME Moves(b, color) = {}, Moves(b, other) = {}
       PROVE  /\ TrueValue(b, color) = EndValue(Count(b, color) - Count(b, other), Count(b, IFES_EMPTY))
              /\ TrueValue(b, color) = -TrueValue(b, other)
  <2>1. TrueValue(b, color) = EndValue(Count(b, color) - Count(b, other), Count(b, IFES_EMPTY))
    BY <1>10, GameOverValue
  <2>2. TrueValue(b, other) = EndValue(Count(b, other) - Count(b, color), Count(b, IFES_EMPTY))
    BY <1>1, <1>10, GameOverValue
  <2>3. Count(b, color) \in Nat /\ Count(b, other) \in Nat /\ Count(b, IFES_EMPTY) \in Nat
    BY CountOfSet
  <2> PICK u, v, w \in Nat : u = Count(b, color) /\ v = Count(b, other) /\ w = Count(b, IFES_EMPTY)
    BY <2>3
  <2>4. EndValue(u - v, w) = -EndValue(v - u, w)
    BY DEF EndValue
  <2>5. TrueValue(b, color) = EndValue(u - v, w) /\ TrueValue(b, other) = EndValue(v - u, w)
    BY <2>1, <2>2
  <2>6. EndValue(v - u, w) \in Int
    BY DEF EndValue
  <2> QED
    BY <2>1, <2>4, <2>5, <2>6
<1> HIDE DEF g, p
<1>11. \A x \in Moves(b, color) : MoveValue(b, x, color) \in Scores /\ MoveValue(b, x, color) <= TrueValue(b, color)
  BY <1>5, <1>6, <1>7, <1>8, <1>9
<1>12. Moves(b, color) # {} => \E x \in Moves(b, color) : MoveValue(b, x, color) = TrueValue(b, color)
  BY <1>2, <1>5, <1>6, <1>8
<1>13. Moves(b, color) = {} => TrueValue(b, color) = -TrueValue(b, other)
  BY <1>2, <1>4, <1>5, <1>8, <1>10
<1> QED
  BY <1>5, <1>8, <1>10, <1>11, <1>12, <1>13 DEF ValueFollows

(* To negate a number twice changes nothing.                               *)
LEMMA NegatedTwice ==
  \A x \in Int : -(-x) = x /\ -x \in Int
OBVIOUS

(* A score is a number. *)
LEMMA ScoresAreInt == \A x \in Scores : x \in Int /\ -x \in Scores
BY SizeType DEF Scores, BestScore

(* The move on the last empty square ends the game. *)
LEMMA LastSquareValue ==
  ASSUME NEW c, BoardType(c), NEW color \in {0, 2}, NEW last, EmptySquares(c) = {last}, last \in Moves(c, color)
  PROVE  TrueValue(c, color)
           = Count(c, color) - Count(c, opponent_color(color)) + 2 * Len(flips(c, last, color)) + 1
<1> DEFINE t == flips(c, last, color)
           e == Placed(c, last, t, color)
           other == opponent_color(color)
<1>1. other \in {0, 2} /\ other # color /\ opponent_color(other) = color
  BY DEF opponent_color
<1>2. last \in OnBoardIndexes
  BY DEF Moves, EmptySquares
<1>3. TurnedDiscs(t, c, color)
  BY <1>2, TurnedDiscsOfMove
<1>4. PlacedCorrectly(c, last, t, color, e)
  <2>1. last \in EmptySquares(c)
    BY DEF Moves
  <2> HIDE DEF t
  <2> QED
    BY <1>3, <2>1, PlacedBoard
<1>5. Len(t) \in Nat
  BY <1>3 DEF TurnedDiscs
<1>6. MoveValue(c, last, color) = -TrueValue(e, other)
  BY DEF MoveValue
<1> HIDE DEF e, t
<1>7. /\ BoardType(e) /\ EmptySquares(e) = {}
      /\ Count(e, color) = Count(c, color) + Len(t) + 1 /\ Count(e, other) = Count(c, other) - Len(t)
  BY <1>4 DEF PlacedCorrectly
<1>8. Count(e, IFES_EMPTY) = 0
  BY <1>7, FS_EmptySet DEF Count, EmptySquares
<1>9. Moves(e, other) = {} /\ Moves(e, color) = {}
  BY <1>7 DEF Moves
<1>10. TrueValue(e, other) = EndValue(Count(e, other) - Count(e, color), 0)
  BY <1>1, <1>7, <1>8, <1>9, GameOverValue
<1>11. /\ Count(c, color) \in Nat /\ Count(c, other) \in Nat
       /\ Count(e, color) \in Nat /\ Count(e, other) \in Nat
  BY CountOfSet
<1>12. TrueValue(c, color) = MoveValue(c, last, color)
  <2>1. \A x \in Moves(c, color) : x = last
    BY DEF Moves
  <2> QED
    BY <2>1, BoardValue DEF ValueFollows
<1> PICK u, v, l \in Nat : u = Count(c, color) /\ v = Count(c, other) /\ l = Len(t)
  BY <1>5, <1>11
<1>13. TrueValue(e, other) = (v - l) - (u + l + 1)
  <2>1. TrueValue(e, other) = EndValue((v - l) - (u + l + 1), 0)
    BY <1>7, <1>10
  <2>2. \A x \in Int : EndValue(x, 0) = x
    BY DEF EndValue
  <2> QED
    BY <2>1, <2>2
<1>14. -((v - l) - (u + l + 1)) = u - v + 2 * l + 1
  <2>1. \A x, y \in Int : -(x - y) = y - x
    OBVIOUS
  <2>2. v - l \in Int /\ u + l + 1 \in Int
    OBVIOUS
  <2>3. (u + l + 1) - (v - l) = u - v + 2 * l + 1
    OBVIOUS
  <2> QED
    BY <2>1, <2>2, <2>3
<1>15. TrueValue(c, color) = u - v + 2 * l + 1
  <2>1. TrueValue(c, color) = -TrueValue(e, other)
    BY ONLY <1>6, <1>12
  <2>2. -TrueValue(e, other) = -((v - l) - (u + l + 1))
    BY ONLY <1>13
  <2> QED
    BY ONLY <2>1, <2>2, <1>14
<1>16. l = Len(flips(c, last, color))
  BY DEF t
<1> HIDE DEF other
<1>17. u = Count(c, color) /\ v = Count(c, other)
  OBVIOUS
<1> QED
  BY ONLY <1>15, <1>16, <1>17 DEF other

(* An even number of squares cannot be shared equally but for one. *)
LEMMA OddDifference ==
  ASSUME NEW c, BoardType(c), NEW color \in {0, 2}, Count(c, IFES_EMPTY) = 1
  PROVE  Count(c, color) # Count(c, opponent_color(color))
<1> SUFFICES ASSUME Count(c, color) = Count(c, opponent_color(color)) PROVE FALSE
  OBVIOUS
<1>1. Count(c, 0) = Count(c, 2)
  BY DEF opponent_color
<1>2. Count(c, 0) + 1 + Count(c, 2) = Size * Size /\ Count(c, 0) \in Nat
  BY AllCounted, CountOfSet DEF IFES_EMPTY
<1> PICK n \in Nat : n = Count(c, 0)
  BY <1>2
<1>3. n + 1 + n = Size * Size
  BY <1>1, <1>2
<1> PICK m \in Nat : Size = 2 * m
  <2>1. Size \in Nat /\ Size % 2 = 0
    BY SizeAssumption
  <2>2. Size = 2 * (Size \div 2) + (Size % 2) /\ Size \div 2 \in Nat
    BY <2>1, Quotients
  <2> QED
    BY <2>1, <2>2
<1>4. Size * Size = 2 * (m * Size) /\ m * Size \in Nat
  <2>1. Size * Size = (2 * m) * Size
    OBVIOUS
  <2> QED
    BY SizeType, <2>1
<1> PICK k \in Nat : k = m * Size
  BY <1>4
<1>5. n + 1 + n = 2 * k
  BY <1>3, <1>4
<1> QED
  BY <1>5

(* The value that no_parity_end_solve gives a move on one of the last two  *)
(* empty squares, from the number of discs it and the next one turn.       *)
LastTwo(difference, flipped, opponent_flips, player_flips) ==
  LET first_move == difference + 2 * flipped
  IN  IF opponent_flips > 0 THEN first_move - 2 * opponent_flips
      ELSE IF player_flips > 0 THEN first_move + 2 * (player_flips + 1)
      ELSE IF first_move >= 0 THEN first_move + 2 ELSE first_move

(* LastTwo says what the discs are that the rules count, whoever moves last. *)
LEMMA LastTwoCases ==
  ASSUME NEW u \in Nat, NEW v \in Nat, NEW l \in Nat, NEW p \in Nat, NEW q \in Nat
  PROVE  /\ p > 0 => -((v - l) - (u + l + 1) + 2 * p + 1) = LastTwo(u - v, l, p, q)
         /\ p = 0 /\ q > 0 => (u + l + 1) - (v - l) + 2 * q + 1 = LastTwo(u - v, l, p, q)
         /\ p = 0 /\ q = 0 /\ u + l + 1 # v - l =>
              -EndValue((v - l) - (u + l + 1), 1) = LastTwo(u - v, l, p, q)
<1> PICK x \in Int : x = (u - v) + 2 * l
  OBVIOUS
<1>1. (v - l) - (u + l + 1) = -x - 1 /\ (u + l + 1 # v - l => x # -1)
  OBVIOUS
<1>2. LastTwo(u - v, l, p, q) = IF p > 0 THEN x - 2 * p
                                ELSE IF q > 0 THEN x + 2 * (q + 1) ELSE IF x >= 0 THEN x + 2 ELSE x
  BY DEF LastTwo
<1>3. x # -1 => -EndValue(-x - 1, 1) = IF x >= 0 THEN x + 2 ELSE x
  BY DEF EndValue
<1>4. p > 0 => -((-x - 1) + 2 * p + 1) = x - 2 * p
  OBVIOUS
<1>5. (u + l + 1) - (v - l) + 2 * q + 1 = x + 2 * (q + 1)
  OBVIOUS
<1>6. p > 0 => -((v - l) - (u + l + 1) + 2 * p + 1) = LastTwo(u - v, l, p, q)
  BY <1>1, <1>2, <1>4
<1>7. p = 0 /\ q > 0 => (u + l + 1) - (v - l) + 2 * q + 1 = LastTwo(u - v, l, p, q)
  BY <1>2, <1>5
<1>8. p = 0 /\ q = 0 /\ u + l + 1 # v - l => -EndValue((v - l) - (u + l + 1), 1) = LastTwo(u - v, l, p, q)
  BY <1>1, <1>2, <1>3
<1> QED
  BY <1>6, <1>7, <1>8

(* The value that no_parity_end_solve takes for a move with two squares left *)
(* is that of the move: when nobody can move on the last square, the one who *)
(* has more discs gets it, and a draw is impossible, as Size is even.      *)
LEMMA LastTwoIsMoveValue ==
  ASSUME NEW b, BoardType(b), NEW color \in {0, 2}, Count(b, IFES_EMPTY) = 2,
         NEW sq \in Moves(b, color), NEW last, EmptySquares(b) \ {sq} = {last},
         NEW c, c = Placed(b, sq, flips(b, sq, color), color)
  PROVE  MoveValue(b, sq, color)
           = LastTwo(Count(b, color) - Count(b, opponent_color(color)), Len(flips(b, sq, color)),
                     Len(flips(c, last, opponent_color(color))), Len(flips(c, last, color)))
<1> DEFINE other == opponent_color(color)
           t == flips(b, sq, color)
<1>1. other \in {0, 2} /\ other # color /\ opponent_color(other) = color
  BY DEF opponent_color
<1>2. sq \in EmptySquares(b) /\ sq \in OnBoardIndexes
  BY DEF Moves, EmptySquares
<1>3. TurnedDiscs(t, b, color) /\ Len(t) \in Nat
  BY <1>2, TurnedDiscsOfMove DEF TurnedDiscs
<1>4. MoveValue(b, sq, color) = -TrueValue(c, other)
  BY DEF MoveValue
<1>5. PlacedCorrectly(b, sq, t, color, c)
  BY <1>2, <1>3, PlacedBoard
<1> HIDE DEF t
<1>6. /\ BoardType(c) /\ EmptySquares(c) = {last} /\ Count(c, IFES_EMPTY) = 1
      /\ Count(c, color) = Count(b, color) + Len(t) + 1 /\ Count(c, other) = Count(b, other) - Len(t)
  BY <1>5 DEF PlacedCorrectly
<1>7. /\ Count(b, color) \in Nat /\ Count(b, other) \in Nat
      /\ Count(c, color) \in Nat /\ Count(c, other) \in Nat
  BY CountOfSet
<1>8. last \in OnBoardIndexes
  BY <1>6 DEF EmptySquares
<1>9. Len(flips(c, last, other)) \in Nat /\ Len(flips(c, last, color)) \in Nat
      /\ flips(c, last, other) \in Seq(OnBoardIndexes) /\ flips(c, last, color) \in Seq(OnBoardIndexes)
  BY <1>1, <1>6, <1>8, TurnedDiscsOfMove DEF TurnedDiscs
<1> PICK u, v, l, p, q \in Nat : /\ u = Count(b, color) /\ v = Count(b, other) /\ l = Len(t)
                                /\ p = Len(flips(c, last, other)) /\ q = Len(flips(c, last, color))
  BY <1>3, <1>7, <1>9
<1>10. u \in Nat /\ v \in Nat /\ l \in Nat /\ p \in Nat /\ q \in Nat
  OBVIOUS
<1>11. /\ p > 0 => -((v - l) - (u + l + 1) + 2 * p + 1) = LastTwo(u - v, l, p, q)
       /\ p = 0 /\ q > 0 => (u + l + 1) - (v - l) + 2 * q + 1 = LastTwo(u - v, l, p, q)
       /\ p = 0 /\ q = 0 /\ u + l + 1 # v - l =>
            -EndValue((v - l) - (u + l + 1), 1) = LastTwo(u - v, l, p, q)
  BY ONLY <1>10, LastTwoCases
<1>12. p = 0 <=> Moves(c, other) = {}
  <2>1. p = 0 <=> flips(c, last, other) = << >>
    BY <1>9
  <2> QED
    BY <1>6, <2>1 DEF Moves
<1>13. q = 0 <=> Moves(c, color) = {}
  <2>1. q = 0 <=> flips(c, last, color) = << >>
    BY <1>9
  <2> QED
    BY <1>6, <2>1 DEF Moves
<1>14. -TrueValue(c, other) = LastTwo(u - v, l, p, q)
  <2>1. CASE p > 0
    <3>1. last \in Moves(c, other)
      BY <1>6, <1>12, <2>1 DEF Moves
    <3>2. TrueValue(c, other) = Count(c, other) - Count(c, color) + 2 * p + 1
      BY <1>1, <1>6, <3>1, LastSquareValue, ZenonT(60)
    <3>3. TrueValue(c, other) = (v - l) - (u + l + 1) + 2 * p + 1
      BY <1>6, <3>2
    <3> QED
      BY ONLY <1>11, <2>1, <3>3
  <2>2. CASE p = 0 /\ q > 0
    <3>1. last \in Moves(c, color) /\ Moves(c, other) = {}
      BY <1>6, <1>12, <1>13, <2>2 DEF Moves
    <3>2. TrueValue(c, color) = Count(c, color) - Count(c, other) + 2 * q + 1
      BY <1>1, <1>6, <3>1, LastSquareValue
    <3>3. TrueValue(c, color) = (u + l + 1) - (v - l) + 2 * q + 1
      BY <1>6, <3>2
    <3>4. TrueValue(c, other) = -TrueValue(c, color)
      BY <1>1, <1>6, <3>1, BoardValue DEF ValueFollows
    <3>5. TrueValue(c, color) = LastTwo(u - v, l, p, q)
      BY ONLY <1>11, <2>2, <3>3
    <3>6. TrueValue(c, color) \in Int
      BY <1>6, BoardValue, ScoresAreInt DEF ValueFollows
    <3> QED
      BY ONLY <3>4, <3>5, <3>6, NegatedTwice
  <2>3. CASE p = 0 /\ q = 0
    <3>1. Moves(c, color) = {} /\ Moves(c, other) = {}
      BY <1>12, <1>13, <2>3
    <3>2. TrueValue(c, other) = EndValue(Count(c, other) - Count(c, color), 1)
      BY <1>1, <1>6, <3>1, GameOverValue
    <3>3. Count(c, color) # Count(c, other)
      BY <1>6, OddDifference
    <3>4. TrueValue(c, other) = EndValue((v - l) - (u + l + 1), 1) /\ u + l + 1 # v - l
      BY <1>6, <3>2, <3>3
    <3> QED
      BY ONLY <1>11, <2>3, <3>4
  <2> QED
    BY <2>1, <2>2, <2>3
<1> QED
  BY <1>4, <1>14 DEF t
IsFrame(f) ==
  f = [ fn |-> f.fn, alpha |-> f.alpha, beta |-> f.beta, color |-> f.color,
        empties |-> f.empties, discdiff |-> f.discdiff, pass_before |-> f.pass_before,
        previous_move |-> f.previous_move, current_move |-> f.current_move,
        par |-> f.par, parity_mask |-> f.parity_mask, goodness |-> f.goodness,
        flip_count |-> f.flip_count, move_square |-> f.move_square, selected_n |-> f.selected_n ]

(* What a loop never changes in its activation. *)
SameSearch(f, g) ==
  g.fn = f.fn /\ g.color = f.color /\ g.empties = f.empties /\ g.discdiff = f.discdiff
SameWindow(f, g) == g.alpha = f.alpha /\ g.beta = f.beta /\ g.pass_before = f.pass_before
SameRegions(f, g) == g.par = f.par /\ g.parity_mask = f.parity_mask

(* The changes of several fields of an activation, by name. *)
AdvancedTo(f, x, y) == [f EXCEPT !.previous_move = x, !.current_move = y]
CallingFrom(f, n, sq) == [f EXCEPT !.flip_count = n, !.move_square = sq]

(* An activation that goes to another square. *)
LEMMA FrameAdvanced ==
  ASSUME NEW f, IsFrame(f), NEW x, NEW y,
         NEW g, g = AdvancedTo(f, x, y)
  PROVE  /\ IsFrame(g) /\ SameSearch(f, g) /\ SameWindow(f, g) /\ SameRegions(f, g)
             /\ g.previous_move = x /\ g.current_move = y /\ g.goodness = f.goodness /\ g.selected_n = f.selected_n
<1> DEFINE d == [f EXCEPT !.previous_move = x]
<1>1. g = [d EXCEPT !.current_move = y]
  BY DEF IsFrame, AdvancedTo
<1>2. d = [ fn |-> f.fn, alpha |-> f.alpha, beta |-> f.beta, color |-> f.color,
        empties |-> f.empties, discdiff |-> f.discdiff, pass_before |-> f.pass_before,
        previous_move |-> x, current_move |-> f.current_move,
        par |-> f.par, parity_mask |-> f.parity_mask, goodness |-> f.goodness,
        flip_count |-> f.flip_count, move_square |-> f.move_square, selected_n |-> f.selected_n ]
  BY DEF IsFrame
<1> HIDE DEF d
<1>3. g = [ fn |-> f.fn, alpha |-> f.alpha, beta |-> f.beta, color |-> f.color,
        empties |-> f.empties, discdiff |-> f.discdiff, pass_before |-> f.pass_before,
        previous_move |-> x, current_move |-> y,
        par |-> f.par, parity_mask |-> f.parity_mask, goodness |-> f.goodness,
        flip_count |-> f.flip_count, move_square |-> f.move_square, selected_n |-> f.selected_n ]
  BY <1>1, <1>2
<1>4. IsFrame(g) /\ SameSearch(f, g) /\ SameWindow(f, g) /\ SameRegions(f, g)
             /\ g.previous_move = x /\ g.current_move = y /\ g.goodness = f.goodness /\ g.selected_n = f.selected_n
  BY <1>3 DEF IsFrame, SameSearch, SameWindow, SameRegions
<1> QED
  BY <1>4

(* An activation that has seen a value. *)
LEMMA FrameBetter ==
  ASSUME NEW f, IsFrame(f), NEW value, NEW sq \in Nat
  PROVE  LET g == Better(f, value, sq)
         IN  /\ IsFrame(g) /\ SameSearch(f, g) /\ SameRegions(f, g)
             /\ g.beta = f.beta /\ g.pass_before = f.pass_before
             /\ g.previous_move = f.previous_move /\ g.current_move = f.current_move /\ g.goodness = f.goodness
             /\ g.selected_n = f.selected_n \/ g.selected_n = [value |-> value, square |-> sq]
<1>1. CASE value <= f.selected_n.value
  BY <1>1 DEF Better, SameSearch, SameRegions
<1>2. CASE ~(value <= f.selected_n.value)
  <2> DEFINE d == [f EXCEPT !.selected_n = [value |-> value, square |-> sq]]
             a == Max({f.alpha, value})
             g == [d EXCEPT !.alpha = a]
  <2>1. /\ IsFrame(d) /\ SameSearch(f, d) /\ SameRegions(f, d) /\ d.beta = f.beta /\ d.pass_before = f.pass_before
        /\ d.previous_move = f.previous_move /\ d.current_move = f.current_move /\ d.goodness = f.goodness
        /\ d.selected_n = [value |-> value, square |-> sq] /\ d.alpha = f.alpha
    BY DEF IsFrame, SameSearch, SameRegions
  <2>2. Better(f, value, sq) = g
    BY <1>2, <2>1 DEF Better, IsFrame
  <2> HIDE DEF d, a
  <2>3. /\ IsFrame(g) /\ SameSearch(d, g) /\ SameRegions(d, g) /\ g.beta = d.beta /\ g.pass_before = d.pass_before
        /\ g.previous_move = d.previous_move /\ g.current_move = d.current_move /\ g.goodness = d.goodness
        /\ g.selected_n = d.selected_n /\ g.alpha = a
    BY <2>1 DEF IsFrame, SameSearch, SameRegions
  <2> HIDE DEF g
  <2> QED
    BY <2>1, <2>2, <2>3 DEF SameSearch, SameRegions
<1> QED
  BY <1>1, <1>2

(* And when it has not, and when it has changed. *)
LEMMA BetterCases ==
  ASSUME NEW f, IsFrame(f), NEW value, NEW sq, NEW g, g = Better(f, value, sq)
  PROVE  /\ (value <= f.selected_n.value) => g = f
         /\ ~(value <= f.selected_n.value) =>
              g.selected_n = [value |-> value, square |-> sq] /\ g.alpha = Max({f.alpha, value})
BY DEF Better, IsFrame

(* An activation that makes a move. *)
LEMMA FrameCalling ==
  ASSUME NEW f, IsFrame(f), NEW n, NEW sq,
         NEW g, g = CallingFrom(f, n, sq)
  PROVE  /\ IsFrame(g) /\ SameSearch(f, g) /\ SameWindow(f, g) /\ SameRegions(f, g)
             /\ g.previous_move = f.previous_move /\ g.current_move = f.current_move /\ g.goodness = f.goodness
             /\ g.selected_n = f.selected_n /\ g.flip_count = n /\ g.move_square = sq
<1> DEFINE d == [f EXCEPT !.flip_count = n]
<1>1. g = [d EXCEPT !.move_square = sq]
  BY DEF IsFrame, CallingFrom
<1>2. d = [ fn |-> f.fn, alpha |-> f.alpha, beta |-> f.beta, color |-> f.color,
        empties |-> f.empties, discdiff |-> f.discdiff, pass_before |-> f.pass_before,
        previous_move |-> f.previous_move, current_move |-> f.current_move,
        par |-> f.par, parity_mask |-> f.parity_mask, goodness |-> f.goodness,
        flip_count |-> n, move_square |-> f.move_square, selected_n |-> f.selected_n ]
  BY DEF IsFrame
<1> HIDE DEF d
<1>3. g = [ fn |-> f.fn, alpha |-> f.alpha, beta |-> f.beta, color |-> f.color,
        empties |-> f.empties, discdiff |-> f.discdiff, pass_before |-> f.pass_before,
        previous_move |-> f.previous_move, current_move |-> f.current_move,
        par |-> f.par, parity_mask |-> f.parity_mask, goodness |-> f.goodness,
        flip_count |-> n, move_square |-> sq, selected_n |-> f.selected_n ]
  BY <1>1, <1>2
<1>4. IsFrame(g) /\ SameSearch(f, g) /\ SameWindow(f, g) /\ SameRegions(f, g)
             /\ g.previous_move = f.previous_move /\ g.current_move = f.current_move /\ g.goodness = f.goodness
             /\ g.selected_n = f.selected_n /\ g.flip_count = n /\ g.move_square = sq
  BY <1>3 DEF IsFrame, SameSearch, SameWindow, SameRegions
<1> QED
  BY <1>4

(* An activation that has rated a move. *)
LEMMA FrameRated ==
  ASSUME NEW f, IsFrame(f), NEW r,
         NEW g, g = [f EXCEPT !.goodness = r]
  PROVE  /\ IsFrame(g) /\ SameSearch(f, g) /\ SameWindow(f, g) /\ SameRegions(f, g)
             /\ g.previous_move = f.previous_move /\ g.current_move = f.current_move /\ g.goodness = r
             /\ g.selected_n = f.selected_n
BY DEF IsFrame, SameSearch, SameWindow, SameRegions

EvenFrom(f, p, m, x, y) ==
  [f EXCEPT !.par = p, !.parity_mask = m, !.previous_move = x, !.current_move = y]

(* An activation that starts again with the even regions. *)
LEMMA FrameEven ==
  ASSUME NEW f, IsFrame(f), NEW p, NEW m, NEW x, NEW y,
         NEW g, g = EvenFrom(f, p, m, x, y)
  PROVE  /\ IsFrame(g) /\ SameSearch(f, g) /\ SameWindow(f, g) /\ g.par = p /\ g.parity_mask = m
             /\ g.previous_move = x /\ g.current_move = y /\ g.goodness = f.goodness /\ g.selected_n = f.selected_n
<1> DEFINE a == [f EXCEPT !.par = p]
           b == [a EXCEPT !.parity_mask = m]
           c == [b EXCEPT !.previous_move = x]
<1>1. g = [c EXCEPT !.current_move = y]
  BY DEF IsFrame, EvenFrom
<1>2. IsFrame(a) /\ SameSearch(f, a) /\ SameWindow(f, a) /\ a.par = p /\ a.goodness = f.goodness /\ a.selected_n = f.selected_n
  BY DEF IsFrame, SameSearch, SameWindow, SameRegions
<1> HIDE DEF a
<1>3. IsFrame(b) /\ SameSearch(a, b) /\ SameWindow(a, b) /\ b.par = a.par /\ b.parity_mask = m /\ b.goodness = a.goodness /\ b.selected_n = a.selected_n
  BY <1>2 DEF IsFrame, SameSearch, SameWindow, SameRegions
<1> HIDE DEF b
<1>4. IsFrame(c) /\ SameSearch(b, c) /\ SameWindow(b, c) /\ SameRegions(b, c) /\ c.goodness = b.goodness /\ c.selected_n = b.selected_n /\ c.previous_move = x
  BY <1>3 DEF IsFrame, SameSearch, SameWindow, SameRegions
<1> HIDE DEF c
<1>5. /\ IsFrame(g) /\ SameSearch(c, g) /\ SameWindow(c, g) /\ SameRegions(c, g) /\ g.goodness = c.goodness /\ g.selected_n = c.selected_n
      /\ g.previous_move = c.previous_move /\ g.current_move = y
  BY <1>1, <1>4 DEF IsFrame, SameSearch, SameWindow, SameRegions
<1>6. IsFrame(g) /\ SameSearch(f, g) /\ SameWindow(f, g) /\ g.par = p /\ g.parity_mask = m
      /\ g.previous_move = x /\ g.current_move = y /\ g.goodness = f.goodness
      /\ g.selected_n = f.selected_n
  BY <1>2, <1>3, <1>4, <1>5 DEF SameSearch, SameWindow, SameRegions
<1> QED
  BY <1>6

(* A node with another value. *)
LEMMA NodeNegated ==
  ASSUME NEW n, n = [value |-> n.value, square |-> n.square], NEW v,
         NEW k, k = [n EXCEPT !.value = v]
  PROVE  k = [value |-> k.value, square |-> k.square] /\ k.square = n.square
OBVIOUS

(* The node before the next one is the one we come from. *)
LEMMA LinksBack ==
  ASSUME NEW E, E \subseteq OnBoardIndexes, NEW x \in {em_head} \cup E, Following(E, x) # Nil
  PROVE  Following(E, x) \in E /\ Preceding(E, Following(E, x)) = x
<1> DEFINE n == Following(E, x)
<1>1. /\ \A z \in {em_head} \cup E : z \in Nodes /\ Rank(z) \in Nat /\ z # Nil
      /\ x \in Nodes
  BY RankOfNode DEF Nodes
<1>2. n \in E /\ Rank(n) < Rank(x) /\ \A z \in E : Rank(z) < Rank(x) => Rank(z) <= Rank(n)
  BY <1>1, FollowingIsNext DEF IsNext
<1> HIDE DEF n
<1>3. IsLast(E, n, x)
  <2> SUFFICES ASSUME NEW z \in E \cup {em_head}, Rank(z) > Rank(n) PROVE Rank(x) <= Rank(z)
    BY <1>2, <1>1 DEF IsLast
  <2>1. CASE z \in E
    BY <2>1, <1>1, <1>2
  <2>2. CASE z = em_head
    <3>1. Rank(x) <= Rank(em_head)
      BY <1>1, RankOfNode
    <3> QED
      BY <2>2, <3>1
  <2> QED
    BY <2>1, <2>2
<1>4. Preceding(E, n) = x
  BY <1>1, <1>2, <1>3, PrecedingIsLast
<1> QED
  BY <1>2, <1>4 DEF n

-----------------------------------------------------------------------------
(* What the searches share, at one moment. *)
Snapshot(b, s, p, r, f) == [board |-> b, succ |-> s, pred |-> p, parity |-> r, stack |-> f]

SuccFollows(next, E) == \A x \in {em_head} \cup E : next[x] = Following(E, x)
PredPrecedes(last, E) == \A x \in {em_head} \cup E : last[x] = Preceding(E, x)

Exact(s) ==
  /\ s = Snapshot(s.board, s.succ, s.pred, s.parity, s.stack)
  /\ BoardType(s.board)
  /\ s.succ \in [Nodes -> Nodes \cup {Nil}] /\ s.pred \in [Nodes -> Nodes \cup {Nil}]
  /\ s.stack \in Seq(OnBoardIndexes)
  /\ SuccFollows(s.succ, EmptySquares(s.board))

(* What an activation knows of it. *)
BoardKnown(s, f, id, ff) ==
  /\ f.fn \in {"fastest_first", "parity", "no_parity"} /\ f.color \in {0, 2}
  /\ f.empties = Count(s.board, IFES_EMPTY)
  /\ f.discdiff = Count(s.board, f.color) - Count(s.board, opponent_color(f.color))
  /\ f.fn = "fastest_first" => PredPrecedes(s.pred, EmptySquares(s.board))
  /\ f.fn # "no_parity" => s.parity = OddRegions(s.board, id)
  /\ f.fn = "parity" => f.empties <= ff
IsNode(n) == n = [value |-> n.value, square |-> n.square] /\ n.square \in Nat
InLoop(f, b) ==
  /\ f.current_move # Nil =>
       f.current_move \in EmptySquares(b) /\ f.previous_move = Preceding(EmptySquares(b), f.current_move)
  /\ DOMAIN f.goodness \subseteq Moves(b, f.color)
  /\ IsNode(f.selected_n)
Knows(s, f, id, ff) == IsFrame(f) /\ BoardKnown(s, f, id, ff) /\ InLoop(f, s.board)

(* What an activation knows of the board rests on what its loop leaves     *)
(* alone.                                                                  *)
LEMMA KnownStill ==
  ASSUME NEW s, NEW f, NEW g, NEW id, NEW ff, BoardKnown(s, f, id, ff), SameSearch(f, g)
  PROVE  BoardKnown(s, g, id, ff)
BY DEF BoardKnown, SameSearch

(* An empty square is a node, and neither em_head nor the end of the list. *)
LEMMA EmptyOnBoard ==
  ASSUME NEW b, NEW x \in EmptySquares(b)
  PROVE  x \in OnBoardIndexes /\ x \in Nat /\ x # Nil /\ x # em_head /\ x \in Nodes
BY OnBoardRange, RankOfNode DEF EmptySquares, Nodes

(* The loop goes on to the next square. *)
LEMMA AdvancedKnows ==
  ASSUME NEW s, Exact(s), NEW f, NEW id, NEW ff, Knows(s, f, id, ff), f.current_move # Nil
  PROVE  Knows(s, AdvancedTo(f, f.current_move, s.succ[f.current_move]), id, ff)
<1> DEFINE E == EmptySquares(s.board)
           g == AdvancedTo(f, f.current_move, s.succ[f.current_move])
<1>1. f.current_move \in E /\ E \subseteq OnBoardIndexes
  BY DEF Knows, InLoop, EmptySquares
<1>2. s.succ[f.current_move] = Following(E, f.current_move)
  BY <1>1 DEF Exact, SuccFollows
<1>3. /\ IsFrame(g) /\ SameSearch(f, g) /\ g.previous_move = f.current_move
      /\ g.current_move = Following(E, f.current_move)
      /\ g.goodness = f.goodness /\ g.selected_n = f.selected_n
  <2>1. IsFrame(f)
    BY DEF Knows
  <2> HIDE DEF E
  <2> QED
    BY <1>2, <2>1, FrameAdvanced
<1> HIDE DEF g, E
<1>4. g.current_move # Nil => g.current_move \in E /\ g.previous_move = Preceding(E, g.current_move)
  BY <1>1, <1>3, LinksBack
<1>5. InLoop(g, s.board)
  BY <1>3, <1>4 DEF Knows, InLoop, SameSearch, E
<1>6. BoardKnown(s, g, id, ff)
  BY <1>3, KnownStill DEF Knows
<1>7. Knows(s, g, id, ff)
  BY <1>3, <1>5, <1>6 DEF Knows, E
<1> QED
  BY <1>7 DEF g

(* A move has its value: the loop goes on, or it is given back. *)
LEMMA EvaluatedKnows ==
  ASSUME NEW s, Exact(s), NEW f, NEW id, NEW ff, Knows(s, f, id, ff),
         NEW sq \in EmptySquares(s.board), f.fn # "fastest_first" => f.current_move = sq, NEW value
  PROVE  LET g == Better(f, value, sq)
         IN  /\ IsNode(g.selected_n)
             /\ Knows(s, IF f.fn = "fastest_first"
                         THEN [g EXCEPT !.goodness = Restrict(g.goodness, DOMAIN f.goodness \ {sq})]
                         ELSE AdvancedTo(g, g.current_move, s.succ[g.current_move]),
                      id, ff)
<1> DEFINE g == Better(f, value, sq)
           E == EmptySquares(s.board)
<1>1. sq \in Nat /\ sq # Nil
  BY EmptyOnBoard
<1>2. /\ IsFrame(g) /\ SameSearch(f, g)
      /\ g.previous_move = f.previous_move /\ g.current_move = f.current_move /\ g.goodness = f.goodness
      /\ g.selected_n = f.selected_n \/ g.selected_n = [value |-> value, square |-> sq]
  BY <1>1, FrameBetter DEF Knows
<1> HIDE DEF g
<1>3. IsNode(g.selected_n)
  <2>1. CASE g.selected_n = f.selected_n
    BY <2>1 DEF Knows, InLoop
  <2>2. CASE g.selected_n = [value |-> value, square |-> sq]
    BY <2>2, <1>1 DEF IsNode
  <2> QED
    BY <1>2, <2>1, <2>2
<1>4. Knows(s, g, id, ff)
  <2>1. BoardKnown(s, g, id, ff)
    BY <1>2, KnownStill DEF Knows
  <2>2. InLoop(g, s.board)
    BY <1>2, <1>3 DEF Knows, InLoop, SameSearch
  <2> QED
    BY <1>2, <2>1, <2>2 DEF Knows
<1>5. CASE f.fn = "fastest_first"
  <2> DEFINE r == Restrict(g.goodness, DOMAIN f.goodness \ {sq})
             d == [g EXCEPT !.goodness = r]
  <2>1. DOMAIN r \subseteq DOMAIN g.goodness
    BY <1>2 DEF Restrict
  <2> HIDE DEF r
  <2>2. /\ IsFrame(d) /\ SameSearch(g, d)
        /\ d.previous_move = g.previous_move /\ d.current_move = g.current_move /\ d.goodness = r
        /\ d.selected_n = g.selected_n
    BY <1>2, FrameRated
  <2> HIDE DEF d
  <2>3. InLoop(d, s.board)
    BY <1>4, <2>1, <2>2 DEF Knows, InLoop, SameSearch
  <2>4. BoardKnown(s, d, id, ff)
    BY <1>4, <2>2, KnownStill DEF Knows
  <2>5. Knows(s, d, id, ff)
    BY <2>2, <2>3, <2>4 DEF Knows
  <2> QED
    BY <1>3, <1>5, <2>5 DEF g, d, r
<1>6. CASE f.fn # "fastest_first"
  <2>1. g.current_move # Nil
    BY <1>1, <1>2, <1>6
  <2>2. Knows(s, AdvancedTo(g, g.current_move, s.succ[g.current_move]), id, ff)
    BY <1>4, <2>1, AdvancedKnows
  <2> QED
    BY <1>3, <1>6, <2>2 DEF g
<1> QED
  BY <1>5, <1>6

(* A search that starts. *)
LEMMA StartedKnows ==
  ASSUME NEW s, Exact(s), NEW fn, NEW arguments, NEW id, NEW ff,
         BoardKnown(s, [fn |-> fn, color |-> arguments.color, empties |-> arguments.empties,
                        discdiff |-> arguments.discdiff], id, ff)
  PROVE  Knows(s, Activation(fn, arguments, s.succ[em_head], s.parity), id, ff)
<1> DEFINE E == EmptySquares(s.board)
           a == [fn |-> fn, color |-> arguments.color, empties |-> arguments.empties,
                 discdiff |-> arguments.discdiff]
           f == Activation(fn, arguments, s.succ[em_head], s.parity)
<1>1. /\ IsFrame(f) /\ SameSearch(a, f) /\ f.previous_move = em_head /\ f.current_move = s.succ[em_head]
      /\ f.goodness = << >> /\ f.selected_n = [value |-> -infinity, square |-> 0]
  BY DEF Activation, IsFrame, SameSearch
<1>2. BoardKnown(s, f, id, ff)
  <2> HIDE DEF f
  <2>1. BoardKnown(s, a, id, ff)
    OBVIOUS
  <2> HIDE DEF a
  <2> QED
    BY <1>1, <2>1, KnownStill
<1> HIDE DEF f, a
<1>3. E \subseteq OnBoardIndexes /\ s.succ[em_head] = Following(E, em_head)
  BY DEF Exact, SuccFollows, EmptySquares
<1> HIDE DEF E
<1>4. f.current_move # Nil => f.current_move \in E /\ f.previous_move = Preceding(E, f.current_move)
  BY <1>1, <1>3, LinksBack
<1>5. DOMAIN << >> = {}
  OBVIOUS
<1>6. InLoop(f, s.board)
  BY <1>1, <1>4, <1>5 DEF InLoop, IsNode, E
<1> QED
  BY <1>1, <1>2, <1>6 DEF Knows, f, E

(* The activation waits for the value of a move, or of its pass. *)
Waits(s, f) ==
  \/ f.flip_count = 0
  \/ /\ f.move_square \in EmptySquares(s.board)
     /\ f.flip_count = Len(flips(s.board, f.move_square, f.color)) /\ f.flip_count \in Nat \ {0}
     /\ f.fn # "fastest_first" => f.current_move = f.move_square

NodeBefore(s, f) == IF f.fn = "fastest_first" THEN s.pred[f.move_square] ELSE f.previous_move

(* What the searches share while it waits. *)
Moved(s, f, id) ==
  IF f.flip_count = 0 THEN s
  ELSE LET sq == f.move_square
           turned == flips(s.board, sq, f.color)
       IN  Snapshot(Placed(s.board, sq, turned, f.color),
                    [s.succ EXCEPT ![NodeBefore(s, f)] = s.succ[sq]],
                    IF f.fn = "fastest_first" /\ s.succ[sq] # Nil
                    THEN [s.pred EXCEPT ![s.succ[sq]] = s.pred[sq]] ELSE s.pred,
                    IF f.fn = "no_parity" THEN s.parity ELSE SymDiff(s.parity, {id[sq]}),
                    s.stack \o turned)

(* The move sq is on the board, and can be taken back. *)
MadeMove(s, f, id, t) ==
  LET sq == f.move_square
      turned == {t.stack[i] : i \in Len(t.stack) - f.flip_count + 1 .. Len(t.stack)}
      next == s.succ[sq]
  IN  /\ PlacedCorrectly(s.board, sq, flips(s.board, sq, f.color), f.color, t.board)
      /\ t.succ[sq] = next /\ next # sq
      /\ f.fn = "fastest_first" => PredPrecedes(t.pred, EmptySquares(t.board))
      /\ f.fn # "no_parity" => t.parity = OddRegions(t.board, id)
      /\ [i \in Indexes |-> IF i = sq THEN IFES_EMPTY
                            ELSE IF i \in turned THEN opponent_color(f.color) ELSE t.board[i]] = s.board
      /\ SubSeq(t.stack, 1, Len(t.stack) - f.flip_count) = s.stack
      /\ (IF f.fn = "no_parity" THEN t.parity ELSE SymDiff(t.parity, {id[sq]})) = s.parity
      /\ [t.succ EXCEPT ![IF f.fn = "fastest_first" THEN t.pred[sq] ELSE f.previous_move] = sq] = s.succ
      /\ (IF f.fn = "fastest_first" /\ t.succ[sq] # Nil
          THEN [t.pred EXCEPT ![t.succ[sq]] = sq] ELSE t.pred) = s.pred

(* The last n squares of stack are those of squares, the others are rest. *)
TakenOff(stack, n, rest, squares) ==
  /\ SubSeq(stack, 1, Len(stack) - n) = rest
  /\ {stack[i] : i \in Len(stack) - n + 1 .. Len(stack)} = squares

(* What was pushed on a stack is what is taken off. *)
LEMMA StackTaken ==
  ASSUME NEW S, NEW s \in Seq(S), NEW t \in Seq(S)
  PROVE  TakenOff(s \o t, Len(t), s, ToSet(t))
<1>1. Len(s) \in Nat /\ Len(t) \in Nat /\ Len(s \o t) = Len(s) + Len(t) /\ s \o t \in Seq(S)
  OBVIOUS
<1> PICK m, n \in Nat : m = Len(s) /\ n = Len(t)
  BY <1>1
<1>2. Len(s \o t) - Len(t) = m /\ Len(s \o t) = m + n
  BY <1>1
<1>3. \A i \in 1 .. m : (s \o t)[i] = s[i]
  BY <1>1
<1>4. \A i \in 1 .. n : (s \o t)[m + i] = t[i]
  BY <1>1
<1> DEFINE u == SubSeq(s \o t, 1, m)
<1>5. u = s
  <2>1. u \in Seq(S) /\ Len(u) = m /\ \A i \in 1 .. m : u[i] = (s \o t)[i]
    BY <1>1
  <2> HIDE DEF u
  <2>2. \A i \in 1 .. m : u[i] = s[i]
    BY <2>1, <1>3
  <2> QED
    BY <2>1, <2>2
<1>6. DOMAIN t = 1 .. n
  OBVIOUS
<1> DEFINE U == {(s \o t)[i] : i \in m + 1 .. m + n}
<1>7. \A x : x \in U => \E i \in 1 .. n : t[i] = x
  <2> TAKE x
  <2> HAVE x \in U
  <2>1. PICK i \in m + 1 .. m + n : x = (s \o t)[i]
    OBVIOUS
  <2>2. i - m \in 1 .. n /\ m + (i - m) = i
    OBVIOUS
  <2> QED
    BY <2>1, <2>2, <1>4
<1>8. \A i \in 1 .. n : t[i] \in U
  <2> TAKE i \in 1 .. n
  <2>1. m + i \in m + 1 .. m + n
    OBVIOUS
  <2> QED
    BY <2>1, <1>4
<1> HIDE DEF U
<1>9. U = ToSet(t)
  <2>1. \A x : x \in ToSet(t) <=> \E i \in 1 .. n : t[i] = x
    BY <1>6 DEF ToSet
  <2> QED
    BY <2>1, <1>7, <1>8
<1> QED
  BY <1>2, <1>5, <1>9 DEF U, TakenOff

(* The links that a move changes, with the ones that it does not read. *)
LEMMA LinksRestored ==
  ASSUME NEW next \in [Nodes -> Nodes \cup {Nil}], NEW x \in Nodes, NEW v, NEW w, next[x] = w
  PROVE  [[next EXCEPT ![x] = v] EXCEPT ![x] = w] = next
<1> DEFINE a == [next EXCEPT ![x] = v]
           b == [a EXCEPT ![x] = w]
<1>1. a = [y \in Nodes |-> IF y = x THEN v ELSE next[y]]
  OBVIOUS
<1> HIDE DEF a
<1>2. b = [y \in Nodes |-> IF y = x THEN w ELSE next[y]]
  BY <1>1
<1>3. next = [y \in Nodes |-> next[y]]
  OBVIOUS
<1> HIDE DEF b
<1>4. b = next
  BY <1>2, <1>3
<1> QED
  BY <1>4 DEF a, b

(* Both parts of a stack are lists of squares. *)
LEMMA AppendedSequences ==
  ASSUME NEW S, NEW s \in Seq(S), NEW t \in Seq(S)
  PROVE  s \o t \in Seq(S)
OBVIOUS

(* A move leaves the list exact, and is taken back without a trace. *)
LEMMA MoveMade ==
  ASSUME NEW s, Exact(s), NEW f, NEW id, NEW ff, Knows(s, f, id, ff), Waits(s, f), f.flip_count # 0
  PROVE  Exact(Moved(s, f, id)) /\ MadeMove(s, f, id, Moved(s, f, id))
<1> DEFINE sq == f.move_square
           E == EmptySquares(s.board)
<1> PICK turned : turned = flips(s.board, sq, f.color)
  OBVIOUS
<1> PICK t : t = Moved(s, f, id)
  OBVIOUS
<1> PICK p : p = NodeBefore(s, f)
  OBVIOUS
<1> PICK n : n = s.succ[sq]
  OBVIOUS
<1>1. /\ sq \in E /\ E \subseteq OnBoardIndexes /\ sq \in OnBoardIndexes /\ sq \in Nodes
      /\ f.color \in {0, 2} /\ f.flip_count = Len(turned)
      /\ BoardType(s.board) /\ SuccFollows(s.succ, E)
      /\ f.fn = "fastest_first" => PredPrecedes(s.pred, E)
      /\ f.fn # "no_parity" => s.parity = OddRegions(s.board, id)
  BY EmptyOnBoard DEF Waits, Knows, BoardKnown, Exact, EmptySquares
<1>2. /\ s.succ \in [Nodes -> Nodes \cup {Nil}] /\ s.pred \in [Nodes -> Nodes \cup {Nil}]
      /\ s.stack \in Seq(OnBoardIndexes)
  BY DEF Exact
<1>3. p = Preceding(E, sq)
  <2>1. CASE f.fn = "fastest_first"
    BY <2>1, <1>1 DEF NodeBefore, PredPrecedes
  <2>2. CASE f.fn # "fastest_first"
    <3>1. f.current_move = sq /\ sq # Nil
      BY <2>2, <1>1, EmptyOnBoard DEF Waits
    <3>2. f.previous_move = Preceding(E, sq)
      BY <3>1 DEF Knows, InLoop
    <3> QED
      BY <2>2, <3>2 DEF NodeBefore
  <2> QED
    BY <2>1, <2>2
<1>4. n = Following(E, sq)
  BY <1>1 DEF SuccFollows
<1>5. TurnedDiscs(turned, s.board, f.color)
  BY <1>1, TurnedDiscsOfMove
<1> PICK b : b = Placed(s.board, sq, turned, f.color)
  OBVIOUS
<1>6. PlacedCorrectly(s.board, sq, turned, f.color, b)
  BY <1>1, <1>5, PlacedBoard
<1>7. t = Snapshot(t.board, t.succ, t.pred, t.parity, t.stack)
  BY DEF Moved, Snapshot
<1>8. t.board = b
  BY DEF Moved, Snapshot
<1>9. t.succ = [s.succ EXCEPT ![p] = n]
  BY DEF Moved, Snapshot
<1>10. t.pred = IF f.fn = "fastest_first" /\ n # Nil THEN [s.pred EXCEPT ![n] = s.pred[sq]] ELSE s.pred
  BY DEF Moved, Snapshot
<1>11. t.parity = IF f.fn = "no_parity" THEN s.parity ELSE SymDiff(s.parity, {id[sq]})
  BY DEF Moved, Snapshot
<1>12. t.stack = s.stack \o turned
  BY DEF Moved, Snapshot
<1>13. LinksAround(E, sq, p, n) /\ LinksWithout(E, sq, p, n)
  BY <1>1, <1>3, <1>4, Unlinked
<1>14. /\ p \in {em_head} \cup (E \ {sq}) /\ p \in Nodes /\ p # sq
       /\ s.succ[p] = sq /\ n # sq
       /\ n # Nil => n \in E \ {sq} /\ Preceding(E, n) = sq
  <2>1. \A z \in E : z \in Nodes /\ z # em_head
    BY EmptyOnBoard
  <2>2. em_head \in Nodes
    BY DEF Nodes
  <2> QED
    BY <2>1, <2>2, <1>1, <1>13 DEF LinksAround, SuccFollows
<1>15. n \in Nodes \cup {Nil}
  BY <1>1, <1>2
<1>16. EmptySquares(t.board) = E \ {sq} /\ BoardType(t.board)
  BY <1>6, <1>8 DEF PlacedCorrectly
<1>17. t.succ \in [Nodes -> Nodes \cup {Nil}] /\ t.pred \in [Nodes -> Nodes \cup {Nil}]
  <2>1. [s.succ EXCEPT ![p] = n] \in [Nodes -> Nodes \cup {Nil}]
    BY <1>2, <1>15
  <2>2. [s.pred EXCEPT ![n] = s.pred[sq]] \in [Nodes -> Nodes \cup {Nil}]
    BY <1>1, <1>2
  <2>3. t.succ \in [Nodes -> Nodes \cup {Nil}]
    BY <2>1, <1>9
  <2>4. t.pred = [s.pred EXCEPT ![n] = s.pred[sq]] \/ t.pred = s.pred
    BY <1>10
  <2>5. t.pred \in [Nodes -> Nodes \cup {Nil}]
    BY <2>2, <2>4, <1>2
  <2> QED
    BY <2>3, <2>5
<1>18. t.stack \in Seq(OnBoardIndexes)
  <2>1. turned \in Seq(OnBoardIndexes) /\ s.stack \in Seq(OnBoardIndexes)
    BY <1>2, <1>5 DEF TurnedDiscs
  <2>2. t.stack = s.stack \o turned
    BY <1>12
  <2> QED
    BY <2>1, <2>2, AppendedSequences
<1>19. \A x \in Nodes : t.succ[x] = IF x = p THEN n ELSE s.succ[x]
  BY <1>2, <1>9
<1>20. SuccFollows(t.succ, E \ {sq})
  <2> SUFFICES ASSUME NEW x \in {em_head} \cup (E \ {sq}) PROVE t.succ[x] = Following(E \ {sq}, x)
    BY DEF SuccFollows
  <2>1. x \in Nodes /\ s.succ[x] = Following(E, x)
    BY <1>1, EmptyOnBoard DEF SuccFollows, Nodes
  <2> QED
    BY <2>1, <1>13, <1>19 DEF LinksWithout
<1>21. Exact(t)
  BY <1>7, <1>16, <1>17, <1>18, <1>20 DEF Exact
<1>22. ASSUME f.fn = "fastest_first"
       PROVE  /\ PredPrecedes(t.pred, E \ {sq}) /\ t.pred[sq] = p
              /\ \A x \in Nodes : t.pred[x] = IF x = n THEN p ELSE s.pred[x]
  <2>1. p = s.pred[sq]
    BY <1>22 DEF NodeBefore
  <2>2. \A x \in Nodes : t.pred[x] = IF x = n THEN p ELSE s.pred[x]
    <3>1. \A x \in Nodes : x # Nil
      BY RankOfNode
    <3> QED
      BY <3>1, <2>1, <1>2, <1>10, <1>22
  <2>3. ASSUME NEW x \in {em_head} \cup (E \ {sq}) PROVE t.pred[x] = Preceding(E \ {sq}, x)
    <3>1. x \in Nodes /\ s.pred[x] = Preceding(E, x)
      BY <1>1, <1>22, EmptyOnBoard DEF PredPrecedes, Nodes
    <3> QED
      BY <3>1, <2>2, <1>13 DEF LinksWithout
  <2> QED
    BY <2>1, <2>2, <2>3, <1>1, <1>14 DEF PredPrecedes
<1>23. f.fn # "no_parity" => t.parity = OddRegions(t.board, id) /\ SymDiff(t.parity, {id[sq]}) = s.parity
  <2> SUFFICES ASSUME f.fn # "no_parity"
               PROVE  t.parity = OddRegions(t.board, id) /\ SymDiff(t.parity, {id[sq]}) = s.parity
    OBVIOUS
  <2>1. s.parity = OddRegions(s.board, id) /\ t.parity = SymDiff(s.parity, {id[sq]})
    BY <1>1, <1>11
  <2>2. Toggles(s.board, t.board, id, id[sq])
    <3>1. EmptySquares(t.board) = EmptySquares(s.board) \ {sq} /\ sq \in EmptySquares(s.board)
      BY <1>1, <1>16
    <3> QED
      BY <3>1, OddRegionsWithout
  <2> QED
    BY <2>1, <2>2 DEF Toggles
<1>24. /\ SubSeq(t.stack, 1, Len(t.stack) - f.flip_count) = s.stack
       /\ {t.stack[i] : i \in Len(t.stack) - f.flip_count + 1 .. Len(t.stack)} = ToSet(turned)
  <2>1. turned \in Seq(OnBoardIndexes) /\ s.stack \in Seq(OnBoardIndexes)
    BY <1>2, <1>5 DEF TurnedDiscs
  <2> PICK u : u = s.stack
    OBVIOUS
  <2>2. TakenOff(u \o turned, Len(turned), u, ToSet(turned))
    BY <2>1, StackTaken
  <2>3. t.stack = u \o turned /\ f.flip_count = Len(turned)
    BY <1>1, <1>12
  <2>4. TakenOff(t.stack, f.flip_count, s.stack, ToSet(turned))
    BY <2>2, <2>3
  <2> QED
    BY <2>4 DEF TakenOff
<1>25. [t.succ EXCEPT ![IF f.fn = "fastest_first" THEN t.pred[sq] ELSE f.previous_move] = sq] = s.succ
  <2>1. (IF f.fn = "fastest_first" THEN t.pred[sq] ELSE f.previous_move) = p
    BY <1>22 DEF NodeBefore
  <2>2. [[s.succ EXCEPT ![p] = n] EXCEPT ![p] = sq] = s.succ
    BY <1>2, <1>14, LinksRestored
  <2> QED
    BY <2>1, <2>2, <1>9
<1>26. t.succ[sq] = n
  BY <1>1, <1>14, <1>19
<1>27. (IF f.fn = "fastest_first" /\ t.succ[sq] # Nil THEN [t.pred EXCEPT ![t.succ[sq]] = sq] ELSE t.pred) = s.pred
  <2>1. CASE f.fn = "fastest_first" /\ n # Nil
    <3>1. n \in E \ {sq} /\ n \in Nodes
      BY <2>1, <1>14, EmptyOnBoard
    <3>2. s.pred[n] = sq
      BY <2>1, <3>1, <1>1, <1>14 DEF PredPrecedes
    <3>3. [[s.pred EXCEPT ![n] = s.pred[sq]] EXCEPT ![n] = sq] = s.pred
      BY <3>1, <3>2, <1>2, LinksRestored
    <3> QED
      BY <2>1, <3>3, <1>10, <1>26
  <2>2. CASE ~(f.fn = "fastest_first" /\ n # Nil)
    BY <2>2, <1>10, <1>26
  <2> QED
    BY <2>1, <2>2
<1>28. [i \in Indexes |-> IF i = sq THEN IFES_EMPTY
                          ELSE IF i \in {t.stack[j] : j \in Len(t.stack) - f.flip_count + 1 .. Len(t.stack)}
                          THEN opponent_color(f.color) ELSE t.board[i]] = s.board
  BY <1>6, <1>8, <1>24 DEF PlacedCorrectly
<1>29. f.fn = "fastest_first" => PredPrecedes(t.pred, EmptySquares(t.board))
  BY <1>16, <1>22
<1>30. (IF f.fn = "no_parity" THEN t.parity ELSE SymDiff(t.parity, {id[sq]})) = s.parity
  BY <1>11, <1>23
<1>31. MadeMove(s, f, id, t)
  BY <1>6, <1>8, <1>14, <1>23, <1>24, <1>25, <1>26, <1>27, <1>28, <1>29, <1>30 DEF MadeMove
<1> QED
  BY <1>21, <1>31

-----------------------------------------------------------------------------
(* What an activation knows of the value of its position.                  *)

(* The moves that it has searched.  Squares with a better rank than the    *)
(* current one have been passed, in the regions whose turn it is, and      *)
(* those that fastest_first_end_solve has rated wait for its second loop.  *)
Passed(f, x) == f.current_move # Nil => Rank(x) > Rank(f.current_move)
Done(f, x, id) ==
  IF f.fn # "parity" THEN Passed(f, x)
  ELSE IF f.par = 1 THEN id[x] \in f.parity_mask /\ Passed(f, x)
  ELSE id[x] \in f.parity_mask => Passed(f, x)
MovesRated(f) == IF f.fn = "fastest_first" THEN DOMAIN f.goodness ELSE {}
Searched(f, b, id) == {x \in Moves(b, f.color) \ MovesRated(f) : Done(f, x, id)}

(* The window that it was called with is from low to high.                 *)
Window(f, low, high) ==
  /\ low \in Scores /\ high \in Scores
  /\ f.beta = high /\ f.alpha \in Scores /\ low <= f.alpha /\ f.alpha < f.beta
  /\ f.selected_n.value \in Scores \/ f.selected_n.value = -infinity
  /\ f.selected_n.value <= f.alpha
  /\ f.alpha = low \/ f.alpha = f.selected_n.value
BestMove(b, f, low) ==
  /\ f.selected_n.value = -infinity => f.selected_n.square = 0
  /\ f.selected_n.value # -infinity => f.selected_n.square \in Moves(b, f.color)
  /\ f.selected_n.value # -infinity /\ f.selected_n.value > low =>
       MoveValue(b, f.selected_n.square, f.color) >= f.selected_n.value
SearchedBounded(b, f, id) == \A x \in Searched(f, b, id) : MoveValue(b, x, f.color) <= f.selected_n.value
PassedBefore(b, f) == f.pass_before => Moves(b, opponent_color(f.color)) = {}
Valued(b, f, low, high, id) ==
  Window(f, low, high) /\ BestMove(b, f, low) /\ SearchedBounded(b, f, id) /\ PassedBefore(b, f)

(* While it waits for the value of its pass, it has no move. *)
Passing(b, f, low) == f.flip_count = 0 => Moves(b, f.color) = {} /\ f.alpha = low

(* The move of a node is one of the player, or the reply when he passes. *)
RightSquare(b, color, sq) ==
  LET other == opponent_color(color)
  IN  IF Moves(b, color) # {} THEN sq \in Moves(b, color) /\ MoveValue(b, sq, color) = TrueValue(b, color)
      ELSE IF Moves(b, other) # {} THEN sq \in Moves(b, other) /\ MoveValue(b, sq, other) = TrueValue(b, other)
      ELSE sq = 0

(* What a node says that was searched with the window from low to high.    *)
NodeValued(b, color, low, high, n) ==
  /\ n.value \in Scores
  /\ n.value < high => TrueValue(b, color) <= n.value
  /\ n.value > low => TrueValue(b, color) >= n.value
  /\ low = -BestScore /\ high = BestScore => RightSquare(b, color, n.square)

(* What a value says of a move that is worth m. *)
Bounds(value, m, alpha, beta) ==
  value \in Scores /\ m \in Scores /\ (value < beta => m <= value) /\ (value > alpha => m >= value)

(* Scores are numbers, and -infinity is less. *)
LEMMA ScoreRange ==
  /\ BestScore \in Nat /\ infinity \in Nat /\ -infinity \in Int /\ -infinity < -BestScore
  /\ -BestScore \in Scores /\ BestScore \in Scores /\ 0 \in Scores
  /\ \A x \in Scores : x \in Int /\ -x \in Scores /\ -(-x) = x /\ -infinity < x /\ -BestScore <= x /\ x <= BestScore
<1> PICK n \in Nat : n = BestScore
  BY SizeType DEF BestScore
<1>1. Scores = -n .. n /\ infinity = n + 1
  BY DEF Scores, infinity
<1> QED
  BY <1>1

(* Between a square and the next one in the list there is no other. *)
LEMMA PassedNext ==
  ASSUME NEW b, NEW f, NEW g, f.current_move \in EmptySquares(b),
         g.current_move = Following(EmptySquares(b), f.current_move),
         NEW x \in EmptySquares(b), Passed(g, x)
  PROVE  Passed(f, x) \/ x = f.current_move
<1> DEFINE E == EmptySquares(b)
           sq == f.current_move
           y == Following(E, sq)
<1>1. E \subseteq OnBoardIndexes /\ sq \in E /\ x \in E /\ sq \in Nodes /\ x \in Nodes
  BY EmptyOnBoard DEF EmptySquares
<1>2. IsNext(E, sq, y)
  BY <1>1, FollowingIsNext
<1>3. Rank(x) \in Nat /\ Rank(sq) \in Nat /\ (Rank(x) = Rank(sq) => x = sq)
  BY <1>1, RankOfNode
<1>4. \A z \in E : Rank(z) \in Nat /\ z # Nil
  BY <1>1, RankOfSquare
<1> SUFFICES ASSUME Rank(x) < Rank(sq) PROVE FALSE
  BY <1>3 DEF Passed
<1> HIDE DEF E, y
<1>5. CASE y = Nil
  BY <1>1, <1>2, <1>4, <1>5 DEF IsNext
<1>6. CASE y # Nil
  <2>1. y \in E /\ Rank(x) <= Rank(y)
    BY <1>1, <1>2, <1>6 DEF IsNext
  <2>2. Rank(x) > Rank(y)
    BY <1>6 DEF Passed, y, E
  <2> QED
    BY <1>3, <1>4, <2>1, <2>2
<1> QED
  BY <1>5, <1>6

(* The loop searches no more than the square it leaves, if it was its turn. *)
LEMMA SearchedNext ==
  ASSUME NEW b, NEW f, NEW g, NEW id, SameSearch(f, g), SameRegions(f, g),
         f.current_move \in EmptySquares(b),
         g.current_move = Following(EmptySquares(b), f.current_move),
         MovesRated(f) \subseteq MovesRated(g),
         NEW x \in Searched(g, b, id)
  PROVE  x \in Searched(f, b, id)
           \/ (x = f.current_move /\ x \notin MovesRated(g) /\ (f.fn = "parity" => id[x] \in f.parity_mask))
<1>1. x \in Moves(b, f.color) /\ x \notin MovesRated(g) /\ x \notin MovesRated(f) /\ Done(g, x, id)
      /\ x \in EmptySquares(b)
  BY DEF Searched, SameSearch, Moves
<1>2. Passed(g, x) => Passed(f, x) \/ x = f.current_move
  BY <1>1, PassedNext
<1>3. g.fn = f.fn /\ g.par = f.par /\ g.parity_mask = f.parity_mask
  BY DEF SameSearch, SameRegions
<1>4. Done(f, x, id) \/ (x = f.current_move /\ (f.fn = "parity" => id[x] \in f.parity_mask))
  BY <1>1, <1>2, <1>3 DEF Done
<1> QED
  BY <1>1, <1>4 DEF Searched

(* A loop that starts at the head of the list has passed no square. *)
LEMMA NothingPassed ==
  ASSUME NEW b, NEW f, f.current_move = Following(EmptySquares(b), em_head), NEW x \in EmptySquares(b)
  PROVE  ~Passed(f, x)
<1> DEFINE E == EmptySquares(b)
           y == Following(E, em_head)
<1>1. E \subseteq OnBoardIndexes /\ em_head \in Nodes
  BY DEF EmptySquares, Nodes
<1>2. IsNext(E, em_head, y)
  BY <1>1, FollowingIsNext
<1>3. /\ \A z \in E : Rank(z) \in Nat /\ z # Nil /\ Rank(z) < Rank(em_head)
      /\ Rank(em_head) \in Nat /\ x \in E
  BY <1>1, RankOfSquare, RankOfNode
<1> HIDE DEF E, y
<1>4. y \in E /\ Rank(x) <= Rank(y)
  BY <1>2, <1>3 DEF IsNext
<1>5. y # Nil /\ ~(Rank(x) > Rank(y))
  BY <1>3, <1>4
<1> QED
  BY <1>5 DEF Passed, y, E

(* What the window and the best move say of another activation that has    *)
(* the same.                                                               *)
LEMMA ValuedStill ==
  ASSUME NEW b, NEW f, NEW g, NEW low, NEW high, NEW id, Valued(b, f, low, high, id),
         SameSearch(f, g), SameWindow(f, g), g.selected_n = f.selected_n, SearchedBounded(b, g, id)
  PROVE  Valued(b, g, low, high, id)
<1>1. Window(g, low, high)
  BY DEF Valued, Window, SameWindow
<1>2. BestMove(b, g, low)
  BY DEF Valued, BestMove, SameSearch
<1>3. PassedBefore(b, g)
  BY DEF Valued, PassedBefore, SameSearch, SameWindow
<1> QED
  BY <1>1, <1>2, <1>3 DEF Valued

(* A square that is no move, or that waits for another turn, changes       *)
(* nothing; one that is rated waits too.                                   *)
LEMMA AdvancedValued ==
  ASSUME NEW b, NEW f, NEW g, NEW low, NEW high, NEW id, Valued(b, f, low, high, id),
         SameSearch(f, g), SameWindow(f, g), SameRegions(f, g), g.selected_n = f.selected_n,
         f.current_move \in EmptySquares(b),
         g.current_move = Following(EmptySquares(b), f.current_move),
         MovesRated(f) \subseteq MovesRated(g),
         \/ f.current_move \notin Moves(b, f.color)
         \/ f.current_move \in MovesRated(g)
         \/ f.fn = "parity" /\ id[f.current_move] \notin f.parity_mask
  PROVE  Valued(b, g, low, high, id)
<1>1. ASSUME NEW x \in Searched(g, b, id) PROVE MoveValue(b, x, g.color) <= g.selected_n.value
  <2>1. x \in Moves(b, f.color) /\ g.color = f.color
    BY DEF Searched, SameSearch
  <2>2. x \in Searched(f, b, id)
    BY <2>1, SearchedNext
  <2> QED
    BY <2>1, <2>2 DEF Valued, SearchedBounded
<1>2. SearchedBounded(b, g, id)
  BY <1>1 DEF SearchedBounded
<1> QED
  BY <1>2, ValuedStill

(* The odd regions are done, the even ones are not. *)
LEMMA EvenValued ==
  ASSUME NEW b, NEW f, NEW g, NEW low, NEW high, NEW id, Valued(b, f, low, high, id),
         SameSearch(f, g), SameWindow(f, g), g.selected_n = f.selected_n, g.goodness = f.goodness,
         f.fn = "parity", f.par = 1, f.current_move = Nil,
         g.par = 0, g.parity_mask = {id[sq] : sq \in OnBoardIndexes} \ f.parity_mask,
         g.current_move = Following(EmptySquares(b), em_head)
  PROVE  Valued(b, g, low, high, id)
<1>1. ASSUME NEW x \in Searched(g, b, id) PROVE MoveValue(b, x, g.color) <= g.selected_n.value
  <2>1. x \in Moves(b, f.color) /\ g.color = f.color /\ x \notin MovesRated(f) /\ Done(g, x, id)
        /\ g.fn = "parity" /\ x \in EmptySquares(b)
    BY DEF Searched, SameSearch, Moves, MovesRated
  <2>2. ~Passed(g, x)
    BY <2>1, NothingPassed
  <2>3. id[x] \notin g.parity_mask
    BY <2>1, <2>2 DEF Done
  <2>4. x \in OnBoardIndexes
    BY <2>1 DEF EmptySquares
  <2>5. id[x] \in f.parity_mask
    BY <2>3, <2>4
  <2>6. x \in Searched(f, b, id)
    BY <2>1, <2>5 DEF Searched, Done, Passed
  <2> QED
    BY <2>1, <2>6 DEF Valued, SearchedBounded
<1>2. SearchedBounded(b, g, id)
  BY <1>1 DEF SearchedBounded
<1> QED
  BY <1>2, ValuedStill

(* A search starts with the window of its caller turned round. *)
LEMMA StartedValued ==
  ASSUME NEW b, NEW fn, NEW a, NEW first, NEW parity, NEW id, NEW low \in Scores, NEW high \in Scores,
         low < high, a.alpha = low, a.beta = high,
         a.pass_before => Moves(b, opponent_color(a.color)) = {},
         first = Following(EmptySquares(b), em_head)
  PROVE  Valued(b, Activation(fn, a, first, parity), low, high, id)
<1> DEFINE f == Activation(fn, a, first, parity)
<1>1. /\ f.fn = fn /\ f.alpha = low /\ f.beta = high /\ f.color = a.color /\ f.pass_before = a.pass_before
      /\ f.current_move = first /\ f.par = 1 /\ f.goodness = << >>
      /\ f.selected_n.value = -infinity /\ f.selected_n.square = 0
  BY DEF Activation
<1> HIDE DEF f
<1>2. Window(f, low, high)
  <2>1. low \in Int /\ -infinity \in Int /\ -infinity < low
    BY ScoreRange
  <2>2. low <= low /\ -infinity <= low
    BY <2>1
  <2> HIDE DEF infinity
  <2> QED
    BY <1>1, <2>2 DEF Window
<1>3. BestMove(b, f, low)
  BY <1>1 DEF BestMove
<1>4. Searched(f, b, id) = {}
  <2> SUFFICES ASSUME NEW x \in Searched(f, b, id) PROVE FALSE
    OBVIOUS
  <2>1. x \in EmptySquares(b) /\ Done(f, x, id)
    BY DEF Searched, Moves
  <2>2. ~Passed(f, x)
    BY <1>1, <2>1, NothingPassed
  <2> QED
    BY <1>1, <2>1, <2>2 DEF Done
<1>5. SearchedBounded(b, f, id) /\ PassedBefore(b, f)
  BY <1>1, <1>4 DEF SearchedBounded, PassedBefore
<1>6. Valued(b, f, low, high, id)
  BY <1>2, <1>3, <1>5 DEF Valued
<1> QED
  BY <1>6 DEF f

(* The greater one of two numbers. *)
LEMMA MaxOfTwo ==
  ASSUME NEW x \in Int, NEW y \in Int
  PROVE  Max({x, y}) = IF x >= y THEN x ELSE y
<1>1. CASE x >= y
  <2>1. x \in {x, y} /\ \A z \in {x, y} : z <= x
    BY <1>1
  <2>2. Max({x, y}) = x
    BY <2>1, GreatestIsMax
  <2> QED
    BY <1>1, <2>2
<1>2. CASE ~(x >= y)
  <2>1. y \in {x, y} /\ \A z \in {x, y} : z <= y
    BY <1>2
  <2>2. Max({x, y}) = y
    BY <2>1, GreatestIsMax
  <2> QED
    BY <1>2, <2>2
<1> QED
  BY <1>1, <1>2

(* A move that does not cut off raises the best value, or was no better. *)
LEMMA GoesOnValued ==
  ASSUME NEW b, NEW f, IsFrame(f), NEW low, NEW high, NEW id, Valued(b, f, low, high, id),
         NEW sq \in Moves(b, f.color), sq \in Nat, NEW value,
         Bounds(value, MoveValue(b, sq, f.color), f.alpha, f.beta),
         NEW g, g = Better(f, value, sq), ~Cutoff(f, value)
  PROVE  /\ Window(g, low, high) /\ BestMove(b, g, low)
         /\ MoveValue(b, sq, f.color) <= g.selected_n.value
         /\ \A x \in Searched(f, b, id) : MoveValue(b, x, f.color) \in Int => MoveValue(b, x, f.color) <= g.selected_n.value
<1> DEFINE best == f.selected_n.value
           m == MoveValue(b, sq, f.color)
<1>1. /\ low \in Int /\ high \in Int /\ f.beta = high /\ f.alpha \in Int /\ low <= f.alpha /\ f.alpha < f.beta
      /\ best \in Int /\ best <= f.alpha /\ (f.alpha = low \/ f.alpha = best)
      /\ low \in Scores /\ high \in Scores /\ f.alpha \in Scores /\ (best \in Scores \/ best = -infinity)
  BY ScoreRange DEF Valued, Window
<1>2. /\ value \in Scores /\ value \in Int /\ m \in Int /\ (value < f.beta => m <= value)
      /\ (value > f.alpha => m >= value) /\ -infinity < value
  BY ScoreRange DEF Bounds
<1>3. g.beta = f.beta /\ g.color = f.color
  <2>1. SameSearch(f, Better(f, value, sq)) /\ Better(f, value, sq).beta = f.beta
    BY FrameBetter, ZenonT(60)
  <2> QED
    BY <2>1 DEF SameSearch
<1>4. /\ (value <= f.selected_n.value) => g = f
      /\ ~(value <= f.selected_n.value) =>
           g.selected_n = [value |-> value, square |-> sq] /\ g.alpha = Max({f.alpha, value})
  BY BetterCases
<1>5. \A x \in Searched(f, b, id) : MoveValue(b, x, f.color) <= best
  BY DEF Valued, SearchedBounded
<1> HIDE DEF best, m
<1>6. CASE value <= best
  <2>1. g = f
    BY <1>4, <1>6 DEF best
  <2>2. m <= best
    BY <1>1, <1>2, <1>6
  <2> QED
    BY <2>1, <2>2, <1>5 DEF Valued, best, m
<1>7. CASE ~(value <= best)
  <2>1. g.selected_n.value = value /\ g.selected_n.square = sq /\ g.alpha = Max({f.alpha, value})
    BY <1>4, <1>7 DEF best
  <2>2. g.alpha = IF f.alpha >= value THEN f.alpha ELSE value
    BY <2>1, <1>1, <1>2, MaxOfTwo
  <2>3. ~(value > f.alpha /\ value >= f.beta)
    BY <1>1, <1>2, <1>7 DEF Cutoff, best
  <2>4. value < f.beta /\ m <= value /\ best < value
    BY <1>1, <1>2, <1>7, <2>3
  <2>5. Window(g, low, high)
    <3>1. g.alpha \in Scores /\ g.alpha \in Int /\ low <= g.alpha /\ g.alpha < g.beta /\ value <= g.alpha
      BY <1>1, <1>2, <1>3, <2>2, <2>4
    <3>2. g.alpha = low \/ g.alpha = value
      BY <1>1, <1>2, <2>2, <2>4
    <3> QED
      BY <1>1, <1>2, <1>3, <2>1, <3>1, <3>2 DEF Window
  <2>6. value > low => m >= value
    BY <1>1, <1>2, <2>4
  <2>7. BestMove(b, g, low)
    <3>1. value # -infinity
      BY <1>2, ScoreRange
    <3> QED
      BY <1>3, <2>1, <2>6, <3>1 DEF BestMove, m
  <2>8. \A x \in Searched(f, b, id) : MoveValue(b, x, f.color) \in Int => MoveValue(b, x, f.color) <= value
    <3> TAKE x \in Searched(f, b, id)
    <3> PICK v : v = MoveValue(b, x, f.color)
      OBVIOUS
    <3>1. v <= best
      BY <1>5
    <3>2. v \in Int => v <= value
      BY <1>1, <1>2, <2>4, <3>1
    <3> QED
      BY <3>2
  <2> QED
    BY <2>1, <2>4, <2>5, <2>7, <2>8 DEF m
<1> QED
  BY <1>6, <1>7

(* A move that cuts off is as good as the window is high. *)
LEMMA CutoffValued ==
  ASSUME NEW b, BoardType(b), NEW f, IsFrame(f), f.color \in {0, 2},
         NEW low, NEW high, NEW id, Valued(b, f, low, high, id),
         NEW sq \in Moves(b, f.color), NEW value,
         Bounds(value, MoveValue(b, sq, f.color), f.alpha, f.beta), Cutoff(f, value)
  PROVE  NodeValued(b, f.color, low, high, Better(f, value, sq).selected_n)
<1> DEFINE m == MoveValue(b, sq, f.color)
           T == TrueValue(b, f.color)
<1>1. /\ low \in Int /\ high \in Int /\ f.beta = high /\ f.alpha \in Int /\ f.selected_n.value \in Int
  BY ScoreRange DEF Valued, Window
<1>2. /\ value \in Scores /\ value \in Int /\ m \in Int /\ (value > f.alpha => m >= value)
  BY ScoreRange DEF Bounds
<1>3. value > f.selected_n.value /\ value > f.alpha /\ value >= high
  BY <1>1 DEF Cutoff
<1>4. m <= T /\ T \in Scores /\ T \in Int
  BY BoardValue, ScoreRange DEF ValueFollows
<1> PICK g : g = Better(f, value, sq)
  OBVIOUS
<1> PICK n : n = g.selected_n
  OBVIOUS
<1>5. n.value = value /\ n.square = sq
  <2>1. ~(value <= f.selected_n.value)
    BY <1>1, <1>2, <1>3
  <2>2. /\ (value <= f.selected_n.value) => g = f
        /\ ~(value <= f.selected_n.value) =>
             g.selected_n = [value |-> value, square |-> sq] /\ g.alpha = Max({f.alpha, value})
    BY BetterCases
  <2> QED
    BY <2>1, <2>2
<1> HIDE DEF m, T
<1>6. ~(value < high) /\ T >= value
  BY <1>1, <1>2, <1>3, <1>4
<1>7. high = BestScore => m = T
  <2> SUFFICES ASSUME high = BestScore PROVE m = T
    OBVIOUS
  <2>1. T <= high
    BY <1>4, ScoreRange
  <2> QED
    BY <1>1, <1>2, <1>3, <1>4, <2>1
<1>8. high = BestScore => RightSquare(b, f.color, sq)
  BY <1>7 DEF RightSquare, m, T
<1>9. NodeValued(b, f.color, low, high, n)
  BY <1>2, <1>5, <1>6, <1>8 DEF NodeValued, T
<1> QED
  BY <1>9

(* When all moves have been searched, the best one is known. *)
LEMMA AllSearchedValued ==
  ASSUME NEW b, BoardType(b), NEW f, f.color \in {0, 2},
         NEW low, NEW high, NEW id, Valued(b, f, low, high, id),
         Searched(f, b, id) = Moves(b, f.color), f.selected_n.value # -infinity
  PROVE  NodeValued(b, f.color, low, high, f.selected_n)
<1> DEFINE T == TrueValue(b, f.color)
           best == f.selected_n.value
           m == MoveValue(b, f.selected_n.square, f.color)
<1>1. /\ low \in Int /\ best \in Scores /\ best \in Int /\ f.selected_n.square \in Moves(b, f.color)
      /\ (best > low => m >= best)
  BY ScoreRange DEF Valued, Window, BestMove
<1>2. /\ m \in Scores /\ m \in Int /\ m <= T /\ T \in Scores /\ T \in Int /\ Moves(b, f.color) # {}
      /\ \E x \in Moves(b, f.color) : MoveValue(b, x, f.color) = T
  BY <1>1, BoardValue, ScoreRange DEF ValueFollows
<1>3. T <= best
  BY <1>2 DEF Valued, SearchedBounded
<1> HIDE DEF T, best, m
<1>4. best > low => T >= best
  BY <1>1, <1>2
<1>5. low = -BestScore => m = T
  <2> SUFFICES ASSUME low = -BestScore PROVE m = T
    OBVIOUS
  <2>1. CASE best > low
    BY <1>1, <1>2, <1>3, <2>1
  <2>2. CASE ~(best > low)
    <3>1. low <= m /\ low <= T
      BY <1>2, ScoreRange
    <3> QED
      BY <1>1, <1>2, <1>3, <2>2, <3>1
  <2> QED
    BY <2>1, <2>2
<1>6. low = -BestScore => RightSquare(b, f.color, f.selected_n.square)
  BY <1>1, <1>2, <1>5 DEF RightSquare, m, T
<1> QED
  BY <1>1, <1>3, <1>4, <1>6 DEF NodeValued, T, best

(* A search that has found no move had none. *)
LEMMA NoMoveValued ==
  ASSUME NEW b, BoardType(b), NEW f, f.color \in {0, 2},
         NEW low, NEW high, NEW id, Valued(b, f, low, high, id),
         Searched(f, b, id) = Moves(b, f.color), f.selected_n.value = -infinity
  PROVE  Moves(b, f.color) = {} /\ f.alpha = low
<1>1. Moves(b, f.color) = {}
  <2> SUFFICES ASSUME NEW x \in Moves(b, f.color) PROVE FALSE
    OBVIOUS
  <2>1. MoveValue(b, x, f.color) <= -infinity
    BY DEF Valued, SearchedBounded
  <2>2. MoveValue(b, x, f.color) \in Scores
    BY BoardValue DEF ValueFollows
  <2> PICK v \in Scores : v = MoveValue(b, x, f.color)
    BY <2>2
  <2>3. v \in Int /\ -infinity < v /\ -infinity \in Int /\ v <= -infinity
    BY <2>1, ScoreRange
  <2> HIDE DEF infinity
  <2> QED
    BY <2>3
<1>2. f.alpha = low
  <2>1. f.alpha \in Scores /\ (f.alpha = low \/ f.alpha = -infinity)
    BY DEF Valued, Window
  <2>2. f.alpha # -infinity
    BY <2>1, ScoreRange
  <2> QED
    BY <2>1, <2>2
<1> QED
  BY <1>1, <1>2

(* The game is over. *)
LEMMA GameOverValued ==
  ASSUME NEW b, BoardType(b), NEW color \in {0, 2}, Moves(b, color) = {}, Moves(b, opponent_color(color)) = {},
         NEW low \in Scores, NEW high \in Scores, NEW n, n.square = 0,
         n.value = EndValue(Count(b, color) - Count(b, opponent_color(color)), Count(b, IFES_EMPTY))
  PROVE  NodeValued(b, color, low, high, n)
<1>1. n.value = TrueValue(b, color)
  BY GameOverValue
<1>2. n.value \in Scores /\ n.value \in Int
  BY <1>1, BoardValue, ScoreRange DEF ValueFollows
<1>3. n.value <= n.value /\ n.value >= n.value
  BY <1>2
<1>4. RightSquare(b, color, n.square)
  BY DEF RightSquare
<1> QED
  BY <1>1, <1>2, <1>3, <1>4 DEF NodeValued

(* The value of the opponent is the one of the player who passes. *)
LEMMA PassValued ==
  ASSUME NEW b, BoardType(b), NEW color \in {0, 2}, Moves(b, color) = {},
         NEW low \in Scores, NEW high \in Scores,
         NEW n, NodeValued(b, opponent_color(color), -high, -low, n),
         NEW k, k.value = -n.value, k.square = n.square
  PROVE  NodeValued(b, color, low, high, k)
<1> DEFINE other == opponent_color(color)
           T == TrueValue(b, color)
           U == TrueValue(b, other)
<1>1. other \in {0, 2} /\ opponent_color(other) = color
  BY DEF opponent_color
<1>2. T = -U /\ U \in Scores
  BY <1>1, BoardValue DEF ValueFollows
<1>3. /\ n.value \in Scores /\ (n.value < -low => U <= n.value) /\ (n.value > -high => U >= n.value)
      /\ (-high = -BestScore /\ -low = BestScore => RightSquare(b, other, n.square))
  BY DEF NodeValued
<1>4. /\ U \in Int /\ n.value \in Int /\ low \in Int /\ high \in Int /\ k.value \in Scores
      /\ -(-BestScore) = BestScore
  BY <1>2, <1>3, ScoreRange
<1> HIDE DEF T, U, other
<1>5. (k.value < high => T <= k.value) /\ (k.value > low => T >= k.value)
  BY <1>2, <1>3, <1>4
<1>6. low = -BestScore /\ high = BestScore => RightSquare(b, color, k.square)
  BY <1>1, <1>3, <1>4 DEF RightSquare, other
<1> QED
  BY <1>4, <1>5, <1>6 DEF NodeValued, T

(* What the node of the search that was called says of the move. *)
LEMMA MoveBounds ==
  ASSUME NEW b, BoardType(b), NEW color \in {0, 2}, NEW sq \in Moves(b, color),
         NEW c, c = Placed(b, sq, flips(b, sq, color), color),
         NEW alpha \in Scores, NEW beta \in Scores, NEW n, NodeValued(c, opponent_color(color), -beta, -alpha, n)
  PROVE  Bounds(-n.value, MoveValue(b, sq, color), alpha, beta)
<1> DEFINE U == TrueValue(c, opponent_color(color))
           m == MoveValue(b, sq, color)
<1>1. m = -U
  BY DEF MoveValue
<1>2. m \in Scores
  BY BoardValue DEF ValueFollows
<1>3. n.value \in Scores /\ (n.value < -alpha => U <= n.value) /\ (n.value > -beta => U >= n.value)
  BY DEF NodeValued
<1>4. U \in Int
  <2>1. BoardType(c)
    <3>1. sq \in EmptySquares(b) /\ sq \in OnBoardIndexes
      BY DEF Moves, EmptySquares
    <3>2. TurnedDiscs(flips(b, sq, color), b, color)
      BY <3>1, TurnedDiscsOfMove
    <3> QED
      BY <3>1, <3>2, PlacedBoard DEF PlacedCorrectly
  <2>2. opponent_color(color) \in {0, 2}
    BY DEF opponent_color
  <2> QED
    BY <2>1, <2>2, BoardValue, ScoreRange DEF ValueFollows
<1>5. n.value \in Int /\ alpha \in Int /\ beta \in Int /\ -n.value \in Scores
  BY <1>3, ScoreRange
<1> HIDE DEF U, m
<1>6. (-n.value < beta => m <= -n.value) /\ (-n.value > alpha => m >= -n.value)
  BY <1>1, <1>3, <1>4, <1>5
<1> QED
  BY <1>2, <1>5, <1>6 DEF Bounds, m

(* An exact value is a bound of both kinds. *)
LEMMA ExactBounds ==
  ASSUME NEW m \in Scores, NEW alpha, NEW beta
  PROVE  Bounds(m, m, alpha, beta)
<1>1. m \in Int
  BY ScoreRange
<1>2. m <= m /\ m >= m
  BY <1>1
<1> QED
  BY <1>2 DEF Bounds

(* The loop goes on after a value with all it knows. *)
LEMMA EvaluatedValued ==
  ASSUME NEW s, Exact(s), NEW f, NEW id, NEW ff, Knows(s, f, id, ff),
         NEW low, NEW high, Valued(s.board, f, low, high, id),
         NEW sq \in Moves(s.board, f.color), f.fn # "fastest_first" => f.current_move = sq, NEW value,
         Bounds(value, MoveValue(s.board, sq, f.color), f.alpha, f.beta), ~Cutoff(f, value),
         NEW g, g = Better(f, value, sq),
         NEW e, e = IF f.fn = "fastest_first"
                    THEN [g EXCEPT !.goodness = Restrict(g.goodness, DOMAIN f.goodness \ {sq})]
                    ELSE AdvancedTo(g, g.current_move, s.succ[g.current_move])
  PROVE  Valued(s.board, e, low, high, id)
<1> PICK b : b = s.board
  OBVIOUS
<1>1. /\ BoardType(b) /\ IsFrame(f) /\ f.color \in {0, 2} /\ sq \in EmptySquares(b) /\ sq \in Nat
      /\ s.succ[sq] = Following(EmptySquares(b), sq)
  <2>1. sq \in EmptySquares(b)
    BY DEF Moves
  <2> QED
    BY <2>1, EmptyOnBoard DEF Exact, Knows, BoardKnown, SuccFollows
<1>2. /\ IsFrame(g) /\ SameSearch(f, g) /\ SameRegions(f, g) /\ g.pass_before = f.pass_before
      /\ g.current_move = f.current_move /\ g.goodness = f.goodness
  <2>1. LET d == Better(f, value, sq)
        IN  /\ IsFrame(d) /\ SameSearch(f, d) /\ SameRegions(f, d)
            /\ d.beta = f.beta /\ d.pass_before = f.pass_before
            /\ d.previous_move = f.previous_move /\ d.current_move = f.current_move /\ d.goodness = f.goodness
            /\ d.selected_n = f.selected_n \/ d.selected_n = [value |-> value, square |-> sq]
    BY <1>1, FrameBetter
  <2> QED
    BY <2>1
<1>3. /\ Window(g, low, high) /\ BestMove(b, g, low)
      /\ MoveValue(b, sq, f.color) <= g.selected_n.value
      /\ \A x \in Searched(f, b, id) : MoveValue(b, x, f.color) \in Int => MoveValue(b, x, f.color) <= g.selected_n.value
  BY <1>1, GoesOnValued
<1>4. \A x \in Searched(f, b, id) : MoveValue(b, x, f.color) <= g.selected_n.value
  <2> TAKE x \in Searched(f, b, id)
  <2>1. x \in Moves(b, f.color)
    BY DEF Searched
  <2>2. MoveValue(b, x, f.color) \in Int
    BY <1>1, <2>1, BoardValue, ScoreRange DEF ValueFollows
  <2> QED
    BY <1>3, <2>2
<1>5. PassedBefore(b, g)
  BY <1>2 DEF PassedBefore, Valued, SameSearch
<1>6. /\ SameSearch(g, e) /\ SameWindow(g, e) /\ SameRegions(g, e) /\ e.selected_n = g.selected_n
      /\ \A x \in Searched(e, b, id) : x \in Searched(f, b, id) \/ x = sq
  <2>1. CASE f.fn = "fastest_first"
    <3> PICK r : r = Restrict(g.goodness, DOMAIN f.goodness \ {sq})
      OBVIOUS
    <3>1. DOMAIN r = DOMAIN f.goodness \ {sq}
      BY DEF Restrict
    <3>2. e = [g EXCEPT !.goodness = r]
      BY <2>1
    <3>3. /\ IsFrame(e) /\ SameSearch(g, e) /\ SameWindow(g, e) /\ SameRegions(g, e)
          /\ e.previous_move = g.previous_move /\ e.current_move = g.current_move /\ e.goodness = r
          /\ e.selected_n = g.selected_n
      BY <1>2, <3>2, FrameRated
    <3>4. ASSUME NEW x \in Searched(e, b, id), x # sq PROVE x \in Searched(f, b, id)
      <4>1. e.fn = f.fn /\ e.color = f.color /\ e.current_move = f.current_move /\ f.fn # "parity"
        BY <1>2, <2>1, <3>3 DEF SameSearch
      <4>2. x \in Moves(b, f.color) /\ x \notin DOMAIN f.goodness /\ Passed(e, x)
        BY <2>1, <3>1, <3>3, <3>4, <4>1 DEF Searched, Done, MovesRated
      <4>3. Passed(f, x)
        BY <4>1, <4>2 DEF Passed
      <4> QED
        BY <2>1, <4>1, <4>2, <4>3 DEF Searched, Done, MovesRated
    <3> QED
      BY <3>3, <3>4
  <2>2. CASE f.fn # "fastest_first"
    <3>1. g.current_move = sq /\ f.current_move = sq
      BY <1>2, <2>2
    <3> PICK y : y = Following(EmptySquares(b), sq)
      OBVIOUS
    <3>2. e = AdvancedTo(g, sq, y)
      BY <1>1, <2>2, <3>1
    <3>3. /\ IsFrame(e) /\ SameSearch(g, e) /\ SameWindow(g, e) /\ SameRegions(g, e)
          /\ e.previous_move = sq /\ e.current_move = y /\ e.goodness = g.goodness /\ e.selected_n = g.selected_n
      <4>1. IsFrame(g)
        BY <1>2
      <4> QED
        BY ONLY <3>2, <4>1, FrameAdvanced
    <3>4. SameSearch(f, e) /\ SameRegions(f, e)
      BY <1>2, <3>3 DEF SameSearch, SameRegions
    <3>5. MovesRated(f) \subseteq MovesRated(e)
      BY <1>2, <3>3, <3>4 DEF MovesRated, SameSearch
    <3>6. ASSUME NEW x \in Searched(e, b, id) PROVE x \in Searched(f, b, id) \/ x = sq
      <4>1. f.current_move \in EmptySquares(b) /\ e.current_move = Following(EmptySquares(b), f.current_move)
        BY <1>1, <3>1, <3>3
      <4>2. x \in Searched(f, b, id)
              \/ (x = f.current_move /\ x \notin MovesRated(e) /\ (f.fn = "parity" => id[x] \in f.parity_mask))
        <5>1. x \in Searched(e, b, id)
          OBVIOUS
        <5> QED
          BY ONLY <3>4, <3>5, <4>1, <5>1, SearchedNext
      <4> QED
        BY <3>1, <4>2
    <3> QED
      BY <3>3, <3>6
  <2> QED
    BY <2>1, <2>2
<1>7. e.color = f.color
  BY <1>2, <1>6 DEF SameSearch
<1>8. SearchedBounded(b, e, id)
  BY <1>3, <1>4, <1>6, <1>7 DEF SearchedBounded
<1>9. Window(e, low, high) /\ BestMove(b, e, low) /\ PassedBefore(b, e)
  <2>1. Window(e, low, high)
    BY <1>3, <1>6 DEF Window, SameWindow
  <2>2. BestMove(b, e, low)
    BY <1>3, <1>6 DEF BestMove, SameSearch
  <2>3. PassedBefore(b, e)
    BY <1>5, <1>6 DEF PassedBefore, SameSearch, SameWindow
  <2> QED
    BY <2>1, <2>2, <2>3
<1> QED
  BY <1>8, <1>9 DEF Valued

(* h[k] is what the searches shared when activation k was last running; m  *)
(* counts the activations, with the one that has just returned.            *)
History(h, fr, m, now, id, ff) ==
  /\ h[m] = now
  /\ \A k \in 1 .. m : Exact(h[k])
  /\ \A k \in 1 .. Len(fr) : Knows(h[k], fr[k], id, ff)
  /\ \A k \in 1 .. m - 1 : Waits(h[k], fr[k]) /\ h[k + 1] = Moved(h[k], fr[k], id)

(* The activation on top has changed, and what it shares is what it was. *)
LEMMA HistoryTurned ==
  ASSUME NEW S, NEW fr \in Seq(S), NEW n \in Nat \ {0}, n = Len(fr), NEW m \in {n, n + 1},
         NEW h, NEW now, NEW id, NEW ff, History(h, fr, m, now, id, ff), NEW g, Knows(h[n], g, id, ff)
  PROVE  History(h, [fr EXCEPT ![n] = g], n, h[n], id, ff)
<1> DEFINE gr == [fr EXCEPT ![n] = g]
<1>1. Len(gr) = n /\ gr[n] = g /\ \A k \in 1 .. n - 1 : gr[k] = fr[k]
  OBVIOUS
<1> HIDE DEF gr
<1>2. /\ \A k \in 1 .. n : k \in 1 .. m
      /\ \A k \in 1 .. n - 1 : k \in 1 .. m - 1 /\ k \in 1 .. n
      /\ \A k \in 1 .. n : k = n \/ k \in 1 .. n - 1
  OBVIOUS
<1>3. \A k \in 1 .. n : Exact(h[k])
  BY <1>2 DEF History
<1>4. \A k \in 1 .. n : Knows(h[k], gr[k], id, ff)
  BY <1>1, <1>2 DEF History
<1>5. \A k \in 1 .. n - 1 : Waits(h[k], gr[k]) /\ h[k + 1] = Moved(h[k], gr[k], id)
  BY <1>1, <1>2 DEF History
<1> QED
  BY <1>1, <1>3, <1>4, <1>5 DEF History, gr

(* The activation on top has ended. *)
LEMMA HistoryPopped ==
  ASSUME NEW S, NEW fr \in Seq(S), NEW n \in Nat \ {0}, n = Len(fr), NEW m \in {n, n + 1},
         NEW h, NEW now, NEW id, NEW ff, History(h, fr, m, now, id, ff)
  PROVE  History(h, Front(fr), n, h[n], id, ff) /\ Len(Front(fr)) = n - 1 /\ Front(fr) \in Seq(S)
<1> DEFINE gr == Front(fr)
<1>1. Len(gr) = n - 1 /\ (\A k \in 1 .. n - 1 : gr[k] = fr[k]) /\ gr \in Seq(S)
  BY DEF Front
<1> HIDE DEF gr
<1>2. /\ \A k \in 1 .. n : k \in 1 .. m
      /\ \A k \in 1 .. n - 1 : k \in 1 .. m - 1 /\ k \in 1 .. n
  OBVIOUS
<1>3. \A k \in 1 .. n : Exact(h[k])
  BY <1>2 DEF History
<1>4. \A k \in 1 .. n - 1 : Knows(h[k], gr[k], id, ff)
  BY <1>1, <1>2 DEF History
<1>5. \A k \in 1 .. n - 1 : Waits(h[k], gr[k]) /\ h[k + 1] = Moved(h[k], gr[k], id)
  BY <1>1, <1>2 DEF History
<1> QED
  BY <1>1, <1>3, <1>4, <1>5 DEF History, gr

(* The running activation becomes f and calls g. *)
Called(fr, f, g) == Append(SubSeq(fr, 1, Len(fr) - 1), f) \o <<g>>

IsCalled(gr, fr, n, f, g) ==
  /\ Len(gr) = n + 1 /\ gr[n] = f /\ gr[n + 1] = g
  /\ \A k \in 1 .. n - 1 : gr[k] = fr[k]

(* The activations after a call. *)
LEMMA CalledSequence ==
  ASSUME NEW S, NEW fr \in Seq(S), NEW n \in Nat \ {0}, n = Len(fr), NEW f, NEW g
  PROVE  Called(fr, f, g) \in Seq(S \cup {f, g}) /\ IsCalled(Called(fr, f, g), fr, n, f, g)
<1> DEFINE T == S \cup {f, g}
           a == SubSeq(fr, 1, n - 1)
           b == Append(a, f)
<1>1. a \in Seq(T) /\ Len(a) = n - 1 /\ \A k \in 1 .. n - 1 : a[k] = fr[k]
  <2>1. fr \in Seq(T)
    OBVIOUS
  <2> QED
    BY <2>1
<1> HIDE DEF a
<1>2. b \in Seq(T) /\ Len(b) = n /\ b[n] = f /\ \A k \in 1 .. n - 1 : b[k] = fr[k]
  BY <1>1
<1> HIDE DEF b
<1>3. <<g>> \in Seq(T) /\ Len(<<g>>) = 1
  OBVIOUS
<1> DEFINE c == b \o <<g>>
<1>4. c \in Seq(T) /\ Len(c) = n + 1 /\ c[n + 1] = g /\ \A k \in 1 .. n : c[k] = b[k]
  BY <1>2, <1>3
<1>5. Called(fr, f, g) = c
  BY DEF Called, b, a
<1> HIDE DEF c
<1>6. c[n] = f /\ \A k \in 1 .. n - 1 : c[k] = fr[k]
  <2>1. n \in 1 .. n /\ \A k \in 1 .. n - 1 : k \in 1 .. n
    OBVIOUS
  <2> QED
    BY <2>1, <1>2, <1>4
<1>7. IsCalled(c, fr, n, f, g)
  BY <1>4, <1>6 DEF IsCalled
<1> QED
  BY <1>4, <1>5, <1>7

(* A call adds what it starts from to the history. *)
LEMMA HistoryCalled ==
  ASSUME NEW S, NEW fr \in Seq(S), NEW n \in Nat \ {0}, n = Len(fr),
         NEW h, NEW now, NEW id, NEW ff, History(h, fr, n, now, id, ff),
         NEW f, Knows(now, f, id, ff), Waits(now, f),
         NEW t, t = Moved(now, f, id), Exact(t), NEW g, Knows(t, g, id, ff),
         NEW i, i = [k \in 1 .. n + 1 |-> IF k = n + 1 THEN t ELSE h[k]]
  PROVE  History(i, Called(fr, f, g), n + 1, t, id, ff)
<1> DEFINE gr == Called(fr, f, g)
<1>1. i[n + 1] = t /\ i[n] = now /\ \A k \in 1 .. n : i[k] = h[k]
  BY DEF History
<1>2. Len(gr) = n + 1 /\ (\A k \in 1 .. n - 1 : gr[k] = fr[k]) /\ gr[n] = f /\ gr[n + 1] = g
  <2>1. IsCalled(gr, fr, n, f, g)
    BY CalledSequence
  <2> HIDE DEF gr
  <2> QED
    BY <2>1 DEF IsCalled
<1> HIDE DEF gr
<1>3. /\ \A k \in 1 .. n + 1 : k = n + 1 \/ k \in 1 .. n
      /\ \A k \in 1 .. n : k = n \/ k \in 1 .. n - 1
      /\ \A k \in 1 .. n - 1 : k \in 1 .. n /\ k + 1 \in 1 .. n
      /\ (n + 1) - 1 = n
  OBVIOUS
<1>4. \A k \in 1 .. n + 1 : Exact(i[k])
  BY <1>1, <1>3 DEF History
<1>5. \A k \in 1 .. n + 1 : Knows(i[k], gr[k], id, ff)
  BY <1>1, <1>2, <1>3 DEF History
<1>6. \A k \in 1 .. n : Waits(i[k], gr[k]) /\ i[k + 1] = Moved(i[k], gr[k], id)
  <2> TAKE k \in 1 .. n
  <2>1. CASE k = n
    BY <2>1, <1>1, <1>2
  <2>2. CASE k \in 1 .. n - 1
    <3>1. k \in 1 .. n /\ k + 1 \in 1 .. n
      BY <2>2, <1>3
    <3>2. Waits(h[k], fr[k]) /\ h[k + 1] = Moved(h[k], fr[k], id)
      BY <2>2 DEF History
    <3> QED
      BY <2>2, <3>1, <3>2, <1>1, <1>2
  <2> QED
    BY <1>3, <2>1, <2>2
<1>7. History(i, gr, n + 1, t, id, ff)
  BY <1>1, <1>2, <1>3, <1>4, <1>5, <1>6 DEF History
<1> QED
  BY <1>7 DEF gr

-----------------------------------------------------------------------------
(* The window and the player that activation k was called with, by its     *)
(* caller or for the first position.                                       *)
Low(fr, k) == IF k = 1 THEN -BestScore ELSE -fr[k - 1].beta
High(fr, k) == IF k = 1 THEN BestScore ELSE -fr[k - 1].alpha
Mover(fr, k, root) == IF k = 1 THEN get_ifes_player(root) ELSE opponent_color(fr[k - 1].color)

(* What the activations know of the values of their positions, and what    *)
(* the node says that has just been returned.                              *)
FrameWorth(h, fr, root, id, k) ==
  Valued(h[k].board, fr[k], Low(fr, k), High(fr, k), id) /\ fr[k].color = Mover(fr, k, root)
Worth(h, fr, m, node, root, id) ==
  /\ h[1].board = game_position_to_ifes_board(root)
  /\ \A k \in 1 .. Len(fr) : FrameWorth(h, fr, root, id, k)
  /\ \A k \in 1 .. m - 1 : Passing(h[k].board, fr[k], Low(fr, k))
  /\ m > Len(fr) => NodeValued(h[m].board, Mover(fr, m, root), Low(fr, m), High(fr, m), node)

(* It depends on the callers only what an activation was called with.      *)
LEMMA CalledAlike ==
  ASSUME NEW fr, NEW gr, NEW root, NEW k \in Nat \ {0}, k = 1 \/ gr[k - 1] = fr[k - 1]
  PROVE  Low(gr, k) = Low(fr, k) /\ High(gr, k) = High(fr, k) /\ Mover(gr, k, root) = Mover(fr, k, root)
BY DEF Low, High, Mover

(* The activation on top has changed. *)
LEMMA WorthTurned ==
  ASSUME NEW S, NEW fr \in Seq(S), NEW n \in Nat \ {0}, n = Len(fr), NEW m \in {n, n + 1},
         NEW h, NEW node, NEW root, NEW id, Worth(h, fr, m, node, root, id), NEW g, NEW other,
         Valued(h[n].board, g, Low(fr, n), High(fr, n), id), g.color = Mover(fr, n, root)
  PROVE  Worth(h, [fr EXCEPT ![n] = g], n, other, root, id)
<1> DEFINE gr == [fr EXCEPT ![n] = g]
<1>1. Len(gr) = n /\ gr[n] = g /\ \A k \in 1 .. n - 1 : gr[k] = fr[k]
  OBVIOUS
<1> HIDE DEF gr
<1>2. /\ \A k \in 1 .. n : (k = n \/ k \in 1 .. n - 1) /\ k \in Nat \ {0} /\ (k = 1 \/ k - 1 \in 1 .. n - 1)
      /\ \A k \in 1 .. n - 1 : k \in 1 .. m - 1 /\ k \in 1 .. n
  OBVIOUS
<1>3. \A k \in 1 .. n : Low(gr, k) = Low(fr, k) /\ High(gr, k) = High(fr, k) /\ Mover(gr, k, root) = Mover(fr, k, root)
  BY <1>1, <1>2, CalledAlike, SMTT(30)
<1>4. \A k \in 1 .. n : FrameWorth(h, gr, root, id, k)
  <2> TAKE k \in 1 .. n
  <2>1. CASE k = n
    BY <1>1, <1>3, <2>1 DEF FrameWorth
  <2>2. CASE k \in 1 .. n - 1
    <3>1. FrameWorth(h, fr, root, id, k) /\ gr[k] = fr[k]
      BY <1>1, <1>2, <2>2 DEF Worth
    <3> QED
      BY <1>3, <3>1 DEF FrameWorth
  <2> QED
    BY <1>2, <2>1, <2>2
<1>5. \A k \in 1 .. n - 1 : Passing(h[k].board, gr[k], Low(gr, k))
  <2> TAKE k \in 1 .. n - 1
  <2>1. Passing(h[k].board, fr[k], Low(fr, k)) /\ gr[k] = fr[k] /\ Low(gr, k) = Low(fr, k)
    BY <1>1, <1>2, <1>3 DEF Worth
  <2> QED
    BY <2>1
<1>6. ~(n > Len(gr)) /\ h[1].board = game_position_to_ifes_board(root)
  BY <1>1 DEF Worth
<1> QED
  BY <1>1, <1>4, <1>5, <1>6 DEF Worth, gr

(* The activation on top has ended with a node. *)
LEMMA WorthPopped ==
  ASSUME NEW S, NEW fr \in Seq(S), NEW n \in Nat \ {0}, n = Len(fr), NEW m \in {n, n + 1},
         NEW h, NEW node, NEW root, NEW id, Worth(h, fr, m, node, root, id), NEW other,
         NodeValued(h[n].board, Mover(fr, n, root), Low(fr, n), High(fr, n), other)
  PROVE  Worth(h, Front(fr), n, other, root, id)
<1> DEFINE gr == Front(fr)
<1>1. Len(gr) = n - 1 /\ \A k \in 1 .. n - 1 : gr[k] = fr[k]
  BY DEF Front
<1> HIDE DEF gr
<1>2. /\ \A k \in 1 .. n : k \in Nat \ {0} /\ (k = 1 \/ k - 1 \in 1 .. n - 1)
      /\ \A k \in 1 .. n - 1 : k \in 1 .. m - 1 /\ k \in 1 .. n
      /\ n \in 1 .. n
  OBVIOUS
<1>3. \A k \in 1 .. n : Low(gr, k) = Low(fr, k) /\ High(gr, k) = High(fr, k) /\ Mover(gr, k, root) = Mover(fr, k, root)
  BY <1>1, <1>2, CalledAlike, SMTT(30)
<1>4. \A k \in 1 .. n - 1 : FrameWorth(h, gr, root, id, k)
  <2> TAKE k \in 1 .. n - 1
  <2>1. FrameWorth(h, fr, root, id, k) /\ gr[k] = fr[k] /\ k \in 1 .. n
    BY <1>1, <1>2 DEF Worth
  <2> QED
    BY <1>3, <2>1 DEF FrameWorth
<1>5. \A k \in 1 .. n - 1 : Passing(h[k].board, gr[k], Low(gr, k))
  <2> TAKE k \in 1 .. n - 1
  <2>1. Passing(h[k].board, fr[k], Low(fr, k)) /\ gr[k] = fr[k] /\ Low(gr, k) = Low(fr, k)
    BY <1>1, <1>2, <1>3 DEF Worth
  <2> QED
    BY <2>1
<1>6. NodeValued(h[n].board, Mover(gr, n, root), Low(gr, n), High(gr, n), other)
  BY <1>2, <1>3
<1>7. h[1].board = game_position_to_ifes_board(root)
  BY DEF Worth
<1> QED
  BY <1>1, <1>4, <1>5, <1>6, <1>7 DEF Worth, gr

(* The running activation has called another. *)
LEMMA WorthCalled ==
  ASSUME NEW S, NEW fr \in Seq(S), NEW n \in Nat \ {0}, n = Len(fr),
         NEW h, NEW node, NEW root, NEW id, Worth(h, fr, n, node, root, id), NEW other,
         NEW now, h[n] = now, NEW f, Valued(now.board, f, Low(fr, n), High(fr, n), id), f.color = Mover(fr, n, root),
         Passing(now.board, f, Low(fr, n)),
         NEW t, NEW g, Valued(t.board, g, -f.beta, -f.alpha, id), g.color = opponent_color(f.color),
         NEW i, i = [k \in 1 .. n + 1 |-> IF k = n + 1 THEN t ELSE h[k]]
  PROVE  Worth(i, Called(fr, f, g), n + 1, other, root, id)
<1> DEFINE gr == Called(fr, f, g)
<1>1. i[n + 1] = t /\ i[n] = now /\ \A k \in 1 .. n : i[k] = h[k]
  OBVIOUS
<1>2. Len(gr) = n + 1 /\ (\A k \in 1 .. n - 1 : gr[k] = fr[k]) /\ gr[n] = f /\ gr[n + 1] = g
  <2>1. IsCalled(gr, fr, n, f, g)
    BY CalledSequence
  <2> HIDE DEF gr
  <2> QED
    BY <2>1 DEF IsCalled
<1> HIDE DEF gr
<1>3. /\ \A k \in 1 .. n : (k = n \/ k \in 1 .. n - 1) /\ k \in Nat \ {0} /\ (k = 1 \/ k - 1 \in 1 .. n - 1)
      /\ \A k \in 1 .. n + 1 : k = n + 1 \/ k \in 1 .. n
      /\ \A k \in 1 .. n - 1 : k \in 1 .. n
      /\ (n + 1) - 1 = n /\ n + 1 # 1 /\ 1 \in 1 .. n
  OBVIOUS
<1>4. \A k \in 1 .. n : Low(gr, k) = Low(fr, k) /\ High(gr, k) = High(fr, k) /\ Mover(gr, k, root) = Mover(fr, k, root)
  <2> TAKE k \in 1 .. n
  <2>1. k \in Nat \ {0} /\ (k = 1 \/ gr[k - 1] = fr[k - 1])
    BY <1>2, <1>3
  <2> QED
    BY <2>1, CalledAlike
<1>5. \A k \in 1 .. n : FrameWorth(i, gr, root, id, k)
  <2> TAKE k \in 1 .. n
  <2>1. CASE k = n
    BY <1>1, <1>2, <1>4, <2>1 DEF FrameWorth
  <2>2. CASE k \in 1 .. n - 1
    <3>1. FrameWorth(h, fr, root, id, k) /\ gr[k] = fr[k] /\ i[k] = h[k]
      BY <1>1, <1>2, <1>3, <2>2 DEF Worth
    <3> QED
      BY <1>4, <3>1 DEF FrameWorth
  <2> QED
    BY <1>3, <2>1, <2>2
<1>6. FrameWorth(i, gr, root, id, n + 1)
  <2>1. Low(gr, n + 1) = -f.beta /\ High(gr, n + 1) = -f.alpha /\ Mover(gr, n + 1, root) = opponent_color(f.color)
    BY <1>2, <1>3 DEF Low, High, Mover
  <2> QED
    BY <1>1, <1>2, <2>1 DEF FrameWorth
<1>7. \A k \in 1 .. n + 1 : FrameWorth(i, gr, root, id, k)
  BY <1>3, <1>5, <1>6
<1>8. \A k \in 1 .. n : Passing(i[k].board, gr[k], Low(gr, k))
  <2> TAKE k \in 1 .. n
  <2>1. CASE k = n
    BY <1>1, <1>2, <1>4, <2>1
  <2>2. CASE k \in 1 .. n - 1
    <3>1. Passing(h[k].board, fr[k], Low(fr, k)) /\ gr[k] = fr[k] /\ Low(gr, k) = Low(fr, k) /\ i[k] = h[k]
      BY <1>1, <1>2, <1>3, <1>4, <2>2 DEF Worth
    <3> QED
      BY <3>1
  <2> QED
    BY <1>3, <2>1, <2>2
<1>9. i[1].board = game_position_to_ifes_board(root)
  BY <1>1, <1>3 DEF Worth
<1>10. ~(n + 1 > Len(gr)) /\ Len(gr) = n + 1
  BY <1>2
<1> QED
  BY <1>3, <1>7, <1>8, <1>9, <1>10 DEF Worth, gr

-----------------------------------------------------------------------------
(* The calls. *)

(* After a move the called search knows the board, the list and the        *)
(* parities.                                                               *)
LEMMA MadeCallKnows ==
  ASSUME NEW s, Exact(s), NEW f, NEW id, NEW ff, Knows(s, f, id, ff), Waits(s, f), f.flip_count # 0,
         NEW t, t = Moved(s, f, id),
         NEW fn \in {"fastest_first", "parity", "no_parity"},
         fn = "fastest_first" => f.fn = "fastest_first",
         fn # "no_parity" => f.fn # "no_parity",
         fn = "parity" => f.empties - 1 <= ff,
         NEW a, a.color = opponent_color(f.color), a.empties = f.empties - 1,
         a.discdiff = -f.discdiff - 2 * f.flip_count - 1
  PROVE  Exact(t) /\ Knows(t, Activation(fn, a, t.succ[em_head], t.parity), id, ff)
<1> DEFINE g == [fn |-> fn, color |-> a.color, empties |-> a.empties, discdiff |-> a.discdiff]
           c == f.color
           d == opponent_color(f.color)
           e == IFES_EMPTY
<1>1. Exact(t) /\ MadeMove(s, f, id, t)
  BY MoveMade
<1>2. /\ c \in {0, 2} /\ d \in {0, 2} /\ opponent_color(d) = c
      /\ f.empties = Count(s.board, e) /\ f.discdiff = Count(s.board, c) - Count(s.board, d)
  BY DEF Knows, BoardKnown, opponent_color
<1>3. f.flip_count = Len(flips(s.board, f.move_square, c)) /\ f.flip_count \in Nat
  BY DEF Waits
<1>4. /\ Count(t.board, e) = Count(s.board, e) - 1
      /\ Count(t.board, c) = Count(s.board, c) + f.flip_count + 1
      /\ Count(t.board, d) = Count(s.board, d) - f.flip_count
  BY <1>1, <1>3 DEF MadeMove, PlacedCorrectly
<1>5. Count(s.board, e) \in Nat /\ Count(s.board, c) \in Nat /\ Count(s.board, d) \in Nat
  BY CountOfSet
<1>6. a.empties = Count(t.board, e) /\ a.discdiff = Count(t.board, d) - Count(t.board, c)
  <2> PICK x, y \in Int : x = Count(s.board, c) /\ y = Count(s.board, d)
    BY <1>5
  <2> PICK k \in Int : k = f.flip_count
    BY <1>3
  <2>1. a.discdiff = -(x - y) - 2 * k - 1
    BY <1>2
  <2>2. Count(t.board, d) - Count(t.board, c) = (y - k) - (x + k + 1)
    BY <1>4
  <2> QED
    BY <1>2, <1>4, <2>1, <2>2
<1>7. fn = "fastest_first" => PredPrecedes(t.pred, EmptySquares(t.board))
  BY <1>1 DEF MadeMove
<1>8. fn # "no_parity" => t.parity = OddRegions(t.board, id)
  BY <1>1 DEF MadeMove
<1>9. BoardKnown(t, g, id, ff)
  <2>1. g.fn = fn /\ g.color = d /\ g.empties = a.empties /\ g.discdiff = a.discdiff
    OBVIOUS
  <2> HIDE DEF g, d, c
  <2> QED
    BY <2>1, <1>2, <1>6, <1>7, <1>8 DEF BoardKnown
<1> QED
  BY <1>1, <1>9, StartedKnows

(* The same after a pass, by which only the colors change. *)
LEMMA PassCallKnows ==
  ASSUME NEW s, Exact(s), NEW f, NEW id, NEW ff, Knows(s, f, id, ff),
         NEW a, a.color = opponent_color(f.color), a.empties = f.empties, a.discdiff = -f.discdiff
  PROVE  Knows(s, Activation(f.fn, a, s.succ[em_head], s.parity), id, ff)
<1> DEFINE g == [fn |-> f.fn, color |-> a.color, empties |-> a.empties, discdiff |-> a.discdiff]
           c == f.color
           d == opponent_color(f.color)
<1>1. /\ c \in {0, 2} /\ d \in {0, 2} /\ opponent_color(d) = c
      /\ f.discdiff = Count(s.board, c) - Count(s.board, d)
  BY DEF Knows, BoardKnown, opponent_color
<1>2. Count(s.board, c) \in Nat /\ Count(s.board, d) \in Nat
  BY CountOfSet
<1>3. a.discdiff = Count(s.board, d) - Count(s.board, c)
  BY <1>1, <1>2
<1>4. g.fn = f.fn /\ g.color = d /\ g.empties = f.empties /\ g.discdiff = a.discdiff
  OBVIOUS
<1> HIDE DEF g, d, c
<1>5. BoardKnown(s, g, id, ff)
  BY <1>1, <1>3, <1>4 DEF Knows, BoardKnown
<1> QED
  BY <1>5, StartedKnows DEF g

Now == Snapshot(board, succ, pred, region_parity, flip_stack)
Depth == Len(frames) + (IF returned = None THEN 0 ELSE 1)

ProblemChosen == problem \in Problems
FramesStacked == \E S : frames \in Seq(S)
RunsOrReturns == returned = None => frames # << >>
ReturnsNode == returned # None => IsNode(returned)
HistoryKept ==
  \E h : /\ History(h, frames, Depth, Now, hole_id, fastest_first)
         /\ Worth(h, frames, Depth, returned, problem.root, hole_id)

IInv == ProblemChosen /\ FramesStacked /\ RunsOrReturns /\ ReturnsNode /\ HistoryKept

(* What the activation on top may know of the value of the board b, and    *)
(* what it may return.                                                     *)
TopValued(b, f) ==
  /\ Valued(b, f, Low(frames, Len(frames)), High(frames, Len(frames)), hole_id)
  /\ f.color = Mover(frames, Len(frames), problem.root)
TopNode(b, node) ==
  NodeValued(b, Mover(frames, Len(frames), problem.root), Low(frames, Len(frames)), High(frames, Len(frames)), node)
TopPassing(b, f) == Passing(b, f, Low(frames, Len(frames)))

(* A node that is returned says that one is returned. *)
LEMMA NodeIsNotNone ==
  ASSUME NEW n, IsNode(n)
  PROVE  n # None
BY DEF IsNode, None, Nil

RunningAt(S, h, n) ==
  /\ n \in Nat \ {0} /\ n = Len(frames) /\ frames \in Seq(S) /\ Top = frames[n]
  /\ h[n] = Now /\ Exact(Now) /\ Knows(Now, Top, hole_id, fastest_first)
  /\ History(h, frames, n, Now, hole_id, fastest_first)
  /\ Worth(h, frames, n, returned, problem.root, hole_id) /\ TopValued(board, Top)
ReturnedAt(S, h, n) ==
  /\ n \in Nat \ {0} /\ n = Len(frames) /\ frames \in Seq(S) /\ Top = frames[n]
  /\ Now = Moved(h[n], Top, hole_id) /\ Exact(h[n]) /\ Waits(h[n], Top)
  /\ Knows(h[n], Top, hole_id, fastest_first) /\ IsNode(returned)
  /\ History(h, frames, n + 1, Now, hole_id, fastest_first)
  /\ Worth(h, frames, n + 1, returned, problem.root, hole_id)
  /\ TopValued(h[n].board, Top) /\ TopPassing(h[n].board, Top)
  /\ NodeValued(board, opponent_color(Top.color), -Top.beta, -Top.alpha, returned)

(* While an activation runs, the searches share what it knows. *)
LEMMA RunningSituation ==
  ASSUME IInv, Running
  PROVE  \E S, h, n : RunningAt(S, h, n)
<1>1. PICK S : frames \in Seq(S)
  BY DEF IInv, FramesStacked
<1>2. PICK h : /\ History(h, frames, Depth, Now, hole_id, fastest_first)
               /\ Worth(h, frames, Depth, returned, problem.root, hole_id)
  BY DEF IInv, HistoryKept
<1>3. frames # << >> /\ returned = None
  BY DEF Running
<1> PICK n \in Nat \ {0} : n = Len(frames)
  BY <1>1, <1>3
<1>4. Depth = n + 0 /\ n + 0 = n /\ n \in 1 .. n
  BY <1>3 DEF Depth
<1>5. Top = frames[n]
  BY DEF Top, Last
<1>6. History(h, frames, n, Now, hole_id, fastest_first)
  BY <1>2, <1>4
<1>7. h[n] = Now /\ Exact(h[n]) /\ Knows(h[n], frames[n], hole_id, fastest_first)
  BY <1>4, <1>6 DEF History
<1>8. Worth(h, frames, n, returned, problem.root, hole_id)
  BY <1>2, <1>4
<1>9. TopValued(board, Top)
  <2>1. FrameWorth(h, frames, problem.root, hole_id, n) /\ Now.board = board
    BY <1>4, <1>8 DEF Worth, Now, Snapshot
  <2> QED
    BY <2>1, <1>5, <1>7 DEF FrameWorth, TopValued
<1> QED
  BY <1>1, <1>5, <1>6, <1>7, <1>8, <1>9 DEF RunningAt

(* After a return, they share what the move of the caller has left. *)
LEMMA ReturnedSituation ==
  ASSUME IInv, frames # << >>, returned # None
  PROVE  \E S, h, n : ReturnedAt(S, h, n)
<1>1. PICK S : frames \in Seq(S)
  BY DEF IInv, FramesStacked
<1>2. PICK h : /\ History(h, frames, Depth, Now, hole_id, fastest_first)
               /\ Worth(h, frames, Depth, returned, problem.root, hole_id)
  BY DEF IInv, HistoryKept
<1> PICK n \in Nat \ {0} : n = Len(frames)
  BY <1>1
<1>3. Depth = n + 1 /\ n \in 1 .. n /\ n \in 1 .. n + 1 /\ (n + 1) - 1 = n
  BY DEF Depth
<1>4. Top = frames[n] /\ IsNode(returned)
  BY DEF Top, Last, IInv, ReturnsNode
<1>5. History(h, frames, n + 1, Now, hole_id, fastest_first)
  BY <1>2, <1>3
<1>6. /\ h[n + 1] = Now /\ Exact(h[n]) /\ Knows(h[n], frames[n], hole_id, fastest_first)
      /\ Waits(h[n], frames[n]) /\ h[n + 1] = Moved(h[n], frames[n], hole_id)
  BY <1>3, <1>5 DEF History
<1>7. Worth(h, frames, n + 1, returned, problem.root, hole_id)
  BY <1>2, <1>3
<1>8. TopValued(h[n].board, Top) /\ TopPassing(h[n].board, Top)
  <2>1. FrameWorth(h, frames, problem.root, hole_id, n) /\ Passing(h[n].board, frames[n], Low(frames, n))
    BY <1>3, <1>7 DEF Worth
  <2> QED
    BY <2>1, <1>4 DEF FrameWorth, TopValued, TopPassing
<1>9. NodeValued(board, opponent_color(Top.color), -Top.beta, -Top.alpha, returned)
  <2>1. NodeValued(h[n + 1].board, Mover(frames, n + 1, problem.root), Low(frames, n + 1), High(frames, n + 1), returned)
    <3>1. n + 1 > n
      OBVIOUS
    <3> QED
      BY <1>7, <3>1 DEF Worth
  <2>2. /\ Mover(frames, n + 1, problem.root) = opponent_color(Top.color)
        /\ Low(frames, n + 1) = -Top.beta /\ High(frames, n + 1) = -Top.alpha
    <3>1. n + 1 # 1 /\ (n + 1) - 1 = n
      OBVIOUS
    <3> QED
      BY <3>1, <1>4 DEF Mover, Low, High
  <2>3. h[n + 1].board = board
    BY <1>6 DEF Now, Snapshot
  <2> QED
    BY <2>1, <2>2, <2>3
<1> QED
  BY <1>1, <1>4, <1>5, <1>6, <1>7, <1>8, <1>9 DEF ReturnedAt

(* The three kinds of steps: the activation on top goes on, ends, or calls. *)
SharedNext == Snapshot(board', succ', pred', region_parity', flip_stack')

(* The parts of the invariant, one by one. *)
LEMMA InvariantNext ==
  ASSUME ProblemChosen', FramesStacked', RunsOrReturns', ReturnsNode', HistoryKept'
  PROVE  IInv'
BY DEF IInv

(* The activation on top goes on with its loop. *)
LEMMA ActivationGoesOn ==
  ASSUME IInv, NEW S, frames \in Seq(S), NEW n \in Nat \ {0}, n = Len(frames), NEW m \in {n, n + 1}, NEW h,
         NEW now, History(h, frames, m, now, hole_id, fastest_first),
         NEW g, Knows(h[n], g, hole_id, fastest_first),
         Worth(h, frames, m, returned, problem.root, hole_id), TopValued(h[n].board, g),
         frames' = [frames EXCEPT ![n] = g], returned' = None,
         SharedNext = h[n], UNCHANGED tables
  PROVE  IInv'
<1>1. History(h, [frames EXCEPT ![n] = g], n, h[n], hole_id, fastest_first)
  BY HistoryTurned
<1>2. [frames EXCEPT ![n] = g] \in Seq(S \cup {g}) /\ Len([frames EXCEPT ![n] = g]) = n
  OBVIOUS
<1>3. /\ hole_id' = hole_id /\ problem' = problem /\ fastest_first' = fastest_first
      /\ problem \in Problems
  BY DEF tables, fastest_first, IInv, ProblemChosen
<1>4. Now' = h[n] /\ Depth' = n
  BY <1>2 DEF SharedNext, Now, Depth
<1>5. History(h, frames', Depth', Now', hole_id', fastest_first')
  BY <1>1, <1>3, <1>4
<1>6. Worth(h, frames', Depth', returned', problem'.root, hole_id')
  <2> PICK node, other, root : node = returned /\ other = returned' /\ root = problem.root
    OBVIOUS
  <2>1. Worth(h, frames, m, node, root, hole_id)
    OBVIOUS
  <2>2. Valued(h[n].board, g, Low(frames, n), High(frames, n), hole_id) /\ g.color = Mover(frames, n, root)
    BY DEF TopValued
  <2>3. Worth(h, [frames EXCEPT ![n] = g], n, other, root, hole_id)
    BY <2>1, <2>2, WorthTurned
  <2> QED
    BY <2>3, <1>3, <1>4
<1>7. frames' # << >>
  BY <1>2
<1>8. ProblemChosen'
  BY <1>3 DEF ProblemChosen
<1>9. FramesStacked'
  BY <1>2 DEF FramesStacked
<1>10. RunsOrReturns'
  BY <1>7 DEF RunsOrReturns
<1>11. ReturnsNode'
  BY DEF ReturnsNode
<1>12. HistoryKept'
  BY <1>5, <1>6 DEF HistoryKept
<1> QED
  BY <1>8, <1>9, <1>10, <1>11, <1>12, InvariantNext

(* It ends, with a node. *)
LEMMA ActivationEnds ==
  ASSUME IInv, NEW S, frames \in Seq(S), NEW n \in Nat \ {0}, n = Len(frames), NEW m \in {n, n + 1}, NEW h,
         NEW now, History(h, frames, m, now, hole_id, fastest_first),
         Worth(h, frames, m, returned, problem.root, hole_id),
         frames' = Front(frames), NEW node, TopNode(h[n].board, node), IsNode(node), returned' = node,
         SharedNext = h[n], UNCHANGED tables
  PROVE  IInv'
<1>1. /\ History(h, Front(frames), n, h[n], hole_id, fastest_first)
      /\ Len(Front(frames)) = n - 1 /\ Front(frames) \in Seq(S)
  BY HistoryPopped
<1>2. /\ hole_id' = hole_id /\ problem' = problem /\ fastest_first' = fastest_first
      /\ problem \in Problems
  BY DEF tables, fastest_first, IInv, ProblemChosen
<1>3. returned' # None
  BY NodeIsNotNone
<1>4. Now' = h[n] /\ Depth' = (n - 1) + 1 /\ (n - 1) + 1 = n
  BY <1>1, <1>3 DEF SharedNext, Now, Depth, None
<1>5. History(h, frames', Depth', Now', hole_id', fastest_first')
  BY <1>1, <1>2, <1>4
<1>6. Worth(h, frames', Depth', returned', problem'.root, hole_id')
  <2> PICK old, root : old = returned /\ root = problem.root
    OBVIOUS
  <2>1. Worth(h, frames, m, old, root, hole_id)
    OBVIOUS
  <2>2. NodeValued(h[n].board, Mover(frames, n, root), Low(frames, n), High(frames, n), node)
    BY DEF TopNode
  <2>3. Worth(h, Front(frames), n, node, root, hole_id)
    BY <2>1, <2>2, WorthPopped
  <2> QED
    BY <2>3, <1>2, <1>4
<1>7. ProblemChosen'
  BY <1>2 DEF ProblemChosen
<1>8. FramesStacked'
  BY <1>1 DEF FramesStacked
<1>9. RunsOrReturns'
  BY <1>3 DEF RunsOrReturns
<1>10. ReturnsNode'
  BY DEF ReturnsNode
<1>11. HistoryKept'
  BY <1>5, <1>6 DEF HistoryKept
<1> QED
  BY <1>7, <1>8, <1>9, <1>10, <1>11, InvariantNext

(* It calls another one. *)
LEMMA ActivationCalls ==
  ASSUME IInv, NEW S, frames \in Seq(S), NEW n \in Nat \ {0}, n = Len(frames), NEW h,
         NEW now, History(h, frames, n, now, hole_id, fastest_first),
         NEW f, Knows(now, f, hole_id, fastest_first), Waits(now, f),
         NEW t, t = Moved(now, f, hole_id), Exact(t), NEW g, Knows(t, g, hole_id, fastest_first),
         Worth(h, frames, n, returned, problem.root, hole_id), TopValued(now.board, f), TopPassing(now.board, f),
         Valued(t.board, g, -f.beta, -f.alpha, hole_id), g.color = opponent_color(f.color),
         frames' = Called(frames, f, g), returned' = None,
         SharedNext = t, UNCHANGED tables
  PROVE  IInv'
<1> PICK i : i = [k \in 1 .. n + 1 |-> IF k = n + 1 THEN t ELSE h[k]]
  OBVIOUS
<1>1. History(i, Called(frames, f, g), n + 1, t, hole_id, fastest_first)
  BY HistoryCalled
<1>2. Called(frames, f, g) \in Seq(S \cup {f, g}) /\ Len(Called(frames, f, g)) = n + 1
  <2>1. Called(frames, f, g) \in Seq(S \cup {f, g}) /\ IsCalled(Called(frames, f, g), frames, n, f, g)
    BY CalledSequence
  <2> QED
    BY ONLY <2>1 DEF IsCalled
<1>3. /\ hole_id' = hole_id /\ problem' = problem /\ fastest_first' = fastest_first
      /\ problem \in Problems
  BY DEF tables, fastest_first, IInv, ProblemChosen
<1>4. Now' = t /\ Depth' = (n + 1) + 0 /\ (n + 1) + 0 = n + 1
  BY <1>2 DEF SharedNext, Now, Depth
<1>5. History(i, frames', Depth', Now', hole_id', fastest_first')
  BY <1>1, <1>3, <1>4
<1>6. Worth(i, frames', Depth', returned', problem'.root, hole_id')
  <2> PICK node, other, root : node = returned /\ other = returned' /\ root = problem.root
    OBVIOUS
  <2>1. Worth(h, frames, n, node, root, hole_id) /\ h[n] = now
    BY DEF History
  <2>2. /\ Valued(now.board, f, Low(frames, n), High(frames, n), hole_id) /\ f.color = Mover(frames, n, root)
        /\ Passing(now.board, f, Low(frames, n))
    BY DEF TopValued, TopPassing
  <2>3. Worth(i, Called(frames, f, g), n + 1, other, root, hole_id)
    BY <2>1, <2>2, WorthCalled
  <2> QED
    BY <2>3, <1>3, <1>4
<1>7. frames' # << >>
  BY <1>2
<1>8. ProblemChosen'
  BY <1>3 DEF ProblemChosen
<1>9. FramesStacked'
  BY <1>2 DEF FramesStacked
<1>10. RunsOrReturns'
  BY <1>7 DEF RunsOrReturns
<1>11. ReturnsNode'
  BY DEF ReturnsNode
<1>12. HistoryKept'
  BY <1>5, <1>6 DEF HistoryKept
<1> QED
  BY <1>8, <1>9, <1>10, <1>11, <1>12, InvariantNext

SharedSame == UNCHANGED <<tables, board, succ, pred, region_parity, flip_stack>>

(* A step of the loop that changes nothing that is shared. *)
LEMMA RunningGoesOn ==
  ASSUME IInv, Running, NEW g, Knows(Now, g, hole_id, fastest_first), TopValued(board, g), Turn(g),
         returned' = returned \/ returned' = None, SharedSame
  PROVE  IInv'
<1> PICK S, h, n : RunningAt(S, h, n)
  BY RunningSituation
<1>1. /\ n \in Nat \ {0} /\ n = Len(frames) /\ frames \in Seq(S) /\ n \in {n, n + 1}
      /\ h[n] = Now /\ History(h, frames, n, Now, hole_id, fastest_first)
      /\ Worth(h, frames, n, returned, problem.root, hole_id) /\ h[n].board = board
  BY DEF RunningAt, Now, Snapshot
<1>2. /\ frames' = [frames EXCEPT ![n] = g] /\ returned' = None /\ UNCHANGED tables
      /\ SharedNext = h[n] /\ Knows(h[n], g, hole_id, fastest_first) /\ TopValued(h[n].board, g)
  BY <1>1 DEF Turn, Running, SharedSame, SharedNext, Now
<1> PICK now : now = Now
  OBVIOUS
<1>3. History(h, frames, n, now, hole_id, fastest_first)
  BY <1>1
<1> QED
  BY <1>1, <1>2, <1>3, ActivationGoesOn

(* An end that changes nothing that is shared. *)
LEMMA RunningEnds ==
  ASSUME IInv, Running, NEW node, IsNode(node), TopNode(board, node), returned' = node, frames' = Front(frames), SharedSame
  PROVE  IInv'
<1> PICK S, h, n : RunningAt(S, h, n)
  BY RunningSituation
<1>1. /\ n \in Nat \ {0} /\ n = Len(frames) /\ frames \in Seq(S) /\ n \in {n, n + 1}
      /\ h[n] = Now /\ History(h, frames, n, Now, hole_id, fastest_first)
      /\ Worth(h, frames, n, returned, problem.root, hole_id) /\ h[n].board = board
  BY DEF RunningAt, Now, Snapshot
<1>2. UNCHANGED tables /\ SharedNext = h[n] /\ TopNode(h[n].board, node)
  BY <1>1 DEF SharedSame, SharedNext, Now
<1> PICK now : now = Now
  OBVIOUS
<1>3. History(h, frames, n, now, hole_id, fastest_first)
  BY <1>1
<1> QED
  BY <1>1, <1>2, <1>3, ActivationEnds

(* What the running activation knows, by the names of the variables. *)
LEMMA KnownTop ==
  ASSUME IInv, Running
  PROVE  Exact(Now) /\ Knows(Now, Top, hole_id, fastest_first) /\ Now.succ = succ /\ Now.board = board
         /\ Now.pred = pred /\ Now.parity = region_parity /\ Now.stack = flip_stack
         /\ TopValued(board, Top)
<1> PICK S, h, n : RunningAt(S, h, n)
  BY RunningSituation
<1>1. Now.succ = succ /\ Now.board = board /\ Now.pred = pred /\ Now.parity = region_parity /\ Now.stack = flip_stack
  BY DEF Now, Snapshot
<1> QED
  BY <1>1 DEF RunningAt

(* The values that are known when the loop goes on to the next square.     *)
LEMMA AdvancedTop ==
  ASSUME IInv, Running, Top.current_move # Nil,
         NEW g, SameSearch(Top, g), SameWindow(Top, g), SameRegions(Top, g), g.selected_n = Top.selected_n,
         g.current_move = succ[Top.current_move], MovesRated(Top) \subseteq MovesRated(g),
         \/ Top.current_move \notin Moves(board, Top.color)
         \/ Top.current_move \in MovesRated(g)
         \/ Top.fn = "parity" /\ hole_id[Top.current_move] \notin Top.parity_mask
  PROVE  TopValued(board, g)
<1>1. Exact(Now) /\ Knows(Now, Top, hole_id, fastest_first) /\ Now.succ = succ /\ Now.board = board
      /\ TopValued(board, Top)
  BY KnownTop
<1>2. Top.current_move \in EmptySquares(board)
  BY <1>1 DEF Knows, InLoop
<1>3. g.current_move = Following(EmptySquares(board), Top.current_move)
  BY <1>1, <1>2 DEF Exact, SuccFollows
<1> PICK low, high : low = Low(frames, Len(frames)) /\ high = High(frames, Len(frames))
  OBVIOUS
<1>4. Valued(board, Top, low, high, hole_id) /\ Top.color = Mover(frames, Len(frames), problem.root)
  BY <1>1 DEF TopValued
<1> PICK f : f = Top
  OBVIOUS
<1>5. Valued(board, g, low, high, hole_id)
  BY <1>2, <1>3, <1>4, AdvancedValued
<1>6. g.color = Top.color
  BY DEF SameSearch
<1> QED
  BY <1>4, <1>5, <1>6 DEF TopValued

(* One lemma for each action. A square that has no move, or is in no odd   *)
(* region.                                                                 *)
LEMMA SkipSquareKeeps ==
  ASSUME IInv, SkipSquare
  PROVE  IInv'
<1>1. Running /\ Top.current_move # Nil
  BY DEF SkipSquare, InList
<1>2. Exact(Now) /\ Knows(Now, Top, hole_id, fastest_first) /\ Now.succ = succ
  BY <1>1, KnownTop
<1> PICK g : g = Advanced(Top)
  OBVIOUS
<1>3. g = AdvancedTo(Top, Top.current_move, Now.succ[Top.current_move])
  BY <1>2 DEF Advanced, AdvancedTo
<1>4. Knows(Now, g, hole_id, fastest_first)
  BY <1>1, <1>2, <1>3, AdvancedKnows
<1>5. TopValued(board, g)
  <2>1. /\ SameSearch(Top, g) /\ SameWindow(Top, g) /\ SameRegions(Top, g) /\ g.selected_n = Top.selected_n
        /\ g.current_move = succ[Top.current_move] /\ g.goodness = Top.goodness
    <3>1. IsFrame(Top) /\ g = AdvancedTo(Top, Top.current_move, succ[Top.current_move])
      BY <1>2, <1>3 DEF Knows
    <3> QED
      BY ONLY <3>1, FrameAdvanced
  <2>2. MovesRated(Top) \subseteq MovesRated(g)
    BY <2>1 DEF MovesRated, SameSearch
  <2>3. \/ Top.current_move \notin Moves(board, Top.color)
        \/ Top.fn = "parity" /\ hole_id[Top.current_move] \notin Top.parity_mask
    <3>1. Top.fn \in {"parity", "no_parity"}
      BY <1>2 DEF Knows, BoardKnown, SkipSquare, InList
    <3> QED
      BY <3>1 DEF SkipSquare, Selected, Legal, Moves
  <2> QED
    BY <1>1, <2>1, <2>2, <2>3, AdvancedTop
<1>6. Turn(g) /\ SharedSame /\ returned' = returned
  BY DEF SkipSquare, SharedSame
<1> QED
  BY <1>1, <1>4, <1>6, <1>5, RunningGoesOn

(* The even regions start from the head of the list. *)
LEMMA EvenRegionsKeeps ==
  ASSUME IInv, EvenRegions
  PROVE  IInv'
<1>1. Running
  BY DEF EvenRegions
<1>2. Exact(Now) /\ Knows(Now, Top, hole_id, fastest_first) /\ Now.succ = succ /\ Now.board = board
      /\ TopValued(board, Top)
  BY <1>1, KnownTop
<1> PICK mask : mask = {hole_id[sq] : sq \in OnBoardIndexes} \ Top.parity_mask
  OBVIOUS
<1> PICK first : first = succ[em_head]
  OBVIOUS
<1> PICK g : g = EvenFrom(Top, 0, mask, em_head, first)
  OBVIOUS
<1>3. Turn(g) /\ SharedSame /\ returned' = returned
  BY DEF EvenRegions, SharedSame, EvenFrom
<1>4. /\ IsFrame(g) /\ SameSearch(Top, g) /\ SameWindow(Top, g) /\ g.par = 0 /\ g.parity_mask = mask
      /\ g.previous_move = em_head /\ g.current_move = first
      /\ g.goodness = Top.goodness /\ g.selected_n = Top.selected_n
  BY <1>2, FrameEven DEF Knows
<1>5. first = Following(EmptySquares(board), em_head) /\ EmptySquares(board) \subseteq OnBoardIndexes
  BY <1>2 DEF Exact, SuccFollows, EmptySquares
<1>6. first # Nil => first \in EmptySquares(board) /\ em_head = Preceding(EmptySquares(board), first)
  BY <1>5, LinksBack
<1>7. InLoop(g, Now.board)
  BY <1>2, <1>4, <1>6 DEF Knows, InLoop, SameSearch
<1>8. Knows(Now, g, hole_id, fastest_first)
  BY <1>2, <1>4, <1>7, KnownStill DEF Knows
<1>9. TopValued(board, g)
  <2> PICK low, high : low = Low(frames, Len(frames)) /\ high = High(frames, Len(frames))
    OBVIOUS
  <2>1. Valued(board, Top, low, high, hole_id) /\ Top.color = Mover(frames, Len(frames), problem.root)
    BY <1>2 DEF TopValued
  <2>2. Top.fn = "parity" /\ Top.par = 1 /\ Top.current_move = Nil
    BY DEF EvenRegions
  <2>3. g.current_move = Following(EmptySquares(board), em_head)
    BY <1>4, <1>5
  <2>4. Valued(board, g, low, high, hole_id)
    BY <1>4, <2>1, <2>2, <2>3, EvenValued
  <2>5. g.color = Top.color
    BY <1>4 DEF SameSearch
  <2> QED
    BY <2>1, <2>4, <2>5 DEF TopValued
<1> QED
  BY <1>1, <1>3, <1>8, <1>9, RunningGoesOn

(* Only squares with a move are rated. *)
LEMMA RateMoveKeeps ==
  ASSUME IInv, RateMove
  PROVE  IInv'
<1>1. Running /\ Top.current_move # Nil
  BY DEF RateMove, FirstLoop
<1>2. Exact(Now) /\ Knows(Now, Top, hole_id, fastest_first) /\ Now.succ = succ /\ Now.board = board
  BY <1>1, KnownTop
<1>3. SharedSame /\ returned' = returned
  BY DEF RateMove, SharedSame
<1> PICK d : d = Advanced(Top)
  OBVIOUS
<1>4. d = AdvancedTo(Top, Top.current_move, Now.succ[Top.current_move])
  BY <1>2 DEF Advanced, AdvancedTo
<1>5. Knows(Now, d, hole_id, fastest_first)
  BY <1>1, <1>2, <1>4, AdvancedKnows
<1>6. /\ SameSearch(Top, d) /\ SameWindow(Top, d) /\ SameRegions(Top, d) /\ d.selected_n = Top.selected_n
      /\ d.current_move = succ[Top.current_move] /\ d.goodness = Top.goodness
  <2>1. IsFrame(Top) /\ d = AdvancedTo(Top, Top.current_move, succ[Top.current_move])
    BY <1>2, <1>4 DEF Knows
  <2> QED
    BY ONLY <2>1, FrameAdvanced
<1>7. CASE Legal
  <2>1. PICK r : Turn([Advanced(Top) EXCEPT !.goodness = Rated(d.goodness, Top.current_move, r)])
    BY <1>7, Zenon DEF RateMove
  <2> PICK rated : rated = Rated(d.goodness, Top.current_move, r)
    OBVIOUS
  <2> PICK g : g = [d EXCEPT !.goodness = rated]
    OBVIOUS
  <2>2. Turn(g)
    BY <2>1
  <2>3. /\ IsFrame(g) /\ SameSearch(d, g) /\ SameWindow(d, g) /\ SameRegions(d, g)
        /\ g.previous_move = d.previous_move /\ g.current_move = d.current_move
        /\ g.goodness = rated /\ g.selected_n = d.selected_n
    BY <1>5, FrameRated DEF Knows
  <2>4. DOMAIN rated = DOMAIN d.goodness \cup {Top.current_move}
    BY DEF Rated
  <2>5. d.color = Top.color
    BY <1>2, <1>4, FrameAdvanced DEF Knows, SameSearch
  <2>6. Top.current_move \in Moves(Now.board, Top.color)
    BY <1>1, <1>2, <1>7 DEF Legal, Moves, Knows, InLoop
  <2>7. DOMAIN d.goodness \subseteq Moves(Now.board, d.color)
    BY <1>5 DEF Knows, InLoop
  <2>8. InLoop(g, Now.board)
    BY <1>5, <2>3, <2>4, <2>5, <2>6, <2>7 DEF Knows, InLoop, SameSearch
  <2>9. Knows(Now, g, hole_id, fastest_first)
    BY <1>5, <2>3, <2>8, KnownStill DEF Knows
  <2>10. TopValued(board, g)
    <3>1. /\ SameSearch(Top, g) /\ SameWindow(Top, g) /\ SameRegions(Top, g) /\ g.selected_n = Top.selected_n
          /\ g.current_move = succ[Top.current_move]
      BY <1>6, <2>3 DEF SameSearch, SameWindow, SameRegions
    <3>2. Top.fn = "fastest_first" /\ g.fn = "fastest_first"
      BY <3>1 DEF RateMove, FirstLoop, SameSearch
    <3>3. MovesRated(Top) \subseteq MovesRated(g) /\ Top.current_move \in MovesRated(g)
      BY <1>6, <2>3, <2>4, <3>2 DEF MovesRated
    <3> QED
      BY <1>1, <3>1, <3>3, AdvancedTop
  <2> QED
    BY <1>1, <1>3, <2>2, <2>9, <2>10, RunningGoesOn
<1>8. CASE ~Legal
  <2>1. Turn(d)
    BY <1>8 DEF RateMove
  <2>2. Top.current_move \notin Moves(board, Top.color)
    BY <1>8 DEF Legal, Moves
  <2>3. MovesRated(Top) \subseteq MovesRated(d)
    BY <1>6 DEF MovesRated, SameSearch
  <2>4. TopValued(board, d)
    BY <1>1, <1>6, <2>2, <2>3, AdvancedTop
  <2> QED
    BY <1>1, <1>3, <1>5, <2>1, <2>4, RunningGoesOn
<1> QED
  BY <1>7, <1>8

(* When no move is left, all have been searched. *)
LEMMA AllSearched ==
  ASSUME IInv, NoMoreMoves
  PROVE  /\ Searched(Top, board, hole_id) = Moves(board, Top.color)
         /\ BoardType(board) /\ Top.color \in {0, 2} /\ TopValued(board, Top)
<1>1. Running /\ Top.current_move = Nil
  BY DEF NoMoreMoves
<1>2. Exact(Now) /\ Knows(Now, Top, hole_id, fastest_first) /\ Now.board = board /\ TopValued(board, Top)
  BY <1>1, KnownTop
<1>3. MovesRated(Top) = {}
  BY DEF MovesRated, NoMoreMoves, MovesLeft
<1>4. \A x : Done(Top, x, hole_id)
  <2>1. Top.fn = "parity" => Top.par # 1
    BY DEF NoMoreMoves
  <2> QED
    BY <1>1, <2>1 DEF Done, Passed
<1>5. Searched(Top, board, hole_id) = Moves(board, Top.color)
  BY <1>3, <1>4 DEF Searched
<1> QED
  BY <1>2, <1>5 DEF Exact, Knows, BoardKnown

(* The best node is returned. *)
LEMMA ReturnKeeps ==
  ASSUME IInv, Return
  PROVE  IInv'
<1>1. Running
  BY DEF Return, NoMoreMoves
<1> PICK node : node = Top.selected_n
  OBVIOUS
<1>2. IsNode(node)
  BY <1>1, KnownTop DEF Knows, InLoop
<1>3. returned' = node /\ frames' = Front(frames) /\ SharedSame
  BY DEF Return, SharedSame
<1>4. TopNode(board, node)
  <2> PICK low, high : low = Low(frames, Len(frames)) /\ high = High(frames, Len(frames))
    OBVIOUS
  <2>1. NoMoreMoves /\ Top.selected_n.value # -infinity
    BY DEF Return, NoMoveFound
  <2>2. /\ Searched(Top, board, hole_id) = Moves(board, Top.color)
        /\ BoardType(board) /\ Top.color \in {0, 2} /\ TopValued(board, Top)
    BY <2>1, AllSearched
  <2>3. Valued(board, Top, low, high, hole_id) /\ Top.color = Mover(frames, Len(frames), problem.root)
    BY <2>2 DEF TopValued
  <2>4. NodeValued(board, Top.color, low, high, Top.selected_n)
    BY <2>1, <2>2, <2>3, AllSearchedValued
  <2> QED
    BY <2>3, <2>4 DEF TopNode
<1> QED
  BY <1>1, <1>2, <1>3, <1>4, RunningEnds

(* The player who passes has no move. *)
LEMMA NoMove ==
  ASSUME IInv, NoMoveFound
  PROVE  /\ Moves(board, Top.color) = {} /\ TopPassing(board, Top) /\ Top.selected_n.square = 0
         /\ Top.alpha = Low(frames, Len(frames))
         /\ BoardType(board) /\ Top.color \in {0, 2} /\ TopValued(board, Top)
<1> PICK low, high : low = Low(frames, Len(frames)) /\ high = High(frames, Len(frames))
  OBVIOUS
<1>1. NoMoreMoves /\ Top.selected_n.value = -infinity
  BY DEF NoMoveFound
<1>2. /\ Searched(Top, board, hole_id) = Moves(board, Top.color)
      /\ BoardType(board) /\ Top.color \in {0, 2} /\ TopValued(board, Top)
  BY <1>1, AllSearched
<1>3. Valued(board, Top, low, high, hole_id)
  BY <1>2 DEF TopValued
<1>4. Moves(board, Top.color) = {} /\ Top.alpha = low
  BY <1>1, <1>2, <1>3, NoMoveValued
<1>5. Top.selected_n.square = 0
  BY <1>1, <1>3 DEF Valued, BestMove
<1> QED
  BY <1>2, <1>4, <1>5 DEF TopPassing, Passing

(* The game is over: a node with another value is returned. *)
LEMMA GameOverKeeps ==
  ASSUME IInv, GameOver
  PROVE  IInv'
<1>1. Running
  BY DEF GameOver, NoMoveFound, NoMoreMoves
<1> PICK v : v = IF Top.discdiff > 0 THEN Top.discdiff + Top.empties
                 ELSE IF Top.discdiff < 0 THEN Top.discdiff - Top.empties ELSE 0
  OBVIOUS
<1> PICK node : node = [Top.selected_n EXCEPT !.value = v]
  OBVIOUS
<1>2. IsNode(Top.selected_n)
  BY <1>1, KnownTop DEF Knows, InLoop
<1>3. IsNode(node) /\ node.square = Top.selected_n.square /\ node.value = v
  <2>1. node = [value |-> node.value, square |-> node.square] /\ node.square = Top.selected_n.square
    BY <1>2, NodeNegated DEF IsNode
  <2>2. node.value = v
    BY <1>2 DEF IsNode
  <2> QED
    BY <1>2, <2>1, <2>2 DEF IsNode
<1>4. returned' = node /\ frames' = Front(frames) /\ SharedSame
  BY DEF GameOver, SharedSame
<1>5. TopNode(board, node)
  <2> PICK low, high : low = Low(frames, Len(frames)) /\ high = High(frames, Len(frames))
    OBVIOUS
  <2>1. NoMoveFound /\ Top.pass_before
    BY DEF GameOver
  <2>2. /\ Moves(board, Top.color) = {} /\ Top.selected_n.square = 0
        /\ BoardType(board) /\ Top.color \in {0, 2} /\ TopValued(board, Top)
    BY <2>1, NoMove
  <2>3. Valued(board, Top, low, high, hole_id) /\ Top.color = Mover(frames, Len(frames), problem.root)
    BY <2>2 DEF TopValued
  <2>4. Moves(board, opponent_color(Top.color)) = {} /\ low \in Scores /\ high \in Scores
    BY <2>1, <2>3 DEF Valued, PassedBefore, Window
  <2>5. node.value = EndValue(Count(board, Top.color) - Count(board, opponent_color(Top.color)),
                              Count(board, IFES_EMPTY))
    <3>1. Knows(Now, Top, hole_id, fastest_first) /\ Now.board = board
      BY <1>1, KnownTop
    <3>2. /\ Top.empties = Count(board, IFES_EMPTY)
          /\ Top.discdiff = Count(board, Top.color) - Count(board, opponent_color(Top.color))
      BY <3>1 DEF Knows, BoardKnown
    <3>3. node.value = EndValue(Top.discdiff, Top.empties)
      BY <1>3 DEF EndValue
    <3> QED
      BY <3>2, <3>3
  <2>6. NodeValued(board, Top.color, low, high, node)
    BY <1>3, <2>2, <2>4, <2>5, GameOverValued
  <2> QED
    BY <2>3, <2>6 DEF TopNode
<1> QED
  BY <1>1, <1>3, <1>4, <1>5, RunningEnds

(* The move sq has a value for the activation on top. *)
LEMMA EvaluatedStep ==
  ASSUME IInv, NEW S, frames \in Seq(S), NEW n \in Nat \ {0}, n = Len(frames), NEW m \in {n, n + 1}, NEW h,
         NEW now, History(h, frames, m, now, hole_id, fastest_first), Top = frames[n],
         Worth(h, frames, m, returned, problem.root, hole_id), TopValued(h[n].board, Top),
         NEW sq \in Moves(h[n].board, Top.color), Top.fn # "fastest_first" => Top.current_move = sq,
         succ[sq] = h[n].succ[sq], NEW value, Evaluated(value, sq),
         Bounds(value, MoveValue(h[n].board, sq, Top.color), Top.alpha, Top.beta),
         SharedNext = h[n], UNCHANGED tables
  PROVE  IInv'
<1>1. Exact(h[n]) /\ Knows(h[n], Top, hole_id, fastest_first)
  <2>1. n \in 1 .. m /\ n \in 1 .. Len(frames)
    OBVIOUS
  <2> QED
    BY <2>1 DEF History
<1>2. sq \in EmptySquares(h[n].board) /\ BoardType(h[n].board) /\ Top.color \in {0, 2} /\ IsFrame(Top)
  BY <1>1 DEF Moves, Exact, Knows, BoardKnown
<1> PICK low, high : low = Low(frames, Len(frames)) /\ high = High(frames, Len(frames))
  OBVIOUS
<1>3. Valued(h[n].board, Top, low, high, hole_id) /\ Top.color = Mover(frames, Len(frames), problem.root)
  BY DEF TopValued
<1> PICK b : b = Better(Top, value, sq)
  OBVIOUS
<1>4. IsNode(b.selected_n)
  BY <1>1, <1>2, EvaluatedKnows
<1> PICK g : g = IF Top.fn = "fastest_first"
                 THEN [b EXCEPT !.goodness = Restrict(b.goodness, DOMAIN Top.goodness \ {sq})]
                 ELSE AdvancedTo(b, b.current_move, h[n].succ[b.current_move])
  OBVIOUS
<1>5. Knows(h[n], g, hole_id, fastest_first)
  BY <1>1, <1>2, EvaluatedKnows
<1>6. CASE Cutoff(Top, value)
  <2> PICK node : node = b.selected_n
    OBVIOUS
  <2>1. returned' = node /\ frames' = Front(frames)
    BY <1>6 DEF Evaluated
  <2>2. IsNode(node)
    BY <1>4
  <2>3. TopNode(h[n].board, node)
    <3>1. NodeValued(h[n].board, Top.color, low, high, Better(Top, value, sq).selected_n)
      BY <1>6, <1>2, <1>3, CutoffValued
    <3> QED
      BY <1>3, <3>1 DEF TopNode
  <2> QED
    BY <2>1, <2>2, <2>3, ActivationEnds
<1>7. CASE ~Cutoff(Top, value)
  <2>1. TopValued(h[n].board, g)
    <3>1. Valued(h[n].board, g, low, high, hole_id)
      BY <1>1, <1>7, <1>3, EvaluatedValued
    <3>2. g.color = Top.color
      <4>1. BoardKnown(h[n], g, hole_id, fastest_first)
        BY <1>5 DEF Knows
      <4>2. b.color = Top.color /\ IsFrame(b)
        <5>1. sq \in Nat
          BY <1>2, EmptyOnBoard
        <5>2. SameSearch(Top, Better(Top, value, sq)) /\ IsFrame(Better(Top, value, sq))
          BY <1>2, <5>1, FrameBetter
        <5> QED
          BY <5>2 DEF SameSearch
      <4>3. g.color = b.color
        BY <4>2, FrameRated, FrameAdvanced DEF SameSearch
      <4> QED
        BY <4>2, <4>3
    <3> QED
      BY <1>3, <3>1, <3>2 DEF TopValued
  <2>2. /\ returned' = None
        /\ Turn(IF Top.fn = "fastest_first" THEN [b EXCEPT !.goodness = Restrict(b.goodness, MovesLeft \ {sq})]
                ELSE Advanced(b))
    BY <1>7 DEF Evaluated
  <2>3. CASE Top.fn = "fastest_first"
    <3>1. Turn(g)
      BY <2>2, <2>3 DEF MovesLeft
    <3>2. frames' = [frames EXCEPT ![n] = g] /\ returned' = None
      BY <2>2, <3>1 DEF Turn
    <3> QED
      BY <1>5, <2>1, <3>2, ActivationGoesOn
  <2>4. CASE Top.fn # "fastest_first"
    <3>1. sq \in Nat
      BY <1>2, EmptyOnBoard
    <3>2. b.current_move = sq
      <4>1. IsFrame(Top)
        BY <1>1 DEF Knows
      <4>2. Better(Top, value, sq).current_move = Top.current_move
        BY <4>1 DEF Better, IsFrame
      <4> QED
        BY <2>4, <4>2
    <3>3. Advanced(b) = g
      BY <2>4, <3>2 DEF Advanced, AdvancedTo
    <3>4. Turn(g)
      BY <2>2, <2>4, <3>3
    <3>5. frames' = [frames EXCEPT ![n] = g] /\ returned' = None
      BY <2>2, <3>4 DEF Turn
    <3> QED
      BY <1>5, <2>1, <3>5, ActivationGoesOn
  <2> QED
    BY <2>3, <2>4
<1> QED
  BY <1>6, <1>7

(* The list without one of the last two empty squares has the other.       *)
LEMMA LastOfTwo ==
  ASSUME NEW s, Exact(s), NEW f, NEW id, NEW ff, Knows(s, f, id, ff), f.empties = 2,
         NEW sq, sq = f.current_move, sq # Nil,
         NEW last, last = [s.succ EXCEPT ![f.previous_move] = s.succ[sq]][em_head]
  PROVE  EmptySquares(s.board) \ {sq} = {last}
<1> DEFINE E == EmptySquares(s.board)
           p == Preceding(E, sq)
           n == Following(E, sq)
<1>1. /\ sq \in E /\ E \subseteq OnBoardIndexes /\ f.previous_move = p /\ s.succ[sq] = n
      /\ s.succ \in [Nodes -> Nodes \cup {Nil}] /\ s.succ[em_head] = Following(E, em_head)
  BY DEF Knows, InLoop, Exact, SuccFollows, EmptySquares
<1>2. LinksAround(E, sq, p, n) /\ LinksWithout(E, sq, p, n)
  BY <1>1, Unlinked
<1>3. Cardinality(E) = 2 /\ IsFiniteSet(E)
  <2>1. Cardinality(E) = 2
    BY DEF Knows, BoardKnown, Count, EmptySquares
  <2>2. IsFiniteSet(E)
    BY <1>1, OnBoardFinite, FS_Subset
  <2> QED
    BY <2>1, <2>2
<1> HIDE DEF E, p, n
<1> PICK R : R = E \ {sq}
  OBVIOUS
<1>4. PICK x : R = {x}
  <2>1. /\ IsFiniteSet(E \ {sq})
        /\ Cardinality(E \ {sq}) = IF sq \in E THEN Cardinality(E) - 1 ELSE Cardinality(E)
    BY <1>3, FS_RemoveElement
  <2>2. Cardinality(E \ {sq}) = 1
    BY <1>1, <1>3, <2>1
  <2>3. IsFiniteSet(R) /\ Cardinality(R) = 1
    BY <2>1, <2>2
  <2> QED
    BY <2>3, FS_Singleton
<1>5. x \in R /\ R \subseteq OnBoardIndexes /\ em_head \in Nodes
  BY <1>1, <1>4 DEF Nodes
<1>6. Following(R, em_head) = x
  <2>1. Rank(x) < Rank(em_head) /\ Rank(x) \in Nat
    BY <1>5, RankOfSquare
  <2>2. IsNext(R, em_head, x)
    BY <1>4, <2>1 DEF IsNext
  <2> QED
    BY <1>5, <2>2, FollowingIsNext
<1>7. last = Following(R, em_head)
  <2>1. em_head \in DOMAIN s.succ
    BY <1>1, <1>5
  <2>2. last = IF em_head = p THEN n ELSE s.succ[em_head]
    BY <1>1, <2>1 DEF Knows
  <2>3. Following(R, em_head) = IF em_head = p THEN n ELSE Following(E, em_head)
    BY <1>2 DEF LinksWithout
  <2> QED
    BY <1>1, <2>2, <2>3
<1> QED
  BY <1>4, <1>6, <1>7 DEF E

(* The value of the move is exact. *)
LEMMA LastTwoExact ==
  ASSUME IInv, Running, Top.fn = "no_parity", Top.empties = 2, Top.current_move # Nil, Legal,
         NEW b, b = Placed(board, Top.current_move, flips(board, Top.current_move, Top.color), Top.color),
         NEW value, value = LastTwoValue(Top.current_move, b)
  PROVE  /\ Top.current_move \in Moves(board, Top.color)
         /\ Bounds(value, MoveValue(board, Top.current_move, Top.color), Top.alpha, Top.beta)
<1> PICK sq : sq = Top.current_move
  OBVIOUS
<1> PICK last : last = [succ EXCEPT ![Top.previous_move] = succ[sq]][em_head]
  OBVIOUS
<1>1. Exact(Now) /\ Knows(Now, Top, hole_id, fastest_first) /\ Now.succ = succ /\ Now.board = board
  BY KnownTop
<1>2. EmptySquares(board) \ {sq} = {last}
  BY <1>1, LastOfTwo
<1>3. /\ BoardType(board) /\ Top.color \in {0, 2} /\ Count(board, IFES_EMPTY) = 2
      /\ Top.discdiff = Count(board, Top.color) - Count(board, opponent_color(Top.color))
      /\ sq \in EmptySquares(board)
  BY <1>1 DEF Exact, Knows, BoardKnown, InLoop
<1>4. sq \in Moves(board, Top.color)
  BY <1>3 DEF Moves, Legal
<1>5. value = LastTwo(Top.discdiff, Len(flips(board, sq, Top.color)),
                      Len(flips(b, last, opponent_color(Top.color))), Len(flips(b, last, Top.color)))
  BY DEF LastTwoValue, LastTwo
<1> PICK color : color = Top.color
  OBVIOUS
<1>6. MoveValue(board, sq, color)
        = LastTwo(Count(board, color) - Count(board, opponent_color(color)), Len(flips(board, sq, color)),
                  Len(flips(b, last, opponent_color(color))), Len(flips(b, last, color)))
  BY <1>2, <1>3, <1>4, LastTwoIsMoveValue
<1>7. value = MoveValue(board, sq, Top.color)
  BY <1>3, <1>5, <1>6
<1>8. value \in Scores
  BY <1>3, <1>4, <1>7, BoardValue DEF ValueFollows
<1>9. Bounds(value, value, Top.alpha, Top.beta)
  <2> PICK alpha, beta : alpha = Top.alpha /\ beta = Top.beta
    OBVIOUS
  <2> QED
    BY <1>8, ExactBounds
<1> QED
  BY <1>4, <1>7, <1>9

(* Both discs are placed and taken back in one step. *)
LEMMA PlaceLastTwoKeeps ==
  ASSUME IInv, PlaceLastTwo
  PROVE  IInv'
<1>1. Running /\ Top.current_move # Nil /\ Top.fn = "no_parity"
  BY DEF PlaceLastTwo, InList
<1> PICK S, h, n : RunningAt(S, h, n)
  BY <1>1, RunningSituation
<1>2. /\ n \in Nat \ {0} /\ n = Len(frames) /\ frames \in Seq(S) /\ n \in {n, n + 1} /\ Top = frames[n]
      /\ h[n] = Now /\ History(h, frames, n, Now, hole_id, fastest_first)
      /\ Worth(h, frames, n, returned, problem.root, hole_id) /\ h[n].board = board
  BY DEF RunningAt, Now, Snapshot
<1> PICK now : now = Now
  OBVIOUS
<1>3. History(h, frames, n, now, hole_id, fastest_first)
  BY <1>2
<1> PICK sq : sq = Top.current_move
  OBVIOUS
<1>4. PICK b : /\ b = Placed(board, sq, flips(board, sq, Top.color), Top.color)
               /\ Evaluated(LastTwoValue(sq, b), sq)
  BY Zenon DEF PlaceLastTwo
<1> PICK value : value = LastTwoValue(sq, b)
  OBVIOUS
<1>5. Evaluated(value, sq)
  BY <1>4
<1>6. sq \in Moves(board, Top.color) /\ Bounds(value, MoveValue(board, sq, Top.color), Top.alpha, Top.beta)
  <2>1. Top.empties = 2 /\ Legal
    BY DEF PlaceLastTwo
  <2> QED
    BY <1>1, <1>4, <2>1, LastTwoExact
<1>7. TopValued(board, Top)
  BY <1>1, KnownTop
<1>8. Knows(Now, Top, hole_id, fastest_first) /\ Now.succ = succ /\ Now.board = board
  BY <1>1, KnownTop
<1>9. sq \in Moves(h[n].board, Top.color) /\ succ[sq] = h[n].succ[sq] /\ Top.current_move = sq
  BY <1>2, <1>8, <1>6
<1>10. SharedNext = h[n] /\ UNCHANGED tables
  BY <1>2 DEF PlaceLastTwo, SharedNext, Now
<1>11. /\ Bounds(value, MoveValue(h[n].board, sq, Top.color), Top.alpha, Top.beta)
       /\ TopValued(h[n].board, Top)
  BY <1>2, <1>6, <1>7
<1> QED
  BY <1>2, <1>3, <1>5, <1>9, <1>10, <1>11, EvaluatedStep

(* The move is taken back: what is shared is again what it was when the    *)
(* activation called.                                                      *)
LEMMA TakeBackKeeps ==
  ASSUME IInv, TakeBack
  PROVE  IInv'
<1>1. frames # << >> /\ returned # None /\ Top.flip_count > 0
  BY DEF TakeBack
<1> PICK S, h, n : ReturnedAt(S, h, n)
  BY <1>1, ReturnedSituation
<1>2. /\ n \in Nat \ {0} /\ n = Len(frames) /\ frames \in Seq(S) /\ n + 1 \in {n, n + 1} /\ Top = frames[n]
      /\ Now = Moved(h[n], Top, hole_id) /\ Exact(h[n]) /\ Waits(h[n], Top)
      /\ Knows(h[n], Top, hole_id, fastest_first)
      /\ History(h, frames, n + 1, Now, hole_id, fastest_first)
      /\ Worth(h, frames, n + 1, returned, problem.root, hole_id) /\ TopValued(h[n].board, Top)
      /\ NodeValued(board, opponent_color(Top.color), -Top.beta, -Top.alpha, returned)
  BY DEF ReturnedAt
<1> PICK now : now = Now
  OBVIOUS
<1> PICK sq : sq = Top.move_square
  OBVIOUS
<1> PICK value : value = -returned.value
  OBVIOUS
<1>3. Evaluated(value, sq) /\ UNCHANGED tables
  BY Zenon DEF TakeBack
<1>4. Top.flip_count # 0
  BY <1>1
<1>5. MadeMove(h[n], Top, hole_id, Now)
  BY <1>2, <1>4, MoveMade
<1>6. Now.board = board /\ Now.succ = succ /\ Now.pred = pred /\ Now.parity = region_parity /\ Now.stack = flip_stack
  BY DEF Now, Snapshot
<1>7. /\ sq \in Moves(h[n].board, Top.color) /\ (Top.fn # "fastest_first" => Top.current_move = sq)
  <2>1. /\ sq \in EmptySquares(h[n].board) /\ Len(flips(h[n].board, sq, Top.color)) # 0
        /\ (Top.fn # "fastest_first" => Top.current_move = sq)
    BY <1>2, <1>4 DEF Waits
  <2>2. flips(h[n].board, sq, Top.color) # << >>
    BY <2>1
  <2> QED
    BY <2>1, <2>2 DEF Moves
<1>8. Bounds(value, MoveValue(h[n].board, sq, Top.color), Top.alpha, Top.beta)
  <2> PICK alpha, beta, color : alpha = Top.alpha /\ beta = Top.beta /\ color = Top.color
    OBVIOUS
  <2> PICK b, c, node : b = h[n].board /\ c = board /\ node = returned
    OBVIOUS
  <2>1. BoardType(b) /\ color \in {0, 2} /\ sq \in Moves(b, color)
    BY <1>2, <1>7 DEF Exact, Knows, BoardKnown
  <2>2. c = Placed(b, sq, flips(b, sq, color), color)
    BY <1>2, <1>4, <1>6 DEF Moved, Snapshot
  <2>3. alpha \in Scores /\ beta \in Scores
    BY <1>2 DEF TopValued, Valued, Window
  <2>4. NodeValued(c, opponent_color(color), -beta, -alpha, node)
    BY <1>2
  <2>5. Bounds(-node.value, MoveValue(b, sq, color), alpha, beta)
    BY <2>1, <2>2, <2>3, <2>4, MoveBounds
  <2> QED
    BY <2>5
<1>9. succ[sq] = h[n].succ[sq]
  BY <1>5, <1>6 DEF MadeMove
<1>10. board' = h[n].board
  <2>1. board' = [i \in Indexes |-> IF i = sq THEN IFES_EMPTY
                   ELSE IF i \in {flip_stack[j] : j \in (Len(flip_stack) - Top.flip_count) + 1 .. Len(flip_stack)}
                   THEN opponent_color(Top.color) ELSE board[i]]
    BY DEF TakeBack
  <2> QED
    BY <2>1, <1>5, <1>6 DEF MadeMove
<1>11. flip_stack' = h[n].stack
  BY <1>5, <1>6 DEF MadeMove, TakeBack
<1>12. region_parity' = h[n].parity
  BY <1>5, <1>6 DEF MadeMove, TakeBack, Toggled
<1>13. succ' = h[n].succ
  BY <1>5, <1>6 DEF MadeMove, TakeBack
<1>14. pred' = h[n].pred
  BY <1>5, <1>6 DEF MadeMove, TakeBack
<1>15. SharedNext = h[n]
  BY <1>2, <1>10, <1>11, <1>12, <1>13, <1>14 DEF SharedNext, Exact
<1>16. History(h, frames, n + 1, now, hole_id, fastest_first)
  BY <1>2
<1> QED
  BY <1>2, <1>3, <1>7, <1>9, <1>15, <1>16, <1>8, EvaluatedStep

(* The activation that passed has changed nothing. *)
LEMMA ReturnAfterPassKeeps ==
  ASSUME IInv, ReturnAfterPass
  PROVE  IInv'
<1>1. frames # << >> /\ returned # None /\ Top.flip_count = 0
  BY DEF ReturnAfterPass
<1> PICK S, h, n : ReturnedAt(S, h, n)
  BY <1>1, ReturnedSituation
<1>2. /\ n \in Nat \ {0} /\ n = Len(frames) /\ frames \in Seq(S) /\ n + 1 \in {n, n + 1} /\ Top = frames[n]
      /\ Now = Moved(h[n], Top, hole_id) /\ IsNode(returned)
      /\ History(h, frames, n + 1, Now, hole_id, fastest_first) /\ Exact(h[n])
      /\ Knows(h[n], Top, hole_id, fastest_first)
      /\ Worth(h, frames, n + 1, returned, problem.root, hole_id) /\ TopValued(h[n].board, Top)
      /\ TopPassing(h[n].board, Top)
      /\ NodeValued(board, opponent_color(Top.color), -Top.beta, -Top.alpha, returned)
  BY DEF ReturnedAt
<1> PICK now : now = Now
  OBVIOUS
<1>3. Now = h[n]
  BY <1>1, <1>2 DEF Moved
<1> PICK node : node = [returned EXCEPT !.value = -returned.value]
  OBVIOUS
<1>4. IsNode(node) /\ node.square = returned.square /\ node.value = -returned.value
  <2>1. node = [value |-> node.value, square |-> node.square] /\ node.square = returned.square
    BY <1>2, NodeNegated DEF IsNode
  <2>2. node.value = -returned.value
    BY <1>2 DEF IsNode
  <2> QED
    BY <1>2, <2>1, <2>2 DEF IsNode
<1>5. returned' = node /\ frames' = Front(frames) /\ UNCHANGED tables
  BY DEF ReturnAfterPass
<1>6. SharedNext = h[n]
  BY <1>3 DEF ReturnAfterPass, SharedNext, Now
<1>7. History(h, frames, n + 1, now, hole_id, fastest_first)
  BY <1>2
<1>8. TopNode(h[n].board, node)
  <2> PICK low, high, color : low = Low(frames, Len(frames)) /\ high = High(frames, Len(frames)) /\ color = Top.color
    OBVIOUS
  <2> PICK b, last : b = h[n].board /\ last = returned
    OBVIOUS
  <2>1. Moves(b, color) = {} /\ Top.alpha = low
    BY <1>1, <1>2 DEF TopPassing, Passing
  <2>2. Top.beta = high /\ low \in Scores /\ high \in Scores /\ color = Mover(frames, Len(frames), problem.root)
    BY <1>2 DEF TopValued, Valued, Window
  <2>3. BoardType(b) /\ color \in {0, 2}
    BY <1>2 DEF Exact, Knows, BoardKnown
  <2>4. board = b
    BY <1>3 DEF Now, Snapshot
  <2>5. NodeValued(b, opponent_color(color), -high, -low, last)
    BY <1>2, <2>1, <2>2, <2>4
  <2>6. NodeValued(b, color, low, high, node)
    BY <1>4, <2>1, <2>2, <2>3, <2>5, PassValued
  <2> QED
    BY <2>2, <2>6 DEF TopNode
<1> QED
  BY <1>2, <1>4, <1>5, <1>6, <1>7, <1>8, ActivationEnds

(* The running activation makes the move sq and calls fn. *)
LEMMA MoveCalls ==
  ASSUME IInv, Running, NEW sq \in Moves(board, Top.color), Top.fn # "fastest_first" => Top.current_move = sq,
         NEW fn \in {"fastest_first", "parity", "no_parity"},
         fn = "fastest_first" => Top.fn = "fastest_first",
         fn # "no_parity" => Top.fn # "no_parity",
         fn = "parity" => Top.empties - 1 <= fastest_first,
         PlayMove(sq),
         succ' = [succ EXCEPT ![IF Top.fn = "fastest_first" THEN pred[sq] ELSE Top.previous_move] = succ[sq]],
         pred' = IF Top.fn = "fastest_first" /\ succ[sq] # Nil THEN [pred EXCEPT ![succ[sq]] = pred[sq]] ELSE pred,
         region_parity' = IF Top.fn = "no_parity" THEN region_parity ELSE Toggled(hole_id[sq]),
         CallAfter(sq, fn), UNCHANGED <<tables, returned>>
  PROVE  IInv'
<1> PICK S, h, n : RunningAt(S, h, n)
  BY RunningSituation
<1>1. /\ n \in Nat \ {0} /\ n = Len(frames) /\ frames \in Seq(S)
      /\ History(h, frames, n, Now, hole_id, fastest_first)
      /\ Worth(h, frames, n, returned, problem.root, hole_id) /\ TopValued(board, Top)
  BY DEF RunningAt
<1> PICK s : s = Now
  OBVIOUS
<1>2. /\ Exact(s) /\ Knows(s, Top, hole_id, fastest_first) /\ s.succ = succ /\ s.board = board
      /\ s.pred = pred /\ s.parity = region_parity /\ s.stack = flip_stack
  BY KnownTop
<1> PICK turned : turned = flips(board, sq, Top.color)
  OBVIOUS
<1> PICK k : k = Len(turned)
  OBVIOUS
<1>3. sq \in EmptySquares(board) /\ turned # << >>
  BY DEF Moves
<1>4. k \in Nat \ {0} /\ k # 0
  <2>1. BoardType(board) /\ Top.color \in {0, 2} /\ sq \in OnBoardIndexes
    BY <1>2, <1>3 DEF Exact, Knows, BoardKnown, EmptySquares
  <2>2. turned \in Seq(OnBoardIndexes)
    BY <2>1, TurnedDiscsOfMove DEF TurnedDiscs
  <2> QED
    BY <1>3, <2>2
<1> PICK f : f = CallingFrom(Top, k, sq)
  OBVIOUS
<1>5. /\ IsFrame(f) /\ SameSearch(Top, f) /\ SameWindow(Top, f) /\ SameRegions(Top, f)
      /\ f.previous_move = Top.previous_move /\ f.current_move = Top.current_move /\ f.goodness = Top.goodness
      /\ f.selected_n = Top.selected_n /\ f.flip_count = k /\ f.move_square = sq
  BY <1>2, FrameCalling DEF Knows
<1>6. f.fn = Top.fn /\ f.color = Top.color /\ f.empties = Top.empties /\ f.discdiff = Top.discdiff
  BY <1>5 DEF SameSearch
<1>7. Knows(s, f, hole_id, fastest_first)
  <2>1. BoardKnown(s, f, hole_id, fastest_first)
    BY <1>2, <1>5, KnownStill DEF Knows
  <2>2. InLoop(f, s.board)
    BY <1>2, <1>5, <1>6 DEF Knows, InLoop
  <2> QED
    BY <1>5, <2>1, <2>2 DEF Knows
<1>8. Waits(s, f)
  BY <1>2, <1>3, <1>4, <1>5, <1>6 DEF Waits
<1> PICK t : t = Moved(s, f, hole_id)
  OBVIOUS
<1>9. t = SharedNext
  <2>1. board' = Placed(board, sq, turned, Top.color) /\ flip_stack' = flip_stack \o turned
    BY DEF PlayMove
  <2>2. NodeBefore(s, f) = IF Top.fn = "fastest_first" THEN pred[sq] ELSE Top.previous_move
    BY <1>2, <1>5, <1>6 DEF NodeBefore
  <2> PICK before : before = NodeBefore(s, f)
    OBVIOUS
  <2>3. succ' = [succ EXCEPT ![before] = succ[sq]]
    BY <2>2
  <2>4. t = Snapshot(Placed(s.board, sq, turned, f.color),
                    [s.succ EXCEPT ![before] = s.succ[sq]],
                    IF f.fn = "fastest_first" /\ s.succ[sq] # Nil
                    THEN [s.pred EXCEPT ![s.succ[sq]] = s.pred[sq]] ELSE s.pred,
                    IF f.fn = "no_parity" THEN s.parity ELSE SymDiff(s.parity, {hole_id[sq]}),
                    s.stack \o turned)
    BY <1>2, <1>4, <1>5, <1>6 DEF Moved
  <2>5. /\ pred' = IF f.fn = "fastest_first" /\ s.succ[sq] # Nil
                   THEN [s.pred EXCEPT ![s.succ[sq]] = s.pred[sq]] ELSE s.pred
        /\ region_parity' = IF f.fn = "no_parity" THEN s.parity ELSE SymDiff(s.parity, {hole_id[sq]})
    BY <1>2, <1>6 DEF Toggled
  <2>6. board' = Placed(s.board, sq, turned, f.color) /\ flip_stack' = s.stack \o turned
        /\ succ' = [s.succ EXCEPT ![before] = s.succ[sq]]
    BY <1>2, <1>6, <2>1, <2>3
  <2> QED
    BY <2>4, <2>5, <2>6 DEF SharedNext
<1> PICK a : a = CallArguments(k)
  OBVIOUS
<1>10. a.color = opponent_color(f.color) /\ a.empties = f.empties - 1 /\ a.discdiff = -f.discdiff - 2 * f.flip_count - 1
  BY <1>4, <1>5, <1>6 DEF CallArguments
<1>11. t.succ = succ' /\ t.parity = region_parity'
  BY <1>9 DEF SharedNext, Snapshot
<1> PICK g : g = Activation(fn, a, t.succ[em_head], t.parity)
  OBVIOUS
<1>12. Exact(t) /\ Knows(t, g, hole_id, fastest_first)
  <2>1. /\ fn = "fastest_first" => f.fn = "fastest_first"
        /\ fn # "no_parity" => f.fn # "no_parity"
        /\ fn = "parity" => f.empties - 1 <= fastest_first
        /\ f.flip_count # 0
    BY <1>4, <1>5, <1>6
  <2> QED
    BY <1>2, <1>7, <1>8, <1>10, <2>1, MadeCallKnows
<1>13. frames' = Called(frames, f, g)
  BY <1>11 DEF CallAfter, Called, CallingFrom
<1>14. returned' = None /\ UNCHANGED tables
  BY DEF Running
<1>15. History(h, frames, n, s, hole_id, fastest_first)
  BY <1>1
<1>16. SharedNext = t
  BY <1>9
<1>17. TopValued(s.board, f) /\ TopPassing(s.board, f)
  <2>1. Searched(f, board, hole_id) = Searched(Top, board, hole_id)
    BY <1>5, <1>6 DEF Searched, MovesRated, Done, Passed, SameRegions
  <2> PICK low, high : low = Low(frames, Len(frames)) /\ high = High(frames, Len(frames))
    OBVIOUS
  <2>2. Valued(board, Top, low, high, hole_id) /\ Top.color = Mover(frames, Len(frames), problem.root)
    BY <1>1 DEF TopValued
  <2>3. SearchedBounded(board, f, hole_id)
    BY <1>5, <1>6, <2>1, <2>2 DEF Valued, SearchedBounded
  <2>4. Valued(board, f, low, high, hole_id)
    BY <1>5, <2>2, <2>3, ValuedStill
  <2>5. TopPassing(s.board, f)
    BY <1>4, <1>5 DEF TopPassing, Passing
  <2> QED
    BY <1>2, <1>6, <2>2, <2>4, <2>5 DEF TopValued
<1>18. Valued(t.board, g, -f.beta, -f.alpha, hole_id) /\ g.color = opponent_color(f.color)
  <2>1. f.alpha = Top.alpha /\ f.beta = Top.beta
    BY <1>5 DEF SameWindow
  <2>2. a.alpha = -f.beta /\ a.beta = -f.alpha /\ a.pass_before = FALSE
    BY <1>4, <2>1 DEF CallArguments
  <2>3. f.alpha \in Scores /\ f.beta \in Scores /\ f.alpha < f.beta
    BY <1>1, <2>1 DEF TopValued, Valued, Window
  <2>4. -f.beta \in Scores /\ -f.alpha \in Scores /\ -f.beta < -f.alpha
    BY <2>3, ScoreRange
  <2> PICK low, high : low = -f.beta /\ high = -f.alpha
    OBVIOUS
  <2> PICK b, first, parity : b = t.board /\ first = t.succ[em_head] /\ parity = t.parity
    OBVIOUS
  <2>5. first = Following(EmptySquares(b), em_head)
    BY <1>12 DEF Exact, SuccFollows
  <2>6. Valued(b, Activation(fn, a, first, parity), low, high, hole_id)
    BY <2>2, <2>4, <2>5, StartedValued
  <2>7. g.color = a.color
    BY DEF Activation
  <2> QED
    BY <1>10, <2>6, <2>7
<1> QED
  BY <1>1, <1>7, <1>8, <1>12, <1>13, <1>14, <1>15, <1>16, <1>17, <1>18, ActivationCalls

(* The settings are numbers. *)
LEMMA SettingsAreInt ==
  ASSUME IInv
  PROVE  fastest_first \in Int /\ use_parity \in Int
BY ProblemsAssumption DEF IInv, ProblemChosen, fastest_first, use_parity

(* parity_end_solve calls itself or no_parity_end_solve, never             *)
(* fastest_first_end_solve.                                                *)
LEMMA SearchMoveKeeps ==
  ASSUME IInv, SearchMove
  PROVE  IInv'
<1>1. Running /\ Top.fn # "fastest_first" /\ Top.current_move # Nil /\ Legal
  BY DEF SearchMove, InList
<1> PICK sq : sq = Top.current_move
  OBVIOUS
<1>2. Knows(Now, Top, hole_id, fastest_first) /\ Now.board = board
  BY <1>1, KnownTop
<1>3. sq \in Moves(board, Top.color) /\ Top.current_move = sq
  BY <1>1, <1>2 DEF Legal, Moves, Knows, InLoop
<1> PICK fn : fn = IF Top.fn = "parity" THEN end_solve(Top.empties - 1) ELSE "no_parity"
  OBVIOUS
<1>4. /\ fn \in {"parity", "no_parity"} /\ (fn = "parity" => Top.empties - 1 <= fastest_first)
      /\ Top.fn \in {"parity", "no_parity"}
      /\ fn # "no_parity" => Top.fn # "no_parity"
  <2>1. Top.fn \in {"parity", "no_parity"} /\ (Top.fn = "parity" => Top.empties <= fastest_first)
        /\ Top.empties = Count(board, IFES_EMPTY)
    BY <1>1, <1>2 DEF Knows, BoardKnown
  <2>2. Top.empties \in Int /\ fastest_first \in Int
    <3>1. Count(board, IFES_EMPTY) \in Nat
      BY CountOfSet
    <3>2. fastest_first \in Int
      BY SettingsAreInt
    <3> QED
      BY <2>1, <3>1, <3>2
  <2>3. CASE Top.fn = "parity"
    <3>1. ~(Top.empties - 1 > fastest_first) /\ Top.empties - 1 <= fastest_first
      BY <2>1, <2>2, <2>3
    <3>2. fn \in {"parity", "no_parity"}
      BY <2>3, <3>1 DEF end_solve
    <3> QED
      BY <2>1, <2>3, <3>1, <3>2
  <2>4. CASE Top.fn # "parity"
    BY <2>1, <2>4
  <2> QED
    BY <2>3, <2>4
<1>5. /\ PlayMove(sq) /\ succ' = [succ EXCEPT ![Top.previous_move] = succ[sq]] /\ CallAfter(sq, fn)
      /\ UNCHANGED <<tables, pred, returned>>
      /\ region_parity' = IF Top.fn = "parity" THEN Toggled(hole_id[sq]) ELSE region_parity
  BY DEF SearchMove
<1>6. Top.fn # "fastest_first" /\ (Top.fn = "parity" <=> Top.fn # "no_parity")
  BY <1>1, <1>4
<1>7. UNCHANGED <<tables, returned>>
  BY <1>5
<1>8. region_parity' = IF Top.fn = "no_parity" THEN region_parity ELSE Toggled(hole_id[sq])
  BY <1>5, <1>6
<1>9. succ' = [succ EXCEPT ![IF Top.fn = "fastest_first" THEN pred[sq] ELSE Top.previous_move] = succ[sq]]
  BY <1>5, <1>6
<1>10. pred' = IF Top.fn = "fastest_first" /\ succ[sq] # Nil THEN [pred EXCEPT ![succ[sq]] = pred[sq]] ELSE pred
  <2>1. ~(Top.fn = "fastest_first" /\ succ[sq] # Nil) /\ pred' = pred
    BY <1>5, <1>6
  <2> QED
    BY <2>1
<1>11. fn \in {"fastest_first", "parity", "no_parity"} /\ (fn = "fastest_first" => Top.fn = "fastest_first")
  BY <1>4
<1> QED
  BY <1>1, <1>3, <1>4, <1>5, <1>6, <1>7, <1>8, <1>9, <1>10, <1>11, MoveCalls

(* fastest_first_end_solve finds the node before the square by pred. *)
LEMMA SearchFastestFirstKeeps ==
  ASSUME IInv, SearchFastestFirst
  PROVE  IInv'
<1>1. Running /\ Top.fn = "fastest_first"
  BY DEF SearchFastestFirst, SecondLoop
<1>2. Knows(Now, Top, hole_id, fastest_first) /\ Now.board = board
  BY <1>1, KnownTop
<1>3. PICK sq \in MovesLeft :
        /\ PlayMove(sq)
        /\ succ' = [succ EXCEPT ![pred[sq]] = succ[sq]]
        /\ pred' = IF succ[sq] = Nil THEN pred ELSE [pred EXCEPT ![succ[sq]] = pred[sq]]
        /\ region_parity' = Toggled(hole_id[sq])
        /\ CallAfter(sq, "fastest_first")
  BY Zenon DEF SearchFastestFirst
<1>4. sq \in Moves(board, Top.color)
  BY <1>2 DEF MovesLeft, Knows, InLoop
<1>5. /\ succ' = [succ EXCEPT ![IF Top.fn = "fastest_first" THEN pred[sq] ELSE Top.previous_move] = succ[sq]]
      /\ pred' = IF Top.fn = "fastest_first" /\ succ[sq] # Nil THEN [pred EXCEPT ![succ[sq]] = pred[sq]] ELSE pred
      /\ region_parity' = IF Top.fn = "no_parity" THEN region_parity ELSE Toggled(hole_id[sq])
      /\ UNCHANGED <<tables, returned>>
  BY <1>1, <1>3 DEF SearchFastestFirst
<1> PICK fn : fn = "fastest_first"
  OBVIOUS
<1>6. /\ fn \in {"fastest_first", "parity", "no_parity"} /\ (fn = "fastest_first" => Top.fn = "fastest_first")
      /\ (fn # "no_parity" => Top.fn # "no_parity") /\ (fn = "parity" => Top.empties - 1 <= fastest_first)
      /\ (Top.fn # "fastest_first" => Top.current_move = sq) /\ CallAfter(sq, fn) /\ PlayMove(sq)
  BY <1>1, <1>3
<1> QED
  BY <1>1, <1>4, <1>5, <1>6, MoveCalls

(* An activation that passes. *)
LEMMA FramePassing ==
  ASSUME NEW f, IsFrame(f), NEW g, g = [f EXCEPT !.flip_count = 0]
  PROVE  /\ IsFrame(g) /\ SameSearch(f, g) /\ SameWindow(f, g) /\ SameRegions(f, g)
         /\ g.previous_move = f.previous_move /\ g.current_move = f.current_move /\ g.goodness = f.goodness
         /\ g.selected_n = f.selected_n /\ g.flip_count = 0
BY DEF IsFrame, SameSearch, SameWindow, SameRegions

(* A pass calls the same search on the same board. *)
LEMMA PassKeeps ==
  ASSUME IInv, Pass
  PROVE  IInv'
<1>1. Running
  BY DEF Pass, NoMoveFound, NoMoreMoves
<1> PICK S, h, n : RunningAt(S, h, n)
  BY <1>1, RunningSituation
<1>2. /\ n \in Nat \ {0} /\ n = Len(frames) /\ frames \in Seq(S)
      /\ History(h, frames, n, Now, hole_id, fastest_first)
      /\ Worth(h, frames, n, returned, problem.root, hole_id) /\ TopValued(board, Top)
  BY DEF RunningAt
<1> PICK s : s = Now
  OBVIOUS
<1>3. Exact(s) /\ Knows(s, Top, hole_id, fastest_first) /\ s.succ = succ /\ s.board = board /\ s.parity = region_parity
  BY <1>1, KnownTop
<1> PICK f : f = [Top EXCEPT !.flip_count = 0]
  OBVIOUS
<1>4. /\ IsFrame(f) /\ SameSearch(Top, f) /\ SameWindow(Top, f) /\ SameRegions(Top, f)
      /\ f.previous_move = Top.previous_move /\ f.current_move = Top.current_move /\ f.goodness = Top.goodness
      /\ f.selected_n = Top.selected_n /\ f.flip_count = 0
  BY <1>3, FramePassing DEF Knows
<1>5. f.fn = Top.fn /\ f.color = Top.color /\ f.empties = Top.empties /\ f.discdiff = Top.discdiff
  BY <1>4 DEF SameSearch
<1>6. Knows(s, f, hole_id, fastest_first)
  <2>1. BoardKnown(s, f, hole_id, fastest_first)
    BY <1>3, <1>4, KnownStill DEF Knows
  <2>2. InLoop(f, s.board)
    BY <1>3, <1>4, <1>5 DEF Knows, InLoop
  <2> QED
    BY <1>4, <2>1, <2>2 DEF Knows
<1>7. Waits(s, f) /\ s = Moved(s, f, hole_id)
  BY <1>4 DEF Waits, Moved
<1> PICK a : a = CallArguments(0)
  OBVIOUS
<1>8. a.color = opponent_color(f.color) /\ a.empties = f.empties /\ a.discdiff = -f.discdiff
  BY <1>5 DEF CallArguments
<1> PICK g : g = Activation(f.fn, a, s.succ[em_head], s.parity)
  OBVIOUS
<1>9. Knows(s, g, hole_id, fastest_first)
  BY <1>3, <1>6, <1>8, PassCallKnows
<1>10. frames' = Called(frames, f, g)
  BY <1>3, <1>5 DEF Pass, Called
<1>11. returned' = None /\ UNCHANGED tables
  BY <1>1 DEF Pass, Running
<1>12. SharedNext = s
  BY DEF Pass, SharedNext, Now
<1>13. History(h, frames, n, s, hole_id, fastest_first)
  BY <1>2
<1>14. /\ Moves(board, Top.color) = {} /\ Top.alpha = Low(frames, Len(frames)) /\ Top.color \in {0, 2}
  <2>1. NoMoveFound
    BY DEF Pass
  <2> QED
    BY <2>1, NoMove
<1>15. TopValued(s.board, f) /\ TopPassing(s.board, f)
  <2>1. Searched(f, board, hole_id) = Searched(Top, board, hole_id)
    BY <1>4, <1>5 DEF Searched, MovesRated, Done, Passed, SameRegions
  <2> PICK low, high : low = Low(frames, Len(frames)) /\ high = High(frames, Len(frames))
    OBVIOUS
  <2>2. Valued(board, Top, low, high, hole_id) /\ Top.color = Mover(frames, Len(frames), problem.root)
    BY <1>2 DEF TopValued
  <2>3. SearchedBounded(board, f, hole_id)
    BY <1>4, <1>5, <2>1, <2>2 DEF Valued, SearchedBounded
  <2>4. Valued(board, f, low, high, hole_id)
    BY <1>4, <2>2, <2>3, ValuedStill
  <2>5. TopPassing(s.board, f)
    BY <1>3, <1>4, <1>5, <1>14 DEF TopPassing, Passing, SameWindow
  <2> QED
    BY <1>3, <1>5, <2>2, <2>4, <2>5 DEF TopValued
<1>16. Valued(s.board, g, -f.beta, -f.alpha, hole_id) /\ g.color = opponent_color(f.color)
  <2>1. f.alpha = Top.alpha /\ f.beta = Top.beta
    BY <1>4 DEF SameWindow
  <2>2. a.alpha = -f.beta /\ a.beta = -f.alpha
    BY <2>1 DEF CallArguments
  <2>3. f.alpha \in Scores /\ f.beta \in Scores /\ f.alpha < f.beta
    BY <1>2, <2>1 DEF TopValued, Valued, Window
  <2>4. -f.beta \in Scores /\ -f.alpha \in Scores /\ -f.beta < -f.alpha
    BY <2>3, ScoreRange
  <2> PICK low, high : low = -f.beta /\ high = -f.alpha
    OBVIOUS
  <2> PICK b, fn, first, parity : b = s.board /\ fn = f.fn /\ first = s.succ[em_head] /\ parity = s.parity
    OBVIOUS
  <2>5. first = Following(EmptySquares(b), em_head)
    BY <1>3 DEF Exact, SuccFollows
  <2>6. Moves(b, opponent_color(a.color)) = {}
    <3>1. opponent_color(a.color) = Top.color
      BY <1>5, <1>8, <1>14 DEF opponent_color
    <3> QED
      BY <1>3, <1>14, <3>1
  <2>7. Valued(b, Activation(fn, a, first, parity), low, high, hole_id)
    BY <2>2, <2>4, <2>5, <2>6, StartedValued
  <2>8. g.color = a.color
    BY DEF Activation
  <2> QED
    BY <1>8, <2>7, <2>8
<1> QED
  BY <1>2, <1>3, <1>6, <1>7, <1>9, <1>10, <1>11, <1>12, <1>13, <1>15, <1>16, ActivationCalls

(* Nothing but the solution changes. *)
LEMMA NothingShared ==
  ASSUME IInv, UNCHANGED <<problem, board, succ, pred, hole_id, region_parity, flip_stack, frames, returned>>
  PROVE  IInv'
<1>1. Now' = Now /\ Depth' = Depth /\ fastest_first' = fastest_first
  BY DEF Now, Depth, fastest_first
<1>2. PICK h : /\ History(h, frames, Depth, Now, hole_id, fastest_first)
               /\ Worth(h, frames, Depth, returned, problem.root, hole_id)
  BY DEF IInv, HistoryKept
<1>3. /\ History(h, frames', Depth', Now', hole_id', fastest_first')
      /\ Worth(h, frames', Depth', returned', problem'.root, hole_id')
  BY <1>1, <1>2
<1>4. ProblemChosen'
  BY DEF IInv, ProblemChosen
<1>5. FramesStacked'
  BY DEF IInv, FramesStacked
<1>6. RunsOrReturns'
  BY DEF IInv, RunsOrReturns
<1>7. ReturnsNode'
  BY DEF IInv, ReturnsNode
<1>8. HistoryKept'
  BY <1>3 DEF HistoryKept
<1> QED
  BY <1>4, <1>5, <1>6, <1>7, <1>8, InvariantNext

(* The invariant is inductive. *)
LEMMA NextKeeps ==
  ASSUME IInv, [Next]_vars
  PROVE  IInv'
<1>1. CASE SkipSquare
  BY <1>1, SkipSquareKeeps
<1>2. CASE EvenRegions
  BY <1>2, EvenRegionsKeeps
<1>3. CASE SearchMove
  BY <1>3, SearchMoveKeeps
<1>4. CASE RateMove
  BY <1>4, RateMoveKeeps
<1>5. CASE SearchFastestFirst
  BY <1>5, SearchFastestFirstKeeps
<1>6. CASE PlaceLastTwo
  BY <1>6, PlaceLastTwoKeeps
<1>7. CASE TakeBack
  BY <1>7, TakeBackKeeps
<1>8. CASE Return
  BY <1>8, ReturnKeeps
<1>9. CASE GameOver
  BY <1>9, GameOverKeeps
<1>10. CASE Pass
  BY <1>10, PassKeeps
<1>11. CASE ReturnAfterPass
  BY <1>11, ReturnAfterPassKeeps
<1>12. CASE Solve
  BY <1>12, NothingShared DEF Solve, tables
<1>13. CASE UNCHANGED vars
  BY <1>13, NothingShared DEF vars
<1> QED
  BY <1>1, <1>2, <1>3, <1>4, <1>5, <1>6, <1>7, <1>8, <1>9, <1>10, <1>11, <1>12, <1>13 DEF Next

-----------------------------------------------------------------------------
(* The start. *)

(* The first board. The centre is not empty, so that the list misses no    *)
(* empty square.                                                           *)
LEMMA FirstBoard ==
  ASSUME NEW p \in Problems, NEW b, b = game_position_to_ifes_board(p.root)
  PROVE  BoardType(b) /\ EmptyList(b) = EmptySquares(b)
<1>1. \A i \in OnBoardIndexes : i \in Indexes
  BY OnBoardRange
<1>2. \A i \in Indexes :
        b[i] = IF i \notin OnBoardIndexes THEN IFES_DUMMY
               ELSE CASE SquareOf[i] \in p.root.whites -> IFES_WHITE
                      [] SquareOf[i] \in p.root.blacks -> IFES_BLACK
                      [] OTHER -> IFES_EMPTY
  BY DEF game_position_to_ifes_board
<1>3. \A i \in OnBoardIndexes :
        /\ b[i] \in {IFES_WHITE, IFES_BLACK, IFES_EMPTY}
        /\ SquareOf[i] \in p.root.blacks \cup p.root.whites => b[i] # IFES_EMPTY
  BY <1>1, <1>2 DEF IFES_WHITE, IFES_BLACK, IFES_EMPTY
<1>4. BoardType(b)
  <2>1. b = [i \in Indexes |-> b[i]]
    BY DEF game_position_to_ifes_board
  <2>2. \A i \in Indexes : b[i] \in 0 .. 3 /\ (b[i] = IFES_DUMMY <=> i \notin OnBoardIndexes)
    <3> TAKE i \in Indexes
    <3>1. CASE i \in OnBoardIndexes
      BY <3>1, <1>3 DEF IFES_WHITE, IFES_BLACK, IFES_EMPTY, IFES_DUMMY
    <3>2. CASE i \notin OnBoardIndexes
      BY <3>2, <1>2 DEF IFES_DUMMY
    <3> QED
      BY <3>1, <3>2
  <2> QED
    BY <2>1, <2>2 DEF BoardType
<1>5. ASSUME NEW sq \in EmptySquares(b) PROVE Rank(sq) <= Size * Size - 4
  <2>1. sq \in OnBoardIndexes /\ b[sq] = IFES_EMPTY
    BY DEF EmptySquares
  <2>2. Rank(sq) \in 1 .. Size * Size /\ Index(worst_to_best[Rank(sq)]) = sq
    BY <2>1, RankOfSquare
  <2> PICK s : s = worst_to_best[Rank(sq)]
    OBVIOUS
  <2>3. s \in Squares /\ Index(s) = sq
    BY <2>2, TableAssumption
  <2>4. SquareOf[sq] = s
    BY <2>3, SquareOfIndex
  <2>5. s \notin p.root.blacks \cup p.root.whites
    BY <2>1, <2>4, <1>3
  <2>6. Rank(sq) \notin Size * Size - 3 .. Size * Size
    BY <2>5, ProblemsAssumption
  <2> PICK m \in Nat : m = Size * Size
    BY SizeType
  <2> QED
    BY <2>2, <2>6
<1> QED
  BY <1>4, <1>5 DEF EmptyList

(* The first list is exact in both senses. *)
LEMMA FirstLinks ==
  ASSUME NEW b, EmptyList(b) = EmptySquares(b)
  PROVE  /\ Successors(b) \in [Nodes -> Nodes \cup {Nil}] /\ Predecessors(b) \in [Nodes -> Nodes \cup {Nil}]
         /\ SuccFollows(Successors(b), EmptySquares(b)) /\ PredPrecedes(Predecessors(b), EmptySquares(b))
<1> DEFINE E == EmptySquares(b)
<1>1. E \subseteq OnBoardIndexes
  BY DEF EmptySquares
<1> HIDE DEF E
<1>2. /\ Successors(b) = [sq \in Nodes |-> IF sq \in {em_head} \cup E THEN Following(E, sq) ELSE Nil]
      /\ Predecessors(b) = [sq \in Nodes |-> IF sq \in {em_head} \cup E THEN Preceding(E, sq) ELSE Nil]
  BY DEF Successors, Predecessors, E
<1>3. {em_head} \cup E \subseteq Nodes
  BY <1>1 DEF Nodes
<1>4. \A x \in {em_head} \cup E : Following(E, x) \in Nodes \cup {Nil} /\ Preceding(E, x) \in Nodes \cup {Nil}
  <2> TAKE x \in {em_head} \cup E
  <2>1. IsNext(E, x, Following(E, x)) /\ IsLast(E, x, Preceding(E, x))
    BY <1>1, <1>3, FollowingIsNext, PrecedingIsLast
  <2> QED
    BY <2>1, <1>3 DEF IsNext, IsLast
<1>5. Successors(b) \in [Nodes -> Nodes \cup {Nil}] /\ Predecessors(b) \in [Nodes -> Nodes \cup {Nil}]
  BY <1>2, <1>4
<1>6. SuccFollows(Successors(b), E) /\ PredPrecedes(Predecessors(b), E)
  BY <1>2, <1>3 DEF SuccFollows, PredPrecedes
<1> QED
  BY <1>5, <1>6 DEF E

(* The search starts with one activation that knows the board. *)
LEMMA StartsWithIInv ==
  ASSUME Init
  PROVE  IInv
<1> PICK player : player = get_ifes_player(problem.root)
  OBVIOUS
<1> PICK emp : emp = Count(board, IFES_EMPTY)
  OBVIOUS
<1> PICK fn : fn = end_solve(emp)
  OBVIOUS
<1> PICK a : a = [ alpha |-> -BestScore, beta |-> BestScore, color |-> player, empties |-> emp,
                   discdiff |-> Count(board, player) - Count(board, opponent_color(player)),
                   pass_before |-> FALSE ]
  OBVIOUS
<1> PICK g : g = Activation(fn, a, succ[em_head], region_parity)
  OBVIOUS
<1>1. frames = <<g>> /\ returned = None /\ problem \in Problems /\ flip_stack = << >>
  BY Zenon DEF Init
<1>2. /\ board = game_position_to_ifes_board(problem.root) /\ succ = Successors(board) /\ pred = Predecessors(board)
      /\ region_parity = OddRegions(board, hole_id)
  BY DEF Init
<1>3. BoardType(board) /\ EmptyList(board) = EmptySquares(board)
  BY <1>1, <1>2, FirstBoard
<1>4. /\ succ \in [Nodes -> Nodes \cup {Nil}] /\ pred \in [Nodes -> Nodes \cup {Nil}]
      /\ SuccFollows(succ, EmptySquares(board)) /\ PredPrecedes(pred, EmptySquares(board))
  BY <1>2, <1>3, FirstLinks
<1>5. Now.board = board /\ Now.succ = succ /\ Now.pred = pred /\ Now.parity = region_parity /\ Now.stack = flip_stack
      /\ Now = Snapshot(board, succ, pred, region_parity, flip_stack)
  BY DEF Now, Snapshot
<1>6. Exact(Now)
  <2>1. flip_stack \in Seq(OnBoardIndexes)
    BY <1>1
  <2> QED
    BY <2>1, <1>3, <1>4, <1>5 DEF Exact
<1>7. emp \in Int /\ fastest_first \in Int
  <2>1. emp \in Nat
    BY CountOfSet
  <2> QED
    BY <2>1, <1>1, ProblemsAssumption DEF fastest_first
<1>8. fn \in {"fastest_first", "parity", "no_parity"} /\ (fn = "parity" => emp <= fastest_first)
  BY <1>7 DEF end_solve
<1>9. player \in {0, 2}
  BY DEF get_ifes_player, IFES_BLACK, IFES_WHITE
<1> PICK c : c = [fn |-> fn, color |-> a.color, empties |-> a.empties, discdiff |-> a.discdiff]
  OBVIOUS
<1>10. /\ c.fn = fn /\ c.color = player /\ c.empties = emp
       /\ c.discdiff = Count(board, player) - Count(board, opponent_color(player))
  OBVIOUS
<1>11. BoardKnown(Now, c, hole_id, fastest_first)
  BY <1>2, <1>4, <1>5, <1>8, <1>9, <1>10 DEF BoardKnown
<1>12. Knows(Now, g, hole_id, fastest_first)
  BY <1>5, <1>6, <1>11, StartedKnows
<1> PICK h : h = [k \in 1 .. 1 |-> Now]
  OBVIOUS
<1>13. Len(frames) = 1 /\ frames[1] = g /\ frames # << >> /\ frames \in Seq({g})
  BY <1>1
<1>14. Depth = 1
  BY <1>1, <1>13 DEF Depth
<1>15. History(h, frames, 1, Now, hole_id, fastest_first)
  <2>1. h[1] = Now /\ (\A k \in 1 .. 1 : k = 1) /\ 1 .. 1 - 1 = {}
    OBVIOUS
  <2> QED
    BY <2>1, <1>6, <1>12, <1>13 DEF History
<1>16. Worth(h, frames, 1, returned, problem.root, hole_id)
  <2>1. h[1].board = board /\ h[1].board = game_position_to_ifes_board(problem.root)
    BY <1>2, <1>5
  <2>2. Valued(board, g, -BestScore, BestScore, hole_id)
    <3>1. -BestScore \in Scores /\ BestScore \in Scores
      BY ScoreRange
    <3>2. -BestScore < BestScore
      <4> PICK n \in Nat : n = Size
        BY SizeAssumption
      <4> PICK m \in Nat : m = n * n
        OBVIOUS
      <4>1. n > 3
        BY SizeAssumption
      <4>2. m > 0
        BY <4>1
      <4>3. -m < m
        BY <4>2
      <4> QED
        BY <4>3 DEF BestScore
    <3>3. succ[em_head] = Following(EmptySquares(board), em_head)
      BY <1>4 DEF SuccFollows
    <3>4. a.alpha = -BestScore /\ a.beta = BestScore /\ ~a.pass_before
      OBVIOUS
    <3> HIDE DEF BestScore
    <3> QED
      BY <3>1, <3>2, <3>3, <3>4, StartedValued
  <2>3. Low(frames, 1) = -BestScore /\ High(frames, 1) = BestScore /\ Mover(frames, 1, problem.root) = g.color
    BY DEF Low, High, Mover, Activation
  <2>4. FrameWorth(h, frames, problem.root, hole_id, 1)
    BY <1>13, <2>1, <2>2, <2>3 DEF FrameWorth
  <2>5. (\A k \in 1 .. 1 : k = 1) /\ 1 .. 1 - 1 = {}
    OBVIOUS
  <2> QED
    BY <1>13, <2>1, <2>4, <2>5 DEF Worth
<1>17. ProblemChosen
  BY <1>1 DEF ProblemChosen
<1>18. FramesStacked
  BY <1>13 DEF FramesStacked
<1>19. RunsOrReturns /\ ReturnsNode
  BY <1>1, <1>13 DEF RunsOrReturns, ReturnsNode
<1>20. HistoryKept
  BY <1>14, <1>15, <1>16 DEF HistoryKept
<1> QED
  BY <1>17, <1>18, <1>19, <1>20 DEF IInv

-----------------------------------------------------------------------------
(* The board and the list fit each other, whether a search runs or has     *)
(* returned.                                                               *)
LEMMA SharedExact ==
  ASSUME IInv
  PROVE  Exact(Now) /\ Now.succ = succ /\ Now.board = board
<1>1. Now.succ = succ /\ Now.board = board
  BY DEF Now, Snapshot
<1>2. PICK S : frames \in Seq(S)
  BY DEF IInv, FramesStacked
<1>3. PICK h : /\ History(h, frames, Depth, Now, hole_id, fastest_first)
               /\ Worth(h, frames, Depth, returned, problem.root, hole_id)
  BY DEF IInv, HistoryKept
<1>4. Depth \in Nat \ {0}
  <2>1. Len(frames) \in Nat /\ (frames # << >> => Len(frames) # 0)
    BY <1>2
  <2> QED
    BY <2>1 DEF Depth, IInv, RunsOrReturns
<1>5. Depth \in 1 .. Depth
  BY <1>4
<1>6. Exact(Now)
  BY <1>3, <1>5 DEF History
<1> QED
  BY <1>1, <1>6

(* What the running activation knows says all of ListFollowsBoard. *)
LEMMA ListIsKept == IInv => ListFollowsBoard
<1> SUFFICES ASSUME IInv PROVE ListFollowsBoard
  OBVIOUS
<1>1. \A sq \in {em_head} \cup EmptySquares(board) : succ[sq] = Following(EmptySquares(board), sq)
  BY SharedExact DEF Exact, SuccFollows
<1>2. ASSUME Running
      PROVE  /\ Top.empties = Count(board, IFES_EMPTY)
             /\ Top.discdiff = Count(board, Top.color) - Count(board, opponent_color(Top.color))
             /\ Top.fn = "fastest_first" =>
                  \A sq \in {em_head} \cup EmptySquares(board) : pred[sq] = Preceding(EmptySquares(board), sq)
  BY <1>2, KnownTop DEF Knows, BoardKnown, PredPrecedes
<1> QED
  BY <1>1, <1>2 DEF ListFollowsBoard

(* And of ParityFollowsBoard. *)
LEMMA ParityIsKept == IInv => ParityFollowsBoard
BY KnownTop DEF Knows, BoardKnown, ParityFollowsBoard

(* What ReturnedSituation says of the value that is returned is            *)
(* ReturnedValueSound.                                                     *)
LEMMA ReturnedIsSound == IInv => ReturnedValueSound
<1> SUFFICES ASSUME IInv, frames # << >>, returned # None
             PROVE  /\ -returned.value < Top.beta =>
                         -TrueValue(board, opponent_color(Top.color)) <= -returned.value
                    /\ -returned.value > Top.alpha =>
                         -TrueValue(board, opponent_color(Top.color)) >= -returned.value
  BY DEF ReturnedValueSound, TrueValue
<1> PICK S, h, n : ReturnedAt(S, h, n)
  BY ReturnedSituation
<1> PICK color : color = opponent_color(Top.color)
  OBVIOUS
<1>1. NodeValued(board, color, -Top.beta, -Top.alpha, returned)
  BY DEF ReturnedAt
<1>2. Top.alpha \in Scores /\ Top.beta \in Scores
  BY DEF ReturnedAt, TopValued, Valued, Window
<1>3. TrueValue(board, color) \in Scores
  <2>1. BoardType(board) /\ color \in {0, 2}
    <3>1. Exact(Now) /\ Now.board = board
      BY SharedExact
    <3>2. Top.color \in {0, 2}
      BY DEF ReturnedAt, Knows, BoardKnown
    <3> QED
      BY <3>1, <3>2 DEF Exact, opponent_color
  <2>2. ValueFollows(board, color)
    BY <2>1, BoardValue
  <2> QED
    BY <2>2 DEF ValueFollows
<1> PICK v, t, x, y \in Int : v = returned.value /\ t = TrueValue(board, color) /\ x = Top.alpha /\ y = Top.beta
  BY <1>1, <1>2, <1>3, ScoreRange DEF NodeValued
<1>4. (v < -x => t <= v) /\ (v > -y => t >= v)
  BY <1>1 DEF NodeValued
<1>5. (-v < y => -t <= -v) /\ (-v > x => -t >= -v)
  BY <1>4
<1> QED
  BY <1>5

-----------------------------------------------------------------------------
(* The end. *)

(* The board is the one of the position, and translates back to it.        *)
LEMMA RootTranslated ==
  ASSUME NEW p \in Problems, NEW b, b = game_position_to_ifes_board(p.root)
  PROVE  ifes_game_position_translation(b, get_ifes_player(p.root)) = p.root
<1>1. p.root \in Positions /\ p.root.blacks \cap p.root.whites = {}
  BY ProblemsAssumption
<1>2. /\ p.root.blacks \subseteq Squares /\ p.root.whites \subseteq Squares
      /\ p.root.player \in {BLACK_PLAYER, WHITE_PLAYER}
      /\ p.root = [blacks |-> p.root.blacks, whites |-> p.root.whites, player |-> p.root.player]
  BY <1>1 DEF Positions
<1>3. ASSUME NEW s \in Squares
      PROVE  (b[Index(s)] = IFES_BLACK <=> s \in p.root.blacks) /\ (b[Index(s)] = IFES_WHITE <=> s \in p.root.whites)
  <2>1. Index(s) \in OnBoardIndexes /\ SquareOf[Index(s)] = s /\ Index(s) \in Indexes
    BY SquareOfIndex, OnBoardRange
  <2>2. b[Index(s)] = CASE s \in p.root.whites -> IFES_WHITE
                        [] s \in p.root.blacks -> IFES_BLACK
                        [] OTHER -> IFES_EMPTY
    BY <2>1 DEF game_position_to_ifes_board
  <2> QED
    BY <1>1, <2>2 DEF IFES_WHITE, IFES_BLACK, IFES_EMPTY
<1>4. /\ {s \in Squares : b[Index(s)] = IFES_BLACK} = p.root.blacks
      /\ {s \in Squares : b[Index(s)] = IFES_WHITE} = p.root.whites
  BY <1>2, <1>3
<1>5. (IF get_ifes_player(p.root) = IFES_WHITE THEN WHITE_PLAYER ELSE BLACK_PLAYER) = p.root.player
  BY <1>2 DEF get_ifes_player, IFES_WHITE, IFES_BLACK, BLACK_PLAYER, WHITE_PLAYER
<1> QED
  BY <1>2, <1>4, <1>5 DEF ifes_game_position_translation, Position

(* The move of a board that is right is a best move of its position. *)
LEMMA BestMoveFound ==
  ASSUME NEW b, BoardType(b), NEW color \in {0, 2}, NEW g, g = ifes_game_position_translation(b, color),
         NEW x \in Moves(b, color), MoveValue(b, x, color) = TrueValue(b, color)
  PROVE  x # 0 /\ SquareOf[x] \in BestMoves(g) /\ SquareOf[x] \in Squares
<1>1. x # 0
  BY RankOfNode DEF Moves, EmptySquares, em_head
<1>2. SquareOf[x] \in LegalMoves(g) /\ Index(SquareOf[x]) = x
  BY MovesTranslated
<1> PICK s : s = SquareOf[x]
  OBVIOUS
<1>3. s \in LegalMoves(g) /\ s \in Squares /\ Index(s) = x
  BY <1>2, MovesTranslated
<1>4. After(g, s) = ifes_game_position_translation(Placed(b, x, flips(b, x, color), color), opponent_color(color))
  BY <1>3, AfterTranslated
<1>5. -Value(After(g, s)) = Value(g)
  BY <1>4 DEF MoveValue, TrueValue
<1> QED
  BY <1>1, <1>3, <1>5 DEF BestMoves

(* The solution that a node stands for. *)
SolutionOf(n) ==
  [outcome |-> n.value, best_move |-> IF n.square = 0 THEN InvalidMove ELSE SquareOf[n.square]]

(* A node that is sound for the whole window is an answer. *)
LEMMA AnswerFound ==
  ASSUME NEW p \in Problems, NEW b, b = game_position_to_ifes_board(p.root),
         NEW n, NodeValued(b, get_ifes_player(p.root), -BestScore, BestScore, n)
  PROVE  SolutionOf(n) \in Answers(p) /\ SolutionOf(n) # Unsolved
<1> PICK color : color = get_ifes_player(p.root)
  OBVIOUS
<1> PICK other : other = opponent_color(color)
  OBVIOUS
<1> PICK g : g = p.root
  OBVIOUS
<1> PICK passed : passed = game_position_x_pass(g)
  OBVIOUS
<1>1. BoardType(b)
  BY FirstBoard
<1>2. color \in {0, 2} /\ other \in {0, 2}
  BY DEF get_ifes_player, IFES_BLACK, IFES_WHITE, opponent_color
<1>3. g = ifes_game_position_translation(b, color) /\ passed = ifes_game_position_translation(b, other)
  BY <1>2, RootTranslated, PassTranslated
<1>4. ValueFollows(b, color)
  BY <1>1, <1>2, BoardValue
<1>5. n.value = Value(g) /\ n.value \in Int
  <2>1. n.value \in Scores /\ TrueValue(b, color) \in Scores
    BY <1>4 DEF NodeValued, ValueFollows
  <2> PICK v, t, m \in Int : v = n.value /\ t = TrueValue(b, color) /\ m = BestScore
    BY <2>1, ScoreRange
  <2>2. -m <= v /\ v <= m /\ -m <= t /\ t <= m
    BY <2>1, ScoreRange
  <2>3. (v < m => t <= v) /\ (v > -m => t >= v)
    BY DEF NodeValued
  <2>4. v = t
    BY <2>2, <2>3
  <2> QED
    BY <2>4, <1>3 DEF TrueValue
<1>6. RightSquare(b, color, n.square)
  BY DEF NodeValued
<1>7. /\ Moves(b, color) = {} <=> LegalMoves(g) = {}
      /\ Moves(b, other) = {} <=> LegalMoves(passed) = {}
  BY <1>1, <1>2, <1>3, MovesTranslated
<1> DEFINE best == IF n.square = 0 THEN InvalidMove ELSE SquareOf[n.square]
           moves == IF LegalMoves(g) # {} THEN BestMoves(g)
                    ELSE IF LegalMoves(passed) # {} THEN BestMoves(passed) ELSE {InvalidMove}
<1>8. best \in moves /\ best \in Squares \cup {InvalidMove}
  <2>1. CASE Moves(b, color) # {}
    <3>1. n.square \in Moves(b, color) /\ MoveValue(b, n.square, color) = TrueValue(b, color)
      BY <1>6, <2>1 DEF RightSquare
    <3>2. n.square # 0 /\ SquareOf[n.square] \in BestMoves(g) /\ SquareOf[n.square] \in Squares
      BY <3>1, <1>1, <1>2, <1>3, BestMoveFound
    <3> QED
      BY <3>2, <2>1, <1>7
  <2>2. CASE Moves(b, color) = {} /\ Moves(b, other) # {}
    <3>1. n.square \in Moves(b, other) /\ MoveValue(b, n.square, other) = TrueValue(b, other)
      BY <1>6, <2>2 DEF RightSquare
    <3>2. n.square # 0 /\ SquareOf[n.square] \in BestMoves(passed) /\ SquareOf[n.square] \in Squares
      BY <3>1, <1>1, <1>2, <1>3, BestMoveFound
    <3> QED
      BY <3>2, <2>2, <1>7
  <2>3. CASE Moves(b, color) = {} /\ Moves(b, other) = {}
    <3>1. n.square = 0
      BY <1>6, <2>3 DEF RightSquare
    <3> QED
      BY <3>1, <2>3, <1>7
  <2> QED
    BY <2>1, <2>2, <2>3
<1>9. SolutionOf(n) = [outcome |-> Value(g), best_move |-> best]
  BY <1>5 DEF SolutionOf
<1>10. Answers(p) = {[outcome |-> Value(g), best_move |-> s] : s \in moves}
  BY DEF Answers
<1> HIDE DEF best, moves
<1>11. SolutionOf(n) \in Answers(p)
  BY <1>8, <1>9, <1>10
<1>12. SolutionOf(n) \in [outcome : Int, best_move : Squares \cup {InvalidMove}]
  BY <1>5, <1>8, <1>9
<1> QED
  BY <1>11, <1>12, UnsolvedAssumption

(* A step of the searches is a step of EndgameSolution or none of its      *)
(* variables changes.                                                      *)
LEMMA StepSolves ==
  ASSUME IInv, [Next]_vars
  PROVE  [Endgame!Solve]_<<problem, solution>>
<1>1. CASE Solve
  <2>1. /\ frames = << >> /\ solution = Unsolved /\ solution' = SolutionOf(returned) /\ UNCHANGED problem
    BY <1>1 DEF Solve, SolutionOf, tables
  <2>2. returned # None /\ problem \in Problems
    BY <2>1 DEF IInv, RunsOrReturns, ProblemChosen
  <2>3. Depth = 1 /\ Len(frames) = 0
    BY <2>1, <2>2 DEF Depth
  <2>4. PICK h : /\ History(h, frames, Depth, Now, hole_id, fastest_first)
                 /\ Worth(h, frames, Depth, returned, problem.root, hole_id)
    BY DEF IInv, HistoryKept
  <2>5. NodeValued(game_position_to_ifes_board(problem.root), get_ifes_player(problem.root), -BestScore, BestScore, returned)
    <3>1. /\ NodeValued(h[1].board, Mover(frames, 1, problem.root), Low(frames, 1), High(frames, 1), returned)
          /\ h[1].board = game_position_to_ifes_board(problem.root)
      BY <2>3, <2>4 DEF Worth
    <3> QED
      BY <3>1 DEF Mover, Low, High
  <2>6. SolutionOf(returned) \in Answers(problem) /\ SolutionOf(returned) # Unsolved
    <3> PICK p \in Problems : p = problem
      BY <2>2
    <3>1. SolutionOf(returned) \in Answers(p) /\ SolutionOf(returned) # Unsolved
      BY <2>5, AnswerFound
    <3> QED
      BY <3>1
  <2>7. Endgame!Solve
    BY <2>1, <2>6 DEF Endgame!Solve
  <2> QED
    BY <2>7
<1>2. CASE SkipSquare
  BY <1>2 DEF SkipSquare, tables
<1>3. CASE EvenRegions
  BY <1>3 DEF EvenRegions, tables
<1>4. CASE SearchMove
  BY <1>4 DEF SearchMove, tables
<1>5. CASE RateMove
  BY <1>5 DEF RateMove, tables
<1>6. CASE SearchFastestFirst
  BY <1>6 DEF SearchFastestFirst, tables
<1>7. CASE PlaceLastTwo
  BY <1>7 DEF PlaceLastTwo, tables
<1>8. CASE TakeBack
  BY <1>8 DEF TakeBack, tables
<1>9. CASE Return
  BY <1>9 DEF Return, tables
<1>10. CASE GameOver
  BY <1>10 DEF GameOver, tables
<1>11. CASE Pass
  BY <1>11 DEF Pass, tables
<1>12. CASE ReturnAfterPass
  BY <1>12 DEF ReturnAfterPass, tables
<1>13. CASE UNCHANGED vars
  BY <1>13 DEF vars
<1> QED
  BY <1>1, <1>2, <1>3, <1>4, <1>5, <1>6, <1>7, <1>8, <1>9, <1>10, <1>11, <1>12, <1>13 DEF Next

-----------------------------------------------------------------------------
(* Whatever the three searches do, and wherever a cutoff interrupts them,  *)
(* the board, the list, the parities and the stack of flips are those that *)
(* the moves of the waiting activations have made of the first ones.       *)
THEOREM Consistent == Spec => []IInv
<1>1. Init => IInv
  BY StartsWithIInv
<1>2. IInv /\ [Next]_vars => IInv'
  BY NextKeeps
<1> QED
  BY <1>1, <1>2, PTL DEF Spec

(* The list of empty squares follows the board: TakeBack puts back all     *)
(* that SearchMove and SearchFastestFirst have changed, also when squares  *)
(* that were unlinked by succ only have left stale predecessors behind.    *)
THEOREM KeepsList == Spec => []ListFollowsBoard
BY Consistent, ListIsKept, PTL

(* region_parity is what would be counted on the board, whenever a search  *)
(* that reads it runs.                                                     *)
THEOREM KeepsParity == Spec => []ParityFollowsBoard
BY Consistent, ParityIsKept, PTL

(* Each value that is returned is exact inside the window of the caller    *)
(* and a bound outside of it, through cutoffs, passes and the end of the   *)
(* game.                                                                   *)
THEOREM ReturnsSoundValues == Spec => []ReturnedValueSound
BY Consistent, ReturnedIsSound, PTL

(* The solver implements EndgameSolution but for its liveness: when it     *)
(* ends, the outcome is the value of the position by the rules of the      *)
(* game, and the move is one that reaches it.                              *)
THEOREM AnswersRightly == Spec => Endgame!Init /\ [][Endgame!Solve]_<<problem, solution>>
<1>1. Init => Endgame!Init
  BY DEF Init, Endgame!Init
<1>2. IInv /\ [Next]_vars => [Endgame!Solve]_<<problem, solution>>
  BY StepSolves
<1> QED
  BY <1>1, <1>2, Consistent, PTL DEF Spec

-----------------------------------------------------------------------------
(***************************************************************************)
(* The same rules on bitboards: the fills of Kogge and Stone find the      *)
(* moves of the rules, and turn their discs, on boards of up to eight      *)
(* rows, where three steps of the fill reach over every line.              *)
(***************************************************************************)

(* How far a step in direction i moves in the word. *)
Distance(i) == Right[i] + Down[i] * Size

(* The names that board.c gives to the directions.                         *)
LEMMA DistanceNames ==
  /\ Distance(1) = NorthWest /\ Distance(2) = SouthEast /\ Distance(3) = North /\ Distance(4) = South
  /\ Distance(5) = NorthEast /\ Distance(6) = SouthWest /\ Distance(7) = West /\ Distance(8) = East
BY SizeType DEF Distance, Right, Down, NorthWest, North, NorthEast, West, East, SouthWest, South, SouthEast

(* The directions of the word are the eight directions.                    *)
LEMMA WordDirections ==
  /\ \A j \in DOMAIN Directions : \E i \in 1 .. 8 : Directions[j] = Distance(i)
  /\ \A i \in 1 .. 8 : \E j \in DOMAIN Directions : Directions[j] = Distance(i)
<1>1. DOMAIN Directions = 1 .. 8
  BY DEF Directions
<1>2. /\ Directions[1] = Distance(1) /\ Directions[2] = Distance(3) /\ Directions[3] = Distance(5)
      /\ Directions[4] = Distance(7) /\ Directions[5] = Distance(8) /\ Directions[6] = Distance(6)
      /\ Directions[7] = Distance(4) /\ Directions[8] = Distance(2)
  BY DistanceNames DEF Directions
<1>3. \A j \in 1 .. 8 : j = 1 \/ j = 2 \/ j = 3 \/ j = 4 \/ j = 5 \/ j = 6 \/ j = 7 \/ j = 8
  OBVIOUS
<1>4. 1 \in 1 .. 8 /\ 2 \in 1 .. 8 /\ 3 \in 1 .. 8 /\ 4 \in 1 .. 8 /\ 5 \in 1 .. 8 /\ 6 \in 1 .. 8 /\ 7 \in 1 .. 8 /\ 8 \in 1 .. 8
  OBVIOUS
<1>5. ASSUME NEW j \in 1 .. 8 PROVE \E i \in 1 .. 8 : Directions[j] = Distance(i)
  BY <1>2, <1>3, <1>4
<1>6. ASSUME NEW i \in 1 .. 8 PROVE \E j \in 1 .. 8 : Directions[j] = Distance(i)
  BY <1>2, <1>3, <1>4
<1> QED
  BY <1>1, <1>5, <1>6

(* A mask keeps the squares that a step does not reach by wrapping round.  *)
LEMMA MaskOfStep ==
  ASSUME NEW i \in 1 .. 8
  PROVE  Mask[Distance(i)] = {x \in Squares : Column(x) - Right[i] \in 0 .. Size - 1}
<1> USE SizeType
<1>1. \E j \in DOMAIN Directions : Directions[j] = Distance(i)
  BY WordDirections
<1>2. Distance(i) \in ToSet(Directions)
  BY <1>1 DEF ToSet
<1>3. Mask[Distance(i)] =
        CASE Distance(i) \in {NorthWest, West, SouthWest} -> except_column_h
          [] Distance(i) \in {NorthEast, East, SouthEast} -> except_column_a
          [] OTHER -> Squares
  BY <1>2 DEF Mask
<1>4. \A x \in Squares : Column(x) \in 0 .. Size - 1
  BY SquareCoordinates
<1>5. CASE Right[i] = -1
  <2>1. i = 1 \/ i = 6 \/ i = 7
    BY <1>5 DEF Right
  <2>2. Distance(i) \in {NorthWest, West, SouthWest}
    BY <2>1, DistanceNames
  <2>3. Distance(i) \notin {NorthEast, East, SouthEast}
    BY <2>2 DEF NorthWest, West, SouthWest, NorthEast, East, SouthEast
  <2>4. Mask[Distance(i)] = except_column_h
    BY <1>3, <2>2, <2>3
  <2> QED
    BY <1>4, <1>5, <2>4 DEF except_column_h
<1>6. CASE Right[i] = 1
  <2>1. i = 2 \/ i = 5 \/ i = 8
    BY <1>6 DEF Right
  <2>2. Distance(i) \in {NorthEast, East, SouthEast}
    BY <2>1, DistanceNames
  <2>3. Distance(i) \notin {NorthWest, West, SouthWest}
    BY <2>2 DEF NorthWest, West, SouthWest, NorthEast, East, SouthEast
  <2>4. Mask[Distance(i)] = except_column_a
    BY <1>3, <2>2, <2>3
  <2> QED
    BY <1>4, <1>6, <2>4 DEF except_column_a
<1>7. CASE Right[i] = 0
  <2>1. i = 3 \/ i = 4
    BY <1>7 DEF Right
  <2>2. Distance(i) \in {North, South}
    BY <2>1, DistanceNames
  <2>3. Distance(i) \notin {NorthWest, West, SouthWest} /\ Distance(i) \notin {NorthEast, East, SouthEast}
    BY <2>2 DEF North, South, NorthWest, West, SouthWest, NorthEast, East, SouthEast
  <2>4. Mask[Distance(i)] = Squares
    BY <1>3, <2>3
  <2> QED
    BY <1>4, <1>7, <2>4
<1> QED
  BY <1>5, <1>6, <1>7, DirectionParts

(* A step that is not masked is one on the board, and only such a one.     *)
LEMMA StepIsOnBoard ==
  ASSUME NEW x \in Squares, NEW i \in 1 .. 8
  PROVE  /\ OnBoard(Column(x) + Right[i], Row(x) + Down[i])
              <=> x + Distance(i) \in Squares /\ x + Distance(i) \in Mask[Distance(i)]
         /\ OnBoard(Column(x) + Right[i], Row(x) + Down[i])
              => /\ Column(x + Distance(i)) = Column(x) + Right[i]
                 /\ Row(x + Distance(i)) = Row(x) + Down[i]
<1> USE SizeType
<1>1. Down[i] \in -1 .. 1 /\ Right[i] \in -1 .. 1
  BY DirectionParts
<1> PICK p, q \in -1 .. 1 : p = Right[i] /\ q = Down[i]
  BY <1>1
<1> PICK c, r \in 0 .. Size - 1 : c = Column(x) /\ r = Row(x)
  BY SquareCoordinates
<1>2. x = Size * r + c
  BY SquareCoordinates
<1> PICK y \in Int : y = x + Distance(i)
  BY SizeType DEF Distance, Squares
<1>3. y = Size * (r + q) + (c + p)
  BY <1>2 DEF Distance
<1>4. ASSUME OnBoard(c + p, r + q)
      PROVE  y \in Squares /\ Column(y) = c + p /\ Row(y) = r + q
  <2>1. c + p \in 0 .. Size - 1 /\ r + q \in 0 .. Size - 1
    BY <1>4 DEF OnBoard, Ordinals
  <2> QED
    BY <1>3, <2>1, SquareOfCell
<1>5. ASSUME y \in Squares, y \in Mask[Distance(i)]
      PROVE  OnBoard(c + p, r + q)
  <2> PICK d, s \in 0 .. Size - 1 : d = Column(y) /\ s = Row(y)
    BY <1>5, SquareCoordinates
  <2>1. y = Size * s + d
    BY <1>5, SquareCoordinates
  <2>2. d - p \in 0 .. Size - 1
    BY <1>5, MaskOfStep
  <2>3. Size * (r + q - s) = (d - p) - c
    <3>1. Size * (r + q - s) = Size * (r + q) - Size * s /\ Size * (r + q) \in Int /\ Size * s \in Int
      OBVIOUS
    <3> PICK u, v, w \in Int : u = Size * (r + q) /\ v = Size * s /\ w = Size * (r + q - s)
      BY <3>1
    <3>2. c \in Int /\ d \in Int /\ y = u + (c + p) /\ y = v + d /\ w = u - v
      BY <1>3, <2>1, <3>1
    <3>3. w = (d - p) - c
      BY ONLY <3>2, u \in Int, v \in Int, w \in Int, y \in Int, p \in -1 .. 1, c \in Int, d \in Int
    <3> QED
      BY <3>3
  <2>4. r + q - s = 0
    <3> PICK u \in 0 .. Size - 1 : u = d - p
      BY <2>2
    <3>1. r + q - s \in Int /\ u - c \in Int /\ -Size < u - c /\ u - c < Size /\ Size * (r + q - s) = u - c
      BY <2>3
    <3> QED
      BY <3>1, SmallMultiple
  <2>5. c + p = d /\ r + q = s
    BY <2>3, <2>4
  <2> QED
    BY <2>5 DEF OnBoard, Ordinals
<1>6. ASSUME OnBoard(c + p, r + q)
      PROVE  y \in Mask[Distance(i)]
  <2>1. Column(y) - Right[i] = c
    BY <1>4, <1>6
  <2> QED
    BY <1>4, <1>6, <2>1, MaskOfStep
<1> QED
  BY <1>4, <1>5, <1>6

(* Every direction has an opposite one. *)
LEMMA OppositeDirection ==
  ASSUME NEW i \in 1 .. 8
  PROVE  \E o \in 1 .. 8 : Right[o] = -Right[i] /\ Down[o] = -Down[i] /\ Distance(o) = -Distance(i)
<1>1. \E o \in 1 .. 8 : Right[o] = -Right[i] /\ Down[o] = -Down[i]
  <2>1. i = 1 \/ i = 2 \/ i = 3 \/ i = 4 \/ i = 5 \/ i = 6 \/ i = 7 \/ i = 8
    OBVIOUS
  <2>2. /\ Right[1] = -1 /\ Down[1] = -1 /\ Right[2] = 1 /\ Down[2] = 1
        /\ Right[3] = 0 /\ Down[3] = -1 /\ Right[4] = 0 /\ Down[4] = 1
        /\ Right[5] = 1 /\ Down[5] = -1 /\ Right[6] = -1 /\ Down[6] = 1
        /\ Right[7] = -1 /\ Down[7] = 0 /\ Right[8] = 1 /\ Down[8] = 0
    BY DEF Right, Down
  <2>3. 1 \in 1 .. 8 /\ 2 \in 1 .. 8 /\ 3 \in 1 .. 8 /\ 4 \in 1 .. 8 /\ 5 \in 1 .. 8 /\ 6 \in 1 .. 8 /\ 7 \in 1 .. 8 /\ 8 \in 1 .. 8
    OBVIOUS
  <2> QED
    BY <2>1, <2>2, <2>3
<1> PICK o \in 1 .. 8 : Right[o] = -Right[i] /\ Down[o] = -Down[i]
  BY <1>1
<1>2. Down[i] \in Int /\ Right[i] \in Int
  BY DirectionParts
<1>3. Distance(o) = -Distance(i)
  BY <1>2, SizeType DEF Distance
<1> QED
  BY <1>3

(* From a generator k steps back, over squares of the propagator only. *)
Reaches(generator, base, d, x, k) ==
  x - k * d \in generator /\ \A j \in 0 .. k - 1 : x - j * d \in base

(* What a shift of the word moves to a square.                             *)
LEMMA ShiftedBack ==
  ASSUME NEW S, S \subseteq Squares, NEW d \in Int, NEW x \in Int
  PROVE  x \in Shifted(S, d) <=> x \in Squares /\ x - d \in S
<1>1. \A s \in S : s \in Int
  BY DEF Squares
<1>2. \A s \in S : x = s + d <=> s = x - d
  BY <1>1
<1> QED
  BY <1>2 DEF Shifted

(* The three steps of a fill reach over up to seven squares.               *)
LEMMA FillReaches ==
  ASSUME NEW G, G \subseteq Squares, NEW B, B \subseteq Squares, NEW d \in Int, NEW x \in Int
  PROVE  x \in Fill(G, B, d) <=> \E k \in 0 .. 7 : Reaches(G, B, d, x, k)
<1> DEFINE g1 == G \cup (B \cap Shifted(G, d))
           p1 == B \cap Shifted(B, d)
           g2 == g1 \cup (p1 \cap Shifted(g1, 2 * d))
           p2 == p1 \cap Shifted(p1, 2 * d)
<1>1. Fill(G, B, d) = g2 \cup (p2 \cap Shifted(g2, 4 * d))
  BY DEF Fill
<1>2. g1 \subseteq Squares /\ p1 \subseteq Squares /\ g2 \subseteq Squares /\ p2 \subseteq Squares
  OBVIOUS
<1>3. 2 * d \in Int /\ 4 * d \in Int
  OBVIOUS
<1>4. \A y \in Int : y \in g1 <=> y \in G \/ (y \in B /\ y - d \in G)
  BY ShiftedBack
<1>5. \A y \in Int : y \in p1 <=> y \in B /\ y - d \in B
  BY ShiftedBack
<1> HIDE DEF g1, p1
<1>6. \A y \in Int : y \in g2 <=> y \in g1 \/ (y \in p1 /\ y - 2 * d \in g1)
  BY <1>2, <1>3, ShiftedBack
<1>7. \A y \in Int : y \in p2 <=> y \in p1 /\ y - 2 * d \in p1
  BY <1>2, <1>3, ShiftedBack
<1> HIDE DEF g2, p2
<1>8. x \in Fill(G, B, d) <=> x \in g2 \/ (x \in p2 /\ x - 4 * d \in g2)
  BY <1>1, <1>2, <1>3, ShiftedBack
<1>9. x - 2 * d \in Int /\ x - 4 * d \in Int /\ x - 6 * d \in Int
  OBVIOUS
<1>10. /\ (x - 2 * d) - d = x - 3 * d /\ (x - 4 * d) - d = x - 5 * d /\ (x - 6 * d) - d = x - 7 * d
       /\ (x - 4 * d) - 2 * d = x - 6 * d
  OBVIOUS
<1>11. /\ x \in g2 <=> \/ x \in G \/ (x \in B /\ x - d \in G)
                       \/ /\ x \in B /\ x - d \in B
                          /\ x - 2 * d \in G \/ (x - 2 * d \in B /\ x - 3 * d \in G)
       /\ x \in p2 <=> x \in B /\ x - d \in B /\ x - 2 * d \in B /\ x - 3 * d \in B
       /\ x - 4 * d \in g2 <=> \/ x - 4 * d \in G \/ (x - 4 * d \in B /\ x - 5 * d \in G)
                               \/ /\ x - 4 * d \in B /\ x - 5 * d \in B
                                  /\ x - 6 * d \in G \/ (x - 6 * d \in B /\ x - 7 * d \in G)
  BY <1>4, <1>5, <1>6, <1>7, <1>9, <1>10
<1>12. /\ Reaches(G, B, d, x, 0) <=> x \in G
       /\ Reaches(G, B, d, x, 1) <=> x - d \in G /\ x \in B
       /\ Reaches(G, B, d, x, 2) <=> x - 2 * d \in G /\ x \in B /\ x - d \in B
       /\ Reaches(G, B, d, x, 3) <=> x - 3 * d \in G /\ x \in B /\ x - d \in B /\ x - 2 * d \in B
  <2>1. /\ 0 .. -1 = {} /\ 0 .. 0 = {0} /\ 0 .. 1 = {0, 1} /\ 0 .. 2 = {0, 1, 2}
        /\ 0 * d = 0 /\ 1 * d = d /\ x - 0 = x
        /\ 0 - 1 = -1 /\ 1 - 1 = 0 /\ 2 - 1 = 1 /\ 3 - 1 = 2
    OBVIOUS
  <2> QED
    BY <2>1, Zenon DEF Reaches
<1>13. /\ Reaches(G, B, d, x, 4) <=> /\ x - 4 * d \in G /\ x \in B /\ x - d \in B /\ x - 2 * d \in B
                                     /\ x - 3 * d \in B
       /\ Reaches(G, B, d, x, 5) <=> /\ x - 5 * d \in G /\ x \in B /\ x - d \in B /\ x - 2 * d \in B
                                     /\ x - 3 * d \in B /\ x - 4 * d \in B
       /\ Reaches(G, B, d, x, 6) <=> /\ x - 6 * d \in G /\ x \in B /\ x - d \in B /\ x - 2 * d \in B
                                     /\ x - 3 * d \in B /\ x - 4 * d \in B /\ x - 5 * d \in B
       /\ Reaches(G, B, d, x, 7) <=> /\ x - 7 * d \in G /\ x \in B /\ x - d \in B /\ x - 2 * d \in B
                                     /\ x - 3 * d \in B /\ x - 4 * d \in B /\ x - 5 * d \in B /\ x - 6 * d \in B
  <2>1. /\ 0 .. 3 = {0, 1, 2, 3} /\ 0 .. 4 = {0, 1, 2, 3, 4}
        /\ 0 .. 5 = {0, 1, 2, 3, 4, 5} /\ 0 .. 6 = {0, 1, 2, 3, 4, 5, 6}
        /\ 0 * d = 0 /\ 1 * d = d /\ x - 0 = x
        /\ 4 - 1 = 3 /\ 5 - 1 = 4 /\ 6 - 1 = 5 /\ 7 - 1 = 6
    OBVIOUS
  <2> QED
    BY <2>1, Zenon DEF Reaches
<1>14. 0 .. 7 = {0, 1, 2, 3, 4, 5, 6, 7}
  OBVIOUS
<1> HIDE DEF Reaches
<1>15. (\E k \in 0 .. 7 : Reaches(G, B, d, x, k)) <=>
         \/ Reaches(G, B, d, x, 0) \/ Reaches(G, B, d, x, 1) \/ Reaches(G, B, d, x, 2) \/ Reaches(G, B, d, x, 3)
         \/ Reaches(G, B, d, x, 4) \/ Reaches(G, B, d, x, 5) \/ Reaches(G, B, d, x, 6) \/ Reaches(G, B, d, x, 7)
  BY <1>14, Zenon
<1> QED
  BY <1>8, <1>11, <1>12, <1>13, <1>15

(* A fill stays on the board. *)
LEMMA FillOnBoard ==
  ASSUME NEW G, G \subseteq Squares, NEW B, B \subseteq Squares, NEW d
  PROVE  Fill(G, B, d) \subseteq G \cup B
BY DEF Fill

(* The square k steps away, when it is on the board.                       *)
LEMMA SquareOnLine ==
  ASSUME NEW s \in Squares, NEW i \in 1 .. 8, NEW k \in Int, OnBoard(Column_(s, i, k), Row_(s, i, k))
  PROVE  /\ s + k * Distance(i) \in Squares
         /\ Column(s + k * Distance(i)) = Column_(s, i, k) /\ Row(s + k * Distance(i)) = Row_(s, i, k)
<1> USE SizeType
<1>1. /\ Column(s) \in 0 .. Size - 1 /\ Row(s) \in 0 .. Size - 1 /\ s = Size * Row(s) + Column(s)
  BY SquareCoordinates
<1>2. Down[i] \in Int /\ Right[i] \in Int
  BY DirectionParts
<1>3. Column_(s, i, k) \in 0 .. Size - 1 /\ Row_(s, i, k) \in 0 .. Size - 1
  BY DEF OnBoard, Ordinals
<1>4. k * Distance(i) = k * Right[i] + Size * (k * Down[i]) /\ k * Right[i] \in Int /\ k * Down[i] \in Int
  BY <1>2, Distributed DEF Distance
<1> PICK x \in Int : x = k * Right[i]
  BY <1>4
<1> PICK y \in Int : y = k * Down[i]
  BY <1>4
<1> PICK n \in Int : n = k * Distance(i)
  BY <1>4
<1> PICK c, r \in Int : c = Column(s) /\ r = Row(s)
  BY <1>1
<1>5. Column_(s, i, k) = c + x /\ Row_(s, i, k) = r + y
  BY DEF Column_, Row_
<1>6. s + n = Size * (r + y) + (c + x)
  <2>1. n = x + Size * y /\ s = Size * r + c
    BY <1>1, <1>4
  <2> QED
    BY <2>1
<1>7. s + n \in Squares /\ Column(s + n) = c + x /\ Row(s + n) = r + y
  BY <1>3, <1>5, <1>6, SquareOfCell
<1> QED
  BY <1>5, <1>7

(* A line starts at its square. *)
LEMMA LineStart ==
  ASSUME NEW s \in Squares, NEW i \in 1 .. 8
  PROVE  /\ Column_(s, i, 0) = Column(s) /\ Row_(s, i, 0) = Row(s)
         /\ OnBoard(Column_(s, i, 0), Row_(s, i, 0))
         /\ Right[i] \in Int /\ Down[i] \in Int /\ Distance(i) \in Int
         /\ Column(s) \in Int /\ Row(s) \in Int /\ s \in Int
<1>1. Right[i] \in Int /\ Down[i] \in Int
  BY DirectionParts
<1>2. /\ Column(s) \in 0 .. Size - 1 /\ Row(s) \in 0 .. Size - 1
      /\ Column(s) \in Int /\ Row(s) \in Int /\ s \in Int
  BY SquareCoordinates, SizeType DEF Squares
<1>3. Distance(i) \in Int
  BY <1>1, SizeType DEF Distance
<1>4. Column_(s, i, 0) = Column(s) /\ Row_(s, i, 0) = Row(s)
  BY <1>1, <1>2 DEF Column_, Row_
<1> QED
  BY <1>1, <1>2, <1>3, <1>4 DEF OnBoard, Ordinals

(* One step further. *)
LEMMA StepFurther ==
  ASSUME NEW s \in Squares, NEW i \in 1 .. 8, NEW k \in Int
  PROVE  /\ Column_(s, i, k + 1) = Column_(s, i, k) + Right[i]
         /\ Row_(s, i, k + 1) = Row_(s, i, k) + Down[i]
         /\ s + (k + 1) * Distance(i) = (s + k * Distance(i)) + Distance(i)
<1>1. \A a, b \in Int : b + (k + 1) * a = (b + k * a) + a
  <2> TAKE a, b \in Int
  <2>1. (k + 1) * a = k * a + a /\ k * a \in Int
    OBVIOUS
  <2> QED
    BY <2>1
<1>2. Right[i] \in Int /\ Down[i] \in Int /\ Distance(i) \in Int /\ Column(s) \in Int /\ Row(s) \in Int /\ s \in Int
  BY LineStart
<1>3. Column_(s, i, k + 1) = Column_(s, i, k) + Right[i]
  BY <1>1, <1>2 DEF Column_
<1>4. Row_(s, i, k + 1) = Row_(s, i, k) + Down[i]
  BY <1>1, <1>2 DEF Row_
<1>5. s + (k + 1) * Distance(i) = (s + k * Distance(i)) + Distance(i)
  BY <1>1, <1>2
<1> QED
  BY <1>3, <1>4, <1>5

(* A line that is not masked is one on the board.                          *)
LEMMA UnmaskedLine ==
  ASSUME NEW s \in Squares, NEW i \in 1 .. 8, NEW m \in Nat
  PROVE  OnBoard(Column_(s, i, m), Row_(s, i, m)) <=>
           \A k \in 1 .. m : /\ s + k * Distance(i) \in Squares
                             /\ s + k * Distance(i) \in Mask[Distance(i)]
<1> DEFINE on(k) == OnBoard(Column_(s, i, k), Row_(s, i, k))
           fine(k) == s + k * Distance(i) \in Squares /\ s + k * Distance(i) \in Mask[Distance(i)]
<1>1. on(0)
  BY LineStart
<1>2. ASSUME NEW k \in Nat, on(k) PROVE on(k + 1) <=> fine(k + 1)
  <2> DEFINE x == s + k * Distance(i)
  <2>1. x \in Squares /\ Column(x) = Column_(s, i, k) /\ Row(x) = Row_(s, i, k)
    BY <1>2, SquareOnLine
  <2> HIDE DEF x
  <2>2. OnBoard(Column(x) + Right[i], Row(x) + Down[i])
          <=> x + Distance(i) \in Squares /\ x + Distance(i) \in Mask[Distance(i)]
    BY <2>1, StepIsOnBoard
  <2>3. /\ Column_(s, i, k + 1) = Column_(s, i, k) + Right[i] /\ Row_(s, i, k + 1) = Row_(s, i, k) + Down[i]
        /\ s + (k + 1) * Distance(i) = x + Distance(i)
    <3>1. k \in Int
      OBVIOUS
    <3> QED
      BY <3>1, StepFurther DEF x
  <2> QED
    BY <2>1, <2>2, <2>3
<1>3. ASSUME on(m), NEW k \in 1 .. m PROVE fine(k)
  <2>1. k - 1 \in Nat /\ (k - 1) + 1 = k /\ k \in 0 .. m /\ k - 1 \in 0 .. m
    OBVIOUS
  <2>2. on(k) /\ on(k - 1)
    BY <1>3, <2>1, LineOnBoard
  <2> QED
    BY <1>2, <2>1, <2>2
<1>4. ASSUME \A k \in 1 .. m : fine(k) PROVE on(m)
  <2> DEFINE T == {k \in 0 .. m : ~on(k)}
  <2> SUFFICES ASSUME T # {} PROVE FALSE
    BY DEF T
  <2>1. T \subseteq Nat
    OBVIOUS
  <2>2. PICK x \in T : \A y \in T : x <= y
    BY <2>1, LeastNatural
  <2>3. x # 0 /\ x \in 1 .. m /\ x - 1 \in Nat /\ (x - 1) + 1 = x
    BY <1>1
  <2>4. on(x - 1)
    <3>1. ~(x <= x - 1) /\ x - 1 \in 0 .. m
      BY <2>3
    <3> QED
      BY <2>2, <3>1
  <2>5. fine(x)
    BY <1>4, <2>3
  <2>6. on(x)
    BY <1>2, <2>3, <2>4, <2>5
  <2> QED
    BY <2>6
<1> QED
  BY <1>3, <1>4

(* Multiples of a distance. *)
LEMMA AlongMultiples ==
  ASSUME NEW s \in Int, NEW d \in Int, NEW k \in Int, NEW x, x = s + k * d
  PROVE  x \in Int /\ \A j \in Int : x - j * d = s + (k - j) * d /\ x + j * d = s + (k + j) * d
<1>1. k * d \in Int /\ \A j \in Int : (k - j) * d = k * d - j * d /\ (k + j) * d = k * d + j * d /\ j * d \in Int
  OBVIOUS
<1> QED
  BY <1>1

(* Back along a step: x is unmasked in the one direction when the square   *)
(* before it is in the other.                                              *)
LEMMA StepBack ==
  ASSUME NEW x \in Squares, NEW i \in 1 .. 8, NEW o \in 1 .. 8,
         Right[o] = -Right[i], Down[o] = -Down[i], Distance(o) = -Distance(i), x + Distance(o) \in Squares
  PROVE  x + Distance(o) \in Mask[Distance(o)] <=> x \in Mask[Distance(i)]
<1> PICK y \in Squares : y = x + Distance(o)
  OBVIOUS
<1>1. y + Distance(i) = x
  BY LineStart
<1>2. /\ Column(x) \in 0 .. Size - 1 /\ Row(x) \in 0 .. Size - 1 /\ Column(y) \in 0 .. Size - 1 /\ Row(y) \in 0 .. Size - 1
      /\ Right[i] \in Int /\ Down[i] \in Int
  BY SquareCoordinates, LineStart
<1>3. ASSUME y \in Mask[Distance(o)] PROVE x \in Mask[Distance(i)]
  <2>1. Column(y) = Column(x) + Right[o] /\ Row(y) = Row(x) + Down[o]
    BY <1>3, StepIsOnBoard
  <2>2. Column(y) + Right[i] = Column(x) /\ Row(y) + Down[i] = Row(x)
    BY <1>2, <2>1, SizeType
  <2>3. OnBoard(Column(y) + Right[i], Row(y) + Down[i])
    BY <1>2, <2>2 DEF OnBoard, Ordinals
  <2> QED
    BY <1>1, <2>3, StepIsOnBoard
<1>4. ASSUME x \in Mask[Distance(i)] PROVE y \in Mask[Distance(o)]
  <2>1. Column(x) = Column(y) + Right[i] /\ Row(x) = Row(y) + Down[i]
    BY <1>1, <1>4, StepIsOnBoard
  <2>2. Column(x) + Right[o] = Column(y) /\ Row(x) + Down[o] = Row(y)
    BY <1>2, <2>1, SizeType
  <2>3. OnBoard(Column(x) + Right[o], Row(x) + Down[o])
    BY <1>2, <2>2 DEF OnBoard, Ordinals
  <2> QED
    BY <2>3, StepIsOnBoard
<1> QED
  BY <1>3, <1>4

(* A line on the board is shorter than it is wide. *)
LEMMA LineLength ==
  ASSUME NEW s \in Squares, NEW i \in 1 .. 8, NEW m \in Nat, OnBoard(Column_(s, i, m), Row_(s, i, m))
  PROVE  m <= Size - 1
<1>1. Column(s) \in 0 .. Size - 1 /\ Row(s) \in 0 .. Size - 1 /\ Size \in Nat
  BY SquareCoordinates, SizeType
<1>2. Column(s) + m * Right[i] \in 0 .. Size - 1 /\ Row(s) + m * Down[i] \in 0 .. Size - 1
  BY DEF OnBoard, Ordinals, Column_, Row_
<1>3. /\ Right[i] \in -1 .. 1 /\ Down[i] \in -1 .. 1
      /\ Right[i] # 0 \/ Down[i] # 0
  <2>1. StepOf(i) # <<0, 0>>
    BY StepsAreDirections DEF Steps
  <2> QED
    BY <2>1, DirectionParts DEF StepOf
<1>4. \A c \in 0 .. Size - 1, p \in {-1, 1} : c + m * p \in 0 .. Size - 1 => m <= Size - 1
  <2> TAKE c \in 0 .. Size - 1, p \in {-1, 1}
  <2>1. CASE p = 1
    BY <1>1, <2>1
  <2>2. CASE p = -1
    BY <1>1, <2>2
  <2> QED
    BY <2>1, <2>2
<1>5. Right[i] \in {-1, 1} \/ Down[i] \in {-1, 1}
  BY <1>3
<1> QED
  BY <1>1, <1>2, <1>4, <1>5

(* The runs of the rules, square by square. *)
LEMMA RunUnmasked ==
  ASSUME NEW g, NEW s \in Squares, NEW i \in 1 .. 8, NEW n \in Nat \ {0}
  PROVE  /\ n \in LineTurns(g, s, StepOf(i)) <=>
              /\ \A k \in 1 .. n + 1 : /\ s + k * Distance(i) \in Squares
                                       /\ s + k * Distance(i) \in Mask[Distance(i)]
              /\ \A k \in 1 .. n : s + k * Distance(i) \in OpponentSet(g)
              /\ s + (n + 1) * Distance(i) \in PlayerSet(g)
         /\ n \in LineTurns(g, s, StepOf(i)) => n <= Size - 2
<1>1. \A k : At(s, StepOf(i), k) = s + k * Distance(i)
  BY DEF At, StepOf, Distance
<1>2. n + 1 \in Nat /\ n + 1 \in Int
  OBVIOUS
<1>3. OnBoard(Column(s) + (n + 1) * StepOf(i)[1], Row(s) + (n + 1) * StepOf(i)[2])
        <=> OnBoard(Column_(s, i, n + 1), Row_(s, i, n + 1))
  BY DEF StepOf, Column_, Row_
<1>4. OnBoard(Column_(s, i, n + 1), Row_(s, i, n + 1)) <=>
        \A k \in 1 .. n + 1 : s + k * Distance(i) \in Squares /\ s + k * Distance(i) \in Mask[Distance(i)]
  BY <1>2, UnmaskedLine
<1>5. OnBoard(Column_(s, i, n + 1), Row_(s, i, n + 1)) => n \in 1 .. Size - 2
  <2>1. OnBoard(Column_(s, i, n + 1), Row_(s, i, n + 1)) => n + 1 <= Size - 1
    BY <1>2, LineLength
  <2> QED
    BY <2>1, SizeType
<1>6. n \in LineTurns(g, s, StepOf(i)) <=>
        /\ OnBoard(Column_(s, i, n + 1), Row_(s, i, n + 1))
        /\ \A k \in 1 .. n : s + k * Distance(i) \in OpponentSet(g)
        /\ s + (n + 1) * Distance(i) \in PlayerSet(g)
  BY <1>1, <1>3, <1>5 DEF LineTurns
<1>7. n \in LineTurns(g, s, StepOf(i)) => n <= Size - 2
  BY <1>5, <1>6
<1> QED
  BY <1>4, <1>6, <1>7

(* A position of the game: no square holds two discs. *)
Playable(g) == g \in Positions /\ g.blacks \cap g.whites = {}

(* A run turned from s in direction i ends at e; square x is in one. *)
EndsRun(g, s, i, e) == \E n \in Nat \ {0} : n \in LineTurns(g, s, StepOf(i)) /\ e = s + (n + 1) * Distance(i)
InRun(g, s, i, x) ==
  \E n \in Nat \ {0} : n \in LineTurns(g, s, StepOf(i)) /\ \E k \in 1 .. n : x = s + k * Distance(i)

(* No square is two of empty, a disc of the player and one of the other.   *)
LEMMA PlayableParts ==
  ASSUME NEW g, Playable(g)
  PROVE  /\ PlayerSet(g) \subseteq Squares /\ OpponentSet(g) \subseteq Squares /\ Empties(g) \subseteq Squares
         /\ PlayerSet(g) \cap OpponentSet(g) = {}
         /\ Empties(g) \cap PlayerSet(g) = {} /\ Empties(g) \cap OpponentSet(g) = {}
         /\ Squares \subseteq Int
<1>1. /\ PlayerSet(g) \subseteq Squares /\ OpponentSet(g) \subseteq Squares
      /\ PlayerSet(g) \cup OpponentSet(g) = g.blacks \cup g.whites
  BY PartsOfPosition DEF Playable
<1>2. PlayerSet(g) \cap OpponentSet(g) = {}
  BY DEF Playable, PlayerSet, OpponentSet
<1>3. Squares \subseteq Int
  BY DEF Squares
<1> QED
  BY <1>1, <1>2, <1>3 DEF Empties

(* From a move, the ends of the fill are those of the runs that it turns.  *)
LEMMA EndsOfMove ==
  ASSUME Size <= 8, NEW g, Playable(g), NEW s \in Empties(g), NEW i \in 1 .. 8, NEW e \in Int
  PROVE  e \in Ends({s}, OpponentSet(g), PlayerSet(g), Distance(i)) <=> EndsRun(g, s, i, e)
<1> DEFINE base == OpponentSet(g) \cap Mask[Distance(i)]
           run == Fill({s}, base, Distance(i)) \ {s}
<1> PICK d \in Int : d = Distance(i)
  BY LineStart, PlayableParts
<1>1. /\ s \in Squares /\ {s} \subseteq Squares /\ s \in Int /\ s \notin OpponentSet(g)
      /\ base \subseteq Squares /\ run \subseteq Squares
      /\ PlayerSet(g) \subseteq Squares /\ OpponentSet(g) \subseteq Squares
  <2>1. base \subseteq Squares /\ {s} \subseteq Squares
    BY PlayableParts
  <2>2. run \subseteq Squares
    BY <2>1, FillOnBoard
  <2> QED
    BY <2>1, <2>2, PlayableParts
<1>2. Ends({s}, OpponentSet(g), PlayerSet(g), d) = Shifted(run, d) \cap Mask[d] \cap PlayerSet(g)
  BY DEF Ends
<1> HIDE DEF run
<1>3. e \in Ends({s}, OpponentSet(g), PlayerSet(g), d) <=>
        e \in Squares /\ e - d \in run /\ e \in Mask[d] /\ e \in PlayerSet(g)
  BY <1>1, <1>2, ShiftedBack
<1>4. e - d \in Int /\ (e - d \in run <=> e - d # s /\ \E k \in 0 .. 7 : Reaches({s}, base, d, e - d, k))
  BY <1>1, FillReaches DEF run
<1> HIDE DEF base
<1>5. ASSUME NEW k \in 0 .. 7, Reaches({s}, base, d, e - d, k), e - d # s, e \in Squares, e \in Mask[d], e \in PlayerSet(g)
      PROVE  \E n \in Nat \ {0} : n \in LineTurns(g, s, StepOf(i)) /\ e = s + (n + 1) * d
  <2>1. (e - d) - k * d = s /\ \A j \in 0 .. k - 1 : (e - d) - j * d \in base
    BY <1>5 DEF Reaches
  <2>2. k \in Int /\ k * d \in Int /\ 0 * d = 0 /\ (k + 1) * d = k * d + d
    OBVIOUS
  <2>3. k # 0 /\ k \in Nat \ {0}
    <3>1. k = 0 => e - d = s
      BY <2>1, <2>2
    <3> QED
      BY <1>5, <3>1
  <2>4. e - d = s + k * d /\ e = s + (k + 1) * d
    <3> PICK x, y \in Int : x = k * d /\ y = (k + 1) * d
      BY <2>2
    <3>1. e \in Int /\ d \in Int /\ s \in Int /\ y = x + d /\ (e - d) - x = s
      BY <1>1, <2>1, <2>2
    <3>2. e - d = s + x /\ e = s + y
      BY ONLY <3>1, x \in Int, y \in Int
    <3> QED
      BY <3>2
  <2>5. \A j \in Int : (e - d) - j * d = s + (k - j) * d
    BY <1>1, <2>2, <2>4, AlongMultiples
  <2>6. ASSUME NEW m \in 1 .. k PROVE s + m * d \in base
    <3>1. k - m \in 0 .. k - 1 /\ k - m \in Int /\ k - (k - m) = m
      BY <2>3
    <3> QED
      BY <2>1, <2>5, <3>1
  <2>7. \A m \in 1 .. k + 1 : m \in 1 .. k \/ m = k + 1
    BY <2>3
  <2>8. \A m \in 1 .. k + 1 : s + m * d \in Squares /\ s + m * d \in Mask[d]
    BY <1>1, <1>5, <2>4, <2>6, <2>7 DEF base
  <2>9. \A m \in 1 .. k : s + m * d \in OpponentSet(g)
    BY <2>6 DEF base
  <2>10. k \in LineTurns(g, s, StepOf(i))
    BY <1>1, <1>5, <2>3, <2>4, <2>8, <2>9, RunUnmasked
  <2> QED
    BY <2>3, <2>4, <2>10
<1>6. ASSUME NEW n \in Nat \ {0}, n \in LineTurns(g, s, StepOf(i)), e = s + (n + 1) * d
      PROVE  /\ e - d # s /\ e \in Squares /\ e \in Mask[d] /\ e \in PlayerSet(g)
             /\ n \in 0 .. 7 /\ Reaches({s}, base, d, e - d, n)
  <2>1. /\ \A k \in 1 .. n + 1 : s + k * d \in Squares /\ s + k * d \in Mask[d]
        /\ \A k \in 1 .. n : s + k * d \in OpponentSet(g)
        /\ s + (n + 1) * d \in PlayerSet(g)
        /\ n <= Size - 2
    BY <1>1, <1>6, RunUnmasked
  <2>2. n + 1 \in 1 .. n + 1 /\ n \in 1 .. n /\ n \in Int /\ n * d \in Int /\ (n + 1) * d = n * d + d
        /\ n \in 0 .. 7
    BY <2>1, SizeType
  <2>3. e - d = s + n * d
    BY <1>1, <1>6, <2>2
  <2>4. \A j \in Int : (e - d) - j * d = s + (n - j) * d
    BY <1>1, <2>2, <2>3, AlongMultiples
  <2>5. (e - d) - n * d = s
    BY <1>1, <2>2, <2>3
  <2>6. ASSUME NEW j \in 0 .. n - 1 PROVE (e - d) - j * d \in base
    <3>1. n - j \in 1 .. n /\ n - j \in 1 .. n + 1 /\ j \in Int
      BY <2>2
    <3> QED
      BY <2>1, <2>4, <3>1 DEF base
  <2>7. Reaches({s}, base, d, e - d, n)
    BY <2>5, <2>6 DEF Reaches
  <2>8. e - d # s
    BY <1>1, <2>1, <2>2, <2>3
  <2> QED
    BY <1>6, <2>1, <2>2, <2>7, <2>8
<1>7. EndsRun(g, s, i, e) <=> \E n \in Nat \ {0} : n \in LineTurns(g, s, StepOf(i)) /\ e = s + (n + 1) * d
  BY DEF EndsRun
<1> QED
  BY <1>3, <1>4, <1>5, <1>6, <1>7

(* From the discs of the player, the ends of the fill are the squares from *)
(* where the rules turn a run in the opposite direction.                   *)
LEMMA EndsOfPlayer ==
  ASSUME Size <= 8, NEW g, Playable(g), NEW e \in Empties(g), NEW i \in 1 .. 8, NEW o \in 1 .. 8,
         Right[o] = -Right[i], Down[o] = -Down[i], Distance(o) = -Distance(i)
  PROVE  e \in Ends(PlayerSet(g), OpponentSet(g), Empties(g), Distance(i)) <=>
           \E n \in Nat \ {0} : n \in LineTurns(g, e, StepOf(o))
<1> DEFINE base == OpponentSet(g) \cap Mask[Distance(i)]
           run == Fill(PlayerSet(g), base, Distance(i)) \ PlayerSet(g)
<1> PICK d \in Int : d = Distance(i)
  BY LineStart, PlayableParts
<1>1. /\ e \in Squares /\ e \in Int /\ base \subseteq Squares /\ run \subseteq Squares
      /\ PlayerSet(g) \subseteq Squares /\ OpponentSet(g) \subseteq Squares
  <2>1. base \subseteq Squares /\ PlayerSet(g) \subseteq Squares
    BY PlayableParts
  <2>2. run \subseteq Squares
    BY <2>1, FillOnBoard
  <2> QED
    BY <2>1, <2>2, PlayableParts
<1>2. Ends(PlayerSet(g), OpponentSet(g), Empties(g), d) = Shifted(run, d) \cap Mask[d] \cap Empties(g)
  BY DEF Ends
<1> HIDE DEF run
<1>3. e \in Ends(PlayerSet(g), OpponentSet(g), Empties(g), d) <=> e - d \in run /\ e \in Mask[d]
  BY <1>1, <1>2, ShiftedBack
<1>4. /\ e - d \in Int
      /\ e - d \in run <=> e - d \notin PlayerSet(g) /\ \E k \in 0 .. 7 : Reaches(PlayerSet(g), base, d, e - d, k)
  BY <1>1, FillReaches DEF run
<1> HIDE DEF base
(* The squares of the line, from e on. *)
<1>5. \A m \in Int : /\ e + m * Distance(o) = (e - d) - (m - 1) * d
                     /\ e + (m - 1) * Distance(o) = e - (m - 1) * d
                     /\ e + m * Distance(o) = (e + (m - 1) * Distance(o)) + Distance(o)
  <2> TAKE m \in Int
  <2>1. m * (-d) = -(m * d) /\ (m - 1) * (-d) = -(m * d) + d /\ (m - 1) * d = m * d - d /\ m * d \in Int
    OBVIOUS
  <2>2. Distance(o) = -d
    OBVIOUS
  <2> QED
    BY <1>1, <2>1, <2>2
<1>6. ASSUME NEW k \in Int, e + (k - 1) * Distance(o) \in Squares, e + k * Distance(o) \in Squares
      PROVE  e + k * Distance(o) \in Mask[Distance(o)] <=> e + (k - 1) * Distance(o) \in Mask[d]
  BY <1>5, <1>6, StepBack
<1>7. e + 0 * Distance(o) = e
  BY <1>1, LineStart
<1>8. ASSUME NEW k \in 0 .. 7, Reaches(PlayerSet(g), base, d, e - d, k), e - d \notin PlayerSet(g), e \in Mask[d]
      PROVE  \E n \in Nat \ {0} : n \in LineTurns(g, e, StepOf(o))
  <2>1. (e - d) - k * d \in PlayerSet(g) /\ \A j \in 0 .. k - 1 : (e - d) - j * d \in base
    BY <1>8 DEF Reaches
  <2>2. k # 0 /\ k \in Nat \ {0}
    <3>1. 0 * d = 0 /\ (e - d) - 0 = e - d
      BY <1>1
    <3> QED
      BY <1>8, <2>1, <3>1
  <2>3. e + (k + 1) * Distance(o) \in PlayerSet(g)
    <3>1. k + 1 \in Int /\ (k + 1) - 1 = k
      OBVIOUS
    <3> QED
      BY <1>5, <2>1, <3>1
  <2>4. ASSUME NEW m \in 1 .. k PROVE e + m * Distance(o) \in base
    <3>1. m \in Int /\ m - 1 \in 0 .. k - 1
      BY <2>2
    <3> QED
      BY <1>5, <2>1, <3>1
  <2>5. ASSUME NEW m \in 1 .. k + 1
        PROVE  e + m * Distance(o) \in Squares /\ e + m * Distance(o) \in Mask[Distance(o)]
    <3>1. m \in Int /\ (m \in 1 .. k \/ m = k + 1) /\ (m - 1 = 0 \/ m - 1 \in 1 .. k)
      BY <2>2
    <3>2. e + m * Distance(o) \in Squares
      BY <1>1, <2>3, <2>4, <3>1
    <3>3. e + (m - 1) * Distance(o) \in Squares /\ e + (m - 1) * Distance(o) \in Mask[d]
      BY <1>1, <1>7, <1>8, <2>4, <3>1 DEF base
    <3> QED
      BY <1>6, <3>1, <3>2, <3>3
  <2>6. \A m \in 1 .. k : e + m * Distance(o) \in OpponentSet(g)
    BY <2>4 DEF base
  <2>7. k \in LineTurns(g, e, StepOf(o))
    BY <1>1, <2>2, <2>3, <2>5, <2>6, RunUnmasked
  <2> QED
    BY <2>2, <2>7
<1>9. ASSUME NEW n \in Nat \ {0}, n \in LineTurns(g, e, StepOf(o))
      PROVE  /\ e - d \notin PlayerSet(g) /\ e \in Mask[d]
             /\ n \in 0 .. 7 /\ Reaches(PlayerSet(g), base, d, e - d, n)
  <2>1. /\ \A k \in 1 .. n + 1 : e + k * Distance(o) \in Squares /\ e + k * Distance(o) \in Mask[Distance(o)]
        /\ \A k \in 1 .. n : e + k * Distance(o) \in OpponentSet(g)
        /\ e + (n + 1) * Distance(o) \in PlayerSet(g)
        /\ n <= Size - 2
    BY <1>1, <1>9, RunUnmasked
  <2>2. n \in 0 .. 7 /\ n \in Int
    <3>1. n \in Nat /\ n <= Size - 2 /\ Size <= 8 /\ Size \in Nat
      BY <2>1, SizeType
    <3> QED
      BY ONLY <3>1
  <2>3. ASSUME NEW m \in 1 .. n + 1 PROVE e + (m - 1) * Distance(o) \in Mask[d]
    <3>1. m \in Int /\ (m - 1 = 0 \/ m - 1 \in 1 .. n + 1)
      OBVIOUS
    <3> QED
      BY <1>1, <1>6, <1>7, <2>1, <3>1
  <2>4. e \in Mask[d]
    <3>1. 1 \in 1 .. n + 1 /\ 1 - 1 = 0
      OBVIOUS
    <3> QED
      BY <1>7, <2>3, <3>1
  <2>5. (e - d) - n * d \in PlayerSet(g)
    <3>1. n + 1 \in Int /\ (n + 1) - 1 = n
      OBVIOUS
    <3> QED
      BY <1>5, <2>1, <3>1
  <2>6. ASSUME NEW j \in 0 .. n - 1 PROVE (e - d) - j * d \in base
    <3>1. j + 1 \in 1 .. n /\ j + 1 \in Int /\ (j + 1) - 1 = j /\ j + 2 \in 1 .. n + 1 /\ (j + 2) - 1 = j + 1
      OBVIOUS
    <3>2. (e - d) - j * d = e + (j + 1) * Distance(o)
      BY <1>5, <3>1
    <3> QED
      BY <2>1, <2>3, <3>1, <3>2 DEF base
  <2>7. e - d \notin PlayerSet(g)
    <3>1. 0 \in 0 .. n - 1 /\ 0 * d = 0 /\ (e - d) - 0 = e - d
      BY <1>1
    <3> QED
      BY <2>6, <3>1, PlayableParts DEF base
  <2>8. Reaches(PlayerSet(g), base, d, e - d, n)
    BY <2>5, <2>6 DEF Reaches
  <2> QED
    BY <2>2, <2>4, <2>7, <2>8
<1> QED
  BY <1>3, <1>4, <1>8, <1>9

(* A square from where a run is turned has no other run in the direction.  *)
LEMMA OnlyRun ==
  ASSUME NEW g, Playable(g), NEW s \in Squares, NEW i \in 1 .. 8,
         NEW n \in Nat \ {0}, n \in LineTurns(g, s, StepOf(i))
  PROVE  Run(g, s, StepOf(i)) = n
<1>1. ASSUME NEW m \in Nat \ {0}, m \in LineTurns(g, s, StepOf(i)), NEW l \in Nat \ {0}, l \in LineTurns(g, s, StepOf(i))
      PROVE  m <= l
  <2> SUFFICES ASSUME l + 1 \in 1 .. m PROVE FALSE
    OBVIOUS
  <2>1. s + (l + 1) * Distance(i) \in PlayerSet(g)
    BY <1>1, RunUnmasked
  <2>2. \A k \in 1 .. m : s + k * Distance(i) \in OpponentSet(g)
    BY <1>1, RunUnmasked
  <2> QED
    BY <2>1, <2>2, PlayableParts
<1>2. \A y \in LineTurns(g, s, StepOf(i)) : y \in Nat \ {0}
  BY DEF LineTurns
<1>3. \A y \in LineTurns(g, s, StepOf(i)) : y <= n
  BY <1>1, <1>2
<1> QED
  BY <1>3, RunIsLength

(* The discs that the rules turn. *)
LEMMA TurnedSquares ==
  ASSUME NEW g, Playable(g), NEW s \in Squares, NEW x
  PROVE  x \in Turned(g, s) <=>
           \E i \in 1 .. 8 : InRun(g, s, i, x)
<1>1. \A i, k : At(s, StepOf(i), k) = s + k * Distance(i)
  BY DEF At, StepOf, Distance
<1>2. ASSUME NEW step \in Steps, NEW k \in 1 .. Run(g, s, step), x = At(s, step, k)
      PROVE  \E i \in 1 .. 8 : InRun(g, s, i, x)
  <2>1. Run(g, s, step) \in Nat \ {0} /\ Run(g, s, step) \in LineTurns(g, s, step)
    BY RunIsLength
  <2>2. PICK i \in 1 .. 8 : step = StepOf(i)
    BY StepsAreDirections
  <2>3. x = s + k * Distance(i)
    BY <1>1, <1>2, <2>2
  <2> QED
    BY <2>1, <2>2, <2>3 DEF InRun
<1>3. ASSUME NEW i \in 1 .. 8, NEW n \in Nat \ {0}, n \in LineTurns(g, s, StepOf(i)),
             NEW k \in 1 .. n, x = s + k * Distance(i)
      PROVE  x \in Turned(g, s)
  <2>1. Run(g, s, StepOf(i)) = n
    BY <1>3, OnlyRun
  <2>2. StepOf(i) \in Steps
    BY StepsAreDirections
  <2>3. x = At(s, StepOf(i), k)
    BY <1>1, <1>3
  <2> QED
    BY <2>1, <2>2, <2>3 DEF Turned
<1>4. x \in Turned(g, s) <=> \E step \in Steps : \E k \in 1 .. Run(g, s, step) : x = At(s, step, k)
  BY DEF Turned
<1>5. ASSUME NEW i \in 1 .. 8, InRun(g, s, i, x) PROVE x \in Turned(g, s)
  BY <1>3, <1>5 DEF InRun
<1> QED
  BY <1>2, <1>4, <1>5

(* The way back of a fill turns the run and stops at the move.             *)
LEMMA WayBack ==
  ASSUME Size <= 8, NEW g, Playable(g), NEW s \in Empties(g), NEW i \in 1 .. 8, NEW x \in Int, x \notin PlayerSet(g)
  PROVE  x \in Fill(Ends({s}, OpponentSet(g), PlayerSet(g), Distance(i)),
                    OpponentSet(g) \cap Mask[Distance(i)], -Distance(i))
           <=> InRun(g, s, i, x)
<1> DEFINE base == OpponentSet(g) \cap Mask[Distance(i)]
           ends == Ends({s}, OpponentSet(g), PlayerSet(g), Distance(i))
<1> PICK d \in Int : d = Distance(i)
  BY LineStart, PlayableParts
<1>1. /\ s \in Squares /\ s \in Int /\ s \notin OpponentSet(g) /\ base \subseteq Squares
      /\ OpponentSet(g) \cap PlayerSet(g) = {}
  BY PlayableParts
<1>2. ends \subseteq Squares /\ ends \subseteq PlayerSet(g)
  <2>1. ends \subseteq PlayerSet(g)
    BY Zenon DEF Ends
  <2> QED
    BY <2>1, PlayableParts
<1>3. \A e \in Int : e \in ends <=>
        \E n \in Nat \ {0} : n \in LineTurns(g, s, StepOf(i)) /\ e = s + (n + 1) * d
  <2> TAKE e \in Int
  <2>1. e \in Ends({s}, OpponentSet(g), PlayerSet(g), Distance(i)) <=> EndsRun(g, s, i, e)
    BY EndsOfMove
  <2> QED
    BY <2>1 DEF EndsRun
<1> HIDE DEF ends
<1>4. -d \in Int /\ (x \in Fill(ends, base, -d) <=> \E k \in 0 .. 7 : Reaches(ends, base, -d, x, k))
  <2>1. -d \in Int
    OBVIOUS
  <2> PICK c \in Int : c = -d
    BY <2>1
  <2>2. x \in Fill(ends, base, c) <=> \E k \in 0 .. 7 : Reaches(ends, base, c, x, k)
    BY <1>1, <1>2, FillReaches
  <2> QED
    BY <2>1, <2>2
<1> HIDE DEF base
<1>5. \A j \in Int : x - j * (-d) = x + j * d /\ x + j * d \in Int
  <2> TAKE j \in Int
  <2>1. j * (-d) = -(j * d) /\ j * d \in Int
    OBVIOUS
  <2> QED
    BY <2>1
<1>6. ASSUME NEW k \in 0 .. 7, Reaches(ends, base, -d, x, k)
      PROVE  \E n \in Nat \ {0} : n \in LineTurns(g, s, StepOf(i)) /\ \E l \in 1 .. n : x = s + l * d
  <2>1. k \in Int /\ x + k * d \in ends /\ \A j \in 0 .. k - 1 : x + j * d \in base
    <3>1. k \in Int /\ \A j \in 0 .. k - 1 : j \in Int
      OBVIOUS
    <3>2. x - k * (-d) \in ends /\ \A j \in 0 .. k - 1 : x - j * (-d) \in base
      BY <1>6 DEF Reaches
    <3> QED
      BY <1>5, <3>1, <3>2
  <2>2. PICK n \in Nat \ {0} : n \in LineTurns(g, s, StepOf(i)) /\ x + k * d = s + (n + 1) * d
    BY <1>3, <1>5, <2>1
  <2>3. \A j \in Int : (x + k * d) - j * d = s + ((n + 1) - j) * d
    <3>1. n + 1 \in Int
      OBVIOUS
    <3> QED
      BY <1>1, <2>2, <3>1, AlongMultiples
  <2>4. \A j \in Int : (x + k * d) - j * d = x + (k - j) * d
    <3> PICK e \in Int : e = x + k * d
      BY <1>5, <2>1
    <3> QED
      BY <2>1, AlongMultiples
  <2>5. k # 0
    <3>1. 0 * d = 0 /\ x + 0 = x
      OBVIOUS
    <3> QED
      BY <1>2, <2>1, <3>1
  <2>6. k <= n
    <3> SUFFICES ASSUME n + 1 <= k PROVE FALSE
      BY <2>1
    <3>1. n + 1 \in Int /\ k - (n + 1) \in 0 .. k - 1 /\ (n + 1) - (n + 1) = 0 /\ 0 * d = 0
      BY <2>1
    <3>2. x + (k - (n + 1)) * d = s + 0 * d
      BY <2>3, <2>4, <3>1
    <3>3. s \in base
      BY <1>1, <2>1, <3>1, <3>2
    <3> QED
      BY <1>1, <3>3 DEF base
  <2>7. (n + 1) - k \in 1 .. n /\ k - k = 0 /\ 0 * d = 0 /\ x + 0 = x
    BY <2>1, <2>5, <2>6
  <2>8. x = s + ((n + 1) - k) * d
    BY <2>1, <2>3, <2>4, <2>7
  <2> QED
    BY <2>2, <2>7, <2>8
<1>7. ASSUME NEW n \in Nat \ {0}, n \in LineTurns(g, s, StepOf(i)), NEW l \in 1 .. n, x = s + l * d
      PROVE  \E k \in 0 .. 7 : Reaches(ends, base, -d, x, k)
  <2>1. /\ \A k \in 1 .. n + 1 : s + k * d \in Squares /\ s + k * d \in Mask[d]
        /\ \A k \in 1 .. n : s + k * d \in OpponentSet(g)
        /\ n <= Size - 2
    BY <1>1, <1>7, RunUnmasked
  <2> PICK k \in Int : k = (n + 1) - l
    OBVIOUS
  <2>2. k \in 0 .. 7
    <3>1. n \in Nat /\ n <= Size - 2 /\ Size <= 8 /\ Size \in Nat /\ l \in 1 .. n /\ k = (n + 1) - l
      BY <2>1, SizeType
    <3> QED
      BY ONLY <3>1
  <2>3. \A j \in Int : x + j * d = s + (l + j) * d
    <3>1. l \in Int
      OBVIOUS
    <3> QED
      BY <1>1, <1>7, <3>1, AlongMultiples
  <2>4. x + k * d \in ends
    <3>1. l + k = n + 1
      OBVIOUS
    <3> QED
      BY <1>3, <1>5, <1>7, <2>3, <3>1
  <2>5. ASSUME NEW j \in 0 .. k - 1 PROVE x + j * d \in base
    <3>1. j \in Int /\ l + j \in 1 .. n /\ l + j \in 1 .. n + 1
      OBVIOUS
    <3> QED
      BY <2>1, <2>3, <3>1 DEF base
  <2>6. Reaches(ends, base, -d, x, k)
    <3>1. \A j \in 0 .. k - 1 : j \in Int
      OBVIOUS
    <3> QED
      BY <1>5, <2>4, <2>5, <3>1 DEF Reaches
  <2> QED
    BY <2>2, <2>6
<1>8. x \in Fill(ends, base, -d) <=>
        \E n \in Nat \ {0} : n \in LineTurns(g, s, StepOf(i)) /\ \E k \in 1 .. n : x = s + k * d
  BY <1>4, <1>6, <1>7
<1>9. x \in Fill(ends, base, -d) <=> InRun(g, s, i, x)
  BY <1>8 DEF InRun
<1> QED
  BY <1>9 DEF ends, base

(* There is a run to turn from s in direction i. *)
HasRun(g, s, i) == \E n \in Nat \ {0} : n \in LineTurns(g, s, StepOf(i))

(* A move is an empty square with a run in some direction. *)
LEMMA MovesHaveRuns ==
  ASSUME NEW g, Playable(g), NEW e \in Empties(g)
  PROVE  e \in LegalMoves(g) <=> \E i \in 1 .. 8 : HasRun(g, e, i)
<1>1. e \in Squares
  BY PlayableParts
<1>2. e \in LegalMoves(g) <=> Turned(g, e) # {}
  BY DEF LegalMoves
<1>3. ASSUME Turned(g, e) # {} PROVE \E i \in 1 .. 8 : HasRun(g, e, i)
  <2> PICK x : x \in Turned(g, e)
    BY <1>3
  <2> PICK i \in 1 .. 8 : InRun(g, e, i, x)
    BY <1>1, TurnedSquares
  <2> QED
    BY DEF InRun, HasRun
<1>4. ASSUME NEW i \in 1 .. 8, HasRun(g, e, i) PROVE Turned(g, e) # {}
  <2> PICK n \in Nat \ {0} : n \in LineTurns(g, e, StepOf(i))
    BY <1>4 DEF HasRun
  <2>1. 1 \in 1 .. n
    OBVIOUS
  <2>2. InRun(g, e, i, e + 1 * Distance(i))
    BY <2>1 DEF InRun
  <2>3. e + 1 * Distance(i) \in Turned(g, e)
    BY <1>1, <2>2, TurnedSquares
  <2> QED
    BY <2>3
<1> QED
  BY <1>2, <1>3, <1>4

(* board_legal_moves4 and game_position_x_make_move2 follow the rules at   *)
(* every position of every board of up to eight rows: the fills find the   *)
(* moves of the rules, they turn their discs and no others, and neither    *)
(* wraps round the edges of the board nor misses the longest runs.         *)
THEOREM KoggeStoneFollowsRules ==
  ASSUME Size <= 8, NEW g, Playable(g)
  PROVE  /\ board_legal_moves4(g) = LegalMoves(g)
         /\ \A s \in LegalMoves(g) : game_position_x_make_move2(g, s) = After(g, s)
<1>1. ASSUME NEW e \in Empties(g)
      PROVE  e \in LegalMoves(g) <=> \E o \in 1 .. 8 : \E n \in Nat \ {0} : n \in LineTurns(g, e, StepOf(o))
  BY MovesHaveRuns DEF HasRun
<1>2. ASSUME NEW e \in Empties(g)
      PROVE  e \in board_legal_moves4(g) <=>
               \E i \in 1 .. 8 : e \in Ends(PlayerSet(g), OpponentSet(g), Empties(g), Distance(i))
  BY WordDirections DEF board_legal_moves4, kogge_stone_b
<1>3. board_legal_moves4(g) \subseteq Empties(g) /\ LegalMoves(g) \subseteq Empties(g)
  BY DEF board_legal_moves4, kogge_stone_b, Ends, LegalMoves
<1>4. ASSUME NEW e \in Empties(g), NEW i \in 1 .. 8, e \in Ends(PlayerSet(g), OpponentSet(g), Empties(g), Distance(i))
      PROVE  \E o \in 1 .. 8 : \E n \in Nat \ {0} : n \in LineTurns(g, e, StepOf(o))
  <2> PICK o \in 1 .. 8 : Right[o] = -Right[i] /\ Down[o] = -Down[i] /\ Distance(o) = -Distance(i)
    BY OppositeDirection
  <2> QED
    BY <1>4, EndsOfPlayer
<1>5. ASSUME NEW e \in Empties(g), NEW o \in 1 .. 8, NEW n \in Nat \ {0}, n \in LineTurns(g, e, StepOf(o))
      PROVE  \E i \in 1 .. 8 : e \in Ends(PlayerSet(g), OpponentSet(g), Empties(g), Distance(i))
  <2> PICK i \in 1 .. 8 : Right[i] = -Right[o] /\ Down[i] = -Down[o] /\ Distance(i) = -Distance(o)
    BY OppositeDirection
  <2>1. Right[o] = -Right[i] /\ Down[o] = -Down[i] /\ Distance(o) = -Distance(i)
    <3>1. Right[o] \in Int /\ Down[o] \in Int
      BY DirectionParts
    <3>2. Distance(o) \in Int
      BY <3>1, SizeType DEF Distance
    <3> QED
      BY <3>1, <3>2
  <2> QED
    BY <1>5, <2>1, EndsOfPlayer
<1>6. board_legal_moves4(g) = LegalMoves(g)
  BY <1>1, <1>2, <1>3, <1>4, <1>5
<1>7. ASSUME NEW s \in LegalMoves(g) PROVE game_position_x_make_move2(g, s) = After(g, s)
  <2> DEFINE p == PlayerSet(g)
             o == OpponentSet(g)
             t == Turned(g, s)
             f == kogge_stone_gpb({s}, o, p)
             back(i) == Fill(Ends({s}, o, p, Distance(i)), o \cap Mask[Distance(i)], -Distance(i))
  <2>1. /\ s \in Empties(g) /\ s \in Squares /\ s \in Int /\ s \notin o /\ s \notin p /\ p \cap o = {}
        /\ p \subseteq Int /\ o \subseteq Int
    BY <1>3, PlayableParts
  <2>2. t \subseteq o
    BY TurnedAreOpponents
  <2>3. \A x : x \in f <=> x = s \/ \E i \in 1 .. 8 : x \in back(i)
    BY WordDirections DEF kogge_stone_gpb, direction_opposite
  <2>4. \A i \in 1 .. 8 : back(i) \subseteq Squares
    <3> TAKE i \in 1 .. 8
    <3>1. Ends({s}, o, p, Distance(i)) \subseteq Squares /\ o \cap Mask[Distance(i)] \subseteq Squares
      BY PlayableParts DEF Ends
    <3> QED
      BY <3>1, FillOnBoard
  <2>5. Squares \subseteq Int
    BY PlayableParts
  <2>6. ASSUME NEW x \in Int, x \notin p PROVE (\E i \in 1 .. 8 : x \in back(i)) <=> x \in t
    <3>1. \A i \in 1 .. 8 : x \in back(i) <=> InRun(g, s, i, x)
      <4> TAKE i \in 1 .. 8
      <4>1. x \in Fill(Ends({s}, OpponentSet(g), PlayerSet(g), Distance(i)),
                        OpponentSet(g) \cap Mask[Distance(i)], -Distance(i))
              <=> InRun(g, s, i, x)
        BY <2>1, <2>6, WayBack
      <4> QED
        BY <4>1
    <3>2. x \in t <=> \E i \in 1 .. 8 : InRun(g, s, i, x)
      BY <2>1, TurnedSquares
    <3> HIDE DEF back, t
    <3> QED
      BY <3>1, <3>2
  <2> HIDE DEF back, f, t
  <2>7. p \cup f = p \cup t \cup {s}
    BY <2>1, <2>2, <2>3, <2>4, <2>5, <2>6
  <2>8. o \ f = o \ t
    BY <2>1, <2>2, <2>3, <2>4, <2>5, <2>6
  <2>9. game_position_x_make_move2(g, s) = AfterMove(g.player, p \cup f, o \ f)
    BY DEF game_position_x_make_move2, f
  <2>10. After(g, s) = AfterMove(g.player, p \cup t \cup {s}, o \ t)
    BY DEF After, t
  <2> QED
    BY <2>7, <2>8, <2>9, <2>10
<1> QED
  BY <1>6, <1>7

(* The array of the solver and the bitboards of board.c are two boards of  *)
(* one game: they have the same moves, and make the same position of each, *)
(* as the translation of the one into the other supposes.                  *)
THEOREM BoardsAgree ==
  ASSUME Size <= 8, NEW b, BoardType(b), NEW color \in {0, 2}, NEW g, g = ifes_game_position_translation(b, color)
  PROVE  /\ board_legal_moves4(g) = {SquareOf[x] : x \in Moves(b, color)}
         /\ \A x \in Moves(b, color) :
              game_position_x_make_move2(g, SquareOf[x])
                = ifes_game_position_translation(Placed(b, x, flips(b, x, color), color), opponent_color(color))
<1>1. Playable(g)
  <2>1. g.blacks = {x \in Squares : b[Index(x)] = 2} /\ g.whites = {x \in Squares : b[Index(x)] = 0}
    BY TranslatedSets
  <2>2. g \in Positions
    BY TranslatedSets
  <2> QED
    BY <2>1, <2>2 DEF Playable
<1>2. /\ board_legal_moves4(g) = LegalMoves(g)
      /\ \A s \in LegalMoves(g) : game_position_x_make_move2(g, s) = After(g, s)
  BY <1>1, KoggeStoneFollowsRules
<1>3. /\ \A s \in LegalMoves(g) : s \in Squares /\ Index(s) \in Moves(b, color)
      /\ \A x \in Moves(b, color) : SquareOf[x] \in LegalMoves(g) /\ Index(SquareOf[x]) = x
  BY MovesTranslated
<1>4. \A s \in Squares : SquareOf[Index(s)] = s
  BY SquareOfIndex
<1>5. ASSUME NEW x \in Moves(b, color)
      PROVE  After(g, SquareOf[x])
               = ifes_game_position_translation(Placed(b, x, flips(b, x, color), color), opponent_color(color))
  <2> PICK s \in LegalMoves(g) : s = SquareOf[x] /\ Index(s) = x
    BY <1>3
  <2> QED
    BY AfterTranslated
<1>6. LegalMoves(g) = {SquareOf[x] : x \in Moves(b, color)}
  <2>1. ASSUME NEW s \in LegalMoves(g) PROVE \E x \in Moves(b, color) : s = SquareOf[x]
    BY <1>3, <1>4
  <2>2. \A x \in Moves(b, color) : SquareOf[x] \in LegalMoves(g)
    BY <1>3
  <2> QED
    BY <2>1, <2>2
<1> QED
  BY <1>2, <1>3, <1>5, <1>6

-----------------------------------------------------------------------------
(***************************************************************************)
(* The moves by waves, which are folds over the shifts and the directions. *)
(***************************************************************************)

(* The greatest of the first numbers; the empty set has none. *)
LEMMA GreatestOfFirst ==
  ASSUME NEW n \in Nat
  PROVE  /\ \A s \in SUBSET (1 .. n) : s # {} => Max(s) \in s /\ \A x \in s : x <= Max(s)
         /\ \A k \in 0 .. n - 1 : Max(1 .. k + 1) = k + 1 /\ (1 .. k + 1) \ {k + 1} = 1 .. k
<1>1. ASSUME NEW s \in SUBSET (1 .. n), s # {} PROVE Max(s) \in s /\ \A x \in s : x <= Max(s)
  <2>1. s \subseteq 0 .. n /\ s \subseteq Int
    BY <1>1
  <2>2. PICK x \in s : \A y \in s : y <= x
    BY <1>1, <2>1, GreatestUpTo
  <2> QED
    BY <2>1, <2>2, GreatestIsMax
<1>2. ASSUME NEW k \in 0 .. n - 1 PROVE Max(1 .. k + 1) = k + 1 /\ (1 .. k + 1) \ {k + 1} = 1 .. k
  <2>1. 1 .. k + 1 \subseteq Int /\ k + 1 \in 1 .. k + 1 /\ \A y \in 1 .. k + 1 : y <= k + 1
    OBVIOUS
  <2>2. Max(1 .. k + 1) = k + 1
    BY <2>1, GreatestIsMax
  <2> QED
    BY <2>2
<1> QED
  BY <1>1, <1>2

(* A fold from the left over n elements, the step a function of what has   *)
(* been made and of the place of the element.                              *)
FoldsAt(n, base, step, h, s) == h[s] = IF s = {} THEN base ELSE step[<<h[s \ {Max(s)}], Max(s)>>]

(* A fold of the sets up to k. *)
FoldedTo(n, V, base, step, h, k) ==
  /\ h \in [SUBSET (1 .. n) -> V]
  /\ \A s \in SUBSET (1 .. n) : (\A x \in s : x <= k) => FoldsAt(n, base, step, h, s)

LEMMA FoldExists ==
  ASSUME NEW n \in Nat, NEW V, NEW base \in V, NEW step \in [V \X (1 .. n) -> V]
  PROVE  \E h \in [SUBSET (1 .. n) -> V] : \A s \in SUBSET (1 .. n) : FoldsAt(n, base, step, h, s)
<1> DEFINE D == SUBSET (1 .. n)
           Made(h, k) == FoldedTo(n, V, base, step, h, k)
           T == {k \in 0 .. n : ~\E h : Made(h, k)}
<1>1. \E h : Made(h, 0)
  <2> DEFINE h == [s \in D |-> base]
  <2>1. h \in [D -> V]
    OBVIOUS
  <2>2. ASSUME NEW s \in D, \A x \in s : x <= 0 PROVE FoldsAt(n, base, step, h, s)
    <3>1. s = {}
      BY <2>2
    <3> QED
      BY <3>1 DEF FoldsAt
  <2> QED
    BY <2>1, <2>2 DEF FoldedTo
<1>2. ASSUME NEW k \in 0 .. n - 1, NEW f, Made(f, k) PROVE \E h : Made(h, k + 1)
  <2> DEFINE h == [s \in D |-> IF s = {} THEN base ELSE step[<<f[s \ {Max(s)}], Max(s)>>]]
  <2>1. \A s \in D : s # {} => Max(s) \in s /\ s \ {Max(s)} \in D /\ Max(s) \in 1 .. n
    BY GreatestOfFirst
  <2>2. f \in [D -> V] /\ \A s \in D : (\A x \in s : x <= k) => FoldsAt(n, base, step, f, s)
    BY <1>2 DEF FoldedTo
  <2>3. h \in [D -> V]
    BY <2>1, <2>2
  <2>4. ASSUME NEW s \in D, \A x \in s : x <= k PROVE h[s] = f[s]
    BY <2>2, <2>4 DEF FoldsAt
  <2>5. ASSUME NEW s \in D, \A x \in s : x <= k + 1 PROVE FoldsAt(n, base, step, h, s)
    <3>1. CASE s = {}
      BY <3>1 DEF FoldsAt
    <3>2. CASE s # {}
      <4>1. Max(s) \in s /\ s \ {Max(s)} \in D /\ \A x \in s : x <= Max(s)
        BY <2>1, <3>2, GreatestOfFirst
      <4>2. \A x \in s \ {Max(s)} : x <= k
        <5> TAKE x \in s \ {Max(s)}
        <5>1. x \in 1 .. n /\ Max(s) \in 1 .. n /\ x <= Max(s) /\ x # Max(s) /\ Max(s) <= k + 1
          BY <2>5, <4>1
        <5> QED
          BY <5>1
      <4>3. h[s \ {Max(s)}] = f[s \ {Max(s)}]
        BY <2>4, <4>1, <4>2
      <4>4. h[s] = step[<<f[s \ {Max(s)}], Max(s)>>]
        BY <3>2
      <4> QED
        BY <3>2, <4>3, <4>4 DEF FoldsAt
    <3> QED
      BY <3>1, <3>2
  <2> QED
    BY <2>3, <2>5 DEF FoldedTo
<1>3. T = {}
  <2> SUFFICES ASSUME T # {} PROVE FALSE
    OBVIOUS
  <2>1. PICK k \in T : \A j \in T : k <= j
    <3>1. T \subseteq Nat
      OBVIOUS
    <3> HIDE DEF T
    <3> QED
      BY <3>1, LeastNatural
  <2>2. k \in 0 .. n /\ ~\E h : Made(h, k)
    OBVIOUS
  <2>3. k # 0
    BY <1>1, <2>2
  <2>4. PICK m \in 0 .. n - 1 : k = m + 1 /\ m \in 0 .. n /\ ~(k <= m)
    <3>1. k - 1 \in 0 .. n - 1 /\ k = (k - 1) + 1 /\ k - 1 \in 0 .. n /\ ~(k <= k - 1)
      BY <2>2, <2>3
    <3> QED
      BY <3>1
  <2>5. m \notin T
    <3> HIDE DEF T
    <3> QED
      BY <2>1, <2>4
  <2>6. PICK f : Made(f, m)
    BY <2>4, <2>5
  <2>7. PICK h : Made(h, m + 1)
    BY <1>2, <2>6
  <2>8. Made(h, k)
    BY <2>4, <2>7, Zenon
  <2> QED
    BY <2>2, <2>8
<1>4. PICK h : Made(h, n)
  BY <1>3
<1>5. \A s \in D : \A x \in s : x <= n
  OBVIOUS
<1> QED
  BY <1>4, <1>5 DEF FoldedTo

(* A wave from the squares start in direction dir, after k shifts, and the *)
(* squares found.                                                          *)
NextWave(w, shift, dir, p, o) ==
  LET wave == direction_shift_square_set(dir, w.wave)
  IN  [wave |-> wave \cap o,
       found |-> w.found \cup Shifted(wave \cap p, shift * direction_opposite(dir))]

LEMMA WaveByStep ==
  ASSUME NEW start, NEW dir \in Int, NEW p, NEW o
  PROVE  \E w : /\ w[0] = [wave |-> direction_shift_square_set(dir, start) \cap o, found |-> {}]
                /\ \A k \in 0 .. Size - 3 : w[k + 1] = NextWave(w[k], k + 2, dir, p, o)
                /\ WaveFrom(start, dir, p, o) = w[Size - 2].found
<1> DEFINE seq == [i \in 1 .. Size - 2 |-> i + 1]
           first == [wave |-> direction_shift_square_set(dir, start) \cap o, found |-> {}]
           V == [wave : SUBSET Squares, found : SUBSET Squares]
           D == SUBSET (1 .. Size - 2)
           Solves(h) == h = [s \in SUBSET (DOMAIN seq) |->
                               IF s = {} THEN first ELSE NextWave(h[s \ {Max(s)}], seq[Max(s)], dir, p, o)]
           step == [x \in V \X (1 .. Size - 2) |-> NextWave(x[1], x[2] + 1, dir, p, o)]
<1>1. PICK n \in Nat : n = Size - 2 /\ n > 1
  BY SizeType
<1>2. DOMAIN seq = 1 .. n /\ \A i \in 1 .. n : seq[i] = i + 1
  BY <1>1
<1>3. WaveFrom(start, dir, p, o) = (CHOOSE h : Solves(h))[DOMAIN seq].found
  BY DEF WaveFrom, FoldLeft, MapThenFoldSet, NextWave
<1>4. \A S, d : Shifted(S, d) \subseteq Squares /\ direction_shift_square_set(d, S) \subseteq Squares
  BY DEF Shifted, direction_shift_square_set
<1>5. \A v \in V : \A k, d : NextWave(v, k, d, p, o) \in V
  <2> TAKE v \in V
  <2> TAKE k, d
  <2>1. v.found \subseteq Squares
    OBVIOUS
  <2>2. NextWave(v, k, d, p, o) = [wave |-> direction_shift_square_set(d, v.wave) \cap o,
          found |-> v.found \cup Shifted(direction_shift_square_set(d, v.wave) \cap p, k * direction_opposite(d))]
    BY DEF NextWave
  <2>3. /\ direction_shift_square_set(d, v.wave) \cap o \in SUBSET Squares
        /\ v.found \cup Shifted(direction_shift_square_set(d, v.wave) \cap p, k * direction_opposite(d)) \in SUBSET Squares
    BY <1>4, <2>1
  <2>4. \A A, B \in SUBSET Squares : [wave |-> A, found |-> B] \in V
    OBVIOUS
  <2> HIDE DEF V
  <2> QED
    BY <2>2, <2>3, <2>4
<1>6. first \in V
  BY <1>4
<1>7. step \in [V \X (1 .. n) -> V]
  BY <1>1, <1>5
<1> HIDE DEF step
<1>8. PICK h \in [SUBSET (1 .. n) -> V] : \A s \in SUBSET (1 .. n) : FoldsAt(n, first, step, h, s)
  <2> HIDE DEF V, first
  <2> QED
    BY <1>6, <1>7, FoldExists
<1>9. Solves(h)
  <2>1. ASSUME NEW s \in SUBSET (1 .. n)
        PROVE  h[s] = IF s = {} THEN first ELSE NextWave(h[s \ {Max(s)}], seq[Max(s)], dir, p, o)
    <3>1. CASE s = {}
      BY <1>8, <3>1 DEF FoldsAt
    <3>2. CASE s # {}
      <4>1. Max(s) \in 1 .. n /\ s \ {Max(s)} \in SUBSET (1 .. n)
        BY <3>2, GreatestOfFirst
      <4>2. h[s \ {Max(s)}] \in V
        BY <1>8, <4>1
      <4>3. h[s] = step[<<h[s \ {Max(s)}], Max(s)>>]
        BY <1>8, <3>2 DEF FoldsAt
      <4>4. step[<<h[s \ {Max(s)}], Max(s)>>] = NextWave(h[s \ {Max(s)}], Max(s) + 1, dir, p, o)
        <5>1. <<h[s \ {Max(s)}], Max(s)>> \in V \X (1 .. Size - 2)
          BY <1>1, <4>1, <4>2
        <5> HIDE DEF V
        <5> QED
          BY <5>1 DEF step
      <4> QED
        BY <1>2, <3>2, <4>1, <4>3, <4>4
    <3> QED
      BY <3>1, <3>2
  <2>2. h = [s \in SUBSET (1 .. n) |-> h[s]]
    BY <1>8
  <2>3. DOMAIN seq = 1 .. n
    BY <1>2
  <2> HIDE DEF first, seq, V
  <2> QED
    BY <2>1, <2>2, <2>3
<1> DEFINE f == CHOOSE q : Solves(q)
<1>10. Solves(f)
  <2> HIDE DEF Solves
  <2> QED
    BY <1>9
<1> HIDE DEF f
<1>11. \A s \in SUBSET (1 .. n) :
         f[s] = IF s = {} THEN first ELSE NextWave(f[s \ {Max(s)}], seq[Max(s)], dir, p, o)
  <2>1. DOMAIN seq = 1 .. n
    BY <1>2
  <2> HIDE DEF first, seq, V
  <2> QED
    BY <1>10, <2>1
<1> DEFINE w == [k \in 0 .. n |-> f[1 .. k]]
<1>12. w[0] = first
  <2>1. 0 \in 0 .. n /\ 1 .. 0 = {} /\ {} \in SUBSET (1 .. n)
    BY <1>1
  <2>2. w[0] = f[1 .. 0]
    BY <2>1
  <2>3. w[0] = f[{}]
    BY <2>1, <2>2
  <2>4. f[{}] = first
    BY <1>11, <2>1
  <2> HIDE DEF w, first
  <2> QED
    BY <2>3, <2>4, Zenon
<1>13. ASSUME NEW k \in 0 .. Size - 3 PROVE w[k + 1] = NextWave(w[k], k + 2, dir, p, o)
  <2>0. k \in Nat /\ k \in 0 .. n - 1 /\ k \in 0 .. n /\ k + 1 \in 0 .. n /\ k + 1 \in 1 .. n /\ (k + 1) + 1 = k + 2
    BY <1>1, SizeType
  <2>1. 1 .. k + 1 \in SUBSET (1 .. n) /\ k + 1 \in 1 .. k + 1 /\ 1 .. k + 1 # {}
    BY <1>1, <2>0
  <2>2. Max(1 .. k + 1) = k + 1 /\ (1 .. k + 1) \ {k + 1} = 1 .. k
    BY <2>0, GreatestOfFirst
  <2>3. seq[k + 1] = k + 2
    BY <1>2, <2>0
  <2>4. w[k + 1] = f[1 .. k + 1] /\ w[k] = f[1 .. k]
    BY <2>0
  <2>5. f[1 .. k + 1] = NextWave(f[(1 .. k + 1) \ {Max(1 .. k + 1)}], seq[Max(1 .. k + 1)], dir, p, o)
    BY <1>11, <2>1, Zenon
  <2> HIDE DEF first, seq, w
  <2> QED
    BY <2>2, <2>3, <2>4, <2>5
<1>14. WaveFrom(start, dir, p, o) = w[Size - 2].found
  <2>1. w[n] = f[1 .. n]
    BY <1>1
  <2> HIDE DEF w, first, seq
  <2> QED
    BY <1>1, <1>2, <1>3, <2>1 DEF f
<1> HIDE DEF w
<1> QED
  BY <1>12, <1>13, <1>14

(* From y, n squares of o in direction i without leaving the board, and    *)
(* after them one of p.                                                    *)
Path(y, i, o, n) ==
  \A m \in 1 .. n : /\ y + m * Distance(i) \in Squares
                    /\ y + m * Distance(i) \in Mask[Distance(i)]
                    /\ y + m * Distance(i) \in o
PathEnds(y, i, p, o, n) ==
  /\ Path(y, i, o, n)
  /\ y + (n + 1) * Distance(i) \in Squares
  /\ y + (n + 1) * Distance(i) \in Mask[Distance(i)]
  /\ y + (n + 1) * Distance(i) \in p

(* What a wave holds after k shifts.                                       *)
WaveHolds(w, k, start, i, p, o) ==
  /\ w.wave \subseteq Squares /\ w.found \subseteq Squares
  /\ \A y \in Int : y + (k + 1) * Distance(i) \in w.wave <=> y \in start /\ Path(y, i, o, k + 1)
  /\ \A y \in Int : y \in w.found <=> y \in start /\ \E n \in 1 .. k : PathEnds(y, i, p, o, n)

(* One more square of a path.                                              *)
LEMMA LongerPath ==
  ASSUME NEW y, NEW i, NEW o, NEW n \in Nat
  PROVE  Path(y, i, o, n + 1) <=> /\ Path(y, i, o, n)
                                  /\ y + (n + 1) * Distance(i) \in Squares
                                  /\ y + (n + 1) * Distance(i) \in Mask[Distance(i)]
                                  /\ y + (n + 1) * Distance(i) \in o
<1>1. 1 .. n + 1 = (1 .. n) \cup {n + 1}
  OBVIOUS
<1> QED
  BY <1>1, Zenon DEF Path

LEMMA FirstWave ==
  ASSUME NEW start, start \subseteq Squares, NEW i \in 1 .. 8, NEW p, NEW o
  PROVE  WaveHolds([wave |-> direction_shift_square_set(Distance(i), start) \cap o, found |-> {}], 0, start, i, p, o)
<1> DEFINE d == Distance(i)
           W == direction_shift_square_set(d, start) \cap o
<1>1. d \in Int
  BY DirectionParts, SizeType DEF Distance
<1>2. W \subseteq Squares
  BY DEF direction_shift_square_set, Shifted
<1>3. ASSUME NEW y \in Int PROVE y + (0 + 1) * d \in W <=> y \in start /\ Path(y, i, o, 0 + 1)
  <2> DEFINE x == y + (0 + 1) * d
  <2>1. x = y + 1 * d /\ x \in Int /\ x - d = y
    BY <1>1
  <2>2. x \in W <=> x \in Squares /\ y \in start /\ x \in Mask[d] /\ x \in o
    BY <1>1, <2>1, ShiftedBack DEF direction_shift_square_set
  <2>3. Path(y, i, o, 0 + 1) <=> x \in Squares /\ x \in Mask[d] /\ x \in o
    <3>1. Path(y, i, o, 0)
      BY DEF Path
    <3> QED
      BY <3>1, LongerPath
  <2> QED
    BY <2>2, <2>3
<1>4. 1 .. 0 = {}
  OBVIOUS
<1> HIDE DEF W, d
<1>5. \A y \in Int : y \in {} <=> y \in start /\ \E n \in 1 .. 0 : PathEnds(y, i, p, o, n)
  BY <1>4
<1> QED
  BY <1>2, <1>3, <1>5 DEF WaveHolds, d, W

LEMMA WaveGoesOn ==
  ASSUME NEW start, start \subseteq Squares, NEW i \in 1 .. 8, NEW p, p \subseteq Squares, NEW o, NEW k \in Nat, NEW w,
         WaveHolds(w, k, start, i, p, o)
  PROVE  WaveHolds(NextWave(w, k + 2, Distance(i), p, o), k + 1, start, i, p, o)
<1> DEFINE d == Distance(i)
           wave == direction_shift_square_set(d, w.wave)
           back == (k + 2) * direction_opposite(d)
           next == NextWave(w, k + 2, d, p, o)
<1>1. d \in Int
  BY DirectionParts, SizeType DEF Distance
<1>2. next.wave = wave \cap o /\ next.found = w.found \cup Shifted(wave \cap p, back)
  BY DEF NextWave
<1>3. wave \subseteq Squares
  BY DEF direction_shift_square_set, Shifted
<1>4. ASSUME NEW y \in Int
      PROVE  y + ((k + 1) + 1) * d \in wave <=> /\ y \in start /\ Path(y, i, o, k + 1)
                                                /\ y + ((k + 1) + 1) * d \in Squares
                                                /\ y + ((k + 1) + 1) * d \in Mask[d]
  <2> DEFINE x == y + ((k + 1) + 1) * d
  <2>1. x \in Int /\ x - d = y + (k + 1) * d
    <3> PICK a \in Int : a = (k + 1) * d
      BY <1>1
    <3>1. ((k + 1) + 1) * d = a + d
      BY <1>1
    <3> HIDE DEF d
    <3> QED
      BY <1>1, <3>1
  <2>2. w.wave \subseteq Squares /\ (y + (k + 1) * d \in w.wave <=> y \in start /\ Path(y, i, o, k + 1))
    BY DEF WaveHolds
  <2> HIDE DEF x
  <2>3. x \in wave <=> x \in Squares /\ x - d \in w.wave /\ x \in Mask[d]
    BY <1>1, <2>1, <2>2, ShiftedBack DEF direction_shift_square_set
  <2>4. x \in wave <=> x \in Squares /\ (y \in start /\ Path(y, i, o, k + 1)) /\ x \in Mask[d]
    BY <2>1, <2>2, <2>3
  <2> QED
    BY <2>4 DEF x
<1>5. ASSUME NEW y \in Int PROVE y + ((k + 1) + 1) * d \in next.wave <=> y \in start /\ Path(y, i, o, (k + 1) + 1)
  <2> HIDE DEF wave, next
  <2> QED
    BY <1>2, <1>4, LongerPath
<1>6. ASSUME NEW y \in Int PROVE y \in Shifted(wave \cap p, back) <=> y \in start /\ PathEnds(y, i, p, o, k + 1)
  <2>1. back \in Int /\ y - back = y + ((k + 1) + 1) * d
    <3>1. back = (k + 2) * (-d)
      BY DEF direction_opposite
    <3> HIDE DEF back, d
    <3> PICK a \in Int : a = (k + 2) * d
      BY <1>1
    <3>2. (k + 2) * (-d) = -a /\ ((k + 1) + 1) * d = a
      BY <1>1
    <3> QED
      BY <3>1, <3>2
  <2>2. wave \cap p \subseteq Squares
    BY <1>3
  <2> HIDE DEF wave, back
  <2>3. y \in Shifted(wave \cap p, back) <=> y \in Squares /\ y - back \in wave \cap p
    BY <2>1, <2>2, ShiftedBack
  <2> QED
    BY <1>4, <2>1, <2>3 DEF PathEnds
<1>7. ASSUME NEW y \in Int PROVE y \in next.found <=> y \in start /\ \E n \in 1 .. k + 1 : PathEnds(y, i, p, o, n)
  <2>1. 1 .. k + 1 = (1 .. k) \cup {k + 1}
    OBVIOUS
  <2>2. y \in w.found <=> y \in start /\ \E n \in 1 .. k : PathEnds(y, i, p, o, n)
    BY DEF WaveHolds
  <2> HIDE DEF wave, back, next
  <2> QED
    BY <1>2, <1>6, <2>1, <2>2
<1>8. next.wave \subseteq Squares /\ next.found \subseteq Squares
  <2>1. Shifted(wave \cap p, back) \subseteq Squares
    BY DEF Shifted
  <2>2. w.found \subseteq Squares
    BY DEF WaveHolds
  <2> HIDE DEF wave, back, next
  <2> QED
    BY <1>2, <1>3, <2>1, <2>2
<1> HIDE DEF next
<1> QED
  BY <1>5, <1>7, <1>8 DEF WaveHolds, next, d

(* What the waves from some squares find.                                  *)
LEMMA WavesFind ==
  ASSUME NEW start, start \subseteq Squares, NEW i \in 1 .. 8, NEW p, p \subseteq Squares, NEW o
  PROVE  \A y : y \in WaveFrom(start, Distance(i), p, o)
                  <=> y \in start /\ \E n \in 1 .. Size - 2 : PathEnds(y, i, p, o, n)
<1> PICK n \in Nat : n = Size - 2
  BY SizeType
<1>1. Distance(i) \in Int
  BY DirectionParts, SizeType DEF Distance
<1>2. PICK w : /\ w[0] = [wave |-> direction_shift_square_set(Distance(i), start) \cap o, found |-> {}]
               /\ \A k \in 0 .. Size - 3 : w[k + 1] = NextWave(w[k], k + 2, Distance(i), p, o)
               /\ WaveFrom(start, Distance(i), p, o) = w[Size - 2].found
  BY <1>1, WaveByStep
<1> DEFINE T == {k \in 0 .. n : ~WaveHolds(w[k], k, start, i, p, o)}
<1>3. T = {}
  <2> SUFFICES ASSUME T # {} PROVE FALSE
    OBVIOUS
  <2>1. PICK k \in T : \A j \in T : k <= j
    <3>1. T \subseteq Nat
      OBVIOUS
    <3> HIDE DEF T
    <3> QED
      BY <3>1, LeastNatural
  <2>2. k \in 0 .. n /\ ~WaveHolds(w[k], k, start, i, p, o)
    OBVIOUS
  <2>3. k # 0
    BY <1>2, <2>2, FirstWave
  <2>4. PICK m \in 0 .. n - 1 : k = m + 1 /\ m \in 0 .. n /\ ~(k <= m) /\ m \in 0 .. Size - 3 /\ m \in Nat
    <3>1. k - 1 \in 0 .. n - 1 /\ k = (k - 1) + 1 /\ k - 1 \in 0 .. n /\ ~(k <= k - 1) /\ k - 1 \in 0 .. Size - 3 /\ k - 1 \in Nat
      BY <2>2, <2>3, SizeType
    <3> QED
      BY <3>1
  <2>5. WaveHolds(w[m], m, start, i, p, o)
    <3>1. m \notin T
      <4> HIDE DEF T
      <4> QED
        BY <2>1, <2>4
    <3> QED
      BY <2>4, <3>1
  <2>6. w[m + 1] = NextWave(w[m], m + 2, Distance(i), p, o)
    BY <1>2, <2>4
  <2>7. WaveHolds(w[m + 1], m + 1, start, i, p, o)
    BY <2>4, <2>5, <2>6, WaveGoesOn
  <2> QED
    BY <2>2, <2>4, <2>7
<1>4. WaveHolds(w[n], n, start, i, p, o)
  BY <1>3
<1>5. Squares \subseteq Int
  BY DEF Squares
<1> QED
  BY <1>2, <1>4, <1>5 DEF WaveHolds

(* The waves find the squares with a run. *)
LEMMA WavesAreRuns ==
  ASSUME NEW g, Playable(g), NEW start, start \subseteq Squares, NEW i \in 1 .. 8, NEW y
  PROVE  y \in WaveFrom(start, Distance(i), PlayerSet(g), OpponentSet(g)) <=> y \in start /\ HasRun(g, y, i)
<1> DEFINE p == PlayerSet(g)
           o == OpponentSet(g)
<1>1. p \subseteq Squares
  BY PlayableParts
<1>2. y \in WaveFrom(start, Distance(i), p, o) <=> y \in start /\ \E n \in 1 .. Size - 2 : PathEnds(y, i, p, o, n)
  BY <1>1, WavesFind
<1>3. ASSUME y \in start, NEW n \in Nat \ {0} PROVE n \in LineTurns(g, y, StepOf(i)) <=> PathEnds(y, i, p, o, n)
  <2>1. y \in Squares
    BY <1>3
  <2>2. 1 .. n + 1 = (1 .. n) \cup {n + 1}
    OBVIOUS
  <2>3. PathEnds(y, i, p, o, n) <=>
          /\ \A k \in 1 .. n + 1 : /\ y + k * Distance(i) \in Squares
                                   /\ y + k * Distance(i) \in Mask[Distance(i)]
          /\ \A k \in 1 .. n : y + k * Distance(i) \in o
          /\ y + (n + 1) * Distance(i) \in p
    BY <2>2, Zenon DEF PathEnds, Path
  <2> QED
    BY <2>1, <2>3, RunUnmasked
<1>4. ASSUME y \in start, NEW n \in Nat \ {0}, n \in LineTurns(g, y, StepOf(i)) PROVE n \in 1 .. Size - 2
  BY <1>4, RunUnmasked, SizeType
<1>5. \A n \in 1 .. Size - 2 : n \in Nat \ {0}
  BY SizeType
<1> HIDE DEF p, o
<1> QED
  BY <1>2, <1>3, <1>4, <1>5 DEF HasRun, p, o

(* A square with a run has two more squares in its direction.              *)
LEMMA RunInWaveMask ==
  ASSUME NEW g, NEW s \in Squares, NEW i \in 1 .. 8, HasRun(g, s, i)
  PROVE  s \in direction_wave_mask[Distance(i)]
<1> PICK n \in Nat \ {0} : n \in LineTurns(g, s, StepOf(i))
  BY DEF HasRun
<1>1. \A k \in 1 .. n + 1 : s + k * Distance(i) \in Squares /\ s + k * Distance(i) \in Mask[Distance(i)]
  BY RunUnmasked
<1>2. \A k \in 1 .. 2 : k \in 1 .. n + 1
  OBVIOUS
<1>3. OnBoard(Column_(s, i, 2), Row_(s, i, 2))
  BY <1>1, <1>2, UnmaskedLine
<1>4. Distance(i) \in ToSet(Directions)
  <2>1. PICK j \in DOMAIN Directions : Directions[j] = Distance(i)
    BY WordDirections
  <2> QED
    BY <2>1 DEF ToSet
<1>5. /\ Column(s) \in 0 .. Size - 1 /\ Row(s) \in 0 .. Size - 1
      /\ Column(s) + 2 * Right[i] \in 0 .. Size - 1 /\ Row(s) + 2 * Down[i] \in 0 .. Size - 1
  BY <1>3, SquareCoordinates DEF OnBoard, Ordinals, Column_, Row_
<1> SUFFICES /\ Distance(i) \in {NorthWest, West, SouthWest} => Column(s) >= 2
             /\ Distance(i) \in {NorthEast, East, SouthEast} => Column(s) < Size - 2
             /\ Distance(i) \in {NorthWest, North, NorthEast} => Row(s) >= 2
             /\ Distance(i) \in {SouthWest, South, SouthEast} => Row(s) < Size - 2
  BY <1>4 DEF direction_wave_mask
<1>6. i = 1 \/ i = 2 \/ i = 3 \/ i = 4 \/ i = 5 \/ i = 6 \/ i = 7 \/ i = 8
  OBVIOUS
<1>7. /\ Right[1] = -1 /\ Down[1] = -1 /\ Right[2] = 1 /\ Down[2] = 1
      /\ Right[3] = 0 /\ Down[3] = -1 /\ Right[4] = 0 /\ Down[4] = 1
      /\ Right[5] = 1 /\ Down[5] = -1 /\ Right[6] = -1 /\ Down[6] = 1
      /\ Right[7] = -1 /\ Down[7] = 0 /\ Right[8] = 1 /\ Down[8] = 0
  BY DEF Right, Down
<1>8. /\ NorthWest = -(Size + 1) /\ North = -Size /\ NorthEast = -(Size - 1) /\ West = -1 /\ East = 1
      /\ SouthWest = Size - 1 /\ South = Size /\ SouthEast = Size + 1
  BY DEF NorthWest, North, NorthEast, West, East, SouthWest, South, SouthEast
<1> PICK c, r, z \in Int : c = Column(s) /\ r = Row(s) /\ z = Size /\ z > 3
  BY <1>5, SizeType
<1>9. CASE i = 1
  BY ONLY <1>5, <1>7, <1>8, <1>9, DistanceNames, c \in Int, r \in Int, z \in Int, c = Column(s), r = Row(s), z = Size, z > 3
<1>10. CASE i = 2
  BY ONLY <1>5, <1>7, <1>8, <1>10, DistanceNames, c \in Int, r \in Int, z \in Int, c = Column(s), r = Row(s), z = Size, z > 3
<1>11. CASE i = 3
  BY ONLY <1>5, <1>7, <1>8, <1>11, DistanceNames, c \in Int, r \in Int, z \in Int, c = Column(s), r = Row(s), z = Size, z > 3
<1>12. CASE i = 4
  BY ONLY <1>5, <1>7, <1>8, <1>12, DistanceNames, c \in Int, r \in Int, z \in Int, c = Column(s), r = Row(s), z = Size, z > 3
<1>13. CASE i = 5
  BY ONLY <1>5, <1>7, <1>8, <1>13, DistanceNames, c \in Int, r \in Int, z \in Int, c = Column(s), r = Row(s), z = Size, z > 3
<1>14. CASE i = 6
  BY ONLY <1>5, <1>7, <1>8, <1>14, DistanceNames, c \in Int, r \in Int, z \in Int, c = Column(s), r = Row(s), z = Size, z > 3
<1>15. CASE i = 7
  BY ONLY <1>5, <1>7, <1>8, <1>15, DistanceNames, c \in Int, r \in Int, z \in Int, c = Column(s), r = Row(s), z = Size, z > 3
<1>16. CASE i = 8
  BY ONLY <1>5, <1>7, <1>8, <1>16, DistanceNames, c \in Int, r \in Int, z \in Int, c = Column(s), r = Row(s), z = Size, z > 3
<1> QED
  BY <1>6, <1>9, <1>10, <1>11, <1>12, <1>13, <1>14, <1>15, <1>16

(* board_legal_moves1: all directions at once.                             *)
LEMMA WavesAtOnce ==
  ASSUME NEW g, Playable(g)
  PROVE  board_legal_moves1(g) = LegalMoves(g)
<1> DEFINE waves(d) == WaveFrom(Empties(g), d, PlayerSet(g), OpponentSet(g))
<1>1. Empties(g) \subseteq Squares
  BY PlayableParts
<1>2. \A e : e \in board_legal_moves1(g) <=> \E j \in DOMAIN Directions : e \in waves(Directions[j])
  BY DEF board_legal_moves1
<1>3. ASSUME NEW e, NEW i \in 1 .. 8 PROVE e \in waves(Distance(i)) <=> e \in Empties(g) /\ HasRun(g, e, i)
  BY <1>1, WavesAreRuns
<1> HIDE DEF waves
<1>4. ASSUME NEW e PROVE e \in board_legal_moves1(g) <=> e \in Empties(g) /\ \E i \in 1 .. 8 : HasRun(g, e, i)
  <2>1. ASSUME e \in board_legal_moves1(g) PROVE e \in Empties(g) /\ \E i \in 1 .. 8 : HasRun(g, e, i)
    <3> PICK j \in DOMAIN Directions : e \in waves(Directions[j])
      BY <1>2, <2>1
    <3> PICK i \in 1 .. 8 : Directions[j] = Distance(i)
      BY WordDirections
    <3> QED
      BY <1>3
  <2>2. ASSUME e \in Empties(g), NEW i \in 1 .. 8, HasRun(g, e, i) PROVE e \in board_legal_moves1(g)
    <3> PICK j \in DOMAIN Directions : Directions[j] = Distance(i)
      BY WordDirections
    <3>1. e \in waves(Directions[j])
      BY <1>3, <2>2
    <3> QED
      BY <1>2, <3>1
  <2> QED
    BY <2>1, <2>2
<1>5. LegalMoves(g) \subseteq Empties(g)
  BY DEF LegalMoves
<1>6. \A e : e \in board_legal_moves1(g) <=> e \in LegalMoves(g)
  BY <1>4, <1>5, MovesHaveRuns
<1> QED
  BY <1>6

(* The runs in a direction of the word.                                    *)
WordRun(g, e, j) == \E i \in 1 .. 8 : Directions[j] = Distance(i) /\ HasRun(g, e, i)

(* board_legal_moves0: one direction after the other, from the squares that *)
(* have room for a run and are not known as moves.                         *)
LEMMA WavesInTurn ==
  ASSUME NEW g, Playable(g)
  PROVE  board_legal_moves0(g) = LegalMoves(g)
<1> DEFINE seq == Directions
           V == SUBSET Squares
           more(result, dir) == result \cup WaveFrom((Empties(g) \cap direction_wave_mask[dir]) \ result,
                                                     dir, PlayerSet(g), OpponentSet(g))
           Solves(h) == h = [s \in SUBSET (DOMAIN seq) |->
                               IF s = {} THEN {} ELSE more(h[s \ {Max(s)}], seq[Max(s)])]
           step == [x \in V \X (1 .. 8) |-> more(x[1], seq[x[2]])]
<1>1. DOMAIN seq = 1 .. 8
  BY DEF Directions
<1>2. board_legal_moves0(g) = (CHOOSE h : Solves(h))[DOMAIN seq]
  BY DEF board_legal_moves0, FoldLeft, MapThenFoldSet
<1>3. Empties(g) \subseteq Squares
  BY PlayableParts
<1>4. ASSUME NEW j \in 1 .. 8, NEW result \in V
      PROVE  \A e : e \in more(result, seq[j]) <=> e \in result \/ (e \in Empties(g) /\ WordRun(g, e, j))
  <2> PICK i \in 1 .. 8 : seq[j] = Distance(i)
    BY <1>1, WordDirections
  <2> DEFINE start == (Empties(g) \cap direction_wave_mask[seq[j]]) \ result
  <2>1. start \subseteq Squares
    BY <1>3
  <2>2. \A e : e \in more(result, seq[j]) <=> e \in result \/ e \in WaveFrom(start, Distance(i), PlayerSet(g), OpponentSet(g))
    OBVIOUS
  <2>3. \A e : e \in WaveFrom(start, Distance(i), PlayerSet(g), OpponentSet(g)) <=> e \in start /\ HasRun(g, e, i)
    <3> HIDE DEF start
    <3> QED
      BY <2>1, WavesAreRuns
  <2>4. \A e \in Empties(g) : WordRun(g, e, j) <=> HasRun(g, e, i)
    <3> TAKE e \in Empties(g)
    <3>1. ASSUME NEW k \in 1 .. 8, seq[j] = Distance(k), HasRun(g, e, k) PROVE HasRun(g, e, i)
      <4>1. e \in WaveFrom({e}, Distance(k), PlayerSet(g), OpponentSet(g))
        BY <1>3, <3>1, WavesAreRuns
      <4>2. e \in WaveFrom({e}, Distance(i), PlayerSet(g), OpponentSet(g))
        BY <3>1, <4>1
      <4> QED
        BY <1>3, <4>2, WavesAreRuns
    <3> QED
      BY <3>1 DEF WordRun
  <2>5. \A e \in Empties(g) : HasRun(g, e, i) => e \in direction_wave_mask[seq[j]]
    BY <1>3, RunInWaveMask
  <2> HIDE DEF more
  <2> QED
    BY <2>2, <2>3, <2>4, <2>5
<1>5. \A result \in V, j \in 1 .. 8 : more(result, seq[j]) \in V
  <2> TAKE result \in V, j \in 1 .. 8
  <2>1. \A e : e \in more(result, seq[j]) <=> e \in result \/ (e \in Empties(g) /\ WordRun(g, e, j))
    BY <1>4
  <2> HIDE DEF more
  <2> QED
    BY <1>3, <2>1
<1> HIDE DEF more
<1>6. step \in [V \X (1 .. 8) -> V]
  BY <1>5
<1>7. {} \in V
  OBVIOUS
<1> HIDE DEF step
<1>8. PICK h \in [SUBSET (1 .. 8) -> V] : \A s \in SUBSET (1 .. 8) : FoldsAt(8, {}, step, h, s)
  <2> HIDE DEF V
  <2> QED
    BY <1>6, <1>7, FoldExists
<1>9. Solves(h)
  <2>1. ASSUME NEW s \in SUBSET (1 .. 8)
        PROVE  h[s] = IF s = {} THEN {} ELSE more(h[s \ {Max(s)}], seq[Max(s)])
    <3>1. CASE s = {}
      BY <1>8, <3>1 DEF FoldsAt
    <3>2. CASE s # {}
      <4>1. Max(s) \in 1 .. 8 /\ s \ {Max(s)} \in SUBSET (1 .. 8)
        BY <3>2, GreatestOfFirst
      <4>2. h[s \ {Max(s)}] \in V
        BY <1>8, <4>1
      <4>3. h[s] = step[<<h[s \ {Max(s)}], Max(s)>>]
        BY <1>8, <3>2 DEF FoldsAt
      <4>4. step[<<h[s \ {Max(s)}], Max(s)>>] = more(h[s \ {Max(s)}], seq[Max(s)])
        <5>1. <<h[s \ {Max(s)}], Max(s)>> \in V \X (1 .. 8)
          BY <4>1, <4>2
        <5> HIDE DEF V
        <5> QED
          BY <5>1 DEF step
      <4> QED
        BY <3>2, <4>3, <4>4
    <3> QED
      BY <3>1, <3>2
  <2>2. h = [s \in SUBSET (1 .. 8) |-> h[s]]
    BY <1>8
  <2> HIDE DEF seq, V
  <2> QED
    BY <1>1, <2>1, <2>2
<1> DEFINE f == CHOOSE q : Solves(q)
<1>10. Solves(f)
  <2> HIDE DEF Solves
  <2> QED
    BY <1>9
<1> HIDE DEF f
<1>11. \A s \in SUBSET (1 .. 8) : f[s] = IF s = {} THEN {} ELSE more(f[s \ {Max(s)}], seq[Max(s)])
  <2> HIDE DEF seq, V
  <2> QED
    BY <1>1, <1>10
<1> DEFINE Known(k) == \A e : e \in f[1 .. k] <=> e \in Empties(g) /\ \E j \in 1 .. k : WordRun(g, e, j)
<1>12. Known(0)
  <2>1. 1 .. 0 = {} /\ {} \in SUBSET (1 .. 8)
    OBVIOUS
  <2>2. f[{}] = {}
    BY <1>11, <2>1
  <2> HIDE DEF seq, V
  <2> QED
    BY <2>1, <2>2
<1>13. ASSUME NEW k \in 0 .. 7, Known(k) PROVE Known(k + 1)
  <2>1. 1 .. k + 1 \in SUBSET (1 .. 8) /\ k + 1 \in 1 .. k + 1 /\ 1 .. k + 1 # {} /\ k + 1 \in 1 .. 8
        /\ 1 .. k + 1 = (1 .. k) \cup {k + 1} /\ k \in 0 .. 8 - 1
    OBVIOUS
  <2>2. Max(1 .. k + 1) = k + 1 /\ (1 .. k + 1) \ {k + 1} = 1 .. k
    BY <2>1, GreatestOfFirst
  <2>3. f[1 .. k + 1] = more(f[(1 .. k + 1) \ {Max(1 .. k + 1)}], seq[Max(1 .. k + 1)])
    BY <1>11, <2>1, Zenon
  <2>4. f[1 .. k + 1] = more(f[1 .. k], seq[k + 1])
    BY <2>2, <2>3
  <2>5. f[1 .. k] \in V
    <3>1. \A e \in f[1 .. k] : e \in Empties(g)
      BY <1>13
    <3> QED
      BY <1>3, <3>1
  <2>6. \A e : e \in f[1 .. k + 1] <=> e \in f[1 .. k] \/ (e \in Empties(g) /\ WordRun(g, e, k + 1))
    <3> HIDE DEF seq, V, Known
    <3>1. \A e : e \in more(f[1 .. k], seq[k + 1]) <=> e \in f[1 .. k] \/ (e \in Empties(g) /\ WordRun(g, e, k + 1))
      BY <1>4, <2>1, <2>5
    <3> QED
      BY <2>4, <3>1, Zenon
  <2> HIDE DEF seq, V
  <2> QED
    BY <1>13, <2>1, <2>6
<1> HIDE DEF Known
<1>14. Known(8)
  <2>1. Known(0 + 1)
    BY <1>12, <1>13
  <2>2. Known(1 + 1)
    BY <1>13, <2>1
  <2>3. Known(2 + 1)
    BY <1>13, <2>2
  <2>4. Known(3 + 1)
    BY <1>13, <2>3
  <2>5. Known(4 + 1)
    BY <1>13, <2>4
  <2>6. Known(5 + 1)
    BY <1>13, <2>5
  <2>7. Known(6 + 1)
    BY <1>13, <2>6
  <2>8. Known(7 + 1)
    BY <1>13, <2>7
  <2> QED
    BY <2>8
<1>15. \A e : e \in board_legal_moves0(g) <=> e \in Empties(g) /\ \E j \in 1 .. 8 : WordRun(g, e, j)
  <2>1. board_legal_moves0(g) = f[1 .. 8]
    BY <1>1, <1>2 DEF f
  <2> QED
    BY <1>14, <2>1 DEF Known
<1>16. \A e : (\E j \in 1 .. 8 : WordRun(g, e, j)) <=> \E i \in 1 .. 8 : HasRun(g, e, i)
  BY <1>1, WordDirections DEF WordRun
<1>17. \A e : e \in board_legal_moves0(g) <=> e \in LegalMoves(g)
  <2>1. LegalMoves(g) \subseteq Empties(g)
    BY DEF LegalMoves
  <2> QED
    BY <1>15, <1>16, <2>1, MovesHaveRuns
<1> QED
  BY <1>17

(* game_position_x_has_any_player_any_legal_move: the colours are those of *)
(* the player to move or of the other one, who would move after a pass.    *)
LEMMA WavesOfBoth ==
  ASSUME NEW g, Playable(g)
  PROVE  has_any_player_any_legal_move(g) <=> LegalMoves(g) \cup LegalMoves(game_position_x_pass(g)) # {}
<1> DEFINE q == game_position_x_pass(g)
<1>1. /\ g = [blacks |-> g.blacks, whites |-> g.whites, player |-> g.player]
      /\ g.blacks \in SUBSET Squares /\ g.whites \in SUBSET Squares /\ g.player \in {0, 1}
      /\ g.blacks \cap g.whites = {}
  BY DEF Playable, Positions, BLACK_PLAYER, WHITE_PLAYER
<1>2. q.blacks = g.blacks /\ q.whites = g.whites /\ q.player = 1 - g.player
      /\ q = [blacks |-> g.blacks, whites |-> g.whites, player |-> 1 - g.player]
  BY <1>1 DEF game_position_x_pass, player_opponent
<1>3. Playable(q)
  <2>1. 1 - g.player \in {0, 1}
    BY <1>1
  <2>2. q \in Positions
    BY <1>1, <1>2, <2>1 DEF Positions, BLACK_PLAYER, WHITE_PLAYER
  <2> QED
    BY <1>1, <1>2, <2>2 DEF Playable
<1>4. Empties(q) = Empties(g)
  BY <1>2 DEF Empties
<1> HIDE DEF q
<1>5. ASSUME NEW h, Playable(h)
      PROVE  LegalMoves(h) # {} <=>
               \E j \in DOMAIN Directions : WaveFrom(Empties(h), Directions[j], PlayerSet(h), OpponentSet(h)) # {}
  <2>1. board_legal_moves1(h) = LegalMoves(h)
    BY <1>5, WavesAtOnce
  <2>2. board_legal_moves1(h) # {} <=>
          \E j \in DOMAIN Directions : WaveFrom(Empties(h), Directions[j], PlayerSet(h), OpponentSet(h)) # {}
    BY DEF board_legal_moves1
  <2> QED
    BY <2>1, <2>2
<1>6. CASE g.player = 0
  <2>1. /\ PlayerSet(g) = g.blacks /\ OpponentSet(g) = g.whites
        /\ PlayerSet(q) = g.whites /\ OpponentSet(q) = g.blacks
    BY <1>2, <1>6 DEF PlayerSet, OpponentSet, BLACK_PLAYER
  <2> QED
    BY <1>3, <1>4, <1>5, <2>1 DEF has_any_player_any_legal_move, q
<1>7. CASE g.player = 1
  <2>1. /\ PlayerSet(g) = g.whites /\ OpponentSet(g) = g.blacks
        /\ PlayerSet(q) = g.blacks /\ OpponentSet(q) = g.whites
    BY <1>2, <1>7 DEF PlayerSet, OpponentSet, BLACK_PLAYER
  <2> QED
    BY <1>3, <1>4, <1>5, <2>1 DEF has_any_player_any_legal_move, q
<1> QED
  BY <1>1, <1>6, <1>7

(* The moves found by waves, in every version of board.c and for both      *)
(* sides, are those of the rules.                                          *)
THEOREM WavesFollowRules ==
  ASSUME NEW g, Playable(g)
  PROVE  /\ LegalMoves(g) = board_legal_moves0(g) /\ LegalMoves(g) = board_legal_moves1(g)
         /\ has_any_player_any_legal_move(g) <=> LegalMoves(g) \cup LegalMoves(game_position_x_pass(g)) # {}
BY WavesInTurn, WavesAtOnce, WavesOfBoth

-----------------------------------------------------------------------------
(***************************************************************************)
(* The moves by lines: each line through a square is moved to a row of     *)
(* bits, and back from there.                                              *)
(***************************************************************************)

(* The place of bit j of a line through s, and its square when the place   *)
(* is on the board; the ordinal of s itself in the row.                    *)
LineColumn(axis, s, j) == IF axis = "VE" THEN Column(s) ELSE j
LineRow(axis, s, j) ==
  CASE axis = "HO" -> Row(s)
    [] axis = "VE" -> j
    [] axis = "DD" -> Row(s) + j - Column(s)
    [] axis = "DU" -> Row(s) - j + Column(s)
LineSquare(axis, s, j) == Size * LineRow(axis, s, j) + LineColumn(axis, s, j)
LineOrdinal(axis, s) == axis_move_ordinal_position_in_bitrow(axis, Column(s), Row(s))

(* The lines, one by one.                                                  *)
LEMMA LinePlaces ==
  ASSUME NEW axis \in Axes, NEW s \in Squares, NEW j \in Int
  PROVE  /\ Column(s) \in Ordinals /\ Row(s) \in Ordinals /\ LineOrdinal(axis, s) \in Ordinals
         /\ LineColumn(axis, s, j) \in Int /\ LineRow(axis, s, j) \in Int
         /\ \/ /\ axis = "HO" /\ LineColumn(axis, s, j) = j /\ LineRow(axis, s, j) = Row(s)
               /\ LineOrdinal(axis, s) = Column(s)
            \/ /\ axis = "VE" /\ LineColumn(axis, s, j) = Column(s) /\ LineRow(axis, s, j) = j
               /\ LineOrdinal(axis, s) = Row(s)
            \/ /\ axis = "DD" /\ LineColumn(axis, s, j) = j /\ LineRow(axis, s, j) = Row(s) + j - Column(s)
               /\ LineOrdinal(axis, s) = Column(s)
            \/ /\ axis = "DU" /\ LineColumn(axis, s, j) = j /\ LineRow(axis, s, j) = Row(s) - j + Column(s)
               /\ LineOrdinal(axis, s) = Column(s)
<1>1. Column(s) \in Ordinals /\ Row(s) \in Ordinals
  BY SquareCoordinates DEF Ordinals
<1>2. Column(s) \in Int /\ Row(s) \in Int
  BY <1>1 DEF Ordinals
<1>3. axis = "HO" \/ axis = "VE" \/ axis = "DD" \/ axis = "DU"
  BY DEF Axes
<1>4. CASE axis = "HO"
  BY <1>1, <1>2, <1>4 DEF LineColumn, LineRow, LineOrdinal, axis_move_ordinal_position_in_bitrow
<1>5. CASE axis = "VE"
  BY <1>1, <1>2, <1>5 DEF LineColumn, LineRow, LineOrdinal, axis_move_ordinal_position_in_bitrow
<1>6. CASE axis = "DD"
  BY <1>1, <1>2, <1>6 DEF LineColumn, LineRow, LineOrdinal, axis_move_ordinal_position_in_bitrow
<1>7. CASE axis = "DU"
  BY <1>1, <1>2, <1>7 DEF LineColumn, LineRow, LineOrdinal, axis_move_ordinal_position_in_bitrow
<1> QED
  BY <1>3, <1>4, <1>5, <1>6, <1>7

(* A place of the line is on the board when its square is.                 *)
LEMMA LineOnTheBoard ==
  ASSUME NEW axis \in Axes, NEW s \in Squares, NEW j \in Int
  PROVE  /\ j \in Ordinals /\ LineSquare(axis, s, j) \in Squares
              <=> OnBoard(LineColumn(axis, s, j), LineRow(axis, s, j))
         /\ OnBoard(LineColumn(axis, s, j), LineRow(axis, s, j))
              => /\ LineSquare(axis, s, j) \in Squares
                 /\ Column(LineSquare(axis, s, j)) = LineColumn(axis, s, j)
                 /\ Row(LineSquare(axis, s, j)) = LineRow(axis, s, j)
<1> PICK c, r \in Int : c = LineColumn(axis, s, j) /\ r = LineRow(axis, s, j) /\ LineSquare(axis, s, j) = Size * r + c
  BY LinePlaces DEF LineSquare
<1>1. Ordinals = 0 .. Size - 1
  BY DEF Ordinals
<1>2. ASSUME c \in Ordinals, r \in Ordinals
      PROVE  Size * r + c \in Squares /\ Column(Size * r + c) = c /\ Row(Size * r + c) = r
  BY <1>1, <1>2, SquareOfCell
<1>3. ASSUME j \in Ordinals, Size * r + c \in Squares PROVE c \in Ordinals /\ r \in Ordinals
  <2>1. c \in Ordinals
    BY <1>3, LinePlaces
  <2> DEFINE x == Size * r + c
  <2>2. Column(x) \in 0 .. Size - 1 /\ Row(x) \in 0 .. Size - 1 /\ x = Size * Row(x) + Column(x)
    BY <1>3, SquareCoordinates
  <2>3. PICK d, t \in 0 .. Size - 1 : d = Column(x) /\ t = Row(x) /\ Size * r + c = Size * t + d
    BY <2>2
  <2>4. r - t = 0
    <3>1. PICK n \in Nat \ {0} : n = Size
      BY SizeType
    <3>2. n * (r - t) = d - c /\ d - c \in Int /\ -n < d - c /\ d - c < n /\ r - t \in Int
      <4>1. n * (r - t) = n * r - n * t
        BY <3>1
      <4>2. PICK a, b \in Int : a = n * r /\ b = n * t /\ a + c = b + d
        BY <2>3, <3>1
      <4>3. c \in 0 .. n - 1 /\ d \in 0 .. n - 1
        BY <1>1, <2>1, <2>3, <3>1
      <4> QED
        BY <2>3, <4>1, <4>2, <4>3
    <3> QED
      BY <3>1, <3>2, SmallMultiple
  <2> QED
    BY <1>1, <2>1, <2>3, <2>4
<1>4. c \in Ordinals /\ r \in Ordinals => j \in Ordinals
  BY LinePlaces
<1> QED
  BY <1>2, <1>3, <1>4 DEF OnBoard

(* The square of the main line that holds a bit is the square of the line, *)
(* shifted.                                                                *)
LEMMA MainLineIsLine ==
  ASSUME NEW axis \in Axes, NEW s \in Squares, NEW j \in Ordinals
  PROVE  /\ MainLineSquare(axis, j) \in Squares
         /\ axis_shift_distance(axis, Column(s), Row(s)) \in Int
         /\ MainLineSquare(axis, j) - axis_shift_distance(axis, Column(s), Row(s)) = LineSquare(axis, s, j)
<1> PICK c, r \in 0 .. Size - 1 : c = Column(s) /\ r = Row(s)
  BY SquareCoordinates
<1>0. j \in 0 .. Size - 1
  BY DEF Ordinals
<1> PICK z \in Nat : z = Size
  BY SizeType
<1>1. c \in Int /\ r \in Int /\ j \in Int /\ z * r \in Int /\ z * c \in Int /\ z * j \in Int /\ z * (z - 1) \in Int
  BY <1>0
<1>2. CASE axis = "HO"
  <2>1. MainLineSquare(axis, j) = j /\ axis_shift_distance(axis, c, r) = -r * z
    BY <1>2 DEF MainLineSquare, axis_shift_distance
  <2>2. LineSquare(axis, s, j) = z * r + j
    BY <1>2 DEF LineSquare, LineRow, LineColumn
  <2>3. -r * z = -(z * r)
    BY <1>1
  <2>4. j \in Squares
    <3>1. 0 \in 0 .. Size - 1 /\ Size * 0 + j = j
      BY <1>0, SizeType
    <3> QED
      BY <1>0, <3>1, SquareOfCell
  <2> QED
    BY <1>1, <2>1, <2>2, <2>3, <2>4
<1>3. CASE axis = "VE"
  <2>1. MainLineSquare(axis, j) = j * z /\ axis_shift_distance(axis, c, r) = -c
    BY <1>3 DEF MainLineSquare, axis_shift_distance
  <2>2. LineSquare(axis, s, j) = z * j + c
    BY <1>3 DEF LineSquare, LineRow, LineColumn
  <2>3. j * z = z * j
    BY <1>1
  <2>4. z * j \in Squares
    <3>1. 0 \in 0 .. Size - 1 /\ Size * j + 0 = z * j
      BY <1>0, <1>1, SizeType
    <3> QED
      BY <1>0, <3>1, SquareOfCell
  <2> QED
    BY <1>1, <2>1, <2>2, <2>3, <2>4
<1>4. CASE axis = "DD"
  <2>1. MainLineSquare(axis, j) = j * z + j /\ axis_shift_distance(axis, c, r) = (c - r) * z
    BY <1>4 DEF MainLineSquare, axis_shift_distance
  <2>2. LineSquare(axis, s, j) = z * (r + j - c) + j
    BY <1>4 DEF LineSquare, LineRow, LineColumn
  <2>3. j * z = z * j
    BY <1>1
  <2>4. (c - r) * z = z * c - z * r
    BY <1>1
  <2>5. z * (r + j - c) = z * r + z * j - z * c
    BY <1>1
  <2>6. z * j + j \in Squares
    BY <1>0, SquareOfCell
  <2> QED
    BY <1>1, <2>1, <2>2, <2>3, <2>4, <2>5, <2>6
<1>5. CASE axis = "DU"
  <2>1. MainLineSquare(axis, j) = (z - 1 - j) * z + j /\ axis_shift_distance(axis, c, r) = (z - 1 - c - r) * z
    BY <1>5 DEF MainLineSquare, axis_shift_distance
  <2>2. LineSquare(axis, s, j) = z * (r - j + c) + j
    BY <1>5 DEF LineSquare, LineRow, LineColumn
  <2>3. (z - 1 - j) * z = z * (z - 1 - j)
    BY <1>1
  <2>4. z * (z - 1 - j) = z * (z - 1) - z * j
    BY <1>1
  <2>5. (z - 1 - c - r) * z = z * (z - 1) - z * c - z * r
    <3>1. (z - 1 - c - r) * z = z * ((z - 1) - (c + r))
      BY <1>1
    <3>2. z * ((z - 1) - (c + r)) = z * (z - 1) - z * (c + r)
      BY <1>1
    <3>3. z * (c + r) = z * c + z * r
      BY <1>1
    <3> QED
      BY <1>1, <3>1, <3>2, <3>3
  <2>6. z * (r - j + c) = z * r - z * j + z * c
    BY <1>1
  <2>7. z * (z - 1 - j) + j \in Squares
    <3> PICK q \in 0 .. Size - 1 : q = z - 1 - j
      BY <1>0
    <3>1. Size * q + j \in Squares
      BY <1>0, SquareOfCell
    <3> QED
      BY <3>1
  <2> QED
    BY <1>1, <2>1, <2>2, <2>3, <2>4, <2>5, <2>6, <2>7
<1> QED
  BY <1>2, <1>3, <1>4, <1>5 DEF Axes

(* The axis of a direction, and which way it goes along its rows.          *)
AxisOf == <<"DD", "DD", "VE", "VE", "DU", "DU", "HO", "HO">>
WayOf == <<-1, 1, -1, 1, 1, -1, -1, 1>>

(* A direction is an axis and a way, and the other way round.              *)
LEMMA AxesAndWays ==
  /\ \A i \in 1 .. 8 : AxisOf[i] \in Axes /\ WayOf[i] \in {-1, 1}
  /\ \A axis \in Axes, w \in {-1, 1} : \E i \in 1 .. 8 : AxisOf[i] = axis /\ WayOf[i] = w
<1>1. \A i \in 1 .. 8 : AxisOf[i] \in Axes /\ WayOf[i] \in {-1, 1}
  BY DEF AxisOf, WayOf, Axes
<1>2. ASSUME NEW axis \in Axes, NEW w \in {-1, 1} PROVE \E i \in 1 .. 8 : AxisOf[i] = axis /\ WayOf[i] = w
  <2>1. /\ AxisOf[1] = "DD" /\ WayOf[1] = -1 /\ AxisOf[2] = "DD" /\ WayOf[2] = 1
        /\ AxisOf[3] = "VE" /\ WayOf[3] = -1 /\ AxisOf[4] = "VE" /\ WayOf[4] = 1
        /\ AxisOf[5] = "DU" /\ WayOf[5] = 1 /\ AxisOf[6] = "DU" /\ WayOf[6] = -1
        /\ AxisOf[7] = "HO" /\ WayOf[7] = -1 /\ AxisOf[8] = "HO" /\ WayOf[8] = 1
    BY DEF AxisOf, WayOf
  <2>2. axis = "HO" \/ axis = "VE" \/ axis = "DD" \/ axis = "DU"
    BY DEF Axes
  <2>3. w = -1 \/ w = 1
    OBVIOUS
  <2>4. 1 \in 1 .. 8 /\ 2 \in 1 .. 8 /\ 3 \in 1 .. 8 /\ 4 \in 1 .. 8 /\ 5 \in 1 .. 8 /\ 6 \in 1 .. 8 /\ 7 \in 1 .. 8 /\ 8 \in 1 .. 8
    OBVIOUS
  <2> QED
    BY <2>1, <2>2, <2>3, <2>4
<1> QED
  BY <1>1, <1>2

(* The place that k steps in a direction lead to in the row of its axis.   *)
PlaceAlong(i, s, k) == LineOrdinal(AxisOf[i], s) + WayOf[i] * k

(* k steps in a direction are k bits in the row of its axis.               *)
LEMMA AlongLine ==
  ASSUME NEW s \in Squares, NEW i \in 1 .. 8, NEW k \in Int, NEW j, j = PlaceAlong(i, s, k)
  PROVE  /\ j \in Int
         /\ OnBoard(Column_(s, i, k), Row_(s, i, k)) <=> j \in Ordinals /\ LineSquare(AxisOf[i], s, j) \in Squares
         /\ OnBoard(Column_(s, i, k), Row_(s, i, k)) => s + k * Distance(i) = LineSquare(AxisOf[i], s, j)
<1> DEFINE axis == AxisOf[i]
<1>0. j = LineOrdinal(axis, s) + WayOf[i] * k
  BY DEF PlaceAlong
<1>1. axis \in Axes /\ WayOf[i] \in {-1, 1}
  BY AxesAndWays
<1>2. Ordinals = 0 .. Size - 1
  BY DEF Ordinals
<1>3. PICK c, r \in Int : c = Column(s) /\ r = Row(s)
  BY <1>1, <1>2, LinePlaces
<1>4. j \in Int
  <2>1. LineOrdinal(axis, s) \in Int
    BY <1>1, <1>2, LinePlaces
  <2>2. WayOf[i] * k \in Int
    BY <1>1
  <2> HIDE DEF axis
  <2> QED
    BY <1>0, <2>1, <2>2
<1>5. Column_(s, i, k) = LineColumn(axis, s, j) /\ Row_(s, i, k) = LineRow(axis, s, j)
  <2>1. /\ Right[1] = -1 /\ Down[1] = -1 /\ Right[2] = 1 /\ Down[2] = 1
        /\ Right[3] = 0 /\ Down[3] = -1 /\ Right[4] = 0 /\ Down[4] = 1
        /\ Right[5] = 1 /\ Down[5] = -1 /\ Right[6] = -1 /\ Down[6] = 1
        /\ Right[7] = -1 /\ Down[7] = 0 /\ Right[8] = 1 /\ Down[8] = 0
    BY DEF Right, Down
  <2>2. /\ AxisOf[1] = "DD" /\ WayOf[1] = -1 /\ AxisOf[2] = "DD" /\ WayOf[2] = 1
        /\ AxisOf[3] = "VE" /\ WayOf[3] = -1 /\ AxisOf[4] = "VE" /\ WayOf[4] = 1
        /\ AxisOf[5] = "DU" /\ WayOf[5] = 1 /\ AxisOf[6] = "DU" /\ WayOf[6] = -1
        /\ AxisOf[7] = "HO" /\ WayOf[7] = -1 /\ AxisOf[8] = "HO" /\ WayOf[8] = 1
    BY DEF AxisOf, WayOf
  <2>3. i = 1 \/ i = 2 \/ i = 3 \/ i = 4 \/ i = 5 \/ i = 6 \/ i = 7 \/ i = 8
    OBVIOUS
  <2>4. k * (-1) = -k /\ k * 1 = k /\ k * 0 = 0 /\ (-1) * k = -k /\ 1 * k = k
    OBVIOUS
  <2>5. /\ axis = "HO" => LineOrdinal(axis, s) = c /\ LineColumn(axis, s, j) = j /\ LineRow(axis, s, j) = r
        /\ axis = "VE" => LineOrdinal(axis, s) = r /\ LineColumn(axis, s, j) = c /\ LineRow(axis, s, j) = j
        /\ axis = "DD" => LineOrdinal(axis, s) = c /\ LineColumn(axis, s, j) = j /\ LineRow(axis, s, j) = r + j - c
        /\ axis = "DU" => LineOrdinal(axis, s) = c /\ LineColumn(axis, s, j) = j /\ LineRow(axis, s, j) = r - j + c
    BY <1>1, <1>3, <1>4, LinePlaces
  <2>6. Column_(s, i, k) = c + k * Right[i] /\ Row_(s, i, k) = r + k * Down[i]
    BY <1>3 DEF Column_, Row_
  <2> HIDE DEF axis
  <2>7. CASE i \in {1, 2}
    BY <1>0, <1>3, <1>4, <2>1, <2>2, <2>4, <2>5, <2>6, <2>7 DEF axis
  <2>8. CASE i \in {3, 4}
    BY <1>0, <1>3, <1>4, <2>1, <2>2, <2>4, <2>5, <2>6, <2>8 DEF axis
  <2>9. CASE i \in {5, 6}
    BY <1>0, <1>3, <1>4, <2>1, <2>2, <2>4, <2>5, <2>6, <2>9 DEF axis
  <2>10. CASE i \in {7, 8}
    BY <1>0, <1>3, <1>4, <2>1, <2>2, <2>4, <2>5, <2>6, <2>10 DEF axis
  <2> QED
    BY <2>3, <2>7, <2>8, <2>9, <2>10
<1>6. OnBoard(Column_(s, i, k), Row_(s, i, k)) <=> j \in Ordinals /\ LineSquare(axis, s, j) \in Squares
  BY <1>1, <1>4, <1>5, LineOnTheBoard
<1>7. ASSUME OnBoard(Column_(s, i, k), Row_(s, i, k)) PROVE s + k * Distance(i) = LineSquare(axis, s, j)
  <2> DEFINE x == s + k * Distance(i)
             y == LineSquare(axis, s, j)
  <2>1. x \in Squares /\ Column(x) = Column_(s, i, k) /\ Row(x) = Row_(s, i, k)
    BY <1>7, SquareOnLine
  <2>2. y \in Squares /\ Column(y) = Column_(s, i, k) /\ Row(y) = Row_(s, i, k)
    BY <1>1, <1>4, <1>5, <1>7, LineOnTheBoard
  <2> HIDE DEF x, y
  <2>3. x = y
    BY <2>1, <2>2, SquareCoordinates
  <2> QED
    BY <2>3 DEF x, y
<1> QED
  BY <1>4, <1>6, <1>7

(* A row holds the squares of its line that are in the set.                *)
LEMMA BitrowSquares ==
  ASSUME NEW axis \in Axes, NEW s \in Squares, NEW S, S \subseteq Squares
  PROVE  /\ Bitrow(axis, S, Column(s), Row(s)) \subseteq Ordinals
         /\ \A j \in Ordinals : j \in Bitrow(axis, S, Column(s), Row(s)) <=> LineSquare(axis, s, j) \in S
<1> DEFINE d == axis_shift_distance(axis, Column(s), Row(s))
<1>1. Bitrow(axis, S, Column(s), Row(s)) = {j \in Ordinals : MainLineSquare(axis, j) \in Shifted(S, d)}
  BY DEF Bitrow, axis_transform_to_row_one
<1>2. ASSUME NEW j \in Ordinals PROVE MainLineSquare(axis, j) \in Shifted(S, d) <=> LineSquare(axis, s, j) \in S
  <2>1. d \in Int /\ MainLineSquare(axis, j) \in Squares /\ MainLineSquare(axis, j) - d = LineSquare(axis, s, j)
    BY MainLineIsLine
  <2>2. MainLineSquare(axis, j) \in Int
    BY <2>1 DEF Squares
  <2> HIDE DEF d
  <2> QED
    BY <2>1, <2>2, ShiftedBack
<1> QED
  BY <1>1, <1>2

(* A row put back is on its line.                                          *)
LEMMA RowPutBack ==
  ASSUME NEW axis \in Axes, NEW s \in Squares, NEW B, B \subseteq Ordinals, NEW x
  PROVE  x \in BackOnLine(axis, B, Column(s), Row(s)) <=> x \in Squares /\ \E j \in B : x = LineSquare(axis, s, j)
<1> DEFINE d == axis_shift_distance(axis, Column(s), Row(s))
<1>1. BackOnLine(axis, B, Column(s), Row(s)) = {t + (-d) : t \in {MainLineSquare(axis, j) : j \in B}} \cap Squares
  BY DEF BackOnLine, Shifted, axis_transform_back_from_row_one
<1>2. ASSUME NEW j \in B PROVE MainLineSquare(axis, j) + (-d) = LineSquare(axis, s, j)
  <2>1. d \in Int /\ MainLineSquare(axis, j) \in Squares /\ MainLineSquare(axis, j) - d = LineSquare(axis, s, j)
    BY MainLineIsLine
  <2>2. MainLineSquare(axis, j) \in Int
    BY <2>1 DEF Squares
  <2> HIDE DEF d
  <2> QED
    BY <2>1, <2>2
<1> HIDE DEF d
<1> QED
  BY <1>1, <1>2

(* The squares of the four lines through s, each on one line and at one    *)
(* place of it.                                                            *)
LEMMA LinesOfSquare ==
  ASSUME NEW s \in Squares, NEW x \in Squares, x # s
  PROVE  /\ x \in LinesThrough[s] <=> \E axis \in Axes, j \in Ordinals : x = LineSquare(axis, s, j)
         /\ \A a, b \in Axes, j, k \in Ordinals :
              x = LineSquare(a, s, j) /\ x = LineSquare(b, s, k) => a = b /\ j = k
<1> PICK c, r, d, t \in Int : c = Column(s) /\ r = Row(s) /\ d = Column(x) /\ t = Row(x)
  BY SquareCoordinates
<1>1. d \in Ordinals /\ t \in Ordinals /\ c \in Ordinals /\ r \in Ordinals
  BY SquareCoordinates DEF Ordinals
<1>2. d # c \/ t # r
  BY SquareCoordinates
<1>3. \A j \in Ordinals : j \in Int
  BY DEF Ordinals
<1>4. ASSUME NEW axis \in Axes, NEW j \in Ordinals
      PROVE  x = LineSquare(axis, s, j) <=> d = LineColumn(axis, s, j) /\ t = LineRow(axis, s, j)
  <2>1. ASSUME x = LineSquare(axis, s, j) PROVE d = LineColumn(axis, s, j) /\ t = LineRow(axis, s, j)
    BY <1>3, <2>1, LineOnTheBoard
  <2>2. ASSUME d = LineColumn(axis, s, j), t = LineRow(axis, s, j) PROVE x = LineSquare(axis, s, j)
    <3>1. x = Size * t + d
      BY SquareCoordinates
    <3> QED
      BY <2>2, <3>1 DEF LineSquare
  <2> QED
    BY <2>1, <2>2
<1>5. ASSUME NEW axis \in Axes, NEW j \in Ordinals
      PROVE  x = LineSquare(axis, s, j) <=>
               \/ axis = "HO" /\ d = j /\ t = r
               \/ axis = "VE" /\ d = c /\ t = j
               \/ axis = "DD" /\ d = j /\ t = r + j - c
               \/ axis = "DU" /\ d = j /\ t = r - j + c
  <2>1. axis = "HO" \/ axis = "VE" \/ axis = "DD" \/ axis = "DU"
    BY DEF Axes
  <2>2. /\ axis = "HO" => LineColumn(axis, s, j) = j /\ LineRow(axis, s, j) = r
        /\ axis = "VE" => LineColumn(axis, s, j) = c /\ LineRow(axis, s, j) = j
        /\ axis = "DD" => LineColumn(axis, s, j) = j /\ LineRow(axis, s, j) = r + j - c
        /\ axis = "DU" => LineColumn(axis, s, j) = j /\ LineRow(axis, s, j) = r - j + c
    BY <1>3, LinePlaces
  <2> QED
    BY ONLY <1>4, <2>1, <2>2, axis \in Axes, j \in Ordinals
<1>6. x \in LinesThrough[s] <=> d = c \/ t = r \/ d - t = c - r \/ d + t = c + r
  BY DEF LinesThrough
<1>7. "HO" \in Axes /\ "VE" \in Axes /\ "DD" \in Axes /\ "DU" \in Axes
  BY DEF Axes
<1>8. x \in LinesThrough[s] => \E axis \in Axes, j \in Ordinals : x = LineSquare(axis, s, j)
  <2>1. ASSUME d = c PROVE x = LineSquare("VE", s, t)
    BY <1>1, <1>5, <1>7, <2>1
  <2>2. ASSUME t = r PROVE x = LineSquare("HO", s, d)
    BY <1>1, <1>5, <1>7, <2>2
  <2>3. ASSUME d - t = c - r PROVE x = LineSquare("DD", s, d)
    <3>1. t = r + d - c
      BY ONLY <2>3, c \in Int, r \in Int, d \in Int, t \in Int
    <3> QED
      BY <1>1, <1>5, <1>7, <3>1
  <2>4. ASSUME d + t = c + r PROVE x = LineSquare("DU", s, d)
    <3>1. t = r - d + c
      BY ONLY <2>4, c \in Int, r \in Int, d \in Int, t \in Int
    <3> QED
      BY <1>1, <1>5, <1>7, <3>1
  <2> QED
    BY <1>1, <1>6, <1>7, <2>1, <2>2, <2>3, <2>4
<1>9. ASSUME NEW axis \in Axes, NEW j \in Ordinals, x = LineSquare(axis, s, j) PROVE x \in LinesThrough[s]
  BY <1>3, <1>5, <1>6, <1>9
<1>10. ASSUME NEW a \in Axes, NEW b \in Axes, NEW j \in Ordinals, NEW k \in Ordinals,
              x = LineSquare(a, s, j), x = LineSquare(b, s, k)
       PROVE  a = b /\ j = k
  <2>1. \/ a = "HO" /\ d = j /\ t = r
        \/ a = "VE" /\ d = c /\ t = j
        \/ a = "DD" /\ d = j /\ t = r + j - c
        \/ a = "DU" /\ d = j /\ t = r - j + c
    BY <1>5, <1>10
  <2>2. \/ b = "HO" /\ d = k /\ t = r
        \/ b = "VE" /\ d = c /\ t = k
        \/ b = "DD" /\ d = k /\ t = r + k - c
        \/ b = "DU" /\ d = k /\ t = r - k + c
    BY <1>5, <1>10
  <2>3. j \in Int /\ k \in Int
    BY <1>3
  <2> QED
    BY ONLY <1>2, <2>1, <2>2, <2>3, c \in Int, r \in Int, d \in Int, t \in Int
<1> QED
  BY <1>8, <1>9, <1>10

(* From bit m of a row, n bits of the opponent on one side, and after them *)
(* one of the player; the bits that a disc at m turns.                     *)
RowRun(P, O, m, w, n) == (\A k \in 1 .. n : m + w * k \in O) /\ m + w * (n + 1) \in P
InRowRun(P, O, m, w, j) == \E n \in Nat \ {0} : RowRun(P, O, m, w, n) /\ \E k \in 1 .. n : j = m + w * k
RowTurned(P, O, m) == {j \in O : \E w \in {-1, 1} : InRowRun(P, O, m, w, j)}

(* The ranks between a move and the next bits of the player. *)
RightRankOf(P, m) == LET right == {i \in P : i > m} IN IF right = {} THEN {} ELSE m + 1 .. Min(right) - 1
LeftRankOf(P, m) == LET left == {i \in P : i < m} IN IF left = {} THEN {} ELSE Max(left) + 1 .. m - 1

(* The bits to the right of a move, up to the next one of the player.      *)
LEMMA RightRank ==
  ASSUME NEW P, P \subseteq Ordinals, NEW O, O \subseteq Ordinals, P \cap O = {}, NEW m \in Ordinals
  PROVE  \A j : j \in RightRankOf(P, m) /\ RightRankOf(P, m) \subseteq P \cup O <=> InRowRun(P, O, m, 1, j)
<1> DEFINE right == {i \in P : i > m}
           rank == RightRankOf(P, m)
<1>6. rank = IF right = {} THEN {} ELSE m + 1 .. Min(right) - 1
  BY DEF RightRankOf
<1>7. \A i : i \in right <=> i \in P /\ i > m
  OBVIOUS
<1> HIDE DEF right, rank
<1> USE <1>6, <1>7
<1>1. \A x \in Ordinals : x \in Nat
  BY DEF Ordinals
<1>2. \A x \in P : x \in Int
  BY <1>1
<1>3. ASSUME right # {}
      PROVE  Min(right) \in P /\ Min(right) > m /\ \A i \in P : i > m => Min(right) <= i
  <2>1. right \subseteq Nat
    BY <1>1
  <2>2. PICK q \in right : \A i \in right : q <= i
    BY <1>3, <2>1, LeastNatural
  <2>3. \A i \in right : (\A y \in right : i <= y) => i = q
    <3> TAKE i \in right
    <3> HAVE \A y \in right : i <= y
    <3>1. i <= q /\ q <= i /\ i \in Nat /\ q \in Nat
      BY <2>1, <2>2
    <3> QED
      BY <3>1
  <2>4. Min(right) = q
    BY <2>2, <2>3, Zenon DEF Min
  <2> QED
    BY <2>2, <2>4
<1>4. ASSUME NEW j, j \in rank, rank \subseteq P \cup O PROVE InRowRun(P, O, m, 1, j)
  <2>1. right # {} /\ rank = m + 1 .. Min(right) - 1
    BY <1>4
  <2> PICK q \in Int : q = Min(right) /\ q \in P /\ q > m /\ \A i \in P : i > m => q <= i
    BY <1>2, <1>3, <2>1
  <2>2. j \in m + 1 .. q - 1 /\ m \in Int
    BY <1>1, <1>4, <2>1
  <2>0. q - 1 - m \in Nat \ {0}
    <3>1. m + 1 <= j /\ j <= q - 1 /\ j \in Int
      BY <2>2
    <3> QED
      BY <2>2, <3>1
  <2> PICK n \in Nat \ {0} : n = q - 1 - m
    BY <2>0
  <2>3. ASSUME NEW k \in 1 .. n PROVE m + 1 * k \in O
    <3>1. m + k \in m + 1 .. q - 1 /\ m + k > m /\ ~(q <= m + k) /\ m + 1 * k = m + k
      BY <2>2
    <3>2. m + k \in P \cup O
      BY <1>4, <2>1, <3>1
    <3> QED
      BY <3>1, <3>2
  <2>4. m + 1 * (n + 1) = q
    BY <2>2
  <2>5. j - m \in 1 .. n /\ j = m + 1 * (j - m)
    BY <2>2
  <2> QED
    BY <2>3, <2>4, <2>5 DEF InRowRun, RowRun
<1>5. ASSUME NEW j, InRowRun(P, O, m, 1, j) PROVE j \in rank /\ rank \subseteq P \cup O
  <2> PICK n \in Nat \ {0} : RowRun(P, O, m, 1, n) /\ \E k \in 1 .. n : j = m + 1 * k
    BY <1>5 DEF InRowRun
  <2> PICK k \in 1 .. n : j = m + 1 * k
    OBVIOUS
  <2>1. m \in Int /\ 1 * (n + 1) = n + 1 /\ j = m + k
    BY <1>1
  <2>2. (\A l \in 1 .. n : m + l \in O) /\ m + (n + 1) \in P
    <3>1. \A l \in 1 .. n : 1 * l = l
      OBVIOUS
    <3> QED
      BY <2>1, <3>1 DEF RowRun
  <2>3. right # {}
    <3>1. m + (n + 1) > m
      BY <2>1
    <3> QED
      BY <2>2, <3>1
  <2> PICK q \in Int : q = Min(right) /\ q \in P /\ q > m /\ \A i \in P : i > m => q <= i
    BY <1>2, <1>3, <2>3
  <2>4. q = m + (n + 1)
    <3>1. q <= m + (n + 1)
      BY <2>1, <2>2
    <3>2. ASSUME q # m + (n + 1) PROVE FALSE
      <4>1. q - m \in 1 .. n /\ m + (q - m) = q
        BY <2>1, <3>1, <3>2
      <4> QED
        BY <2>2, <4>1
    <3> QED
      BY <3>2
  <2>5. rank = m + 1 .. m + n
    BY <2>1, <2>3, <2>4
  <2>6. \A x \in m + 1 .. m + n : x - m \in 1 .. n /\ m + (x - m) = x
    BY <2>1
  <2>7. rank \subseteq O
    <3>1. ASSUME NEW x \in m + 1 .. m + n PROVE x \in O
      <4>1. m + (x - m) \in O /\ m + (x - m) = x
        BY <2>2, <2>6
      <4> QED
        BY <4>1
    <3> QED
      BY <2>5, <3>1
  <2>8. j \in m + 1 .. m + n
    BY <2>1
  <2> QED
    BY <2>5, <2>7, <2>8
<1> QED
  BY <1>4, <1>5 DEF rank

(* And the bits to the left of it.                                         *)
LEMMA LeftRank ==
  ASSUME NEW P, P \subseteq Ordinals, NEW O, O \subseteq Ordinals, P \cap O = {}, NEW m \in Ordinals
  PROVE  \A j : j \in LeftRankOf(P, m) /\ LeftRankOf(P, m) \subseteq P \cup O <=> InRowRun(P, O, m, -1, j)
<1> DEFINE left == {i \in P : i < m}
           rank == LeftRankOf(P, m)
<1>6. rank = IF left = {} THEN {} ELSE Max(left) + 1 .. m - 1
  BY DEF LeftRankOf
<1>7. \A i : i \in left <=> i \in P /\ i < m
  OBVIOUS
<1> HIDE DEF left, rank
<1> USE <1>6, <1>7
<1>1. \A x \in Ordinals : x \in Nat
  BY DEF Ordinals
<1>2. \A x \in P : x \in Int
  BY <1>1
<1>3. ASSUME left # {}
      PROVE  Max(left) \in P /\ Max(left) < m /\ \A i \in P : i < m => i <= Max(left)
  <2>1. left \subseteq 0 .. m /\ left \subseteq Int /\ m \in Nat
    <3>1. m \in Nat
      BY <1>1
    <3>2. ASSUME NEW i \in left PROVE i \in 0 .. m /\ i \in Int
      <4>1. i \in P /\ i < m
        OBVIOUS
      <4>2. i \in Nat
        BY <1>1, <4>1
      <4> QED
        BY <3>1, <4>1, <4>2
    <3> QED
      BY <3>1, <3>2
  <2>2. PICK q \in left : \A i \in left : i <= q
    BY <1>3, <2>1, GreatestUpTo
  <2>3. Max(left) = q
    BY <2>1, <2>2, GreatestIsMax
  <2> QED
    BY <2>2, <2>3
<1>4. ASSUME NEW j, j \in rank, rank \subseteq P \cup O PROVE InRowRun(P, O, m, -1, j)
  <2>1. left # {} /\ rank = Max(left) + 1 .. m - 1
    BY <1>4
  <2> PICK q \in Int : q = Max(left) /\ q \in P /\ q < m /\ \A i \in P : i < m => i <= q
    BY <1>2, <1>3, <2>1
  <2>2. j \in q + 1 .. m - 1 /\ m \in Int
    BY <1>1, <1>4, <2>1
  <2>0. m - 1 - q \in Nat \ {0}
    <3>1. q + 1 <= j /\ j <= m - 1 /\ j \in Int
      BY <2>2
    <3> QED
      BY <2>2, <3>1
  <2> PICK n \in Nat \ {0} : n = m - 1 - q
    BY <2>0
  <2>3. ASSUME NEW k \in 1 .. n PROVE m + (-1) * k \in O
    <3>1. m - k \in q + 1 .. m - 1 /\ m - k < m /\ ~(m - k <= q) /\ m + (-1) * k = m - k
      BY <2>2
    <3>2. m - k \in P \cup O
      BY <1>4, <2>1, <3>1
    <3> QED
      BY <3>1, <3>2
  <2>4. m + (-1) * (n + 1) = q
    BY <2>2
  <2>5. m - j \in 1 .. n /\ j = m + (-1) * (m - j)
    BY <2>2
  <2> QED
    BY <2>3, <2>4, <2>5 DEF InRowRun, RowRun
<1>5. ASSUME NEW j, InRowRun(P, O, m, -1, j) PROVE j \in rank /\ rank \subseteq P \cup O
  <2> PICK n \in Nat \ {0} : RowRun(P, O, m, -1, n) /\ \E k \in 1 .. n : j = m + (-1) * k
    BY <1>5 DEF InRowRun
  <2> PICK k \in 1 .. n : j = m + (-1) * k
    OBVIOUS
  <2>1. m \in Int /\ m + (-1) * (n + 1) = m - (n + 1) /\ j = m - k
    BY <1>1
  <2>2. (\A l \in 1 .. n : m - l \in O) /\ m - (n + 1) \in P
    <3>1. \A l \in 1 .. n : m + (-1) * l = m - l
      BY <2>1
    <3> QED
      BY <2>1, <3>1 DEF RowRun
  <2>3. left # {}
    <3>1. m - (n + 1) < m
      BY <2>1
    <3> QED
      BY <2>2, <3>1
  <2> PICK q \in Int : q = Max(left) /\ q \in P /\ q < m /\ \A i \in P : i < m => i <= q
    BY <1>2, <1>3, <2>3
  <2>4. q = m - (n + 1)
    <3>1. m - (n + 1) <= q
      BY <2>1, <2>2
    <3>2. ASSUME q # m - (n + 1) PROVE FALSE
      <4>1. m - q \in 1 .. n /\ m - (m - q) = q
        BY <2>1, <3>1, <3>2
      <4> QED
        BY <2>2, <4>1
    <3> QED
      BY <3>2
  <2>5. rank = m - n .. m - 1
    BY <2>1, <2>3, <2>4
  <2>6. \A x \in m - n .. m - 1 : m - x \in 1 .. n /\ m - (m - x) = x
    BY <2>1
  <2>7. rank \subseteq O
    <3>1. ASSUME NEW x \in m - n .. m - 1 PROVE x \in O
      <4>1. m - (m - x) \in O /\ m - (m - x) = x
        BY <2>2, <2>6
      <4> QED
        BY <4>1
    <3> QED
      BY <2>5, <3>1
  <2>8. j \in m - n .. m - 1
    BY <2>1
  <2> QED
    BY <2>5, <2>7, <2>8
<1> QED
  BY <1>4, <1>5 DEF rank

(* An entry of the table of rows.                                          *)
LEMMA RowChanges ==
  ASSUME NEW P, P \subseteq Ordinals, NEW O, O \subseteq Ordinals, P \cap O = {}, NEW m \in Ordinals, m \notin P \cup O
  PROVE  board_bitrow_changes_for_player(P, O, m)
           = IF RowTurned(P, O, m) = {} THEN P ELSE P \cup {m} \cup RowTurned(P, O, m)
<1> DEFINE left_rank == LeftRankOf(P, m)
           right_rank == RightRankOf(P, m)
           turned == UNION {rank \in {left_rank, right_rank} : rank \subseteq P \cup O}
<1>1. board_bitrow_changes_for_player(P, O, m)
        = IF P \cap O # {} \/ m \in P \cup O \/ turned = {} THEN P ELSE P \cup {m} \cup turned
  BY DEF board_bitrow_changes_for_player, LeftRankOf, RightRankOf
<1>2. \A j : j \in left_rank /\ left_rank \subseteq P \cup O <=> InRowRun(P, O, m, -1, j)
  BY LeftRank
<1>3. \A j : j \in right_rank /\ right_rank \subseteq P \cup O <=> InRowRun(P, O, m, 1, j)
  BY RightRank
<1> HIDE DEF left_rank, right_rank
<1>4. \A j : j \in turned <=> \E w \in {-1, 1} : InRowRun(P, O, m, w, j)
  BY <1>2, <1>3
<1>5. \A w, j : InRowRun(P, O, m, w, j) => j \in O
  BY DEF InRowRun, RowRun
<1> HIDE DEF turned
<1>6. \A j : j \in turned <=> j \in RowTurned(P, O, m)
  BY <1>4, <1>5 DEF RowTurned
<1>7. turned = RowTurned(P, O, m)
  BY <1>6
<1> QED
  BY <1>1, <1>7

(* A row of a set, and what a move turns in its row of an axis.            *)
RowOf(axis, S, s) == Bitrow(axis, S, Column(s), Row(s))
TurnedInRow(axis, g, s) ==
  RowTurned(RowOf(axis, PlayerSet(g), s), RowOf(axis, OpponentSet(g), s), LineOrdinal(axis, s))

(* A bit of the row is a square of the line.                               *)
LEMMA BitOfLine ==
  ASSUME NEW s \in Squares, NEW i \in 1 .. 8, NEW k \in Int, NEW S, S \subseteq Squares
  PROVE  LineOrdinal(AxisOf[i], s) + WayOf[i] * k \in RowOf(AxisOf[i], S, s)
           <=> OnBoard(Column_(s, i, k), Row_(s, i, k)) /\ s + k * Distance(i) \in S
<1> DEFINE j == PlaceAlong(i, s, k)
<1>0. AxisOf[i] \in Axes
  BY AxesAndWays
<1>4. j = PlaceAlong(i, s, k)
  OBVIOUS
<1> HIDE DEF j
<1>1. /\ OnBoard(Column_(s, i, k), Row_(s, i, k)) <=> j \in Ordinals /\ LineSquare(AxisOf[i], s, j) \in Squares
      /\ OnBoard(Column_(s, i, k), Row_(s, i, k)) => s + k * Distance(i) = LineSquare(AxisOf[i], s, j)
  BY <1>4, AlongLine
<1>2. j \in RowOf(AxisOf[i], S, s) <=> j \in Ordinals /\ LineSquare(AxisOf[i], s, j) \in S
  BY <1>0, BitrowSquares DEF RowOf
<1>3. LineSquare(AxisOf[i], s, j) \in S => LineSquare(AxisOf[i], s, j) \in Squares
  OBVIOUS
<1> QED
  BY <1>1, <1>2, <1>3 DEF j, PlaceAlong

(* A run on the board is a run in the row of its axis.                     *)
LEMMA RunIsRowRun ==
  ASSUME NEW g, Playable(g), NEW s \in Squares, NEW i \in 1 .. 8, NEW n \in Nat \ {0}
  PROVE  n \in LineTurns(g, s, StepOf(i)) <=>
           RowRun(RowOf(AxisOf[i], PlayerSet(g), s), RowOf(AxisOf[i], OpponentSet(g), s),
                  LineOrdinal(AxisOf[i], s), WayOf[i], n)
<1> DEFINE P == RowOf(AxisOf[i], PlayerSet(g), s)
           O == RowOf(AxisOf[i], OpponentSet(g), s)
           m == LineOrdinal(AxisOf[i], s)
           w == WayOf[i]
           on(k) == OnBoard(Column_(s, i, k), Row_(s, i, k))
           square(k) == s + k * Distance(i)
<1>1. PlayerSet(g) \subseteq Squares /\ OpponentSet(g) \subseteq Squares
  BY PlayableParts
<1>2. \A k \in Int : m + w * k \in P <=> on(k) /\ square(k) \in PlayerSet(g)
  BY <1>1, BitOfLine
<1>3. \A k \in Int : m + w * k \in O <=> on(k) /\ square(k) \in OpponentSet(g)
  BY <1>1, BitOfLine
<1>4. \A l \in Nat : on(l) <=> \A k \in 1 .. l : square(k) \in Squares /\ square(k) \in Mask[Distance(i)]
  BY UnmaskedLine
<1>5. n \in LineTurns(g, s, StepOf(i)) <=>
        /\ \A k \in 1 .. n + 1 : square(k) \in Squares /\ square(k) \in Mask[Distance(i)]
        /\ \A k \in 1 .. n : square(k) \in OpponentSet(g)
        /\ square(n + 1) \in PlayerSet(g)
  BY RunUnmasked
<1>6. \A k \in 1 .. n + 1 : k \in Int /\ k \in Nat /\ \A l \in 1 .. k : l \in 1 .. n + 1
  OBVIOUS
<1>7. \A k \in 1 .. n : k \in 1 .. n + 1
  OBVIOUS
<1>8. n + 1 \in 1 .. n + 1
  OBVIOUS
<1>9. RowRun(P, O, m, w, n) <=> (\A k \in 1 .. n : m + w * k \in O) /\ m + w * (n + 1) \in P
  BY DEF RowRun
<1> HIDE DEF P, O, m, w, on, square
<1>10. (\A k \in 1 .. n + 1 : on(k)) <=> on(n + 1)
  <2>1. ASSUME on(n + 1), NEW k \in 1 .. n + 1 PROVE on(k)
    BY <1>4, <1>6, <1>8, <2>1
  <2> QED
    BY <1>8, <2>1
<1>11. n \in LineTurns(g, s, StepOf(i)) <=>
         on(n + 1) /\ (\A k \in 1 .. n : square(k) \in OpponentSet(g)) /\ square(n + 1) \in PlayerSet(g)
  BY <1>4, <1>5, <1>6, <1>8
<1>12. RowRun(P, O, m, w, n) <=>
         on(n + 1) /\ (\A k \in 1 .. n : square(k) \in OpponentSet(g)) /\ square(n + 1) \in PlayerSet(g)
  BY <1>2, <1>3, <1>6, <1>7, <1>8, <1>9, <1>10
<1> QED
  BY <1>11, <1>12 DEF P, O, m, w

(* The discs that a move turns are those that it turns in its four rows.   *)
LEMMA TurnedByRows ==
  ASSUME NEW g, Playable(g), NEW s \in Squares, NEW x
  PROVE  x \in Turned(g, s) <=> \E axis \in Axes : \E j \in TurnedInRow(axis, g, s) : x = LineSquare(axis, s, j)
<1> DEFINE P(axis) == RowOf(axis, PlayerSet(g), s)
           O(axis) == RowOf(axis, OpponentSet(g), s)
           m(axis) == LineOrdinal(axis, s)
<1>1. x \in Turned(g, s) <=> \E i \in 1 .. 8 : InRun(g, s, i, x)
  BY TurnedSquares
<1>2. ASSUME NEW i \in 1 .. 8, NEW n \in Nat \ {0}, NEW k \in 1 .. n,
             RowRun(P(AxisOf[i]), O(AxisOf[i]), m(AxisOf[i]), WayOf[i], n)
      PROVE  s + k * Distance(i) = LineSquare(AxisOf[i], s, m(AxisOf[i]) + WayOf[i] * k)
  <2>1. m(AxisOf[i]) + WayOf[i] * k \in O(AxisOf[i])
    BY <1>2 DEF RowRun
  <2>2. OpponentSet(g) \subseteq Squares
    BY PlayableParts
  <2>3. k \in Int
    OBVIOUS
  <2>4. OnBoard(Column_(s, i, k), Row_(s, i, k))
    BY <2>1, <2>2, <2>3, BitOfLine
  <2>5. PICK j : j = PlaceAlong(i, s, k)
    OBVIOUS
  <2>6. s + k * Distance(i) = LineSquare(AxisOf[i], s, j)
    BY <2>3, <2>4, <2>5, AlongLine
  <2> QED
    BY <2>5, <2>6 DEF PlaceAlong
<1>3. ASSUME NEW i \in 1 .. 8, InRun(g, s, i, x)
      PROVE  \E axis \in Axes : \E j \in TurnedInRow(axis, g, s) : x = LineSquare(axis, s, j)
  <2> PICK n \in Nat \ {0} : n \in LineTurns(g, s, StepOf(i)) /\ \E k \in 1 .. n : x = s + k * Distance(i)
    BY <1>3 DEF InRun
  <2> PICK k \in 1 .. n : x = s + k * Distance(i)
    OBVIOUS
  <2> DEFINE axis == AxisOf[i]
             j == m(axis) + WayOf[i] * k
  <2>1. RowRun(P(axis), O(axis), m(axis), WayOf[i], n)
    BY RunIsRowRun
  <2>2. j \in O(axis)
    BY <2>1 DEF RowRun
  <2>3. InRowRun(P(axis), O(axis), m(axis), WayOf[i], j)
    BY <2>1 DEF InRowRun
  <2>4. WayOf[i] \in {-1, 1} /\ axis \in Axes
    BY AxesAndWays
  <2>5. j \in TurnedInRow(axis, g, s)
    BY <2>2, <2>3, <2>4 DEF TurnedInRow, RowTurned
  <2>6. x = LineSquare(axis, s, j)
    BY <1>2, <2>1
  <2> QED
    BY <2>4, <2>5, <2>6
<1>4. ASSUME NEW axis \in Axes, NEW j \in TurnedInRow(axis, g, s), x = LineSquare(axis, s, j)
      PROVE  \E i \in 1 .. 8 : InRun(g, s, i, x)
  <2> PICK w \in {-1, 1} : InRowRun(P(axis), O(axis), m(axis), w, j)
    BY DEF TurnedInRow, RowTurned
  <2> PICK n \in Nat \ {0} : RowRun(P(axis), O(axis), m(axis), w, n) /\ \E k \in 1 .. n : j = m(axis) + w * k
    BY DEF InRowRun
  <2> PICK k \in 1 .. n : j = m(axis) + w * k
    OBVIOUS
  <2> PICK i \in 1 .. 8 : AxisOf[i] = axis /\ WayOf[i] = w
    BY AxesAndWays
  <2>1. RowRun(P(AxisOf[i]), O(AxisOf[i]), m(AxisOf[i]), WayOf[i], n)
    OBVIOUS
  <2>2. n \in LineTurns(g, s, StepOf(i))
    BY <2>1, RunIsRowRun
  <2>3. x = s + k * Distance(i)
    BY <1>2, <1>4, <2>1
  <2> QED
    BY <2>2, <2>3 DEF InRun
<1> QED
  BY <1>1, <1>3, <1>4

(* The square of a move is on each of its lines.                           *)
LEMMA LineThroughItself ==
  ASSUME NEW axis \in Axes, NEW s \in Squares
  PROVE  LineOrdinal(axis, s) \in Ordinals /\ LineSquare(axis, s, LineOrdinal(axis, s)) = s
<1> PICK m \in Int : m = LineOrdinal(axis, s) /\ m \in Ordinals
  <2>1. 0 \in Int /\ Ordinals \subseteq Int
    BY DEF Ordinals
  <2> QED
    BY <2>1, LinePlaces
<1> PICK c, r \in Int : c = Column(s) /\ r = Row(s)
  BY SquareCoordinates
<1>1. LineColumn(axis, s, m) = c /\ LineRow(axis, s, m) = r
  <2>1. r + c - c = r /\ r - c + c = r
    OBVIOUS
  <2> QED
    BY <2>1, LinePlaces
<1>2. s = Size * r + c
  BY SquareCoordinates
<1> QED
  BY <1>1, <1>2 DEF LineSquare

(* What a move makes of a row.                                             *)
LEMMA RowOfMove ==
  ASSUME NEW g, Playable(g), NEW s \in Empties(g), NEW axis \in Axes
  PROVE  /\ RowOf(axis, PlayerSet(g), s) \subseteq Ordinals /\ RowOf(axis, OpponentSet(g), s) \subseteq Ordinals
         /\ RowOf(axis, PlayerSet(g), s) \cap RowOf(axis, OpponentSet(g), s) = {}
         /\ LineOrdinal(axis, s) \notin RowOf(axis, PlayerSet(g), s) \cup RowOf(axis, OpponentSet(g), s)
         /\ TurnedInRow(axis, g, s) \subseteq RowOf(axis, OpponentSet(g), s)
         /\ RowAfterMove(axis, PlayerSet(g), OpponentSet(g), Column(s), Row(s))
              = IF TurnedInRow(axis, g, s) = {} THEN RowOf(axis, PlayerSet(g), s)
                ELSE RowOf(axis, PlayerSet(g), s) \cup {LineOrdinal(axis, s)} \cup TurnedInRow(axis, g, s)
<1> DEFINE P == RowOf(axis, PlayerSet(g), s)
           O == RowOf(axis, OpponentSet(g), s)
           m == LineOrdinal(axis, s)
<1>1. /\ PlayerSet(g) \subseteq Squares /\ OpponentSet(g) \subseteq Squares /\ s \in Squares
      /\ PlayerSet(g) \cap OpponentSet(g) = {} /\ s \notin PlayerSet(g) /\ s \notin OpponentSet(g)
  BY PlayableParts
<1>2. /\ P \subseteq Ordinals /\ \A j \in Ordinals : j \in P <=> LineSquare(axis, s, j) \in PlayerSet(g)
      /\ O \subseteq Ordinals /\ \A j \in Ordinals : j \in O <=> LineSquare(axis, s, j) \in OpponentSet(g)
  BY <1>1, BitrowSquares DEF RowOf
<1>3. m \in Ordinals /\ LineSquare(axis, s, m) = s
  BY <1>1, LineThroughItself
<1>4. TurnedInRow(axis, g, s) = RowTurned(P, O, m) /\ RowTurned(P, O, m) \subseteq O
  BY DEF TurnedInRow, RowTurned
<1>5. RowAfterMove(axis, PlayerSet(g), OpponentSet(g), Column(s), Row(s)) = board_bitrow_changes_for_player(P, O, m)
  BY DEF RowAfterMove, RowOf, LineOrdinal
<1> HIDE DEF P, O, m
<1>6. P \cap O = {} /\ m \notin P \cup O
  BY <1>1, <1>2, <1>3
<1>7. board_bitrow_changes_for_player(P, O, m)
        = IF RowTurned(P, O, m) = {} THEN P ELSE P \cup {m} \cup RowTurned(P, O, m)
  BY <1>2, <1>3, <1>6, RowChanges
<1> QED
  BY <1>2, <1>4, <1>5, <1>6, <1>7 DEF P, O, m

(* board_is_move_legal: a row that changes is a run that is turned.        *)
LEMMA LinesKnowMoves ==
  ASSUME NEW g, Playable(g), NEW s \in Squares
  PROVE  board_is_move_legal(g, s) <=> s \in LegalMoves(g)
<1>1. ASSUME s \in Empties(g), NEW axis \in Axes
      PROVE  RowAfterMove(axis, PlayerSet(g), OpponentSet(g), Column(s), Row(s))
               # Bitrow(axis, PlayerSet(g), Column(s), Row(s)) <=> TurnedInRow(axis, g, s) # {}
  <2> DEFINE P == RowOf(axis, PlayerSet(g), s)
  <2>1. LineOrdinal(axis, s) \notin P
    BY <1>1, RowOfMove
  <2>2. P = Bitrow(axis, PlayerSet(g), Column(s), Row(s))
    BY DEF RowOf
  <2>3. RowAfterMove(axis, PlayerSet(g), OpponentSet(g), Column(s), Row(s))
          = IF TurnedInRow(axis, g, s) = {} THEN P ELSE P \cup {LineOrdinal(axis, s)} \cup TurnedInRow(axis, g, s)
    BY <1>1, RowOfMove
  <2> HIDE DEF P
  <2> QED
    BY <2>1, <2>2, <2>3
<1>2. (\E axis \in Axes : TurnedInRow(axis, g, s) # {}) <=> Turned(g, s) # {}
  <2>1. ASSUME NEW axis \in Axes, TurnedInRow(axis, g, s) # {} PROVE Turned(g, s) # {}
    <3> PICK j : j \in TurnedInRow(axis, g, s)
      BY <2>1
    <3>1. LineSquare(axis, s, j) \in Turned(g, s)
      BY TurnedByRows
    <3> QED
      BY <3>1
  <2>2. ASSUME NEW x \in Turned(g, s) PROVE \E axis \in Axes : TurnedInRow(axis, g, s) # {}
    BY TurnedByRows
  <2> QED
    BY <2>1, <2>2
<1> QED
  BY <1>1, <1>2 DEF board_is_move_legal, LegalMoves

(* game_position_x_make_move0: what is put back on the four lines is the   *)
(* position after the move.                                                *)
LEMMA LinesMakeMoves ==
  ASSUME NEW g, Playable(g), NEW s \in LegalMoves(g)
  PROVE  game_position_x_make_move0(g, s) = After(g, s)
<1> DEFINE p == PlayerSet(g)
           o == OpponentSet(g)
           P(axis) == RowOf(axis, p, s)
           O(axis) == RowOf(axis, o, s)
           m(axis) == LineOrdinal(axis, s)
           T(axis) == TurnedInRow(axis, g, s)
           after(axis) == RowAfterMove(axis, p, o, Column(s), Row(s))
           back(axis, B) == BackOnLine(axis, B, Column(s), Row(s))
           p_new == (p \ LinesThrough[s]) \cup UNION {back(axis, after(axis)) : axis \in Axes}
           o_new == (o \ LinesThrough[s]) \cup UNION {back(axis, O(axis) \ after(axis)) : axis \in Axes}
           line(axis, j) == LineSquare(axis, s, j)
<1>1. game_position_x_make_move0(g, s) = AfterMove(g.player, p_new, o_new)
  BY DEF game_position_x_make_move0, RowOf
<1>2. s \in Empties(g) /\ Turned(g, s) # {}
  BY DEF LegalMoves
<1>3. /\ p \subseteq Squares /\ o \subseteq Squares /\ s \in Squares
      /\ p \cap o = {} /\ s \notin p /\ s \notin o
  BY <1>2, PlayableParts
<1>4. \A axis \in Axes : /\ P(axis) \subseteq Ordinals /\ O(axis) \subseteq Ordinals /\ P(axis) \cap O(axis) = {}
                         /\ m(axis) \in Ordinals /\ m(axis) \notin P(axis) \cup O(axis) /\ line(axis, m(axis)) = s
                         /\ T(axis) \subseteq O(axis)
                         /\ after(axis) = IF T(axis) = {} THEN P(axis) ELSE P(axis) \cup {m(axis)} \cup T(axis)
  BY <1>2, <1>3, RowOfMove, LineThroughItself
<1>5. \A axis \in Axes, j \in Ordinals : (j \in P(axis) <=> line(axis, j) \in p) /\ (j \in O(axis) <=> line(axis, j) \in o)
  BY <1>3, BitrowSquares DEF RowOf
<1>6. \A x : x \in Turned(g, s) <=> \E axis \in Axes : \E j \in T(axis) : x = line(axis, j)
  BY <1>3, TurnedByRows
<1>7. \A axis \in Axes, B \in SUBSET Ordinals : \A x : x \in back(axis, B) <=> x \in Squares /\ \E j \in B : x = line(axis, j)
  BY <1>3, RowPutBack
<1>8. \A x \in Squares : x # s =>
        /\ x \in LinesThrough[s] <=> \E axis \in Axes, j \in Ordinals : x = line(axis, j)
        /\ \A a, b \in Axes, j, k \in Ordinals : x = line(a, j) /\ x = line(b, k) => a = b /\ j = k
  BY <1>3, LinesOfSquare
<1>9. \A x : x \in p_new <=> (x \in p /\ x \notin LinesThrough[s]) \/ \E axis \in Axes : x \in back(axis, after(axis))
  OBVIOUS
<1>10. \A x : x \in o_new <=> (x \in o /\ x \notin LinesThrough[s]) \/ \E axis \in Axes : x \in back(axis, O(axis) \ after(axis))
  OBVIOUS
<1> HIDE DEF p, o, P, O, m, T, after, back, p_new, o_new, line
<1>11. \A axis \in Axes : after(axis) \in SUBSET Ordinals /\ O(axis) \ after(axis) \in SUBSET Ordinals
  BY <1>4
<1>12. \A x : x \in Turned(g, s) => x \in o
  BY <1>4, <1>5, <1>6
<1>13. ASSUME NEW x \in p_new PROVE x \in p \cup Turned(g, s) \cup {s}
  <2> SUFFICES ASSUME NEW axis \in Axes, x \in back(axis, after(axis)) PROVE x \in p \cup Turned(g, s) \cup {s}
    BY <1>9
  <2> PICK j \in after(axis) : x = line(axis, j)
    BY <1>7, <1>11
  <2>1. j \in P(axis) \/ j = m(axis) \/ j \in T(axis)
    BY <1>4
  <2> QED
    BY <1>4, <1>5, <1>6, <2>1
<1>14. ASSUME NEW x \in p \cup Turned(g, s) \cup {s} PROVE x \in p_new
  <2>1. x \in Squares
    BY <1>3, <1>12
  <2>2. CASE x \in p
    <3> SUFFICES ASSUME x \in LinesThrough[s] PROVE x \in p_new
      BY <1>9, <2>2
    <3> PICK axis \in Axes, j \in Ordinals : x = line(axis, j)
      BY <1>3, <1>8, <2>1, <2>2
    <3>1. j \in P(axis) /\ P(axis) \subseteq after(axis)
      BY <1>4, <1>5, <2>2
    <3> QED
      BY <1>7, <1>9, <1>11, <2>1, <3>1
  <2>3. CASE x \in Turned(g, s)
    <3> PICK axis \in Axes : \E j \in T(axis) : x = line(axis, j)
      BY <1>6, <2>3
    <3> PICK j \in T(axis) : x = line(axis, j)
      OBVIOUS
    <3>1. j \in after(axis)
      BY <1>4
    <3> QED
      BY <1>7, <1>9, <1>11, <2>1, <3>1
  <2>4. CASE x = s
    <3> PICK axis \in Axes : T(axis) # {}
      BY <1>2, <1>6
    <3>1. m(axis) \in after(axis) /\ x = line(axis, m(axis))
      BY <1>4, <2>4
    <3> QED
      BY <1>7, <1>9, <1>11, <2>1, <3>1
  <2> QED
    BY <2>2, <2>3, <2>4
<1>15. ASSUME NEW x \in o_new PROVE x \in o /\ x \notin Turned(g, s)
  <2>1. CASE x \in o /\ x \notin LinesThrough[s]
    <3>1. ASSUME x \in Turned(g, s) PROVE FALSE
      <4> PICK axis \in Axes : \E j \in T(axis) : x = line(axis, j)
        BY <1>6, <3>1
      <4> PICK j \in T(axis) : x = line(axis, j)
        OBVIOUS
      <4>1. j \in Ordinals /\ x # s /\ x \in Squares
        BY <1>3, <1>4, <2>1
      <4> QED
        BY <1>8, <2>1, <4>1
    <3> QED
      BY <2>1, <3>1
  <2>2. ASSUME NEW axis \in Axes, x \in back(axis, O(axis) \ after(axis)) PROVE x \in o /\ x \notin Turned(g, s)
    <3> PICK j \in O(axis) \ after(axis) : x = line(axis, j)
      BY <1>7, <1>11, <2>2
    <3>1. j \in Ordinals /\ x \in o /\ x # s /\ x \in Squares
      BY <1>3, <1>4, <1>5
    <3>2. ASSUME x \in Turned(g, s) PROVE FALSE
      <4> PICK b \in Axes : \E k \in T(b) : x = line(b, k)
        BY <1>6, <3>2
      <4> PICK k \in T(b) : x = line(b, k)
        OBVIOUS
      <4>1. k \in Ordinals
        BY <1>4
      <4>5. \A c, d \in Axes, e, f \in Ordinals : x = line(c, e) /\ x = line(d, f) => c = d /\ e = f
        BY <1>8, <3>1
      <4>2. b = axis /\ k = j
        BY <3>1, <4>1, <4>5
      <4>3. j \in T(axis)
        BY <4>2
      <4>4. j \in after(axis)
        BY <1>4, <4>3
      <4> QED
        BY <4>4
    <3> QED
      BY <3>1, <3>2
  <2> QED
    BY <1>10, <2>1, <2>2
<1>16. ASSUME NEW x \in o, x \notin Turned(g, s) PROVE x \in o_new
  <2>1. x \in Squares /\ x # s
    BY <1>3
  <2> SUFFICES ASSUME x \in LinesThrough[s] PROVE x \in o_new
    BY <1>10
  <2> PICK axis \in Axes, j \in Ordinals : x = line(axis, j)
    BY <1>8, <2>1
  <2>2. j \in O(axis) /\ j \notin P(axis)
    BY <1>4, <1>5
  <2>3. j # m(axis) /\ j \notin T(axis)
    BY <1>4, <1>6, <1>16, <2>1
  <2>4. j \in O(axis) \ after(axis)
    BY <1>4, <2>2, <2>3
  <2> QED
    BY <1>7, <1>10, <1>11, <2>1, <2>4
<1>17. p_new = p \cup Turned(g, s) \cup {s}
  BY <1>13, <1>14
<1>18. o_new = o \ Turned(g, s)
  BY <1>15, <1>16
<1> QED
  BY <1>1, <1>17, <1>18 DEF After, p, o

(* The lines through a square, moved to a row and looked up in the table,  *)
(* know the legal moves and make them, on boards of any size: no line has  *)
(* a bit of another one, and what is put back is every disc once.          *)
THEOREM LinesFollowRules ==
  ASSUME NEW g, Playable(g)
  PROVE  /\ \A s \in Squares : board_is_move_legal(g, s) <=> s \in LegalMoves(g)
         /\ \A s \in LegalMoves(g) : game_position_x_make_move0(g, s) = After(g, s)
BY LinesKnowMoves, LinesMakeMoves

-----------------------------------------------------------------------------
(***************************************************************************)
(* Plays on the bitboards, and the hash that is carried along with them.   *)
(***************************************************************************)

(* A disc of the colour p is on square s. *)
HasDisc(g, s, p) == (p = 0 /\ s \in g.blacks) \/ (p = 1 /\ s \in g.whites)

(* The words in a hash are those of the discs. *)
LEMMA WordsOfHash ==
  ASSUME NEW g
  PROVE  /\ \A w : w \in game_position_x_hash(g).words <=> \E s, p : w = <<s, p>> /\ HasDisc(g, s, p)
         /\ game_position_x_hash(g) = [words |-> game_position_x_hash(g).words,
                                            inverted |-> g.player = 1]
<1>1. game_position_x_hash(g).words = {<<s, 0>> : s \in g.blacks} \cup {<<s, 1>> : s \in g.whites}
  BY DEF game_position_x_hash, Word, BLACK_PLAYER, WHITE_PLAYER
<1>2. \A w : w \in game_position_x_hash(g).words <=> \E s, p : w = <<s, p>> /\ HasDisc(g, s, p)
  BY <1>1 DEF HasDisc
<1>3. game_position_x_hash(g) = [words |-> game_position_x_hash(g).words, inverted |-> g.player = 1]
  BY DEF game_position_x_hash, WHITE_PLAYER
<1> QED
  BY <1>2, <1>3

(* The discs before and after a move: those in f change their colour.      *)
BoardMove(g, h, s, f) ==
  /\ s \notin g.blacks \cup g.whites
  /\ \/ /\ g.player = 0 /\ h.player = 1 /\ f \subseteq g.whites
        /\ h.blacks = g.blacks \cup f \cup {s} /\ h.whites = g.whites \ f
     \/ /\ g.player = 1 /\ h.player = 0 /\ f \subseteq g.blacks
        /\ h.whites = g.whites \cup f \cup {s} /\ h.blacks = g.blacks \ f

(* A move of the bitboards adds a disc and changes some of the opponent's. *)
LEMMA MoveOfBitboards ==
  ASSUME NEW g \in Positions, g.blacks \cap g.whites = {}, NEW s \in board_legal_moves4(g),
         NEW h, h = game_position_x_make_move2(g, s)
  PROVE  /\ h \in Positions /\ h.blacks \cap h.whites = {}
         /\ BoardMove(g, h, s, OpponentSet(g) \ PlayerSet(h))
<1> DEFINE p == PlayerSet(g)
           o == OpponentSet(g)
           f == kogge_stone_gpb({s}, o, p)
<1>1. g.player \in {0, 1} /\ g.blacks \subseteq Squares /\ g.whites \subseteq Squares
  BY DEF Positions, BLACK_PLAYER, WHITE_PLAYER
<1>2. /\ p = IF g.player = 0 THEN g.blacks ELSE g.whites
      /\ o = IF g.player = 0 THEN g.whites ELSE g.blacks
  BY DEF PlayerSet, OpponentSet, BLACK_PLAYER
<1>3. s \in Squares /\ s \notin g.blacks \cup g.whites
  <2>1. \A G, B, C, d : Ends(G, B, C, d) \subseteq C
    BY DEF Ends
  <2>2. s \in Empties(g)
    BY <2>1 DEF board_legal_moves4, kogge_stone_b
  <2> QED
    BY <2>2 DEF Empties
<1>4. s \in f /\ f \subseteq p \cup o \cup {s}
  <2>1. \A G, B, d : Fill(G, B, d) \subseteq G \cup B
    BY DEF Fill
  <2>2. \A d : Ends({s}, o, p, d) \subseteq p
    BY DEF Ends
  <2> HIDE DEF p, o, f
  <2>3. ASSUME NEW d, NEW c PROVE Fill(Ends({s}, o, p, d), o \cap Mask[d], c) \subseteq p \cup o
    <3>1. Fill(Ends({s}, o, p, d), o \cap Mask[d], c) \subseteq Ends({s}, o, p, d) \cup (o \cap Mask[d])
      BY <2>1
    <3>2. Ends({s}, o, p, d) \subseteq p
      BY <2>2
    <3> QED
      BY <3>1, <3>2
  <2>4. \A x : x \in f <=> x = s \/ \E j \in DOMAIN Directions :
          x \in Fill(Ends({s}, o, p, Directions[j]), o \cap Mask[Directions[j]],
                         direction_opposite(Directions[j]))
    BY DEF kogge_stone_gpb, f
  <2> QED
    BY <2>3, <2>4
<1>5. h = AfterMove(g.player, p \cup f, o \ f)
  BY DEF game_position_x_make_move2
<1> HIDE DEF p, o, f
<1>6. /\ h = IF g.player = 0 THEN [blacks |-> p \cup f, whites |-> o \ f, player |-> 1]
             ELSE [blacks |-> o \ f, whites |-> p \cup f, player |-> 0]
  BY <1>5 DEF AfterMove, Position, BLACK_PLAYER, WHITE_PLAYER
<1>7. PlayerSet(h) = o \ f
  BY <1>1, <1>6 DEF PlayerSet, BLACK_PLAYER
<1>8. o \ PlayerSet(h) = o \cap f /\ o \cap p = {}
  BY <1>1, <1>2, <1>7
<1>9. p \cup f = p \cup (o \cap f) \cup {s} /\ o \ f = o \ (o \cap f) /\ p \cup f \subseteq Squares
  BY <1>1, <1>2, <1>3, <1>4
<1>10. h \in Positions /\ h.blacks \cap h.whites = {}
  BY <1>1, <1>2, <1>6, <1>8, <1>9, <1>3, <1>4 DEF Positions, BLACK_PLAYER, WHITE_PLAYER
<1>11. BoardMove(g, h, s, o \cap f)
  BY <1>1, <1>2, <1>3, <1>6, <1>9 DEF BoardMove
<1> QED
  BY <1>8, <1>10, <1>11 DEF o

(* The hash changes by the words of the discs that change.                 *)
LEMMA HashOfMove ==
  ASSUME NEW g, NEW h, NEW s, NEW f, g.blacks \cap g.whites = {}, BoardMove(g, h, s, f)
  PROVE  game_position_x_delta_hash(game_position_x_hash(g), s, f, h.player) = game_position_x_hash(h)
<1> DEFINE old == game_position_x_hash(g).words
           new == game_position_x_hash(h).words
           one == SymDiff(old, {<<s, 1 - h.player>>})
           changed == UNION {FlipWords(t) : t \in f}
<1>1. /\ \A w : w \in old <=> \E t, q : w = <<t, q>> /\ HasDisc(g, t, q)
      /\ \A w : w \in new <=> \E t, q : w = <<t, q>> /\ HasDisc(h, t, q)
  BY WordsOfHash
<1>2. \A w : w \in changed <=> \E t, q : w = <<t, q>> /\ t \in f /\ q \in {0, 1}
  BY DEF FlipWords, Word, BLACK_PLAYER, WHITE_PLAYER
<1>3. g.player = 1 - h.player /\ h.player \in {0, 1}
  BY DEF BoardMove
<1>4. \A w : w \in one <=> (w \in old /\ w # <<s, g.player>>) \/ (w \notin old /\ w = <<s, g.player>>)
  BY <1>3 DEF SymDiff
<1>5. \A w : w \in SymDiff(one, changed) <=> (w \in one /\ w \notin changed) \/ (w \notin one /\ w \in changed)
  BY DEF SymDiff
<1> HIDE DEF old, new, one, changed
<1>6. \A w : w \in SymDiff(one, changed) => \E t, q : w = <<t, q>>
  BY <1>1, <1>2, <1>4, <1>5
<1>7. \A t, q : /\ <<t, q>> \in old <=> HasDisc(g, t, q)
                /\ <<t, q>> \in new <=> HasDisc(h, t, q)
                /\ <<t, q>> \in changed <=> t \in f /\ q \in {0, 1}
                /\ <<t, q>> = <<s, g.player>> <=> t = s /\ q = g.player
  BY <1>1, <1>2
<1>8. ASSUME NEW t, NEW q PROVE <<t, q>> \in SymDiff(one, changed) <=> <<t, q>> \in new
  <2>1. <<t, q>> \in SymDiff(one, changed) <=>
          LET both == (HasDisc(g, t, q) /\ ~(t = s /\ q = g.player)) \/ (~HasDisc(g, t, q) /\ t = s /\ q = g.player)
          IN  (both /\ ~(t \in f /\ q \in {0, 1})) \/ (~both /\ t \in f /\ q \in {0, 1})
    BY <1>4, <1>5, <1>7
  <2> QED
    BY <1>7, <2>1 DEF HasDisc, BoardMove
<1>9. SymDiff(one, changed) = new
  BY <1>1, <1>6, <1>8
<1>10. game_position_x_delta_hash(game_position_x_hash(g), s, f, h.player)
         = [words |-> SymDiff(one, changed), inverted |-> ~(g.player = 1)]
  <2> DEFINE hg == game_position_x_hash(g)
  <2>1. game_position_x_delta_hash(hg, s, f, h.player) =
          [words |-> SymDiff(SymDiff(hg.words, {<<s, 1 - h.player>>}), UNION {FlipWords(t) : t \in f}),
           inverted |-> ~hg.inverted]
    BY Zenon DEF game_position_x_delta_hash, Word
  <2>2. hg.inverted = (g.player = 1)
    BY Zenon DEF game_position_x_hash, WHITE_PLAYER
  <2> QED
    BY <2>1, <2>2, Zenon DEF old, one, changed
<1>11. game_position_x_hash(h) = [words |-> new, inverted |-> h.player = 1]
  BY WordsOfHash DEF new
<1>12. ~(g.player = 1) <=> h.player = 1
  BY DEF BoardMove
<1> QED
  BY <1>9, <1>10, <1>11, <1>12

(* What holds at every position of a play.                                 *)
PlayInv == gpx \in Positions /\ gpx.blacks \cap gpx.whites = {} /\ HashExact

LEMMA PlayInductive ==
  PlaySpec => []PlayInv
<1>1. PlayInit => PlayInv
  BY StartsAssumption DEF PlayInit, PlayInv, HashExact
<1>2. PlayInv /\ [PlayNext]_playVars => PlayInv'
  <2> SUFFICES ASSUME PlayInv, [PlayNext]_playVars PROVE PlayInv'
    OBVIOUS
  <2>1. CASE MakeMove
    <3> PICK s \in board_legal_moves4(gpx) :
          /\ gpx' = game_position_x_make_move2(gpx, s)
          /\ hash' = game_position_x_delta_hash(hash, s, OpponentSet(gpx) \ PlayerSet(gpx'), gpx'.player)
      BY <2>1 DEF MakeMove
    <3>1. /\ gpx' \in Positions /\ gpx'.blacks \cap gpx'.whites = {}
          /\ BoardMove(gpx, gpx', s, OpponentSet(gpx) \ PlayerSet(gpx'))
      BY MoveOfBitboards DEF PlayInv
    <3>2. hash' = game_position_x_hash(gpx')
      BY <3>1, HashOfMove DEF PlayInv, HashExact
    <3> QED
      BY <3>1, <3>2 DEF PlayInv, HashExact
  <2>2. CASE PassMove
    <3>1. gpx' = [gpx EXCEPT !.player = 1 - @] /\ hash' = [hash EXCEPT !.inverted = ~@]
      BY <2>2 DEF PassMove, game_position_x_pass, player_opponent
    <3>2. /\ gpx.player \in {0, 1} /\ gpx' \in Positions
          /\ gpx'.blacks = gpx.blacks /\ gpx'.whites = gpx.whites /\ gpx'.player = 1 - gpx.player
      BY <3>1 DEF PlayInv, Positions, BLACK_PLAYER, WHITE_PLAYER
    <3>3. hash' = game_position_x_hash(gpx')
      <4> DEFINE old == game_position_x_hash(gpx).words
                 new == game_position_x_hash(gpx').words
      <4>1. /\ \A w : w \in old <=> \E t, q : w = <<t, q>> /\ HasDisc(gpx, t, q)
            /\ \A w : w \in new <=> \E t, q : w = <<t, q>> /\ HasDisc(gpx', t, q)
        BY WordsOfHash
      <4>2. \A t, q : HasDisc(gpx', t, q) <=> HasDisc(gpx, t, q)
        BY <3>2 DEF HasDisc
      <4>3. hash = [words |-> old, inverted |-> gpx.player = 1]
        BY WordsOfHash DEF PlayInv, HashExact
      <4>4. game_position_x_hash(gpx') = [words |-> new, inverted |-> gpx'.player = 1]
        BY WordsOfHash
      <4> HIDE DEF old, new
      <4>5. old = new
        BY <4>1, <4>2
      <4>6. (gpx'.player = 1) = ~(gpx.player = 1)
        BY <3>2
      <4>7. hash' = [words |-> old, inverted |-> ~(gpx.player = 1)]
        BY <3>1, <4>3, Zenon
      <4> QED
        BY <4>4, <4>5, <4>6, <4>7, Zenon
    <3> QED
      BY <3>2, <3>3 DEF PlayInv, HashExact
  <2>3. CASE UNCHANGED playVars
    BY <2>3 DEF PlayInv, HashExact, playVars
  <2> QED
    BY <2>1, <2>2, <2>3 DEF PlayNext
<1> QED
  BY <1>1, <1>2, PTL DEF PlaySpec

(* The hash that game_position_x_delta_hash carries along is the hash of   *)
(* the position, however long the play and whatever its moves and passes.  *)
THEOREM HashFollowsPlay ==
  PlaySpec => []HashExact
<1>1. PlayInv => HashExact
  BY DEF PlayInv
<1> QED
  BY <1>1, PlayInductive, PTL

(* On a board of up to eight rows, all the ways of board.c to find moves   *)
(* and to make them follow the rules at every position of every play.      *)
THEOREM PlayFollowsRules ==
  ASSUME Size <= 8
  PROVE  PlaySpec => []FollowsRules
<1>1. ASSUME NEW g, Playable(g) PROVE BoardFollowsRules(g)
  BY <1>1, KoggeStoneFollowsRules, WavesFollowRules, LinesFollowRules DEF BoardFollowsRules
<1>2. PlayInv => FollowsRules
  BY <1>1 DEF PlayInv, FollowsRules, Playable
<1> QED
  BY <1>2, PlayInductive, PTL
=============================================================================
