--------------------------- MODULE GameTreeProofs ---------------------------
(***************************************************************************)
(* What the proofs of the solvers share.  The value of a game is well      *)
(* defined, whatever the game: the recursion that computes it ends,        *)
(* because every move fills a square and no two passes follow each other   *)
(* in a game that goes on.  So are its optimal plays.  Then come the plays *)
(* that a line holds, alpha-beta as both exact solvers do it, one lemma    *)
(* for each outcome of a comparison, and the sorting of moves.             *)
(***************************************************************************)
EXTENDS GameTree, PVLines, SequencesExt, FiniteSetTheorems, SequenceTheorems, WellFoundedInduction, TLAPS

-----------------------------------------------------------------------------
(* Two forms of induction, which the proofs use in place of a scheme.      *)

(* A set of natural numbers that is not empty has a least element. *)
LEMMA LeastNatural ==
  ASSUME NEW T, T \subseteq Nat, T # {}
  PROVE  \E x \in T : \A y \in T : x <= y
<1>1. PICK x \in T : \A y \in T : ~(<<y, x>> \in OpToRel(<, Nat))
  BY NatLessThanWellFounded, WFMin
<1>2. \A y \in T : ~(y < x)
  BY <1>1 DEF OpToRel
<1> QED
  BY <1>2

LEMMA NextNumber ==
  \A a, b \in Int : a < b + 1 => a = b \/ a < b
OBVIOUS

(* A function is well defined by a recursion that goes down in rank.  What *)
(* the recursion makes of an argument p and of a function f is step[p, f]. *)
Ranked(D, V, N, rank, below, step) ==
  /\ V # {} /\ N \in Nat
  /\ rank \in [D -> 0 .. N]
  /\ below \in [D -> SUBSET D]
  /\ \A p \in D : \A q \in below[p] : rank[q] < rank[p]
  /\ step \in [D \X [D -> V] -> V]
  /\ \A p \in D : \A f, h \in [D -> V] :
       (\A q \in below[p] : f[q] = h[q]) => step[<<p, f>>] = step[<<p, h>>]

LEMMA RankedRecursion ==
  ASSUME NEW D, NEW V, NEW N, NEW rank, NEW below, NEW step,
         Ranked(D, V, N, rank, below, step)
  PROVE  \E f \in [D -> V] : \A p \in D : f[p] = step[<<p, f>>]
<1>0. /\ N \in Nat
      /\ rank \in [D -> 0 .. N]
      /\ below \in [D -> SUBSET D]
      /\ \A p \in D : \A q \in below[p] : rank[q] < rank[p]
      /\ step \in [D \X [D -> V] -> V]
      /\ \A p \in D : \A f, h \in [D -> V] :
           (\A q \in below[p] : f[q] = h[q]) => step[<<p, f>>] = step[<<p, h>>]
  BY DEF Ranked
<1> PICK v0 : v0 \in V
  BY DEF Ranked
<1> USE <1>0
<1> DEFINE Defined(k) == \E f \in [D -> V] : \A p \in D : rank[p] < k => f[p] = step[<<p, f>>]
           T == {k \in 0 .. N + 1 : ~Defined(k)}
<1>1. Defined(0)
  <2>1. [p \in D |-> v0] \in [D -> V] /\ \A p \in D : ~(rank[p] < 0)
    OBVIOUS
  <2> QED
    BY <2>1
<1>2. ASSUME NEW k \in 0 .. N, Defined(k) PROVE Defined(k + 1)
  <2>1. PICK f \in [D -> V] : \A p \in D : rank[p] < k => f[p] = step[<<p, f>>]
    BY <1>2
  <2> DEFINE h == [p \in D |-> IF rank[p] = k THEN step[<<p, f>>] ELSE f[p]]
  <2>2. h \in [D -> V]
    <3>1. \A p \in D : <<p, f>> \in D \X [D -> V]
      OBVIOUS
    <3> QED
      BY <3>1
  <2>3. ASSUME NEW p \in D, rank[p] < k + 1 PROVE h[p] = step[<<p, h>>]
    <3>1. k \in Int /\ rank[p] \in Int /\ \A q \in below[p] : q \in D /\ rank[q] \in Int
      OBVIOUS
    <3>2. \A q \in below[p] : rank[q] # k
      BY <2>3, <3>1
    <3>3. \A q \in below[p] : f[q] = h[q]
      BY <3>1, <3>2
    <3>4. h[p] = IF rank[p] = k THEN step[<<p, f>>] ELSE f[p]
      OBVIOUS
    <3>5. rank[p] = k \/ rank[p] < k
      <4> HIDE DEF h
      <4> QED
        BY <2>3, <3>1, NextNumber
    <3> HIDE DEF h
    <3>6. step[<<p, f>>] = step[<<p, h>>]
      BY <2>2, <3>3
    <3> QED
      BY <2>1, <3>4, <3>5, <3>6
  <2> HIDE DEF h
  <2> QED
    BY <2>2, <2>3
<1>3. T = {}
  <2> SUFFICES ASSUME T # {} PROVE FALSE
    OBVIOUS
  <2>1. PICK k \in T : \A j \in T : k <= j
    <3>1. T \subseteq Nat
      OBVIOUS
    <3> HIDE DEF T
    <3> QED
      BY <3>1, LeastNatural
  <2>2. k # 0 /\ k - 1 \in 0 .. N /\ k - 1 \notin T /\ k - 1 \in 0 .. N + 1 /\ (k - 1) + 1 = k
    <3> HIDE DEF Defined
    <3> QED
      BY <1>1, <2>1
  <2>3. Defined(k - 1)
    BY <2>2
  <2>4. Defined((k - 1) + 1)
    <3> HIDE DEF Defined
    <3> QED
      BY <1>2, <2>2, <2>3
  <2>5. Defined(k)
    <3> HIDE DEF Defined
    <3> QED
      BY <2>2, <2>4
  <2> QED
    BY <2>1, <2>5
<1>4. Defined(N + 1)
  <2>1. N + 1 \in 0 .. N + 1
    OBVIOUS
  <2> HIDE DEF Defined
  <2> QED
    BY <1>3, <2>1
<1>5. \A p \in D : rank[p] < N + 1
  <2> TAKE p \in D
  <2>1. rank[p] \in 0 .. N
    OBVIOUS
  <2> QED
    BY <2>1
<1> QED
  BY <1>4, <1>5

(* One of finitely many numbers is the greatest. *)
LEMMA GreatestOfMany ==
  ASSUME NEW n \in Nat \ {0}, NEW f, \A i \in 1 .. n : f[i] \in Int
  PROVE  \E i \in 1 .. n : \A j \in 1 .. n : f[j] <= f[i]
<1> DEFINE Greatest(k) == \E i \in 1 .. k : \A j \in 1 .. k : f[j] <= f[i]
           T == {k \in 1 .. n : ~Greatest(k)}
<1>1. Greatest(1)
  <2>1. \A i \in 1 .. 1 : i = 1
    OBVIOUS
  <2>2. 1 \in 1 .. 1 /\ f[1] <= f[1]
    OBVIOUS
  <2> QED
    BY <2>1, <2>2
<1>2. ASSUME NEW k \in 1 .. n, k + 1 \in 1 .. n, Greatest(k) PROVE Greatest(k + 1)
  <2>1. PICK i \in 1 .. k : \A j \in 1 .. k : f[j] <= f[i]
    BY <1>2
  <2>2. \A j \in 1 .. k + 1 : j \in 1 .. k \/ j = k + 1
    OBVIOUS
  <2>3. /\ i \in 1 .. k + 1 /\ k + 1 \in 1 .. k + 1 /\ f[i] \in Int /\ f[k + 1] \in Int
        /\ \A j \in 1 .. k : f[j] \in Int
    BY <1>2
  <2>4. CASE f[k + 1] <= f[i]
    BY <2>1, <2>2, <2>3, <2>4
  <2>5. CASE f[i] <= f[k + 1]
    <3>1. \A j \in 1 .. k : f[j] <= f[k + 1]
      BY <2>1, <2>3, <2>5
    <3> QED
      BY <2>2, <2>3, <3>1
  <2> QED
    BY <2>3, <2>4, <2>5
<1>3. T = {}
  <2> SUFFICES ASSUME T # {} PROVE FALSE
    OBVIOUS
  <2>1. PICK k \in T : \A j \in T : k <= j
    <3>1. T \subseteq Nat
      OBVIOUS
    <3> HIDE DEF T
    <3> QED
      BY <3>1, LeastNatural
  <2> HIDE DEF Greatest
  <2>2. k # 1 /\ k - 1 \in 1 .. n /\ k - 1 \notin T /\ (k - 1) + 1 = k /\ k \in 1 .. n
    BY <1>1, <2>1
  <2>3. Greatest((k - 1) + 1)
    BY <1>2, <2>2
  <2> QED
    BY <2>1, <2>2, <2>3
<1>4. n \in 1 .. n
  OBVIOUS
<1> HIDE DEF Greatest
<1>5. Greatest(n)
  BY <1>3, <1>4
<1> QED
  BY <1>5 DEF Greatest

-----------------------------------------------------------------------------
(* The positions that follow one: there are finitely many, and each one    *)
(* has a lower rank.                                                       *)

Rank(g) == [p \in DOMAIN g.moves |-> 2 * g.empties[p] + (IF HasLegalMove(g, p) THEN 0 ELSE 1)]

LEMMA SuccessorsListed ==
  ASSUME NEW g, WellFormed(g), NEW p \in DOMAIN g.moves
  PROVE  /\ Successors(g, p) \subseteq DOMAIN g.moves
         /\ ~IsTerminal(g, p) => \E n \in Nat \ {0} : \E s \in [1 .. n -> DOMAIN g.moves] :
                                   Successors(g, p) = {s[i] : i \in 1 .. n}
<1>1. g.moves[p] \in Seq(DOMAIN g.moves) /\ Passed(p) \in DOMAIN g.moves
  BY DEF WellFormed
<1>2. CASE HasLegalMove(g, p)
  <2> DEFINE n == Len(g.moves[p])
             s == g.moves[p]
  <2>1. n \in Nat \ {0} /\ s \in [1 .. n -> DOMAIN g.moves]
    BY <1>1, <1>2 DEF HasLegalMove
  <2>2. Successors(g, p) = {s[i] : i \in 1 .. n}
    BY <1>2 DEF Successors, IsTerminal
  <2> HIDE DEF n, s
  <2> QED
    BY <2>1, <2>2
<1>3. CASE ~HasLegalMove(g, p) /\ HasLegalMove(g, Passed(p))
  <2> DEFINE s == [i \in 1 .. 1 |-> Passed(p)]
  <2>1. s \in [1 .. 1 -> DOMAIN g.moves] /\ {s[i] : i \in 1 .. 1} = {Passed(p)}
    BY <1>1
  <2>2. Successors(g, p) = {Passed(p)}
    BY <1>3 DEF Successors, IsTerminal
  <2>3. \E r \in [1 .. 1 -> DOMAIN g.moves] : Successors(g, p) = {r[i] : i \in 1 .. 1}
    <3> HIDE DEF s
    <3> QED
      BY <2>1, <2>2
  <2>4. Successors(g, p) \subseteq DOMAIN g.moves /\ 1 \in Nat \ {0}
    BY <1>1, <2>2
  <2> QED
    BY <2>3, <2>4
<1>4. CASE IsTerminal(g, p)
  BY <1>4 DEF Successors
<1> QED
  BY <1>2, <1>3, <1>4 DEF IsTerminal

LEMMA LessEmpties ==
  \A a, b \in Int : a < b => 2 * a < 2 * b /\ 2 * a + 1 < 2 * b
OBVIOUS

LEMMA RankDescends ==
  ASSUME NEW g, WellFormed(g), NEW p \in DOMAIN g.moves
  PROVE  /\ Rank(g)[p] \in 0 .. 2 * SquareCount + 1
         /\ \A q \in Successors(g, p) : Rank(g)[q] < Rank(g)[p]
<1>1. \A q \in DOMAIN g.moves :
        /\ g.empties[q] \in 0 .. 64
        /\ Rank(g)[q] = 2 * g.empties[q] + (IF HasLegalMove(g, q) THEN 0 ELSE 1)
  BY DEF Rank, WellFormed, SquareCount
<1>2. Rank(g)[p] \in 0 .. 2 * SquareCount + 1
  BY <1>1 DEF SquareCount
<1>3. ASSUME NEW q \in Successors(g, p) PROVE Rank(g)[q] < Rank(g)[p]
  <2>1. q \in DOMAIN g.moves
    BY SuccessorsListed
  <2>2. CASE HasLegalMove(g, p)
    <3>1. g.empties[q] < g.empties[p]
      <4>1. PICK i \in 1 .. Len(g.moves[p]) : q = g.moves[p][i]
        BY <1>3, <2>2 DEF Successors, IsTerminal
      <4>2. g.moves[p] \in Seq(DOMAIN g.moves)
        BY DEF WellFormed
      <4>3. i \in DOMAIN g.moves[p]
        BY <4>2
      <4> QED
        BY <4>1, <4>3 DEF WellFormed
    <3>2. Rank(g)[p] = 2 * g.empties[p]
      BY <1>1, <2>2
    <3>3. Rank(g)[q] = 2 * g.empties[q] \/ Rank(g)[q] = 2 * g.empties[q] + 1
      BY <1>1, <2>1
    <3>4. g.empties[p] \in Int /\ g.empties[q] \in Int
      BY <1>1, <2>1
    <3> QED
      BY <3>1, <3>2, <3>3, <3>4, LessEmpties
  <2>3. CASE ~HasLegalMove(g, p)
    <3>1. q = Passed(p) /\ HasLegalMove(g, q)
      BY <1>3, <2>3 DEF Successors, IsTerminal
    <3>2. g.empties[q] = g.empties[p]
      BY <3>1 DEF WellFormed
    <3> QED
      BY <1>1, <2>1, <2>3, <3>1, <3>2
  <2> QED
    BY <2>2, <2>3
<1> QED
  BY <1>2, <1>3

(* What one recursion step over the positions makes of the values of the   *)
(* positions that follow.                                                  *)
Best(g, p, f) == Max({-f[q] : q \in Successors(g, p)})

LEMMA GreatestSuccessor ==
  ASSUME NEW g, WellFormed(g), NEW p \in DOMAIN g.moves, ~IsTerminal(g, p),
         NEW f, \A q \in Successors(g, p) : f[q] \in Int
  PROVE  /\ Best(g, p, f) \in Int
         /\ \A q \in Successors(g, p) : -f[q] <= Best(g, p, f)
         /\ \E q \in Successors(g, p) : -f[q] = Best(g, p, f)
<1>1. PICK n \in Nat \ {0} : \E s \in [1 .. n -> DOMAIN g.moves] :
        Successors(g, p) = {s[i] : i \in 1 .. n}
  BY SuccessorsListed
<1>2. PICK s \in [1 .. n -> DOMAIN g.moves] : Successors(g, p) = {s[i] : i \in 1 .. n}
  BY <1>1
<1> DEFINE h == [i \in 1 .. n |-> -f[s[i]]]
           S == {-f[q] : q \in Successors(g, p)}
<1>3. \A i \in 1 .. n : h[i] \in Int /\ h[i] = -f[s[i]] /\ s[i] \in Successors(g, p)
  <2>1. \A i \in 1 .. n : s[i] \in Successors(g, p)
    BY <1>2
  <2>2. \A i \in 1 .. n : -f[s[i]] \in Int
    BY <2>1
  <2> QED
    BY <2>1, <2>2
<1>4. S \subseteq Int /\ \A x \in S : \E i \in 1 .. n : x = h[i]
  <2>1. S \subseteq Int
    OBVIOUS
  <2>2. ASSUME NEW x \in S PROVE \E i \in 1 .. n : x = h[i]
    <3>1. PICK q \in Successors(g, p) : x = -f[q]
      OBVIOUS
    <3>2. PICK i \in 1 .. n : q = s[i]
      BY <1>2
    <3> HIDE DEF h
    <3> QED
      BY <1>3, <3>1, <3>2
  <2> QED
    BY <2>1, <2>2
<1>5. \E i \in 1 .. n : \A j \in 1 .. n : h[j] <= h[i]
  <2> HIDE DEF h
  <2> QED
    BY <1>3, GreatestOfMany
<1>6. \E x \in S : \A y \in S : x >= y
  <2>1. PICK i \in 1 .. n : \A j \in 1 .. n : h[j] <= h[i]
    BY <1>5
  <2>2. h[i] \in S
    BY <1>3
  <2>3. ASSUME NEW y \in S PROVE h[i] >= y
    <3>1. PICK j \in 1 .. n : y = h[j]
      BY <1>4
    <3> HIDE DEF h
    <3> QED
      BY <1>3, <2>1, <3>1
  <2> HIDE DEF h, S
  <2> QED
    BY <2>2, <2>3
<1>7. Max(S) \in S /\ \A y \in S : Max(S) >= y
  <2> HIDE DEF S
  <2> QED
    BY <1>6 DEF Max
<1>8. Max(S) \in Int
  BY <1>4, <1>7
<1>9. \A q \in Successors(g, p) : -f[q] \in S /\ -f[q] \in Int
  OBVIOUS
<1>10. \E q \in Successors(g, p) : -f[q] = Max(S)
  BY <1>7
<1> HIDE DEF S, h
<1>11. \A q \in Successors(g, p) : -f[q] <= Max(S)
  BY <1>7, <1>8, <1>9
<1> QED
  BY <1>8, <1>10, <1>11 DEF S, Best

(* A function of the positions of a game may so be defined from its values *)
(* at the positions that follow.                                           *)
OverGame(g, V, step) ==
  LET D == DOMAIN g.moves
  IN  /\ V # {}
      /\ step \in [D \X [D -> V] -> V]
      /\ \A p \in D : \A f, h \in [D -> V] :
           (\A q \in Successors(g, p) : f[q] = h[q]) => step[<<p, f>>] = step[<<p, h>>]

LEMMA RecursionOverGame ==
  ASSUME NEW g, WellFormed(g), NEW V, NEW step, OverGame(g, V, step)
  PROVE  \E f \in [DOMAIN g.moves -> V] : \A p \in DOMAIN g.moves : f[p] = step[<<p, f>>]
<1> DEFINE D == DOMAIN g.moves
           N == 2 * SquareCount + 1
           rank == Rank(g)
           below == [p \in D |-> Successors(g, p)]
<1>1. N \in Nat
  BY DEF SquareCount
<1>2. rank \in [D -> 0 .. N]
  <2>1. rank = [p \in D |-> rank[p]]
    BY DEF Rank
  <2>2. \A p \in D : rank[p] \in 0 .. N
    BY RankDescends
  <2> HIDE DEF rank, N
  <2> QED
    BY <2>1, <2>2
<1>3. below \in [D -> SUBSET D]
  BY SuccessorsListed
<1>4. \A p \in D : \A q \in below[p] : rank[q] < rank[p]
  BY RankDescends
<1>5. \A p \in D : below[p] = Successors(g, p)
  OBVIOUS
<1> HIDE DEF rank, below, N
<1>6. Ranked(D, V, N, rank, below, step)
  <2>1. V # {} /\ step \in [D \X [D -> V] -> V]
    BY DEF OverGame
  <2>2. ASSUME NEW p \in D, NEW f \in [D -> V], NEW h \in [D -> V],
               \A q \in below[p] : f[q] = h[q]
        PROVE  step[<<p, f>>] = step[<<p, h>>]
    BY <1>5, <2>2 DEF OverGame
  <2> HIDE DEF D
  <2> QED
    BY <1>1, <1>2, <1>3, <1>4, <2>1, <2>2 DEF Ranked
<1> QED
  BY <1>6, RankedRecursion

-----------------------------------------------------------------------------
(* The equation by which GameValue is defined has a solution. *)
LEMMA ValueEquation ==
  ASSUME NEW g, WellFormed(g), BestScore \in Nat
  PROVE  GameValue(g) =
           [p \in DOMAIN g.moves |->
              IF IsTerminal(g, p) THEN FinalValue(g, p)
              ELSE Best(g, p, GameValue(g))]
<1> DEFINE D == DOMAIN g.moves
           Solves(v) == v = [p \in D |-> IF IsTerminal(g, p) THEN FinalValue(g, p)
                                         ELSE Best(g, p, v)]
<1>1. \E v : Solves(v)
  <2> DEFINE step == [pf \in D \X [D -> Int] |->
                        IF IsTerminal(g, pf[1]) THEN FinalValue(g, pf[1])
                        ELSE Best(g, pf[1], pf[2])]
  <2>1. ASSUME NEW p \in D, NEW f \in [D -> Int]
        PROVE  /\ step[<<p, f>>] = IF IsTerminal(g, p) THEN FinalValue(g, p)
                                   ELSE Best(g, p, f)
               /\ step[<<p, f>>] \in Int
    <3>1. <<p, f>> \in D \X [D -> Int] /\ <<p, f>>[1] = p /\ <<p, f>>[2] = f
      OBVIOUS
    <3>2. step[<<p, f>>] = IF IsTerminal(g, p) THEN FinalValue(g, p)
                           ELSE Best(g, p, f)
      BY <3>1
    <3>3. FinalValue(g, p) \in Int
      BY DEF FinalValue, WellFormed, WorstScore
    <3>4. \A q \in Successors(g, p) : f[q] \in Int
      BY SuccessorsListed
    <3>5. ~IsTerminal(g, p) => Best(g, p, f) \in Int
      BY <3>4, GreatestSuccessor
    <3> HIDE DEF step
    <3> QED
      BY <3>2, <3>3, <3>5
  <2>2. step \in [D \X [D -> Int] -> Int]
    <3>1. step = [pf \in D \X [D -> Int] |-> step[pf]]
      OBVIOUS
    <3>2. \A pf \in D \X [D -> Int] : \E p \in D : \E f \in [D -> Int] : pf = <<p, f>>
      OBVIOUS
    <3> HIDE DEF step
    <3>3. \A pf \in D \X [D -> Int] : step[pf] \in Int
      BY <2>1, <3>2
    <3> QED
      BY <3>1, <3>3
  <2>3. ASSUME NEW p \in D, NEW f \in [D -> Int], NEW h \in [D -> Int],
               \A q \in Successors(g, p) : f[q] = h[q]
        PROVE  step[<<p, f>>] = step[<<p, h>>]
    <3>1. Best(g, p, f) = Best(g, p, h)
      BY <2>3 DEF Best
    <3> HIDE DEF step
    <3> QED
      BY <2>1, <3>1
  <2>4. PICK v \in [D -> Int] : \A p \in D : v[p] = step[<<p, v>>]
    <3>1. Int # {}
      OBVIOUS
    <3> HIDE DEF step
    <3>2. OverGame(g, Int, step)
      BY <2>2, <2>3, <3>1 DEF OverGame
    <3> QED
      BY <3>2, RecursionOverGame
  <2>5. v = [p \in D |-> v[p]]
    OBVIOUS
  <2> HIDE DEF step, D
  <2>6. Solves(v)
    BY <2>1, <2>4, <2>5
  <2> QED
    BY <2>6
<1>2. GameValue(g) = CHOOSE v : Solves(v)
  BY DEF GameValue, Best
<1> HIDE DEF Solves
<1>3. Solves(GameValue(g))
  BY <1>1, <1>2
<1> QED
  BY <1>3 DEF Solves

(* No position is worth more than a game won with all the discs, or less   *)
(* than a game lost so.                                                    *)
LEMMA ValueBounds ==
  ASSUME NEW g, WellFormed(g), BestScore \in Nat, NEW p \in DOMAIN g.moves
  PROVE  GameValue(g)[p] \in WorstScore .. BestScore
<1> DEFINE D == DOMAIN g.moves
           v == GameValue(g)
           T == {r \in Nat : \E q \in D : Rank(g)[q] = r /\ v[q] \notin WorstScore .. BestScore}
<1>1. T = {}
  <2> SUFFICES ASSUME T # {} PROVE FALSE
    OBVIOUS
  <2>1. PICK r \in T : \A s \in T : r <= s
    <3>1. T \subseteq Nat
      OBVIOUS
    <3> HIDE DEF T
    <3> QED
      BY <3>1, LeastNatural
  <2>2. PICK q \in D : Rank(g)[q] = r /\ v[q] \notin WorstScore .. BestScore
    BY <2>1
  <2>3. ASSUME NEW s \in Successors(g, q) PROVE v[s] \in WorstScore .. BestScore
    <3>0. s \in D /\ Rank(g)[s] \in 0 .. 2 * SquareCount + 1 /\ Rank(g)[s] < r
      BY <2>2, RankDescends, SuccessorsListed
    <3>1. s \in D /\ Rank(g)[s] \in Nat /\ Rank(g)[s] < r /\ r \in Nat
      BY <2>1, <3>0
    <3>2. Rank(g)[s] \notin T
      <4> HIDE DEF T
      <4> QED
        BY <2>1, <3>1
    <3> QED
      BY <3>1, <3>2
  <2>4. v[q] = IF IsTerminal(g, q) THEN FinalValue(g, q)
               ELSE Best(g, q, v)
    BY ValueEquation
  <2>5. CASE IsTerminal(g, q)
    BY <2>2, <2>4, <2>5 DEF FinalValue, WellFormed
  <2>6. CASE ~IsTerminal(g, q)
    <3>1. \A s \in Successors(g, q) : v[s] \in Int
      BY <2>3 DEF WorstScore
    <3>2. PICK s \in Successors(g, q) : -v[s] = v[q]
      <4> HIDE DEF v, T
      <4> QED
        BY <2>4, <2>6, <3>1, GreatestSuccessor
    <3> QED
      BY <2>2, <2>3, <3>2 DEF WorstScore
  <2> QED
    BY <2>5, <2>6
<1>2. Rank(g)[p] \in Nat
  BY RankDescends DEF SquareCount
<1> QED
  BY <1>1, <1>2

(* The rules of the minimax value: the one of a final position, and the    *)
(* best that the moves, or the pass, of another one lead to.               *)
THEOREM MinimaxValue ==
  ASSUME NEW g, WellFormed(g), BestScore \in Nat, NEW p \in DOMAIN g.moves
  PROVE  /\ GameValue(g)[p] \in WorstScore .. BestScore
         /\ IsTerminal(g, p) => GameValue(g)[p] = FinalValue(g, p)
         /\ \A q \in Successors(g, p) : -GameValue(g)[q] <= GameValue(g)[p]
         /\ ~IsTerminal(g, p) => \E q \in Successors(g, p) : -GameValue(g)[q] = GameValue(g)[p]
<1> DEFINE v == GameValue(g)
<1>1. v[p] = IF IsTerminal(g, p) THEN FinalValue(g, p)
             ELSE Best(g, p, v)
  BY ValueEquation
<1>2. \A q \in Successors(g, p) : v[q] \in Int
  BY ValueBounds, SuccessorsListed DEF WorstScore
<1>3. v[p] \in WorstScore .. BestScore
  BY ValueBounds
<1> HIDE DEF v
<1>4. CASE IsTerminal(g, p)
  <2>1. Successors(g, p) = {}
    BY <1>4 DEF Successors
  <2> QED
    BY <1>1, <1>3, <1>4, <2>1 DEF v
<1>5. CASE ~IsTerminal(g, p)
  BY <1>1, <1>2, <1>3, <1>5, GreatestSuccessor DEF v
<1> QED
  BY <1>4, <1>5

-----------------------------------------------------------------------------
(* Plays without the passes at their ends. *)

(* A move put before such a play: a pass at the end of the game is no move. *)
Prefixed(c, t) == IF c.move # PassMove \/ t # << >> THEN <<c>> \o t ELSE << >>

LEMMA GreatestIndex ==
  ASSUME NEW k \in Nat, NEW T, T \subseteq 1 .. k
  PROVE  /\ Max({0} \cup T) \in {0} \cup T
         /\ \A i \in T : i <= Max({0} \cup T)
         /\ Max({0} \cup T) \in 0 .. k
<1> DEFINE f == [i \in 1 .. k + 1 |-> IF i \in T THEN i ELSE 0]
           S == {0} \cup T
<1>1. k + 1 \in Nat \ {0} /\ \A i \in 1 .. k + 1 : f[i] \in Int
  OBVIOUS
<1>2. PICK m \in 1 .. k + 1 : \A j \in 1 .. k + 1 : f[j] <= f[m]
  <2> HIDE DEF f
  <2> QED
    BY <1>1, GreatestOfMany
<1>3. f[m] \in S /\ \A i \in T : i \in 1 .. k + 1 /\ f[i] = i
  OBVIOUS
<1>4. k + 1 \in 1 .. k + 1 /\ f[k + 1] = 0
  OBVIOUS
<1>5. \A x \in S : f[m] >= x
  BY <1>2, <1>3, <1>4
<1> HIDE DEF f
<1>6. Max(S) \in S /\ \A x \in S : Max(S) >= x
  BY <1>3, <1>5 DEF Max
<1>7. S \subseteq 0 .. k
  OBVIOUS
<1> QED
  BY <1>6, <1>7

LEMMA WithoutPassesType ==
  ASSUME NEW s \in Seq(Cells)
  PROVE  /\ WithoutPasses(s) \in Seq(Cells)
         /\ s = << >> => WithoutPasses(s) = << >>
<1> DEFINE m == Max({0} \cup {i \in DOMAIN s : s[i].move # PassMove})
<1>1. m \in 0 .. Len(s)
  <2>1. Len(s) \in Nat /\ {i \in DOMAIN s : s[i].move # PassMove} \subseteq 1 .. Len(s)
    OBVIOUS
  <2> QED
    BY <2>1, GreatestIndex
<1> HIDE DEF m
<1>2. \A i \in 1 .. m : s[i] \in Cells
  BY <1>1
<1>3. SubSeq(s, 1, m) \in Seq(Cells)
  BY <1>1, <1>2, SubSeqProperties
<1>4. s = << >> => SubSeq(s, 1, m) = << >>
  BY <1>1, SubSeqEmpty
<1> QED
  BY <1>3, <1>4 DEF WithoutPasses, m

LEMMA WithoutPassesPrefixed ==
  ASSUME NEW s \in Seq(Cells), NEW c \in Cells
  PROVE  /\ <<c>> \o s \in Seq(Cells)
         /\ WithoutPasses(<<c>> \o s) = Prefixed(c, WithoutPasses(s))
<1> DEFINE r == <<c>> \o s
           T == {i \in DOMAIN s : s[i].move # PassMove}
           R == {i \in DOMAIN r : r[i].move # PassMove}
           m == Max({0} \cup T)
           l == Max({0} \cup R)
<1>1. /\ r \in Seq(Cells) /\ Len(r) = Len(s) + 1 /\ r[1] = c
      /\ \A i \in 1 .. Len(s) : r[i + 1] = s[i]
      /\ Len(s) \in Nat
  OBVIOUS
<1>2. /\ m \in {0} \cup T /\ (\A i \in T : i <= m) /\ m \in 0 .. Len(s)
  <2>1. T \subseteq 1 .. Len(s)
    OBVIOUS
  <2> HIDE DEF T
  <2> QED
    BY <1>1, <2>1, GreatestIndex
<1>3. /\ l \in {0} \cup R /\ (\A i \in R : i <= l) /\ l \in 0 .. Len(s) + 1
  <2>1. R \subseteq 1 .. Len(s) + 1 /\ Len(s) + 1 \in Nat
    BY <1>1
  <2> HIDE DEF R
  <2> QED
    BY <2>1, GreatestIndex
<1>4. /\ \A i \in T : i + 1 \in R
      /\ \A i \in R : i = 1 \/ i - 1 \in T
      /\ 1 \in R <=> c.move # PassMove
      /\ T \subseteq 1 .. Len(s) /\ R \subseteq 1 .. Len(s) + 1
  <2>1. DOMAIN r = 1 .. Len(s) + 1 /\ DOMAIN s = 1 .. Len(s)
    BY <1>1
  <2> HIDE DEF r
  <2>2. \A i \in T : i + 1 \in R
    BY <1>1, <2>1
  <2>3. ASSUME NEW i \in R, i # 1 PROVE i - 1 \in T
    <3>1. i - 1 \in 1 .. Len(s) /\ (i - 1) + 1 = i
      BY <1>1, <2>1, <2>3
    <3>2. r[i] = s[i - 1]
      BY <1>1, <3>1
    <3> QED
      BY <2>1, <3>1, <3>2
  <2>4. 1 \in DOMAIN r
    BY <1>1, <2>1
  <2> QED
    BY <1>1, <2>1, <2>2, <2>3, <2>4
<1>5. WithoutPasses(s) = SubSeq(s, 1, m) /\ WithoutPasses(r) = SubSeq(r, 1, l)
  BY DEF WithoutPasses
<1> HIDE DEF r, T, R, m, l
<1>6. CASE m = 0
  <2>1. T = {} /\ R \subseteq {1}
    BY <1>2, <1>4, <1>6
  <2>2. SubSeq(s, 1, m) = << >>
    BY <1>6, SubSeqEmpty
  <2>3. CASE c.move # PassMove
    <3>1. l = 1
      BY <1>3, <1>4, <2>1, <2>3
    <3>2. /\ SubSeq(r, 1, 1) \in Seq(Cells) /\ Len(SubSeq(r, 1, 1)) = 1
          /\ SubSeq(r, 1, 1)[1] = c
      <4>1. \A i \in 1 .. 1 : r[i] \in Cells
        BY <1>1
      <4>2. /\ SubSeq(r, 1, 1) \in Seq(Cells) /\ Len(SubSeq(r, 1, 1)) = 1
            /\ \A i \in 1 .. 1 : SubSeq(r, 1, 1)[i] = r[1 + i - 1]
        BY <4>1, SubSeqProperties
      <4> QED
        BY <1>1, <4>2
    <3>3. SubSeq(r, 1, 1) = <<c>>
      <4>1. <<c>> \in Seq(Cells) /\ Len(<<c>>) = 1 /\ <<c>>[1] = c
        OBVIOUS
      <4>2. \A i \in 1 .. Len(SubSeq(r, 1, 1)) : SubSeq(r, 1, 1)[i] = <<c>>[i]
        BY <3>2, <4>1
      <4> QED
        BY <3>2, <4>1, <4>2, SeqEqual
    <3>4. <<c>> \o << >> = <<c>>
      OBVIOUS
    <3> QED
      BY <1>1, <1>5, <2>2, <2>3, <3>1, <3>3, <3>4 DEF Prefixed, r
  <2>4. CASE c.move = PassMove
    <3>1. l = 0
      BY <1>3, <1>4, <2>1, <2>4
    <3>2. SubSeq(r, 1, l) = << >>
      BY <3>1, SubSeqEmpty
    <3> QED
      BY <1>1, <1>5, <2>2, <2>4, <3>2 DEF Prefixed, r
  <2> QED
    BY <2>3, <2>4
<1>7. CASE m # 0
  <2>1. m \in T /\ m \in 1 .. Len(s)
    BY <1>2, <1>7
  <2>2. l = m + 1
    <3>1. m + 1 <= l
      BY <1>3, <1>4, <2>1
    <3>2. l \in R
      BY <1>3, <2>1, <3>1
    <3>3. l # 1 /\ l \in Int
      BY <1>3, <2>1, <3>1
    <3>4. l - 1 <= m
      BY <1>2, <1>4, <3>2, <3>3
    <3> QED
      BY <2>1, <3>1, <3>3, <3>4
  <2> DEFINE u == SubSeq(s, 1, m)
  <2>3. u \in Seq(Cells) /\ Len(u) = m /\ \A i \in 1 .. m : u[i] = s[i]
    BY <1>1, <2>1
  <2>4. /\ SubSeq(r, 1, l) \in Seq(Cells) /\ Len(SubSeq(r, 1, l)) = m + 1
        /\ \A i \in 1 .. m + 1 : SubSeq(r, 1, l)[i] = r[i]
    BY <1>1, <2>1, <2>2
  <2> HIDE DEF u
  <2>5. /\ <<c>> \o u \in Seq(Cells) /\ Len(<<c>> \o u) = m + 1
        /\ (<<c>> \o u)[1] = c /\ \A i \in 1 .. m : (<<c>> \o u)[i + 1] = u[i]
    BY <2>1, <2>3
  <2>6. ASSUME NEW i \in 1 .. m + 1 PROVE SubSeq(r, 1, l)[i] = (<<c>> \o u)[i]
    <3>1. CASE i = 1
      BY <1>1, <2>4, <2>5, <2>6, <3>1
    <3>2. CASE i # 1
      <4>1. i - 1 \in 1 .. m /\ i - 1 \in 1 .. Len(s) /\ (i - 1) + 1 = i
        BY <2>1, <2>6, <3>2
      <4>2. /\ SubSeq(r, 1, l)[i] = r[i] /\ r[i] = s[i - 1]
            /\ (<<c>> \o u)[i] = u[i - 1] /\ u[i - 1] = s[i - 1]
        <5>1. r[(i - 1) + 1] = s[i - 1] /\ (<<c>> \o u)[(i - 1) + 1] = u[i - 1]
          BY <1>1, <2>5, <4>1
        <5> QED
          BY <2>3, <2>4, <2>6, <4>1, <5>1
      <4> QED
        BY <4>2
    <3> QED
      BY <3>1, <3>2
  <2>7. SubSeq(r, 1, l) = <<c>> \o u
    BY <2>4, <2>5, <2>6, SeqEqual
  <2>8. u # << >>
    BY <2>1, <2>3
  <2> QED
    BY <1>1, <1>5, <2>7, <2>8 DEF Prefixed, u, r
<1> QED
  BY <1>1, <1>6, <1>7 DEF r

-----------------------------------------------------------------------------
(* The plays of two perfect players. *)
CellTo(g, p, q) == [move |-> MoveTo(g, p, q), gpx |-> q]

BestSuccessors(g, p) == {q \in Successors(g, p) : -GameValue(g)[q] = GameValue(g)[p]}

BestPlays(g, p) == {WithoutPasses(s) : s \in OptimalPlays(g)[p]}

LEMMA CellToType ==
  ASSUME NEW g, WellFormed(g), NEW p \in DOMAIN g.moves, NEW q \in Successors(g, p)
  PROVE  CellTo(g, p, q) \in Cells
<1>1. q \in Int
  BY SuccessorsListed DEF WellFormed
<1> QED
  BY <1>1 DEF CellTo, Cells, MoveTo

PlaysFrom(g, p, plays) ==
  IF IsTerminal(g, p) THEN {<< >>}
  ELSE UNION {{<<CellTo(g, p, q)>> \o s : s \in plays[q]} : q \in BestSuccessors(g, p)}

LEMMA PlaysEquation ==
  ASSUME NEW g, WellFormed(g)
  PROVE  /\ OptimalPlays(g) = [p \in DOMAIN g.moves |-> PlaysFrom(g, p, OptimalPlays(g))]
         /\ \A p \in DOMAIN g.moves : OptimalPlays(g)[p] \subseteq Seq(Cells)
<1> DEFINE D == DOMAIN g.moves
           V == SUBSET Seq(Cells)
           Solves(f) == f = [p \in D |-> PlaysFrom(g, p, f)]
<1>0. ASSUME NEW p \in D, NEW f, \A q \in Successors(g, p) : f[q] \in V
      PROVE  PlaysFrom(g, p, f) \in V
  <2>1. ASSUME NEW q \in Successors(g, p), NEW s \in f[q]
        PROVE  <<CellTo(g, p, q)>> \o s \in Seq(Cells)
    <3>1. s \in Seq(Cells) /\ CellTo(g, p, q) \in Cells
      BY <1>0, <2>1, CellToType
    <3> QED
      BY <3>1
  <2>2. << >> \in Seq(Cells)
    OBVIOUS
  <2>3. ASSUME NEW x \in PlaysFrom(g, p, f) PROVE x \in Seq(Cells)
    <3>1. CASE IsTerminal(g, p)
      BY <2>2, <2>3, <3>1 DEF PlaysFrom
    <3>2. CASE ~IsTerminal(g, p)
      <4>1. PICK q \in BestSuccessors(g, p) : \E s \in f[q] : x = <<CellTo(g, p, q)>> \o s
        BY <2>3, <3>2 DEF PlaysFrom
      <4> QED
        BY <2>1, <4>1 DEF BestSuccessors
    <3> QED
      BY <3>1, <3>2
  <2> QED
    BY <2>3
<1>1. \E f \in [D -> V] : Solves(f)
  <2> DEFINE step == [pf \in D \X [D -> V] |-> PlaysFrom(g, pf[1], pf[2])]
  <2>1. ASSUME NEW p \in D, NEW f \in [D -> V]
        PROVE  step[<<p, f>>] = PlaysFrom(g, p, f) /\ step[<<p, f>>] \in V
    <3>1. <<p, f>> \in D \X [D -> V] /\ <<p, f>>[1] = p /\ <<p, f>>[2] = f
      OBVIOUS
    <3>2. step[<<p, f>>] = PlaysFrom(g, p, f)
      BY <3>1
    <3>3. \A q \in Successors(g, p) : f[q] \in V
      BY SuccessorsListed
    <3>4. PlaysFrom(g, p, f) \in V
      BY <1>0, <3>3
    <3> HIDE DEF step
    <3> QED
      BY <3>2, <3>4
  <2>2. step \in [D \X [D -> V] -> V]
    <3>1. step = [pf \in D \X [D -> V] |-> step[pf]]
      OBVIOUS
    <3>2. \A pf \in D \X [D -> V] : \E p \in D : \E f \in [D -> V] : pf = <<p, f>>
      OBVIOUS
    <3> HIDE DEF step
    <3>3. \A pf \in D \X [D -> V] : step[pf] \in V
      BY <2>1, <3>2
    <3> HIDE DEF V
    <3> QED
      BY <3>1, <3>3
  <2>3. ASSUME NEW p \in D, NEW f \in [D -> V], NEW h \in [D -> V],
               \A q \in Successors(g, p) : f[q] = h[q]
        PROVE  step[<<p, f>>] = step[<<p, h>>]
    <3>1. ASSUME NEW a, NEW b, \A q \in Successors(g, p) : a[q] = b[q],
                 NEW x \in PlaysFrom(g, p, a)
          PROVE  x \in PlaysFrom(g, p, b)
      <4>1. CASE IsTerminal(g, p)
        BY <3>1, <4>1 DEF PlaysFrom
      <4>2. CASE ~IsTerminal(g, p)
        <5>1. PICK q \in BestSuccessors(g, p) : \E s \in a[q] : x = <<CellTo(g, p, q)>> \o s
          BY <3>1, <4>2 DEF PlaysFrom
        <5>2. a[q] = b[q]
          BY <3>1 DEF BestSuccessors
        <5> QED
          BY <4>2, <5>1, <5>2 DEF PlaysFrom
      <4> QED
        BY <4>1, <4>2
    <3>2. PlaysFrom(g, p, f) \subseteq PlaysFrom(g, p, h)
      BY <2>3, <3>1
    <3>3. PlaysFrom(g, p, h) \subseteq PlaysFrom(g, p, f)
      BY <2>3, <3>1
    <3>4. PlaysFrom(g, p, f) = PlaysFrom(g, p, h)
      BY <3>2, <3>3
    <3> HIDE DEF step
    <3> QED
      BY <2>1, <3>4
  <2>4. PICK f \in [D -> V] : \A p \in D : f[p] = step[<<p, f>>]
    <3>1. V # {}
      OBVIOUS
    <3> HIDE DEF step, V
    <3>2. OverGame(g, V, step)
      BY <2>2, <2>3, <3>1 DEF OverGame
    <3> QED
      BY <3>2, RecursionOverGame
  <2>5. f = [p \in D |-> f[p]]
    OBVIOUS
  <2> HIDE DEF step, D, V
  <2>6. Solves(f)
    BY <2>1, <2>4, <2>5
  <2> QED
    BY <2>6
<1>2. OptimalPlays(g) = CHOOSE f : Solves(f)
  BY DEF OptimalPlays, PlaysFrom, BestSuccessors, CellTo
<1> HIDE DEF Solves, V
<1>3. Solves(OptimalPlays(g))
  BY <1>1, <1>2
<1> DEFINE o == OptimalPlays(g)
           T == {r \in Nat : \E q \in D : Rank(g)[q] = r /\ o[q] \notin V}
<1>4. \A p \in D : o[p] = PlaysFrom(g, p, o)
  <2>1. o = [p \in D |-> PlaysFrom(g, p, o)]
    BY <1>3 DEF Solves
  <2> HIDE DEF o
  <2> QED
    BY <2>1
<1> HIDE DEF o
<1>5. T = {}
  <2> SUFFICES ASSUME T # {} PROVE FALSE
    OBVIOUS
  <2>1. PICK r \in T : \A x \in T : r <= x
    <3>1. T \subseteq Nat
      OBVIOUS
    <3> HIDE DEF T
    <3> QED
      BY <3>1, LeastNatural
  <2>2. PICK q \in D : Rank(g)[q] = r /\ o[q] \notin V
    BY <2>1
  <2>3. PICK x \in Successors(g, q) : o[x] \notin V
    <3>1. SUFFICES ASSUME \A x \in Successors(g, q) : o[x] \in V PROVE FALSE
      OBVIOUS
    <3>2. PlaysFrom(g, q, o) \in V
      BY <1>0, <3>1
    <3> QED
      BY <1>4, <2>2, <3>2
  <2>4. x \in D /\ Rank(g)[x] \in Nat /\ Rank(g)[x] < r
    <3>1. x \in D
      BY SuccessorsListed
    <3>2. Rank(g)[x] \in 0 .. 2 * SquareCount + 1 /\ Rank(g)[x] < Rank(g)[q]
      BY <3>1, RankDescends
    <3> QED
      BY <2>2, <3>1, <3>2 DEF SquareCount
  <2>5. Rank(g)[x] \in T /\ r \in Nat
    BY <2>3, <2>4
  <2> QED
    BY <2>1, <2>4, <2>5
<1>6. \A p \in D : Rank(g)[p] \in Nat
  BY RankDescends DEF SquareCount
<1>7. \A p \in D : o[p] \in V
  BY <1>5, <1>6
<1> QED
  BY <1>3, <1>7 DEF Solves, o, V

(* The best plays from a position, step by step: none when the game is     *)
(* over, and otherwise a best move and a best play after it.               *)
LEMMA BestPlaysStep ==
  ASSUME NEW g, WellFormed(g), NEW p \in DOMAIN g.moves
  PROVE  /\ BestPlays(g, p) \subseteq Seq(Cells)
         /\ IsTerminal(g, p) => BestPlays(g, p) = {<< >>}
         /\ ~IsTerminal(g, p) =>
              BestPlays(g, p) = UNION {{Prefixed(CellTo(g, p, q), t) : t \in BestPlays(g, q)} :
                                       q \in BestSuccessors(g, p)}
<1> DEFINE o == OptimalPlays(g)
<1>1. /\ o[p] = PlaysFrom(g, p, o)
      /\ \A q \in DOMAIN g.moves : o[q] \subseteq Seq(Cells)
  <2>1. /\ o = [q \in DOMAIN g.moves |-> PlaysFrom(g, q, o)]
        /\ \A q \in DOMAIN g.moves : o[q] \subseteq Seq(Cells)
    BY PlaysEquation
  <2> HIDE DEF o
  <2> QED
    BY <2>1
<1>2. \A q : BestPlays(g, q) = {WithoutPasses(s) : s \in o[q]}
  BY DEF BestPlays
<1> HIDE DEF o
<1>3. BestPlays(g, p) \subseteq Seq(Cells)
  BY <1>1, <1>2, WithoutPassesType
<1>4. CASE IsTerminal(g, p)
  <2>1. o[p] = {<< >>} /\ << >> \in Seq(Cells)
    BY <1>1, <1>4 DEF PlaysFrom
  <2>2. WithoutPasses(<< >>) = << >>
    BY <2>1, WithoutPassesType
  <2> QED
    BY <1>2, <1>3, <1>4, <2>1, <2>2
<1>5. CASE ~IsTerminal(g, p)
  <2> DEFINE c(q) == CellTo(g, p, q)
             B == BestSuccessors(g, p)
             L == BestPlays(g, p)
             R == UNION {{Prefixed(c(q), t) : t \in BestPlays(g, q)} : q \in B}
  <2>1. \A q \in B : q \in Successors(g, p) /\ q \in DOMAIN g.moves /\ c(q) \in Cells
    BY SuccessorsListed, CellToType DEF BestSuccessors
  <2>2. o[p] = UNION {{<<c(q)>> \o s : s \in o[q]} : q \in B}
    BY <1>1, <1>5 DEF PlaysFrom
  <2>3. \A q \in B : \A s \in o[q] :
          WithoutPasses(<<c(q)>> \o s) = Prefixed(c(q), WithoutPasses(s))
    BY <1>1, <2>1, WithoutPassesPrefixed
  <2> HIDE DEF c, B
  <2>4. ASSUME NEW t \in L PROVE t \in R
    <3>1. PICK s \in o[p] : t = WithoutPasses(s)
      BY <1>2
    <3>2. PICK q \in B : \E u \in o[q] : s = <<c(q)>> \o u
      BY <2>2, <3>1
    <3>3. PICK u \in o[q] : s = <<c(q)>> \o u
      BY <3>2
    <3>4. t = Prefixed(c(q), WithoutPasses(u)) /\ WithoutPasses(u) \in BestPlays(g, q)
      BY <1>2, <2>3, <3>1, <3>2, <3>3
    <3> QED
      BY <3>2, <3>4
  <2>5. ASSUME NEW t \in R PROVE t \in L
    <3>1. PICK q \in B : \E x \in BestPlays(g, q) : t = Prefixed(c(q), x)
      BY <2>5
    <3>2. PICK x \in BestPlays(g, q) : t = Prefixed(c(q), x)
      BY <3>1
    <3>3. PICK u \in o[q] : x = WithoutPasses(u)
      BY <1>2, <3>1, <3>2
    <3>4. t = WithoutPasses(<<c(q)>> \o u) /\ <<c(q)>> \o u \in o[p]
      BY <2>2, <2>3, <3>1, <3>2, <3>3
    <3> QED
      BY <1>2, <3>4
  <2>6. L = R
    BY <2>4, <2>5
  <2> QED
    BY <1>3, <1>5, <2>6 DEF c, B
<1> QED
  BY <1>4, <1>5

-----------------------------------------------------------------------------
(* Lines. *)

Trimmed(line) == {WithoutPasses(s) : s \in line.plays}

(* All the plays of a line can be played from p. *)
PlayedFrom(g, line, p) == \A s \in line.plays : Follows(g, s, p)

LEMMA CreatedLine ==
  /\ LineCreated \in Lines
  /\ \A g, p : PlayedFrom(g, LineCreated, p)
<1>1. << >> \in Seq(Cells) /\ LineCreated.plays = {<< >>}
  BY DEF LineCreated
<1>2. \A g, p : Follows(g, << >>, p)
  BY DEF Follows
<1> QED
  BY <1>1, <1>2 DEF LineCreated, Lines, PlayedFrom

LEMMA LongerLine ==
  ASSUME NEW line \in Lines, NEW c \in Cells
  PROVE  LET longer == LineWithMove(line, c.move, c.gpx)
         IN  /\ longer \in Lines
             /\ WithoutPasses(longer.best) = Prefixed(c, WithoutPasses(line.best))
             /\ Trimmed(longer) = {Prefixed(c, t) : t \in Trimmed(line)}
<1> DEFINE longer == LineWithMove(line, c.move, c.gpx)
<1>1. [move |-> c.move, gpx |-> c.gpx] = c
  BY DEF Cells
<1>2. longer.best = <<c>> \o line.best /\ longer.plays = {<<c>> \o s : s \in line.plays}
      /\ longer = [best |-> <<c>> \o line.best, plays |-> {<<c>> \o s : s \in line.plays}]
  BY <1>1 DEF LineWithMove
<1>3. line.best \in Seq(Cells) /\ line.plays \subseteq Seq(Cells)
  BY DEF Lines
<1>4. /\ <<c>> \o line.best \in Seq(Cells)
      /\ \A s \in line.plays : <<c>> \o s \in Seq(Cells)
      /\ \A s \in line.plays : WithoutPasses(<<c>> \o s) = Prefixed(c, WithoutPasses(s))
      /\ WithoutPasses(<<c>> \o line.best) = Prefixed(c, WithoutPasses(line.best))
  BY <1>3, WithoutPassesPrefixed
<1> HIDE DEF longer
<1>5. longer \in Lines
  BY <1>2, <1>4 DEF Lines
<1>6. Trimmed(longer) = {Prefixed(c, t) : t \in Trimmed(line)}
  <2>1. ASSUME NEW x \in Trimmed(longer) PROVE \E t \in Trimmed(line) : x = Prefixed(c, t)
    <3>1. PICK s \in line.plays : x = WithoutPasses(<<c>> \o s)
      BY <1>2, <2>1 DEF Trimmed
    <3> QED
      BY <1>4, <3>1 DEF Trimmed
  <2>2. ASSUME NEW t \in Trimmed(line) PROVE Prefixed(c, t) \in Trimmed(longer)
    <3>1. PICK s \in line.plays : t = WithoutPasses(s)
      BY <2>2 DEF Trimmed
    <3>2. <<c>> \o s \in longer.plays /\ Prefixed(c, t) = WithoutPasses(<<c>> \o s)
      BY <1>2, <1>4, <3>1
    <3> QED
      BY <3>2 DEF Trimmed
  <2> QED
    BY <2>1, <2>2
<1> QED
  BY <1>2, <1>4, <1>5, <1>6 DEF longer

(* A move, or a pass, and play from there. *)
LEMMA FollowsStep ==
  ASSUME NEW g, WellFormed(g), NEW p \in DOMAIN g.moves,
         NEW q \in (IF HasLegalMove(g, p) THEN Successors(g, p) ELSE {Passed(p)}),
         NEW line \in Lines, PlayedFrom(g, line, q)
  PROVE  PlayedFrom(g, LineWithMove(line, MoveTo(g, p, q), q), p)
<1> DEFINE c == CellTo(g, p, q)
<1> SUFFICES ASSUME NEW s \in line.plays PROVE Follows(g, <<c>> \o s, p)
  BY DEF PlayedFrom, LineWithMove, CellTo
<1> DEFINE r == <<c>> \o s
<1>1. s \in Seq(Cells) /\ Follows(g, s, q) /\ q \in Int
  <2>1. q \in Int
    BY SuccessorsListed DEF WellFormed
  <2> QED
    BY <2>1 DEF PlayedFrom, Lines
<1>2. c \in Cells /\ c.move = MoveTo(g, p, q) /\ c.gpx = q
  BY <1>1 DEF CellTo, Cells, MoveTo
<1> HIDE DEF c
<1>3. /\ r \in Seq(Cells) /\ Len(r) = Len(s) + 1 /\ r[1] = c /\ Len(s) \in Nat
      /\ \A i \in 1 .. Len(s) : r[i + 1] = s[i]
      /\ DOMAIN r = 1 .. Len(s) + 1 /\ DOMAIN s = 1 .. Len(s)
  BY <1>1, <1>2
<1> HIDE DEF r
<1>4. ASSUME NEW i \in DOMAIN r
      PROVE  LET from == IF i = 1 THEN p ELSE r[i - 1].gpx
                 to == r[i].gpx
             IN  /\ from \in DOMAIN g.moves
                 /\ r[i].move = MoveTo(g, from, to)
                 /\ to \in IF HasLegalMove(g, from) THEN Successors(g, from) ELSE {Passed(from)}
  <2>1. CASE i = 1
    BY <1>2, <1>3, <2>1
  <2>2. CASE i = 2
    <3>1. 1 \in DOMAIN s /\ r[2] = s[1] /\ r[2 - 1] = c
      <4>1. 1 \in 1 .. Len(s)
        BY <1>3, <2>2
      <4>2. r[1 + 1] = s[1]
        BY <1>3, <4>1
      <4> QED
        BY <1>3, <4>1, <4>2
    <3>2. /\ q \in DOMAIN g.moves
          /\ s[1].move = MoveTo(g, q, s[1].gpx)
          /\ s[1].gpx \in IF HasLegalMove(g, q) THEN Successors(g, q) ELSE {Passed(q)}
      BY <1>1, <3>1 DEF Follows
    <3> QED
      BY <1>2, <2>2, <3>1, <3>2
  <2>3. CASE i # 1 /\ i # 2
    <3>1. /\ i - 1 \in DOMAIN s /\ i - 2 \in DOMAIN s /\ i - 1 # 1 /\ (i - 1) - 1 = i - 2
          /\ (i - 1) + 1 = i /\ (i - 2) + 1 = i - 1
      BY <1>3, <2>3
    <3>2. r[i] = s[i - 1] /\ r[i - 1] = s[i - 2]
      BY <1>3, <3>1
    <3>3. /\ s[i - 2].gpx \in DOMAIN g.moves
          /\ s[i - 1].move = MoveTo(g, s[i - 2].gpx, s[i - 1].gpx)
          /\ s[i - 1].gpx \in IF HasLegalMove(g, s[i - 2].gpx) THEN Successors(g, s[i - 2].gpx)
                              ELSE {Passed(s[i - 2].gpx)}
      BY <1>1, <3>1 DEF Follows
    <3> QED
      BY <2>3, <3>2, <3>3
  <2> QED
    BY <2>1, <2>2, <2>3
<1>5. Follows(g, r, p)
  BY <1>4 DEF Follows
<1> QED
  BY <1>5 DEF r

(* The same of the plays without the passes at their ends. *)
TrimmedFrom(g, line, p) == \A s \in line.plays : Follows(g, WithoutPasses(s), p)

LEMMA TrimmedStep ==
  ASSUME NEW g, WellFormed(g), NEW p \in DOMAIN g.moves,
         NEW q \in (IF HasLegalMove(g, p) THEN Successors(g, p) ELSE {Passed(p)}),
         NEW line \in Lines, TrimmedFrom(g, line, q)
  PROVE  TrimmedFrom(g, LineWithMove(line, MoveTo(g, p, q), q), p)
<1> DEFINE c == CellTo(g, p, q)
<1> SUFFICES ASSUME NEW s \in line.plays PROVE Follows(g, WithoutPasses(<<c>> \o s), p)
  BY DEF TrimmedFrom, LineWithMove, CellTo
<1>1. c \in Cells
  <2>1. q \in Int
    BY SuccessorsListed DEF WellFormed
  <2> QED
    BY <2>1 DEF CellTo, Cells, MoveTo
<1>2. s \in Seq(Cells) /\ Follows(g, WithoutPasses(s), q)
  BY DEF TrimmedFrom, Lines
<1> DEFINE t == WithoutPasses(s)
           alone == [best |-> t, plays |-> {t}]
<1>3. WithoutPasses(<<c>> \o s) = Prefixed(c, t)
  BY <1>1, <1>2, WithoutPassesPrefixed
<1>4. Follows(g, << >>, p)
  BY DEF Follows
<1>5. Follows(g, <<c>> \o t, p)
  <2>1. t \in Seq(Cells)
    BY <1>2, WithoutPassesType
  <2> HIDE DEF t
  <2>2. alone \in Lines /\ alone.plays = {t}
    BY <2>1 DEF Lines
  <2> HIDE DEF alone
  <2>3. PlayedFrom(g, alone, q)
    BY <1>2, <2>2 DEF PlayedFrom, t
  <2>4. PlayedFrom(g, LineWithMove(alone, MoveTo(g, p, q), q), p)
    BY <2>2, <2>3, FollowsStep
  <2>5. <<c>> \o t \in LineWithMove(alone, MoveTo(g, p, q), q).plays
    BY <2>2 DEF LineWithMove, CellTo
  <2> QED
    BY <2>4, <2>5 DEF PlayedFrom
<1> HIDE DEF t, c
<1> QED
  BY <1>3, <1>4, <1>5 DEF Prefixed

(* A pass at the end is no play, whatever its cell holds. *)
LEMMA TrimmedPass ==
  ASSUME NEW gpx \in Int
  PROVE  /\ LineWithMove(LineCreated, PassMove, gpx) \in Lines
         /\ \A g, p : TrimmedFrom(g, LineWithMove(LineCreated, PassMove, gpx), p)
         /\ \A g, p : TrimmedFrom(g, LineCreated, p)
<1> DEFINE c == [move |-> PassMove, gpx |-> gpx]
           line == LineWithMove(LineCreated, c.move, c.gpx)
<1>1. c \in Cells /\ Prefixed(c, << >>) = << >>
  BY DEF Cells, Prefixed
<1>2. Trimmed(LineCreated) = {<< >>}
  <2>1. << >> \in Seq(Cells) /\ LineCreated.plays = {<< >>}
    BY DEF LineCreated
  <2>2. WithoutPasses(<< >>) = << >>
    BY <2>1, WithoutPassesType
  <2> QED
    BY <2>1, <2>2 DEF Trimmed
<1>3. line \in Lines /\ Trimmed(line) = {Prefixed(c, t) : t \in Trimmed(LineCreated)}
  <2> HIDE DEF c
  <2> QED
    BY <1>1, CreatedLine, LongerLine
<1>4. line = LineWithMove(LineCreated, PassMove, gpx)
  OBVIOUS
<1> HIDE DEF c, line
<1>5. Trimmed(line) = {<< >>}
  BY <1>1, <1>2, <1>3
<1>6. \A g, p : Follows(g, << >>, p)
  BY DEF Follows
<1> QED
  BY <1>2, <1>3, <1>4, <1>5, <1>6 DEF Trimmed, TrimmedFrom

-----------------------------------------------------------------------------
(* Alpha-beta with the recording of lines, as es and es2 do it: a search   *)
(* of position p with a window from low to high.                           *)

(* What a move to q is worth to the player who makes it. *)
Gain(g, q) == -GameValue(g)[q]

(* The best plays from p that begin with a move of that gain into S. *)
Through(g, p, S, gain) ==
  UNION {{Prefixed(CellTo(g, p, q), t) : t \in BestPlays(g, q)} : q \in {r \in S : Gain(g, r) = gain}}

(* A search of p has returned this value with this line.  The value is     *)
(* exact inside the window and a bound outside it.  With full recording    *)
(* the ends of the window count as inside, and the line has all the best   *)
(* plays; otherwise its main play is one, and an end of the window counts  *)
(* as inside when no value lies beyond it.                                 *)
Found(g, full, p, low, high, value, line) ==
  /\ value <= low => GameValue(g)[p] <= value
  /\ value >= high => GameValue(g)[p] >= value
  /\ low < value /\ value < high => GameValue(g)[p] = value
  /\ full /\ low <= value /\ value <= high =>
       /\ GameValue(g)[p] = value
       /\ WithoutPasses(line.best) \in BestPlays(g, p) /\ Trimmed(line) = BestPlays(g, p)
  /\ ~full /\ (low < value \/ low = WorstScore) /\ (value < high \/ high = BestScore) =>
       WithoutPasses(line.best) \in BestPlays(g, p)

Window(full, low, high) == IF full THEN low <= high ELSE low < high

(* A search of p has still to search the moves to left.  Until a move is   *)
(* good enough no branch is active, and the value is the one to reach.     *)
Searching(g, full, p, low, high, value, active, left, line) ==
  LET all == Successors(g, p)
      bottom == IF full THEN low - 1 ELSE low
  IN  /\ HasLegalMove(g, p) /\ left \subseteq all
      /\ Window(full, low, high) /\ Window(full, value, high)
      /\ bottom <= value
      /\ \A q \in all \ left : Gain(g, q) <= value
      /\ ~active => value = bottom /\ \A q \in all \ left : Gain(g, q) < value
      /\ active /\ full =>
           /\ WithoutPasses(line.best) \in Through(g, p, all, value)
           /\ Trimmed(line) \subseteq Through(g, p, all, value)
           /\ Through(g, p, all \ left, value) \subseteq Trimmed(line)
      /\ active /\ ~full /\ (low < value \/ low = WorstScore) =>
           WithoutPasses(line.best) \in Through(g, p, all, value)

(* The values of a game and of its moves are numbers. *)
LEMMA GainType ==
  ASSUME NEW g, WellFormed(g), BestScore \in Nat, NEW p \in DOMAIN g.moves
  PROVE  /\ GameValue(g)[p] \in Int /\ WorstScore \in Int /\ BestScore \in Int
         /\ WorstScore <= GameValue(g)[p] /\ GameValue(g)[p] <= BestScore
         /\ \A q \in Successors(g, p) :
              /\ q \in DOMAIN g.moves /\ Gain(g, q) \in Int
              /\ WorstScore <= Gain(g, q) /\ Gain(g, q) <= BestScore
              /\ Gain(g, q) <= GameValue(g)[p]
         /\ ~IsTerminal(g, p) => \E q \in Successors(g, p) : Gain(g, q) = GameValue(g)[p]
         /\ HasLegalMove(g, p) => ~IsTerminal(g, p)
<1>1. \A q \in DOMAIN g.moves : GameValue(g)[q] \in WorstScore .. BestScore
  BY ValueBounds
<1>2. WorstScore = -BestScore /\ WorstScore \in Int
  BY DEF WorstScore
<1>3. \A q \in Successors(g, p) : q \in DOMAIN g.moves
  BY SuccessorsListed
<1>4. \A q \in Successors(g, p) :
        Gain(g, q) \in Int /\ WorstScore <= Gain(g, q) /\ Gain(g, q) <= BestScore
  BY <1>1, <1>2, <1>3 DEF Gain
<1>5. /\ \A q \in Successors(g, p) : Gain(g, q) <= GameValue(g)[p]
      /\ ~IsTerminal(g, p) => \E q \in Successors(g, p) : Gain(g, q) = GameValue(g)[p]
  BY MinimaxValue DEF Gain
<1> QED
  BY <1>1, <1>2, <1>3, <1>4, <1>5 DEF IsTerminal

LEMMA ThroughBest ==
  ASSUME NEW g, WellFormed(g), NEW p \in DOMAIN g.moves, ~IsTerminal(g, p)
  PROVE  BestPlays(g, p) = Through(g, p, Successors(g, p), GameValue(g)[p])
<1>1. BestSuccessors(g, p) = {r \in Successors(g, p) : Gain(g, r) = GameValue(g)[p]}
  BY DEF BestSuccessors, Gain
<1> QED
  BY <1>1, BestPlaysStep DEF Through

LEMMA ThroughMove ==
  ASSUME NEW g, NEW p, NEW S, NEW gain, NEW q \in S, Gain(g, q) = gain
  PROVE  \A t \in BestPlays(g, q) : Prefixed(CellTo(g, p, q), t) \in Through(g, p, S, gain)
BY DEF Through

LEMMA ThroughAttained ==
  ASSUME NEW g, NEW p, NEW S, NEW gain, NEW t \in Through(g, p, S, gain)
  PROVE  \E q \in S : Gain(g, q) = gain /\ \E u \in BestPlays(g, q) : t = Prefixed(CellTo(g, p, q), u)
BY DEF Through

(* What is found for a position tells about the move that leads to it. *)
LEMMA FoundForMove ==
  ASSUME NEW g, NEW full, NEW q, NEW low \in Int, NEW high \in Int, NEW value \in Int, NEW line,
         GameValue(g)[q] \in Int, BestScore \in Nat,
         Found(g, full, q, -high, -low, -value, line)
  PROVE  /\ value >= high => Gain(g, q) >= value
         /\ value <= low => Gain(g, q) <= value
         /\ low < value /\ value < high => Gain(g, q) = value
         /\ full /\ low <= value /\ value <= high =>
              /\ Gain(g, q) = value
              /\ WithoutPasses(line.best) \in BestPlays(g, q) /\ Trimmed(line) = BestPlays(g, q)
         /\ ~full /\ (value < high \/ high = BestScore) /\ (low < value \/ low = WorstScore) =>
              WithoutPasses(line.best) \in BestPlays(g, q)
<1> DEFINE w == GameValue(g)[q]
<1>1. /\ -value <= -high => w <= -value
      /\ -value >= -low => w >= -value
      /\ -high < -value /\ -value < -low => w = -value
  BY DEF Found
<1>2. full /\ -high <= -value /\ -value <= -low =>
        w = -value /\ WithoutPasses(line.best) \in BestPlays(g, q) /\ Trimmed(line) = BestPlays(g, q)
  BY DEF Found
<1>3. ~full /\ (-high < -value \/ -high = WorstScore) /\ (-value < -low \/ -low = BestScore) =>
        WithoutPasses(line.best) \in BestPlays(g, q)
  BY DEF Found
<1>4. /\ high = BestScore => -high = WorstScore
      /\ low = WorstScore => -low = BestScore
  BY DEF WorstScore
<1>5. w \in Int /\ Gain(g, q) = -w
  BY DEF Gain
<1> HIDE DEF w
<1>6. /\ value >= high => -w >= value
      /\ value <= low => -w <= value
      /\ low < value /\ value < high => -w = value
  BY <1>1, <1>5
<1>7. full /\ low <= value /\ value <= high =>
        -w = value /\ WithoutPasses(line.best) \in BestPlays(g, q) /\ Trimmed(line) = BestPlays(g, q)
  BY <1>2, <1>5
<1>8. ~full /\ (value < high \/ high = BestScore) /\ (low < value \/ low = WorstScore) =>
        WithoutPasses(line.best) \in BestPlays(g, q)
  <2>1. value < high => -high < -value
    OBVIOUS
  <2>2. low < value => -value < -low
    OBVIOUS
  <2> QED
    BY <1>3, <1>4, <2>1, <2>2
<1> QED
  BY <1>5, <1>6, <1>7, <1>8

(* In a search of p a move to q has been searched, of the value found. *)
Answer(g, full, p, low, high, value, active, left, line, q, found, reply) ==
  /\ WellFormed(g) /\ BestScore \in Nat \ {0} /\ full \in BOOLEAN /\ active \in BOOLEAN
  /\ p \in DOMAIN g.moves
  /\ low \in Int /\ high \in Int /\ value \in Int /\ found \in Int
  /\ line \in Lines /\ reply \in Lines
  /\ Searching(g, full, p, low, high, value, active, left, line)
  /\ q \in left
  /\ Found(g, full, q, -high, -value, -found, reply)

(* The move that has been searched. *)
LEMMA AnswerMove ==
  ASSUME NEW g, NEW full, NEW p, NEW low, NEW high, NEW value, NEW active, NEW left, NEW line,
         NEW q, NEW found, NEW reply,
         Answer(g, full, p, low, high, value, active, left, line, q, found, reply)
  PROVE  /\ q \in Successors(g, p) /\ q \in DOMAIN g.moves
         /\ GameValue(g)[q] \in Int /\ Gain(g, q) \in Int /\ GameValue(g)[p] \in Int
         /\ Gain(g, q) <= GameValue(g)[p]
         /\ WorstScore <= Gain(g, q) /\ GameValue(g)[p] <= BestScore
         /\ ~IsTerminal(g, p) /\ CellTo(g, p, q) = [move |-> q, gpx |-> q]
         /\ CellTo(g, p, q) \in Cells
<1>1. /\ WellFormed(g) /\ BestScore \in Nat /\ p \in DOMAIN g.moves /\ q \in Successors(g, p)
      /\ HasLegalMove(g, p)
  BY DEF Answer, Searching
<1>2. /\ q \in DOMAIN g.moves /\ Gain(g, q) \in Int /\ GameValue(g)[p] \in Int
      /\ Gain(g, q) <= GameValue(g)[p] /\ WorstScore <= Gain(g, q) /\ GameValue(g)[p] <= BestScore
      /\ ~IsTerminal(g, p)
  BY <1>1, GainType
<1>3. GameValue(g)[q] \in Int
  BY <1>1, <1>2, GainType
<1>4. CellTo(g, p, q) = [move |-> q, gpx |-> q] /\ CellTo(g, p, q) \in Cells
  BY <1>1, CellToType DEF CellTo, MoveTo
<1> QED
  BY <1>1, <1>2, <1>3, <1>4

(* The line of a move to q, of which the reply is the line. *)
Longer(g, p, q, reply) ==
  LET longer == LineWithMove(reply, q, q)
  IN  /\ longer \in Lines
      /\ WithoutPasses(longer.best) = Prefixed(CellTo(g, p, q), WithoutPasses(reply.best))
      /\ Trimmed(longer) = {Prefixed(CellTo(g, p, q), t) : t \in Trimmed(reply)}

LEMMA AnswerLine ==
  ASSUME NEW g, NEW full, NEW p, NEW low, NEW high, NEW value, NEW active, NEW left, NEW line,
         NEW q, NEW found, NEW reply,
         Answer(g, full, p, low, high, value, active, left, line, q, found, reply)
  PROVE  Longer(g, p, q, reply)
<1>1. reply \in Lines
  BY DEF Answer
<1>2. CellTo(g, p, q) = [move |-> q, gpx |-> q] /\ CellTo(g, p, q) \in Cells
  BY AnswerMove
<1>3. CellTo(g, p, q).move = q /\ CellTo(g, p, q).gpx = q
  BY <1>2
<1> QED
  BY <1>1, <1>2, <1>3, LongerLine DEF Longer

(* What the value found says of the value of the move. *)
Informs(g, full, low, high, q, found, reply) ==
  /\ found >= high => Gain(g, q) >= found
  /\ found <= low => Gain(g, q) <= found
  /\ low < found /\ found < high => Gain(g, q) = found
  /\ full /\ low <= found /\ found <= high =>
       /\ Gain(g, q) = found
       /\ WithoutPasses(reply.best) \in BestPlays(g, q) /\ Trimmed(reply) = BestPlays(g, q)
  /\ ~full /\ (found < high \/ high = BestScore) /\ (low < found \/ low = WorstScore) =>
       WithoutPasses(reply.best) \in BestPlays(g, q)

LEMMA AnswerValue ==
  ASSUME NEW g, NEW full, NEW p, NEW low, NEW high, NEW value, NEW active, NEW left, NEW line,
         NEW q, NEW found, NEW reply,
         Answer(g, full, p, low, high, value, active, left, line, q, found, reply)
  PROVE  Informs(g, full, value, high, q, found, reply)
<1>1. /\ value \in Int /\ high \in Int /\ found \in Int /\ BestScore \in Nat
      /\ Found(g, full, q, -high, -value, -found, reply)
  BY DEF Answer
<1>2. GameValue(g)[q] \in Int
  BY AnswerMove
<1> QED
  BY <1>1, <1>2, FoundForMove DEF Informs

Improved(value, active, found) == found > value \/ (~active /\ found = value)
Cut(full, high, found) == found > high \/ (~full /\ found = high)

(* The move is the best one so far. *)
LEMMA MoveAccepted ==
  ASSUME NEW g, NEW full, NEW p, NEW low, NEW high, NEW value, NEW active, NEW left, NEW line,
         NEW q, NEW found, NEW reply, NEW others,
         Answer(g, full, p, low, high, value, active, left, line, q, found, reply),
         left \ {q} \subseteq others, others \subseteq left,
         Improved(value, active, found), ~Cut(full, high, found)
  PROVE  Searching(g, full, p, low, high, found, TRUE, others, LineWithMove(reply, q, q))
<1> DEFINE all == Successors(g, p)
           bottom == IF full THEN low - 1 ELSE low
           longer == LineWithMove(reply, q, q)
           c == CellTo(g, p, q)
<1>1. /\ low \in Int /\ high \in Int /\ value \in Int /\ found \in Int
      /\ full \in BOOLEAN /\ active \in BOOLEAN
      /\ WellFormed(g) /\ BestScore \in Nat /\ p \in DOMAIN g.moves
      /\ HasLegalMove(g, p) /\ left \subseteq all /\ q \in left
      /\ Window(full, low, high) /\ bottom <= value /\ bottom \in Int
      /\ \A r \in all \ left : Gain(g, r) <= value
      /\ ~active => value = bottom /\ \A r \in all \ left : Gain(g, r) < value
  BY DEF Answer, Searching
<1>2. /\ found >= value /\ (found # value => found > value)
      /\ found = value => ~active
      /\ IF full THEN found <= high ELSE found < high
  BY <1>1 DEF Improved, Cut
<1>0. Informs(g, full, value, high, q, found, reply) /\ Longer(g, p, q, reply)
  BY AnswerValue, AnswerLine
<1>3. /\ full => Gain(g, q) = found
      /\ ~full /\ found > value => Gain(g, q) = found
      /\ Gain(g, q) <= found
  <2>1. /\ found <= value => Gain(g, q) <= found
        /\ value < found /\ found < high => Gain(g, q) = found
        /\ full /\ value <= found /\ found <= high => Gain(g, q) = found
        /\ Gain(g, q) \in Int
    BY <1>0, AnswerMove DEF Informs
  <2> QED
    BY <1>1, <1>2, <2>1
<1>4. \A r \in all : Gain(g, r) \in Int
  BY <1>1, GainType
<1>5. ASSUME NEW r \in all \ others
      PROVE  /\ Gain(g, r) <= found
             /\ Gain(g, r) = found => r = q
  <2>1. CASE r = q
    BY <1>3, <2>1
  <2>2. CASE r # q
    <3>1. r \in all \ left
      BY <2>2
    <3>2. Gain(g, r) <= value /\ (~active => Gain(g, r) < value)
      BY <1>1, <3>1
    <3>3. Gain(g, r) \in Int
      BY <1>4
    <3>4. Gain(g, r) < found
      BY <1>1, <1>2, <3>2, <3>3
    <3> QED
      BY <1>1, <3>3, <3>4
  <2> QED
    BY <2>1, <2>2
<1>6. ASSUME full
      PROVE  /\ WithoutPasses(longer.best) \in Through(g, p, all, found)
             /\ Trimmed(longer) \subseteq Through(g, p, all, found)
             /\ Through(g, p, all \ others, found) \subseteq Trimmed(longer)
  <2>1. /\ Gain(g, q) = found /\ q \in all
        /\ WithoutPasses(reply.best) \in BestPlays(g, q)
        /\ Trimmed(longer) = {Prefixed(c, t) : t \in BestPlays(g, q)}
    <3>1. value <= found /\ found <= high
      BY <1>1, <1>2, <1>6
    <3>2. /\ Gain(g, q) = found /\ WithoutPasses(reply.best) \in BestPlays(g, q)
          /\ Trimmed(longer) = {Prefixed(c, t) : t \in BestPlays(g, q)}
      BY <1>0, <1>6, <3>1 DEF Informs, Longer
    <3> HIDE DEF longer, c
    <3> QED
      BY <1>1, <3>2
  <2>2. \A t \in BestPlays(g, q) : Prefixed(c, t) \in Through(g, p, all, found)
    BY <2>1, ThroughMove
  <2>3. WithoutPasses(longer.best) = Prefixed(c, WithoutPasses(reply.best))
    BY <1>0 DEF Longer
  <2> HIDE DEF c, longer
  <2>4. ASSUME NEW t \in Through(g, p, all \ others, found) PROVE t \in Trimmed(longer)
    <3>1. PICK r \in all \ others : /\ Gain(g, r) = found
                                    /\ \E u \in BestPlays(g, r) : t = Prefixed(CellTo(g, p, r), u)
      BY ThroughAttained
    <3>2. r = q
      BY <1>5, <3>1
    <3> QED
      BY <2>1, <2>3, <3>1, <3>2 DEF c
  <2> QED
    BY <2>1, <2>2, <2>3, <2>4
<1>7. ASSUME ~full, low < found \/ low = WorstScore
      PROVE  WithoutPasses(longer.best) \in Through(g, p, all, found)
  <2>1. value < found \/ value = WorstScore
    <3>1. WorstScore \in Int /\ low <= value
      BY <1>1, <1>7 DEF WorstScore
    <3>2. /\ WorstScore <= Gain(g, q) /\ Gain(g, q) \in Int
          /\ found <= value => Gain(g, q) <= found
      BY <1>0, AnswerMove DEF Informs
    <3>3. found < high /\ (found = value => value = low)
      BY <1>1, <1>2, <1>7
    <3> HIDE DEF all, bottom, longer, c
    <3> QED
      BY <1>1, <1>2, <1>7, <3>1, <3>2, <3>3
  <2>2. WithoutPasses(reply.best) \in BestPlays(g, q)
    BY <1>0, <1>2, <1>7, <2>1 DEF Informs
  <2>3. Gain(g, q) = found
    <3>1. CASE found > value
      BY <1>3, <1>7, <3>1
    <3>2. CASE ~(found > value)
      <4>1. found = value /\ value = WorstScore
        BY <1>2, <2>1, <3>2
      <4>2. WorstScore <= Gain(g, q) /\ Gain(g, q) \in Int
        BY AnswerMove
      <4> QED
        BY <1>1, <1>3, <4>1, <4>2
    <3> QED
      BY <3>1, <3>2
  <2>4. q \in all /\ WithoutPasses(longer.best) = Prefixed(c, WithoutPasses(reply.best))
    BY <1>0, AnswerMove DEF Longer
  <2> HIDE DEF longer
  <2> QED
    BY <2>2, <2>3, <2>4, ThroughMove
<1>8. Window(full, found, high) /\ bottom <= found
  BY <1>1, <1>2 DEF Window
<1>9. others \subseteq all
  BY <1>1
<1> QED
  BY <1>1, <1>5, <1>6, <1>7, <1>8, <1>9 DEF Searching

(* The move is too good for the opponent to let it happen. *)
LEMMA MoveCuts ==
  ASSUME NEW g, NEW full, NEW p, NEW low, NEW high, NEW value, NEW active, NEW left, NEW line,
         NEW q, NEW found, NEW reply,
         Answer(g, full, p, low, high, value, active, left, line, q, found, reply),
         Cut(full, high, found)
  PROVE  Found(g, full, p, low, high, found, LineWithMove(reply, q, q))
<1> DEFINE w == GameValue(g)[p]
<1>1. /\ low \in Int /\ high \in Int /\ value \in Int /\ found \in Int /\ full \in BOOLEAN
      /\ Window(full, low, high) /\ Window(full, value, high)
      /\ WellFormed(g) /\ p \in DOMAIN g.moves
  BY DEF Answer, Searching
<1>2. /\ found >= high /\ (full => found > high) /\ low <= high /\ (~full => low < high /\ value < high)
  BY <1>1 DEF Cut, Window
<1>0. Informs(g, full, value, high, q, found, reply) /\ Longer(g, p, q, reply)
  BY AnswerValue, AnswerLine
<1>3. /\ w \in Int /\ Gain(g, q) \in Int /\ Gain(g, q) <= w /\ found <= Gain(g, q) /\ w <= BestScore
  BY <1>0, <1>2, AnswerMove DEF Informs
<1>4. BestScore \in Int
  BY DEF Answer
<1> HIDE DEF w
<1>5. w >= found /\ ~(found <= low) /\ ~(found < high) /\ ~(full /\ found <= high)
  BY <1>1, <1>2, <1>3
<1>6. ASSUME ~full, high = BestScore
      PROVE  WithoutPasses(LineWithMove(reply, q, q).best) \in BestPlays(g, p)
  <2>1. Gain(g, q) = w
    BY <1>1, <1>2, <1>3, <1>4, <1>6
  <2>2. value < found
    BY <1>1, <1>2, <1>6
  <2>3. WithoutPasses(reply.best) \in BestPlays(g, q)
    BY <1>0, <1>6, <2>2 DEF Informs
  <2>4. /\ q \in Successors(g, p) /\ ~IsTerminal(g, p)
        /\ WithoutPasses(LineWithMove(reply, q, q).best) =
             Prefixed(CellTo(g, p, q), WithoutPasses(reply.best))
    BY <1>0, AnswerMove DEF Longer
  <2>5. BestPlays(g, p) = Through(g, p, Successors(g, p), w)
    BY <1>1, <2>4, ThroughBest DEF w
  <2> QED
    BY <2>1, <2>3, <2>4, <2>5, ThroughMove
<1> QED
  BY <1>5, <1>6 DEF Found, w

(* With full recording, the move is as good as the best one. *)
LEMMA MoveTies ==
  ASSUME NEW g, NEW full, NEW p, NEW low, NEW high, NEW value, NEW active, NEW left, NEW line,
         NEW q, NEW found, NEW reply, NEW others,
         Answer(g, full, p, low, high, value, active, left, line, q, found, reply),
         left \ {q} \subseteq others, others \subseteq left,
         ~Improved(value, active, found), full, found = value
  PROVE  Searching(g, full, p, low, high, value, active, others,
                   LineWithVariant(line, LineWithMove(reply, q, q)))
<1> DEFINE all == Successors(g, p)
           longer == LineWithMove(reply, q, q)
           both == LineWithVariant(line, longer)
           c == CellTo(g, p, q)
<1>1. /\ high \in Int /\ value \in Int /\ active
      /\ WellFormed(g) /\ BestScore \in Nat /\ p \in DOMAIN g.moves
      /\ HasLegalMove(g, p) /\ left \subseteq all /\ q \in left
      /\ Window(full, low, high) /\ Window(full, value, high) /\ low - 1 <= value
      /\ \A r \in all \ left : Gain(g, r) <= value
      /\ WithoutPasses(line.best) \in Through(g, p, all, value)
      /\ Trimmed(line) \subseteq Through(g, p, all, value)
      /\ Through(g, p, all \ left, value) \subseteq Trimmed(line)
  BY DEF Answer, Searching, Improved
<1>2. /\ Gain(g, q) = value /\ q \in all
      /\ Trimmed(longer) = {Prefixed(c, t) : t \in BestPlays(g, q)}
  <2>1. value <= found /\ found <= high
    BY <1>1 DEF Window
  <2>2. Informs(g, full, value, high, q, found, reply) /\ Longer(g, p, q, reply)
    BY AnswerValue, AnswerLine
  <2>3. q \in all
    BY AnswerMove
  <2>4. Gain(g, q) = found /\ Trimmed(longer) = {Prefixed(c, t) : t \in BestPlays(g, q)}
    BY <2>1, <2>2 DEF Informs, Longer
  <2> HIDE DEF longer, c, all
  <2> QED
    BY <2>1, <2>3, <2>4
<1>3. both.best = line.best /\ both.plays = line.plays \cup longer.plays
  <2>1. line = [best |-> line.best, plays |-> line.plays]
    BY DEF Answer, Lines
  <2> HIDE DEF longer
  <2> QED
    BY <2>1 DEF LineWithVariant
<1>4. Trimmed(both) = Trimmed(line) \cup Trimmed(longer)
  <2> HIDE DEF both, longer
  <2> QED
    BY <1>3 DEF Trimmed
<1>5. \A t \in BestPlays(g, q) : Prefixed(c, t) \in Through(g, p, all, value)
  BY <1>2, ThroughMove
<1> HIDE DEF both, longer, c
<1>6. ASSUME NEW t \in Through(g, p, all \ others, value) PROVE t \in Trimmed(both)
  <2>1. PICK r \in all \ others : /\ Gain(g, r) = value
                                  /\ \E u \in BestPlays(g, r) : t = Prefixed(CellTo(g, p, r), u)
    BY ThroughAttained
  <2>2. CASE r = q
    BY <1>2, <1>4, <2>1, <2>2 DEF c
  <2>3. CASE r # q
    <3>1. r \in all \ left
      BY <2>3
    <3>2. t \in Through(g, p, all \ left, value)
      BY <2>1, <3>1, ThroughMove
    <3> QED
      BY <1>1, <1>4, <3>2
  <2> QED
    BY <2>2, <2>3
<1>7. \A r \in all \ others : Gain(g, r) <= value
  <2> TAKE r \in all \ others
  <2>1. r = q \/ r \in all \ left
    OBVIOUS
  <2> QED
    BY <1>1, <1>2, <2>1
<1>8. Trimmed(both) \subseteq Through(g, p, all, value)
  BY <1>1, <1>2, <1>4, <1>5
<1>9. others \subseteq all /\ WithoutPasses(both.best) \in Through(g, p, all, value)
  BY <1>1, <1>3
<1> QED
  BY <1>1, <1>6, <1>7, <1>8, <1>9 DEF Searching, both, longer

(* The move is not good enough. *)
LEMMA MoveFails ==
  ASSUME NEW g, NEW full, NEW p, NEW low, NEW high, NEW value, NEW active, NEW left, NEW line,
         NEW q, NEW found, NEW reply, NEW others,
         Answer(g, full, p, low, high, value, active, left, line, q, found, reply),
         left \ {q} \subseteq others, others \subseteq left,
         ~Improved(value, active, found), ~(full /\ found = value)
  PROVE  Searching(g, full, p, low, high, value, active, others, line)
<1> DEFINE all == Successors(g, p)
           bottom == IF full THEN low - 1 ELSE low
<1>1. /\ value \in Int /\ found \in Int /\ full \in BOOLEAN /\ active \in BOOLEAN
      /\ WellFormed(g) /\ BestScore \in Nat /\ p \in DOMAIN g.moves
      /\ HasLegalMove(g, p) /\ left \subseteq all /\ q \in left
      /\ Window(full, low, high) /\ Window(full, value, high) /\ bottom <= value
      /\ \A r \in all \ left : Gain(g, r) <= value
      /\ ~active => value = bottom /\ \A r \in all \ left : Gain(g, r) < value
      /\ active /\ full =>
           /\ WithoutPasses(line.best) \in Through(g, p, all, value)
           /\ Trimmed(line) \subseteq Through(g, p, all, value)
           /\ Through(g, p, all \ left, value) \subseteq Trimmed(line)
      /\ active /\ ~full /\ (low < value \/ low = WorstScore) =>
           WithoutPasses(line.best) \in Through(g, p, all, value)
  BY DEF Answer, Searching
<1>2. found <= value /\ (~active => found < value) /\ (full => found < value)
  BY <1>1 DEF Improved
<1>3. /\ Gain(g, q) \in Int /\ Gain(g, q) <= found
  <2>1. Informs(g, full, value, high, q, found, reply)
    BY AnswerValue
  <2> QED
    BY <1>2, <2>1, AnswerMove DEF Informs
<1>4. Gain(g, q) <= value /\ (~active => Gain(g, q) < value) /\ (full => Gain(g, q) < value)
  BY <1>1, <1>2, <1>3
<1>5. \A r \in all \ others : r = q \/ r \in all \ left
  OBVIOUS
<1>6. ASSUME active, full PROVE Through(g, p, all \ others, value) \subseteq Trimmed(line)
  <2> SUFFICES ASSUME NEW t \in Through(g, p, all \ others, value) PROVE t \in Trimmed(line)
    OBVIOUS
  <2>1. PICK r \in all \ others : /\ Gain(g, r) = value
                                  /\ \E u \in BestPlays(g, r) : t = Prefixed(CellTo(g, p, r), u)
    BY ThroughAttained
  <2>2. r # q
    BY <1>1, <1>3, <1>4, <1>6, <2>1
  <2>3. r \in all \ left
    BY <1>5, <2>2
  <2>4. t \in Through(g, p, all \ left, value)
    BY <2>1, <2>3, ThroughMove
  <2> QED
    BY <1>1, <1>6, <2>4
<1>7. /\ \A r \in all \ others : Gain(g, r) <= value
      /\ ~active => \A r \in all \ others : Gain(g, r) < value
      /\ others \subseteq all
  BY <1>1, <1>4, <1>5
<1> QED
  BY <1>1, <1>6, <1>7 DEF Searching

(* Before the first move is searched. *)
LEMMA SearchBegins ==
  ASSUME NEW g, WellFormed(g), NEW p \in DOMAIN g.moves, HasLegalMove(g, p),
         NEW full \in BOOLEAN, NEW low \in Int, NEW high \in Int, Window(full, low, high), NEW line
  PROVE  Searching(g, full, p, low, high, IF full THEN low - 1 ELSE low, FALSE,
                   Successors(g, p), line)
<1> DEFINE value == IF full THEN low - 1 ELSE low
<1>1. value \in Int /\ Window(full, value, high)
  BY DEF Window
<1>2. \A q \in Successors(g, p) \ Successors(g, p) : Gain(g, q) <= value /\ Gain(g, q) < value
  OBVIOUS
<1> HIDE DEF value
<1>3. value <= value
  BY <1>1
<1> QED
  BY <1>1, <1>2, <1>3 DEF Searching, value

(* When no move is left, the value of the search is found. *)
LEMMA SearchEnds ==
  ASSUME NEW g, WellFormed(g), BestScore \in Nat, NEW p \in DOMAIN g.moves,
         NEW full \in BOOLEAN, NEW low \in Int, NEW high \in Int, NEW value \in Int,
         NEW active \in BOOLEAN, NEW line,
         Searching(g, full, p, low, high, value, active, {}, line)
  PROVE  Found(g, full, p, low, high, value, line)
<1> DEFINE all == Successors(g, p)
           w == GameValue(g)[p]
<1>1. /\ w \in Int /\ WorstScore \in Int /\ WorstScore <= w
      /\ ~IsTerminal(g, p)
  BY GainType DEF Searching
<1>2. PICK best \in all : Gain(g, best) = w
  BY <1>1, GainType
<1>3. /\ w <= value
      /\ ~active => w < value /\ value = IF full THEN low - 1 ELSE low
      /\ Window(full, low, high) /\ Window(full, value, high)
  BY <1>2 DEF Searching
<1>4. BestPlays(g, p) = Through(g, p, all, w)
  BY <1>1, ThroughBest
<1>5. \A t : t \in Through(g, p, all, value) => w = value
  <2> SUFFICES ASSUME NEW t \in Through(g, p, all, value) PROVE w = value
    OBVIOUS
  <2>1. PICK q \in all : Gain(g, q) = value
    BY ThroughAttained
  <2>2. Gain(g, q) <= w
    BY GainType
  <2> QED
    BY <1>1, <1>3, <2>1, <2>2
<1>6. ASSUME active, full
      PROVE  /\ w = value /\ WithoutPasses(line.best) \in BestPlays(g, p)
             /\ Trimmed(line) = BestPlays(g, p)
  <2>1. /\ WithoutPasses(line.best) \in Through(g, p, all, value)
        /\ Trimmed(line) \subseteq Through(g, p, all, value)
        /\ Through(g, p, all \ {}, value) \subseteq Trimmed(line)
    BY <1>6 DEF Searching
  <2>2. all \ {} = all
    OBVIOUS
  <2> QED
    BY <1>4, <1>5, <2>1, <2>2
<1>7. ASSUME active, ~full, low < value \/ low = WorstScore
      PROVE  w = value /\ WithoutPasses(line.best) \in BestPlays(g, p)
  <2>1. WithoutPasses(line.best) \in Through(g, p, all, value)
    BY <1>7 DEF Searching
  <2> QED
    BY <1>4, <1>5, <2>1
<1> HIDE DEF w, all
<1>8. ASSUME ~active
      PROVE  /\ value <= low /\ value < high /\ (full => ~(low <= value))
             /\ ~full => ~(low < value \/ low = WorstScore)
  BY <1>1, <1>3, <1>8 DEF Window
<1>9. /\ full => value <= high
      /\ ~full => value < high
  BY <1>3 DEF Window
<1>10. value >= high => w >= value
  BY <1>1, <1>6, <1>8, <1>9
<1>11. low < value /\ value < high => w = value
  BY <1>6, <1>7, <1>8
<1> QED
  BY <1>3, <1>6, <1>7, <1>8, <1>10, <1>11 DEF Found, w

(* A pass is worth what the opponent gets from there, even when the game   *)
(* is over.                                                                *)
LEMMA PassGains ==
  ASSUME NEW g, WellFormed(g), BestScore \in Nat, NEW p \in DOMAIN g.moves, ~HasLegalMove(g, p)
  PROVE  LET q == Passed(p)
         IN  /\ q \in DOMAIN g.moves /\ GameValue(g)[q] \in Int
             /\ CellTo(g, p, q) \in Cells /\ CellTo(g, p, q).move = PassMove
             /\ CellTo(g, p, q).gpx = q
             /\ Gain(g, q) = GameValue(g)[p] /\ GameValue(g)[p] \in Int
             /\ BestPlays(g, p) = {Prefixed(CellTo(g, p, q), t) : t \in BestPlays(g, q)}
<1> DEFINE q == Passed(p)
           w == GameValue(g)[p]
           c == CellTo(g, p, q)
<1>1. q \in DOMAIN g.moves /\ q \in Int /\ p \in Int /\ Passed(q) = p
  <2>1. q \in DOMAIN g.moves /\ p \in Int
    BY DEF WellFormed
  <2>2. q = -p /\ Passed(q) = -q
    BY DEF Passed
  <2> QED
    BY <2>1, <2>2
<1>2. w \in Int /\ GameValue(g)[q] \in Int
  BY <1>1, GainType
<1>3. c \in Cells /\ c.move = PassMove /\ c.gpx = q
  BY <1>1 DEF CellTo, Cells, MoveTo
<1>4. CASE HasLegalMove(g, q)
  <2>1. Successors(g, p) = {q} /\ ~IsTerminal(g, p)
    BY <1>4 DEF Successors, IsTerminal
  <2>2. Gain(g, q) = w
    BY <2>1, GainType
  <2>3. BestPlays(g, p) = Through(g, p, {q}, w)
    BY <2>1, ThroughBest
  <2>4. {r \in {q} : Gain(g, r) = w} = {q}
    BY <2>2
  <2> HIDE DEF q, w
  <2>5. BestPlays(g, p) = {Prefixed(c, t) : t \in BestPlays(g, q)}
    BY <2>3, <2>4 DEF Through
  <2> QED
    BY <1>1, <1>2, <1>3, <2>2, <2>5 DEF q, w
<1>5. CASE ~HasLegalMove(g, q)
  <2>1. IsTerminal(g, p) /\ IsTerminal(g, q)
    BY <1>1, <1>5 DEF IsTerminal
  <2>2. w = FinalValue(g, p) /\ GameValue(g)[q] = FinalValue(g, q)
    BY <1>1, <2>1, MinimaxValue
  <2>3. FinalValue(g, q) = -FinalValue(g, p)
    BY DEF WellFormed, FinalValue
  <2> HIDE DEF w
  <2>4. Gain(g, q) = w
    <3>1. w = -(-w)
      BY <1>2
    <3> QED
      BY <2>2, <2>3, <3>1 DEF Gain
  <2>5. BestPlays(g, p) = {<< >>} /\ BestPlays(g, q) = {<< >>} /\ Prefixed(c, << >>) = << >>
    BY <1>1, <1>3, <2>1, BestPlaysStep DEF Prefixed
  <2> HIDE DEF c, q
  <2>6. BestPlays(g, p) = {Prefixed(c, t) : t \in BestPlays(g, q)}
    BY <2>5
  <2> QED
    BY <1>1, <1>2, <1>3, <2>4, <2>6 DEF w, c, q
<1> QED
  BY <1>4, <1>5

(* After a pass, the value and the line are those of the opponent. *)
LEMMA PassFound ==
  ASSUME NEW g, WellFormed(g), BestScore \in Nat, NEW p \in DOMAIN g.moves,
         ~HasLegalMove(g, p), NEW full \in BOOLEAN,
         NEW low \in Int, NEW high \in Int, NEW value \in Int, NEW reply \in Lines,
         Found(g, full, Passed(p), -high, -low, -value, reply)
  PROVE  Found(g, full, p, low, high, value, LineWithMove(reply, PassMove, Passed(p)))
<1> DEFINE q == Passed(p)
           w == GameValue(g)[p]
           longer == LineWithMove(reply, PassMove, q)
           c == CellTo(g, p, q)
<1>2. Gain(g, q) = w /\ w \in Int /\ GameValue(g)[q] \in Int
  BY PassGains
<1>4. BestPlays(g, p) = {Prefixed(c, t) : t \in BestPlays(g, q)}
  BY PassGains
<1>5. /\ value >= high => Gain(g, q) >= value
      /\ value <= low => Gain(g, q) <= value
      /\ low < value /\ value < high => Gain(g, q) = value
      /\ full /\ low <= value /\ value <= high =>
           /\ Gain(g, q) = value
           /\ WithoutPasses(reply.best) \in BestPlays(g, q) /\ Trimmed(reply) = BestPlays(g, q)
      /\ ~full /\ (value < high \/ high = BestScore) /\ (low < value \/ low = WorstScore) =>
           WithoutPasses(reply.best) \in BestPlays(g, q)
  BY <1>2, FoundForMove
<1>6. /\ WithoutPasses(longer.best) = Prefixed(c, WithoutPasses(reply.best))
      /\ Trimmed(longer) = {Prefixed(c, t) : t \in Trimmed(reply)}
  <2>1. c \in Cells /\ c.move = PassMove /\ c.gpx = q
    BY PassGains
  <2> HIDE DEF c
  <2> QED
    BY <2>1, LongerLine
<1> HIDE DEF q, w, longer, c
<1> QED
  BY <1>2, <1>4, <1>5, <1>6 DEF Found, w, longer, q

(* When the game is over there is nothing to play. *)
LEMMA LeafFound ==
  ASSUME NEW g, WellFormed(g), BestScore \in Nat, NEW p \in DOMAIN g.moves, IsTerminal(g, p),
         NEW full \in BOOLEAN, NEW low \in Int, NEW high \in Int, NEW gpx \in Int
  PROVE  /\ FinalValue(g, p) \in Int
         /\ Found(g, full, p, low, high, FinalValue(g, p), LineWithMove(LineCreated, PassMove, gpx))
<1> DEFINE w == GameValue(g)[p]
           c == [move |-> PassMove, gpx |-> gpx]
           longer == LineWithMove(LineCreated, c.move, c.gpx)
<1>1. w = FinalValue(g, p) /\ w \in Int
  BY MinimaxValue, GainType
<1>2. BestPlays(g, p) = {<< >>}
  BY BestPlaysStep
<1>3. WithoutPasses(LineCreated.best) = << >> /\ Trimmed(LineCreated) = {<< >>}
  <2>1. << >> \in Seq(Cells) /\ LineCreated.best = << >> /\ LineCreated.plays = {<< >>}
    BY DEF LineCreated
  <2>2. WithoutPasses(<< >>) = << >>
    BY <2>1, WithoutPassesType
  <2> QED
    BY <2>1, <2>2 DEF Trimmed
<1>4. c \in Cells /\ Prefixed(c, << >>) = << >>
  BY DEF Cells, Prefixed
<1>5. /\ WithoutPasses(longer.best) = Prefixed(c, WithoutPasses(LineCreated.best))
      /\ Trimmed(longer) = {Prefixed(c, t) : t \in Trimmed(LineCreated)}
  <2> HIDE DEF c
  <2> QED
    BY <1>4, CreatedLine, LongerLine
<1>6. WithoutPasses(longer.best) \in BestPlays(g, p) /\ Trimmed(longer) = BestPlays(g, p)
  <2> HIDE DEF c, longer
  <2> QED
    BY <1>2, <1>3, <1>4, <1>5
<1>7. longer = LineWithMove(LineCreated, PassMove, gpx)
  OBVIOUS
<1> HIDE DEF w, longer
<1> QED
  BY <1>1, <1>6, <1>7 DEF Found, w

(* A window that takes in all values of a game makes the value exact.      *)
RootAlpha(full) == IF full THEN OutOfRangeDefeatScore ELSE WorstScore
RootBeta(full) == IF full THEN OutOfRangeWinScore ELSE BestScore

LEMMA WidestWindow ==
  ASSUME NEW g, WellFormed(g), BestScore \in Nat \ {0}, NEW p \in DOMAIN g.moves,
         NEW full \in BOOLEAN, NEW value \in Int, NEW line,
         Found(g, full, p, RootAlpha(full), RootBeta(full), value, line)
  PROVE  /\ GameValue(g)[p] = value /\ WithoutPasses(line.best) \in BestPlays(g, p)
         /\ full => Trimmed(line) = BestPlays(g, p)
<1> DEFINE low == RootAlpha(full)
           high == RootBeta(full)
<1>1. PICK w : w = GameValue(g)[p]
  OBVIOUS
<1>2. w \in Int /\ -BestScore <= w /\ w <= BestScore
  BY <1>1, ValueBounds DEF WorstScore
<1>3. CASE full
  <2>1. low = -BestScore - 1 /\ high = BestScore + 1
    BY <1>3 DEF RootAlpha, RootBeta, OutOfRangeDefeatScore, OutOfRangeWinScore, WorstScore
  <2> HIDE DEF low, high
  <2>2. Found(g, full, p, low, high, value, line)
    BY DEF low, high
  <2>3. low < value /\ value < high
    BY <1>1, <1>2, <2>1, <2>2 DEF Found
  <2>4. low <= value /\ value <= high
    BY <2>1, <2>3
  <2> QED
    BY <1>3, <2>2, <2>3, <2>4 DEF Found
<1>4. CASE ~full
  <2>1. low = -BestScore /\ high = BestScore /\ low = WorstScore
    BY <1>4 DEF RootAlpha, RootBeta, WorstScore
  <2> HIDE DEF low, high
  <2>2. Found(g, full, p, low, high, value, line)
    BY DEF low, high
  <2>3. /\ value <= low => w <= value
        /\ value >= high => w >= value
        /\ low < value /\ value < high => w = value
    BY <1>1, <2>2 DEF Found
  <2>4. w = value
    BY <1>2, <2>1, <2>3
  <2> QED
    BY <1>1, <1>4, <2>1, <2>2, <2>4 DEF Found
<1> QED
  BY <1>3, <1>4

-----------------------------------------------------------------------------
(* Lists of moves that are sorted by insertion, from an empty list.        *)

LEMMA GreatestOf ==
  ASSUME NEW k \in Nat, NEW s, s \subseteq 1 .. k, s # {}
  PROVE  Max(s) \in s /\ \A i \in s : i <= Max(s)
<1>1. PICK m \in s : \A i \in s : i <= m
  <2>1. /\ Max({0} \cup s) \in {0} \cup s
        /\ \A i \in s : i <= Max({0} \cup s)
    BY GreatestIndex
  <2>2. PICK i \in s : i \in 1 .. k
    OBVIOUS
  <2>3. i <= Max({0} \cup s)
    BY <2>1
  <2>4. Max({0} \cup s) # 0
    BY <2>2, <2>3
  <2>5. Max({0} \cup s) \in s
    BY <2>1, <2>4
  <2> QED
    BY <2>1, <2>5
<1>2. m \in s /\ \A i \in s : m >= i
  BY <1>1
<1>3. Max(s) \in s /\ \A i \in s : Max(s) >= i
  BY <1>2 DEF Max
<1> QED
  BY <1>3

(* The rank of a set of indices: it goes down when the greatest is removed. *)
Top(s) == Max({0} \cup s)

LEMMA TopDescends ==
  ASSUME NEW k \in Nat, NEW s \in SUBSET (1 .. k)
  PROVE  /\ Top(s) \in 0 .. k
         /\ s # {} => /\ Max(s) \in s /\ s \ {Max(s)} \in SUBSET (1 .. k)
                      /\ Top(s \ {Max(s)}) < Top(s)
<1>1. Top(s) \in 0 .. k /\ \A i \in s : i <= Top(s)
  BY GreatestIndex DEF Top
<1>2. ASSUME s # {}
      PROVE  Max(s) \in s /\ Top(s \ {Max(s)}) < Top(s)
  <2>1. Max(s) \in s /\ \A i \in s : i <= Max(s)
    BY <1>2, GreatestOf
  <2> DEFINE m == Max(s)
             r == s \ {m}
  <2>2. r \subseteq 1 .. k
    OBVIOUS
  <2>3. Top(r) \in {0} \cup r
    <3> HIDE DEF r
    <3> QED
      BY <2>2, GreatestIndex DEF Top
  <2>4. m \in 1 .. k /\ m <= Top(s) /\ \A i \in r : i <= m /\ i # m /\ i \in Int
    <3> HIDE DEF m
    <3>1. m \in s /\ \A i \in s : i <= m
      BY <2>1 DEF m
    <3> QED
      BY <1>1, <3>1
  <2> HIDE DEF m, r
  <2>5. Top(r) < m
    BY <2>3, <2>4
  <2>6. Top(r) \in Int /\ Top(s) \in Int
    BY <1>1, <2>3, <2>4
  <2>7. Top(r) < Top(s)
    BY <2>4, <2>5, <2>6
  <2> QED
    BY <2>1, <2>7 DEF r, m
<1> QED
  BY <1>1, <1>2

(* The first move of a list and the others. *)
LEMMA HeadAndTail ==
  ASSUME NEW list \in Seq(Int), list # << >>
  PROVE  /\ Head(list) \in ToSet(list) /\ Tail(list) \in Seq(Int)
         /\ ToSet(list) \ {Head(list)} \subseteq ToSet(Tail(list))
         /\ ToSet(Tail(list)) \subseteq ToSet(list)
<1>1. /\ Len(list) \in Nat \ {0} /\ Head(list) = list[1] /\ Tail(list) \in Seq(Int)
      /\ Len(Tail(list)) = Len(list) - 1
      /\ DOMAIN Tail(list) = 1 .. Len(list) - 1 /\ DOMAIN list = 1 .. Len(list)
      /\ \A i \in 1 .. Len(list) - 1 : Tail(list)[i] = list[i + 1]
  OBVIOUS
<1>2. Head(list) \in ToSet(list)
  BY <1>1 DEF ToSet
<1>3. ASSUME NEW i \in 1 .. Len(list), list[i] # Head(list) PROVE list[i] \in ToSet(Tail(list))
  <2>1. i - 1 \in 1 .. Len(list) - 1 /\ (i - 1) + 1 = i
    BY <1>1, <1>3
  <2>2. Tail(list)[i - 1] = list[i]
    BY <1>1, <2>1
  <2> QED
    BY <1>1, <2>1, <2>2 DEF ToSet
<1>4. ASSUME NEW i \in 1 .. Len(list) - 1 PROVE Tail(list)[i] \in ToSet(list)
  BY <1>1 DEF ToSet
<1> QED
  BY <1>1, <1>2, <1>3, <1>4 DEF ToSet

(* An element is inserted into a list at the least of some of its places. *)
Places(list, T) == T # {} /\ T \subseteq 1 .. Len(list) + 1

LEMMA InsertedAtLeast ==
  ASSUME NEW P, NEW list \in Seq(P), NEW q \in P, NEW T, Places(list, T)
  PROVE  /\ InsertAt(list, Min(T), q) \in Seq(P)
         /\ ToSet(InsertAt(list, Min(T), q)) = ToSet(list) \cup {q}
<1>1. Min(T) \in 1 .. Len(list) + 1
  <2>0. T \subseteq Nat /\ T \subseteq 1 .. Len(list) + 1 /\ T # {}
    BY DEF Places
  <2>1. PICK x \in T : \A y \in T : x <= y
    BY <2>0, LeastNatural
  <2>2. Min(T) \in T
    BY <2>1 DEF Min
  <2> QED
    BY <2>0, <2>2
<1> DEFINE i == Min(T)
           k == Len(list)
<1> HIDE DEF i
<1>2. i \in 1 .. k + 1
  BY <1>1 DEF i
<1> DEFINE a == SubSeq(list, 1, i - 1)
           b == SubSeq(list, i, k)
           r == a \o <<q>> \o b
<1>3. /\ a \in Seq(P) /\ Len(a) = i - 1 /\ \A j \in 1 .. i - 1 : a[j] = list[j]
      /\ b \in Seq(P) /\ Len(b) = k - i + 1 /\ \A j \in 1 .. k - i + 1 : b[j] = list[i - 1 + j]
  BY <1>2
<1>4. <<q>> \in Seq(P)
  OBVIOUS
<1> HIDE DEF a, b
<1>5. /\ r \in Seq(P) /\ Len(r) = k + 1
      /\ \A j \in 1 .. k + 1 : r[j] = IF j < i THEN a[j] ELSE IF j = i THEN q ELSE b[j - i]
  <2> DEFINE c == a \o <<q>>
  <2>1. c \in Seq(P) /\ Len(c) = i /\ \A j \in 1 .. i : c[j] = IF j < i THEN a[j] ELSE q
    BY <1>2, <1>3, <1>4
  <2>2. r = c \o b
    OBVIOUS
  <2> HIDE DEF c, r
  <2>3. r \in Seq(P) /\ Len(r) = i + (k - i + 1)
    <3>1. b \in Seq(P) /\ Len(b) = k - i + 1
      BY <1>3
    <3> QED
      BY <2>1, <2>2, <3>1, ConcatProperties
  <2>4. \A j \in 1 .. k + 1 : r[j] = IF j <= i THEN c[j] ELSE b[j - i]
    BY <1>2, <1>3, <2>1, <2>2
  <2>5. Len(r) = k + 1
    BY <1>2, <2>3
  <2>6. ASSUME NEW j \in 1 .. k + 1
        PROVE  r[j] = IF j < i THEN a[j] ELSE IF j = i THEN q ELSE b[j - i]
    BY <1>2, <2>1, <2>4
  <2> QED
    BY <2>3, <2>5, <2>6
<1> HIDE DEF r
<1>6. \A j \in 1 .. k + 1 : r[j] = IF j < i THEN list[j] ELSE IF j = i THEN q ELSE list[j - 1]
  <2> TAKE j \in 1 .. k + 1
  <2>1. CASE j < i
    BY <1>2, <1>3, <1>5, <2>1, SMTT(30)
  <2>2. CASE j = i
    BY <1>5, <2>2
  <2>3. CASE j > i
    <3>1. j - i \in 1 .. k - i + 1 /\ i - 1 + (j - i) = j - 1
      BY <1>2, <2>3
    <3>2. b[j - i] = list[i - 1 + (j - i)]
      BY <1>3, <3>1
    <3>3. r[j] = b[j - i]
      BY <1>2, <1>5, <2>3
    <3> QED
      BY <1>2, <2>3, <3>1, <3>2, <3>3
  <2> QED
    BY <1>2, <2>1, <2>2, <2>3
<1>7. ToSet(r) = ToSet(list) \cup {q}
  <2>1. \A x \in ToSet(r) : x \in ToSet(list) \cup {q}
    <3> SUFFICES ASSUME NEW j \in 1 .. k + 1 PROVE r[j] \in ToSet(list) \cup {q}
      BY <1>5 DEF ToSet
    <3>1. j < i => j \in DOMAIN list
      BY <1>2
    <3>2. j > i => j - 1 \in DOMAIN list
      BY <1>2
    <3> QED
      BY <1>2, <1>6, <3>1, <3>2 DEF ToSet
  <2>2. q \in ToSet(r)
    BY <1>2, <1>5, <1>6 DEF ToSet
  <2>3. ASSUME NEW j \in DOMAIN list PROVE list[j] \in ToSet(r)
    <3>1. CASE j < i
      BY <1>2, <1>5, <1>6, <3>1 DEF ToSet
    <3>2. CASE j >= i
      <4>1. j + 1 \in 1 .. k + 1 /\ j + 1 > i /\ (j + 1) - 1 = j
        BY <1>2, <3>2
      <4>2. r[j + 1] = list[j]
        BY <1>2, <1>6, <4>1
      <4> QED
        BY <1>5, <4>1, <4>2 DEF ToSet
    <3> QED
      BY <1>2, <3>1, <3>2
  <2>4. \A x \in ToSet(list) : x \in ToSet(r)
    BY <2>3 DEF ToSet
  <2> QED
    BY <2>1, <2>2, <2>4
<1> QED
  BY <1>5, <1>7 DEF InsertAt, r, a, b, i

(* A way to insert elements of P into lists. *)
Insertion(P, insert) ==
  /\ insert \in [Seq(P) \X P -> Seq(P)]
  /\ \A list \in Seq(P) : \A q \in P : ToSet(insert[<<list, q>>]) = ToSet(list) \cup {q}

(* h takes each set of indices of seq to the list of their elements. *)
InsertsAll(seq, insert, h) ==
  \A s \in SUBSET DOMAIN seq :
    h[s] = IF s = {} THEN << >> ELSE insert[<<h[s \ {Max(s)}], seq[Max(s)]>>]

InsertsLists(P, seq, insert, h) ==
  /\ h[{}] = << >>
  /\ \A s \in SUBSET DOMAIN seq : s # {} /\ h[s \ {Max(s)}] \in Seq(P) =>
       h[s] = insert[<<h[s \ {Max(s)}], seq[Max(s)]>>]

(* The fold that sorts a sequence exists. *)
LEMMA SortingExists ==
  ASSUME NEW P, NEW seq \in Seq(P), NEW insert, Insertion(P, insert)
  PROVE  \E h \in [SUBSET DOMAIN seq -> Seq(P)] : InsertsAll(seq, insert, h)
<1> DEFINE k == Len(seq)
           D == SUBSET (1 .. k)
<1>1. k \in Nat /\ DOMAIN seq = 1 .. k /\ \A i \in 1 .. k : seq[i] \in P
  OBVIOUS
<1> HIDE DEF k
<1>2. ASSUME NEW s \in D
      PROVE  /\ Top(s) \in 0 .. k
             /\ s # {} => /\ Max(s) \in s /\ Max(s) \in 1 .. k /\ s \ {Max(s)} \in D
                          /\ Top(s \ {Max(s)}) < Top(s)
  BY <1>1, TopDescends
<1> DEFINE V == Seq(P)
           rank == [s \in D |-> Top(s)]
           below == [s \in D |-> IF s = {} THEN {} ELSE {s \ {Max(s)}}]
           made(s, h) == IF s = {} THEN << >> ELSE insert[<<h[s \ {Max(s)}], seq[Max(s)]>>]
           step == [sh \in D \X [D -> V] |-> made(sh[1], sh[2])]
<1>3. rank \in [D -> 0 .. k]
  <2>1. \A s \in D : Top(s) \in 0 .. k
    BY <1>2
  <2> HIDE DEF D
  <2> QED
    BY <2>1
<1>4. below \in [D -> SUBSET D]
  BY <1>2
<1>5. ASSUME NEW s \in D, NEW r \in below[s] PROVE rank[r] < rank[s]
  <2>1. s # {} /\ r = s \ {Max(s)} /\ r \in D
    BY <1>2, <1>5
  <2>2. rank[r] = Top(r) /\ rank[s] = Top(s)
    BY <2>1
  <2>3. Top(r) < Top(s)
    BY <1>2, <2>1
  <2> HIDE DEF rank
  <2> QED
    BY <2>2, <2>3
<1>6. ASSUME NEW s \in D, NEW h \in [D -> V] PROVE step[<<s, h>>] = made(s, h) /\ made(s, h) \in V
  <2>1. <<s, h>> \in D \X [D -> V] /\ <<s, h>>[1] = s /\ <<s, h>>[2] = h
    OBVIOUS
  <2>2. made(s, h) \in V
    <3>1. CASE s = {}
      BY <3>1
    <3>2. CASE s # {}
      <4>1. Max(s) \in 1 .. k /\ s \ {Max(s)} \in D
        BY <1>2, <3>2
      <4>2. h[s \ {Max(s)}] \in Seq(P) /\ seq[Max(s)] \in P
        BY <1>1, <4>1
      <4> QED
        BY <3>2, <4>2 DEF Insertion
    <3> QED
      BY <3>1, <3>2
  <2> HIDE DEF made
  <2> QED
    BY <2>1, <2>2
<1>7. step \in [D \X [D -> V] -> V]
  <2>1. step = [sh \in D \X [D -> V] |-> step[sh]]
    OBVIOUS
  <2>2. \A sh \in D \X [D -> V] : \E s \in D : \E h \in [D -> V] : sh = <<s, h>>
    OBVIOUS
  <2> HIDE DEF step, made
  <2>3. \A sh \in D \X [D -> V] : step[sh] \in V
    <3> TAKE sh \in D \X [D -> V]
    <3>1. PICK s \in D, h \in [D -> V] : sh = <<s, h>>
      BY <2>2
    <3> QED
      BY <1>6, <3>1
  <2> QED
    BY <2>1, <2>3
<1>8. ASSUME NEW s \in D, NEW f \in [D -> V], NEW h \in [D -> V],
             \A r \in below[s] : f[r] = h[r]
      PROVE  step[<<s, f>>] = step[<<s, h>>]
  <2>1. s # {} => s \ {Max(s)} \in below[s]
    OBVIOUS
  <2>2. made(s, f) = made(s, h)
    BY <1>8, <2>1
  <2> HIDE DEF step, made
  <2> QED
    BY <1>6, <2>2
<1>9. V # {}
  BY <1>1
<1> HIDE DEF rank, below, step, made
<1>10. Ranked(D, V, k, rank, below, step)
  <2>1. \A s \in D : \A r \in below[s] : rank[r] < rank[s]
    BY <1>5
  <2>2. \A s \in D : \A f, g \in [D -> V] :
          (\A r \in below[s] : f[r] = g[r]) => step[<<s, f>>] = step[<<s, g>>]
    BY <1>8
  <2>3. k \in Nat
    BY <1>1
  <2> HIDE DEF D, V
  <2> QED
    BY <1>3, <1>4, <1>7, <1>9, <2>1, <2>2, <2>3 DEF Ranked
<1>11. PICK h \in [D -> V] : \A s \in D : h[s] = step[<<s, h>>]
  <2> HIDE DEF D, V
  <2> QED
    BY <1>10, RankedRecursion
<1>12. \A s \in D : h[s] = made(s, h)
  BY <1>6, <1>11
<1> QED
  BY <1>1, <1>12 DEF made, InsertsAll

(* Whatever fold it is, it keeps the elements of the sequence. *)
LEMMA SortingKeeps ==
  ASSUME NEW P, NEW seq \in Seq(P), NEW insert, Insertion(P, insert), NEW h,
         InsertsLists(P, seq, insert, h)
  PROVE  h[DOMAIN seq] \in Seq(P) /\ ToSet(h[DOMAIN seq]) = ToSet(seq)
<1> DEFINE k == Len(seq)
           D == SUBSET (1 .. k)
           Good(s) == h[s] \in Seq(P) /\ ToSet(h[s]) = {seq[i] : i \in s}
           T == {Top(s) : s \in {r \in D : ~Good(r)}}
<1>1. k \in Nat /\ DOMAIN seq = 1 .. k /\ \A i \in 1 .. k : seq[i] \in P
  OBVIOUS
<1> HIDE DEF k
<1>2. T \subseteq Nat
  <2> SUFFICES ASSUME NEW s \in D PROVE Top(s) \in Nat
    OBVIOUS
  <2>1. Top(s) \in 0 .. k
    BY <1>1, TopDescends
  <2> QED
    BY <2>1
<1>3. ASSUME T # {} PROVE FALSE
  <2>1. PICK x \in T : \A y \in T : x <= y
    <3> HIDE DEF T
    <3> QED
      BY <1>2, <1>3, LeastNatural
  <2>2. PICK s \in D : ~Good(s) /\ x = Top(s)
    OBVIOUS
  <2>3. s # {}
    <3>1. << >> \in Seq(P) /\ ToSet(<< >>) = {} /\ h[{}] = << >>
      BY DEF ToSet, InsertsLists
    <3>2. Good({})
      BY <3>1
    <3> QED
      BY <2>2, <3>2
  <2> DEFINE m == Max(s)
             r == s \ {m}
  <2>4. /\ m \in s /\ r \in D /\ Top(r) < x /\ x \in 0 .. k /\ Top(r) \in 0 .. k
    <3>1. m \in s /\ r \in D /\ Top(r) < x /\ x \in 0 .. k
      BY <1>1, <2>2, <2>3, TopDescends
    <3> HIDE DEF r, m
    <3> QED
      BY <1>1, <3>1, TopDescends
  <2>6. Good(r)
    <3>1. ~Good(r) => Top(r) \in T
      BY <2>4
    <3> HIDE DEF T, Good, r, m
    <3> QED
      BY <1>1, <2>1, <2>4, <3>1
  <2>7. h[s] = insert[<<h[r], seq[m]>>] /\ seq[m] \in P
    BY <1>1, <2>3, <2>4, <2>6 DEF InsertsLists
  <2>8. h[s] \in Seq(P) /\ ToSet(h[s]) = ToSet(h[r]) \cup {seq[m]}
    BY <2>6, <2>7 DEF Insertion
  <2>9. {seq[i] : i \in s} = {seq[i] : i \in r} \cup {seq[m]}
    BY <2>4
  <2> QED
    BY <2>2, <2>6, <2>8, <2>9
<1>4. Good(1 .. k)
  BY <1>3
<1> QED
  BY <1>1, <1>4 DEF ToSet
=============================================================================
