------------------------------ MODULE GameTree ------------------------------
(***************************************************************************)
(* What the endgame solvers see of the game: the legal moves of a          *)
(* position, the position after a pass, and the value of a final position  *)
(* (board.c).  A game is a record of                                       *)
(*   moves[p]  the positions that the legal moves of position p lead to,   *)
(*             in the order of legal_moves_priority_mask,                  *)
(*   value[p]  the disc difference of p, for the player to move,           *)
(*   empties[p]  the number of its empty squares.                          *)
(* Positions are non-zero integers, -p being p with the players swapped,   *)
(* and a move is named by the position it leads to.                        *)
(***************************************************************************)
EXTENDS Integers, Sequences, FiniteSetsExt

CONSTANTS
  PassMove,        \* pass_move
  BestScore        \* best_score, the value of a game won with all the discs

WorstScore == -BestScore                \* worst_score
OutOfRangeDefeatScore == WorstScore - 1 \* out_of_range_defeat_score
OutOfRangeWinScore == BestScore + 1     \* out_of_range_win_score

Root == 1
Legal(g, p) == g.moves[p]
HasLegalMove(g, p) == g.moves[p] # << >>
Passed(p) == -p
FinalValue(g, p) == g.value[p]

SquareCount == 64                       \* square_cardinality

(* What board.c makes of the positions of a game.  The moves of a position *)
(* are distinct, no move is a pass, and every move fills a square of the   *)
(* board; a pass leaves the board alone, and the disc difference changes   *)
(* its sign with the player to move.                                       *)
WellFormed(g) ==
  LET positions == DOMAIN g.moves
  IN  /\ positions \subseteq Int /\ Root \in positions /\ PassMove \notin positions
      /\ \A p \in positions :
           /\ Passed(p) \in positions
           /\ g.moves[p] \in Seq(positions)
           /\ \A i, j \in DOMAIN g.moves[p] : i # j => g.moves[p][i] # g.moves[p][j]
           /\ g.value[p] \in WorstScore .. BestScore
           /\ g.value[Passed(p)] = -g.value[p]
           /\ g.empties[p] \in 0 .. SquareCount /\ Len(g.moves[p]) <= g.empties[p]
           /\ g.empties[Passed(p)] = g.empties[p]
           /\ \A i \in DOMAIN g.moves[p] : g.empties[g.moves[p][i]] < g.empties[p]

(* The number of moves that the opponent has after the move. *)
Mobility(g, p) == Len(g.moves[p])

-----------------------------------------------------------------------------
(* The rules by which a game is played, and its value. *)

IsTerminal(g, p) == ~HasLegalMove(g, p) /\ ~HasLegalMove(g, Passed(p))

(* The positions one move, or one pass, away from p. *)
Successors(g, p) ==
  IF IsTerminal(g, p) THEN {}
  ELSE IF HasLegalMove(g, p) THEN {g.moves[p][i] : i \in 1 .. Len(g.moves[p])}
  ELSE {Passed(p)}

(* The minimax value of every position. *)
GameValue(g) ==
  LET v[p \in DOMAIN g.moves] ==
        IF IsTerminal(g, p) THEN FinalValue(g, p)
        ELSE Max({-v[q] : q \in Successors(g, p)})
  IN  v

(* The move that leads from p to q. *)
MoveTo(g, p, q) == IF HasLegalMove(g, p) THEN q ELSE PassMove

(* A play is a sequence of moves with the positions they lead to.  This    *)
(* one can be played from p; a pass leads on even when the game is over.   *)
Follows(g, s, p) ==
  \A i \in DOMAIN s :
    LET from == IF i = 1 THEN p ELSE s[i - 1].gpx
        to == s[i].gpx
    IN  /\ from \in DOMAIN g.moves
        /\ s[i].move = MoveTo(g, from, to)
        /\ to \in IF HasLegalMove(g, from) THEN Successors(g, from) ELSE {Passed(from)}

(* A cell of a line is a move with the position after it.  A line is a     *)
(* main play and the set of the plays that are recorded.                   *)
Cells == [move : Int \cup {PassMove}, gpx : Int]
Lines == [best : Seq(Cells), plays : SUBSET Seq(Cells)]

(* The passes by which a solver marks the end of the game are left out. *)
WithoutPasses(s) == SubSeq(s, 1, Max({0} \cup {i \in DOMAIN s : s[i].move # PassMove}))

(* The sequences of moves by which two perfect players finish the game.    *)
OptimalPlays(g) ==
  LET v == GameValue(g)
      plays[p \in DOMAIN g.moves] ==
        IF IsTerminal(g, p) THEN {<< >>}
        ELSE UNION { {<<[move |-> MoveTo(g, p, q), gpx |-> q]>> \o s : s \in plays[q]} :
                     q \in {r \in Successors(g, p) : -v[r] = v[p]} }
  IN  plays

-----------------------------------------------------------------------------
(* Games.  A shape gives the moves of each position, and which of the      *)
(* final positions hold which of the scores is free.                       *)

Finals(moves) == {p \in DOMAIN moves : p > 0 /\ moves[p] = << >> /\ moves[-p] = << >>}

GamesOf(moves, scores) ==
  { [ moves |-> moves,
      value |-> [p \in DOMAIN moves |->
                   IF p \in Finals(moves) THEN f[p]
                   ELSE IF -p \in Finals(moves) THEN -f[-p] ELSE 0],
      empties |-> [p \in DOMAIN moves |-> SquareCount - (IF p > 0 THEN p ELSE -p)] ] :
    f \in [Finals(moves) -> scores] }

(* The moves of 1 .. n and of their negatives, most of which have none. *)
Shape(n, some) ==
  [p \in (-n .. n) \ {0} |-> IF p \in DOMAIN some THEN some[p] ELSE << >>]
=============================================================================
