------------------------------- MODULE Board -------------------------------
(***************************************************************************)
(* board.c: the rules of the game on bitboards.  A SquareSet is the set of *)
(* the squares whose bits are set, square 0 being A1 and the next one the  *)
(* square on its right; a shift moves every square, and the ones that      *)
(* leave the word are lost.  Size is 8 in the code, where the word has 64  *)
(* bits; a game starts from the four squares of the centre, so that it is  *)
(* even.                                                                   *)
(*                                                                         *)
(* The code has several ways to compute the legal moves and the position   *)
(* after a move, chosen by board_legal_moves_option and by                 *)
(* game_position_x_make_move_option; the vectors of the AVX ones hold one  *)
(* direction in each lane.                                                 *)
(***************************************************************************)
EXTENDS Integers, FiniteSetsExt, SequencesExt

CONSTANT Size      \* rows, and columns, of the board

ASSUME SizeAssumption == Size \in Nat /\ Size > 3 /\ Size % 2 = 0

Squares == 0 .. Size * Size - 1
Column(s) == s % Size
Row(s) == s \div Size

BLACK_PLAYER == 0
WHITE_PLAYER == 1
player_opponent(p) == 1 - p

(* A GamePositionX. *)
Position(blacks, whites, player) == [blacks |-> blacks, whites |-> whites, player |-> player]
Positions == [blacks : SUBSET Squares, whites : SUBSET Squares, player : {BLACK_PLAYER, WHITE_PLAYER}]
PlayerSet(gpx) == IF gpx.player = BLACK_PLAYER THEN gpx.blacks ELSE gpx.whites
OpponentSet(gpx) == IF gpx.player = BLACK_PLAYER THEN gpx.whites ELSE gpx.blacks
Empties(gpx) == Squares \ (gpx.blacks \cup gpx.whites)

(* The position after a move of player, who then has the discs of mover. *)
AfterMove(player, mover, other) ==
  IF player = BLACK_PLAYER THEN Position(mover, other, WHITE_PLAYER)
  ELSE Position(other, mover, BLACK_PLAYER)

game_position_x_pass(gpx) == [gpx EXCEPT !.player = player_opponent(@)]

(* board_count_diff_winner_get_empties, seen by the player to move. *)
final_value(gpx) ==
  LET difference == Cardinality(PlayerSet(gpx)) - Cardinality(OpponentSet(gpx))
      empties == Cardinality(Empties(gpx))
  IN  IF difference = 0 THEN 0
      ELSE difference + (IF difference > 0 THEN empties ELSE -empties)

-----------------------------------------------------------------------------
(* A direction is the distance by which it shifts.                         *)
NorthWest == -(Size + 1)
North == -Size
NorthEast == -(Size - 1)
West == -1
East == 1
SouthWest == Size - 1
South == Size
SouthEast == Size + 1
Directions == <<NorthWest, North, NorthEast, West, East, SouthWest, South, SouthEast>>

(* A shift of the word, in either sense. *)
Shifted(squares, amount) == {s + amount : s \in squares} \cap Squares

except_column_a == {s \in Squares : Column(s) # 0}
except_column_h == {s \in Squares : Column(s) # Size - 1}
Mask ==
  [dir \in ToSet(Directions) |->
     CASE dir \in {NorthWest, West, SouthWest} -> except_column_h
       [] dir \in {NorthEast, East, SouthEast} -> except_column_a
       [] OTHER -> Squares]

direction_shift_square_set(dir, squares) == Shifted(squares, dir) \cap Mask[dir]
direction_opposite(dir) == -dir

(* The squares with two more squares in the direction. *)
direction_wave_mask ==
  [dir \in ToSet(Directions) |->
     {s \in Squares : /\ dir \in {NorthWest, West, SouthWest} => Column(s) >= 2
                      /\ dir \in {NorthEast, East, SouthEast} => Column(s) < Size - 2
                      /\ dir \in {NorthWest, North, NorthEast} => Row(s) >= 2
                      /\ dir \in {SouthWest, South, SouthEast} => Row(s) < Size - 2}]

(* From the squares start, step by step over discs of the opponent, until  *)
(* a disc of the player; the squares found are shifted back.  The loop of  *)
(* board_legal_moves0 may shift once more, which finds nothing: the wave   *)
(* is at the far edge by then.                                             *)
WaveFrom(start, dir, p, o) ==
  LET Step(w, shift) ==
        LET wave == direction_shift_square_set(dir, w.wave)
        IN  [wave |-> wave \cap o,
             found |-> w.found \cup Shifted(wave \cap p, shift * direction_opposite(dir))]
      first == [wave |-> direction_shift_square_set(dir, start) \cap o, found |-> {}]
  IN  FoldLeft(Step, first, [i \in 1 .. Size - 2 |-> i + 1]).found

(* Here a square that is known as a move is not looked at again. *)
board_legal_moves0(gpx) ==
  FoldLeft(LAMBDA result, dir :
             result \cup WaveFrom((Empties(gpx) \cap direction_wave_mask[dir]) \ result,
                                  dir, PlayerSet(gpx), OpponentSet(gpx)),
           {}, Directions)

(* All directions at once; version 2 differs in where the shifts are kept. *)
board_legal_moves1(gpx) ==
  UNION {WaveFrom(Empties(gpx), Directions[i], PlayerSet(gpx), OpponentSet(gpx)) :
           i \in DOMAIN Directions}

(* Kogge-Stone: the generator fills the propagator in a direction, by      *)
(* steps of one, two and four squares.  base is the propagator without the *)
(* squares where a step wraps round.                                       *)
Fill(generator, base, dir) ==
  LET g1 == generator \cup (base \cap Shifted(generator, dir))
      p1 == base \cap Shifted(base, dir)
      g2 == g1 \cup (p1 \cap Shifted(g1, 2 * dir))
      p2 == p1 \cap Shifted(p1, 2 * dir)
  IN  g2 \cup (p2 \cap Shifted(g2, 4 * dir))

(* Mutant: the last step may wrap round. *)
EndsUnmasked(generator, propagator, blocker, dir) ==
  LET run == Fill(generator, propagator \cap Mask[dir], dir) \ generator
  IN  Shifted(run, dir) \cap blocker

(* The blockers at the ends of the filled runs. *)
Ends(generator, propagator, blocker, dir) ==
  LET run == Fill(generator, propagator \cap Mask[dir], dir) \ generator
  IN  Shifted(run, dir) \cap Mask[dir] \cap blocker

(* kogge_stone_b: board_legal_moves4, and board_legal_moves3 without       *)
(* vectors.                                                                *)
kogge_stone_b(generator, propagator, blocker) ==
  UNION {Ends(generator, propagator, blocker, Directions[i]) : i \in DOMAIN Directions}

board_legal_moves4(gpx) == kogge_stone_b(PlayerSet(gpx), OpponentSet(gpx), Empties(gpx))

(* kogge_stone_gpb: from the move to the discs of the player that bracket  *)
(* a run, and back from these.  The way back keeps the mask of the way     *)
(* out.                                                                    *)
kogge_stone_gpb(generator, propagator, blocker) ==
  generator \cup UNION {Fill(Ends(generator, propagator, blocker, Directions[i]),
                              propagator \cap Mask[Directions[i]],
                              direction_opposite(Directions[i])) : i \in DOMAIN Directions}

(* game_position_x_make_move2 *)
game_position_x_make_move2(gpx, move) ==
  LET o_set == OpponentSet(gpx)
      f_set == kogge_stone_gpb({move}, o_set, PlayerSet(gpx))
  IN  AfterMove(gpx.player, PlayerSet(gpx) \cup f_set, o_set \ f_set)

-----------------------------------------------------------------------------
(* The moves by lines.  Each of the four lines through a square is shifted *)
(* to the main line of its axis and read as a row of bits, and a table     *)
(* says what a move in the row changes.                                    *)
Axes == {"HO", "VE", "DD", "DU"}
Ordinals == 0 .. Size - 1

axis_shift_distance(axis, column, row) ==
  CASE axis = "HO" -> -row * Size
    [] axis = "VE" -> -column
    [] axis = "DD" -> (column - row) * Size
    [] axis = "DU" -> (Size - 1 - column - row) * Size

axis_move_ordinal_position_in_bitrow(axis, column, row) == IF axis = "VE" THEN row ELSE column

(* The square of the main line that holds a bit of the row. *)
MainLineSquare(axis, i) ==
  CASE axis = "HO" -> i
    [] axis = "VE" -> i * Size
    [] axis = "DD" -> i * Size + i
    [] axis = "DU" -> (Size - 1 - i) * Size + i

axis_transform_to_row_one(axis, squares) == {i \in Ordinals : MainLineSquare(axis, i) \in squares}
axis_transform_back_from_row_one(axis, bitrow) == {MainLineSquare(axis, i) : i \in bitrow}

Bitrow(axis, squares, column, row) ==
  axis_transform_to_row_one(axis, Shifted(squares, axis_shift_distance(axis, column, row)))

(* An entry of bitrow_changes_for_player_array: the discs of the player    *)
(* after the move, or the same discs when it turns nothing.  The discs     *)
(* that bracket are the next ones of the player on either side, and there  *)
(* may be none.                                                            *)
board_bitrow_changes_for_player(player_row, opponent_row, move) ==
  LET filled_in_row == player_row \cup opponent_row
      left == {i \in player_row : i < move}
      right == {i \in player_row : i > move}
      left_rank == IF left = {} THEN {} ELSE Max(left) + 1 .. move - 1
      right_rank == IF right = {} THEN {} ELSE move + 1 .. Min(right) - 1
      turned == UNION {rank \in {left_rank, right_rank} : rank \subseteq filled_in_row}
  IN  IF player_row \cap opponent_row # {} \/ move \in filled_in_row \/ turned = {}
      THEN player_row
      ELSE player_row \cup {move} \cup turned

RowAfterMove(axis, mover, other, column, row) ==
  board_bitrow_changes_for_player(Bitrow(axis, mover, column, row), Bitrow(axis, other, column, row),
                                  axis_move_ordinal_position_in_bitrow(axis, column, row))

board_is_move_legal(gpx, move) ==
  /\ move \in Empties(gpx)
  /\ \E axis \in Axes :
       RowAfterMove(axis, PlayerSet(gpx), OpponentSet(gpx), Column(move), Row(move))
         # Bitrow(axis, PlayerSet(gpx), Column(move), Row(move))

(* bitboard_mask_for_all_directions: the squares on the four lines. *)
LinesThrough ==
  [move \in Squares |->
     {s \in Squares \ {move} : \/ Column(s) = Column(move)
                              \/ Row(s) = Row(move)
                              \/ Column(s) - Row(s) = Column(move) - Row(move)
                              \/ Column(s) + Row(s) = Column(move) + Row(move)}]

(* A row put back on the line it was read from. *)
BackOnLine(axis, bitrow, column, row) ==
  Shifted(axis_transform_back_from_row_one(axis, bitrow), -axis_shift_distance(axis, column, row))

(* game_position_make_move0 and game_position_x_make_move0; the versions   *)
(* called 1 hold the four axes in the lanes of a vector.                   *)
game_position_x_make_move0(gpx, move) ==
  LET p_set == PlayerSet(gpx)
      o_set == OpponentSet(gpx)
      column == Column(move)
      row == Row(move)
      after(axis) == RowAfterMove(axis, p_set, o_set, column, row)
      p_new == (p_set \ LinesThrough[move])
                 \cup UNION {BackOnLine(axis, after(axis), column, row) : axis \in Axes}
      o_new == (o_set \ LinesThrough[move])
                 \cup UNION {BackOnLine(axis, Bitrow(axis, o_set, column, row) \ after(axis),
                                        column, row) : axis \in Axes}
  IN  AfterMove(gpx.player, p_new, o_new)

-----------------------------------------------------------------------------
(* game_position_x_has_any_player_any_legal_move: waves for both sides     *)
(* from the empty squares, which stop at the first disc that brackets.     *)
has_any_player_any_legal_move(gpx) ==
  \E i \in DOMAIN Directions :
    \/ WaveFrom(Empties(gpx), Directions[i], gpx.blacks, gpx.whites) # {}
    \/ WaveFrom(Empties(gpx), Directions[i], gpx.whites, gpx.blacks) # {}

-----------------------------------------------------------------------------
(* The rules of the game: a disc is placed on an empty square from where,  *)
(* in some direction, a run of discs of the opponent ends at one of the    *)
(* player, and all such runs are turned.                                   *)
OnBoard(c, r) == c \in Ordinals /\ r \in Ordinals
Steps == ((-1 .. 1) \X (-1 .. 1)) \ {<<0, 0>>}
At(s, step, k) == s + k * (step[1] + step[2] * Size)

(* The number of discs that are turned along a step. *)
Run(gpx, s, step) ==
  LET lengths == {n \in 1 .. Size - 2 :
                    /\ OnBoard(Column(s) + (n + 1) * step[1], Row(s) + (n + 1) * step[2])
                    /\ \A k \in 1 .. n : At(s, step, k) \in OpponentSet(gpx)
                    /\ At(s, step, n + 1) \in PlayerSet(gpx)}
  IN  IF lengths = {} THEN 0 ELSE Max(lengths)

Turned(gpx, s) == UNION {{At(s, step, k) : k \in 1 .. Run(gpx, s, step)} : step \in Steps}
LegalMoves(gpx) == {s \in Empties(gpx) : Turned(gpx, s) # {}}
After(gpx, s) ==
  AfterMove(gpx.player, PlayerSet(gpx) \cup Turned(gpx, s) \cup {s}, OpponentSet(gpx) \ Turned(gpx, s))

(* All the ways in which board.c computes moves follow the rules.          *)
BoardFollowsRules(gpx) ==
  /\ LegalMoves(gpx) = board_legal_moves0(gpx)
  /\ LegalMoves(gpx) = board_legal_moves1(gpx)
  /\ LegalMoves(gpx) = board_legal_moves4(gpx)
  /\ \A s \in Squares : board_is_move_legal(gpx, s) <=> s \in LegalMoves(gpx)
  /\ \A s \in LegalMoves(gpx) : /\ game_position_x_make_move2(gpx, s) = After(gpx, s)
                                /\ game_position_x_make_move0(gpx, s) = After(gpx, s)
  /\ has_any_player_any_legal_move(gpx)
       <=> LegalMoves(gpx) \cup LegalMoves(game_position_x_pass(gpx)) # {}

(* The value of a position when both sides play their best. *)
Value(gpx) ==
  LET value[g \in Positions] ==
        LET moves == LegalMoves(g)
            passed == game_position_x_pass(g)
        IN  IF moves # {} THEN Max({-value[After(g, s)] : s \in moves})
            ELSE IF LegalMoves(passed) # {} THEN -value[passed] ELSE final_value(g)
  IN  value[gpx]
=============================================================================
