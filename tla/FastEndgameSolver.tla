------------------------- MODULE FastEndgameSolver -------------------------
(***************************************************************************)
(* improved_fast_endgame_solver.c: three recursive alpha-beta searches     *)
(* over one board array, one linked list of the empty squares, one set of  *)
(* region parities and one stack of flipped discs.  The searches change    *)
(* these on the way down and put them back on the way up.                  *)
(*                                                                         *)
(* A square is its index in the board array, where dummy squares surround  *)
(* the board, one column serving for both sides.  A node of the list is    *)
(* the square it holds, em_head first, which is never a square.       *)
(***************************************************************************)
EXTENDS Board

CONSTANTS
  Problems,        \* the positions to solve, with use_parity and fastest_first
  worst_to_best,   \* the squares of the board, as board.c numbers them, the
                   \* four of the centre last
  Unsolved,
  InvalidMove

(* No solution is taken for the lack of one. *)
ASSUME UnsolvedAssumption ==
  Unsolved \notin [outcome : Int, best_move : Squares \cup {InvalidMove}]

ASSUME TableAssumption ==
  /\ worst_to_best \in [1 .. Size * Size -> Squares]
  /\ \A s \in Squares : \E i \in 1 .. Size * Size : worst_to_best[i] = s

(* In a position of the game the four squares of the centre are never      *)
(* empty, on which the table of the code relies too.                       *)
ASSUME ProblemsAssumption ==
  \A p \in Problems :
    /\ p.root \in Positions /\ p.root.blacks \cap p.root.whites = {}
    /\ \A i \in Size * Size - 3 .. Size * Size :
         worst_to_best[i] \in p.root.blacks \cup p.root.whites
    /\ p.use_parity \in Int /\ p.fastest_first \in Int

VARIABLES
  problem,
  board,
  succ, pred,      \* the list of empty squares
  hole_id,         \* the region of each empty square
  region_parity,   \* the regions with an odd number of empty squares
  flip_stack,
  frames,          \* the activations of the search, the last one is running
  returned,        \* the node that the last one to end has returned
  solution

vars == <<problem, board, succ, pred, hole_id, region_parity, flip_stack, frames, returned, solution>>
tables == <<problem, hole_id>>

use_parity == problem.use_parity
fastest_first == problem.fastest_first

IFES_WHITE == 0
IFES_EMPTY == 1
IFES_BLACK == 2
IFES_DUMMY == 3
opponent_color(color) == 2 - color

BestScore == Size * Size
infinity == BestScore + 1
Nil == -1
em_head == 0
None == [value |-> infinity, square |-> Nil]   \* no node has been returned

-----------------------------------------------------------------------------
(* The board array. *)
Indexes == 0 .. (Size + 1) * (Size + 2)
Index(s) == Size + 2 + Column(s) + (Size + 1) * Row(s)
OnBoardIndexes == {Index(s) : s \in Squares}
SquareOf == [sq \in OnBoardIndexes |-> CHOOSE s \in Squares : Index(s) = sq]

game_position_to_ifes_board(gpx) ==
  [i \in Indexes |->
     IF i \notin OnBoardIndexes THEN IFES_DUMMY
     ELSE CASE SquareOf[i] \in gpx.whites -> IFES_WHITE
            [] SquareOf[i] \in gpx.blacks -> IFES_BLACK
            [] OTHER -> IFES_EMPTY]

ifes_game_position_translation(b, color) ==
  Position({s \in Squares : b[Index(s)] = IFES_BLACK}, {s \in Squares : b[Index(s)] = IFES_WHITE},
           IF color = IFES_WHITE THEN WHITE_PLAYER ELSE BLACK_PLAYER)

get_ifes_player(gpx) == IF gpx.player = BLACK_PLAYER THEN IFES_BLACK ELSE IFES_WHITE

EmptySquares(b) == {i \in OnBoardIndexes : b[i] = IFES_EMPTY}
Count(b, color) == Cardinality({i \in OnBoardIndexes : b[i] = color})

(* dir_inc, from the last one down, as the flips are done. *)
dir_inc == <<-(Size + 2), Size + 2, -(Size + 1), Size + 1, -Size, Size, -1, 1>>

(* flipping_dir_mask_table: in which directions two squares follow. *)
flipping_dirs ==
  [sq \in OnBoardIndexes |->
     {inc \in ToSet(dir_inc) : {sq + inc, sq + 2 * inc} \subseteq OnBoardIndexes}]

(* directional_flips: over at most Size - 2 discs of the opponent, as far  *)
(* as the tests are nested, to a disc of the player; and back.             *)
directional_flips(b, sq, inc, color) ==
  LET Over(n) == \A k \in 1 .. n : b[sq + k * inc] = opponent_color(color)
      run == Max({n \in 0 .. Size - 2 : Over(n)})
  IN  IF run > 0 /\ b[sq + (run + 1) * inc] = color
      THEN [k \in 1 .. run |-> sq + (run + 1 - k) * inc] ELSE << >>

(* do_flips, count_flips and any_flips look at the same squares. *)
flips(b, sq, color) ==
  LET along(i) == IF dir_inc[i] \in flipping_dirs[sq]
                  THEN directional_flips(b, sq, dir_inc[i], color) ELSE << >>
  IN  along(1) \o along(2) \o along(3) \o along(4) \o along(5) \o along(6) \o along(7) \o along(8)

(* The board with the discs turned and the disc placed. *)
Placed(b, sq, turned, color) ==
  [i \in Indexes |-> IF i = sq \/ i \in ToSet(turned) THEN color ELSE b[i]]

(* The squares from em_head on. *)
Listed(next) ==
  FoldLeft(LAMBDA seen, i : UNION {{sq, next[sq]} \ {Nil} : sq \in seen},
           {next[em_head]} \ {Nil}, [i \in 1 .. Size * Size |-> i])

count_mobility(b, next, color) == Cardinality({sq \in Listed(next) : flips(b, sq, color) # << >>})

-----------------------------------------------------------------------------
(* prepare_to_solve *)

Least(a, b) == IF a < b THEN a ELSE b

(* The empty squares in the order of the array, and the empty neighbours   *)
(* of one that come before it (sign -1) or after it, in the order of the   *)
(* tests.                                                                  *)
Ascending(b) == SelectSeq([i \in 1 .. Size * (Size + 1) - 1 |-> Size + 1 + i], LAMBDA sq : b[sq] = IFES_EMPTY)
EmptyNeighbours(b, sq, sign) ==
  SelectSeq(<<sq + sign * (Size + 2), sq + sign * (Size + 1), sq + sign * Size, sq + sign>>,
            LAMBDA n : b[n] = IFES_EMPTY)

(* Regions are numbered as they are met, a square taking the number of the *)
(* first empty neighbour before it.                                        *)
NumberedRegions(b) ==
  FoldLeft(LAMBDA h, sq :
             LET before == EmptyNeighbours(b, sq, -1)
             IN  IF before # << >> THEN [h EXCEPT !.id[sq] = h.id[before[1]]]
                 ELSE [id |-> [h.id EXCEPT ![sq] = h.k], k |-> h.k + 1],
           [id |-> [i \in Indexes |-> 0], k |-> 1], Ascending(b)).id

(* One loop of the merge.  The number that is compared is the one from     *)
(* before the square was looked at, so the last neighbour decides.         *)
MergedRegions(b, id, order, sign) ==
  FoldLeft(LAMBDA h, sq :
             LET near == EmptyNeighbours(b, sq, sign)
             IN  IF near = << >> THEN h ELSE [h EXCEPT ![sq] = Least(h[sq], h[Last(near)])],
           id, order)

max_iters == 4
HoleIds(b) ==
  FoldLeft(LAMBDA id, z : MergedRegions(b, MergedRegions(b, id, Reverse(Ascending(b)), 1), Ascending(b), -1),
           NumberedRegions(b), [z \in 1 .. max_iters |-> z])

OddRegions(b, id) ==
  {h \in {id[sq] : sq \in EmptySquares(b)} :
     Cardinality({sq \in EmptySquares(b) : id[sq] = h}) % 2 = 1}

worst_to_best_reverse_lookup ==
  [sq \in OnBoardIndexes |-> CHOOSE i \in DOMAIN worst_to_best : Index(worst_to_best[i]) = sq]

(* The list goes from em_head to the best square and on to the worst. *)
Rank(sq) == IF sq = em_head THEN Size * Size + 1 ELSE worst_to_best_reverse_lookup[sq]

(* The nodes after and before sq in the list of the squares in E. *)
Following(E, sq) ==
  LET later == {x \in E : Rank(x) < Rank(sq)}
  IN  IF later = {} THEN Nil ELSE CHOOSE x \in later : \A y \in later : Rank(y) <= Rank(x)
Preceding(E, sq) ==
  LET earlier == {x \in E \cup {em_head} : Rank(x) > Rank(sq)}
  IN  IF earlier = {} THEN Nil ELSE CHOOSE x \in earlier : \A y \in earlier : Rank(x) <= Rank(y)

(* The squares that are looked at, without the four of the centre.  Nodes  *)
(* that are in no list have no neighbours.                                 *)
Nodes == {em_head} \cup OnBoardIndexes
EmptyList(b) == {sq \in EmptySquares(b) : Rank(sq) <= Size * Size - 4}
Successors(b) ==
  [sq \in Nodes |-> IF sq \in {em_head} \cup EmptyList(b) THEN Following(EmptyList(b), sq) ELSE Nil]
Predecessors(b) ==
  [sq \in Nodes |-> IF sq \in {em_head} \cup EmptyList(b) THEN Preceding(EmptyList(b), sq) ELSE Nil]

-----------------------------------------------------------------------------
(* How good fastest_first_end_solve finds a move that leaves the opponent  *)
(* so many moves: the fewer the better, and then the better square.        *)
Goodness(sq, mobility) ==
  -(mobility * BestScore + BestScore - (worst_to_best_reverse_lookup[sq] - 1))

(* An activation at its start, on the list and the parities that it finds. *)
Activation(fn, arguments, first, parity) ==
  [ fn |-> fn,
    alpha |-> arguments.alpha, beta |-> arguments.beta, color |-> arguments.color,
    empties |-> arguments.empties, discdiff |-> arguments.discdiff,
    pass_before |-> arguments.pass_before,
    previous_move |-> em_head, current_move |-> first,
    par |-> 1, parity_mask |-> parity,
    goodness |-> << >>,
    flip_count |-> 0, move_square |-> 0,
    selected_n |-> [value |-> -infinity, square |-> 0] ]

(* end_solve *)
end_solve(empties) ==
  IF empties > fastest_first THEN "fastest_first"
  ELSE IF empties <= Max({2, use_parity}) THEN "no_parity" ELSE "parity"

(* game_position_ifes_solve, up to the search. *)
Init ==
  /\ problem \in Problems
  /\ board = game_position_to_ifes_board(problem.root)
  /\ succ = Successors(board)
  /\ pred = Predecessors(board)
  /\ hole_id = HoleIds(board)
  /\ region_parity = OddRegions(board, hole_id)
  /\ flip_stack = << >>
  /\ LET player == get_ifes_player(problem.root)
         emp == Count(board, IFES_EMPTY)
     IN  frames = << Activation(end_solve(emp),
                       [ alpha |-> -BestScore, beta |-> BestScore, color |-> player, empties |-> emp,
                         discdiff |-> Count(board, player) - Count(board, opponent_color(player)),
                         pass_before |-> FALSE ],
                       succ[em_head], region_parity) >>
  /\ returned = None
  /\ solution = Unsolved

-----------------------------------------------------------------------------
Top == Last(frames)
Running == frames # << >> /\ returned = None

(* The activation on top becomes frame. *)
Turn(frame) == frames' = [frames EXCEPT ![Len(frames)] = frame]

(* The arguments of a call, after a move that turns n discs or after a     *)
(* pass, by which n is zero.                                               *)
CallArguments(n) ==
  [ alpha |-> -Top.beta, beta |-> -Top.alpha, color |-> opponent_color(Top.color),
    empties |-> IF n = 0 THEN Top.empties ELSE Top.empties - 1,
    discdiff |-> IF n = 0 THEN -Top.discdiff ELSE -Top.discdiff - 2 * n - 1,
    pass_before |-> n = 0 ]

(* The loops of the two searches that follow the list. *)
InList == Running /\ Top.fn # "fastest_first" /\ Top.current_move # Nil
Selected == Top.fn = "no_parity" \/ hole_id[Top.current_move] \in Top.parity_mask
Legal == flips(board, Top.current_move, Top.color) # << >>

Advanced(frame) ==
  [frame EXCEPT !.previous_move = frame.current_move, !.current_move = succ[frame.current_move]]

SkipSquare ==
  /\ InList
  /\ ~Selected \/ ~Legal
  /\ Turn(Advanced(Top))
  /\ UNCHANGED <<tables, board, succ, pred, region_parity, flip_stack, returned, solution>>

(* The regions that were odd are done: the same for the even ones. *)
EvenRegions ==
  /\ Running
  /\ Top.fn = "parity" /\ Top.current_move = Nil /\ Top.par = 1
  /\ Turn([Top EXCEPT !.par = 0,
                      !.parity_mask = {hole_id[sq] : sq \in OnBoardIndexes} \ @,
                      !.previous_move = em_head, !.current_move = succ[em_head]])
  /\ UNCHANGED <<tables, board, succ, pred, region_parity, flip_stack, returned, solution>>

(* A region changes from odd to even or back. *)
Toggled(hole) == SymDiff(region_parity, {hole})

(* do_flips and the new disc, for all the searches. *)
PlayMove(sq) ==
  \E turned \in {flips(board, sq, Top.color)} :
    /\ board' = Placed(board, sq, turned, Top.color)
    /\ flip_stack' = flip_stack \o turned

CallAfter(sq, fn) ==
  LET n == Len(flips(board, sq, Top.color))
  IN  frames' = Append(SubSeq(frames, 1, Len(frames) - 1), [Top EXCEPT !.flip_count = n, !.move_square = sq])
                  \o <<Activation(fn, CallArguments(n), succ'[em_head], region_parity')>>

(* Mutant: the node before is looked up in pred. *)
SearchMoveByPred ==
  /\ InList /\ Selected /\ Legal
  /\ ~(Top.fn = "no_parity" /\ Top.empties = 2)
  /\ LET sq == Top.current_move
     IN  /\ PlayMove(sq)
         /\ succ' = [succ EXCEPT ![pred[sq]] = succ[sq]]
         /\ region_parity' = IF Top.fn = "parity" THEN Toggled(hole_id[sq]) ELSE region_parity
         /\ CallAfter(sq, IF Top.fn = "parity" THEN end_solve(Top.empties - 1) ELSE "no_parity")
  /\ UNCHANGED <<tables, pred, returned, solution>>

(* no_parity_end_solve and parity_end_solve take the square out of the     *)
(* list by the link of the node before it, and leave pred as it is.        *)
SearchMove ==
  /\ InList /\ Selected /\ Legal
  /\ ~(Top.fn = "no_parity" /\ Top.empties = 2)
  /\ LET sq == Top.current_move
     IN  /\ PlayMove(sq)
         /\ succ' = [succ EXCEPT ![Top.previous_move] = succ[sq]]
         /\ region_parity' = IF Top.fn = "parity" THEN Toggled(hole_id[sq]) ELSE region_parity
         /\ CallAfter(sq, IF Top.fn = "parity" THEN end_solve(Top.empties - 1) ELSE "no_parity")
  /\ UNCHANGED <<tables, pred, returned, solution>>

(* The first loop of fastest_first_end_solve, which notes the goodness of  *)
(* every move.  To count the mobility the disc is placed and taken back,   *)
(* and its square leaves the list for that time.                           *)
FirstLoop == Running /\ Top.fn = "fastest_first" /\ Top.current_move # Nil

Rated(goodness, sq, value) ==
  [x \in DOMAIN goodness \cup {sq} |-> IF x = sq THEN value ELSE goodness[x]]

RateMove ==
  /\ FirstLoop
  /\ LET sq == Top.current_move
         without == [succ EXCEPT ![Top.previous_move] = succ[sq]]
     IN  IF Legal
         THEN \E b \in {Placed(board, sq, flips(board, sq, Top.color), Top.color)} :
                Turn([Advanced(Top) EXCEPT !.goodness =
                        Rated(@, sq, Goodness(sq, count_mobility(b, without, opponent_color(Top.color))))])
         ELSE Turn(Advanced(Top))
  /\ UNCHANGED <<tables, board, succ, pred, region_parity, flip_stack, returned, solution>>

(* The second loop takes the best move that is left.  It leaves the list   *)
(* by both links.                                                          *)
SecondLoop == Running /\ Top.fn = "fastest_first" /\ Top.current_move = Nil
MovesLeft == DOMAIN Top.goodness

SearchFastestFirst ==
  /\ SecondLoop
  /\ \E sq \in MovesLeft :
       /\ \A y \in MovesLeft : Top.goodness[y] <= Top.goodness[sq]
       /\ PlayMove(sq)
       /\ succ' = [succ EXCEPT ![pred[sq]] = succ[sq]]
       /\ pred' = IF succ[sq] = Nil THEN pred ELSE [pred EXCEPT ![succ[sq]] = pred[sq]]
       /\ region_parity' = Toggled(hole_id[sq])
       /\ CallAfter(sq, "fastest_first")
  /\ UNCHANGED <<tables, returned, solution>>

-----------------------------------------------------------------------------
(* A value for a move: the better node, the window, and whether to cut.    *)
Better(frame, value, sq) ==
  IF value <= frame.selected_n.value THEN frame
  ELSE [frame EXCEPT !.selected_n = [value |-> value, square |-> sq], !.alpha = Max({@, value})]

(* Mutant: any improvement of the window cuts off. *)
CutoffAtOnce(frame, value) == value > frame.selected_n.value /\ value > frame.alpha

Cutoff(frame, value) ==
  value > frame.selected_n.value /\ value > frame.alpha /\ value >= frame.beta

(* After a move has a value: return on a cutoff, or go on. *)
Evaluated(value, sq) ==
  LET frame == Better(Top, value, sq)
  IN  IF Cutoff(Top, value)
      THEN /\ returned' = frame.selected_n
           /\ frames' = Front(frames)
      ELSE /\ returned' = None
           /\ Turn(IF Top.fn = "fastest_first" THEN [frame EXCEPT !.goodness = Restrict(@, MovesLeft \ {sq})]
                   ELSE Advanced(frame))

(* The value of the move sq that leads to board b with one square left     *)
(* empty, seen by the mover: the opponent moves there, or the mover, or    *)
(* nobody.                                                                 *)
LastTwoValue(sq, b) ==
  LET last == [succ EXCEPT ![Top.previous_move] = succ[sq]][em_head]
      first_move == Top.discdiff + 2 * Len(flips(board, sq, Top.color))
      opponent_flips == Len(flips(b, last, opponent_color(Top.color)))
      player_flips == Len(flips(b, last, Top.color))
  IN  IF opponent_flips > 0 THEN first_move - 2 * opponent_flips
      ELSE IF player_flips > 0 THEN first_move + 2 * (player_flips + 1)
      ELSE IF first_move >= 0 THEN first_move + 2 ELSE first_move

(* Both discs are placed and taken back in one turn of the loop. *)
PlaceLastTwo ==
  /\ InList /\ Legal
  /\ Top.fn = "no_parity" /\ Top.empties = 2
  /\ LET sq == Top.current_move
     IN  \E b \in {Placed(board, sq, flips(board, sq, Top.color), Top.color)} : Evaluated(LastTwoValue(sq, b), sq)
  /\ UNCHANGED <<tables, board, succ, pred, region_parity, flip_stack, solution>>

(* Mutant: parity_end_solve forgets to restore the parity of the region.   *)
TakeBackKeepParity ==
  /\ frames # << >> /\ returned # None
  /\ Top.flip_count > 0
  /\ LET sq == Top.move_square
         kept == Len(flip_stack) - Top.flip_count
         turned == {flip_stack[i] : i \in kept + 1 .. Len(flip_stack)}
         before == IF Top.fn = "fastest_first" THEN pred[sq] ELSE Top.previous_move
     IN  /\ board' = [i \in Indexes |-> IF i = sq THEN IFES_EMPTY
                                        ELSE IF i \in turned THEN opponent_color(Top.color)
                                        ELSE board[i]]
         /\ flip_stack' = SubSeq(flip_stack, 1, kept)
         /\ region_parity' = IF Top.fn # "fastest_first" THEN region_parity ELSE Toggled(hole_id[sq])
         /\ succ' = [succ EXCEPT ![before] = sq]
         /\ pred' = IF Top.fn = "fastest_first" /\ succ[sq] # Nil
                    THEN [pred EXCEPT ![succ[sq]] = sq] ELSE pred
         /\ Evaluated(-returned.value, sq)
  /\ UNCHANGED <<tables, solution>>

(* undo_flips, the disc, the parity and the links, and then the value. *)
TakeBack ==
  /\ frames # << >> /\ returned # None
  /\ Top.flip_count > 0
  /\ LET sq == Top.move_square
         kept == Len(flip_stack) - Top.flip_count
         turned == {flip_stack[i] : i \in kept + 1 .. Len(flip_stack)}
         before == IF Top.fn = "fastest_first" THEN pred[sq] ELSE Top.previous_move
     IN  /\ board' = [i \in Indexes |-> IF i = sq THEN IFES_EMPTY
                                        ELSE IF i \in turned THEN opponent_color(Top.color)
                                        ELSE board[i]]
         /\ flip_stack' = SubSeq(flip_stack, 1, kept)
         /\ region_parity' = IF Top.fn = "no_parity" THEN region_parity ELSE Toggled(hole_id[sq])
         /\ succ' = [succ EXCEPT ![before] = sq]
         /\ pred' = IF Top.fn = "fastest_first" /\ succ[sq] # Nil
                    THEN [pred EXCEPT ![succ[sq]] = sq] ELSE pred
         /\ Evaluated(-returned.value, sq)
  /\ UNCHANGED <<tables, solution>>

-----------------------------------------------------------------------------
(* The end of an activation. *)
NoMoreMoves ==
  /\ Running
  /\ Top.current_move = Nil
  /\ Top.fn = "parity" => Top.par = 0
  /\ Top.fn = "fastest_first" => MovesLeft = {}

NoMoveFound == NoMoreMoves /\ Top.selected_n.value = -infinity

Return ==
  /\ NoMoreMoves /\ ~NoMoveFound
  /\ returned' = Top.selected_n
  /\ frames' = Front(frames)
  /\ UNCHANGED <<tables, board, succ, pred, region_parity, flip_stack, solution>>

(* Mutant: the winner does not get the empty squares. *)
GameOverDiscsOnly ==
  /\ NoMoveFound /\ Top.pass_before
  /\ returned' = [Top.selected_n EXCEPT !.value = Top.discdiff]
  /\ frames' = Front(frames)
  /\ UNCHANGED <<tables, board, succ, pred, region_parity, flip_stack, solution>>

GameOver ==
  /\ NoMoveFound /\ Top.pass_before
  /\ returned' = [Top.selected_n EXCEPT !.value =
                    IF Top.discdiff > 0 THEN Top.discdiff + Top.empties
                    ELSE IF Top.discdiff < 0 THEN Top.discdiff - Top.empties ELSE 0]
  /\ frames' = Front(frames)
  /\ UNCHANGED <<tables, board, succ, pred, region_parity, flip_stack, solution>>

(* The opponent searches with the same function. *)
Pass ==
  /\ NoMoveFound /\ ~Top.pass_before
  /\ frames' = Append(SubSeq(frames, 1, Len(frames) - 1), [Top EXCEPT !.flip_count = 0])
                  \o <<Activation(Top.fn, CallArguments(0), succ[em_head], region_parity)>>
  /\ UNCHANGED <<tables, board, succ, pred, region_parity, flip_stack, returned, solution>>

(* The node of the opponent is the one that passed returns. *)
ReturnAfterPass ==
  /\ frames # << >> /\ returned # None
  /\ Top.flip_count = 0
  /\ returned' = [returned EXCEPT !.value = -@]
  /\ frames' = Front(frames)
  /\ UNCHANGED <<tables, board, succ, pred, region_parity, flip_stack, solution>>

(* ifes_square_to_square, where square 0 is none. *)
Solve ==
  /\ frames = << >> /\ solution = Unsolved
  /\ solution' = [outcome |-> returned.value,
                  best_move |-> IF returned.square = 0 THEN InvalidMove ELSE SquareOf[returned.square]]
  /\ UNCHANGED <<tables, board, succ, pred, region_parity, flip_stack, frames, returned>>

Next ==
  \/ SkipSquare \/ EvenRegions \/ SearchMove \/ RateMove \/ SearchFastestFirst \/ PlaceLastTwo
  \/ TakeBack \/ Return \/ GameOver \/ Pass \/ ReturnAfterPass \/ Solve

(* The solver is one thread that runs to its end. *)
Spec == Init /\ [][Next]_vars /\ WF_vars(Next)
-----------------------------------------------------------------------------
(* The list holds the empty squares of the board, best first, and the      *)
(* running activation knows how many they are and how the discs stand: the *)
(* searches put back all that they have changed, in whatever order they    *)
(* were interrupted by a cutoff.  Those that unlink a square by one link   *)
(* only leave stale predecessors behind, but for the search that reads     *)
(* predecessors the list is exact in both senses.                          *)
ListFollowsBoard ==
  LET list == EmptySquares(board)
  IN  /\ \A sq \in {em_head} \cup list : succ[sq] = Following(list, sq)
      /\ Running =>
           /\ Top.empties = Count(board, IFES_EMPTY)
           /\ Top.discdiff = Count(board, Top.color) - Count(board, opponent_color(Top.color))
           /\ Top.fn = "fastest_first" =>
                \A sq \in {em_head} \cup list : pred[sq] = Preceding(list, sq)

(* The search by regions reads parities that are those of the board.       *)
ParityFollowsBoard ==
  Running /\ Top.fn # "no_parity" => region_parity = OddRegions(board, hole_id)

(* What a returned value is worth for the activation that takes it: exact  *)
(* inside the window, and outside of it still a bound.                     *)
ReturnedValueSound ==
  frames # << >> /\ returned # None =>
    LET value == -returned.value
        true_value == -Value(ifes_game_position_translation(board, opponent_color(Top.color)))
    IN  /\ value < Top.beta => true_value <= value
        /\ value > Top.alpha => true_value >= value

(* The right answers: the game value, and a move that reaches it.  When    *)
(* the player has to pass it is the reply of the opponent.                 *)
BestMoves(gpx) ==
  LET best == Value(gpx) IN {s \in LegalMoves(gpx) : -Value(After(gpx, s)) = best}
Answers(p) ==
  LET gpx == p.root
      passed == game_position_x_pass(gpx)
      moves == IF LegalMoves(gpx) # {} THEN BestMoves(gpx)
               ELSE IF LegalMoves(passed) # {} THEN BestMoves(passed) ELSE {InvalidMove}
  IN  {[outcome |-> Value(gpx), best_move |-> s] : s \in moves}

(* The solver implements EndgameSolution: whatever the settings of the     *)
(* three searches, it ends with a right answer.                            *)
Endgame == INSTANCE EndgameSolution WITH Answers <- Answers, problem <- problem, solution <- solution
SolvesEndgame == Endgame!Spec
=============================================================================
