------------------------ MODULE MCFastEndgameSolver ------------------------
(* FastEndgameSolver for TLC, on a board of four rows. *)
EXTENDS FastEndgameSolver

(* The squares of a board of four rows, in the spirit of the table. *)
WorstToBest == <<1, 2, 4, 7, 8, 11, 13, 14, 3, 12, 15, 0, 5, 6, 9, 10>>

StartPosition == Position({6, 9}, {5, 10}, BLACK_PLAYER)

PositionsAfter(start, plies) ==
  FoldLeft(LAMBDA positions, i :
             UNION {IF LegalMoves(gpx) # {} THEN {After(gpx, s) : s \in LegalMoves(gpx)}
                    ELSE {game_position_x_pass(gpx)} : gpx \in positions},
           {start}, [i \in 1 .. plies |-> i])

(* The settings that the comment on use_parity and fastest_first goes      *)
(* through, scaled to the empty squares of the roots.                      *)
Settings == {<<0, 0>>, <<0, 4>>, <<3, 4>>, <<3, 3>>, <<3, 0>>, <<4, 3>>}

Opening == FoldLeft(After, StartPosition, <<1, 0, 4, 8, 13>>)
Roots == PositionsAfter(Opening, 2) \cup PositionsAfter(Opening, 3) \cup PositionsAfter(Opening, 7)

AllProblems ==
  {[root |-> gpx, use_parity |-> x[1], fastest_first |-> x[2]] : gpx \in Roots, x \in Settings}
=============================================================================
