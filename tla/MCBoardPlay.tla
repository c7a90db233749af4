---------------------------- MODULE MCBoardPlay ----------------------------
(* BoardPlay for TLC, on the board of the program. *)
EXTENDS BoardPlay

StartPosition == Position({28, 35}, {27, 36}, BLACK_PLAYER)

(* Around square s, runs of n discs of white that end, in the directions   *)
(* of brackets, at a disc of black; the other squares hold rest.           *)
Star(s, n, brackets, rest, player) ==
  LET near == {<<step, k>> \in Steps \X (1 .. n + 1) :
                 OnBoard(Column(s) + k * step[1], Row(s) + k * step[2])}
      runs == {At(s, x[1], x[2]) : x \in {y \in near : y[2] <= n}}
      ends == {At(s, x[1], x[2]) : x \in {y \in near : y[2] = n + 1 /\ y[1] \in brackets}}
      free == Squares \ ({s} \cup {At(s, x[1], x[2]) : x \in near})
      p_set == ends \cup (IF rest = "player" THEN free ELSE {})
      o_set == runs \cup (IF rest = "opponent" THEN free ELSE {})
  IN  game_position_x_pass(AfterMove(player, p_set, o_set))

(* Corners, edges, the squares next to them and the middle. *)
Centres == {0, 56, 63, 3, 24, 9, 27}

Stars ==
  {Star(s, n, brackets, rest, BLACK_PLAYER) :
     s \in Centres, n \in {1, 3, 6}, brackets \in {Steps, {<<1, 0>>, <<-1, 1>>, <<0, -1>>}},
     rest \in {"empty", "player", "opponent"}}

AllStarts == {StartPosition} \cup Stars
=============================================================================
