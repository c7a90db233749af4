------------------------------- MODULE MCGames -------------------------------
(***************************************************************************)
(* Small games for TLC: the scores of their final positions range over a   *)
(* lost game, a draw and a small win, in every combination.                *)
(***************************************************************************)
EXTENDS GameTree, TLC

Scores == {-2, 0, 1}

(* Moves and passes of both players, the game ending at several depths. *)
Mixed == Shape(13, 1 :> <<2, 3>> @@ 2 :> <<4, 5>> @@ 3 :> <<6, 7>> @@ 4 :> <<8, 9>>
                   @@ (-5) :> <<10, 11>> @@ 7 :> <<12, 13>>)

(* Three moves at the root, of mobility 2, 1 and 0. *)
Wide == Shape(8, 1 :> <<2, 3, 4>> @@ 2 :> <<5, 6>> @@ 3 :> <<7>> @@ (-4) :> <<8>>)

(* The player to move at the root has to pass. *)
RootPass == Shape(5, (-1) :> <<2, 3>> @@ 3 :> <<4, 5>>)

MovesFirstGames == GamesOf(Mixed, Scores) \cup GamesOf(Wide, Scores)
RootPassGames == GamesOf(RootPass, Scores)
AllGames == MovesFirstGames \cup RootPassGames
=============================================================================
