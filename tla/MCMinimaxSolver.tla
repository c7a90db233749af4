--------------------------- MODULE MCMinimaxSolver ---------------------------
(* MinimaxSolver for TLC, on the small games of MCGames. *)
EXTENDS MinimaxSolver, MCGames

(* The random order of the moves is left to the smaller games. *)
FixedOrderSolvers == {"minimax", "ab"}
RandomOrderSolvers == {"rab", "rand"}
SmallGames == GamesOf(Wide, Scores) \cup RootPassGames

AllTasks == (AllGames \X FixedOrderSolvers) \cup (SmallGames \X RandomOrderSolvers)
RootPassTasks == RootPassGames \X FixedOrderSolvers
=============================================================================
