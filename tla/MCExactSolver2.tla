--------------------------- MODULE MCExactSolver2 ---------------------------
(* ExactSolver2 for TLC, on the small games of MCGames. *)
EXTENDS ExactSolver2, MCGames
=============================================================================
