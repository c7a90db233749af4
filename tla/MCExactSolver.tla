---------------------------- MODULE MCExactSolver ----------------------------
(* ExactSolver for TLC, on the small games of MCGames. *)
EXTENDS ExactSolver, MCGames
=============================================================================
