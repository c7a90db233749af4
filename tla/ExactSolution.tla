---------------------------- MODULE ExactSolution ----------------------------
(***************************************************************************)
(* What the exact solvers promise: solving a game position returns, some   *)
(* time, its game value and a play by which two perfect players reach it,  *)
(* and with full recording every such play.                                *)
(***************************************************************************)
EXTENDS GameTree

CONSTANT Unsolved
VARIABLES game, pv_full_recording, solution

Solves(s, g) ==
  LET plays == {WithoutPasses(p) : p \in OptimalPlays(g)[Root]}
  IN  /\ s.outcome = GameValue(g)[Root]
      /\ WithoutPasses(s.line.best) \in plays
      /\ pv_full_recording => {WithoutPasses(p) : p \in s.line.plays} = plays

Init == solution = Unsolved

(* game_position_es_solve, game_position_es2_solve *)
Solve ==
  /\ solution = Unsolved
  /\ solution' # Unsolved
  /\ Solves(solution', game)
  /\ UNCHANGED <<game, pv_full_recording>>

Spec == Init /\ [][Solve]_<<game, pv_full_recording, solution>> /\ <>(solution # Unsolved)
=============================================================================
