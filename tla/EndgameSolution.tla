-------------------------- MODULE EndgameSolution --------------------------
(***************************************************************************)
(* What an endgame solver promises: it returns, some time, one solution,   *)
(* and it is one of the answers to the problem it was given.               *)
(***************************************************************************)
CONSTANTS
  Unsolved,
  Answers(_)       \* the right solutions of a problem

VARIABLES problem, solution

Init == solution = Unsolved

Solve ==
  /\ solution = Unsolved
  /\ solution' # Unsolved
  /\ solution' \in Answers(problem)
  /\ UNCHANGED problem

Spec == Init /\ [][Solve]_<<problem, solution>> /\ <>(solution # Unsolved)
=============================================================================
