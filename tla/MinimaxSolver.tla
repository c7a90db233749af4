---------------------------- MODULE MinimaxSolver ----------------------------
(***************************************************************************)
(* minimax_solver.c: the solvers minimax, ab and rab and the random        *)
(* sampler rand.  The search is not recursive: game_position_solve_impl    *)
(* walks up and down a GameTreeStack by gotos, and the moves of all the    *)
(* active nodes share one array, legal_move_stack, where a node finds its  *)
(* own between its head and the head of the node above.                    *)
(***************************************************************************)
EXTENDS GameTree, SequencesExt

CONSTANTS
  Tasks,           \* pairs of a game that Root may be a position of and one
                   \* of "minimax", "ab", "rab", "rand"
  Repeats,         \* env->repeats
  Unsolved,        \* no solution yet
  InvalidMove,     \* invalid_move
  MaxNodes,        \* GAME_TREE_MAX_DEPTH
  MaxLegalMoves    \* MAX_LEGAL_MOVE_STACK_COUNT

ASSUME SolverAssumption ==
  /\ \A t \in Tasks : WellFormed(t[1])
  /\ MaxNodes \in Nat \ {0, 1} /\ MaxLegalMoves \in Nat
  /\ BestScore \in Nat

VARIABLES
  game, solver,
  pc,              \* the label of the search
  run,             \* sub_run_id
  nodes,           \* stack->nodes
  active,          \* stack->active_node, as an index of nodes
  legal_moves,     \* stack->legal_move_stack
  solution         \* result

vars == <<game, solver, pc, run, nodes, active, legal_moves, solution>>

AlphaBetaPruning == solver # "minimax"
RandomizeMoveOrder == solver \in {"rab", "rand"}
RandomSampler == solver = "rand"
RunCount == IF RandomizeMoveOrder /\ Repeats > 1 THEN Repeats ELSE 1

-----------------------------------------------------------------------------
(* A node as malloc returns it. *)
FreshNode == [gpx |-> 0, alpha |-> 0, beta |-> 0, best_move |-> 0, head |-> 0, cursor |-> 0]

(* game_tree_stack_init: the ground node and the first one. *)
InitNode(node, gpx) ==
  [node EXCEPT !.gpx = gpx, !.head = 0,
               !.alpha = OutOfRangeDefeatScore, !.beta = -OutOfRangeDefeatScore]

InitStack(old) ==
  [old EXCEPT ![0] = [InitNode(@, Passed(Root)) EXCEPT !.best_move = InvalidMove],
              ![1] = InitNode(@, Root)]

(* game_position_mab_solve, up to the search. *)
Init ==
  /\ \E t \in Tasks : game = t[1] /\ solver = t[2]
  /\ pc = "begin"
  /\ run = 0
  /\ nodes = InitStack([i \in 0 .. MaxNodes - 1 |-> FreshNode])
  /\ active = 0
  /\ legal_moves = [i \in 0 .. MaxLegalMoves - 1 |-> 0]
  /\ solution = Unsolved

-----------------------------------------------------------------------------
Current == nodes[active]
NextNode == nodes[active + 1]

(* gts_generate_moves: the moves in the order of their squares, or a pass, *)
(* and then the order after prng_mt19937_shuffle_array_uint8.              *)
GeneratedMoves(p) == IF HasLegalMove(game, p) THEN Legal(game, p) ELSE <<PassMove>>

MoveOrders(p) ==
  IF RandomizeMoveOrder THEN SetToSeqs(ToSet(GeneratedMoves(p))) ELSE {GeneratedMoves(p)}

(* The moves of a list in the slots of the array from head up. *)
Stored(list, head) ==
  [i \in DOMAIN legal_moves |->
     IF i \in head .. head + Len(list) - 1 THEN list[i - head + 1] ELSE legal_moves[i]]

(* Mutant: the window is negated, and not turned round. *)
WithWindowSwapped(node, below) ==
  IF AlphaBetaPruning THEN [node EXCEPT !.alpha = -below.alpha, !.beta = -below.beta]
  ELSE [node EXCEPT !.alpha = OutOfRangeDefeatScore]

(* The window of a new node: the one of the node below turned round, or    *)
(* without pruning no bound; the sampler leaves it alone.                  *)
WithWindow(node, below) ==
  IF RandomSampler THEN node
  ELSE IF AlphaBetaPruning THEN [node EXCEPT !.alpha = -below.beta, !.beta = -below.alpha]
  ELSE [node EXCEPT !.alpha = OutOfRangeDefeatScore]

(* Mutant: the next node finds its head at the last move of this one. *)
OpenedOverlapping(c, node, list) ==
  LET above == [nodes[c + 1] EXCEPT !.head = node.head + Len(list) - 1]
      new == [node EXCEPT !.cursor = node.head]
  IN  IF IsTerminal(game, node.gpx)
      THEN [nodes EXCEPT
             ![c] = [new EXCEPT !.best_move = InvalidMove, !.alpha = FinalValue(game, node.gpx)],
             ![c + 1] = [above EXCEPT !.gpx = Passed(node.gpx)]]
      ELSE [nodes EXCEPT
             ![c] = new,
             ![c + 1] = IF HasLegalMove(game, node.gpx) /\ ~RandomSampler THEN above
                        ELSE [above EXCEPT !.gpx = IF list[1] = PassMove THEN Passed(node.gpx)
                                                   ELSE list[1]]]

(* What follows the generation of the moves, in either search: the value   *)
(* of a final position, the pass, for which gts_is_terminal_node has set   *)
(* up the next node, or the first move.  The position that a full board    *)
(* leaves in the next node is not told apart from the pass: nothing reads  *)
(* it.                                                                     *)
Opened(c, node, list) ==
  LET above == [nodes[c + 1] EXCEPT !.head = node.head + Len(list)]
      new == [node EXCEPT !.cursor = node.head]
  IN  IF IsTerminal(game, node.gpx)
      THEN [nodes EXCEPT
             ![c] = [new EXCEPT !.best_move = InvalidMove, !.alpha = FinalValue(game, node.gpx)],
             ![c + 1] = [above EXCEPT !.gpx = Passed(node.gpx)]]
      ELSE [nodes EXCEPT
             ![c] = new,
             ![c + 1] = IF HasLegalMove(game, node.gpx) /\ ~RandomSampler THEN above
                        ELSE [above EXCEPT !.gpx = IF list[1] = PassMove THEN Passed(node.gpx)
                                                   ELSE list[1]]]

(* begin: the next node becomes the active one.  That the two arrays have  *)
(* room for it and for its moves is not checked by the code.               *)
Begin ==
  /\ pc = "begin"
  /\ active + 2 < MaxNodes
  /\ LET c == active + 1
         node == WithWindow(nodes[c], Current)
     IN  \E list \in MoveOrders(node.gpx) :
           /\ node.head + Len(list) <= MaxLegalMoves
           /\ nodes' = Opened(c, node, list)
           /\ legal_moves' = Stored(list, node.head)
           /\ active' = c
           /\ pc' = IF IsTerminal(game, node.gpx) THEN "end"
                    ELSE IF HasLegalMove(game, node.gpx) /\ ~RandomSampler THEN "for"
                    ELSE "begin"
  /\ UNCHANGED <<game, solver, run, solution>>

(* The loop over the moves, up to goto begin: gts_make_move. *)
MakeMove ==
  /\ pc = "for"
  /\ Current.cursor < NextNode.head
  /\ nodes' = [nodes EXCEPT ![active + 1].gpx = legal_moves[Current.cursor]]
  /\ pc' = "begin"
  /\ UNCHANGED <<game, solver, run, active, legal_moves, solution>>

NoMoreMoves ==
  /\ pc = "for"
  /\ Current.cursor >= NextNode.head
  /\ pc' = "end"
  /\ UNCHANGED <<game, solver, run, nodes, active, legal_moves, solution>>

(* entry: the value of the node above is there. *)
Value == -NextNode.alpha

(* Mutant: a tie counts as an improvement. *)
ImproveOnTie ==
  /\ pc = "entry"
  /\ Value >= Current.alpha
  /\ LET cut == AlphaBetaPruning /\ Value >= Current.beta
     IN  /\ pc' = IF cut THEN "end" ELSE "for"
         /\ nodes' = [nodes EXCEPT ![active].best_move = legal_moves[Current.cursor],
                                   ![active].alpha = Value,
                                   ![active].cursor = IF cut THEN @ ELSE @ + 1]
  /\ UNCHANGED <<game, solver, run, active, legal_moves, solution>>

Improve ==
  /\ pc = "entry"
  /\ Value > Current.alpha
  /\ LET cut == AlphaBetaPruning /\ Value >= Current.beta
     IN  /\ pc' = IF cut THEN "end" ELSE "for"
         /\ nodes' = [nodes EXCEPT ![active].best_move = legal_moves[Current.cursor],
                                   ![active].alpha = Value,
                                   ![active].cursor = IF cut THEN @ ELSE @ + 1]
  /\ UNCHANGED <<game, solver, run, active, legal_moves, solution>>

(* Mutant: the cursor stays. *)
NoImprovementStuck ==
  /\ pc = "entry"
  /\ Value <= Current.alpha
  /\ pc' = "for"
  /\ UNCHANGED <<game, solver, run, nodes, active, legal_moves, solution>>

NoImprovement ==
  /\ pc = "entry"
  /\ Value <= Current.alpha
  /\ pc' = "for"
  /\ nodes' = [nodes EXCEPT ![active].cursor = @ + 1]
  /\ UNCHANGED <<game, solver, run, active, legal_moves, solution>>

(* Mutant: the sampler hands the value down with its sign. *)
EndUnchangedSign ==
  /\ pc = "end"
  /\ active > 1
  /\ active' = active - 1
  /\ IF RandomSampler
     THEN nodes' = [nodes EXCEPT ![active - 1].alpha = Current.alpha] /\ UNCHANGED pc
     ELSE pc' = "entry" /\ UNCHANGED nodes
  /\ UNCHANGED <<game, solver, run, legal_moves, solution>>

(* end: back to the node below. *)
End ==
  /\ pc = "end"
  /\ active > 1
  /\ active' = active - 1
  /\ IF RandomSampler
     THEN nodes' = [nodes EXCEPT ![active - 1].alpha = -Current.alpha] /\ UNCHANGED pc
     ELSE pc' = "entry" /\ UNCHANGED nodes
  /\ UNCHANGED <<game, solver, run, legal_moves, solution>>

(* The end of a run.  The solution of the last run is the result, and the  *)
(* runs before it leave their traces in the stack.                         *)
EndOfRun ==
  /\ pc = "end"
  /\ active = 1
  /\ run' = run + 1
  /\ active' = 0
  /\ IF run + 1 < RunCount
     THEN pc' = "begin" /\ nodes' = InitStack(nodes) /\ UNCHANGED solution
     ELSE /\ pc' = "done"
          /\ solution' = [outcome |-> nodes[1].alpha, best_move |-> nodes[1].best_move]
          /\ UNCHANGED nodes
  /\ UNCHANGED <<game, solver, legal_moves>>

Next ==
  \/ Begin \/ MakeMove \/ NoMoreMoves \/ Improve \/ NoImprovement
  \/ End \/ EndOfRun

(* The solver is one thread that runs to its end. *)
Spec == Init /\ [][Next]_vars /\ WF_vars(Next)
-----------------------------------------------------------------------------
(* The solvers return the game value and a best move, whatever the order   *)
(* of the moves and whatever an earlier run left in the stack.             *)
BestMoveFound ==
  solution # Unsolved /\ ~RandomSampler =>
    LET v == GameValue(game)
    IN  /\ solution.outcome = v[Root]
        /\ IF IsTerminal(game, Root) THEN solution.best_move = InvalidMove
           ELSE \E q \in Successors(game, Root) :
                  -v[q] = v[Root] /\ solution.best_move = MoveTo(game, Root, q)

(* The outcomes of all the games that can be played from a position. *)
Outcomes(g) ==
  LET o[p \in DOMAIN g.moves] ==
        IF IsTerminal(g, p) THEN {FinalValue(g, p)}
        ELSE UNION {{-x : x \in o[q]} : q \in Successors(g, p)}
  IN  o

(* The sampler returns the outcome of a game played by the rules, seen by  *)
(* the player to move at the root: each level of the stack, passes         *)
(* included, changes the side.                                             *)
SampledOutcome ==
  solution # Unsolved /\ RandomSampler => solution.outcome \in Outcomes(game)[Root]

(* The moves of every active node are in the array between its head and    *)
(* the one of the next node, all of them, and its cursor points at one of  *)
(* them or past the last: the lists of the nodes above never reach them.   *)
SiblingsKept ==
  \A k \in 1 .. active :
    LET slots == nodes[k].head .. nodes[k + 1].head - 1
        list == GeneratedMoves(nodes[k].gpx)
    IN  /\ Cardinality(slots) = Len(list)
        /\ {legal_moves[i] : i \in slots} = ToSet(list)
        /\ nodes[k].cursor \in nodes[k].head .. nodes[k + 1].head

(* The positions on the stack are one line of play: each one is reached    *)
(* from the one below by the move under its cursor, in a list that no      *)
(* other node has overwritten.                                             *)
StackIsPlay ==
  /\ SiblingsKept
  /\ \A k \in 1 .. active - 1 :
       /\ nodes[k + 1].gpx \in Successors(game, nodes[k].gpx)
       /\ legal_moves[nodes[k].cursor] = MoveTo(game, nodes[k].gpx, nodes[k + 1].gpx)

(* What a returned value is worth: exact without pruning and inside the    *)
(* window of the node, a bound outside it.                                 *)
ReturnedValueSound ==
  pc = "entry" =>
    LET v == -GameValue(game)[NextNode.gpx]
    IN  IF ~AlphaBetaPruning THEN Value = v
        ELSE /\ Value > Current.alpha /\ Value < Current.beta => Value = v
             /\ Value <= Current.alpha => v <= Current.alpha
             /\ Value >= Current.beta => v >= Current.beta

(* Every run comes to its end. *)
Terminates == <>(pc = "done")
=============================================================================
