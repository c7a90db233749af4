---------------------------- MODULE ExactSolver2 ----------------------------
(***************************************************************************)
(* exact_solver2.c, the alpha-beta solver es2 with the recording of the    *)
(* principal variation.  Windows and values are kept in the nodes of a     *)
(* GameTreeStack, one node per active call of game_position_solve_impl;    *)
(* the nodes above the active one keep what an earlier call left there.    *)
(* The lines of the environment are values here; module PVEnv has their    *)
(* storage.                                                                *)
(***************************************************************************)
EXTENDS GameTree, PVLines, SequencesExt

CONSTANTS
  Games,           \* the games that Root may be a position of
  Unsolved,        \* no solution yet
  MaxNodes         \* GAME_TREE_MAX_DEPTH

ASSUME SolverAssumption ==
  /\ \A g \in Games : WellFormed(g)
  /\ BestScore \in Nat \ {0} /\ MaxNodes \in Nat \ {0, 1}
  /\ Unsolved \notin [outcome : Int, line : Lines]

VARIABLES
  game,
  pv_full_recording,
  nodes,           \* stack->nodes, and what lies behind the array
  calls,           \* the active calls; nodes[Len(calls)] is stack->active_node
  held,            \* held[1] is pve->root_line, held[k+1] the pve_line of call k
  solution         \* result

vars == <<game, pv_full_recording, nodes, calls, held, solution>>

-----------------------------------------------------------------------------
(* A node as malloc returns it: some position that is not of the game.  So *)
(* is what lies behind the last node, which a leaf at that node reads.     *)
FreshNode ==
  [gpx |-> 0, alpha |-> 0, beta |-> 0, best_move |-> 0, move_count |-> 0]

(* The two nodes that game_tree_stack_init sets. *)
GroundNode == [FreshNode EXCEPT !.gpx = Passed(Root)]
FirstNode(alpha, beta) == [FreshNode EXCEPT !.gpx = Root, !.alpha = alpha, !.beta = beta]

NewCall == [pc |-> "enter", list |-> << >>, branch_is_active |-> FALSE]

(* game_position_es2_solve, up to the search. *)
Init ==
  /\ game \in Games
  /\ pv_full_recording \in BOOLEAN
  /\ nodes = [i \in 0 .. MaxNodes |->
                IF i = 0 THEN GroundNode
                ELSE IF i > 1 THEN FreshNode
                ELSE IF pv_full_recording THEN FirstNode(OutOfRangeDefeatScore, OutOfRangeWinScore)
                ELSE FirstNode(WorstScore, BestScore)]
  /\ calls = <<NewCall>>
  /\ held = <<LineCreated>>
  /\ solution = Unsolved

(* sort_moves_by_mobility_count: insertion by ascending mobility, behind   *)
(* the moves of the same mobility.                                         *)
MoveInserted(list, q) ==
  LET greater == {i \in DOMAIN list : Mobility(game, q) < Mobility(game, list[i])}
  IN  InsertAt(list, Min(greater \cup {Len(list) + 1}), q)

SortedMoves(p) == FoldLeft(MoveInserted, << >>, Legal(game, p))

-----------------------------------------------------------------------------
n == Len(calls)
Current == nodes[n]
NextNode == nodes[n + 1]
Previous == nodes[n - 1]
Call == calls[n]
At(label) == calls # << >> /\ Call.pc = label

(* Mutant: the cell holds the position before the move. *)
LineAcceptedBefore(move) ==
  Append(SubSeq(held, 1, n - 1), LineWithMove(held[n + 1], move, Current.gpx))

(* The local line takes the place of the line of the parent. *)
LineAccepted(move) ==
  Append(SubSeq(held, 1, n - 1), LineWithMove(held[n + 1], move, NextNode.gpx))

(* A recursive call on position p, with the window turned round. *)
Recursion(p, caller) ==
  /\ n + 1 < MaxNodes
  /\ nodes' = [nodes EXCEPT ![n].move_count = Len(Legal(game, Current.gpx)),
                            ![n + 1].gpx = p,
                            ![n + 1].alpha = -Current.beta,
                            ![n + 1].beta = -Current.alpha]
  /\ calls' = Append([calls EXCEPT ![n] = caller], NewCall)
  /\ held' = Append(held, LineCreated)
  /\ UNCHANGED <<game, pv_full_recording, solution>>

(* Mutant: no slack for the ties with full recording. *)
MoveNodeTight ==
  /\ At("enter")
  /\ HasLegalMove(game, Current.gpx)
  /\ nodes' = [nodes EXCEPT ![n].move_count = Len(Legal(game, Current.gpx))]
  /\ calls' = [calls EXCEPT ![n] = [Call EXCEPT !.pc = "loop", !.list = SortedMoves(Current.gpx)]]
  /\ UNCHANGED <<game, pv_full_recording, held, solution>>

MoveNode ==
  /\ At("enter")
  /\ HasLegalMove(game, Current.gpx)
  /\ nodes' = [nodes EXCEPT ![n].move_count = Len(Legal(game, Current.gpx)),
                            ![n].alpha = IF pv_full_recording THEN @ - 1 ELSE @]
  /\ calls' = [calls EXCEPT ![n] = [Call EXCEPT !.pc = "loop", !.list = SortedMoves(Current.gpx)]]
  /\ UNCHANGED <<game, pv_full_recording, held, solution>>

(* No legal move, and there was one in the node before: a pass. *)
PassNode ==
  /\ At("enter")
  /\ ~HasLegalMove(game, Current.gpx)
  /\ Previous.move_count # 0
  /\ Recursion(Passed(Current.gpx), [Call EXCEPT !.pc = "pass_back"])

PassBack ==
  /\ At("pass_back")
  /\ nodes' = [nodes EXCEPT ![n].alpha = -NextNode.alpha, ![n].best_move = NextNode.best_move]
  /\ held' = LineAccepted(PassMove)
  /\ calls' = [calls EXCEPT ![n].pc = "out"]
  /\ UNCHANGED <<game, pv_full_recording, solution>>

(* No legal move, and none in the node before: the game is over.  The pass *)
(* is recorded with the position that the next node happens to hold.       *)
LeafNode ==
  /\ At("enter")
  /\ ~HasLegalMove(game, Current.gpx)
  /\ Previous.move_count = 0
  /\ nodes' = [nodes EXCEPT ![n].move_count = 0,
                            ![n].alpha = FinalValue(game, Current.gpx),
                            ![n].best_move = PassMove]
  /\ held' = Append(SubSeq(held, 1, n - 1), LineWithMove(LineCreated, PassMove, NextNode.gpx))
  /\ calls' = [calls EXCEPT ![n].pc = "out"]
  /\ UNCHANGED <<game, pv_full_recording, solution>>

SearchMove ==
  /\ At("loop")
  /\ Call.list # << >>
  /\ Recursion(Head(Call.list), [Call EXCEPT !.pc = "back"])

(* The value of the move that has been searched. *)
Value == -NextNode.alpha

Improves == Value > Current.alpha \/ (~Call.branch_is_active /\ Value = Current.alpha)

(* Mutant: a tie with the cutoff ends the node with full recording too. *)
CutsOffOnTie(value) == value >= Current.beta

(* goto out *)
CutsOff(value) == value > Current.beta \/ (~pv_full_recording /\ value = Current.beta)

Accept ==
  /\ At("back")
  /\ Improves
  /\ nodes' = [nodes EXCEPT ![n].alpha = Value, ![n].best_move = Head(Call.list)]
  /\ held' = LineAccepted(Head(Call.list))
  /\ calls' = [calls EXCEPT ![n] =
                 [ pc |-> IF CutsOff(Value) THEN "out" ELSE "loop",
                   list |-> Tail(Call.list), branch_is_active |-> TRUE ]]
  /\ UNCHANGED <<game, pv_full_recording, solution>>

AddVariant ==
  /\ At("back")
  /\ ~Improves
  /\ pv_full_recording /\ Value = Current.alpha
  /\ held' = Append(SubSeq(held, 1, n - 1),
                    LineWithVariant(held[n], LineWithMove(held[n + 1], Head(Call.list), NextNode.gpx)))
  /\ calls' = [calls EXCEPT ![n] = [Call EXCEPT !.pc = "loop", !.list = Tail(@)]]
  /\ UNCHANGED <<game, pv_full_recording, nodes, solution>>

Reject ==
  /\ At("back")
  /\ ~Improves
  /\ ~(pv_full_recording /\ Value = Current.alpha)
  /\ held' = SubSeq(held, 1, n)
  /\ calls' = [calls EXCEPT ![n] = [Call EXCEPT !.pc = "loop", !.list = Tail(@)]]
  /\ UNCHANGED <<game, pv_full_recording, nodes, solution>>

(* The end of a call; after the outermost one the result is filled in. *)
Return ==
  /\ At("out") \/ (At("loop") /\ Call.list = << >>)
  /\ calls' = SubSeq(calls, 1, n - 1)
  /\ solution' = IF n > 1 THEN solution ELSE [outcome |-> Current.alpha, line |-> held[1]]
  /\ UNCHANGED <<game, pv_full_recording, nodes, held>>

Next ==
  \/ MoveNode \/ PassNode \/ PassBack \/ LeafNode
  \/ SearchMove \/ Accept \/ AddVariant \/ Reject
  \/ Return

(* The solver is one thread that runs to its end. *)
Spec == Init /\ [][Next]_vars /\ WF_vars(Next)
-----------------------------------------------------------------------------
(* The solver computes, in the end, what ExactSolution asks for: the game  *)
(* value, an optimal play, and with full recording every optimal play.     *)
Solution == INSTANCE ExactSolution WITH
  game <- game, pv_full_recording <- pv_full_recording, solution <- solution
SolvesGame == Solution!Spec

(* What a value returned to the node at which the search stands is worth:  *)
(* exact inside the window of the node, a bound of the game value outside  *)
(* it; and with full recording the ends of the window count as inside, or  *)
(* variants of equal value would be missed (the extra alpha -= 1).         *)
ReturnedValueSound ==
  At("back") \/ At("pass_back") =>
    LET v == -GameValue(game)[NextNode.gpx]
        alpha == Current.alpha
        beta == Current.beta
    IN  /\ Value > alpha /\ Value < beta => Value = v
        /\ Value <= alpha => v <= alpha
        /\ Value >= beta => v >= beta
        /\ pv_full_recording /\ v \in alpha .. beta => Value = v

(* The lines under construction are legal play from their nodes: a cell    *)
(* holds the position after its move (parameter gp of pve_line_add_move),  *)
(* although it copies it from a node that deeper calls write as well.      *)
LinesFollowGame ==
  \A k \in DOMAIN held : \A s \in held[k].plays :
    Follows(game, WithoutPasses(s), nodes[k].gpx)

(* The same of all cells, the ones for the passes at the end included. *)
CellsHoldPositions ==
  \A k \in DOMAIN held : \A s \in held[k].plays : Follows(game, s, nodes[k].gpx)

(* "Solves the game position", for the positions whose player to move has  *)
(* to pass too: the outcome is the game value of the root.                 *)
OutcomeIsGameValue == solution # Unsolved => solution.outcome = GameValue(game)[Root]
=============================================================================
