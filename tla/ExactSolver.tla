----------------------------- MODULE ExactSolver -----------------------------
(***************************************************************************)
(* exact_solver.c, the alpha-beta solver es with the recording of the      *)
(* principal variation.  Each call of game_position_solve_impl has its     *)
(* window as arguments and returns a SearchNode.  The lines of the         *)
(* environment are values here; module PVEnv has their storage.            *)
(***************************************************************************)
EXTENDS GameTree, PVLines, SequencesExt

CONSTANTS
  Games,           \* the games that Root may be a position of
  Unsolved         \* no solution yet

ASSUME SolverAssumption ==
  /\ \A g \in Games : WellFormed(g)
  /\ BestScore \in Nat \ {0}
  /\ Unsolved \notin [outcome : Int, line : Lines]

VARIABLES
  game,
  pv_full_recording,
  calls,           \* the active calls
  returned,        \* the SearchNode that the last call to end has returned
  held,            \* held[1] is pve->root_line, held[k+1] the pve_line of call k
  solution         \* result

vars == <<game, pv_full_recording, calls, returned, held, solution>>

-----------------------------------------------------------------------------
Null == [move |-> 0, value |-> 0]      \* a pointer to no SearchNode

NewCall(gp, achievable, cutoff) ==
  [ pc |-> "enter", gp |-> gp, achievable |-> achievable, cutoff |-> cutoff,
    node |-> Null, list |-> << >>, branch_is_active |-> FALSE ]

(* game_position_es_solve, up to the search. *)
Init ==
  /\ game \in Games
  /\ pv_full_recording \in BOOLEAN
  /\ calls = <<IF pv_full_recording THEN NewCall(Root, OutOfRangeDefeatScore, OutOfRangeWinScore)
               ELSE NewCall(Root, WorstScore, BestScore)>>
  /\ returned = Null
  /\ held = <<LineCreated>>
  /\ solution = Unsolved

(* The tail of a move list has mobility -1, which a uint8_t holds as 255. *)
TailMobility == 256 - 1

(* sort_moves_by_mobility_count: insertion by ascending mobility, before   *)
(* an element of the list or its tail.  A move with no place is left out.  *)
MoveInserted(list, q) ==
  LET mobility == Append([i \in DOMAIN list |-> Mobility(game, list[i])], TailMobility)
      greater == {i \in DOMAIN mobility : Mobility(game, q) < mobility[i]}
  IN  IF greater = {} THEN list ELSE InsertAt(list, Min(greater), q)

SortedMoves(p) == FoldLeft(MoveInserted, << >>, Legal(game, p))

-----------------------------------------------------------------------------
n == Len(calls)
Call == calls[n]
At(label) == calls # << >> /\ Call.pc = label

(* search_node_negated *)
Negated(node) == [node EXCEPT !.value = -@]

(* The local line takes the place of the line of the parent. *)
LineAccepted(line, move, gp) == Append(SubSeq(held, 1, n - 1), LineWithMove(line, move, gp))

MoveNode ==
  /\ At("enter")
  /\ HasLegalMove(game, Call.gp)
  /\ LET list == SortedMoves(Call.gp)
     IN  calls' = [calls EXCEPT ![n] =
           [ Call EXCEPT !.pc = "loop", !.list = list,
               !.node = [ move |-> Head(list),
                          value |-> IF pv_full_recording THEN Call.achievable - 1
                                    ELSE Call.achievable ] ]]
  /\ UNCHANGED <<game, pv_full_recording, returned, held, solution>>

PassNode ==
  /\ At("enter")
  /\ ~HasLegalMove(game, Call.gp)
  /\ HasLegalMove(game, Passed(Call.gp))
  /\ calls' = Append([calls EXCEPT ![n].pc = "pass_back"],
                     NewCall(Passed(Call.gp), -Call.cutoff, -Call.achievable))
  /\ held' = Append(held, LineCreated)
  /\ UNCHANGED <<game, pv_full_recording, returned, solution>>

(* Mutant: the cell of a pass holds the position before it. *)
PassBackBefore ==
  /\ At("pass_back")
  /\ calls' = [calls EXCEPT ![n] = [Call EXCEPT !.pc = "out", !.node = Negated(returned)]]
  /\ held' = LineAccepted(held[n + 1], PassMove, Call.gp)
  /\ UNCHANGED <<game, pv_full_recording, returned, solution>>

PassBack ==
  /\ At("pass_back")
  /\ calls' = [calls EXCEPT ![n] = [Call EXCEPT !.pc = "out", !.node = Negated(returned)]]
  /\ held' = LineAccepted(held[n + 1], PassMove, Passed(Call.gp))
  /\ UNCHANGED <<game, pv_full_recording, returned, solution>>

(* The game is over. *)
LeafNode ==
  /\ At("enter")
  /\ ~HasLegalMove(game, Call.gp)
  /\ ~HasLegalMove(game, Passed(Call.gp))
  /\ calls' = [calls EXCEPT ![n] =
                 [Call EXCEPT !.pc = "out",
                              !.node = [move |-> PassMove, value |-> FinalValue(game, Call.gp)]]]
  /\ held' = LineAccepted(LineCreated, PassMove, Passed(Call.gp))
  /\ UNCHANGED <<game, pv_full_recording, returned, solution>>

SearchMove ==
  /\ At("loop")
  /\ Call.list # << >>
  /\ calls' = Append([calls EXCEPT ![n].pc = "back"],
                     NewCall(Head(Call.list), -Call.cutoff, -Call.node.value))
  /\ held' = Append(held, LineCreated)
  /\ UNCHANGED <<game, pv_full_recording, returned, solution>>

(* The value of the move that has been searched. *)
Value == Negated(returned).value

Improves ==
  Value > Call.node.value \/ (~Call.branch_is_active /\ Value = Call.node.value)

(* Mutant: a tie with the cutoff ends the node with full recording too. *)
CutsOffOnTie(value) == value >= Call.cutoff

(* goto out *)
CutsOff(value) == value > Call.cutoff \/ (~pv_full_recording /\ value = Call.cutoff)

Accept ==
  /\ At("back")
  /\ Improves
  /\ calls' = [calls EXCEPT ![n] =
                 [ Call EXCEPT !.pc = IF CutsOff(Value) THEN "out" ELSE "loop",
                     !.list = Tail(@), !.branch_is_active = TRUE,
                     !.node = [move |-> Head(Call.list), value |-> Value] ]]
  /\ held' = LineAccepted(held[n + 1], Head(Call.list), Head(Call.list))
  /\ UNCHANGED <<game, pv_full_recording, returned, solution>>

AddVariant ==
  /\ At("back")
  /\ ~Improves
  /\ pv_full_recording /\ Value = Call.node.value
  /\ calls' = [calls EXCEPT ![n] = [Call EXCEPT !.pc = "loop", !.list = Tail(@)]]
  /\ held' = Append(SubSeq(held, 1, n - 1),
                    LineWithVariant(held[n], LineWithMove(held[n + 1], Head(Call.list), Head(Call.list))))
  /\ UNCHANGED <<game, pv_full_recording, returned, solution>>

Reject ==
  /\ At("back")
  /\ ~Improves
  /\ ~(pv_full_recording /\ Value = Call.node.value)
  /\ calls' = [calls EXCEPT ![n] = [Call EXCEPT !.pc = "loop", !.list = Tail(@)]]
  /\ held' = SubSeq(held, 1, n)
  /\ UNCHANGED <<game, pv_full_recording, returned, solution>>

(* The end of a call; after the outermost one the result is filled in. *)
Return ==
  /\ At("out") \/ (At("loop") /\ Call.list = << >>)
  /\ calls' = SubSeq(calls, 1, n - 1)
  /\ returned' = Call.node
  /\ solution' = IF n > 1 THEN solution ELSE [outcome |-> Call.node.value, line |-> held[1]]
  /\ UNCHANGED <<game, pv_full_recording, held>>

Next ==
  \/ MoveNode \/ PassNode \/ PassBack \/ LeafNode
  \/ SearchMove \/ Accept \/ AddVariant \/ Reject
  \/ Return

(* The solver is one thread that runs to its end. *)
Spec == Init /\ [][Next]_vars /\ WF_vars(Next)
-----------------------------------------------------------------------------
(* The solver computes, in the end, what ExactSolution asks for: the game  *)
(* value, an optimal play, and with full recording every optimal play.     *)
Solution == INSTANCE ExactSolution WITH
  game <- game, pv_full_recording <- pv_full_recording, solution <- solution
SolvesGame == Solution!Spec

(* The lines under construction are legal play from the positions of their *)
(* calls, each cell holding the position after its move.                   *)
CellsHoldPositions ==
  \A k \in DOMAIN calls : \A s \in held[k].plays : Follows(game, s, calls[k].gp)
=============================================================================
