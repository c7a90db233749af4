------------------------- MODULE MinimaxSolverProofs -------------------------
(***************************************************************************)
(* The nodes of the search share two arrays and never disturb each other,  *)
(* for any games, in any order of the moves and over any number of runs.   *)
(***************************************************************************)
EXTENDS MinimaxSolver, GameTreeProofs, SequenceTheorems

-----------------------------------------------------------------------------
Positions == DOMAIN game.moves
MoveSet == Positions \cup {PassMove, InvalidMove, 0}
NodeSet == [gpx : Int, alpha : Int, beta : Int, best_move : MoveSet, head : Nat, cursor : Nat]

TypeInv ==
  /\ WellFormed(game)
  /\ pc \in {"begin", "for", "entry", "end", "done"}
  /\ active \in 0 .. MaxNodes - 2
  /\ nodes \in [0 .. MaxNodes - 1 -> NodeSet]
  /\ legal_moves \in [0 .. MaxLegalMoves - 1 -> MoveSet]

(* The lists lie in the array in the order of their nodes. *)
HeadsInv ==
  /\ \A j, k \in 1 .. active + 1 : j <= k => nodes[j].head <= nodes[k].head
  /\ \A k \in 1 .. active + 1 : nodes[k].head <= MaxLegalMoves

(* What is in the array for node k. *)
ListInv(k) ==
  LET list == GeneratedMoves(nodes[k].gpx)
  IN  /\ nodes[k].gpx \in Positions
      /\ nodes[k + 1].head = nodes[k].head + Len(list)
      /\ {legal_moves[i] : i \in nodes[k].head .. nodes[k + 1].head - 1} = ToSet(list)
      /\ nodes[k].cursor \in nodes[k].head .. nodes[k + 1].head

(* Node k + 1 is where the move under the cursor of node k leads. *)
PlayInv(k) ==
  /\ nodes[k].cursor < nodes[k + 1].head
  /\ nodes[k + 1].gpx \in Successors(game, nodes[k].gpx)
  /\ legal_moves[nodes[k].cursor] = MoveTo(game, nodes[k].gpx, nodes[k + 1].gpx)

(* What holds at the labels: a node about to be opened is a move away from *)
(* the active one, the loop goes over moves and not over a pass, and the   *)
(* move whose value comes back is still under the cursor.                  *)
LabelInv ==
  /\ pc = "begin" => IF active = 0 THEN nodes[1].gpx = Root ELSE PlayInv(active)
  /\ pc = "for" => /\ active > 0
                   /\ HasLegalMove(game, Current.gpx) \/ Current.cursor = NextNode.head
  /\ pc = "entry" => active > 0 /\ Current.cursor < NextNode.head
  /\ pc = "end" => active > 0

IInv ==
  /\ TypeInv /\ HeadsInv /\ LabelInv
  /\ \A k \in 1 .. active : ListInv(k)
  /\ \A k \in 1 .. active - 1 : PlayInv(k)

-----------------------------------------------------------------------------
(* The list of a position is never empty, and has positions or one pass. *)
LEMMA GeneratedType ==
  ASSUME WellFormed(game), NEW p \in Positions
  PROVE  /\ GeneratedMoves(p) \in Seq(MoveSet)
         /\ Len(GeneratedMoves(p)) \in Nat \ {0}
         /\ DOMAIN GeneratedMoves(p) = 1 .. Len(GeneratedMoves(p))
         /\ \A i, j \in DOMAIN GeneratedMoves(p) :
              i # j => GeneratedMoves(p)[i] # GeneratedMoves(p)[j]
<1>1. CASE HasLegalMove(game, p)
  <2>1. /\ GeneratedMoves(p) = game.moves[p]
        /\ game.moves[p] \in Seq(Positions) /\ game.moves[p] # << >>
        /\ \A i, j \in DOMAIN game.moves[p] : i # j => game.moves[p][i] # game.moves[p][j]
    BY <1>1 DEF GeneratedMoves, HasLegalMove, Legal, WellFormed, Positions
  <2>2. QED
    BY <2>1 DEF MoveSet
<1>2. CASE ~HasLegalMove(game, p)
  BY <1>2 DEF GeneratedMoves, MoveSet
<1>3. QED
  BY <1>1, <1>2

(* The shuffle of the moves is a list of the same moves, as long. *)
LEMMA OrderType ==
  ASSUME WellFormed(game), NEW p \in Positions, NEW list \in MoveOrders(p)
  PROVE  /\ Len(list) = Len(GeneratedMoves(p))
         /\ DOMAIN list = 1 .. Len(list)
         /\ ToSet(list) = ToSet(GeneratedMoves(p))
         /\ \A i \in DOMAIN list : list[i] \in MoveSet
<1> DEFINE moves == GeneratedMoves(p)
<1>1. /\ moves \in Seq(MoveSet) /\ Len(moves) \in Nat /\ DOMAIN moves = 1 .. Len(moves)
      /\ \A i, j \in DOMAIN moves : i # j => moves[i] # moves[j]
  BY GeneratedType
<1>2. ToSet(moves) \subseteq MoveSet
  BY <1>1 DEF ToSet
<1>3. CASE ~RandomizeMoveOrder
  <2>1. list = moves
    BY <1>3 DEF MoveOrders
  <2>2. QED
    BY <1>1, <1>2, <2>1 DEF ToSet
<1>4. CASE RandomizeMoveOrder
  <2> DEFINE S == ToSet(moves)
             n == Len(moves)
  <2>1. moves \in Bijection(1 .. n, S)
    BY <1>1 DEF Bijection, Injection, Surjection, IsInjective, ToSet
  <2>2. IsFiniteSet(S) /\ Cardinality(S) = n
    <3>1. ExistsBijection(1 .. n, S)
      BY <2>1 DEF ExistsBijection
    <3>2. QED
      BY <1>1, <3>1, FS_NatBijection, FS_CountingElements
  <2>3. list \in [1 .. n -> S] /\ \A i, j \in 1 .. n : i # j => list[i] # list[j]
    BY <1>4, <2>2 DEF MoveOrders, SetToSeqs
  <2>4. list \in Seq(S) /\ Len(list) = n
    BY <1>1, <2>3
  <2>5. list \in Surjection(1 .. n, S)
    <3>1. list \in Injection(1 .. n, S)
      BY <2>3 DEF Injection, IsInjective
    <3>2. Cardinality(1 .. n) = n
      BY <1>1, FS_Interval
    <3>3. QED
      BY <2>2, <3>1, <3>2, FS_Injection
  <2>6. ToSet(list) = S
    BY <2>3, <2>5, ZenonT(30) DEF Surjection, ToSet
  <2>7. QED
    BY <1>2, <2>3, <2>4, <2>6
<1>5. QED
  BY <1>3, <1>4

(* The positions that follow one, by a move or by a pass. *)
LEMMA SuccessorsType ==
  ASSUME WellFormed(game), NEW p \in Positions
  PROVE  /\ Successors(game, p) \subseteq Positions
         /\ HasLegalMove(game, p) => Successors(game, p) = ToSet(GeneratedMoves(p))
         /\ ~HasLegalMove(game, p) => ToSet(GeneratedMoves(p)) = {PassMove}
         /\ ~HasLegalMove(game, p) => Len(GeneratedMoves(p)) = 1
         /\ ~HasLegalMove(game, p) /\ ~IsTerminal(game, p) => Successors(game, p) = {Passed(p)}
<1>1. game.moves[p] \in Seq(Positions) /\ Passed(p) \in Positions
  BY DEF WellFormed, Positions
<1>2. CASE HasLegalMove(game, p)
  <2>1. GeneratedMoves(p) = game.moves[p]
    BY <1>2 DEF GeneratedMoves, Legal
  <2>2. Successors(game, p) = ToSet(game.moves[p])
    BY <1>1, <1>2 DEF Successors, IsTerminal, ToSet
  <2>3. ToSet(game.moves[p]) \subseteq Positions
    BY <1>1 DEF ToSet
  <2>4. QED
    BY <1>2, <2>1, <2>2, <2>3
<1>3. CASE ~HasLegalMove(game, p)
  BY <1>1, <1>3 DEF Successors, GeneratedMoves, ToSet
<1>4. QED
  BY <1>2, <1>3

-----------------------------------------------------------------------------
(* A node keeps its list while nobody moves its head or the next one. *)
LEMMA ListKept ==
  ASSUME NEW k, ListInv(k), UNCHANGED game,
         nodes'[k].gpx = nodes[k].gpx, nodes'[k].head = nodes[k].head,
         nodes'[k + 1].head = nodes[k + 1].head,
         nodes'[k].cursor \in nodes[k].head .. nodes[k + 1].head,
         \A i \in nodes[k].head .. nodes[k + 1].head - 1 : legal_moves'[i] = legal_moves[i]
  PROVE  ListInv(k)'
<1>1. GeneratedMoves(nodes[k].gpx)' = GeneratedMoves(nodes[k].gpx)
  BY DEF GeneratedMoves, HasLegalMove, Legal
<1>2. Positions' = Positions
  BY DEF Positions
<1>3. {legal_moves'[i] : i \in nodes[k].head .. nodes[k + 1].head - 1}
        = {legal_moves[i] : i \in nodes[k].head .. nodes[k + 1].head - 1}
  OBVIOUS
<1>4. QED
  BY <1>1, <1>2, <1>3 DEF ListInv

(* A node keeps its place in the play. *)
LEMMA PlayKept ==
  ASSUME NEW k, PlayInv(k), UNCHANGED game,
         nodes'[k].gpx = nodes[k].gpx, nodes'[k].cursor = nodes[k].cursor,
         nodes'[k + 1].head = nodes[k + 1].head, nodes'[k + 1].gpx = nodes[k + 1].gpx,
         legal_moves'[nodes[k].cursor] = legal_moves[nodes[k].cursor]
  PROVE  PlayInv(k)'
  BY DEF PlayInv, Successors, IsTerminal, HasLegalMove, MoveTo

(* The slots of the array that the lists below a node take. *)
LEMMA SlotsBelow ==
  ASSUME IInv
  PROVE  /\ \A k \in 1 .. active + 1 : nodes[k] \in NodeSet
         /\ \A k \in 1 .. active : \A i \in nodes[k].head .. nodes[k + 1].head - 1 :
              i \in 0 .. MaxLegalMoves - 1 /\ i < nodes[active + 1].head
<1>1. \A k \in 1 .. active + 1 : k \in 0 .. MaxNodes - 1
  BY SolverAssumption DEF IInv, TypeInv
<1>2. \A k \in 1 .. active + 1 : nodes[k] \in NodeSet
  BY <1>1 DEF IInv, TypeInv
<1>3. ASSUME NEW k \in 1 .. active, NEW i \in nodes[k].head .. nodes[k + 1].head - 1
      PROVE  i \in 0 .. MaxLegalMoves - 1 /\ i < nodes[active + 1].head
  <2>1. /\ active \in Nat /\ MaxLegalMoves \in Nat
        /\ k \in 1 .. active + 1 /\ k + 1 \in 1 .. active + 1 /\ active + 1 \in 1 .. active + 1
    BY SolverAssumption DEF IInv, TypeInv
  <2>2. nodes[k].head \in Nat /\ nodes[k + 1].head \in Nat /\ nodes[active + 1].head \in Nat
    BY <1>2, <2>1 DEF NodeSet
  <2>3. nodes[k + 1].head <= nodes[active + 1].head /\ nodes[k + 1].head <= MaxLegalMoves
    BY <2>1 DEF IInv, HeadsInv
  <2>4. QED
    BY <2>1, <2>2, <2>3
<1>4. QED
  BY <1>2, <1>3

(* The move under the cursor of the active node. *)
LEMMA MoveAtCursor ==
  ASSUME IInv, active > 0, Current.cursor < NextNode.head
  PROVE  /\ Current.cursor \in 0 .. MaxLegalMoves - 1
         /\ legal_moves[Current.cursor] \in MoveSet
         /\ legal_moves[Current.cursor] \in ToSet(GeneratedMoves(Current.gpx))
<1>1. active \in 1 .. active /\ active + 1 \in 1 .. active + 1 /\ active \in 1 .. active + 1
  BY DEF IInv, TypeInv
<1>2. ListInv(active) /\ Current \in NodeSet /\ NextNode \in NodeSet
  BY <1>1, SlotsBelow DEF IInv, Current, NextNode
<1>3. Current.cursor \in Current.head .. NextNode.head - 1
  BY <1>2 DEF ListInv, Current, NextNode, NodeSet
<1>4. Current.cursor \in 0 .. MaxLegalMoves - 1
  BY <1>1, <1>3, SlotsBelow DEF Current, NextNode
<1>5. QED
  BY <1>2, <1>3, <1>4 DEF ListInv, Current, NextNode, IInv, TypeInv

-----------------------------------------------------------------------------
LEMMA InitIInv == Init => IInv
<1> SUFFICES ASSUME Init PROVE IInv
  OBVIOUS
<1>1. WellFormed(game) /\ Root \in Positions /\ Positions \subseteq Int
  BY SolverAssumption DEF Init, WellFormed, Positions
<1>2. Passed(Root) \in Int /\ OutOfRangeDefeatScore \in Int /\ -OutOfRangeDefeatScore \in Int
  BY SolverAssumption DEF Passed, Root, OutOfRangeDefeatScore, WorstScore
<1> DEFINE fresh == [i \in 0 .. MaxNodes - 1 |-> FreshNode]
<1>3. fresh \in [0 .. MaxNodes - 1 -> NodeSet]
  BY DEF FreshNode, NodeSet, MoveSet
<1>4. /\ nodes \in [0 .. MaxNodes - 1 -> NodeSet]
      /\ nodes[1].gpx = Root /\ nodes[1].head = 0
  <2>1. nodes = InitStack(fresh)
    BY DEF Init
  <2>2. 0 \in 0 .. MaxNodes - 1 /\ 1 \in 0 .. MaxNodes - 1
    BY SolverAssumption
  <2>3. QED
    BY <1>1, <1>2, <1>3, <2>1, <2>2, ZenonT(30) DEF InitStack, InitNode, NodeSet, MoveSet
<1>5. active = 0 /\ active \in 0 .. MaxNodes - 2 /\ pc = "begin"
  BY SolverAssumption DEF Init
<1>6. legal_moves \in [0 .. MaxLegalMoves - 1 -> MoveSet]
  BY DEF Init, MoveSet
<1>7. TypeInv
  BY <1>1, <1>4, <1>5, <1>6 DEF TypeInv
<1>8. HeadsInv
  BY <1>4, <1>5, SolverAssumption DEF HeadsInv
<1>9. LabelInv
  BY <1>4, <1>5 DEF LabelInv
<1>10. QED
  BY <1>5, <1>7, <1>8, <1>9 DEF IInv

(* What begin makes of the new node and the one above it. *)
LEMMA OpenedNodes ==
  ASSUME TypeInv, NEW c \in 1 .. MaxNodes - 2, NEW node \in NodeSet, node.gpx \in Positions,
         NEW list \in MoveOrders(node.gpx)
  PROVE  LET new == Opened(c, node, list)
         IN  /\ new \in [0 .. MaxNodes - 1 -> NodeSet]
             /\ \A k \in 0 .. MaxNodes - 1 : k # c /\ k # c + 1 => new[k] = nodes[k]
             /\ new[c].gpx = node.gpx /\ new[c].head = node.head /\ new[c].cursor = node.head
             /\ new[c].beta = node.beta
             /\ new[c].alpha = IF IsTerminal(game, node.gpx) THEN FinalValue(game, node.gpx)
                               ELSE node.alpha
             /\ IsTerminal(game, node.gpx) => new[c].best_move = InvalidMove
             /\ new[c + 1].head = node.head + Len(list)
             /\ ~IsTerminal(game, node.gpx) /\ (RandomSampler \/ ~HasLegalMove(game, node.gpx)) =>
                  new[c + 1].gpx = IF list[1] = PassMove THEN Passed(node.gpx) ELSE list[1]
<1> DEFINE above == [nodes[c + 1] EXCEPT !.head = node.head + Len(list)]
           opened == [node EXCEPT !.cursor = node.head]
           finished == [opened EXCEPT !.best_move = InvalidMove,
                                      !.alpha = FinalValue(game, node.gpx)]
<1>1. /\ WellFormed(game) /\ nodes \in [0 .. MaxNodes - 1 -> NodeSet]
      /\ c \in 0 .. MaxNodes - 1 /\ c + 1 \in 0 .. MaxNodes - 1 /\ c # c + 1
  BY SolverAssumption DEF TypeInv
<1>2. Len(list) \in Nat
  BY <1>1, GeneratedType, OrderType
<1>3. above \in NodeSet /\ above.head = node.head + Len(list)
  <2>1. nodes[c + 1] \in NodeSet /\ node.head + Len(list) \in Nat
    BY <1>1, <1>2, SMTT(30) DEF NodeSet
  <2>2. QED
    BY <2>1 DEF NodeSet
<1>4. /\ opened \in NodeSet
      /\ opened.gpx = node.gpx /\ opened.head = node.head /\ opened.cursor = node.head
      /\ opened.alpha = node.alpha /\ opened.beta = node.beta
  BY DEF NodeSet
<1>5. /\ finished \in NodeSet
      /\ finished.gpx = node.gpx /\ finished.head = node.head /\ finished.cursor = node.head
      /\ finished.alpha = FinalValue(game, node.gpx) /\ finished.beta = node.beta
      /\ finished.best_move = InvalidMove
  <2>1. FinalValue(game, node.gpx) \in Int /\ InvalidMove \in MoveSet
    BY <1>1 DEF MoveSet, WellFormed, FinalValue, Positions, WorstScore
  <2> HIDE DEF opened
  <2>2. QED
    BY <1>4, <2>1 DEF NodeSet
<1>6. Passed(node.gpx) \in Int
  BY DEF Passed, NodeSet
<1>7. \A q \in Int : /\ [above EXCEPT !.gpx = q] \in NodeSet
                     /\ [above EXCEPT !.gpx = q].head = above.head
                     /\ [above EXCEPT !.gpx = q].gpx = q
  BY <1>3 DEF NodeSet
<1>8. CASE IsTerminal(game, node.gpx)
  <2>1. Opened(c, node, list)
          = [nodes EXCEPT ![c] = finished, ![c + 1] = [above EXCEPT !.gpx = Passed(node.gpx)]]
    BY <1>8 DEF Opened
  <2>2. QED
    BY <1>1, <1>3, <1>5, <1>6, <1>7, <1>8, <2>1
<1>9. CASE ~IsTerminal(game, node.gpx) /\ HasLegalMove(game, node.gpx) /\ ~RandomSampler
  <2>1. Opened(c, node, list) = [nodes EXCEPT ![c] = opened, ![c + 1] = above]
    BY <1>9 DEF Opened
  <2>2. QED
    BY <1>1, <1>3, <1>4, <1>9, <2>1
<1>10. CASE ~IsTerminal(game, node.gpx) /\ (RandomSampler \/ ~HasLegalMove(game, node.gpx))
  <2> DEFINE q == IF list[1] = PassMove THEN Passed(node.gpx) ELSE list[1]
  <2>1. q \in Int
    <3>1. list[1] \in ToSet(GeneratedMoves(node.gpx))
      <4>1. 1 \in DOMAIN list /\ ToSet(list) = ToSet(GeneratedMoves(node.gpx))
        BY <1>1, GeneratedType, OrderType
      <4>2. QED
        BY <4>1 DEF ToSet
    <3>2. ToSet(GeneratedMoves(node.gpx)) \subseteq Positions \cup {PassMove}
      BY <1>1, SuccessorsType
    <3>3. QED
      BY <1>1, <1>6, <3>1, <3>2 DEF WellFormed, Positions
  <2>2. Opened(c, node, list) = [nodes EXCEPT ![c] = opened, ![c + 1] = [above EXCEPT !.gpx = q]]
    BY <1>10 DEF Opened
  <2>3. QED
    BY <1>1, <1>3, <1>4, <1>7, <1>10, <2>1, <2>2, ZenonT(30)
<1>11. QED
  BY <1>8, <1>9, <1>10

(* The position of the node that begin opens. *)
LEMMA NextPosition ==
  ASSUME IInv, pc = "begin"
  PROVE  NextNode.gpx \in Positions
<1>1. CASE active = 0
  BY <1>1 DEF IInv, LabelInv, TypeInv, WellFormed, Positions, NextNode
<1>2. CASE active # 0
  <2>1. active \in 1 .. active
    BY <1>2 DEF IInv, TypeInv
  <2>2. PlayInv(active) /\ ListInv(active)
    BY <1>2, <2>1 DEF IInv, LabelInv
  <2>3. nodes[active].gpx \in Positions /\ NextNode.gpx \in Successors(game, nodes[active].gpx)
    BY <2>2 DEF PlayInv, ListInv, NextNode
  <2>4. QED
    BY <2>3, SuccessorsType DEF IInv, TypeInv
<1>3. QED
  BY <1>1, <1>2

(* The window is all that a node takes from the one below. *)
LEMMA WindowType ==
  ASSUME SolverAssumption, NEW node \in NodeSet, NEW below \in NodeSet
  PROVE  /\ WithWindow(node, below) \in NodeSet
         /\ WithWindow(node, below).gpx = node.gpx
         /\ WithWindow(node, below).head = node.head
         /\ ~RandomSampler =>
              IF AlphaBetaPruning
              THEN WithWindow(node, below).alpha = -below.beta
                   /\ WithWindow(node, below).beta = -below.alpha
              ELSE WithWindow(node, below).alpha = OutOfRangeDefeatScore
<1>1. OutOfRangeDefeatScore \in Int
  BY SolverAssumption DEF OutOfRangeDefeatScore, WorstScore
<1>2. -below.alpha \in Int /\ -below.beta \in Int
  BY DEF NodeSet
<1>3. QED
  BY <1>1, <1>2 DEF WithWindow, NodeSet

(* The node that begin makes the active one, with its window. *)
NewNode == WithWindow(nodes[active + 1], Current)

(* What begin changes: the two nodes above the active one, and the slots   *)
(* of the array from the head of the new node up.                          *)
LEMMA BeginStep ==
  ASSUME IInv, Begin
  PROVE  /\ active' = active + 1 /\ UNCHANGED <<game, solver, solution>>
         /\ active + 1 \in 1 .. MaxNodes - 2
         /\ nodes[active + 1] \in NodeSet /\ Current \in NodeSet
         /\ NewNode \in NodeSet
         /\ NewNode.gpx = nodes[active + 1].gpx /\ NewNode.head = nodes[active + 1].head
         /\ NewNode.gpx \in Positions
         /\ nodes' \in [0 .. MaxNodes - 1 -> NodeSet]
         /\ \A k \in 0 .. MaxNodes - 1 : k # active + 1 /\ k # active + 2 => nodes'[k] = nodes[k]
         /\ LET new == nodes'[active + 1]
            IN  /\ new.gpx = NewNode.gpx /\ new.head = NewNode.head /\ new.cursor = NewNode.head
                /\ new.beta = NewNode.beta
                /\ new.alpha = IF IsTerminal(game, NewNode.gpx) THEN FinalValue(game, NewNode.gpx)
                               ELSE NewNode.alpha
                /\ IsTerminal(game, NewNode.gpx) => new.best_move = InvalidMove
         /\ pc' = IF IsTerminal(game, NewNode.gpx) THEN "end"
                  ELSE IF HasLegalMove(game, NewNode.gpx) /\ ~RandomSampler THEN "for" ELSE "begin"
         /\ legal_moves' \in [0 .. MaxLegalMoves - 1 -> MoveSet]
         /\ \A k \in 1 .. active : \A i \in nodes[k].head .. nodes[k + 1].head - 1 :
              legal_moves'[i] = legal_moves[i]
         /\ \E list :
              /\ Len(list) = Len(GeneratedMoves(NewNode.gpx)) /\ Len(list) \in Nat \ {0}
              /\ DOMAIN list = 1 .. Len(list)
              /\ ToSet(list) = ToSet(GeneratedMoves(NewNode.gpx))
              /\ NewNode.head + Len(list) <= MaxLegalMoves
              /\ nodes'[active + 2].head = NewNode.head + Len(list)
              /\ ~IsTerminal(game, NewNode.gpx)
                   /\ (RandomSampler \/ ~HasLegalMove(game, NewNode.gpx)) =>
                     nodes'[active + 2].gpx = IF list[1] = PassMove THEN Passed(NewNode.gpx)
                                              ELSE list[1]
              /\ \A i \in NewNode.head .. NewNode.head + Len(list) - 1 :
                   legal_moves'[i] = list[i - NewNode.head + 1]
<1>0. PICK c : c = active + 1
  OBVIOUS
<1> DEFINE node == NewNode
<1>1. PICK list \in MoveOrders(node.gpx) :
        /\ node.head + Len(list) <= MaxLegalMoves
        /\ nodes' = Opened(c, node, list)
        /\ legal_moves' = Stored(list, node.head)
        /\ active' = c
        /\ pc' = IF IsTerminal(game, node.gpx) THEN "end"
                 ELSE IF HasLegalMove(game, node.gpx) /\ ~RandomSampler THEN "for" ELSE "begin"
  BY <1>0 DEF Begin, NewNode
<1>2. /\ active \in Nat /\ c \in 1 .. MaxNodes - 2 /\ c + 1 = active + 2
      /\ pc = "begin" /\ UNCHANGED <<game, solver, solution>>
      /\ TypeInv /\ MaxNodes \in Nat /\ MaxLegalMoves \in Nat
  BY <1>0, SolverAssumption DEF Begin, IInv, TypeInv
<1>3. nodes[c] \in NodeSet /\ Current \in NodeSet
  BY <1>0, <1>2 DEF TypeInv, Current
<1>4. node \in NodeSet /\ node.gpx = nodes[c].gpx /\ node.head = nodes[c].head
  BY <1>0, <1>3, WindowType, SolverAssumption DEF NewNode
<1>5. node.gpx \in Positions
  BY <1>0, <1>2, <1>4, NextPosition DEF NextNode
<1> HIDE DEF node
<1>6. /\ Len(list) = Len(GeneratedMoves(node.gpx)) /\ Len(list) \in Nat \ {0}
      /\ DOMAIN list = 1 .. Len(list)
      /\ ToSet(list) = ToSet(GeneratedMoves(node.gpx))
      /\ \A i \in DOMAIN list : list[i] \in MoveSet
  BY <1>2, <1>5, GeneratedType, OrderType DEF TypeInv
<1>7. /\ nodes' \in [0 .. MaxNodes - 1 -> NodeSet]
      /\ \A k \in 0 .. MaxNodes - 1 : k # c /\ k # c + 1 => nodes'[k] = nodes[k]
      /\ nodes'[c].gpx = node.gpx /\ nodes'[c].head = node.head /\ nodes'[c].cursor = node.head
      /\ nodes'[c].beta = node.beta
      /\ nodes'[c].alpha = IF IsTerminal(game, node.gpx) THEN FinalValue(game, node.gpx)
                           ELSE node.alpha
      /\ IsTerminal(game, node.gpx) => nodes'[c].best_move = InvalidMove
      /\ nodes'[c + 1].head = node.head + Len(list)
      /\ ~IsTerminal(game, node.gpx) /\ (RandomSampler \/ ~HasLegalMove(game, node.gpx)) =>
           nodes'[c + 1].gpx = IF list[1] = PassMove THEN Passed(node.gpx) ELSE list[1]
  BY <1>1, <1>2, <1>4, <1>5, OpenedNodes
<1>8. /\ legal_moves' \in [0 .. MaxLegalMoves - 1 -> MoveSet]
      /\ \A i \in 0 .. MaxLegalMoves - 1 : i < node.head => legal_moves'[i] = legal_moves[i]
      /\ \A i \in node.head .. node.head + Len(list) - 1 : legal_moves'[i] = list[i - node.head + 1]
  <2>1. node.head \in Nat /\ Len(list) \in Nat
    BY <1>4, <1>6 DEF NodeSet
  <2>2. DOMAIN legal_moves = 0 .. MaxLegalMoves - 1
    BY <1>2 DEF TypeInv
  <2>3. legal_moves' = [i \in 0 .. MaxLegalMoves - 1 |->
                          IF i \in node.head .. node.head + Len(list) - 1
                          THEN list[i - node.head + 1] ELSE legal_moves[i]]
    BY <1>1, <2>2 DEF Stored
  <2>4. \A i \in node.head .. node.head + Len(list) - 1 :
          i \in 0 .. MaxLegalMoves - 1 /\ i - node.head + 1 \in DOMAIN list
    BY <1>1, <1>2, <1>6, <2>1
  <2>5. \A i \in 0 .. MaxLegalMoves - 1 : legal_moves[i] \in MoveSet
    BY <1>2 DEF TypeInv
  <2>6. QED
    BY <1>6, <2>1, <2>3, <2>4, <2>5
<1>9. \A k \in 1 .. active : \A i \in nodes[k].head .. nodes[k + 1].head - 1 :
        legal_moves'[i] = legal_moves[i]
  BY <1>0, <1>4, <1>8, SlotsBelow
<1>10. /\ node \in NodeSet /\ nodes[c] \in NodeSet /\ active' = c
       /\ pc' = IF IsTerminal(game, node.gpx) THEN "end"
                ELSE IF HasLegalMove(game, node.gpx) /\ ~RandomSampler THEN "for" ELSE "begin"
       /\ node.head + Len(list) <= MaxLegalMoves
  BY <1>1, <1>3, <1>4
<1>11. \E l :
         /\ Len(l) = Len(GeneratedMoves(node.gpx)) /\ Len(l) \in Nat \ {0}
         /\ DOMAIN l = 1 .. Len(l)
         /\ ToSet(l) = ToSet(GeneratedMoves(node.gpx))
         /\ node.head + Len(l) <= MaxLegalMoves
         /\ nodes'[active + 2].head = node.head + Len(l)
         /\ ~IsTerminal(game, node.gpx) /\ (RandomSampler \/ ~HasLegalMove(game, node.gpx)) =>
              nodes'[active + 2].gpx = IF l[1] = PassMove THEN Passed(node.gpx) ELSE l[1]
         /\ \A i \in node.head .. node.head + Len(l) - 1 : legal_moves'[i] = l[i - node.head + 1]
  BY <1>2, <1>6, <1>7, <1>8, <1>10, ZenonT(30)
<1>12. /\ active' = active + 1 /\ UNCHANGED <<game, solver, solution>>
       /\ active + 1 \in 1 .. MaxNodes - 2
       /\ nodes[active + 1] \in NodeSet /\ Current \in NodeSet
       /\ node \in NodeSet
       /\ node.gpx = nodes[active + 1].gpx /\ node.head = nodes[active + 1].head
  BY <1>0, <1>2, <1>3, <1>4, <1>10
<1>13. /\ \A k \in 0 .. MaxNodes - 1 : k # active + 1 /\ k # active + 2 => nodes'[k] = nodes[k]
       /\ LET new == nodes'[active + 1]
          IN  /\ new.gpx = node.gpx /\ new.head = node.head /\ new.cursor = node.head
              /\ new.beta = node.beta
              /\ new.alpha = IF IsTerminal(game, node.gpx) THEN FinalValue(game, node.gpx)
                             ELSE node.alpha
              /\ IsTerminal(game, node.gpx) => new.best_move = InvalidMove
  BY <1>0, <1>2, <1>7
<1>14. QED
  BY <1>5, <1>7, <1>8, <1>9, <1>10, <1>11, <1>12, <1>13 DEF node

(* A new node writes its list above all the others. *)
LEMMA BeginIInv == IInv /\ Begin => IInv'
<1> SUFFICES ASSUME IInv, Begin PROVE IInv'
  OBVIOUS
<1>0. PICK c : c = active + 1
  OBVIOUS
<1> DEFINE node == NewNode
<1>1. PICK list :
        /\ Len(list) = Len(GeneratedMoves(node.gpx)) /\ Len(list) \in Nat \ {0}
        /\ DOMAIN list = 1 .. Len(list)
        /\ ToSet(list) = ToSet(GeneratedMoves(node.gpx))
        /\ node.head + Len(list) <= MaxLegalMoves
        /\ nodes'[active + 2].head = node.head + Len(list)
        /\ ~IsTerminal(game, node.gpx) /\ (RandomSampler \/ ~HasLegalMove(game, node.gpx)) =>
             nodes'[active + 2].gpx = IF list[1] = PassMove THEN Passed(node.gpx) ELSE list[1]
        /\ \A i \in node.head .. node.head + Len(list) - 1 :
             legal_moves'[i] = list[i - node.head + 1]
  BY BeginStep
<1>2. /\ active \in Nat /\ c \in 1 .. MaxNodes - 2 /\ c \in 1 .. active + 1 /\ c + 1 = active + 2
      /\ active' = c /\ pc = "begin" /\ UNCHANGED <<game, solver>>
      /\ TypeInv /\ MaxNodes \in Nat /\ MaxLegalMoves \in Nat
  BY <1>0, BeginStep, SolverAssumption DEF IInv, TypeInv, Begin
<1>4. /\ node \in NodeSet /\ node.gpx = nodes[c].gpx /\ node.head = nodes[c].head
      /\ node.gpx \in Positions
  BY <1>0, BeginStep
<1>7. /\ nodes' \in [0 .. MaxNodes - 1 -> NodeSet]
      /\ \A k \in 0 .. MaxNodes - 1 : k # c /\ k # c + 1 => nodes'[k] = nodes[k]
      /\ nodes'[c].gpx = node.gpx /\ nodes'[c].head = node.head /\ nodes'[c].cursor = node.head
      /\ nodes'[c + 1].head = node.head + Len(list)
      /\ ~IsTerminal(game, node.gpx) /\ (RandomSampler \/ ~HasLegalMove(game, node.gpx)) =>
           nodes'[c + 1].gpx = IF list[1] = PassMove THEN Passed(node.gpx) ELSE list[1]
  BY <1>0, <1>1, <1>2, BeginStep
<1>8. /\ legal_moves' \in [0 .. MaxLegalMoves - 1 -> MoveSet]
      /\ pc' = IF IsTerminal(game, node.gpx) THEN "end"
               ELSE IF HasLegalMove(game, node.gpx) /\ ~RandomSampler THEN "for" ELSE "begin"
  BY BeginStep
<1>11. \A k \in 1 .. active : \A i \in nodes[k].head .. nodes[k + 1].head - 1 :
         legal_moves'[i] = legal_moves[i]
  BY BeginStep
<1> HIDE DEF node
<1>9. TypeInv'
  <2>1. WellFormed(game)'
    BY <1>2 DEF TypeInv, WellFormed, Passed
  <2>2. MoveSet' = MoveSet /\ NodeSet' = NodeSet
    BY <1>2 DEF MoveSet, NodeSet, Positions
  <2>3. active' \in 0 .. MaxNodes - 2
    BY <1>1, <1>2, <1>8
  <2>4. QED
    BY <1>2, <1>7, <1>8, <2>1, <2>2, <2>3 DEF TypeInv
<1>10. HeadsInv'
  <2>1. \A k \in 1 .. active : nodes'[k].head = nodes[k].head
    BY <1>0, <1>2, <1>7
  <2>2. \A k \in 1 .. c : nodes'[k].head = nodes[k].head /\ nodes[k].head <= node.head
    BY <1>0, <1>2, <1>4, <1>7, <2>1 DEF IInv, HeadsInv
  <2>3. \A k \in 1 .. c : nodes[k].head \in Nat
    BY <1>0, SlotsBelow DEF NodeSet
  <2>4. ASSUME NEW j \in 1 .. c + 1, NEW k \in 1 .. c + 1, j <= k
        PROVE  nodes'[j].head <= nodes'[k].head
    <3>1. CASE k = c + 1
      <4>1. j = c + 1 \/ j \in 1 .. c
        BY <1>2
      <4>2. node.head \in Nat
        BY <1>4 DEF NodeSet
      <4>3. QED
        BY <1>1, <1>7, <2>2, <2>3, <3>1, <4>1, <4>2
    <3>2. CASE k # c + 1
      <4>1. j \in 1 .. c /\ k \in 1 .. c
        BY <1>2, <2>4, <3>2
      <4>2. QED
        BY <1>0, <2>2, <2>4, <4>1 DEF IInv, HeadsInv
    <3>3. QED
      BY <3>1, <3>2
  <2>5. \A k \in 1 .. c + 1 : nodes'[k].head <= MaxLegalMoves
    <3>1. \A k \in 1 .. c : nodes'[k].head <= MaxLegalMoves
      BY <1>0, <2>2 DEF IInv, HeadsInv
    <3>2. \A k \in 1 .. c + 1 : k \in 1 .. c \/ k = c + 1
      BY <1>2
    <3>3. QED
      BY <1>1, <1>2, <1>7, <1>8, <3>1, <3>2
  <2>6. QED
    BY <1>1, <1>2, <1>8, <2>4, <2>5 DEF HeadsInv
<1>12. ASSUME NEW k \in 1 .. active PROVE ListInv(k)'
  <2>1. nodes'[k] = nodes[k]
    BY <1>0, <1>2, <1>7
  <2>2. nodes'[k + 1].head = nodes[k + 1].head
    <3>1. k + 1 = c \/ (k + 1 \in 0 .. MaxNodes - 1 /\ k + 1 # c /\ k + 1 # c + 1)
      BY <1>0, <1>2
    <3>2. QED
      BY <1>4, <1>7, <3>1
  <2>3. ListInv(k) /\ nodes[k].cursor \in nodes[k].head .. nodes[k + 1].head
    BY DEF IInv, ListInv
  <2>4. QED
    BY <1>2, <1>11, <2>1, <2>2, <2>3, ListKept
<1>13. ListInv(c)'
  <2>1. GeneratedMoves(nodes[c].gpx)' = GeneratedMoves(node.gpx)
    BY <1>2, <1>7 DEF GeneratedMoves, HasLegalMove, Legal
  <2>2. node.head \in Nat /\ Len(list) \in Nat
    BY <1>1, <1>4 DEF NodeSet
  <2>3. {legal_moves'[i] : i \in node.head .. node.head + Len(list) - 1} = ToSet(list)
    <3>1. \A i \in node.head .. node.head + Len(list) - 1 : i - node.head + 1 \in 1 .. Len(list)
      BY <2>2
    <3>2. \A j \in 1 .. Len(list) : /\ j + node.head - 1 \in node.head .. node.head + Len(list) - 1
                                    /\ (j + node.head - 1) - node.head + 1 = j
      BY <2>2
    <3>3. \A j \in 1 .. Len(list) : legal_moves'[j + node.head - 1] = list[j]
      BY <1>1, <3>2
    <3>4. QED
      BY <1>1, <1>8, <3>1, <3>2, <3>3 DEF ToSet
  <2>4. /\ nodes'[c].gpx \in Positions' /\ nodes'[c].gpx = node.gpx
        /\ nodes'[c].cursor \in nodes'[c].head .. nodes'[c + 1].head
    BY <1>1, <1>2, <1>4, <1>7, <2>2 DEF Positions
  <2>5. nodes'[c + 1].head = nodes'[c].head + Len(GeneratedMoves(nodes[c].gpx)')
    BY <1>1, <1>7, <2>1
  <2>6. QED
    BY <1>1, <1>7, <2>1, <2>3, <2>4, <2>5 DEF ListInv
<1>14. ASSUME NEW k \in 1 .. active PROVE PlayInv(k)'
  <2>1. PlayInv(k)
    <3>1. k \in 1 .. active - 1 \/ (active # 0 /\ k = active)
      BY <1>2
    <3>2. QED
      BY <1>2, <3>1 DEF IInv, LabelInv
  <2>2. nodes'[k] = nodes[k]
    BY <1>0, <1>2, <1>7
  <2>3. nodes'[k + 1].head = nodes[k + 1].head /\ nodes'[k + 1].gpx = nodes[k + 1].gpx
    <3>1. k + 1 = c \/ (k + 1 \in 0 .. MaxNodes - 1 /\ k + 1 # c /\ k + 1 # c + 1)
      BY <1>0, <1>2
    <3>2. QED
      BY <1>4, <1>7, <3>1
  <2>4. nodes[k].cursor \in nodes[k].head .. nodes[k + 1].head - 1
    <3>1. k \in 1 .. active + 1 /\ k + 1 \in 1 .. active + 1
      BY <1>2
    <3>2. nodes[k].head \in Nat /\ nodes[k + 1].head \in Nat
      BY <3>1, SlotsBelow DEF NodeSet
    <3>3. nodes[k].cursor \in nodes[k].head .. nodes[k + 1].head
      BY DEF IInv, ListInv
    <3>4. QED
      BY <2>1, <3>2, <3>3 DEF PlayInv
  <2>5. QED
    BY <1>2, <1>11, <2>1, <2>2, <2>3, <2>4, PlayKept
<1>15. LabelInv'
  <2>1. c # 0
    BY <1>2
  <2>2. CASE pc' = "end"
    BY <1>1, <1>2, <1>8, <2>2 DEF LabelInv
  <2>3. CASE pc' = "for"
    BY <1>1, <1>2, <1>7, <1>8, <2>3 DEF LabelInv, Current, HasLegalMove
  <2>4. CASE pc' = "begin"
    <3> DEFINE q == IF list[1] = PassMove THEN Passed(node.gpx) ELSE list[1]
    <3>1. ~IsTerminal(game, node.gpx) /\ (RandomSampler \/ ~HasLegalMove(game, node.gpx))
      BY <1>1, <1>2, <1>8, <2>4
    <3>2. nodes'[c + 1].gpx = q
      BY <1>7, <3>1
    <3>3. list[1] \in ToSet(GeneratedMoves(node.gpx))
      <4>1. 1 \in DOMAIN list
        BY <1>1
      <4>2. QED
        BY <1>1, <4>1 DEF ToSet
    <3>4. q \in Successors(game, node.gpx) /\ list[1] = MoveTo(game, node.gpx, q)
      <4>1. PassMove \notin Positions
        BY <1>2 DEF TypeInv, WellFormed, Positions
      <4>2. QED
        BY <1>2, <1>4, <3>1, <3>3, <4>1, SuccessorsType DEF TypeInv, MoveTo
    <3>5. node.head \in Nat /\ legal_moves'[node.head] = list[1]
      <4>1. node.head \in Nat /\ Len(list) \in Nat \ {0}
        BY <1>1, <1>4 DEF NodeSet
      <4>2. node.head \in node.head .. node.head + Len(list) - 1 /\ node.head - node.head + 1 = 1
        BY <4>1
      <4>3. QED
        BY <1>1, <4>1, <4>2
    <3>6. PlayInv(c)'
      BY <1>1, <1>2, <1>7, <3>2, <3>4, <3>5
         DEF PlayInv, Successors, IsTerminal, HasLegalMove, MoveTo
    <3>7. QED
      BY <1>1, <1>2, <1>8, <2>1, <2>4, <3>6 DEF LabelInv
  <2>5. QED
    BY <1>1, <1>2, <1>8, <2>2, <2>3, <2>4
<1>16. \A k \in 1 .. active' : ListInv(k)'
  <2>1. \A k \in 1 .. c : k \in 1 .. active \/ k = c
    BY <1>0, <1>2
  <2>2. QED
    BY <1>1, <1>2, <1>8, <1>12, <1>13, <2>1
<1>17. \A k \in 1 .. active' - 1 : PlayInv(k)'
  BY <1>0, <1>1, <1>2, <1>8, <1>14
<1>18. QED
  BY <1>9, <1>10, <1>15, <1>16, <1>17 DEF IInv

LEMMA NodesBelow ==
  ASSUME NEW a \in Nat \ {0}, NEW b \in {a, a - 1}, NEW k \in 1 .. b - 1
  PROVE  k \in 1 .. a - 1 /\ k + 1 \in 1 .. a /\ k \in 1 .. a /\ k + 1 \in 1 .. a + 1
  OBVIOUS

(* A step that leaves every head and the array alone, and of the positions *)
(* and cursors at most the next position and the active cursor.            *)
LEMMA FrameIInv ==
  ASSUME IInv, UNCHANGED <<game, solver, legal_moves>>,
         active \in Nat \ {0},
         active' \in {active, active - 1},
         pc' \in {"begin", "for", "entry", "end"},
         nodes' \in [0 .. MaxNodes - 1 -> NodeSet],
         \A k \in 1 .. active + 1 : nodes'[k].head = nodes[k].head,
         \A k \in 1 .. active : nodes'[k].gpx = nodes[k].gpx,
         \A k \in 1 .. active - 1 : nodes'[k].cursor = nodes[k].cursor,
         nodes'[active].cursor \in nodes[active].head .. nodes[active + 1].head,
         LabelInv'
  PROVE  IInv'
<1>0. active' \in Nat /\ active' <= active
  OBVIOUS
<1>1. TypeInv'
  <2>1. WellFormed(game)'
    BY DEF IInv, TypeInv, WellFormed, Passed
  <2>2. MoveSet' = MoveSet /\ NodeSet' = NodeSet
    BY DEF MoveSet, NodeSet, Positions
  <2>3. active' \in 0 .. MaxNodes - 2
    BY <1>0, SolverAssumption DEF IInv, TypeInv
  <2>4. QED
    BY <2>1, <2>2, <2>3 DEF IInv, TypeInv
<1>2. \A k \in 1 .. active' + 1 : k \in 1 .. active + 1
  BY <1>0
<1>3. HeadsInv'
  BY <1>2 DEF IInv, HeadsInv
<1>4. ASSUME NEW k \in 1 .. active' PROVE ListInv(k)'
  <2>1. k \in 1 .. active /\ k \in 1 .. active + 1 /\ k + 1 \in 1 .. active + 1
    BY <1>0
  <2>2. ListInv(k) /\ nodes[k].cursor \in nodes[k].head .. nodes[k + 1].head
    BY <2>1 DEF IInv, ListInv
  <2>3. nodes'[k].cursor \in nodes[k].head .. nodes[k + 1].head
    <3>1. k \in 1 .. active - 1 \/ k = active
      BY <2>1
    <3>2. QED
      BY <2>2, <3>1
  <2>4. QED
    BY <2>1, <2>2, <2>3, ListKept
<1>5. ASSUME NEW k \in 1 .. active' - 1 PROVE PlayInv(k)'
  <2>1. k \in 1 .. active - 1 /\ k + 1 \in 1 .. active /\ k \in 1 .. active /\ k + 1 \in 1 .. active + 1
    BY NodesBelow
  <2>2. PlayInv(k)
    BY <2>1 DEF IInv
  <2>3. QED
    BY <2>1, <2>2, PlayKept
<1>6. QED
  BY <1>1, <1>3, <1>4, <1>5 DEF IInv

LEMMA MakeMoveIInv == IInv /\ MakeMove => IInv'
<1> SUFFICES ASSUME IInv, MakeMove PROVE IInv'
  OBVIOUS
<1>1. /\ active \in Nat \ {0} /\ pc = "for" /\ pc' = "begin"
      /\ Current.cursor < NextNode.head
      /\ nodes' = [nodes EXCEPT ![active + 1].gpx = legal_moves[Current.cursor]]
      /\ UNCHANGED <<game, solver, active, legal_moves>>
      /\ nodes \in [0 .. MaxNodes - 1 -> NodeSet]
  BY DEF MakeMove, IInv, LabelInv, TypeInv
<1>2. /\ active \in 1 .. active /\ active \in 0 .. MaxNodes - 1
      /\ active + 1 \in 0 .. MaxNodes - 1 /\ active + 1 # active
  BY <1>1, SolverAssumption DEF IInv, TypeInv
<1>3. ListInv(active) /\ Current.gpx \in Positions /\ HasLegalMove(game, Current.gpx)
  <2>1. Current \in NodeSet /\ NextNode \in NodeSet
    BY <1>1, <1>2 DEF Current, NextNode
  <2>2. Current.cursor # NextNode.head
    BY <1>1, <2>1 DEF NodeSet
  <2>3. QED
    BY <1>1, <1>2, <2>2 DEF IInv, LabelInv, ListInv, Current
<1> DEFINE q == legal_moves[Current.cursor]
<1>4. q \in Successors(game, Current.gpx) /\ q \in Positions
  BY <1>1, <1>3, MoveAtCursor, SuccessorsType DEF IInv, TypeInv
<1>5. q \in Int
  BY <1>4 DEF IInv, TypeInv, WellFormed, Positions
<1>6. /\ nodes' \in [0 .. MaxNodes - 1 -> NodeSet]
      /\ \A k \in 0 .. MaxNodes - 1 : nodes'[k].head = nodes[k].head /\ nodes'[k].cursor = nodes[k].cursor
      /\ \A k \in 0 .. MaxNodes - 1 : k # active + 1 => nodes'[k].gpx = nodes[k].gpx
      /\ nodes'[active + 1].gpx = q
  BY <1>1, <1>2, <1>5 DEF NodeSet
<1>7. \A k \in 1 .. active + 1 : k \in 0 .. MaxNodes - 1
  BY <1>1, <1>2, SolverAssumption
<1>8. LabelInv'
  <2>1. MoveTo(game, Current.gpx, q) = q
    BY <1>3 DEF MoveTo
  <2>2. PlayInv(active)'
    BY <1>1, <1>2, <1>4, <1>6, <2>1, SMTT(30)
       DEF PlayInv, Successors, IsTerminal, HasLegalMove, MoveTo, Current, NextNode
  <2>3. QED
    BY <1>1, <2>2 DEF LabelInv
<1>9. \A k \in 1 .. active : k # active + 1 /\ k \in 1 .. active + 1
  BY <1>1
<1>10. nodes[active].cursor \in nodes[active].head .. nodes[active + 1].head
  BY <1>3 DEF ListInv
<1>11. \A k \in 1 .. active - 1 : k \in 0 .. MaxNodes - 1
  BY <1>1, <1>2, SolverAssumption
<1>12. QED
  BY <1>1, <1>2, <1>6, <1>7, <1>8, <1>9, <1>10, <1>11, FrameIInv

LEMMA NoMoreMovesIInv == IInv /\ NoMoreMoves => IInv'
<1> SUFFICES ASSUME IInv, NoMoreMoves PROVE IInv'
  OBVIOUS
<1>1. /\ active \in Nat \ {0} /\ pc' = "end"
      /\ UNCHANGED <<game, solver, nodes, active, legal_moves>>
  BY DEF NoMoreMoves, IInv, LabelInv, TypeInv
<1>2. LabelInv'
  BY <1>1 DEF LabelInv
<1>3. nodes[active].cursor \in nodes[active].head .. nodes[active + 1].head
  BY <1>1 DEF IInv, ListInv
<1>4. QED
  BY <1>1, <1>2, <1>3, FrameIInv DEF IInv, TypeInv

(* At entry the value comes back, and the cursor goes on to the next move  *)
(* unless it is cut off.                                                   *)
LEMMA EntryIInv == IInv /\ (Improve \/ NoImprovement) => IInv'
<1> SUFFICES ASSUME IInv, Improve \/ NoImprovement PROVE IInv'
  OBVIOUS
<1>1. /\ active \in Nat \ {0} /\ pc = "entry" /\ pc' \in {"for", "end"}
      /\ Current.cursor < NextNode.head
      /\ UNCHANGED <<game, solver, active, legal_moves>>
      /\ nodes \in [0 .. MaxNodes - 1 -> NodeSet]
  BY DEF Improve, NoImprovement, IInv, LabelInv, TypeInv
<1>2. /\ active \in 1 .. active /\ active \in 0 .. MaxNodes - 1
      /\ active + 1 \in 0 .. MaxNodes - 1 /\ active + 1 # active
  BY <1>1, SolverAssumption DEF IInv, TypeInv
<1>3. /\ Current \in NodeSet /\ NextNode \in NodeSet /\ ListInv(active)
      /\ Current.cursor \in Current.head .. NextNode.head
  BY <1>1, <1>2 DEF IInv, ListInv, Current, NextNode
<1>4. Value \in Int /\ legal_moves[Current.cursor] \in MoveSet
  BY <1>1, <1>3, MoveAtCursor DEF Value, NodeSet
<1>5. \E node \in NodeSet :
        /\ nodes' = [nodes EXCEPT ![active] = node]
        /\ node.gpx = Current.gpx /\ node.head = Current.head
        /\ node.cursor \in {Current.cursor, Current.cursor + 1}
        /\ pc' = "for" => node.cursor = Current.cursor + 1
  <2>1. CASE Improve
    <3> DEFINE cut == AlphaBetaPruning /\ Value >= Current.beta
               node == [Current EXCEPT !.best_move = legal_moves[Current.cursor], !.alpha = Value,
                                       !.cursor = IF cut THEN @ ELSE @ + 1]
    <3>1. nodes' = [nodes EXCEPT ![active] = node] /\ pc' = IF cut THEN "end" ELSE "for"
      BY <1>1, <1>2, <1>3, <2>1 DEF Improve, Current, NodeSet
    <3>2. /\ node \in NodeSet /\ node.gpx = Current.gpx /\ node.head = Current.head
          /\ node.cursor = IF cut THEN Current.cursor ELSE Current.cursor + 1
      <4>1. (IF cut THEN Current.cursor ELSE Current.cursor + 1) \in Nat
        BY <1>3 DEF NodeSet
      <4> HIDE DEF cut
      <4>2. QED
        BY <1>3, <1>4, <4>1 DEF NodeSet
    <3>3. QED
      BY <3>1, <3>2
  <2>2. CASE NoImprovement
    <3> DEFINE node == [Current EXCEPT !.cursor = @ + 1]
    <3>1. nodes' = [nodes EXCEPT ![active] = node]
      BY <1>1, <1>2, <2>2 DEF NoImprovement, Current
    <3>2. /\ node \in NodeSet /\ node.gpx = Current.gpx /\ node.head = Current.head
          /\ node.cursor = Current.cursor + 1
      BY <1>3 DEF NodeSet
    <3>3. QED
      BY <3>1, <3>2
  <2>3. QED
    BY <2>1, <2>2
<1>6. /\ nodes' \in [0 .. MaxNodes - 1 -> NodeSet]
      /\ \A k \in 0 .. MaxNodes - 1 : nodes'[k].head = nodes[k].head /\ nodes'[k].gpx = nodes[k].gpx
      /\ \A k \in 0 .. MaxNodes - 1 : k # active => nodes'[k].cursor = nodes[k].cursor
      /\ nodes'[active].cursor \in {Current.cursor, Current.cursor + 1}
      /\ pc' = "for" => nodes'[active].cursor = Current.cursor + 1
  BY <1>1, <1>2, <1>5 DEF Current
<1>7. nodes'[active].cursor \in nodes[active].head .. nodes[active + 1].head
  <2>1. /\ Current.cursor \in Nat /\ Current.head \in Nat /\ NextNode.head \in Nat
        /\ Current.head = nodes[active].head /\ NextNode.head = nodes[active + 1].head
    BY <1>3 DEF NodeSet, Current, NextNode
  <2>2. QED
    BY <1>1, <1>3, <1>6, <2>1
<1>8. HasLegalMove(game, Current.gpx) \/ Current.cursor + 1 = NextNode.head
  <2>1. SUFFICES ASSUME ~HasLegalMove(game, Current.gpx)
                 PROVE  Current.cursor + 1 = NextNode.head
    OBVIOUS
  <2>2. NextNode.head = Current.head + 1
    BY <1>3, <2>1, SuccessorsType DEF ListInv, IInv, TypeInv, Current, NextNode
  <2>3. QED
    BY <1>1, <1>3, <2>2 DEF NodeSet
<1>9. LabelInv'
  BY <1>1, <1>2, <1>6, <1>8 DEF LabelInv, Current, NextNode, HasLegalMove
<1>10. /\ \A k \in 1 .. active + 1 : k \in 0 .. MaxNodes - 1
       /\ \A k \in 1 .. active : k \in 0 .. MaxNodes - 1
       /\ \A k \in 1 .. active - 1 : k \in 0 .. MaxNodes - 1 /\ k # active
  BY <1>1, <1>2, SolverAssumption
<1>11. QED
  BY <1>1, <1>6, <1>7, <1>9, <1>10, FrameIInv

LEMMA EndIInv == IInv /\ End => IInv'
<1> SUFFICES ASSUME IInv, End PROVE IInv'
  OBVIOUS
<1>1. /\ active \in Nat \ {0} /\ active > 1 /\ active' = active - 1 /\ pc = "end"
      /\ UNCHANGED <<game, solver, legal_moves>>
      /\ nodes \in [0 .. MaxNodes - 1 -> NodeSet]
  BY DEF End, IInv, LabelInv, TypeInv
<1>2. /\ active \in 1 .. active /\ active \in 0 .. MaxNodes - 1 /\ active - 1 \in 0 .. MaxNodes - 1
      /\ active - 1 \in 1 .. active - 1 /\ (active - 1) + 1 = active
      /\ \A k \in 1 .. active + 1 : k \in 0 .. MaxNodes - 1
  BY <1>1, SolverAssumption DEF IInv, TypeInv
<1>3. /\ pc' \in {"entry", "end"}
      /\ nodes' \in [0 .. MaxNodes - 1 -> NodeSet]
      /\ \A k \in 0 .. MaxNodes - 1 : /\ nodes'[k].head = nodes[k].head
                                      /\ nodes'[k].gpx = nodes[k].gpx
                                      /\ nodes'[k].cursor = nodes[k].cursor
  <2>1. CASE RandomSampler
    <3> DEFINE node == [nodes[active - 1] EXCEPT !.alpha = -Current.alpha]
    <3>1. nodes[active - 1] \in NodeSet /\ -Current.alpha \in Int
      BY <1>1, <1>2 DEF Current, NodeSet
    <3>2. /\ node \in NodeSet /\ node.head = nodes[active - 1].head
          /\ node.gpx = nodes[active - 1].gpx /\ node.cursor = nodes[active - 1].cursor
      BY <3>1 DEF NodeSet
    <3>3. nodes' = [nodes EXCEPT ![active - 1] = node] /\ pc' = pc
      BY <1>1, <1>2, <2>1 DEF End
    <3>4. QED
      BY <1>1, <1>2, <3>2, <3>3
  <2>2. CASE ~RandomSampler
    BY <1>1, <2>2 DEF End
  <2>3. QED
    BY <2>1, <2>2
<1>4. PlayInv(active - 1) /\ ListInv(active)
  BY <1>2 DEF IInv
<1>5. LabelInv'
  <2>1. nodes'[active - 1].cursor < nodes'[active].head
    BY <1>2, <1>3, <1>4 DEF PlayInv
  <2>2. QED
    BY <1>1, <1>2, <1>3, <2>1 DEF LabelInv, Current, NextNode
<1>6. nodes'[active].cursor \in nodes[active].head .. nodes[active + 1].head
  BY <1>2, <1>3, <1>4 DEF ListInv
<1>7. /\ \A k \in 1 .. active : k \in 0 .. MaxNodes - 1
      /\ \A k \in 1 .. active - 1 : k \in 0 .. MaxNodes - 1
  BY <1>1, <1>2
<1>8. QED
  BY <1>1, <1>2, <1>3, <1>5, <1>6, <1>7, FrameIInv

(* Another run finds the two lowest nodes as the first one did. *)
LEMMA EndOfRunIInv == IInv /\ EndOfRun => IInv'
<1> SUFFICES ASSUME IInv, EndOfRun PROVE IInv'
  OBVIOUS
<1>1. /\ active = 1 /\ active' = 0 /\ UNCHANGED <<game, solver, legal_moves>>
      /\ nodes \in [0 .. MaxNodes - 1 -> NodeSet]
      /\ (nodes' = InitStack(nodes) /\ pc' = "begin") \/ (nodes' = nodes /\ pc' = "done")
  BY DEF EndOfRun, IInv, TypeInv
<1>2. WellFormed(game) /\ Root \in Positions /\ Positions \subseteq Int
  BY DEF IInv, TypeInv, WellFormed, Positions
<1>3. Passed(Root) \in Int /\ OutOfRangeDefeatScore \in Int /\ -OutOfRangeDefeatScore \in Int
  BY SolverAssumption DEF Passed, Root, OutOfRangeDefeatScore, WorstScore
<1>4. 0 \in 0 .. MaxNodes - 1 /\ 1 \in 0 .. MaxNodes - 1 /\ MaxLegalMoves \in Nat
  BY SolverAssumption
<1>5. /\ nodes' \in [0 .. MaxNodes - 1 -> NodeSet]
      /\ pc' = "begin" => nodes'[1].gpx = Root
      /\ nodes'[1].head = 0 \/ nodes'[1] = nodes[1]
  <2>1. CASE nodes' = InitStack(nodes)
    <3> DEFINE ground == [InitNode(nodes[0], Passed(Root)) EXCEPT !.best_move = InvalidMove]
               first == InitNode(nodes[1], Root)
    <3>1. nodes[0] \in NodeSet /\ nodes[1] \in NodeSet
      BY <1>1, <1>4
    <3>2. ground \in NodeSet
      BY <1>3, <3>1 DEF InitNode, NodeSet, MoveSet
    <3>3. first \in NodeSet /\ first.gpx = Root /\ first.head = 0
      BY <1>2, <1>3, <3>1 DEF InitNode, NodeSet
    <3>4. nodes' = [nodes EXCEPT ![0] = ground, ![1] = first]
      BY <1>1, <1>4, <2>1 DEF InitStack
    <3>5. QED
      BY <1>1, <1>4, <3>2, <3>3, <3>4
  <2>2. CASE nodes' = nodes /\ pc' = "done"
    BY <1>1, <2>2
  <2>3. QED
    BY <1>1, <2>1, <2>2
<1>6. TypeInv'
  <2>1. WellFormed(game)'
    BY <1>1, <1>2 DEF WellFormed, Passed
  <2>2. MoveSet' = MoveSet /\ NodeSet' = NodeSet
    BY <1>1 DEF MoveSet, NodeSet, Positions
  <2>3. active' \in 0 .. MaxNodes - 2
    BY <1>1, SolverAssumption
  <2>4. QED
    BY <1>1, <1>5, <2>1, <2>2, <2>3 DEF IInv, TypeInv
<1>7. HeadsInv'
  <2>1. 1 \in 1 .. active + 1 /\ 1 .. active' + 1 = {1}
    BY <1>1
  <2>2. nodes[1].head <= MaxLegalMoves
    BY <2>1 DEF IInv, HeadsInv
  <2>3. nodes'[1].head <= MaxLegalMoves /\ nodes'[1].head \in Nat
    BY <1>4, <1>5, <2>2 DEF NodeSet
  <2>4. QED
    BY <2>1, <2>3 DEF HeadsInv
<1>8. LabelInv'
  BY <1>1, <1>5 DEF LabelInv
<1>9. QED
  BY <1>1, <1>6, <1>7, <1>8 DEF IInv

-----------------------------------------------------------------------------
LEMMA NextIInv == IInv /\ [Next]_vars => IInv'
<1> SUFFICES ASSUME IInv, [Next]_vars PROVE IInv'
  OBVIOUS
<1>1. CASE Begin
  BY <1>1, BeginIInv
<1>2. CASE MakeMove
  BY <1>2, MakeMoveIInv
<1>3. CASE NoMoreMoves
  BY <1>3, NoMoreMovesIInv
<1>4. CASE Improve \/ NoImprovement
  BY <1>4, EntryIInv
<1>5. CASE End
  BY <1>5, EndIInv
<1>6. CASE EndOfRun
  BY <1>6, EndOfRunIInv
<1>7. CASE UNCHANGED vars
  <2>1. UNCHANGED <<game, solver, pc, nodes, active, legal_moves>>
    BY <1>7 DEF vars
  <2>2. TypeInv'
    BY <2>1 DEF IInv, TypeInv, MoveSet, NodeSet, Positions, WellFormed, Passed
  <2>3. HeadsInv'
    BY <2>1 DEF IInv, HeadsInv
  <2>4. \A k : PlayInv(k) => PlayInv(k)'
    BY <2>1 DEF PlayInv, Successors, IsTerminal, HasLegalMove, MoveTo
  <2>5. \A k : ListInv(k) => ListInv(k)'
    BY <2>1, ListKept DEF ListInv
  <2>6. LabelInv'
    BY <2>1, <2>4 DEF IInv, LabelInv, Current, NextNode, HasLegalMove
  <2>7. QED
    BY <2>1, <2>2, <2>3, <2>4, <2>5, <2>6 DEF IInv
<1>8. QED
  BY <1>1, <1>2, <1>3, <1>4, <1>5, <1>6, <1>7 DEF Next

(* The invariant holds in every search. *)
THEOREM SearchInductive == Spec => []IInv
<1> QED
  BY InitIInv, NextIInv, PTL DEF Spec

(* The positions on the stack are one line of play and the moves of every  *)
(* active node stay in the array that all nodes share, for any game, in    *)
(* any order of the moves, and when an earlier run has left its traces.    *)
THEOREM SearchFollowsPlay == Spec => []StackIsPlay
<1>1. IInv => StackIsPlay
  <2> SUFFICES ASSUME IInv PROVE StackIsPlay
    OBVIOUS
  <2>1. ASSUME NEW k \in 1 .. active
        PROVE  Cardinality(nodes[k].head .. nodes[k + 1].head - 1) = Len(GeneratedMoves(nodes[k].gpx))
    <3> DEFINE n == Len(GeneratedMoves(nodes[k].gpx))
    <3>1. ListInv(k) /\ k \in 1 .. active + 1
      BY DEF IInv, TypeInv
    <3>2. nodes[k].head \in Int /\ n \in Nat \ {0}
      <4>1. nodes[k] \in NodeSet
        BY <3>1, SlotsBelow
      <4>2. WellFormed(game) /\ nodes[k].gpx \in Positions
        BY <3>1 DEF ListInv, IInv, TypeInv
      <4>3. QED
        BY <4>1, <4>2, GeneratedType DEF NodeSet
    <3>3. nodes[k + 1].head - 1 \in Int /\ nodes[k + 1].head = nodes[k].head + n
      BY <3>1, <3>2 DEF ListInv
    <3>4. ~(nodes[k].head > nodes[k + 1].head - 1)
          /\ nodes[k + 1].head - 1 - nodes[k].head + 1 = n
      BY <3>2, <3>3
    <3>5. QED
      BY <3>2, <3>3, <3>4, FS_Interval
  <2>2. SiblingsKept
    BY <2>1 DEF SiblingsKept, IInv, ListInv
  <2>3. QED
    BY <2>2 DEF StackIsPlay, IInv, PlayInv
<1>2. QED
  BY <1>1, SearchInductive, PTL

-----------------------------------------------------------------------------
(* The values of the search.  A node in progress keeps the value to beat,  *)
(* which the node below hands up, or the best value of the moves that have *)
(* been searched.                                                          *)

Worth(p) == GameValue(game)[p]

Floor(k) == IF AlphaBetaPruning THEN -nodes[k - 1].beta ELSE OutOfRangeDefeatScore

(* Some best move of node k is in its best_move. *)
Recorded(k) ==
  \E q \in Successors(game, nodes[k].gpx) :
    -Worth(q) = nodes[k].alpha /\ nodes[k].best_move = MoveTo(game, nodes[k].gpx, q)

SearchedInv(k) ==
  /\ ~IsTerminal(game, nodes[k].gpx)
  /\ Floor(k) <= nodes[k].alpha
  /\ AlphaBetaPruning => nodes[k].alpha < nodes[k].beta
  /\ \A i \in nodes[k].head .. nodes[k].cursor - 1 : \A q \in Successors(game, nodes[k].gpx) :
       legal_moves[i] = MoveTo(game, nodes[k].gpx, q) => -Worth(q) <= nodes[k].alpha
  /\ nodes[k].alpha > Floor(k) => Recorded(k)

(* What the value of a node is worth that has been searched: the game      *)
(* value inside the window, a bound outside of it.                         *)
ResultInv(k) ==
  LET value == nodes[k].alpha
      p == nodes[k].gpx
      inside == value > Floor(k) /\ (AlphaBetaPruning => value < nodes[k].beta)
  IN  /\ IF ~AlphaBetaPruning THEN value = Worth(p)
         ELSE /\ value <= Floor(k) => Worth(p) <= value
              /\ inside => Worth(p) = value
              /\ value >= nodes[k].beta => Worth(p) >= value
      /\ IF IsTerminal(game, p) THEN nodes[k].best_move = InvalidMove
         ELSE inside => Recorded(k)

(* The windows are turned round from one node to the next. *)
WindowInv ==
  /\ nodes[0].alpha = OutOfRangeDefeatScore /\ nodes[0].beta = -OutOfRangeDefeatScore
  /\ AlphaBetaPruning =>
       \A k \in 1 .. active + 1 :
         k <= active \/ pc = "entry" => nodes[k].beta = -nodes[k - 1].alpha

ValueInv ==
  ~RandomSampler =>
    /\ WindowInv
    /\ \A k \in 1 .. active :
         /\ k < active \/ pc \in {"begin", "for", "entry"} => SearchedInv(k)
         /\ k = active /\ pc = "entry" => PlayInv(k) /\ ResultInv(k + 1)
         /\ k = active /\ pc = "end" => ResultInv(k)

-----------------------------------------------------------------------------
LEMMA WorthType ==
  ASSUME WellFormed(game), NEW p \in Positions
  PROVE  /\ Worth(p) \in Int /\ OutOfRangeDefeatScore \in Int
         /\ OutOfRangeDefeatScore < Worth(p) /\ Worth(p) < -OutOfRangeDefeatScore
         /\ OutOfRangeDefeatScore < -OutOfRangeDefeatScore
<1>1. Worth(p) \in WorstScore .. BestScore /\ BestScore \in Nat
  BY MinimaxValue, SolverAssumption DEF Worth, Positions
<1>2. QED
  BY <1>1 DEF WorstScore, OutOfRangeDefeatScore

LEMMA NodeTypes ==
  ASSUME IInv, NEW k \in 1 .. active + 1
  PROVE  /\ nodes[k].alpha \in Int /\ nodes[k].beta \in Int
         /\ nodes[k].head \in Nat /\ nodes[k].cursor \in Nat
         /\ nodes[k - 1].alpha \in Int /\ nodes[k - 1].beta \in Int
         /\ Floor(k) \in Int
<1>1. k \in 0 .. MaxNodes - 1 /\ k - 1 \in 0 .. MaxNodes - 1
  BY SolverAssumption DEF IInv, TypeInv
<1>2. nodes[k] \in NodeSet /\ nodes[k - 1] \in NodeSet
  BY <1>1 DEF IInv, TypeInv
<1>3. OutOfRangeDefeatScore \in Int
  BY SolverAssumption DEF OutOfRangeDefeatScore, WorstScore
<1>4. QED
  BY <1>2, <1>3 DEF NodeSet, Floor

(* A node that is left alone keeps what is known of it. *)
LEMMA SearchedKept ==
  ASSUME NEW k, SearchedInv(k), UNCHANGED <<game, solver>>,
         nodes'[k] = nodes[k], nodes'[k - 1].beta = nodes[k - 1].beta,
         \A i \in nodes[k].head .. nodes[k].cursor - 1 : legal_moves'[i] = legal_moves[i]
  PROVE  SearchedInv(k)'
<1>1. /\ Floor(k)' = Floor(k) /\ AlphaBetaPruning' = AlphaBetaPruning
      /\ \A p : Worth(p)' = Worth(p)
  BY DEF Floor, AlphaBetaPruning, Worth
<1>2. Recorded(k)' = Recorded(k)
  BY DEF Recorded, Worth
<1>3. QED
  BY <1>1, <1>2 DEF SearchedInv

LEMMA ResultKept ==
  ASSUME NEW k, ResultInv(k), UNCHANGED <<game, solver>>,
         nodes'[k] = nodes[k], nodes'[k - 1].beta = nodes[k - 1].beta
  PROVE  ResultInv(k)'
<1>1. /\ Floor(k)' = Floor(k) /\ AlphaBetaPruning' = AlphaBetaPruning
      /\ \A p : Worth(p)' = Worth(p)
  BY DEF Floor, AlphaBetaPruning, Worth
<1>2. Recorded(k)' = Recorded(k)
  BY DEF Recorded, Worth
<1>3. QED
  BY <1>1, <1>2 DEF ResultInv

(* After all its moves the value of a node is known. *)
LEMMA AllSearched ==
  ASSUME IInv, NEW k \in 1 .. active, SearchedInv(k),
         nodes[k].cursor >= nodes[k + 1].head
  PROVE  ResultInv(k)
<1> DEFINE p == nodes[k].gpx
<1>1. /\ WellFormed(game) /\ p \in Positions
      /\ nodes[k].cursor \in nodes[k].head .. nodes[k + 1].head
      /\ {legal_moves[i] : i \in nodes[k].head .. nodes[k + 1].head - 1} = ToSet(GeneratedMoves(p))
  BY DEF IInv, TypeInv, ListInv
<1>2. /\ nodes[k].alpha \in Int /\ nodes[k].beta \in Int /\ Floor(k) \in Int
      /\ nodes[k].cursor = nodes[k + 1].head
  <2>1. k \in 1 .. active + 1 /\ k + 1 \in 1 .. active + 1
    BY DEF IInv, TypeInv
  <2>2. nodes[k + 1].head \in Nat /\ nodes[k].cursor \in Nat
    BY <2>1, NodeTypes
  <2>3. QED
    BY <1>1, <2>1, <2>2, NodeTypes
<1>3. ASSUME NEW q \in Successors(game, p) PROVE -Worth(q) <= nodes[k].alpha
  <2>1. MoveTo(game, p, q) \in ToSet(GeneratedMoves(p))
    <3>1. CASE HasLegalMove(game, p)
      BY <1>1, <3>1, SuccessorsType DEF MoveTo
    <3>2. CASE ~HasLegalMove(game, p)
      BY <1>1, <3>2, SuccessorsType DEF MoveTo
    <3>3. QED
      BY <3>1, <3>2
  <2>2. PICK i \in nodes[k].head .. nodes[k].cursor - 1 : legal_moves[i] = MoveTo(game, p, q)
    BY <1>1, <1>2, <2>1
  <2>3. QED
    BY <2>2 DEF SearchedInv
<1>4. /\ ~IsTerminal(game, p)
      /\ \A q \in Successors(game, p) : -Worth(q) <= Worth(p)
      /\ \E q \in Successors(game, p) : -Worth(q) = Worth(p)
  BY <1>1, MinimaxValue, SolverAssumption DEF SearchedInv, Worth, Positions
<1>5. Worth(p) <= nodes[k].alpha
  BY <1>3, <1>4
<1>6. Worth(p) \in Int /\ OutOfRangeDefeatScore < Worth(p) /\ OutOfRangeDefeatScore \in Int
  BY <1>1, WorthType
<1>7. CASE nodes[k].alpha > Floor(k)
  <2>1. Recorded(k)
    BY <1>7 DEF SearchedInv
  <2>2. nodes[k].alpha <= Worth(p)
    BY <1>4, <2>1 DEF Recorded
  <2>3. nodes[k].alpha = Worth(p)
    BY <1>2, <1>5, <1>6, <2>2
  <2>4. QED
    BY <1>2, <1>4, <1>6, <1>7, <2>1, <2>3 DEF ResultInv
<1>8. CASE ~(nodes[k].alpha > Floor(k))
  <2>1. AlphaBetaPruning
    <3>1. SUFFICES ASSUME ~AlphaBetaPruning PROVE FALSE
      OBVIOUS
    <3>2. nodes[k].alpha <= OutOfRangeDefeatScore
      BY <1>2, <1>6, <1>8, <3>1 DEF Floor
    <3>3. QED
      BY <1>2, <1>5, <1>6, <3>2
  <2>2. nodes[k].alpha < nodes[k].beta
    BY <2>1 DEF SearchedInv
  <2>3. ~(nodes[k].alpha >= nodes[k].beta)
    BY <1>2, <2>2
  <2>4. QED
    BY <1>4, <1>5, <1>8, <2>1, <2>3 DEF ResultInv
<1>9. QED
  BY <1>7, <1>8

-----------------------------------------------------------------------------
LEMMA InitValueInv == Init => ValueInv
<1> SUFFICES ASSUME Init PROVE ValueInv
  OBVIOUS
<1>1. active = 0 /\ pc = "begin" /\ 0 \in 0 .. MaxNodes - 1 /\ 1 \in 0 .. MaxNodes - 1
  BY SolverAssumption DEF Init
<1>2. /\ nodes[0].alpha = OutOfRangeDefeatScore
      /\ nodes[0].beta = -OutOfRangeDefeatScore
  BY <1>1 DEF Init, InitStack, InitNode, FreshNode
<1>3. QED
  BY <1>1, <1>2 DEF ValueInv, WindowInv

(* The new node has the window of the one below turned round. *)
LEMMA BeginValueInv == IInv /\ ValueInv /\ Begin => ValueInv'
<1> SUFFICES ASSUME IInv, ValueInv, Begin, ~RandomSampler PROVE ValueInv'
  BY DEF Begin, ValueInv, RandomSampler
<1>0. PICK c : c = active + 1
  OBVIOUS
<1>1. /\ active \in Nat /\ c \in 1 .. MaxNodes - 2 /\ c - 1 = active /\ pc = "begin"
      /\ active' = c /\ UNCHANGED <<game, solver>> /\ WellFormed(game)
      /\ pc' \in {"begin", "for", "end"}
  BY <1>0, BeginStep DEF IInv, TypeInv, Begin
<1>2. ASSUME NEW k \in 0 .. active PROVE nodes'[k] = nodes[k]
  <2>1. k \in 0 .. MaxNodes - 1 /\ k # active + 1 /\ k # active + 2
    BY <1>0, <1>1, SolverAssumption
  <2>2. QED
    BY <2>1, BeginStep
<1> DEFINE p == NewNode.gpx
           new == nodes'[c]
<1>3. /\ new.gpx = p /\ p \in Positions /\ new.cursor = new.head
      /\ new.beta = NewNode.beta
      /\ new.alpha = IF IsTerminal(game, p) THEN FinalValue(game, p) ELSE NewNode.alpha
      /\ IsTerminal(game, p) => new.best_move = InvalidMove
      /\ pc' = "end" <=> IsTerminal(game, p)
      /\ new.head \in Int
  <2>1. /\ new.gpx = p /\ p \in Positions
        /\ new.head = NewNode.head /\ new.cursor = NewNode.head
        /\ new.beta = NewNode.beta
        /\ new.alpha = IF IsTerminal(game, p) THEN FinalValue(game, p) ELSE NewNode.alpha
        /\ IsTerminal(game, p) => new.best_move = InvalidMove
    BY <1>0, BeginStep
  <2>2. NewNode.head \in Int
    BY BeginStep DEF NodeSet
  <2>3. pc' = "end" <=> IsTerminal(game, p)
    BY BeginStep
  <2>4. QED
    BY <2>1, <2>2, <2>3
<1>4. /\ AlphaBetaPruning => NewNode.alpha = -nodes[active].beta /\ NewNode.beta = -nodes[active].alpha
      /\ ~AlphaBetaPruning => NewNode.alpha = OutOfRangeDefeatScore
  BY <1>0, BeginStep, WindowType, SolverAssumption DEF NewNode, Current
<1>5. /\ nodes[active].alpha \in Int /\ nodes[active].beta \in Int
      /\ OutOfRangeDefeatScore \in Int
      /\ Floor(c)' = NewNode.alpha /\ NewNode.alpha \in Int
      /\ AlphaBetaPruning => new.beta = -nodes[active].alpha
  <2>1. nodes'[c - 1].beta = nodes[active].beta
    BY <1>1, <1>2
  <2>2. c \in 1 .. active + 1
    BY <1>0, <1>1
  <2>3. nodes[active].alpha \in Int /\ nodes[active].beta \in Int
    BY <1>1, <2>2, NodeTypes
  <2>4. OutOfRangeDefeatScore \in Int
    BY SolverAssumption DEF OutOfRangeDefeatScore, WorstScore
  <2>5. QED
    BY <1>1, <1>3, <1>4, <2>1, <2>3, <2>4 DEF Floor, AlphaBetaPruning
<1>6. ASSUME NEW k \in 1 .. active PROVE SearchedInv(k)'
  <2>1. SearchedInv(k) /\ ListInv(k)
    BY <1>1 DEF ValueInv, IInv
  <2>2. nodes'[k] = nodes[k] /\ nodes'[k - 1] = nodes[k - 1]
    BY <1>1, <1>2
  <2>3. \A i \in nodes[k].head .. nodes[k].cursor - 1 : legal_moves'[i] = legal_moves[i]
    <3>1. k \in 1 .. active + 1 /\ k + 1 \in 1 .. active + 1
      BY <1>1
    <3>2. nodes[k].head \in Nat /\ nodes[k + 1].head \in Nat
      BY <3>1, NodeTypes
    <3>3. nodes[k].cursor \in nodes[k].head .. nodes[k + 1].head
      BY <2>1 DEF ListInv
    <3>4. \A i \in nodes[k].head .. nodes[k].cursor - 1 : i \in nodes[k].head .. nodes[k + 1].head - 1
      BY <3>2, <3>3
    <3>5. QED
      BY <3>4, BeginStep
  <2>4. QED
    BY <1>1, <2>1, <2>2, <2>3, SearchedKept
<1>7. WindowInv'
  <2>1. nodes'[0].alpha = OutOfRangeDefeatScore /\ nodes'[0].beta = -OutOfRangeDefeatScore
    BY <1>1, <1>2 DEF ValueInv, WindowInv
  <2>2. ASSUME AlphaBetaPruning, NEW k \in 1 .. c PROVE nodes'[k].beta = -nodes'[k - 1].alpha
    <3>1. CASE k = c
      BY <1>1, <1>2, <1>5, <2>2, <3>1
    <3>2. CASE k # c
      <4>1. k \in 1 .. active /\ k \in 0 .. active /\ k - 1 \in 0 .. active /\ k \in 1 .. active + 1
        BY <1>0, <1>1, <3>2
      <4>2. nodes[k].beta = -nodes[k - 1].alpha
        BY <1>1, <2>2, <4>1 DEF ValueInv, WindowInv
      <4>3. QED
        BY <1>2, <4>1, <4>2
    <3>3. QED
      BY <3>1, <3>2
  <2>3. \A k \in 1 .. c + 1 : k <= c => k \in 1 .. c
    BY <1>1
  <2>4. QED
    BY <1>1, <2>1, <2>2, <2>3 DEF WindowInv, AlphaBetaPruning
<1>8. CASE IsTerminal(game, p)
  <2>1. Worth(p) = FinalValue(game, p)
    BY <1>1, <1>3, <1>8, MinimaxValue, SolverAssumption DEF Worth, Positions
  <2>2. AlphaBetaPruning' <=> AlphaBetaPruning
    BY <1>1 DEF AlphaBetaPruning
  <2>3. ResultInv(c)'
    <3>1. /\ new.alpha = Worth(p) /\ Worth(p) \in Int /\ new.best_move = InvalidMove
          /\ new.gpx = p
      BY <1>1, <1>3, <1>8, <2>1, WorthType
    <3>2. IsTerminal(game', nodes'[c].gpx) /\ Worth(nodes[c].gpx)' = Worth(p)
      BY <1>1, <1>3, <1>8 DEF IsTerminal, HasLegalMove, Worth
    <3>3. QED
      BY <2>2, <3>1, <3>2 DEF ResultInv
  <2>4. pc' = "end"
    BY <1>3, <1>8
  <2>5. \A k \in 1 .. c : k < c => k \in 1 .. active
    BY <1>0, <1>1
  <2>6. QED
    BY <1>1, <1>6, <1>7, <2>3, <2>4, <2>5 DEF ValueInv
<1>9. CASE ~IsTerminal(game, p)
  <2>1. SearchedInv(c)'
    <3>1. ~IsTerminal(game', nodes'[c].gpx)
      BY <1>1, <1>3, <1>9 DEF IsTerminal, HasLegalMove
    <3>2. new.alpha = Floor(c)'
      BY <1>3, <1>5, <1>9
    <3>3. AlphaBetaPruning' => new.alpha < new.beta
      <4>1. SUFFICES ASSUME AlphaBetaPruning PROVE new.alpha < new.beta
        BY <1>1 DEF AlphaBetaPruning
      <4>2. nodes[active].alpha < nodes[active].beta
        <5>1. CASE active = 0
          BY <1>1, <1>3, <5>1, WorthType DEF ValueInv, WindowInv
        <5>2. CASE active # 0
          <6>1. active \in 1 .. active
            BY <1>1, <5>2
          <6>2. QED
            BY <1>1, <4>1, <6>1 DEF ValueInv, SearchedInv
        <5>3. QED
          BY <5>1, <5>2
      <4>3. new.alpha = -nodes[active].beta /\ new.beta = -nodes[active].alpha
        BY <1>3, <1>4, <1>5, <1>9, <4>1
      <4>4. QED
        BY <1>5, <4>2, <4>3
    <3>4. new.head .. new.cursor - 1 = {}
      BY <1>3
    <3>5. QED
      BY <1>5, <3>1, <3>2, <3>3, <3>4 DEF SearchedInv
  <2>2. pc' \in {"begin", "for"}
    BY <1>1, <1>3, <1>9
  <2>3. \A k \in 1 .. c : k \in 1 .. active \/ k = c
    BY <1>0, <1>1
  <2>4. QED
    BY <1>1, <1>6, <1>7, <2>1, <2>2, <2>3 DEF ValueInv
<1>10. QED
  BY <1>8, <1>9

(* A step that changes no window below the active node. *)
LEMMA WindowKept ==
  ASSUME WindowInv, UNCHANGED solver, active \in Nat \ {0}, active' \in {active, active - 1},
         pc' = "entry" => active' = active - 1,
         \A j \in 0 .. active : nodes'[j].beta = nodes[j].beta,
         \A j \in 0 .. active - 1 : nodes'[j].alpha = nodes[j].alpha
  PROVE  WindowInv'
<1>1. nodes'[0].alpha = OutOfRangeDefeatScore /\ nodes'[0].beta = -OutOfRangeDefeatScore
  BY DEF WindowInv
<1>2. ASSUME AlphaBetaPruning, NEW k \in 1 .. active' + 1, k <= active' \/ pc' = "entry"
      PROVE  nodes'[k].beta = -nodes'[k - 1].alpha
  <2>0. k \in 1 .. active
    <3>1. CASE active' = active - 1
      BY <3>1
    <3>2. CASE active' = active
      BY <1>2, <3>2
    <3>3. QED
      BY <3>1, <3>2
  <2>1. k \in 1 .. active + 1 /\ k <= active /\ k \in 0 .. active /\ k - 1 \in 0 .. active - 1
    BY <2>0
  <2>2. nodes[k].beta = -nodes[k - 1].alpha
    BY <1>2, <2>1 DEF WindowInv
  <2>3. QED
    BY <2>1, <2>2
<1>3. QED
  BY <1>1, <1>2 DEF WindowInv, AlphaBetaPruning

(* Nodes below the active one in a step that leaves them and the array.    *)
LEMMA BelowKept ==
  ASSUME ValueInv, ~RandomSampler, UNCHANGED <<game, solver, legal_moves>>,
         active \in Nat \ {0}, NEW k \in 1 .. active - 1,
         \A j \in 0 .. active - 1 : nodes'[j] = nodes[j]
  PROVE  SearchedInv(k)'
<1>1. k \in 1 .. active /\ k < active /\ k \in 0 .. active - 1 /\ k - 1 \in 0 .. active - 1
  OBVIOUS
<1>2. SearchedInv(k)
  BY <1>1 DEF ValueInv
<1>3. QED
  BY <1>1, <1>2, SearchedKept

LEMMA LoopValueInv == IInv /\ ValueInv /\ (MakeMove \/ NoMoreMoves) => ValueInv'
<1> SUFFICES ASSUME IInv, ValueInv, MakeMove \/ NoMoreMoves, ~RandomSampler PROVE ValueInv'
  BY DEF MakeMove, NoMoreMoves, ValueInv, RandomSampler
<1>1. /\ active \in Nat \ {0} /\ pc = "for" /\ pc' \in {"begin", "end"}
      /\ UNCHANGED <<game, solver, active, legal_moves>>
      /\ nodes \in [0 .. MaxNodes - 1 -> NodeSet]
      /\ WindowInv
  BY DEF MakeMove, NoMoreMoves, IInv, LabelInv, TypeInv, ValueInv
<1>2. ASSUME NEW j \in 0 .. active PROVE nodes'[j] = nodes[j]
  <2>1. active + 1 \in 0 .. MaxNodes - 1 /\ j \in 0 .. MaxNodes - 1 /\ j # active + 1
    BY <1>1, SolverAssumption DEF IInv, TypeInv
  <2>2. QED
    BY <1>1, <2>1 DEF MakeMove, NoMoreMoves
<1>3. WindowInv'
  BY <1>1, <1>2, WindowKept
<1>4. \A k \in 1 .. active - 1 : SearchedInv(k)'
  BY <1>1, <1>2, BelowKept
<1>5. active \in 1 .. active /\ active \in 0 .. active /\ active - 1 \in 0 .. active
  BY <1>1
<1>6. SearchedInv(active)
  BY <1>1, <1>5 DEF ValueInv
<1>0. PICK c : c = active
  OBVIOUS
<1>7. CASE MakeMove
  <2>1. SearchedInv(c)'
    BY <1>0, <1>1, <1>2, <1>5, <1>6, SearchedKept
  <2>2. pc' = "begin" /\ \A k \in 1 .. active : k \in 1 .. active - 1 \/ k = c
    BY <1>0, <1>1, <1>7 DEF MakeMove
  <2>3. QED
    BY <1>1, <1>3, <1>4, <2>1, <2>2 DEF ValueInv
<1>8. CASE NoMoreMoves
  <2>1. ResultInv(c)
    BY <1>0, <1>5, <1>6, <1>8, AllSearched DEF NoMoreMoves, Current, NextNode
  <2>2. ResultInv(c)'
    BY <1>0, <1>1, <1>2, <1>5, <2>1, ResultKept
  <2>3. pc' = "end" /\ \A k \in 1 .. active : k \in 1 .. active - 1 \/ k = c
    BY <1>0, <1>1, <1>8 DEF NoMoreMoves
  <2>4. QED
    BY <1>0, <1>1, <1>3, <1>4, <2>2, <2>3 DEF ValueInv
<1>9. QED
  BY <1>7, <1>8

(* The value that comes back for the move under the cursor. *)
LEMMA ValueOfMove ==
  ASSUME IInv, ValueInv, ~RandomSampler, pc = "entry"
  PROVE  LET v == -Worth(NextNode.gpx)
         IN  /\ v \in Int /\ Value \in Int /\ Current.alpha \in Int /\ Current.beta \in Int
             /\ IF ~AlphaBetaPruning THEN Value = v
                ELSE /\ Value > Current.alpha /\ Value < Current.beta => Value = v
                     /\ Value <= Current.alpha => v <= Value
                     /\ Value >= Current.beta => v >= Value
<1>0. PICK c : c = active
  OBVIOUS
<1>1. /\ c \in Nat \ {0} /\ c \in 1 .. active /\ c \in 1 .. active + 1 /\ c + 1 \in 1 .. active + 1
      /\ (c + 1) - 1 = c /\ WellFormed(game)
  BY <1>0 DEF IInv, LabelInv, TypeInv
<1>2. PlayInv(c) /\ ResultInv(c + 1) /\ ListInv(c)
  BY <1>0, <1>1 DEF ValueInv, IInv
<1>3. /\ nodes[c].alpha \in Int /\ nodes[c].beta \in Int /\ nodes[c + 1].alpha \in Int
      /\ Floor(c + 1) \in Int
  BY <1>1, NodeTypes
<1>4. nodes[c + 1].gpx \in Positions
  BY <1>1, <1>2, SuccessorsType DEF PlayInv, ListInv
<1>5. Worth(nodes[c + 1].gpx) \in Int
  BY <1>1, <1>4, WorthType
<1>6. /\ Current = nodes[c] /\ NextNode = nodes[c + 1] /\ Value = -nodes[c + 1].alpha
  BY <1>0 DEF Current, NextNode, Value
<1>7. AlphaBetaPruning => /\ Floor(c + 1) = -nodes[c].beta
                          /\ nodes[c + 1].beta = -nodes[c].alpha
  BY <1>0, <1>1 DEF ValueInv, WindowInv, Floor
<1> DEFINE r == nodes[c + 1].alpha
           w == Worth(nodes[c + 1].gpx)
           a == nodes[c].alpha
           b == nodes[c].beta
<1>8. IF ~AlphaBetaPruning THEN r = w
      ELSE /\ r <= -b => w <= r
           /\ r > -b /\ r < -a => w = r
           /\ r >= -a => w >= r
  BY <1>2, <1>7 DEF ResultInv
<1>9. r \in Int /\ w \in Int /\ a \in Int /\ b \in Int
  BY <1>3, <1>5
<1> HIDE DEF r, w, a, b
<1>10. IF ~AlphaBetaPruning THEN -r = -w
       ELSE /\ -r > a /\ -r < b => -r = -w
            /\ -r <= a => -w <= -r
            /\ -r >= b => -w >= -r
  BY <1>8, <1>9
<1>11. QED
  BY <1>6, <1>9, <1>10 DEF r, w, a, b

(* The moves lead to different positions: only the one under the cursor    *)
(* leads to the next node.                                                 *)
LEMMA OneMoveLeads ==
  ASSUME WellFormed(game), NEW p \in Positions, NEW q \in Successors(game, p),
         NEW r \in Successors(game, p), MoveTo(game, p, q) = MoveTo(game, p, r)
  PROVE  q = r
<1>1. CASE HasLegalMove(game, p)
  BY <1>1 DEF MoveTo
<1>2. CASE ~HasLegalMove(game, p)
  BY <1>2 DEF Successors
<1>3. QED
  BY <1>1, <1>2

LEMMA EntryValueInv == IInv /\ ValueInv /\ (Improve \/ NoImprovement) => ValueInv'
<1> SUFFICES ASSUME IInv, ValueInv, Improve \/ NoImprovement, ~RandomSampler PROVE ValueInv'
  BY DEF Improve, NoImprovement, ValueInv, RandomSampler
<1>0. PICK c : c = active
  OBVIOUS
<1>1. /\ c \in Nat \ {0} /\ active = c /\ active' = c /\ pc = "entry" /\ pc' \in {"for", "end"}
      /\ UNCHANGED <<game, solver, legal_moves>>
      /\ nodes \in [0 .. MaxNodes - 1 -> NodeSet]
      /\ WindowInv /\ WellFormed(game)
  BY <1>0 DEF Improve, NoImprovement, IInv, LabelInv, TypeInv, ValueInv
<1>2. /\ c \in 1 .. active /\ c \in 0 .. MaxNodes - 1 /\ c \in 1 .. active + 1
      /\ c - 1 \in 0 .. MaxNodes - 1 /\ c - 1 # c
      /\ \A j \in 0 .. c - 1 : j \in 0 .. MaxNodes - 1 /\ j # c
  BY <1>1, SolverAssumption DEF IInv, TypeInv
<1>3. SearchedInv(c) /\ PlayInv(c) /\ ListInv(c)
  BY <1>1, <1>2 DEF ValueInv, IInv
<1> DEFINE p == nodes[c].gpx
           q == nodes[c + 1].gpx
           a == nodes[c].alpha
           b == nodes[c].beta
           x == nodes[c].cursor
<1>4. /\ p \in Positions /\ q \in Successors(game, p) /\ legal_moves[x] = MoveTo(game, p, q)
      /\ x \in Nat /\ nodes[c].head \in Nat /\ x >= nodes[c].head
      /\ Floor(c) \in Int
  <2>1. p \in Positions /\ q \in Successors(game, p) /\ legal_moves[x] = MoveTo(game, p, q)
    BY <1>3 DEF ListInv, PlayInv
  <2>2. x \in Nat /\ nodes[c].head \in Nat /\ Floor(c) \in Int
    BY <1>2, NodeTypes
  <2>3. x >= nodes[c].head
    BY <1>3 DEF ListInv
  <2>4. QED
    BY <2>1, <2>2, <2>3
<1>5. /\ -Worth(q) \in Int /\ Value \in Int /\ a \in Int /\ b \in Int
      /\ IF ~AlphaBetaPruning THEN Value = -Worth(q)
         ELSE /\ Value > a /\ Value < b => Value = -Worth(q)
              /\ Value <= a => -Worth(q) <= Value
              /\ Value >= b => -Worth(q) >= Value
      /\ Current = nodes[c]
  BY <1>1, ValueOfMove DEF Current, NextNode
<1>6. ASSUME NEW r \in Successors(game, p), legal_moves[x] = MoveTo(game, p, r) PROVE r = q
  BY <1>1, <1>4, <1>6, OneMoveLeads
<1>7. ASSUME NEW i \in nodes[c].head .. x - 1, NEW r \in Successors(game, p),
             legal_moves[i] = MoveTo(game, p, r)
      PROVE  -Worth(r) <= a
  BY <1>3, <1>7 DEF SearchedInv
<1>8. \A i \in nodes[c].head .. (x + 1) - 1 : i = x \/ i \in nodes[c].head .. x - 1
  BY <1>4
<1>9. /\ ~IsTerminal(game, p) /\ Floor(c) <= a /\ (AlphaBetaPruning => a < b)
      /\ a > Floor(c) => Recorded(c)
  BY <1>3 DEF SearchedInv
<1>10. \A j \in 0 .. active - 1 : nodes'[j] = nodes[j]
  BY <1>1, <1>2 DEF Improve, NoImprovement
<1>11. \A j \in 0 .. active : nodes'[j].beta = nodes[j].beta
  <2>1. nodes'[c].beta = nodes[c].beta
    <3>1. nodes[c] \in NodeSet
      BY <1>1, <1>2
    <3>2. CASE NoImprovement
      <4>1. nodes'[c] = [nodes[c] EXCEPT !.cursor = @ + 1]
        BY <1>1, <1>2, <3>2 DEF NoImprovement
      <4>2. QED
        BY <3>1, <4>1 DEF NodeSet
    <3>3. CASE Improve
      <4>1. \E m : nodes'[c] = [nodes[c] EXCEPT !.best_move = legal_moves[Current.cursor],
                                                !.alpha = Value, !.cursor = m]
        BY <1>1, <1>2, <3>3 DEF Improve
      <4>2. QED
        BY <3>1, <4>1 DEF NodeSet
    <3>4. QED
      BY <3>2, <3>3
  <2>2. \A j \in 0 .. active : j \in 0 .. active - 1 \/ j = c
    BY <1>1
  <2>3. QED
    BY <1>10, <2>1, <2>2
<1>12. WindowInv'
  <2>1. pc' # "entry" /\ active' \in {active, active - 1} /\ active \in Nat \ {0}
    BY <1>1
  <2>2. QED
    BY <1>1, <1>10, <1>11, <2>1, WindowKept
<1>13. \A k \in 1 .. active - 1 : SearchedInv(k)'
  BY <1>1, <1>10, BelowKept
<1>14. \A k \in 1 .. active : k \in 1 .. active - 1 \/ k = c
  BY <1>1
<1>15. /\ Floor(c)' = Floor(c) /\ (AlphaBetaPruning' <=> AlphaBetaPruning)
       /\ \A s : Worth(s)' = Worth(s)
       /\ \A s : IsTerminal(game', s) <=> IsTerminal(game, s)
  BY <1>1, <1>2, <1>10 DEF Floor, AlphaBetaPruning, Worth
<1>16. CASE NoImprovement
  <2>1. /\ Value <= a /\ pc' = "for" /\ nodes'[c] = [nodes[c] EXCEPT !.cursor = @ + 1]
    BY <1>1, <1>2, <1>5, <1>16 DEF NoImprovement
  <2>2. /\ nodes'[c].gpx = p /\ nodes'[c].alpha = a /\ nodes'[c].beta = b
        /\ nodes'[c].head = nodes[c].head /\ nodes'[c].cursor = x + 1
        /\ nodes'[c].best_move = nodes[c].best_move
    BY <1>1, <1>2, <2>1 DEF NodeSet
  <2>3. -Worth(q) <= a
    BY <1>5, <2>1
  <2>4. \A i \in nodes[c].head .. (x + 1) - 1 : \A r \in Successors(game, p) :
          legal_moves[i] = MoveTo(game, p, r) => -Worth(r) <= a
    BY <1>6, <1>7, <1>8, <2>3
  <2>5. Recorded(c)' <=> Recorded(c)
    BY <1>1, <1>15, <2>2 DEF Recorded
  <2>6. SearchedInv(c)'
    <3> HIDE DEF p, q, a, b, x
    <3>1. QED
      BY <1>1, <1>9, <1>15, <2>2, <2>4, <2>5 DEF SearchedInv
  <2>7. QED
    BY <1>1, <1>12, <1>13, <1>14, <2>1, <2>6 DEF ValueInv
<1>17. CASE Improve
  <2> DEFINE cut == AlphaBetaPruning /\ Value >= b
  <2>1. /\ Value > a /\ pc' = (IF cut THEN "end" ELSE "for")
        /\ nodes'[c].gpx = p /\ nodes'[c].alpha = Value /\ nodes'[c].beta = b
        /\ nodes'[c].head = nodes[c].head /\ nodes'[c].best_move = legal_moves[x]
        /\ nodes'[c].cursor = IF cut THEN x ELSE x + 1
    BY <1>1, <1>2, <1>5, <1>17 DEF Improve, NodeSet
  <2>2. Value > Floor(c)
    BY <1>4, <1>5, <1>9, <2>1
  <2> HIDE DEF cut, p, q, a, b, x
  <2>3. CASE ~cut
    <3>1. -Worth(q) = Value /\ (AlphaBetaPruning => Value < b)
      BY <1>5, <2>1, <2>3 DEF cut
    <3>2. \A i \in nodes[c].head .. (x + 1) - 1 : \A r \in Successors(game, p) :
            legal_moves[i] = MoveTo(game, p, r) => -Worth(r) <= Value
      <4>1. ASSUME NEW i \in nodes[c].head .. (x + 1) - 1, NEW r \in Successors(game, p),
                   legal_moves[i] = MoveTo(game, p, r)
            PROVE  -Worth(r) <= Value
        <5>1. CASE i = x
          BY <1>5, <1>6, <3>1, <4>1, <5>1
        <5>2. CASE i # x
          <6>1. -Worth(r) <= a
            BY <1>7, <1>8, <4>1, <5>2
          <6>2. WellFormed(game) /\ r \in Positions
            BY <1>1, <1>4, SuccessorsType
          <6>3. Worth(r) \in Int
            BY <6>2, WorthType
          <6>4. QED
            BY <1>5, <2>1, <6>1, <6>3
        <5>3. QED
          BY <5>1, <5>2
      <4>2. QED
        BY <4>1
    <3>3. Recorded(c)'
      BY <1>1, <1>4, <1>15, <2>1, <3>1 DEF Recorded, MoveTo, Successors, HasLegalMove, IsTerminal
    <3>4. Floor(c) <= Value
      BY <1>4, <1>5, <2>2
    <3>5. SearchedInv(c)'
      BY <1>1, <1>9, <1>15, <2>1, <2>3, <3>1, <3>2, <3>3, <3>4 DEF SearchedInv
    <3>6. QED
      BY <1>1, <1>12, <1>13, <1>14, <2>1, <2>3, <3>5 DEF ValueInv
  <2>4. CASE cut
    <3>1. -Worth(q) >= Value /\ AlphaBetaPruning /\ Value >= b
      BY <1>5, <2>4 DEF cut
    <3>2. -Worth(q) <= Worth(p) /\ Worth(p) \in Int
      BY <1>1, <1>4, WorthType, MinimaxValue, SolverAssumption DEF Worth, Positions
    <3>3. Worth(p) >= Value
      BY <1>5, <3>1, <3>2
    <3>4. ResultInv(c)'
      <4>1. ~(Value <= Floor(c)) /\ ~(Value < b)
        BY <1>4, <1>5, <2>2, <3>1
      <4>2. QED
        BY <1>1, <1>9, <1>15, <2>1, <3>1, <3>3, <4>1 DEF ResultInv
    <3>5. QED
      BY <1>1, <1>12, <1>13, <1>14, <2>1, <2>4, <3>4 DEF ValueInv
  <2>5. QED
    BY <2>3, <2>4
<1>18. QED
  BY <1>16, <1>17

(* The result of the active node is what the node below searches next. *)
LEMMA EndValueInv == IInv /\ ValueInv /\ End => ValueInv'
<1> SUFFICES ASSUME IInv, ValueInv, End, ~RandomSampler PROVE ValueInv'
  BY DEF End, ValueInv, RandomSampler
<1>0. PICK c : c = active - 1
  OBVIOUS
<1>1. /\ active \in Nat /\ active > 1 /\ c \in Nat \ {0} /\ c + 1 = active
      /\ active' = c /\ pc = "end" /\ pc' = "entry"
      /\ UNCHANGED <<game, solver, nodes, legal_moves>> /\ WindowInv
  BY <1>0 DEF End, IInv, TypeInv, ValueInv
<1>2. /\ c \in 1 .. active - 1 /\ c \in 1 .. active /\ c + 1 \in 1 .. active
      /\ \A k \in 1 .. c : k \in 1 .. active - 1
  BY <1>1
<1>3. WindowInv'
  BY <1>0, <1>1, WindowKept
<1>4. \A k \in 1 .. active - 1 : SearchedInv(k)'
  BY <1>1, BelowKept
<1>5. PlayInv(c)'
  BY <1>1, <1>2 DEF IInv, PlayInv
<1>6. ResultInv(c + 1)
  BY <1>1, <1>2 DEF ValueInv
<1>7. ResultInv(c + 1)'
  BY <1>1, <1>6, ResultKept
<1>8. QED
  BY <1>1, <1>2, <1>3, <1>4, <1>5, <1>7 DEF ValueInv

(* A run that is not the last leaves a stack ready for the next one. *)
LEMMA EndOfRunValueInv == IInv /\ ValueInv /\ EndOfRun => ValueInv'
<1> SUFFICES ASSUME IInv, ValueInv, EndOfRun, ~RandomSampler PROVE ValueInv'
  BY DEF EndOfRun, ValueInv, RandomSampler
<1>1. /\ active' = 0 /\ pc' \in {"begin", "done"} /\ WindowInv
      /\ nodes' \in {nodes, InitStack(nodes)}
      /\ nodes \in [0 .. MaxNodes - 1 -> NodeSet] /\ 0 \in 0 .. MaxNodes - 1
  BY SolverAssumption DEF EndOfRun, IInv, TypeInv, ValueInv
<1>2. nodes'[0].alpha = OutOfRangeDefeatScore /\ nodes'[0].beta = -OutOfRangeDefeatScore
  <2>1. CASE nodes' = nodes
    BY <1>1, <2>1 DEF WindowInv
  <2>2. CASE nodes' = InitStack(nodes)
    BY <1>1, <2>2, ZenonT(30) DEF InitStack, InitNode, NodeSet
  <2>3. QED
    BY <1>1, <2>1, <2>2
<1>3. QED
  BY <1>1, <1>2 DEF ValueInv, WindowInv

LEMMA NextValueInv == IInv /\ ValueInv /\ [Next]_vars => ValueInv'
<1> SUFFICES ASSUME IInv, ValueInv, [Next]_vars PROVE ValueInv'
  OBVIOUS
<1>1. CASE UNCHANGED vars
  BY <1>1 DEF vars, ValueInv, WindowInv, SearchedInv, ResultInv, PlayInv, Recorded, Floor,
             Worth, AlphaBetaPruning, RandomSampler
<1>2. CASE Next
  BY <1>2, BeginValueInv, LoopValueInv, EntryValueInv, EndValueInv, EndOfRunValueInv DEF Next
<1>3. QED
  BY <1>1, <1>2

(* The result of the first node is the solution of the root. *)
LEMMA RootSolved ==
  ASSUME IInv, ValueInv, ~RandomSampler, pc = "end", active = 1, nodes[1].gpx = Root
  PROVE  /\ nodes[1].alpha = Worth(Root)
         /\ IF IsTerminal(game, Root) THEN nodes[1].best_move = InvalidMove
            ELSE \E q \in Successors(game, Root) :
                   -Worth(q) = Worth(Root) /\ nodes[1].best_move = MoveTo(game, Root, q)
<1>1. ResultInv(1) /\ WindowInv
  BY DEF ValueInv
<1>2. WellFormed(game) /\ Root \in Positions
  BY DEF IInv, TypeInv, WellFormed, Positions
<1>3. /\ Worth(Root) \in Int /\ OutOfRangeDefeatScore \in Int
      /\ OutOfRangeDefeatScore < Worth(Root) /\ Worth(Root) < -OutOfRangeDefeatScore
  BY <1>2, WorthType
<1>4. nodes[1].alpha \in Int
  BY NodeTypes DEF IInv, TypeInv
<1>5. AlphaBetaPruning => Floor(1) = OutOfRangeDefeatScore
                          /\ nodes[1].beta = -OutOfRangeDefeatScore
  <2>1. SUFFICES ASSUME AlphaBetaPruning PROVE Floor(1) = OutOfRangeDefeatScore
                          /\ nodes[1].beta = -OutOfRangeDefeatScore
    OBVIOUS
  <2>2. nodes[1].beta = -nodes[0].alpha /\ nodes[0].alpha = OutOfRangeDefeatScore
        /\ nodes[0].beta = -OutOfRangeDefeatScore
    BY <1>1, <2>1 DEF WindowInv
  <2>3. QED
    BY <1>3, <2>1, <2>2 DEF Floor
<1>6. nodes[1].alpha > Floor(1) /\ (AlphaBetaPruning => nodes[1].alpha < nodes[1].beta)
      /\ nodes[1].alpha = Worth(Root)
  <2>1. CASE AlphaBetaPruning
    <3> DEFINE a == nodes[1].alpha
               w == Worth(Root)
               o == OutOfRangeDefeatScore
    <3>1. /\ a <= o => w <= a
          /\ a > o /\ a < -o => w = a
          /\ a >= -o => w >= a
      BY <1>1, <1>5, <2>1 DEF ResultInv
    <3>2. a \in Int /\ w \in Int /\ o \in Int /\ o < w /\ w < -o
      BY <1>3, <1>4
    <3> HIDE DEF a, w, o
    <3>3. a = w /\ a > o /\ a < -o
      BY <3>1, <3>2
    <3>4. QED
      BY <1>5, <2>1, <3>3 DEF a, w, o
  <2>2. CASE ~AlphaBetaPruning
    <3>1. nodes[1].alpha = Worth(Root)
      BY <1>1, <2>2 DEF ResultInv
    <3>2. Floor(1) = OutOfRangeDefeatScore
      BY <2>2 DEF Floor
    <3>3. QED
      BY <1>3, <2>2, <3>1, <3>2
  <2>3. QED
    BY <2>1, <2>2
<1>7. IF IsTerminal(game, Root) THEN nodes[1].best_move = InvalidMove ELSE Recorded(1)
  BY <1>1, <1>6 DEF ResultInv
<1>8. QED
  BY <1>6, <1>7 DEF Recorded

-----------------------------------------------------------------------------
(* The games that can be played from a position are well defined. *)
OutcomesFrom(g, p, o) ==
  IF IsTerminal(g, p) THEN {FinalValue(g, p)}
  ELSE UNION {{-x : x \in o[q]} : q \in Successors(g, p)}

LEMMA OutcomesEquation ==
  ASSUME NEW g, WellFormed(g), BestScore \in Nat
  PROVE  Outcomes(g) = [p \in DOMAIN g.moves |-> OutcomesFrom(g, p, Outcomes(g))]
<1> DEFINE D == DOMAIN g.moves
           V == SUBSET Int
           Solves(o) == o = [p \in D |-> OutcomesFrom(g, p, o)]
<1>1. \E o : Solves(o)
  <2> DEFINE step == [pf \in D \X [D -> V] |-> OutcomesFrom(g, pf[1], pf[2])]
  <2>1. ASSUME NEW p \in D, NEW f \in [D -> V]
        PROVE  step[<<p, f>>] = OutcomesFrom(g, p, f) /\ step[<<p, f>>] \in V
    <3>1. <<p, f>> \in D \X [D -> V] /\ <<p, f>>[1] = p /\ <<p, f>>[2] = f
      OBVIOUS
    <3>2. step[<<p, f>>] = OutcomesFrom(g, p, f)
      BY <3>1
    <3>3. FinalValue(g, p) \in Int
      BY DEF FinalValue, WellFormed, WorstScore
    <3>4. \A q \in Successors(g, p) : f[q] \subseteq Int
      BY SuccessorsListed
    <3>5. OutcomesFrom(g, p, f) \subseteq Int
      BY <3>3, <3>4 DEF OutcomesFrom
    <3> HIDE DEF step
    <3> QED
      BY <3>2, <3>5
  <2>2. step \in [D \X [D -> V] -> V]
    <3>1. step = [pf \in D \X [D -> V] |-> step[pf]]
      OBVIOUS
    <3>2. \A pf \in D \X [D -> V] : \E p \in D : \E f \in [D -> V] : pf = <<p, f>>
      OBVIOUS
    <3> HIDE DEF step
    <3>3. \A pf \in D \X [D -> V] : step[pf] \in V
      BY <2>1, <3>2
    <3> HIDE DEF V
    <3> QED
      BY <3>1, <3>3
  <2>3. ASSUME NEW p \in D, NEW f \in [D -> V], NEW h \in [D -> V],
               \A q \in Successors(g, p) : f[q] = h[q]
        PROVE  step[<<p, f>>] = step[<<p, h>>]
    <3>1. OutcomesFrom(g, p, f) = OutcomesFrom(g, p, h)
      BY <2>3 DEF OutcomesFrom
    <3> HIDE DEF step
    <3> QED
      BY <2>1, <3>1
  <2>4. PICK o \in [D -> V] : \A p \in D : o[p] = step[<<p, o>>]
    <3>1. V # {}
      OBVIOUS
    <3> HIDE DEF step, V
    <3>2. OverGame(g, V, step)
      BY <2>2, <2>3, <3>1 DEF OverGame
    <3> QED
      BY <3>2, RecursionOverGame
  <2>5. o = [p \in D |-> o[p]]
    OBVIOUS
  <2> HIDE DEF step, D, V
  <2>6. Solves(o)
    BY <2>1, <2>4, <2>5
  <2> QED
    BY <2>6
<1>2. Outcomes(g) = CHOOSE o : Solves(o)
  BY DEF Outcomes, OutcomesFrom
<1> HIDE DEF Solves
<1>3. Solves(Outcomes(g))
  BY <1>1, <1>2
<1> QED
  BY <1>3 DEF Solves

(* The sampler has no loop, and the value that it hands down is the        *)
(* outcome of a game that goes through the position of the active node.    *)
SampleInv ==
  RandomSampler =>
    /\ pc \in {"begin", "end", "done"}
    /\ pc = "end" => Current.alpha \in Outcomes(game)[Current.gpx]

(* The first node is the one of the root. *)
RootInv == active > 0 => nodes[1].gpx = Root

ResultsInv == ValueInv /\ SampleInv /\ RootInv /\ BestMoveFound /\ SampledOutcome

LEMMA NextSampleInv == IInv /\ SampleInv /\ [Next]_vars => SampleInv'
<1> SUFFICES ASSUME IInv, SampleInv, [Next]_vars, RandomSampler PROVE SampleInv'
  BY DEF Next, Begin, MakeMove, NoMoreMoves, Improve, NoImprovement, End, EndOfRun, vars,
         SampleInv, RandomSampler
<1> DEFINE o == Outcomes(game)
<1>1. WellFormed(game) /\ pc \in {"begin", "end", "done"}
  BY DEF IInv, TypeInv, SampleInv
<1>2. \A p \in Positions : o[p] = OutcomesFrom(game, p, o)
  <2> HIDE DEF o
  <2>1. o = [p \in Positions |-> OutcomesFrom(game, p, o)]
    BY <1>1, OutcomesEquation, SolverAssumption DEF Positions, o
  <2>2. QED
    BY <2>1
<1>3. CASE Begin
  <2>1. /\ active' = active + 1 /\ game' = game /\ NewNode.gpx \in Positions
        /\ pc' \in {"begin", "end"}
        /\ pc' = "end" => IsTerminal(game, NewNode.gpx)
        /\ nodes'[active + 1].gpx = NewNode.gpx
        /\ IsTerminal(game, NewNode.gpx) =>
             nodes'[active + 1].alpha = FinalValue(game, NewNode.gpx)
    BY <1>3, BeginStep
  <2>2. SUFFICES ASSUME pc' = "end" PROVE Current.alpha' \in Outcomes(game')[Current.gpx']
    BY <2>1 DEF SampleInv
  <2>3. Current.alpha' = FinalValue(game, NewNode.gpx) /\ Current.gpx' = NewNode.gpx
    BY <2>1, <2>2 DEF Current
  <2>4. o[NewNode.gpx] = {FinalValue(game, NewNode.gpx)}
    BY <1>2, <2>1, <2>2 DEF OutcomesFrom
  <2>5. QED
    BY <2>1, <2>3, <2>4
<1>4. CASE End
  <2>0. PICK c : c = active - 1
    OBVIOUS
  <2>1. /\ active \in Nat /\ active > 1 /\ active' = c /\ pc = "end" /\ pc' = "end"
        /\ c \in 1 .. active - 1 /\ c + 1 = active /\ c \in 1 .. active
        /\ game' = game /\ nodes \in [0 .. MaxNodes - 1 -> NodeSet] /\ c \in 0 .. MaxNodes - 1
        /\ nodes' = [nodes EXCEPT ![c].alpha = -Current.alpha]
    <3>1. active \in 0 .. MaxNodes - 2 /\ nodes \in [0 .. MaxNodes - 1 -> NodeSet]
      BY DEF IInv, TypeInv
    <3>2. /\ active > 1 /\ active' = c /\ pc = "end" /\ pc' = "end" /\ game' = game
          /\ nodes' = [nodes EXCEPT ![c].alpha = -Current.alpha]
      BY <1>4, <2>0 DEF End
    <3>3. QED
      BY <2>0, <3>1, <3>2, SolverAssumption
  <2>2. PlayInv(c) /\ ListInv(c)
    BY <2>1 DEF IInv
  <2>3. /\ nodes[c].gpx \in Positions
        /\ Current.gpx \in Successors(game, nodes[c].gpx)
    BY <2>1, <2>2 DEF PlayInv, ListInv, Current
  <2>4. Current.alpha \in o[Current.gpx]
    BY <2>1 DEF SampleInv
  <2>5. -Current.alpha \in o[nodes[c].gpx]
    <3>1. ~IsTerminal(game, nodes[c].gpx)
      BY <2>3 DEF Successors
    <3> HIDE DEF o
    <3>2. o[nodes[c].gpx] = UNION {{-x : x \in o[q]} : q \in Successors(game, nodes[c].gpx)}
      BY <1>2, <2>3, <3>1 DEF OutcomesFrom
    <3>3. QED
      BY <2>3, <2>4, <3>2
  <2>6. nodes'[c].alpha = -Current.alpha /\ nodes'[c].gpx = nodes[c].gpx
    <3>1. nodes[c] \in NodeSet /\ nodes'[c] = [nodes[c] EXCEPT !.alpha = -Current.alpha]
      BY <2>1
    <3>2. QED
      BY <3>1 DEF NodeSet
  <2>7. QED
    BY <2>1, <2>5, <2>6 DEF SampleInv, Current
<1>5. CASE EndOfRun
  BY <1>5 DEF EndOfRun, SampleInv
<1>6. CASE MakeMove \/ NoMoreMoves \/ Improve \/ NoImprovement
  BY <1>1, <1>6 DEF MakeMove, NoMoreMoves, Improve, NoImprovement
<1>7. CASE UNCHANGED vars
  BY <1>7 DEF vars, SampleInv, RandomSampler, Current
<1>8. QED
  BY <1>3, <1>4, <1>5, <1>6, <1>7 DEF Next

LEMMA NextRootInv == IInv /\ RootInv /\ [Next]_vars => RootInv'
<1> SUFFICES ASSUME IInv, RootInv, [Next]_vars, active' > 0 PROVE nodes'[1].gpx = Root
  BY DEF RootInv
<1>1. /\ active \in 0 .. MaxNodes - 2 /\ nodes \in [0 .. MaxNodes - 1 -> NodeSet]
      /\ 1 \in 0 .. MaxNodes - 1
  BY SolverAssumption DEF IInv, TypeInv
<1>2. CASE Begin
  <2>1. CASE active = 0
    BY <1>2, <2>1, BeginStep DEF IInv, LabelInv, Begin
  <2>2. CASE active # 0
    <3>1. 1 # active + 1 /\ 1 # active + 2 /\ active > 0
      BY <1>1, <2>2
    <3>2. nodes'[1] = nodes[1]
      BY <1>1, <1>2, <3>1, BeginStep
    <3>3. QED
      BY <3>1, <3>2 DEF RootInv
  <2>3. QED
    BY <2>1, <2>2
<1>3. CASE MakeMove
  <2>1. active > 0 /\ 1 # active + 1
    BY <1>1, <1>3 DEF IInv, LabelInv, MakeMove
  <2>2. nodes'[1] = nodes[1]
    BY <1>1, <1>3, <2>1 DEF MakeMove
  <2>3. QED
    BY <2>1, <2>2 DEF RootInv
<1>4. CASE Improve \/ NoImprovement
  <2>1. active > 0
    BY <1>4 DEF IInv, LabelInv, Improve, NoImprovement
  <2>2. nodes[1] \in NodeSet
    BY <1>1
  <2>3. nodes'[1].gpx = nodes[1].gpx
    <3>1. CASE active # 1
      BY <1>1, <1>4, <3>1 DEF Improve, NoImprovement
    <3>2. CASE active = 1 /\ NoImprovement
      <4>1. nodes'[1] = [nodes[1] EXCEPT !.cursor = @ + 1]
        BY <1>1, <3>2 DEF NoImprovement
      <4>2. QED
        BY <2>2, <4>1 DEF NodeSet
    <3>3. CASE active = 1 /\ Improve
      <4>1. \E m : nodes'[1] = [nodes[1] EXCEPT !.best_move = legal_moves[Current.cursor],
                                                !.alpha = Value, !.cursor = m]
        BY <1>1, <3>3 DEF Improve
      <4>2. QED
        BY <2>2, <4>1 DEF NodeSet
    <3>4. QED
      BY <1>4, <3>1, <3>2, <3>3
  <2>4. QED
    BY <2>1, <2>3 DEF RootInv
<1>5. CASE End
  <2>1. active > 0 /\ nodes[1] \in NodeSet
    BY <1>1, <1>5 DEF End
  <2>2. nodes'[1].gpx = nodes[1].gpx
    <3>1. CASE nodes' = nodes
      BY <3>1
    <3>2. CASE nodes' = [nodes EXCEPT ![active - 1].alpha = -Current.alpha]
      <4>1. nodes'[1] = nodes[1] \/ nodes'[1] = [nodes[1] EXCEPT !.alpha = -Current.alpha]
        BY <1>1, <3>2
      <4>2. QED
        BY <2>1, <4>1 DEF NodeSet
    <3>3. QED
      BY <1>5, <3>1, <3>2 DEF End
  <2>3. QED
    BY <2>1, <2>2 DEF RootInv
<1>6. CASE EndOfRun
  BY <1>6 DEF EndOfRun
<1>7. CASE NoMoreMoves \/ UNCHANGED vars
  BY <1>7 DEF NoMoreMoves, vars, RootInv
<1>8. QED
  BY <1>2, <1>3, <1>4, <1>5, <1>6, <1>7 DEF Next

(* The solution is set when the last run ends. *)
LEMMA NextSolution ==
  IInv /\ ResultsInv /\ [Next]_vars => BestMoveFound' /\ SampledOutcome'
<1> SUFFICES ASSUME IInv, ResultsInv, [Next]_vars PROVE BestMoveFound' /\ SampledOutcome'
  OBVIOUS
<1>1. UNCHANGED <<game, solver>>
  BY DEF Next, Begin, MakeMove, NoMoreMoves, Improve, NoImprovement, End, EndOfRun, vars
<1>2. CASE UNCHANGED solution
  <2>1. BestMoveFound'
    BY <1>1, <1>2 DEF ResultsInv, BestMoveFound, RandomSampler
  <2>2. SampledOutcome'
    BY <1>1, <1>2 DEF ResultsInv, SampledOutcome, RandomSampler
  <2>3. QED
    BY <2>1, <2>2
<1>3. CASE EndOfRun /\ solution' = [outcome |-> nodes[1].alpha, best_move |-> nodes[1].best_move]
  <2>1. /\ pc = "end" /\ active = 1 /\ nodes[1].gpx = Root
        /\ solution'.outcome = nodes[1].alpha /\ solution'.best_move = nodes[1].best_move
    BY <1>3 DEF EndOfRun, ResultsInv, RootInv
  <2>2. BestMoveFound'
    <3>1. SUFFICES ASSUME ~RandomSampler PROVE BestMoveFound'
      BY <1>1 DEF BestMoveFound, RandomSampler
    <3>2. /\ nodes[1].alpha = Worth(Root)
          /\ IF IsTerminal(game, Root) THEN nodes[1].best_move = InvalidMove
             ELSE \E q \in Successors(game, Root) :
                    -Worth(q) = Worth(Root) /\ nodes[1].best_move = MoveTo(game, Root, q)
      BY <2>1, <3>1, RootSolved DEF ResultsInv
    <3>3. QED
      BY <1>1, <2>1, <3>2 DEF BestMoveFound, Worth
  <2>3. SampledOutcome'
    BY <1>1, <2>1 DEF SampledOutcome, RandomSampler, ResultsInv, SampleInv, Current
  <2>4. QED
    BY <2>2, <2>3
<1>4. QED
  BY <1>2, <1>3 DEF Next, Begin, MakeMove, NoMoreMoves, Improve, NoImprovement, End, EndOfRun, vars

LEMMA ResultsInductive == Spec => []ResultsInv
<1>1. Init => ResultsInv
  <2> SUFFICES ASSUME Init PROVE ResultsInv
    OBVIOUS
  <2>1. solution = Unsolved /\ active = 0 /\ pc = "begin"
    BY DEF Init
  <2>2. QED
    BY <2>1, InitValueInv DEF ResultsInv, SampleInv, RootInv, BestMoveFound, SampledOutcome
<1>2. IInv /\ ResultsInv /\ [Next]_vars => ResultsInv'
  BY NextValueInv, NextSampleInv, NextRootInv, NextSolution DEF ResultsInv
<1>3. QED
  BY <1>1, <1>2, SearchInductive, PTL DEF Spec

(* What the search returns for a move is its game value inside the window  *)
(* of the node and a bound outside it, and its game value always when      *)
(* nothing is pruned, for any game and any order of the moves.             *)
THEOREM ReturnedValues == Spec => []ReturnedValueSound
<1>1. IInv /\ ResultsInv => ReturnedValueSound
  <2> SUFFICES ASSUME IInv, ResultsInv, pc = "entry" PROVE ReturnedValueSound
    BY DEF ReturnedValueSound
  <2>1. ~RandomSampler /\ ValueInv
    BY DEF ResultsInv, SampleInv
  <2> DEFINE v == -Worth(NextNode.gpx)
  <2>2. /\ v \in Int /\ Value \in Int /\ Current.alpha \in Int /\ Current.beta \in Int
        /\ IF ~AlphaBetaPruning THEN Value = v
           ELSE /\ Value > Current.alpha /\ Value < Current.beta => Value = v
                /\ Value <= Current.alpha => v <= Value
                /\ Value >= Current.beta => v >= Value
    BY <2>1, ValueOfMove
  <2> HIDE DEF v
  <2>3. IF ~AlphaBetaPruning THEN Value = v
        ELSE /\ Value > Current.alpha /\ Value < Current.beta => Value = v
             /\ Value <= Current.alpha => v <= Current.alpha
             /\ Value >= Current.beta => v >= Current.beta
    BY <2>2
  <2>4. QED
    BY <2>3 DEF ReturnedValueSound, v, Worth
<1>2. QED
  BY <1>1, SearchInductive, ResultsInductive, PTL

(* A solution is the game value of the root with a best move of it, with   *)
(* pruning or without, for any game, any order of the moves and any number *)
(* of runs in one stack.                                                   *)
THEOREM SolutionCorrect == Spec => []BestMoveFound
<1>1. ResultsInv => BestMoveFound
  BY DEF ResultsInv
<1>2. QED
  BY <1>1, ResultsInductive, PTL

(* What the sampler returns is the outcome, for the player to move at the  *)
(* root, of a game that can be played from the root.                       *)
THEOREM SampleCorrect == Spec => []SampledOutcome
<1>1. ResultsInv => SampledOutcome
  BY DEF ResultsInv
<1>2. QED
  BY <1>1, ResultsInductive, PTL
==============================================================================
