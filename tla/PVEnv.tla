-------------------------------- MODULE PVEnv --------------------------------
(***************************************************************************)
(* The principal variation environment, PVEnv of game_tree_utils.c: lines  *)
(* are linked lists of cells, a cell may start a chain of variant lines,   *)
(* and every cell in use counts as one reference to its game position in   *)
(* gp_table.  The environment is driven the way the two exact solvers      *)
(* drive it (game_position_solve_impl in exact_solver.c and                *)
(* exact_solver2.c): the recursive search owns one line per active call.   *)
(* Values of positions are left out; which of the three outcomes a         *)
(* comparison has is chosen freely.                                        *)
(*                                                                         *)
(* pve_line_delete is recursive, so it is a small machine here: frames is  *)
(* its stack of activations, and one step is one turn of its while loop.   *)
(***************************************************************************)
EXTENDS FreeStack, Sequences, FiniteSets

CONSTANTS
  LinesFirstSize, LinesSegmentsSize,   \* PVE_LINES_FIRST_SIZE, PVE_LINES_SEGMENTS_SIZE
  CellsFirstSize, CellsSegmentsSize,   \* PVE_CELLS_FIRST_SIZE, PVE_CELLS_SEGMENTS_SIZE
  MaxDepth,                            \* bound on the active calls of solve_impl
  Moves, PassMove, InvalidMove,        \* squares and pass_move; pass_move; invalid_move
  GamePositions,                       \* GamePositionX values
  FullRecording                        \* env->pv_full_recording

ASSUME PVEnvAssumption ==
  /\ LinesFirstSize \in Nat \ {0} /\ LinesSegmentsSize \in Nat
  /\ CellsFirstSize \in Nat \ {0} /\ CellsSegmentsSize \in Nat
  /\ MaxDepth \in Nat \ {0}
  /\ PassMove \in Moves /\ InvalidMove \notin Moves
  /\ NULL \notin GamePositions
  /\ FullRecording \in BOOLEAN

VARIABLES
  lines, cells,       \* the two pools: lines_stack, cells_stack and their heads
  lines_sorted,       \* flag pve_state_lines_stack_sorted
  first,              \* first[l] is *l, the first cell of line l, or NULL
  move, is_active, next, variant, gpx,   \* the fields of each PVCell
  gp_table,           \* ref_count of each position that has an entry
  line_balance,       \* line_create_count - line_delete_count
  cell_balance,       \* line_add_move_count - line_release_cell_count
  held,               \* held[1] is root_line, held[k+1] the k-th pve_line of the search
  calls,              \* the active calls of game_position_solve_impl
  frames              \* the active calls of pve_line_delete

heap == <<lines, cells, lines_sorted, first, move, is_active, next, variant,
          gpx, gp_table, line_balance, cell_balance>>
vars == <<heap, held, calls, frames>>

-----------------------------------------------------------------------------
(* Mutant: a line counts as accepted from the start. *)
NewCallActive == [pc |-> "enter", branch_is_active |-> TRUE]

(* A call of game_position_solve_impl. *)
NewCall == [pc |-> "enter", branch_is_active |-> FALSE]

(* pve_new: both pools hold one segment, and root_line is created. *)
Init ==
  /\ lines = Pop(NewPool(LinesFirstSize))
  /\ cells = NewPool(CellsFirstSize)
  /\ lines_sorted = FALSE
  /\ first = [l \in 0 .. lines.size - 1 |-> NULL]
  /\ move = [c \in 0 .. CellsFirstSize - 1 |-> InvalidMove]
  /\ is_active = [c \in 0 .. CellsFirstSize - 1 |-> FALSE]
  /\ next = [c \in 0 .. CellsFirstSize - 1 |-> NULL]
  /\ variant = [c \in 0 .. CellsFirstSize - 1 |-> NULL]
  /\ gpx = [c \in 0 .. CellsFirstSize - 1 |-> NULL]
  /\ gp_table = [g \in {} |-> 0]
  /\ line_balance = 1
  /\ cell_balance = 0
  /\ held = <<Top(NewPool(LinesFirstSize))>>
  /\ calls = <<NewCall>>
  /\ frames = << >>

-----------------------------------------------------------------------------
(* Operations of the environment.  Each one is a conjunct of the actions   *)
(* below and assigns the variables its C function writes.                  *)

Unsorted(p) == IF lines_sorted THEN ClearUsedHalf(p) ELSE p

(* pve_line_create; the result is held by the caller. *)
LineCreate ==
  LET p == Unsorted(lines)
  IN  /\ CanPop(p, LinesSegmentsSize)
      /\ lines' = Pop(p)
      /\ lines_sorted' = FALSE
      /\ first' = [Grow(first, Pop(p).size, NULL) EXCEPT ![Top(p)] = NULL]
      /\ line_balance' = line_balance + 1
      /\ held' = Append(held, Top(p))

(* rbt_probe on gp_table, then ref_count++. *)
Referenced(t, g) ==
  [x \in DOMAIN t \cup {g} |->
     IF x = g THEN (IF g \in DOMAIN t THEN t[g] ELSE 0) + 1 ELSE t[x]]

(* Mutant: the entry that reaches zero stays. *)
DereferencedKept(t, g) == [t EXCEPT ![g] = @ - 1]

(* ref_count--, and rbt_delete of an entry that reaches zero. *)
Dereferenced(t, g) ==
  [x \in DOMAIN t \ (IF t[g] = 1 THEN {g} ELSE {}) |->
     IF x = g THEN t[x] - 1 ELSE t[x]]

(* pve_line_add_move, pve_line_add_move2: cell c becomes the first of line *)
(* l.  The function leaves the variant field of the cell alone.            *)
LineAddMove(l, m, g) ==
  LET c == Top(cells)
      n == Pop(cells).size
  IN  /\ CanPop(cells, CellsSegmentsSize)
      /\ cells' = Pop(cells)
      /\ move' = [Grow(move, n, InvalidMove) EXCEPT ![c] = m]
      /\ is_active' = [Grow(is_active, n, FALSE) EXCEPT ![c] = TRUE]
      /\ next' = [Grow(next, n, NULL) EXCEPT ![c] = first[l]]
      /\ gpx' = [Grow(gpx, n, NULL) EXCEPT ![c] = g]
      /\ first' = [first EXCEPT ![l] = c]
      /\ gp_table' = Referenced(gp_table, g)
      /\ cell_balance' = cell_balance + 1

(* The variant fields after a call of LineAddMove. *)
VariantsGrown == Grow(variant, Pop(cells).size, NULL)

(* Mutant: the variants that the line has already are dropped. *)
VariantReplaced(vs, line, c, v) == [vs EXCEPT ![first[line]] = v]

(* Mutant: the line gets its new variant before its old one is read. *)
VariantAddedSwapped(vs, line, c, v) ==
  LET linked == [vs EXCEPT ![first[line]] = v]
  IN  [linked EXCEPT ![c] = linked[first[line]]]

(* pve_line_add_variant(line, v), c being the first cell of v. *)
VariantAdded(vs, line, c, v) ==
  [vs EXCEPT ![first[line]] = v, ![c] = vs[first[line]]]

(* The prologue of pve_line_delete(l), as the first activation. *)
LineDelete(l) ==
  /\ frames' = <<[line |-> l, cell |-> first[l]]>>
  /\ lines' = Unsorted(lines)
  /\ lines_sorted' = FALSE
  /\ line_balance' = line_balance - 1

-----------------------------------------------------------------------------
(* The search.  pc is the place of a call of game_position_solve_impl:     *)
(* "enter" at its start, "first" and "loop" at the head of the loop over   *)
(* the moves, "call" and "pass_call" inside the recursive call, "back" and *)
(* "pass_back" after it, "accept", "reject" and "pass_accept" inside       *)
(* pve_line_delete, "out" at the label out.                                *)

Last(s) == s[Len(s)]
Front(s) == SubSeq(s, 1, Len(s) - 1)
ParentLine == held[Len(held) - 1]
Goto(label) == [calls EXCEPT ![Len(calls)].pc = label]
Searching(labels) == frames = << >> /\ calls # << >> /\ Last(calls).pc \in labels

(* There are legal moves: on to the loop. *)
MoveNode ==
  /\ Searching({"enter"})
  /\ calls' = Goto("first")
  /\ UNCHANGED <<heap, held, frames>>

(* No legal move, and the game is not over: solve the position after the   *)
(* pass.  A pass never follows a pass.                                     *)
PassNode ==
  /\ Searching({"enter"})
  /\ Len(calls) < MaxDepth
  /\ Len(calls) > 1 => calls[Len(calls) - 1].pc # "pass_call"
  /\ LineCreate
  /\ calls' = Append(Goto("pass_call"), NewCall)
  /\ UNCHANGED <<cells, move, is_active, next, variant, gpx, gp_table,
                 cell_balance, frames>>

(* No legal move and the game is over. *)
LeafNode ==
  /\ Searching({"enter"})
  /\ LineCreate
  /\ calls' = Goto("pass_back")
  /\ UNCHANGED <<cells, move, is_active, next, variant, gpx, gp_table,
                 cell_balance, frames>>

(* One turn of the loop over the moves, up to the recursive call. *)
SearchMove ==
  /\ Searching({"first", "loop"})
  /\ Len(calls) < MaxDepth
  /\ LineCreate
  /\ calls' = Append(Goto("call"), NewCall)
  /\ UNCHANGED <<cells, move, is_active, next, variant, gpx, gp_table,
                 cell_balance, frames>>

(* The new line, with the move in front, replaces the line of the parent,  *)
(* which is deleted.                                                       *)
AcceptLine(m, g, from, to) ==
  /\ Searching({from})
  /\ LineAddMove(Last(held), m, g)
  /\ variant' = VariantsGrown
  /\ LineDelete(ParentLine)
  /\ calls' = [calls EXCEPT ![Len(calls)] = [pc |-> to, branch_is_active |-> TRUE]]
  /\ UNCHANGED held

Accept(m, g) == AcceptLine(m, g, "back", "accept")
PassAccept(g) == AcceptLine(PassMove, g, "pass_back", "pass_accept")

(* Full recording and a value equal to the best one: the line becomes a    *)
(* variant of the line of the parent.                                      *)
AddVariant(m, g) ==
  /\ Searching({"back"})
  /\ FullRecording /\ Last(calls).branch_is_active
  /\ LineAddMove(Last(held), m, g)
  /\ variant' = VariantAdded(VariantsGrown, ParentLine, Top(cells), Last(held))
  /\ held' = Front(held)
  /\ calls' = Goto("loop")
  /\ UNCHANGED <<lines, lines_sorted, line_balance, frames>>

(* The line is worse than the one of the parent: it is deleted. *)
Reject ==
  /\ Searching({"back"})
  /\ LineDelete(Last(held))
  /\ calls' = Goto("reject")
  /\ UNCHANGED <<cells, first, move, is_active, next, variant, gpx, gp_table,
                 cell_balance, held>>

(* The end of a call: the caller goes on after its recursive call. *)
Return ==
  /\ Searching({"loop", "out"})
  /\ calls' = IF Len(calls) = 1 THEN << >>
              ELSE [Front(calls) EXCEPT ![Len(calls) - 1].pc =
                      IF @ = "call" THEN "back" ELSE "pass_back"]
  /\ UNCHANGED <<heap, held, frames>>

-----------------------------------------------------------------------------
(* pve_line_delete. *)

(* Mutant: the variant field of a released cell stays. *)
CellReleaseVariantKept(c) ==
  /\ cells' = Push(cells, c)
  /\ is_active' = [is_active EXCEPT ![c] = FALSE]
  /\ variant' = variant
  /\ move' = [move EXCEPT ![c] = InvalidMove]
  /\ next' = [next EXCEPT ![c] = NULL]
  /\ cell_balance' = cell_balance - 1

(* The end of the body of the while loop: cell c goes back to the stack.   *)
(* Its gpx stays as it is.                                                 *)
CellRelease(c) ==
  /\ cells' = Push(cells, c)
  /\ is_active' = [is_active EXCEPT ![c] = FALSE]
  /\ variant' = [variant EXCEPT ![c] = NULL]
  /\ move' = [move EXCEPT ![c] = InvalidMove]
  /\ next' = [next EXCEPT ![c] = NULL]
  /\ cell_balance' = cell_balance - 1

(* The assertion on what rbt_find returns: the program stops at a cell     *)
(* whose position has no entry, there or at the null pointer behind it.    *)
HasEntry(c) == gpx[c] \in DOMAIN gp_table

(* Mutant: the link to the next cell is read after the cell is released. *)
DeleteCellReadLate ==
  /\ frames # << >>
  /\ LET c == Last(frames).cell
     IN  /\ c # NULL
         /\ HasEntry(c)
         /\ variant[c] = NULL
         /\ gp_table' = Dereferenced(gp_table, gpx[c])
         /\ CellRelease(c)
         /\ frames' = [frames EXCEPT ![Len(frames)].cell = next'[c]]
  /\ UNCHANGED <<lines, lines_sorted, first, gpx, line_balance, held, calls>>

(* A cell without variants. *)
DeleteCell ==
  /\ frames # << >>
  /\ LET c == Last(frames).cell
     IN  /\ c # NULL
         /\ HasEntry(c)
         /\ variant[c] = NULL
         /\ gp_table' = Dereferenced(gp_table, gpx[c])
         /\ CellRelease(c)
         /\ frames' = [frames EXCEPT ![Len(frames)].cell = next[c]]
  /\ UNCHANGED <<lines, lines_sorted, first, gpx, line_balance, held, calls>>

(* A cell with a variant: the recursive call on the variant line. *)
DeleteVariant ==
  /\ frames # << >>
  /\ LET c == Last(frames).cell
     IN  /\ c # NULL
         /\ HasEntry(c)
         /\ variant[c] # NULL
         /\ gp_table' = Dereferenced(gp_table, gpx[c])
         /\ frames' = Append(frames, [line |-> variant[c], cell |-> first[variant[c]]])
  /\ line_balance' = line_balance - 1
  /\ lines' = Unsorted(lines)
  /\ lines_sorted' = FALSE
  /\ UNCHANGED <<cells, first, move, is_active, next, variant, gpx,
                 cell_balance, held, calls>>

(* The end of a recursive call: the line goes back to the stack, and the   *)
(* caller releases the cell whose variant the line was.                    *)
DeleteReturn ==
  /\ Len(frames) > 1
  /\ Last(frames).cell = NULL
  /\ lines' = Push(lines, Last(frames).line)
  /\ LET c == frames[Len(frames) - 1].cell
     IN  /\ CellRelease(c)
         /\ frames' = [Front(frames) EXCEPT ![Len(frames) - 1].cell = next[c]]
  /\ UNCHANGED <<lines_sorted, first, gpx, gp_table, line_balance, held, calls>>

(* The end of the outermost call, and the statements of the search that    *)
(* follow it.                                                              *)
DeleteEnd ==
  /\ Len(frames) = 1
  /\ Last(frames).cell = NULL
  /\ lines' = Push(lines, Last(frames).line)
  /\ frames' = << >>
  /\ held' = IF Last(calls).pc = "reject" THEN Front(held)
             ELSE [Front(held) EXCEPT ![Len(held) - 1] = Last(held)]
  /\ calls' = Goto(IF Last(calls).pc = "pass_accept" THEN "out" ELSE "loop")
  /\ UNCHANGED <<cells, lines_sorted, first, move, is_active, next, variant,
                 gpx, gp_table, line_balance, cell_balance>>

-----------------------------------------------------------------------------
Delete == DeleteCell \/ DeleteVariant \/ DeleteReturn \/ DeleteEnd

Next ==
  \/ MoveNode \/ PassNode \/ LeafNode \/ SearchMove
  \/ \E m \in Moves \ {PassMove}, g \in GamePositions : Accept(m, g) \/ AddVariant(m, g)
  \/ \E g \in GamePositions : PassAccept(g)
  \/ Reject \/ Return
  \/ Delete

Spec == Init /\ [][Next]_vars
-----------------------------------------------------------------------------
(* Correctness. *)

Labels == {"enter", "first", "loop", "call", "back", "accept", "reject",
           "pass_call", "pass_back", "pass_accept", "out"}
LineRefs == Objects(lines) \cup {NULL}
CellRefs == Objects(cells) \cup {NULL}

(* Every variable has its type; in particular a pointer field is NULL or   *)
(* the address of an allocated object, and the head of each stack always   *)
(* has a slot to read the next free object from.                           *)
TypeOK ==
  /\ PoolType(lines) /\ lines.head < lines.size
  /\ PoolType(cells) /\ cells.head < cells.size
  /\ lines_sorted \in BOOLEAN
  /\ first \in [Objects(lines) -> CellRefs]
  /\ move \in [Objects(cells) -> Moves \cup {InvalidMove}]
  /\ is_active \in [Objects(cells) -> BOOLEAN]
  /\ next \in [Objects(cells) -> CellRefs]
  /\ variant \in [Objects(cells) -> LineRefs]
  /\ gpx \in [Objects(cells) -> GamePositions \cup {NULL}]
  /\ DOMAIN gp_table \subseteq GamePositions
  /\ \A g \in DOMAIN gp_table : gp_table[g] \in Int
  /\ line_balance \in Int /\ cell_balance \in Int
  /\ held \in Seq(Objects(lines))
  /\ calls \in Seq([pc : Labels, branch_is_active : BOOLEAN])
  /\ frames \in Seq([line : Objects(lines), cell : CellRefs])

ActiveCells == {c \in Objects(cells) : is_active[c]}
HeldLines == {held[i] : i \in DOMAIN held}
VariantLines == {variant[c] : c \in {d \in ActiveCells : variant[d] # NULL}}

(* No line is lost and none is used twice, at any point of any search:     *)
(* the lines off the free stack are the ones that the search or root_line  *)
(* refers to and the ones that are variants of a cell in use, each line    *)
(* has one such reference only, and a free line has none (pve_line_create, *)
(* pve_line_add_variant, pve_line_delete).                                 *)
LinesOwnedOnce ==
  /\ PoolOK(lines)
  /\ UsedObjects(lines) = HeldLines \cup VariantLines
  /\ HeldLines \cap VariantLines = {}
  /\ \A i, j \in DOMAIN held : held[i] = held[j] => i = j
  /\ \A c, d \in ActiveCells : variant[c] # NULL /\ variant[c] = variant[d] => c = d

(* The lines in use that no pve_line_delete is working on. *)
LiveLines == UsedObjects(lines) \ {frames[i].line : i \in DOMAIN frames}

CellPointed(c) ==
  \/ \E l \in LiveLines : first[l] = c
  \/ \E i \in DOMAIN frames : frames[i].cell = c
  \/ \E d \in ActiveCells : next[d] = c

(* No cell is lost and none is shared: the cells off the free stack are    *)
(* the active ones, and each is pointed to once, from its line, from the   *)
(* cell before it or from the pve_line_delete that is about to release it. *)
CellsOwnedOnce ==
  /\ PoolOK(cells)
  /\ UsedObjects(cells) = ActiveCells
  /\ \A c \in Objects(cells) : CellPointed(c) <=> c \in ActiveCells
  /\ \A k, l \in LiveLines : first[k] # NULL /\ first[k] = first[l] => k = l
  /\ \A i, j \in DOMAIN frames :
       frames[i].cell # NULL /\ frames[i].cell = frames[j].cell => i = j
  /\ \A c, d \in ActiveCells : next[c] # NULL /\ next[c] = next[d] => c = d
  /\ \A l \in LiveLines, i \in DOMAIN frames : first[l] # NULL => first[l] # frames[i].cell
  /\ \A l \in LiveLines, c \in ActiveCells : first[l] # NULL => first[l] # next[c]
  /\ \A i \in DOMAIN frames, c \in ActiveCells :
       frames[i].cell # NULL => frames[i].cell # next[c]

(* pve_line_add_move does not write the variant field of the cell it takes *)
(* from the stack: every free cell must have been left without variant.    *)
FreeCellsHaveNoVariant ==
  \A c \in Objects(cells) \ ActiveCells : variant[c] = NULL

(* The cells whose reference pve_line_delete has dropped already. *)
Dereferencing == {frames[i].cell : i \in 1 .. Len(frames) - 1}

(* gp_table holds exactly the positions of the cells in use, with the      *)
(* number of those cells, so that rbt_find in pve_line_delete never fails  *)
(* and no entry outlives its last cell.                                    *)
RefCountsExact ==
  /\ DOMAIN gp_table = {gpx[c] : c \in ActiveCells \ Dereferencing}
  /\ \A g \in DOMAIN gp_table :
       gp_table[g] = Cardinality({c \in ActiveCells \ Dereferencing : gpx[c] = g})

(* What pve_is_invariant_satisfied checks of the stack of lines and of the *)
(* counters, error codes 1003 to 1101, and by how much it is out while a   *)
(* deletion is under way: each pending activation has counted its line as  *)
(* deleted and has still to put it on the stack.  Between two calls of the *)
(* environment there is none, and the check succeeds; at the entry of a    *)
(* recursive call it must fail.  It does not look at the used half of the  *)
(* stack of cells; the same holds of it, as its slots are cleared in the   *)
(* same way, and a cell is counted and stacked in one step.                *)
InvariantSatisfied ==
  /\ UsedHalfIsNull(lines) /\ UsedHalfIsNull(cells)
  /\ line_balance + Len(frames) = lines.head
  /\ cell_balance = cells.head

(* The assertion of pve_line_add_variant: when a value ties with the     *)
(* best one, the line of the parent has a first cell to hang variants on.  *)
VariantHasParent ==
  Searching({"back"}) /\ Last(calls).branch_is_active => first[ParentLine] # NULL

(* Every pve_line_delete returns: the chains of cells and variants it      *)
(* follows have no cycle, and each cell on them has its entry in gp_table  *)
(* when it is reached.  On a cycle each turn drops a reference that the    *)
(* cell has already given back, until rbt_find fails.                      *)
DeleteTerminates == frames # << >> ~> frames = << >>

-----------------------------------------------------------------------------
(* Why the ownership invariants hold: the inductive invariant. *)

(* The labels of solve_impl at which its local pve_line holds a line. *)
WithLine == {"call", "back", "accept", "reject", "pass_call", "pass_back", "pass_accept"}

(* The search owns root_line and one line per call that has created its    *)
(* own; a deletion under way is the one that the innermost call asked for. *)
CallsInv ==
  /\ calls = << >> => Len(held) = 1 /\ frames = << >>
  /\ calls # << >> =>
       Len(held) = Len(calls) + IF Last(calls).pc \in WithLine THEN 1 ELSE 0
  /\ \A k \in 1 .. Len(calls) - 1 : calls[k].pc \in {"call", "pass_call"}
  /\ frames # << >> => Last(calls).pc \in {"accept", "reject", "pass_accept"}
  /\ frames # << >> =>
       frames[1].line = IF Last(calls).pc = "reject" THEN Last(held) ELSE ParentLine

(* Every activation of pve_line_delete but the innermost is at a cell in   *)
(* use, and the next activation works on the variant of that cell.         *)
FramesInv ==
  \A i \in 1 .. Len(frames) - 1 :
    /\ frames[i].cell \in ActiveCells
    /\ variant[frames[i].cell] = frames[i + 1].line

(* A call that has accepted a line has a parent line with a first cell,    *)
(* or is about to have one.                                                *)
ParentsInv ==
  /\ \A k \in 1 .. Len(calls) :
       calls[k].branch_is_active =>
         \/ first[held[k]] # NULL
         \/ k = Len(calls) /\ calls[k].pc \in {"accept", "pass_accept"}
  /\ calls # << >> /\ Last(calls).pc \in {"accept", "pass_accept"} =>
       first[Last(held)] # NULL

(* The inductive invariant.  The flag pve_state_lines_stack_sorted is only *)
(* set when the lines are printed, never during a search.                  *)
IInv ==
  /\ TypeOK /\ lines_sorted = FALSE
  /\ LinesOwnedOnce
  /\ CellsOwnedOnce
  /\ FreeCellsHaveNoVariant
  /\ CallsInv /\ FramesInv /\ ParentsInv
=============================================================================
