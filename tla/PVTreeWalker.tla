---------------------------- MODULE PVTreeWalker ----------------------------
(***************************************************************************)
(* pve_tree_walker of game_tree_utils.c, by which a principal variation    *)
(* with its variants is printed: it goes along one line at a time and      *)
(* leaves the variants it meets on row_stack, an array of fixed size that  *)
(* is filled without any check.                                            *)
(*                                                                         *)
(* The environment is only read.  A record of Envs describes one:          *)
(*   root_line, first[line], next[cell], variant[cell]  as in PVEnv,       *)
(*   path[cell]  the cells played before it, which stands for the game     *)
(*               position in which its move is made.                       *)
(***************************************************************************)
EXTENDS Integers, Sequences

CONSTANTS
  NULL,
  Lines, Cells,
  Envs,                 \* environments that a search can have left
  MaxRecursionDepth     \* max_recursion_depth

(* Lines are chains of cells, those of a variant start where its cell      *)
(* does, and no line goes on for more plies than the bound.                *)
WellFormed(e) ==
  /\ e.root_line \in Lines
  /\ e.first \in [Lines -> Cells \cup {NULL}]
  /\ e.next \in [Cells -> Cells \cup {NULL}]
  /\ e.variant \in [Cells -> Lines \cup {NULL}]
  /\ e.path \in [Cells -> Seq(Cells)]
  /\ e.first[e.root_line] # NULL => e.path[e.first[e.root_line]] = << >>
  /\ \A c \in Cells :
       /\ Len(e.path[c]) < MaxRecursionDepth
       /\ e.next[c] # NULL => e.path[e.next[c]] = Append(e.path[c], c)
       /\ e.variant[c] # NULL =>
            /\ e.first[e.variant[c]] # NULL
            /\ e.path[e.first[e.variant[c]]] = e.path[c]

ASSUME WalkerAssumption ==
  /\ MaxRecursionDepth \in Nat \ {0}
  /\ NULL \notin Cells /\ NULL \notin Lines
  /\ \A e \in Envs : WellFormed(e)

VARIABLES
  env,
  rows,        \* the rows of row_stack below row_stack_header
  row,         \* current_row_copy
  c,           \* the cell the walk is at, NULL between two lines
  walked       \* the cells on which cell_action has been called, in order

vars == <<env, rows, row, c, walked>>

-----------------------------------------------------------------------------
Row(line, dist_lev_0, gp) ==
  [line |-> line, dist_lev_0 |-> dist_lev_0, rel_distance |-> 0, gp |-> gp]

Init ==
  /\ env \in Envs
  /\ rows = <<Row(env.root_line, 0, << >>)>>
  /\ row = Row(env.root_line, 0, << >>)
  /\ c = NULL
  /\ walked = << >>

(* Mutant: the row of the line stays on the stack. *)
BeginLineKept ==
  /\ c = NULL
  /\ rows # << >>
  /\ LET top == rows[Len(rows)]
     IN  /\ row' = Row(top.line, top.dist_lev_0, top.gp)
         /\ c' = env.first[top.line]
  /\ UNCHANGED <<env, rows, walked>>

(* The next line is the one on top of the stack. *)
BeginLine ==
  /\ c = NULL
  /\ rows # << >>
  /\ LET top == rows[Len(rows)]
     IN  /\ row' = Row(top.line, top.dist_lev_0, top.gp)
         /\ c' = env.first[top.line]
  /\ rows' = SubSeq(rows, 1, Len(rows) - 1)
  /\ UNCHANGED <<env, walked>>

(* Mutant: the row of a variant starts at the position after the move. *)
PushedAfter(cell) ==
  IF env.variant[cell] = NULL THEN rows
  ELSE Append(rows, Row(env.variant[cell], row.dist_lev_0 + row.rel_distance,
                        Append(row.gp, cell)))

(* The stack after a cell, whose variant is left for later. *)
Pushed(cell) ==
  IF env.variant[cell] = NULL THEN rows
  ELSE Append(rows, Row(env.variant[cell], row.dist_lev_0 + row.rel_distance, row.gp))

(* Mutant: the walk leaves the line at a cell with a variant. *)
WalkCellLeaving ==
  /\ c # NULL
  /\ rows' = Pushed(c)
  /\ row' = [row EXCEPT !.rel_distance = @ + 1, !.gp = Append(@, c)]
  /\ walked' = Append(walked, c)
  /\ c' = IF env.variant[c] = NULL THEN env.next[c] ELSE NULL
  /\ UNCHANGED env

WalkCell ==
  /\ c # NULL
  /\ rows' = Pushed(c)
  /\ row' = [row EXCEPT !.rel_distance = @ + 1, !.gp = Append(@, c)]
  /\ walked' = Append(walked, c)
  /\ c' = env.next[c]
  /\ UNCHANGED env

Next == BeginLine \/ WalkCell

(* One thread walks to the end. *)
Spec == Init /\ [][Next]_vars /\ WF_vars(Next)
-----------------------------------------------------------------------------
(* The array of rows is never filled past its end. *)
RowsFit == Len(rows) <= MaxRecursionDepth

(* The position computed for a cell is the one in which its move is made,  *)
(* so that game_position_x_make_move never asserts on an illegal move, and *)
(* the cell is printed at its own ply.                                     *)
PositionOfCell ==
  c # NULL =>
    /\ row.gp = env.path[c]
    /\ row.dist_lev_0 + row.rel_distance = Len(env.path[c])

(* "All lines and cells are touched once": the walk ends, and then every   *)
(* cell of the environment has been walked, none of them twice.            *)
TouchesCellsOnce ==
  /\ [](\A i, j \in DOMAIN walked : walked[i] = walked[j] => i = j)
  /\ <>(c = NULL /\ rows = << >> /\ {walked[i] : i \in DOMAIN walked} = Cells)
-----------------------------------------------------------------------------
(* Why the rows fit: the plies of the rows grow strictly from the bottom   *)
(* of the stack to its top, and the line being walked is above them all.   *)
RowInv(r) ==
  /\ env.first[r.line] # NULL => r.gp = env.path[env.first[r.line]]
  /\ r.dist_lev_0 = Len(r.gp)

IInv ==
  /\ env \in Envs
  /\ rows \in Seq([line : Lines, dist_lev_0 : Nat, rel_distance : Nat, gp : Seq(Cells)])
  /\ row \in [line : Lines, dist_lev_0 : Nat, rel_distance : Nat, gp : Seq(Cells)]
  /\ c \in Cells \cup {NULL}
  /\ \A i \in DOMAIN rows :
       /\ RowInv(rows[i])
       /\ i - 1 <= rows[i].dist_lev_0
       /\ rows[i].dist_lev_0 < MaxRecursionDepth
  /\ \A i, j \in DOMAIN rows : i < j => rows[i].dist_lev_0 < rows[j].dist_lev_0
  /\ PositionOfCell
  /\ c # NULL => \A i \in DOMAIN rows :
       rows[i].dist_lev_0 < row.dist_lev_0 + row.rel_distance
=============================================================================
