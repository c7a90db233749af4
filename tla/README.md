# Verification of the reversi program

TLA+ specifications, TLC configurations and TLAPS proofs for the C program of
this repository (`src/c/src`): the rules of the game, the endgame solvers, the
environment in which they record principal variations, and the containers and sorts
they stand on.  The other programs of the repository (Java, Clojure, Lisp, SQL)
implement the same game independently and are not modelled.

1. [The system](#1-the-system)
2. [Modules and their code](#2-modules-and-their-code)
3. [Runs](#3-runs)
4. [Proofs](#4-proofs)
5. [What the specifications found](#5-what-the-specifications-found)
6. [What is not modelled](#6-what-is-not-modelled)
7. [Plan](#7-plan)

## 1. The system

`endgame_solver` reads a game position from a database file, calls one solver on
it and prints the solution, the log of the search or a dump of the principal
variation, which `read_pve_dump` loads, checks and prints.  Each is one process with
one thread: nothing runs concurrently, and what is hard comes from recursion, from
state that levels of a search share, from hand-made memory management, from limits of
fixed arrays, and from pointers that outlive the process that wrote them.

| Component | State | Operations | Used by | Modules |
|---|---|---|---|---|
| Board rules (`board.c`, `bit_works.c`) | bitboards and player to move, as values | legal moves and moves, each in several ways; pass, final value, hash | everything | `Board`, `BoardPlay` |
| Principal variation environment (`game_tree_utils.c`, `PVEnv`) | segments of lines and cells, two free stacks, links between cells and variants, a table of game positions with reference counts, counters | create a line, add a move, add a variant, delete, doubling of the pools | es, es2 | `FreeStack`, `PVEnv`, `PVRecording`, `PVEnvRecording` |
| Dump and load (the same file, `read_pve_dump.c`) | the bytes of the environment, pointers included | sort segments and lines, dump, load, translate pointers, verify, print active lines | the two programs | `PVEnvDump` |
| Walker (`pve_tree_walker`) | a stack of rows of fixed size | one walk over all lines and cells | printing of a variation | `PVTreeWalker` |
| `GameTreeStack` (`game_tree_utils.h`) | nodes by depth, a shared array of legal moves | generate moves, make move, terminal test | es2, minimax solvers | inside theirs |
| es (`exact_solver.c`) | the activations of a recursive function, a `PVEnv` | alpha-beta with recording | main program | `ExactSolver` |
| es2 (`exact_solver2.c`) | the same on a `GameTreeStack` | alpha-beta with recording | main program | `ExactSolver2` |
| minimax, ab, rab, rand (`minimax_solver.c`) | a `GameTreeStack` | one search by gotos, one sampler | main program | `MinimaxSolver` |
| ifes (`improved_fast_endgame_solver.c`) | board array, list of empty squares, parity of regions, stack of flipped discs | three nested search functions | main program | `FastEndgameSolver` |
| Red-black tree (`red_black_tree.c`) | nodes with colours, traversers with a stack and a generation | find, probe, insert, replace, delete, copy, destroy, traverse | `PVEnv`, database | `OrderedMap`, `RedBlackTree`, `RedBlackTreeCopy` |
| Sorts (`sort_utils.c`) | an array; for timsort a stack of runs and a temporary array | eight sorts | `PVEnv`, tests | `SortArrays`, `TimSort`, `SortUtils` |
| Game position database | tree of entries, list of syntax errors | load, find | main program | - |
| Linked list, memory manager, prng | their own data | as usual | test framework, tree, solvers | - |
| Logger | files | write, read | solvers, tools | - |

What makes each part correct:

- *Board.*  Every way to compute the legal moves or the next position gives what the
  rules say; the hash carried along a game is the hash of the position.
- *Storage.*  No line or cell is lost, used twice or used after it was freed; the
  pools double before they run dry; a recycled cell carries nothing over; the table
  has the positions of the cells in use and no others.
- *Recording.*  A line keeps its value whatever is done to the others.  What the lines
  say is legal play, the cell of a move holds the position after it, and at the end the
  lines are the optimal plays.
- *Dump.*  What is loaded is what was dumped, wherever the segments lie in memory.
- *Search.*  The outcome is the game value; a value returned to a node is exact inside
  the window of the node and a bound outside of it.
- *Shared state.*  The levels of a search do not write over each other, and put back what
  they change.
- *Printing.*  Every cell is printed once, at its ply, from its position, in bounded
  space.
- *Containers.*  The tree is the map that its header promises, also when memory is short
  and when it changes under a traverser; a sort orders, keeps what it sorts, and the
  stable ones keep the order of equal elements.

The hazards, each with its line and the properties that would catch it going wrong,
are in `PROJECT.json`.

## 2. Modules and their code

An arrow points from a module to one that extends it, a dotted one from what is
implemented to what implements it.

```
FreeStack --> PVEnv --+--> PVEnvDump ------+--> MCPVEnvDump
                      +--> PVEnvRecording -+
                      |        ^
                      |        :..... PVRecording <-- PVLines
                      +--> PVEnvProofs

PVTreeWalker --+--> MCPVTreeWalker
               +--> PVTreeWalkerProofs

GameTree, PVLines --+--> ExactSolver  --> MCExactSolver,  ExactSolverProofs   <..+
                    +--> ExactSolver2 --> MCExactSolver2, ExactSolver2Proofs  <..+.. ExactSolution
GameTree -----------+--> MinimaxSolver -> MCMinimaxSolver, MinimaxSolverProofs
                    +--> MCGames (the games of the runs)
                    +--> GameTreeProofs (used by the proofs of the three solvers)

Board --+--> BoardPlay --> MCBoardPlay
        +--> FastEndgameSolver --+--> MCFastEndgameSolver   <.... EndgameSolution
                                 +--> FastEndgameSolverProofs (with BoardPlay)

RedBlackTree --> RedBlackTreeCopy --> MCRedBlackTree     <.... OrderedMap

SortArrays --> TimSort --+--> SortUtils --> MCSortUtils
                         +--> TimSortProofs
```

### Recording

**FreeStack** is the discipline that `PVEnv` follows twice, for lines and for cells:
objects live in segments that never move, and a stack of pointers lists the free ones.
An object is named by its rank in allocation order.  `Pop` is the body of
`pve_line_create` and of `pve_line_add_move` up to and including `pve_double_*_size`;
`Push` is the end of `pve_line_delete`.

**PVEnv** has the heap (`first`, `next`, `variant`, `is_active`, `gpx`, `move`), the two
pools, the reference counts and the counters.  It is driven the way
`game_position_solve_impl` of both exact solvers drives it, for *every* outcome of
every comparison of values: the search calls down, and the line that comes back
replaces the line of the parent, becomes a variant of it or is deleted.  `held` is the
chain of `pve_line` locals with `root_line` at the bottom, `calls` the activations.
`pve_line_delete` is recursive, and what it does half way matters, so it is a small
machine: `frames` is its stack of activations and one step is one turn of its loop.
The two places where `g_assert` stops the program because a pool has no segment left
are guards (`CanPop`): the model stops there as the program does.  So is the assertion on
what `rbt_find` returns to a deletion (`HasEntry`), which would leave the deletion unfinished.  `gp_table` is a
finite map here: that the red-black tree under it is one is what `RedBlackTree` shows.

**PVLines** has lines as values, and **PVRecording** is what the environment promises to
a search: a stack of lines that are created, extended, merged and dropped, each of them
keeping its value.  **PVEnvRecording** reads the value of a line off the heap (the best
continuation along `next`, the alternatives at the variants) and states
`ImplementsRecording`: PVEnv is PVRecording under that mapping, with every step of a
deletion a stutter.  The exact solvers are modelled over PVLines on that ground.

**PVEnvDump** goes on where the search ends.  An object also has an address: `malloc`
places the segments of a process in some order, a layout.  The writer sorts its segments
(its arrays of sorted segments are those of the last doubling), sorts the stack of
lines in place, and writes; the reader has another layout, and `pve_translate_ref` takes
each pointer through the sorted segments of the file to the unsorted ones of the reader.
Then the reader verifies what it loaded (`pve_verify_invariant_state`, with the error
codes) and prints the active lines.

**PVTreeWalker** is `pve_tree_walker`: one action takes a row off the stack and starts
its line, one walks a cell.  The environment is a constant of the walk, with a `path`
for each cell that stands for its position.

### Search

**GameTree** is the game as the solvers see it: a record of legal moves and values of
final positions.  Positions are numbers, `-p` being `p` with the players swapped.  It
defines the game value and the optimal plays, which are the reference for the
solvers.  `WellFormed` is what `board.c` guarantees of a game, and all that the proofs assume: the
moves of a position are distinct and are not a pass, a move leaves fewer empty squares, a pass
leaves as many and changes the sign of the disc difference, and no position has more moves than
empty squares.  It holds whatever the discs are; the games of the runs satisfy it, which TLC
evaluates.

**ExactSolution** says what an exact solver promises: in the end, the game value, an
optimal play, and with full recording all optimal plays.  The solvers mark the end of
a game with one or two passes, which are left out of the comparison.  **ExactSolver**
(es) and **ExactSolver2** (es2) implement it: `SolvesGame` is `ExactSolution!Spec`,
checked as a property of their runs, with `game` and `solution` mapped to themselves.
One action is the code between two recursive calls.  In es the window is in the
arguments of the call and the value is returned; in es2 both are in the nodes of the
stack, which keep whatever earlier calls left there, so `nodes` is a variable and a
node that was never written holds the position `0`, which is of no game.  A leaf at the last
node reads one node further, so the model keeps one entry behind the array.
`pv_full_recording` is the static variable of that name, an input of the run.  The sort by
mobility is `MoveInserted`; in es its sentinel is a `uint8_t` set to -1, kept as
`(-1) % 256`.

**MinimaxSolver** is the iterative search of `minimax_solver.c` with its labels `begin`,
`for`, `entry` and `end`, for the four solvers; `legal_moves` is the array that
all levels share, and a node finds its moves between its head and the head of the next
node.  The shuffle of rab and rand is any permutation.  With repeats the stack is
used again as it is.

**Board** is `board.c` on sets of squares: the rules themselves (`LegalMoves`, `Turned`,
by walking from a square) as the reference, and next to them each algorithm of the code:
shifts and waves, Kogge-Stone fills, the AVX ones with one direction in each lane, and
lines of the board looked up in a table.  A shift loses the squares that leave the word
and wraps the ones that leave a row, as the instruction does.  **BoardPlay** plays, and
carries a hash along by the squares that change; a hash is the set of random words in it
and whether it is inverted.  (Its actions are `PlayInit`, `PlayNext` and so on, because the proofs take it
together with the solver.)

**FastEndgameSolver** is ifes: `no_parity_end_solve`, `parity_end_solve` and
`fastest_first_end_solve` over one board array with dummy squares around it, one linked list of the
empty squares, one set of region parities and one stack of flipped discs.  One step is
the code between two recursive calls, the gotos included, so that what a level reads after
a call is what the levels below left there.  **EndgameSolution** is what it promises
(`SolvesEndgame`): one answer, the right value and a best move.  What ifes answers when there
is no move at the root is kept as the code has it (section 5).

### Containers and sorts

**OrderedMap** is `red_black_tree.h`: a map from keys to items and traversers that
stand at an item or at none.  **RedBlackTree** has the nodes, and each call as a walk down
and a repair upwards, one turn of the loop in one step; the generations are kept as
whether a traverser knows the current one.  Clients, a constant, bound keys, items and
traversers.  **RedBlackTreeCopy** adds `rbt_copy`, turn by turn, with a failure of memory
or of the copying of an item at each node, `copy_error_recovery`, and `rbt_destroy`;
a field that was never set holds `Unset`.

**SortArrays** has arrays of elements with a key, which the comparator sees, and an id,
which it does not.  The comparator is a constant, and `ComparatorAssumption` is what
`sort_utils.h` asks of it.  **TimSort** is `sort_utils_timsort`: cutting of runs, extension to
the minimum run by binary insertion, the stack, merging upwards and downwards (one
algorithm, mirrored), racing and galloping with the threshold that moves.
**SortUtils** has the other seven sorts as operators, and asks at the end of each timsort
that they agree with it.

Left out everywhere: logging, counts of nodes, the layout of what is printed.

## 3. Runs

| Run | Question | Instance | States |
|---|---|---|---|
| `pve` | is the storage sound in every state of every search, does it implement lines, does a deletion end, and is what is left dumped, loaded, verified and printed right | pools of one object that double three times, two levels of search, full recording, three layouts of the segments | 166,510 |
| `es` | does es meet `ExactSolution`, with and without full recording | all games of `MCGames` | 193,104 |
| `es2` | the same for es2 | games whose first player has a move | 256,830 |
| `es2_root_pass` | and when the first player has to pass | the games of shape `RootPass` | violated |
| `es2_leaf` | are the cells for the last pass right | games whose first player has a move | violated |
| `minimax` | do minimax, ab and rab find the value, does rand return an outcome, is the shared array kept | all games for minimax and ab; the smaller ones, in any order of the moves and with two runs on one stack, for rab and rand | 362,455 |
| `walker` | does the walk reach everything, in place, in bounded space | all 568 environments of six cells and up to three plies, with three rows | 6,089 |
| `board` | do all ways to find and make moves follow the rules, is the hash exact | board of eight rows; two plies from the start and from stars of runs | 467 |
| `ifes` | does ifes meet `EndgameSolution` and put back what it changes | board of four rows, positions after 7, 8 and 12 plies, six settings | 20,607 |
| `rbt` | does the tree implement `OrderedMap`, stay red-black, and survive a copy that fails | clients of eight keys; six with copies; four with a traverser; two with two items and two traversers | 71,490 |
| `rbt_copy_failure` | does a copy that fails destroy nothing but what it has copied | three keys, no traversers | violated |
| `sorts` | does timsort sort stably and safely, and do the other sorts agree | arrays listed below, thresholds 3, 4 and 8 | 251,468 |

*Properties that are not plain from their names.*  `ImplementsRecording`, `SolvesGame`,
`SolvesEndgame` and `ImplementsOrderedMap` are the refinements.  `LoadedIsDumped` compares
the environment of the reader with that of the writer, pointer by pointer, under the
correspondence of their segments.  `DeleteTerminates` says that a deletion neither goes round in a
chain for ever nor stops at the assertion on its way; on a chain that closes on itself it does the latter,
when the references are used up.  `ListFollowsBoard` and `ParityFollowsBoard` say that
what the levels of ifes share is what the board says at every step where it is read.
`Rebalancing` names, for each turn of a repair, the one place where a rule of red-black
trees may be broken.  `CopySound` says that the destruction of a broken copy follows no
link that was not set, frees every node and destroys each item that was copied; that it destroys
nothing else is `DestroysCopiedItems`, which does not hold (section 5).  A field that was not set may or may
not be null, and the model takes both.  `MergeSafe` says that a merge stays in the memory of `tmp` and
never fills a place that holds an element yet to be moved.

*Bounds.*  Pools of one object double at the first use and at 2 and 4, so every
doubling meets a stack with and without live lines and variants, and the dump has one to
three segments, in the order of allocation, reversed, and in an order that is not
its own inverse.  Two levels of search are enough for chains of variants and for
deletions nested two deep; three levels need 16 cells and are out of TLC's reach.  There
is one position in this run, so that `gp_table` counts all cells under one entry; several
positions, and the depth, are covered by the proofs.

The games of `MCGames` have moves and passes by both players, leaves at several depths,
and the scores -2, 0 and 1 at the leaves in every combination, with `best_score` 2: a
value on the end of the window, a tie at every node, and a draw all occur.  Mobilities
0, 1 and 2 at one node exercise the sort.  Six cells give the walker variants of
variants, variants of first cells and lines that end in each, and a line of three
plies with a variant at each fills the three rows.

The stars of `board` have runs of 1, 3 and 6 discs in all eight directions around
corners, edges and the middle, bracketed in all, in some or not at all, with the rest of
the board empty or full of either colour: a run that ends at the edge and a shift that
wraps are among them.  A board of four rows has corners, edges, regions and
forced passes; twelve plies leave no empty square, seven leave five, above and below every threshold
of the six settings, which are those that the comment on `use_parity` goes through,
scaled down.

Eight keys make every case of the rebalancing happen on both sides, six a tree whose copy
goes left and right and fails at each node.  The arrays of `sorts` are all
arrays of up to five keys, of eight elements with three keys, of nine and of twelve with two, and
every pair of ascending runs of the numbers to 12: with a minimum run of 4 and a
galloping threshold of 2 these reach runs cut short and extended, the merges of the
middle pair, and gallops in and out in both directions.

*Deadlock* is not checked where the program comes to its end: the last state of a
finished search has no successor.  In `rbt` and `sorts` it is, and there it covers the
assertions that are guards: `g_assert(FALSE)` in the merges of timsort is a state
in which no action is possible.

*Fairness.*  The program is one thread, and the solvers and the walker have weak fairness of
their whole next-state relation: the scheduler lets the process run.  `DumpSpec`
asks it only of the steps of `pve_line_delete`, which is not
interrupted by anything.  Tree, sorts and board are checked for safety: each of their calls is a loop
over a finite path or array.

## 4. Proofs

All the theorems hold for pools, segments, depths, moves, positions, games, arrays and
thresholds of any size, under the assumptions that the modules name: sizes are
positive, `NULL` is not an address, `invalid_move` is not a move, `worst_to_best` has every
square, the four squares of the centre are never empty, as the comment on that table says, the
board has an even number of rows, as a centre of four squares asks, and what stands for "no solution
yet" is not a solution.  The three theorems that rest on Kogge-Stone fills (`KoggeStoneFollowsRules`, `BoardsAgree`, `PlayFollowsRules`) ask for a board of eight rows at most.

*PVEnvProofs*, the pools.  `PopTakes`: taking an object removes exactly that object from the free
ones, also when it doubles the pool.  `PushReturns`: giving back a used object frees
exactly that one and keeps the stack free of duplicates; it needs a slot below the
head, which follows by counting (`NoInjection`: as many distinct free objects as
objects would leave none used).

*PVEnvProofs*, ownership.  `Inductive` proves `Spec => []IInv`, and `TypeCorrect`, `LinesSafe`,
`CellsSafe`, `VariantsClean` and `VariantsAttach` are read off it.  Ownership alone is
not inductive.  `IInv` adds
- `CallsInv`: how many lines the search holds at each label, and which one a deletion
  under way was asked for;
- `FramesInv`: each pending activation of `pve_line_delete` is at a live cell whose
  variant is the line of the next activation, so that the variant that a cell gives up
  is the line going back to the stack in the same step;
- `ParentsInv`: a call that has accepted a line has a parent line with a first cell,
  which is what the assertion in `pve_line_add_variant` asks.

The step of each action is proved in three layers: lemmas on the pools, then on the
heap (`...Heap`: lines and cells stay owned once), then on the calls (`...IInv`).

*PVEnvProofs*, the counts.  `CountersAgree`, on top of `IInv`: the counter of lines is
behind its stack by one for each pending deletion, so a check within a deletion fails, and the counters are
right all the same.
`RefCountsCorrect` proves that `gp_table` counts the cells in use: `CountsAdd` and
`CountsDrop` say what one cell more or less does to the cardinality of a class of
cells, and each action is one of them or leaves the cells alone.

*PVTreeWalkerProofs.*  The rows on the stack have strictly growing plies, all below the
ply of the walk (`IInv`), so there are never more of them than a line has plies:
`RowStackFits`.  In `WellFormed` a line has at most `MaxRecursionDepth` plies, which is
what the comment on the constant argues (64 squares and as many passes).
`WalkedPositions` gives the position of each walked cell.

*GameTreeProofs.*  What the proofs of the solvers share.
- *Recursion.*  The value of a game and its optimal plays are recursive functions, and that
  they have the values their equations say has to be proved.  `RankedRecursion` does it for any
  recursion that goes down in a rank: the least step at which there is no solution is a
  contradiction, which takes no induction over data.  The rank of a position is twice
  its empty squares, one more if it has to pass (`RankDescends`): `WellFormed` makes every
  successor lower.  `MinimaxValue` is what follows for the value, `PlaysEquation` for the
  plays.
- *Plays and lines.*  What a cell put before a line does to the plays it has and to being played
  (`FollowsStep`, `TrimmedStep`), and which plays are optimal (`BestPlaysStep`).
- *Alpha-beta.*  `Found` is what a call owes its caller: a value that is exact inside the
  window and a bound outside of it, and, where it is exact, a line with an optimal play, or all of them.
  `Searching` is what a node has found of the moves it has searched so far.
  `MoveAccepted`, `MoveTies` and `MoveFails` keep it in each outcome of comparing one more move,
  `SearchBegins` starts it, and `SearchEnds`, `MoveCuts`, `PassFound` and `LeafFound` end it in
  `Found`.  es and es2 stand on the same lemmas.
- *Sorting by mobility.*  The insertion keeps every move (`SortingKeeps`).  It does so because
  the sentinel is `255`, and the proof needs that a position has at most 64 moves.

*MinimaxSolverProofs.*  `SearchFollowsPlay`: in every search the positions on the stack are
one line of play, and the list of each active node is whole in the array that all
nodes share.  `IInv` adds what each label may rely on: the node about to be opened is a
move away from the active one, the loop never has a move of a node that has to pass, and
the move whose value comes back is still under the cursor; and `HeadsInv`, the lists
lie in the order of their nodes, so that what `Begin` writes is above them all.  A shuffled
list is the same list by counting (`OrderType`).  `FrameIInv` does at once the steps that move no
head.  `Begin` asks that the two arrays have room, which the code does not check.

On top of `IInv`, `ValueInv` relates the nodes to `GameValue`: the best value of a node is that of
a move or a bound by it, the moves before the cursor are no better (`SearchedInv`), and the value
that the label `end` hands down is exact or a bound for the window it was searched with
(`ResultInv`, `WindowInv`).  `ReturnedValues` and `SolutionCorrect` follow, for any order of the moves
and any number of repeats on one stack.  `SampleCorrect` follows from `SampleInv`: the
value handed down is an outcome of the node it comes to, with its sign.

*ExactSolverProofs.*  `SearchSound` proves `IInv`: each active call is `Searching` its moves, or has
`Found` its value (`CallInv`), the window of each call that waits is the one it gave to the
call above it (`Awaits`), and the last value returned answers the call on top (`Pending`).
`CallInv` also has the line
of each call played from its position (`PlayedFrom`), which is `LinesHoldPositions`.  `SolvesExactly` is the refinement: every
step of es is a step of `ExactSolution` or a stutter.  That es comes to its end is fairness, and stays
with TLC.

*ExactSolver2Proofs.*  The same with windows, values and moves in nodes.  What is new is that the nodes above
the active one hold anything (`SameNode` says which fields of a node a deeper call leaves alone), that the
lower end of a window is no longer in its node, whose alpha rises, and is taken from the node before (`Low`), and that a leaf at the last node reads past the array.
`ReturnedValues`, `LinesAreFollowed`, and `SolvesExactly` under `~RootPasses(game)`: the
first player has a move or the game is over.  Section 5 says what happens otherwise; the other
two theorems have no such condition.

*FastEndgameSolverProofs.*  `KeepsList` and `KeepsParity`: what a search reads after a call is what was
there before it, however deep the call went and wherever a cutoff ended it.  That is not
inductive over the variables, which show only what the search on top has left.  `IInv` (`Consistent`) says
that there is a *history*: for each activation what was shared (board, list, parities, flips) when it last ran.  Each entry
is exact (`Exact`: the successors are those of the empty squares), the activation knows it (`Knows`: its
counts, its place in the list, and for `fastest_first` the predecessors), and its move leads to the
next entry (`Moved`).  A step of a loop changes the last activation, a call adds an entry,
and a return takes one off: `TakeBack` computes the entry before, to the last link
(`MoveMade`).  That comes from three parts.
- *Flips.*  The dummy squares stop every run of discs (`RunOnBoard`), the eight rays have no square in common
  (`RaysApart`), so the squares on the stack are different discs of the opponent (`TurnedDiscsOfMove`)
  and `PlacedBoard` counts what a move changes.
- *List.*  A square leaves the list by the node before it, which `parity_end_solve` and
  `no_parity_end_solve` remember and `fastest_first_end_solve` reads in `pred`.  The first two leave `pred` as it
  is, and never call the third (`SearchMoveKeeps`), which is why stale predecessors do no harm.
- *Parity.*  One square less makes one region change (`OddRegionsWithout`), whatever regions
  `prepare_to_solve` has found.

On top of that, `ReturnsSoundValues` and `AnswersRightly`: what ifes answers is right by the rules of `Board`.
- *The rules on the array.*  A line of the board and a run of the array are the same squares
  (`LineIsArray`, `ArrayIsLine`, for the eight steps): the dummy column that serves both sides and the
  tables of directions stop a run where the board ends.  So `FlipsFollowRules`, and with it the moves, the
  position after a move and the pass are those of the rules (`MovesTranslated`, `AfterTranslated`,
  `PassTranslated`).
- *The value.*  `Value` is a recursive function over all positions, and that it has the value its
  equation says is proved here for the rules themselves, as `GameTreeProofs` does for abstract games: `Stage`
  falls with each move, and with a pass to which the opponent has an answer (`StageFalls`), and a solution is built stage by stage
  (`StageSolved`, `AllStagesSolved`).  `BoardValue` says it in terms of the array.
- *The last two squares.*  `no_parity_end_solve` takes the value of a move with two empty squares from four
  counts of flips.  `LastTwoIsMoveValue` shows that it is right in each case; where nobody can
  move on the last square the code has no case for a draw, and needs none, because the number of
  discs is then odd.
- *Alpha-beta.*  Which moves an activation has searched is not stored: it follows from where its
  loop is, by the rank of the square and the parity of its region, or by what is left in the table of goodness
  (`Searched`, `Done`).  `Valued` says that these are worth no more than the best one, that
  the best one is worth what it says where it is above the window, and that a position after a pass has no
  move for the other side.  The history carries it for every activation (`Worth`), because what a call
  returns is compared with what its caller knew before the call: `NodeValued` on one board becomes
  `Bounds` on a move of the board before (`MoveBounds`), or the value of a pass (`PassValued`).  When a loop ends, every move has been searched, in the second pass of
  `parity_end_solve` those of the even regions too (`AllSearchedValued`).
- *The answer.*  With the whole window a value is exact, so the square returned is a
  best move (`RightSquare`), of the opponent when the player has to pass, and none when the game is over.

The rest of the module is about the ways of `board.c` to find moves and to make them, at every position with one disc on a
square at most.  The reference is walking from a square along a line, and each algorithm replaces the line by something
that could go wrong at an edge.
- *Kogge-Stone* (`KoggeStoneFollowsRules`).  Three doubling steps fill over up to seven squares (`FillReaches`), so the theorem asks
  for `Size <= 8`; the code has 8, and on a wider board it is false.  That nothing wraps round is
  `UnmaskedLine`: `k` shifts of the word, none masked, are `k` steps on the board, and conversely.  The way
  back keeps the mask of the way out, and yet turns just the run (`WayBack`), because a run of the opponent that ends
  at a disc of the player ends nowhere else (`OnlyRun`).  `BoardsAgree` joins the bitboards to
  the array of ifes.
- *Waves* (`WavesFollowRules`, any size).  A wave is a fold over the number of the shift, which has no value for the prover until
  there is a function that satisfies its equation; `FoldExists` builds one by the least counterexample,
  as for the recursions above.  Then `WaveHolds` says in closed form what a wave has found after `k` shifts.
  `board_legal_moves0` leaves out the squares that it knows as moves and those without room for a run (`RunInWaveMask`):
  both are right, for a move found twice is one move, and a run ends two squares further at least.
- *Lines* (`LinesFollowRules`, any size).  A direction is an axis and a way along its rows (`AxesAndWays`); a row holds just the squares of its
  line (`BitrowSquares`), the entry of the table turns what the rules turn in it (`RowChanges`, `TurnedByRows`), and
  what is put back on four lines is every disc once, because each square but the move itself is on one line and at one place of it
  (`LinesOfSquare`).
- *Plays.*  `PlayInv` says that no square has two discs and that the hash is exact.  It is what the theorems above
  ask for, so `PlayFollowsRules` is `FollowsRules` at every position of every play; and the words in a hash are the discs
  (`WordsOfHash`), so the words of the squares that change are those to flip (`HashOfMove`, `HashFollowsPlay`).
  `StartsAssumption` asks only that the play starts with one disc on a square at most.

*TimSortProofs.*  `StackTilesArray`: the runs on the stack are not empty and tile what
has been cut, for any array, minimum run and galloping threshold; these are the assertions
of `tms_merge_at`.  The minimum run is a quotient by the least power of two that is large
enough, so the proof first shows that there is one (`PowersGrow`, `LeastNatural`).
Merging any two neighbours keeps the tiling, so the order of lengths on the stack, which
the code restores only in part, is not needed.

`MergesSafely` and `SortsInStableOrder` are read off one invariant, `SortInv` (`AlwaysSortInv`), and go up from
the parts: the binary search finds the only place there is, and the probes of a gallop with
it, from any hint and in both directions; the insertions put the element where the search says; a run that
descends is strict, so reversing it is stable.  Between merges every run is in order and the array is a
rearrangement of the one to sort (`SortInv`).  During a merge the invariant has a ghost, `z`, the array as it was when the merge
began: what is in place, what waits in `tmp` and what waits in the array are together what `z` has
there, each in order, and what is in place comes before the rest (`Merges`, `Mixed`).  `Region` and
`Waiting` number the elements from the end that is filled first, so that `tms_merge_lo` and `tms_merge_hi`
are one argument with `Before` turned round.  The gap between what is in place and what waits in the array is
always as long as what waits in `tmp`, which is `MergeSafe`.  The proof also shows that the code that gives up a merge with
nothing left in `tmp` is not reached (`len_t` is at least one at the end of every race and gallop), as its
assertion says.

*Only model-checked:*
- everything under fairness (`DeleteTerminates`, `Terminates`, `TouchesCellsOnce`, and that the solvers come
  to an end), which the prover does not reach;
- what is computed by recursion over heaps and trees, whose modules have `RECURSIVE` operators: `ImplementsRecording`,
  `ImplementsOrderedMap`, `Rebalancing`, `StackIsPath`, `CopySound` and `SortsAgree`;
- `LoadedIsDumped`, `ReaderVerifies`, `ActiveLinesPrinted` and `TraverserStackFresh`, whose proofs are open.

## 5. What the specifications found

1. es2 decides that a game is over by the move count of the previous node, and the
   ground node counts zero moves: a root position that has to pass is not searched
   (run `es2_root_pass`).  es is right there (`es` includes these games), and es2
   is right on all the others.
2. es2 records the pass at the end of a game with a position it has not computed
   (run `es2_leaf`), which enters the table of positions and the dump.  The moves are
   right (`LinesFollowGame`).
3. `copy_error_recovery` spares `rbt_destroy` the links that were not set, but not the items:
   a node that waited on the stack when the copy failed has none yet, and `destroy` is called
   with what `malloc` left there unless it is null (run `rbt_copy_failure`), against the comment
   that uninitialized data is not touched and the doc that `destroy` is for the items already copied.
   The items that were copied are all destroyed, and the nodes freed (`CopySound`).  No program of the
   repository passes a `destroy` to a copy.

Seen on the way, and kept in the models as the code has it:

- `pve_line_delete` counts a deleted line at its start and returns it at its end, and
  calls itself in between.  With `PVE_VERIFY_INVARIANT` turned on, the check at the entry
  of the nested call fails with error 1100: `InvariantSatisfied` says that the counter is behind the stack
  by one for each pending activation.  The check itself is at fault, for between
  calls there is none.
- `pve_sort_lines_in_place` goes along the free lines with a cursor, and compares with what is
  under it also when the last free line has been met: one slot behind the stack, whenever a line in use
  has a higher address than all free ones.  As long as that slot does not happen to hold the address of such a line, the
  lines are sorted right (`ActiveLinesPrinted`).
- `gts_generate_moves` stores a pass in the stack of legal moves, while the comment on the
  size of that stack counts moves only (`game_tree_utils.h:53`).
- The sampler takes the best move of its result from the first node, where it is never set
  (`minimax_solver.c:252`).
- When the root has to pass, ifes reports the best reply of the opponent as best move; when
  the game is over it reports none.  With `use_parity` 0, `no_parity_end_solve` is used up to two
  empty squares and not as the comment says (lines 195-203 against 1396).
- `pve_translate_ref` accepts an offset one past a segment; `gp_table` of a loaded
  environment has no value.  A dump made after the active lines were printed would
  carry the flag that says the stack is sorted.
- The collapse of timsort looks at the top three runs only: runs of 18, 13, 4, 3 and 5
  leave 18, 13, 7 and 5, against the comment at `sort_utils.c:2390`.  The stack of 85 runs is
  still large enough.
- mergesort allocates `sizeof(element_size)` for each element (`sort_utils.c:1649`), enough for
  elements of up to eight bytes, which all callers have.  The docs of four sorts call the
  comparator a predicate; what they need is one that is negative for smaller elements.

## 6. What is not modelled

- *Inside modelled components:* the text that is printed; errors of files in dump and load
  (the loader stops at the first); `pve_transform_to_standard_form`, which the code
  leaves unfinished; searches of es2 with `pv_recording` off, where the actions are the
  same without the lines; the limits of 1024 legal moves and of 72 nodes against real
  games, which are out of a model checker's reach; bit tricks of `bit_works.c`, taken for
  what they return.
- *Support:* the linked list, which only the test framework uses, and the memory
  manager: a front end of `malloc`, whose failures are part of `RedBlackTree`, and an
  allocator for tests.  The sorts for one type of element are the general ones with another
  comparator, and have no actions of their own.
- *Database of positions:* a parser of text records; its state is a tree of entries, and
  the tree is modelled.
- *Pure input and output, or statistics:* logger and its readers, command line,
  `gpdb_verify`, trials of intrinsics, unit test framework and tests, pseudo random
  numbers, whose one use that matters here, the shuffle, is a free choice.
- *Other programs:* Java, Clojure, Lisp and SQL implement the same game separately.
  `field_research` is most of the repository by lines; these are programs of other
  authors (Zebra, Logistello) kept for study, and nothing in `src/c/src` calls them.

Every component is in `PROJECT.json` with its status.

## 7. Plan

Done: recording, dump, walker, solvers, board, tree, sorts, and the proofs of section 4.
Left, in this order:

1. A proof that the translation of pointers is a bijection between the segments of the
   file and those of the reader.
2. Proofs for `RedBlackTree` (`StackIsPath`), with its recursive operators as functions.
3. `GamePositionDb`.
4. The Java game: `Game`, `GameSequence`, `Clock`.
