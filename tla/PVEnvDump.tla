------------------------------ MODULE PVEnvDump ------------------------------
(***************************************************************************)
(* The life of a principal variation after the search: the solver dumps    *)
(* the environment to a binary file, pointers and all, and another         *)
(* process, read_pve_dump, loads it, verifies it and prints it.            *)
(*                                                                         *)
(* PVEnv names an object by its rank; here it also has an address.  malloc *)
(* places the segments of a process in some order, a layout, and never     *)
(* side by side.                                                           *)
(***************************************************************************)
EXTENDS PVEnv, FiniteSetsExt, Functions, TLC

Seqs == INSTANCE SequencesExt

CONSTANT Layouts     \* orders in which segments can lie in memory

ASSUME LayoutsAssumption ==
  \A layout \in Layouts : Range(layout) = 1 .. Len(layout)

VARIABLES
  file,        \* what pve_dump_to_binary_file has written, or NULL
  reader       \* the environment that pve_load_from_binary_file has returned, or NULL

dumpVars == <<vars, file, reader>>

-----------------------------------------------------------------------------
(* Segments and addresses. *)

Position(s, x) == CHOOSE i \in DOMAIN s : s[i] = x

(* The first segment and the second one are of one size. *)
SegmentSize(first_size, i) == first_size * (IF i = 1 THEN 1 ELSE 2 ^ (i - 2))
FirstRank(first_size, i) == IF i = 1 THEN 0 ELSE SegmentSize(first_size, i)

(* The address of each segment. *)
Segments(layout, first_size) ==
  [i \in DOMAIN layout |->
     LET before == {j \in DOMAIN layout : Position(layout, j) < Position(layout, i)}
     IN  1 + MapThenSumSet(LAMBDA j : SegmentSize(first_size, j) + 1, before)]

Used(segments, n) == SubSeq(segments, 1, n)

SegmentOf(first_size, x) ==
  CHOOSE i \in 1 .. x + 1 :
    FirstRank(first_size, i) <= x /\ x < FirstRank(first_size, i) + SegmentSize(first_size, i)

(* The address of the object with a rank. *)
Address(segments, first_size, x) ==
  IF x = NULL THEN NULL
  ELSE LET i == SegmentOf(first_size, x) IN segments[i] + x - FirstRank(first_size, i)

(* pve_sort_cells_segments, pve_sort_lines_segments. *)
SortedSegments(segments) == SortSeq(segments, <)

(* pve_populate_segments_sorted_map: where each sorted segment is among    *)
(* the unsorted ones.                                                      *)
SortedMap(segments, sorted) == [i \in DOMAIN sorted |-> Position(segments, sorted[i])]

(* Mutant: the sizes double from the second segment on. *)
SortedSizesEarly(first_size, segments, sorted) ==
  [i \in DOMAIN sorted |-> first_size * 2 ^ (Position(segments, sorted[i]) - 1)]

SortedSizes(first_size, segments, sorted) ==
  [i \in DOMAIN sorted |-> SegmentSize(first_size, Position(segments, sorted[i]))]

(* Mutant: the map is read in the wrong direction. *)
TranslatedBackwards(sizes, map, from, to, element) ==
  LET k == Cardinality({i \in DOMAIN from : element >= from[i]})
      offset == element - from[k]
  IN  IF k = 0 \/ offset > sizes[k] THEN NULL ELSE to[Position(map, k)] + offset

(* pve_translate_ref: the segment of an element is the last one, in order  *)
(* of address, that does not start after it.                               *)
Translated(sizes, map, from, to, element) ==
  LET k == Cardinality({i \in DOMAIN from : element >= from[i]})
      offset == element - from[k]
  IN  IF k = 0 \/ offset > sizes[k] THEN NULL ELSE to[map[k]] + offset

(* Translates a pointer of the file, whose segments are from, to a process *)
(* whose segments are to.                                                  *)
Translation(first_size, from, to, x) ==
  LET sorted == SortedSegments(from)
  IN  IF x = NULL THEN NULL
      ELSE Translated(SortedSizes(first_size, from, sorted), SortedMap(from, sorted), sorted, to, x)
-----------------------------------------------------------------------------
(* An environment as it lies in memory. *)
InMemory(layout) ==
  LET l == Used(Segments(layout, LinesFirstSize), lines.segments)
      c == Used(Segments(layout, CellsFirstSize), cells.segments)
      Line(x) == Address(l, LinesFirstSize, x)
      Cell(x) == Address(c, CellsFirstSize, x)
  IN  [ lines_segments |-> l, cells_segments |-> c,
        root_line |-> Line(held[1]),
        first |-> [x \in DOMAIN first |-> Cell(first[x])],
        next |-> [x \in DOMAIN next |-> Cell(next[x])],
        variant |-> [x \in DOMAIN variant |-> Line(variant[x])],
        lines_stack |-> [i \in DOMAIN lines.stack |-> Line(lines.stack[i])],
        cells_stack |-> [i \in DOMAIN cells.stack |-> Cell(cells.stack[i])],
        lines_head |-> lines.head, cells_head |-> cells.head,
        lines_size |-> lines.size, cells_size |-> cells.size,
        line_balance |-> line_balance, cell_balance |-> cell_balance,
        lines_sorted |-> lines_sorted ]

(* pve_dump_to_binary_file, when the search has ended. *)
Dump(layout) ==
  /\ calls = << >>
  /\ file = NULL
  /\ file' = InMemory(layout)
  /\ UNCHANGED <<vars, reader>>

(* pve_load_from_binary_file: segments as many as in the file are filled   *)
(* from it, and every pointer that is not NULL is translated.  The program *)
(* aborts when one cannot be.  gp_table is left without a value.           *)
Load(layout) ==
  /\ file # NULL /\ reader = NULL
  /\ LET l == Used(Segments(layout, LinesFirstSize), Len(file.lines_segments))
         c == Used(Segments(layout, CellsFirstSize), Len(file.cells_segments))
         Line(x) == Translation(LinesFirstSize, file.lines_segments, l, x)
         Cell(x) == Translation(CellsFirstSize, file.cells_segments, c, x)
         Lines(f) == [x \in DOMAIN f |-> Line(f[x])]
         Cells(f) == [x \in DOMAIN f |-> Cell(f[x])]
     IN  reader' = [file EXCEPT !.lines_segments = l, !.cells_segments = c,
                                !.root_line = Line(@), !.first = Cells(@),
                                !.next = Cells(@), !.variant = Lines(@),
                                !.lines_stack = Lines(@), !.cells_stack = Cells(@)]
  /\ UNCHANGED <<vars, file>>

(* Every address of a line, in ascending order. *)
AllLines(e) ==
  LET sorted == SortedSegments(e.lines_segments)
      size == SortedSizes(LinesFirstSize, e.lines_segments, sorted)
  IN  Seqs!FlattenSeq([i \in DOMAIN sorted |-> [j \in 1 .. size[i] |-> sorted[i] + j - 1]])

FreeLines(e) == [i \in 1 .. e.lines_size - e.lines_head |-> e.lines_stack[e.lines_head + i - 1]]

(* Mutant: the free lines are not sorted first. *)
FreeHalfUnsorted(e) == e.lines_stack

(* The stack with its free half in order. *)
FreeHalfSorted(e) ==
  LET free == SortSeq(FreeLines(e), <)
  IN  [i \in DOMAIN e.lines_stack |->
         IF i < e.lines_head THEN e.lines_stack[i] ELSE free[i - e.lines_head + 1]]

(* Where free_lines_stack_cursor is after so many lines in ascending       *)
(* order: it goes on with each free line that it meets.  When it has       *)
(* passed the last one it reads what lies behind the array, which is not   *)
(* a line.                                                                 *)
FreeCursor(e, stack) ==
  LET all == AllLines(e)
      cursor[i \in 0 .. Len(all)] ==
        IF i = 0 THEN e.lines_head
        ELSE LET slot == cursor[i - 1]
             IN  IF slot \in DOMAIN stack /\ stack[slot] = all[i] THEN slot + 1 ELSE slot
  IN  cursor

(* pve_sort_lines_in_place: the lines at which the cursor stands still are *)
(* in use, and fill the other half.                                        *)
SortedStack(e) ==
  LET stack == FreeHalfSorted(e)
      cursor == FreeCursor(e, stack)
      all == AllLines(e)
      met == SelectSeq([i \in DOMAIN all |-> i], LAMBDA i : cursor[i] = cursor[i - 1])
  IN  [i \in DOMAIN stack |->
         IF i < e.lines_head /\ i < Len(met) THEN all[met[i + 1]] ELSE stack[i]]

(* pve_internals_to_stream with the section of the active lines. *)
PrintActiveLines ==
  /\ reader # NULL
  /\ reader' = [reader EXCEPT !.lines_stack = SortedStack(reader), !.lines_sorted = TRUE]
  /\ UNCHANGED <<vars, file>>

DumpInit == Init /\ file = NULL /\ reader = NULL

DumpNext ==
  \/ Next /\ UNCHANGED <<file, reader>>
  \/ \E layout \in Layouts : Dump(layout) \/ Load(layout)
  \/ PrintActiveLines

(* One thread of control runs pve_line_delete until it returns. *)
DumpSpec == DumpInit /\ [][DumpNext]_dumpVars /\ WF_vars(Delete)
-----------------------------------------------------------------------------
(* The environment that is loaded is the one that was dumped: in whatever  *)
(* places malloc puts the segments of the two processes, each pointer      *)
(* leads to the same object as before.                                     *)
LoadedIsDumped ==
  reader # NULL /\ ~reader.lines_sorted =>
    \E layout \in Layouts : reader = InMemory(layout)

(* What pve_is_invariant_satisfied checks of the segments of the lines,    *)
(* with the segment of each size found again by its logarithm: seven of    *)
(* its error codes are not tested, as the test says, because they require  *)
(* more than one segment.                                                  *)
SegmentsVerified(e) ==
  LET n == Len(e.lines_segments)
      sorted == SortedSegments(e.lines_segments)
      size == SortedSizes(LinesFirstSize, e.lines_segments, sorted)
      Log2(x) == CHOOSE i \in 0 .. x : 2 ^ i <= x /\ x < 2 ^ (i + 1)
      Index(i) == Log2(size[i] \div LinesFirstSize) + 1
  IN  /\ e.lines_size = 2 ^ (n - 1) * LinesFirstSize
      /\ \A i \in 1 .. n :
           /\ Index(i) <= n
           /\ IF Index(i) = 1 THEN \E j \in 1 .. 2 : j <= n /\ sorted[i] = e.lines_segments[j]
              ELSE sorted[i] = e.lines_segments[Index(i) + 1]
           /\ i > 1 => sorted[i] > sorted[i - 1] + 1
      /\ MapThenSumSet(LAMBDA i : size[i], 1 .. n) = e.lines_size

(* What it checks of the stack of the lines, sorted or not, and of the     *)
(* counters.                                                               *)
StackVerified(e) ==
  LET UsedHalf == 0 .. e.lines_head - 1
      FreeHalf == e.lines_head .. e.lines_size - 1
      Rising(half) == \A i \in half : e.lines_stack[i] # NULL /\
                        (i - 1 \in half => e.lines_stack[i - 1] < e.lines_stack[i])
  IN  /\ e.lines_head <= e.lines_size
      /\ IF e.lines_sorted THEN Rising(UsedHalf) /\ Rising(FreeHalf)
         ELSE /\ \A i \in UsedHalf : e.lines_stack[i] = NULL
              /\ \A i \in FreeHalf : e.lines_stack[i] \in Range(AllLines(e))
      /\ e.line_balance = e.lines_head
      /\ e.cell_balance = e.cells_head

(* The reader finds no error in what it has loaded, before and after it    *)
(* prints the active lines, which sorts the stack.                         *)
ReaderVerifies == reader # NULL => SegmentsVerified(reader) /\ StackVerified(reader)

(* The lines printed as active are those in use: root_line and the         *)
(* variants, each once, although the stack has forgotten which they are.   *)
ActiveLinesPrinted ==
  reader # NULL /\ reader.lines_sorted =>
    LET Printed == {reader.lines_stack[i] : i \in 0 .. reader.lines_head - 1}
    IN  /\ Cardinality(Printed) = reader.lines_head
        /\ Printed = {reader.root_line} \cup
              {reader.variant[x] : x \in {y \in DOMAIN reader.variant : reader.variant[y] # NULL}}
=============================================================================
