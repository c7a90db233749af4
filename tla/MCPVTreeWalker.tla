--------------------------- MODULE MCPVTreeWalker ---------------------------
(***************************************************************************)
(* PVTreeWalker for TLC: every environment of six cells whose lines have   *)
(* no more plies than the row stack has rows.  Cell k > 1 is the next cell *)
(* or the first cell of the variant of a cell before it, and line -k is    *)
(* the line whose first cell is k.                                         *)
(***************************************************************************)
EXTENDS PVTreeWalker, TLC

CellCount == 6
MCCells == 1 .. CellCount
MCLines == {-k : k \in MCCells}

(* How cell k hangs on the others: <<"next", j>> or <<"variant", j>>. *)
Links ==
  { f \in [2 .. CellCount -> {"next", "variant"} \X MCCells] :
      /\ \A k \in DOMAIN f : f[k][2] < k
      /\ \A k, l \in DOMAIN f : f[k] = f[l] => k = l }

Linked(f, how, j) == {k \in DOMAIN f : f[k] = <<how, j>>}
TheOne(S) == IF S = {} THEN NULL ELSE CHOOSE x \in S : TRUE

EnvOf(f) ==
  LET path[k \in MCCells] ==
        IF k = 1 THEN << >>
        ELSE IF f[k][1] = "next" THEN Append(path[f[k][2]], f[k][2]) ELSE path[f[k][2]]
  IN  [ root_line |-> -1,
        first |-> [l \in MCLines |-> -l],
        next |-> [j \in MCCells |-> TheOne(Linked(f, "next", j))],
        variant |-> [j \in MCCells |->
                       IF Linked(f, "variant", j) = {} THEN NULL
                       ELSE -TheOne(Linked(f, "variant", j))],
        path |-> path ]

MCEnvs == {e \in {EnvOf(f) : f \in Links} : \A k \in MCCells : Len(e.path[k]) < MaxRecursionDepth}
=============================================================================
