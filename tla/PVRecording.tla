----------------------------- MODULE PVRecording -----------------------------
(***************************************************************************)
(* What the principal variation environment promises to a search: a stack  *)
(* of lines, each of which keeps its value whatever is done to the others. *)
(* The exact solvers are modelled with lines of this kind.                 *)
(***************************************************************************)
EXTENDS PVLines, Naturals

CONSTANTS Moves, GamePositions

VARIABLE recorded     \* root_line, and the pve_line of each call of the search

n == Len(recorded)
Below(k) == SubSeq(recorded, 1, k - 1)

Init == recorded = <<LineCreated>>

(* pve_line_create *)
Create == recorded' = Append(recorded, LineCreated)

(* pve_line_add_move2, and pve_line_delete of the line of the parent *)
Replace(m, g) ==
  /\ n > 1
  /\ recorded' = Append(Below(n - 1), LineWithMove(recorded[n], m, g))

(* pve_line_add_move2, pve_line_add_variant *)
Attach(m, g) ==
  /\ n > 1
  /\ recorded[n - 1].best # << >>
  /\ recorded' = Append(Below(n - 1), LineWithVariant(recorded[n - 1], LineWithMove(recorded[n], m, g)))

(* pve_line_delete *)
Drop == n > 1 /\ recorded' = Below(n)

Next ==
  \/ Create \/ Drop
  \/ \E m \in Moves, g \in GamePositions : Replace(m, g) \/ Attach(m, g)

Spec == Init /\ [][Next]_recorded
=============================================================================
