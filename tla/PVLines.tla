------------------------------ MODULE PVLines ------------------------------
(***************************************************************************)
(* The lines of the principal variation environment seen as values: what   *)
(* PVEnv stores in cells that point to each other.  A line is its main     *)
(* play and the set of all the plays that its variants unfold to.          *)
(***************************************************************************)
EXTENDS Sequences

(* pve_line_create *)
LineCreated == [best |-> << >>, plays |-> {<< >>}]

(* pve_line_add_move, pve_line_add_move2 *)
LineWithMove(line, move, gpx) ==
  LET cell == <<[move |-> move, gpx |-> gpx]>>
  IN  [best |-> cell \o line.best, plays |-> {cell \o s : s \in line.plays}]

(* pve_line_add_variant *)
LineWithVariant(line, v) == [line EXCEPT !.plays = @ \cup v.plays]
=============================================================================
