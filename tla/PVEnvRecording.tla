---------------------------- MODULE PVEnvRecording ----------------------------
(***************************************************************************)
(* PVEnv implements PVRecording: the lists of cells in its pools, read     *)
(* along next and variant, are lines that do not disturb each other.       *)
(***************************************************************************)
EXTENDS PVEnv

CellOf(c) == [move |-> move[c], gpx |-> gpx[c]]

RECURSIVE Best(_)
Best(c) == IF c = NULL THEN << >> ELSE <<CellOf(c)>> \o Best(next[c])

(* What pve_line_with_variants_to_stream unfolds a line to. *)
RECURSIVE Plays(_)
Plays(c) ==
  IF c = NULL THEN {<< >>}
  ELSE {<<CellOf(c)>> \o s : s \in Plays(next[c])} \cup
       (IF variant[c] = NULL THEN {} ELSE Plays(first[variant[c]]))

(* The lines the search holds; the one that is being deleted is gone. *)
Kept ==
  IF frames = << >> THEN held
  ELSE IF Last(calls).pc = "reject" THEN Front(held)
  ELSE [Front(held) EXCEPT ![Len(held) - 1] = Last(held)]

Recording == INSTANCE PVRecording WITH
  Moves <- Moves, GamePositions <- GamePositions,
  recorded <- [k \in DOMAIN Kept |-> [best |-> Best(first[Kept[k]]), plays |-> Plays(first[Kept[k]])]]

(* Each operation of the environment does to one line what it says, and    *)
(* nothing to the others: a line that is created, extended, attached or    *)
(* deleted, cell by cell, from recycled lines and cells and across the     *)
(* growth of the pools, never changes the plays recorded by another.       *)
ImplementsRecording == Recording!Spec
=============================================================================
