---------------------------- MODULE MCSortUtils -----------------------------
(* TimSort and SortUtils for TLC. *)
EXTENDS SortUtils

ArraysOf(n, keys) == {[i \in 1 .. n |-> f[i]] : f \in [1 .. n -> keys]}

Ascending(S) ==
  [i \in 1 .. Cardinality(S) |-> CHOOSE x \in S : Cardinality({y \in S : y < x}) = i - 1]

(* Two ascending runs of the numbers up to n, however they interleave. *)
TwoRuns(n) == {Ascending(S) \o Ascending((1 .. n) \ S) : S \in SUBSET (1 .. n)}

(* All orders of up to five keys; arrays of runs that are extended, with   *)
(* three keys to tell an order from its reverse, longer ones with many     *)
(* equal elements, and pairs of runs long enough to gallop.                *)
SomeArrays ==
  UNION {ArraysOf(n, 1 .. n) : n \in 0 .. 5} \cup ArraysOf(8, 0 .. 2) \cup ArraysOf(9, 0 .. 1)
    \cup ArraysOf(12, 0 .. 1) \cup TwoRuns(12)
=============================================================================
