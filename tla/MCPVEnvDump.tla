----------------------------- MODULE MCPVEnvDump -----------------------------
(***************************************************************************)
(* PVEnvDump, and with it PVEnv, for TLC: pools that double when they are  *)
(* full, and a search of bounded depth.  Positions are not told apart.     *)
(***************************************************************************)
EXTENDS PVEnvDump, PVEnvRecording

CONSTANTS m1, m2, pass, g1

MCMoves == {m1, m2, pass}
OneGamePosition == {g1}

(* In order of allocation, in reverse, and with the first ones in between, *)
(* so that the order of the sorted segments is not its own inverse.        *)
MCLayouts == {<<1, 2, 3, 4>>, <<4, 3, 2, 1>>, <<3, 1, 4, 2>>}
=============================================================================
