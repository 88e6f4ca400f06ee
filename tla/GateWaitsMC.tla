---------------------------- MODULE GateWaitsMC ----------------------------
(* Small Runs with one gate: behind a build, alone, with a deploy behind it,  *)
(* or also with a Step beside it.                                             *)
EXTENDS GateWaits, TLC

CONSTANTS b, d, gate, w

Alone      == (b :> {} @@ gate :> {b})
AloneOrder == <<b, gate>>
Line       == (b :> {} @@ gate :> {b} @@ d :> {gate})
LineOrder  == <<b, gate, d>>
Fork       == (b :> {} @@ gate :> {b} @@ d :> {gate} @@ w :> {})
ForkOrder  == <<b, gate, d, w>>

SameCallers == Permutations(Callers)
============================================================================
