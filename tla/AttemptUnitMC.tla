--------------------------- MODULE AttemptUnitMC ---------------------------
(***************************************************************************)
(* AttemptUnit for TLC.                                                    *)
(***************************************************************************)
EXTENDS AttemptUnit, TLC

Symmetry == Permutations(Replicas)

=============================================================================
