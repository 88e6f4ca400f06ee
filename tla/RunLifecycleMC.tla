--------------------------- MODULE RunLifecycleMC ---------------------------
(***************************************************************************)
(* RunLifecycle for TLC: a pair of Steps whose dependent comes first in    *)
(* row order, as `build` needing `clone` does, and a chain of three.       *)
(***************************************************************************)
EXTENDS RunLifecycle

PairSteps == {"build", "clone"}
PairNeeds == [s \in PairSteps |-> IF s = "build" THEN {"clone"} ELSE {}]
PairOrder == <<"build", "clone">>

ForkSteps == {"build", "clone", "deploy"}
ForkNeeds == [s \in ForkSteps |-> IF s = "clone" THEN {} ELSE {"clone"}]
ForkOrder == <<"build", "clone", "deploy">>

ChainNeeds == [s \in ForkSteps |-> CASE s = "clone" -> {} [] s = "build" -> {"clone"}
                                     [] s = "deploy" -> {"build"}]

=============================================================================
