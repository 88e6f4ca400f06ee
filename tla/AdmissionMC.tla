---------------------------- MODULE AdmissionMC ----------------------------
(* Two Runs of one concurrency group, the newer with cancel-in-progress,    *)
(* and a third that supersedes the first.                                   *)
EXTENDS Admission, TLC

CONSTANTS deploy, r1, r2

MCGroup == [x \in Runs |-> IF x \in {1, 2} THEN deploy ELSE NoGroup]
SameReplicas == Permutations(Replicas)
============================================================================
