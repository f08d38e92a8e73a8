-------------------------- MODULE MCTaskLifecycle ---------------------------
(* Values for the constants of TaskLifecycle that a .cfg cannot write. *)
EXTENDS TaskLifecycle, TLC

CONSTANTS p1, t1, t2, r1, r2

OneProduct == [t \in Task |-> p1]
FullAuto == [p \in Product |-> "full_auto"]
SemiAuto == [p \in Product |-> "semi_auto"]

AllOps == Operation
RequestSymmetry == Permutations(Request)
=============================================================================
