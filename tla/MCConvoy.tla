------------------------------ MODULE MCConvoy ------------------------------
(* Values for the constants of Convoy that a .cfg cannot write. *)
EXTENDS Convoy, TLC

CONSTANTS build, test, docs

Graph == [s \in Subtask |-> IF s = build THEN {} ELSE {build}]
Order == [s \in Subtask |-> IF s = build THEN 0 ELSE IF s = test THEN 1 ELSE 2]
Loose == [s \in Subtask |-> {}]
AllOps == Operation
RequestSymmetry == Permutations(Request)
=============================================================================
