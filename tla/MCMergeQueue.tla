---------------------------- MODULE MCMergeQueue ----------------------------
(* Values for the constants of MergeQueue that a .cfg cannot write. *)
EXTENDS MergeQueueLane, TLC

CONSTANTS p1, t1, t2, s1, s2, o1, o2

JustT1 == t1 :> p1
OneLane == (t1 :> p1) @@ (t2 :> p1)
ShipperSymmetry == Permutations({s1, s2})
TwoOwners == (s1 :> o1) @@ (s2 :> o2)
OneOwner == (s1 :> o1) @@ (s2 :> o1)
=============================================================================
