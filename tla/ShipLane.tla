------------------------------ MODULE ShipLane ------------------------------
(***************************************************************************)
(* What the merge queue promises (README: "serialized merge queue with     *)
(* lease semantics"; ports.WorkspaceMergeQueueRepository): who joins draws *)
(* the next number, and one task of a product is shipped at a time, always *)
(* the one with the lowest number; a task leaves when its ship lands, or   *)
(* withdraws from anywhere unless it is the one being shipped.             *)
(***************************************************************************)
EXTENDS Naturals, Sequences

CONSTANTS Product, Task, ProductOf

VARIABLES
    arrived,  \* the tasks that have joined, by their numbers
    waiting,  \* the numbers that have not left
    busy      \* product -> a ship of the front task is under way

vars == <<arrived, waiting, busy>>

Init == arrived = <<>> /\ waiting = {} /\ busy = [p \in Product |-> FALSE]

Line(p) == {n \in waiting : ProductOf[arrived[n]] = p}
Front(p) == {n \in Line(p) : \A m \in Line(p) : n <= m}

Join(t) ==
    /\ \A n \in waiting : arrived[n] # t
    /\ arrived' = Append(arrived, t)
    /\ waiting' = waiting \cup {Len(arrived) + 1}
    /\ UNCHANGED busy

Withdraw(t) ==
    /\ \E n \in waiting :
          /\ arrived[n] = t
          /\ busy[ProductOf[t]] => n \notin Front(ProductOf[t])
          /\ waiting' = waiting \ {n}
    /\ UNCHANGED <<arrived, busy>>

Start(p) ==
    /\ Line(p) # {} /\ ~busy[p]
    /\ busy' = [busy EXCEPT ![p] = TRUE]
    /\ UNCHANGED <<arrived, waiting>>

Land(p) ==
    /\ busy[p]
    /\ busy' = [busy EXCEPT ![p] = FALSE]
    /\ \E n \in Front(p) : waiting' = waiting \ {n}
    /\ UNCHANGED arrived

GiveUp(p) ==
    /\ busy[p]
    /\ busy' = [busy EXCEPT ![p] = FALSE]
    /\ UNCHANGED <<arrived, waiting>>

Next ==
    \/ \E t \in Task : Join(t) \/ Withdraw(t)
    \/ \E p \in Product : Start(p) \/ Land(p) \/ GiveUp(p)

Spec == Init /\ [][Next]_vars
=============================================================================
