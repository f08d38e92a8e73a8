--------------------------- MODULE MergeQueueLane ---------------------------
(***************************************************************************)
(* The merge queue implements ShipLane when every ship is shorter than its *)
(* lease (MaxShip < LeaseTTL) and the backend takes leases.                *)
(***************************************************************************)
EXTENDS MergeQueue

\* The rows' ids are the numbers drawn, the pending rows the tasks that wait.
Arrived == [i \in 1 .. (nextId - 1) |-> queue[i].task]
Waiting == {i \in Row : Pending(i)}
Busy == [p \in Product |-> \E s \in Shipper : InFlight(s) /\ ProductOf[ship[s].task] = p]

Lane == INSTANCE ShipLane WITH arrived <- Arrived, waiting <- Waiting, busy <- Busy

\* Seen through reservations, leases and crashes, the queue behaves like a line
\* with one ship at a time: Reserve is Start, FinishShip is Land or GiveUp, an
\* abandoned call is GiveUp, and everything else is invisible.
ImplementsShipLane == Lane!Spec
=============================================================================
