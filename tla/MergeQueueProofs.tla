-------------------------- MODULE MergeQueueProofs --------------------------
(***************************************************************************)
(* Theorems about MergeQueue for every set of products, tasks, shippers    *)
(* and owners, every lease time and every combination of faults.           *)
(***************************************************************************)
EXTENDS MergeQueueLane, SequenceTheorems, TLAPS

LEMMA AnyTaskIsATask == AnyTask \in Task
  BY ConstantsAssumption DEF AnyTask

LEMMA AnyBackendIsABackend == AnyBackend \in Backends
  BY ConstantsAssumption DEF AnyBackend

LEMMA IdleType == MaxShip \in Nat => Idle \in ShipRecord
  BY AnyTaskIsATask, AnyBackendIsABackend, ConstantsAssumption DEF Idle, ShipRecord, ShipState

LEMMA RemainingType ==
    ASSUME NEW age \in 0..MaxShip
    PROVE  /\ Remaining(age) \in -1..LeaseTTL
           /\ age < LeaseTTL => Remaining(age) = LeaseTTL - age
  BY ConstantsAssumption DEF Remaining

LEMMA EmptyRowType ==
    \A st \in {"unused", "pending", "done", "deleted"}, t \in Task : EmptyRow(st, t) \in RowRecord
  BY ConstantsAssumption DEF EmptyRow, RowRecord, ShipState

\* The two ways an attempt to merge leaves the call.
LEMMA AttemptType ==
    ASSUME TypeOK, NEW s \in Shipper,
           MergeErrs(s) \/ \E r \in ShipState : MergeReturns(s, r)
    PROVE  ship' \in [Shipper -> ShipRecord]
<1>1. ASSUME NEW r \in ShipState, MergeReturns(s, r) PROVE ship' \in [Shipper -> ShipRecord]
  BY <1>1 DEF MergeReturns, TypeOK, ShipRecord
<1>2. CASE ship[s].tries + 1 < MaxAttempts /\ ship' = [ship EXCEPT ![s].tries = @ + 1]
  BY <1>2, ConstantsAssumption DEF TypeOK, ShipRecord
<1>. QED
  BY <1>1, <1>2 DEF MergeErrs, ShipState

LEMMA AttemptFrame ==
    ASSUME TypeOK, NEW s \in Shipper, InFlight(s),
           MergeErrs(s) \/ \E r \in ShipState : MergeReturns(s, r)
    PROVE  \A u \in Shipper :
               /\ ship'[u].task = ship[u].task /\ ship'[u].row = ship[u].row
               /\ ship'[u].age = ship[u].age
               /\ InFlight(u)' => InFlight(u)
               /\ ship'[u].pc # "idle" => ship[u].pc # "idle"
<1>1. CASE \E r \in ShipState : MergeReturns(s, r)
  BY <1>1 DEF MergeReturns, InFlight, TypeOK, ShipRecord
<1>2. CASE ship' = [ship EXCEPT ![s].tries = @ + 1]
  BY <1>2 DEF InFlight, TypeOK, ShipRecord
<1>. QED
  BY <1>1, <1>2 DEF MergeErrs, ShipState

\* Type correctness: no step of a shipper, of the API or of the environment
\* leaves the ranges of TypeOK.
THEOREM TypeCorrect == Spec => []TypeOK
<1>. USE ConstantsAssumption
<1>1. Init => TypeOK
  BY AnyTaskIsATask, EmptyRowType, IdleType DEF Init, TypeOK, ForgeState
<1>2. TypeOK /\ [Next]_vars => TypeOK'
  <2>. SUFFICES ASSUME TypeOK, [Next]_vars PROVE TypeOK'
    OBVIOUS
  <2>1. ASSUME NEW t \in Task, Enqueue(t) PROVE TypeOK'
    BY <2>1, EmptyRowType DEF Enqueue, TypeOK, Row
  <2>2. ASSUME NEW t \in Task, CancelPendingForTask(t) PROVE TypeOK'
    BY <2>2, EmptyRowType DEF CancelPendingForTask, TypeOK
  <2>3. ASSUME NEW t \in Task, CompletePendingForTask(t) PROVE TypeOK'
    <3>1. \A row \in RowRecord : [row EXCEPT !.st = "done"] \in RowRecord
      BY DEF RowRecord
    <3>2. queue' \in [Row -> RowRecord]
      BY <2>3, <3>1 DEF CompletePendingForTask, TypeOK
    <3>. QED
      BY <2>3, <3>2 DEF CompletePendingForTask, TypeOK
  <2>4. ASSUME NEW s \in Shipper, NEW t \in Task, NEW skip \in BOOLEAN,
               NEW auto \in BOOLEAN, NEW via \in Backends, Complete(s, t, skip, auto, via)
        PROVE TypeOK'
    <3>1. Called(t, skip, via) \in ShipRecord
      BY DEF Called, ShipRecord, ShipState
    <3>. QED
      BY <2>4, <3>1 DEF Complete, TypeOK
  <2>5. ASSUME NEW s \in Shipper, ReserveHeadForShip(s) PROVE TypeOK'
    <3>1. PICK i \in Row :
            /\ queue' = [queue EXCEPT ![i] = LeasedTo(OwnerOf[s], @, ship[s].age)]
            /\ ship' = [ship EXCEPT ![s] = Reserved(@, i)]
      BY <2>5 DEF ReserveHeadForShip
    <3>2. LeasedTo(OwnerOf[s], queue[i], ship[s].age) \in RowRecord
      <4>1. ship[s].age \in 0..MaxShip
        BY DEF TypeOK, ShipRecord
      <4>2. Remaining(ship[s].age) \in -1..LeaseTTL
        BY <4>1, RemainingType
      <4>. QED
        BY <4>2 DEF TypeOK, RowRecord, LeasedTo
    <3>3. Reserved(ship[s], i) \in ShipRecord
      BY DEF TypeOK, ShipRecord, ShipState, Row, Reserved
    <3>4. queue' \in [Row -> RowRecord] /\ ship' \in [Shipper -> ShipRecord]
      BY <3>1, <3>2, <3>3 DEF TypeOK
    <3>. QED
      BY <2>5, <3>4 DEF ReserveHeadForShip, TypeOK
  <2>6. ASSUME NEW s \in Shipper, ReserveRefused(s) PROVE TypeOK'
    BY <2>6, IdleType DEF ReserveRefused, TypeOK
  <2>7. ASSUME NEW s \in Shipper, MergePullRequest(s) PROVE TypeOK'
    <3>1. ship' \in [Shipper -> ShipRecord]
      BY <2>7, AttemptType DEF MergePullRequest, ShipState
    <3>2. forge' \in [Task -> ForgeState]
      BY <2>7 DEF MergePullRequest, TypeOK, ShipRecord, ForgeState
    <3>. QED
      BY <2>7, <3>1, <3>2 DEF MergePullRequest, TypeOK
  <2>8. ASSUME NEW s \in Shipper, MergeBranches(s) PROVE TypeOK'
    <3>1. ship' \in [Shipper -> ShipRecord]
      BY <2>8, AttemptType DEF MergeBranches, ShipState
    <3>2. forge' \in [Task -> ForgeState] /\ tree' \in [Product -> {"clean", "merging"}]
      BY <2>8 DEF MergeBranches, TypeOK, ShipRecord, ForgeState
    <3>. QED
      BY <2>8, <3>1, <3>2 DEF MergeBranches, TypeOK
  <2>9. ASSUME NEW s \in Shipper, FinishShip(s) PROVE TypeOK'
    <3>1. \A i \in Row : Recorded(queue[i], ship[s].res) \in RowRecord
      BY DEF TypeOK, Recorded, RowRecord, ShipRecord
    <3>2. queue' \in [Row -> RowRecord]
      BY <2>9, <3>1 DEF FinishShip, TypeOK
    <3>. QED
      BY <2>9, <3>2, IdleType DEF FinishShip, TypeOK
  <2>10. ASSUME NEW s \in Shipper, Abandon(s) PROVE TypeOK'
    BY <2>10, IdleType DEF Abandon, TypeOK
  <2>11. CASE Tick
    <3>1. queue' \in [Row -> RowRecord]
      BY <2>11 DEF Tick, TypeOK, RowRecord
    <3>2. \A call \in ShipRecord : call.age < MaxShip => [call EXCEPT !.age = @ + 1] \in ShipRecord
      BY DEF ShipRecord
    <3>3. ship' \in [Shipper -> ShipRecord]
      BY <2>11, <3>2 DEF Tick, TypeOK
    <3>. QED
      BY <2>11, <3>1, <3>3 DEF Tick, TypeOK
  <2>12. ASSUME NEW t \in Task, ForgeMoves(t) PROVE TypeOK'
    BY <2>12 DEF ForgeMoves, TypeOK, ForgeState
  <2>13. ASSUME NEW p \in Product, RepairTree(p) PROVE TypeOK'
    BY <2>13 DEF RepairTree, TypeOK
  <2>14. CASE UNCHANGED vars
    BY <2>14 DEF vars, TypeOK
  <2>15. ASSUME NEW s \in Shipper, UnknownBackend(s) PROVE TypeOK'
    <3>1. ship' \in [Shipper -> ShipRecord]
      BY <2>15, AttemptType DEF UnknownBackend, ShipState
    <3>. QED
      BY <2>15, <3>1 DEF UnknownBackend, TypeOK
  <2>. QED
    BY <2>1, <2>2, <2>3, <2>4, <2>5, <2>6, <2>7, <2>8, <2>9, <2>10, <2>11, <2>12, <2>13, <2>14, <2>15
    DEF Next, ShipperStep
<1>. QED
  BY <1>1, <1>2, PTL DEF Spec

-----------------------------------------------------------------------------
(* First in, first out. *)

\* Ids are handed out in order, and a shipper's row is never behind a pending
\* row of its product: this is what the head check of the reservation leaves
\* true for as long as the shipper works, however late it records.
AtTheFront(s) ==
    /\ ship[s].row \in Row
    /\ queue[ship[s].row].task = ship[s].task
    /\ queue[ship[s].row].st # "unused"
    /\ \A j \in Row : (j < ship[s].row /\ SameLane(j, ship[s].row)) => ~Pending(j)

FrontInv ==
    /\ \A i \in Row : queue[i].st = "unused" <=> i >= nextId
    /\ \A s \in Shipper : InFlight(s) => AtTheFront(s)
    /\ ShippedInOrder

\* A step that changes rows only between pending and deleted, or touches only
\* leases and outcomes, and starts no ship, keeps FrontInv.
LEMMA FrontKept ==
    ASSUME TypeOK, TypeOK', FrontInv, nextId' = nextId,
           \A s \in Shipper : InFlight(s)' =>
               (InFlight(s) /\ ship'[s].row = ship[s].row /\ ship'[s].task = ship[s].task),
           \A i \in Row :
               /\ queue'[i].task = queue[i].task
               /\ queue'[i].st = queue[i].st \/ (queue[i].st = "pending" /\ queue'[i].st = "deleted")
    PROVE  FrontInv'
<1>1. \A i \in Row : queue'[i].st = "unused" <=> i >= nextId'
  BY DEF FrontInv
<1>2. ASSUME NEW s \in Shipper, InFlight(s)' PROVE AtTheFront(s)'
  BY <1>2 DEF FrontInv, AtTheFront, SameLane, Pending
<1>3. ShippedInOrder'
  BY DEF FrontInv, ShippedInOrder, SameLane, Pending
<1>. QED
  BY <1>1, <1>2, <1>3 DEF FrontInv

LEMMA FrontStep == TypeOK /\ TypeOK' /\ FrontInv /\ [Next]_vars => FrontInv'
<1>. SUFFICES ASSUME TypeOK, TypeOK', FrontInv, [Next]_vars PROVE FrontInv'
  OBVIOUS
<1>. USE ConstantsAssumption
<1>1. ASSUME NEW t \in Task, Enqueue(t) PROVE FrontInv'
  <2>1. nextId \in Row /\ nextId' = nextId + 1 /\ ship' = ship
        /\ queue' = [queue EXCEPT ![nextId] = EmptyRow("pending", t)]
    BY <1>1 DEF Enqueue
  <2>2. \A i \in Row : i # nextId => queue'[i] = queue[i]
    BY <2>1 DEF TypeOK
  <2>3. queue'[nextId].st = "pending"
    BY <2>1 DEF TypeOK, EmptyRow
  <2>4. \A i \in Row : queue'[i].st = "unused" <=> i >= nextId'
    BY <2>1, <2>2, <2>3 DEF FrontInv, Row
  <2>5. ASSUME NEW s \in Shipper, InFlight(s)' PROVE AtTheFront(s)'
    <3>1. InFlight(s) /\ ship'[s] = ship[s]
      BY <2>1, <2>5 DEF InFlight
    <3>2. AtTheFront(s)
      BY <3>1 DEF FrontInv
    <3>3. ship[s].row < nextId
      BY <3>2, <2>1 DEF FrontInv, AtTheFront, Row
    <3>. QED
      BY <2>1, <2>2, <3>1, <3>2, <3>3 DEF AtTheFront, SameLane, Pending, Row
  <2>6. ShippedInOrder'
    <3>. SUFFICES ASSUME NEW i \in Row, NEW j \in Row, i < j, SameLane(i, j)',
                         queue'[j].st = "done"
                  PROVE  queue'[i].st # "pending"
      BY DEF ShippedInOrder, Pending
    <3>1. j # nextId /\ j < nextId
      BY <2>1, <2>2, <2>3 DEF FrontInv, Row
    <3>. QED
      BY <2>1, <2>2, <3>1 DEF FrontInv, ShippedInOrder, SameLane, Pending, Row
  <2>. QED
    BY <2>4, <2>5, <2>6 DEF FrontInv
<1>2. ASSUME NEW t \in Task, CancelPendingForTask(t) PROVE FrontInv'
  <2>1. PICK i \in Row : Pending(i) /\ queue[i].task = t
                         /\ queue' = [queue EXCEPT ![i] = EmptyRow("deleted", t)]
    BY <1>2 DEF CancelPendingForTask
  <2>2. \A k \in Row : queue'[k].task = queue[k].task
           /\ (queue'[k].st = queue[k].st \/ (queue[k].st = "pending" /\ queue'[k].st = "deleted"))
    BY <2>1 DEF TypeOK, EmptyRow, Pending
  <2>. QED
    BY <1>2, <2>2, FrontKept DEF CancelPendingForTask, InFlight
<1>3. ASSUME NEW t \in Task, CompletePendingForTask(t) PROVE FrontInv'
  <2>1. PICK i \in Row : IsHead(i) /\ queue' = [queue EXCEPT ![i].st = "done"]
    BY <1>3 DEF CompletePendingForTask
  <2>2. \A k \in Row : queue'[k].task = queue[k].task /\ (k # i => queue'[k].st = queue[k].st)
    BY <2>1 DEF TypeOK, RowRecord
  <2>3. queue[i].st = "pending" /\ queue'[i].st = "done"
    BY <2>1 DEF TypeOK, IsHead, Pending
  <2>4. nextId' = nextId /\ ship' = ship
    BY <1>3 DEF CompletePendingForTask
  <2>5. ASSUME NEW s \in Shipper, InFlight(s)' PROVE AtTheFront(s)'
    BY <2>2, <2>3, <2>4, <2>5 DEF FrontInv, AtTheFront, InFlight, SameLane, Pending
  <2>6. ShippedInOrder'
    BY <2>1, <2>2, <2>3 DEF FrontInv, ShippedInOrder, SameLane, Pending, IsHead, Row
  <2>. QED
    BY <2>2, <2>3, <2>4, <2>5, <2>6 DEF FrontInv
<1>4. ASSUME NEW s \in Shipper, NEW t \in Task, NEW skip \in BOOLEAN,
             NEW auto \in BOOLEAN, NEW via \in Backends, Complete(s, t, skip, auto, via)
      PROVE FrontInv'
  BY <1>4, FrontKept DEF Complete, Called, InFlight, TypeOK
<1>5. ASSUME NEW s \in Shipper, ReserveHeadForShip(s) PROVE FrontInv'
  <2>1. PICK i \in Row :
          /\ MayReserve(i, ship[s].task)
          /\ queue' = [queue EXCEPT ![i] = LeasedTo(OwnerOf[s], @, ship[s].age)]
          /\ ship' = [ship EXCEPT ![s] = Reserved(@, i)]
    BY <1>5 DEF ReserveHeadForShip
  <2>2. \A k \in Row : queue'[k].task = queue[k].task /\ queue'[k].st = queue[k].st
    BY <2>1 DEF TypeOK, LeasedTo
  <2>3. nextId' = nextId
    BY <1>5 DEF ReserveHeadForShip
  <2>4. ASSUME NEW u \in Shipper, InFlight(u)' PROVE AtTheFront(u)'
    <3>1. CASE u = s
      <4>1. ship'[s].row = i /\ ship'[s].task = ship[s].task
        BY <2>1 DEF TypeOK, Reserved
      <4>. QED
        BY <2>1, <2>2, <3>1, <4>1 DEF AtTheFront, MayReserve, IsHead, Pending, SameLane, Row
    <3>2. CASE u # s
      <4>1. ship'[u] = ship[u]
        BY <2>1, <3>2 DEF TypeOK
      <4>. QED
        BY <2>2, <2>4, <4>1 DEF FrontInv, AtTheFront, InFlight, SameLane, Pending
    <3>. QED
      BY <3>1, <3>2
  <2>5. ShippedInOrder'
    BY <2>2 DEF FrontInv, ShippedInOrder, SameLane, Pending
  <2>. QED
    BY <2>2, <2>3, <2>4, <2>5 DEF FrontInv
<1>6. ASSUME NEW s \in Shipper, ReserveRefused(s) \/ Abandon(s) PROVE FrontInv'
  BY <1>6, FrontKept DEF ReserveRefused, Abandon, Idle, InFlight, TypeOK
<1>7. ASSUME NEW s \in Shipper, MergePullRequest(s) \/ MergeBranches(s) \/ UnknownBackend(s)
      PROVE FrontInv'
  <2>1. queue' = queue /\ nextId' = nextId /\ InFlight(s)
        /\ (MergeErrs(s) \/ \E r \in ShipState : MergeReturns(s, r))
    BY <1>7 DEF MergePullRequest, MergeBranches, UnknownBackend, Merging, ShipState
  <2>2. \A u \in Shipper : ship'[u].row = ship[u].row /\ ship'[u].task = ship[u].task
                            /\ (InFlight(u)' => InFlight(u))
    BY <2>1, AttemptFrame
  <2>. QED
    BY <2>1, <2>2, FrontKept
<1>8. ASSUME NEW s \in Shipper, FinishShip(s) PROVE FrontInv'
  <2>. DEFINE i == ship[s].row
  <2>1. InFlight(s) /\ AtTheFront(s) /\ nextId' = nextId /\ ship' = [ship EXCEPT ![s] = Idle]
    BY <1>8 DEF FrontInv, FinishShip, Recording
  <2>2. i \in Row /\ queue[i].st # "unused"
    BY <2>1 DEF AtTheFront
  <2>3. \A k \in Row : queue'[k].task = queue[k].task /\ (k # i => queue'[k].st = queue[k].st)
    BY <1>8, <2>2 DEF FinishShip, TypeOK, Recorded
  <2>4. queue'[i].st \in {queue[i].st, "done"}
    BY <1>8, <2>2 DEF FinishShip, TypeOK, Recorded
  <2>5. \A u \in Shipper : InFlight(u)' => (InFlight(u) /\ ship'[u] = ship[u])
    BY <2>1 DEF InFlight, TypeOK, Idle
  <2>6. ASSUME NEW u \in Shipper, InFlight(u)' PROVE AtTheFront(u)'
    BY <2>2, <2>3, <2>4, <2>5, <2>6 DEF FrontInv, AtTheFront, SameLane, Pending
  <2>7. ShippedInOrder'
    BY <2>1, <2>2, <2>3, <2>4 DEF FrontInv, ShippedInOrder, AtTheFront, SameLane, Pending, Row
  <2>. QED
    BY <2>1, <2>2, <2>3, <2>4, <2>6, <2>7 DEF FrontInv
<1>9. CASE Tick
  <2>1. \A i \in Row : queue'[i].task = queue[i].task /\ queue'[i].st = queue[i].st
    BY <1>9 DEF Tick, TypeOK, RowRecord
  <2>2. \A s \in Shipper : InFlight(s)' =>
           (InFlight(s) /\ ship'[s].row = ship[s].row /\ ship'[s].task = ship[s].task)
    BY <1>9 DEF Tick, TypeOK, ShipRecord, InFlight
  <2>. QED
    BY <1>9, <2>1, <2>2, FrontKept DEF Tick
<1>10. CASE UNCHANGED <<queue, nextId, ship>>
  BY <1>10, FrontKept DEF InFlight
<1>. QED
  BY <1>1, <1>2, <1>3, <1>4, <1>5, <1>6, <1>7, <1>8, <1>9, <1>10
  DEF Next, ShipperStep, ForgeMoves, RepairTree, vars

LEMMA FrontCorrect == Spec => []FrontInv
<1>1. Init => FrontInv
  BY ConstantsAssumption DEF Init, EmptyRow, Idle, FrontInv, ShippedInOrder, InFlight, Pending, Row
<1>. QED
  BY <1>1, TypeCorrect, FrontStep, PTL DEF Spec

\* First in, first out: for any number of shippers, whatever leases lapse or
\* ships are cancelled, no row is completed before an earlier row of its product
\* has left the queue.
THEOREM FirstInFirstOut == Spec => []ShippedInOrder
<1>1. FrontInv => ShippedInOrder
  BY DEF FrontInv
<1>. QED
  BY <1>1, FrontCorrect, PTL

-----------------------------------------------------------------------------
(* One ship at a time, and no outcome lost, while ships are shorter than    *)
(* leases.                                                                  *)

\* What the lease gives a shipper: its row is pending, carries its process's
\* name for at least the time the shipper may still take, and is nobody else's.
LeaseInv ==
    /\ \A s \in Shipper : InFlight(s) =>
          LET r == queue[ship[s].row] IN
          r.st = "pending" /\ r.owner = OwnerOf[s] /\ r.left >= LeaseTTL - ship[s].age
    /\ \A s, u \in Shipper : (s # u /\ InFlight(s) /\ InFlight(u)) => ship[s].row # ship[u].row

LEMMA LeaseImplies ==
    ASSUME MaxShip < LeaseTTL, TypeOK, FrontInv, LeaseInv
    PROVE  OutcomeIsRecordable /\ SerializedShips
<1>. USE ConstantsAssumption
<1>1. \A s \in Shipper : InFlight(s) => ship[s].row \in Row /\ queue[ship[s].row].left > 0
  BY DEF LeaseInv, FrontInv, AtTheFront, TypeOK, ShipRecord, RowRecord
<1>2. OutcomeIsRecordable
  BY <1>1 DEF OutcomeIsRecordable, LeaseInv, FrontInv, AtTheFront
<1>3. SerializedShips
  <2>. SUFFICES ASSUME NEW s \in Shipper, NEW u \in Shipper, s # u, InFlight(s), InFlight(u),
                       ProductOf[ship[s].task] = ProductOf[ship[u].task]
                PROVE  FALSE
    BY DEF SerializedShips
  <2>1. AtTheFront(s) /\ AtTheFront(u)
    BY DEF FrontInv
  <2>2. Pending(ship[s].row) /\ Pending(ship[u].row) /\ ship[s].row # ship[u].row
    BY DEF LeaseInv, Pending
  <2>3. ~(ship[s].row < ship[u].row) /\ ~(ship[u].row < ship[s].row)
    BY <2>1, <2>2 DEF AtTheFront, SameLane
  <2>. QED
    BY <2>1, <2>2, <2>3 DEF AtTheFront, Row
<1>. QED
  BY <1>2, <1>3

\* A step keeps LeaseInv if it leaves the rows in flight and their shippers be.
LEMMA LeaseKept ==
    ASSUME TypeOK, LeaseInv,
           \A s \in Shipper : InFlight(s)' =>
               /\ InFlight(s)
               /\ ship'[s].row = ship[s].row /\ ship'[s].age = ship[s].age
               /\ queue'[ship[s].row] = queue[ship[s].row]
    PROVE  LeaseInv'
  BY DEF LeaseInv

LEMMA LeaseStep ==
    ASSUME MaxShip < LeaseTTL, "noop" \notin Backends, TypeOK, TypeOK', FrontInv, LeaseInv, [Next]_vars
    PROVE  LeaseInv'
<1>. USE ConstantsAssumption
<1>1. \A s \in Shipper : InFlight(s) =>
          /\ ship[s].row \in Row /\ queue[ship[s].row].left > 0
          /\ queue[ship[s].row].owner # NoOwner /\ Pending(ship[s].row) /\ IsHead(ship[s].row)
  <2>. SUFFICES ASSUME NEW s \in Shipper, InFlight(s)
                PROVE  /\ ship[s].row \in Row /\ queue[ship[s].row].left > 0
                       /\ queue[ship[s].row].owner # NoOwner
                       /\ Pending(ship[s].row) /\ IsHead(ship[s].row)
    OBVIOUS
  <2>1. AtTheFront(s) /\ ship[s].row \in Row
    BY DEF FrontInv, AtTheFront
  <2>2. ship[s].age \in 0..MaxShip /\ queue[ship[s].row] \in RowRecord
    BY <2>1 DEF TypeOK, ShipRecord
  <2>3. /\ queue[ship[s].row].st = "pending" /\ queue[ship[s].row].owner = OwnerOf[s]
        /\ queue[ship[s].row].left >= LeaseTTL - ship[s].age
    BY DEF LeaseInv
  <2>4. queue[ship[s].row].left > 0 /\ queue[ship[s].row].owner # NoOwner
    BY <2>2, <2>3 DEF RowRecord
  <2>5. Pending(ship[s].row) /\ IsHead(ship[s].row)
    BY <2>1, <2>3 DEF AtTheFront, IsHead, Pending, SameLane, Row
  <2>. QED
    BY <2>1, <2>4, <2>5
<1>2. \A s \in Shipper : InFlight(s) => ~LeaseFree(ship[s].row)
  BY <1>1 DEF LeaseFree, TypeOK, RowRecord
<1>3. ASSUME NEW t \in Task, Enqueue(t) PROVE LeaseInv'
  <2>1. ship' = ship /\ nextId \in Row /\ queue' = [queue EXCEPT ![nextId] = EmptyRow("pending", t)]
    BY <1>3 DEF Enqueue
  <2>2. \A s \in Shipper : InFlight(s) => ship[s].row # nextId
    BY <1>1, <2>1 DEF FrontInv, Pending, Row
  <2>. QED
    BY <1>1, <2>1, <2>2, LeaseKept DEF InFlight, TypeOK, LeaseInv
<1>4. ASSUME NEW t \in Task, CancelPendingForTask(t) PROVE LeaseInv'
  <2>1. PICK i \in Row : (IsHead(i) => LeaseFree(i)) /\ queue' = [queue EXCEPT ![i] = EmptyRow("deleted", t)]
    BY <1>4 DEF CancelPendingForTask
  <2>2. \A s \in Shipper : InFlight(s) => ship[s].row # i
    BY <1>1, <1>2, <2>1
  <2>. QED
    BY <1>1, <1>4, <2>1, <2>2, LeaseKept DEF CancelPendingForTask, InFlight, TypeOK, LeaseInv
<1>5. ASSUME NEW t \in Task, CompletePendingForTask(t) PROVE LeaseInv'
  BY <1>5 DEF CompletePendingForTask
<1>6. ASSUME NEW s \in Shipper, NEW t \in Task, NEW skip \in BOOLEAN,
             NEW auto \in BOOLEAN, NEW via \in Backends, Complete(s, t, skip, auto, via)
      PROVE LeaseInv'
  BY <1>6, LeaseKept DEF Complete, Called, InFlight, TypeOK, LeaseInv
<1>7. ASSUME NEW s \in Shipper, ReserveHeadForShip(s) PROVE LeaseInv'
  <2>1. PICK i \in Row :
          /\ MayReserve(i, ship[s].task)
          /\ queue' = [queue EXCEPT ![i] = LeasedTo(OwnerOf[s], @, ship[s].age)]
          /\ ship' = [ship EXCEPT ![s] = Reserved(@, i)]
    BY <1>7 DEF ReserveHeadForShip
  <2>2. \A u \in Shipper : u # s => ship'[u] = ship[u]
    BY <2>1 DEF TypeOK
  <2>3. \A u \in Shipper : InFlight(u) => ship[u].row # i
    BY <1>2, <2>1 DEF MayReserve
  <2>4. ship'[s].row = i /\ ship'[s].age = ship[s].age
    BY <2>1 DEF TypeOK, Reserved
  <2>5. queue'[i].st = "pending" /\ queue'[i].owner = OwnerOf[s]
        /\ queue'[i].left = LeaseTTL - ship[s].age
    <3>1. ship[s].age \in 0..MaxShip
      BY DEF TypeOK, ShipRecord
    <3>2. Remaining(ship[s].age) = LeaseTTL - ship[s].age
      BY <3>1, RemainingType, ConstantsAssumption
    <3>3. queue'[i] = LeasedTo(OwnerOf[s], queue[i], ship[s].age)
      BY <2>1 DEF TypeOK
    <3>. QED
      BY <2>1, <3>2, <3>3 DEF LeasedTo, MayReserve, IsHead, Pending
  <2>6. \A k \in Row : k # i => queue'[k] = queue[k]
    BY <2>1 DEF TypeOK
  <2>7. ship[s].age \in Int
    BY DEF TypeOK, ShipRecord
  <2>. QED
    BY <1>1, <2>2, <2>3, <2>4, <2>5, <2>6, <2>7, ConstantsAssumption DEF LeaseInv, InFlight
<1>8. ASSUME NEW s \in Shipper, ReserveRefused(s) \/ Abandon(s) PROVE LeaseInv'
  BY <1>8, LeaseKept DEF ReserveRefused, Abandon, Idle, InFlight, TypeOK, LeaseInv
<1>9. ASSUME NEW s \in Shipper, MergePullRequest(s) \/ MergeBranches(s) \/ UnknownBackend(s)
      PROVE LeaseInv'
  <2>1. queue' = queue /\ InFlight(s)
        /\ (MergeErrs(s) \/ \E r \in ShipState : MergeReturns(s, r))
    BY <1>9 DEF MergePullRequest, MergeBranches, UnknownBackend, Merging, ShipState
  <2>2. \A u \in Shipper : ship'[u].row = ship[u].row /\ ship'[u].age = ship[u].age
                            /\ (InFlight(u)' => InFlight(u))
    BY <2>1, AttemptFrame
  <2>3. \A u \in Shipper : InFlight(u)' =>
           InFlight(u) /\ queue'[ship[u].row] = queue[ship[u].row]
    BY <2>1, <2>2
  <2>. QED
    BY <2>2, <2>3, LeaseKept
<1>10. ASSUME NEW s \in Shipper, FinishShip(s) PROVE LeaseInv'
  <2>. DEFINE i == ship[s].row
  <2>1. InFlight(s) /\ ship' = [ship EXCEPT ![s] = Idle]
    BY <1>10 DEF FinishShip, Recording
  <2>2. \A u \in Shipper : InFlight(u)' => u # s /\ InFlight(u) /\ ship'[u] = ship[u]
    BY <2>1 DEF InFlight, TypeOK, Idle
  <2>3. \A k \in Row : k # i => queue'[k] = queue[k]
    BY <1>10 DEF FinishShip, TypeOK
  <2>4. \A u \in Shipper : InFlight(u)' => ship[u].row \in Row /\ ship[u].row # i
    BY <1>1, <2>1, <2>2 DEF LeaseInv
  <2>. QED
    BY <2>2, <2>3, <2>4, LeaseKept
<1>11. CASE Tick
  <2>1. ASSUME NEW s \in Shipper, InFlight(s)'
        PROVE  /\ InFlight(s) /\ ship'[s].row = ship[s].row
               /\ ship'[s].age = ship[s].age + 1
    BY <1>11, <2>1 DEF Tick, TypeOK, ShipRecord, InFlight
  <2>2. \A s \in Shipper : ship'[s].pc = ship[s].pc
    BY <1>11 DEF Tick, TypeOK, ShipRecord
  <2>3. \A i \in Row : (queue[i].owner # NoOwner /\ queue[i].left > 0) =>
           /\ queue'[i].st = queue[i].st /\ queue'[i].owner = queue[i].owner
           /\ queue'[i].left = queue[i].left - 1
    BY <1>11 DEF Tick, TypeOK, RowRecord
  <2>4. ASSUME NEW s \in Shipper, InFlight(s)'
        PROVE  LET r == queue'[ship'[s].row] IN
               r.st = "pending" /\ r.owner = OwnerOf[s] /\ r.left >= LeaseTTL - ship'[s].age
    <3>1. queue[ship[s].row].left \in Int /\ ship[s].age \in Int
      BY <1>1, <2>1, <2>4 DEF TypeOK, RowRecord, ShipRecord
    <3>. QED
      BY <1>1, <2>1, <2>3, <2>4, <3>1 DEF LeaseInv
  <2>. QED
    BY <2>1, <2>2, <2>4 DEF LeaseInv
<1>12. CASE UNCHANGED <<queue, ship>>
  BY <1>12 DEF LeaseInv, InFlight
<1>. QED
  BY <1>3, <1>4, <1>5, <1>6, <1>7, <1>8, <1>9, <1>10, <1>11, <1>12
  DEF Next, ShipperStep, ForgeMoves, RepairTree, vars

LEMMA LeaseCorrect == ASSUME MaxShip < LeaseTTL, "noop" \notin Backends
    PROVE  Spec => []LeaseInv
<1>1. Init => LeaseInv
  BY DEF Init, Idle, LeaseInv, InFlight
<1>2. TypeOK /\ TypeOK' /\ FrontInv /\ LeaseInv /\ [Next]_vars => LeaseInv'
  BY LeaseStep
<1>3. Spec => []TypeOK
  BY TypeCorrect
<1>4. Spec => []FrontInv
  BY FrontCorrect
<1>. QED
  BY <1>1, <1>2, <1>3, <1>4, PTL DEF Spec

\* Serialized: when no ship can outlast its lease and no process
\* completes rows without one (the noop backend), at most one shipper per
\* product is between reserving and recording.
THEOREM ShipsAreSerialized == ASSUME MaxShip < LeaseTTL, "noop" \notin Backends
    PROVE  Spec => []SerializedShips
<1>1. TypeOK /\ FrontInv /\ LeaseInv => SerializedShips
  BY LeaseImplies
<1>. QED
  BY <1>1, TypeCorrect, FrontCorrect, LeaseCorrect, PTL

\* When no ship can outlast its lease and no noop backend serves the
\* queue, FinishShip never refuses an outcome: a
\* merge that happened is not thrown away.
THEOREM OutcomesAreRecordable == ASSUME MaxShip < LeaseTTL, "noop" \notin Backends
    PROVE  Spec => []OutcomeIsRecordable
<1>1. TypeOK /\ FrontInv /\ LeaseInv => OutcomeIsRecordable
  BY LeaseImplies
<1>. QED
  BY <1>1, TypeCorrect, FrontCorrect, LeaseCorrect, PTL

-----------------------------------------------------------------------------
(* A row recorded as merged is merged. *)

\* An outcome "merged" is true of the forge from the moment the shipper holds it.
MergedInv ==
    /\ MergedRowIsMerged
    /\ \A s \in Shipper : (InFlight(s) /\ ship[s].res = "merged") => forge[ship[s].task] = "merged"

LEMMA ForgeKeepsMerges ==
    ASSUME TypeOK, [Next]_vars
    PROVE  \A t \in Task : forge[t] = "merged" => forge'[t] = "merged"
<1>1. ASSUME NEW s \in Shipper, MergePullRequest(s) \/ MergeBranches(s)
      PROVE  forge' = forge \/ forge' = [forge EXCEPT ![ship[s].task] = "merged"]
  BY <1>1 DEF MergePullRequest, MergeBranches
<1>2. ASSUME NEW t \in Task, ForgeMoves(t)
      PROVE  \A u \in Task : forge[u] = "merged" => forge'[u] = "merged"
  BY <1>2 DEF ForgeMoves, TypeOK
<1>3. CASE \E s \in Shipper : MergePullRequest(s) \/ MergeBranches(s)
  BY <1>1, <1>3 DEF TypeOK
<1>4. CASE forge' = forge
  BY <1>4
<1>. QED
  BY <1>2, <1>3, <1>4
  DEF Next, ShipperStep, Enqueue, CancelPendingForTask, CompletePendingForTask, Complete,
      ReserveHeadForShip, ReserveRefused, UnknownBackend, FinishShip, Abandon, Tick, RepairTree, vars

\* A step that puts no new outcome "merged" in a row or in a call keeps MergedInv.
LEMMA MergedKept ==
    ASSUME TypeOK, TypeOK', MergedInv, [Next]_vars,
           \A i \in Row : queue'[i].out = "merged" =>
               queue[i].out = "merged" /\ queue'[i].task = queue[i].task,
           \A s \in Shipper : (InFlight(s) /\ ship[s].res = "merged")' =>
               InFlight(s) /\ ship[s].res = "merged" /\ ship'[s].task = ship[s].task
    PROVE  MergedInv'
<1>1. \A i \in Row : queue[i].task \in Task
  BY DEF TypeOK, RowRecord
<1>2. \A s \in Shipper : ship[s].task \in Task
  BY DEF TypeOK, ShipRecord
<1>. QED
  BY <1>1, <1>2, ForgeKeepsMerges DEF MergedInv, MergedRowIsMerged

LEMMA MergedStep == TypeOK /\ TypeOK' /\ FrontInv /\ MergedInv /\ [Next]_vars => MergedInv'
<1>. SUFFICES ASSUME TypeOK, TypeOK', FrontInv, MergedInv, [Next]_vars PROVE MergedInv'
  OBVIOUS
<1>1. ASSUME NEW t \in Task, Enqueue(t) \/ CancelPendingForTask(t) PROVE MergedInv'
  <2>1. ship' = ship /\ \E i \in Row, st \in {"pending", "deleted"} :
                           queue' = [queue EXCEPT ![i] = EmptyRow(st, t)]
    BY <1>1 DEF Enqueue, CancelPendingForTask
  <2>. QED
    BY <2>1, MergedKept DEF InFlight, EmptyRow, TypeOK
<1>2. ASSUME NEW t \in Task, CompletePendingForTask(t) PROVE MergedInv'
  <2>1. ship' = ship /\ \E i \in Row : queue' = [queue EXCEPT ![i].st = "done"]
    BY <1>2 DEF CompletePendingForTask
  <2>. QED
    BY <2>1, MergedKept DEF InFlight, TypeOK, RowRecord
<1>3. ASSUME NEW s \in Shipper, NEW t \in Task, NEW skip \in BOOLEAN,
             NEW auto \in BOOLEAN, NEW via \in Backends, Complete(s, t, skip, auto, via)
      PROVE MergedInv'
  BY <1>3, MergedKept DEF Complete, Called, InFlight, TypeOK
<1>4. ASSUME NEW s \in Shipper, ReserveHeadForShip(s) PROVE MergedInv'
  <2>1. PICK i \in Row :
          /\ queue' = [queue EXCEPT ![i] = LeasedTo(OwnerOf[s], @, ship[s].age)]
          /\ ship' = [ship EXCEPT ![s] = Reserved(@, i)]
    BY <1>4 DEF ReserveHeadForShip
  <2>. QED
    BY <2>1, MergedKept DEF LeasedTo, Reserved, InFlight, TypeOK
<1>5. ASSUME NEW s \in Shipper, ReserveRefused(s) \/ Abandon(s) PROVE MergedInv'
  BY <1>5, MergedKept DEF ReserveRefused, Abandon, Idle, InFlight, TypeOK
<1>6. ASSUME NEW s \in Shipper, MergePullRequest(s) \/ MergeBranches(s) \/ UnknownBackend(s)
      PROVE MergedInv'
  <2>1. CASE MergeReturns(s, "merged")
    <3>1. queue' = queue /\ forge' = [forge EXCEPT ![ship[s].task] = "merged"] /\ Merging(s)
      BY <1>6, <2>1 DEF MergePullRequest, MergeBranches, UnknownBackend, MergeReturns, MergeErrs, TypeOK,
              ShipRecord
    <3>2. MergedRowIsMerged'
      BY <3>1, ForgeKeepsMerges DEF MergedInv, MergedRowIsMerged, TypeOK, RowRecord
    <3>3. \A u \in Shipper : (InFlight(u) /\ ship[u].res = "merged")' => forge'[ship'[u].task] = "merged"
      BY <2>1, <3>1, ForgeKeepsMerges DEF MergeReturns, MergedInv, InFlight, TypeOK, ShipRecord
    <3>. QED
      BY <3>2, <3>3 DEF MergedInv
  <2>2. CASE MergeErrs(s) \/ MergeReturns(s, "failed") \/ MergeReturns(s, "conflict")
    <3>1. queue' = queue
      BY <1>6 DEF MergePullRequest, MergeBranches, UnknownBackend
    <3>2. \A u \in Shipper : (InFlight(u) /\ ship[u].res = "merged")' =>
             InFlight(u) /\ ship[u].res = "merged" /\ ship'[u].task = ship[u].task
      BY <2>2 DEF MergeErrs, MergeReturns, InFlight, TypeOK, ShipRecord
    <3>. QED
      BY <3>1, <3>2, MergedKept
  <2>. QED
    BY <1>6, <2>1, <2>2 DEF MergePullRequest, MergeBranches, UnknownBackend
<1>7. ASSUME NEW s \in Shipper, FinishShip(s) PROVE MergedInv'
  <2>. DEFINE i == ship[s].row
  <2>1. InFlight(s) /\ AtTheFront(s) /\ forge' = forge /\ ship' = [ship EXCEPT ![s] = Idle]
    BY <1>7 DEF FrontInv, FinishShip, Recording
  <2>2. i \in Row /\ queue[i].task = ship[s].task
    BY <2>1 DEF AtTheFront
  <2>3. \A k \in Row : k # i => queue'[k] = queue[k]
    BY <1>7, <2>2 DEF FinishShip, TypeOK
  <2>4. queue'[i].task = queue[i].task /\ queue'[i].out \in {queue[i].out, ship[s].res}
    BY <1>7, <2>2 DEF FinishShip, TypeOK, Recorded
  <2>5. MergedRowIsMerged'
    BY <2>1, <2>2, <2>3, <2>4 DEF MergedInv, MergedRowIsMerged
  <2>6. \A u \in Shipper : (InFlight(u) /\ ship[u].res = "merged")' =>
           forge'[ship'[u].task] = "merged"
    BY <2>1 DEF MergedInv, InFlight, TypeOK, Idle
  <2>. QED
    BY <2>5, <2>6 DEF MergedInv
<1>8. CASE Tick
  <2>1. \A i \in Row : queue'[i].out = queue[i].out /\ queue'[i].task = queue[i].task
    BY <1>8 DEF Tick, TypeOK, RowRecord
  <2>2. \A s \in Shipper : /\ ship'[s].pc = ship[s].pc /\ ship'[s].res = ship[s].res
                            /\ ship'[s].task = ship[s].task
    BY <1>8 DEF Tick, TypeOK, ShipRecord
  <2>. QED
    BY <2>1, <2>2, MergedKept DEF InFlight
<1>9. CASE UNCHANGED <<queue, ship>>
  BY <1>9, MergedKept DEF InFlight
<1>. QED
  BY <1>1, <1>2, <1>3, <1>4, <1>5, <1>6, <1>7, <1>8, <1>9
  DEF Next, ShipperStep, ForgeMoves, RepairTree, vars

\* No row ever says "merged" of a branch that is not merged, whatever overlaps,
\* retries, lost answers and lapsed leases come between the merge and its record.
THEOREM MergedIsTrue == Spec => []MergedRowIsMerged
<1>1. Init => MergedInv
  BY DEF Init, EmptyRow, Idle, MergedInv, MergedRowIsMerged, InFlight
<1>2. MergedInv => MergedRowIsMerged
  BY DEF MergedInv
<1>. QED
  BY <1>1, <1>2, TypeCorrect, FrontCorrect, MergedStep, PTL DEF Spec
-----------------------------------------------------------------------------
(* The queue as a line: ShipLane. *)

\* Numbers are ids of rows that have been inserted.
LEMMA Numbers ==
    ASSUME TypeOK, FrontInv
    PROVE  /\ nextId \in Nat /\ Arrived \in Seq(Task) /\ Len(Arrived) = nextId - 1
           /\ \A i \in Waiting : /\ i \in Row /\ i \in 1 .. (nextId - 1)
                                 /\ Arrived[i] = queue[i].task /\ queue[i].task \in Task
           /\ \A p \in Product : Lane!Line(p) =
                {i \in Row : Pending(i) /\ ProductOf[queue[i].task] = p}
<1>1. nextId \in 1 .. (MaxRow + 1) /\ MaxRow \in Nat
  BY ConstantsAssumption DEF TypeOK
<1>2. \A i \in 1 .. (nextId - 1) : i \in Row /\ queue[i].task \in Task
  BY <1>1 DEF TypeOK, Row, RowRecord
<1>3. nextId - 1 \in Nat
  BY <1>1
<1>4. Arrived \in [1 .. (nextId - 1) -> Task]
  BY <1>2 DEF Arrived
<1>5. Arrived \in Seq(Task) /\ Len(Arrived) = nextId - 1
  <2>1. Arrived \in Seq(Task)
    BY <1>3, <1>4, SeqDef
  <2>2. Len(Arrived) \in Nat /\ DOMAIN Arrived = 1 .. Len(Arrived)
    BY <2>1, LenProperties
  <2>3. 1 .. Len(Arrived) = 1 .. (nextId - 1)
    BY <1>4, <2>2
  <2>4. \A a, b \in Nat : 1 .. a = 1 .. b => a = b
    <3> TAKE a, b \in Nat
    <3> HAVE 1 .. a = 1 .. b
    <3>1. a <= b
      <4>1. a = 0 \/ a \in 1 .. a
        OBVIOUS
      <4> QED
        BY <4>1
    <3>2. b <= a
      <4>1. b = 0 \/ b \in 1 .. b
        OBVIOUS
      <4> QED
        BY <4>1
    <3> QED
      BY <3>1, <3>2
  <2> QED
    BY <1>3, <2>1, <2>2, <2>3, <2>4
<1>6. ASSUME NEW i \in Waiting
      PROVE  /\ i \in Row /\ i \in 1 .. (nextId - 1)
             /\ Arrived[i] = queue[i].task /\ queue[i].task \in Task
  <2>1. i \in Row /\ queue[i].st # "unused"
    BY DEF Waiting, Pending
  <2>2. ~(i >= nextId)
    BY <2>1 DEF FrontInv
  <2>3. i \in 1 .. (nextId - 1)
    BY <1>1, <2>1, <2>2 DEF Row
  <2> QED
    BY <1>2, <2>1, <2>3 DEF Arrived
<1>7. \A p \in Product : Lane!Line(p) =
        {i \in Row : Pending(i) /\ ProductOf[queue[i].task] = p}
  BY <1>6 DEF Lane!Line, Waiting
<1> QED
  BY <1>1, <1>5, <1>6, <1>7

\* Steps that leave the rows' states and tasks alone, and start or end no ship.
LEMMA LaneKept ==
    ASSUME TypeOK, nextId' = nextId,
           \A i \in Row : /\ queue'[i].task = queue[i].task
                          /\ queue'[i].st = "pending" <=> queue[i].st = "pending",
           \A s \in Shipper : /\ InFlight(s)' <=> InFlight(s)
                              /\ InFlight(s) => ship'[s].task = ship[s].task
    PROVE  Arrived' = Arrived /\ Waiting' = Waiting /\ Busy' = Busy
<1>1. \A i \in 1 .. (nextId - 1) : i \in Row
  BY ConstantsAssumption DEF TypeOK, Row
<1>2. Arrived' = Arrived
  BY <1>1 DEF Arrived
<1>3. Waiting' = Waiting
  BY DEF Waiting, Pending
<1>4. \A p \in Product : (\E s \in Shipper : InFlight(s) /\ ProductOf[ship[s].task] = p)'
                           <=> \E s \in Shipper : InFlight(s) /\ ProductOf[ship[s].task] = p
  OBVIOUS
<1>5. Busy' = Busy
  BY <1>4 DEF Busy
<1> QED
  BY <1>2, <1>3, <1>5

\* A ship in flight ships the front of its product's line, and no other does.
LEMMA ShipsTheFront ==
    ASSUME MaxShip < LeaseTTL, TypeOK, FrontInv, LeaseInv, NEW s \in Shipper, InFlight(s)
    PROVE  LET p == ProductOf[ship[s].task]
               i == ship[s].row
           IN  /\ p \in Product /\ Busy[p] = TRUE /\ i \in Row /\ Pending(i) /\ IsHead(i)
               /\ queue[i].task = ship[s].task
               /\ MayFinish(s, i) /\ queue[i].owner # NoOwner /\ queue[i].left > 0
               /\ i \in Lane!Front(p) /\ i \in Waiting
               /\ \A u \in Shipper : InFlight(u) /\ ProductOf[ship[u].task] = p => u = s
<1> DEFINE p == ProductOf[ship[s].task]
           i == ship[s].row
<1>1. OutcomeIsRecordable /\ SerializedShips
  BY LeaseImplies
<1>2. AtTheFront(s)
  BY DEF FrontInv
<1>3. p \in Product
  BY ConstantsAssumption DEF TypeOK, ShipRecord
<1>4. /\ i \in Row /\ Pending(i) /\ queue[i].task = ship[s].task
      /\ queue[i].owner = OwnerOf[s] /\ queue[i].left > 0
  BY <1>1, <1>2 DEF OutcomeIsRecordable, AtTheFront, Pending
<1>5. OwnerOf[s] # NoOwner
  BY ConstantsAssumption
<1>6. ASSUME NEW j \in Row, Pending(j), ProductOf[queue[j].task] = p
      PROVE  i <= j
  <2>1. ~(j < i)
    BY <1>2, <1>4, <1>6 DEF AtTheFront, SameLane
  <2> QED
    BY <1>4, <2>1 DEF Row
<1>7. IsHead(i)
  BY <1>4, <1>6 DEF IsHead
<1>8. i \in Lane!Front(p) /\ i \in Waiting
  BY <1>3, <1>4, <1>6, Numbers DEF Lane!Front, Waiting
<1>9. \A u \in Shipper : InFlight(u) /\ ProductOf[ship[u].task] = p => u = s
  BY <1>1 DEF SerializedShips
<1>10. Busy[p] = TRUE
  BY <1>3 DEF Busy
<1>11. MayFinish(s, i)
  BY <1>4 DEF MayFinish, Pending
<1> QED
  BY <1>3, <1>4, <1>5, <1>7, <1>8, <1>9, <1>10, <1>11

\* A ship ends: it lands if its row has left, and is given up otherwise.
LEMMA LaneLeaves ==
    ASSUME MaxShip < LeaseTTL, TypeOK, FrontInv, LeaseInv, NEW s \in Shipper, InFlight(s),
           ship' = [ship EXCEPT ![s] = Idle], nextId' = nextId,
           \A i \in Row : queue'[i].task = queue[i].task,
           \A i \in Row : i # ship[s].row =>
               (queue'[i].st = "pending" <=> queue[i].st = "pending")
    PROVE  [Lane!Next]_(Lane!vars)
<1> DEFINE p == ProductOf[ship[s].task]
           r == ship[s].row
<1>1. /\ p \in Product /\ Busy[p] = TRUE /\ r \in Row /\ Pending(r) /\ r \in Lane!Front(p)
      /\ r \in Waiting
      /\ \A u \in Shipper : InFlight(u) /\ ProductOf[ship[u].task] = p => u = s
  BY ShipsTheFront
<1>2. \A u \in Shipper : /\ InFlight(u)' <=> InFlight(u) /\ u # s
                         /\ u # s => ship'[u] = ship[u]
  BY DEF TypeOK, InFlight, Idle
<1>3. Busy' = [Busy EXCEPT ![p] = FALSE]
  <2>1. ASSUME NEW q \in Product
        PROVE  Busy'[q] = IF q = p THEN FALSE ELSE Busy[q]
    BY <1>1, <1>2 DEF Busy
  <2>2. Busy' \in [Product -> BOOLEAN] /\ Busy \in [Product -> BOOLEAN]
    BY DEF Busy
  <2> QED
    BY <2>1, <2>2
<1>4. Arrived' = Arrived
  <2>1. \A i \in 1 .. (nextId - 1) : i \in Row
    BY ConstantsAssumption DEF TypeOK, Row
  <2> QED
    BY <2>1 DEF Arrived
<1>5. CASE queue'[r].st = "pending"
  <2>1. Waiting' = Waiting
    BY <1>1, <1>5 DEF Waiting, Pending
  <2>2. Lane!GiveUp(p)
    BY <1>1, <1>3, <1>4, <2>1 DEF Lane!GiveUp
  <2> QED
    BY <1>1, <2>2 DEF Lane!Next
<1>6. CASE queue'[r].st # "pending"
  <2>1. Waiting' = Waiting \ {r}
    BY <1>1, <1>6 DEF Waiting, Pending
  <2>2. Lane!Land(p)
    BY <1>1, <1>3, <1>4, <2>1 DEF Lane!Land
  <2> QED
    BY <1>1, <2>2 DEF Lane!Next
<1> QED
  BY <1>5, <1>6

LEMMA LaneJoins ==
    ASSUME TypeOK, FrontInv, NEW t \in Task, Enqueue(t)
    PROVE  Lane!Join(t)
<1>1. /\ nextId \in Row /\ queue' = [queue EXCEPT ![nextId] = EmptyRow("pending", t)]
      /\ nextId' = nextId + 1 /\ ship' = ship
      /\ \A i \in Row : Pending(i) => queue[i].task # t
  BY DEF Enqueue
<1>2. nextId \in Nat /\ Arrived \in Seq(Task) /\ Len(Arrived) = nextId - 1
      /\ nextId \in 1 .. (MaxRow + 1) /\ MaxRow \in Nat
  BY Numbers, ConstantsAssumption DEF TypeOK
<1>3. \A n \in Waiting : Arrived[n] # t
  BY <1>1, Numbers DEF Waiting
<1>4. queue'[nextId].st = "pending" /\ queue'[nextId].task = t
      /\ \A i \in Row : i # nextId => queue'[i] = queue[i]
  BY <1>1 DEF EmptyRow, TypeOK
<1>5. Waiting' = Waiting \cup {Len(Arrived) + 1}
  <2>1. Len(Arrived) + 1 = nextId
    BY <1>2
  <2>2. \A i : i \in Waiting' <=> i \in Waiting \/ i = nextId
    BY <1>1, <1>4 DEF Waiting, Pending
  <2> QED
    BY <2>1, <2>2
<1>6. Arrived' = Append(Arrived, t)
  <2>1. /\ Append(Arrived, t) \in Seq(Task) /\ Len(Append(Arrived, t)) = Len(Arrived) + 1
        /\ \A i \in 1 .. Len(Arrived) : Append(Arrived, t)[i] = Arrived[i]
        /\ Append(Arrived, t)[Len(Arrived) + 1] = t
    BY <1>2, AppendProperties
  <2>2. Len(Append(Arrived, t)) = nextId /\ Append(Arrived, t)[nextId] = t
    BY <1>2, <2>1
  <2>3. Append(Arrived, t) = [i \in 1 .. nextId |-> Append(Arrived, t)[i]]
    BY <2>1, <2>2, LenProperties
  <2>4. Arrived' = [i \in 1 .. nextId |-> queue'[i].task]
    <3>1. nextId' - 1 = nextId
      BY <1>1, <1>2
    <3> QED
      BY <3>1 DEF Arrived
  <2>5. ASSUME NEW i \in 1 .. nextId
        PROVE  queue'[i].task = Append(Arrived, t)[i]
    <3>1. CASE i = nextId
      BY <1>4, <2>2, <3>1
    <3>2. CASE i # nextId
      <4>1. i \in Row /\ i \in 1 .. (nextId - 1)
        BY <1>2, <3>2 DEF Row
      <4>2. Arrived[i] = queue[i].task /\ queue'[i] = queue[i]
        BY <1>4, <3>2, <4>1 DEF Arrived
      <4>3. Append(Arrived, t)[i] = Arrived[i]
        BY <1>2, <2>1, <4>1
      <4> QED
        BY <4>2, <4>3
    <3> QED
      BY <3>1, <3>2
  <2> QED
    BY <2>3, <2>4, <2>5
<1>7. Busy' = Busy
  BY <1>1 DEF Busy, InFlight
<1> QED
  BY <1>3, <1>5, <1>6, <1>7 DEF Lane!Join

LEMMA LaneWithdraws ==
    ASSUME MaxShip < LeaseTTL, TypeOK, FrontInv, LeaseInv, NEW t \in Task, CancelPendingForTask(t)
    PROVE  Lane!Withdraw(t)
<1>1. PICK i \in Row : /\ Pending(i) /\ queue[i].task = t
                       /\ IsHead(i) => LeaseFree(i)
                       /\ queue' = [queue EXCEPT ![i] = EmptyRow("deleted", t)]
                       /\ nextId' = nextId /\ ship' = ship
  BY DEF CancelPendingForTask
<1>2. i \in Waiting /\ Arrived[i] = t
  BY <1>1, Numbers DEF Waiting
<1>3. queue'[i].st = "deleted" /\ queue'[i].task = t
      /\ \A j \in Row : j # i => queue'[j] = queue[j]
  BY <1>1 DEF EmptyRow, TypeOK
<1>4. Waiting' = Waiting \ {i}
  BY <1>1, <1>3 DEF Waiting, Pending
<1>5. Arrived' = Arrived
  <2>1. \A j \in 1 .. (nextId - 1) : j \in Row
    BY ConstantsAssumption DEF TypeOK, Row
  <2> QED
    BY <1>1, <1>3, <2>1 DEF Arrived
<1>6. Busy' = Busy
  BY <1>1 DEF Busy, InFlight
\* The front is being shipped under a lease that is still live.
<1>7. ASSUME Busy[ProductOf[t]], i \in Lane!Front(ProductOf[t])
      PROVE  FALSE
  <2>1. ProductOf[t] \in Product
    BY ConstantsAssumption
  <2>2. PICK s \in Shipper : InFlight(s) /\ ProductOf[ship[s].task] = ProductOf[t]
    BY <1>7, <2>1 DEF Busy
  <2>3. /\ ship[s].row \in Lane!Front(ProductOf[t]) /\ IsHead(ship[s].row)
        /\ queue[ship[s].row].owner # NoOwner /\ queue[ship[s].row].left > 0
        /\ ship[s].row \in Row
    BY <2>2, ShipsTheFront
  <2>4. ship[s].row = i
    <3>1. ship[s].row <= i /\ i <= ship[s].row
      BY <1>7, <2>3 DEF Lane!Front
    <3> QED
      BY <2>3, <3>1 DEF Row
  <2>5. queue[i].left \in Int
    BY ConstantsAssumption DEF TypeOK, RowRecord
  <2> QED
    BY <1>1, <2>3, <2>4, <2>5 DEF LeaseFree
<1> QED
  BY <1>2, <1>4, <1>5, <1>6, <1>7 DEF Lane!Withdraw

LEMMA LaneStarts ==
    ASSUME MaxShip < LeaseTTL, TypeOK, FrontInv, LeaseInv,
           NEW s \in Shipper, ReserveHeadForShip(s)
    PROVE  Lane!Start(ProductOf[ship[s].task]) /\ ProductOf[ship[s].task] \in Product
<1> DEFINE p == ProductOf[ship[s].task]
<1>1. PICK i \in Row :
        /\ MayReserve(i, ship[s].task)
        /\ queue' = [queue EXCEPT ![i] = LeasedTo(OwnerOf[s], @, ship[s].age)]
        /\ ship' = [ship EXCEPT ![s] = Reserved(@, i)]
        /\ ship[s].pc = "reserve" /\ nextId' = nextId
  BY DEF ReserveHeadForShip
<1>2. queue[i].task = ship[s].task /\ IsHead(i) /\ LeaseFree(i) /\ Pending(i)
  BY <1>1 DEF MayReserve, IsHead
<1>3. p \in Product
  BY ConstantsAssumption DEF TypeOK, ShipRecord
<1>4. Lane!Line(p) # {}
  BY <1>2, <1>3, Numbers
<1>5. \A j \in Row : queue'[j].task = queue[j].task /\ queue'[j].st = queue[j].st
  BY <1>1 DEF TypeOK, LeasedTo
<1>6. Waiting' = Waiting
  BY <1>5 DEF Waiting, Pending
<1>7. Arrived' = Arrived
  <2>1. \A j \in 1 .. (nextId - 1) : j \in Row
    BY ConstantsAssumption DEF TypeOK, Row
  <2> QED
    BY <1>1, <1>5, <2>1 DEF Arrived
<1>8. ASSUME NEW u \in Shipper, InFlight(u), ProductOf[ship[u].task] = p
      PROVE  FALSE
  <2>1. /\ IsHead(ship[u].row) /\ ship[u].row \in Row
        /\ queue[ship[u].row].owner # NoOwner /\ queue[ship[u].row].left > 0
        /\ Pending(ship[u].row) /\ ProductOf[queue[ship[u].row].task] = p
    BY <1>8, ShipsTheFront
  <2>2. ship[u].row <= i /\ i <= ship[u].row
    BY <1>2, <2>1 DEF IsHead
  <2>3. ship[u].row = i
    BY <2>1, <2>2 DEF Row
  <2>4. queue[i].left \in Int
    BY ConstantsAssumption DEF TypeOK, RowRecord
  <2> QED
    BY <1>2, <2>1, <2>3, <2>4 DEF LeaseFree
<1>9. /\ InFlight(s)' /\ ~InFlight(s) /\ ship'[s].task = ship[s].task
      /\ \A u \in Shipper : u # s => ship'[u] = ship[u]
  BY <1>1 DEF TypeOK, InFlight, Reserved
<1>10. Busy' = [Busy EXCEPT ![p] = TRUE] /\ Busy[p] = FALSE
  <2>1. Busy[p] = FALSE
    BY <1>3, <1>8 DEF Busy
  <2>2. ASSUME NEW q \in Product
        PROVE  Busy'[q] = IF q = p THEN TRUE ELSE Busy[q]
    <3>1. Busy'[q] = \E u \in Shipper : InFlight(u)' /\ ProductOf[ship'[u].task] = q
      BY DEF Busy
    <3>2. Busy[q] = \E u \in Shipper : InFlight(u) /\ ProductOf[ship[u].task] = q
      BY DEF Busy
    <3>3. \A u \in Shipper : u # s => (InFlight(u)' <=> InFlight(u))
      BY <1>9 DEF InFlight
    <3> QED
      BY <1>9, <3>1, <3>2, <3>3
  <2>3. Busy' \in [Product -> BOOLEAN] /\ Busy \in [Product -> BOOLEAN]
    BY DEF Busy
  <2> QED
    BY <2>1, <2>2, <2>3
<1> QED
  BY <1>3, <1>4, <1>6, <1>7, <1>10 DEF Lane!Start

LEMMA LaneStep ==
    ASSUME MaxShip < LeaseTTL, "noop" \notin Backends
    PROVE  TypeOK /\ FrontInv /\ LeaseInv /\ [Next]_vars => [Lane!Next]_(Lane!vars)
<1> SUFFICES ASSUME TypeOK, FrontInv, LeaseInv, [Next]_vars
             PROVE  [Lane!Next]_(Lane!vars)
  OBVIOUS
<1>1. ASSUME Arrived' = Arrived, Waiting' = Waiting, Busy' = Busy
      PROVE  [Lane!Next]_(Lane!vars)
  BY <1>1 DEF Lane!vars
<1>2. ASSUME NEW t \in Task, Enqueue(t)
      PROVE  [Lane!Next]_(Lane!vars)
  BY <1>2, LaneJoins DEF Lane!Next
<1>3. ASSUME NEW t \in Task, CancelPendingForTask(t)
      PROVE  [Lane!Next]_(Lane!vars)
  BY <1>3, LaneWithdraws DEF Lane!Next
<1>4. ASSUME NEW t \in Task, CompletePendingForTask(t)
      PROVE  FALSE
  BY <1>4 DEF CompletePendingForTask
<1>5. ASSUME NEW s \in Shipper, NEW t \in Task, NEW skip \in BOOLEAN,
             NEW auto \in BOOLEAN, NEW via \in Backends, Complete(s, t, skip, auto, via)
      PROVE  [Lane!Next]_(Lane!vars)
  <2>1. queue' = queue /\ nextId' = nextId
        /\ ship' = [ship EXCEPT ![s] = Called(t, skip, via)] /\ ship[s].pc = "idle"
    BY <1>5 DEF Complete
  <2>2. \A u \in Shipper : /\ InFlight(u)' <=> InFlight(u)
                           /\ InFlight(u) => ship'[u].task = ship[u].task
    BY <2>1 DEF Called, InFlight, TypeOK
  <2> QED
    BY <1>1, <2>1, <2>2, LaneKept
<1>6. ASSUME NEW s \in Shipper, ReserveHeadForShip(s)
      PROVE  [Lane!Next]_(Lane!vars)
  BY <1>6, LaneStarts DEF Lane!Next
<1>7. ASSUME NEW s \in Shipper, ReserveRefused(s)
      PROVE  [Lane!Next]_(Lane!vars)
  <2>1. queue' = queue /\ nextId' = nextId
        /\ ship' = [ship EXCEPT ![s] = Idle] /\ ship[s].pc = "reserve"
    BY <1>7 DEF ReserveRefused
  <2>2. \A u \in Shipper : /\ InFlight(u)' <=> InFlight(u)
                           /\ InFlight(u) => ship'[u].task = ship[u].task
    BY <2>1 DEF Idle, InFlight, TypeOK
  <2> QED
    BY <1>1, <2>1, <2>2, LaneKept
<1>8. ASSUME NEW s \in Shipper, queue' = queue, nextId' = nextId, Merging(s),
             MergeErrs(s) \/ \E r \in ShipState : MergeReturns(s, r)
      PROVE  [Lane!Next]_(Lane!vars)
  <2>1. \A u \in Shipper : /\ InFlight(u)' <=> InFlight(u)
                           /\ InFlight(u) => ship'[u].task = ship[u].task
    <3>1. CASE \E r \in ShipState : MergeReturns(s, r)
      BY <3>1 DEF MergeReturns, InFlight, TypeOK, ShipRecord
    <3>2. CASE ship' = [ship EXCEPT ![s].tries = @ + 1]
      BY <3>2 DEF InFlight, TypeOK, ShipRecord
    <3> QED
      BY <1>8, <3>1, <3>2 DEF MergeErrs, ShipState
  <2> QED
    BY <1>1, <1>8, <2>1, LaneKept
<1>9. ASSUME NEW s \in Shipper, MergePullRequest(s) \/ MergeBranches(s) \/ UnknownBackend(s)
      PROVE  [Lane!Next]_(Lane!vars)
  <2>1. queue' = queue /\ nextId' = nextId /\ Merging(s)
        /\ (MergeErrs(s) \/ \E r \in ShipState : MergeReturns(s, r))
    BY <1>9 DEF MergePullRequest, MergeBranches, UnknownBackend, ShipState
  <2> QED
    BY <1>8, <2>1
<1>10. ASSUME NEW s \in Shipper, FinishShip(s)
       PROVE  [Lane!Next]_(Lane!vars)
  <2>1. InFlight(s) /\ ship' = [ship EXCEPT ![s] = Idle] /\ nextId' = nextId
    BY <1>10 DEF FinishShip, Recording
  <2>2. ship[s].row \in Row /\ MayFinish(s, ship[s].row)
    BY <2>1, ShipsTheFront
  <2>3. queue' = [queue EXCEPT ![ship[s].row] = Recorded(@, ship[s].res)]
    BY <1>10, <2>2 DEF FinishShip
  <2>4. \A i \in Row : /\ queue'[i].task = queue[i].task
                       /\ i # ship[s].row => queue'[i] = queue[i]
    BY <2>2, <2>3 DEF Recorded, TypeOK
  <2> QED
    BY <2>1, <2>4, LaneLeaves
<1>11. ASSUME NEW s \in Shipper, Abandon(s)
       PROVE  [Lane!Next]_(Lane!vars)
  <2>1. queue' = queue /\ nextId' = nextId /\ ship' = [ship EXCEPT ![s] = Idle]
    BY <1>11 DEF Abandon
  <2>2. CASE InFlight(s)
    BY <2>1, <2>2, LaneLeaves
  <2>3. CASE ~InFlight(s)
    <3>1. \A u \in Shipper : /\ InFlight(u)' <=> InFlight(u)
                             /\ InFlight(u) => ship'[u].task = ship[u].task
      BY <2>1, <2>3 DEF Idle, InFlight, TypeOK
    <3> QED
      BY <1>1, <2>1, <3>1, LaneKept
  <2> QED
    BY <2>2, <2>3
<1>12. CASE Tick
  <2>1. \A i \in Row : queue'[i].task = queue[i].task /\ queue'[i].st = queue[i].st
    BY <1>12 DEF Tick, TypeOK, RowRecord
  <2>2. \A u \in Shipper : ship'[u].pc = ship[u].pc /\ ship'[u].task = ship[u].task
    BY <1>12 DEF Tick, TypeOK, ShipRecord
  <2>3. nextId' = nextId
    BY <1>12 DEF Tick
  <2> QED
    BY <1>1, <2>1, <2>2, <2>3, LaneKept DEF InFlight
<1>13. CASE UNCHANGED <<queue, nextId, ship>>
  BY <1>1, <1>13, LaneKept DEF InFlight
<1> QED
  BY <1>2, <1>3, <1>4, <1>5, <1>6, <1>7, <1>9, <1>10, <1>11, <1>12, <1>13
  DEF Next, ShipperStep, ForgeMoves, RepairTree, vars

\* When no ship can outlast its lease and no noop backend serves the queue,
\* every behaviour of shippers, leases, crashes and forges is one of a line in
\* which one task of a product is shipped at a time, always the front one.
THEOREM QueueImplementsLane == ASSUME MaxShip < LeaseTTL, "noop" \notin Backends
    PROVE  Spec => ImplementsShipLane
<1>1. Init => Lane!Init
  <2> SUFFICES ASSUME Init
               PROVE  Lane!Init
    OBVIOUS
  <2>1. nextId - 1 = 0 /\ \A i \in Row : ~Pending(i)
    BY DEF Init, EmptyRow, Pending
  <2>2. 1 .. 0 = {}
    OBVIOUS
  <2>3. Arrived = <<>>
    BY <2>1, <2>2 DEF Arrived
  <2>4. Waiting = {} /\ Busy = [p \in Product |-> FALSE]
    BY <2>1 DEF Waiting, Busy, Init, Idle, InFlight
  <2> QED
    BY <2>3, <2>4 DEF Lane!Init
<1>2. TypeOK /\ FrontInv /\ LeaseInv /\ [Next]_vars => [Lane!Next]_(Lane!vars)
  BY LaneStep
<1> QED
  BY <1>1, <1>2, TypeCorrect, FrontCorrect, LeaseCorrect, PTL
  DEF Spec, ImplementsShipLane, Lane!Spec
=============================================================================
