----------------------------- MODULE MergeQueue -----------------------------
(***************************************************************************)
(* The per-product merge queue: rows of workspace_merge_queue in SQLite    *)
(* (adapters/sqlite/workspace.go), the shippers that complete its head     *)
(* (application/mergequeue), and the forge or clone they merge into.       *)
(*                                                                         *)
(* A shipper is one call of mergequeue.Service.complete in one process.    *)
(* It reserves the head in a transaction, merges outside any transaction,  *)
(* and records the outcome in a second transaction.  Between the two only  *)
(* the lease on the row keeps other shippers away.                         *)
(*                                                                         *)
(* Time: a lease stores its expiry; the model keeps the whole seconds left *)
(* instead, so that no absolute clock is needed.                           *)
(***************************************************************************)
EXTENDS Integers

CONSTANTS
    Product, Task, ProductOf,  \* ProductOf[t]: the product that owns task t
    Shipper, Owner, OwnerOf,   \* OwnerOf[s]: MergeConfig.LeaseOwner of s's process
    NoOwner,                   \* lease_owner = ''
    Backends,                  \* what ARMS_MERGE_BACKEND and the products' merge policies select
    LeaseTTL,                  \* MergeConfig.LeaseTTLSec
    MaxShip,                   \* longest time from computing the lease's expiry to recording
    MaxAttempts,               \* mergeShipMaxAttempts
    MaxRow,                    \* bound: rows ever inserted
    Faults                     \* what the environment may do to a ship

Row == 1..MaxRow
BackendKind == {"noop", "github", "local", "unknown"}
ShipState == {"none", "merged", "skipped", "conflict", "failed"}
ForgeState == {"absent", "open", "conflicting", "merged"}
FaultKind == {"transient", "lost", "denied", "disconnect", "drift"}

ASSUME ConstantsAssumption ==
    /\ Task # {} /\ ProductOf \in [Task -> Product]
    /\ OwnerOf \in [Shipper -> Owner]
    /\ NoOwner \notin Owner
    /\ Backends # {} /\ Backends \subseteq BackendKind
    /\ LeaseTTL \in Nat \ {0}
    /\ MaxShip \in Nat
    /\ MaxAttempts \in Nat \ {0}
    /\ MaxRow \in Nat
    /\ Faults \subseteq FaultKind

VARIABLES
    queue,   \* row id -> [st, task, owner, left, out]
    nextId,  \* AUTOINCREMENT: ids are never reused
    ship,    \* shipper -> the local variables of complete()
    forge,   \* task -> what the forge knows of its pull request (ground truth)
    tree     \* product -> state of the local clone: clean, or mid-merge

vars == <<queue, nextId, ship, forge, tree>>

RowRecord == [st    : {"unused", "pending", "done", "deleted"},
              task  : Task,
              owner : Owner \cup {NoOwner},
              left  : -1..LeaseTTL,
              out   : ShipState]

ShipRecord == [pc    : {"idle", "reserve", "ship"},
               task  : Task,
               skip  : BOOLEAN,
               via   : Backends,
               row   : 0..MaxRow,
               tries : 0..MaxAttempts,
               res   : ShipState,
               age   : 0..MaxShip]

AnyTask == CHOOSE t \in Task : TRUE

AnyBackend == CHOOSE b \in Backends : TRUE

Idle == [pc |-> "idle", task |-> AnyTask, skip |-> FALSE, via |-> AnyBackend, row |-> 0,
         tries |-> 0, res |-> "none", age |-> 0]

EmptyRow(st, t) == [st |-> st, task |-> t, owner |-> NoOwner, left |-> 0, out |-> "none"]

Init ==
    /\ queue = [i \in Row |-> EmptyRow("unused", AnyTask)]
    /\ nextId = 1
    /\ ship = [s \in Shipper |-> Idle]
    /\ forge \in [Task -> ForgeState \ {"merged"}]
    /\ tree = [p \in Product |-> "clean"]

-----------------------------------------------------------------------------
(* What one transaction reads of the queue. *)

Pending(i) == queue[i].st = "pending"

\* SELECT id ... WHERE product_id = ? AND status = 'pending' ORDER BY id LIMIT 1
IsHead(i) ==
    /\ Pending(i)
    /\ \A j \in Row : (Pending(j) /\ ProductOf[queue[j].task] = ProductOf[queue[i].task])
                         => i <= j

\* Mutant: an expired lease is not given away.
LeaseFreeIfReleased(i) == queue[i].owner = NoOwner

\* The expiry is compared with the present as RFC3339Nano text, which drops
\* trailing zeros of the fraction: within the same second (left = 0) the
\* comparison may come out either way.
LeaseFree(i) == queue[i].owner = NoOwner \/ queue[i].left <= 0
LeaseBusy(i) == queue[i].owner # NoOwner /\ queue[i].left >= 0

\* Between reserving and recording: merging, then holding the outcome.
InFlight(s) == ship[s].pc = "ship"
Merging(s) == InFlight(s) /\ ship[s].res = "none"
Recording(s) == InFlight(s) /\ ship[s].res # "none"

-----------------------------------------------------------------------------
(* Queue operations of the HTTP API, each one transaction. *)

Enqueue(t) ==
    /\ nextId \in Row
    /\ \A i \in Row : Pending(i) => queue[i].task # t
    /\ queue' = [queue EXCEPT ![nextId] = EmptyRow("pending", t)]
    /\ nextId' = nextId + 1
    /\ UNCHANGED <<ship, forge, tree>>

\* Mutant: a row is cancelled under a live lease.
CancelLeased(t) ==
    /\ \E i \in Row :
          /\ Pending(i) /\ queue[i].task = t
          /\ queue' = [queue EXCEPT ![i] = EmptyRow("deleted", t)]
    /\ UNCHANGED <<nextId, ship, forge, tree>>

\* Only the head can be refused, and only while its lease is live.
CancelPendingForTask(t) ==
    /\ \E i \in Row :
          /\ Pending(i) /\ queue[i].task = t
          /\ IsHead(i) => LeaseFree(i)
          /\ queue' = [queue EXCEPT ![i] = EmptyRow("deleted", t)]
    /\ UNCHANGED <<nextId, ship, forge, tree>>

\* Mutant: the noop backend completes any pending row of the task.
CompleteBehindHead(t) ==
    /\ "noop" \in Backends
    /\ \E i \in Row :
          /\ queue[i].task = t /\ Pending(i)
          /\ queue' = [queue EXCEPT ![i].st = "done"]
    /\ UNCHANGED <<nextId, ship, forge, tree>>

\* The noop backend completes the head without a lease or a merge.
CompletePendingForTask(t) ==
    /\ "noop" \in Backends
    /\ \E i \in Row :
          /\ queue[i].task = t /\ IsHead(i)
          /\ queue' = [queue EXCEPT ![i].st = "done"]
    /\ UNCHANGED <<nextId, ship, forge, tree>>

-----------------------------------------------------------------------------
(* One shipper. *)

\* What enforceAutoMergeGates asks of the forge (review approved and clean).
GatesPass(t, via) == via = "github" => forge[t] = "open"

Called(t, skip, via) == [pc |-> "reserve", task |-> t, skip |-> skip, via |-> via, row |-> 0,
                         tries |-> 0, res |-> "none", age |-> 0]

\* complete() up to the reservation: a manual call may skip the real merge, an
\* unattended call of a semi_auto product goes on only if the gates pass now.
\* The backend is the process's, or the override in the product's merge policy
\* (a PATCH may change it between calls).
Complete(s, t, skip, auto, via) ==
    /\ via # "noop"
    /\ ship[s].pc = "idle"
    /\ auto => (~skip /\ GatesPass(t, via))
    /\ ship' = [ship EXCEPT ![s] = Called(t, skip, via)]
    /\ UNCHANGED <<queue, nextId, forge, tree>>

\* Mutants: the reservation without the head check, and without the lease check.
MayReserveAny(i, t) == queue[i].task = t /\ Pending(i) /\ LeaseFree(i)
MayReserveLeased(i, t) == queue[i].task = t /\ IsHead(i)

\* The row of the task heads its queue and no live lease is on it.
MayReserve(i, t) == queue[i].task = t /\ IsHead(i) /\ LeaseFree(i)

\* The expiry was computed age seconds ago, before the transaction could start.
Remaining(age) == IF age > LeaseTTL THEN -1 ELSE LeaseTTL - age

LeasedTo(o, row, age) ==
    [st |-> row.st, task |-> row.task, owner |-> o, left |-> Remaining(age), out |-> row.out]

\* Mutant: a skipped merge is recorded as merged.
ReservedAsMerged(call, i) ==
    [pc |-> "ship", task |-> call.task, skip |-> call.skip, via |-> call.via, row |-> i, tries |-> 0,
     res |-> IF call.skip THEN "merged" ELSE "none", age |-> call.age]

\* skip_ship goes straight to recording the outcome "skipped".
Reserved(call, i) ==
    [pc |-> "ship", task |-> call.task, skip |-> call.skip, via |-> call.via, row |-> i, tries |-> 0,
     res |-> IF call.skip THEN "skipped" ELSE "none", age |-> call.age]

ReserveHeadForShip(s) ==
    /\ ship[s].pc = "reserve"
    /\ \E i \in Row :
          /\ MayReserve(i, ship[s].task)
          /\ queue' = [queue EXCEPT ![i] = LeasedTo(OwnerOf[s], @, ship[s].age)]
          /\ ship' = [ship EXCEPT ![s] = Reserved(@, i)]
    /\ UNCHANGED <<nextId, forge, tree>>

\* ErrNotFound, ErrNotMergeQueueHead or ErrMergeShipBusy: nothing is written.
ReserveRefused(s) ==
    /\ ship[s].pc = "reserve"
    /\ \A i \in Row : (queue[i].task = ship[s].task /\ IsHead(i)) => LeaseBusy(i)
    /\ ship' = [ship EXCEPT ![s] = Idle]
    /\ UNCHANGED <<queue, nextId, forge, tree>>

MergeReturns(s, r) == ship' = [ship EXCEPT ![s].res = r]

\* Mutants: attempts are counted but not bounded; the last error is taken for
\* a success.
MergeErrsUnbounded(s) == ship' = [ship EXCEPT ![s].tries = @ + 1]
MergeErrsHidden(s) ==
    IF ship[s].tries + 1 < MaxAttempts
    THEN ship' = [ship EXCEPT ![s].tries = @ + 1]
    ELSE MergeReturns(s, "merged")

\* mergePullRequestWithRetry: a transient error is retried MaxAttempts times.
MergeErrs(s) ==
    IF ship[s].tries + 1 < MaxAttempts
    THEN ship' = [ship EXCEPT ![s].tries = @ + 1]
    ELSE MergeReturns(s, "failed")

\* 405, 409 and 422 are all recorded as a conflict, also for a pull request
\* that is already merged.
RefusedByForge == {"conflicting", "merged"}

\* One attempt of GitHubPRMerger.MergePullRequest.
MergePullRequest(s) ==
    LET t == ship[s].task IN
    /\ ship[s].via = "github" /\ Merging(s)
    /\ UNCHANGED <<queue, nextId, tree>>
    /\ \/ forge[t] = "absent" /\ MergeReturns(s, "failed") /\ UNCHANGED forge
       \/ forge[t] = "open" /\ MergeReturns(s, "merged")
             /\ forge' = [forge EXCEPT ![t] = "merged"]
       \/ forge[t] = "open" /\ "lost" \in Faults /\ MergeErrs(s)
             /\ forge' = [forge EXCEPT ![t] = "merged"]
       \/ forge[t] \in RefusedByForge /\ MergeReturns(s, "conflict") /\ UNCHANGED forge
       \/ forge[t] # "absent" /\ "transient" \in Faults /\ MergeErrs(s) /\ UNCHANGED forge
       \/ forge[t] # "absent" /\ "denied" \in Faults /\ MergeReturns(s, "failed") /\ UNCHANGED forge

\* LocalGitMerger.MergeBranches: fetch, checkout base, merge; no retry.  A
\* conflict leaves the clone mid-merge, and then checkout fails.
MergeBranches(s) ==
    LET t == ship[s].task
        p == ProductOf[t]
        clean == forge[t] # "absent" /\ tree[p] = "clean" IN
    /\ ship[s].via = "local" /\ Merging(s)
    /\ UNCHANGED <<queue, nextId>>
    /\ \/ ~clean /\ MergeReturns(s, "failed") /\ UNCHANGED <<forge, tree>>
       \/ "transient" \in Faults /\ MergeReturns(s, "failed") /\ UNCHANGED <<forge, tree>>
       \/ clean /\ forge[t] \in {"open", "merged"} /\ MergeReturns(s, "merged")
             /\ forge' = [forge EXCEPT ![t] = "merged"] /\ UNCHANGED tree
       \/ clean /\ forge[t] = "conflicting" /\ MergeReturns(s, "conflict")
             /\ tree' = [tree EXCEPT ![p] = "merging"] /\ UNCHANGED forge

\* A policy override that names no real merge, "noop" included.
UnknownBackend(s) ==
    /\ ship[s].via = "unknown" /\ Merging(s)
    /\ MergeReturns(s, "failed")
    /\ UNCHANGED <<queue, nextId, forge, tree>>

\* merged and skipped advance the queue, any other outcome keeps the row.
Recorded(row, r) ==
    [st |-> IF r \in {"merged", "skipped"} THEN "done" ELSE row.st,
     task |-> row.task, owner |-> NoOwner, left |-> 0, out |-> r]

\* The row is there and still carries this process's name.
MayFinish(s, i) == queue[i].st # "deleted" /\ queue[i].owner = OwnerOf[s]

\* Mutant: a shipper that lost its lease waits for it.
FinishShipIfLeased(s) ==
    /\ Recording(s)
    /\ MayFinish(s, ship[s].row)
    /\ queue' = [queue EXCEPT ![ship[s].row] = Recorded(@, ship[s].res)]
    /\ ship' = [ship EXCEPT ![s] = Idle]
    /\ UNCHANGED <<nextId, forge, tree>>

FinishShip(s) ==
    /\ Recording(s)
    /\ LET i == ship[s].row IN
          queue' = IF MayFinish(s, i)
                   THEN [queue EXCEPT ![i] = Recorded(@, ship[s].res)]
                   ELSE queue
    /\ ship' = [ship EXCEPT ![s] = Idle]
    /\ UNCHANGED <<nextId, forge, tree>>

\* The request context is cancelled or the process dies: complete() ends here,
\* the second transaction never commits, and the lease stays on the row.
Abandon(s) ==
    /\ "disconnect" \in Faults
    /\ ship[s].pc # "idle"
    /\ ship' = [ship EXCEPT ![s] = Idle]
    /\ UNCHANGED <<queue, nextId, forge, tree>>

-----------------------------------------------------------------------------
(* The environment: the clock, the authors of the branches, the operator. *)

Tick ==
    /\ \A s \in Shipper : ship[s].pc # "idle" => ship[s].age < MaxShip
    /\ queue' = [i \in Row |-> IF queue[i].owner = NoOwner \/ queue[i].left = -1 THEN queue[i]
                               ELSE [queue[i] EXCEPT !.left = @ - 1]]
    /\ ship' = [s \in Shipper |-> IF ship[s].pc = "idle" THEN ship[s]
                                  ELSE [ship[s] EXCEPT !.age = @ + 1]]
    /\ UNCHANGED <<nextId, forge, tree>>

\* A pull request is opened, falls into conflict with its base, or is rebased.
ForgeMoves(t) ==
    /\ "drift" \in Faults
    /\ \E b \in {"open", "conflicting"} : forge[t] # "merged" /\ forge' = [forge EXCEPT ![t] = b]
    /\ UNCHANGED <<queue, nextId, ship, tree>>

\* An operator resolves or aborts the unfinished merge in the clone.
RepairTree(p) ==
    /\ tree[p] = "merging"
    /\ tree' = [tree EXCEPT ![p] = "clean"]
    /\ UNCHANGED <<queue, nextId, ship, forge>>

ShipperStep(s) == ReserveHeadForShip(s) \/ ReserveRefused(s) \/ MergePullRequest(s)
                  \/ MergeBranches(s) \/ UnknownBackend(s) \/ FinishShip(s)

Next ==
    \/ \E t \in Task : Enqueue(t) \/ CancelPendingForTask(t) \/ CompletePendingForTask(t)
    \/ \E s \in Shipper, t \in Task, skip, auto \in BOOLEAN, via \in Backends :
          Complete(s, t, skip, auto, via)
    \/ \E s \in Shipper : ShipperStep(s) \/ Abandon(s)
    \/ Tick
    \/ \E t \in Task : ForgeMoves(t)
    \/ \E p \in Product : RepairTree(p)

Spec == Init /\ [][Next]_vars

\* A call that has started is run to its end by its goroutine, and the wall
\* clock always advances; nothing obliges an operator or an author to act.
Fairness == (\A s \in Shipper : WF_vars(ShipperStep(s))) /\ SF_vars(Tick)

FairSpec == Spec /\ Fairness

-----------------------------------------------------------------------------
(* Properties. *)

\* Every variable stays in its range.
TypeOK ==
    /\ queue \in [Row -> RowRecord]
    /\ nextId \in 1..(MaxRow + 1)
    /\ ship \in [Shipper -> ShipRecord]
    /\ forge \in [Task -> ForgeState]
    /\ tree \in [Product -> {"clean", "merging"}]

\* Two rows of one product: the earlier insertion has the smaller id.
SameLane(i, j) == ProductOf[queue[i].task] = ProductOf[queue[j].task]

\* First in, first out (ReserveHeadForShip's head check): no row is completed
\* while an earlier row of its product still waits, even when a shipper that
\* reserved the head long ago only now records its outcome.
ShippedInOrder ==
    \A i, j \in Row : (i < j /\ SameLane(i, j) /\ queue[j].st = "done") => ~Pending(i)

\* A row's recorded outcome is believed by operators: it says merged only if
\* the branch really is merged (complete() carries the outcome of the merge
\* across to FinishShip in a local variable, by then possibly on another row's
\* lease).
MergedRowIsMerged ==
    \A i \in Row : queue[i].out = "merged" => forge[queue[i].task] = "merged"

\* Serialized: at no time are two shippers of one product between reserving
\* and recording.
SerializedShips ==
    \A s, u \in Shipper :
        (s # u /\ InFlight(s) /\ InFlight(u)) => ProductOf[ship[s].task] # ProductOf[ship[u].task]

\* The shipper that is merging holds a live lease on a pending row of its task,
\* so that its outcome will be recorded and not refused by FinishShip.
OutcomeIsRecordable ==
    \A s \in Shipper : InFlight(s) =>
        LET r == queue[ship[s].row] IN
        r.st = "pending" /\ r.task = ship[s].task /\ r.owner = OwnerOf[s] /\ r.left > 0

\* A reserved row, also one whose shipper died, can eventually be reserved again
\* or has left the queue.
LeaseIsReclaimable == \A i \in Row : queue[i].owner # NoOwner ~> (LeaseFree(i) \/ ~Pending(i))

\* Every call of complete() returns.
ShipEnds == \A s \in Shipper : ship[s].pc # "idle" ~> ship[s].pc = "idle"
=============================================================================
