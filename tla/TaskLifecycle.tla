--------------------------- MODULE TaskLifecycle ----------------------------
(***************************************************************************)
(* The task board of the arms service (application/task) under concurrent  *)
(* requests.                                                               *)
(*                                                                         *)
(* A request is a goroutine of the HTTP API or a job of the worker that    *)
(* runs one operation of task.Service.  SQL statements and transactions    *)
(* are atomic (one connection, SetMaxOpenConns(1)), but most operations    *)
(* read the whole task row, perhaps call the agent gateway or the forge,   *)
(* and write the whole row back with no version check.  The row a request  *)
(* holds between its read and its write is its copy.  Only completion and  *)
(* the two webhooks run under the product gate, a mutex of the process.    *)
(***************************************************************************)
EXTENDS Kanban, Integers

CONSTANTS
    Task, Product, ProductOf,
    Request,      \* concurrent requests
    NoRequest,    \* an unlocked gate
    Op,           \* the operations that are called
    TierOf,       \* product -> automation_tier
    Publisher,    \* "real": a forge; "noop": shipping.PullRequestNoop
    StartStatus,  \* columns the tasks are found in
    MaxOrders,    \* bound: dispatches the gateway accepts
    Crashes       \* requests may be cut off between any two steps

Operation == {"approve", "recall", "patch", "touch", "dispatch", "redispatch",
              "checkpoint", "pull_request", "complete", "agent_webhook", "ci_webhook"}

\* The operations that run under ProductGate.
GatedOps == {"complete", "agent_webhook", "ci_webhook"}

ASSUME ConstantsAssumption ==
    /\ Task # {} /\ ProductOf \in [Task -> Product]
    /\ NoRequest \notin Request
    /\ Op \subseteq Operation
    /\ TierOf \in [Product -> {"supervised", "semi_auto", "full_auto"}]
    /\ Publisher \in {"real", "noop"}
    /\ StartStatus \subseteq Status
    /\ MaxOrders \in Nat
    /\ Crashes \in BOOLEAN

VARIABLES
    row,    \* task -> its row in the tasks table
    req,    \* request -> the operation it runs and the variables it holds
    gate,   \* product -> the request that holds its mutex
    orders, \* task -> the references under which the gateway took it on (ground truth)
    unheard \* task -> those whose answer never reached the caller

vars == <<row, req, gate, orders, unheard>>

Ref == 0..MaxOrders  \* external_ref; 0 is the empty string

Row == [status : Status, approved : BOOLEAN, ref : Ref, head : BOOLEAN, url : BOOLEAN]

Req == [op   : Operation,
        task : Task,
        to   : Status,
        pc   : {"idle", "lock", "locked", "gateway", "forge", "save", "auto"},
        copy : Row,
        auto : BOOLEAN]

AnyTask == CHOOSE t \in Task : TRUE

NewRow(st) == [status |-> st, approved |-> st # "planning", ref |-> 0, head |-> FALSE, url |-> FALSE]

Idle == [op |-> "touch", task |-> AnyTask, to |-> "planning", pc |-> "idle",
         copy |-> NewRow("planning"), auto |-> FALSE]

Init ==
    /\ row \in [Task -> {NewRow(st) : st \in StartStatus}]
    /\ req = [r \in Request |-> Idle]
    /\ gate = [p \in Product |-> NoRequest]
    /\ orders = [t \in Task |-> {}]
    /\ unheard = [t \in Task |-> {}]

-----------------------------------------------------------------------------
(* Requests and the gate. *)

Holds(r) == \E p \in Product : gate[p] = r

\* The gate after r returns: deferred Unlock.
Unlocked(r) == [p \in Product |-> IF gate[p] = r THEN NoRequest ELSE gate[p]]

Return(r) == req' = [req EXCEPT ![r] = Idle] /\ gate' = Unlocked(r)

\* The call q with a new program counter and copy.
Hold(q, pc, copy, auto) ==
    [op |-> q.op, task |-> q.task, to |-> q.to, pc |-> pc, copy |-> copy, auto |-> auto]

\* Request r starts op on t, with the row it read and will write back.
Begin(r, op, t, pc, copy) ==
    /\ op \in Op /\ req[r].pc = "idle"
    /\ req' = [req EXCEPT ![r] = [op |-> op, task |-> t, to |-> copy.status, pc |-> pc,
                                  copy |-> copy, auto |-> FALSE]]
    /\ UNCHANGED <<row, gate, orders, unheard>>

-----------------------------------------------------------------------------
(* Operations.  Each reads the row and either is refused, which changes     *)
(* nothing and is not a step, or goes on with its copy.                     *)

ApprovePlan(r, t) ==
    /\ row[t].status = "planning"
    /\ Begin(r, "approve", t, "save", [row[t] EXCEPT !.status = "inbox", !.approved = TRUE])

\* Mutants: a recalled task gets a status ParseTaskStatus does not know; it
\* keeps its approval.
RecallToUnknown(r, t) ==
    /\ row[t].status = "inbox"
    /\ Begin(r, "recall", t, "save", [row[t] EXCEPT !.status = "backlog", !.approved = FALSE])
RecallApproved(r, t) ==
    /\ row[t].status \in {"inbox", "assigned"}
    /\ Begin(r, "recall", t, "save", [row[t] EXCEPT !.status = "planning"])

\* Back to planning, from assigned only while no reference is on the row.
ReturnToPlanning(r, t) ==
    /\ \/ row[t].status = "inbox"
       \/ row[t].status = "assigned" /\ row[t].ref = 0
    /\ Begin(r, "recall", t, "save", [row[t] EXCEPT !.status = "planning", !.approved = FALSE])

\* SetStatusReasonOnly, UpdatePlanningArtifacts, PatchWorkspacePaths and
\* nudgeStall write columns no property here is about, and the rest as read.
TouchTask(r, t) == Begin(r, "touch", t, "save", row[t])

\* The row is read and checked before the budget and the gateway are asked.
Dispatch(r, t) ==
    /\ row[t].status = "assigned" /\ row[t].approved
    /\ Begin(r, "dispatch", t, "gateway", [row[t] EXCEPT !.status = "in_progress"])

\* redispatchStalledTask: the stall sweep hands the task to another agent.
RedispatchStalledTask(r, t) ==
    /\ row[t].status \in Reassignable
    /\ Begin(r, "redispatch", t, "gateway", row[t])

RecordCheckpoint(r, t) ==
    /\ row[t].status \in Checkpointable
    /\ Begin(r, "checkpoint", t, "save", [row[t] EXCEPT !.status = "in_progress"])

OpenPullRequest(r, t) ==
    /\ row[t].status \in PullRequestable
    /\ Begin(r, "pull_request", t, "forge", row[t])

\* Mutant: the move without the plan gate.
MoveUnplanned(t, to) == AllowedKanbanTransition(row[t].status, to)

MoveAllowed(t, to) ==
    /\ AllowedKanbanTransition(row[t].status, to)
    /\ to = "assigned" => row[t].approved

\* tryAutoOpenPRIfApplicable and maybeAutoMergeShip: is there more to do?
AutoFollows(t, from, to) ==
    LET tier == TierOf[ProductOf[t]] IN
    \/ to = "review" /\ from \in Executing /\ tier = "full_auto"
    \/ to = "done" /\ tier \in {"full_auto", "semi_auto"}

\* The read of SetKanbanStatus.
ReadAndMove(r, op, t, to) ==
    /\ MoveAllowed(t, to)
    /\ req' = [req EXCEPT ![r] = [op |-> op, task |-> t, to |-> to, pc |-> "save",
                                  copy |-> [row[t] EXCEPT !.status = to],
                                  auto |-> AutoFollows(t, row[t].status, to)]]
    /\ UNCHANGED <<row, gate, orders, unheard>>

\* PATCH /api/tasks/{id} and the convoy handlers: SetKanbanStatus without the gate.
PatchTask(r, t, to) ==
    /\ "patch" \in Op /\ req[r].pc = "idle"
    /\ ReadAndMove(r, "patch", t, to)

\* Completion and the webhooks first wait for the gate.
Wait(r, op, t, to) ==
    /\ op \in Op /\ req[r].pc = "idle"
    /\ req' = [req EXCEPT ![r] = [op |-> op, task |-> t, to |-> to, pc |-> "lock",
                                  copy |-> NewRow("planning"), auto |-> FALSE]]
    /\ UNCHANGED <<row, gate, orders, unheard>>

CompleteWithLiveActivity(r, t) == Wait(r, "complete", t, "done")

\* A supervised product's agent cannot move the board, only complete the task.
ApplyAgentWebhookOutcome(r, t, to) ==
    /\ to \in {"testing", "review"}
    /\ TierOf[ProductOf[t]] # "supervised"
    /\ AllowedKanbanTransition(row[t].status, to)
    /\ Wait(r, "agent_webhook", t, to)

ApplyCIWebhookOutcome(r, t, to) ==
    /\ to \in {"testing", "review", "failed"}
    /\ Wait(r, "ci_webhook", t, to)

-----------------------------------------------------------------------------
(* The rest of an operation. *)

\* Mutant: a gate that does not exclude.
WithoutLock(r) ==
    /\ req[r].pc = "lock"
    /\ req' = [req EXCEPT ![r].pc = "locked"]
    /\ UNCHANGED <<row, gate, orders, unheard>>

WithLock(r) ==
    LET p == ProductOf[req[r].task] IN
    /\ req[r].pc = "lock" /\ gate[p] = NoRequest
    /\ gate' = [gate EXCEPT ![p] = r]
    /\ req' = [req EXCEPT ![r].pc = "locked"]
    /\ UNCHANGED <<row, orders, unheard>>

MoveUnderGate(r) ==
    /\ req[r].pc = "locked" /\ req[r].op # "complete"
    /\ ReadAndMove(r, req[r].op, req[r].task, req[r].to)

\* Mutant: Unlock is skipped on the error return.
MoveRefusedLocked(r) ==
    /\ req[r].pc = "locked" /\ req[r].op # "complete"
    /\ ~MoveAllowed(req[r].task, req[r].to)
    /\ req' = [req EXCEPT ![r] = Idle]
    /\ UNCHANGED <<row, gate, orders, unheard>>

MoveRefused(r) ==
    /\ req[r].pc = "locked" /\ req[r].op # "complete"
    /\ ~MoveAllowed(req[r].task, req[r].to)
    /\ Return(r)
    /\ UNCHANGED <<row, orders, unheard>>

\* CompleteTaskWithEvent reads and writes in one transaction and touches only
\* the status; a task that is done stays done.  The gate is released before
\* maybeAutoMergeShip.
CompleteTask(r) ==
    LET t == req[r].task IN
    /\ req[r].pc = "locked" /\ req[r].op = "complete"
    /\ row[t].status \in Completable \cup {"done"}
    /\ row' = [row EXCEPT ![t].status = "done"]
    /\ gate' = Unlocked(r)
    /\ req' = [req EXCEPT ![r] = IF AutoFollows(t, row[t].status, "done")
                                 THEN [@ EXCEPT !.pc = "auto"] ELSE Idle]
    /\ UNCHANGED <<orders, unheard>>

CompleteRefused(r) ==
    /\ req[r].pc = "locked" /\ req[r].op = "complete"
    /\ row[req[r].task].status \notin Completable \cup {"done"}
    /\ Return(r)
    /\ UNCHANGED <<row, orders, unheard>>

\* Mutant: the new reference is not taken over.
GatewayAcceptsAgain(r) ==
    /\ req[r].pc = "gateway"
    /\ \E ref \in Ref \ {0} :
          /\ \A t \in Task : ref \notin orders[t]
          /\ orders' = [orders EXCEPT ![req[r].task] = @ \cup {ref}]
          /\ req' = [req EXCEPT ![r] = Hold(@, "save", @.copy, @.auto)]
    /\ UNCHANGED <<row, gate, unheard>>

\* A reference the gateway has not given yet, the next one.
Fresh(ref) ==
    /\ \A t \in Task : ref \notin orders[t]
    /\ \A k \in 1..(ref - 1) : \E t \in Task : k \in orders[t]

\* The gateway takes the task on and answers with its reference.
GatewayAccepts(r) ==
    /\ req[r].pc = "gateway"
    /\ \E ref \in Ref \ {0} :
          /\ Fresh(ref)
          /\ orders' = [orders EXCEPT ![req[r].task] = @ \cup {ref}]
          /\ req' = [req EXCEPT ![r] = Hold(@, "save", [@.copy EXCEPT !.ref = ref], @.auto)]
    /\ UNCHANGED <<row, gate, unheard>>

\* The gateway takes the task on, but a timeout, a broken connection or an answer
\* that cannot be read makes the call fail: the agent works, and the operation
\* returns the error and saves nothing.
GatewayAnswerLost(r) ==
    /\ req[r].pc = "gateway"
    /\ \E ref \in Ref \ {0} :
          /\ Fresh(ref)
          /\ orders' = [orders EXCEPT ![req[r].task] = @ \cup {ref}]
          /\ unheard' = [unheard EXCEPT ![req[r].task] = @ \cup {ref}]
    /\ Return(r)
    /\ UNCHANGED row

\* The forge opens the pull request; the noop publisher answers with no URL.
ForgeOpens(r) ==
    /\ req[r].pc = "forge"
    /\ LET opened == [req[r].copy EXCEPT !.head = TRUE, !.url = (Publisher = "real")] IN
          req' = [req EXCEPT ![r] = Hold(@, "save", opened, @.auto)]
    /\ UNCHANGED <<row, gate, orders, unheard>>

\* Mutant: a failed dispatch is saved under a reference of its own.
CallFailsSaved(r) ==
    /\ req[r].pc \in {"gateway", "forge"}
    /\ req' = [req EXCEPT ![r] = Hold(@, "save", [@.copy EXCEPT !.ref = MaxOrders], @.auto)]
    /\ UNCHANGED <<row, gate, orders, unheard>>

\* The budget, the gateway or the forge refuses: the operation returns the error,
\* nothing is saved.
CallFails(r) ==
    /\ req[r].pc \in {"gateway", "forge"}
    /\ Return(r)
    /\ UNCHANGED <<row, orders, unheard>>

\* Tasks.Save or SaveTaskWithEvent: every column is written from the copy.
Save(r) ==
    /\ req[r].pc = "save"
    /\ row' = [row EXCEPT ![req[r].task] = req[r].copy]
    /\ IF req[r].auto
       THEN req' = [req EXCEPT ![r].pc = "auto"] /\ UNCHANGED gate
       ELSE Return(r)
    /\ UNCHANGED <<orders, unheard>>

\* openPullRequestWhenEligible reads the row afresh.
AutoOpensPullRequest(r) ==
    LET t == req[r].task IN
    /\ req[r].pc = "auto"
    /\ row[t].head /\ ~row[t].url /\ row[t].status \in PullRequestable
    /\ req' = [req EXCEPT ![r] = Hold(@, "forge", row[t], FALSE)]
    /\ UNCHANGED <<row, gate, orders, unheard>>

AutoDone(r) ==
    /\ req[r].pc = "auto"
    /\ Return(r)
    /\ UNCHANGED <<row, orders, unheard>>

\* A request ends where it is: its context is cancelled and the next query
\* fails, or the process dies, which ends every request this way.
Abandon(r) ==
    /\ Crashes
    /\ req[r].pc # "idle"
    /\ Return(r)
    /\ UNCHANGED <<row, orders, unheard>>

-----------------------------------------------------------------------------

Arrival(r, t) ==
    \/ ApprovePlan(r, t) \/ ReturnToPlanning(r, t) \/ TouchTask(r, t) \/ Dispatch(r, t)
    \/ RedispatchStalledTask(r, t) \/ RecordCheckpoint(r, t) \/ OpenPullRequest(r, t)
    \/ CompleteWithLiveActivity(r, t)
    \/ \E to \in Status : PatchTask(r, t, to) \/ ApplyAgentWebhookOutcome(r, t, to)
                          \/ ApplyCIWebhookOutcome(r, t, to)

Work(r) ==
    \/ MoveUnderGate(r) \/ MoveRefused(r) \/ CompleteTask(r) \/ CompleteRefused(r)
    \/ GatewayAccepts(r) \/ GatewayAnswerLost(r) \/ ForgeOpens(r) \/ CallFails(r)
    \/ Save(r) \/ AutoOpensPullRequest(r) \/ AutoDone(r)

Next ==
    \/ \E r \in Request, t \in Task : Arrival(r, t)
    \/ \E r \in Request : WithLock(r) \/ Work(r) \/ Abandon(r)

Spec == Init /\ [][Next]_vars

\* A running request goes on, external calls return (an answer or a context
\* error), and sync.Mutex is starvation-free.  Nothing obliges a caller to call.
Fairness == \A r \in Request : WF_vars(Work(r)) /\ SF_vars(WithLock(r))

FairSpec == Spec /\ Fairness

-----------------------------------------------------------------------------
(* Properties. *)

\* Every variable stays in its range.
TypeOK ==
    /\ row \in [Task -> Row]
    /\ req \in [Request -> Req]
    /\ gate \in [Product -> Request \cup {NoRequest}]
    /\ orders \in [Task -> SUBSET Ref]
    /\ unheard \in [Task -> SUBSET Ref]

\* The plan gate: a task is never assigned, and so never dispatched, without an
\* approved plan, whatever stale rows are written over each other.
AssignedIsApproved == \A t \in Task : row[t].status = "assigned" => row[t].approved

\* The reference a task carries is one the gateway gave for this very task: an
\* agent's callback with that reference finds its task.
RefWasOrdered == \A t \in Task : row[t].ref # 0 => row[t].ref \in orders[t]

\* With a real forge the head branch is only ever stored together with the
\* pull request's URL, so the row never has the one without the other.
HeadComesWithUrl == \A t \in Task : row[t].head = row[t].url

\* What a row says of its order and its pull request is true, although rows are
\* written back whole by requests that read them before others wrote.
RowIsTrue == RefWasOrdered /\ HeadComesWithUrl

\* The orders whose answer reached the caller.
Answered(t) == orders[t] \ unheard[t]

\* With one request at a time that is not cut off, and no query failing, no answer
\* of the gateway is dropped: when nothing is running, every order it answered for
\* is the one the task carries or one that was superseded.  An order whose answer
\* was lost is known to nobody (Dispatch returns ErrGateway and the row stays
\* assigned): those are the only ones.
AnsweredWorkIsKnown ==
    (\A r \in Request : req[r].pc = "idle") =>
        \A t \in Task : \A ref \in Answered(t) : ref <= row[t].ref

Board == INSTANCE TaskBoard WITH
    column   <- [t \in Task |-> row[t].status],
    approved <- [t \in Task |-> row[t].approved]

\* The rows change as if every operation were atomic.
ImplementsTaskBoard == Board!Spec

\* Completion is final for the callbacks: no webhook, late or repeated, moves a
\* task out of done.
DoneIsFinal == [][\A t \in Task : row[t].status = "done" => row'[t].status = "done"]_vars

\* A task is put back into planning only before it is dispatched: one whose
\* dispatch has been saved, and that is at work, never is (ReturnToPlanning).
RecallOnlyBeforeDispatch ==
    [][\A t \in Task : row[t].status \in Reassignable => row'[t].status # "planning"]_vars

\* Every request ends, and gives its gate back.
RequestsEnd == \A r \in Request : req[r].pc # "idle" ~> (req[r].pc = "idle" /\ ~Holds(r))
=============================================================================
