------------------------------- MODULE Convoy -------------------------------
(***************************************************************************)
(* One convoy (application/convoy): a parent task's subtasks in a graph of *)
(* dependencies.  A dispatch wave hands the subtasks whose dependencies    *)
(* are completed to agents, and agents report back through the completion  *)
(* webhook.                                                                *)
(*                                                                         *)
(* Every operation reads the whole convoy and saves it whole:              *)
(* ConvoyStore.Save deletes and reinserts all subtasks in one transaction. *)
(* Nothing excludes two operations from each other, and a wave calls the   *)
(* gateway once per subtask between its read and its save.                 *)
(***************************************************************************)
EXTENDS Integers

CONSTANTS
    Subtask, DependsOn,   \* subtask -> the subtasks it lists in depends_on
    Rank,                 \* subtask -> its place in ORDER BY dag_layer, id
    Planned, Appended,    \* the subtasks of the creation, and of later appends
    Request,              \* concurrent requests
    Op,                   \* the operations that are called
    MaxDispatchAttempts,  \* Service.maxDispatchAttempts()
    MaxOrders,            \* bound: dispatches the gateway accepts
    Faults                \* what may go wrong around a wave

Operation == {"wave", "complete", "append", "patch", "delete"}
FaultKind == {"denied", "gateway", "lost", "crash"}

ASSUME ConstantsAssumption ==
    /\ Subtask # {} /\ DependsOn \in [Subtask -> SUBSET Subtask]
    /\ Rank \in [Subtask -> Nat]
    /\ \A s, u \in Subtask : Rank[s] = Rank[u] => s = u
    /\ \A s \in Subtask : \A d \in DependsOn[s] : Rank[d] < Rank[s]
    /\ Planned \subseteq Subtask /\ Appended \subseteq Subtask
    /\ \A s \in Planned : DependsOn[s] \subseteq Planned
    /\ Op \subseteq Operation
    /\ MaxDispatchAttempts \in Nat \ {0}
    /\ MaxOrders \in Nat
    /\ Faults \subseteq FaultKind

VARIABLES
    live,     \* the convoys row exists
    sub,      \* subtask -> its row in convoy_subtasks
    call,     \* request -> the operation it runs and the convoy it read
    orders,   \* subtask -> what the gateway was asked to work on (ground truth)
    reported  \* subtasks whose agent has reported completion (ground truth)

vars == <<live, sub, call, orders, reported>>

Ref == 0..MaxOrders  \* external_ref; 0 is the empty string

\* attempts stays at the cap once it has reached it: the code only compares it
\* with the cap.
SubRow == [there : BOOLEAN, dispatched : BOOLEAN, completed : BOOLEAN,
           ref : Ref, attempts : 0..MaxDispatchAttempts]

Call == [op   : Operation,
         pc   : {"idle", "found", "wave", "save"},
         on   : Subtask,
         copy : [Subtask -> SubRow],
         todo : SUBSET Subtask]

Blank(there) == [there |-> there, dispatched |-> FALSE, completed |-> FALSE, ref |-> 0, attempts |-> 0]

Absent == [s \in Subtask |-> Blank(FALSE)]

AnySubtask == CHOOSE s \in Subtask : TRUE

Idle == [op |-> "patch", pc |-> "idle", on |-> AnySubtask, copy |-> Absent, todo |-> {}]

\* The convoy as Create saves it.
Init ==
    /\ live = TRUE
    /\ sub = [s \in Subtask |-> Blank(s \in Planned)]
    /\ call = [r \in Request |-> Idle]
    /\ orders = [s \in Subtask |-> {}]
    /\ reported = {}

-----------------------------------------------------------------------------
(* Requests.  ByID reads the convoys row, then, in a second query, the      *)
(* subtasks.                                                                *)

Begin(r, op, s) ==
    /\ op \in Op /\ call[r].pc = "idle" /\ live
    /\ call' = [call EXCEPT ![r] = [op |-> op, pc |-> "found", on |-> s, copy |-> Absent, todo |-> {}]]

Ask(r, op) ==
    /\ op \in {"wave", "append", "patch"}
    /\ \E s \in IF op = "append" THEN Appended ELSE {AnySubtask} : Begin(r, op, s)
    /\ UNCHANGED <<live, sub, orders, reported>>

\* Only an agent that was given the subtask reports it.
AgentReports(r, s) ==
    /\ orders[s] # {}
    /\ Begin(r, "complete", s)
    /\ reported' = reported \cup {s}
    /\ UNCHANGED <<live, sub, orders>>

\* One statement; foreign keys cascade to the subtasks.
DeleteConvoy ==
    /\ "delete" \in Op /\ live
    /\ live' = FALSE
    /\ sub' = Absent
    /\ UNCHANGED <<call, orders, reported>>

Return(r) == call' = [call EXCEPT ![r] = Idle]

\* The call goes on with the convoy it read, changed to copy.
Holds(r, pc, copy, todo) ==
    call' = [call EXCEPT ![r] = [op |-> @.op, pc |-> pc, on |-> @.on, copy |-> copy, todo |-> todo]]

\* ConvoyStore.Save: an upsert of the row, so a deleted convoy is back.
Save(copy) == live' = TRUE /\ sub' = copy

\* The product is archived, the parent's agent is unhealthy, or a guard of the
\* operation fails: nothing is written.
Refused(r) ==
    /\ call[r].pc = "found"
    /\ Return(r)
    /\ UNCHANGED <<live, sub, orders, reported>>

-----------------------------------------------------------------------------
(* The dispatch wave. *)

There(copy) == {s \in Subtask : copy[s].there}

Done(copy) == {s \in There(copy) : copy[s].completed}

\* Mutant: dependents follow as soon as their dependencies are dispatched.
ReadyWhenDispatched(copy) ==
    {s \in There(copy) : ~copy[s].dispatched /\ \A d \in DependsOn[s] : copy[d].dispatched}

\* The completed subtasks are collected once, before the first gateway call.
Ready(copy) == {s \in There(copy) : ~copy[s].dispatched /\ DependsOn[s] \subseteq Done(copy)}

DispatchReady(r) ==
    /\ call[r].pc = "found" /\ call[r].op = "wave"
    /\ Holds(r, "wave", sub, Ready(sub))
    /\ UNCHANGED <<live, sub, orders, reported>>

\* The next subtask of the wave.
Up(r, s) ==
    /\ call[r].pc = "wave" /\ s \in call[r].todo
    /\ \A u \in call[r].todo : Rank[s] <= Rank[u]

Accepted(row, ref) ==
    [there |-> row.there, dispatched |-> TRUE, completed |-> row.completed, ref |-> ref, attempts |-> 0]

\* A reference the gateway has not given yet, the next one.
NextRef(ref) ==
    /\ \A u \in Subtask : ref \notin orders[u]
    /\ \A k \in 1..(ref - 1) : \E u \in Subtask : k \in orders[u]

GatewayAccepts(r, s) ==
    /\ Up(r, s)
    /\ \E ref \in Ref \ {0} :
          /\ NextRef(ref)
          /\ orders' = [orders EXCEPT ![s] = @ \cup {ref}]
          /\ Holds(r, "wave", [call[r].copy EXCEPT ![s] = Accepted(@, ref)], call[r].todo \ {s})
    /\ UNCHANGED <<live, sub, reported>>

\* Mutant: the cap is compared off by one.
FailedPastCap(row) ==
    [there |-> row.there, dispatched |-> row.dispatched, completed |-> row.completed, ref |-> row.ref,
     attempts |-> IF row.attempts <= MaxDispatchAttempts THEN row.attempts + 1 ELSE row.attempts]

Failed(row) ==
    [there |-> row.there, dispatched |-> row.dispatched, completed |-> row.completed, ref |-> row.ref,
     attempts |-> IF row.attempts < MaxDispatchAttempts THEN row.attempts + 1 ELSE row.attempts]

\* The failure is counted and the convoy saved at once, with all this wave has
\* dispatched so far; at the cap the wave ends with an error.
FailureCounted(r, s) ==
    LET copy == [call[r].copy EXCEPT ![s] = Failed(@)] IN
    /\ Save(copy)
    /\ IF copy[s].attempts < MaxDispatchAttempts
       THEN Holds(r, "wave", copy, call[r].todo \ {s})
       ELSE Return(r)

GatewayFails(r, s) ==
    /\ "gateway" \in Faults
    /\ Up(r, s)
    /\ FailureCounted(r, s)
    /\ UNCHANGED <<orders, reported>>

\* The same error after the gateway took the subtask on: a timeout, a broken
\* connection, an answer that cannot be read.  The agent works, and the subtask
\* stays open for the next wave.
GatewayAnswerLost(r, s) ==
    /\ "lost" \in Faults
    /\ Up(r, s)
    /\ \E ref \in Ref \ {0} : NextRef(ref) /\ orders' = [orders EXCEPT ![s] = @ \cup {ref}]
    /\ FailureCounted(r, s)
    /\ UNCHANGED reported

\* Over budget, or no agent to dispatch to: the wave returns without saving
\* what it has dispatched.
WaveDenied(r) ==
    /\ "denied" \in Faults
    /\ call[r].pc = "wave" /\ call[r].todo # {}
    /\ Return(r)
    /\ UNCHANGED <<live, sub, orders, reported>>

WaveEnds(r) ==
    /\ call[r].pc = "wave" /\ call[r].todo = {}
    /\ Save(call[r].copy)
    /\ Return(r)
    /\ UNCHANGED <<orders, reported>>

-----------------------------------------------------------------------------
(* The other operations. *)

\* Mutant: the completion of a subtask that is not dispatched is taken.
CompleteUndispatched(r) ==
    LET s == call[r].on IN
    /\ call[r].pc = "found" /\ call[r].op = "complete"
    /\ sub[s].there /\ ~sub[s].completed
    /\ Holds(r, "save", [sub EXCEPT ![s].completed = TRUE], {})
    /\ UNCHANGED <<live, sub, orders, reported>>

CompleteSubtask(r) ==
    LET s == call[r].on IN
    /\ call[r].pc = "found" /\ call[r].op = "complete"
    /\ sub[s].there /\ sub[s].dispatched /\ ~sub[s].completed
    /\ Holds(r, "save", [sub EXCEPT ![s].completed = TRUE], {})
    /\ UNCHANGED <<live, sub, orders, reported>>

AppendSubtasks(r) ==
    LET s == call[r].on IN
    /\ call[r].pc = "found" /\ call[r].op = "append"
    /\ ~sub[s].there /\ DependsOn[s] \subseteq There(sub)
    /\ Holds(r, "save", [sub EXCEPT ![s] = Blank(TRUE)], {})
    /\ UNCHANGED <<live, sub, orders, reported>>

\* Only metadata is changed; the subtasks are written back as they were read.
PatchMCCompat(r) ==
    /\ call[r].pc = "found" /\ call[r].op = "patch"
    /\ Holds(r, "save", sub, {})
    /\ UNCHANGED <<live, sub, orders, reported>>

SaveCopy(r) ==
    /\ call[r].pc = "save"
    /\ Save(call[r].copy)
    /\ Return(r)
    /\ UNCHANGED <<orders, reported>>

\* A request ends where it is: its context is cancelled and the next query
\* fails, or the process dies, which ends every request this way.
Abandon(r) ==
    /\ "crash" \in Faults
    /\ call[r].pc # "idle"
    /\ Return(r)
    /\ UNCHANGED <<live, sub, orders, reported>>

Work(r) ==
    \/ Refused(r) \/ DispatchReady(r) \/ WaveDenied(r) \/ WaveEnds(r)
    \/ \E s \in Subtask : GatewayAccepts(r, s) \/ GatewayFails(r, s) \/ GatewayAnswerLost(r, s)
    \/ CompleteSubtask(r) \/ AppendSubtasks(r) \/ PatchMCCompat(r) \/ SaveCopy(r) \/ Abandon(r)

Next ==
    \/ \E r \in Request : Work(r)
    \/ \E r \in Request, op \in Op : Ask(r, op)
    \/ \E r \in Request, s \in Subtask : AgentReports(r, s)
    \/ DeleteConvoy

Spec == Init /\ [][Next]_vars

-----------------------------------------------------------------------------
(* Properties. *)

\* Every variable stays in its range.
TypeOK ==
    /\ live \in BOOLEAN
    /\ sub \in [Subtask -> SubRow]
    /\ call \in [Request -> Call]
    /\ orders \in [Subtask -> SUBSET Ref]
    /\ reported \subseteq Subtask

\* Dependency gating (DispatchReady): no agent is asked to work on a subtask
\* before the agents of all its dependencies have reported completion, whatever
\* versions of the convoy are saved over each other.
OrderedAfterDependencies ==
    \A s \in Subtask : orders[s] # {} => DependsOn[s] \subseteq reported

\* What the stored convoy says of a subtask has happened (CompleteSubtask,
\* DispatchReady): a completed one was dispatched and reported, and the
\* reference of a dispatched one is an order the gateway took for it.
StoredIsTrue ==
    \A s \in Subtask :
        /\ sub[s].completed => sub[s].dispatched /\ s \in reported
        /\ sub[s].dispatched => sub[s].ref \in orders[s]

\* Saves of whole convoys, appends and a delete that overtake each other still
\* leave a closed graph: a dependency of a stored subtask is stored
\* (ValidateConvoySubtasks), or the subtask could never become ready.
StoredGraphIsClosed == \A s \in There(sub) : DependsOn[s] \subseteq There(sub)

\* Whichever versions were saved over each other, the convoy the next request
\* reads is one to go on from: all it says has happened, and every subtask can
\* still become ready.
StoredConvoyHolds == StoredIsTrue /\ StoredGraphIsClosed

\* The completion webhook marks the subtask completed, for good
\* (docs/api-ref.md:227; CompleteSubtask): no other save undoes it.
CompletionSticks == [][\A s \in Subtask : sub[s].completed => sub'[s].completed]_vars
=============================================================================
