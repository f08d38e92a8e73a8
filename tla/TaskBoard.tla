----------------------------- MODULE TaskBoard ------------------------------
(***************************************************************************)
(* What the board promises of a task, one atomic operation at a time: the  *)
(* plan gate, the moves of the Kanban table, and completion (docs/         *)
(* api-ref.md, the task endpoints).  Nothing else ever changes the column  *)
(* of a task or its plan approval.                                         *)
(***************************************************************************)
EXTENDS Kanban

CONSTANTS Task, StartStatus

VARIABLES
    column,   \* task -> status
    approved  \* task -> plan approved

vars == <<column, approved>>

Init ==
    /\ column \in [Task -> StartStatus]
    /\ approved = [t \in Task |-> column[t] # "planning"]

Approve(t) ==
    /\ column[t] = "planning"
    /\ column' = [column EXCEPT ![t] = "inbox"]
    /\ approved' = [approved EXCEPT ![t] = TRUE]

Recall(t) ==
    /\ column[t] \in {"inbox", "assigned"}
    /\ column' = [column EXCEPT ![t] = "planning"]
    /\ approved' = [approved EXCEPT ![t] = FALSE]

Move(t, to) ==
    /\ AllowedKanbanTransition(column[t], to)
    /\ to = "assigned" => approved[t]
    /\ column' = [column EXCEPT ![t] = to]
    /\ UNCHANGED approved

Complete(t) ==
    /\ column[t] \in Completable \cup {"done"}
    /\ column' = [column EXCEPT ![t] = "done"]
    /\ UNCHANGED approved

Next == \E t \in Task : Approve(t) \/ Recall(t) \/ Complete(t) \/ \E to \in Status : Move(t, to)

Spec == Init /\ [][Next]_vars
=============================================================================
