------------------------------- MODULE Kanban -------------------------------
(***************************************************************************)
(* The columns of the board and the moves between them (domain/task.go).   *)
(***************************************************************************)

Status == {"planning", "inbox", "assigned", "in_progress", "testing", "review",
           "done", "failed", "convoy_active"}

AllowedKanbanTransition(from, to) ==
    \/ from = to
    \/ from = "planning" /\ to = "inbox"
    \/ from = "inbox" /\ to \in {"assigned", "planning", "convoy_active"}
    \/ from = "assigned" /\ to \in {"in_progress", "inbox", "failed", "convoy_active"}
    \/ from = "in_progress" /\ to \in {"testing", "review", "failed", "assigned", "convoy_active"}
    \/ from = "testing" /\ to \in {"review", "in_progress", "failed"}
    \/ from = "review" /\ to \in {"done", "testing", "in_progress", "failed"}
    \/ from \in {"done", "failed"} /\ to \in {"planning", "inbox"}
    \/ from = "convoy_active" /\ to \in {"review", "failed", "in_progress", "inbox"}

\* From where the completion of a task is accepted.
Completable == {"in_progress", "testing", "review"}

\* From where a stalled task may be handed to another agent.
Reassignable == {"in_progress", "testing", "review"}

\* From where a checkpoint is accepted; it puts the task in progress.
Checkpointable == {"in_progress", "testing", "convoy_active"}

\* From where a pull request may be opened by hand.
PullRequestable == {"in_progress", "testing", "review", "done"}

\* Entering review from one of these may open a pull request.
Executing == {"testing", "in_progress", "convoy_active"}
=============================================================================
