------------------------------ MODULE TickJobs ------------------------------
(***************************************************************************)
(* The cadence ticks of the products as asynq jobs: every product has one  *)
(* job id and one uniqueness lock, the server's reconcile enqueues a job   *)
(* for each eligible product in the order of the ids, and the worker runs  *)
(* TickProduct and enqueues what follows.  asynq itself is external: an    *)
(* enqueue finds the lock held (ErrDuplicateTask); or takes the expired    *)
(* lock and then finds the id still in use (ErrTaskIDConflict), which      *)
(* leaves the lock taken; or succeeds.                                     *)
(***************************************************************************)
EXTENDS Naturals

CONSTANTS
    MaxProduct,    \* products, in the order of their ids
    Reconcilers,   \* the server's ticker, and handlers that change a product
    MaxRetry,      \* retries before asynq archives a job
    MaxFaults      \* bound: errors, crashes, expired locks, acts of operators

ASSUME TickJobsAssumption ==
    MaxProduct \in Nat /\ MaxRetry \in Nat /\ MaxFaults \in Nat

Products == 1 .. MaxProduct
TickStages == {"research", "ideation", "swipe"}

VARIABLES
    stage, deleted,
    enabled,     \* the schedule row, which also gates the cadence
    job,         \* the product's job in Redis
    lock,        \* its uniqueness lock
    retried,
    phase,       \* where the worker is in the job
    cursor,      \* the product a reconcile is at, or 0
    faults

tickVars == <<stage, deleted, enabled, job, lock, retried, phase, cursor, faults>>

TickTypeOK ==
    /\ stage \in [Products -> TickStages]
    /\ deleted \in [Products -> BOOLEAN]
    /\ enabled \in [Products -> BOOLEAN]
    /\ job \in [Products -> {"none", "scheduled", "active", "retry", "archived"}]
    /\ lock \in [Products -> BOOLEAN]
    /\ retried \in [Products -> 0 .. MaxRetry]
    /\ phase \in [Products -> {"none", "tick", "next"}]
    /\ cursor \in [Reconcilers -> 0 .. MaxProduct]
    /\ faults \in 0 .. MaxFaults

TickInit ==
    /\ stage = [p \in Products |-> "research"]
    /\ deleted = [p \in Products |-> FALSE]
    /\ enabled \in [Products -> BOOLEAN]
    /\ job = [p \in Products |-> "none"]
    /\ lock = [p \in Products |-> FALSE]
    /\ retried = [p \in Products |-> 0]
    /\ phase = [p \in Products |-> "none"]
    /\ cursor = [r \in Reconcilers |-> 0]
    /\ faults = 0

Fault == faults < MaxFaults /\ faults' = faults + 1

(* NextAutopilotEnqueueDelay, for products with both cadences set: keep.   *)
Eligible(p) == enabled[p] /\ ~deleted[p] /\ stage[p] \in {"research", "ideation"}

(***************************************************************************)
(* EnqueueProductAutopilotTick.                                            *)
(***************************************************************************)
IsDuplicate(p) == lock[p]
IsConflict(p) == ~lock[p] /\ job[p] # "none"
TakeLock(p) == lock' = [lock EXCEPT ![p] = TRUE]

EnqueueTick(p) ==
    /\ ~lock[p]
    /\ job[p] = "none"
    /\ job' = [job EXCEPT ![p] = "scheduled"]
    /\ TakeLock(p)

(***************************************************************************)
(* The server: reconcile, at startup, every five minutes and after a       *)
(* product or a schedule has been changed.                                 *)
(***************************************************************************)
StartReconcile(r) ==
    /\ cursor[r] = 0
    /\ MaxProduct > 0
    /\ cursor' = [cursor EXCEPT ![r] = 1]
    /\ UNCHANGED <<stage, deleted, enabled, job, lock, retried, phase, faults>>

NextProduct(r) == cursor' = [cursor EXCEPT ![r] = IF @ = MaxProduct THEN 0 ELSE @ + 1]

\* Mutant: the loop returns where it should continue.
ReconcileUpToIneligible(r) ==
    /\ cursor[r] # 0
    /\ LET p == cursor[r]
       IN  \/ Eligible(p) /\ IsDuplicate(p) /\ NextProduct(r) /\ UNCHANGED <<job, lock>>
           \/ Eligible(p) /\ EnqueueTick(p) /\ NextProduct(r)
           \/ /\ ~Eligible(p)
              /\ cursor' = [cursor EXCEPT ![r] = 0]
              /\ UNCHANGED <<job, lock>>
           \/ /\ Eligible(p) /\ IsConflict(p)
              /\ cursor' = [cursor EXCEPT ![r] = 0]
              /\ TakeLock(p)
              /\ UNCHANGED job
    /\ UNCHANGED <<stage, deleted, enabled, retried, phase, faults>>

(* A duplicate is what is wanted; any other error ends the loop, and the   *)
(* products that follow wait for the next reconcile.                       *)
ReconcileProduct(r) ==
    /\ cursor[r] # 0
    /\ LET p == cursor[r]
       IN  \/ ~Eligible(p) /\ NextProduct(r) /\ UNCHANGED <<job, lock>>
           \/ Eligible(p) /\ IsDuplicate(p) /\ NextProduct(r) /\ UNCHANGED <<job, lock>>
           \/ Eligible(p) /\ EnqueueTick(p) /\ NextProduct(r)
           \/ /\ Eligible(p) /\ IsConflict(p)
              /\ cursor' = [cursor EXCEPT ![r] = 0]
              /\ TakeLock(p)
              /\ UNCHANGED job
    /\ UNCHANGED <<stage, deleted, enabled, retried, phase, faults>>

(* Redis is away, two minutes are over, or the server is restarted.        *)
ReconcileStops(r) ==
    /\ cursor[r] # 0
    /\ Fault
    /\ cursor' = [cursor EXCEPT ![r] = 0]
    /\ UNCHANGED <<stage, deleted, enabled, job, lock, retried, phase>>

(***************************************************************************)
(* The worker.                                                             *)
(***************************************************************************)
StartJob(p) ==
    /\ job[p] \in {"scheduled", "retry"}
    /\ job' = [job EXCEPT ![p] = "active"]
    /\ phase' = [phase EXCEPT ![p] = "tick"]
    /\ UNCHANGED <<stage, deleted, enabled, lock, retried, cursor, faults>>

TickDone(p) ==
    /\ job' = [job EXCEPT ![p] = "none"]
    /\ lock' = [lock EXCEPT ![p] = FALSE]
    /\ retried' = [retried EXCEPT ![p] = 0]
    /\ phase' = [phase EXCEPT ![p] = "none"]

\* Mutant: one retry too many.
TickFailsAgain(p) ==
    /\ phase' = [phase EXCEPT ![p] = "none"]
    /\ \/ /\ retried[p] <= MaxRetry
          /\ job' = [job EXCEPT ![p] = "retry"]
          /\ retried' = [retried EXCEPT ![p] = @ + 1]
       \/ /\ retried[p] > MaxRetry
          /\ job' = [job EXCEPT ![p] = "archived"]
          /\ UNCHANGED retried

TickFails(p) ==
    /\ phase' = [phase EXCEPT ![p] = "none"]
    /\ \/ /\ retried[p] < MaxRetry
          /\ job' = [job EXCEPT ![p] = "retry"]
          /\ retried' = [retried EXCEPT ![p] = @ + 1]
       \/ /\ retried[p] = MaxRetry
          /\ job' = [job EXCEPT ![p] = "archived"]
          /\ UNCHANGED retried

(* At most one research and one ideation, whose errors are swallowed.      *)
TickProduct(p) ==
    /\ phase[p] = "tick"
    /\ \/ /\ deleted[p]
          /\ TickDone(p)
          /\ UNCHANGED stage
       \/ /\ ~deleted[p]
          /\ phase' = [phase EXCEPT ![p] = "next"]
          /\ \E s \in TickStages :
               /\ \/ s = stage[p]
                  \/ enabled[p] /\ stage[p] = "research"
                  \/ enabled[p] /\ stage[p] = "ideation" /\ s = "swipe"
               /\ stage' = [stage EXCEPT ![p] = s]
          /\ UNCHANGED <<job, lock, retried>>
    /\ UNCHANGED <<deleted, enabled, cursor, faults>>

(* The follow-up is enqueued while the job itself is active: it is always  *)
(* a duplicate, or, once the lock has expired, a conflict that fails the   *)
(* job.  What follows is left to the next reconcile.                       *)
EnqueueFollowUp(p) ==
    /\ phase[p] = "next"
    /\ \/ ~Eligible(p) /\ TickDone(p)
       \/ Eligible(p) /\ IsDuplicate(p) /\ TickDone(p)
       \/ Eligible(p) /\ IsConflict(p) /\ TickFails(p) /\ TakeLock(p)
    /\ UNCHANGED <<stage, deleted, enabled, cursor, faults>>

(* A database or Redis error; a worker that dies and whose job asynq       *)
(* takes back when its lease is over.                                      *)
JobFails(p) ==
    /\ phase[p] # "none"
    /\ Fault
    /\ TickFails(p)
    /\ UNCHANGED <<stage, deleted, enabled, lock, cursor>>

(* Two days after the job was due.                                         *)
LockExpires(p) ==
    /\ lock[p]
    /\ Fault
    /\ lock' = [lock EXCEPT ![p] = FALSE]
    /\ UNCHANGED <<stage, deleted, enabled, job, retried, phase, cursor>>

(***************************************************************************)
(* Operators: DELETE, restore, PATCH of the schedule, research and         *)
(* ideation by hand.                                                       *)
(***************************************************************************)
Operate(p) ==
    /\ Fault
    /\ \/ deleted' = [deleted EXCEPT ![p] = ~@] /\ UNCHANGED <<stage, enabled>>
       \/ enabled' = [enabled EXCEPT ![p] = ~@] /\ UNCHANGED <<stage, deleted>>
       \/ /\ stage[p] # "swipe"
          /\ stage' = [stage EXCEPT ![p] = IF @ = "research" THEN "ideation" ELSE "swipe"]
          /\ UNCHANGED <<deleted, enabled>>
    /\ UNCHANGED <<job, lock, retried, phase, cursor>>

WorkerStep(p) == StartJob(p) \/ TickProduct(p) \/ EnqueueFollowUp(p)

TickNext ==
    \/ \E r \in Reconcilers : StartReconcile(r) \/ ReconcileProduct(r) \/ ReconcileStops(r)
    \/ \E p \in Products : WorkerStep(p) \/ JobFails(p) \/ LockExpires(p) \/ Operate(p)

(* The ticker fires every five minutes, and a worker is up.                *)
TickFairness ==
    /\ \A r \in Reconcilers : WF_tickVars(StartReconcile(r) \/ ReconcileProduct(r))
    /\ \A p \in Products : WF_tickVars(WorkerStep(p))

TickSpec == TickInit /\ [][TickNext]_tickVars /\ TickFairness

(* Though no tick ever enqueues the next one, and a conflict keeps a       *)
(* reconcile from the products behind it, a product that is due is ticked: *)
(* the conflict has taken the lock, so the reconcile that comes back finds *)
(* a duplicate there and goes on.  Only the product whose own job asynq    *)
(* has archived is ticked no more.                                         *)
Archived(p) == job[p] = "archived"
DueProductTicked ==
    \A p \in Products : Eligible(p) ~> (phase[p] = "tick" \/ ~Eligible(p) \/ Archived(p))
=============================================================================
