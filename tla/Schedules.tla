----------------------------- MODULE Schedules -----------------------------
(***************************************************************************)
(* The cron schedule of one product: a row that names the asynq job of its *)
(* next run, written as a whole by everybody who has read it.  The server  *)
(* enqueues rows that name no job (StartProductSchedules, at startup and   *)
(* every five minutes), a PATCH saves the row and enqueues once more       *)
(* (ResyncProduct), and a job that has run its tick enqueues the next one. *)
(* These jobs have no id of their own and are not unique.                  *)
(***************************************************************************)
EXTENDS Naturals, FiniteSets

CONSTANTS
    Slots,        \* jobs that run at one time (the worker's concurrency), numbered
    Ticker,       \* the server's five minute loop
    Patcher,      \* a PATCH request
    RunRetries,
    MaxPatches,   \* bound: PATCH requests of a behaviour
    MaxFailures     \* bound: errors, crashes and deletions of the product

ASSUME SchedulesAssumption ==
    /\ Slots \subseteq Nat /\ IsFiniteSet(Slots)
    /\ Slots \cap {Ticker, Patcher} = {} /\ Ticker # Patcher
    /\ RunRetries \in Nat /\ MaxPatches \in Nat /\ MaxFailures \in Nat

ScheduleRow == [enabled : BOOLEAN, timing : {"none", "delay", "cron"}, task : BOOLEAN]
Writers == {Ticker, Patcher} \cup Slots
Attempts == 0 .. RunRetries

VARIABLES
    schedule,    \* the row of product_schedules
    queue,       \* jobs in Redis, by the retries they have behind them
    proc,        \* where the server's writers and the running jobs are, the row
                 \* each of them has read, and the retries behind a job
    patched, failed,
    raced        \* somebody has written the row between another's read and write

schedVars == <<schedule, queue, proc, patched, failed, raced>>

NoSchedule == [enabled |-> FALSE, timing |-> "none", task |-> FALSE]
NoRun == [at |-> "idle", row |-> NoSchedule, attempt |-> 0]
RunPlaces == {"idle", "save", "resync", "get", "tick", "enqueue", "upsert"}

ScheduleTypeOK ==
    /\ schedule \in ScheduleRow
    /\ queue \in [Attempts -> Nat]
    /\ proc \in [Writers -> [at : RunPlaces, row : ScheduleRow, attempt : Attempts]]
    /\ patched \in 0 .. MaxPatches
    /\ failed \in 0 .. MaxFailures
    /\ raced \in BOOLEAN

ScheduleInit ==
    /\ schedule \in [enabled : BOOLEAN, timing : {"delay", "cron"}, task : {FALSE}]
    /\ queue = [a \in Attempts |-> 0]
    /\ proc = [w \in Writers |-> NoRun]
    /\ patched = 0 /\ failed = 0
    /\ raced = FALSE

MayFail == failed < MaxFailures /\ failed' = failed + 1
Proceed(w, place, row) == proc' = [proc EXCEPT ![w].at = place, ![w].row = row]
Leave(w) == proc' = [proc EXCEPT ![w] = NoRun]

SaveRow(w) ==
    /\ schedule' = proc[w].row
    /\ raced' = (raced \/ \E v \in Writers \ {w} : proc[v].at \in {"save", "enqueue", "upsert"})

(***************************************************************************)
(* EnqueueNextRun: the job first, the row after it.                        *)
(***************************************************************************)
Runs(row) == row.enabled /\ row.timing # "none"

EnqueueRun(w) ==
    /\ proc[w].at = "enqueue"
    /\ queue' = [queue EXCEPT ![0] = @ + 1]
    /\ Proceed(w, "upsert", [proc[w].row EXCEPT !.task = TRUE,
                                       !.timing = IF @ = "delay" THEN "none" ELSE @])
    /\ UNCHANGED <<schedule, patched, failed, raced>>

Upsert(w) ==
    /\ proc[w].at = "upsert"
    /\ SaveRow(w)
    /\ Leave(w)
    /\ UNCHANGED <<queue, patched, failed>>

(***************************************************************************)
(* The server.                                                             *)
(***************************************************************************)
\* Mutant: a row that names its job is enqueued like any other.
StartAllSchedules ==
    /\ proc[Ticker].at = "idle"
    /\ Runs(schedule)
    /\ Proceed(Ticker, "enqueue", schedule)
    /\ UNCHANGED <<schedule, queue, patched, failed, raced>>

StartProductSchedules ==
    /\ proc[Ticker].at = "idle"
    /\ Runs(schedule)
    /\ ~schedule.task
    /\ Proceed(Ticker, "enqueue", schedule)
    /\ UNCHANGED <<schedule, queue, patched, failed, raced>>

(* A PATCH of the timing, or one that leaves the schedule disabled, takes  *)
(* the job out of the row, but not out of Redis.                           *)
PatchReads ==
    /\ proc[Patcher].at = "idle"
    /\ patched < MaxPatches
    /\ patched' = patched + 1
    /\ \E row \in {[schedule EXCEPT !.enabled = e] : e \in BOOLEAN}
                    \cup [enabled : BOOLEAN, timing : {"none", "delay", "cron"},
                          task : {FALSE}] :
         Proceed(Patcher, "save", [row EXCEPT !.task = @ /\ row.enabled])
    /\ UNCHANGED <<schedule, queue, failed, raced>>

SaveProductSchedule ==
    /\ proc[Patcher].at = "save"
    /\ SaveRow(Patcher)
    /\ Proceed(Patcher, "resync", NoSchedule)
    /\ UNCHANGED <<queue, patched, failed>>

ResyncProduct ==
    /\ proc[Patcher].at = "resync"
    /\ IF Runs(schedule) THEN Proceed(Patcher, "enqueue", schedule) ELSE Leave(Patcher)
    /\ UNCHANGED <<schedule, queue, patched, failed, raced>>

(* Redis or the database refuses, or the server dies.                      *)
ServerFails(w) ==
    /\ proc[w].at # "idle"
    /\ MayFail
    /\ Leave(w)
    /\ UNCHANGED <<schedule, queue, patched, raced>>

(***************************************************************************)
(* The worker: ProcessTask.                                                *)
(***************************************************************************)
Fire(s) ==
    /\ proc[s].at = "idle"
    /\ \A t \in Slots : t < s => proc[t].at # "idle"
    /\ \E a \in Attempts :
         /\ queue[a] > 0
         /\ queue' = [queue EXCEPT ![a] = @ - 1]
         /\ proc' = [proc EXCEPT ![s] = [NoRun EXCEPT !.at = "get", !.attempt = a]]
    /\ UNCHANGED <<schedule, patched, failed, raced>>

GetSchedule(s) ==
    /\ proc[s].at = "get"
    /\ IF schedule.enabled THEN Proceed(s, "tick", NoSchedule) ELSE Leave(s)
    /\ UNCHANGED <<schedule, queue, patched, failed, raced>>

\* Mutant: a row that names a job is believed.
GetScheduleBelieving(s) ==
    /\ proc[s].at = "tick"
    /\ IF Runs(schedule) /\ ~schedule.task THEN Proceed(s, "enqueue", schedule) ELSE Leave(s)
    /\ UNCHANGED <<schedule, queue, patched, failed, raced>>

(* TickProduct has returned, and the row is read once more. *)
GetScheduleAgain(s) ==
    /\ proc[s].at = "tick"
    /\ IF Runs(schedule) THEN Proceed(s, "enqueue", schedule) ELSE Leave(s)
    /\ UNCHANGED <<schedule, queue, patched, failed, raced>>

(* A row that cannot be read and a product that is deleted end the job     *)
(* without an error, and with it the chain.                                *)
EndsSilently(s) ==
    /\ proc[s].at \in {"get", "tick"}
    /\ MayFail
    /\ Leave(s)
    /\ UNCHANGED <<schedule, queue, patched, raced>>

(* Any other error, and the death of the worker, are retried.              *)
RunFails(s) ==
    /\ proc[s].at \in {"tick", "enqueue", "upsert"}
    /\ MayFail
    /\ queue' = IF proc[s].attempt < RunRetries
                  THEN [queue EXCEPT ![proc[s].attempt + 1] = @ + 1]
                  ELSE queue
    /\ Leave(s)
    /\ UNCHANGED <<schedule, patched, raced>>

ServerStep(w) == \/ w = Ticker /\ StartProductSchedules
                 \/ w = Patcher /\ (SaveProductSchedule \/ ResyncProduct)
                 \/ EnqueueRun(w) \/ Upsert(w)

JobStep(s) == \/ Fire(s) \/ GetSchedule(s) \/ GetScheduleAgain(s)
              \/ EnqueueRun(s) \/ Upsert(s)

ScheduleNext ==
    \/ PatchReads
    \/ \E w \in {Ticker, Patcher} : ServerStep(w) \/ ServerFails(w)
    \/ \E s \in Slots : JobStep(s) \/ EndsSilently(s) \/ RunFails(s)

ScheduleFairness ==
    /\ \A w \in {Ticker, Patcher} : WF_schedVars(ServerStep(w))
    /\ \A s \in Slots : WF_schedVars(JobStep(s))

ScheduleSpec == ScheduleInit /\ [][ScheduleNext]_schedVars /\ ScheduleFairness

(***************************************************************************)
(* Properties.                                                             *)
(***************************************************************************)
Waiting == UNION {{a} \X (1 .. queue[a]) : a \in Attempts}
Running == {s \in Slots : proc[s].at \in {"get", "tick", "enqueue"}}
Jobs == Cardinality(Waiting) + Cardinality(Running)

(* Nothing makes the jobs of a product unique, and a PATCH never takes one *)
(* out of Redis.  Still a chain begets one chain, and the ticker starts    *)
(* none besides it: there are no more than the first, two for every PATCH  *)
(* (one it resyncs, one the ticker starts because the PATCH has emptied    *)
(* the row) and one for every failure between a job and its row.           *)
ChainsAreBounded == Jobs <= 1 + 2 * patched + failed

(* An enabled cron schedule is ticked again and again, unless it has been  *)
(* stranded: the row names a job that is gone, and StartProductSchedules   *)
(* passes over it.  Only a failure strands it, or a row that is saved over *)
(* another's; a PATCH by itself, in whatever order it meets the jobs, does *)
(* not.                                                                    *)
Cron == schedule.enabled /\ schedule.timing = "cron"
Stranded == schedule.task /\ Jobs = 0 /\ (failed > 0 \/ raced)
ScheduleKeepsTicking ==
    Cron ~> (~Cron \/ Stranded \/ \E s \in Slots : proc[s].at = "tick")
=============================================================================
