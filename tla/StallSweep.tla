----------------------------- MODULE StallSweep -----------------------------
(***************************************************************************)
(* One task in execution under the stall sweep.  A sweep is a job of the   *)
(* worker, enqueued once a minute or less often under no id of its own, so *)
(* that two may run at a time; it nudges a task whose heartbeat is old, or *)
(* hands it to another agent.  Its memory is the detail of the task's      *)
(* agent-health row, JSON that every writer reads and replaces as a whole. *)
(* Agents report their heartbeat, operators nudge and complete by HTTP.    *)
(***************************************************************************)
EXTENDS Integers, Sequences, FiniteSets

CONSTANTS
    Sweeps,        \* sweeps and nudges by hand in progress, numbered
    Agents,        \* execution_agents of the product
    NoHealth,
    StaleThreshold, Cooldown, MaxPerDay, ReassignCooldown, ReassignMaxPerDay,
    Day,           \* the 24 hours of the daily caps
    MaxSweeps,     \* bound: sweeps, nudges and heartbeats of a behaviour
    MaxHours       \* bound: the clock

Hours == 0 .. MaxHours

(* The detail's stall_nudges are one array; nothing depends on where in it *)
(* the sweep's own entries, whose notes begin with "auto:", stand among    *)
(* the others.                                                             *)
HealthRow == [beat : Hours, autos : Seq(Hours), byHand : Seq(Hours), reassigns : Seq(Hours)]

ASSUME StallAssumption ==
    /\ Sweeps \subseteq Nat
    /\ Agents # {} /\ NoHealth \notin HealthRow
    /\ {StaleThreshold, Cooldown, ReassignCooldown, Day, MaxSweeps, MaxHours} \subseteq Nat
    /\ {MaxPerDay, ReassignMaxPerDay} \subseteq Nat \ {0}

VARIABLES
    card,        \* the task: its status and current_execution_agent_id
    health,      \* its row of task_agent_health, or NoHealth
    hour,        \* the clock
    sweep,       \* sweeps and nudges: where they are and what they have read
    begun,
    nudged,      \* when the sweep has nudged, and
    moved,       \* when it has handed the task on (ground truth)
    sign,        \* the last sign of life (ground truth)
    blurred      \* records were erased, overwritten or not yet written

stallVars == <<card, health, hour, sweep, begun, nudged, moved, sign, blurred>>

(* working: in_progress, testing or review. *)
Card == [status : {"working", "convoy_active", "done"}, agent : Agents]

Reached == {"saveMoved", "beat", "prevMoved", "saveNudged", "prev", "upsert"}
Sweep == [at : {"idle", "health", "recent", "pick", "redispatch", "gateway", "nudge"}
                 \cup Reached,
          auto : BOOLEAN, task : Card, now : Hours, seen : HealthRow \cup {NoHealth},
          past : Seq(Hours), to : Agents]

AnyAgent == CHOOSE a \in Agents : TRUE
NoSweep == [at |-> "idle", auto |-> TRUE, task |-> [status |-> "working", agent |-> AnyAgent],
            now |-> 0, seen |-> NoHealth, past |-> <<>>, to |-> AnyAgent]

StallTypeOK ==
    /\ card \in Card
    /\ health \in HealthRow \cup {NoHealth}
    /\ hour \in Hours
    /\ sweep \in [Sweeps -> Sweep]
    /\ begun \in 0 .. MaxSweeps
    /\ nudged \in Seq(Hours) /\ moved \in Seq(Hours)
    /\ sign \in Hours
    /\ blurred \in BOOLEAN

StallInit ==
    /\ card \in [status : {"working", "convoy_active"}, agent : {AnyAgent}]
    /\ health = NoHealth
    /\ hour = 0
    /\ sweep = [q \in Sweeps |-> NoSweep]
    /\ begun = 0
    /\ nudged = <<>> /\ moved = <<>>
    /\ sign = 0
    /\ blurred = FALSE

AutoTimes(row) == IF row = NoHealth THEN <<>> ELSE row.autos
HandTimes(row) == IF row = NoHealth THEN <<>> ELSE row.byHand
Reassigns(row) == IF row = NoHealth THEN <<>> ELSE row.reassigns

Another == begun < MaxSweeps /\ begun' = begun + 1
First(q) == \A r \in Sweeps : r < q => sweep[r].at # "idle"
On(q, place) == sweep[q].at = place
To(q, place) == sweep' = [sweep EXCEPT ![q].at = place]
Wrote(q, place) == sweep' = [sweep EXCEPT ![q].at = place, ![q].task = NoSweep.task,
                                          ![q].to = AnyAgent, ![q].past = <<>>]
Over(q) == sweep' = [sweep EXCEPT ![q] = NoSweep]
Blur(b) == blurred' = (blurred \/ b)

\* Another sweep has had its effect, or is about to, and has not recorded it.
Crowded(q) == \E r \in Sweeps \ {q} : sweep[r].at \in Reached

(***************************************************************************)
(* The sweep, one database or gateway call at a time.                      *)
(***************************************************************************)
RunSweep(q) ==
    /\ On(q, "idle") /\ First(q)
    /\ Another
    /\ sweep' = [sweep EXCEPT ![q] = [NoSweep EXCEPT !.at = "health", !.task = card]]
    /\ UNCHANGED <<card, health, hour, nudged, moved, sign, blurred>>

StalledTaskState(now, t, row) ==
    /\ t.status \in {"working", "convoy_active"}
    /\ row # NoHealth => now - row.beat > StaleThreshold

\* Mutant: a day's cap that lets one more through.
DueTooOften(now, times, gap, max) ==
    /\ \A i \in DOMAIN times : now - times[i] >= gap
    /\ Cardinality({i \in DOMAIN times : times[i] >= now - Day}) <= max

(* The cooldown and the daily cap. *)
Due(now, times, gap, max) ==
    /\ \A i \in DOMAIN times : now - times[i] >= gap
    /\ Cardinality({i \in DOMAIN times : times[i] >= now - Day}) < max

NudgeDue(now, row) == Due(now, AutoTimes(row), Cooldown, MaxPerDay)
ReassignDue(now, row) == Due(now, Reassigns(row), ReassignCooldown, ReassignMaxPerDay)

AutoNudgeStallIfDue(q) ==
    LET t == sweep[q].task
    IN  /\ On(q, "health")
        /\ IF ~StalledTaskState(hour, t, health) THEN Over(q)
             ELSE sweep' = [sweep EXCEPT ![q].now = hour, ![q].seen = health, ![q].at =
                    IF t.status = "working" THEN "recent"
                    ELSE IF NudgeDue(hour, health) THEN "nudge" ELSE "idle"]
        /\ UNCHANGED <<card, health, hour, begun, nudged, moved, sign, blurred>>

FallsBack(q) == To(q, IF NudgeDue(sweep[q].now, sweep[q].seen) THEN "nudge" ELSE "idle")

(* An error of this read counts as no row; so it does in ReadDetail and    *)
(* ReadPrev, which write back what they have read.                         *)
Readable == {health, NoHealth}

TryAutoReassign(q) ==
    /\ On(q, "recent")
    /\ \E row \in Readable :
         IF ReassignDue(hour, row)
           THEN sweep' = [sweep EXCEPT ![q].at = "pick", ![q].past = Reassigns(row)]
           ELSE FallsBack(q)
    /\ UNCHANGED <<card, health, hour, begun, nudged, moved, sign, blurred>>

(* The loads are those of other tasks: any alternate may be the least      *)
(* loaded one.                                                             *)
PickLeastLoaded(q) ==
    /\ On(q, "pick")
    /\ \/ /\ Agents = {sweep[q].task.agent}
          /\ FallsBack(q)
       \/ \E a \in Agents \ {sweep[q].task.agent} :
            sweep' = [sweep EXCEPT ![q].at = "redispatch", ![q].to = a]
    /\ UNCHANGED <<card, health, hour, begun, nudged, moved, sign, blurred>>

RedispatchStalledTask(q) ==
    /\ On(q, "redispatch")
    /\ IF card.status = "working"
         THEN sweep' = [sweep EXCEPT ![q].at = "gateway",
                                     ![q].task = [card EXCEPT !.agent = sweep[q].to]]
         ELSE Over(q)
    /\ UNCHANGED <<card, health, hour, begun, nudged, moved, sign, blurred>>

AgentTakesOver(q) ==
    /\ On(q, "gateway")
    /\ sweep' = [sweep EXCEPT ![q].at = "prevMoved", ![q].now = hour]
    /\ moved' = Append(moved, hour)
    /\ Blur(Crowded(q) \/ Reassigns(health) # sweep[q].past)
    /\ UNCHANGED <<card, health, hour, begun, nudged, sign>>

(* The call fails after the gateway took the task on (a timeout, a broken  *)
(* connection, the end of the process): the new agent works, and neither   *)
(* the task nor its health row will ever say so.                           *)
AgentTakesOverUnheard(q) ==
    /\ On(q, "gateway")
    /\ moved' = Append(moved, hour)
    /\ Blur(TRUE)
    /\ Over(q)
    /\ UNCHANGED <<card, health, hour, begun, nudged, sign>>

ReadDetail(q) ==
    /\ On(q, "prevMoved")
    /\ \E row \in Readable : sweep' = [sweep EXCEPT ![q].at = "saveMoved", ![q].seen = row]
    /\ UNCHANGED <<card, health, hour, begun, nudged, moved, sign, blurred>>

SaveReassigned(q) ==
    /\ On(q, "saveMoved")
    /\ card' = sweep[q].task
    /\ Wrote(q, "beat")
    /\ UNCHANGED <<health, hour, begun, nudged, moved, sign, blurred>>

(* The detail a request has read, with its entry; the time of the row.     *)
UpsertHeartbeat(q, row) ==
    /\ health' = row
    /\ Blur(health # sweep[q].seen)
    /\ Over(q)
    /\ UNCHANGED <<card, hour, begun, nudged, moved>>

RecordReassign(q) ==
    LET s == sweep[q]
    IN  /\ On(q, "beat")
        /\ UpsertHeartbeat(q, [beat |-> s.now, autos |-> AutoTimes(s.seen),
                               byHand |-> HandTimes(s.seen),
                               reassigns |-> Append(Reassigns(s.seen), s.now)])
        /\ sign' = s.now

(***************************************************************************)
(* A nudge, by the sweep or by hand.                                       *)
(***************************************************************************)
NudgeByHand(q) ==
    /\ On(q, "idle") /\ First(q)
    /\ Another
    /\ sweep' = [sweep EXCEPT ![q] = [NoSweep EXCEPT !.at = "nudge", !.auto = FALSE]]
    /\ UNCHANGED <<card, health, hour, nudged, moved, sign, blurred>>

NudgeStall(q) ==
    /\ On(q, "nudge")
    /\ IF card.status \in {"working", "convoy_active"}
         THEN sweep' = [sweep EXCEPT ![q].at = "saveNudged", ![q].now = hour, ![q].task = card]
         ELSE Over(q)
    /\ UNCHANGED <<card, health, hour, begun, nudged, moved, sign, blurred>>

SaveNudged(q) ==
    /\ On(q, "saveNudged")
    /\ card' = sweep[q].task
    /\ nudged' = IF sweep[q].auto THEN Append(nudged, sweep[q].now) ELSE nudged
    /\ Blur(sweep[q].auto /\ (Crowded(q) \/ AutoTimes(health) # AutoTimes(sweep[q].seen)))
    /\ Wrote(q, "prev")
    /\ UNCHANGED <<health, hour, begun, moved, sign>>

ReadPrev(q) ==
    /\ On(q, "prev")
    /\ \E row \in Readable : sweep' = [sweep EXCEPT ![q].at = "upsert", ![q].seen = row]
    /\ UNCHANGED <<card, health, hour, begun, nudged, moved, sign, blurred>>

Nudged(q, beat) ==
    LET s == sweep[q]
        autos == AutoTimes(s.seen)
    IN  UpsertHeartbeat(q, [beat |-> beat, reassigns |-> Reassigns(s.seen),
            autos |-> IF s.auto THEN Append(autos, s.now) ELSE autos,
            byHand |-> IF s.auto THEN HandTimes(s.seen) ELSE Append(HandTimes(s.seen), s.now)])

(* The sweep leaves last_heartbeat_at alone; an operator's nudge counts as *)
(* a sign of life.                                                         *)
RecordNudge(q) ==
    LET s == sweep[q]
    IN  /\ On(q, "upsert")
        /\ \/ /\ s.auto
              /\ Nudged(q, IF s.seen = NoHealth THEN 0 ELSE s.seen.beat)
              /\ UNCHANGED sign
           \/ /\ ~s.auto
              /\ Nudged(q, s.now)
              /\ sign' = s.now

(***************************************************************************)
(* The agent and the operator.                                             *)
(***************************************************************************)

(* PATCH agent-health replaces the detail by the one it is given, usually  *)
(* an empty one.                                                           *)
PatchTaskAgentHealth ==
    /\ Another
    /\ \E kept \in {health, NoHealth} :
         /\ health' = [beat |-> hour, autos |-> AutoTimes(kept), byHand |-> HandTimes(kept),
                       reassigns |-> Reassigns(kept)]
         /\ Blur(AutoTimes(kept) # AutoTimes(health) \/ Reassigns(kept) # Reassigns(health))
    /\ sign' = hour
    /\ UNCHANGED <<card, hour, sweep, nudged, moved>>

(* One transaction for the task and its health row, whose detail is new.   *)
CompleteTaskWithEvent ==
    /\ card.status = "working"
    /\ card' = [card EXCEPT !.status = "done"]
    /\ health' = [beat |-> hour, autos |-> <<>>, byHand |-> <<>>, reassigns |-> <<>>]
    /\ sign' = hour
    /\ Blur(AutoTimes(health) # <<>> \/ Reassigns(health) # <<>>)
    /\ UNCHANGED <<hour, sweep, begun, nudged, moved>>

HourPasses ==
    /\ hour < MaxHours
    /\ hour' = hour + 1
    /\ UNCHANGED <<card, health, sweep, begun, nudged, moved, sign, blurred>>

(* An error, a budget or a gateway that refuses, the end of a job's two    *)
(* minutes.  The error of the last upsert is ignored.                      *)
SweepFails(q) ==
    /\ ~On(q, "idle")
    /\ Blur(sweep[q].at \in Reached \ {"saveNudged"})
    /\ Over(q)
    /\ UNCHANGED <<card, health, hour, begun, nudged, moved, sign>>

StallStep(q) ==
    \/ AutoNudgeStallIfDue(q) \/ TryAutoReassign(q) \/ PickLeastLoaded(q)
    \/ RedispatchStalledTask(q) \/ AgentTakesOver(q) \/ AgentTakesOverUnheard(q)
    \/ ReadDetail(q)
    \/ SaveReassigned(q) \/ RecordReassign(q)
    \/ NudgeStall(q) \/ SaveNudged(q) \/ ReadPrev(q) \/ RecordNudge(q)

StallNext ==
    \/ \E q \in Sweeps : RunSweep(q) \/ NudgeByHand(q) \/ StallStep(q) \/ SweepFails(q)
    \/ PatchTaskAgentHealth \/ CompleteTaskWithEvent \/ HourPasses

StallSpec == StallInit /\ [][StallNext]_stallVars

(***************************************************************************)
(* Properties.                                                             *)
(***************************************************************************)
Paced(times, gap, max) ==
    /\ \A i, j \in DOMAIN times : i < j => times[j] - times[i] >= gap
    /\ \A j \in DOMAIN times :
         Cardinality({i \in 1 .. j : times[i] >= times[j] - Day}) <= max

(* The sweep never nudges or moves a task sooner, or more often in a day,  *)
(* than it is configured to, and never takes its own nudge for a heartbeat *)
(* or loses one: all of that though a sweep decides on a row it has read   *)
(* several calls earlier, while the row is used as its only memory.  The   *)
(* exception is a row that loses its records: to a heartbeat with another  *)
(* detail, to a second sweep that has not recorded yet what it did, to a   *)
(* read or a write that fails, to a reassignment whose answer is lost.     *)
StallRecordsHold ==
    \/ blurred
    \/ /\ Paced(nudged, Cooldown, MaxPerDay)
       /\ Paced(moved, ReassignCooldown, ReassignMaxPerDay)
       /\ health # NoHealth => health.beat = sign
=============================================================================
