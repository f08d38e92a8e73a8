-------------------------- MODULE OperationsProofs --------------------------
(***************************************************************************)
(* Theorems about the components of the Operations run that have no proofs *)
(* of their own elsewhere: the stall sweep, for every number of sweeps and *)
(* every cooldown and cap; the two stores of queue and ports, for all tasks *)
(* and owners; the fleet's configuration, for all endpoints, hubs, agents  *)
(* and requests; the answers of the HTTP API; and of all the components    *)
(* together.                                                               *)
(***************************************************************************)
EXTENDS MCOperations, ConvoyProofs, KnowledgeProofs, FiniteSetTheorems,
        NaturalsInduction, WellFoundedInduction, TLAPS

(***************************************************************************)
(* StallSweep.                                                             *)
(***************************************************************************)
Moving == {"prevMoved", "saveMoved", "beat"}
Nudging == {"prev", "upsert"}

(* What a sweep has decided on is still due, the later the more so.        *)
Timed(s, now) ==
    /\ s.now <= now
    /\ s.at \in {"pick", "redispatch", "gateway"} =>
         Due(now, s.past, ReassignCooldown, ReassignMaxPerDay)
    /\ s.auto /\ s.at = "nudge" => Due(now, AutoTimes(s.seen), Cooldown, MaxPerDay)
    /\ s.auto /\ s.at = "saveNudged" => Due(s.now, AutoTimes(s.seen), Cooldown, MaxPerDay)

Timely == \A q \in Sweeps : Timed(sweep[q], hour)

(* A sweep that has acted and has not recorded it.                         *)
MovesTask(s) == s.at \in Moving
Nudges(s) == s.auto /\ s.at \in Nudging
Acting(s) == MovesTask(s) \/ Nudges(s)

OneActs == \A q, r \in Sweeps : Acting(sweep[q]) /\ Acting(sweep[r]) => q = r

(* The row holds what was done, but for what is about to be recorded.      *)
NudgesRecorded ==
    /\ (\A q \in Sweeps : ~Nudges(sweep[q])) => nudged = AutoTimes(health)
    /\ \A q \in Sweeps :
         Nudges(sweep[q]) => nudged = Append(AutoTimes(health), sweep[q].now)

MovesRecorded ==
    /\ (\A q \in Sweeps : ~MovesTask(sweep[q])) => moved = Reassigns(health)
    /\ \A q \in Sweeps :
         MovesTask(sweep[q]) => moved = Append(Reassigns(health), sweep[q].now)

Recorded == OneActs /\ NudgesRecorded /\ MovesRecorded

BeatIsSign == health # NoHealth => health.beat = sign

Rhythm == /\ Paced(nudged, Cooldown, MaxPerDay)
          /\ Paced(moved, ReassignCooldown, ReassignMaxPerDay)

StallInv ==
    /\ StallTypeOK /\ Timely
    /\ health = NoHealth => sign = 0
    /\ ~blurred => Recorded /\ BeatIsSign /\ Rhythm

LEMMA DayNat == Day \in Nat
  BY StallAssumption

LEMMA HoursNat == Hours \subseteq Nat /\ 0 \in Hours /\ <<>> \in Seq(Hours)
  BY StallAssumption DEF Hours

LEMMA RowTimes ==
    ASSUME NEW row \in HealthRow \cup {NoHealth}
    PROVE  AutoTimes(row) \in Seq(Hours) /\ HandTimes(row) \in Seq(Hours) /\ Reassigns(row) \in Seq(Hours)
  BY HoursNat DEF AutoTimes, HandTimes, Reassigns, HealthRow

\* The times of a day's window, a set of positions.
LEMMA WindowFinite ==
    ASSUME NEW times \in Seq(Hours), NEW t \in Int
    PROVE  /\ IsFiniteSet({i \in DOMAIN times : times[i] >= t})
           /\ Cardinality({i \in DOMAIN times : times[i] >= t}) \in Nat
<1>1. DOMAIN times = 1 .. Len(times) /\ Len(times) \in Nat
  OBVIOUS
<1>2. IsFiniteSet(1 .. Len(times))
  BY <1>1, FS_Interval
<1>3. {i \in DOMAIN times : times[i] >= t} \subseteq 1 .. Len(times)
  BY <1>1
<1> QED
  BY <1>2, <1>3, FS_Subset, FS_CardinalityType

(* What is due stays due.                                                  *)
LEMMA DueLater ==
    ASSUME NEW times \in Seq(Hours), NEW gap \in Nat, NEW max \in Nat,
           NEW m \in Nat, NEW n \in Nat, m <= n, Due(m, times, gap, max)
    PROVE  Due(n, times, gap, max)
<1> DEFINE Then == {i \in DOMAIN times : times[i] >= m - Day}
           Now == {i \in DOMAIN times : times[i] >= n - Day}
<1>1. Day \in Nat /\ m - Day \in Int /\ n - Day \in Int
  BY DayNat
<1>2. \A i \in DOMAIN times : times[i] \in Nat
  <2>1. \A i \in DOMAIN times : times[i] \in Hours
    OBVIOUS
  <2> QED
    BY <2>1, HoursNat
<1>3. IsFiniteSet(Then) /\ Cardinality(Then) \in Nat /\ Cardinality(Now) \in Nat
  BY <1>1, WindowFinite
<1>4. Now \subseteq Then
  BY <1>1, <1>2
<1>5. Cardinality(Now) <= Cardinality(Then)
  BY <1>3, <1>4, FS_Subset
<1>6. Cardinality(Then) < max
  BY DEF Due
<1>7. \A i \in DOMAIN times : n - times[i] >= gap
  BY <1>2 DEF Due
<1>8. Cardinality(Now) < max
  BY <1>3, <1>5, <1>6
<1> QED
  BY <1>7, <1>8 DEF Due

(* Something done when it is due keeps the rhythm.                         *)
LEMMA PacedAppend ==
    ASSUME NEW times \in Seq(Hours), NEW gap \in Nat, NEW max \in Nat,
           NEW n \in Hours, Paced(times, gap, max), Due(n, times, gap, max)
    PROVE  Paced(Append(times, n), gap, max)
<1> DEFINE new == Append(times, n)
           len == Len(times)
<1>1. /\ len \in Nat /\ DOMAIN times = 1 .. len /\ DOMAIN new = 1 .. (len + 1)
      /\ new[len + 1] = n /\ \A i \in 1 .. len : new[i] = times[i] /\ times[i] \in Nat
  <2>1. len \in Nat /\ DOMAIN times = 1 .. len /\ \A i \in 1 .. len : times[i] \in Hours
    OBVIOUS
  <2>2. DOMAIN new = 1 .. (len + 1) /\ new[len + 1] = n /\ \A i \in 1 .. len : new[i] = times[i]
    OBVIOUS
  <2> QED
    BY <2>1, <2>2, HoursNat
<1>2. n \in Nat /\ Day \in Nat
  BY HoursNat, DayNat
<1>5. \A i \in 1 .. len : n - times[i] >= gap
  BY <1>1 DEF Due
<1>6. Cardinality({i \in DOMAIN times : times[i] >= n - Day}) < max
  BY DEF Due
<1> HIDE DEF new, len
<1>3. \A i, j \in DOMAIN new : i < j => new[j] - new[i] >= gap
  <2> SUFFICES ASSUME NEW i \in 1 .. (len + 1), NEW j \in 1 .. (len + 1), i < j
               PROVE  new[j] - new[i] >= gap
    BY <1>1
  <2>1. i \in 1 .. len
    BY <1>1
  <2>2. CASE j = len + 1
    <3>1. new[j] = n
      BY <1>1, <2>2
    <3>2. new[i] = times[i]
      BY <1>1, <2>1
    <3>3. n - times[i] >= gap
      BY <1>5, <2>1
    <3>4. n - times[i] >= gap <=> new[j] - new[i] >= gap
      BY <3>1, <3>2
    <3> QED
      BY <3>3, <3>4
  <2>3. CASE j # len + 1
    <3>1. i \in DOMAIN times /\ j \in DOMAIN times /\ new[j] = times[j] /\ new[i] = times[i]
      BY <1>1, <2>1, <2>3
    <3>2. times[j] - times[i] >= gap
      BY <3>1 DEF Paced
    <3>3. times[j] - times[i] >= gap <=> new[j] - new[i] >= gap
      BY <3>1
    <3> QED
      BY <3>2, <3>3
  <2> QED
    BY <2>2, <2>3
<1>4. ASSUME NEW j \in DOMAIN new
      PROVE  Cardinality({i \in 1 .. j : new[i] >= new[j] - Day}) <= max
  <2>1. CASE j # len + 1
    <3>1. j \in DOMAIN times /\ new[j] = times[j]
      BY <1>1, <2>1
    <3>2. {i \in 1 .. j : new[i] >= new[j] - Day} = {i \in 1 .. j : times[i] >= times[j] - Day}
      BY <1>1, <3>1
    <3> QED
      BY <3>1, <3>2 DEF Paced
  <2>2. CASE j = len + 1
    <3> DEFINE W == {i \in DOMAIN times : times[i] >= n - Day}
    <3>1. n - Day \in Int
      BY <1>2
    <3>2. IsFiniteSet(W) /\ Cardinality(W) \in Nat
      BY <3>1, WindowFinite
    <3>3. j \notin W
      BY <1>1, <2>2
    <3>4. {i \in 1 .. j : new[i] >= new[j] - Day} = W \cup {j}
      BY <1>1, <1>2, <2>2
    <3>5. Cardinality(W \cup {j}) = Cardinality(W) + 1
      BY <3>2, <3>3, FS_AddElement
    <3>6. Cardinality(W) < max
      BY <1>6
    <3>7. Cardinality({i \in 1 .. j : new[i] >= new[j] - Day}) = Cardinality(W) + 1
      BY <3>4, <3>5
    <3> HIDE DEF W
    <3> QED
      BY <3>2, <3>6, <3>7
  <2> QED
    BY <2>1, <2>2
<1> QED
  BY <1>3, <1>4 DEF Paced, new

(* A step of one sweep that does nothing the rows tell of.                 *)
LEMMA Quietly ==
    ASSUME StallInv, NEW q \in Sweeps,
           sweep' \in [Sweeps -> Sweep], \A r \in Sweeps : r # q => sweep'[r] = sweep[r],
           health' = health, hour' = hour, nudged' = nudged, moved' = moved, sign' = sign,
           blurred' = blurred, card' \in Card, begun' \in 0 .. MaxSweeps,
           Timed(sweep'[q], hour),
           MovesTask(sweep'[q]) <=> MovesTask(sweep[q]), Nudges(sweep'[q]) <=> Nudges(sweep[q]),
           Acting(sweep[q]) => sweep'[q].now = sweep[q].now
    PROVE  StallInv'
<1>1. StallTypeOK /\ Timely /\ (health = NoHealth => sign = 0)
  BY DEF StallInv
<1>2. StallTypeOK'
  BY <1>1 DEF StallTypeOK
<1>3. Timely'
  BY <1>1 DEF Timely
<1>4. ASSUME ~blurred
      PROVE  Recorded' /\ BeatIsSign' /\ Rhythm'
  <2>1. Recorded /\ BeatIsSign /\ Rhythm
    BY <1>4 DEF StallInv
  <2>2. OneActs'
    BY <2>1 DEF Recorded, OneActs, Acting
  <2>3. NudgesRecorded' /\ MovesRecorded'
    BY <2>1 DEF Recorded, NudgesRecorded, MovesRecorded, Acting
  <2> QED
    BY <2>1, <2>2, <2>3 DEF Recorded, BeatIsSign, Rhythm
<1> QED
  BY <1>1, <1>2, <1>3, <1>4 DEF StallInv

LEMMA NoSweepFields ==
    /\ AnyAgent \in Agents /\ NoSweep \in Sweep
    /\ NoSweep.at = "idle" /\ NoSweep.auto = TRUE /\ NoSweep.now = 0
<1>1. AnyAgent \in Agents
  BY StallAssumption DEF AnyAgent
<1> QED
  BY <1>1, HoursNat DEF NoSweep, Sweep, Card, Reached

LEMMA RunSweepKeeps ==
    ASSUME StallInv, NEW q \in Sweeps, RunSweep(q) \/ NudgeByHand(q)
    PROVE  StallInv'
<1>1. StallTypeOK /\ Timely /\ On(q, "idle")
  BY DEF StallInv, RunSweep, NudgeByHand
<1>2. PICK s \in Sweep : /\ sweep' = [sweep EXCEPT ![q] = s]
                         /\ s.at = "health" \/ (s.at = "nudge" /\ ~s.auto)
                         /\ s.now = 0
  <2>1. CASE RunSweep(q)
    <3>1. [NoSweep EXCEPT !.at = "health", !.task = card] \in Sweep
      BY <1>1, NoSweepFields, HoursNat DEF StallTypeOK, NoSweep, Sweep
    <3> QED
      BY <2>1, <3>1 DEF RunSweep, NoSweep
  <2>2. CASE NudgeByHand(q)
    <3>1. [NoSweep EXCEPT !.at = "nudge", !.auto = FALSE] \in Sweep
      BY <1>1, NoSweepFields, HoursNat DEF StallTypeOK, NoSweep, Sweep
    <3> QED
      BY <2>2, <3>1 DEF NudgeByHand, NoSweep
  <2> QED
    BY <2>1, <2>2
<1>3. /\ card' = card /\ health' = health /\ hour' = hour /\ nudged' = nudged /\ moved' = moved
      /\ sign' = sign /\ blurred' = blurred /\ begun < MaxSweeps /\ begun' = begun + 1
  BY DEF RunSweep, NudgeByHand, Another
<1>4. begun' \in 0 .. MaxSweeps
  BY <1>1, <1>3, StallAssumption DEF StallTypeOK
<1>5. sweep[q].at = "idle" /\ sweep'[q] = s /\ sweep' \in [Sweeps -> Sweep]
  BY <1>1, <1>2 DEF StallTypeOK, On
<1>6. \A r \in Sweeps : r # q => sweep'[r] = sweep[r]
  BY <1>1, <1>2 DEF StallTypeOK
<1>7. Timed(s, hour) /\ ~MovesTask(s) /\ ~Nudges(s) /\ ~Acting(sweep[q])
  BY <1>1, <1>2, <1>5, HoursNat DEF Timed, MovesTask, Nudges, Acting, Moving, Nudging, StallTypeOK
<1> QED
  BY <1>1, <1>3, <1>4, <1>5, <1>6, <1>7, Quietly DEF StallTypeOK, Acting

LEMMA AutoNudgeKeeps ==
    ASSUME StallInv, NEW q \in Sweeps, AutoNudgeStallIfDue(q)
    PROVE  StallInv'
<1>1. StallTypeOK /\ Timely /\ sweep[q].at = "health"
  BY DEF StallInv, AutoNudgeStallIfDue, On
<1>2. /\ card' = card /\ health' = health /\ hour' = hour /\ nudged' = nudged /\ moved' = moved
      /\ sign' = sign /\ blurred' = blurred /\ begun' = begun
  BY DEF AutoNudgeStallIfDue
<1>3. /\ sweep' \in [Sweeps -> Sweep] /\ \A r \in Sweeps : r # q => sweep'[r] = sweep[r]
      /\ \/ sweep'[q].at \in {"idle", "recent"}
         \/ /\ sweep'[q].at = "nudge" /\ sweep'[q].seen = health /\ NudgeDue(hour, health)
      /\ sweep'[q].now \in {0, hour}
  <2>1. CASE sweep' = [sweep EXCEPT ![q] = NoSweep]
    BY <1>1, <2>1, NoSweepFields DEF StallTypeOK
  <2>2. CASE sweep' # [sweep EXCEPT ![q] = NoSweep]
    <3>1. PICK stop \in {"recent", "nudge", "idle"} :
             /\ sweep' = [sweep EXCEPT ![q].now = hour, ![q].seen = health, ![q].at = stop]
             /\ stop = "nudge" => NudgeDue(hour, health)
      BY <2>2 DEF AutoNudgeStallIfDue, Over
    <3>2. /\ sweep'[q] \in Sweep /\ sweep'[q].at = stop
          /\ sweep'[q].seen = health /\ sweep'[q].now = hour
      BY <1>1, <3>1, SMTT(60) DEF StallTypeOK, Sweep
    <3>3. sweep' \in [Sweeps -> Sweep] /\ \A r \in Sweeps : r # q => sweep'[r] = sweep[r]
      BY <1>1, <3>1, <3>2 DEF StallTypeOK
    <3> QED
      BY <3>1, <3>2, <3>3
  <2> QED
    BY <2>1, <2>2
<1>4. Timed(sweep'[q], hour) /\ ~MovesTask(sweep'[q]) /\ ~Nudges(sweep'[q]) /\ ~Acting(sweep[q])
  BY <1>1, <1>3, HoursNat DEF Timed, NudgeDue, MovesTask, Nudges, Acting, Moving, Nudging, StallTypeOK
<1> QED
  BY <1>1, <1>2, <1>3, <1>4, Quietly DEF StallTypeOK, Acting

\* A sweep that does not move a task nudges it, if that is due.
LEMMA FallsBackKeeps ==
    ASSUME StallInv, NEW q \in Sweeps, sweep[q].at \in {"recent", "pick"}, FallsBack(q),
           card' = card, health' = health, hour' = hour, nudged' = nudged, moved' = moved,
           sign' = sign, blurred' = blurred, begun' = begun
    PROVE  StallInv'
<1>1. StallTypeOK /\ Timely
  BY DEF StallInv
<1>2. PICK stop \in {"nudge", "idle"} :
         /\ sweep' = [sweep EXCEPT ![q].at = stop]
         /\ stop = "nudge" => NudgeDue(sweep[q].now, sweep[q].seen)
  BY DEF FallsBack, To
<1>3. /\ sweep' \in [Sweeps -> Sweep] /\ \A r \in Sweeps : r # q => sweep'[r] = sweep[r]
      /\ sweep'[q].at = stop /\ sweep'[q].seen = sweep[q].seen /\ sweep'[q].now = sweep[q].now
  BY <1>1, <1>2, ZenonT(90) DEF StallTypeOK, Sweep
<1>4. /\ sweep[q].now \in Nat /\ hour \in Nat /\ sweep[q].now <= hour
      /\ AutoTimes(sweep[q].seen) \in Seq(Hours) /\ Cooldown \in Nat /\ MaxPerDay \in Nat
  BY <1>1, HoursNat, RowTimes, StallAssumption DEF StallTypeOK, Sweep, Timely, Timed
<1>5. stop = "nudge" => Due(hour, AutoTimes(sweep[q].seen), Cooldown, MaxPerDay)
  BY <1>2, <1>4, DueLater DEF NudgeDue
<1>6. Timed(sweep'[q], hour) /\ ~MovesTask(sweep'[q]) /\ ~Nudges(sweep'[q]) /\ ~Acting(sweep[q])
  BY <1>1, <1>2, <1>3, <1>4, <1>5 DEF Timed, MovesTask, Nudges, Acting, Moving, Nudging
<1> QED
  BY <1>1, <1>3, <1>6, Quietly DEF StallTypeOK, Acting

LEMMA TryAutoReassignKeeps ==
    ASSUME StallInv, NEW q \in Sweeps, TryAutoReassign(q)
    PROVE  StallInv'
<1>1. StallTypeOK /\ Timely /\ sweep[q].at = "recent"
  BY DEF StallInv, TryAutoReassign, On
<1>2. /\ card' = card /\ health' = health /\ hour' = hour /\ nudged' = nudged /\ moved' = moved
      /\ sign' = sign /\ blurred' = blurred /\ begun' = begun
  BY DEF TryAutoReassign
<1>3. CASE FallsBack(q)
  BY <1>1, <1>2, <1>3, FallsBackKeeps
<1>4. ASSUME NEW row \in Readable, ReassignDue(hour, row),
             sweep' = [sweep EXCEPT ![q].at = "pick", ![q].past = Reassigns(row)]
      PROVE  StallInv'
  <2>1. Reassigns(row) \in Seq(Hours)
    BY <1>1, RowTimes DEF StallTypeOK, Readable
  <2>2. /\ sweep' \in [Sweeps -> Sweep] /\ \A r \in Sweeps : r # q => sweep'[r] = sweep[r]
        /\ sweep'[q].at = "pick" /\ sweep'[q].past = Reassigns(row)
        /\ sweep'[q].now = sweep[q].now
    BY <1>1, <1>4, <2>1, ZenonT(90) DEF StallTypeOK, Sweep
  <2>3. Timed(sweep'[q], hour) /\ ~MovesTask(sweep'[q]) /\ ~Nudges(sweep'[q]) /\ ~Acting(sweep[q])
    BY <1>1, <1>4, <2>2
       DEF Timely, Timed, ReassignDue, MovesTask, Nudges, Acting, Moving, Nudging
  <2> QED
    BY <1>1, <1>2, <2>2, <2>3, Quietly DEF StallTypeOK, Acting
<1> QED
  BY <1>3, <1>4 DEF TryAutoReassign

LEMMA PickLeastLoadedKeeps ==
    ASSUME StallInv, NEW q \in Sweeps, PickLeastLoaded(q)
    PROVE  StallInv'
<1>1. StallTypeOK /\ Timely /\ sweep[q].at = "pick"
  BY DEF StallInv, PickLeastLoaded, On
<1>2. /\ card' = card /\ health' = health /\ hour' = hour /\ nudged' = nudged /\ moved' = moved
      /\ sign' = sign /\ blurred' = blurred /\ begun' = begun
  BY DEF PickLeastLoaded
<1>3. CASE FallsBack(q)
  BY <1>1, <1>2, <1>3, FallsBackKeeps
<1>4. ASSUME NEW a \in Agents, sweep' = [sweep EXCEPT ![q].at = "redispatch", ![q].to = a]
      PROVE  StallInv'
  <2>1. /\ sweep' \in [Sweeps -> Sweep] /\ \A r \in Sweeps : r # q => sweep'[r] = sweep[r]
        /\ sweep'[q].at = "redispatch" /\ sweep'[q].past = sweep[q].past
        /\ sweep'[q].now = sweep[q].now
    BY <1>1, <1>4, ZenonT(90) DEF StallTypeOK, Sweep
  <2>2. Timed(sweep'[q], hour) /\ ~MovesTask(sweep'[q]) /\ ~Nudges(sweep'[q]) /\ ~Acting(sweep[q])
    BY <1>1, <2>1 DEF Timely, Timed, MovesTask, Nudges, Acting, Moving, Nudging
  <2> QED
    BY <1>1, <1>2, <2>1, <2>2, Quietly DEF StallTypeOK, Acting
<1> QED
  BY <1>3, <1>4 DEF PickLeastLoaded

LEMMA RedispatchKeeps ==
    ASSUME StallInv, NEW q \in Sweeps, RedispatchStalledTask(q)
    PROVE  StallInv'
<1>1. StallTypeOK /\ Timely /\ sweep[q].at = "redispatch"
  BY DEF StallInv, RedispatchStalledTask, On
<1>2. /\ card' = card /\ health' = health /\ hour' = hour /\ nudged' = nudged /\ moved' = moved
      /\ sign' = sign /\ blurred' = blurred /\ begun' = begun
  BY DEF RedispatchStalledTask
<1>3. /\ sweep' \in [Sweeps -> Sweep] /\ \A r \in Sweeps : r # q => sweep'[r] = sweep[r]
      /\ \/ sweep'[q] = NoSweep
         \/ /\ sweep'[q].at = "gateway" /\ sweep'[q].past = sweep[q].past
            /\ sweep'[q].now = sweep[q].now
  <2>1. [card EXCEPT !.agent = sweep[q].to] \in Card
    BY <1>1 DEF StallTypeOK, Card, Sweep
  <2>2. CASE sweep' = [sweep EXCEPT ![q] = NoSweep]
    BY <1>1, <2>2, NoSweepFields DEF StallTypeOK
  <2>3. CASE sweep' = [sweep EXCEPT ![q].at = "gateway",
                                    ![q].task = [card EXCEPT !.agent = sweep[q].to]]
    BY <1>1, <2>1, <2>3, ZenonT(90) DEF StallTypeOK, Sweep
  <2> QED
    BY <2>2, <2>3 DEF RedispatchStalledTask, Over
<1>4. Timed(sweep'[q], hour) /\ ~MovesTask(sweep'[q]) /\ ~Nudges(sweep'[q]) /\ ~Acting(sweep[q])
  BY <1>1, <1>3, NoSweepFields, HoursNat
     DEF Timely, Timed, MovesTask, Nudges, Acting, Moving, Nudging, StallTypeOK
<1> QED
  BY <1>1, <1>2, <1>3, <1>4, Quietly DEF StallTypeOK, Acting

LEMMA ReadDetailKeeps ==
    ASSUME StallInv, NEW q \in Sweeps, ReadDetail(q) \/ ReadPrev(q)
    PROVE  StallInv'
<1>1. StallTypeOK /\ Timely
  BY DEF StallInv
<1>2. /\ card' = card /\ health' = health /\ hour' = hour /\ nudged' = nudged /\ moved' = moved
      /\ sign' = sign /\ blurred' = blurred /\ begun' = begun
  BY DEF ReadDetail, ReadPrev
<1>3. PICK row \in Readable, stop \in {"saveMoved", "upsert"} :
         /\ sweep' = [sweep EXCEPT ![q].at = stop, ![q].seen = row]
         /\ \/ stop = "saveMoved" /\ sweep[q].at = "prevMoved"
            \/ stop = "upsert" /\ sweep[q].at = "prev"
  BY DEF ReadDetail, ReadPrev, On
<1>4. /\ sweep' \in [Sweeps -> Sweep] /\ \A r \in Sweeps : r # q => sweep'[r] = sweep[r]
      /\ sweep'[q].at = stop /\ sweep'[q].auto = sweep[q].auto
      /\ sweep'[q].now = sweep[q].now
  <2>1. /\ sweep'[q] \in Sweep /\ sweep'[q].at = stop
        /\ sweep'[q].auto = sweep[q].auto /\ sweep'[q].now = sweep[q].now
    BY <1>1, <1>3, ZenonT(90) DEF StallTypeOK, Sweep, Readable, Reached
  <2>2. sweep' \in [Sweeps -> Sweep] /\ \A r \in Sweeps : r # q => sweep'[r] = sweep[r]
    BY <1>1, <1>3, <2>1 DEF StallTypeOK
  <2> QED
    BY <2>1, <2>2
<1>5. /\ Timed(sweep'[q], hour)
      /\ MovesTask(sweep'[q]) <=> MovesTask(sweep[q])
      /\ Nudges(sweep'[q]) <=> Nudges(sweep[q])
  BY <1>1, <1>3, <1>4 DEF Timely, Timed, MovesTask, Nudges, Moving, Nudging
<1> QED
  BY <1>1, <1>2, <1>4, <1>5, Quietly DEF StallTypeOK

LEMMA SaveReassignedKeeps ==
    ASSUME StallInv, NEW q \in Sweeps, SaveReassigned(q)
    PROVE  StallInv'
<1>1. StallTypeOK /\ Timely /\ sweep[q].at = "saveMoved"
  BY DEF StallInv, SaveReassigned, On
<1>2. /\ card' = sweep[q].task /\ health' = health /\ hour' = hour /\ nudged' = nudged
      /\ moved' = moved /\ sign' = sign /\ blurred' = blurred /\ begun' = begun
  BY DEF SaveReassigned
<1>3. card' \in Card
  BY <1>1, <1>2 DEF StallTypeOK, Sweep
<1>4. /\ sweep' \in [Sweeps -> Sweep] /\ \A r \in Sweeps : r # q => sweep'[r] = sweep[r]
      /\ sweep'[q].at = "beat" /\ sweep'[q].auto = sweep[q].auto
      /\ sweep'[q].now = sweep[q].now
  <2>1. sweep' = [sweep EXCEPT ![q].at = "beat", ![q].task = NoSweep.task,
                               ![q].to = AnyAgent, ![q].past = <<>>]
    BY DEF SaveReassigned, Wrote
  <2>2. NoSweep.task \in Card /\ AnyAgent \in Agents /\ <<>> \in Seq(Hours)
    BY NoSweepFields, HoursNat DEF Sweep
  <2>3. /\ sweep'[q] \in Sweep /\ sweep'[q].at = "beat"
        /\ sweep'[q].auto = sweep[q].auto /\ sweep'[q].now = sweep[q].now
    BY <1>1, <2>1, <2>2, ZenonT(90) DEF StallTypeOK, Sweep, Reached
  <2>4. sweep' \in [Sweeps -> Sweep] /\ \A r \in Sweeps : r # q => sweep'[r] = sweep[r]
    BY <1>1, <2>1, <2>3 DEF StallTypeOK
  <2> QED
    BY <2>3, <2>4
<1>5. /\ Timed(sweep'[q], hour)
      /\ MovesTask(sweep'[q]) <=> MovesTask(sweep[q])
      /\ Nudges(sweep'[q]) <=> Nudges(sweep[q])
  BY <1>1, <1>4 DEF Timely, Timed, MovesTask, Nudges, Moving, Nudging
<1> QED
  BY <1>1, <1>2, <1>3, <1>4, <1>5, Quietly DEF StallTypeOK

LEMMA NudgeStallKeeps ==
    ASSUME StallInv, NEW q \in Sweeps, NudgeStall(q)
    PROVE  StallInv'
<1>1. StallTypeOK /\ Timely /\ sweep[q].at = "nudge"
  BY DEF StallInv, NudgeStall, On
<1>2. /\ card' = card /\ health' = health /\ hour' = hour /\ nudged' = nudged /\ moved' = moved
      /\ sign' = sign /\ blurred' = blurred /\ begun' = begun
  BY DEF NudgeStall
<1>3. /\ sweep' \in [Sweeps -> Sweep] /\ \A r \in Sweeps : r # q => sweep'[r] = sweep[r]
      /\ \/ sweep'[q] = NoSweep
         \/ /\ sweep'[q].at = "saveNudged" /\ sweep'[q].seen = sweep[q].seen
            /\ sweep'[q].auto = sweep[q].auto /\ sweep'[q].now = hour
  <2>1. CASE sweep' = [sweep EXCEPT ![q] = NoSweep]
    BY <1>1, <2>1, NoSweepFields DEF StallTypeOK
  <2>2. CASE sweep' = [sweep EXCEPT ![q].at = "saveNudged", ![q].now = hour, ![q].task = card]
    <3>1. /\ sweep'[q] \in Sweep
          /\ sweep'[q].at = "saveNudged" /\ sweep'[q].seen = sweep[q].seen
          /\ sweep'[q].auto = sweep[q].auto /\ sweep'[q].now = hour
      BY <1>1, <2>2, ZenonT(90) DEF StallTypeOK, Sweep, Reached
    <3>2. sweep' \in [Sweeps -> Sweep] /\ \A r \in Sweeps : r # q => sweep'[r] = sweep[r]
      BY <1>1, <2>2, <3>1 DEF StallTypeOK
    <3> QED
      BY <3>1, <3>2
  <2> QED
    BY <2>1, <2>2 DEF NudgeStall, Over
<1>4. Timed(sweep'[q], hour) /\ ~MovesTask(sweep'[q]) /\ ~Nudges(sweep'[q]) /\ ~Acting(sweep[q])
  BY <1>1, <1>3, NoSweepFields, HoursNat
     DEF Timely, Timed, MovesTask, Nudges, Acting, Moving, Nudging, StallTypeOK
<1> QED
  BY <1>1, <1>2, <1>3, <1>4, Quietly DEF StallTypeOK, Acting

\* The gateway has taken the task to another agent.
LEMMA AgentTakesOverKeeps ==
    ASSUME StallInv, NEW q \in Sweeps, AgentTakesOver(q)
    PROVE  StallInv'
<1>1. StallTypeOK /\ Timely /\ (health = NoHealth => sign = 0) /\ sweep[q].at = "gateway"
  BY DEF StallInv, AgentTakesOver, On
<1>2. /\ card' = card /\ health' = health /\ hour' = hour /\ nudged' = nudged
      /\ moved' = Append(moved, hour) /\ sign' = sign /\ begun' = begun
      /\ blurred' = (blurred \/ Crowded(q) \/ Reassigns(health) # sweep[q].past)
  BY DEF AgentTakesOver, Blur
<1>3. /\ sweep'[q] \in Sweep /\ sweep'[q].at = "prevMoved" /\ sweep'[q].now = hour
      /\ sweep' \in [Sweeps -> Sweep] /\ \A r \in Sweeps : r # q => sweep'[r] = sweep[r]
  <2>1. sweep' = [sweep EXCEPT ![q].at = "prevMoved", ![q].now = hour]
    BY DEF AgentTakesOver
  <2>2. sweep'[q] \in Sweep /\ sweep'[q].at = "prevMoved" /\ sweep'[q].now = hour
    BY <1>1, <2>1 DEF StallTypeOK, Sweep, Reached
  <2> QED
    BY <1>1, <2>1, <2>2 DEF StallTypeOK
<1>4. StallTypeOK'
  BY <1>1, <1>2, <1>3 DEF StallTypeOK
<1>5. Timely'
  BY <1>1, <1>2, <1>3, HoursNat DEF Timely, Timed, StallTypeOK
<1>6. ASSUME ~blurred'
      PROVE  Recorded' /\ BeatIsSign' /\ Rhythm'
  <2>1. ~blurred /\ ~Crowded(q) /\ Reassigns(health) = sweep[q].past
    BY <1>2, <1>6
  <2>2. Recorded /\ BeatIsSign /\ Rhythm
    BY <2>1 DEF StallInv
  <2>3. \A r \in Sweeps : ~Acting(sweep[r])
    BY <1>1, <2>1 DEF Crowded, Reached, Acting, MovesTask, Nudges, Moving, Nudging
  <2>4. \A r \in Sweeps : (MovesTask(sweep'[r]) <=> r = q) /\ ~Nudges(sweep'[r])
    BY <1>3, <2>3 DEF Acting, MovesTask, Nudges, Moving, Nudging
  <2>5. moved = Reassigns(health) /\ nudged = AutoTimes(health)
    BY <2>2, <2>3 DEF Recorded, NudgesRecorded, MovesRecorded, Acting
  <2>6. Recorded'
    BY <1>2, <1>3, <2>4, <2>5 DEF Recorded, OneActs, NudgesRecorded, MovesRecorded, Acting
  <2>7. Due(hour, moved, ReassignCooldown, ReassignMaxPerDay)
    BY <1>1, <2>1, <2>5 DEF Timely, Timed
  <2>8. /\ moved \in Seq(Hours) /\ hour \in Hours
        /\ ReassignCooldown \in Nat /\ ReassignMaxPerDay \in Nat
    BY <1>1, StallAssumption DEF StallTypeOK
  <2>9. Paced(moved', ReassignCooldown, ReassignMaxPerDay)
    BY <1>2, <2>2, <2>7, <2>8, PacedAppend DEF Rhythm
  <2> QED
    BY <1>2, <2>2, <2>6, <2>9 DEF BeatIsSign, Rhythm
<1> QED
  BY <1>1, <1>2, <1>4, <1>5, <1>6 DEF StallInv

\* The gateway has taken the task to another agent, and the sweep never hears of it.
LEMMA AgentTakesOverUnheardKeeps ==
    ASSUME StallInv, NEW q \in Sweeps, AgentTakesOverUnheard(q)
    PROVE  StallInv'
<1>1. StallTypeOK /\ Timely /\ (health = NoHealth => sign = 0)
  BY DEF StallInv
<1>2. /\ card' = card /\ health' = health /\ hour' = hour /\ nudged' = nudged
      /\ moved' = Append(moved, hour) /\ sign' = sign /\ begun' = begun
      /\ blurred' = TRUE
  BY DEF AgentTakesOverUnheard, Blur
<1>3. /\ sweep' \in [Sweeps -> Sweep] /\ sweep'[q] = NoSweep
      /\ \A r \in Sweeps : r # q => sweep'[r] = sweep[r]
  BY <1>1, NoSweepFields DEF AgentTakesOverUnheard, Over, StallTypeOK
<1>4. StallTypeOK'
  BY <1>1, <1>2, <1>3 DEF StallTypeOK
<1>5. Timely'
  <2>1. Timed(NoSweep, hour)
    BY <1>1, NoSweepFields, HoursNat DEF Timed, MovesTask, Nudges, Moving, Nudging, StallTypeOK
  <2> QED
    BY <1>1, <1>2, <1>3, <2>1 DEF Timely
<1> QED
  BY <1>1, <1>2, <1>4, <1>5 DEF StallInv

\* The nudge is on the task.
LEMMA SaveNudgedKeeps ==
    ASSUME StallInv, NEW q \in Sweeps, SaveNudged(q)
    PROVE  StallInv'
<1>1. StallTypeOK /\ Timely /\ (health = NoHealth => sign = 0) /\ sweep[q].at = "saveNudged"
  BY DEF StallInv, SaveNudged, On
<1>2. /\ card' = sweep[q].task /\ health' = health /\ hour' = hour /\ moved' = moved
      /\ nudged' = IF sweep[q].auto THEN Append(nudged, sweep[q].now) ELSE nudged
      /\ sign' = sign /\ begun' = begun
      /\ blurred' = (blurred \/ (/\ sweep[q].auto
                                 /\ Crowded(q) \/ AutoTimes(health) # AutoTimes(sweep[q].seen)))
  BY DEF SaveNudged, Blur
<1>3. /\ sweep'[q] \in Sweep /\ sweep'[q].at = "prev" /\ sweep'[q].now = sweep[q].now
      /\ sweep'[q].auto = sweep[q].auto
      /\ sweep' \in [Sweeps -> Sweep] /\ \A r \in Sweeps : r # q => sweep'[r] = sweep[r]
  <2>1. sweep' = [sweep EXCEPT ![q].at = "prev", ![q].task = NoSweep.task,
                               ![q].to = AnyAgent, ![q].past = <<>>]
    BY DEF SaveNudged, Wrote
  <2>2. NoSweep.task \in Card /\ AnyAgent \in Agents /\ <<>> \in Seq(Hours)
    BY NoSweepFields, HoursNat DEF Sweep
  <2>3. /\ sweep'[q] \in Sweep /\ sweep'[q].at = "prev"
        /\ sweep'[q].auto = sweep[q].auto /\ sweep'[q].now = sweep[q].now
    BY <1>1, <2>1, <2>2, ZenonT(90) DEF StallTypeOK, Sweep, Reached
  <2> QED
    BY <1>1, <2>1, <2>3 DEF StallTypeOK
<1>4. StallTypeOK'
  <2>1. card' \in Card /\ nudged' \in Seq(Hours) /\ blurred' \in BOOLEAN
    BY <1>1, <1>2 DEF StallTypeOK, Sweep
  <2> QED
    BY <1>1, <1>2, <1>3, <2>1 DEF StallTypeOK
<1>5. Timely'
  BY <1>1, <1>2, <1>3 DEF Timely, Timed
<1>6. CASE ~sweep[q].auto
  <2>1. /\ Timed(sweep'[q], hour)
        /\ ~MovesTask(sweep'[q]) /\ ~MovesTask(sweep[q]) /\ ~Nudges(sweep'[q]) /\ ~Nudges(sweep[q])
    BY <1>1, <1>2, <1>3, <1>5, <1>6 DEF Timely, MovesTask, Nudges, Moving, Nudging
  <2>2. card' \in Card /\ begun' \in 0 .. MaxSweeps /\ nudged' = nudged /\ blurred' = blurred
    BY <1>1, <1>2, <1>4, <1>6 DEF StallTypeOK
  <2> QED
    BY <1>2, <1>3, <2>1, <2>2, Quietly DEF Acting
<1>7. ASSUME sweep[q].auto, ~blurred'
      PROVE  Recorded' /\ BeatIsSign' /\ Rhythm'
  <2>1. ~blurred /\ ~Crowded(q) /\ AutoTimes(health) = AutoTimes(sweep[q].seen)
    BY <1>2, <1>7
  <2>2. Recorded /\ BeatIsSign /\ Rhythm
    BY <2>1 DEF StallInv
  <2>3. \A r \in Sweeps : ~Acting(sweep[r])
    BY <1>1, <2>1 DEF Crowded, Reached, Acting, MovesTask, Nudges, Moving, Nudging
  <2>4. \A r \in Sweeps : ~MovesTask(sweep'[r]) /\ (Nudges(sweep'[r]) <=> r = q)
    BY <1>3, <1>7, <2>3 DEF Acting, MovesTask, Nudges, Moving, Nudging
  <2>5. moved = Reassigns(health) /\ nudged = AutoTimes(health)
    BY <2>2, <2>3 DEF Recorded, NudgesRecorded, MovesRecorded, Acting
  <2>6. nudged' = Append(nudged, sweep[q].now)
    BY <1>2, <1>7
  <2>7. Recorded'
    BY <1>2, <1>3, <2>4, <2>5, <2>6 DEF Recorded, OneActs, NudgesRecorded, MovesRecorded, Acting
  <2>8. Due(sweep[q].now, nudged, Cooldown, MaxPerDay)
    BY <1>1, <1>7, <2>1, <2>5 DEF Timely, Timed
  <2>9. /\ nudged \in Seq(Hours) /\ sweep[q].now \in Hours
        /\ Cooldown \in Nat /\ MaxPerDay \in Nat
    BY <1>1, StallAssumption DEF StallTypeOK, Sweep
  <2>10. Paced(nudged', Cooldown, MaxPerDay)
    BY <2>2, <2>6, <2>8, <2>9, PacedAppend DEF Rhythm
  <2> QED
    BY <1>2, <2>2, <2>7, <2>10 DEF BeatIsSign, Rhythm
<1> QED
  BY <1>1, <1>2, <1>4, <1>5, <1>6, <1>7 DEF StallInv

(* A sweep or an operator replaces the row, by what was read and one more  *)
(* entry.                                                                  *)
LEMMA UpsertKeeps ==
    ASSUME StallInv, NEW q \in Sweeps, NEW row \in HealthRow, UpsertHeartbeat(q, row),
           sign' \in Hours,
           health = sweep[q].seen /\ ~blurred =>
             /\ row.beat = sign'
             /\ AutoTimes(row) = IF Nudges(sweep[q])
                                   THEN Append(AutoTimes(health), sweep[q].now)
                                   ELSE AutoTimes(health)
             /\ Reassigns(row) = IF MovesTask(sweep[q])
                                   THEN Append(Reassigns(health), sweep[q].now)
                                   ELSE Reassigns(health)
    PROVE  StallInv'
<1>1. StallTypeOK /\ Timely
  BY DEF StallInv
<1>2. /\ card' = card /\ health' = row /\ hour' = hour /\ nudged' = nudged /\ moved' = moved
      /\ begun' = begun /\ blurred' = (blurred \/ health # sweep[q].seen)
      /\ row # NoHealth
  BY StallAssumption DEF UpsertHeartbeat, Blur
<1>3. /\ sweep'[q] = NoSweep /\ sweep' \in [Sweeps -> Sweep]
      /\ \A r \in Sweeps : r # q => sweep'[r] = sweep[r]
  BY <1>1, NoSweepFields DEF UpsertHeartbeat, Over, StallTypeOK
<1>4. StallTypeOK'
  BY <1>1, <1>2, <1>3 DEF StallTypeOK
<1>5. Timely'
  BY <1>1, <1>2, <1>3, NoSweepFields, HoursNat, SMTT(60) DEF Timely, Timed, StallTypeOK
<1>6. ASSUME ~blurred'
      PROVE  Recorded' /\ BeatIsSign' /\ Rhythm'
  <2>1. ~blurred /\ health = sweep[q].seen
    BY <1>2, <1>6
  <2>2. Recorded /\ Rhythm
    BY <2>1 DEF StallInv
  <2>3. \A r \in Sweeps : /\ MovesTask(sweep'[r]) <=> r # q /\ MovesTask(sweep[r])
                          /\ Nudges(sweep'[r]) <=> r # q /\ Nudges(sweep[r])
    BY <1>3, NoSweepFields DEF MovesTask, Nudges, Moving, Nudging
  <2>4. OneActs'
    BY <2>2, <2>3 DEF Recorded, OneActs, Acting
  <2>5. CASE Acting(sweep[q])
    <3>1. \A r \in Sweeps : ~MovesTask(sweep'[r]) /\ ~Nudges(sweep'[r])
      BY <2>2, <2>3, <2>5 DEF Recorded, OneActs, Acting
    <3>2. nudged = AutoTimes(row)
      <4>1. CASE Nudges(sweep[q])
        BY <2>1, <2>2, <4>1 DEF Recorded, NudgesRecorded
      <4>2. CASE ~Nudges(sweep[q])
        <5>1. \A r \in Sweeps : ~Nudges(sweep[r])
          BY <2>2, <2>5, <4>2 DEF Recorded, OneActs, Acting
        <5> QED
          BY <2>1, <2>2, <4>2, <5>1 DEF Recorded, NudgesRecorded
      <4> QED
        BY <4>1, <4>2
    <3>3. moved = Reassigns(row)
      <4>1. CASE MovesTask(sweep[q])
        BY <2>1, <2>2, <4>1 DEF Recorded, MovesRecorded
      <4>2. CASE ~MovesTask(sweep[q])
        <5>1. \A r \in Sweeps : ~MovesTask(sweep[r])
          BY <2>2, <2>5, <4>2 DEF Recorded, OneActs, Acting
        <5> QED
          BY <2>1, <2>2, <4>2, <5>1 DEF Recorded, MovesRecorded
      <4> QED
        BY <4>1, <4>2
    <3> QED
      BY <1>2, <2>1, <2>2, <2>4, <3>1, <3>2, <3>3
         DEF Recorded, NudgesRecorded, MovesRecorded, BeatIsSign, Rhythm
  <2>6. CASE ~Acting(sweep[q])
    <3>1. AutoTimes(row) = AutoTimes(health) /\ Reassigns(row) = Reassigns(health)
      BY <2>1, <2>6 DEF Acting
    <3>2. \A r \in Sweeps : /\ MovesTask(sweep'[r]) <=> MovesTask(sweep[r])
                            /\ Nudges(sweep'[r]) <=> Nudges(sweep[r])
                            /\ MovesTask(sweep[r]) \/ Nudges(sweep[r]) => sweep'[r] = sweep[r]
      BY <1>3, <2>3, <2>6 DEF Acting
    <3>3. NudgesRecorded' /\ MovesRecorded'
      BY <1>2, <2>2, <3>1, <3>2 DEF Recorded, NudgesRecorded, MovesRecorded
    <3> QED
      BY <1>2, <2>1, <2>2, <2>4, <3>3 DEF Recorded, BeatIsSign, Rhythm
  <2> QED
    BY <2>5, <2>6
<1> QED
  BY <1>2, <1>4, <1>5, <1>6 DEF StallInv

LEMMA RecordReassignKeeps ==
    ASSUME StallInv, NEW q \in Sweeps, RecordReassign(q)
    PROVE  StallInv'
<1> DEFINE s == sweep[q]
           row == [beat |-> s.now, autos |-> AutoTimes(s.seen), byHand |-> HandTimes(s.seen),
                   reassigns |-> Append(Reassigns(s.seen), s.now)]
<1>1. StallTypeOK /\ s.at = "beat" /\ UpsertHeartbeat(q, row) /\ sign' = s.now
  BY DEF StallInv, RecordReassign, On
<1>2. s.now \in Hours /\ s.seen \in HealthRow \cup {NoHealth}
  BY <1>1 DEF StallTypeOK, Sweep
<1>3. AutoTimes(s.seen) \in Seq(Hours) /\ HandTimes(s.seen) \in Seq(Hours) /\ Reassigns(s.seen) \in Seq(Hours)
  BY <1>2, RowTimes
<1>4. row \in HealthRow
  BY <1>2, <1>3 DEF HealthRow
<1>5. /\ row.beat = s.now /\ AutoTimes(row) = AutoTimes(s.seen)
      /\ Reassigns(row) = Append(Reassigns(s.seen), s.now)
  BY <1>4, StallAssumption DEF AutoTimes, Reassigns
<1>6. MovesTask(s) /\ ~Nudges(s)
  BY <1>1 DEF MovesTask, Nudges, Moving, Nudging
<1> HIDE DEF row
<1> QED
  BY <1>1, <1>2, <1>4, <1>5, <1>6, UpsertKeeps

LEMMA RecordNudgeKeeps ==
    ASSUME StallInv, NEW q \in Sweeps, RecordNudge(q)
    PROVE  StallInv'
<1> DEFINE s == sweep[q]
           autos == AutoTimes(s.seen)
           row(beat) == [beat |-> beat, reassigns |-> Reassigns(s.seen),
             autos |-> IF s.auto THEN Append(autos, s.now) ELSE autos,
             byHand |-> IF s.auto THEN HandTimes(s.seen) ELSE Append(HandTimes(s.seen), s.now)]
<1>1. PICK beat : /\ StallTypeOK /\ s.at = "upsert" /\ UpsertHeartbeat(q, row(beat))
                  /\ \/ /\ s.auto /\ sign' = sign
                        /\ beat = IF s.seen = NoHealth THEN 0 ELSE s.seen.beat
                     \/ ~s.auto /\ beat = s.now /\ sign' = s.now
  BY DEF StallInv, RecordNudge, Nudged, On
<1>2. s.now \in Hours /\ s.seen \in HealthRow \cup {NoHealth} /\ s.auto \in BOOLEAN
  BY <1>1 DEF StallTypeOK, Sweep
<1>3. autos \in Seq(Hours) /\ HandTimes(s.seen) \in Seq(Hours) /\ Reassigns(s.seen) \in Seq(Hours)
  BY <1>2, RowTimes
<1>4. beat \in Hours
  BY <1>1, <1>2, HoursNat DEF HealthRow
<1>5. row(beat) \in HealthRow
  BY <1>2, <1>3, <1>4 DEF HealthRow
<1>6. /\ row(beat).beat = beat /\ Reassigns(row(beat)) = Reassigns(s.seen)
      /\ AutoTimes(row(beat)) = IF s.auto THEN Append(autos, s.now) ELSE autos
  BY <1>5, StallAssumption DEF AutoTimes, Reassigns
<1>7. ~MovesTask(s) /\ (Nudges(s) <=> s.auto)
  BY <1>1 DEF MovesTask, Nudges, Moving, Nudging
<1>8. ASSUME health = s.seen, ~blurred
      PROVE  beat = sign'
  BY <1>1, <1>8 DEF StallInv, BeatIsSign
<1>9. sign' \in Hours
  BY <1>1, <1>2 DEF StallTypeOK
<1> HIDE DEF row
<1> QED
  BY <1>1, <1>5, <1>6, <1>7, <1>8, <1>9, UpsertKeeps

\* A heartbeat, with the detail it is given, or the end of the task.
LEMMA ReplacedKeeps ==
    ASSUME StallInv, NEW row \in HealthRow, health' = row, row.beat = hour, sign' = hour,
           hour' = hour, sweep' = sweep, nudged' = nudged, moved' = moved,
           card' \in Card, begun' \in 0 .. MaxSweeps,
           blurred' = (blurred \/ (AutoTimes(row) # AutoTimes(health)
                                     \/ Reassigns(row) # Reassigns(health)))
    PROVE  StallInv'
<1>1. StallTypeOK /\ Timely /\ row # NoHealth
  BY StallAssumption DEF StallInv
<1>2. StallTypeOK'
  BY <1>1 DEF StallTypeOK
<1>3. Timely'
  BY <1>1 DEF Timely
<1>4. ASSUME ~blurred'
      PROVE  Recorded' /\ BeatIsSign' /\ Rhythm'
  <2>1. /\ ~blurred
        /\ AutoTimes(row) = AutoTimes(health) /\ Reassigns(row) = Reassigns(health)
    BY <1>4
  <2>2. Recorded /\ Rhythm
    BY <2>1 DEF StallInv
  <2>3. Recorded'
    BY <2>1, <2>2 DEF Recorded, OneActs, NudgesRecorded, MovesRecorded
  <2> QED
    BY <2>2, <2>3 DEF BeatIsSign, Rhythm
<1> QED
  BY <1>1, <1>2, <1>3, <1>4 DEF StallInv

LEMMA PatchTaskAgentHealthKeeps ==
    ASSUME StallInv, PatchTaskAgentHealth
    PROVE  StallInv'
<1>1. StallTypeOK
  BY DEF StallInv
<1>2. PICK base \in {health, NoHealth} :
        /\ health' = [beat |-> hour, autos |-> AutoTimes(base), byHand |-> HandTimes(base),
                      reassigns |-> Reassigns(base)]
        /\ blurred' = (blurred \/ (AutoTimes(base) # AutoTimes(health)
                                     \/ Reassigns(base) # Reassigns(health)))
  BY DEF PatchTaskAgentHealth, Blur
<1>3. /\ AutoTimes(base) \in Seq(Hours) /\ HandTimes(base) \in Seq(Hours)
      /\ Reassigns(base) \in Seq(Hours) /\ hour \in Hours
  BY <1>1, RowTimes DEF StallTypeOK
<1>4. health' \in HealthRow
  BY <1>2, <1>3 DEF HealthRow
<1>5. /\ health'.beat = hour /\ AutoTimes(health') = AutoTimes(base)
      /\ Reassigns(health') = Reassigns(base)
  BY <1>2, <1>4, StallAssumption DEF AutoTimes, Reassigns
<1>6. begun' \in 0 .. MaxSweeps
  BY <1>1, StallAssumption DEF StallTypeOK, PatchTaskAgentHealth, Another
<1>7. /\ card' = card /\ hour' = hour /\ sweep' = sweep /\ nudged' = nudged /\ moved' = moved
      /\ sign' = hour
  BY DEF PatchTaskAgentHealth
<1>8. blurred' = (blurred \/ (AutoTimes(health') # AutoTimes(health)
                                \/ Reassigns(health') # Reassigns(health)))
  BY <1>2, <1>5
<1>9. card' \in Card
  BY <1>1, <1>7 DEF StallTypeOK
<1> QED
  BY <1>4, <1>5, <1>6, <1>7, <1>8, <1>9, ReplacedKeeps

LEMMA CompleteTaskWithEventKeeps ==
    ASSUME StallInv, CompleteTaskWithEvent
    PROVE  StallInv'
<1>1. StallTypeOK
  BY DEF StallInv
<1>2. /\ health' = [beat |-> hour, autos |-> <<>>, byHand |-> <<>>, reassigns |-> <<>>]
      /\ blurred' = (blurred \/ (AutoTimes(health) # <<>> \/ Reassigns(health) # <<>>))
      /\ hour' = hour /\ sweep' = sweep /\ nudged' = nudged /\ moved' = moved
      /\ sign' = hour /\ begun' = begun
      /\ card' = [card EXCEPT !.status = "done"]
  BY DEF CompleteTaskWithEvent, Blur
<1>3. health' \in HealthRow
  BY <1>1, <1>2, HoursNat DEF HealthRow, StallTypeOK
<1>4. health'.beat = hour /\ AutoTimes(health') = <<>> /\ Reassigns(health') = <<>>
  BY <1>2, <1>3, StallAssumption DEF AutoTimes, Reassigns
<1>5. card' \in Card /\ begun' \in 0 .. MaxSweeps
  BY <1>1, <1>2 DEF StallTypeOK, Card
<1>6. blurred' = (blurred \/ (AutoTimes(health') # AutoTimes(health)
                                \/ Reassigns(health') # Reassigns(health)))
  BY <1>2, <1>4
<1> QED
  BY <1>2, <1>3, <1>4, <1>5, <1>6, ReplacedKeeps

LEMMA HourPassesKeeps ==
    ASSUME StallInv, HourPasses
    PROVE  StallInv'
<1>1. StallTypeOK /\ Timely
  BY DEF StallInv
<1>2. /\ hour < MaxHours /\ hour' = hour + 1
      /\ card' = card /\ health' = health /\ sweep' = sweep /\ begun' = begun
      /\ nudged' = nudged /\ moved' = moved /\ sign' = sign /\ blurred' = blurred
  BY DEF HourPasses
<1>3. hour \in Nat /\ hour' \in Nat /\ hour <= hour' /\ hour' \in Hours
  BY <1>1, <1>2, StallAssumption DEF StallTypeOK, Hours
<1>4. StallTypeOK'
  BY <1>1, <1>2, <1>3 DEF StallTypeOK
<1>5. ASSUME NEW q \in Sweeps
      PROVE  Timed(sweep[q], hour')
  <2>1. sweep[q] \in Sweep /\ Timed(sweep[q], hour)
    BY <1>1 DEF StallTypeOK, Timely
  <2>2. sweep[q].now \in Nat /\ sweep[q].past \in Seq(Hours) /\ AutoTimes(sweep[q].seen) \in Seq(Hours)
    BY <2>1, HoursNat, RowTimes DEF Sweep
  <2>3. Cooldown \in Nat /\ MaxPerDay \in Nat /\ ReassignCooldown \in Nat /\ ReassignMaxPerDay \in Nat
    BY StallAssumption
  <2>4. sweep[q].at \in {"pick", "redispatch", "gateway"} =>
          Due(hour', sweep[q].past, ReassignCooldown, ReassignMaxPerDay)
    BY <1>3, <2>1, <2>2, <2>3, DueLater DEF Timed
  <2>5. sweep[q].auto /\ sweep[q].at = "nudge" =>
          Due(hour', AutoTimes(sweep[q].seen), Cooldown, MaxPerDay)
    BY <1>3, <2>1, <2>2, <2>3, DueLater DEF Timed
  <2>6. sweep[q].now <= hour'
    BY <1>2, <1>3, <2>1, <2>2 DEF Timed
  <2> QED
    BY <2>1, <2>4, <2>5, <2>6 DEF Timed
<1>6. Timely'
  BY <1>2, <1>5 DEF Timely
<1>7. ASSUME ~blurred
      PROVE  Recorded' /\ BeatIsSign' /\ Rhythm'
  BY <1>2, <1>7 DEF StallInv, Recorded, OneActs, NudgesRecorded, MovesRecorded, BeatIsSign, Rhythm
<1> QED
  BY <1>2, <1>4, <1>6, <1>7 DEF StallInv

LEMMA SweepFailsKeeps ==
    ASSUME StallInv, NEW q \in Sweeps, SweepFails(q)
    PROVE  StallInv'
<1>1. StallTypeOK /\ Timely
  BY DEF StallInv
<1>2. /\ card' = card /\ health' = health /\ hour' = hour /\ nudged' = nudged /\ moved' = moved
      /\ sign' = sign /\ begun' = begun
      /\ blurred' = (blurred \/ sweep[q].at \in Reached \ {"saveNudged"})
  BY DEF SweepFails, Blur
<1>3. /\ sweep'[q] = NoSweep /\ sweep' \in [Sweeps -> Sweep]
      /\ \A r \in Sweeps : r # q => sweep'[r] = sweep[r]
  BY <1>1, NoSweepFields DEF SweepFails, Over, StallTypeOK
<1>4. Timed(NoSweep, hour) /\ ~MovesTask(NoSweep) /\ ~Nudges(NoSweep)
  BY <1>1, NoSweepFields, HoursNat DEF Timed, MovesTask, Nudges, Moving, Nudging, StallTypeOK
<1>5. CASE sweep[q].at \in Reached \ {"saveNudged"}
  <2>1. blurred' = TRUE
    BY <1>2, <1>5
  <2>2. StallTypeOK'
    BY <1>1, <1>2, <1>3, <2>1 DEF StallTypeOK
  <2>3. Timely'
    BY <1>1, <1>2, <1>3, <1>4 DEF Timely
  <2> QED
    BY <1>2, <2>1, <2>2, <2>3 DEF StallInv
<1>6. CASE sweep[q].at \notin Reached \ {"saveNudged"}
  <2>1. ~MovesTask(sweep[q]) /\ ~Nudges(sweep[q])
    BY <1>6 DEF MovesTask, Nudges, Moving, Nudging, Reached
  <2>2. blurred' = blurred /\ card' \in Card /\ begun' \in 0 .. MaxSweeps
    BY <1>1, <1>2, <1>6 DEF StallTypeOK
  <2> QED
    BY <1>2, <1>3, <1>4, <2>1, <2>2, Quietly DEF Acting
<1> QED
  BY <1>5, <1>6

LEMMA StallStarts == StallInit => StallInv
<1> SUFFICES ASSUME StallInit
             PROVE  StallInv
  OBVIOUS
<1>1. AnyAgent \in Agents /\ NoSweep \in Sweep /\ 0 \in Hours /\ <<>> \in Seq(Hours) /\ 0 \in Nat
      /\ MaxSweeps \in Nat
  BY NoSweepFields, HoursNat, StallAssumption
<1>2. StallTypeOK
  <2>1. card \in Card
    BY <1>1 DEF StallInit, Card
  <2>2. sweep \in [Sweeps -> Sweep]
    BY <1>1 DEF StallInit
  <2>3. 0 \in 0 .. MaxSweeps
    BY <1>1
  <2> QED
    BY <1>1, <2>1, <2>2, <2>3 DEF StallInit, StallTypeOK
<1>3. \A q \in Sweeps : sweep[q] = NoSweep
  BY DEF StallInit
<1>4. ~MovesTask(NoSweep) /\ ~Nudges(NoSweep) /\ Timed(NoSweep, 0)
  BY <1>1, NoSweepFields DEF MovesTask, Nudges, Moving, Nudging, Timed
<1>5. Timely
  BY <1>3, <1>4 DEF StallInit, Timely
<1>6. Recorded
  BY <1>3, <1>4 DEF StallInit, Recorded, OneActs, NudgesRecorded, MovesRecorded, Acting,
                    AutoTimes, Reassigns
<1>7. Rhythm
  BY DEF StallInit, Rhythm, Paced
<1> QED
  BY <1>2, <1>5, <1>6, <1>7 DEF StallInv, StallInit, BeatIsSign

LEMMA StallSteps == StallInv /\ [StallNext]_stallVars => StallInv'
<1> SUFFICES ASSUME StallInv, [StallNext]_stallVars
             PROVE  StallInv'
  OBVIOUS
<1>1. ASSUME NEW q \in Sweeps, StallStep(q)
      PROVE  StallInv'
  BY <1>1, AutoNudgeKeeps, TryAutoReassignKeeps, PickLeastLoadedKeeps, RedispatchKeeps,
     AgentTakesOverKeeps, AgentTakesOverUnheardKeeps, ReadDetailKeeps, SaveReassignedKeeps, RecordReassignKeeps,
     NudgeStallKeeps, SaveNudgedKeeps, RecordNudgeKeeps
     DEF StallStep
<1>2. ASSUME NEW q \in Sweeps, RunSweep(q) \/ NudgeByHand(q) \/ SweepFails(q)
      PROVE  StallInv'
  BY <1>2, RunSweepKeeps, SweepFailsKeeps
<1>3. CASE UNCHANGED stallVars
  BY <1>3 DEF stallVars, StallInv, StallTypeOK, Timely, Recorded, OneActs, NudgesRecorded,
              MovesRecorded, BeatIsSign, Rhythm
<1> QED
  BY <1>1, <1>2, <1>3, PatchTaskAgentHealthKeeps, CompleteTaskWithEventKeeps, HourPassesKeeps
     DEF StallNext

LEMMA StallInvHolds == StallSpec => []StallInv
<1> QED
  BY StallStarts, StallSteps, PTL DEF StallSpec

(* The types of the sweep's state.                                         *)
THEOREM StallTypeCorrect == StallSpec => []StallTypeOK
<1>1. StallInv => StallTypeOK
  BY DEF StallInv
<1> QED
  BY <1>1, StallInvHolds, PTL

(* service.go and autonudge.go: unless a record was erased or overwritten, *)
(* the sweep keeps to its cooldowns and daily caps, and the row's          *)
(* heartbeat is the last sign of life.                                     *)
THEOREM StallRecordsAreKept == StallSpec => []StallRecordsHold
<1>1. StallInv => StallRecordsHold
  BY DEF StallInv, StallRecordsHold, BeatIsSign, Rhythm
<1> QED
  BY <1>1, StallInvHolds, PTL

(***************************************************************************)
(* StoreTwins.                                                             *)
(***************************************************************************)
(***************************************************************************)
(* The two stores, as long as they have not parted, hold the same rows but *)
(* for the leases of rows that are done, each in its own order: the table  *)
(* by id, the slice by position, which is the order of the ids.            *)
(***************************************************************************)
Twin(r, s) == s = r \/ (r.status = "done" /\ s = Freed(r))

TableOK(list, n) ==
    /\ \A r \in list : r.id <= n
    /\ \A r, s \in list : r.id = s.id => r = s
    /\ \A r, s \in list : r.status = "pending" /\ s.status = "pending" /\ r.task = s.task => r = s

SliceOK(list, n) ==
    /\ \A i \in DOMAIN list : list[i].id <= n
    /\ \A i, j \in DOMAIN list : i < j => list[i].id < list[j].id

Matched(list, seq) ==
    /\ \A r \in list : \E i \in DOMAIN seq : Twin(r, seq[i])
    /\ \A i \in DOMAIN seq : \E r \in list : Twin(r, seq[i])

TwinInv ==
    /\ TwinTypeOK
    /\ entered <= calls
    /\ portTable = portMap
    /\ ~parted => /\ TableOK(table, entered) /\ SliceOK(slice, entered)
                  /\ Matched(table, slice)
                  /\ answers.sql = answers.mem

(* What a call finds and leaves.                                           *)
Typed(sql, mem) ==
    /\ sql.rows \subseteq QueueRow /\ sql.says \in Answers
    /\ mem.rows \in Seq(QueueRow) /\ mem.says \in Answers

Agree(sql, mem, n) ==
    /\ TableOK(sql.rows, n) /\ SliceOK(mem.rows, n)
    /\ Matched(sql.rows, mem.rows)
    /\ sql.says = mem.says

Alike == /\ TableOK(table, entered) /\ SliceOK(slice, entered) /\ Matched(table, slice)

LEMMA LeftIs ==
    ASSUME NEW list, NEW says
    PROVE  Left(list, says).rows = list /\ Left(list, says).says = says
  BY DEF Left

LEMMA SliceTypes ==
    ASSUME TwinTypeOK
    PROVE  /\ Len(slice) \in Nat /\ DOMAIN slice = 1 .. Len(slice)
           /\ \A i \in DOMAIN slice : slice[i] \in QueueRow /\ slice[i].id \in Nat
           /\ \A r \in table : r \in QueueRow /\ r.id \in Nat
<1>1. slice \in Seq(QueueRow) /\ table \subseteq QueueRow
  BY DEF TwinTypeOK
<1>2. Len(slice) \in Nat /\ DOMAIN slice = 1 .. Len(slice)
  BY <1>1
<1>3. \A i \in DOMAIN slice : slice[i] \in QueueRow
  BY <1>1
<1>4. \A r \in QueueRow : r.id \in Nat
  BY DEF QueueRow
<1> QED
  BY <1>1, <1>2, <1>3, <1>4

LEMMA LeastIs ==
    ASSUME NEW S \in SUBSET Nat, S # {}
    PROVE  Least(S) \in S /\ \A m \in S : Least(S) <= m
<1> DEFINE Less == {x \in Nat \X Nat : x[1] < x[2]}
<1>1. Less = OpToRel(<, Nat)
  BY DEF OpToRel
<1>2. IsWellFoundedOn(Less, Nat)
  BY <1>1, NatLessThanWellFounded, Zenon
<1>3. PICK n \in S : \A m \in S : <<m, n>> \notin Less
  <2> HIDE DEF Less
  <2> QED
    BY <1>2, WFMin, Zenon
<1>4. \A m \in S : ~(m < n)
  BY <1>3 DEF Less
<1>5. \A m \in S : n <= m
  BY <1>4
<1> QED
  BY <1>5 DEF Least

(* The rows a call writes.                                                 *)
LEMMA FreedIs ==
    ASSUME NEW r \in QueueRow
    PROVE  /\ Freed(r) \in QueueRow /\ Freed(r).id = r.id /\ Freed(r).task = r.task
           /\ Freed(r).status = r.status /\ Freed(r).owner = NoLeaser
<1>1. MaxHalves \in Nat /\ LeaseHalves \in Nat
  BY TwinAssumption
<1>2. 0 \in 0 .. MaxHalves + LeaseHalves
  BY <1>1
<1> QED
  BY <1>2 DEF Freed, QueueRow

LEMMA CompletedIs ==
    ASSUME NEW r \in QueueRow
    PROVE  /\ [r EXCEPT !.status = "done"] \in QueueRow
           /\ [r EXCEPT !.status = "done"].id = r.id
           /\ [r EXCEPT !.status = "done"].task = r.task
           /\ [r EXCEPT !.status = "done"].status = "done"
  BY DEF QueueRow

LEMMA ReservedIs ==
    ASSUME TwinTypeOK, NEW r \in QueueRow, NEW o \in Leasers
    PROVE  LET s == [r EXCEPT !.owner = o, !.exp = halves + LeaseHalves]
           IN  s \in QueueRow /\ s.id = r.id /\ s.task = r.task /\ s.status = r.status
<1>1. halves + LeaseHalves \in 0 .. MaxHalves + LeaseHalves
  BY TwinAssumption DEF TwinTypeOK
<1> QED
  BY <1>1 DEF QueueRow

LEMMA FinishedIs ==
    ASSUME NEW r \in QueueRow, NEW state \in {"none", "merged", "skipped", "conflict", "failed"}
    PROVE  /\ Finished(r, state) \in QueueRow /\ Finished(r, state).id = r.id
           /\ Finished(r, state).task = r.task
           /\ Finished(r, state).status = "pending" => r.status = "pending"
<1>1. PICK f \in QueueRow : f = Freed(r) /\ f.id = r.id /\ f.task = r.task /\ f.status = r.status
  BY FreedIs
<1>2. PICK status \in {"pending", "done"} :
         /\ Finished(r, state) = [f EXCEPT !.state = state, !.status = status]
         /\ status = "done" \/ status = r.status
  BY <1>1 DEF Finished, QueueRow
<1> QED
  BY <1>1, <1>2, ZenonT(90) DEF QueueRow

(* The two stores find the same row.                                       *)
LEMMA TwinsAreOne ==
    ASSUME TwinTypeOK, Alike, NEW r \in table, NEW i \in DOMAIN slice, Twin(r, slice[i])
    PROVE  /\ r.id = slice[i].id /\ r.task = slice[i].task /\ r.status = slice[i].status
           /\ r.status = "pending" => slice[i] = r
           /\ \A j \in DOMAIN slice : slice[j].id = r.id => j = i
           /\ \A s \in table : s.id = r.id => s = r
<1>1. r \in QueueRow /\ slice[i] \in QueueRow
  BY SliceTypes
<1>2. r.id = slice[i].id /\ r.task = slice[i].task /\ r.status = slice[i].status
  BY <1>1, FreedIs DEF Twin
<1>3. \A j \in DOMAIN slice : slice[j].id = r.id => j = i
  BY <1>2, SliceTypes DEF Alike, SliceOK
<1>4. \A s \in table : s.id = r.id => s = r
  BY DEF Alike, TableOK
<1> QED
  BY <1>2, <1>3, <1>4 DEF Twin

LEMMA FoundByID ==
    ASSUME TwinTypeOK, Alike, NEW n
    PROVE  /\ {r \in table : r.id = n} = {} <=> {i \in DOMAIN slice : slice[i].id = n} = {}
           /\ \A r \in table : r.id = n =>
                \E i \in DOMAIN slice : Twin(r, slice[i]) /\ {j \in DOMAIN slice : slice[j].id = n} = {i}
<1>1. \A r \in table : r.id = n =>
         \E i \in DOMAIN slice : Twin(r, slice[i]) /\ {j \in DOMAIN slice : slice[j].id = n} = {i}
  <2> TAKE r \in table
  <2> HAVE r.id = n
  <2>1. PICK i \in DOMAIN slice : Twin(r, slice[i])
    BY DEF Alike, Matched
  <2>2. {j \in DOMAIN slice : slice[j].id = n} = {i}
    BY <2>1, TwinsAreOne
  <2> QED
    BY <2>1, <2>2
<1>2. \A i \in DOMAIN slice : \E r \in table : r.id = slice[i].id
  BY TwinsAreOne DEF Alike, Matched
<1> QED
  BY <1>1, <1>2

LEMMA FoundByTask ==
    ASSUME TwinTypeOK, Alike, NEW t \in TwinTasks
    PROVE  /\ Waiting(t) = {} <=> Holding(t) = {}
           /\ \A r \in Waiting(t) :
                /\ Waiting(t) = {r} /\ r \in table /\ r.status = "pending" /\ r.task = t
                /\ Mine(t) \in DOMAIN slice /\ slice[Mine(t)] = r
<1>1. \A i \in Holding(t) : \E r \in Waiting(t) : slice[i] = r
  BY TwinsAreOne DEF Alike, Matched, Holding, Waiting
<1>2. \A r \in Waiting(t) : \E i \in Holding(t) : slice[i] = r
  BY TwinsAreOne DEF Alike, Matched, Holding, Waiting
<1>3. \A r \in Waiting(t) : /\ Waiting(t) = {r} /\ r \in table
                            /\ r.status = "pending" /\ r.task = t
  BY DEF Alike, TableOK, Waiting
<1>4. Holding(t) \in SUBSET Nat /\ Holding(t) \subseteq DOMAIN slice
  BY SliceTypes DEF Holding
<1>5. \A r \in Waiting(t) : Mine(t) \in DOMAIN slice /\ slice[Mine(t)] = r
  <2> TAKE r \in Waiting(t)
  <2>1. Holding(t) # {}
    BY <1>2
  <2>2. Mine(t) \in Holding(t)
    BY <1>4, <2>1, LeastIs DEF Mine
  <2> QED
    BY <1>1, <1>3, <1>4, <2>2
<1> QED
  BY <1>1, <1>2, <1>3, <1>5

LEMMA SameList ==
    ASSUME TwinTypeOK, Alike, NEW p
    PROVE  {slice[i] : i \in MemList(p)} = Queued(p)
<1>1. \A i \in MemList(p) : slice[i] \in Queued(p)
  BY TwinsAreOne DEF Alike, Matched, MemList, Queued
<1>2. \A r \in Queued(p) : \E i \in MemList(p) : slice[i] = r
  BY TwinsAreOne DEF Alike, Matched, MemList, Queued
<1> QED
  BY <1>1, <1>2

LEMMA SameHead ==
    ASSUME TwinTypeOK, Alike, NEW r \in table, r.status = "pending"
    PROVE  IsHead(r) <=> AtHead(r)
<1> DEFINE p == TwinProductOf[r.task]
           ids == {slice[i].id : i \in MemList(p)}
<1>1. {slice[i] : i \in MemList(p)} = Queued(p)
  BY SameList
<1>2. \A m : m \in ids <=> \E s \in Queued(p) : m = s.id
  BY <1>1
<1>3. r \in Queued(p)
  BY DEF Queued
<1>4. ids \in SUBSET Nat /\ r.id \in ids /\ r.id \in Nat
  BY <1>2, <1>3, SliceTypes, ZenonT(90) DEF Queued
<1>5. Least(ids) \in ids /\ \A m \in ids : Least(ids) <= m
  BY <1>4, LeastIs
<1>6. IsHead(r) <=> \A m \in ids : r.id <= m
  BY <1>2 DEF IsHead
<1>7. AtHead(r) <=> r.id = Least(ids)
  BY DEF AtHead, HeadID
<1> HIDE DEF ids
<1>8. Least(ids) \in Nat
  BY <1>4, <1>5
<1> QED
  BY <1>4, <1>5, <1>6, <1>7, <1>8

(***************************************************************************)
(* What a call may do to a pair of rows.                                   *)
(***************************************************************************)
LEMMA Nothing ==
    ASSUME Alike
    PROVE  /\ TableOK(table, entered) /\ SliceOK(slice, entered) /\ Matched(table, slice)
  BY DEF Alike

LEMMA Exchanged ==
    ASSUME TwinTypeOK, Alike, NEW r \in table, NEW i \in DOMAIN slice, Twin(r, slice[i]),
           NEW s \in QueueRow, s.id = r.id, s.task = r.task,
           s.status = "pending" => r.status = "pending",
           NEW z \in QueueRow, z.id = r.id, Twin(s, z)
    PROVE  /\ TableOK(Replaced(r, s), entered) /\ SliceOK(RowChanged(i, z), entered)
           /\ Matched(Replaced(r, s), RowChanged(i, z))
<1> DEFINE T == Replaced(r, s)
           Q == RowChanged(i, z)
<1>1. /\ r.id = slice[i].id
      /\ \A j \in DOMAIN slice : slice[j].id = r.id => j = i
      /\ \A x \in table : x.id = r.id => x = r
  BY TwinsAreOne
<1>2. DOMAIN Q = DOMAIN slice /\ Q[i] = z /\ \A j \in DOMAIN slice : j # i => Q[j] = slice[j]
  BY DEF RowChanged
<1>3. \A x : x \in T <=> (x \in table /\ x # r) \/ x = s
  BY DEF Replaced
<1> HIDE DEF T, Q
<1>4. \A x \in T : x.id <= entered
  BY <1>3 DEF Alike, TableOK
<1>5. \A x, y \in T : x.id = y.id => x = y
  BY <1>1, <1>3 DEF Alike, TableOK
<1>6. \A x, y \in T : x.status = "pending" /\ y.status = "pending" /\ x.task = y.task => x = y
  BY <1>3 DEF Alike, TableOK
<1>7. \A j \in DOMAIN Q : Q[j].id = slice[j].id
  BY <1>1, <1>2
<1>8. SliceOK(Q, entered)
  BY <1>2, <1>7 DEF Alike, SliceOK
<1>9. \A x \in T : \E j \in DOMAIN Q : Twin(x, Q[j])
  <2> TAKE x \in T
  <2>1. CASE x = s
    BY <1>2, <2>1
  <2>2. CASE x # s
    <3>1. x \in table /\ x # r
      BY <1>3, <2>2
    <3>2. PICK j \in DOMAIN slice : Twin(x, slice[j])
      BY <3>1 DEF Alike, Matched
    <3>3. x.id = slice[j].id
      BY <3>1, <3>2, TwinsAreOne
    <3>4. j # i
      BY <1>1, <3>1, <3>3
    <3> QED
      BY <1>2, <3>2, <3>4
  <2> QED
    BY <2>1, <2>2
<1>10. \A j \in DOMAIN Q : \E x \in T : Twin(x, Q[j])
  <2> TAKE j \in DOMAIN Q
  <2>1. CASE j = i
    BY <1>2, <1>3, <2>1
  <2>2. CASE j # i
    <3>1. PICK x \in table : Twin(x, slice[j])
      BY <1>2 DEF Alike, Matched
    <3>2. x.id = slice[j].id
      BY <1>2, <3>1, TwinsAreOne
    <3>3. x # r
      BY <1>1, <1>2, <2>2, <3>2
    <3> QED
      BY <1>2, <1>3, <2>2, <3>1, <3>3
  <2> QED
    BY <2>1, <2>2
<1> QED
  BY <1>4, <1>5, <1>6, <1>8, <1>9, <1>10 DEF T, Q, TableOK, Matched

LEMMA RemovedIs ==
    ASSUME TwinTypeOK, NEW i \in DOMAIN slice
    PROVE  /\ RowRemoved(i) \in Seq(QueueRow)
           /\ DOMAIN RowRemoved(i) = 1 .. Len(slice) - 1
           /\ \A j \in 1 .. Len(slice) - 1 :
                RowRemoved(i)[j] = IF j < i THEN slice[j] ELSE slice[j + 1]
<1>1. /\ Len(slice) \in Nat /\ DOMAIN slice = 1 .. Len(slice) /\ i \in 1 .. Len(slice)
      /\ \A j \in 1 .. Len(slice) : slice[j] \in QueueRow
  BY SliceTypes
<1>2. \A j \in 1 .. Len(slice) - 1 : (IF j < i THEN slice[j] ELSE slice[j + 1]) \in QueueRow
  <2> TAKE j \in 1 .. Len(slice) - 1
  <2>1. j \in 1 .. Len(slice) /\ j + 1 \in 1 .. Len(slice)
    BY <1>1
  <2> QED
    BY <1>1, <2>1
<1>3. Len(slice) - 1 \in Nat
  BY <1>1
<1>4. RowRemoved(i) \in [1 .. Len(slice) - 1 -> QueueRow]
  BY <1>2 DEF RowRemoved
<1>5. RowRemoved(i) \in Seq(QueueRow)
  BY <1>3, <1>4
<1> QED
  BY <1>5 DEF RowRemoved

LEMMA Deleted ==
    ASSUME TwinTypeOK, Alike, NEW r \in table, NEW i \in DOMAIN slice, Twin(r, slice[i])
    PROVE  /\ TableOK(table \ {r}, entered) /\ SliceOK(RowRemoved(i), entered)
           /\ Matched(table \ {r}, RowRemoved(i))
<1> DEFINE T == table \ {r}
           Q == RowRemoved(i)
           n == Len(slice)
           old(j) == IF j < i THEN j ELSE j + 1
<1>1. n \in Nat /\ DOMAIN slice = 1 .. n /\ i \in 1 .. n
  BY SliceTypes
<1>2. DOMAIN Q = 1 .. n - 1 /\ \A j \in 1 .. n - 1 : Q[j] = slice[old(j)]
  BY RemovedIs
<1>3. \A j \in 1 .. n - 1 : old(j) \in 1 .. n /\ old(j) # i
  BY <1>1
<1>4. \A j, k \in 1 .. n - 1 : j < k => old(j) < old(k)
  BY <1>1
<1>5. \A k \in 1 .. n : k # i => \E j \in 1 .. n - 1 : k = old(j)
  <2> TAKE k \in 1 .. n
  <2> HAVE k # i
  <2>1. CASE k < i
    <3>1. k \in 1 .. n - 1 /\ k = old(k)
      BY <1>1, <2>1
    <3> QED
      BY <3>1
  <2>2. CASE ~(k < i)
    <3>1. k - 1 \in 1 .. n - 1 /\ k = old(k - 1)
      BY <1>1, <2>2
    <3> QED
      BY <3>1
  <2> QED
    BY <2>1, <2>2
<1> HIDE DEF T, Q, old, n
<1>6. TableOK(T, entered)
  BY DEF T, Alike, TableOK
<1>7. SliceOK(Q, entered)
  <2>1. \A j \in 1 .. n - 1 : Q[j].id <= entered
    BY <1>1, <1>2, <1>3 DEF Alike, SliceOK
  <2>2. \A j, k \in 1 .. n - 1 : j < k => Q[j].id < Q[k].id
    BY <1>1, <1>2, <1>3, <1>4 DEF Alike, SliceOK
  <2> QED
    BY <1>2, <2>1, <2>2 DEF SliceOK
<1>8. r.id = slice[i].id /\ \A j \in DOMAIN slice : slice[j].id = r.id => j = i
  BY TwinsAreOne
<1>9. \A x \in T : \E j \in DOMAIN Q : Twin(x, Q[j])
  <2> TAKE x \in T
  <2>1. x \in table /\ x # r
    BY DEF T
  <2>2. PICK k \in DOMAIN slice : Twin(x, slice[k])
    BY <2>1 DEF Alike, Matched
  <2>3. x.id = slice[k].id
    BY <2>1, <2>2, TwinsAreOne
  <2>4. k # i
    BY <1>8, <2>1, <2>3 DEF Alike, TableOK
  <2> QED
    BY <1>1, <1>2, <1>5, <2>2, <2>4
<1>10. \A j \in DOMAIN Q : \E x \in T : Twin(x, Q[j])
  <2> TAKE j \in DOMAIN Q
  <2>1. Q[j] = slice[old(j)] /\ old(j) \in DOMAIN slice /\ old(j) # i
    BY <1>1, <1>2, <1>3
  <2>2. PICK x \in table : Twin(x, slice[old(j)])
    BY <2>1 DEF Alike, Matched
  <2>3. x.id = slice[old(j)].id
    BY <2>1, <2>2, TwinsAreOne
  <2>4. x # r
    BY <1>8, <2>1, <2>3
  <2> QED
    BY <2>1, <2>2, <2>4 DEF T
<1> QED
  BY <1>6, <1>7, <1>9, <1>10 DEF T, Q, Matched

LEMMA EntryIs ==
    ASSUME TwinTypeOK, entered < MaxTwinCalls, NEW t \in TwinTasks
    PROVE  /\ Entry(t) \in QueueRow /\ Entry(t).id = entered + 1 /\ Entry(t).task = t
           /\ Entry(t).status = "pending"
<1>1. MaxHalves \in Nat /\ LeaseHalves \in Nat /\ MaxTwinCalls \in Nat
  BY TwinAssumption
<1>2. 0 \in 0 .. MaxHalves + LeaseHalves /\ entered + 1 \in 1 .. MaxTwinCalls
  BY <1>1 DEF TwinTypeOK
<1> QED
  BY <1>2 DEF Entry, QueueRow

LEMMA Added ==
    ASSUME TwinTypeOK, Alike, entered < MaxTwinCalls, NEW t \in TwinTasks, Waiting(t) = {}
    PROVE  /\ TableOK(table \cup {Entry(t)}, entered + 1)
           /\ SliceOK(Append(slice, Entry(t)), entered + 1)
           /\ Matched(table \cup {Entry(t)}, Append(slice, Entry(t)))
<1> DEFINE e == Entry(t)
           T == table \cup {e}
           Q == Append(slice, e)
           n == Len(slice)
<1>1. /\ n \in Nat /\ DOMAIN slice = 1 .. n /\ entered \in Nat
      /\ \A j \in 1 .. n : slice[j] \in QueueRow /\ slice[j].id \in Nat
      /\ \A r \in table : r \in QueueRow /\ r.id \in Nat
  BY SliceTypes DEF TwinTypeOK
<1>2. e \in QueueRow /\ e.id = entered + 1 /\ e.task = t /\ e.status = "pending"
  BY EntryIs
<1>3. DOMAIN Q = 1 .. n + 1 /\ Q[n + 1] = e /\ \A j \in 1 .. n : Q[j] = slice[j]
  BY <1>1 DEF TwinTypeOK
<1> HIDE DEF T, Q, e, n
<1>4. TableOK(T, entered + 1)
  <2>1. \A r \in table : r.id <= entered /\ r.id # e.id /\ r.id <= entered + 1
    BY <1>1, <1>2 DEF Alike, TableOK
  <2>2. \A r \in table : ~(r.status = "pending" /\ r.task = t)
    BY DEF Waiting
  <2>3. \A r \in T : r.id <= entered + 1
    BY <1>1, <1>2, <2>1 DEF T
  <2>4. \A r, s \in T : r.id = s.id => r = s
    BY <2>1 DEF T, Alike, TableOK
  <2>5. \A r, s \in T : r.status = "pending" /\ s.status = "pending" /\ r.task = s.task => r = s
    BY <1>2, <2>2 DEF T, Alike, TableOK
  <2> QED
    BY <2>3, <2>4, <2>5 DEF TableOK
<1>5. SliceOK(Q, entered + 1)
  <2>1. \A j \in 1 .. n : Q[j].id <= entered /\ Q[j].id < e.id
    BY <1>1, <1>2, <1>3 DEF Alike, SliceOK
  <2>2. \A j \in 1 .. n + 1 : Q[j].id <= entered + 1
    BY <1>1, <1>2, <1>3, <2>1 DEF Alike, SliceOK
  <2>3. \A j, k \in 1 .. n : j < k => Q[j].id < Q[k].id
    BY <1>1, <1>3 DEF Alike, SliceOK
  <2>4. \A j, k \in 1 .. n + 1 : j < k => Q[j].id < Q[k].id
    BY <1>1, <1>3, <2>1, <2>3
  <2> QED
    BY <1>3, <2>2, <2>4 DEF SliceOK
<1>6. \A x \in T : \E j \in DOMAIN Q : Twin(x, Q[j])
  <2> TAKE x \in T
  <2>1. CASE x = e
    <3>1. n + 1 \in DOMAIN Q /\ Twin(x, Q[n + 1])
      BY <1>1, <1>3, <2>1 DEF Twin
    <3> QED
      BY <3>1
  <2>2. CASE x # e
    <3>1. PICK j \in DOMAIN slice : Twin(x, slice[j])
      BY <2>2 DEF T, Alike, Matched
    <3>2. j \in DOMAIN Q /\ Q[j] = slice[j]
      BY <1>1, <1>3
    <3> QED
      BY <3>1, <3>2
  <2> QED
    BY <2>1, <2>2
<1>7. \A j \in DOMAIN Q : \E x \in T : Twin(x, Q[j])
  <2> TAKE j \in DOMAIN Q
  <2>1. CASE j = n + 1
    BY <1>3, <2>1 DEF T, Twin
  <2>2. CASE j # n + 1
    <3>1. j \in DOMAIN slice /\ Q[j] = slice[j]
      BY <1>1, <1>3, <2>2
    <3>2. PICK x \in table : Twin(x, slice[j])
      BY <3>1 DEF Alike, Matched
    <3> QED
      BY <3>1, <3>2 DEF T
  <2> QED
    BY <2>1, <2>2
<1> QED
  BY <1>4, <1>5, <1>6, <1>7 DEF T, Q, e, Matched

(* A call made to both stores.                                             *)
LEMMA BothKeeps ==
    ASSUME TwinInv, NEW sql, NEW mem, TwinCall, Both(sql, mem), Typed(sql, mem),
           entered' \in {entered, entered + 1}, parted' \in BOOLEAN, parted => parted',
           ~parted' => Agree(sql, mem, entered')
    PROVE  TwinInv'
<1>1. /\ table' = sql.rows /\ slice' = mem.rows /\ answers' = [sql |-> sql.says, mem |-> mem.says]
      /\ portTable' = portTable /\ portMap' = portMap /\ halves' = halves
      /\ calls < MaxTwinCalls /\ calls' = calls + 1
  BY DEF Both, TwinCall
<1>2. TwinTypeOK /\ entered <= calls /\ portTable = portMap
  BY DEF TwinInv
<1>3. /\ entered \in Nat /\ calls \in Nat /\ MaxTwinCalls \in Nat
  BY <1>2, TwinAssumption DEF TwinTypeOK
<1>4. entered' <= calls' /\ entered' \in 0 .. MaxTwinCalls /\ calls' \in 0 .. MaxTwinCalls
  BY <1>1, <1>2, <1>3
<1>5. /\ table' \subseteq QueueRow /\ slice' \in Seq(QueueRow)
      /\ answers' \in [sql : Answers, mem : Answers]
      /\ answers'.sql = sql.says /\ answers'.mem = mem.says
  BY <1>1 DEF Typed
<1>6. TwinTypeOK'
  BY <1>1, <1>2, <1>4, <1>5 DEF TwinTypeOK
<1> QED
  BY <1>1, <1>2, <1>4, <1>5, <1>6 DEF TwinInv, Agree

\* As the row is found after the stores have parted.
LEMMA FoundTypes ==
    ASSUME TwinTypeOK, NEW t
    PROVE  /\ Waiting(t) # {} => (CHOOSE r \in Waiting(t) : TRUE) \in table
           /\ Holding(t) # {} => Mine(t) \in DOMAIN slice /\ slice[Mine(t)] \in QueueRow
<1>1. Waiting(t) \subseteq table
  BY DEF Waiting
<1>2. Holding(t) \in SUBSET Nat /\ Holding(t) \subseteq DOMAIN slice
  BY SliceTypes DEF Holding
<1>3. Holding(t) # {} => Mine(t) \in Holding(t)
  BY <1>2, LeastIs DEF Mine
<1> QED
  BY <1>1, <1>2, <1>3, SliceTypes

LEMMA ChangedTypes ==
    ASSUME TwinTypeOK, NEW r \in table, NEW s \in QueueRow, NEW i \in DOMAIN slice
    PROVE  Replaced(r, s) \subseteq QueueRow /\ RowChanged(i, s) \in Seq(QueueRow)
<1>1. Replaced(r, s) \subseteq QueueRow
  BY DEF TwinTypeOK, Replaced
<1>2. RowChanged(i, s) \in Seq(QueueRow)
  BY DEF TwinTypeOK, RowChanged
<1> QED
  BY <1>1, <1>2

(***************************************************************************)
(* The calls.                                                              *)
(***************************************************************************)
LEMMA TwinParts ==
    ASSUME TwinInv
    PROVE  /\ TwinTypeOK /\ table \subseteq QueueRow /\ slice \in Seq(QueueRow)
           /\ ~parted => Alike
           /\ \A a \in {"ok", "conflict", "not_found", "not_head", "busy", "exhausted"} : a \in Answers
  BY DEF TwinInv, TwinTypeOK, Alike, Answers

LEMMA EnqueueKeeps ==
    ASSUME TwinInv, NEW t \in TwinTasks, Enqueue(t)
    PROVE  TwinInv'
<1> DEFINE sql == SqlEnqueue(t)
           mem == MemEnqueue(t)
<1>1. /\ TwinCall /\ Both(sql, mem) /\ parted' = parted
      /\ entered' = IF sql.says = "ok" THEN entered + 1 ELSE entered
  BY DEF Enqueue
<1>2. entered < MaxTwinCalls
  BY <1>1, TwinAssumption DEF TwinCall, TwinInv, TwinTypeOK
<1>3. /\ sql = IF Waiting(t) # {} THEN Left(table, "conflict") ELSE Left(table \cup {Entry(t)}, "ok")
      /\ mem = IF Holding(t) # {} THEN Left(slice, "conflict") ELSE Left(Append(slice, Entry(t)), "ok")
  BY DEF SqlEnqueue, MemEnqueue
<1>4. Entry(t) \in QueueRow
  BY <1>2, TwinParts, EntryIs
<1> HIDE DEF sql, mem
<1>5. Typed(sql, mem)
  <2>1. sql.rows \subseteq QueueRow /\ sql.says \in Answers
    BY <1>3, <1>4, TwinParts, LeftIs
  <2>2. Append(slice, Entry(t)) \in Seq(QueueRow)
    BY <1>4, TwinParts
  <2>3. CASE Holding(t) = {}
    <3>1. mem.rows = Append(slice, Entry(t)) /\ mem.says = "ok"
      BY <1>3, <2>3, LeftIs
    <3> QED
      BY <2>1, <2>2, <3>1, TwinParts DEF Typed
  <2>4. CASE Holding(t) # {}
    <3>1. mem.rows = slice /\ mem.says = "conflict"
      BY <1>3, <2>4, LeftIs
    <3> QED
      BY <2>1, <3>1, TwinParts DEF Typed
  <2> QED
    BY <2>3, <2>4
<1>6. ASSUME ~parted
      PROVE  Agree(sql, mem, entered')
  <2>1. Alike /\ TwinTypeOK
    BY <1>6, TwinParts
  <2>2. Waiting(t) = {} <=> Holding(t) = {}
    BY <2>1, FoundByTask
  <2>3. CASE Waiting(t) = {}
    BY <1>1, <1>2, <1>3, <2>1, <2>2, <2>3, Added, LeftIs DEF Agree
  <2>4. CASE Waiting(t) # {}
    <3>1. sql.rows = table /\ mem.rows = slice /\ sql.says = "conflict" /\ mem.says = "conflict"
      BY <1>3, <2>2, <2>4, LeftIs
    <3> QED
      BY <1>1, <2>1, <3>1 DEF Agree, Alike
  <2> QED
    BY <2>3, <2>4
<1>7. entered' \in {entered, entered + 1} /\ parted' \in BOOLEAN /\ (parted => parted')
  BY <1>1, TwinParts DEF TwinTypeOK
<1> QED
  BY <1>1, <1>5, <1>6, <1>7, BothKeeps

LEMMA CompletePendingKeeps ==
    ASSUME TwinInv, NEW t \in TwinTasks, CompletePending(t)
    PROVE  TwinInv'
<1> DEFINE sql == SqlComplete(t)
           mem == MemComplete(t)
           r == CHOOSE r \in Waiting(t) : TRUE
           i == Mine(t)
           z == Freed([slice[i] EXCEPT !.status = "done"])
           s == [r EXCEPT !.status = "done"]
<1>1. TwinCall /\ Both(sql, mem) /\ parted' = parted /\ entered' = entered
  BY DEF CompletePending
<1>2. /\ sql = IF Waiting(t) = {} THEN Left(table, "not_found")
               ELSE IF IsHead(r) THEN Left(Replaced(r, s), "ok") ELSE Left(table, "not_head")
      /\ mem = IF Holding(t) = {} THEN Left(slice, "not_found")
               ELSE IF AtHead(slice[i]) THEN Left(RowChanged(i, z), "ok")
               ELSE Left(slice, "not_head")
  BY DEF SqlComplete, MemComplete
<1>3. Waiting(t) # {} => r \in table /\ r \in QueueRow /\ s \in QueueRow /\ s.id = r.id
                         /\ s.task = r.task /\ s.status = "done"
  BY TwinParts, FoundTypes, CompletedIs DEF TwinTypeOK
<1>4. Holding(t) # {} => i \in DOMAIN slice /\ slice[i] \in QueueRow /\ z \in QueueRow
                         /\ z.id = slice[i].id
  BY TwinParts, FoundTypes, CompletedIs, FreedIs
<1>5. slice[i] = r => z = Freed(s)
  OBVIOUS
<1>6. parted' \in BOOLEAN
  BY <1>1, TwinParts DEF TwinTypeOK
<1> HIDE DEF sql, mem, r, i, s, z
<1>7. Typed(sql, mem)
  <2>1. sql.rows \subseteq QueueRow /\ sql.says \in Answers
    BY <1>2, <1>3, TwinParts, LeftIs DEF Replaced
  <2>2. mem.rows \in Seq(QueueRow) /\ mem.says \in Answers
    BY <1>2, <1>4, TwinParts, LeftIs DEF RowChanged
  <2> QED
    BY <2>1, <2>2 DEF Typed
<1>8. ASSUME ~parted
      PROVE  Agree(sql, mem, entered)
  <2>1. Alike /\ TwinTypeOK
    BY <1>8, TwinParts
  <2>2. Waiting(t) = {} <=> Holding(t) = {}
    BY <2>1, FoundByTask
  <2>3. CASE Waiting(t) = {}
    <3>1. sql.rows = table /\ mem.rows = slice /\ sql.says = mem.says
      BY <1>2, <2>2, <2>3, LeftIs
    <3> QED
      BY <2>1, <3>1 DEF Agree, Alike
  <2>4. CASE Waiting(t) # {}
    <3>1. r \in Waiting(t)
      BY <2>4 DEF r
    <3>2. r.status = "pending" /\ slice[i] = r /\ i \in DOMAIN slice /\ r \in table
      BY <2>1, <3>1, FoundByTask DEF i
    <3>3. IsHead(r) <=> AtHead(slice[i])
      BY <2>1, <3>2, SameHead
    <3>4. CASE IsHead(r)
      <4>1. Twin(r, slice[i]) /\ Twin(s, z)
        BY <1>3, <1>5, <2>4, <3>2 DEF Twin
      <4>2. /\ TableOK(Replaced(r, s), entered) /\ SliceOK(RowChanged(i, z), entered)
            /\ Matched(Replaced(r, s), RowChanged(i, z))
        BY <1>3, <1>4, <2>1, <2>2, <2>4, <3>2, <4>1, Exchanged
      <4>3. sql.rows = Replaced(r, s) /\ mem.rows = RowChanged(i, z) /\ sql.says = mem.says
        BY <1>2, <2>2, <2>4, <3>3, <3>4, LeftIs
      <4> QED
        BY <4>2, <4>3 DEF Agree
    <3>5. CASE ~IsHead(r)
      <4>1. sql.rows = table /\ mem.rows = slice /\ sql.says = mem.says
        BY <1>2, <2>2, <2>4, <3>3, <3>5, LeftIs
      <4> QED
        BY <2>1, <4>1 DEF Agree, Alike
    <3> QED
      BY <3>4, <3>5
  <2> QED
    BY <2>3, <2>4
<1> QED
  BY <1>1, <1>6, <1>7, <1>8, BothKeeps

LEMMA CancelPendingKeeps ==
    ASSUME TwinInv, NEW t \in TwinTasks, CancelPending(t)
    PROVE  TwinInv'
<1> DEFINE sql == SqlCancel(t)
           mem == MemCancel(t)
           r == CHOOSE r \in Waiting(t) : TRUE
           i == Mine(t)
<1>1. TwinCall /\ Both(sql, mem) /\ parted' = parted /\ entered' = entered
  BY DEF CancelPending
<1>2. /\ sql = IF Waiting(t) = {} THEN Left(table, "not_found")
               ELSE IF IsHead(r) /\ Leased(r) /\ r.exp > halves THEN Left(table, "busy")
               ELSE Left(table \ {r}, "ok")
      /\ mem = IF Holding(t) = {} THEN Left(slice, "not_found")
               ELSE IF AtHead(slice[i]) /\ Leased(slice[i]) /\ slice[i].exp > halves
                      THEN Left(slice, "busy")
               ELSE Left(RowRemoved(i), "ok")
  BY DEF SqlCancel, MemCancel
<1>3. Holding(t) # {} => i \in DOMAIN slice
  BY TwinParts, FoundTypes
<1>4. parted' \in BOOLEAN
  BY <1>1, TwinParts DEF TwinTypeOK
<1> HIDE DEF sql, mem, r, i
<1>5. Typed(sql, mem)
  <2>1. sql.rows \subseteq QueueRow /\ sql.says \in Answers
    BY <1>2, TwinParts, LeftIs
  <2>2. mem.rows \in Seq(QueueRow) /\ mem.says \in Answers
    BY <1>2, <1>3, TwinParts, LeftIs, RemovedIs
  <2> QED
    BY <2>1, <2>2 DEF Typed
<1>6. ASSUME ~parted
      PROVE  Agree(sql, mem, entered)
  <2>1. Alike /\ TwinTypeOK
    BY <1>6, TwinParts
  <2>2. Waiting(t) = {} <=> Holding(t) = {}
    BY <2>1, FoundByTask
  <2>3. CASE Waiting(t) = {}
    <3>1. sql.rows = table /\ mem.rows = slice /\ sql.says = mem.says
      BY <1>2, <2>2, <2>3, LeftIs
    <3> QED
      BY <2>1, <3>1 DEF Agree, Alike
  <2>4. CASE Waiting(t) # {}
    <3>1. r \in Waiting(t)
      BY <2>4 DEF r
    <3>2. r.status = "pending" /\ slice[i] = r /\ i \in DOMAIN slice /\ r \in table
      BY <2>1, <3>1, FoundByTask DEF i
    <3>3. IsHead(r) <=> AtHead(slice[i])
      BY <2>1, <3>2, SameHead
    <3>4. CASE IsHead(r) /\ Leased(r) /\ r.exp > halves
      <4>1. sql.rows = table /\ mem.rows = slice /\ sql.says = mem.says
        BY <1>2, <2>2, <2>4, <3>2, <3>3, <3>4, LeftIs
      <4> QED
        BY <2>1, <4>1 DEF Agree, Alike
    <3>5. CASE ~(IsHead(r) /\ Leased(r) /\ r.exp > halves)
      <4>1. Twin(r, slice[i])
        BY <3>2 DEF Twin
      <4>2. sql.rows = table \ {r} /\ mem.rows = RowRemoved(i) /\ sql.says = mem.says
        BY <1>2, <2>2, <2>4, <3>2, <3>3, <3>5, LeftIs
      <4> QED
        BY <2>1, <3>2, <4>1, <4>2, Deleted DEF Agree
    <3> QED
      BY <3>4, <3>5
  <2> QED
    BY <2>3, <2>4
<1> QED
  BY <1>1, <1>4, <1>5, <1>6, BothKeeps

\* Text and time are ordered alike but within one second.
LEMMA TextOrder ==
    ASSUME NEW a \in Nat, NEW b \in Nat, a \div 2 # b \div 2
    PROVE  AsText(a) >= AsText(b) <=> a > b
  BY DEF AsText

LEMMA ReserveHeadForShipKeeps ==
    ASSUME TwinInv, NEW t \in TwinTasks, NEW o \in Leasers, ReserveHeadForShip(t, o)
    PROVE  TwinInv'
<1> DEFINE sql == SqlReserve(t, o)
           mem == MemReserve(t, o)
           r == CHOOSE r \in Waiting(t) : TRUE
           i == Mine(t)
           s == [r EXCEPT !.owner = o, !.exp = halves + LeaseHalves]
           z == [slice[i] EXCEPT !.owner = o, !.exp = halves + LeaseHalves]
<1>1. TwinCall /\ Both(sql, mem) /\ parted' = (parted \/ Judges(t)) /\ entered' = entered
  BY DEF ReserveHeadForShip
<1>2. /\ sql = IF Waiting(t) = {} THEN Left(table, "not_found")
               ELSE IF ~IsHead(r) THEN Left(table, "not_head")
               ELSE IF Leased(r) /\ AsText(r.exp) >= AsText(halves) THEN Left(table, "busy")
               ELSE Left(Replaced(r, s), "ok")
      /\ mem = IF Holding(t) = {} THEN Left(slice, "not_found")
               ELSE IF ~AtHead(slice[i]) THEN Left(slice, "not_head")
               ELSE IF Leased(slice[i]) /\ slice[i].exp > halves THEN Left(slice, "busy")
               ELSE Left(RowChanged(i, z), "ok")
  BY DEF SqlReserve, MemReserve
<1>3. Waiting(t) # {} => r \in table /\ r \in QueueRow /\ s \in QueueRow /\ s.id = r.id
                         /\ s.task = r.task /\ s.status = r.status
  BY TwinParts, FoundTypes, ReservedIs
<1>4. Holding(t) # {} => i \in DOMAIN slice /\ slice[i] \in QueueRow /\ z \in QueueRow
                         /\ z.id = slice[i].id
  BY TwinParts, FoundTypes, ReservedIs
<1>5. slice[i] = r => z = s
  OBVIOUS
<1>6. parted' \in BOOLEAN
  BY <1>1, TwinParts DEF TwinTypeOK, Judges
<1> HIDE DEF sql, mem, r, i, s, z
<1>7. Typed(sql, mem)
  <2>1. sql.rows \subseteq QueueRow /\ sql.says \in Answers
    BY <1>2, <1>3, TwinParts, LeftIs DEF Replaced
  <2>2. mem.rows \in Seq(QueueRow) /\ mem.says \in Answers
    BY <1>2, <1>4, TwinParts, LeftIs DEF RowChanged
  <2> QED
    BY <2>1, <2>2 DEF Typed
<1>8. ASSUME ~parted'
      PROVE  Agree(sql, mem, entered)
  <2>1. Alike /\ TwinTypeOK /\ ~Judges(t)
    BY <1>1, <1>8, TwinParts
  <2>2. Waiting(t) = {} <=> Holding(t) = {}
    BY <2>1, FoundByTask
  <2>3. CASE Waiting(t) = {}
    <3>1. sql.rows = table /\ mem.rows = slice /\ sql.says = mem.says
      BY <1>2, <2>2, <2>3, LeftIs
    <3> QED
      BY <2>1, <3>1 DEF Agree, Alike
  <2>4. CASE Waiting(t) # {}
    <3>1. r \in Waiting(t)
      BY <2>4 DEF r
    <3>2. r.status = "pending" /\ slice[i] = r /\ i \in DOMAIN slice /\ r \in table
      BY <2>1, <3>1, FoundByTask DEF i
    <3>3. IsHead(r) <=> AtHead(slice[i])
      BY <2>1, <3>2, SameHead
    <3>4. r.exp \in Nat /\ halves \in Nat
      <4>1. MaxHalves \in Nat /\ LeaseHalves \in Nat
        BY TwinAssumption
      <4>2. r.exp \in 0 .. MaxHalves + LeaseHalves /\ halves \in 0 .. MaxHalves
        BY <1>3, <2>1, <2>4 DEF QueueRow, TwinTypeOK
      <4> QED
        BY <4>1, <4>2
    <3>5. Leased(r) => (AsText(r.exp) >= AsText(halves) <=> r.exp > halves)
      BY <2>1, <3>1, <3>4, TextOrder DEF Judges
    <3>6. CASE ~IsHead(r)
      <4>1. sql.rows = table /\ mem.rows = slice /\ sql.says = mem.says
        BY <1>2, <2>2, <2>4, <3>3, <3>6, LeftIs
      <4> QED
        BY <2>1, <4>1 DEF Agree, Alike
    <3>7. CASE IsHead(r) /\ Leased(r) /\ r.exp > halves
      <4>1. sql.rows = table /\ mem.rows = slice /\ sql.says = mem.says
        BY <1>2, <2>2, <2>4, <3>2, <3>3, <3>5, <3>7, LeftIs
      <4> QED
        BY <2>1, <4>1 DEF Agree, Alike
    <3>8. CASE IsHead(r) /\ ~(Leased(r) /\ r.exp > halves)
      <4>1. Twin(r, slice[i]) /\ Twin(s, z)
        BY <1>5, <3>2 DEF Twin
      <4>2. /\ TableOK(Replaced(r, s), entered) /\ SliceOK(RowChanged(i, z), entered)
            /\ Matched(Replaced(r, s), RowChanged(i, z))
        BY <1>3, <1>4, <2>1, <2>2, <2>4, <3>2, <4>1, Exchanged
      <4>3. sql.rows = Replaced(r, s) /\ mem.rows = RowChanged(i, z) /\ sql.says = mem.says
        BY <1>2, <2>2, <2>4, <3>2, <3>3, <3>5, <3>8, LeftIs
      <4> QED
        BY <4>2, <4>3 DEF Agree
    <3> QED
      BY <3>6, <3>7, <3>8
  <2> QED
    BY <2>3, <2>4
<1> QED
  BY <1>1, <1>6, <1>7, <1>8, BothKeeps

LEMMA FinishShipKeeps ==
    ASSUME TwinInv, NEW n, NEW o \in Leasers, NEW s \in ShipResults,
           FinishShip(n, o, s[1], s[2])
    PROVE  TwinInv'
<1> DEFINE state == Normalized(s[1], s[2])
           sql == SqlFinish(n, o, state)
           mem == MemFinish(n, o, state)
           there == {x \in table : x.id = n}
           at == {j \in DOMAIN slice : slice[j].id = n}
           r == CHOOSE x \in there : TRUE
           i == Least(at)
<1>1. TwinCall /\ Both(sql, mem) /\ parted' = (parted \/ ByHand(n, o)) /\ entered' = entered
  BY DEF FinishShip
<1>2. /\ sql = IF there = {} THEN Left(table, "not_found")
               ELSE IF r.owner # o THEN Left(table, "busy")
               ELSE Left(Replaced(r, Finished(r, state)), "ok")
      /\ mem = IF at = {} THEN Left(slice, "not_found")
               ELSE IF slice[i].owner # o THEN Left(slice, "busy")
               ELSE Left(RowChanged(i, Finished(slice[i], state)), "ok")
  BY DEF SqlFinish, MemFinish
<1>3. state \in {"none", "merged", "skipped", "conflict", "failed"}
  BY DEF ShipResults, Normalized
<1>4. there # {} => r \in table /\ r \in QueueRow /\ r.id = n
  BY TwinParts
<1>5. at # {} => i \in at /\ i \in DOMAIN slice /\ slice[i] \in QueueRow
  <2>1. at \in SUBSET Nat
    BY TwinParts, SliceTypes
  <2> QED
    BY <2>1, LeastIs, TwinParts, SliceTypes
<1>6. parted' \in BOOLEAN
  BY <1>1, TwinParts DEF TwinTypeOK, ByHand
<1> HIDE DEF sql, mem, r, i, state
<1>7. Typed(sql, mem)
  <2>1. there # {} => Finished(r, state) \in QueueRow
    BY <1>3, <1>4, FinishedIs
  <2>2. at # {} => Finished(slice[i], state) \in QueueRow
    BY <1>3, <1>5, FinishedIs
  <2>3. sql.rows \subseteq QueueRow /\ sql.says \in Answers
    BY <1>2, <2>1, TwinParts, LeftIs DEF Replaced
  <2>4. mem.rows \in Seq(QueueRow) /\ mem.says \in Answers
    BY <1>2, <1>5, <2>2, TwinParts, LeftIs DEF RowChanged
  <2> QED
    BY <2>3, <2>4 DEF Typed
<1>8. ASSUME ~parted'
      PROVE  Agree(sql, mem, entered)
  <2>1. Alike /\ TwinTypeOK /\ ~ByHand(n, o)
    BY <1>1, <1>8, TwinParts
  <2>2. there = {} <=> at = {}
    BY <2>1, FoundByID
  <2>3. CASE there = {}
    <3>1. sql.rows = table /\ mem.rows = slice /\ sql.says = mem.says
      BY <1>2, <2>2, <2>3, LeftIs
    <3> QED
      BY <2>1, <3>1 DEF Agree, Alike
  <2>4. CASE there # {}
    <3>1. Twin(r, slice[i]) /\ i \in DOMAIN slice
      BY <1>4, <1>5, <2>1, <2>2, <2>4, FoundByID
    <3>2. slice[i] = r \/ (r.status = "done" /\ slice[i] = Freed(r))
      BY <3>1 DEF Twin
    <3>3. r.owner # o <=> slice[i].owner # o
      BY <1>4, <2>1, <2>4, <3>2, FreedIs, TwinAssumption DEF ByHand
    <3>4. CASE r.owner # o
      <4>1. sql.rows = table /\ mem.rows = slice /\ sql.says = mem.says
        BY <1>2, <2>2, <2>4, <3>3, <3>4, LeftIs
      <4> QED
        BY <2>1, <4>1 DEF Agree, Alike
    <3>5. CASE r.owner = o
      <4>1. slice[i] = r
        BY <1>4, <2>1, <2>4, <3>2, <3>5 DEF ByHand
      <4>2. PICK f \in QueueRow : /\ f = Finished(r, state) /\ f.id = r.id /\ f.task = r.task
                                  /\ f.status = "pending" => r.status = "pending"
        BY <1>3, <1>4, <2>4, FinishedIs
      <4>3. Twin(f, f)
        BY DEF Twin
      <4>4. /\ TableOK(Replaced(r, f), entered) /\ SliceOK(RowChanged(i, f), entered)
            /\ Matched(Replaced(r, f), RowChanged(i, f))
        BY <1>4, <2>1, <2>4, <3>1, <4>2, <4>3, Exchanged
      <4>5. sql.rows = Replaced(r, f) /\ mem.rows = RowChanged(i, f) /\ sql.says = mem.says
        BY <1>2, <2>2, <2>4, <3>3, <3>5, <4>1, <4>2, LeftIs
      <4> QED
        BY <4>4, <4>5 DEF Agree
    <3> QED
      BY <3>4, <3>5
  <2> QED
    BY <2>3, <2>4
<1> QED
  BY <1>1, <1>6, <1>7, <1>8, BothKeeps

LEMMA ReleaseShipLeaseKeeps ==
    ASSUME TwinInv, NEW n, NEW o \in Leasers, ReleaseShipLease(n, o)
    PROVE  TwinInv'
<1> DEFINE sql == SqlRelease(n, o)
           mem == MemRelease(n, o)
           at == {j \in DOMAIN slice : slice[j].id = n /\ slice[j].owner = o}
           i == Least(at)
           list == {IF x.id = n /\ x.owner = o THEN Freed(x) ELSE x : x \in table}
<1>1. TwinCall /\ Both(sql, mem) /\ parted' = parted /\ entered' = entered
  BY DEF ReleaseShipLease
<1>2. /\ sql = Left(list, "ok")
      /\ mem = Left(IF at = {} THEN slice ELSE RowChanged(i, Freed(slice[i])), "ok")
  BY DEF SqlRelease, MemRelease
<1>3. at # {} => i \in at /\ i \in DOMAIN slice /\ slice[i] \in QueueRow
  <2>1. at \in SUBSET Nat
    BY TwinParts, SliceTypes
  <2> QED
    BY <2>1, LeastIs, TwinParts, SliceTypes
<1>4. list \subseteq QueueRow
  BY TwinParts, FreedIs
<1>5. parted' \in BOOLEAN
  BY <1>1, TwinParts DEF TwinTypeOK
<1> HIDE DEF sql, mem, i
<1>6. Typed(sql, mem)
  <2>1. sql.rows \subseteq QueueRow /\ sql.says \in Answers
    BY <1>2, <1>4, TwinParts, LeftIs
  <2>2. at # {} => Freed(slice[i]) \in QueueRow
    BY <1>3, FreedIs
  <2>3. mem.rows \in Seq(QueueRow) /\ mem.says \in Answers
    BY <1>2, <1>3, <2>2, TwinParts, LeftIs DEF RowChanged
  <2> QED
    BY <2>1, <2>3 DEF Typed
<1>7. ASSUME ~parted
      PROVE  Agree(sql, mem, entered)
  <2>1. Alike /\ TwinTypeOK
    BY <1>7, TwinParts
  <2>2. sql.rows = list /\ sql.says = mem.says
    BY <1>2, LeftIs
  <2>3. CASE \E x \in table : x.id = n /\ x.owner = o
    <3>1. PICK r \in table : r.id = n /\ r.owner = o
      BY <2>3
    <3>2. r \in QueueRow /\ \A x \in table : x.id = n => x = r
      BY <2>1, <3>1, SliceTypes DEF Alike, TableOK
    <3>3. list = Replaced(r, Freed(r))
      BY <3>1, <3>2 DEF Replaced
    <3>4. PICK k \in DOMAIN slice : /\ Twin(r, slice[k])
                                    /\ {j \in DOMAIN slice : slice[j].id = n} = {k}
      BY <2>1, <3>1, FoundByID
    <3>5. PICK f \in QueueRow : /\ f = Freed(r) /\ f.id = r.id /\ f.task = r.task
                                /\ f.status = r.status /\ f.owner = NoLeaser
      BY <3>2, FreedIs
    <3>6. Twin(f, f)
      BY DEF Twin
    <3>7. /\ TableOK(Replaced(r, f), entered) /\ SliceOK(RowChanged(k, f), entered)
          /\ Matched(Replaced(r, f), RowChanged(k, f))
      BY <2>1, <3>4, <3>5, <3>6, Exchanged
    <3>8. mem.rows = RowChanged(k, f)
      <4>1. CASE slice[k] = r
        <5>1. at = {k}
          BY <3>1, <3>4, <4>1
        <5>2. i = k
          BY <1>3, <5>1
        <5> QED
          BY <1>2, <3>5, <4>1, <5>1, <5>2, LeftIs
      <4>2. CASE slice[k] # r
        <5>1. slice[k] = f
          BY <3>4, <3>5, <4>2 DEF Twin
        <5>2. at = {}
          BY <3>4, <3>5, <5>1, TwinAssumption
        <5>3. RowChanged(k, f) = slice
          BY <2>1, <3>4, <5>1 DEF RowChanged, TwinTypeOK
        <5> QED
          BY <1>2, <5>2, <5>3, LeftIs
      <4> QED
        BY <4>1, <4>2
    <3> QED
      BY <2>2, <3>3, <3>5, <3>7, <3>8 DEF Agree
  <2>4. CASE ~\E x \in table : x.id = n /\ x.owner = o
    <3>1. list = table
      BY <2>4
    <3>2. \A j \in DOMAIN slice : ~(slice[j].id = n /\ slice[j].owner = o)
      <4> SUFFICES ASSUME NEW j \in DOMAIN slice, slice[j].id = n, slice[j].owner = o
                   PROVE  FALSE
        OBVIOUS
      <4>1. PICK x \in table : Twin(x, slice[j])
        BY <2>1 DEF Alike, Matched
      <4>2. x.id = n /\ x \in QueueRow
        BY <2>1, <4>1, TwinsAreOne, SliceTypes
      <4>3. slice[j] = Freed(x)
        BY <2>4, <4>1, <4>2 DEF Twin
      <4> QED
        BY <4>2, <4>3, FreedIs, TwinAssumption
    <3>3. mem.rows = slice
      BY <1>2, <3>2, LeftIs
    <3> QED
      BY <2>1, <2>2, <3>1, <3>3 DEF Agree, Alike
  <2> QED
    BY <2>3, <2>4
<1> QED
  BY <1>1, <1>5, <1>6, <1>7, BothKeeps

LEMMA PortsKeep ==
    ASSUME TwinInv, TwinAllocate \/ \E p \in 1 .. LastTwinPort : TwinRelease(p)
    PROVE  TwinInv'
<1>1. TwinTypeOK /\ entered <= calls /\ portTable = portMap
  BY DEF TwinInv
<1>2. PICK ports \in SUBSET (1 .. LastTwinPort), says \in Answers :
         PortCall(ports, ports, says, says)
  <2>1. CASE TwinAllocate
    <3>1. Spare(portTable) \in SUBSET Nat /\ Spare(portTable) \subseteq 1 .. LastTwinPort
      BY TwinAssumption DEF Spare
    <3>2. Spare(portTable) # {} => Least(Spare(portTable)) \in Spare(portTable)
      BY <3>1, LeastIs
    <3>3. Taken(portTable) \in SUBSET (1 .. LastTwinPort)
      BY <1>1, <3>1, <3>2 DEF Taken, TwinTypeOK
    <3>4. Given(portTable) \in Answers
      BY DEF Given, Answers
    <3> QED
      BY <1>1, <2>1, <3>3, <3>4 DEF TwinAllocate
  <2>2. ASSUME NEW p \in 1 .. LastTwinPort, TwinRelease(p)
        PROVE  \E ports \in SUBSET (1 .. LastTwinPort), says \in Answers :
                 PortCall(ports, ports, says, says)
    <3>1. portTable \ {p} \in SUBSET (1 .. LastTwinPort)
      BY <1>1 DEF TwinTypeOK
    <3>2. (IF p \in portTable THEN "ok" ELSE "not_found") \in Answers
      BY DEF Answers
    <3> QED
      BY <1>1, <2>2, <3>1, <3>2 DEF TwinRelease
  <2> QED
    BY <2>1, <2>2
<1>3. /\ table' = table /\ slice' = slice /\ entered' = entered /\ halves' = halves
      /\ parted' = parted /\ portTable' = ports /\ portMap' = ports
      /\ answers' = [sql |-> says, mem |-> says]
      /\ calls < MaxTwinCalls /\ calls' = calls + 1
  BY <1>2 DEF PortCall, TwinCall
<1>4. entered \in Nat /\ calls \in Nat /\ MaxTwinCalls \in Nat
  BY <1>1, TwinAssumption DEF TwinTypeOK
<1>5. entered' <= calls' /\ calls' \in 0 .. MaxTwinCalls
  BY <1>1, <1>3, <1>4
<1>6. answers' \in [sql : Answers, mem : Answers] /\ answers'.sql = answers'.mem
  BY <1>3
<1>7. TwinTypeOK'
  BY <1>1, <1>3, <1>5, <1>6 DEF TwinTypeOK
<1> QED
  BY <1>3, <1>5, <1>6, <1>7 DEF TwinInv

LEMMA HalfPassesKeeps ==
    ASSUME TwinInv, HalfPasses
    PROVE  TwinInv'
<1>1. /\ table' = table /\ slice' = slice /\ entered' = entered /\ portTable' = portTable
      /\ portMap' = portMap /\ calls' = calls /\ answers' = answers /\ parted' = parted
      /\ halves < MaxHalves /\ halves' = halves + 1
  BY DEF HalfPasses
<1>2. halves' \in 0 .. MaxHalves
  BY <1>1, TwinAssumption DEF TwinInv, TwinTypeOK
<1>3. TwinTypeOK'
  BY <1>1, <1>2 DEF TwinInv, TwinTypeOK
<1> QED
  BY <1>1, <1>3 DEF TwinInv

LEMMA TwinStarts == TwinInit => TwinInv
<1> SUFFICES ASSUME TwinInit
             PROVE  TwinInv
  OBVIOUS
<1>1. MaxHalves \in Nat /\ 2 <= MaxHalves /\ MaxTwinCalls \in Nat
  BY TwinAssumption
<1>2. answers \in [sql : Answers, mem : Answers] /\ answers.sql = answers.mem
  BY DEF TwinInit, Answers
<1>3. TwinTypeOK
  <2>1. 2 \in 0 .. MaxHalves /\ 0 \in 0 .. MaxTwinCalls
    BY <1>1
  <2>2. slice \in Seq(QueueRow)
    BY DEF TwinInit
  <2> QED
    BY <1>2, <2>1, <2>2 DEF TwinInit, TwinTypeOK
<1>4. TableOK(table, entered) /\ SliceOK(slice, entered) /\ Matched(table, slice)
  BY DEF TwinInit, TableOK, SliceOK, Matched
<1> QED
  BY <1>2, <1>3, <1>4 DEF TwinInit, TwinInv

LEMMA TwinSteps == TwinInv /\ [TwinNext]_twinVars => TwinInv'
<1> SUFFICES ASSUME TwinInv, [TwinNext]_twinVars
             PROVE  TwinInv'
  OBVIOUS
<1>1. ASSUME NEW t \in TwinTasks, \/ Enqueue(t) \/ CompletePending(t) \/ CancelPending(t)
                                  \/ \E o \in Leasers : ReserveHeadForShip(t, o)
      PROVE  TwinInv'
  BY <1>1, EnqueueKeeps, CompletePendingKeeps, CancelPendingKeeps, ReserveHeadForShipKeeps
<1>2. ASSUME NEW n \in 1 .. entered, NEW o \in Leasers,
             \/ ReleaseShipLease(n, o)
             \/ \E s \in ShipResults : FinishShip(n, o, s[1], s[2])
      PROVE  TwinInv'
  BY <1>2, ReleaseShipLeaseKeeps, FinishShipKeeps
<1>3. CASE UNCHANGED twinVars
  BY <1>3 DEF twinVars, TwinInv, TwinTypeOK
<1> QED
  BY <1>1, <1>2, <1>3, PortsKeep, HalfPassesKeeps DEF TwinNext

LEMMA TwinInvHolds == TwinSpec => []TwinInv
<1> QED
  BY TwinStarts, TwinSteps, PTL DEF TwinSpec

(* The types of the two stores.                                            *)
THEOREM TwinTypeCorrect == TwinSpec => []TwinTypeOK
<1>1. TwinInv => TwinTypeOK
  BY DEF TwinInv
<1> QED
  BY <1>1, TwinInvHolds, PTL

(* stores.go and the SQLite store: as long as no lease ends within the     *)
(* second it is asked for and no ship is reported for a row that was       *)
(* completed by hand, the two answer alike and hold the same queues and    *)
(* ports.                                                                  *)
THEOREM TwinsAlwaysAgree == TwinSpec => []TwinsAgree
<1>1. TwinInv => TwinsAgree
  <2> SUFFICES ASSUME TwinInv, ~parted
               PROVE  TwinsAgree
    BY DEF TwinsAgree
  <2>1. TwinTypeOK /\ Alike
    BY TwinParts
  <2>2. answers.sql = answers.mem /\ portTable = portMap
    BY DEF TwinInv
  <2>3. ASSUME NEW p \in TwinProducts
        PROVE  /\ {slice[i] : i \in MemList(p)} = Queued(p)
               /\ \A i, j \in MemList(p) : i < j => slice[i].id < slice[j].id
    <3>1. MemList(p) \subseteq DOMAIN slice
      BY DEF MemList
    <3>2. \A i, j \in MemList(p) : i < j => slice[i].id < slice[j].id
      BY <2>1, <3>1 DEF Alike, SliceOK
    <3> QED
      BY <2>1, <3>2, SameList
  <2> QED
    BY <2>2, <2>3 DEF TwinsAgree
<1> QED
  BY <1>1, TwinInvHolds, PTL

(***************************************************************************)
(* Fleet.                                                                  *)
(***************************************************************************)
Remote == Names \cup {Placeholder}

(* What a request is about, by the step it is at.                          *)
Addressed ==
    \A v \in Visits :
      /\ visit[v].at \in {"update", "probe", "persist", "delete"} => visit[v].thing \in Things
      /\ visit[v].at \in {"save", "list", "upsert"} => visit[v].thing \in GatewayIDs
      /\ visit[v].at \in {"hub", "unset"} => visit[v].thing \in HubIDs
      /\ visit[v].at = "settings" => visit[v].thing \in HubIDs \cup {NoID}

(* Ids do not come again, so that a new row has no acknowledged change.    *)
ToldOf ==
    /\ \A x \in gone : ~Exists(x)
    /\ \A x \in Things : ~Exists(x) /\ x \notin gone => told[x] = 0
    /\ \A x \in Things : Exists(x) /\ x \notin tangled => rows[x].config = told[x]
    /\ NoID \notin tangled => settings.auto = told[NoID]

(* What an agent or the settings refer to exists: by the foreign keys of   *)
(* SQLite, and in memory as long as a request is alone.                    *)
Referred ==
    store = "sqlite" \/ ~mixed =>
      /\ \A a \in FleetAgents : bound[a] # NoID => Exists(bound[a])
      /\ settings.hub # NoID => Exists(settings.hub)

ProfilesHang ==
    store = "sqlite" => \A e \in GatewayIDs, n \in Remote : <<e, n>> \in profiles => Exists(e)

(* What one request alone has found out stays true until it acts on it.    *)
OneByOne == \A u, v \in Visits : visit[u].at # "idle" /\ visit[v].at # "idle" => u = v

StillGood(v) ==
    /\ visit[v].at = "save" => Exists(visit[v].thing)
    /\ visit[v].at = "settings" /\ visit[v].thing # NoID => Exists(visit[v].thing)
    /\ visit[v].at \in {"hub", "settings", "unset"} => visit[v].set = settings
    /\ visit[v].at = "delete" => /\ settings.hub # visit[v].thing
                                 /\ \A a \in FleetAgents : bound[a] # visit[v].thing

Checked == store = "memory" /\ ~mixed => OneByOne /\ \A v \in Visits : StillGood(v)

(* A refresh is of an endpoint that exists or is gone for good.            *)
RefreshKnown ==
    \A v \in Visits :
      /\ \A e \in visit[v].todo : Exists(e) \/ e \in gone
      /\ visit[v].at \in {"list", "upsert"} =>
           Exists(visit[v].thing) \/ visit[v].thing \in gone

FreshAsListed ==
    \A e \in fresh, n \in Remote : <<e, n>> \in profiles <=> n \in listed[e]

(* The cache while an endpoint is refreshed, by one request alone.         *)
InFlight ==
    \A v \in Visits : visit[v].at \in {"list", "upsert"} =>
      /\ visit[v].thing \notin fresh
      /\ visit[v].fresh =>
           \A u \in Visits : visit[u].at \in {"list", "upsert"}
                               /\ visit[u].thing = visit[v].thing => u = v
      /\ visit[v].fresh /\ Exists(visit[v].thing) =>
           \A n \in Remote : <<visit[v].thing, n>> \in profiles <=>
              /\ visit[v].at = "upsert" 
              /\ n \in listed[visit[v].thing] /\ n \notin visit[v].found
      /\ visit[v].fresh /\ visit[v].at = "upsert" =>
           visit[v].found \subseteq listed[visit[v].thing]

FleetInv == /\ FleetTypeOK
            /\ Addressed /\ ToldOf /\ Referred /\ ProfilesHang /\ Checked
            /\ RefreshKnown /\ FreshAsListed /\ InFlight

\* The two ways of ClearProfiles and UpsertProfile that go on.
Cleared(v, e) ==
    /\ Stands(v, "clear") /\ e \in visit[v].todo
    /\ profiles' = {p \in profiles : p[1] # e}
    /\ fresh' = fresh \ {e}
    /\ visit' = [u \in Visits |->
         IF u = v
           THEN [visit[v] EXCEPT !.at = "list", !.thing = e, !.todo = @ \ {e},
                                 !.fresh = \A w \in Visits : ~Refreshing(w, e)]
         ELSE IF Refreshing(u, e) THEN [visit[u] EXCEPT !.fresh = FALSE]
         ELSE visit[u]]
    /\ UNCHANGED <<rows, bound, settings, visits, mixed, Untouched>>

Upserted(v, n) ==
    LET e == visit[v].thing
        rest == visit[v].found \ {n}
    IN  /\ Stands(v, "upsert") /\ n \in visit[v].found /\ Refers(e)
        /\ profiles' = profiles \cup {<<e, n>>}
        /\ visit' = [visit EXCEPT ![v].found = rest,
                       ![v].at = IF rest = {} THEN "clear" ELSE "upsert"]
        /\ fresh' = IF rest = {} /\ visit[v].fresh /\ Exists(e) THEN fresh \cup {e} ELSE fresh
        /\ UNCHANGED <<rows, bound, settings, visits, mixed, Untouched>>

LEMMA NoVisitFields ==
    /\ AnyFleetAgent \in FleetAgents
    /\ NoVisit \in Visit
    /\ NoVisit.at = "idle" /\ NoVisit.thing = NoID /\ NoVisit.todo = {} /\ NoVisit.fresh = FALSE
<1>1. AnyFleetAgent \in FleetAgents
  BY FleetAssumption DEF AnyFleetAgent
<1>2. 0 \in Values
  BY FleetAssumption DEF Values
<1> QED
  BY <1>1, <1>2 DEF NoVisit, Visit, Steps, ConfigRow, Settings

LEMMA CreateRowKeeps ==
    ASSUME FleetInv, NEW v \in Visits, NEW x \in Things, CreateRow(v, x)
    PROVE  FleetInv'
<1>1. FleetTypeOK /\ Addressed /\ ToldOf /\ Referred /\ ProfilesHang /\ Checked
      /\ RefreshKnown /\ FreshAsListed /\ InFlight
  BY DEF FleetInv
<1>2. /\ ~Exists(x) /\ x \notin gone
      /\ visit[v].at = "idle" /\ visits < MaxVisits
      /\ visit'[v].at = "idle" /\ visit'[v].thing = NoID /\ visit'[v].todo = {}
      /\ visit'[v].fresh = FALSE
      /\ \A u \in Visits : u # v => visit'[u] = visit[u]
      /\ visit' \in [Visits -> Visit]
  BY FleetAssumption, <1>1, NoVisitFields DEF FleetTypeOK, Addressed, Visit, Steps, Values,
           ConfigRow, Things, Exists, Untouched, Stands, Arrives, CreateRow
<1>3. /\ store' = store
      /\ bound' = bound /\ profiles' = profiles /\ settings' = settings
      /\ gone' = gone /\ told' = told /\ tangled' = tangled /\ fresh' = fresh
      /\ listed' = listed
      /\ rows'[x] = [config |-> 0, state |-> 0] /\ rows' \in [Things -> ConfigRow \cup {NoConfig}]
      /\ \A y \in Things : y # x => rows'[y] = rows[y]
      /\ rows'[x] # NoConfig /\ rows'[x].config = 0
      /\ visits' = visits + 1
      /\ mixed' = (mixed \/ \E u \in Visits : u # v /\ visit[u].at # "idle")
  <2> DEFINE new == [config |-> 0, state |-> 0]
  <2>1. new \in ConfigRow /\ new # NoConfig /\ new.config = 0
    BY FleetAssumption DEF ConfigRow, Values
  <2>2. rows' = [rows EXCEPT ![x] = new]
    BY DEF CreateRow
  <2>3. /\ rows'[x] = new /\ rows' \in [Things -> ConfigRow \cup {NoConfig}]
        /\ \A y \in Things : y # x => rows'[y] = rows[y]
    BY <1>1, <2>1, <2>2 DEF FleetTypeOK
  <2> QED
    BY <1>2, <2>1, <2>3 DEF CreateRow, Arrives, Untouched, Stands
<1>4. FleetTypeOK'
  BY FleetAssumption, <1>1, <1>2, <1>3 DEF FleetTypeOK, Values, Visit, ConfigRow, Things,
           Settings, Profiles
<1>5. Addressed'
  BY FleetAssumption, <1>1, <1>2, <1>3 DEF Addressed, Things
<1>6. ToldOf'
  BY FleetAssumption, <1>1, <1>2, <1>3 DEF ToldOf, Exists, FleetTypeOK, ConfigRow,
           Settings, Things, Addressed
<1>7. Referred'
  BY FleetAssumption, <1>1, <1>2, <1>3 DEF Referred, Exists, FleetTypeOK, Settings, Things,
           Addressed
<1>12. ProfilesHang'
  BY FleetAssumption, <1>1, <1>2, <1>3 DEF ProfilesHang, Exists, FleetTypeOK, Things
<1>8. ASSUME store' = "memory", ~mixed'
      PROVE  OneByOne' /\ \A u \in Visits : StillGood(u)'
  <2>1. ~mixed /\ store = "memory" /\ OneByOne /\ \A u \in Visits : StillGood(u)
    BY <1>1, <1>3, <1>8 DEF Checked
  <2>2. \A u \in Visits : u # v => visit'[u].at = "idle"
    BY <1>2, <1>3, <1>8
  <2>3. StillGood(v)'
    BY FleetAssumption, <1>1, <1>2, <1>3, <2>1 DEF StillGood, Exists, FleetTypeOK, Visit,
             Settings, Things, Addressed
  <2> QED
    BY <2>2, <2>3 DEF StillGood, OneByOne
<1>9. RefreshKnown'
  BY FleetAssumption, <1>1, <1>2, <1>3, SMTT(60)
     DEF RefreshKnown, Exists, FleetTypeOK, Visit, Things, Addressed
<1>10. FreshAsListed'
  BY FleetAssumption, <1>1, <1>2, <1>3 DEF FreshAsListed, Remote, FleetTypeOK, Things
<1>11. InFlight'
  BY FleetAssumption, <1>1, <1>2, <1>3 DEF InFlight, RefreshKnown, Remote, Exists, FleetTypeOK,
           Visit, Things, Addressed
<1> QED
  BY <1>4, <1>5, <1>6, <1>7, <1>8, <1>9, <1>10, <1>11, <1>12 DEF FleetInv, Checked

LEMMA PatchRowKeeps ==
    ASSUME FleetInv, NEW v \in Visits, NEW x \in Things, PatchRow(v, x)
    PROVE  FleetInv'
<1>1. FleetTypeOK /\ Addressed /\ ToldOf /\ Referred /\ ProfilesHang /\ Checked
      /\ RefreshKnown /\ FreshAsListed /\ InFlight
  BY DEF FleetInv
<1>2. /\ Exists(x)
      /\ visit[v].at = "idle" /\ visits < MaxVisits
      /\ visit'[v].at = "update" /\ visit'[v].thing = x /\ visit'[v].seen = rows[x]
      /\ visit'[v].value = visits + 1 /\ visit'[v].todo = {}
      /\ visit'[v].fresh = FALSE
      /\ \A u \in Visits : u # v => visit'[u] = visit[u]
      /\ visit' \in [Visits -> Visit]
  <2> DEFINE r == [NoVisit EXCEPT !.at = "update", !.thing = x, !.seen = rows[x],
                                   !.value = visits + 1]
  <2>1. visits + 1 \in Values
    BY FleetAssumption, <1>1 DEF PatchRow, Arrives, FleetTypeOK, Values
  <2>2. /\ r \in Visit
        /\ r.at = "update" /\ r.thing = x /\ r.seen = rows[x]
        /\ r.value = visits + 1 /\ r.todo = {}
        /\ r.fresh = FALSE
    BY FleetAssumption, <1>1, <2>1, NoVisitFields, ZenonT(90) DEF PatchRow, NoVisit, Visit, Steps,
             ConfigRow,
       Settings, Things, Exists, FleetTypeOK, Values
  <2>3. /\ Exists(x)
        /\ visit[v].at = "idle" /\ visits < MaxVisits
    BY DEF PatchRow, Arrives, Stands
  <2>4. visit' = [visit EXCEPT ![v] = r]
    BY DEF PatchRow, Arrives
  <2> HIDE DEF r
  <2> QED
    BY <1>1, <2>2, <2>3, <2>4 DEF FleetTypeOK
<1>3. /\ store' = store
      /\ rows' = rows /\ bound' = bound /\ profiles' = profiles
      /\ settings' = settings /\ gone' = gone /\ told' = told /\ tangled' = tangled
      /\ fresh' = fresh /\ listed' = listed
      /\ visits' = visits + 1
      /\ mixed' = (mixed \/ \E u \in Visits : u # v /\ visit[u].at # "idle")
  BY <1>1, <1>2 DEF FleetTypeOK, Visit, Exists, Untouched, Stands, Arrives, PatchRow
<1>4. FleetTypeOK'
  BY FleetAssumption, <1>1, <1>2, <1>3 DEF FleetTypeOK, Values, Visit, ConfigRow, Things,
           Settings, Profiles
<1>5. Addressed'
  BY FleetAssumption, <1>1, <1>2, <1>3 DEF Addressed, Things
<1>6. ToldOf'
  BY FleetAssumption, <1>1, <1>2, <1>3 DEF ToldOf, Exists, FleetTypeOK, ConfigRow,
           Settings, Things, Addressed
<1>7. Referred'
  BY FleetAssumption, <1>1, <1>2, <1>3 DEF Referred, Exists, FleetTypeOK, Settings, Things,
           Addressed
<1>12. ProfilesHang'
  BY FleetAssumption, <1>1, <1>2, <1>3 DEF ProfilesHang, Exists, FleetTypeOK, Things
<1>8. ASSUME store' = "memory", ~mixed'
      PROVE  OneByOne' /\ \A u \in Visits : StillGood(u)'
  <2>1. ~mixed /\ store = "memory" /\ OneByOne /\ \A u \in Visits : StillGood(u)
    BY <1>1, <1>3, <1>8 DEF Checked
  <2>2. \A u \in Visits : u # v => visit'[u].at = "idle"
    BY <1>2, <1>3, <1>8
  <2>3. StillGood(v)'
    BY FleetAssumption, <1>1, <1>2, <1>3, <2>1 DEF StillGood, Exists, FleetTypeOK, Visit,
             Settings, Things, Addressed
  <2> QED
    BY <2>2, <2>3 DEF StillGood, OneByOne
<1>9. RefreshKnown'
  BY FleetAssumption, <1>1, <1>2, <1>3 DEF RefreshKnown, Exists, FleetTypeOK, Visit, Things, Addressed
<1>10. FreshAsListed'
  BY FleetAssumption, <1>1, <1>2, <1>3 DEF FreshAsListed, Remote, FleetTypeOK, Things
<1>11. InFlight'
  BY FleetAssumption, <1>1, <1>2, <1>3, SMTT(60) DEF InFlight, Remote, Exists, FleetTypeOK, Visit,
           Things, Addressed
<1> QED
  BY <1>4, <1>5, <1>6, <1>7, <1>8, <1>9, <1>10, <1>11, <1>12 DEF FleetInv, Checked

LEMMA UpdateRowKeeps ==
    ASSUME FleetInv, NEW v \in Visits, UpdateRow(v)
    PROVE  FleetInv'
<1>1. FleetTypeOK /\ Addressed /\ ToldOf /\ Referred /\ ProfilesHang /\ Checked
      /\ RefreshKnown /\ FreshAsListed /\ InFlight
  BY DEF FleetInv
<1>2. /\ visit[v].at = "update" /\ visit[v].thing \in Things /\ visit[v].value \in Values /\ visit[v].seen \in ConfigRow
      /\ visit'[v].at = "idle" /\ visit'[v].thing = NoID /\ visit'[v].todo = {}
      /\ visit'[v].fresh = FALSE
      /\ \A u \in Visits : u # v => visit'[u] = visit[u]
      /\ visit' \in [Visits -> Visit]
  BY FleetAssumption, <1>1, NoVisitFields DEF FleetTypeOK, Addressed, Visit, Steps, Values,
           ConfigRow, Things, Exists, Untouched, Stands, WriteRow, Leaves, UpdateRow
<1>3. /\ store' = store
      /\ bound' = bound /\ profiles' = profiles /\ settings' = settings
      /\ visits' = visits /\ gone' = gone /\ fresh' = fresh /\ listed' = listed
      /\ mixed' = mixed
      /\ rows' \in [Things -> ConfigRow \cup {NoConfig}]
      /\ \A x \in Things : rows'[x] # NoConfig <=> rows[x] # NoConfig
      /\ \A x \in Things : x # visit[v].thing => rows'[x] = rows[x]
      /\ rows[visit[v].thing] # NoConfig => rows'[visit[v].thing].config = visit[v].value
      /\ tangled \subseteq tangled' /\ tangled' \subseteq Things \cup {NoID}
      /\ NoID \in tangled' <=> NoID \in tangled
      /\ told' \in [Things \cup {NoID} -> Values] /\ told'[NoID] = told[NoID]
      /\ rows[visit[v].thing] # NoConfig => told'[visit[v].thing] = visit[v].value
      /\ rows[visit[v].thing] = NoConfig => told'[visit[v].thing] = told[visit[v].thing]
      /\ \A x \in Things : x # visit[v].thing => told'[x] = told[x]
  <2> DEFINE x == visit[v].thing
             new == [visit[v].seen EXCEPT !.config = visit[v].value]
  <2>1. new \in ConfigRow /\ new # NoConfig /\ new.config = visit[v].value
    BY FleetAssumption, <1>2 DEF ConfigRow
  <2>2. /\ rows' = IF rows[x] # NoConfig THEN [rows EXCEPT ![x] = new] ELSE rows
        /\ tangled' = IF rows[x] # NoConfig /\ rows[x] # visit[v].seen
                       THEN tangled \cup {x} ELSE tangled
        /\ told' = IF rows[x] # NoConfig THEN [told EXCEPT ![x] = visit[v].value] ELSE told
    BY DEF UpdateRow, WriteRow, Exists
  <2>3. store' = store /\ UNCHANGED <<bound, profiles, settings, visits, gone, fresh, listed, mixed>>
    BY DEF UpdateRow
  <2> HIDE DEF new
  <2>4. x \in Things /\ x # NoID
    BY FleetAssumption, <1>2
  <2> QED
    BY <1>1, <1>2, <2>1, <2>2, <2>3, <2>4 DEF FleetTypeOK
<1>4. FleetTypeOK'
  BY FleetAssumption, <1>1, <1>2, <1>3 DEF FleetTypeOK, Values, Visit, ConfigRow, Things,
           Settings, Profiles
<1>5. Addressed'
  BY FleetAssumption, <1>1, <1>2, <1>3 DEF Addressed, Things
<1>6. ToldOf'
  BY FleetAssumption, <1>1, <1>2, <1>3 DEF ToldOf, Exists, FleetTypeOK, ConfigRow,
           Settings, Things, Addressed
<1>7. Referred'
  BY FleetAssumption, <1>1, <1>2, <1>3 DEF Referred, Exists, FleetTypeOK, Settings, Things,
           Addressed
<1>12. ProfilesHang'
  BY FleetAssumption, <1>1, <1>2, <1>3 DEF ProfilesHang, Exists, FleetTypeOK, Things
<1>8. ASSUME store' = "memory", ~mixed'
      PROVE  OneByOne' /\ \A u \in Visits : StillGood(u)'
  <2>1. ~mixed /\ store = "memory" /\ OneByOne /\ \A u \in Visits : StillGood(u)
    BY <1>1, <1>3, <1>8 DEF Checked
  <2>2. \A u \in Visits : u # v => visit'[u].at = "idle"
    BY <1>2, <2>1 DEF OneByOne
  <2>3. StillGood(v)'
    BY FleetAssumption, <1>1, <1>2, <1>3, <2>1 DEF StillGood, Exists, FleetTypeOK, Visit,
             Settings, Things, Addressed
  <2> QED
    BY <2>2, <2>3 DEF StillGood, OneByOne
<1>9. RefreshKnown'
  BY FleetAssumption, <1>1, <1>2, <1>3 DEF RefreshKnown, Exists, FleetTypeOK, Visit, Things, Addressed
<1>10. FreshAsListed'
  BY FleetAssumption, <1>1, <1>2, <1>3 DEF FreshAsListed, Remote, FleetTypeOK, Things
<1>11. InFlight'
  BY FleetAssumption, <1>1, <1>2, <1>3, SMTT(60) DEF InFlight, Remote, Exists, FleetTypeOK, Visit,
           Things, Addressed
<1> QED
  BY <1>4, <1>5, <1>6, <1>7, <1>8, <1>9, <1>10, <1>11, <1>12 DEF FleetInv, Checked

LEMMA TestConnectionKeeps ==
    ASSUME FleetInv, NEW v \in Visits, NEW e \in GatewayIDs, TestConnection(v, e)
    PROVE  FleetInv'
<1>1. FleetTypeOK /\ Addressed /\ ToldOf /\ Referred /\ ProfilesHang /\ Checked
      /\ RefreshKnown /\ FreshAsListed /\ InFlight
  BY DEF FleetInv
<1>2. /\ Exists(e)
      /\ visit[v].at = "idle" /\ visits < MaxVisits
      /\ visit'[v].at = "probe" /\ visit'[v].thing = e
      /\ visit'[v].value = visits + 1 /\ visit'[v].todo = {}
      /\ visit'[v].fresh = FALSE
      /\ \A u \in Visits : u # v => visit'[u] = visit[u]
      /\ visit' \in [Visits -> Visit]
  <2> DEFINE r == [NoVisit EXCEPT !.at = "probe", !.thing = e, !.value = visits + 1]
  <2>1. visits + 1 \in Values
    BY FleetAssumption, <1>1 DEF TestConnection, Arrives, FleetTypeOK, Values
  <2>2. /\ r \in Visit
        /\ r.at = "probe" /\ r.thing = e
        /\ r.value = visits + 1 /\ r.todo = {}
        /\ r.fresh = FALSE
    BY FleetAssumption, <1>1, <2>1, NoVisitFields DEF TestConnection, NoVisit, Visit,
             Steps, ConfigRow,
       Settings, Things, Exists, FleetTypeOK, Values
  <2>3. /\ Exists(e)
        /\ visit[v].at = "idle" /\ visits < MaxVisits
    BY DEF TestConnection, Arrives, Stands
  <2>4. visit' = [visit EXCEPT ![v] = r]
    BY DEF TestConnection, Arrives
  <2> HIDE DEF r
  <2> QED
    BY <1>1, <2>2, <2>3, <2>4 DEF FleetTypeOK
<1>3. /\ store' = store
      /\ rows' = rows /\ bound' = bound /\ profiles' = profiles
      /\ settings' = settings /\ gone' = gone /\ told' = told /\ tangled' = tangled
      /\ fresh' = fresh /\ listed' = listed
      /\ visits' = visits + 1
      /\ mixed' = (mixed \/ \E u \in Visits : u # v /\ visit[u].at # "idle")
  BY <1>1, <1>2 DEF FleetTypeOK, Visit, Exists, Untouched, Stands, Arrives, TestConnection
<1>4. FleetTypeOK'
  BY FleetAssumption, <1>1, <1>2, <1>3 DEF FleetTypeOK, Values, Visit, ConfigRow, Things,
           Settings, Profiles
<1>5. Addressed'
  BY FleetAssumption, <1>1, <1>2, <1>3 DEF Addressed, Things
<1>6. ToldOf'
  BY FleetAssumption, <1>1, <1>2, <1>3 DEF ToldOf, Exists, FleetTypeOK, ConfigRow,
           Settings, Things, Addressed
<1>7. Referred'
  BY FleetAssumption, <1>1, <1>2, <1>3 DEF Referred, Exists, FleetTypeOK, Settings, Things,
           Addressed
<1>12. ProfilesHang'
  BY FleetAssumption, <1>1, <1>2, <1>3 DEF ProfilesHang, Exists, FleetTypeOK, Things
<1>8. ASSUME store' = "memory", ~mixed'
      PROVE  OneByOne' /\ \A u \in Visits : StillGood(u)'
  <2>1. ~mixed /\ store = "memory" /\ OneByOne /\ \A u \in Visits : StillGood(u)
    BY <1>1, <1>3, <1>8 DEF Checked
  <2>2. \A u \in Visits : u # v => visit'[u].at = "idle"
    BY <1>2, <1>3, <1>8
  <2>3. StillGood(v)'
    BY FleetAssumption, <1>1, <1>2, <1>3, <2>1 DEF StillGood, Exists, FleetTypeOK, Visit,
             Settings, Things, Addressed
  <2> QED
    BY <2>2, <2>3 DEF StillGood, OneByOne
<1>9. RefreshKnown'
  BY FleetAssumption, <1>1, <1>2, <1>3 DEF RefreshKnown, Exists, FleetTypeOK, Visit, Things, Addressed
<1>10. FreshAsListed'
  BY FleetAssumption, <1>1, <1>2, <1>3 DEF FreshAsListed, Remote, FleetTypeOK, Things
<1>11. InFlight'
  BY FleetAssumption, <1>1, <1>2, <1>3, SMTT(60) DEF InFlight, Remote, Exists, FleetTypeOK, Visit,
           Things, Addressed
<1> QED
  BY <1>4, <1>5, <1>6, <1>7, <1>8, <1>9, <1>10, <1>11, <1>12 DEF FleetInv, Checked

LEMMA ReadAfterProbeKeeps ==
    ASSUME FleetInv, NEW v \in Visits, ReadAfterProbe(v)
    PROVE  FleetInv'
<1>1. FleetTypeOK /\ Addressed /\ ToldOf /\ Referred /\ ProfilesHang /\ Checked
      /\ RefreshKnown /\ FreshAsListed /\ InFlight
  BY DEF FleetInv
<1>2. /\ visit[v].at = "probe"
      /\ \/ visit'[v].at = "persist" /\ visit'[v].thing = visit[v].thing /\ visit'[v].todo = visit[v].todo
         \/ visit'[v].at = "idle" /\ visit'[v].todo = {}
      /\ \A u \in Visits : u # v => visit'[u] = visit[u]
      /\ visit' \in [Visits -> Visit]
  BY FleetAssumption, <1>1, NoVisitFields DEF FleetTypeOK, Addressed, Visit, Steps, Values,
           ConfigRow, Things, Exists, Untouched, Stands, Leaves, ReadAfterProbe
<1>3. /\ store' = store
      /\ rows' = rows /\ bound' = bound /\ profiles' = profiles
      /\ settings' = settings /\ visits' = visits /\ gone' = gone /\ told' = told
      /\ tangled' = tangled /\ fresh' = fresh /\ listed' = listed /\ mixed' = mixed
  BY <1>1, <1>2 DEF FleetTypeOK, Visit, Exists, Untouched, Stands, Leaves, ReadAfterProbe
<1>4. FleetTypeOK'
  BY FleetAssumption, <1>1, <1>2, <1>3 DEF FleetTypeOK, Values, Visit, ConfigRow, Things,
           Settings, Profiles
<1>5. Addressed'
  BY FleetAssumption, <1>1, <1>2, <1>3 DEF Addressed, Things
<1>6. ToldOf'
  BY FleetAssumption, <1>1, <1>2, <1>3 DEF ToldOf, Exists, FleetTypeOK, ConfigRow,
           Settings, Things, Addressed
<1>7. Referred'
  BY FleetAssumption, <1>1, <1>2, <1>3 DEF Referred, Exists, FleetTypeOK, Settings, Things,
           Addressed
<1>12. ProfilesHang'
  BY FleetAssumption, <1>1, <1>2, <1>3 DEF ProfilesHang, Exists, FleetTypeOK, Things
<1>8. ASSUME store' = "memory", ~mixed'
      PROVE  OneByOne' /\ \A u \in Visits : StillGood(u)'
  <2>1. ~mixed /\ store = "memory" /\ OneByOne /\ \A u \in Visits : StillGood(u)
    BY <1>1, <1>3, <1>8 DEF Checked
  <2>2. \A u \in Visits : u # v => visit'[u].at = "idle"
    BY <1>2, <2>1 DEF OneByOne
  <2>3. StillGood(v)'
    BY FleetAssumption, <1>1, <1>2, <1>3, <2>1 DEF StillGood, Exists, FleetTypeOK, Visit,
             Settings, Things, Addressed
  <2> QED
    BY <2>2, <2>3 DEF StillGood, OneByOne
<1>9. RefreshKnown'
  BY FleetAssumption, <1>1, <1>2, <1>3 DEF RefreshKnown, Exists, FleetTypeOK, Visit, Things, Addressed
<1>10. FreshAsListed'
  BY FleetAssumption, <1>1, <1>2, <1>3 DEF FreshAsListed, Remote, FleetTypeOK, Things
<1>11. InFlight'
  BY FleetAssumption, <1>1, <1>2, <1>3 DEF InFlight, Remote, Exists, FleetTypeOK, Visit,
           Things, Addressed
<1> QED
  BY <1>4, <1>5, <1>6, <1>7, <1>8, <1>9, <1>10, <1>11, <1>12 DEF FleetInv, Checked

LEMMA PersistStatusKeeps ==
    ASSUME FleetInv, NEW v \in Visits, PersistStatus(v)
    PROVE  FleetInv'
<1>1. FleetTypeOK /\ Addressed /\ ToldOf /\ Referred /\ ProfilesHang /\ Checked
      /\ RefreshKnown /\ FreshAsListed /\ InFlight
  BY DEF FleetInv
<1>2. /\ visit[v].at = "persist" /\ visit[v].thing \in Things /\ visit[v].value \in Values /\ visit[v].seen \in ConfigRow
      /\ visit'[v].at = "idle" /\ visit'[v].thing = NoID /\ visit'[v].todo = {}
      /\ visit'[v].fresh = FALSE
      /\ \A u \in Visits : u # v => visit'[u] = visit[u]
      /\ visit' \in [Visits -> Visit]
  BY FleetAssumption, <1>1, NoVisitFields DEF FleetTypeOK, Addressed, Visit, Steps, Values,
           ConfigRow, Things, Exists, Untouched, Stands, WriteRow, Leaves, PersistStatus
<1>3. /\ store' = store
      /\ bound' = bound /\ profiles' = profiles /\ settings' = settings
      /\ visits' = visits /\ gone' = gone /\ told' = told /\ fresh' = fresh
      /\ listed' = listed /\ mixed' = mixed
      /\ rows' \in [Things -> ConfigRow \cup {NoConfig}]
      /\ \A x \in Things : rows'[x] # NoConfig <=> rows[x] # NoConfig
      /\ \A x \in Things : x # visit[v].thing => rows'[x] = rows[x]
      /\ tangled \subseteq tangled' /\ tangled' \subseteq Things \cup {NoID}
      /\ NoID \in tangled' <=> NoID \in tangled
      /\ visit[v].thing \notin tangled' /\ rows[visit[v].thing] # NoConfig
         => rows'[visit[v].thing].config = rows[visit[v].thing].config
  <2> DEFINE x == visit[v].thing
             new == [visit[v].seen EXCEPT !.state = visit[v].value]
  <2>1. new \in ConfigRow /\ new # NoConfig /\ new.config = visit[v].seen.config
    BY FleetAssumption, <1>2 DEF ConfigRow
  <2>2. /\ rows' = IF rows[x] # NoConfig THEN [rows EXCEPT ![x] = new] ELSE rows
        /\ tangled' = IF rows[x] # NoConfig /\ rows[x] # visit[v].seen
                       THEN tangled \cup {x} ELSE tangled
    BY DEF PersistStatus, WriteRow, Exists
  <2>3. store' = store /\ UNCHANGED <<bound, profiles, settings, visits, gone, told, fresh, listed, mixed>>
    BY DEF PersistStatus
  <2> HIDE DEF new
  <2>4. x \in Things /\ x # NoID
    BY FleetAssumption, <1>2
  <2> QED
    BY <1>1, <1>2, <2>1, <2>2, <2>3, <2>4 DEF FleetTypeOK
<1>4. FleetTypeOK'
  BY FleetAssumption, <1>1, <1>2, <1>3 DEF FleetTypeOK, Values, Visit, ConfigRow, Things,
           Settings, Profiles
<1>5. Addressed'
  BY FleetAssumption, <1>1, <1>2, <1>3 DEF Addressed, Things
<1>6. ToldOf'
  BY FleetAssumption, <1>1, <1>2, <1>3 DEF ToldOf, Exists, FleetTypeOK, ConfigRow,
           Settings, Things, Addressed
<1>7. Referred'
  BY FleetAssumption, <1>1, <1>2, <1>3 DEF Referred, Exists, FleetTypeOK, Settings, Things,
           Addressed
<1>12. ProfilesHang'
  BY FleetAssumption, <1>1, <1>2, <1>3 DEF ProfilesHang, Exists, FleetTypeOK, Things
<1>8. ASSUME store' = "memory", ~mixed'
      PROVE  OneByOne' /\ \A u \in Visits : StillGood(u)'
  <2>1. ~mixed /\ store = "memory" /\ OneByOne /\ \A u \in Visits : StillGood(u)
    BY <1>1, <1>3, <1>8 DEF Checked
  <2>2. \A u \in Visits : u # v => visit'[u].at = "idle"
    BY <1>2, <2>1 DEF OneByOne
  <2>3. StillGood(v)'
    BY FleetAssumption, <1>1, <1>2, <1>3, <2>1 DEF StillGood, Exists, FleetTypeOK, Visit,
             Settings, Things, Addressed
  <2> QED
    BY <2>2, <2>3 DEF StillGood, OneByOne
<1>9. RefreshKnown'
  BY FleetAssumption, <1>1, <1>2, <1>3 DEF RefreshKnown, Exists, FleetTypeOK, Visit, Things, Addressed
<1>10. FreshAsListed'
  BY FleetAssumption, <1>1, <1>2, <1>3 DEF FreshAsListed, Remote, FleetTypeOK, Things
<1>11. InFlight'
  BY FleetAssumption, <1>1, <1>2, <1>3 DEF InFlight, Remote, Exists, FleetTypeOK, Visit,
           Things, Addressed
<1> QED
  BY <1>4, <1>5, <1>6, <1>7, <1>8, <1>9, <1>10, <1>11, <1>12 DEF FleetInv, Checked

LEMMA RegisterKeeps ==
    ASSUME FleetInv, NEW v \in Visits, NEW a \in FleetAgents, NEW e \in GatewayIDs, Register(v, a, e)
    PROVE  FleetInv'
<1>1. FleetTypeOK /\ Addressed /\ ToldOf /\ Referred /\ ProfilesHang /\ Checked
      /\ RefreshKnown /\ FreshAsListed /\ InFlight
  BY DEF FleetInv
<1>2. /\ Exists(e)
      /\ visit[v].at = "idle" /\ visits < MaxVisits
      /\ visit'[v].at = "save" /\ visit'[v].thing = e /\ visit'[v].todo = {}
      /\ visit'[v].fresh = FALSE /\ visit'[v].agent = a
      /\ \A u \in Visits : u # v => visit'[u] = visit[u]
      /\ visit' \in [Visits -> Visit]
  BY FleetAssumption, <1>1, NoVisitFields, ZenonT(90)
     DEF FleetTypeOK, Addressed, Visit, Steps, Values,
           ConfigRow, Things, Exists, Untouched, Stands, Arrives, Register
<1>3. /\ store' = store
      /\ rows' = rows /\ bound' = bound /\ profiles' = profiles
      /\ settings' = settings /\ gone' = gone /\ told' = told /\ tangled' = tangled
      /\ fresh' = fresh /\ listed' = listed
      /\ visits' = visits + 1
      /\ mixed' = (mixed \/ \E u \in Visits : u # v /\ visit[u].at # "idle")
  BY <1>1, <1>2 DEF FleetTypeOK, Visit, Exists, Untouched, Stands, Arrives, Register
<1>4. FleetTypeOK'
  BY FleetAssumption, <1>1, <1>2, <1>3 DEF FleetTypeOK, Values, Visit, ConfigRow, Things,
           Settings, Profiles
<1>5. Addressed'
  BY FleetAssumption, <1>1, <1>2, <1>3 DEF Addressed, Things
<1>6. ToldOf'
  BY FleetAssumption, <1>1, <1>2, <1>3 DEF ToldOf, Exists, FleetTypeOK, ConfigRow,
           Settings, Things, Addressed
<1>7. Referred'
  BY FleetAssumption, <1>1, <1>2, <1>3 DEF Referred, Exists, FleetTypeOK, Settings, Things,
           Addressed
<1>12. ProfilesHang'
  BY FleetAssumption, <1>1, <1>2, <1>3 DEF ProfilesHang, Exists, FleetTypeOK, Things
<1>8. ASSUME store' = "memory", ~mixed'
      PROVE  OneByOne' /\ \A u \in Visits : StillGood(u)'
  <2>1. ~mixed /\ store = "memory" /\ OneByOne /\ \A u \in Visits : StillGood(u)
    BY <1>1, <1>3, <1>8 DEF Checked
  <2>2. \A u \in Visits : u # v => visit'[u].at = "idle"
    BY <1>2, <1>3, <1>8
  <2>3. StillGood(v)'
    BY FleetAssumption, <1>1, <1>2, <1>3, <2>1 DEF StillGood, Exists, FleetTypeOK, Visit,
             Settings, Things, Addressed
  <2> QED
    BY <2>2, <2>3 DEF StillGood, OneByOne
<1>9. RefreshKnown'
  BY FleetAssumption, <1>1, <1>2, <1>3 DEF RefreshKnown, Exists, FleetTypeOK, Visit, Things, Addressed
<1>10. FreshAsListed'
  BY FleetAssumption, <1>1, <1>2, <1>3 DEF FreshAsListed, Remote, FleetTypeOK, Things
<1>11. InFlight'
  BY FleetAssumption, <1>1, <1>2, <1>3, SMTT(60) DEF InFlight, Remote, Exists, FleetTypeOK, Visit,
           Things, Addressed
<1> QED
  BY <1>4, <1>5, <1>6, <1>7, <1>8, <1>9, <1>10, <1>11, <1>12 DEF FleetInv, Checked

LEMMA SaveAgentKeeps ==
    ASSUME FleetInv, NEW v \in Visits, SaveAgent(v)
    PROVE  FleetInv'
<1>1. FleetTypeOK /\ Addressed /\ ToldOf /\ Referred /\ ProfilesHang /\ Checked
      /\ RefreshKnown /\ FreshAsListed /\ InFlight
  BY DEF FleetInv
<1>2. /\ visit[v].at = "save" /\ visit[v].thing \in GatewayIDs /\ visit[v].agent \in FleetAgents
      /\ visit'[v].at = "idle" /\ visit'[v].thing = NoID /\ visit'[v].todo = {}
      /\ visit'[v].fresh = FALSE
      /\ \A u \in Visits : u # v => visit'[u] = visit[u]
      /\ visit' \in [Visits -> Visit]
  BY FleetAssumption, <1>1, NoVisitFields DEF FleetTypeOK, Addressed, Visit, Steps, Values,
           ConfigRow, Things, Exists, Untouched, Stands, Leaves, Refers, SaveAgent
<1>3. /\ store' = store
      /\ rows' = rows /\ profiles' = profiles /\ settings' = settings
      /\ visits' = visits /\ gone' = gone /\ told' = told /\ tangled' = tangled
      /\ fresh' = fresh /\ listed' = listed /\ mixed' = mixed
      /\ bound' \in [FleetAgents -> GatewayIDs \cup {NoID}]
      /\ \A a \in FleetAgents : bound'[a] # bound[a] =>
           /\ bound'[a] = visit[v].thing
           /\ store = "memory" \/ Exists(visit[v].thing)
  BY <1>1, <1>2 DEF FleetTypeOK, Visit, Exists, SaveAgent, Refers, Untouched
<1>4. FleetTypeOK'
  BY FleetAssumption, <1>1, <1>2, <1>3 DEF FleetTypeOK, Values, Visit, ConfigRow, Things,
           Settings, Profiles
<1>5. Addressed'
  BY FleetAssumption, <1>1, <1>2, <1>3 DEF Addressed, Things
<1>6. ToldOf'
  BY FleetAssumption, <1>1, <1>2, <1>3 DEF ToldOf, Exists, FleetTypeOK, ConfigRow,
           Settings, Things, Addressed
<1>7. Referred'
  <2>1. ASSUME store' = "sqlite" \/ ~mixed', NEW a \in FleetAgents, bound'[a] # bound[a]
        PROVE  bound'[a] = visit[v].thing /\ Exists(visit[v].thing)
    <3>1. /\ bound'[a] = visit[v].thing
          /\ store = "memory" \/ Exists(visit[v].thing)
      BY <1>3, <2>1
    <3>2. CASE store = "memory"
      BY <1>1, <1>2, <1>3, <2>1, <3>1, <3>2 DEF Checked, StillGood
    <3> QED
      BY <3>1, <3>2
  <2> QED
    BY <1>1, <1>3, <2>1 DEF Referred, Exists
<1>12. ProfilesHang'
  BY FleetAssumption, <1>1, <1>2, <1>3 DEF ProfilesHang, Exists, FleetTypeOK, Things
<1>8. ASSUME store' = "memory", ~mixed'
      PROVE  OneByOne' /\ \A u \in Visits : StillGood(u)'
  <2>1. ~mixed /\ store = "memory" /\ OneByOne /\ \A u \in Visits : StillGood(u)
    BY <1>1, <1>3, <1>8 DEF Checked
  <2>2. \A u \in Visits : u # v => visit'[u].at = "idle"
    BY <1>2, <2>1 DEF OneByOne
  <2>3. StillGood(v)'
    BY FleetAssumption, <1>1, <1>2, <1>3, <2>1 DEF StillGood, Exists, FleetTypeOK, Visit,
             Settings, Things, Addressed
  <2> QED
    BY <2>2, <2>3 DEF StillGood, OneByOne
<1>9. RefreshKnown'
  BY FleetAssumption, <1>1, <1>2, <1>3 DEF RefreshKnown, Exists, FleetTypeOK, Visit, Things, Addressed
<1>10. FreshAsListed'
  BY FleetAssumption, <1>1, <1>2, <1>3 DEF FreshAsListed, Remote, FleetTypeOK, Things
<1>11. InFlight'
  BY FleetAssumption, <1>1, <1>2, <1>3, SMTT(60) DEF InFlight, Remote, Exists, FleetTypeOK, Visit,
           Things, Addressed
<1> QED
  BY <1>4, <1>5, <1>6, <1>7, <1>8, <1>9, <1>10, <1>11, <1>12 DEF FleetInv, Checked

LEMMA DeleteEndpointKeeps ==
    ASSUME FleetInv, NEW v \in Visits, NEW e \in GatewayIDs, DeleteEndpoint(v, e)
    PROVE  FleetInv'
<1>1. FleetTypeOK /\ Addressed /\ ToldOf /\ Referred /\ ProfilesHang /\ Checked
      /\ RefreshKnown /\ FreshAsListed /\ InFlight
  BY DEF FleetInv
<1>2. /\ visit[v].at = "idle" /\ visits < MaxVisits
      /\ \/ /\ visit'[v].at = "delete" /\ visit'[v].thing = e /\ visit'[v].todo = {}
            /\ \A a \in FleetAgents : bound[a] # e
         \/ visit'[v].at = "idle" /\ visit'[v].todo = {}
      /\ \A u \in Visits : u # v => visit'[u] = visit[u]
      /\ visit' \in [Visits -> Visit]
  BY FleetAssumption, <1>1, NoVisitFields, ZenonT(90)
     DEF FleetTypeOK, Addressed, Visit, Steps, Values,
           ConfigRow, Things, Exists, Untouched, Stands, Arrives, Bound, DeleteEndpoint
<1>3. /\ store' = store
      /\ rows' = rows /\ bound' = bound /\ profiles' = profiles
      /\ settings' = settings /\ gone' = gone /\ told' = told /\ tangled' = tangled
      /\ fresh' = fresh /\ listed' = listed
      /\ visits' = visits + 1
      /\ mixed' = (mixed \/ \E u \in Visits : u # v /\ visit[u].at # "idle")
  BY <1>1, <1>2 DEF FleetTypeOK, Visit, Exists, Untouched, Stands, Arrives, Bound,
           DeleteEndpoint
<1>4. FleetTypeOK'
  BY FleetAssumption, <1>1, <1>2, <1>3 DEF FleetTypeOK, Values, Visit, ConfigRow, Things,
           Settings, Profiles
<1>5. Addressed'
  BY FleetAssumption, <1>1, <1>2, <1>3 DEF Addressed, Things
<1>6. ToldOf'
  BY FleetAssumption, <1>1, <1>2, <1>3 DEF ToldOf, Exists, FleetTypeOK, ConfigRow,
           Settings, Things, Addressed
<1>7. Referred'
  BY FleetAssumption, <1>1, <1>2, <1>3 DEF Referred, Exists, FleetTypeOK, Settings, Things,
           Addressed
<1>12. ProfilesHang'
  BY FleetAssumption, <1>1, <1>2, <1>3 DEF ProfilesHang, Exists, FleetTypeOK, Things
<1>8. ASSUME store' = "memory", ~mixed'
      PROVE  OneByOne' /\ \A u \in Visits : StillGood(u)'
  <2>1. ~mixed /\ store = "memory" /\ OneByOne /\ \A u \in Visits : StillGood(u)
    BY <1>1, <1>3, <1>8 DEF Checked
  <2>2. \A u \in Visits : u # v => visit'[u].at = "idle"
    BY <1>2, <1>3, <1>8
  <2>3. StillGood(v)'
    BY FleetAssumption, <1>1, <1>2, <1>3, <2>1 DEF StillGood, Exists, FleetTypeOK, Visit,
             Settings, Things, Addressed
  <2> QED
    BY <2>2, <2>3 DEF StillGood, OneByOne
<1>9. RefreshKnown'
  <2>1. \A x : Exists(x)' <=> Exists(x)
    BY <1>3 DEF Exists
  <2>2. /\ visit'[v].todo = {} /\ visit'[v].at \notin {"list", "upsert"}
        /\ \A u \in Visits : u # v => visit'[u] = visit[u]
        /\ gone' = gone
    BY <1>2, <1>3
  <2>. QED
    BY <1>1, <2>1, <2>2, Zenon DEF RefreshKnown
<1>10. FreshAsListed'
  BY <1>1, <1>3 DEF FreshAsListed
<1>11. InFlight'
  <2>1. /\ visit[v].at = "idle" /\ visit'[v].at \notin {"list", "upsert"}
        /\ \A u \in Visits : u # v => visit'[u] = visit[u]
        /\ profiles' = profiles /\ fresh' = fresh /\ listed' = listed
        /\ \A x : Exists(x)' <=> Exists(x)
    BY <1>2, <1>3 DEF Exists
  <2>2. \A u \in Visits : visit'[u].at \in {"list", "upsert"} =>
          u # v /\ visit'[u] = visit[u] /\ visit[u].at \in {"list", "upsert"}
    BY <2>1
  <2>3. \A u \in Visits : visit[u].at \in {"list", "upsert"} => visit'[u] = visit[u]
    BY <2>1
  <2>. QED
    BY <1>1, <2>1, <2>2, <2>3 DEF InFlight
<1> QED
  BY <1>4, <1>5, <1>6, <1>7, <1>8, <1>9, <1>10, <1>11, <1>12 DEF FleetInv, Checked

LEMMA RemoveEndpointKeeps ==
    ASSUME FleetInv, NEW v \in Visits, RemoveEndpoint(v)
    PROVE  FleetInv'
<1>1. FleetTypeOK /\ Addressed /\ ToldOf /\ Referred /\ ProfilesHang /\ Checked
      /\ RefreshKnown /\ FreshAsListed /\ InFlight
  BY DEF FleetInv
<1>2. /\ visit[v].at = "delete" /\ visit[v].thing \in GatewayIDs
      /\ visit'[v].at = "idle" /\ visit'[v].thing = NoID /\ visit'[v].todo = {}
      /\ visit'[v].fresh = FALSE
      /\ \A u \in Visits : u # v => visit'[u] = visit[u]
      /\ visit' \in [Visits -> Visit]
  BY FleetAssumption, <1>1, NoVisitFields DEF FleetTypeOK, Addressed, Visit, Steps, Values,
           ConfigRow, Things, Exists, Untouched, Stands, Leaves, RemoveEndpoint
<1>3. /\ store' = store
      /\ bound' = bound /\ settings' = settings /\ visits' = visits /\ told' = told
      /\ tangled' = tangled /\ listed' = listed /\ mixed' = mixed
      /\ rows' \in [Things -> ConfigRow \cup {NoConfig}] /\ gone' \subseteq Things
      /\ gone \subseteq gone' /\ \A x \in gone' : rows'[x] = NoConfig
      /\ \A x \in Things : x # visit[v].thing => rows'[x] = rows[x] /\ (x \in gone' <=> x \in gone)
      /\ \/ /\ rows'[visit[v].thing] = rows[visit[v].thing]
            /\ visit[v].thing \in gone' <=> visit[v].thing \in gone
         \/ /\ rows'[visit[v].thing] = NoConfig /\ visit[v].thing \in gone'
            /\ store = "sqlite" => \A a \in FleetAgents : bound[a] # visit[v].thing
      /\ profiles' \subseteq profiles
      /\ \A e \in GatewayIDs, n \in Remote : e # visit[v].thing =>
         (<<e, n>> \in profiles' <=> <<e, n>> \in profiles)
      /\ store = "sqlite" /\ rows'[visit[v].thing] # rows[visit[v].thing] =>
         \A n \in Remote : <<visit[v].thing, n>> \notin profiles'
      /\ rows'[visit[v].thing] # NoConfig => profiles' = profiles
      /\ fresh' = fresh \ {visit[v].thing}
  <2>0. visit[v].thing \in Things /\ (\A x \in gone : rows[x] = NoConfig)
    BY <1>1, <1>2 DEF Things, ToldOf, Exists
  <2>1. /\ store' = store /\ bound' = bound /\ settings' = settings /\ visits' = visits
        /\ told' = told /\ tangled' = tangled /\ listed' = listed /\ mixed' = mixed
        /\ fresh' = fresh \ {visit[v].thing}
    BY DEF RemoveEndpoint
  <2>2. CASE rows' = rows /\ gone' = gone /\ profiles' = profiles
    BY <1>1, <2>0, <2>1, <2>2 DEF FleetTypeOK
  <2>3. CASE /\ rows' = [rows EXCEPT ![visit[v].thing] = NoConfig]
             /\ gone' = gone \cup {visit[v].thing}
             /\ profiles' = IF store = "sqlite" THEN {p \in profiles : p[1] # visit[v].thing}
                            ELSE profiles
             /\ ~(store = "sqlite" /\ Bound(visit[v].thing))
    BY <1>1, <2>0, <2>1, <2>3 DEF FleetTypeOK, Bound
  <2> QED
    BY <2>2, <2>3 DEF RemoveEndpoint, DeleteRow
<1>4. FleetTypeOK'
  BY FleetAssumption, <1>1, <1>2, <1>3 DEF FleetTypeOK, Values, Visit, ConfigRow, Things,
           Settings, Profiles
<1>5. Addressed'
  BY FleetAssumption, <1>1, <1>2, <1>3 DEF Addressed, Things
<1>6. ToldOf'
  BY FleetAssumption, <1>1, <1>2, <1>3 DEF ToldOf, Exists, FleetTypeOK, ConfigRow,
           Settings, Things, Addressed
<1>7. Referred'
  <2>1. ASSUME store' = "sqlite" \/ ~mixed'
        PROVE  /\ \A a \in FleetAgents : bound[a] # NoID => Exists(bound[a])
               /\ settings.hub # NoID => Exists(settings.hub)
               /\ rows'[visit[v].thing] # rows[visit[v].thing] =>
                    /\ \A a \in FleetAgents : bound[a] # visit[v].thing
                    /\ settings'.hub # visit[v].thing
    BY <1>1, <1>2, <1>3, <2>1, FleetAssumption
       DEF Referred, Checked, StillGood, Exists, FleetTypeOK, Settings, Things
  <2> QED
    BY <1>1, <1>2, <1>3, <2>1 DEF Referred, Exists, FleetTypeOK, Settings, Things
<1>12. ProfilesHang'
  BY FleetAssumption, <1>1, <1>2, <1>3 DEF ProfilesHang, Exists, FleetTypeOK, Things
<1>8. ASSUME store' = "memory", ~mixed'
      PROVE  OneByOne' /\ \A u \in Visits : StillGood(u)'
  <2>1. ~mixed /\ store = "memory" /\ OneByOne /\ \A u \in Visits : StillGood(u)
    BY <1>1, <1>3, <1>8 DEF Checked
  <2>2. \A u \in Visits : u # v => visit'[u].at = "idle"
    BY <1>2, <2>1 DEF OneByOne
  <2>3. StillGood(v)'
    BY FleetAssumption, <1>1, <1>2, <1>3, <2>1 DEF StillGood, Exists, FleetTypeOK, Visit,
             Settings, Things, Addressed
  <2> QED
    BY <2>2, <2>3 DEF StillGood, OneByOne
<1>9. RefreshKnown'
  BY FleetAssumption, <1>1, <1>2, <1>3 DEF RefreshKnown, Exists, FleetTypeOK, Visit, Things, Addressed
<1>10. FreshAsListed'
  BY FleetAssumption, <1>1, <1>2, <1>3 DEF FreshAsListed, Remote, FleetTypeOK, Things
<1>11. InFlight'
  BY FleetAssumption, <1>1, <1>2, <1>3 DEF InFlight, Remote, Exists, FleetTypeOK, Visit,
           Things, Addressed
<1> QED
  BY <1>4, <1>5, <1>6, <1>7, <1>8, <1>9, <1>10, <1>11, <1>12 DEF FleetInv, Checked

LEMMA StartRefreshKeeps ==
    ASSUME FleetInv, NEW v \in Visits, StartRefresh(v)
    PROVE  FleetInv'
<1>1. FleetTypeOK /\ Addressed /\ ToldOf /\ Referred /\ ProfilesHang /\ Checked
      /\ RefreshKnown /\ FreshAsListed /\ InFlight
  BY DEF FleetInv
<1>2. /\ visit[v].at = "idle" /\ visits < MaxVisits
      /\ visit'[v].at = "clear" /\ visit'[v].thing = NoID
      /\ visit'[v].todo = {e \in GatewayIDs : Exists(e)} /\ visit'[v].fresh = FALSE
      /\ \A u \in Visits : u # v => visit'[u] = visit[u]
      /\ visit' \in [Visits -> Visit]
  <2> DEFINE r == [NoVisit EXCEPT !.at = "clear", !.todo = {e \in GatewayIDs : Exists(e)}]
  <2>1. visits + 1 \in Values
    BY FleetAssumption, <1>1 DEF StartRefresh, Arrives, FleetTypeOK, Values
  <2>2. /\ r \in Visit
        /\ r.at = "clear" /\ r.thing = NoID
        /\ r.todo = {e \in GatewayIDs : Exists(e)} /\ r.fresh = FALSE
    BY FleetAssumption, <1>1, <2>1, NoVisitFields DEF StartRefresh, NoVisit, Visit, Steps,
             ConfigRow,
       Settings, Things, Exists, FleetTypeOK, Values
  <2>3. /\ visit[v].at = "idle" /\ visits < MaxVisits
    BY DEF StartRefresh, Arrives, Stands
  <2>4. visit' = [visit EXCEPT ![v] = r]
    BY DEF StartRefresh, Arrives
  <2> HIDE DEF r
  <2> QED
    BY <1>1, <2>2, <2>3, <2>4 DEF FleetTypeOK
<1>3. /\ store' = store
      /\ rows' = rows /\ bound' = bound /\ profiles' = profiles
      /\ settings' = settings /\ gone' = gone /\ told' = told /\ tangled' = tangled
      /\ fresh' = fresh /\ listed' = listed
      /\ visits' = visits + 1
      /\ mixed' = (mixed \/ \E u \in Visits : u # v /\ visit[u].at # "idle")
  BY <1>1, <1>2 DEF FleetTypeOK, Visit, Exists, Untouched, Stands, Arrives, StartRefresh
<1>4. FleetTypeOK'
  BY FleetAssumption, <1>1, <1>2, <1>3 DEF FleetTypeOK, Values, Visit, ConfigRow, Things,
           Settings, Profiles
<1>5. Addressed'
  BY FleetAssumption, <1>1, <1>2, <1>3 DEF Addressed, Things
<1>6. ToldOf'
  BY FleetAssumption, <1>1, <1>2, <1>3 DEF ToldOf, Exists, FleetTypeOK, ConfigRow,
           Settings, Things, Addressed
<1>7. Referred'
  BY FleetAssumption, <1>1, <1>2, <1>3 DEF Referred, Exists, FleetTypeOK, Settings, Things,
           Addressed
<1>12. ProfilesHang'
  BY FleetAssumption, <1>1, <1>2, <1>3 DEF ProfilesHang, Exists, FleetTypeOK, Things
<1>8. ASSUME store' = "memory", ~mixed'
      PROVE  OneByOne' /\ \A u \in Visits : StillGood(u)'
  <2>1. ~mixed /\ store = "memory" /\ OneByOne /\ \A u \in Visits : StillGood(u)
    BY <1>1, <1>3, <1>8 DEF Checked
  <2>2. \A u \in Visits : u # v => visit'[u].at = "idle"
    BY <1>2, <1>3, <1>8
  <2>3. StillGood(v)'
    BY FleetAssumption, <1>1, <1>2, <1>3, <2>1 DEF StillGood, Exists, FleetTypeOK, Visit,
             Settings, Things, Addressed
  <2> QED
    BY <2>2, <2>3 DEF StillGood, OneByOne
<1>9. RefreshKnown'
  BY FleetAssumption, <1>1, <1>2, <1>3 DEF RefreshKnown, Exists, FleetTypeOK, Visit, Things, Addressed
<1>10. FreshAsListed'
  BY FleetAssumption, <1>1, <1>2, <1>3 DEF FreshAsListed, Remote, FleetTypeOK, Things
<1>11. InFlight'
  BY FleetAssumption, <1>1, <1>2, <1>3, SMTT(60) DEF InFlight, Remote, Exists, FleetTypeOK, Visit,
           Things, Addressed
<1> QED
  BY <1>4, <1>5, <1>6, <1>7, <1>8, <1>9, <1>10, <1>11, <1>12 DEF FleetInv, Checked

LEMMA PatchSettingsKeeps ==
    ASSUME FleetInv, NEW v \in Visits, NEW h \in HubIDs \cup {NoID}, PatchSettings(v, h)
    PROVE  FleetInv'
<1>1. FleetTypeOK /\ Addressed /\ ToldOf /\ Referred /\ ProfilesHang /\ Checked
      /\ RefreshKnown /\ FreshAsListed /\ InFlight
  BY DEF FleetInv
<1>2. /\ visit[v].at = "idle" /\ visits < MaxVisits
      /\ visit'[v].at = (IF h = NoID THEN "settings" ELSE "hub")
      /\ visit'[v].thing = h /\ visit'[v].set = settings /\ visit'[v].todo = {}
      /\ visit'[v].fresh = FALSE
      /\ \A u \in Visits : u # v => visit'[u] = visit[u]
      /\ visit' \in [Visits -> Visit]
  <2> DEFINE r == [NoVisit EXCEPT !.at = IF h = NoID THEN "settings" ELSE "hub",
                                   !.thing = h, !.set = settings, !.value = visits + 1]
  <2>1. visits + 1 \in Values
    BY FleetAssumption, <1>1 DEF PatchSettings, Arrives, FleetTypeOK, Values
  <2>2. /\ r \in Visit
        /\ r.at = (IF h = NoID THEN "settings" ELSE "hub")
        /\ r.thing = h /\ r.set = settings /\ r.todo = {}
        /\ r.fresh = FALSE
    BY FleetAssumption, <1>1, <2>1, NoVisitFields, ZenonT(90)
       DEF PatchSettings, NoVisit, Visit, Steps,
             ConfigRow,
       Settings, Things, Exists, FleetTypeOK, Values
  <2>3. /\ visit[v].at = "idle" /\ visits < MaxVisits
    BY DEF PatchSettings, Arrives, Stands
  <2>4. visit' = [visit EXCEPT ![v] = r]
    BY DEF PatchSettings, Arrives
  <2> HIDE DEF r
  <2> QED
    BY <1>1, <2>2, <2>3, <2>4 DEF FleetTypeOK
<1>3. /\ store' = store
      /\ rows' = rows /\ bound' = bound /\ profiles' = profiles
      /\ settings' = settings /\ gone' = gone /\ told' = told /\ tangled' = tangled
      /\ fresh' = fresh /\ listed' = listed
      /\ visits' = visits + 1
      /\ mixed' = (mixed \/ \E u \in Visits : u # v /\ visit[u].at # "idle")
  BY <1>1, <1>2 DEF FleetTypeOK, Visit, Exists, Untouched, Stands, Arrives, PatchSettings
<1>4. FleetTypeOK'
  BY FleetAssumption, <1>1, <1>2, <1>3 DEF FleetTypeOK, Values, Visit, ConfigRow, Things,
           Settings, Profiles
<1>5. Addressed'
  BY FleetAssumption, <1>1, <1>2, <1>3 DEF Addressed, Things
<1>6. ToldOf'
  BY FleetAssumption, <1>1, <1>2, <1>3 DEF ToldOf, Exists, FleetTypeOK, ConfigRow,
           Settings, Things, Addressed
<1>7. Referred'
  BY FleetAssumption, <1>1, <1>2, <1>3 DEF Referred, Exists, FleetTypeOK, Settings, Things,
           Addressed
<1>12. ProfilesHang'
  BY FleetAssumption, <1>1, <1>2, <1>3 DEF ProfilesHang, Exists, FleetTypeOK, Things
<1>8. ASSUME store' = "memory", ~mixed'
      PROVE  OneByOne' /\ \A u \in Visits : StillGood(u)'
  <2>1. ~mixed /\ store = "memory" /\ OneByOne /\ \A u \in Visits : StillGood(u)
    BY <1>1, <1>3, <1>8 DEF Checked
  <2>2. \A u \in Visits : u # v => visit'[u].at = "idle"
    BY <1>2, <1>3, <1>8
  <2>3. StillGood(v)'
    BY FleetAssumption, <1>1, <1>2, <1>3, <2>1 DEF StillGood, Exists, FleetTypeOK, Visit,
             Settings, Things, Addressed
  <2> QED
    BY <2>2, <2>3 DEF StillGood, OneByOne
<1>9. RefreshKnown'
  BY FleetAssumption, <1>1, <1>2, <1>3 DEF RefreshKnown, Exists, FleetTypeOK, Visit, Things, Addressed
<1>10. FreshAsListed'
  BY FleetAssumption, <1>1, <1>2, <1>3 DEF FreshAsListed, Remote, FleetTypeOK, Things
<1>11. InFlight'
  BY FleetAssumption, <1>1, <1>2, <1>3, SMTT(60) DEF InFlight, Remote, Exists, FleetTypeOK, Visit,
           Things, Addressed
<1> QED
  BY <1>4, <1>5, <1>6, <1>7, <1>8, <1>9, <1>10, <1>11, <1>12 DEF FleetInv, Checked

LEMMA FindHubKeeps ==
    ASSUME FleetInv, NEW v \in Visits, FindHub(v)
    PROVE  FleetInv'
<1>1. FleetTypeOK /\ Addressed /\ ToldOf /\ Referred /\ ProfilesHang /\ Checked
      /\ RefreshKnown /\ FreshAsListed /\ InFlight
  BY DEF FleetInv
<1>2. /\ visit[v].at = "hub" /\ visit[v].thing \in HubIDs
      /\ \/ visit'[v].at = "settings" /\ visit'[v].thing = visit[v].thing /\ Exists(visit[v].thing)
              /\ visit'[v].todo = visit[v].todo /\ visit'[v].set = visit[v].set
         \/ visit'[v].at = "idle" /\ visit'[v].todo = {}
      /\ \A u \in Visits : u # v => visit'[u] = visit[u]
      /\ visit' \in [Visits -> Visit]
  <2>0. visit[v].at = "hub" /\ visit[v].thing \in HubIDs
    BY <1>1 DEF FindHub, Stands, Addressed
  <2>1. \/ visit' = [visit EXCEPT ![v] = NoVisit]
        \/ Exists(visit[v].thing) /\ visit' = [visit EXCEPT ![v].at = "settings"]
    BY DEF FindHub, Leaves, Goes
  <2>2. CASE visit' = [visit EXCEPT ![v] = NoVisit]
    BY <1>1, <2>0, <2>2, NoVisitFields DEF FleetTypeOK, Visit, Steps
  <2>3. CASE Exists(visit[v].thing) /\ visit' = [visit EXCEPT ![v].at = "settings"]
    BY <1>1, <2>0, <2>3, NoVisitFields, SMTT(60) DEF FleetTypeOK, Visit, Steps
  <2> QED
    BY <2>1, <2>2, <2>3
<1>3. /\ store' = store
      /\ rows' = rows /\ bound' = bound /\ profiles' = profiles
      /\ settings' = settings /\ visits' = visits /\ gone' = gone /\ told' = told
      /\ tangled' = tangled /\ fresh' = fresh /\ listed' = listed /\ mixed' = mixed
  BY <1>1, <1>2 DEF FleetTypeOK, Visit, Exists, Untouched, Stands, Leaves, Goes, FindHub
<1>4. FleetTypeOK'
  BY FleetAssumption, <1>1, <1>2, <1>3 DEF FleetTypeOK, Values, Visit, ConfigRow, Things,
           Settings, Profiles
<1>5. Addressed'
  BY FleetAssumption, <1>1, <1>2, <1>3 DEF Addressed, Things
<1>6. ToldOf'
  BY FleetAssumption, <1>1, <1>2, <1>3 DEF ToldOf, Exists, FleetTypeOK, ConfigRow,
           Settings, Things, Addressed
<1>7. Referred'
  BY FleetAssumption, <1>1, <1>2, <1>3 DEF Referred, Exists, FleetTypeOK, Settings, Things,
           Addressed
<1>12. ProfilesHang'
  BY FleetAssumption, <1>1, <1>2, <1>3 DEF ProfilesHang, Exists, FleetTypeOK, Things
<1>8. ASSUME store' = "memory", ~mixed'
      PROVE  OneByOne' /\ \A u \in Visits : StillGood(u)'
  <2>1. ~mixed /\ store = "memory" /\ OneByOne /\ \A u \in Visits : StillGood(u)
    BY <1>1, <1>3, <1>8 DEF Checked
  <2>2. \A u \in Visits : u # v => visit'[u].at = "idle"
    BY <1>2, <2>1 DEF OneByOne
  <2>3. StillGood(v)'
    BY FleetAssumption, <1>1, <1>2, <1>3, <2>1 DEF StillGood, Exists, FleetTypeOK, Visit,
             Settings, Things, Addressed
  <2> QED
    BY <2>2, <2>3 DEF StillGood, OneByOne
<1>9. RefreshKnown'
  BY FleetAssumption, <1>1, <1>2, <1>3 DEF RefreshKnown, Exists, FleetTypeOK, Visit, Things, Addressed
<1>10. FreshAsListed'
  BY FleetAssumption, <1>1, <1>2, <1>3 DEF FreshAsListed, Remote, FleetTypeOK, Things
<1>11. InFlight'
  BY FleetAssumption, <1>1, <1>2, <1>3, SMTT(60) DEF InFlight, Remote, Exists, FleetTypeOK, Visit,
           Things, Addressed
<1> QED
  BY <1>4, <1>5, <1>6, <1>7, <1>8, <1>9, <1>10, <1>11, <1>12 DEF FleetInv, Checked

LEMMA DeleteHubKeeps ==
    ASSUME FleetInv, NEW v \in Visits, NEW h \in HubIDs, DeleteHub(v, h)
    PROVE  FleetInv'
<1>1. FleetTypeOK /\ Addressed /\ ToldOf /\ Referred /\ ProfilesHang /\ Checked
      /\ RefreshKnown /\ FreshAsListed /\ InFlight
  BY DEF FleetInv
<1>2. /\ visit[v].at = "idle" /\ visits < MaxVisits
      /\ visit'[v].todo = {} /\ visit'[v].thing = h /\ visit'[v].at \in {"unset", "delete"}
      /\ store = "memory" => /\ visit'[v].set = settings
                            /\ visit'[v].at = IF settings.hub = h THEN "unset" ELSE "delete"
      /\ \A u \in Visits : u # v => visit'[u] = visit[u]
      /\ visit' \in [Visits -> Visit]
  <2>1. PICK read \in {settings, NoVisit.set} :
          /\ store = "memory" => read = settings
          /\ Arrives(v, [NoVisit EXCEPT !.at = IF read.hub = h THEN "unset" ELSE "delete",
                                        !.thing = h, !.set = read])
    BY <1>1 DEF DeleteHub, FleetTypeOK
  <2> DEFINE r == [NoVisit EXCEPT !.at = IF read.hub = h THEN "unset" ELSE "delete",
                                  !.thing = h, !.set = read]
  <2>2. read \in Settings
    BY <1>1, NoVisitFields DEF FleetTypeOK, Visit
  <2>3. /\ r \in Visit /\ r.todo = {} /\ r.thing = h /\ r.set = read
        /\ r.at = IF read.hub = h THEN "unset" ELSE "delete"
    BY <2>2, NoVisitFields DEF NoVisit, Visit, Steps, Things
  <2>4. visit' = [visit EXCEPT ![v] = r] /\ visit[v].at = "idle" /\ visits < MaxVisits
    BY <2>1 DEF Arrives, Stands
  <2> HIDE DEF r
  <2> QED
    BY <1>1, <2>1, <2>3, <2>4 DEF FleetTypeOK
<1>3. /\ store' = store
      /\ rows' = rows /\ bound' = bound /\ profiles' = profiles
      /\ settings' = settings /\ gone' = gone /\ told' = told /\ tangled' = tangled
      /\ fresh' = fresh /\ listed' = listed
      /\ visits' = visits + 1
      /\ mixed' = (mixed \/ \E u \in Visits : u # v /\ visit[u].at # "idle")
  BY <1>1, <1>2 DEF FleetTypeOK, Visit, Exists, Untouched, Stands, Arrives, DeleteHub
<1>4. FleetTypeOK'
  BY FleetAssumption, <1>1, <1>2, <1>3 DEF FleetTypeOK, Values, Visit, ConfigRow, Things,
           Settings, Profiles
<1>5. Addressed'
  BY FleetAssumption, <1>1, <1>2, <1>3 DEF Addressed, Things
<1>6. ToldOf'
  BY FleetAssumption, <1>1, <1>2, <1>3 DEF ToldOf, Exists, FleetTypeOK, ConfigRow,
           Settings, Things, Addressed
<1>7. Referred'
  BY FleetAssumption, <1>1, <1>2, <1>3 DEF Referred, Exists, FleetTypeOK, Settings, Things,
           Addressed
<1>12. ProfilesHang'
  BY FleetAssumption, <1>1, <1>2, <1>3 DEF ProfilesHang, Exists, FleetTypeOK, Things
<1>8. ASSUME store' = "memory", ~mixed'
      PROVE  OneByOne' /\ \A u \in Visits : StillGood(u)'
  <2>1. ~mixed /\ store = "memory" /\ OneByOne /\ \A u \in Visits : StillGood(u)
    BY <1>1, <1>3, <1>8 DEF Checked
  <2>2. \A u \in Visits : u # v => visit'[u].at = "idle"
    BY <1>2, <1>3, <1>8
  <2>3. StillGood(v)'
    BY FleetAssumption, <1>1, <1>2, <1>3, <2>1 DEF StillGood, Exists, FleetTypeOK, Visit,
             Settings, Things, Addressed
  <2> QED
    BY <2>2, <2>3 DEF StillGood, OneByOne
<1>9. RefreshKnown'
  BY FleetAssumption, <1>1, <1>2, <1>3 DEF RefreshKnown, Exists, FleetTypeOK, Visit, Things, Addressed
<1>10. FreshAsListed'
  BY FleetAssumption, <1>1, <1>2, <1>3 DEF FreshAsListed, Remote, FleetTypeOK, Things
<1>11. InFlight'
  BY FleetAssumption, <1>1, <1>2, <1>3 DEF InFlight, Remote, Exists, FleetTypeOK, Visit,
           Things, Addressed
<1> QED
  BY <1>4, <1>5, <1>6, <1>7, <1>8, <1>9, <1>10, <1>11, <1>12 DEF FleetInv, Checked

LEMMA UpsertSettingsKeeps ==
    ASSUME FleetInv, NEW v \in Visits, UpsertSettings(v)
    PROVE  FleetInv'
<1>1. FleetTypeOK /\ Addressed /\ ToldOf /\ Referred /\ ProfilesHang /\ Checked
      /\ RefreshKnown /\ FreshAsListed /\ InFlight
  BY DEF FleetInv
<1>2. /\ visit[v].at = "settings" /\ visit[v].thing \in HubIDs \cup {NoID}
      /\ visit[v].set \in Settings /\ visit[v].value \in Values
      /\ visit'[v].at = "idle" /\ visit'[v].thing = NoID /\ visit'[v].todo = {}
      /\ visit'[v].fresh = FALSE
      /\ \A u \in Visits : u # v => visit'[u] = visit[u]
      /\ visit' \in [Visits -> Visit]
  BY FleetAssumption, <1>1, NoVisitFields DEF FleetTypeOK, Addressed, Visit, Steps, Values,
           ConfigRow, Things, Exists, Untouched, Stands, Leaves, UpsertSettings
<1>3. /\ store' = store
      /\ rows' = rows /\ bound' = bound /\ profiles' = profiles /\ visits' = visits
      /\ gone' = gone /\ fresh' = fresh /\ listed' = listed /\ mixed' = mixed
      /\ settings' \in Settings
      /\ settings' = settings \/ settings'.hub = NoID \/ store = "memory" \/ Exists(settings'.hub)
      /\ settings'.hub \in {settings.hub, visit[v].set.hub, visit[v].thing}
      /\ told' \in [Things \cup {NoID} -> Values]
      /\ \A x \in Things : told'[x] = told[x]
      /\ tangled \subseteq tangled' /\ tangled' \subseteq tangled \cup {NoID}
      /\ NoID \notin tangled' /\ settings.auto = told[NoID] => settings'.auto = told'[NoID]
  <2> DEFINE new == Patched(v)
  <2>1. /\ new \in Settings
        /\ visit[v].thing = NoID => new.auto = visit[v].value /\ new.hub = visit[v].set.hub
        /\ visit[v].thing # NoID => new.auto = visit[v].set.auto /\ new.hub = visit[v].thing
    BY <1>2 DEF Patched, Settings
  <2>2. store' = store /\ UNCHANGED <<rows, bound, profiles, visits, gone, fresh, listed, mixed>>
    BY DEF UpsertSettings
  <2>3. \A x \in Things : x # NoID
    BY FleetAssumption
  <2>4. CASE new.hub # NoID /\ ~Refers(new.hub)
    <3>1. UNCHANGED <<settings, told, tangled>>
      BY <2>4 DEF UpsertSettings
    <3> QED
      BY <1>1, <2>2, <3>1 DEF FleetTypeOK
  <2>5. CASE ~(new.hub # NoID /\ ~Refers(new.hub))
    <3>1. /\ settings' = new
          /\ told' = IF visit[v].thing = NoID THEN [told EXCEPT ![NoID] = new.auto] ELSE told
          /\ tangled' = IF settings # visit[v].set THEN tangled \cup {NoID} ELSE tangled
      BY <2>5 DEF UpsertSettings
    <3>2. new.hub = NoID \/ store = "memory" \/ Exists(new.hub)
      BY <2>5 DEF Refers
    <3>3. new.auto \in Values
      BY <2>1 DEF Settings
    <3> HIDE DEF new
    <3> QED
      BY <1>1, <1>2, <2>1, <2>2, <2>3, <3>1, <3>2, <3>3 DEF FleetTypeOK
  <2> QED
    BY <2>4, <2>5
<1>13. rows' = rows /\ profiles' = profiles /\ fresh' = fresh /\ listed' = listed
  BY <1>3
<1>4. FleetTypeOK'
  BY FleetAssumption, <1>1, <1>2, <1>3 DEF FleetTypeOK, Values, Visit, ConfigRow, Things,
           Settings, Profiles
<1>5. Addressed'
  BY FleetAssumption, <1>1, <1>2, <1>3 DEF Addressed, Things
<1>6. ToldOf'
  BY FleetAssumption, <1>1, <1>2, <1>3 DEF ToldOf, Exists, FleetTypeOK, ConfigRow,
           Settings, Things, Addressed
<1>7. Referred'
  <2>1. ASSUME store' = "sqlite" \/ ~mixed', settings'.hub # NoID
        PROVE  Exists(settings'.hub)
    <3>1. CASE store = "sqlite"
      BY <1>1, <1>3, <2>1, <3>1 DEF Referred
    <3>2. CASE store = "memory"
      <4>1. visit[v].set = settings /\ (visit[v].thing # NoID => Exists(visit[v].thing))
        BY <1>1, <1>2, <1>3, <2>1, <3>2 DEF Checked, StillGood
      <4> QED
        BY <1>1, <1>3, <2>1, <4>1 DEF Referred
    <3> QED
      BY <1>1, <3>1, <3>2 DEF FleetTypeOK
  <2> QED
    BY <1>1, <1>3, <2>1 DEF Referred, Exists
<1>12. ProfilesHang'
  BY FleetAssumption, <1>1, <1>2, <1>3 DEF ProfilesHang, Exists, FleetTypeOK, Things
<1>8. ASSUME store' = "memory", ~mixed'
      PROVE  OneByOne' /\ \A u \in Visits : StillGood(u)'
  <2>1. ~mixed /\ store = "memory" /\ OneByOne /\ \A u \in Visits : StillGood(u)
    BY <1>1, <1>3, <1>8 DEF Checked
  <2>2. \A u \in Visits : u # v => visit'[u].at = "idle"
    BY <1>2, <2>1 DEF OneByOne
  <2>3. StillGood(v)'
    BY FleetAssumption, <1>1, <1>2, <1>3, <2>1 DEF StillGood, Exists, FleetTypeOK, Visit,
             Settings, Things, Addressed
  <2> QED
    BY <2>2, <2>3 DEF StillGood, OneByOne
<1>9. RefreshKnown'
  BY FleetAssumption, <1>1, <1>2, <1>3 DEF RefreshKnown, Exists, FleetTypeOK, Visit, Things, Addressed
<1>10. FreshAsListed'
  BY FleetAssumption, <1>1, <1>2, <1>3 DEF FreshAsListed, Remote, FleetTypeOK, Things
<1>11. InFlight'
  BY <1>1, <1>2, <1>13 DEF InFlight, Exists
<1> QED
  BY <1>4, <1>5, <1>6, <1>7, <1>8, <1>9, <1>10, <1>11, <1>12 DEF FleetInv, Checked

LEMMA UnsetDefaultKeeps ==
    ASSUME FleetInv, NEW v \in Visits, UnsetDefault(v)
    PROVE  FleetInv'
<1>1. FleetTypeOK /\ Addressed /\ ToldOf /\ Referred /\ ProfilesHang /\ Checked
      /\ RefreshKnown /\ FreshAsListed /\ InFlight
  BY DEF FleetInv
<1>2. /\ visit[v].at = "unset" /\ visit[v].thing \in HubIDs
      /\ visit[v].set \in Settings
      /\ visit'[v].at = "delete" /\ visit'[v].thing = visit[v].thing
      /\ visit'[v].todo = visit[v].todo /\ visit'[v].fresh = visit[v].fresh
      /\ \A u \in Visits : u # v => visit'[u] = visit[u]
      /\ visit' \in [Visits -> Visit]
  BY FleetAssumption, <1>1, NoVisitFields DEF FleetTypeOK, Addressed, Visit, Steps, Values,
           ConfigRow, Things, Exists, Untouched, Stands, Goes, UnsetDefault
<1>3. /\ store' = store
      /\ rows' = rows /\ bound' = bound /\ profiles' = profiles /\ visits' = visits
      /\ gone' = gone /\ told' = told /\ fresh' = fresh /\ listed' = listed
      /\ mixed' = mixed
      /\ settings' \in Settings /\ settings'.hub = NoID
      /\ tangled \subseteq tangled' /\ tangled' \subseteq tangled \cup {NoID}
      /\ NoID \notin tangled' => settings'.auto = settings.auto
  BY <1>1, <1>2 DEF FleetTypeOK, Visit, Exists, UnsetDefault, Settings
<1>4. FleetTypeOK'
  BY FleetAssumption, <1>1, <1>2, <1>3 DEF FleetTypeOK, Values, Visit, ConfigRow, Things,
           Settings, Profiles
<1>5. Addressed'
  BY FleetAssumption, <1>1, <1>2, <1>3 DEF Addressed, Things
<1>6. ToldOf'
  BY FleetAssumption, <1>1, <1>2, <1>3 DEF ToldOf, Exists, FleetTypeOK, ConfigRow,
           Settings, Things, Addressed
<1>7. Referred'
  BY FleetAssumption, <1>1, <1>2, <1>3 DEF Referred, Exists, FleetTypeOK, Settings, Things,
           Addressed
<1>12. ProfilesHang'
  BY FleetAssumption, <1>1, <1>2, <1>3 DEF ProfilesHang, Exists, FleetTypeOK, Things
<1>8. ASSUME store' = "memory", ~mixed'
      PROVE  OneByOne' /\ \A u \in Visits : StillGood(u)'
  <2>1. ~mixed /\ store = "memory" /\ OneByOne /\ \A u \in Visits : StillGood(u)
    BY <1>1, <1>3, <1>8 DEF Checked
  <2>2. \A u \in Visits : u # v => visit'[u].at = "idle"
    BY <1>2, <2>1 DEF OneByOne
  <2>3. StillGood(v)'
    BY FleetAssumption, <1>1, <1>2, <1>3, <2>1 DEF StillGood, Exists, FleetTypeOK, Visit,
             Settings, Things, Addressed
  <2> QED
    BY <2>2, <2>3 DEF StillGood, OneByOne
<1>9. RefreshKnown'
  BY FleetAssumption, <1>1, <1>2, <1>3 DEF RefreshKnown, Exists, FleetTypeOK, Visit, Things, Addressed
<1>10. FreshAsListed'
  BY FleetAssumption, <1>1, <1>2, <1>3 DEF FreshAsListed, Remote, FleetTypeOK, Things
<1>11. InFlight'
  BY FleetAssumption, <1>1, <1>2, <1>3, SMTT(60) DEF InFlight, Remote, Exists, FleetTypeOK, Visit,
           Things, Addressed
<1> QED
  BY <1>4, <1>5, <1>6, <1>7, <1>8, <1>9, <1>10, <1>11, <1>12 DEF FleetInv, Checked

LEMMA RemoveHubKeeps ==
    ASSUME FleetInv, NEW v \in Visits, RemoveHub(v)
    PROVE  FleetInv'
<1>1. FleetTypeOK /\ Addressed /\ ToldOf /\ Referred /\ ProfilesHang /\ Checked
      /\ RefreshKnown /\ FreshAsListed /\ InFlight
  BY DEF FleetInv
<1>2. /\ visit[v].at = "delete" /\ visit[v].thing \in HubIDs
      /\ visit'[v].at = "idle" /\ visit'[v].thing = NoID /\ visit'[v].todo = {}
      /\ visit'[v].fresh = FALSE
      /\ \A u \in Visits : u # v => visit'[u] = visit[u]
      /\ visit' \in [Visits -> Visit]
  BY FleetAssumption, <1>1, NoVisitFields DEF FleetTypeOK, Addressed, Visit, Steps, Values,
           ConfigRow, Things, Exists, Untouched, Stands, Leaves, RemoveHub
<1>3. /\ store' = store
      /\ bound' = bound /\ profiles' = profiles /\ visits' = visits /\ told' = told
      /\ tangled' = tangled /\ fresh' = fresh /\ listed' = listed /\ mixed' = mixed
      /\ rows' \in [Things -> ConfigRow \cup {NoConfig}] /\ gone' \subseteq Things
      /\ gone \subseteq gone' /\ \A x \in gone' : rows'[x] = NoConfig
      /\ \A x \in Things : x # visit[v].thing => rows'[x] = rows[x] /\ (x \in gone' <=> x \in gone)
      /\ \/ /\ rows'[visit[v].thing] = rows[visit[v].thing]
            /\ visit[v].thing \in gone' <=> visit[v].thing \in gone
         \/ rows'[visit[v].thing] = NoConfig /\ visit[v].thing \in gone'
      /\ settings' \in Settings /\ settings'.auto = settings.auto
      /\ settings'.hub \in {settings.hub, NoID}
      /\ store = "sqlite" /\ rows'[visit[v].thing] # rows[visit[v].thing] => settings'.hub # visit[v].thing
  <2>0. visit[v].thing \in Things /\ (\A x \in gone : rows[x] = NoConfig) /\ visit[v].thing # NoID
    BY <1>1, <1>2, FleetAssumption DEF Things, ToldOf, Exists
  <2>1. /\ store' = store /\ bound' = bound /\ profiles' = profiles /\ visits' = visits
        /\ told' = told /\ tangled' = tangled /\ fresh' = fresh /\ listed' = listed
        /\ mixed' = mixed
    BY DEF RemoveHub
  <2>2. CASE rows' = rows /\ gone' = gone /\ settings' = settings
    BY <1>1, <2>0, <2>1, <2>2 DEF FleetTypeOK
  <2>3. CASE /\ rows' = [rows EXCEPT ![visit[v].thing] = NoConfig]
             /\ gone' = gone \cup {visit[v].thing}
             /\ settings' = IF store = "sqlite" /\ settings.hub = visit[v].thing
                            THEN [settings EXCEPT !.hub = NoID] ELSE settings
    <3>1. /\ settings' \in Settings /\ settings'.auto = settings.auto
          /\ settings'.hub = IF store = "sqlite" /\ settings.hub = visit[v].thing
                             THEN NoID ELSE settings.hub
      BY <1>1, <2>3 DEF FleetTypeOK, Settings
    <3> QED
      BY <1>1, <2>0, <2>1, <2>3, <3>1 DEF FleetTypeOK
  <2> QED
    BY <2>2, <2>3 DEF RemoveHub
<1>4. FleetTypeOK'
  BY FleetAssumption, <1>1, <1>2, <1>3 DEF FleetTypeOK, Values, Visit, ConfigRow, Things,
           Settings, Profiles
<1>5. Addressed'
  BY FleetAssumption, <1>1, <1>2, <1>3 DEF Addressed, Things
<1>6. ToldOf'
  BY FleetAssumption, <1>1, <1>2, <1>3 DEF ToldOf, Exists, FleetTypeOK, ConfigRow,
           Settings, Things, Addressed
<1>7. Referred'
  <2>1. ASSUME store' = "sqlite" \/ ~mixed'
        PROVE  /\ \A a \in FleetAgents : bound[a] # NoID => Exists(bound[a])
               /\ settings.hub # NoID => Exists(settings.hub)
               /\ rows'[visit[v].thing] # rows[visit[v].thing] =>
                    /\ \A a \in FleetAgents : bound[a] # visit[v].thing
                    /\ settings'.hub # visit[v].thing
    BY <1>1, <1>2, <1>3, <2>1, FleetAssumption
       DEF Referred, Checked, StillGood, Exists, FleetTypeOK, Settings, Things
  <2> QED
    BY <1>1, <1>2, <1>3, <2>1 DEF Referred, Exists, FleetTypeOK, Settings, Things
<1>12. ProfilesHang'
  BY FleetAssumption, <1>1, <1>2, <1>3 DEF ProfilesHang, Exists, FleetTypeOK, Things
<1>8. ASSUME store' = "memory", ~mixed'
      PROVE  OneByOne' /\ \A u \in Visits : StillGood(u)'
  <2>1. ~mixed /\ store = "memory" /\ OneByOne /\ \A u \in Visits : StillGood(u)
    BY <1>1, <1>3, <1>8 DEF Checked
  <2>2. \A u \in Visits : u # v => visit'[u].at = "idle"
    BY <1>2, <2>1 DEF OneByOne
  <2>3. StillGood(v)'
    BY FleetAssumption, <1>1, <1>2, <1>3, <2>1 DEF StillGood, Exists, FleetTypeOK, Visit,
             Settings, Things, Addressed
  <2> QED
    BY <2>2, <2>3 DEF StillGood, OneByOne
<1>9. RefreshKnown'
  BY FleetAssumption, <1>1, <1>2, <1>3 DEF RefreshKnown, Exists, FleetTypeOK, Visit, Things, Addressed
<1>10. FreshAsListed'
  BY FleetAssumption, <1>1, <1>2, <1>3 DEF FreshAsListed, Remote, FleetTypeOK, Things
<1>11. InFlight'
  BY FleetAssumption, <1>1, <1>2, <1>3, SMTT(60) DEF InFlight, Remote, Exists, FleetTypeOK, Visit,
           Things, Addressed
<1> QED
  BY <1>4, <1>5, <1>6, <1>7, <1>8, <1>9, <1>10, <1>11, <1>12 DEF FleetInv, Checked

LEMMA VisitFailsKeeps ==
    ASSUME FleetInv, NEW v \in Visits, VisitFails(v)
    PROVE  FleetInv'
<1>1. FleetTypeOK /\ Addressed /\ ToldOf /\ Referred /\ ProfilesHang /\ Checked
      /\ RefreshKnown /\ FreshAsListed /\ InFlight
  BY DEF FleetInv
<1>2. /\ visit[v].at # "idle"
      /\ \/ visit'[v].at = "idle" /\ visit'[v].todo = {}
         \/ visit[v].at = "unset" /\ store = "sqlite" /\ visit'[v].at = "delete"
              /\ visit'[v].todo = visit[v].todo /\ visit'[v].thing = visit[v].thing
      /\ \A u \in Visits : u # v => visit'[u] = visit[u]
      /\ visit' \in [Visits -> Visit]
  <2>0. visit[v].at # "idle"
    BY <1>1 DEF VisitFails, Stands
  <2>1. \/ visit' = [visit EXCEPT ![v] = NoVisit]
        \/ /\ visit[v].at = "unset" /\ store = "sqlite"
           /\ visit' = [visit EXCEPT ![v].at = "delete"]
    BY DEF VisitFails, Leaves, Goes, Stands
  <2>2. CASE visit' = [visit EXCEPT ![v] = NoVisit]
    BY <1>1, <2>0, <2>2, NoVisitFields DEF FleetTypeOK, Visit, Steps
  <2>3. CASE /\ visit[v].at = "unset" /\ store = "sqlite"
           /\ visit' = [visit EXCEPT ![v].at = "delete"]
    BY <1>1, <2>0, <2>3, NoVisitFields, SMTT(60) DEF FleetTypeOK, Visit, Steps
  <2> QED
    BY <2>1, <2>2, <2>3
<1>3. /\ store' = store
      /\ rows' = rows /\ bound' = bound /\ profiles' = profiles
      /\ settings' = settings /\ visits' = visits /\ gone' = gone /\ told' = told
      /\ tangled' = tangled /\ fresh' = fresh /\ listed' = listed /\ mixed' = mixed
  BY <1>1, <1>2 DEF FleetTypeOK, Visit, Exists, Untouched, Stands, Leaves, Goes, VisitFails
<1>4. FleetTypeOK'
  BY FleetAssumption, <1>1, <1>2, <1>3 DEF FleetTypeOK, Values, Visit, ConfigRow, Things,
           Settings, Profiles
<1>5. Addressed'
  BY FleetAssumption, <1>1, <1>2, <1>3 DEF Addressed, Things
<1>6. ToldOf'
  BY FleetAssumption, <1>1, <1>2, <1>3 DEF ToldOf, Exists, FleetTypeOK, ConfigRow,
           Settings, Things, Addressed
<1>7. Referred'
  BY FleetAssumption, <1>1, <1>2, <1>3 DEF Referred, Exists, FleetTypeOK, Settings, Things,
           Addressed
<1>12. ProfilesHang'
  BY FleetAssumption, <1>1, <1>2, <1>3 DEF ProfilesHang, Exists, FleetTypeOK, Things
<1>8. ASSUME store' = "memory", ~mixed'
      PROVE  OneByOne' /\ \A u \in Visits : StillGood(u)'
  <2>1. ~mixed /\ store = "memory" /\ OneByOne /\ \A u \in Visits : StillGood(u)
    BY <1>1, <1>3, <1>8 DEF Checked
  <2>2. \A u \in Visits : u # v => visit'[u].at = "idle"
    BY <1>2, <2>1 DEF OneByOne
  <2>3. StillGood(v)'
    BY FleetAssumption, <1>1, <1>2, <1>3, <2>1 DEF StillGood, Exists, FleetTypeOK, Visit,
             Settings, Things, Addressed
  <2> QED
    BY <2>2, <2>3 DEF StillGood, OneByOne
<1>9. RefreshKnown'
  BY FleetAssumption, <1>1, <1>2, <1>3 DEF RefreshKnown, Exists, FleetTypeOK, Visit, Things, Addressed
<1>10. FreshAsListed'
  BY FleetAssumption, <1>1, <1>2, <1>3 DEF FreshAsListed, Remote, FleetTypeOK, Things
<1>11. InFlight'
  BY FleetAssumption, <1>1, <1>2, <1>3, SMTT(60) DEF InFlight, Remote, Exists, FleetTypeOK, Visit,
           Things, Addressed
<1> QED
  BY <1>4, <1>5, <1>6, <1>7, <1>8, <1>9, <1>10, <1>11, <1>12 DEF FleetInv, Checked

LEMMA ClearNoneKeeps ==
    ASSUME FleetInv, NEW v \in Visits, ClearProfiles(v), visit' = [visit EXCEPT ![v] = NoVisit], UNCHANGED <<profiles, fresh>>
    PROVE  FleetInv'
<1>1. FleetTypeOK /\ Addressed /\ ToldOf /\ Referred /\ ProfilesHang /\ Checked
      /\ RefreshKnown /\ FreshAsListed /\ InFlight
  BY DEF FleetInv
<1>2. /\ visit[v].at = "clear"
      /\ visit'[v].at = "idle" /\ visit'[v].thing = NoID /\ visit'[v].todo = {}
      /\ visit'[v].fresh = FALSE
      /\ \A u \in Visits : u # v => visit'[u] = visit[u]
      /\ visit' \in [Visits -> Visit]
  <2>1. visit[v].at = "clear"
    BY DEF ClearProfiles, Stands
  <2> QED
    BY <1>1, <2>1, NoVisitFields DEF FleetTypeOK
<1>3. /\ store' = store
      /\ rows' = rows /\ bound' = bound /\ profiles' = profiles
      /\ settings' = settings /\ visits' = visits /\ gone' = gone /\ told' = told
      /\ tangled' = tangled /\ fresh' = fresh /\ listed' = listed /\ mixed' = mixed
  BY DEF ClearProfiles, Untouched
<1>4. FleetTypeOK'
  BY FleetAssumption, <1>1, <1>2, <1>3 DEF FleetTypeOK, Values, Visit, ConfigRow, Things,
           Settings, Profiles
<1>5. Addressed'
  BY FleetAssumption, <1>1, <1>2, <1>3 DEF Addressed, Things
<1>6. ToldOf'
  BY FleetAssumption, <1>1, <1>2, <1>3 DEF ToldOf, Exists, FleetTypeOK, ConfigRow,
           Settings, Things, Addressed
<1>7. Referred'
  BY FleetAssumption, <1>1, <1>2, <1>3 DEF Referred, Exists, FleetTypeOK, Settings, Things,
           Addressed
<1>12. ProfilesHang'
  BY FleetAssumption, <1>1, <1>2, <1>3 DEF ProfilesHang, Exists, FleetTypeOK, Things
<1>8. ASSUME store' = "memory", ~mixed'
      PROVE  OneByOne' /\ \A u \in Visits : StillGood(u)'
  <2>1. ~mixed /\ store = "memory" /\ OneByOne /\ \A u \in Visits : StillGood(u)
    BY <1>1, <1>3, <1>8 DEF Checked
  <2>2. \A u \in Visits : u # v => visit'[u].at = "idle"
    BY <1>2, <2>1 DEF OneByOne
  <2>3. StillGood(v)'
    BY FleetAssumption, <1>1, <1>2, <1>3, <2>1 DEF StillGood, Exists, FleetTypeOK, Visit,
             Settings, Things, Addressed
  <2> QED
    BY <2>2, <2>3 DEF StillGood, OneByOne
<1>9. RefreshKnown'
  BY FleetAssumption, <1>1, <1>2, <1>3 DEF RefreshKnown, Exists, FleetTypeOK, Visit, Things, Addressed
<1>10. FreshAsListed'
  BY FleetAssumption, <1>1, <1>2, <1>3 DEF FreshAsListed, Remote, FleetTypeOK, Things
<1>11. InFlight'
  BY FleetAssumption, <1>1, <1>2, <1>3 DEF InFlight, Remote, Exists, FleetTypeOK, Visit,
           Things, Addressed
<1> QED
  BY <1>4, <1>5, <1>6, <1>7, <1>8, <1>9, <1>10, <1>11, <1>12 DEF FleetInv, Checked

LEMMA ClearOneKeeps ==
    ASSUME FleetInv, NEW v \in Visits, NEW e \in GatewayIDs, Cleared(v, e)
    PROVE  FleetInv'
<1>1. FleetTypeOK /\ Addressed /\ ToldOf /\ Referred /\ ProfilesHang /\ Checked
      /\ RefreshKnown /\ FreshAsListed /\ InFlight
  BY DEF FleetInv
<1>2. /\ visit[v].at = "clear" /\ e \in visit[v].todo
      /\ visit'[v].at = "list" /\ visit'[v].thing = e /\ visit'[v].todo = visit[v].todo \ {e}
      /\ visit'[v].fresh <=> \A u \in Visits : ~Refreshing(u, e)
      /\ \A u \in Visits : u # v =>
           /\ visit'[u].at = visit[u].at /\ visit'[u].thing = visit[u].thing
           /\ visit'[u].todo = visit[u].todo /\ visit'[u].found = visit[u].found
           /\ visit'[u].set = visit[u].set
           /\ visit'[u].fresh => visit[u].fresh /\ ~Refreshing(u, e)
      /\ visit' \in [Visits -> Visit]
  <2>1. visit[v].at = "clear" /\ e \in visit[v].todo /\ v \in Visits
    BY DEF Cleared, Stands
  <2>2. visit' = [u \in Visits |->
                     IF u = v
                       THEN [visit[v] EXCEPT !.at = "list", !.thing = e, !.todo = @ \ {e},
                                             !.fresh = \A w \in Visits : ~Refreshing(w, e)]
                     ELSE IF Refreshing(u, e) THEN [visit[u] EXCEPT !.fresh = FALSE]
                     ELSE visit[u]]
    BY DEF Cleared
  <2>3. visit \in [Visits -> Visit] /\ e \in Things /\ (\A w \in Visits : ~Refreshing(w, e)) \in BOOLEAN
    BY <1>1 DEF FleetTypeOK, Things
  <2>4. PICK b \in BOOLEAN : b = \A w \in Visits : ~Refreshing(w, e)
    BY <2>3
  <2> DEFINE r == [visit[v] EXCEPT !.at = "list", !.thing = e, !.todo = @ \ {e}, !.fresh = b]
             off(u) == [visit[u] EXCEPT !.fresh = FALSE]
  <2>5. /\ r \in Visit /\ r.at = "list" /\ r.thing = e /\ r.todo = visit[v].todo \ {e}
        /\ r.fresh = b
    BY <2>3, ZenonT(90) DEF Visit, Steps
  <2>6. ASSUME NEW u \in Visits
        PROVE  /\ off(u) \in Visit /\ off(u).at = visit[u].at /\ off(u).thing = visit[u].thing
               /\ off(u).todo = visit[u].todo /\ off(u).found = visit[u].found
               /\ off(u).set = visit[u].set /\ off(u).fresh = FALSE
    BY <2>3 DEF Visit
  <2>7. visit' = [u \in Visits |-> IF u = v THEN r ELSE IF Refreshing(u, e) THEN off(u) ELSE visit[u]]
    BY <2>2, <2>4
  <2> HIDE DEF r, off
  <2>8. visit' \in [Visits -> Visit] /\ visit'[v] = r
    BY <2>3, <2>5, <2>6, <2>7
  <2>9. \A u \in Visits : u # v => visit'[u] = IF Refreshing(u, e) THEN off(u) ELSE visit[u]
    BY <2>7
  <2> QED
    BY <2>1, <2>4, <2>5, <2>6, <2>8, <2>9, ZenonT(90)
<1>3. /\ store' = store
      /\ rows' = rows /\ bound' = bound /\ settings' = settings /\ visits' = visits
      /\ gone' = gone /\ told' = told /\ tangled' = tangled /\ listed' = listed
      /\ mixed' = mixed
      /\ profiles' \subseteq profiles
      /\ \A d \in GatewayIDs, n \in Remote : <<d, n>> \in profiles' <=> <<d, n>> \in profiles /\ d # e
      /\ fresh' = fresh \ {e}
  BY <1>1, <1>2 DEF FleetTypeOK, Visit, Exists, Cleared, Untouched, Refreshing
<1>4. FleetTypeOK'
  BY FleetAssumption, <1>1, <1>2, <1>3 DEF FleetTypeOK, Values, Visit, ConfigRow, Things,
           Settings, Profiles
<1>5. Addressed'
  BY FleetAssumption, <1>1, <1>2, <1>3 DEF Addressed, Things
<1>6. ToldOf'
  BY FleetAssumption, <1>1, <1>2, <1>3 DEF ToldOf, Exists, FleetTypeOK, ConfigRow,
           Settings, Things, Addressed
<1>7. Referred'
  BY FleetAssumption, <1>1, <1>2, <1>3 DEF Referred, Exists, FleetTypeOK, Settings, Things,
           Addressed
<1>12. ProfilesHang'
  BY FleetAssumption, <1>1, <1>2, <1>3 DEF ProfilesHang, Exists, FleetTypeOK, Things
<1>8. ASSUME store' = "memory", ~mixed'
      PROVE  OneByOne' /\ \A u \in Visits : StillGood(u)'
  <2>1. ~mixed /\ store = "memory" /\ OneByOne /\ \A u \in Visits : StillGood(u)
    BY <1>1, <1>3, <1>8 DEF Checked
  <2>2. \A u \in Visits : u # v => visit'[u].at = "idle"
    BY <1>2, <2>1 DEF OneByOne
  <2>3. StillGood(v)'
    BY FleetAssumption, <1>1, <1>2, <1>3, <2>1 DEF StillGood, Exists, FleetTypeOK, Visit,
             Settings, Things, Addressed
  <2> QED
    BY <2>2, <2>3 DEF StillGood, OneByOne
<1>9. RefreshKnown'
  BY FleetAssumption, <1>1, <1>2, <1>3 DEF RefreshKnown, Exists, FleetTypeOK, Visit, Things, Addressed
<1>10. FreshAsListed'
  BY FleetAssumption, <1>1, <1>2, <1>3 DEF FreshAsListed, Remote, FleetTypeOK, Things
<1>11. InFlight'
  BY FleetAssumption, <1>1, <1>2, <1>3 DEF InFlight, Refreshing, Remote, Exists,
           FleetTypeOK, Things, Addressed
<1> QED
  BY <1>4, <1>5, <1>6, <1>7, <1>8, <1>9, <1>10, <1>11, <1>12 DEF FleetInv, Checked

LEMMA ListRemoteProfilesKeeps ==
    ASSUME FleetInv, NEW v \in Visits, ListRemoteProfiles(v)
    PROVE  FleetInv'
<1>1. FleetTypeOK /\ Addressed /\ ToldOf /\ Referred /\ ProfilesHang /\ Checked
      /\ RefreshKnown /\ FreshAsListed /\ InFlight
  BY DEF FleetInv
<1>2. /\ visit[v].at = "list" /\ visit[v].thing \in GatewayIDs
      /\ visit'[v].at = "upsert" /\ visit'[v].thing = visit[v].thing
      /\ visit'[v].todo = visit[v].todo /\ visit'[v].fresh = visit[v].fresh
      /\ \A u \in Visits : u # v => visit'[u] = visit[u]
      /\ visit' \in [Visits -> Visit]
  <2>1. visit[v].at = "list" /\ visit[v].thing \in GatewayIDs
    BY <1>1 DEF ListRemoteProfiles, Stands, Addressed
  <2>2. PICK S \in SUBSET Remote : visit' = [visit EXCEPT ![v].at = "upsert", ![v].found = S]
    BY DEF ListRemoteProfiles, Remote
  <2> QED
    <3>1. /\ visit'[v] \in Visit /\ visit'[v].at = "upsert" /\ visit'[v].found = S
          /\ visit'[v].thing = visit[v].thing /\ visit'[v].todo = visit[v].todo
          /\ visit'[v].fresh = visit[v].fresh
      BY <1>1, <2>2, ZenonT(90) DEF FleetTypeOK, Visit, Steps, Remote
    <3>2. (\A u \in Visits : u # v => visit'[u] = visit[u]) /\ visit' \in [Visits -> Visit]
      BY <1>1, <2>2, <3>1 DEF FleetTypeOK
    <3> QED
      BY <2>1, <3>1, <3>2
<1>3. /\ store' = store
      /\ rows' = rows /\ bound' = bound /\ profiles' = profiles
      /\ settings' = settings /\ visits' = visits /\ gone' = gone /\ told' = told
      /\ tangled' = tangled /\ fresh' = fresh /\ mixed' = mixed
      /\ listed' \in [GatewayIDs -> SUBSET Remote] /\ listed'[visit[v].thing] = visit'[v].found
      /\ \A e \in GatewayIDs : e # visit[v].thing => listed'[e] = listed[e]
  <2>1. PICK S \in SUBSET Remote : /\ visit' = [visit EXCEPT ![v].at = "upsert", ![v].found = S]
                                  /\ listed' = [listed EXCEPT ![visit[v].thing] = S]
    BY DEF ListRemoteProfiles, Remote
  <2>2. visit'[v].found = S
    BY <1>1, <2>1 DEF FleetTypeOK, Visit
  <2>3. /\ store' = store /\ UNCHANGED <<rows, bound, profiles, settings, visits, gone, told>>
        /\ UNCHANGED <<tangled, fresh, mixed>>
    BY DEF ListRemoteProfiles
  <2> QED
    BY <1>1, <1>2, <2>1, <2>2, <2>3 DEF FleetTypeOK, Remote
<1>4. FleetTypeOK'
  BY FleetAssumption, <1>1, <1>2, <1>3 DEF FleetTypeOK, Remote
<1>5. Addressed'
  BY FleetAssumption, <1>1, <1>2, <1>3 DEF Addressed, Things
<1>6. ToldOf'
  BY FleetAssumption, <1>1, <1>2, <1>3 DEF ToldOf, Exists, FleetTypeOK, ConfigRow,
           Settings, Things, Addressed
<1>7. Referred'
  BY FleetAssumption, <1>1, <1>2, <1>3 DEF Referred, Exists, FleetTypeOK, Settings, Things,
           Addressed
<1>12. ProfilesHang'
  BY FleetAssumption, <1>1, <1>2, <1>3 DEF ProfilesHang, Exists, FleetTypeOK, Things
<1>8. ASSUME store' = "memory", ~mixed'
      PROVE  OneByOne' /\ \A u \in Visits : StillGood(u)'
  <2>1. ~mixed /\ store = "memory" /\ OneByOne /\ \A u \in Visits : StillGood(u)
    BY <1>1, <1>3, <1>8 DEF Checked
  <2>2. \A u \in Visits : u # v => visit'[u].at = "idle"
    BY <1>2, <2>1 DEF OneByOne
  <2>3. StillGood(v)'
    BY FleetAssumption, <1>1, <1>2, <1>3, <2>1 DEF StillGood, Exists, FleetTypeOK, Visit,
             Settings, Things, Addressed
  <2> QED
    BY <2>2, <2>3 DEF StillGood, OneByOne
<1>9. RefreshKnown'
  BY FleetAssumption, <1>1, <1>2, <1>3 DEF RefreshKnown, Exists, FleetTypeOK, Visit, Things, Addressed
<1>10. FreshAsListed'
  BY FleetAssumption, <1>1, <1>2, <1>3, ZenonT(90) DEF FreshAsListed, InFlight, FleetTypeOK
<1>11. InFlight'
  BY FleetAssumption, <1>1, <1>2, <1>3, SMTT(60) DEF InFlight, Remote, Exists, FleetTypeOK, Visit,
           Things, Addressed
<1> QED
  BY <1>4, <1>5, <1>6, <1>7, <1>8, <1>9, <1>10, <1>11, <1>12 DEF FleetInv, Checked

LEMMA UpsertRefusedKeeps ==
    ASSUME FleetInv, NEW v \in Visits, UpsertProfile(v), visit' = [visit EXCEPT ![v] = NoVisit], UNCHANGED <<profiles, fresh>>
    PROVE  FleetInv'
<1>1. FleetTypeOK /\ Addressed /\ ToldOf /\ Referred /\ ProfilesHang /\ Checked
      /\ RefreshKnown /\ FreshAsListed /\ InFlight
  BY DEF FleetInv
<1>2. /\ visit[v].at = "upsert"
      /\ visit'[v].at = "idle" /\ visit'[v].thing = NoID /\ visit'[v].todo = {}
      /\ visit'[v].fresh = FALSE
      /\ \A u \in Visits : u # v => visit'[u] = visit[u]
      /\ visit' \in [Visits -> Visit]
  <2>1. visit[v].at = "upsert"
    BY DEF UpsertProfile, Stands
  <2> QED
    BY <1>1, <2>1, NoVisitFields DEF FleetTypeOK
<1>3. /\ store' = store
      /\ rows' = rows /\ bound' = bound /\ profiles' = profiles
      /\ settings' = settings /\ visits' = visits /\ gone' = gone /\ told' = told
      /\ tangled' = tangled /\ fresh' = fresh /\ listed' = listed /\ mixed' = mixed
  BY DEF UpsertProfile, Untouched
<1>4. FleetTypeOK'
  BY FleetAssumption, <1>1, <1>2, <1>3 DEF FleetTypeOK, Values, Visit, ConfigRow, Things,
           Settings, Profiles
<1>5. Addressed'
  BY FleetAssumption, <1>1, <1>2, <1>3 DEF Addressed, Things
<1>6. ToldOf'
  BY FleetAssumption, <1>1, <1>2, <1>3 DEF ToldOf, Exists, FleetTypeOK, ConfigRow,
           Settings, Things, Addressed
<1>7. Referred'
  BY FleetAssumption, <1>1, <1>2, <1>3 DEF Referred, Exists, FleetTypeOK, Settings, Things,
           Addressed
<1>12. ProfilesHang'
  BY FleetAssumption, <1>1, <1>2, <1>3 DEF ProfilesHang, Exists, FleetTypeOK, Things
<1>8. ASSUME store' = "memory", ~mixed'
      PROVE  OneByOne' /\ \A u \in Visits : StillGood(u)'
  <2>1. ~mixed /\ store = "memory" /\ OneByOne /\ \A u \in Visits : StillGood(u)
    BY <1>1, <1>3, <1>8 DEF Checked
  <2>2. \A u \in Visits : u # v => visit'[u].at = "idle"
    BY <1>2, <2>1 DEF OneByOne
  <2>3. StillGood(v)'
    BY FleetAssumption, <1>1, <1>2, <1>3, <2>1 DEF StillGood, Exists, FleetTypeOK, Visit,
             Settings, Things, Addressed
  <2> QED
    BY <2>2, <2>3 DEF StillGood, OneByOne
<1>9. RefreshKnown'
  BY FleetAssumption, <1>1, <1>2, <1>3 DEF RefreshKnown, Exists, FleetTypeOK, Visit, Things, Addressed
<1>10. FreshAsListed'
  BY FleetAssumption, <1>1, <1>2, <1>3 DEF FreshAsListed, Remote, FleetTypeOK, Things
<1>11. InFlight'
  BY FleetAssumption, <1>1, <1>2, <1>3 DEF InFlight, Remote, Exists, FleetTypeOK, Visit,
           Things, Addressed
<1> QED
  BY <1>4, <1>5, <1>6, <1>7, <1>8, <1>9, <1>10, <1>11, <1>12 DEF FleetInv, Checked

LEMMA UpsertOneKeeps ==
    ASSUME FleetInv, NEW v \in Visits, NEW n \in Remote, Upserted(v, n)
    PROVE  FleetInv'
<1>1. FleetTypeOK /\ Addressed /\ ToldOf /\ Referred /\ ProfilesHang /\ Checked
      /\ RefreshKnown /\ FreshAsListed /\ InFlight
  BY DEF FleetInv
<1>2. /\ visit[v].at = "upsert" /\ visit[v].thing \in GatewayIDs
      /\ n \in visit[v].found /\ (store = "memory" \/ Exists(visit[v].thing))
      /\ visit'[v].at = IF visit[v].found \ {n} = {} THEN "clear" ELSE "upsert"
      /\ visit'[v].thing = visit[v].thing /\ visit'[v].todo = visit[v].todo
      /\ visit'[v].found = visit[v].found \ {n} /\ visit'[v].fresh = visit[v].fresh
      /\ \A u \in Visits : u # v => visit'[u] = visit[u]
      /\ visit' \in [Visits -> Visit]
  <2>1. /\ visit[v].at = "upsert" /\ visit[v].thing \in GatewayIDs
        /\ n \in visit[v].found /\ (store = "memory" \/ Exists(visit[v].thing))
    BY <1>1 DEF Upserted, Stands, Addressed, Refers
  <2> DEFINE rest == visit[v].found \ {n}
             stop == IF rest = {} THEN "clear" ELSE "upsert"
  <2>2. visit' = [visit EXCEPT ![v].found = rest, ![v].at = stop]
    BY DEF Upserted
  <2>3. rest \in SUBSET Remote /\ stop \in Steps
    BY <1>1 DEF FleetTypeOK, Visit, Steps, Remote
  <2>4. stop = IF visit[v].found \ {n} = {} THEN "clear" ELSE "upsert"
    OBVIOUS
  <2>5. rest = visit[v].found \ {n}
    OBVIOUS
  <2> HIDE DEF rest, stop
  <2>6. /\ visit'[v] \in Visit /\ visit'[v].at = stop /\ visit'[v].found = rest
        /\ visit'[v].thing = visit[v].thing /\ visit'[v].todo = visit[v].todo
        /\ visit'[v].fresh = visit[v].fresh
    BY <1>1, <2>2, <2>3, ZenonT(90) DEF FleetTypeOK, Visit, Remote
  <2>7. (\A u \in Visits : u # v => visit'[u] = visit[u]) /\ visit' \in [Visits -> Visit]
    BY <1>1, <2>2, <2>6 DEF FleetTypeOK
  <2> QED
    BY <2>1, <2>4, <2>5, <2>6, <2>7
<1>3. /\ store' = store
      /\ rows' = rows /\ bound' = bound /\ settings' = settings /\ visits' = visits
      /\ gone' = gone /\ told' = told /\ tangled' = tangled /\ listed' = listed
      /\ mixed' = mixed
      /\ profiles' = profiles \cup {<<visit[v].thing, n>>}
      /\ \A e \in GatewayIDs, m \in Remote : <<e, m>> \in profiles' <=>
           <<e, m>> \in profiles \/ (e = visit[v].thing /\ m = n)
      /\ fresh' = IF visit[v].found \ {n} = {} /\ visit[v].fresh /\ Exists(visit[v].thing)
                    THEN fresh \cup {visit[v].thing} ELSE fresh
  BY <1>1, <1>2 DEF FleetTypeOK, Visit, Exists, Untouched, Stands, Upserted
<1>4. FleetTypeOK'
  BY FleetAssumption, <1>1, <1>2, <1>3 DEF FleetTypeOK, Profiles, Remote
<1>5. Addressed'
  BY FleetAssumption, <1>1, <1>2, <1>3 DEF Addressed, Things
<1>6. ToldOf'
  BY FleetAssumption, <1>1, <1>2, <1>3 DEF ToldOf, Exists, FleetTypeOK, ConfigRow,
           Settings, Things, Addressed
<1>7. Referred'
  BY FleetAssumption, <1>1, <1>2, <1>3 DEF Referred, Exists, FleetTypeOK, Settings, Things,
           Addressed
<1>12. ProfilesHang'
  BY FleetAssumption, <1>1, <1>2, <1>3 DEF ProfilesHang, Exists, FleetTypeOK, Things
<1>8. ASSUME store' = "memory", ~mixed'
      PROVE  OneByOne' /\ \A u \in Visits : StillGood(u)'
  <2>1. ~mixed /\ store = "memory" /\ OneByOne /\ \A u \in Visits : StillGood(u)
    BY <1>1, <1>3, <1>8 DEF Checked
  <2>2. \A u \in Visits : u # v => visit'[u].at = "idle"
    BY <1>2, <2>1 DEF OneByOne
  <2>3. StillGood(v)'
    BY FleetAssumption, <1>1, <1>2, <1>3, <2>1 DEF StillGood, Exists, FleetTypeOK, Visit,
             Settings, Things, Addressed
  <2> QED
    BY <2>2, <2>3 DEF StillGood, OneByOne
<1>9. RefreshKnown'
  BY FleetAssumption, <1>1, <1>2, <1>3 DEF RefreshKnown, Exists, FleetTypeOK, Visit, Things, Addressed
<1>10. FreshAsListed'
  <2>1. visit[v].thing \notin fresh
    BY <1>1, <1>2 DEF InFlight
  <2>2. \A e \in fresh, m \in Remote : <<e, m>> \in profiles' <=> m \in listed[e]
    BY <1>1, <1>3, <2>1 DEF FreshAsListed, FleetTypeOK
  <2>3. ASSUME visit[v].found \ {n} = {}, visit[v].fresh, Exists(visit[v].thing), NEW m \in Remote
        PROVE  <<visit[v].thing, m>> \in profiles' <=> m \in listed[visit[v].thing]
    <3>1. <<visit[v].thing, m>> \in profiles <=> m \in listed[visit[v].thing] /\ m \notin visit[v].found
      BY <1>1, <1>2, <2>3 DEF InFlight
    <3>2. n \in listed[visit[v].thing]
      BY <1>1, <1>2, <2>3 DEF InFlight
    <3>3. m \in visit[v].found <=> m = n
      BY <1>2, <2>3
    <3> QED
      BY <1>2, <1>3, <3>1, <3>2, <3>3
  <2> QED
    BY <1>3, <2>2, <2>3 DEF FreshAsListed
<1>11. InFlight'
  BY FleetAssumption, <1>1, <1>2, <1>3 DEF InFlight, Remote, Exists, FleetTypeOK, Visit,
           Things, Addressed
<1> QED
  BY <1>4, <1>5, <1>6, <1>7, <1>8, <1>9, <1>10, <1>11, <1>12 DEF FleetInv, Checked

LEMMA ClearProfilesKeeps ==
    ASSUME FleetInv, NEW v \in Visits, ClearProfiles(v)
    PROVE  FleetInv'
<1>1. CASE Leaves(v) /\ UNCHANGED <<profiles, fresh>>
  BY <1>1, ClearNoneKeeps DEF Leaves
<1>2. CASE ~(Leaves(v) /\ UNCHANGED <<profiles, fresh>>)
  <2>1. PICK e \in visit[v].todo : Cleared(v, e)
    BY <1>2 DEF ClearProfiles, Cleared
  <2>2. e \in GatewayIDs
    BY DEF FleetInv, FleetTypeOK, Visit
  <2> QED
    BY <2>1, <2>2, ClearOneKeeps
<1> QED
  BY <1>1, <1>2

LEMMA UpsertProfileKeeps ==
    ASSUME FleetInv, NEW v \in Visits, UpsertProfile(v)
    PROVE  FleetInv'
<1>1. CASE Leaves(v) /\ UNCHANGED <<profiles, fresh>>
  BY <1>1, UpsertRefusedKeeps DEF Leaves
<1>2. CASE ~(Leaves(v) /\ UNCHANGED <<profiles, fresh>>)
  <2>1. PICK n \in visit[v].found : Upserted(v, n)
    BY <1>2 DEF UpsertProfile, Upserted
  <2>2. n \in Remote
    BY DEF FleetInv, FleetTypeOK, Visit, Remote
  <2> QED
    BY <2>1, <2>2, UpsertOneKeeps
<1> QED
  BY <1>1, <1>2

LEMMA FleetStarts == FleetInit => FleetInv
<1> SUFFICES ASSUME FleetInit
             PROVE  FleetInv
  OBVIOUS
<1>1. /\ \A v \in Visits : visit[v] = NoVisit
      /\ \A x \in Things : rows[x] = NoConfig
      /\ bound = [a \in FleetAgents |-> NoID] /\ profiles = {} /\ gone = {} /\ fresh = {}
      /\ settings.auto = 0 /\ settings.hub = NoID
      /\ \A x \in Things \cup {NoID} : told[x] = 0
  BY DEF FleetInit
<1>2. 0 \in Values
  BY FleetAssumption DEF Values
<1>3. FleetTypeOK
  BY <1>2, NoVisitFields DEF FleetInit, FleetTypeOK, Settings
<1>4. Addressed /\ RefreshKnown /\ InFlight /\ Checked
  BY <1>1, NoVisitFields DEF Addressed, RefreshKnown, InFlight, Checked, OneByOne, StillGood
<1>5. ToldOf /\ Referred /\ ProfilesHang /\ FreshAsListed
  BY <1>1 DEF ToldOf, Referred, ProfilesHang, FreshAsListed, Exists
<1> QED
  BY <1>3, <1>4, <1>5 DEF FleetInv

LEMMA FleetSteps == FleetInv /\ [FleetNext]_fleetVars => FleetInv'
<1> SUFFICES ASSUME FleetInv, [FleetNext]_fleetVars
             PROVE  FleetInv'
  OBVIOUS
<1>1. CASE UNCHANGED fleetVars
  BY <1>1 DEF fleetVars, FleetInv, FleetTypeOK, Addressed, ToldOf, Referred, ProfilesHang,
           Checked,
     OneByOne, StillGood, RefreshKnown, FreshAsListed, InFlight, Exists
<1>2. ASSUME NEW v \in Visits, NEW x \in Things, CreateRow(v, x) \/ PatchRow(v, x)
      PROVE  FleetInv'
  BY <1>2, CreateRowKeeps, PatchRowKeeps
<1>3. ASSUME NEW v \in Visits, NEW e \in GatewayIDs, TestConnection(v, e) \/ DeleteEndpoint(v, e)
      PROVE  FleetInv'
  BY <1>3, TestConnectionKeeps, DeleteEndpointKeeps
<1>4. ASSUME NEW v \in Visits, NEW e \in GatewayIDs, NEW a \in FleetAgents, Register(v, a, e)
      PROVE  FleetInv'
  BY <1>4, RegisterKeeps
<1>5. ASSUME NEW v \in Visits, NEW h \in HubIDs \cup {NoID}, PatchSettings(v, h)
      PROVE  FleetInv'
  BY <1>5, PatchSettingsKeeps
<1>6. ASSUME NEW v \in Visits, NEW h \in HubIDs, DeleteHub(v, h)
      PROVE  FleetInv'
  BY <1>6, DeleteHubKeeps
<1>7. ASSUME NEW v \in Visits, StartRefresh(v) \/ UpdateRow(v) \/ ReadAfterProbe(v) \/ PersistStatus(v)
      PROVE  FleetInv'
  BY <1>7, StartRefreshKeeps, UpdateRowKeeps, ReadAfterProbeKeeps, PersistStatusKeeps
<1>8. ASSUME NEW v \in Visits, SaveAgent(v) \/ RemoveEndpoint(v) \/ ClearProfiles(v)
      PROVE  FleetInv'
  BY <1>8, SaveAgentKeeps, RemoveEndpointKeeps, ClearProfilesKeeps
<1>9. ASSUME NEW v \in Visits, ListRemoteProfiles(v) \/ UpsertProfile(v) \/ FindHub(v)
      PROVE  FleetInv'
  BY <1>9, ListRemoteProfilesKeeps, UpsertProfileKeeps, FindHubKeeps
<1>10. ASSUME NEW v \in Visits,
              UpsertSettings(v) \/ UnsetDefault(v) \/ RemoveHub(v) \/ VisitFails(v)
       PROVE  FleetInv'
  BY <1>10, UpsertSettingsKeeps, UnsetDefaultKeeps, RemoveHubKeeps, VisitFailsKeeps
<1> QED
  BY <1>1, <1>2, <1>3, <1>4, <1>5, <1>6, <1>7, <1>8, <1>9, <1>10 DEF FleetNext

LEMMA FleetInvHolds == FleetSpec => []FleetInv
  BY FleetStarts, FleetSteps, PTL DEF FleetSpec

LEMMA FleetInvImplies == FleetInv => FleetTypeOK /\ FleetConsistent
<1> SUFFICES ASSUME FleetInv
             PROVE  FleetTypeOK /\ FleetConsistent
  OBVIOUS
<1>1. FleetTypeOK /\ ToldOf /\ Referred /\ ProfilesHang /\ FreshAsListed
  BY DEF FleetInv
<1>2. profiles \subseteq GatewayIDs \X Remote
  BY <1>1 DEF FleetTypeOK, Profiles, Remote
<1>3. ASSUME store = "sqlite", NEW p \in profiles
      PROVE  Exists(p[1])
  <2>1. PICK e \in GatewayIDs, n \in Remote : p = <<e, n>>
    BY <1>2
  <2> QED
    BY <1>1, <1>3, <2>1 DEF ProfilesHang
<1>4. ASSUME NEW e \in fresh
      PROVE  {p[2] : p \in {q \in profiles : q[1] = e}} = listed[e]
  <2>1. e \in GatewayIDs /\ listed[e] \subseteq Remote
    BY <1>1 DEF FleetTypeOK, Remote
  <2>2. ASSUME NEW n \in listed[e]
        PROVE  n \in {p[2] : p \in {q \in profiles : q[1] = e}}
    <3>1. <<e, n>> \in profiles
      BY <1>1, <2>1 DEF FreshAsListed
    <3>2. <<e, n>> \in {q \in profiles : q[1] = e} /\ <<e, n>>[2] = n
      BY <3>1
    <3> QED
      BY <3>2
  <2>3. ASSUME NEW p \in {q \in profiles : q[1] = e}
        PROVE  p[2] \in listed[e]
    <3>1. PICK d \in GatewayIDs, n \in Remote : p = <<d, n>>
      BY <1>2
    <3> QED
      BY <1>1, <3>1 DEF FreshAsListed
  <2> QED
    BY <2>2, <2>3
<1> QED
  BY <1>1, <1>3, <1>4 DEF ToldOf, Referred, FleetConsistent

(* What a request reads and writes back is a row, whatever came between.   *)
THEOREM FleetTypeCorrect == FleetSpec => []FleetTypeOK
  BY FleetInvHolds, FleetInvImplies, PTL

(* References to endpoints and hubs, acknowledged changes and the profile  *)
(* cache agree as FleetConsistent says, for any endpoints, hubs, agents,   *)
(* names and requests.                                                     *)
THEOREM FleetIsConsistent == FleetSpec => []FleetConsistent
  BY FleetInvHolds, FleetInvImplies, PTL

(***************************************************************************)
(* Requests.  The argument is about programs first: every program of the   *)
(* router keeps an order that makes its answers true, whatever step fails. *)
(***************************************************************************)
\* The steps that change something.
Effect(step) == step \in Whole \cup Piecewise

\* What every program owes to the order of its steps: the log is written after
\* all effects, a signature checked before them, and, but in the handlers that
\* read back, a call that is the only one to change something and does so in one
\* write is not followed by a step that could answer 4xx.
Orderly(p) ==
    /\ p \in Seq(DOMAIN Refusals)
    /\ \A i, j \in DOMAIN p : p[i] \in {"log", "sig"} /\ Effect(p[j]) => (p[i] = "log" <=> j < i)
    /\ \/ p \in ReadsBack
       \/ \A i, j \in DOMAIN p :
            p[i] \in Whole /\ i < j /\ p[j] \notin {"read", "log", "aside"} =>
                \E k \in DOMAIN p : k # i /\ Effect(p[k])

\* A program that changes nothing, and one that checks a signature.
Reads(p) == p \in Seq(DOMAIN Refusals) /\ \A i \in DOMAIN p : p[i] # "log" /\ ~Effect(p[i])
Sealed(p) == \E i \in DOMAIN p : p[i] = "sig"

LEMMA WritingIsOrderly == \A p \in Writing \ patchTask : Orderly(p)
<1>. USE DEF Orderly, Effect, Whole, Piecewise, Refusals
<1>1. Orderly(createProduct)
  BY DEF createProduct
<1>2. Orderly(patchProduct)
  BY DEF patchProduct
<1>3. Orderly(deleteProduct)
  BY DEF deleteProduct
<1>4. Orderly(restoreProduct)
  <2>1. restoreProduct \in ReadsBack
    BY DEF ReadsBack
  <2>. QED
    BY <2>1 DEF restoreProduct
<1>5. Orderly(runResearch)
  BY DEF runResearch
<1>6. Orderly(runIdeation)
  BY DEF runIdeation
<1>7. Orderly(swipe)
  BY DEF swipe
<1>8. Orderly(patchIdea)
  BY DEF patchIdea
<1>9. Orderly(maybePoolBatchReeval)
  BY DEF maybePoolBatchReeval, listMaybePool
<1>10. Orderly(postProductFeedback)
  BY DEF postProductFeedback
<1>11. Orderly(patchProductFeedback)
  BY DEF patchProductFeedback
<1>12. Orderly(promoteMaybe)
  BY DEF promoteMaybe
<1>13. Orderly(createTask)
  BY DEF createTask
<1>14. Orderly(approvePlan)
  BY DEF approvePlan
<1>15. Orderly(rejectPlan)
  BY DEF rejectPlan
<1>16. Orderly(openPullRequest)
  BY DEF openPullRequest
<1>17. Orderly(dispatchTask)
  BY DEF dispatchTask
<1>18. Orderly(checkpoint)
  BY DEF checkpoint
<1>19. Orderly(nudgeStallTask)
  BY DEF nudgeStallTask
<1>20. Orderly(postTaskChat)
  BY DEF postTaskChat
<1>21. Orderly(ackProductChatQueue)
  BY DEF ackProductChatQueue
<1>22. Orderly(completeTask)
  BY DEF completeTask
<1>23. Orderly(createConvoy)
  BY DEF createConvoy
<1>24. Orderly(dispatchConvoy)
  BY DEF dispatchConvoy
<1>25. Orderly(recordCost)
  BY DEF recordCost
<1>26. Orderly(registerExecutionAgent)
  BY DEF registerExecutionAgent
<1>27. Orderly(createGatewayEndpoint)
  BY DEF createGatewayEndpoint
<1>28. Orderly(patchGatewayEndpoint)
  BY DEF patchGatewayEndpoint
<1>29. Orderly(deleteGatewayEndpoint)
  BY DEF deleteGatewayEndpoint
<1>30. Orderly(postGatewayEndpointTestConnection)
  BY DEF postGatewayEndpointTestConnection
<1>31. Orderly(postAgentMailbox)
  BY DEF postAgentMailbox
<1>32. Orderly(patchTaskAgentHealth)
  BY DEF patchTaskAgentHealth
<1>33. Orderly(prepareGitWorktree)
  BY DEF prepareGitWorktree
<1>34. Orderly(enqueueMergeQueue)
  BY DEF enqueueMergeQueue
<1>35. Orderly(completeMergeQueue)
  BY DEF completeMergeQueue
<1>36. Orderly(resolveMergeQueueByTask)
  BY DEF resolveMergeQueueByTask
<1>37. Orderly(resolveMergeQueueByRow)
  BY DEF resolveMergeQueueByRow
<1>38. Orderly(cancelMergeQueue)
  BY DEF cancelMergeQueue
<1>39. Orderly(allocateWorkspacePort)
  BY DEF allocateWorkspacePort
<1>40. Orderly(releaseWorkspacePort)
  BY DEF releaseWorkspacePort
<1>41. Orderly(patchProductCostCaps)
  BY DEF patchProductCostCaps
<1>42. Orderly(restoreTaskCheckpoint)
  BY DEF restoreTaskCheckpoint
<1>43. Orderly(putProductPreferenceModel)
  BY DEF putProductPreferenceModel
<1>44. Orderly(patchProductSchedule)
  BY DEF patchProductSchedule
<1>45. Orderly(postRecomputePreferenceModel)
  BY DEF postRecomputePreferenceModel
<1>46. Orderly(postConvoyMail)
  BY DEF postConvoyMail
<1>47. Orderly(postProductKnowledge)
  BY DEF postProductKnowledge
<1>48. Orderly(patchProductKnowledgeEntry)
  BY DEF patchProductKnowledgeEntry
<1>49. Orderly(deleteProductKnowledgeEntry)
  BY DEF deleteProductKnowledgeEntry
<1>50. Orderly(postTaskConvoyMC)
  BY DEF postTaskConvoyMC
<1>51. Orderly(patchTaskConvoyMC)
  <2>1. patchTaskConvoyMC \in ReadsBack
    BY DEF ReadsBack
  <2>. QED
    BY <2>1 DEF patchTaskConvoyMC
<1>52. Orderly(deleteTaskConvoyMC)
  BY DEF deleteTaskConvoyMC
<1>53. Orderly(postTaskConvoySubtasksMC)
  <2>1. postTaskConvoySubtasksMC \in ReadsBack
    BY DEF ReadsBack
  <2>. QED
    BY <2>1 DEF postTaskConvoySubtasksMC
<1>54. Orderly(postTaskConvoyDispatchMC)
  BY DEF postTaskConvoyDispatchMC
<1>55. Orderly(createResearchHub)
  BY DEF createResearchHub
<1>56. Orderly(patchResearchHub)
  BY DEF patchResearchHub
<1>57. Orderly(deleteResearchHub)
  BY DEF deleteResearchHub
<1>58. Orderly(patchResearchSystemSettings)
  BY DEF patchResearchSystemSettings
<1>59. Orderly(postResearchHubTest)
  BY DEF postResearchHubTest
<1>60. Orderly(postResearchHubInvoke)
  BY DEF postResearchHubInvoke
<1>61. Orderly(postFleetRefresh)
  BY DEF postFleetRefresh
<1>62. Orderly(postProductSuggestIdeaID)
  BY DEF postProductSuggestIdeaID
<1>63. Orderly(postProductTfidfSuggestTags)
  BY DEF postProductTfidfSuggestTags
<1>. HIDE DEF Orderly
<1>. QED
  BY <1>1, <1>2, <1>3, <1>4, <1>5, <1>6, <1>7, <1>8, <1>9, <1>10, <1>11, <1>12, <1>13,
     <1>14, <1>15, <1>16, <1>17, <1>18, <1>19, <1>20, <1>21, <1>22, <1>23, <1>24, <1>25,
     <1>26, <1>27, <1>28, <1>29, <1>30, <1>31, <1>32, <1>33, <1>34, <1>35, <1>36, <1>37,
     <1>38, <1>39, <1>40, <1>41, <1>42, <1>43, <1>44, <1>45, <1>46, <1>47, <1>48, <1>49,
     <1>50, <1>51, <1>52, <1>53, <1>54, <1>55, <1>56, <1>57, <1>58, <1>59, <1>60, <1>61,
     <1>62, <1>63 DEF Writing

\* A name for the concatenation of two pieces of a program.
Joined(s, t) == s \o t
LEMMA EitherJoins ==
    ASSUME NEW A, NEW B, NEW p, p \in Either(A, B)
    PROVE  \E a \in A, b \in B : p = Joined(a, b)
BY DEF Either, Joined
LEMMA JoinedAt ==
    ASSUME NEW S, NEW s \in Seq(S), NEW t \in Seq(S)
    PROVE  /\ Joined(s, t) \in Seq(S) /\ Len(Joined(s, t)) = Len(s) + Len(t)
           /\ \A i \in 1 .. Len(s) : Joined(s, t)[i] = s[i]
           /\ \A i \in 1 .. Len(t) : Joined(s, t)[Len(s) + i] = t[i]
<1>1. Joined(s, t) \in Seq(S) /\ Len(Joined(s, t)) = Len(s) + Len(t)
  BY DEF Joined
<1>2. \A i \in 1 .. Len(s) : Joined(s, t)[i] = s[i]
  BY DEF Joined
<1>3. \A i \in 1 .. Len(t) : Joined(s, t)[Len(s) + i] = t[i]
  BY DEF Joined
<1>. QED
  BY <1>1, <1>2, <1>3

\* What stands in the second piece.
Behind(s, t, i) == Joined(s, t)[Len(s) + i]
LEMMA BehindIs ==
    ASSUME NEW S, NEW s \in Seq(S), NEW t \in Seq(S)
    PROVE  \A i \in 1 .. Len(t) : Behind(s, t, i) = t[i]
BY DEF Behind, Joined

\* The pieces patchTask is put together from: a check is followed by what it checks.
Tidy(s) ==
    /\ s \in Seq(DOMAIN Refusals)
    /\ \A i \in 1 .. Len(s) :
         /\ s[i] \in {"check", "act4", "acts4", "read"}
         /\ s[i] = "check" => i < Len(s) /\ s[i + 1] = "acts4"

LEMMA TidyPieces ==
    Tidy(<<>>) /\ Tidy(<<"act4">>) /\ Tidy(<<"check", "acts4">>) /\ Tidy(<<"read">>)
<1>1. \A s \in Seq(DOMAIN Refusals) :
        \/ Len(s) = 0
        \/ Len(s) = 1 /\ s[1] \in {"act4", "read"}
        \/ Len(s) = 2 /\ s[1] = "check" /\ s[2] = "acts4"
        => Tidy(s)
  BY DEF Tidy
<1>2. <<>> \in Seq(DOMAIN Refusals) /\ Len(<<>>) = 0
  BY DEF Refusals
<1>3. <<"act4">> \in Seq(DOMAIN Refusals) /\ Len(<<"act4">>) = 1 /\ <<"act4">>[1] = "act4"
  BY DEF Refusals
<1>4. /\ <<"check", "acts4">> \in Seq(DOMAIN Refusals) /\ Len(<<"check", "acts4">>) = 2
      /\ <<"check", "acts4">>[1] = "check" /\ <<"check", "acts4">>[2] = "acts4"
  BY DEF Refusals
<1>5. <<"read">> \in Seq(DOMAIN Refusals) /\ Len(<<"read">>) = 1 /\ <<"read">>[1] = "read"
  BY DEF Refusals
<1>. QED
  BY <1>1, <1>2, <1>3, <1>4, <1>5

LEMMA TidyTogether == \A s, t : Tidy(s) /\ Tidy(t) => Tidy(Joined(s, t))
<1>. SUFFICES ASSUME NEW s, NEW t, Tidy(s), Tidy(t)
              PROVE  Tidy(Joined(s, t))
  BY DEF Refusals
<1>. DEFINE r == Joined(s, t)
<1>1. s \in Seq(DOMAIN Refusals) /\ t \in Seq(DOMAIN Refusals) /\ Len(s) \in Nat /\ Len(t) \in Nat
  BY DEF Tidy
<1>2. r \in Seq(DOMAIN Refusals) /\ Len(r) = Len(s) + Len(t)
  BY <1>1, JoinedAt
<1>3. \A i \in 1 .. Len(s) : r[i] = s[i]
  BY <1>1, JoinedAt
<1>4. \A i \in 1 .. Len(t) : r[Len(s) + i] = t[i]
  BY <1>1, JoinedAt
<1>. HIDE DEF r
<1>5. ASSUME NEW i \in 1 .. Len(r)
      PROVE  /\ r[i] \in {"check", "act4", "acts4", "read"}
             /\ r[i] = "check" => i < Len(r) /\ r[i + 1] = "acts4"
  <2>1. CASE i \in 1 .. Len(s)
    <3>1. i + 1 \in 1 .. Len(s) \/ i = Len(s)
      BY <1>1, <2>1
    <3>2. r[i] = s[i] /\ (i < Len(s) => r[i + 1] = s[i + 1] /\ i < Len(r))
      BY <1>1, <1>2, <1>3, <2>1, <3>1
    <3>. QED
      BY <1>1, <2>1, <3>2 DEF Tidy
  <2>2. CASE i \notin 1 .. Len(s)
    <3>. DEFINE j == i - Len(s)
    <3>1. j \in 1 .. Len(t) /\ i = Len(s) + j /\ i + 1 = Len(s) + (j + 1)
      BY <1>1, <1>2, <2>2
    <3>. HIDE DEF j
    <3>2. r[i] = t[j] /\ (j + 1 \in 1 .. Len(t) => r[i + 1] = t[j + 1])
      BY <1>4, <3>1
    <3>. QED
      BY <1>1, <1>2, <3>1, <3>2 DEF Tidy
  <2>. QED
    BY <2>1, <2>2
<1>. QED
  BY <1>2, <1>5 DEF Tidy, r

LEMMA PatchTaskIsOrderly == \A p \in patchTask : Orderly(p)
<1>1. ASSUME NEW x, Tidy(x), NEW s, Tidy(s)
      PROVE  Orderly(Joined(Joined(<<"body", "check">>, x), s))
  <2>. DEFINE h == <<"body", "check">>
              a == Joined(h, x)
              p == Joined(a, s)
              S == DOMAIN Refusals
  <2>1. h \in Seq(S) /\ x \in Seq(S) /\ s \in Seq(S)
    BY <1>1 DEF Tidy, Refusals
  <2>2. Len(h) = 2 /\ h[1] = "body" /\ h[2] = "check"
    OBVIOUS
  <2>. HIDE DEF h, S
  <2>3. /\ a \in Seq(S) /\ Len(a) = Len(h) + Len(x)
        /\ \A i \in 1 .. Len(h) : a[i] = h[i]
    BY <2>1, JoinedAt, Zenon
  <2>4. \A i \in 1 .. Len(x) : a[Len(h) + i] = x[i]
    <3>1. \A i \in 1 .. Len(x) : Behind(h, x, i) = x[i]
      BY <2>1, BehindIs, Zenon
    <3>. QED
      BY <3>1 DEF Behind
  <2>. HIDE DEF a
  <2>5. /\ Len(x) \in Nat /\ Len(s) \in Nat
        /\ Len(a) = Len(x) + 2 /\ a[1] = "body" /\ a[2] = "check"
    BY <2>1, <2>2, <2>3
  <2>6. \A i \in 1 .. Len(x) : a[i + 2] = x[i]
    BY <2>2, <2>4, <2>5
  <2>7. a \in Seq(S)
    BY <2>3
  <2>8. /\ p \in Seq(S) /\ Len(p) = Len(a) + Len(s)
        /\ \A i \in 1 .. Len(a) : p[i] = a[i]
    BY <2>1, <2>7, JoinedAt, Zenon
  <2>9. \A i \in 1 .. Len(s) : p[Len(a) + i] = s[i]
    <3>1. \A i \in 1 .. Len(s) : Behind(a, s, i) = s[i]
      BY <2>1, <2>7, BehindIs, Zenon
    <3>. QED
      BY <3>1 DEF Behind
  <2>. HIDE DEF p
  <2>10. DOMAIN p = 1 .. Len(p) /\ Len(p) \in Nat /\ p[1] = "body" /\ p[2] = "check"
    BY <2>5, <2>8
  <2>11. ASSUME NEW i \in 1 .. Len(p), i > 2
        PROVE  /\ p[i] \in {"check", "act4", "acts4", "read"}
               /\ p[i] = "check" => i < Len(p) /\ p[i + 1] = "acts4"
    <3>1. CASE i <= Len(a)
      <4>. DEFINE j == i - 2
      <4>1. j \in 1 .. Len(x) /\ i = j + 2 /\ i + 1 = (j + 1) + 2
        BY <2>5, <2>8, <2>11, <3>1
      <4>. HIDE DEF j
      <4>2. p[i] = x[j] /\ (j + 1 \in 1 .. Len(x) => p[i + 1] = x[j + 1])
        BY <2>5, <2>6, <2>8, <4>1
      <4>. QED
        BY <1>1, <2>5, <2>8, <4>1, <4>2 DEF Tidy
    <3>2. CASE i > Len(a)
      <4>. DEFINE j == i - Len(a)
      <4>1. j \in 1 .. Len(s) /\ i = Len(a) + j /\ i + 1 = Len(a) + (j + 1)
        BY <2>5, <2>8, <2>11, <3>2
      <4>. HIDE DEF j
      <4>2. p[i] = s[j] /\ (j + 1 \in 1 .. Len(s) => p[i + 1] = s[j + 1])
        BY <2>9, <2>8, <4>1
      <4>. QED
        BY <1>1, <2>5, <2>8, <4>1, <4>2 DEF Tidy
    <3>. QED
      BY <2>5, <2>11, <3>1, <3>2
  <2>12. \A i \in DOMAIN p : i \in Nat /\ (i > 2 \/ i = 1 \/ i = 2)
    BY <2>10
  <2>13. \A i \in DOMAIN p : p[i] \in {"body", "check", "act4", "acts4", "read"}
    BY <2>10, <2>11, <2>12
  <2>14. p \in Seq(DOMAIN Refusals)
    BY <2>8 DEF S
  <2>15. ASSUME NEW i \in DOMAIN p, NEW j \in DOMAIN p,
               p[i] \in Whole, i < j, p[j] \notin {"read", "log", "aside"}
        PROVE  \E k \in DOMAIN p : k # i /\ Effect(p[k])
    <3>1. i > 2 /\ j > 2
      BY <2>10, <2>12, <2>15 DEF Whole
    <3>2. p[j] = "check" => j + 1 \in DOMAIN p /\ p[j + 1] = "acts4"
      BY <2>10, <2>11, <3>1
    <3>3. p[j] \in {"check", "act4", "acts4"}
      BY <2>10, <2>11, <2>15, <3>1
    <3>. QED
      BY <2>12, <2>15, <3>2, <3>3 DEF Effect, Whole, Piecewise
  <2>16. \A i \in DOMAIN p : p[i] \notin {"log", "sig"}
    BY <2>13
  <2>17. Orderly(p)
    BY <2>14, <2>15, <2>16 DEF Orderly
  <2>. QED
    BY <2>17, Zenon DEF p, a, h
<1>2. ASSUME NEW p, p \in patchTask  PROVE Orderly(p)
  <2>. DEFINE O == Optional(<<"act4">>)
              M == {<<>>, <<"check", "acts4">>, <<"act4">>}
              W == Either(O, {<<"read">>})
              V == Either(M, W)
              U == Either({<<"body", "check">>}, O)
  <2>1. p \in Either(U, V)
    BY <1>2, Zenon DEF patchTask
  <2>. HIDE DEF O, M, U, V, W
  <2>2. PICK u \in U, v \in V : p = Joined(u, v)
    BY <2>1, EitherJoins
  <2>3. PICK b \in O : u = Joined(<<"body", "check">>, b)
    BY <2>2, EitherJoins DEF U
  <2>4. PICK c \in M, w \in W : v = Joined(c, w)
    BY <2>2, EitherJoins DEF V
  <2>5. PICK d \in O : w = Joined(d, <<"read">>)
    BY <2>4, EitherJoins DEF W
  <2>6. Tidy(b) /\ Tidy(c) /\ Tidy(d)
    BY <2>3, <2>4, <2>5, TidyPieces, Zenon DEF O, M, Optional
  <2>7. Tidy(v)
    BY <2>4, <2>5, <2>6, TidyPieces, TidyTogether, Zenon
  <2>. QED
    BY <1>1, <2>2, <2>3, <2>6, <2>7, Zenon
<1>. QED
  BY <1>2, Zenon

LEMMA WebhooksAreSealed ==
    \A p \in agentCompletionWebhook \cup {ciCompletionWebhook} : Orderly(p) /\ Sealed(p)
<1>. DEFINE whole(x) == Joined(<<"conf", "body", "sig", "body", "check">>, x)
<1>1. Orderly(whole(<<"conf", "act4", "aside">>))
  BY DEF Orderly, Effect, Whole, Piecewise, Refusals, Joined
<1>2. Orderly(whole(<<"acts4", "aside">>))
  BY DEF Orderly, Effect, Whole, Piecewise, Refusals, Joined
<1>3. Orderly(ciCompletionWebhook)
  BY DEF Orderly, Effect, Whole, Piecewise, Refusals, ciCompletionWebhook
<1>4. whole(<<"conf", "act4", "aside">>)[3] = "sig" /\ 3 \in DOMAIN whole(<<"conf", "act4", "aside">>)
  BY DEF Joined
<1>5. whole(<<"acts4", "aside">>)[3] = "sig" /\ 3 \in DOMAIN whole(<<"acts4", "aside">>)
  BY DEF Joined
<1>6. ciCompletionWebhook[3] = "sig" /\ 3 \in DOMAIN ciCompletionWebhook
  BY DEF ciCompletionWebhook
<1>7. \A p \in agentCompletionWebhook :
         p = whole(<<"conf", "act4", "aside">>) \/ p = whole(<<"acts4", "aside">>)
  BY EitherJoins DEF agentCompletionWebhook
<1>. HIDE DEF whole
<1>8. \A p \in agentCompletionWebhook : Orderly(p) /\ Sealed(p)
  BY <1>1, <1>2, <1>4, <1>5, <1>7, Zenon DEF Sealed
<1>9. Orderly(ciCompletionWebhook) /\ Sealed(ciCompletionWebhook)
  BY <1>3, <1>6, Zenon DEF Sealed
<1>. QED
  BY <1>8, <1>9, Zenon

LEMMA ReadingReads == \A p \in Reading : Reads(p)
<1>. USE DEF Reads, Effect, Whole, Piecewise, Refusals
<1>1. Reads(getProduct)
  BY DEF getProduct
<1>2. Reads(listIdeas)
  BY DEF listIdeas
<1>3. Reads(listSwipeHistory)
  BY DEF listSwipeHistory
<1>4. Reads(listMaybePool)
  BY DEF listMaybePool
<1>5. Reads(listProductFeedback)
  BY DEF listProductFeedback
<1>6. Reads(getTaskChat)
  BY DEF getTaskChat
<1>7. Reads(listAgents)
  BY DEF listAgents
<1>8. Reads(listGatewayEndpoints)
  BY DEF listGatewayEndpoints
<1>9. Reads(listAgentMailbox)
  BY DEF listAgentMailbox
<1>10. Reads(getTaskAgentHealth)
  BY DEF getTaskAgentHealth
<1>11. Reads(listStalledTasks)
  BY DEF listStalledTasks
<1>12. Reads(listProductAgentHealth)
  BY DEF listProductAgentHealth
<1>13. Reads(listProductMergeQueue)
  BY DEF listProductMergeQueue
<1>14. Reads(productCostBreakdown)
  BY DEF productCostBreakdown
<1>15. Reads(getProductPreferenceModel)
  BY DEF getProductPreferenceModel
<1>16. Reads(listOperationsLog)
  BY DEF listOperationsLog
<1>17. Reads(getTaskConvoyMC)
  BY DEF getTaskConvoyMC
<1>18. Reads(getTaskConvoyProgressMC)
  BY DEF getTaskConvoyProgressMC
<1>. HIDE DEF Reads
<1>. QED
  BY <1>1, <1>2, <1>3, <1>4, <1>5, <1>6, <1>7, <1>8, <1>9, <1>10, <1>11, <1>12, <1>13,
     <1>14, <1>15, <1>16, <1>17, <1>18 DEF Reading


LEMMA MappedIs == Mapped = {400, 402, 404, 409, 502, 503}
BY DEF Mapped, MapDomainErr

LEMMA StatusOf ==
    ASSUME NEW step \in DOMAIN Refusals, NEW status \in Refusals[step]
    PROVE  /\ status \in Mapped \cup {401, 500, 501}
           /\ status \in {401, 403} => step = "sig"
           /\ status \in 400 .. 499 => step \notin {"read", "log", "aside"}
BY MappedIs DEF Refusals

LEMMA RouteFacts ==
    ASSUME asked \in Asked
    PROVE  /\ Program \in Seq(DOMAIN Refusals)
           /\ asked.route.get => Reads(Program)
           /\ ~asked.route.get => Orderly(Program)
           /\ ~asked.route.get /\ asked.route.gate = "open" => Sealed(Program)
           /\ asked.route.gate \in {"open", "sse", "api"}
           /\ asked.route.gate = "sse" => asked.route.get
<1>. DEFINE r == asked.route
<1>1. /\ r \in NewRouter /\ Program = r.steps
  BY DEF Asked, Program
<1>2. ASSUME r \in Route("open", TRUE, {<<>>, <<"read">>}) \cup Route("sse", TRUE, {<<"read">>})
      PROVE  r.get /\ r.steps \in {<<>>, <<"read">>} /\ r.gate \in {"open", "sse"}
  BY <1>2 DEF Route
<1>3. ASSUME r \in Route("open", FALSE, agentCompletionWebhook \cup {ciCompletionWebhook})
      PROVE  ~r.get /\ r.gate = "open" /\ r.steps \in agentCompletionWebhook \cup {ciCompletionWebhook}
  BY <1>3 DEF Route
<1>4. ASSUME r \in Route("api", FALSE, Writing)
      PROVE  ~r.get /\ r.gate = "api" /\ r.steps \in Writing
  BY <1>4 DEF Route
<1>5. ASSUME r \in Route("api", TRUE, Reading)
      PROVE  r.get /\ r.gate = "api" /\ r.steps \in Reading
  BY <1>5 DEF Route
<1>6. Reads(<<>>) /\ Reads(<<"read">>)
  BY DEF Reads, Effect, Whole, Piecewise, Refusals
<1>7. \A p : Reads(p) \/ Orderly(p) => p \in Seq(DOMAIN Refusals)
  BY DEF Reads, Orderly
<1>. HIDE DEF r
<1>8. \/ r \in Route("open", TRUE, {<<>>, <<"read">>}) \cup Route("sse", TRUE, {<<"read">>})
      \/ r \in Route("open", FALSE, agentCompletionWebhook \cup {ciCompletionWebhook})
      \/ r \in Route("api", FALSE, Writing)
      \/ r \in Route("api", TRUE, Reading)
  BY <1>1, Zenon DEF NewRouter
<1>9. \A p \in Writing : Orderly(p)
  BY WritingIsOrderly, PatchTaskIsOrderly, Zenon
<1>. QED
  BY <1>1, <1>2, <1>3, <1>4, <1>5, <1>6, <1>7, <1>8, <1>9, ReadingReads, WebhooksAreSealed,
     Zenon DEF r

\* The steps of a request that is under way: what it has done is the acts it has passed.
Underway ==
    /\ answer = 0 /\ broken = {} /\ done = {i \in Acts : i < place}
    /\ \A n \in noted : n < place /\ Program[n] = "log"
    /\ place >= 1 /\ asked.route.gate = "api" /\ ~asked.route.get => Entitled
    /\ asked.route.gate = "open" =>
         \A i \in DOMAIN Program : i < place /\ Program[i] = "sig" => Signed

\* One write, and nothing to read back.
Singly == OneWrite /\ Program \notin ReadsBack

ReqInv == RequestsTypeOK /\ AnswersAreTrue /\ (place # Ended => Underway)

LEMMA ReqInvStarts == RequestsInit => ReqInv
<1>. SUFFICES ASSUME RequestsInit  PROVE ReqInv
  OBVIOUS
<1>1. asked \in Asked /\ Program \in Seq(DOMAIN Refusals)
  BY RouteFacts DEF RequestsInit
<1>2. Len(Program) \in Nat /\ DOMAIN Program = 1 .. Len(Program)
  BY <1>1
<1>3. \A i \in DOMAIN Program : i \in Nat /\ i > 0
  BY <1>2
<1>4. RequestsTypeOK
  BY <1>1, <1>2 DEF RequestsInit, RequestsTypeOK, Program
<1>5. AnswersAreTrue
  BY DEF RequestsInit, AnswersAreTrue, InOrder
<1>6. Underway
  BY <1>3 DEF RequestsInit, Underway, Acts
<1>. QED
  BY <1>4, <1>5, <1>6 DEF ReqInv

\* What a request under way has done was its to do, and the rest is to come.
LEMMA UnderwayIsTrue ==
    ASSUME asked \in Asked, place \in Nat, noted \subseteq DOMAIN Program, Underway
    PROVE  /\ noted # {} \/ (AtStep /\ Step = "log") => done = Acts
           /\ \A i \in Acts : i <= place => Entitled /\ ~asked.route.get
           /\ AtStep /\ Step = "sig" => done = {}
           /\ AtStep /\ Step \notin {"read", "log", "aside"} /\ Singly => done = {}
<1>1. /\ DOMAIN Program \subseteq Nat /\ DOMAIN Program = 1 .. Len(Program)
      /\ \A i \in DOMAIN Program : i >= 1
  <2>1. Program \in Seq(DOMAIN Refusals)
    BY RouteFacts
  <2>. QED
    BY <2>1
<1>2. \A i : i \in Acts <=> i \in DOMAIN Program /\ Effect(Program[i])
  BY DEF Acts, Effect
<1>3. ASSUME NEW i \in Acts
      PROVE  ~asked.route.get /\ Orderly(Program)
  BY <1>2, <1>3, RouteFacts DEF Reads
<1>4. ASSUME noted # {} \/ (AtStep /\ Step = "log")
      PROVE  done = Acts
  <2>1. PICK n \in DOMAIN Program : n <= place /\ Program[n] = "log"
    <3>1. CASE noted # {}
      BY <1>1, <3>1 DEF Underway
    <3>2. CASE AtStep /\ Step = "log"
      BY <1>1, <3>2 DEF AtStep, Step
    <3>. QED
      BY <1>4, <3>1, <3>2
  <2>. QED
    BY <1>1, <1>2, <1>3, <2>1 DEF Underway, Orderly
<1>5. ASSUME NEW i \in Acts, i <= place
      PROVE  Entitled
  <2>1. CASE asked.route.gate = "open"
    <3>1. PICK k \in DOMAIN Program : Program[k] = "sig"
      BY <1>3, <1>5, <2>1, RouteFacts DEF Sealed
    <3>2. k # i
      BY <1>2, <1>5, <3>1 DEF Effect, Whole, Piecewise
    <3>3. ~(i < k)
      BY <1>2, <1>3, <1>5, <3>1 DEF Orderly
    <3>4. Signed
      BY <1>1, <1>2, <1>5, <2>1, <3>1, <3>2, <3>3 DEF Underway
    <3>. QED
      BY <2>1, <3>4 DEF Entitled
  <2>2. CASE asked.route.gate = "api"
    BY <1>1, <1>2, <1>3, <1>5, <2>2 DEF Underway
  <2>. QED
    BY <1>3, <1>5, <2>1, <2>2, RouteFacts
<1>6. ASSUME AtStep, Step = "sig", NEW i \in done
      PROVE  FALSE
  <2>1. i \in Acts /\ i < place
    BY <1>6 DEF Underway
  <2>2. place \in DOMAIN Program /\ Program[place] = "sig"
    BY <1>6 DEF AtStep, Step
  <2>. QED
    BY <1>2, <1>3, <2>1, <2>2 DEF Orderly
<1>7. ASSUME AtStep, Step \notin {"read", "log", "aside"}, Singly, NEW i \in done
      PROVE  FALSE
  <2>1. i \in Acts /\ i < place
    BY <1>7 DEF Underway
  <2>2. place \in DOMAIN Program /\ Program[place] \notin {"read", "log", "aside"}
    BY <1>7 DEF AtStep, Step
  <2>3. Acts = {i} /\ Program[i] \in Whole
    BY <1>7, <2>1 DEF Singly, OneWrite
  <2>4. PICK k \in DOMAIN Program : k # i /\ Effect(Program[k])
    BY <1>2, <1>3, <1>7, <2>1, <2>2, <2>3 DEF Orderly, Singly
  <2>. QED
    BY <1>2, <2>3, <2>4
<1>. QED
  BY <1>3, <1>4, <1>5, <1>6, <1>7

LEMMA ReqInvKept == ReqInv /\ [RequestsNext]_requestVars => ReqInv'
<1>. SUFFICES ASSUME ReqInv, [RequestsNext]_requestVars  PROVE ReqInv'
  OBVIOUS
<1>1. /\ asked \in Asked /\ place \in 0 .. Len(Program) + 2 /\ noted \subseteq DOMAIN Program
      /\ done \subseteq DOMAIN Program /\ broken \subseteq DOMAIN Program
      /\ answer \in Mapped \cup {0, 200, 401, 403, 500, 501}
  BY DEF ReqInv, RequestsTypeOK, Program
<1>2. Len(Program) \in Nat /\ DOMAIN Program = 1 .. Len(Program) /\ Ended = Len(Program) + 2
  BY <1>1, RouteFacts DEF Ended
<1>3. asked' = asked
  BY DEF RequestsNext, requestVars, AuthMiddleware, SSEQueryToken, Open, Succeeds, TurnsDown,
         BreaksOff, Ignored, WriteJSON, Stops, Refuse
<1>4. /\ Program' = Program /\ Ended' = Ended /\ Acts' = Acts /\ OneWrite' = OneWrite
      /\ Entitled' = Entitled /\ Signed' = Signed /\ ReadsBack' = ReadsBack
  BY <1>3 DEF Program, Ended, Acts, OneWrite, Entitled, Signed, Configured, Bypassed, Authenticate
<1>5. place # Ended => Underway
  BY DEF ReqInv
<1>6. \A i \in DOMAIN Program : Program[i] \in DOMAIN Refusals
  BY <1>1, RouteFacts
<1>7. Acts \subseteq DOMAIN Program
  BY DEF Acts
<1>8. \A i : i \in Acts <=> i \in DOMAIN Program /\ Effect(Program[i])
  BY DEF Acts, Effect
<1>9. ASSUME Underway
      PROVE  /\ noted # {} \/ (AtStep /\ Step = "log") => done = Acts
             /\ \A i \in Acts : i <= place => Entitled /\ ~asked.route.get
             /\ AtStep /\ Step = "sig" => done = {}
             /\ AtStep /\ Step \notin {"read", "log", "aside"} /\ Singly => done = {}
  BY <1>1, <1>2, <1>9, UnderwayIsTrue
\* A step to the next place.
<1>10. ASSUME place \in 0 .. Len(Program), Proceed, answer' = answer, broken' = broken,
              done' = {i \in Acts : i <= place},
              noted' \subseteq noted \cup {place}, place \in noted' => Step = "log" /\ AtStep,
              place = 0 /\ asked.route.gate = "api" /\ ~asked.route.get => Entitled,
              AtStep /\ Step = "sig" => Signed
       PROVE  ReqInv'
  <2>1. Underway /\ place' = place + 1 /\ place' # Ended
    BY <1>2, <1>5, <1>10 DEF Proceed
  <2>2. answer' = 0 /\ broken' = {} /\ done' = {i \in Acts : i < place'}
    BY <1>2, <1>7, <1>10, <2>1 DEF Underway
  <2>3. \A n \in noted' : n \in DOMAIN Program /\ n < place' /\ Program[n] = "log"
    BY <1>1, <1>2, <1>10, <2>1 DEF Underway, AtStep, Step
  <2>4. asked.route.gate = "api" /\ ~asked.route.get => Entitled
    BY <1>10, <2>1 DEF Underway
  <2>5. asked.route.gate = "open" =>
          \A i \in DOMAIN Program : i < place' /\ Program[i] = "sig" => Signed
    BY <1>2, <1>10, <2>1 DEF Underway, AtStep, Step
  <2>6. Underway'
    BY <1>3, <1>4, <2>2, <2>3, <2>4, <2>5 DEF Underway
  <2>7. noted' # {} => done' = Acts
    <3>1. noted' # {} => done = Acts
      BY <1>9, <1>10, <2>1
    <3>2. done \subseteq done' /\ done' \subseteq Acts
      BY <1>2, <1>7, <1>10, <2>1 DEF Underway
    <3>. QED
      BY <3>1, <3>2
  <2>8. done' \cup broken' # {} => Entitled /\ ~asked.route.get
    BY <1>9, <1>10, <2>1, <2>2
  <2>a. InOrder'
    BY <1>2, <1>4, <1>7, <2>1, <2>2 DEF InOrder
  <2>9. AnswersAreTrue'
    BY <1>3, <1>4, <2>2, <2>7, <2>8, <2>a DEF AnswersAreTrue
  <2>10. RequestsTypeOK'
    BY <1>1, <1>2, <1>3, <1>4, <1>7, <1>10, <2>1, <2>2, <2>3 DEF RequestsTypeOK, Program
  <2>. QED
    BY <2>6, <2>9, <2>10 DEF ReqInv
\* An answer that turns the request down.
<1>11. ASSUME place \in 0 .. Len(Program), NEW status \in Mapped \cup {401, 403, 500, 501},
              Refuse(status),
              status \in {401, 403} => done = {},
              status \in 400 .. 499 /\ Singly => done = {}
       PROVE  ReqInv'
  <2>1. Underway
    BY <1>2, <1>5, <1>11
  <2>2. /\ answer' = status /\ place' = Ended
        /\ done' = done /\ broken' = broken /\ noted' = noted /\ broken = {}
    BY <1>11, <2>1 DEF Refuse, Underway
  <2>3. answer' # 200
    BY <2>2, MappedIs
  <2>4. noted # {} => done = Acts
    BY <1>9, <2>1
  <2>5. done # {} => Entitled /\ ~asked.route.get
    <3>1. \A i \in done : i \in Acts /\ i <= place
      BY <1>2, <1>7, <1>11, <2>1 DEF Underway
    <3>. QED
      BY <1>9, <2>1, <3>1
  <2>6. AnswersAreTrue'
    <3>1. /\ answer' \in {401, 403} => done' = {} /\ broken' = {}
          /\ answer' \in 400 .. 499 /\ OneWrite /\ Program \notin ReadsBack => done' = {}
      BY <1>11, <2>2 DEF Singly
    <3>2. /\ noted' # {} => done' = Acts
          /\ done' \cup broken' # {} => Entitled /\ ~asked.route.get
      BY <2>2, <2>4, <2>5
    <3>3. InOrder'
      BY <1>4, <2>2 DEF ReqInv, AnswersAreTrue, InOrder
    <3>4. /\ answer' \in 400 .. 499 /\ OneWrite' /\ Program' \notin ReadsBack' => done' = {}
          /\ noted' # {} => done' = Acts'
      BY <1>4, <3>1, <3>2
    <3>5. done' \cup broken' # {} => Entitled' /\ ~asked'.route.get
      BY <1>3, <1>4, <3>2
    <3>. QED
      BY <2>3, <3>1, <3>3, <3>4, <3>5 DEF AnswersAreTrue
  <2>7. RequestsTypeOK'
    BY <1>1, <1>2, <1>3, <1>4, <2>2 DEF RequestsTypeOK, Program
  <2>. QED
    BY <1>4, <2>2, <2>6, <2>7 DEF ReqInv
<1>12. CASE AuthMiddleware
  <2>1. /\ place = 0 /\ place \in 0 .. Len(Program) /\ ~AtStep /\ place # Ended
        /\ {i \in Acts : i <= place} = {}
    BY <1>2, <1>7, <1>12 DEF AuthMiddleware, AtStep
  <2>2. Underway /\ done = {}
    BY <1>5, <2>1, <1>2, <1>7 DEF Underway
  <2>3. CASE Refuse(401)
    BY <1>11, <2>1, <2>2, <2>3
  <2>4. CASE Refuse(403)
    BY <1>11, <2>1, <2>2, <2>4
  <2>5. CASE /\ Proceed /\ UNCHANGED <<asked, done, broken, noted, answer>>
             /\ ~asked.route.get => Entitled
    <3>1. place \notin noted
      BY <1>1, <1>2, <2>1
    <3>. QED
      BY <1>10, <2>1, <2>2, <2>5, <3>1
  <2>6. ~Configured \/ Bypassed => Entitled
    BY <1>12 DEF AuthMiddleware, Entitled
  <2>7. Authenticate \in {"nobody", "read", "admin"}
    BY DEF Authenticate
  <2>8. Authenticate = "admin" => Entitled
    BY <1>12 DEF AuthMiddleware, Entitled
  <2>. QED
    BY <1>12, <2>3, <2>4, <2>5, <2>6, <2>7, <2>8 DEF AuthMiddleware
<1>13. CASE SSEQueryToken
  <2>1. /\ place = 0 /\ place \in 0 .. Len(Program) /\ ~AtStep /\ place # Ended
        /\ {i \in Acts : i <= place} = {}
    BY <1>2, <1>7, <1>13 DEF SSEQueryToken, AtStep
  <2>2. Underway /\ done = {} /\ asked.route.gate # "api"
    BY <1>5, <1>13, <2>1, <1>2, <1>7 DEF Underway, SSEQueryToken
  <2>3. CASE Refuse(401)
    BY <1>11, <2>1, <2>2, <2>3
  <2>4. CASE Proceed /\ UNCHANGED <<asked, done, broken, noted, answer>>
    <3>1. place \notin noted
      BY <1>1, <1>2, <2>1
    <3>. QED
      BY <1>10, <2>1, <2>2, <2>4, <3>1
  <2>. QED
    BY <1>13, <2>3, <2>4 DEF SSEQueryToken
<1>14. CASE Open
  <2>1. /\ place = 0 /\ place \in 0 .. Len(Program) /\ ~AtStep /\ place # Ended
        /\ {i \in Acts : i <= place} = {} /\ place \notin noted
    BY <1>1, <1>2, <1>7, <1>14 DEF Open, AtStep
  <2>2. Underway /\ done = {} /\ asked.route.gate # "api"
    BY <1>5, <1>14, <2>1, <1>2, <1>7 DEF Underway, Open
  <2>. QED
    BY <1>10, <1>14, <2>1, <2>2 DEF Open
<1>15. ASSUME AtStep
       PROVE  /\ place \in 0 .. Len(Program) /\ place \in DOMAIN Program /\ place # Ended /\ place # 0
              /\ Underway /\ Step \in DOMAIN Refusals /\ (place \in Acts <=> Effect(Step))
              /\ done = {i \in Acts : i < place} /\ place \notin noted
  BY <1>2, <1>5, <1>6, <1>8, <1>15 DEF AtStep, Step, Underway
<1>16. CASE Succeeds
  <2>1. AtStep /\ Proceed /\ broken' = broken /\ answer' = answer
    BY <1>16 DEF Succeeds
  <2>2. done' = {i \in Acts : i <= place}
    BY <1>2, <1>7, <1>15, <1>16, <2>1 DEF Succeeds, Effect
  <2>3. noted' \subseteq noted \cup {place} /\ (place \in noted' => Step = "log")
    BY <1>15, <1>16, <2>1 DEF Succeeds
  <2>4. Step = "sig" => Signed
    BY <1>16 DEF Succeeds
  <2>. QED
    BY <1>10, <1>15, <2>1, <2>2, <2>3, <2>4
<1>17. CASE TurnsDown
  <2>1. AtStep
    BY <1>17 DEF TurnsDown
  <2>2. PICK status \in Refusals[Step] : Refuse(status)
    BY <1>17 DEF TurnsDown
  <2>3. /\ status \in Mapped \cup {401, 403, 500, 501}
        /\ status \in {401, 403} => Step = "sig"
        /\ status \in 400 .. 499 => Step \notin {"read", "log", "aside"}
    BY <1>15, <2>1, <2>2, StatusOf
  <2>. QED
    BY <1>9, <1>11, <1>15, <2>1, <2>2, <2>3
<1>18. CASE BreaksOff
  <2>1. /\ AtStep /\ Step \in Piecewise /\ broken' = {place} /\ place' = Ended
        /\ answer' \in Refusals[Step] /\ done' = done /\ noted' = noted
    BY <1>15, <1>18 DEF BreaksOff, Underway
  <2>2. /\ answer' \in Mapped \cup {401, 500, 501} /\ answer' \notin {200, 401, 403}
    BY <1>15, <2>1, StatusOf, MappedIs DEF Piecewise
  <2>3. place \in Acts /\ ~OneWrite
    <3>1. place \in Acts /\ Program[place] \notin Whole
      BY <1>15, <2>1 DEF Effect, Whole, Piecewise, Step
    <3>. QED
      BY <3>1 DEF OneWrite
  <2>4. noted # {} => done = Acts
    BY <1>9, <1>15, <2>1
  <2>5. Entitled /\ ~asked.route.get
    BY <1>9, <1>15, <2>1, <2>3
  <2>a. InOrder'
    BY <1>2, <1>4, <1>7, <1>15, <2>1 DEF InOrder
  <2>6. AnswersAreTrue'
    BY <1>3, <1>4, <2>1, <2>2, <2>3, <2>4, <2>5, <2>a DEF AnswersAreTrue
  <2>7. RequestsTypeOK'
    BY <1>1, <1>2, <1>3, <1>4, <1>15, <2>1, <2>2, SMTT(60) DEF RequestsTypeOK, Program
  <2>. QED
    BY <1>4, <2>1, <2>6, <2>7 DEF ReqInv
<1>19. CASE Ignored
  <2>1. /\ AtStep /\ Proceed /\ UNCHANGED <<asked, done, broken, noted, answer>>
        /\ Step # "sig" /\ ~Effect(Step)
    BY <1>19 DEF Ignored, Effect, Whole, Piecewise
  <2>2. done' = {i \in Acts : i <= place}
    BY <1>2, <1>7, <1>15, <2>1
  <2>. QED
    BY <1>10, <1>15, <2>1, <2>2
<1>20. CASE WriteJSON
  <2>1. /\ place = Len(Program) + 1 /\ place' = Ended /\ place # Ended
        /\ done' = done /\ broken' = broken /\ noted' = noted
    BY <1>2, <1>20 DEF WriteJSON
  <2>2. /\ Underway /\ answer' = 200 /\ broken = {} /\ done = {i \in Acts : i < place}
    BY <1>5, <1>20, <2>1 DEF Underway, WriteJSON
  <2>3. done = Acts
    BY <1>2, <1>7, <2>1, <2>2
  <2>4. done # {} => Entitled /\ ~asked.route.get
    BY <1>2, <1>7, <1>9, <2>1, <2>2
  <2>a. InOrder'
    BY <1>4, <2>1, <2>2, <2>3 DEF InOrder
  <2>5. AnswersAreTrue'
    BY <1>3, <1>4, <2>1, <2>2, <2>3, <2>4, <2>a DEF AnswersAreTrue
  <2>6. RequestsTypeOK'
    BY <1>1, <1>2, <1>3, <1>4, <2>1, <2>2 DEF RequestsTypeOK, Program
  <2>. QED
    BY <1>4, <2>1, <2>5, <2>6 DEF ReqInv
<1>21. ASSUME UNCHANGED <<done, broken, noted, answer>>, place' = Ended
       PROVE  ReqInv'
  <2>1. AnswersAreTrue'
    BY <1>3, <1>4, <1>21 DEF ReqInv, AnswersAreTrue, InOrder
  <2>2. RequestsTypeOK'
    BY <1>1, <1>2, <1>3, <1>4, <1>21 DEF RequestsTypeOK, Program
  <2>. QED
    BY <1>4, <1>21, <2>1, <2>2 DEF ReqInv
<1>22. CASE Stops
  BY <1>21, <1>22 DEF Stops
<1>23. CASE UNCHANGED requestVars
  <2>1. UNCHANGED <<asked, place, done, broken, noted, answer>>
    BY <1>23 DEF requestVars
  <2>2. AnswersAreTrue'
    BY <1>4, <2>1 DEF ReqInv, AnswersAreTrue, InOrder
  <2>3. Underway => Underway'
    BY <1>4, <2>1 DEF Underway, Program
  <2>4. RequestsTypeOK'
    BY <1>1, <1>4, <2>1 DEF RequestsTypeOK, Program
  <2>. QED
    BY <1>4, <1>5, <2>1, <2>2, <2>3, <2>4 DEF ReqInv
<1>. QED
  BY <1>12, <1>13, <1>14, <1>16, <1>17, <1>18, <1>19, <1>20, <1>22, <1>23 DEF RequestsNext

LEMMA ReqCorrect == RequestsSpec => []ReqInv
<1>1. RequestsInit => ReqInv
  BY ReqInvStarts
<1>2. ReqInv /\ [RequestsNext]_requestVars => ReqInv'
  BY ReqInvKept
<1>. QED
  BY <1>1, <1>2, PTL DEF RequestsSpec

(* The types of a request's state.                                         *)
THEOREM RequestsAreTyped == RequestsSpec => []RequestsTypeOK
BY ReqCorrect, PTL DEF ReqInv

(* internal/adapters/httpapi: the answer, the operations log and what took *)
(* effect agree, whatever step of whichever handler fails or is cut off.   *)
THEOREM AnswersHold == RequestsSpec => []AnswersAreTrue
BY ReqCorrect, PTL DEF ReqInv

(***************************************************************************)
(* The components together: each moves as its own specification says, or   *)
(* not at all, and what holds of it alone holds of it here.                *)
(***************************************************************************)
LEMMA PartsStart ==
    OperationsInit => Init /\ StallInit /\ TwinInit /\ KnowledgeInit /\ FleetInit /\ RequestsInit
BY Zenon DEF OperationsInit

LEMMA PartsStep ==
    ASSUME [OperationsNext]_operationsVars
    PROVE  /\ [Next]_vars /\ [StallNext]_stallVars /\ [TwinNext]_twinVars
           /\ [KnowledgeNext]_knowVars /\ [FleetNext]_fleetVars /\ [RequestsNext]_requestVars
<1>1. CASE UNCHANGED operationsVars
  BY <1>1, Zenon DEF operationsVars
<1>2. CASE OperationsNext
  BY <1>2, Zenon DEF OperationsNext
<1>. QED
  BY <1>1, <1>2, Zenon

(* Every component of the Operations run behaves as it does alone.         *)
THEOREM PartsBehave ==
    OperationsSpec => /\ Spec /\ StallSpec /\ TwinSpec /\ KnowledgeSpec /\ FleetSpec
                      /\ RequestsSpec
BY PartsStart, PartsStep, PTL
   DEF OperationsSpec, Spec, StallSpec, TwinSpec, KnowledgeSpec, FleetSpec, RequestsSpec

(* Every component is well typed throughout, whatever the part a behaviour *)
(* is about.                                                               *)
THEOREM OperationsTypeCorrect == OperationsSpec => []OperationsTypeOK
<1>1. /\ TypeOK /\ StallTypeOK /\ TwinTypeOK /\ KnowledgeTypeOK /\ FleetTypeOK /\ RequestsTypeOK
      => OperationsTypeOK
  BY Zenon DEF OperationsTypeOK
<1>. QED
  BY <1>1, PartsBehave, TypeCorrect, StallTypeCorrect, TwinTypeCorrect, KnowledgeTypeCorrect,
     FleetTypeCorrect, RequestsAreTyped, PTL

(* All that the Operations run checks, of the components together.         *)
THEOREM OperationsHold ==
    OperationsSpec =>
      [](/\ OrderedAfterDependencies /\ StoredConvoyHolds /\ StallRecordsHold /\ TwinsAgree
         /\ KnowledgeKept /\ FleetConsistent /\ AnswersAreTrue)
BY PartsBehave, DependenciesGate, ConvoyHolds, StallRecordsAreKept, TwinsAlwaysAgree,
   EntriesAreKept, FleetIsConsistent, AnswersHold, PTL
=============================================================================
