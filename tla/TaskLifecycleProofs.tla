------------------------ MODULE TaskLifecycleProofs -------------------------
(***************************************************************************)
(* Theorems about TaskLifecycle for every set of tasks, products and       *)
(* concurrent requests, every bound on the gateway's orders, cut off or not.  *)
(***************************************************************************)
EXTENDS TaskLifecycle, TLAPS

\* The columns, spelled out where they are needed.
LEMMA Columns ==
    /\ Completable \subseteq Status /\ Reassignable \subseteq Status
    /\ {"planning", "inbox", "assigned", "in_progress", "testing", "review", "done", "failed"}
          \subseteq Status
  BY DEF Completable, Reassignable, Status

LEMMA NewRowType == ASSUME NEW st \in Status PROVE NewRow(st) \in Row
  BY ConstantsAssumption DEF NewRow, Row, Ref

LEMMA IdleType == Idle \in Req
  BY ConstantsAssumption, NewRowType, Columns DEF Idle, AnyTask, Req, Operation

\* A row a request holds, with the columns its operation assigns.
LEMMA CopyType ==
    ASSUME NEW rw \in Row
    PROVE  /\ \A st \in Status : [rw EXCEPT !.status = st] \in Row
           /\ \A st \in Status, b \in BOOLEAN : [rw EXCEPT !.status = st, !.approved = b] \in Row
           /\ \A k \in Ref : [rw EXCEPT !.ref = k] \in Row
           /\ \A b, c \in BOOLEAN : [rw EXCEPT !.head = b, !.url = c] \in Row
<1>1. \A st \in Status : [rw EXCEPT !.status = st] \in Row
  BY DEF Row
<1>2. \A st \in Status, b \in BOOLEAN : [rw EXCEPT !.status = st, !.approved = b] \in Row
  BY DEF Row
<1>3. \A k \in Ref : [rw EXCEPT !.ref = k] \in Row
  BY DEF Row
<1>4. \A b, c \in BOOLEAN : [rw EXCEPT !.head = b, !.url = c] \in Row
  BY DEF Row
<1>. QED
  BY <1>1, <1>2, <1>3, <1>4

LEMMA GateType ==
    ASSUME TypeOK, NEW r \in Request
    PROVE  Unlocked(r) \in [Product -> Request \cup {NoRequest}]
  BY DEF TypeOK, Unlocked

LEMMA ReturnType ==
    ASSUME TypeOK, NEW r \in Request, Return(r)
    PROVE  req' \in [Request -> Req] /\ gate' \in [Product -> Request \cup {NoRequest}]
  BY IdleType, GateType DEF Return, TypeOK

LEMMA HoldType ==
    ASSUME NEW q \in Req, NEW pc \in {"save", "forge"}, NEW copy \in Row, NEW auto \in BOOLEAN
    PROVE  Hold(q, pc, copy, auto) \in Req
  BY DEF Hold, Req

LEMMA BeginType ==
    ASSUME TypeOK, NEW r \in Request, NEW op, NEW t \in Task, NEW pc \in {"save", "gateway", "forge"},
           NEW copy \in Row, Begin(r, op, t, pc, copy)
    PROVE  TypeOK'
<1>. DEFINE q == [op |-> op, task |-> t, to |-> copy.status, pc |-> pc, copy |-> copy, auto |-> FALSE]
<1>1. q \in Req
  BY ConstantsAssumption DEF Begin, Req, Row
<1>2. req' = [req EXCEPT ![r] = q]
  BY DEF Begin
<1>. QED
  BY <1>1, <1>2 DEF Begin, TypeOK

LEMMA WaitType ==
    ASSUME TypeOK, NEW r \in Request, NEW op, NEW t \in Task, NEW to \in Status, Wait(r, op, t, to)
    PROVE  TypeOK'
<1>. DEFINE q == [op |-> op, task |-> t, to |-> to, pc |-> "lock",
                  copy |-> NewRow("planning"), auto |-> FALSE]
<1>1. q \in Req
  BY ConstantsAssumption, NewRowType, Columns DEF Wait, Req
<1>2. req' = [req EXCEPT ![r] = q]
  BY DEF Wait
<1>. QED
  BY <1>1, <1>2 DEF Wait, TypeOK

LEMMA ReadAndMoveType ==
    ASSUME TypeOK, NEW r \in Request, NEW op \in Operation, NEW t \in Task, NEW to \in Status,
           ReadAndMove(r, op, t, to)
    PROVE  TypeOK'
<1>. DEFINE q == [op |-> op, task |-> t, to |-> to, pc |-> "save",
                  copy |-> [row[t] EXCEPT !.status = to], auto |-> AutoFollows(t, row[t].status, to)]
<1>1. AutoFollows(t, row[t].status, to) \in BOOLEAN
  BY DEF AutoFollows
<1>2. [row[t] EXCEPT !.status = to] \in Row
  BY CopyType DEF TypeOK
<1>3. q \in Req
  BY <1>1, <1>2 DEF Req
<1>4. req' = [req EXCEPT ![r] = q]
  BY DEF ReadAndMove
<1>. QED
  BY <1>3, <1>4 DEF ReadAndMove, TypeOK

\* Every way a request arrives: it holds a copy of the row, it has read a row
\* to move, or it waits for the gate.
LEMMA ArrivalCases ==
    ASSUME TypeOK, NEW r \in Request, NEW t \in Task, Arrival(r, t)
    PROVE  \/ ApprovePlan(r, t) \/ ReturnToPlanning(r, t) \/ TouchTask(r, t) \/ Dispatch(r, t)
           \/ RedispatchStalledTask(r, t) \/ RecordCheckpoint(r, t) \/ OpenPullRequest(r, t)
           \/ \E to \in Status : ReadAndMove(r, "patch", t, to)
           \/ \E op \in Op, to \in Status :
                 Wait(r, op, t, to) /\ (op = "complete" \/ to \in {"testing", "review", "failed"})
  BY Columns DEF Arrival, CompleteWithLiveActivity, PatchTask, ApplyAgentWebhookOutcome,
                 ApplyCIWebhookOutcome, Wait

\* Type correctness: no operation, webhook or crash leaves the ranges of TypeOK;
\* above all, no recalled, moved or restored row gets a status the board does
\* not know.
THEOREM TypeCorrect == Spec => []TypeOK
<1>. USE ConstantsAssumption
<1>1. Init => TypeOK
  <2>. SUFFICES ASSUME Init PROVE TypeOK
    OBVIOUS
  <2>1. \A st \in StartStatus : NewRow(st) \in Row
    BY NewRowType
  <2>2. row \in [Task -> Row]
    BY <2>1 DEF Init
  <2>. QED
    BY <2>2, IdleType DEF Init, TypeOK
<1>2. TypeOK /\ [Next]_vars => TypeOK'
  <2>. SUFFICES ASSUME TypeOK, [Next]_vars PROVE TypeOK'
    OBVIOUS
  <2>1. ASSUME NEW r \in Request, NEW t \in Task, Arrival(r, t) PROVE TypeOK'
    <3>. row[t] \in Row
      BY DEF TypeOK
    <3>1. CASE ApprovePlan(r, t)
      BY <3>1, BeginType, CopyType, Columns DEF ApprovePlan
    <3>2. CASE ReturnToPlanning(r, t)
      BY <3>2, BeginType, CopyType, Columns DEF ReturnToPlanning
    <3>3. CASE TouchTask(r, t)
      BY <3>3, BeginType DEF TouchTask
    <3>4. CASE Dispatch(r, t)
      BY <3>4, BeginType, CopyType, Columns DEF Dispatch
    <3>5. CASE RedispatchStalledTask(r, t)
      BY <3>5, BeginType DEF RedispatchStalledTask
    <3>6. CASE RecordCheckpoint(r, t)
      BY <3>6, BeginType, CopyType, Columns DEF RecordCheckpoint
    <3>7. CASE OpenPullRequest(r, t)
      BY <3>7, BeginType DEF OpenPullRequest
    <3>8. CASE \E to \in Status : ReadAndMove(r, "patch", t, to)
      BY <3>8, ReadAndMoveType DEF Operation
    <3>9. CASE \E op \in Op, to \in Status : Wait(r, op, t, to)
      BY <3>9, WaitType
    <3>. QED
      BY <2>1, <3>1, <3>2, <3>3, <3>4, <3>5, <3>6, <3>7, <3>8, <3>9, ArrivalCases
  <2>2. ASSUME NEW r \in Request, WithLock(r) PROVE TypeOK'
    <3>1. req' \in [Request -> Req]
      BY <2>2 DEF WithLock, TypeOK, Req
    <3>2. gate' \in [Product -> Request \cup {NoRequest}]
      BY <2>2 DEF WithLock, TypeOK
    <3>. QED
      BY <2>2, <3>1, <3>2 DEF WithLock, TypeOK
  <2>3. ASSUME NEW r \in Request, MoveUnderGate(r) PROVE TypeOK'
    <3>1. req[r].op \in Operation /\ req[r].task \in Task /\ req[r].to \in Status
      BY DEF TypeOK, Req
    <3>. QED
      BY <2>3, <3>1, ReadAndMoveType DEF MoveUnderGate
  <2>4. ASSUME NEW r \in Request, MoveRefused(r) \/ CompleteRefused(r) \/ CallFails(r) \/ AutoDone(r) \/ Abandon(r)
        PROVE TypeOK'
    <3>1. Return(r) /\ UNCHANGED <<row, orders, unheard>>
      BY <2>4 DEF MoveRefused, CompleteRefused, CallFails, AutoDone, Abandon
    <3>. QED
      BY <3>1, ReturnType DEF TypeOK
  <2>5. ASSUME NEW r \in Request, CompleteTask(r) PROVE TypeOK'
    <3>1. \A rw \in Row : [rw EXCEPT !.status = "done"] \in Row
      BY CopyType, Columns
    <3>2. row' \in [Task -> Row]
      BY <2>5, <3>1 DEF CompleteTask, TypeOK, Req
    <3>3. \A q \in Req : [q EXCEPT !.pc = "auto"] \in Req
      BY DEF Req
    <3>4. req' \in [Request -> Req]
      BY <2>5, <3>3, IdleType DEF CompleteTask, TypeOK
    <3>. QED
      BY <2>5, <3>2, <3>4, GateType DEF CompleteTask, TypeOK
  <2>6. ASSUME NEW r \in Request, GatewayAccepts(r) PROVE TypeOK'
    <3>1. PICK k \in Ref : /\ orders' = [orders EXCEPT ![req[r].task] = @ \cup {k}]
                           /\ req' = [req EXCEPT ![r] = Hold(@, "save", [@.copy EXCEPT !.ref = k], @.auto)]
      BY <2>6 DEF GatewayAccepts
    <3>2. req[r] \in Req /\ req[r].copy \in Row /\ req[r].auto \in BOOLEAN
      BY DEF TypeOK, Req
    <3>3. Hold(req[r], "save", [req[r].copy EXCEPT !.ref = k], req[r].auto) \in Req
      BY <3>2, HoldType, CopyType
    <3>4. req' \in [Request -> Req]
      BY <3>1, <3>3 DEF TypeOK
    <3>5. orders' \in [Task -> SUBSET Ref]
      BY <3>1 DEF TypeOK
    <3>. QED
      BY <2>6, <3>4, <3>5 DEF GatewayAccepts, TypeOK
  <2>7. ASSUME NEW r \in Request, ForgeOpens(r) PROVE TypeOK'
    <3>. DEFINE opened == [req[r].copy EXCEPT !.head = TRUE, !.url = (Publisher = "real")]
    <3>1. req[r] \in Req /\ req[r].copy \in Row /\ req[r].auto \in BOOLEAN
      BY DEF TypeOK, Req
    <3>2. opened \in Row
      BY <3>1, CopyType
    <3>3. req' = [req EXCEPT ![r] = Hold(@, "save", opened, @.auto)]
      BY <2>7 DEF ForgeOpens
    <3>4. Hold(req[r], "save", opened, req[r].auto) \in Req
      BY <3>1, <3>2, HoldType
    <3>. QED
      BY <2>7, <3>3, <3>4 DEF ForgeOpens, TypeOK
  <2>8. ASSUME NEW r \in Request, Save(r) PROVE TypeOK'
    <3>1. row' \in [Task -> Row]
      BY <2>8 DEF Save, TypeOK, Req
    <3>2. CASE req[r].auto
      BY <2>8, <3>1, <3>2 DEF Save, TypeOK, Req
    <3>3. CASE ~req[r].auto
      BY <2>8, <3>1, <3>3, ReturnType DEF Save, TypeOK
    <3>. QED
      BY <3>2, <3>3
  <2>9. ASSUME NEW r \in Request, AutoOpensPullRequest(r) PROVE TypeOK'
    <3>1. req[r] \in Req /\ row[req[r].task] \in Row
      BY DEF TypeOK, Req
    <3>2. Hold(req[r], "forge", row[req[r].task], FALSE) \in Req
      BY <3>1, HoldType
    <3>. QED
      BY <2>9, <3>2 DEF AutoOpensPullRequest, TypeOK
  <2>10. ASSUME NEW r \in Request, GatewayAnswerLost(r) PROVE TypeOK'
    <3>1. PICK k \in Ref : /\ orders' = [orders EXCEPT ![req[r].task] = @ \cup {k}]
                           /\ unheard' = [unheard EXCEPT ![req[r].task] = @ \cup {k}]
      BY <2>10 DEF GatewayAnswerLost
    <3>2. orders' \in [Task -> SUBSET Ref] /\ unheard' \in [Task -> SUBSET Ref]
      BY <3>1 DEF TypeOK
    <3>. QED
      BY <2>10, <3>2, ReturnType DEF GatewayAnswerLost, TypeOK
  <2>11. CASE UNCHANGED vars
    BY <2>11 DEF vars, TypeOK
  <2>. QED
    BY <2>1, <2>2, <2>3, <2>4, <2>5, <2>6, <2>7, <2>8, <2>9, <2>10, <2>11 DEF Next, Work
<1>. QED
  BY <1>1, <1>2, PTL DEF Spec

-----------------------------------------------------------------------------
(* What survives stale writes: a copy is as good as a row.                  *)

\* What is true of a row of task t, in the table or in a request's hands.
RowSound(t, rw) ==
    /\ rw.status = "assigned" => rw.approved
    /\ rw.ref # 0 => rw.ref \in orders[t]
    /\ Publisher = "real" => rw.head = rw.url

CopiesSound ==
    /\ \A t \in Task : RowSound(t, row[t])
    /\ \A r \in Request : RowSound(req[r].task, req[r].copy)

\* A step that leaves the table alone and gives one request a sound copy.
LEMMA CopyTaken ==
    ASSUME TypeOK, CopiesSound, UNCHANGED <<row, orders>>, NEW r \in Request, NEW q,
           req' = [req EXCEPT ![r] = q], RowSound(q.task, q.copy)
    PROVE  CopiesSound'
<1>1. \A u \in Request : req'[u] = IF u = r THEN q ELSE req[u]
  BY DEF TypeOK
<1>. QED
  BY <1>1 DEF CopiesSound, RowSound

LEMMA BeginSound ==
    ASSUME TypeOK, CopiesSound, NEW r \in Request, NEW op, NEW t \in Task, NEW pc, NEW copy,
           Begin(r, op, t, pc, copy), RowSound(t, copy)
    PROVE  CopiesSound'
  BY CopyTaken DEF Begin

LEMMA ReadAndMoveSound ==
    ASSUME TypeOK, CopiesSound, NEW r \in Request, NEW op, NEW t \in Task, NEW to \in Status,
           ReadAndMove(r, op, t, to)
    PROVE  CopiesSound'
<1>. DEFINE copy == [row[t] EXCEPT !.status = to]
<1>1. row[t] \in Row /\ RowSound(t, row[t])
  BY DEF TypeOK, CopiesSound
<1>2. copy.status = to /\ copy.approved = row[t].approved /\ copy.ref = row[t].ref
      /\ copy.head = row[t].head /\ copy.url = row[t].url
  BY <1>1 DEF Row
<1>3. RowSound(t, copy)
  BY <1>1, <1>2 DEF RowSound, ReadAndMove, MoveAllowed
<1>. QED
  BY <1>3, CopyTaken DEF ReadAndMove

\* A request that returns, or a process that dies, drops its copy.
LEMMA IdleSound == \A t \in Task : RowSound(t, Idle.copy)
  BY DEF RowSound, Idle, NewRow

LEMMA ReturnSound ==
    ASSUME TypeOK, CopiesSound, NEW r \in Request, Return(r), UNCHANGED <<row, orders>>
    PROVE  CopiesSound'
<1>1. Idle.task \in Task
  BY IdleType DEF Req
<1>. QED
  BY <1>1, IdleSound, CopyTaken DEF Return

LEMMA SoundStep == TypeOK /\ CopiesSound /\ [Next]_vars => CopiesSound'
<1>. SUFFICES ASSUME TypeOK, CopiesSound, [Next]_vars PROVE CopiesSound'
  OBVIOUS
<1>. USE ConstantsAssumption
<1>1. ASSUME NEW r \in Request, NEW t \in Task, Arrival(r, t) PROVE CopiesSound'
  <2>1. row[t] \in Row /\ RowSound(t, row[t])
    BY DEF TypeOK, CopiesSound
  <2>2. \A st \in Status, b \in BOOLEAN : st # "assigned" =>
           RowSound(t, [row[t] EXCEPT !.status = st, !.approved = b])
    BY <2>1 DEF RowSound, Row
  <2>3. \A st \in Status : st # "assigned" => RowSound(t, [row[t] EXCEPT !.status = st])
    BY <2>1 DEF RowSound, Row
  <2>4. CASE ApprovePlan(r, t)
    BY <2>2, <2>4, BeginSound, Columns DEF ApprovePlan
  <2>5. CASE ReturnToPlanning(r, t)
    BY <2>2, <2>5, BeginSound, Columns DEF ReturnToPlanning
  <2>6. CASE TouchTask(r, t)
    BY <2>1, <2>6, BeginSound DEF TouchTask
  <2>7. CASE Dispatch(r, t)
    BY <2>3, <2>7, BeginSound, Columns DEF Dispatch
  <2>8. CASE RedispatchStalledTask(r, t)
    BY <2>1, <2>8, BeginSound DEF RedispatchStalledTask
  <2>9. CASE RecordCheckpoint(r, t)
    BY <2>3, <2>9, BeginSound, Columns DEF RecordCheckpoint
  <2>10. CASE OpenPullRequest(r, t)
    BY <2>1, <2>10, BeginSound DEF OpenPullRequest
  <2>11. CASE \E to \in Status : ReadAndMove(r, "patch", t, to)
    BY <2>11, ReadAndMoveSound
  <2>12. CASE \E op \in Op, to \in Status : Wait(r, op, t, to)
    <3>1. RowSound(t, NewRow("planning"))
      BY DEF RowSound, NewRow
    <3>. QED
      BY <2>12, <3>1, CopyTaken DEF Wait
  <2>. QED
    BY <1>1, <2>4, <2>5, <2>6, <2>7, <2>8, <2>9, <2>10, <2>11, <2>12, ArrivalCases
<1>2. ASSUME NEW r \in Request, WithLock(r) PROVE CopiesSound'
  <2>1. \A u \in Request : req'[u].task = req[u].task /\ req'[u].copy = req[u].copy
    BY <1>2 DEF WithLock, TypeOK, Req
  <2>. QED
    BY <1>2, <2>1 DEF WithLock, CopiesSound, RowSound
<1>3. ASSUME NEW r \in Request, MoveUnderGate(r) PROVE CopiesSound'
  <2>1. req[r].task \in Task /\ req[r].to \in Status
    BY DEF TypeOK, Req
  <2>. QED
    BY <1>3, <2>1, ReadAndMoveSound DEF MoveUnderGate
<1>4. ASSUME NEW r \in Request, MoveRefused(r) \/ CompleteRefused(r) \/ CallFails(r) \/ AutoDone(r) \/ Abandon(r)
      PROVE CopiesSound'
  BY <1>4, ReturnSound DEF MoveRefused, CompleteRefused, CallFails, AutoDone, Abandon
<1>5. ASSUME NEW r \in Request, CompleteTask(r) PROVE CopiesSound'
  <2>. DEFINE t == req[r].task
  <2>1. t \in Task /\ row[t] \in Row /\ RowSound(t, row[t])
    BY DEF TypeOK, Req, CopiesSound
  <2>2. RowSound(t, [row[t] EXCEPT !.status = "done"])
    BY <2>1 DEF RowSound, Row
  <2>3. row' = [row EXCEPT ![t] = [row[t] EXCEPT !.status = "done"]] /\ orders' = orders
    BY <1>5, <2>1 DEF CompleteTask, TypeOK
  <2>4. \A v \in Task : RowSound(v, row'[v])
    BY <2>2, <2>3 DEF CopiesSound, TypeOK
  <2>5. \A u \in Request : RowSound(req'[u].task, req'[u].copy)
    <3>1. \A u \in Request : \/ req'[u] = Idle
                             \/ req'[u].task = req[u].task /\ req'[u].copy = req[u].copy
      BY <1>5 DEF CompleteTask, TypeOK, Req
    <3>2. Idle.task \in Task
      BY IdleType DEF Req
    <3>. QED
      BY <3>1, <3>2, IdleSound DEF CopiesSound
  <2>. QED
    BY <2>3, <2>4, <2>5 DEF CopiesSound, RowSound
<1>6. ASSUME NEW r \in Request, GatewayAccepts(r) PROVE CopiesSound'
  <2>1. PICK k \in Ref : /\ orders' = [orders EXCEPT ![req[r].task] = @ \cup {k}]
                         /\ req' = [req EXCEPT ![r] = Hold(@, "save", [@.copy EXCEPT !.ref = k], @.auto)]
    BY <1>6 DEF GatewayAccepts
  <2>2. req[r].task \in Task /\ req[r].copy \in Row /\ RowSound(req[r].task, req[r].copy)
    BY DEF TypeOK, Req, CopiesSound
  <2>3. \A t \in Task : orders[t] \subseteq orders'[t]
    BY <2>1 DEF TypeOK
  <2>4. k \in orders'[req[r].task]
    BY <2>1, <2>2 DEF TypeOK
  <2>5. row' = row
    BY <1>6 DEF GatewayAccepts
  <2>6. \A u \in Request : u # r => req'[u] = req[u]
    BY <2>1 DEF TypeOK
  <2>7. req'[r] = Hold(req[r], "save", [req[r].copy EXCEPT !.ref = k], req[r].auto)
    BY <2>1 DEF TypeOK
  <2>8. req'[r].task = req[r].task /\ req'[r].copy = [req[r].copy EXCEPT !.ref = k]
    BY <2>7 DEF Hold
  <2>9. req'[r].copy.ref = k /\ req'[r].copy.status = req[r].copy.status
        /\ req'[r].copy.approved = req[r].copy.approved
        /\ req'[r].copy.head = req[r].copy.head /\ req'[r].copy.url = req[r].copy.url
    BY <2>2, <2>8 DEF Row
  <2>10. RowSound(req[r].task, req[r].copy)'
    BY <2>2, <2>4, <2>8, <2>9 DEF RowSound
  <2>11. \A u \in Request : u # r => RowSound(req[u].task, req[u].copy)'
    <3>1. \A u \in Request : req[u].task \in Task
      BY DEF TypeOK, Req
    <3>. QED
      BY <2>3, <2>6, <3>1 DEF CopiesSound, RowSound
  <2>12. \A t \in Task : RowSound(t, row[t])'
    BY <2>3, <2>5 DEF CopiesSound, RowSound
  <2>. QED
    BY <2>10, <2>11, <2>12 DEF CopiesSound
<1>7. ASSUME NEW r \in Request, ForgeOpens(r) PROVE CopiesSound'
  <2>. DEFINE opened == [req[r].copy EXCEPT !.head = TRUE, !.url = (Publisher = "real")]
  <2>1. req[r].copy \in Row /\ RowSound(req[r].task, req[r].copy)
    BY DEF TypeOK, Req, CopiesSound
  <2>2. opened.status = req[r].copy.status /\ opened.approved = req[r].copy.approved
        /\ opened.ref = req[r].copy.ref /\ opened.head = TRUE /\ opened.url = (Publisher = "real")
    BY <2>1 DEF Row
  <2>3. RowSound(req[r].task, opened)
    BY <2>1, <2>2 DEF RowSound
  <2>4. req' = [req EXCEPT ![r] = Hold(req[r], "save", opened, req[r].auto)]
        /\ UNCHANGED <<row, orders>>
    BY <1>7 DEF ForgeOpens
  <2>. QED
    BY <2>3, <2>4, CopyTaken DEF Hold
<1>8. ASSUME NEW r \in Request, Save(r) PROVE CopiesSound'
  <2>1. row' = [row EXCEPT ![req[r].task] = req[r].copy] /\ orders' = orders
    BY <1>8 DEF Save
  <2>2. \A t \in Task : RowSound(t, row'[t])
    BY <2>1 DEF CopiesSound, TypeOK
  <2>3. \A u \in Request : \/ req'[u] = Idle
                           \/ req'[u].task = req[u].task /\ req'[u].copy = req[u].copy
    BY <1>8 DEF Save, Return, TypeOK, Req
  <2>4. Idle.task \in Task
    BY IdleType DEF Req
  <2>5. \A u \in Request : RowSound(req'[u].task, req'[u].copy)
    BY <2>3, <2>4, IdleSound DEF CopiesSound
  <2>. QED
    BY <2>1, <2>2, <2>5 DEF CopiesSound, RowSound
<1>9. ASSUME NEW r \in Request, AutoOpensPullRequest(r) PROVE CopiesSound'
  <2>1. req[r].task \in Task /\ RowSound(req[r].task, row[req[r].task])
    BY DEF TypeOK, Req, CopiesSound
  <2>. QED
    BY <1>9, <2>1, CopyTaken DEF AutoOpensPullRequest, Hold
<1>10. ASSUME NEW r \in Request, GatewayAnswerLost(r) PROVE CopiesSound'
  <2>1. PICK k \in Ref : orders' = [orders EXCEPT ![req[r].task] = @ \cup {k}]
    BY <1>10 DEF GatewayAnswerLost
  <2>2. row' = row /\ \A t \in Task : orders[t] \subseteq orders'[t]
    BY <1>10, <2>1 DEF GatewayAnswerLost, TypeOK
  <2>3. \A u \in Request : req'[u] = Idle \/ req'[u] = req[u]
    BY <1>10 DEF GatewayAnswerLost, Return, TypeOK
  <2>4. \A u \in Request : req'[u].task \in Task
    BY <2>3, IdleType DEF TypeOK, Req
  <2>5. \A u \in Request : RowSound(req'[u].task, req'[u].copy)
    BY <2>3, IdleSound, IdleType DEF CopiesSound, Req
  <2>. QED
    BY <2>2, <2>4, <2>5 DEF CopiesSound, RowSound
<1>11. CASE UNCHANGED vars
  BY <1>11 DEF vars, CopiesSound, RowSound
<1>. QED
  BY <1>1, <1>2, <1>3, <1>4, <1>5, <1>6, <1>7, <1>8, <1>9, <1>10, <1>11 DEF Next, Work

LEMMA SoundCorrect == Spec => []CopiesSound
<1>1. Init => CopiesSound
  <2>. SUFFICES ASSUME Init PROVE CopiesSound
    OBVIOUS
  <2>1. Idle.task \in Task
    BY IdleType DEF Req
  <2>2. \A t \in Task, st \in StartStatus : RowSound(t, NewRow(st))
    BY DEF RowSound, NewRow
  <2>3. \A t \in Task : RowSound(t, row[t])
    <3>1. \A t \in Task : \E st \in StartStatus : row[t] = NewRow(st)
      BY DEF Init
    <3>. QED
      BY <2>2, <3>1
  <2>. QED
    BY <2>1, <2>3, IdleSound DEF Init, CopiesSound
<1>. QED
  BY <1>1, TypeCorrect, SoundStep, PTL DEF Spec

\* The plan gate holds under any number of concurrent requests that write whole
\* stale rows over each other: no row is ever assigned without an approved plan.
THEOREM PlanGate == Spec => []AssignedIsApproved
<1>1. CopiesSound => AssignedIsApproved
  BY DEF CopiesSound, RowSound, AssignedIsApproved
<1>. QED
  BY <1>1, SoundCorrect, PTL

\* A reference on a row was given by the gateway for that very task, whichever
\* of several dispatches wrote the row last.
THEOREM ReferencesAreOwn == Spec => []RefWasOrdered
<1>1. CopiesSound => RefWasOrdered
  BY DEF CopiesSound, RowSound, RefWasOrdered
<1>. QED
  BY <1>1, SoundCorrect, PTL

\* With a real forge no row ever has a head branch without its pull request's
\* URL, or the other way round.
THEOREM HeadsComeWithUrls == ASSUME Publisher = "real" PROVE Spec => []HeadComesWithUrl
<1>1. CopiesSound => HeadComesWithUrl
  BY DEF CopiesSound, RowSound, HeadComesWithUrl
<1>. QED
  BY <1>1, SoundCorrect, PTL

\* Stale rows written over each other never make a row lie about its order or
\* its pull request.
THEOREM RowsAreTrue == ASSUME Publisher = "real" PROVE Spec => []RowIsTrue
<1>1. RefWasOrdered /\ HeadComesWithUrl => RowIsTrue
  BY DEF RowIsTrue
<1>. QED
  BY <1>1, ReferencesAreOwn, HeadsComeWithUrls, PTL

-----------------------------------------------------------------------------
(* What the product gate gives the operations that take it.                 *)

\* Nothing the gated operations do gives a task a head branch, so they never
\* reach the forge.  The copy a request is about to save is the row moved along
\* the table to a webhook's target: the row has not changed under it, because
\* whoever has read or is about to save holds the gate of the product.
HoldsItsGate(r) == gate[ProductOf[req[r].task]] = r

AboutToMove(r) ==
    LET t == req[r].task
        copy == req[r].copy IN
    /\ MoveAllowed(t, copy.status)
    /\ copy.status \in {"testing", "review", "failed"}
    /\ copy.approved = row[t].approved
    /\ ~copy.head

GatedInv ==
    /\ \A t \in Task : ~row[t].head
    /\ \A r \in Request :
          /\ req[r].pc \notin {"gateway", "forge"}
          /\ req[r].pc \in {"lock", "locked"} =>
                req[r].op = "complete" \/ req[r].to \in {"testing", "review", "failed"}
          /\ req[r].pc \in {"locked", "save"} => HoldsItsGate(r)
          /\ req[r].pc = "save" => AboutToMove(r)

\* Two requests cannot both hold the gate of one product.
LEMMA GateExcludes ==
    ASSUME TypeOK, GatedInv, NEW r \in Request, NEW u \in Request, r # u,
           req[r].pc \in {"locked", "save"}, req[u].pc \in {"locked", "save"}
    PROVE  req[r].task # req[u].task
  BY DEF GatedInv, HoldsItsGate

\* A step that leaves the rows alone and gives one request a state that GatedInv
\* allows it keeps GatedInv, if nobody else's gate changes.
LEMMA GatedKept ==
    ASSUME TypeOK, GatedInv, UNCHANGED row, NEW r \in Request, NEW q, req' = [req EXCEPT ![r] = q],
           \A p \in Product, u \in Request : (u # r /\ gate[p] = u) => gate'[p] = u,
           q.pc \notin {"gateway", "forge"},
           q.pc \in {"lock", "locked"} =>
               q.op = "complete" \/ q.to \in {"testing", "review", "failed"},
           q.pc \in {"locked", "save"} => gate'[ProductOf[q.task]] = r,
           q.pc = "save" => /\ MoveAllowed(q.task, q.copy.status)
                            /\ q.copy.status \in {"testing", "review", "failed"}
                            /\ q.copy.approved = row[q.task].approved /\ ~q.copy.head
    PROVE  GatedInv'
<1>. USE ConstantsAssumption
<1>1. req'[r] = q /\ \A u \in Request : u # r => req'[u] = req[u]
  BY DEF TypeOK
<1>2. \A u \in Request : ProductOf[req[u].task] \in Product
  BY DEF TypeOK, Req
<1>3. ASSUME NEW u \in Request, u # r
      PROVE  /\ req'[u].pc \notin {"gateway", "forge"}
             /\ req'[u].pc \in {"lock", "locked"} =>
                   req'[u].op = "complete" \/ req'[u].to \in {"testing", "review", "failed"}
             /\ req'[u].pc \in {"locked", "save"} => HoldsItsGate(u)'
             /\ req'[u].pc = "save" => AboutToMove(u)'
  <2>1. req'[u] = req[u] /\ ProductOf[req[u].task] \in Product
    BY <1>1, <1>2, <1>3
  <2>2. HoldsItsGate(u) => HoldsItsGate(u)'
    BY <1>3, <2>1 DEF HoldsItsGate
  <2>3. AboutToMove(u) => AboutToMove(u)'
    BY <2>1 DEF AboutToMove, MoveAllowed
  <2>. QED
    BY <2>1, <2>2, <2>3 DEF GatedInv
<1>4. HoldsItsGate(r)' = (gate'[ProductOf[q.task]] = r)
  BY <1>1 DEF HoldsItsGate
<1>5. q.pc = "save" => AboutToMove(r)'
  BY <1>1 DEF AboutToMove, MoveAllowed
<1>. QED
  BY <1>1, <1>3, <1>4, <1>5 DEF GatedInv

\* A request that returns gives up only its own gate.
LEMMA OthersKeepGates ==
    ASSUME NEW r \in Request
    PROVE  \A p \in Product, u \in Request : (u # r /\ gate[p] = u) => Unlocked(r)[p] = u
  BY DEF Unlocked

LEMMA IdleIsQuiet == Idle.pc = "idle"
  BY DEF Idle

LEMMA ReturnGated ==
    ASSUME TypeOK, GatedInv, UNCHANGED row, NEW r \in Request, Return(r)
    PROVE  GatedInv'
<1>1. req' = [req EXCEPT ![r] = Idle] /\ gate' = Unlocked(r)
  BY DEF Return
<1>2. \A p \in Product, u \in Request : (u # r /\ gate[p] = u) => gate'[p] = u
  BY <1>1, OthersKeepGates
<1>3. /\ Idle.pc \notin {"gateway", "forge"} /\ Idle.pc \notin {"lock", "locked"}
      /\ Idle.pc \notin {"locked", "save"} /\ Idle.pc # "save"
  BY IdleIsQuiet
<1>. HIDE DEF Idle
<1>. QED
  BY <1>1, <1>2, <1>3, GatedKept

\* A step that changes the row of a task whose gate r holds, and lets r go on
\* to where it needs neither gate nor copy.
LEMMA WriteGated ==
    ASSUME TypeOK, GatedInv, NEW r \in Request, req[r].pc \in {"locked", "save"},
           NEW rw \in Row, ~rw.head, row' = [row EXCEPT ![req[r].task] = rw],
           NEW q, req' = [req EXCEPT ![r] = q], q.pc \in {"auto", "idle"},
           \A p \in Product, u \in Request : (u # r /\ gate[p] = u) => gate'[p] = u
    PROVE  GatedInv'
<1>. USE ConstantsAssumption
<1>1. req'[r] = q /\ \A u \in Request : u # r => req'[u] = req[u]
  BY DEF TypeOK
<1>2. \A u \in Request : ProductOf[req[u].task] \in Product
  BY DEF TypeOK, Req
<1>3. \A t \in Task : ~row'[t].head
  BY DEF GatedInv, TypeOK
<1>4. ASSUME NEW u \in Request, u # r
      PROVE  /\ req'[u].pc \notin {"gateway", "forge"}
             /\ req'[u].pc \in {"lock", "locked"} =>
                   req'[u].op = "complete" \/ req'[u].to \in {"testing", "review", "failed"}
             /\ req'[u].pc \in {"locked", "save"} => HoldsItsGate(u)'
             /\ req'[u].pc = "save" => AboutToMove(u)'
  <2>1. req'[u].pc = "save" => row'[req[u].task] = row[req[u].task]
    BY <1>1, <1>4, GateExcludes DEF TypeOK
  <2>. QED
    BY <1>1, <1>2, <1>4, <2>1 DEF GatedInv, HoldsItsGate, AboutToMove, MoveAllowed
<1>. QED
  BY <1>1, <1>3, <1>4 DEF GatedInv

LEMMA GatedStep ==
    ASSUME Op \subseteq GatedOps, TypeOK, TypeOK', GatedInv, [Next]_vars
    PROVE  GatedInv'
<1>. USE ConstantsAssumption
<1>1. ASSUME NEW r \in Request, NEW t \in Task, Arrival(r, t) PROVE GatedInv'
  <2>1. ~\E to \in Status : ReadAndMove(r, "patch", t, to) /\ "patch" \in Op
    BY DEF GatedOps
  <2>2. PICK op \in Op, to \in Status :
            Wait(r, op, t, to) /\ (op = "complete" \/ to \in {"testing", "review", "failed"})
    BY <1>1, Columns
    DEF Arrival, GatedOps, ApprovePlan, ReturnToPlanning, TouchTask, Dispatch, RedispatchStalledTask,
        RecordCheckpoint, OpenPullRequest, Begin, PatchTask, CompleteWithLiveActivity,
        ApplyAgentWebhookOutcome, ApplyCIWebhookOutcome, Wait
  <2>. QED
    BY <2>2, GatedKept DEF Wait
<1>2. ASSUME NEW r \in Request, WithLock(r) PROVE GatedInv'
  <2>. DEFINE q == [req[r] EXCEPT !.pc = "locked"]
              p == ProductOf[req[r].task]
  <2>1. req' = [req EXCEPT ![r] = q] /\ row' = row /\ gate[p] = NoRequest /\ req[r].pc = "lock"
        /\ gate' = [gate EXCEPT ![p] = r]
    BY <1>2 DEF WithLock
  <2>2. p \in Product /\ req[r] \in Req
    BY DEF TypeOK, Req
  <2>3. q.pc = "locked" /\ q.op = req[r].op /\ q.to = req[r].to /\ q.task = req[r].task
    BY <2>2 DEF Req
  <2>4. gate'[p] = r
    BY <2>1, <2>2 DEF TypeOK
  <2>5. \A w \in Product, u \in Request : (u # r /\ gate[w] = u) => gate'[w] = u
    BY <2>1, <2>2 DEF TypeOK
  <2>6. q.op = "complete" \/ q.to \in {"testing", "review", "failed"}
    BY <2>1, <2>3 DEF GatedInv
  <2>. HIDE DEF q
  <2>. QED
    BY <2>1, <2>3, <2>4, <2>5, <2>6, GatedKept
<1>3. ASSUME NEW r \in Request, MoveUnderGate(r) PROVE GatedInv'
  <2>. DEFINE t == req[r].task
              to == req[r].to
              copy == [row[t] EXCEPT !.status = to]
              q == [op |-> req[r].op, task |-> t, to |-> to, pc |-> "save", copy |-> copy,
                    auto |-> AutoFollows(t, row[t].status, to)]
  <2>1. req' = [req EXCEPT ![r] = q] /\ row' = row /\ gate' = gate /\ MoveAllowed(t, to)
        /\ req[r].pc = "locked" /\ req[r].op # "complete"
    BY <1>3 DEF MoveUnderGate, ReadAndMove
  <2>2. t \in Task /\ row[t] \in Row
    BY DEF TypeOK, Req
  <2>3. copy.status = to /\ copy.approved = row[t].approved /\ copy.head = row[t].head
    BY <2>2 DEF Row
  <2>4. to \in {"testing", "review", "failed"} /\ gate[ProductOf[t]] = r /\ ~row[t].head
    BY <2>1, <2>2 DEF GatedInv, HoldsItsGate
  <2>5. q.pc = "save" /\ q.task = t /\ q.copy = copy
    OBVIOUS
  <2>. HIDE DEF q, copy
  <2>. QED
    BY <2>1, <2>2, <2>3, <2>4, <2>5, GatedKept
<1>4. ASSUME NEW r \in Request, MoveRefused(r) \/ CompleteRefused(r) \/ CallFails(r) \/ AutoDone(r) \/ Abandon(r)
      PROVE GatedInv'
  BY <1>4, ReturnGated DEF MoveRefused, CompleteRefused, CallFails, AutoDone, Abandon
<1>5. ASSUME NEW r \in Request, CompleteTask(r) PROVE GatedInv'
  <2>. DEFINE t == req[r].task
              rw == [row[t] EXCEPT !.status = "done"]
              q == IF AutoFollows(t, row[t].status, "done") THEN [req[r] EXCEPT !.pc = "auto"] ELSE Idle
  <2>1. t \in Task /\ row[t] \in Row /\ req[r] \in Req
    BY DEF TypeOK, Req
  <2>2. req[r].pc = "locked" /\ row' = [row EXCEPT ![t] = rw] /\ gate' = Unlocked(r)
        /\ req' = [req EXCEPT ![r] = q]
    BY <1>5, <2>1 DEF CompleteTask, TypeOK
  <2>3. rw \in Row /\ ~rw.head
    BY <2>1, CopyType, Columns, ZenonT(90) DEF Row, GatedInv
  <2>4. q.pc \in {"auto", "idle"}
    BY <2>1, IdleIsQuiet DEF Req
  <2>5. \A p \in Product, u \in Request : (u # r /\ gate[p] = u) => gate'[p] = u
    BY <2>2, OthersKeepGates
  <2>. HIDE DEF q, rw
  <2>. QED
    BY <2>2, <2>3, <2>4, <2>5, WriteGated
<1>6. ASSUME NEW r \in Request, GatewayAccepts(r) \/ GatewayAnswerLost(r) \/ ForgeOpens(r)
      PROVE GatedInv'
  BY <1>6 DEF GatewayAccepts, GatewayAnswerLost, ForgeOpens, GatedInv
<1>7. ASSUME NEW r \in Request, Save(r) PROVE GatedInv'
  <2>. DEFINE t == req[r].task
              q == IF req[r].auto THEN [req[r] EXCEPT !.pc = "auto"] ELSE Idle
  <2>1. req[r] \in Req /\ req[r].copy \in Row
    BY DEF TypeOK, Req
  <2>2. req[r].pc = "save" /\ row' = [row EXCEPT ![t] = req[r].copy] /\ req' = [req EXCEPT ![r] = q]
        /\ (gate' = gate \/ gate' = Unlocked(r))
    BY <1>7 DEF Save, Return
  <2>3. ~req[r].copy.head
    BY <2>2 DEF GatedInv, AboutToMove
  <2>4. q.pc \in {"auto", "idle"}
    BY <2>1, IdleIsQuiet DEF Req
  <2>5. \A p \in Product, u \in Request : (u # r /\ gate[p] = u) => gate'[p] = u
    BY <2>2, OthersKeepGates
  <2>. HIDE DEF q
  <2>. QED
    BY <2>1, <2>2, <2>3, <2>4, <2>5, WriteGated
<1>8. ASSUME NEW r \in Request, AutoOpensPullRequest(r) PROVE GatedInv'
  BY <1>8 DEF AutoOpensPullRequest, GatedInv, TypeOK, Req
<1>9. CASE UNCHANGED vars
  BY <1>9 DEF vars, GatedInv, HoldsItsGate, AboutToMove, MoveAllowed
<1>. QED
  BY <1>1, <1>2, <1>3, <1>4, <1>5, <1>6, <1>7, <1>8, <1>9 DEF Next, Work

LEMMA GatedCorrect == ASSUME Op \subseteq GatedOps PROVE Spec => []GatedInv
<1>1. Init => GatedInv
  <2>. SUFFICES ASSUME Init PROVE GatedInv
    OBVIOUS
  <2>1. \A t \in Task : \E st \in StartStatus : row[t] = NewRow(st)
    BY DEF Init
  <2>2. \A t \in Task : ~row[t].head
    <3>1. \A st \in StartStatus : ~NewRow(st).head
      BY DEF NewRow
    <3>. QED
      BY <2>1, <3>1
  <2>3. \A r \in Request : req[r].pc = "idle"
    BY IdleIsQuiet DEF Init
  <2>. QED
    BY <2>2, <2>3 DEF GatedInv
<1>2. TypeOK /\ TypeOK' /\ GatedInv /\ [Next]_vars => GatedInv'
  BY GatedStep
<1>3. Spec => []TypeOK
  BY TypeCorrect
<1>. QED
  BY <1>1, <1>2, <1>3, PTL DEF Spec

\* Every step of the gated operations that changes a row is one completion, or
\* one move along the table of a task that is not done, from the column the task
\* is in when it is written.
LEMMA GatedWrites ==
    ASSUME Op \subseteq GatedOps, TypeOK, GatedInv, [Next]_vars
    PROVE  \/ \A t \in Task : row'[t].status = row[t].status /\ row'[t].approved = row[t].approved
           \/ \E t \in Task :
                 /\ \A v \in Task : v # t => row'[v] = row[v]
                 /\ row'[t].approved = row[t].approved
                 /\ \/ row[t].status \in Completable \cup {"done"} /\ row'[t].status = "done"
                    \/ /\ MoveAllowed(t, row'[t].status)
                       /\ row'[t].status \in {"testing", "review", "failed"}
<1>. USE ConstantsAssumption
<1>1. ASSUME NEW r \in Request, CompleteTask(r)
      PROVE  \E t \in Task :
                 /\ \A v \in Task : v # t => row'[v] = row[v]
                 /\ row'[t].approved = row[t].approved
                 /\ row[t].status \in Completable \cup {"done"} /\ row'[t].status = "done"
  <2>1. req[r].task \in Task /\ row[req[r].task] \in Row
    BY DEF TypeOK, Req
  <2>2. row'[req[r].task] = [row[req[r].task] EXCEPT !.status = "done"]
        /\ \A v \in Task : v # req[r].task => row'[v] = row[v]
    BY <1>1, <2>1 DEF CompleteTask, TypeOK
  <2>3. row'[req[r].task].status = "done" /\ row'[req[r].task].approved = row[req[r].task].approved
    BY <2>1, <2>2 DEF Row
  <2>. QED
    BY <1>1, <2>1, <2>2, <2>3 DEF CompleteTask
<1>2. ASSUME NEW r \in Request, Save(r)
      PROVE  \E t \in Task :
                 /\ \A v \in Task : v # t => row'[v] = row[v]
                 /\ row'[t].approved = row[t].approved
                 /\ MoveAllowed(t, row'[t].status)
                 /\ row'[t].status \in {"testing", "review", "failed"}
  <2>1. req[r].task \in Task /\ AboutToMove(r)
    BY <1>2 DEF Save, GatedInv, TypeOK, Req
  <2>2. row'[req[r].task] = req[r].copy /\ \A v \in Task : v # req[r].task => row'[v] = row[v]
    BY <1>2, <2>1 DEF Save, TypeOK
  <2>. QED
    BY <2>1, <2>2 DEF AboutToMove
<1>3. ASSUME NEW r \in Request, NEW t \in Task, Arrival(r, t) PROVE row' = row
  BY <1>3 DEF Arrival, ApprovePlan, ReturnToPlanning, TouchTask, Dispatch, RedispatchStalledTask,
              RecordCheckpoint, OpenPullRequest, Begin, PatchTask, ReadAndMove,
              CompleteWithLiveActivity, ApplyAgentWebhookOutcome, ApplyCIWebhookOutcome, Wait
<1>4. ASSUME NEW r \in Request, WithLock(r) \/ Work(r) \/ Abandon(r), ~CompleteTask(r), ~Save(r)
      PROVE  row' = row
  BY <1>4 DEF Work, WithLock, MoveUnderGate, ReadAndMove, MoveRefused, CompleteRefused,
              GatewayAccepts, GatewayAnswerLost, ForgeOpens, CallFails, AutoOpensPullRequest, AutoDone, Abandon
<1>5. CASE \E r \in Request : CompleteTask(r) \/ Save(r)
  BY <1>1, <1>2, <1>5
<1>6. CASE ~\E r \in Request : CompleteTask(r) \/ Save(r)
  <2>1. row' = row
    BY <1>3, <1>4, <1>6 DEF Next, vars
  <2>. QED
    BY <2>1
<1>. QED
  BY <1>5, <1>6

\* Completion is final while only gated operations run: no late, repeated or
\* overtaken webhook of the agent or of CI takes a task out of done.
THEOREM CompletionIsFinal == ASSUME Op \subseteq GatedOps PROVE Spec => DoneIsFinal
<1>1. TypeOK /\ GatedInv /\ [Next]_vars
         => [\A t \in Task : row[t].status = "done" => row'[t].status = "done"]_vars
  <2>. SUFFICES ASSUME TypeOK, GatedInv, [Next]_vars, NEW t \in Task, row[t].status = "done"
                PROVE  row'[t].status = "done"
    OBVIOUS
  <2>1. ~AllowedKanbanTransition("done", "testing") /\ ~AllowedKanbanTransition("done", "review")
        /\ ~AllowedKanbanTransition("done", "failed")
    BY DEF AllowedKanbanTransition
  <2>. QED
    BY <2>1, GatedWrites DEF MoveAllowed
<1>2. Spec => []TypeOK
  BY TypeCorrect
<1>3. Spec => []GatedInv
  BY GatedCorrect
<1>. QED
  BY <1>1, <1>2, <1>3, PTL DEF Spec, DoneIsFinal

\* A row that an operation of the board makes of another in one step.
Follows(old, new) ==
    \/ new.status = old.status /\ new.approved = old.approved
    \/ old.status = "planning" /\ new.status = "inbox" /\ new.approved = TRUE
    \/ old.status \in {"inbox", "assigned"} /\ new.status = "planning" /\ new.approved = FALSE
    \/ /\ AllowedKanbanTransition(old.status, new.status)
       /\ new.status = "assigned" => old.approved
       /\ new.approved = old.approved

\* The initial board, and one row that changes as an operation of the board
\* would change it.
LEMMA BoardInit == Init => Board!Init
<1>. SUFFICES ASSUME Init PROVE Board!Init
  OBVIOUS
<1>1. \A t \in Task : \E st \in StartStatus : row[t] = NewRow(st)
  BY DEF Init
<1>2. \A st \in StartStatus : NewRow(st).status = st /\ NewRow(st).approved = (st # "planning")
  BY DEF NewRow
<1>3. \A t \in Task : row[t].status \in StartStatus /\ row[t].approved = (row[t].status # "planning")
  BY <1>1, <1>2
<1>. QED
  BY <1>3 DEF Board!Init

LEMMA BoardStep ==
    ASSUME TypeOK, TypeOK', NEW t \in Task, \A v \in Task : v # t => row'[v] = row[v],
           \/ Follows(row[t], row'[t])
           \/ /\ row[t].status \in Completable \cup {"done"}
              /\ row'[t].status = "done" /\ row'[t].approved = row[t].approved
    PROVE  [Board!Next]_(Board!vars)
<1>. DEFINE column == [v \in Task |-> row[v].status]
            approved == [v \in Task |-> row[v].approved]
            to == row'[t].status
<1>1. /\ column' = [column EXCEPT ![t] = to]
      /\ approved' = [approved EXCEPT ![t] = row'[t].approved]
  OBVIOUS
<1>2. row'[t].approved = row[t].approved => approved' = approved
  BY <1>1
<1>3. to \in Status
  BY DEF TypeOK, Row
<1>4. CASE to = row[t].status /\ row'[t].approved = row[t].approved
  BY <1>1, <1>4 DEF Board!vars
<1>5. CASE row[t].status = "planning" /\ to = "inbox" /\ row'[t].approved = TRUE
  BY <1>1, <1>5 DEF Board!Approve, Board!Next
<1>6. CASE row[t].status \in {"inbox", "assigned"} /\ to = "planning" /\ row'[t].approved = FALSE
  BY <1>1, <1>6 DEF Board!Recall, Board!Next
<1>7. CASE /\ AllowedKanbanTransition(row[t].status, to)
           /\ to = "assigned" => row[t].approved
           /\ row'[t].approved = row[t].approved
  <2>1. PICK x \in Status : x = to
    BY <1>3
  <2>2. Board!Move(t, x)
    BY <1>1, <1>2, <1>7, <2>1
    DEF Board!Move, Board!AllowedKanbanTransition, AllowedKanbanTransition
  <2>3. x \in Board!Status
    BY DEF Board!Status, Status
  <2>. QED
    BY <2>2, <2>3 DEF Board!Next
<1>8. CASE /\ row[t].status \in Completable \cup {"done"}
           /\ to = "done" /\ row'[t].approved = row[t].approved
  BY <1>1, <1>2, <1>8 DEF Board!Complete, Board!Completable, Completable, Board!Next
<1>. QED
  BY <1>4, <1>5, <1>6, <1>7, <1>8 DEF Follows

\* With the gate taken by every operation, the board behaves as if each were
\* atomic: the rows implement TaskBoard.
THEOREM GatedBoard == ASSUME Op \subseteq GatedOps PROVE Spec => ImplementsTaskBoard
<1>1. TypeOK /\ TypeOK' /\ GatedInv /\ [Next]_vars => [Board!Next]_(Board!vars)
  <2>. SUFFICES ASSUME TypeOK, TypeOK', GatedInv, [Next]_vars PROVE [Board!Next]_(Board!vars)
    OBVIOUS
  <2>1. CASE \A t \in Task : row'[t].status = row[t].status /\ row'[t].approved = row[t].approved
    BY <2>1 DEF Board!vars
  <2>2. CASE \E t \in Task :
                 /\ \A v \in Task : v # t => row'[v] = row[v]
                 /\ row'[t].approved = row[t].approved
                 /\ \/ row[t].status \in Completable \cup {"done"} /\ row'[t].status = "done"
                    \/ /\ MoveAllowed(t, row'[t].status)
                       /\ row'[t].status \in {"testing", "review", "failed"}
    BY <2>2, BoardStep DEF MoveAllowed, Follows
  <2>. QED
    BY <2>1, <2>2, GatedWrites
<1>2. Spec => []GatedInv
  BY GatedCorrect
<1>. QED
  BY <1>1, <1>2, BoardInit, TypeCorrect, PTL DEF Spec, ImplementsTaskBoard, Board!Spec

-----------------------------------------------------------------------------
(* One request at a time: nothing the gateway has answered is dropped.       *)

Below(refs, bound) == \A ref \in refs : ref <= bound

\* A call q and task t, which the gateway answered for with the references refs and
\* the table under the reference known.
CallKnows(q, t, refs, known) ==
    /\ (q.pc # "save" \/ q.task # t) => Below(refs, known)
    /\ (q.pc \in {"gateway", "forge", "save"} /\ q.task = t) => Below(refs, q.copy.ref)

\* References are given out without gaps, so that a new one is the largest.
NoGaps == \A t \in Task : \A k \in orders[t] : \A j \in 1 .. k : \E u \in Task : j \in orders[u]

SoloInv ==
    /\ NoGaps
    /\ \A r \in Request, t \in Task : CallKnows(req[r], t, Answered(t), row[t].ref)

\* The only request goes on with q: with the row as it is, or nothing to write.
LEMMA SoloTaken ==
    ASSUME TypeOK, SoloInv, NEW r \in Request, Request = {r}, req[r].pc # "save",
           UNCHANGED <<row, orders, unheard>>, NEW q, req' = [req EXCEPT ![r] = q],
           q.pc \in {"gateway", "forge", "save"} => q.copy.ref = row[q.task].ref
    PROVE  SoloInv'
<1>1. req'[r] = q
  BY DEF TypeOK
<1>2. ASSUME NEW t \in Task PROVE CallKnows(q, t, Answered(t), row[t].ref)
  <2>1. Below(Answered(t), row[t].ref)
    BY DEF SoloInv, CallKnows
  <2>. QED
    BY <2>1 DEF CallKnows
<1>3. NoGaps'
  BY DEF SoloInv, NoGaps
<1>4. ASSUME NEW u \in Request, NEW t \in Task PROVE CallKnows(req'[u], t, Answered(t)', row'[t].ref)
  BY <1>1, <1>2 DEF Answered
<1>. QED
  BY <1>3, <1>4 DEF SoloInv

LEMMA SoloReturns ==
    ASSUME TypeOK, SoloInv, NEW r \in Request, Request = {r}, req[r].pc # "save",
           UNCHANGED <<row, orders, unheard>>, Return(r)
    PROVE  SoloInv'
  BY SoloTaken DEF Return, Idle

LEMMA SoloBegins ==
    ASSUME TypeOK, SoloInv, NEW r \in Request, Request = {r}, NEW op, NEW t \in Task, NEW pc,
           NEW copy, Begin(r, op, t, pc, copy), copy.ref = row[t].ref
    PROVE  SoloInv'
  BY SoloTaken DEF Begin

LEMMA SoloMoves ==
    ASSUME TypeOK, SoloInv, NEW r \in Request, Request = {r}, req[r].pc # "save", NEW op,
           NEW t \in Task, NEW to \in Status, ReadAndMove(r, op, t, to)
    PROVE  SoloInv'
<1>. DEFINE copy == [row[t] EXCEPT !.status = to]
<1>1. copy.ref = row[t].ref
  BY DEF TypeOK, Row
<1>. QED
  BY <1>1, SoloTaken DEF ReadAndMove

\* A reference that is new is above all that were given, and leaves no gap.
LEMMA FreshIsLargest ==
    ASSUME TypeOK, SoloInv, NEW k \in Ref \ {0}, Fresh(k), NEW t \in Task,
           orders' = [orders EXCEPT ![t] = @ \cup {k}]
    PROVE  /\ k \in Nat
           /\ \A u \in Task : Below(orders[u], k)
           /\ NoGaps'
<1>1. k \in Nat \ {0} /\ \A u \in Task : orders[u] \subseteq Nat
  BY DEF TypeOK, Ref
<1>2. \A u \in Task : Below(orders[u], k)
  <2>1. SUFFICES ASSUME NEW u \in Task, NEW j \in orders[u], k < j PROVE FALSE
    BY <1>1 DEF Below
  <2>2. k \in 1 .. j
    BY <1>1, <2>1
  <2>3. \E v \in Task : k \in orders[v]
    BY <2>2 DEF SoloInv, NoGaps
  <2>. QED
    BY <2>3 DEF Fresh
<1>3. /\ orders'[t] = orders[t] \cup {k}
      /\ \A u \in Task \ {t} : orders'[u] = orders[u]
  BY DEF TypeOK
<1>4. ASSUME NEW u \in Task, NEW i \in orders'[u], NEW j \in 1 .. i
      PROVE  \E v \in Task : j \in orders'[v]
  <2>1. \A v \in Task : orders[v] \subseteq orders'[v]
    BY <1>3
  <2>2. CASE i \in orders[u]
    <3>1. \E v \in Task : j \in orders[v]
      BY <2>2 DEF SoloInv, NoGaps
    <3>. QED
      BY <2>1, <3>1
  <2>3. CASE i \notin orders[u]
    <3>1. i = k /\ k \in orders'[t]
      BY <1>3, <2>3
    <3>2. j = k \/ j \in 1 .. (k - 1)
      BY <1>1, <3>1
    <3>. QED
      BY <2>1, <3>1, <3>2 DEF Fresh
  <2>. QED
    BY <2>2, <2>3
<1>. QED
  BY <1>1, <1>2, <1>4 DEF NoGaps

LEMMA SoloStep ==
    ASSUME NEW r \in Request, Request = {r}, Crashes = FALSE, TypeOK, SoloInv, [Next]_vars
    PROVE  SoloInv'
<1>0. \A u \in Request : u = r
  OBVIOUS
<1>1. ASSUME NEW t \in Task, Arrival(r, t) PROVE SoloInv'
  <2>1. row[t] \in Row
    BY DEF TypeOK
  <2>2. /\ \A st \in Status, b \in BOOLEAN :
              [row[t] EXCEPT !.status = st, !.approved = b].ref = row[t].ref
        /\ \A st \in Status : [row[t] EXCEPT !.status = st].ref = row[t].ref
    BY <2>1 DEF Row
  <2>3. CASE ApprovePlan(r, t)
    BY <2>2, <2>3, SoloBegins, Columns DEF ApprovePlan
  <2>4. CASE ReturnToPlanning(r, t)
    BY <2>2, <2>4, SoloBegins, Columns DEF ReturnToPlanning
  <2>5. CASE TouchTask(r, t)
    BY <2>5, SoloBegins DEF TouchTask
  <2>6. CASE Dispatch(r, t)
    BY <2>2, <2>6, SoloBegins, Columns DEF Dispatch
  <2>7. CASE RedispatchStalledTask(r, t)
    BY <2>7, SoloBegins DEF RedispatchStalledTask
  <2>8. CASE RecordCheckpoint(r, t)
    BY <2>2, <2>8, SoloBegins, Columns DEF RecordCheckpoint
  <2>9. CASE OpenPullRequest(r, t)
    BY <2>9, SoloBegins DEF OpenPullRequest
  <2>10. CASE \E to \in Status : PatchTask(r, t, to)
    BY <2>10, SoloMoves DEF PatchTask
  <2>11. CASE \E op \in Op, to \in Status : Wait(r, op, t, to)
    BY <2>11, SoloTaken DEF Wait
  <2>. QED
    BY <1>1, <2>3, <2>4, <2>5, <2>6, <2>7, <2>8, <2>9, <2>10, <2>11, Columns
    DEF Arrival, CompleteWithLiveActivity, ApplyAgentWebhookOutcome, ApplyCIWebhookOutcome, Wait
<1>2. CASE WithLock(r)
  <2>. DEFINE q == [req[r] EXCEPT !.pc = "locked"]
  <2>1. q.pc = "locked" /\ req[r].pc # "save" /\ UNCHANGED <<row, orders, unheard>>
    BY <1>2 DEF WithLock, TypeOK, Req
  <2>2. req' = [req EXCEPT ![r] = q]
    BY <1>2 DEF WithLock
  <2>. HIDE DEF q
  <2>. QED
    BY <2>1, <2>2, SoloTaken
<1>3. CASE MoveUnderGate(r)
  <2>1. req[r].task \in Task /\ req[r].to \in Status
    BY DEF TypeOK, Req
  <2>. QED
    BY <1>3, <2>1, SoloMoves DEF MoveUnderGate
<1>4. CASE MoveRefused(r) \/ CompleteRefused(r) \/ CallFails(r) \/ AutoDone(r)
  BY <1>4, SoloReturns DEF MoveRefused, CompleteRefused, CallFails, AutoDone
<1>5. CASE CompleteTask(r)
  <2>. DEFINE t == req[r].task
              q == IF AutoFollows(t, row[t].status, "done")
                     THEN [req[r] EXCEPT !.pc = "auto"] ELSE Idle
  <2>1. t \in Task /\ req[r] \in Req /\ row \in [Task -> Row]
    BY DEF TypeOK, Req
  <2>2. /\ req[r].pc = "locked" /\ row' = [row EXCEPT ![t].status = "done"]
        /\ req' = [req EXCEPT ![r] = q] /\ UNCHANGED <<orders, unheard>>
    BY <1>5 DEF CompleteTask
  <2>3. q.pc \in {"auto", "idle"}
    BY <2>1 DEF Idle, Req
  <2>. HIDE DEF q
  <2>4. req'[r] = q
    BY <2>2 DEF TypeOK
  <2>5. \A u \in Task : row'[u].ref = row[u].ref
    BY <2>1, <2>2 DEF Row
  <2>6. ASSUME NEW u \in Task PROVE CallKnows(q, u, Answered(u)', row'[u].ref)
    <3>1. Below(Answered(u), row[u].ref)
      BY <2>2 DEF SoloInv, CallKnows
    <3>. QED
      BY <2>2, <2>3, <2>5, <3>1 DEF CallKnows, Answered
  <2>7. NoGaps'
    BY <2>2 DEF SoloInv, NoGaps
  <2>. QED
    BY <1>0, <2>4, <2>6, <2>7 DEF SoloInv
<1>6. CASE GatewayAccepts(r)
  <2>. DEFINE t == req[r].task
  <2>1. PICK k \in Ref \ {0} :
          /\ Fresh(k)
          /\ orders' = [orders EXCEPT ![t] = @ \cup {k}]
          /\ req' = [req EXCEPT ![r] = Hold(@, "save", [@.copy EXCEPT !.ref = k], @.auto)]
    BY <1>6 DEF GatewayAccepts
  <2>2. /\ t \in Task /\ req[r].copy \in Row /\ req[r].pc = "gateway" /\ UNCHANGED <<row, unheard>>
    BY <1>6 DEF TypeOK, Req, GatewayAccepts
  <2>3. k \in Nat /\ (\A u \in Task : Below(orders[u], k)) /\ NoGaps'
    BY <2>1, <2>2, FreshIsLargest
  <2>4. /\ req'[r].pc = "save" /\ req'[r].task = t /\ req'[r].copy.ref = k
    BY <2>1, <2>2 DEF TypeOK, Hold, Row
  <2>5. /\ orders'[t] = orders[t] \cup {k}
        /\ \A u \in Task \ {t} : orders'[u] = orders[u]
    BY <2>1, <2>2 DEF TypeOK
  <2>6. ASSUME NEW u \in Task PROVE CallKnows(req'[r], u, Answered(u)', row'[u].ref)
    <3>1. CASE u = t
      <4>1. Below(Answered(u)', k)
        BY <2>2, <2>3, <2>5, <3>1 DEF Answered, Below
      <4>. QED
        BY <2>4, <3>1, <4>1 DEF CallKnows
    <3>2. CASE u # t
      <4>1. Below(Answered(u), row[u].ref)
        BY <2>2 DEF SoloInv, CallKnows
      <4>2. Answered(u)' = Answered(u)
        BY <2>2, <2>5, <3>2 DEF Answered
      <4>. QED
        BY <2>2, <2>4, <3>2, <4>1, <4>2 DEF CallKnows
    <3>. QED
      BY <3>1, <3>2
  <2>. QED
    BY <1>0, <2>3, <2>6 DEF SoloInv
<1>7. CASE ForgeOpens(r)
  <2>. DEFINE opened == [req[r].copy EXCEPT !.head = TRUE, !.url = (Publisher = "real")]
              q == Hold(req[r], "save", opened, req[r].auto)
  <2>1. /\ req[r].pc = "forge" /\ req' = [req EXCEPT ![r] = q] /\ UNCHANGED <<row, orders, unheard>>
        /\ req[r].copy \in Row
    BY <1>7 DEF ForgeOpens, TypeOK, Req
  <2>2. opened.ref = req[r].copy.ref
    BY <2>1 DEF Row
  <2>3. q.pc = "save" /\ q.task = req[r].task /\ q.copy.ref = req[r].copy.ref
    BY <2>2 DEF Hold
  <2>. HIDE DEF q
  <2>4. req'[r] = q
    BY <2>1 DEF TypeOK
  <2>5. ASSUME NEW u \in Task PROVE CallKnows(q, u, Answered(u)', row'[u].ref)
    <3>1. CallKnows(req[r], u, Answered(u), row[u].ref)
      BY DEF SoloInv
    <3>. QED
      BY <2>1, <2>3, <3>1 DEF CallKnows, Answered
  <2>6. NoGaps'
    BY <2>1 DEF SoloInv, NoGaps
  <2>. QED
    BY <1>0, <2>4, <2>5, <2>6 DEF SoloInv
<1>8. CASE Save(r)
  <2>. DEFINE t == req[r].task
  <2>1. /\ req[r].pc = "save" /\ row' = [row EXCEPT ![t] = req[r].copy] /\ UNCHANGED <<orders, unheard>>
        /\ t \in Task
    BY <1>8 DEF Save, TypeOK, Req
  <2>2. req'[r].pc \in {"auto", "idle"}
    BY <1>8 DEF Save, Return, Idle, TypeOK, Req
  <2>3. ASSUME NEW u \in Task PROVE Below(Answered(u), row'[u].ref)
    <3>1. CallKnows(req[r], u, Answered(u), row[u].ref)
      BY DEF SoloInv
    <3>2. row'[u] = IF u = t THEN req[r].copy ELSE row[u]
      BY <2>1 DEF TypeOK
    <3>. QED
      BY <2>1, <3>1, <3>2 DEF CallKnows
  <2>4. NoGaps'
    BY <2>1 DEF SoloInv, NoGaps
  <2>5. ASSUME NEW u \in Task PROVE CallKnows(req'[r], u, Answered(u)', row'[u].ref)
    BY <2>1, <2>2, <2>3 DEF CallKnows, Answered
  <2>. QED
    BY <1>0, <2>4, <2>5 DEF SoloInv
<1>9. CASE AutoOpensPullRequest(r)
  BY <1>9, SoloTaken DEF AutoOpensPullRequest, Hold
<1>10. CASE UNCHANGED vars
  BY <1>10 DEF vars, SoloInv, NoGaps, Answered
<1>11. ~Abandon(r)
  BY DEF Abandon
<1>12. CASE GatewayAnswerLost(r)
  <2>. DEFINE t == req[r].task
  <2>1. PICK k \in Ref \ {0} :
          /\ Fresh(k)
          /\ orders' = [orders EXCEPT ![t] = @ \cup {k}]
          /\ unheard' = [unheard EXCEPT ![t] = @ \cup {k}]
    BY <1>12 DEF GatewayAnswerLost
  <2>2. t \in Task /\ req[r].pc = "gateway" /\ UNCHANGED row /\ req'[r] = Idle
    BY <1>12 DEF TypeOK, Req, GatewayAnswerLost, Return
  <2>3. NoGaps'
    BY <2>1, <2>2, FreshIsLargest
  <2>4. /\ orders'[t] = orders[t] \cup {k} /\ unheard'[t] = unheard[t] \cup {k}
        /\ \A u \in Task \ {t} : orders'[u] = orders[u] /\ unheard'[u] = unheard[u]
    BY <2>1, <2>2 DEF TypeOK
  <2>5. ASSUME NEW u \in Task PROVE CallKnows(req'[r], u, Answered(u)', row'[u].ref)
    <3>1. Below(Answered(u), row[u].ref)
      BY <2>2 DEF SoloInv, CallKnows
    <3>2. Answered(u)' \subseteq Answered(u)
      BY <2>2, <2>4 DEF Answered
    <3>. QED
      BY <2>2, <3>1, <3>2, IdleIsQuiet DEF CallKnows, Below
  <2>. QED
    BY <1>0, <2>3, <2>5 DEF SoloInv
<1>. QED
  BY <1>0, <1>1, <1>2, <1>3, <1>4, <1>5, <1>6, <1>7, <1>8, <1>9, <1>10, <1>11, <1>12
  DEF Next, Work

LEMMA SoloIsKnown ==
    ASSUME NEW r \in Request, Request = {r}, Crashes = FALSE
    PROVE  Spec => []SoloInv
<1>1. Init => SoloInv
  <2>. SUFFICES ASSUME Init PROVE SoloInv
    OBVIOUS
  <2>1. \A t \in Task : orders[t] = {} /\ unheard[t] = {}
    BY DEF Init
  <2>. QED
    BY <2>1 DEF SoloInv, NoGaps, CallKnows, Below, Answered
<1>2. SoloInv /\ TypeOK /\ [Next]_vars => SoloInv'
  BY SoloStep
<1>. QED
  BY <1>1, <1>2, TypeCorrect, PTL DEF Spec

\* With one request at a time, none of them cut off, a task carries the last
\* reference the gateway answered with whenever nothing is running: every column,
\* every failing call and every automatic pull request included.  A call whose
\* answer is lost after the gateway took the task on leaves an order that no row
\* names, and nothing else does.
THEOREM LastAnswerIsKnown ==
    ASSUME NEW r \in Request, Request = {r}, Crashes = FALSE
    PROVE  Spec => []AnsweredWorkIsKnown
<1>1. SoloInv => AnsweredWorkIsKnown
  <2>. SUFFICES ASSUME SoloInv, \A u \in Request : req[u].pc = "idle"
       PROVE  \A t \in Task : \A ref \in Answered(t) : ref <= row[t].ref
    BY DEF AnsweredWorkIsKnown
  <2>. QED
    BY DEF SoloInv, CallKnows, Below
<1>. QED
  BY <1>1, SoloIsKnown, PTL

-----------------------------------------------------------------------------
(* One request at a time: the board of atomic operations.                   *)

\* What a request holds to write is one step from the row that is there.
Fits(q, rw) == q.pc \in {"gateway", "forge", "save"} => Follows(rw, q.copy)

SoloCopy == \A r \in Request : Fits(req[r], row[req[r].task])

\* Gateway and forge add to a copy what is not on the board.
LEMMA FollowsStill ==
    ASSUME NEW old, NEW copy \in Row, NEW new \in Row, Follows(old, copy),
           new.status = copy.status, new.approved = copy.approved
    PROVE  Follows(old, new)
  BY DEF Follows

LEMMA CopyGoesOn ==
    ASSUME TypeOK, NEW r \in Request, Request = {r}, UNCHANGED row,
           NEW q, req' = [req EXCEPT ![r] = q], Fits(q, row[q.task])
    PROVE  SoloCopy'
<1>1. req'[r] = q /\ \A u \in Request : u = r
  BY DEF TypeOK
<1>. QED
  BY <1>1 DEF SoloCopy

LEMMA CopyReturns ==
    ASSUME TypeOK, NEW r \in Request, Request = {r}, UNCHANGED row, Return(r)
    PROVE  SoloCopy'
<1>1. Fits(Idle, row[Idle.task])
  BY DEF Fits, Idle
<1>. HIDE DEF Idle
<1>. QED
  BY <1>1, CopyGoesOn DEF Return

LEMMA CopyBegins ==
    ASSUME TypeOK, NEW r \in Request, Request = {r}, NEW op, NEW t \in Task, NEW pc,
           NEW copy, Begin(r, op, t, pc, copy), Follows(row[t], copy)
    PROVE  SoloCopy'
<1>. DEFINE q == [op |-> op, task |-> t, to |-> copy.status, pc |-> pc, copy |-> copy,
                  auto |-> FALSE]
<1>1. Fits(q, row[q.task])
  BY DEF Fits
<1>2. req' = [req EXCEPT ![r] = q] /\ UNCHANGED row
  BY DEF Begin
<1>. HIDE DEF q
<1>. QED
  BY <1>1, <1>2, CopyGoesOn

LEMMA CopyMoves ==
    ASSUME TypeOK, NEW r \in Request, Request = {r}, NEW op, NEW t \in Task, NEW to \in Status,
           ReadAndMove(r, op, t, to)
    PROVE  SoloCopy'
<1>. DEFINE copy == [row[t] EXCEPT !.status = to]
            q == [op |-> op, task |-> t, to |-> to, pc |-> "save", copy |-> copy,
                  auto |-> AutoFollows(t, row[t].status, to)]
<1>1. copy.status = to /\ copy.approved = row[t].approved
  BY DEF TypeOK, Row
<1>2. Follows(row[t], copy)
  BY <1>1 DEF ReadAndMove, MoveAllowed, Follows
<1>3. q.task = t /\ q.copy = copy
  OBVIOUS
<1>4. Fits(q, row[q.task])
  BY <1>2, <1>3 DEF Fits
<1>5. req' = [req EXCEPT ![r] = q] /\ UNCHANGED row
  BY DEF ReadAndMove
<1>. HIDE DEF q
<1>. QED
  BY <1>4, <1>5, CopyGoesOn

LEMMA SoloCopyStep ==
    ASSUME NEW r \in Request, Request = {r}, TypeOK, SoloCopy, [Next]_vars
    PROVE  SoloCopy'
<1>0. \A u \in Request : u = r
  OBVIOUS
<1>1. ASSUME NEW t \in Task, Arrival(r, t) PROVE SoloCopy'
  <2>1. row[t] \in Row
    BY DEF TypeOK
  <2>2. Follows(row[t], row[t])
    BY DEF Follows
  <2>3. CASE ApprovePlan(r, t)
    <3>. DEFINE copy == [row[t] EXCEPT !.status = "inbox", !.approved = TRUE]
    <3>1. copy.status = "inbox" /\ copy.approved = TRUE
      BY <2>1 DEF Row
    <3>2. Follows(row[t], copy)
      BY <2>3, <3>1 DEF ApprovePlan, Follows
    <3>. QED
      BY <2>3, <3>2, CopyBegins DEF ApprovePlan
  <2>4. CASE ReturnToPlanning(r, t)
    <3>. DEFINE copy == [row[t] EXCEPT !.status = "planning", !.approved = FALSE]
    <3>1. copy.status = "planning" /\ copy.approved = FALSE
      BY <2>1 DEF Row
    <3>2. Follows(row[t], copy)
      BY <2>4, <3>1 DEF ReturnToPlanning, Follows
    <3>. QED
      BY <2>4, <3>2, CopyBegins DEF ReturnToPlanning
  <2>5. CASE TouchTask(r, t)
    BY <2>2, <2>5, CopyBegins DEF TouchTask
  <2>6. CASE Dispatch(r, t) \/ RecordCheckpoint(r, t)
    <3>. DEFINE copy == [row[t] EXCEPT !.status = "in_progress"]
    <3>1. copy.status = "in_progress" /\ copy.approved = row[t].approved
      BY <2>1 DEF Row
    <3>2. Follows(row[t], copy)
      BY <2>6, <3>1
      DEF Dispatch, RecordCheckpoint, Checkpointable, AllowedKanbanTransition, Follows
    <3>. QED
      BY <2>6, <3>2, CopyBegins DEF Dispatch, RecordCheckpoint
  <2>7. CASE RedispatchStalledTask(r, t)
    BY <2>2, <2>7, CopyBegins DEF RedispatchStalledTask
  <2>8. CASE OpenPullRequest(r, t)
    BY <2>2, <2>8, CopyBegins DEF OpenPullRequest
  <2>9. CASE \E to \in Status : PatchTask(r, t, to)
    BY <2>9, CopyMoves DEF PatchTask
  <2>10. CASE \E op \in Op, to \in Status : Wait(r, op, t, to)
    <3>1. PICK op \in Op, to \in Status : Wait(r, op, t, to)
      BY <2>10
    <3>. DEFINE q == [op |-> op, task |-> t, to |-> to, pc |-> "lock",
                      copy |-> NewRow("planning"), auto |-> FALSE]
    <3>2. Fits(q, row[q.task])
      BY DEF Fits
    <3>3. req' = [req EXCEPT ![r] = q] /\ UNCHANGED row
      BY <3>1 DEF Wait
    <3>. HIDE DEF q
    <3>. QED
      BY <3>2, <3>3, CopyGoesOn
  <2>. QED
    BY <1>1, <2>3, <2>4, <2>5, <2>6, <2>7, <2>8, <2>9, <2>10, Columns
    DEF Arrival, CompleteWithLiveActivity, ApplyAgentWebhookOutcome, ApplyCIWebhookOutcome, Wait
<1>2. CASE WithLock(r)
  <2>. DEFINE q == [req[r] EXCEPT !.pc = "locked"]
  <2>1. q.pc = "locked"
    BY DEF TypeOK, Req
  <2>2. req' = [req EXCEPT ![r] = q] /\ UNCHANGED row
    BY <1>2 DEF WithLock
  <2>. HIDE DEF q
  <2>. QED
    BY <2>1, <2>2, CopyGoesOn DEF Fits
<1>3. CASE MoveUnderGate(r)
  <2>1. req[r].task \in Task /\ req[r].to \in Status
    BY DEF TypeOK, Req
  <2>. QED
    BY <1>3, <2>1, CopyMoves DEF MoveUnderGate
<1>4. CASE \/ MoveRefused(r) \/ CompleteRefused(r) \/ GatewayAnswerLost(r) \/ CallFails(r)
           \/ AutoDone(r) \/ Abandon(r)
  BY <1>4, CopyReturns
  DEF MoveRefused, CompleteRefused, GatewayAnswerLost, CallFails, AutoDone, Abandon
<1>5. CASE CompleteTask(r) \/ Save(r)
  <2>1. req'[r].pc \in {"auto", "idle"}
    BY <1>5 DEF CompleteTask, Save, Return, Idle, TypeOK, Req
  <2>. QED
    BY <1>0, <2>1 DEF SoloCopy, Fits
<1>6. CASE GatewayAccepts(r)
  <2>1. PICK k \in Ref \ {0} :
          req' = [req EXCEPT ![r] = Hold(@, "save", [@.copy EXCEPT !.ref = k], @.auto)]
    BY <1>6 DEF GatewayAccepts
  <2>. DEFINE copy == [req[r].copy EXCEPT !.ref = k]
              q == Hold(req[r], "save", copy, req[r].auto)
  <2>2. req[r].copy \in Row /\ UNCHANGED row
    BY <1>6 DEF TypeOK, Req, GatewayAccepts
  <2>3. copy \in Row /\ copy.status = req[r].copy.status /\ copy.approved = req[r].copy.approved
    BY <2>2 DEF Row
  <2>4. Follows(row[req[r].task], req[r].copy)
    BY <1>6 DEF GatewayAccepts, SoloCopy, Fits
  <2>5. Follows(row[req[r].task], copy)
    BY <2>2, <2>3, <2>4, FollowsStill
  <2>6. q.task = req[r].task /\ q.copy = copy
    BY DEF Hold
  <2>7. Fits(q, row[q.task])
    BY <2>5, <2>6 DEF Fits
  <2>8. req' = [req EXCEPT ![r] = q]
    BY <2>1
  <2>. HIDE DEF q
  <2>. QED
    BY <2>2, <2>7, <2>8, CopyGoesOn
<1>7. CASE ForgeOpens(r)
  <2>. DEFINE copy == [req[r].copy EXCEPT !.head = TRUE, !.url = (Publisher = "real")]
              q == Hold(req[r], "save", copy, req[r].auto)
  <2>1. req' = [req EXCEPT ![r] = q] /\ UNCHANGED row
    BY <1>7 DEF ForgeOpens
  <2>2. req[r].copy \in Row
    BY DEF TypeOK, Req
  <2>3. copy \in Row /\ copy.status = req[r].copy.status /\ copy.approved = req[r].copy.approved
    BY <2>2 DEF Row
  <2>4. Follows(row[req[r].task], req[r].copy)
    BY <1>7 DEF ForgeOpens, SoloCopy, Fits
  <2>5. Follows(row[req[r].task], copy)
    BY <2>2, <2>3, <2>4, FollowsStill
  <2>6. q.task = req[r].task /\ q.copy = copy
    BY DEF Hold
  <2>7. Fits(q, row[q.task])
    BY <2>5, <2>6 DEF Fits
  <2>. HIDE DEF q
  <2>. QED
    BY <2>1, <2>7, CopyGoesOn
<1>8. CASE AutoOpensPullRequest(r)
  <2>. DEFINE t == req[r].task
              q == Hold(req[r], "forge", row[t], FALSE)
  <2>1. req' = [req EXCEPT ![r] = q] /\ UNCHANGED row
    BY <1>8 DEF AutoOpensPullRequest
  <2>2. q.task = t /\ q.copy = row[t]
    BY DEF Hold
  <2>3. Fits(q, row[q.task])
    BY <2>2 DEF Fits, Follows
  <2>. HIDE DEF q
  <2>. QED
    BY <2>1, <2>3, CopyGoesOn
<1>9. CASE UNCHANGED vars
  BY <1>9 DEF vars, SoloCopy
<1>. QED
  BY <1>0, <1>1, <1>2, <1>3, <1>4, <1>5, <1>6, <1>7, <1>8, <1>9 DEF Next, Work

\* A step that writes a row is a completion or the write of a copy that fits.
LEMMA SoloWrites ==
    ASSUME NEW r \in Request, Request = {r}, TypeOK, SoloCopy, [Next]_vars
    PROVE  \/ row' = row
           \/ \E t \in Task :
                 /\ \A v \in Task : v # t => row'[v] = row[v]
                 /\ \/ Follows(row[t], row'[t])
                    \/ /\ row[t].status \in Completable \cup {"done"}
                       /\ row'[t].status = "done" /\ row'[t].approved = row[t].approved
<1>. USE ConstantsAssumption
<1>1. req[r].task \in Task /\ row[req[r].task] \in Row /\ \A u \in Request : u = r
  BY DEF TypeOK, Req
<1>2. CASE CompleteTask(r)
  <2>1. /\ row'[req[r].task] = [row[req[r].task] EXCEPT !.status = "done"]
        /\ \A v \in Task : v # req[r].task => row'[v] = row[v]
    BY <1>1, <1>2 DEF CompleteTask, TypeOK
  <2>2. /\ row'[req[r].task].status = "done"
        /\ row'[req[r].task].approved = row[req[r].task].approved
    BY <1>1, <2>1 DEF Row
  <2>. QED
    BY <1>1, <1>2, <2>1, <2>2 DEF CompleteTask
<1>3. CASE Save(r)
  <2>1. Follows(row[req[r].task], req[r].copy)
    BY <1>3 DEF Save, SoloCopy, Fits
  <2>2. row'[req[r].task] = req[r].copy /\ \A v \in Task : v # req[r].task => row'[v] = row[v]
    BY <1>1, <1>3 DEF Save, TypeOK
  <2>. QED
    BY <1>1, <2>1, <2>2
<1>4. ASSUME NEW t \in Task, Arrival(r, t) PROVE row' = row
  BY <1>4 DEF Arrival, ApprovePlan, ReturnToPlanning, TouchTask, Dispatch, RedispatchStalledTask,
              RecordCheckpoint, OpenPullRequest, Begin, PatchTask, ReadAndMove,
              CompleteWithLiveActivity, ApplyAgentWebhookOutcome, ApplyCIWebhookOutcome, Wait
<1>5. ASSUME WithLock(r) \/ Work(r) \/ Abandon(r), ~CompleteTask(r), ~Save(r)
      PROVE  row' = row
  BY <1>5 DEF Work, WithLock, MoveUnderGate, ReadAndMove, MoveRefused, CompleteRefused,
              GatewayAccepts, GatewayAnswerLost, ForgeOpens, CallFails, AutoOpensPullRequest, AutoDone, Abandon
<1>. QED
  BY <1>1, <1>2, <1>3, <1>4, <1>5 DEF Next, vars

\* With one request at a time, cut off wherever it may be, the board of the code
\* is the board of atomic operations: dispatches and pull requests that ask the
\* gateway or the forge between read and write included.
THEOREM SoloBoard ==
    ASSUME NEW r \in Request, Request = {r}
    PROVE  Spec => ImplementsTaskBoard
<1>1. Init => SoloCopy
  BY IdleIsQuiet DEF Init, SoloCopy, Fits
<1>2. TypeOK /\ SoloCopy /\ [Next]_vars => SoloCopy'
  BY SoloCopyStep
<1>3. TypeOK /\ TypeOK' /\ SoloCopy /\ [Next]_vars => [Board!Next]_(Board!vars)
  <2>. SUFFICES ASSUME TypeOK, TypeOK', SoloCopy, [Next]_vars
                PROVE  [Board!Next]_(Board!vars)
    OBVIOUS
  <2>1. CASE row' = row
    BY <2>1 DEF Board!vars
  <2>2. CASE row' # row
    BY <2>2, SoloWrites, BoardStep
  <2>. QED
    BY <2>1, <2>2
<1>. QED
  BY <1>1, <1>2, <1>3, BoardInit, TypeCorrect, PTL DEF Spec, ImplementsTaskBoard, Board!Spec

-----------------------------------------------------------------------------
(* One request at a time: recalls come before dispatches.                   *)

\* A call q that is going to take its task, with the row rw and the answered
\* references refs, from assigned back to planning, has nothing more to ask
\* anybody, and the gateway never answered for the task.
Recallable(q, rw, refs) ==
    q.pc \in {"gateway", "forge", "save"} /\ q.copy.status = "planning" /\ rw.status = "assigned"
        => q.pc = "save" /\ refs = {}

SoloRecall(r) ==
    /\ \A t \in Task : 0 \notin orders[t]
    /\ Recallable(req[r], row[req[r].task], Answered(req[r].task))

LEMMA RecallGoesOn ==
    ASSUME TypeOK, NEW r \in Request, SoloRecall(r), UNCHANGED <<row, orders, unheard>>,
           NEW q, req' = [req EXCEPT ![r] = q], Recallable(q, row[q.task], Answered(q.task))
    PROVE  SoloRecall(r)'
<1>1. req'[r] = q
  BY DEF TypeOK
<1>. QED
  BY <1>1 DEF SoloRecall, Answered

LEMMA RecallReturns ==
    ASSUME TypeOK, NEW r \in Request, SoloRecall(r), UNCHANGED <<row, orders, unheard>>, Return(r)
    PROVE  SoloRecall(r)'
<1>1. Recallable(Idle, row[Idle.task], Answered(Idle.task))
  BY IdleIsQuiet DEF Recallable
<1>. HIDE DEF Idle
<1>. QED
  BY <1>1, RecallGoesOn DEF Return

LEMMA RecallBegins ==
    ASSUME TypeOK, NEW r \in Request, SoloRecall(r), NEW op, NEW t \in Task, NEW pc, NEW copy,
           Begin(r, op, t, pc, copy),
           copy.status = "planning" /\ row[t].status = "assigned" => pc = "save" /\ Answered(t) = {}
    PROVE  SoloRecall(r)'
<1>. DEFINE q == [op |-> op, task |-> t, to |-> copy.status, pc |-> pc, copy |-> copy,
                  auto |-> FALSE]
<1>1. Recallable(q, row[q.task], Answered(q.task))
  BY DEF Recallable
<1>2. req' = [req EXCEPT ![r] = q] /\ UNCHANGED <<row, orders, unheard>>
  BY DEF Begin
<1>. HIDE DEF q
<1>. QED
  BY <1>1, <1>2, RecallGoesOn

LEMMA RecallMoves ==
    ASSUME TypeOK, NEW r \in Request, SoloRecall(r), NEW op, NEW t \in Task, NEW to \in Status,
           ReadAndMove(r, op, t, to)
    PROVE  SoloRecall(r)'
<1>. DEFINE copy == [row[t] EXCEPT !.status = to]
            q == [op |-> op, task |-> t, to |-> to, pc |-> "save", copy |-> copy,
                  auto |-> AutoFollows(t, row[t].status, to)]
<1>1. copy.status = to
  BY DEF TypeOK, Row
<1>2. ~(to = "planning" /\ row[t].status = "assigned")
  BY DEF ReadAndMove, MoveAllowed, AllowedKanbanTransition
<1>3. Recallable(q, row[q.task], Answered(q.task))
  BY <1>1, <1>2 DEF Recallable
<1>4. req' = [req EXCEPT ![r] = q] /\ UNCHANGED <<row, orders, unheard>>
  BY DEF ReadAndMove
<1>. HIDE DEF q
<1>. QED
  BY <1>3, <1>4, RecallGoesOn

\* The gateway or the forge has answered: the copy goes on to be saved.
LEMMA RecallAnswered ==
    ASSUME TypeOK, NEW r \in Request, SoloRecall(r), req[r].pc \in {"gateway", "forge"},
           UNCHANGED <<row, unheard>>, \A t \in Task : 0 \notin orders'[t],
           NEW copy, copy.status = req[r].copy.status,
           req' = [req EXCEPT ![r] = Hold(@, "save", copy, @.auto)]
    PROVE  SoloRecall(r)'
<1>1. req'[r] = Hold(req[r], "save", copy, req[r].auto)
  BY DEF TypeOK
<1>2. req'[r].pc = "save" /\ req'[r].task = req[r].task /\ req'[r].copy = copy
  BY <1>1 DEF Hold
<1>3. ~(copy.status = "planning" /\ row[req[r].task].status = "assigned")
  BY DEF SoloRecall, Recallable
<1>. QED
  BY <1>2, <1>3 DEF SoloRecall, Recallable

LEMMA SoloRecallStep ==
    ASSUME NEW r \in Request, Request = {r}, Crashes = FALSE, TypeOK, SoloInv, SoloRecall(r),
           [Next]_vars
    PROVE  SoloRecall(r)'
<1>0. \A u \in Request : u = r
  OBVIOUS
<1>1. ASSUME NEW t \in Task, Arrival(r, t) PROVE SoloRecall(r)'
  <2>1. row[t] \in Row
    BY DEF TypeOK
  <2>2. /\ \A st \in Status, b \in BOOLEAN :
              [row[t] EXCEPT !.status = st, !.approved = b].status = st
        /\ \A st \in Status : [row[t] EXCEPT !.status = st].status = st
    BY <2>1 DEF Row
  <2>3. CASE ApprovePlan(r, t)
    BY <2>3, <2>2, RecallBegins, Columns DEF ApprovePlan
  <2>4. CASE ReturnToPlanning(r, t)
    <3>1. row[t].status = "assigned" => Answered(t) = {}
      <4>1. SUFFICES ASSUME row[t].status = "assigned", NEW k \in Answered(t) PROVE FALSE
        OBVIOUS
      <4>2. row[t].ref = 0 /\ req[r].pc # "save"
        BY <2>4, <4>1 DEF ReturnToPlanning, Begin
      <4>3. k <= 0 /\ k \in Ref /\ k # 0
        BY <4>1, <4>2 DEF SoloInv, CallKnows, Below, SoloRecall, TypeOK, Answered
      <4>. QED
        BY <4>3, ConstantsAssumption DEF Ref
    <3>2. Begin(r, "recall", t, "save", [row[t] EXCEPT !.status = "planning", !.approved = FALSE])
      BY <2>4 DEF ReturnToPlanning
    <3>. QED
      BY <3>1, <3>2, RecallBegins
  <2>5. CASE TouchTask(r, t)
    BY <2>5, RecallBegins DEF TouchTask
  <2>6. CASE Dispatch(r, t) \/ RecordCheckpoint(r, t)
    BY <2>6, <2>2, RecallBegins, Columns DEF Dispatch, RecordCheckpoint
  <2>7. CASE RedispatchStalledTask(r, t)
    BY <2>7, RecallBegins DEF RedispatchStalledTask
  <2>8. CASE OpenPullRequest(r, t)
    BY <2>8, RecallBegins DEF OpenPullRequest
  <2>9. CASE \E to \in Status : PatchTask(r, t, to)
    BY <2>9, RecallMoves DEF PatchTask
  <2>10. CASE \E op \in Op, to \in Status : Wait(r, op, t, to)
    <3>1. PICK op \in Op, to \in Status : Wait(r, op, t, to)
      BY <2>10
    <3>. DEFINE q == [op |-> op, task |-> t, to |-> to, pc |-> "lock",
                      copy |-> NewRow("planning"), auto |-> FALSE]
    <3>2. Recallable(q, row[q.task], Answered(q.task))
      BY DEF Recallable
    <3>3. req' = [req EXCEPT ![r] = q] /\ UNCHANGED <<row, orders, unheard>>
      BY <3>1 DEF Wait
    <3>. HIDE DEF q
    <3>. QED
      BY <3>2, <3>3, RecallGoesOn
  <2>. QED
    BY <1>1, <2>3, <2>4, <2>5, <2>6, <2>7, <2>8, <2>9, <2>10, Columns
    DEF Arrival, CompleteWithLiveActivity, ApplyAgentWebhookOutcome, ApplyCIWebhookOutcome, Wait
<1>2. CASE WithLock(r)
  <2>. DEFINE q == [req[r] EXCEPT !.pc = "locked"]
  <2>1. q.pc = "locked"
    BY DEF TypeOK, Req
  <2>2. req' = [req EXCEPT ![r] = q] /\ UNCHANGED <<row, orders, unheard>>
    BY <1>2 DEF WithLock
  <2>. HIDE DEF q
  <2>. QED
    BY <2>1, <2>2, RecallGoesOn DEF Recallable
<1>3. CASE MoveUnderGate(r)
  <2>1. req[r].task \in Task /\ req[r].to \in Status
    BY DEF TypeOK, Req
  <2>. QED
    BY <1>3, <2>1, RecallMoves DEF MoveUnderGate
<1>4. CASE MoveRefused(r) \/ CompleteRefused(r) \/ CallFails(r) \/ AutoDone(r)
  BY <1>4, RecallReturns DEF MoveRefused, CompleteRefused, CallFails, AutoDone
<1>5. CASE CompleteTask(r) \/ Save(r)
  <2>1. req'[r].pc \in {"auto", "idle"} /\ UNCHANGED <<orders, unheard>>
    BY <1>5 DEF CompleteTask, Save, Return, Idle, TypeOK, Req
  <2>. QED
    BY <2>1 DEF SoloRecall, Recallable
<1>6. CASE GatewayAccepts(r)
  <2>1. PICK k \in Ref \ {0} :
          /\ orders' = [orders EXCEPT ![req[r].task] = @ \cup {k}]
          /\ req' = [req EXCEPT ![r] = Hold(@, "save", [@.copy EXCEPT !.ref = k], @.auto)]
    BY <1>6 DEF GatewayAccepts
  <2>. DEFINE copy == [req[r].copy EXCEPT !.ref = k]
  <2>2. copy.status = req[r].copy.status
    BY DEF TypeOK, Req, Row
  <2>3. \A t \in Task : 0 \notin orders'[t]
    BY <2>1 DEF SoloRecall, TypeOK
  <2>4. req' = [req EXCEPT ![r] = Hold(@, "save", copy, @.auto)]
    BY <2>1
  <2>5. req[r].pc \in {"gateway", "forge"} /\ UNCHANGED <<row, unheard>>
    BY <1>6 DEF GatewayAccepts
  <2>. HIDE DEF copy
  <2>. QED
    BY <2>2, <2>3, <2>4, <2>5, RecallAnswered
<1>7. CASE ForgeOpens(r)
  <2>. DEFINE copy == [req[r].copy EXCEPT !.head = TRUE, !.url = (Publisher = "real")]
  <2>1. copy.status = req[r].copy.status
    BY DEF TypeOK, Req, Row
  <2>2. /\ req' = [req EXCEPT ![r] = Hold(@, "save", copy, @.auto)]
        /\ req[r].pc \in {"gateway", "forge"} /\ UNCHANGED <<row, orders, unheard>>
    BY <1>7 DEF ForgeOpens
  <2>3. \A t \in Task : 0 \notin orders'[t]
    BY <2>2 DEF SoloRecall
  <2>. HIDE DEF copy
  <2>. QED
    BY <2>1, <2>2, <2>3, RecallAnswered
<1>8. CASE AutoOpensPullRequest(r)
  <2>. DEFINE t == req[r].task
              q == Hold(req[r], "forge", row[t], FALSE)
  <2>1. req' = [req EXCEPT ![r] = q] /\ UNCHANGED <<row, orders, unheard>>
    BY <1>8 DEF AutoOpensPullRequest
  <2>2. q.task = t /\ q.copy = row[t]
    BY DEF Hold
  <2>3. Recallable(q, row[q.task], Answered(q.task))
    BY <2>2 DEF Recallable
  <2>. HIDE DEF q
  <2>. QED
    BY <2>1, <2>3, RecallGoesOn
<1>9. CASE UNCHANGED vars
  BY <1>9 DEF vars, SoloRecall, Answered
<1>10. ~Abandon(r)
  BY DEF Abandon
<1>11. CASE GatewayAnswerLost(r)
  <2>1. PICK k \in Ref \ {0} : orders' = [orders EXCEPT ![req[r].task] = @ \cup {k}]
    BY <1>11 DEF GatewayAnswerLost
  <2>2. \A t \in Task : 0 \notin orders'[t]
    BY <2>1 DEF SoloRecall, TypeOK
  <2>3. req'[r].pc = "idle"
    BY <1>11, IdleIsQuiet DEF GatewayAnswerLost, Return, TypeOK
  <2>. QED
    BY <2>2, <2>3 DEF SoloRecall, Recallable
<1>. QED
  BY <1>0, <1>1, <1>2, <1>3, <1>4, <1>5, <1>6, <1>7, <1>8, <1>9, <1>10, <1>11 DEF Next, Work

\* A step that takes a task from assigned to planning saves a copy.
LEMMA RecallIsSave ==
    ASSUME NEW r \in Request, Request = {r}, TypeOK, SoloRecall(r), [Next]_vars,
           NEW t \in Task, row[t].status = "assigned", row'[t].status = "planning"
    PROVE  Answered(t) = {}
<1>. USE ConstantsAssumption
<1>0. req[r].task \in Task /\ row[req[r].task] \in Row /\ \A u \in Request : u = r
  BY DEF TypeOK, Req
<1>1. CASE Save(r)
  <2>1. row'[req[r].task] = req[r].copy /\ \A v \in Task : v # req[r].task => row'[v] = row[v]
    BY <1>0, <1>1 DEF Save, TypeOK
  <2>2. t = req[r].task /\ req[r].copy.status = "planning" /\ req[r].pc = "save"
    BY <1>1, <2>1 DEF Save
  <2>. QED
    BY <2>2 DEF SoloRecall, Recallable
<1>2. ~CompleteTask(r)
  <2>. SUFFICES ASSUME CompleteTask(r) PROVE FALSE
    OBVIOUS
  <2>1. /\ row'[req[r].task] = [row[req[r].task] EXCEPT !.status = "done"]
        /\ \A v \in Task : v # req[r].task => row'[v] = row[v]
    BY <1>0 DEF CompleteTask, TypeOK
  <2>. QED
    BY <1>0, <2>1 DEF Row
<1>3. ASSUME NEW v \in Task, Arrival(r, v) PROVE row' = row
  BY <1>3 DEF Arrival, ApprovePlan, ReturnToPlanning, TouchTask, Dispatch, RedispatchStalledTask,
              RecordCheckpoint, OpenPullRequest, Begin, PatchTask, ReadAndMove,
              CompleteWithLiveActivity, ApplyAgentWebhookOutcome, ApplyCIWebhookOutcome, Wait
<1>4. ASSUME WithLock(r) \/ Work(r) \/ Abandon(r), ~CompleteTask(r), ~Save(r)
      PROVE  row' = row
  BY <1>4 DEF Work, WithLock, MoveUnderGate, ReadAndMove, MoveRefused, CompleteRefused,
              GatewayAccepts, GatewayAnswerLost, ForgeOpens, CallFails, AutoOpensPullRequest, AutoDone, Abandon
<1>. QED
  BY <1>0, <1>1, <1>2, <1>3, <1>4 DEF Next, vars

\* With one request at a time, none of them cut off, a task that is at work is
\* never put back into planning, and one that is assigned is only while no
\* dispatch of it was ever answered (ReturnToPlanning looks at the reference on
\* the row).  An order whose answer was lost does not stop the recall; what
\* TaskRecall shows takes a second request.
THEOREM RecallsComeFirst ==
    ASSUME NEW r \in Request, Request = {r}, Crashes = FALSE
    PROVE  /\ Spec => RecallOnlyBeforeDispatch
           /\ Spec => [][\A t \in Task :
                            (row[t].status = "assigned" /\ row'[t].status = "planning")
                                => Answered(t) = {}]_vars
<1>1. Init => SoloRecall(r) /\ SoloCopy
  BY IdleIsQuiet DEF Init, SoloRecall, Recallable, SoloCopy, Fits
<1>2. TypeOK /\ SoloInv /\ SoloRecall(r) /\ [Next]_vars => SoloRecall(r)'
  BY SoloRecallStep
<1>3. TypeOK /\ SoloCopy /\ [Next]_vars => SoloCopy'
  BY SoloCopyStep
<1>4. TypeOK /\ SoloRecall(r) /\ [Next]_vars =>
        [\A t \in Task : (row[t].status = "assigned" /\ row'[t].status = "planning")
                             => Answered(t) = {}]_vars
  BY RecallIsSave
<1>5. TypeOK /\ SoloCopy /\ [Next]_vars =>
        [\A t \in Task : row[t].status \in Reassignable => row'[t].status # "planning"]_vars
  BY SoloWrites DEF Follows, AllowedKanbanTransition, Reassignable
<1>. QED
  BY <1>1, <1>2, <1>3, <1>4, <1>5, SoloIsKnown, TypeCorrect, PTL DEF Spec, RecallOnlyBeforeDispatch

-----------------------------------------------------------------------------
(* Gates are given back.                                                    *)

\* Who holds a gate is at work under it, for a task of its product: a request
\* that is over, or that waits for a gate, holds none.
GatesAreHeld ==
    \A p \in Product, r \in Request :
        gate[p] = r => p = ProductOf[req[r].task] /\ req[r].pc \notin {"idle", "lock"}

\* Request r goes on with its task, and the gates are as they were.
LEMMA GatesKept ==
    ASSUME TypeOK, GatesAreHeld, NEW r \in Request, gate' = gate,
           NEW q, req' = [req EXCEPT ![r] = q],
           \/ req[r].pc = "idle"
           \/ req[r].pc = "lock"
           \/ q.task = req[r].task /\ q.pc \notin {"idle", "lock"}
    PROVE  GatesAreHeld'
<1>1. req'[r] = q /\ \A u \in Request : u # r => req'[u] = req[u]
  BY DEF TypeOK
<1>. QED
  BY <1>1 DEF GatesAreHeld

\* Request r gives back what it holds.
LEMMA GatesReturned ==
    ASSUME TypeOK, GatesAreHeld, NEW r \in Request, gate' = Unlocked(r),
           NEW q, req' = [req EXCEPT ![r] = q]
    PROVE  GatesAreHeld'
<1>1. \A u \in Request : u # r => req'[u] = req[u]
  BY DEF TypeOK
<1>2. \A p \in Product : gate'[p] = IF gate[p] = r THEN NoRequest ELSE gate[p]
  BY DEF Unlocked
<1>3. \A p \in Product : gate'[p] # r
  BY <1>2, ConstantsAssumption
<1>. QED
  BY <1>1, <1>2, <1>3, ConstantsAssumption DEF GatesAreHeld

LEMMA GatesStep == TypeOK /\ GatesAreHeld /\ [Next]_vars => GatesAreHeld'
<1>. SUFFICES ASSUME TypeOK, GatesAreHeld, [Next]_vars PROVE GatesAreHeld'
  OBVIOUS
<1>1. ASSUME NEW r \in Request, NEW t \in Task, Arrival(r, t) PROVE GatesAreHeld'
  <2>1. gate' = gate /\ req[r].pc = "idle" /\ \E q : req' = [req EXCEPT ![r] = q]
    BY <1>1 DEF Arrival, ApprovePlan, ReturnToPlanning, TouchTask, Dispatch,
                RedispatchStalledTask, RecordCheckpoint, OpenPullRequest, Begin, PatchTask,
                ReadAndMove, CompleteWithLiveActivity, ApplyAgentWebhookOutcome,
                ApplyCIWebhookOutcome, Wait
  <2>. QED
    BY <2>1, GatesKept
<1>2. ASSUME NEW r \in Request, WithLock(r) PROVE GatesAreHeld'
  <2>1. /\ req[r].task \in Task /\ req[r].pc = "lock" /\ req'[r].pc = "locked"
        /\ req'[r].task = req[r].task
        /\ \A u \in Request : u # r => req'[u] = req[u]
    BY <1>2 DEF WithLock, TypeOK, Req
  <2>2. \A p \in Product : gate'[p] = IF p = ProductOf[req[r].task] THEN r ELSE gate[p]
    BY <1>2 DEF WithLock, TypeOK
  <2>. QED
    BY <2>1, <2>2 DEF GatesAreHeld
<1>3. ASSUME NEW r \in Request, MoveUnderGate(r) PROVE GatesAreHeld'
  <2>1. PICK copy, auto :
          req' = [req EXCEPT ![r] = [op |-> req[r].op, task |-> req[r].task, to |-> req[r].to,
                                     pc |-> "save", copy |-> copy, auto |-> auto]]
    BY <1>3 DEF MoveUnderGate, ReadAndMove
  <2>2. gate' = gate
    BY <1>3 DEF MoveUnderGate, ReadAndMove
  <2>. DEFINE q == [op |-> req[r].op, task |-> req[r].task, to |-> req[r].to,
                    pc |-> "save", copy |-> copy, auto |-> auto]
  <2>3. q.task = req[r].task /\ q.pc = "save" /\ req' = [req EXCEPT ![r] = q]
    BY <2>1
  <2>. HIDE DEF q
  <2>. QED
    BY <2>2, <2>3, GatesKept
<1>4. ASSUME NEW r \in Request,
             \/ MoveRefused(r) \/ CompleteRefused(r) \/ GatewayAnswerLost(r) \/ CallFails(r)
             \/ AutoDone(r) \/ Abandon(r) \/ CompleteTask(r) \/ (Save(r) /\ ~req[r].auto)
      PROVE  GatesAreHeld'
  <2>1. gate' = Unlocked(r) /\ \E q : req' = [req EXCEPT ![r] = q]
    BY <1>4 DEF MoveRefused, CompleteRefused, GatewayAnswerLost, CallFails, AutoDone, Abandon,
                CompleteTask, Save, Return
  <2>. QED
    BY <2>1, GatesReturned
<1>5. ASSUME NEW r \in Request, GatewayAccepts(r) PROVE GatesAreHeld'
  <2>1. PICK ref \in Ref : req' = [req EXCEPT ![r] =
            Hold(req[r], "save", [req[r].copy EXCEPT !.ref = ref], req[r].auto)]
    BY <1>5 DEF GatewayAccepts
  <2>. DEFINE q == Hold(req[r], "save", [req[r].copy EXCEPT !.ref = ref], req[r].auto)
  <2>2. q.task = req[r].task /\ q.pc = "save"
    BY DEF Hold
  <2>3. gate' = gate /\ req' = [req EXCEPT ![r] = q]
    BY <1>5, <2>1 DEF GatewayAccepts
  <2>. HIDE DEF q
  <2>. QED
    BY <2>2, <2>3, GatesKept
<1>6. ASSUME NEW r \in Request, ForgeOpens(r) PROVE GatesAreHeld'
  <2>. DEFINE q == Hold(req[r], "save", [req[r].copy EXCEPT !.head = TRUE,
                                                     !.url = (Publisher = "real")], req[r].auto)
  <2>1. q.task = req[r].task /\ q.pc = "save"
    BY DEF Hold
  <2>2. gate' = gate /\ req' = [req EXCEPT ![r] = q]
    BY <1>6 DEF ForgeOpens
  <2>. HIDE DEF q
  <2>. QED
    BY <2>1, <2>2, GatesKept
<1>7. ASSUME NEW r \in Request, AutoOpensPullRequest(r) PROVE GatesAreHeld'
  <2>. DEFINE q == Hold(req[r], "forge", row[req[r].task], FALSE)
  <2>1. q.task = req[r].task /\ q.pc = "forge"
    BY DEF Hold
  <2>2. gate' = gate /\ req' = [req EXCEPT ![r] = q]
    BY <1>7 DEF AutoOpensPullRequest
  <2>. HIDE DEF q
  <2>. QED
    BY <2>1, <2>2, GatesKept
<1>8. ASSUME NEW r \in Request, Save(r), req[r].auto PROVE GatesAreHeld'
  <2>. DEFINE q == [req[r] EXCEPT !.pc = "auto"]
  <2>1. q.task = req[r].task /\ q.pc = "auto"
    BY DEF TypeOK, Req
  <2>2. gate' = gate /\ req' = [req EXCEPT ![r] = q]
    BY <1>8 DEF Save
  <2>. HIDE DEF q
  <2>. QED
    BY <2>1, <2>2, GatesKept
<1>9. CASE UNCHANGED vars
  BY <1>9 DEF vars, GatesAreHeld
<1>. QED
  BY <1>1, <1>2, <1>3, <1>4, <1>5, <1>6, <1>7, <1>8, <1>9 DEF Next, Work

\* No gate is left locked by a request that has returned, failed or been cut off,
\* and none is waited for by a request that holds one (ProductGate): requests
\* cannot wait for each other in a circle.  The safety RequestsEnd rests on.
THEOREM GatesComeFree == Spec => []GatesAreHeld
<1>1. Init => GatesAreHeld
  BY ConstantsAssumption DEF Init, GatesAreHeld
<1>. QED
  BY <1>1, GatesStep, TypeCorrect, PTL DEF Spec
=============================================================================
