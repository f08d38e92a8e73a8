---------------------------- MODULE ConvoyProofs ----------------------------
(***************************************************************************)
(* Proofs about Convoy, for every graph of subtasks and any number of      *)
(* requests.  The argument is that of a versioned value: every copy of the *)
(* convoy a request holds is as true as the stored one (Sound), what is    *)
(* true of a copy stays true because orders and reports are never taken    *)
(* back, and so it does not matter which copy is saved last.               *)
(***************************************************************************)
EXTENDS Convoy, TLAPS

\* A version c of the convoy only says what has happened, and its graph is
\* closed.
Sound(c, ord, rep) ==
    /\ \A s \in Subtask :
          /\ c[s].completed => c[s].dispatched /\ s \in rep
          /\ c[s].dispatched => c[s].ref \in ord[s]
    /\ \A s \in There(c) : DependsOn[s] \subseteq There(c)

\* The dependencies of what a wave still has to dispatch have been reported.
Unblocked(todo, rep) == \A s \in todo : DependsOn[s] \subseteq rep

\* A completion that is being handled was reported.
Told(q, rep) == (q.pc = "found" /\ q.op = "complete") => q.on \in rep

ConvoyInv ==
    /\ Sound(sub, orders, reported)
    /\ \A r \in Request :
          /\ Sound(call[r].copy, orders, reported)
          /\ Unblocked(call[r].todo, reported)
          /\ Told(call[r], reported)
    /\ OrderedAfterDependencies

-----------------------------------------------------------------------------
(* Type correctness. *)

LEMMA BlankTyped ==
    /\ \A b \in BOOLEAN : Blank(b) \in SubRow
    /\ Absent \in [Subtask -> SubRow]
    /\ AnySubtask \in Subtask
    /\ Idle \in Call
<1>. USE ConstantsAssumption
<1>1. \A b \in BOOLEAN : Blank(b) \in SubRow
  BY DEF Blank, SubRow, Ref
<1>2. Absent \in [Subtask -> SubRow]
  BY <1>1 DEF Absent
<1>3. AnySubtask \in Subtask
  BY DEF AnySubtask
<1>. QED
  BY <1>1, <1>2, <1>3 DEF Idle, Call, Operation

LEMMA RowsTyped ==
    ASSUME NEW row \in SubRow
    PROVE  /\ \A ref \in Ref : Accepted(row, ref) \in SubRow
           /\ Failed(row) \in SubRow
           /\ [row EXCEPT !.completed = TRUE] \in SubRow
<1>1. \A ref \in Ref : Accepted(row, ref) \in SubRow
  BY ConstantsAssumption DEF SubRow, Accepted
<1>2. Failed(row) \in SubRow
  <2>1. (IF row.attempts < MaxDispatchAttempts THEN row.attempts + 1 ELSE row.attempts)
            \in 0..MaxDispatchAttempts
    BY ConstantsAssumption DEF SubRow
  <2>. QED
    BY <2>1 DEF SubRow, Failed
<1>3. [row EXCEPT !.completed = TRUE] \in SubRow
  BY DEF SubRow
<1>. QED
  BY <1>1, <1>2, <1>3

\* A call that goes on with a well-typed copy is well typed.
LEMMA HoldsTyped ==
    ASSUME TypeOK, NEW r \in Request, NEW pc \in {"idle", "found", "wave", "save"},
           NEW copy \in [Subtask -> SubRow], NEW todo \in SUBSET Subtask,
           Holds(r, pc, copy, todo)
    PROVE  call' \in [Request -> Call]
<1>1. call[r] \in Call
  BY DEF TypeOK
<1>2. [op |-> call[r].op, pc |-> pc, on |-> call[r].on, copy |-> copy, todo |-> todo] \in Call
  BY <1>1 DEF Call
<1>. QED
  BY <1>2 DEF TypeOK, Holds

LEMMA ReturnTyped ==
    ASSUME TypeOK, NEW r \in Request, Return(r)
    PROVE  call' \in [Request -> Call]
BY BlankTyped DEF TypeOK, Return

LEMMA BeginTyped ==
    ASSUME TypeOK, NEW r \in Request, NEW op, NEW s \in Subtask, Begin(r, op, s)
    PROVE  call' \in [Request -> Call]
<1>1. op \in Operation
  BY ConstantsAssumption DEF Begin
<1>2. [op |-> op, pc |-> "found", on |-> s, copy |-> Absent, todo |-> {}] \in Call
  BY <1>1, BlankTyped DEF Call
<1>3. call' = [call EXCEPT ![r] = [op |-> op, pc |-> "found", on |-> s, copy |-> Absent, todo |-> {}]]
  BY DEF Begin
<1>. QED
  BY <1>2, <1>3 DEF TypeOK

\* The subtask a request starts with.
LEMMA AskBegins ==
    ASSUME NEW r \in Request, NEW op \in Op, Ask(r, op)
    PROVE  \E s \in Subtask : Begin(r, op, s)
<1>1. Appended \subseteq Subtask /\ AnySubtask \in Subtask
  BY ConstantsAssumption DEF AnySubtask
<1>. QED
  BY <1>1 DEF Ask

LEMMA TypeInit == Init => TypeOK
<1>1. ASSUME NEW s \in Subtask PROVE Blank(s \in Planned) \in SubRow
  <2>1. (s \in Planned) \in BOOLEAN
    OBVIOUS
  <2>. QED
    BY <2>1, BlankTyped, Zenon
<1>. QED
  BY <1>1, BlankTyped DEF Init, TypeOK

LEMMA TypeStep == TypeOK /\ [Next]_vars => TypeOK'
<1>. SUFFICES ASSUME TypeOK, [Next]_vars PROVE TypeOK'
  OBVIOUS
<1>. USE ConstantsAssumption
<1>0. \A s \in Subtask, r \in Request :
          sub[s] \in SubRow /\ call[r] \in Call /\ call[r].copy[s] \in SubRow
  BY DEF TypeOK, Call
<1>1. ASSUME NEW r \in Request, Refused(r) \/ WaveDenied(r) \/ Abandon(r) PROVE TypeOK'
  BY <1>1, ReturnTyped DEF Refused, WaveDenied, Abandon, TypeOK
<1>2. ASSUME NEW r \in Request, DispatchReady(r) PROVE TypeOK'
  <2>1. Ready(sub) \in SUBSET Subtask /\ sub \in [Subtask -> SubRow]
    BY DEF Ready, There, TypeOK
  <2>2. Holds(r, "wave", sub, Ready(sub)) /\ UNCHANGED <<live, sub, orders, reported>>
    BY <1>2 DEF DispatchReady
  <2>3. call' \in [Request -> Call]
    BY <2>1, <2>2, HoldsTyped
  <2>. QED
    BY <2>2, <2>3 DEF TypeOK
<1>3. ASSUME NEW r \in Request, WaveEnds(r) \/ SaveCopy(r) PROVE TypeOK'
  <2>1. call[r].copy \in [Subtask -> SubRow]
    BY <1>0 DEF Call
  <2>2. live' = TRUE /\ sub' = call[r].copy /\ Return(r) /\ UNCHANGED <<orders, reported>>
    BY <1>3 DEF WaveEnds, SaveCopy, Save
  <2>3. call' \in [Request -> Call]
    BY <2>2, ReturnTyped
  <2>. QED
    BY <2>1, <2>2, <2>3 DEF TypeOK
<1>4. ASSUME NEW r \in Request, NEW s \in Subtask, GatewayAccepts(r, s) PROVE TypeOK'
  <2>1. PICK ref \in Ref \ {0} :
          /\ orders' = [orders EXCEPT ![s] = @ \cup {ref}]
          /\ Holds(r, "wave", [call[r].copy EXCEPT ![s] = Accepted(@, ref)], call[r].todo \ {s})
    BY <1>4 DEF GatewayAccepts
  <2>2. /\ [call[r].copy EXCEPT ![s] = Accepted(@, ref)] \in [Subtask -> SubRow]
        /\ call[r].todo \ {s} \in SUBSET Subtask
    BY <1>0, RowsTyped DEF Call
  <2>3. call' \in [Request -> Call]
    BY <2>1, <2>2, HoldsTyped
  <2>. QED
    BY <1>4, <2>1, <2>3 DEF GatewayAccepts, TypeOK
<1>5. ASSUME NEW r \in Request, NEW s \in Subtask, GatewayFails(r, s) \/ GatewayAnswerLost(r, s)
      PROVE  TypeOK'
  <2>. DEFINE copy == [call[r].copy EXCEPT ![s] = Failed(@)]
  <2>1. copy \in [Subtask -> SubRow] /\ call[r].todo \ {s} \in SUBSET Subtask
    BY <1>0, RowsTyped DEF Call
  <2>2. /\ live' = TRUE /\ sub' = copy /\ UNCHANGED reported
        /\ Holds(r, "wave", copy, call[r].todo \ {s}) \/ Return(r)
    BY <1>5 DEF GatewayFails, GatewayAnswerLost, FailureCounted, Save
  <2>3. orders' \in [Subtask -> SUBSET Ref]
    BY <1>5 DEF GatewayFails, GatewayAnswerLost, TypeOK
  <2>. HIDE DEF copy
  <2>4. call' \in [Request -> Call]
    BY <2>1, <2>2, HoldsTyped, ReturnTyped
  <2>. QED
    BY <2>1, <2>2, <2>3, <2>4 DEF TypeOK
<1>6. ASSUME NEW r \in Request, CompleteSubtask(r) PROVE TypeOK'
  <2>1. [sub EXCEPT ![call[r].on].completed = TRUE] \in [Subtask -> SubRow]
    BY <1>0, RowsTyped DEF Call, TypeOK
  <2>2. /\ Holds(r, "save", [sub EXCEPT ![call[r].on].completed = TRUE], {})
        /\ UNCHANGED <<live, sub, orders, reported>>
    BY <1>6 DEF CompleteSubtask
  <2>3. call' \in [Request -> Call]
    BY <2>1, <2>2, HoldsTyped
  <2>. QED
    BY <2>2, <2>3 DEF TypeOK
<1>7. ASSUME NEW r \in Request, AppendSubtasks(r) PROVE TypeOK'
  <2>1. [sub EXCEPT ![call[r].on] = Blank(TRUE)] \in [Subtask -> SubRow]
    BY <1>0, BlankTyped DEF Call, TypeOK
  <2>2. /\ Holds(r, "save", [sub EXCEPT ![call[r].on] = Blank(TRUE)], {})
        /\ UNCHANGED <<live, sub, orders, reported>>
    BY <1>7 DEF AppendSubtasks
  <2>3. call' \in [Request -> Call]
    BY <2>1, <2>2, HoldsTyped
  <2>. QED
    BY <2>2, <2>3 DEF TypeOK
<1>8. ASSUME NEW r \in Request, PatchMCCompat(r) PROVE TypeOK'
  <2>1. sub \in [Subtask -> SubRow]
    BY DEF TypeOK
  <2>2. call' \in [Request -> Call]
    BY <1>8, <2>1, HoldsTyped DEF PatchMCCompat
  <2>. QED
    BY <1>8, <2>2 DEF PatchMCCompat, TypeOK
<1>9. ASSUME NEW r \in Request, NEW op \in Op, Ask(r, op) PROVE TypeOK'
  <2>1. PICK s \in Subtask : Begin(r, op, s)
    BY <1>9, AskBegins
  <2>2. call' \in [Request -> Call]
    BY <2>1, BeginTyped
  <2>. QED
    BY <1>9, <2>2 DEF Ask, TypeOK
<1>10. ASSUME NEW r \in Request, NEW s \in Subtask, AgentReports(r, s) PROVE TypeOK'
  <2>1. call' \in [Request -> Call]
    BY <1>10, BeginTyped DEF AgentReports
  <2>. QED
    BY <1>10, <2>1 DEF AgentReports, TypeOK
<1>11. CASE DeleteConvoy
  BY <1>11, BlankTyped DEF DeleteConvoy, TypeOK
<1>12. CASE UNCHANGED vars
  BY <1>12 DEF vars, TypeOK
<1>. QED
  BY <1>1, <1>2, <1>3, <1>4, <1>5, <1>6, <1>7, <1>8, <1>9, <1>10, <1>11, <1>12 DEF Next, Work

\* Every reachable state is well typed, for every graph and set of requests.
THEOREM TypeCorrect == Spec => []TypeOK
BY TypeInit, TypeStep, PTL DEF Spec

-----------------------------------------------------------------------------
(* Safety. *)

\* What is true of a version stays true: orders and reports only grow.
LEMMA SoundStays ==
    ASSUME NEW c, NEW ord, NEW rep, NEW ord2, NEW rep2,
           \A s \in Subtask : ord[s] \subseteq ord2[s],
           rep \subseteq rep2,
           Sound(c, ord, rep)
    PROVE  Sound(c, ord2, rep2)
BY DEF Sound

LEMMA AbsentSound ==
    ASSUME NEW ord, NEW rep
    PROVE  Sound(Absent, ord, rep)
BY DEF Sound, Absent, Blank, There

\* What a step must show: the version it stores and the version the call goes
\* on with are sound, and so is the order it makes.
LEMMA InvKept ==
    ASSUME TypeOK, ConvoyInv, NEW r \in Request, NEW q,
           call' = [call EXCEPT ![r] = q],
           \A s \in Subtask : orders[s] \subseteq orders'[s],
           reported \subseteq reported',
           Sound(q.copy, orders', reported'), Unblocked(q.todo, reported'), Told(q, reported'),
           Sound(sub', orders', reported'),
           \A s \in Subtask : orders'[s] # {} => DependsOn[s] \subseteq reported'
    PROVE  ConvoyInv'
<1>1. ASSUME NEW u \in Request
      PROVE  /\ Sound(call'[u].copy, orders', reported')
             /\ Unblocked(call'[u].todo, reported') /\ Told(call'[u], reported')
  <2>1. CASE u = r
    BY <2>1 DEF TypeOK
  <2>2. CASE u # r
    <3>1. call'[u] = call[u]
      BY <2>2 DEF TypeOK
    <3>2. Sound(call[u].copy, orders, reported) /\ Unblocked(call[u].todo, reported) /\ Told(call[u], reported)
      BY DEF ConvoyInv
    <3>3. Sound(call[u].copy, orders', reported')
      BY <3>2, SoundStays
    <3>. QED
      BY <3>1, <3>2, <3>3 DEF Unblocked, Told
  <2>. QED
    BY <2>1, <2>2
<1>. QED
  BY <1>1 DEF ConvoyInv, OrderedAfterDependencies

LEMMA InvInit == Init => ConvoyInv
<1>. SUFFICES ASSUME Init PROVE ConvoyInv
  OBVIOUS
<1>1. Sound(sub, orders, reported)
  BY ConstantsAssumption DEF Init, Sound, Blank, There
<1>2. \A r \in Request : call[r].copy = Absent /\ call[r].todo = {} /\ call[r].pc = "idle"
  BY DEF Init, Idle
<1>3. \A r \in Request : /\ Sound(call[r].copy, orders, reported)
                         /\ Unblocked(call[r].todo, reported) /\ Told(call[r], reported)
  BY <1>2, AbsentSound DEF Unblocked, Told
<1>. QED
  BY <1>1, <1>3 DEF Init, ConvoyInv, OrderedAfterDependencies

LEMMA InvStep == TypeOK /\ ConvoyInv /\ [Next]_vars => ConvoyInv'
<1>. SUFFICES ASSUME TypeOK, ConvoyInv, [Next]_vars PROVE ConvoyInv'
  OBVIOUS
<1>. USE ConstantsAssumption
<1>a. Sound(sub, orders, reported) /\ OrderedAfterDependencies
  BY DEF ConvoyInv
<1>b. \A r \in Request : Sound(call[r].copy, orders, reported) /\ Unblocked(call[r].todo, reported)
  BY DEF ConvoyInv
<1>c. Sound(Idle.copy, orders, reported) /\ Unblocked(Idle.todo, reported) /\ Told(Idle, reported)
  BY AbsentSound DEF Idle, Unblocked, Told
<1>1. ASSUME NEW r \in Request, Refused(r) \/ WaveDenied(r) \/ Abandon(r) PROVE ConvoyInv'
  <2>1. call' = [call EXCEPT ![r] = Idle] /\ UNCHANGED <<live, sub, orders, reported>>
    BY <1>1 DEF Refused, WaveDenied, Abandon, Return
  <2>. HIDE DEF Idle
  <2>. QED
    BY <2>1, <1>a, <1>c, InvKept DEF OrderedAfterDependencies
<1>2. ASSUME NEW r \in Request, NEW copy, NEW todo, NEW pc, pc # "found",
             Holds(r, pc, copy, todo), UNCHANGED <<sub, orders, reported>>,
             Sound(copy, orders, reported), Unblocked(todo, reported)
      PROVE  ConvoyInv'
  <2>. DEFINE q == [op |-> call[r].op, pc |-> pc, on |-> call[r].on, copy |-> copy, todo |-> todo]
  <2>1. q.copy = copy /\ q.todo = todo /\ call' = [call EXCEPT ![r] = q] /\ Told(q, reported)
    BY <1>2 DEF Holds, TypeOK, Told
  <2>. HIDE DEF q
  <2>. QED
    BY <2>1, <1>2, <1>a, InvKept DEF OrderedAfterDependencies
<1>3. ASSUME NEW r \in Request, DispatchReady(r) PROVE ConvoyInv'
  <2>1. Unblocked(Ready(sub), reported)
    BY <1>a DEF Unblocked, Ready, Done, There, Sound, TypeOK
  <2>. QED
    BY <1>2, <1>3, <1>a, <2>1 DEF DispatchReady
<1>4. ASSUME NEW r \in Request, WaveEnds(r) \/ SaveCopy(r) PROVE ConvoyInv'
  <2>1. /\ sub' = call[r].copy /\ call' = [call EXCEPT ![r] = Idle]
        /\ UNCHANGED <<orders, reported>>
    BY <1>4 DEF WaveEnds, SaveCopy, Save, Return
  <2>. HIDE DEF Idle
  <2>. QED
    BY <2>1, <1>a, <1>b, <1>c, InvKept DEF OrderedAfterDependencies
<1>5. ASSUME NEW r \in Request, NEW s \in Subtask, GatewayAccepts(r, s) PROVE ConvoyInv'
  <2>1. PICK ref \in Ref \ {0} :
          /\ orders' = [orders EXCEPT ![s] = @ \cup {ref}]
          /\ Holds(r, "wave", [call[r].copy EXCEPT ![s] = Accepted(@, ref)], call[r].todo \ {s})
    BY <1>5 DEF GatewayAccepts
  <2>. DEFINE copy == [call[r].copy EXCEPT ![s] = Accepted(@, ref)]
              q == [op |-> call[r].op, pc |-> "wave", on |-> call[r].on, copy |-> copy,
                    todo |-> call[r].todo \ {s}]
  <2>2. UNCHANGED <<sub, reported>> /\ s \in call[r].todo
    BY <1>5 DEF GatewayAccepts, Up
  <2>3. /\ \A u \in Subtask : orders[u] \subseteq orders'[u]
        /\ ref \in orders'[s]
        /\ \A u \in Subtask : u # s => orders'[u] = orders[u]
    BY <2>1 DEF TypeOK
  <2>4. Sound(call[r].copy, orders', reported) /\ Sound(sub, orders', reported)
    BY <1>a, <1>b, <2>3, SoundStays
  <2>5. call[r].copy \in [Subtask -> SubRow]
    BY DEF TypeOK, Call
  <2>6. /\ copy[s].there = call[r].copy[s].there /\ copy[s].dispatched
        /\ copy[s].completed = call[r].copy[s].completed /\ copy[s].ref = ref
        /\ \A u \in Subtask : u # s => copy[u] = call[r].copy[u]
    BY <2>5 DEF Accepted
  <2>7. There(copy) = There(call[r].copy)
    BY <2>6 DEF There
  <2>. HIDE DEF copy
  <2>8. Sound(copy, orders', reported)
    BY <2>3, <2>4, <2>6, <2>7 DEF Sound
  <2>9. Unblocked(call[r].todo \ {s}, reported) /\ DependsOn[s] \subseteq reported
    BY <1>b, <2>2 DEF Unblocked
  <2>10. /\ q.copy = copy /\ q.todo = call[r].todo \ {s} /\ Told(q, reported)
         /\ call' = [call EXCEPT ![r] = q]
    BY <2>1 DEF Holds, TypeOK, Told, copy
  <2>11. \A u \in Subtask : orders'[u] # {} => DependsOn[u] \subseteq reported'
    BY <1>a, <2>2, <2>3, <2>9 DEF OrderedAfterDependencies
  <2>. HIDE DEF q
  <2>12. /\ Sound(q.copy, orders', reported') /\ Unblocked(q.todo, reported') /\ Told(q, reported')
         /\ Sound(sub', orders', reported') /\ reported \subseteq reported'
    BY <2>2, <2>4, <2>8, <2>9, <2>10
  <2>. QED
    BY <2>3, <2>10, <2>11, <2>12, InvKept
<1>6. ASSUME NEW r \in Request, NEW s \in Subtask, GatewayFails(r, s) \/ GatewayAnswerLost(r, s)
      PROVE  ConvoyInv'
  <2>. DEFINE copy == [call[r].copy EXCEPT ![s] = Failed(@)]
              q == [op |-> call[r].op, pc |-> "wave", on |-> call[r].on, copy |-> copy,
                    todo |-> call[r].todo \ {s}]
  <2>1. /\ sub' = copy /\ UNCHANGED reported /\ s \in call[r].todo
        /\ Holds(r, "wave", copy, call[r].todo \ {s}) \/ Return(r)
    BY <1>6 DEF GatewayFails, GatewayAnswerLost, FailureCounted, Save, Up
  <2>0. /\ \A u \in Subtask : orders[u] \subseteq orders'[u]
        /\ \A u \in Subtask : u # s => orders'[u] = orders[u]
    BY <1>6 DEF GatewayFails, GatewayAnswerLost, TypeOK
  <2>2. call[r].copy \in [Subtask -> SubRow]
    BY DEF TypeOK, Call
  <2>3. \A u \in Subtask :
          /\ copy[u].there = call[r].copy[u].there /\ copy[u].ref = call[r].copy[u].ref
          /\ copy[u].dispatched = call[r].copy[u].dispatched
          /\ copy[u].completed = call[r].copy[u].completed
    BY <2>2 DEF Failed
  <2>4. There(copy) = There(call[r].copy)
    BY <2>3 DEF There
  <2>5. call' = [call EXCEPT ![r] = q] \/ call' = [call EXCEPT ![r] = Idle]
    BY <2>1 DEF Holds, TypeOK, Return
  <2>6. q.copy = copy /\ q.todo = call[r].todo \ {s} /\ Told(q, reported)
    BY DEF Told
  <2>. HIDE DEF copy, q, Idle
  <2>7. Sound(copy, orders', reported)
    <3>1. Sound(call[r].copy, orders', reported)
      BY <1>b, <2>0, SoundStays
    <3>. QED
      BY <2>3, <2>4, <3>1 DEF Sound
  <2>8. Unblocked(call[r].todo \ {s}, reported) /\ DependsOn[s] \subseteq reported
    BY <1>b, <2>1 DEF Unblocked
  <2>a. /\ Sound(sub', orders', reported') /\ reported \subseteq reported'
        /\ \A u \in Subtask : orders[u] \subseteq orders'[u]
        /\ \A u \in Subtask : orders'[u] # {} => DependsOn[u] \subseteq reported'
    BY <2>0, <2>1, <2>7, <2>8, <1>a DEF OrderedAfterDependencies
  <2>9. CASE call' = [call EXCEPT ![r] = q]
    <3>1. Sound(q.copy, orders', reported') /\ Unblocked(q.todo, reported') /\ Told(q, reported')
      BY <2>1, <2>6, <2>7, <2>8
    <3>. QED
      BY <2>a, <2>9, <3>1, InvKept
  <2>10. CASE call' = [call EXCEPT ![r] = Idle]
    <3>1. Sound(Idle.copy, orders', reported') /\ Unblocked(Idle.todo, reported') /\ Told(Idle, reported')
      BY <2>0, <2>1, <1>c, SoundStays
    <3>. QED
      BY <2>a, <2>10, <3>1, InvKept
  <2>. QED
    BY <2>5, <2>9, <2>10
<1>7. ASSUME NEW r \in Request, CompleteSubtask(r) PROVE ConvoyInv'
  <2>. DEFINE s == call[r].on
              copy == [sub EXCEPT ![s].completed = TRUE]
  <2>1. /\ s \in Subtask /\ sub[s] \in SubRow /\ sub[s].dispatched
        /\ s \in reported
    BY <1>7 DEF CompleteSubtask, TypeOK, Call, ConvoyInv, Told
  <2>2. Holds(r, "save", copy, {}) /\ UNCHANGED <<sub, orders, reported>>
    BY <1>7 DEF CompleteSubtask
  <2>3. /\ copy[s].there = sub[s].there /\ copy[s].dispatched /\ copy[s].ref = sub[s].ref
        /\ \A u \in Subtask : u # s => copy[u] = sub[u]
    BY <2>1 DEF TypeOK, SubRow
  <2>4. There(copy) = There(sub)
    BY <2>3 DEF There
  <2>. HIDE DEF copy, s
  <2>5. Sound(copy, orders, reported)
    BY <1>a, <2>1, <2>3, <2>4 DEF Sound
  <2>. QED
    BY <1>2, <2>2, <2>5 DEF Unblocked
<1>8. ASSUME NEW r \in Request, AppendSubtasks(r) PROVE ConvoyInv'
  <2>. DEFINE s == call[r].on
              copy == [sub EXCEPT ![s] = Blank(TRUE)]
  <2>1. s \in Subtask /\ DependsOn[s] \subseteq There(sub)
    BY <1>8 DEF AppendSubtasks, TypeOK, Call
  <2>2. Holds(r, "save", copy, {}) /\ UNCHANGED <<sub, orders, reported>>
    BY <1>8 DEF AppendSubtasks
  <2>3. /\ copy[s].there /\ ~copy[s].dispatched /\ ~copy[s].completed
        /\ \A u \in Subtask : u # s => copy[u] = sub[u]
    BY <2>1 DEF TypeOK, Blank
  <2>4. There(copy) = There(sub) \cup {s}
    BY <2>1, <2>3 DEF There
  <2>. HIDE DEF copy, s
  <2>5. Sound(copy, orders, reported)
    BY <1>a, <2>1, <2>3, <2>4 DEF Sound
  <2>. QED
    BY <1>2, <2>2, <2>5 DEF Unblocked
<1>9. ASSUME NEW r \in Request, PatchMCCompat(r) PROVE ConvoyInv'
  <2>1. Holds(r, "save", sub, {}) /\ UNCHANGED <<sub, orders, reported>> /\ Unblocked({}, reported)
    BY <1>9 DEF PatchMCCompat, Unblocked
  <2>. QED
    BY <1>2, <1>a, <2>1
<1>10. ASSUME NEW r \in Request, NEW op \in Op, Ask(r, op) PROVE ConvoyInv'
  <2>1. PICK s \in Subtask : Begin(r, op, s)
    BY <1>10, AskBegins
  <2>. DEFINE q == [op |-> op, pc |-> "found", on |-> s, copy |-> Absent, todo |-> {}]
  <2>2. call' = [call EXCEPT ![r] = q] /\ UNCHANGED <<sub, orders, reported>>
    BY <1>10, <2>1 DEF Ask, Begin
  <2>3. q.copy = Absent /\ Unblocked(q.todo, reported) /\ Told(q, reported)
    BY <1>10 DEF Unblocked, Told, Ask
  <2>. HIDE DEF q
  <2>. QED
    BY <2>2, <2>3, <1>a, AbsentSound, InvKept DEF OrderedAfterDependencies
<1>11. ASSUME NEW r \in Request, NEW s \in Subtask, AgentReports(r, s) PROVE ConvoyInv'
  <2>. DEFINE q == [op |-> "complete", pc |-> "found", on |-> s, copy |-> Absent, todo |-> {}]
  <2>1. /\ call' = [call EXCEPT ![r] = q] /\ UNCHANGED <<sub, orders>>
        /\ reported' = reported \cup {s}
    BY <1>11 DEF AgentReports, Begin
  <2>2. q.copy = Absent /\ Unblocked(q.todo, reported') /\ Told(q, reported')
    BY <2>1 DEF Unblocked, Told
  <2>. HIDE DEF q
  <2>3. Sound(sub', orders', reported')
    BY <1>a, <2>1, SoundStays
  <2>. QED
    BY <1>a, <2>1, <2>2, <2>3, AbsentSound, InvKept DEF OrderedAfterDependencies
<1>12. CASE DeleteConvoy
  <2>1. sub' = Absent /\ UNCHANGED <<call, orders, reported>>
    BY <1>12 DEF DeleteConvoy
  <2>. QED
    BY <2>1, <1>a, <1>b, AbsentSound DEF ConvoyInv, OrderedAfterDependencies
<1>13. CASE UNCHANGED vars
  BY <1>13 DEF vars, ConvoyInv, OrderedAfterDependencies
<1>. QED
  BY <1>1, <1>3, <1>4, <1>5, <1>6, <1>7, <1>8, <1>9, <1>10, <1>11, <1>12, <1>13 DEF Next, Work

\* Sound versions everywhere, in every reachable state.
THEOREM Invariant == Spec => []ConvoyInv
BY InvInit, InvStep, TypeCorrect, PTL DEF Spec

\* No agent is asked to work on a subtask before all its dependencies have
\* been reported complete, for every graph, however many requests overtake
\* each other.
THEOREM DependenciesGate == Spec => []OrderedAfterDependencies
<1>1. ConvoyInv => OrderedAfterDependencies
  BY DEF ConvoyInv
<1>. QED
  BY <1>1, Invariant, PTL

\* The stored convoy only says what has happened.
THEOREM StoredConvoyIsTrue == Spec => []StoredIsTrue
<1>1. ConvoyInv => StoredIsTrue
  BY DEF ConvoyInv, Sound, StoredIsTrue
<1>. QED
  BY <1>1, Invariant, PTL

\* No stored subtask waits for a dependency that is not stored.
THEOREM StoredGraphsAreClosed == Spec => []StoredGraphIsClosed
<1>1. ConvoyInv => StoredGraphIsClosed
  BY DEF ConvoyInv, Sound, StoredGraphIsClosed
<1>. QED
  BY <1>1, Invariant, PTL

\* A stored convoy is one to go on from, whatever saves overtook each other.
THEOREM ConvoyHolds == Spec => []StoredConvoyHolds
<1>1. StoredIsTrue /\ StoredGraphIsClosed => StoredConvoyHolds
  BY DEF StoredConvoyHolds
<1>. QED
  BY <1>1, StoredConvoyIsTrue, StoredGraphsAreClosed, PTL

-----------------------------------------------------------------------------
(* One request at a time.  The convoy as the request at work has it, the    *)
(* stored one or what it is about to be replaced by, then has all there is. *)

InHand(r) == call[r].pc \in {"wave", "save"}

Version(r) == IF InHand(r) THEN call[r].copy ELSE sub

\* Version new of the convoy has the dispatches and the completions of old.
Keeps(old, new) ==
    \A s \in Subtask : /\ old[s].completed => new[s].completed
                       /\ old[s].dispatched => new[s].dispatched

\* Only a subtask that is there has been tried, dispatched or completed.
Registered(c) ==
    \A s \in Subtask : c[s].dispatched \/ c[s].completed \/ c[s].attempts # 0 => c[s].there

SoloInv(r) ==
    /\ Registered(sub) /\ Registered(Version(r))
    /\ Keeps(sub, Version(r))
    /\ call[r].pc = "wave" =>
         \A s \in call[r].todo : Version(r)[s].there /\ ~Version(r)[s].dispatched

\* The version in hand knows of every order, if only as of a failed attempt.
SoloKnown(r) ==
    \A s \in Subtask : orders[s] # {} => Version(r)[s].dispatched \/ Version(r)[s].attempts # 0

LEMMA HoldsCopy ==
    ASSUME TypeOK, NEW r \in Request, NEW pc, NEW copy, NEW todo, Holds(r, pc, copy, todo)
    PROVE  call'[r].pc = pc /\ call'[r].copy = copy /\ call'[r].todo = todo
BY DEF TypeOK, Holds

\* A request that starts or returns has nothing in hand.
LEMMA EmptyHanded ==
    ASSUME TypeOK, NEW r \in Request,
           Return(r) \/ (\E op \in Op, s \in Subtask : Begin(r, op, s))
    PROVE  ~InHand(r)'
BY DEF TypeOK, Return, Begin, Idle, InHand

\* What one step makes of the version in hand.
Forgets(r) == sub' = sub /\ Version(r)' = sub /\ ~InHand(r)' /\ UNCHANGED orders
Passes(r) == /\ sub' \in {sub, Version(r)} /\ Version(r)' = Version(r) /\ call'[r].pc # "wave"
             /\ UNCHANGED orders
Starts(r) == /\ sub' = sub /\ Version(r)' = sub /\ Version(r) = sub
             /\ call'[r].todo = Ready(sub) /\ UNCHANGED orders
Orders(r, s) ==
    /\ call[r].pc = "wave" /\ s \in call[r].todo
    /\ sub' = sub /\ call'[r].todo = call[r].todo \ {s}
    /\ \E ref \in Ref : /\ Version(r)' = [Version(r) EXCEPT ![s] = Accepted(@, ref)]
                        /\ orders' = [orders EXCEPT ![s] = @ \cup {ref}]
Fails(r, s) ==
    /\ call[r].pc = "wave" /\ s \in call[r].todo
    /\ sub' = Version(r)' /\ Version(r)' = [Version(r) EXCEPT ![s] = Failed(@)]
    /\ call'[r].pc = "wave" => call'[r].todo = call[r].todo \ {s}
    /\ \A u \in Subtask \ {s} : orders'[u] = orders[u]
Completes(r, s) ==
    /\ sub' = sub /\ Version(r) = sub /\ sub[s].there
    /\ Version(r)' = [sub EXCEPT ![s].completed = TRUE]
    /\ call'[r].pc # "wave" /\ UNCHANGED orders
Appends(r, s) ==
    /\ sub' = sub /\ Version(r) = sub /\ ~sub[s].there
    /\ Version(r)' = [sub EXCEPT ![s] = Blank(TRUE)]
    /\ call'[r].pc # "wave" /\ UNCHANGED orders

LEMMA SoloSteps ==
    ASSUME NEW r \in Request, Request = {r}, "delete" \notin Op, TypeOK, [Next]_vars
    PROVE  \/ (WaveDenied(r) \/ Abandon(r)) /\ Forgets(r)
           \/ Passes(r) \/ Starts(r) \/ UNCHANGED vars
           \/ \E s \in Subtask : Orders(r, s) \/ Fails(r, s) \/ Completes(r, s) \/ Appends(r, s)
<1>0. \A u \in Request : u = r
  OBVIOUS
<1>1. CASE WaveDenied(r) \/ Abandon(r)
  BY <1>1, EmptyHanded DEF WaveDenied, Abandon, Forgets, Version
<1>2. CASE \/ Refused(r)
           \/ \E op \in Op : Ask(r, op)
           \/ \E s \in Subtask : AgentReports(r, s)
  <2>1. Return(r) \/ \E op \in Op, s \in Subtask : Begin(r, op, s)
    BY <1>2, AskBegins DEF Refused, AgentReports, Begin
  <2>2. UNCHANGED <<sub, orders>> /\ ~InHand(r)
    BY <1>2 DEF Refused, Ask, AgentReports, Begin, InHand
  <2>3. ~InHand(r)'
    BY <2>1, EmptyHanded
  <2>. QED
    BY <2>2, <2>3 DEF Passes, Version, InHand
<1>3. CASE WaveEnds(r) \/ SaveCopy(r)
  <2>1. sub' = call[r].copy /\ Return(r) /\ InHand(r) /\ UNCHANGED orders
    BY <1>3 DEF WaveEnds, SaveCopy, Save, InHand
  <2>2. ~InHand(r)'
    BY <2>1, EmptyHanded
  <2>. QED
    BY <2>1, <2>2 DEF Passes, Version, InHand
<1>4. CASE DispatchReady(r)
  <2>1. ~InHand(r) /\ Holds(r, "wave", sub, Ready(sub)) /\ UNCHANGED <<sub, orders>>
    BY <1>4 DEF DispatchReady, InHand
  <2>2. call'[r].pc = "wave" /\ call'[r].copy = sub /\ call'[r].todo = Ready(sub)
    BY <2>1, HoldsCopy
  <2>. QED
    BY <2>1, <2>2 DEF Starts, Version, InHand
<1>5. CASE PatchMCCompat(r)
  <2>1. ~InHand(r) /\ Holds(r, "save", sub, {}) /\ UNCHANGED <<sub, orders>>
    BY <1>5 DEF PatchMCCompat, InHand
  <2>2. call'[r].pc = "save" /\ call'[r].copy = sub
    BY <2>1, HoldsCopy
  <2>. QED
    BY <2>1, <2>2 DEF Passes, Version, InHand
<1>6. ASSUME NEW s \in Subtask, GatewayAccepts(r, s) PROVE Orders(r, s)
  <2>1. PICK ref \in Ref :
          /\ orders' = [orders EXCEPT ![s] = @ \cup {ref}]
          /\ Holds(r, "wave", [call[r].copy EXCEPT ![s] = Accepted(@, ref)], call[r].todo \ {s})
    BY <1>6 DEF GatewayAccepts
  <2>2. sub' = sub /\ call[r].pc = "wave" /\ s \in call[r].todo
    BY <1>6 DEF GatewayAccepts, Up
  <2>3. /\ call'[r].pc = "wave" /\ call'[r].todo = call[r].todo \ {s}
        /\ call'[r].copy = [call[r].copy EXCEPT ![s] = Accepted(@, ref)]
    BY <2>1, HoldsCopy
  <2>4. Version(r) = call[r].copy /\ Version(r)' = call'[r].copy
    BY <2>2, <2>3 DEF Version, InHand
  <2>. QED
    BY <2>1, <2>2, <2>3, <2>4 DEF Orders
<1>7. ASSUME NEW s \in Subtask, GatewayFails(r, s) \/ GatewayAnswerLost(r, s) PROVE Fails(r, s)
  <2>. DEFINE copy == [call[r].copy EXCEPT ![s] = Failed(@)]
  <2>1. /\ sub' = copy /\ call[r].pc = "wave" /\ s \in call[r].todo
        /\ Holds(r, "wave", copy, call[r].todo \ {s}) \/ Return(r)
    BY <1>7 DEF GatewayFails, GatewayAnswerLost, FailureCounted, Save, Up
  <2>0. \A u \in Subtask \ {s} : orders'[u] = orders[u]
    BY <1>7 DEF GatewayFails, GatewayAnswerLost, TypeOK
  <2>2. Version(r) = call[r].copy
    BY <2>1 DEF Version, InHand
  <2>3. copy = [Version(r) EXCEPT ![s] = Failed(@)]
    BY <2>2
  <2>. HIDE DEF copy
  <2>4. CASE Holds(r, "wave", copy, call[r].todo \ {s})
    <3>1. call'[r].copy = copy /\ call'[r].todo = call[r].todo \ {s} /\ InHand(r)'
      BY <2>4, HoldsCopy DEF InHand
    <3>. QED
      BY <2>0, <2>1, <2>3, <3>1 DEF Fails, Version
  <2>5. CASE Return(r)
    <3>1. ~InHand(r)'
      BY <2>5, EmptyHanded
    <3>. QED
      BY <2>0, <2>1, <2>3, <3>1 DEF Fails, Version, InHand
  <2>. QED
    BY <2>1, <2>4, <2>5
<1>8. CASE CompleteSubtask(r) \/ AppendSubtasks(r)
  <2>. DEFINE s == call[r].on
              copy == IF CompleteSubtask(r) THEN [sub EXCEPT ![s].completed = TRUE]
                                            ELSE [sub EXCEPT ![s] = Blank(TRUE)]
  <2>1. /\ Holds(r, "save", copy, {}) /\ UNCHANGED <<sub, orders>> /\ ~InHand(r)
        /\ CompleteSubtask(r) => sub[s].there
        /\ ~CompleteSubtask(r) => ~sub[s].there
    BY <1>8 DEF CompleteSubtask, AppendSubtasks, InHand
  <2>2. call'[r].pc = "save" /\ call'[r].copy = copy
    <3>. HIDE DEF copy
    <3>. QED
      BY <2>1, HoldsCopy
  <2>3. Version(r) = sub /\ Version(r)' = copy
    BY <2>1, <2>2 DEF Version, InHand
  <2>4. s \in Subtask
    BY DEF TypeOK, Call
  <2>5. CASE CompleteSubtask(r)
    BY <2>1, <2>2, <2>3, <2>4, <2>5 DEF Completes
  <2>6. CASE ~CompleteSubtask(r)
    BY <2>1, <2>2, <2>3, <2>4, <2>6 DEF Appends
  <2>. QED
    BY <2>5, <2>6
<1>9. ~DeleteConvoy
  BY DEF DeleteConvoy
<1>. QED
  BY <1>0, <1>1, <1>2, <1>3, <1>4, <1>5, <1>6, <1>7, <1>8, <1>9 DEF Next, Work

LEMMA VersionTyped ==
    ASSUME TypeOK, NEW r \in Request
    PROVE  Version(r) \in [Subtask -> SubRow] /\ sub \in [Subtask -> SubRow]
BY DEF TypeOK, Version, Call

LEMMA SoloInvInit == ASSUME NEW r \in Request, Init PROVE SoloInv(r) /\ SoloKnown(r)
<1>1. call[r].pc = "idle" /\ Version(r) = sub
  BY DEF Init, Idle, Version, InHand
<1>2. \A s \in Subtask : /\ ~sub[s].dispatched /\ ~sub[s].completed /\ sub[s].attempts = 0
                         /\ orders[s] = {}
  BY DEF Init, Blank
<1>. QED
  BY <1>1, <1>2 DEF SoloInv, Registered, Keeps, SoloKnown

LEMMA SoloStep ==
    ASSUME NEW r \in Request, Request = {r}, "delete" \notin Op, TypeOK, SoloInv(r), [Next]_vars
    PROVE  /\ SoloInv(r)' /\ Keeps(sub, sub')
           /\ \A s \in Subtask : sub[s].dispatched => orders'[s] = orders[s]
<1>. DEFINE v == Version(r)
<1>a. v \in [Subtask -> SubRow] /\ sub \in [Subtask -> SubRow]
  BY VersionTyped
<1>b. /\ Registered(sub) /\ Registered(v) /\ Keeps(sub, v) /\ Keeps(sub, sub) /\ Keeps(v, v)
      /\ call[r].pc = "wave" => \A s \in call[r].todo : v[s].there /\ ~v[s].dispatched
  BY DEF SoloInv, Keeps
<1>. HIDE DEF v
<1>1. CASE Forgets(r)
  BY <1>1, <1>b DEF Forgets, SoloInv, InHand
<1>2. CASE Passes(r)
  BY <1>2, <1>b DEF Passes, SoloInv, v
<1>3. CASE Starts(r)
  <2>1. \A s \in Ready(sub) : sub[s].there /\ ~sub[s].dispatched
    BY DEF Ready, There
  <2>. QED
    BY <1>3, <1>b, <2>1 DEF Starts, SoloInv
<1>4. ASSUME NEW s \in Subtask, Orders(r, s) PROVE SoloInv(r)' /\ Keeps(sub, sub')
  <2>1. PICK ref \in Ref : Version(r)' = [v EXCEPT ![s] = Accepted(@, ref)]
    BY <1>4 DEF Orders, v
  <2>2. /\ \A u \in Subtask \ {s} : Version(r)'[u] = v[u]
        /\ Version(r)'[s] = Accepted(v[s], ref)
    BY <1>a, <2>1
  <2>3. v[s].there
    BY <1>4, <1>b DEF Orders
  <2>4. Registered(Version(r)') /\ Keeps(sub, Version(r)')
    BY <1>b, <2>2, <2>3 DEF Registered, Keeps, Accepted
  <2>5. \A u \in call[r].todo \ {s} : Version(r)'[u].there /\ ~Version(r)'[u].dispatched
    BY <1>4, <1>b, <2>2 DEF Orders, TypeOK, Call
  <2>. QED
    BY <1>4, <1>b, <2>4, <2>5 DEF Orders, SoloInv
<1>5. ASSUME NEW s \in Subtask, Fails(r, s) PROVE SoloInv(r)' /\ Keeps(sub, sub')
  <2>1. Version(r)' = [v EXCEPT ![s] = Failed(@)]
    BY <1>5 DEF Fails, v
  <2>2. \A u \in Subtask :
          /\ Version(r)'[u].there = v[u].there /\ Version(r)'[u].completed = v[u].completed
          /\ Version(r)'[u].dispatched = v[u].dispatched
    BY <1>a, <2>1 DEF Failed
  <2>0. v[s].there
    BY <1>5, <1>b DEF Fails
  <2>a. \A u \in Subtask \ {s} : Version(r)'[u] = v[u]
    BY <1>a, <2>1
  <2>3. /\ Registered(Version(r)') /\ Keeps(sub, Version(r)') /\ Keeps(Version(r)', Version(r)')
    BY <1>b, <2>0, <2>2, <2>a DEF Registered, Keeps
  <2>4. \A u \in call[r].todo \ {s} : Version(r)'[u].there /\ ~Version(r)'[u].dispatched
    BY <1>5, <1>b, <2>2 DEF Fails, TypeOK, Call
  <2>. QED
    BY <1>5, <2>3, <2>4 DEF Fails, SoloInv
<1>6. ASSUME NEW s \in Subtask, Completes(r, s) PROVE SoloInv(r)' /\ Keeps(sub, sub')
  <2>1. /\ Version(r)' = [sub EXCEPT ![s].completed = TRUE] /\ sub[s].there
        /\ sub' = sub /\ call'[r].pc # "wave"
    BY <1>6 DEF Completes
  <2>2. /\ \A u \in Subtask \ {s} : Version(r)'[u] = sub[u]
        /\ Version(r)'[s].there /\ Version(r)'[s].completed
        /\ Version(r)'[s].dispatched = sub[s].dispatched
    BY <1>a, <2>1 DEF SubRow
  <2>. QED
    BY <1>b, <2>1, <2>2 DEF SoloInv, Registered, Keeps
<1>7. ASSUME NEW s \in Subtask, Appends(r, s) PROVE SoloInv(r)' /\ Keeps(sub, sub')
  <2>1. /\ Version(r)' = [sub EXCEPT ![s] = Blank(TRUE)] /\ ~sub[s].there
        /\ sub' = sub /\ call'[r].pc # "wave"
    BY <1>7 DEF Appends
  <2>2. /\ \A u \in Subtask \ {s} : Version(r)'[u] = sub[u]
        /\ Version(r)'[s] = Blank(TRUE) /\ ~sub[s].completed /\ ~sub[s].dispatched
    BY <1>a, <1>b, <2>1 DEF Registered
  <2>. QED
    BY <1>b, <2>1, <2>2 DEF SoloInv, Registered, Keeps, Blank
<1>8. CASE UNCHANGED vars
  <2>1. Version(r)' = v
    BY <1>8 DEF vars, Version, InHand, v
  <2>. QED
    BY <1>8, <1>b, <2>1 DEF vars, SoloInv
<1>9. SoloInv(r)' /\ Keeps(sub, sub')
  BY <1>1, <1>2, <1>3, <1>4, <1>5, <1>6, <1>7, <1>8, SoloSteps
<1>10. ASSUME NEW u \in Subtask, sub[u].dispatched PROVE orders'[u] = orders[u]
  <2>1. call[r].pc = "wave" => u \notin call[r].todo
    BY <1>10, <1>b DEF Keeps
  <2>2. orders \in [Subtask -> SUBSET Ref]
    BY DEF TypeOK
  <2>3. ASSUME NEW s \in Subtask, Orders(r, s) \/ Fails(r, s) PROVE orders'[u] = orders[u]
    BY <2>1, <2>2, <2>3 DEF Orders, Fails
  <2>. QED
    BY <2>3, SoloSteps DEF Forgets, Passes, Starts, Completes, Appends, vars
<1>. QED
  BY <1>9, <1>10

LEMMA KnownStep ==
    ASSUME NEW r \in Request, Request = {r}, "delete" \notin Op, Faults \subseteq {"gateway", "lost"},
           TypeOK, SoloInv(r), SoloKnown(r), [Next]_vars
    PROVE  SoloKnown(r)'
<1>. DEFINE v == Version(r)
            Known(row) == row.dispatched \/ row.attempts # 0
<1>a. v \in [Subtask -> SubRow] /\ sub \in [Subtask -> SubRow] /\ orders \in [Subtask -> SUBSET Ref]
  BY VersionTyped DEF TypeOK
<1>b. \A s \in Subtask : orders[s] # {} => Known(v[s])
  BY DEF SoloKnown
<1>c. Registered(sub)
  BY DEF SoloInv
<1>d. SUFFICES \A s \in Subtask : orders'[s] # {} => Known(Version(r)'[s])
  BY DEF SoloKnown
<1>. HIDE DEF v
<1>0. ~WaveDenied(r) /\ ~Abandon(r)
  BY DEF WaveDenied, Abandon
<1>1. CASE Passes(r) \/ Starts(r) \/ UNCHANGED vars
  <2>1. Version(r)' = v /\ orders' = orders
    BY <1>1 DEF Passes, Starts, vars, Version, InHand, v
  <2>. QED
    BY <1>b, <2>1
<1>2. ASSUME NEW s \in Subtask, Orders(r, s) \/ Fails(r, s)
      PROVE  \A u \in Subtask : orders'[u] # {} => Known(Version(r)'[u])
  <2>1. \A u \in Subtask \ {s} : Version(r)'[u] = v[u] /\ orders'[u] = orders[u]
    BY <1>2, <1>a DEF Orders, Fails, v
  <2>2. CASE Orders(r, s)
    <3>1. Version(r)'[s].dispatched
      BY <2>2, <1>a DEF Orders, Accepted, v
    <3>. QED
      BY <1>b, <2>1, <3>1
  <2>3. CASE Fails(r, s)
    <3>1. Version(r)'[s] = Failed(v[s]) /\ v[s] \in SubRow
      BY <2>3, <1>a DEF Fails, v
    <3>2. Failed(v[s]).attempts # 0
      BY <3>1, ConstantsAssumption DEF Failed, SubRow
    <3>. QED
      BY <1>b, <2>1, <3>1, <3>2
  <2>. QED
    BY <1>2, <2>2, <2>3
<1>3. ASSUME NEW s \in Subtask, Completes(r, s)
      PROVE  \A u \in Subtask : orders'[u] # {} => Known(Version(r)'[u])
  <2>1. \A u \in Subtask : /\ Version(r)'[u].dispatched = v[u].dispatched
                           /\ Version(r)'[u].attempts = v[u].attempts
    BY <1>3, <1>a DEF Completes, SubRow, v
  <2>2. orders' = orders
    BY <1>3 DEF Completes
  <2>. QED
    BY <1>b, <2>1, <2>2
<1>4. ASSUME NEW s \in Subtask, Appends(r, s)
      PROVE  \A u \in Subtask : orders'[u] # {} => Known(Version(r)'[u])
  <2>1. Version(r)' = [v EXCEPT ![s] = Blank(TRUE)] /\ ~v[s].there /\ v = sub /\ orders' = orders
    BY <1>4 DEF Appends, v
  <2>2. orders[s] = {}
    BY <1>b, <1>c, <2>1 DEF Registered
  <2>3. \A u \in Subtask \ {s} : Version(r)'[u] = v[u]
    BY <1>a, <2>1
  <2>. QED
    BY <1>b, <2>1, <2>2, <2>3
<1>. QED
  BY <1>0, <1>1, <1>2, <1>3, <1>4, SoloSteps

LEMMA SoloCorrect ==
    ASSUME NEW r \in Request, Request = {r}, "delete" \notin Op
    PROVE  Spec => []SoloInv(r)
BY SoloInvInit, SoloStep, TypeCorrect, PTL DEF Spec

\* A completion sticks (CompleteSubtask) as long as one request follows the
\* other and the convoy is not deleted, wherever a request is cut off or refused
\* by the gateway: what ConvoyLostCompletion shows takes two requests.
THEOREM CompletionsStick ==
    ASSUME NEW r \in Request, Request = {r}, "delete" \notin Op
    PROVE  Spec => CompletionSticks
<1>1. TypeOK /\ SoloInv(r) /\ [Next]_vars => [\A s \in Subtask : sub[s].completed => sub'[s].completed]_vars
  BY SoloStep DEF Keeps
<1>. QED
  BY <1>1, SoloCorrect, TypeCorrect, PTL DEF Spec, CompletionSticks

\* No agent is given a subtask the convoy says is dispatched (DispatchReady skips
\* it) as long as one request follows the other and the convoy is not deleted,
\* whatever goes wrong around a wave: what is dispatched stays so, and its orders
\* are what they are.
THEOREM DispatchesAreOnce ==
    ASSUME NEW r \in Request, Request = {r}, "delete" \notin Op
    PROVE  Spec => [][\A s \in Subtask :
                        sub[s].dispatched => sub'[s].dispatched /\ orders'[s] = orders[s]]_vars
<1>1. TypeOK /\ SoloInv(r) /\ [Next]_vars
         => [\A s \in Subtask :
                sub[s].dispatched => sub'[s].dispatched /\ orders'[s] = orders[s]]_vars
  BY SoloStep DEF Keeps
<1>. QED
  BY <1>1, SoloCorrect, TypeCorrect, PTL DEF Spec

\* Work the gateway has taken on, even if its answer was lost, shows in the
\* convoy in hand as a dispatch or as a failed attempt (DispatchReady saves a
\* failure at once), as long as one request follows the other, the convoy is not
\* deleted, and no wave returns without saving what it has dispatched.  A subtask
\* that is open and has no failed attempt is therefore one nobody works on.
THEOREM OrdersAreOnRecord ==
    ASSUME NEW r \in Request, Request = {r}, "delete" \notin Op, Faults \subseteq {"gateway", "lost"}
    PROVE  Spec => [](\A s \in Subtask :
                        orders[s] # {} => Version(r)[s].dispatched \/ Version(r)[s].attempts # 0)
<1>1. Init => SoloKnown(r)
  BY SoloInvInit
<1>2. TypeOK /\ SoloInv(r) /\ SoloKnown(r) /\ [Next]_vars => SoloKnown(r)'
  BY KnownStep
<1>3. SoloKnown(r) => \A s \in Subtask :
                        orders[s] # {} => Version(r)[s].dispatched \/ Version(r)[s].attempts # 0
  BY DEF SoloKnown
<1>. QED
  BY <1>1, <1>2, <1>3, SoloCorrect, TypeCorrect, PTL DEF Spec
=============================================================================
