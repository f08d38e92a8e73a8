----------------------------- MODULE StoreTwins -----------------------------
(***************************************************************************)
(* The two implementations of ports.WorkspaceMergeQueueRepository and      *)
(* ports.WorkspacePortRepository side by side: the tables of SQLite, and   *)
(* the slice and the map the server works on when it has no database.      *)
(* Every call is made to both.  Each is one step of its store, a           *)
(* transaction there and a critical section here, so that the order of     *)
(* calls is all there is; what may differ is what a call finds and leaves. *)
(* Times are counted in half seconds, because SQLite compares them as      *)
(* text.                                                                   *)
(***************************************************************************)
EXTENDS Integers, Sequences, FiniteSets

CONSTANTS
    TwinTasks, TwinProductOf,   \* the tasks, and the product of each
    Leasers, NoLeaser,          \* owners of leases
    LeaseHalves,                \* the length of a lease, in half seconds
    LastTwinPort,               \* the ports are 1 .. LastTwinPort
    MaxTwinCalls, MaxHalves     \* bounds: calls, and the clock

ASSUME TwinAssumption ==
    /\ NoLeaser \notin Leasers
    /\ {LeaseHalves, LastTwinPort, MaxTwinCalls, MaxHalves} \subseteq Nat
    /\ MaxHalves >= 2            \* the clock starts at 2

VARIABLES
    table,       \* workspace_merge_queue, a set of rows
    slice,       \* WorkspaceStore.mq, a sequence of them
    entered,     \* ids given out: AUTOINCREMENT, and nextMQID
    portTable,   \* workspace_ports
    portMap,     \* WorkspaceStore.ports
    halves,      \* the clock
    calls,
    answers,     \* what the two stores said to the last call
    parted       \* one of the two differences between the stores has shown

twinVars == <<table, slice, entered, portTable, portMap, halves, calls, answers, parted>>

Answers == {"ok", "conflict", "not_found", "not_head", "busy", "exhausted"}
TwinProducts == {TwinProductOf[t] : t \in TwinTasks}
QueueRow == [id : 1 .. MaxTwinCalls, task : TwinTasks, status : {"pending", "done"},
             owner : Leasers \cup {NoLeaser}, exp : 0 .. MaxHalves + LeaseHalves,
             state : {"none", "merged", "skipped", "conflict", "failed"}]

TwinTypeOK ==
    /\ table \subseteq QueueRow
    /\ slice \in Seq(QueueRow)
    /\ entered \in 0 .. MaxTwinCalls /\ calls \in 0 .. MaxTwinCalls
    /\ portTable \subseteq 1 .. LastTwinPort /\ portMap \subseteq 1 .. LastTwinPort
    /\ halves \in 0 .. MaxHalves
    /\ answers \in [sql : Answers, mem : Answers]
    /\ parted \in BOOLEAN

TwinInit ==
    /\ table = {} /\ slice = <<>> /\ entered = 0
    /\ portTable = {} /\ portMap = {}
    /\ halves = 2 /\ calls = 0
    /\ answers = [sql |-> "ok", mem |-> "ok"]
    /\ parted = FALSE

Leased(r) == r.owner # NoLeaser /\ r.exp # 0
Freed(r) == [r EXCEPT !.owner = NoLeaser, !.exp = 0]
Entry(t) == [id |-> entered + 1, task |-> t, status |-> "pending", owner |-> NoLeaser,
             exp |-> 0, state |-> "none"]

\* RFC3339Nano drops the zeros of a fraction: 05Z, and 05.5Z, which as text comes first.
AsText(h) == IF h % 2 = 0 THEN h + 1 ELSE h - 1

(* The result of a ship, given the error it came with.                     *)
Normalized(state, err) == IF state # "none" THEN state
                          ELSE IF err = "conflict" THEN "conflict"
                          ELSE IF err = "other" THEN "failed" ELSE "none"

Finished(r, state) ==
    [Freed(r) EXCEPT !.state = state,
                     !.status = IF state \in {"merged", "skipped"} THEN "done" ELSE @]

(***************************************************************************)
(* SQLite.  A call leaves a table and gives an answer.                     *)
(***************************************************************************)
Left(rows, answer) == [rows |-> rows, says |-> answer]

Waiting(t) == {r \in table : r.task = t /\ r.status = "pending"}
Queued(p) == {r \in table : r.status = "pending" /\ TwinProductOf[r.task] = p}
IsHead(r) == \A s \in Queued(TwinProductOf[r.task]) : r.id <= s.id
Replaced(r, s) == (table \ {r}) \cup {s}

SqlEnqueue(t) ==
    IF Waiting(t) # {} THEN Left(table, "conflict") ELSE Left(table \cup {Entry(t)}, "ok")

SqlComplete(t) ==
    IF Waiting(t) = {} THEN Left(table, "not_found")
    ELSE LET r == CHOOSE r \in Waiting(t) : TRUE
         IN  IF IsHead(r) THEN Left(Replaced(r, [r EXCEPT !.status = "done"]), "ok")
             ELSE Left(table, "not_head")

(* Here the end of the lease is parsed before it is compared. *)
SqlCancel(t) ==
    IF Waiting(t) = {} THEN Left(table, "not_found")
    ELSE LET r == CHOOSE r \in Waiting(t) : TRUE
         IN  IF IsHead(r) /\ Leased(r) /\ r.exp > halves THEN Left(table, "busy")
             ELSE Left(table \ {r}, "ok")

SqlReserve(t, o) ==
    IF Waiting(t) = {} THEN Left(table, "not_found")
    ELSE LET r == CHOOSE r \in Waiting(t) : TRUE
         IN  IF ~IsHead(r) THEN Left(table, "not_head")
             ELSE IF Leased(r) /\ AsText(r.exp) >= AsText(halves) THEN Left(table, "busy")
             ELSE Left(Replaced(r, [r EXCEPT !.owner = o, !.exp = halves + LeaseHalves]), "ok")

SqlFinish(i, o, state) ==
    LET there == {r \in table : r.id = i}
    IN  IF there = {} THEN Left(table, "not_found")
        ELSE LET r == CHOOSE r \in there : TRUE
             IN  IF r.owner # o THEN Left(table, "busy")
                 ELSE Left(Replaced(r, Finished(r, state)), "ok")

SqlRelease(i, o) ==
    Left({IF r.id = i /\ r.owner = o THEN Freed(r) ELSE r : r \in table}, "ok")

(***************************************************************************)
(* Memory: loops over the slice.                                           *)
(***************************************************************************)
Least(S) == CHOOSE n \in S : \A m \in S : n <= m
Holding(t) == {i \in DOMAIN slice : slice[i].task = t /\ slice[i].status = "pending"}
Mine(t) == Least(Holding(t))

(* ListPendingByProduct: positions of the slice, whose order is that of    *)
(* the ids.                                                                *)
MemList(p) == {i \in DOMAIN slice : /\ slice[i].status = "pending"
                                    /\ TwinProductOf[slice[i].task] = p}
HeadID(p) == Least({slice[i].id : i \in MemList(p)})
AtHead(r) == r.id = HeadID(TwinProductOf[r.task])
RowChanged(i, s) == [slice EXCEPT ![i] = s]
RowRemoved(i) == [j \in 1 .. Len(slice) - 1 |-> IF j < i THEN slice[j] ELSE slice[j + 1]]

MemEnqueue(t) ==
    IF Holding(t) # {} THEN Left(slice, "conflict") ELSE Left(Append(slice, Entry(t)), "ok")

MemComplete(t) ==
    IF Holding(t) = {} THEN Left(slice, "not_found")
    ELSE LET r == slice[Mine(t)]
         IN  IF AtHead(r) THEN Left(RowChanged(Mine(t), Freed([r EXCEPT !.status = "done"])), "ok")
             ELSE Left(slice, "not_head")

MemCancel(t) ==
    IF Holding(t) = {} THEN Left(slice, "not_found")
    ELSE LET r == slice[Mine(t)]
         IN  IF AtHead(r) /\ Leased(r) /\ r.exp > halves THEN Left(slice, "busy")
             ELSE Left(RowRemoved(Mine(t)), "ok")

\* Mutant: the row of the task is taken for the head of its queue.
MemReserveAnyRow(t, o) ==
    IF Holding(t) = {} THEN Left(slice, "not_found")
    ELSE LET r == slice[Mine(t)]
         IN  IF Leased(r) /\ r.exp > halves THEN Left(slice, "busy")
             ELSE Left(RowChanged(Mine(t),
                           [r EXCEPT !.owner = o, !.exp = halves + LeaseHalves]), "ok")

MemReserve(t, o) ==
    IF Holding(t) = {} THEN Left(slice, "not_found")
    ELSE LET r == slice[Mine(t)]
         IN  IF ~AtHead(r) THEN Left(slice, "not_head")
             ELSE IF Leased(r) /\ r.exp > halves THEN Left(slice, "busy")
             ELSE Left(RowChanged(Mine(t),
                           [r EXCEPT !.owner = o, !.exp = halves + LeaseHalves]), "ok")

MemFinish(i, o, state) ==
    LET at == {j \in DOMAIN slice : slice[j].id = i}
        r == slice[Least(at)]
    IN  IF at = {} THEN Left(slice, "not_found")
        ELSE IF r.owner # o THEN Left(slice, "busy")
        ELSE Left(RowChanged(Least(at), Finished(r, state)), "ok")

MemRelease(i, o) ==
    LET at == {j \in DOMAIN slice : slice[j].id = i /\ slice[j].owner = o}
    IN  Left(IF at = {} THEN slice ELSE RowChanged(Least(at), Freed(slice[Least(at)])), "ok")

(***************************************************************************)
(* The calls.                                                              *)
(***************************************************************************)
TwinCall == calls < MaxTwinCalls /\ calls' = calls + 1

\* Does the call look at a lease that ends in this very second?
Judges(t) == \E r \in Waiting(t) : Leased(r) /\ r.exp \div 2 = halves \div 2

Both(sql, mem) == /\ table' = sql.rows
                  /\ slice' = mem.rows
                  /\ answers' = [sql |-> sql.says, mem |-> mem.says]
                  /\ UNCHANGED <<portTable, portMap, halves>>

Enqueue(t) == /\ TwinCall
              /\ Both(SqlEnqueue(t), MemEnqueue(t))
              /\ entered' = IF SqlEnqueue(t).says = "ok" THEN entered + 1 ELSE entered
              /\ UNCHANGED parted

CompletePending(t) == /\ TwinCall
                      /\ Both(SqlComplete(t), MemComplete(t))
                      /\ UNCHANGED <<entered, parted>>

CancelPending(t) == /\ TwinCall
                    /\ Both(SqlCancel(t), MemCancel(t))
                    /\ UNCHANGED <<entered, parted>>

ReserveHeadForShip(t, o) == /\ TwinCall
                            /\ Both(SqlReserve(t, o), MemReserve(t, o))
                            /\ parted' = (parted \/ Judges(t))
                            /\ UNCHANGED entered

\* Only SQLite keeps the lease of a row that an operator completes by hand.
ByHand(i, o) == \E r \in table : r.id = i /\ r.owner = o /\ r.status = "done"

FinishShip(i, o, state, err) ==
    /\ TwinCall
    /\ Both(SqlFinish(i, o, Normalized(state, err)), MemFinish(i, o, Normalized(state, err)))
    /\ parted' = (parted \/ ByHand(i, o))
    /\ UNCHANGED entered

ReleaseShipLease(i, o) == /\ TwinCall
                          /\ Both(SqlRelease(i, o), MemRelease(i, o))
                          /\ UNCHANGED <<entered, parted>>

(* The lowest port nobody has; here the ports of SQLite are asked for one  *)
(* by one (Ports lets their SELECT and INSERT interleave).  The two errors *)
(* of Allocate differ, but the handler answers either as exhausted.        *)
Spare(ports) == (1 .. LastTwinPort) \ ports
Taken(ports) == IF Spare(ports) = {} THEN ports ELSE ports \cup {Least(Spare(ports))}
Given(ports) == IF Spare(ports) = {} THEN "exhausted" ELSE "ok"

PortCall(sqlPorts, memPorts, sql, mem) ==
    /\ TwinCall
    /\ portTable' = sqlPorts
    /\ portMap' = memPorts
    /\ answers' = [sql |-> sql, mem |-> mem]
    /\ UNCHANGED <<table, slice, entered, halves, parted>>

TwinAllocate == PortCall(Taken(portTable), Taken(portMap), Given(portTable), Given(portMap))

TwinRelease(p) == PortCall(portTable \ {p}, portMap \ {p},
                       IF p \in portTable THEN "ok" ELSE "not_found",
                       IF p \in portMap THEN "ok" ELSE "not_found")

HalfPasses == /\ halves < MaxHalves
              /\ halves' = halves + 1
              /\ UNCHANGED <<table, slice, entered, portTable, portMap, calls, answers, parted>>

ShipResults == {<<"merged", "no">>, <<"skipped", "no">>, <<"none", "conflict">>,
                <<"none", "other">>, <<"conflict", "conflict">>, <<"failed", "other">>}

TwinNext ==
    \/ \E t \in TwinTasks :
         \/ Enqueue(t) \/ CompletePending(t) \/ CancelPending(t)
         \/ \E o \in Leasers : ReserveHeadForShip(t, o)
    \/ \E i \in 1 .. entered, o \in Leasers :
         \/ ReleaseShipLease(i, o)
         \/ \E s \in ShipResults : FinishShip(i, o, s[1], s[2])
    \/ TwinAllocate
    \/ \E p \in 1 .. LastTwinPort : TwinRelease(p)
    \/ HalfPasses

TwinSpec == TwinInit /\ [][TwinNext]_twinVars

(***************************************************************************)
(* Whatever the calls before, the two stores answer the same and list the  *)
(* same pending rows, in the same states and under the same leases: a      *)
(* server without a database queues and ships like one that has it.  They  *)
(* part over a lease that ends within the second it is asked for, where    *)
(* text and time are not ordered alike, and over the report of a ship      *)
(* whose row an operator completed meanwhile.                              *)
(***************************************************************************)
TwinsAgree ==
    \/ parted
    \/ /\ answers.sql = answers.mem
       /\ \A p \in TwinProducts :
            /\ {slice[i] : i \in MemList(p)} = Queued(p)
            /\ \A i, j \in MemList(p) : i < j => slice[i].id < slice[j].id
       /\ portTable = portMap
=============================================================================
