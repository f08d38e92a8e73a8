-------------------------------- MODULE Ports --------------------------------
(***************************************************************************)
(* The ports of workspaces.  Allocate reads the taken ports and then tries *)
(* to insert the free ones in their order, one statement each, until one   *)
(* succeeds; Release deletes a row by its port alone.  A tenant is a task  *)
(* with its client, who may ask again when the answer does not come.       *)
(***************************************************************************)
EXTENDS Naturals, FiniteSets

CONSTANTS
    Tenants,
    MaxPort,     \* the ports 4200 .. 4299, numbered from one
    MaxRuns,     \* bound: requests of a behaviour
    Nobody

ASSUME PortsAssumption == /\ MaxPort \in Nat /\ MaxRuns \in Nat
                          /\ Nobody \notin Tenants

PortNumbers == 1 .. MaxPort

VARIABLES
    table,       \* workspace_ports: the task of a row, or Nobody
    alloc,       \* where the request of a tenant is, and what it has read
    held,        \* the ports a tenant has been given and not released
    taken,       \* rows that somebody else than their tenant has released
    runs

portVars == <<table, alloc, held, taken, runs>>

Resting == [step |-> "idle", used |-> {}, port |-> 1]

PortsTypeOK ==
    /\ table \in [PortNumbers -> Tenants \cup {Nobody}]
    /\ alloc \in [Tenants -> [step : {"idle", "insert", "answer", "release"},
                              used : SUBSET PortNumbers, port : 1 .. (MaxPort + 1)]]
    /\ held \in [Tenants -> SUBSET PortNumbers]
    /\ taken \subseteq PortNumbers
    /\ runs \in 0 .. MaxRuns

PortsInit ==
    /\ table = [p \in PortNumbers |-> Nobody]
    /\ alloc = [t \in Tenants |-> Resting]
    /\ held = [t \in Tenants |-> {}]
    /\ taken = {}
    /\ runs = 0

Again == runs < MaxRuns /\ runs' = runs + 1

Allocate(t) ==
    /\ alloc[t].step = "idle"
    /\ Again
    /\ alloc' = [alloc EXCEPT ![t] = [step |-> "insert", port |-> 1,
                                      used |-> {p \in PortNumbers : table[p] # Nobody}]]
    /\ UNCHANGED <<table, held, taken>>

SkipUsed(t) ==
    /\ alloc[t].step = "insert"
    /\ alloc[t].port \in alloc[t].used
    /\ alloc' = [alloc EXCEPT ![t].port = @ + 1]
    /\ UNCHANGED <<table, held, taken, runs>>

\* Mutant: INSERT OR REPLACE.
ReplacePort(t) ==
    LET p == alloc[t].port
    IN  /\ alloc[t].step = "insert"
        /\ p \in PortNumbers \ alloc[t].used
        /\ table' = [table EXCEPT ![p] = t]
        /\ alloc' = [alloc EXCEPT ![t].step = "answer"]
        /\ UNCHANGED <<held, taken, runs>>

(* port is the primary key; after an error of any kind the next is tried.  *)
InsertPort(t) ==
    LET p == alloc[t].port
    IN  /\ alloc[t].step = "insert"
        /\ p \in PortNumbers \ alloc[t].used
        /\ \/ /\ table[p] = Nobody
              /\ table' = [table EXCEPT ![p] = t]
              /\ alloc' = [alloc EXCEPT ![t].step = "answer"]
           \/ /\ alloc' = [alloc EXCEPT ![t].port = p + 1]
              /\ UNCHANGED table
        /\ UNCHANGED <<held, taken, runs>>

Exhausted(t) ==
    /\ alloc[t].step = "insert"
    /\ alloc[t].port = MaxPort + 1
    /\ alloc' = [alloc EXCEPT ![t] = Resting]
    /\ UNCHANGED <<table, held, taken, runs>>

(* The port reaches the client, or the answer is lost and the row stays.   *)
Answered201(t) ==
    /\ alloc[t].step = "answer"
    /\ \/ held' = [held EXCEPT ![t] = @ \cup {alloc[t].port}]
       \/ UNCHANGED held
    /\ alloc' = [alloc EXCEPT ![t] = Resting]
    /\ UNCHANGED <<table, taken, runs>>

ReleaseHeld(t) ==
    /\ alloc[t].step = "idle"
    /\ Again
    /\ \E p \in held[t] :
         /\ held' = [held EXCEPT ![t] = @ \ {p}]
         /\ alloc' = [alloc EXCEPT ![t] = [Resting EXCEPT !.step = "release", !.port = p]]
    /\ UNCHANGED <<table, taken>>

(* DELETE ... WHERE port = ?, whose answer may be lost and the release be  *)
(* asked for again; "not found" is an answer too.                          *)
ReleasePort(t) ==
    LET p == alloc[t].port
    IN  /\ alloc[t].step = "release"
        /\ table' = [table EXCEPT ![p] = Nobody]
        /\ taken' = IF table[p] \in {t, Nobody} THEN taken ELSE taken \cup {p}
        /\ \/ /\ alloc' = [alloc EXCEPT ![t] = Resting]
              /\ UNCHANGED runs
           \/ /\ Again
              /\ UNCHANGED alloc
        /\ UNCHANGED held

PortsNext ==
    \E t \in Tenants :
        \/ Allocate(t) \/ SkipUsed(t) \/ InsertPort(t) \/ Exhausted(t)
        \/ Answered201(t) \/ ReleaseHeld(t) \/ ReleasePort(t)

PortsSpec == PortsInit /\ [][PortsNext]_portVars

(***************************************************************************)
(* Nothing holds the table between the SELECT and the INSERTs, and still   *)
(* no port is in two hands, and nobody works on a port without its row:    *)
(* except after a release that is repeated, or made by somebody else, has  *)
(* deleted the row of another.                                             *)
(***************************************************************************)
PortsExclusive ==
    \A p \in PortNumbers \ taken, t \in Tenants : p \in held[t] => table[p] = t
=============================================================================
