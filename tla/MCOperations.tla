---------------------------- MODULE MCOperations ----------------------------
(***************************************************************************)
(* Components that share no variables, in one run: a behaviour is about    *)
(* the one that part names, and the others stay in one initial state.      *)
(***************************************************************************)
EXTENDS Convoy, StallSweep, StoreTwins, Knowledge, Fleet, Requests, TLC

CONSTANTS build, test, t3, p1, p2

(* One subtask the others depend on, planned or appended.                  *)
Graph == [s \in Subtask |-> IF s = build THEN {} ELSE {build}]
Order == [s \in Subtask |-> IF s = build THEN 0 ELSE IF s = test THEN 1 ELSE 2]
AllOps == Operation

\* Requests of the convoy are alike, and nothing here is about progress.
RequestSymmetry == Permutations(Request)

(* Two tasks of one product, whose queue they share, and one of another.   *)
TwinProducts3 == [t \in TwinTasks |-> IF t = t3 THEN p2 ELSE p1]

VARIABLE part

Beginning(p) ==
    /\ p # "stall" => card.status = "working"
    /\ p # "knowledge" => backend = "sqlite"
    /\ p # "fleet" => store = "sqlite"
    /\ p # "requests" =>
         asked = [route |-> [gate |-> "open", get |-> TRUE, steps |-> <<>>], cred |-> "none",
                  conf |-> [token |-> FALSE, acl |-> FALSE, local |-> FALSE]]

OperationsInit ==
    /\ part \in {"convoy", "stall", "twins", "knowledge", "fleet", "requests"}
    /\ Init /\ StallInit /\ TwinInit /\ KnowledgeInit /\ FleetInit /\ RequestsInit
    /\ Beginning(part)

OperationsNext ==
    /\ UNCHANGED part
    /\ \/ /\ part = "convoy" /\ Next
          /\ UNCHANGED <<stallVars, twinVars, knowVars, fleetVars, requestVars>>
       \/ /\ part = "stall" /\ StallNext
          /\ UNCHANGED <<vars, twinVars, knowVars, fleetVars, requestVars>>
       \/ /\ part = "twins" /\ TwinNext
          /\ UNCHANGED <<vars, stallVars, knowVars, fleetVars, requestVars>>
       \/ /\ part = "knowledge" /\ KnowledgeNext
          /\ UNCHANGED <<vars, stallVars, twinVars, fleetVars, requestVars>>
       \/ /\ part = "fleet" /\ FleetNext
          /\ UNCHANGED <<vars, stallVars, twinVars, knowVars, requestVars>>
       \/ /\ part = "requests" /\ RequestsNext
          /\ UNCHANGED <<vars, stallVars, twinVars, knowVars, fleetVars>>

operationsVars ==
    <<part, vars, stallVars, twinVars, knowVars, fleetVars, requestVars>>

OperationsSpec == OperationsInit /\ [][OperationsNext]_operationsVars

(* The component a behaviour is about is well typed, and so is what its    *)
(* requests have read; the others do not move.                             *)
OperationsTypeOK ==
    /\ part = "convoy" => TypeOK
    /\ part = "stall" => StallTypeOK
    /\ part = "twins" => TwinTypeOK
    /\ part = "knowledge" => KnowledgeTypeOK
    /\ part = "fleet" => FleetTypeOK
    /\ part = "requests" => RequestsTypeOK
=============================================================================
