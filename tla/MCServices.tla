----------------------------- MODULE MCServices -----------------------------
(***************************************************************************)
(* The components around the task board share no state that any of them    *)
(* keeps in variables here, so that one behaviour is about one of them:    *)
(* part says which.  Fairness is that of the component, while it is the    *)
(* one.                                                                    *)
(***************************************************************************)
EXTENDS Gateway, ProductTable, Autopilot, TickJobs, Schedules, Budget, Ports

CONSTANTS c1, c2, e1

(* Targets for Gateway: every kind of driver, the agents that share a      *)
(* connection at two addresses an operator may swap, and one that lacks    *)
(* what its driver needs.                                                  *)
T(d, a, full) == [driver |-> d, addr |-> a, complete |-> full]
MCTargets == {T("stub", 1, TRUE), T("nemoclaw_ws", 1, TRUE), T("nullclaw_a2a", 1, TRUE),
              T("zclaw_relay_http", 1, TRUE), T("copaw_http", 1, TRUE),
              T("metaclaw_http", 1, TRUE), T("mistermorph_http", 1, TRUE),
              T("nanobot_cli", 1, TRUE), T("picoclaw_ws", 1, TRUE),
              T("openclaw_ws", 1, TRUE), T("openclaw_ws", 2, TRUE),
              T("inkos_cli", 1, TRUE), T("inkos_cli", 2, FALSE)}
MCPatches == {p \in MCTargets \X MCTargets :
                 p[1].driver = p[2].driver /\ p[1].addr < p[2].addr}
MCEndpointOf == [c \in {c1, c2} |-> e1]

VARIABLE part

Parts == {"gateway", "table", "autopilot", "ticks", "schedules", "budget", "ports"}

GatewayRests == UNCHANGED gwVars
TableRests == UNCHANGED tableVars
AutopilotRests == UNCHANGED autoVars
TicksRest == UNCHANGED tickVars
SchedulesRest == UNCHANGED schedVars
BudgetRests == UNCHANGED budgetVars
PortsRest == UNCHANGED portVars

vars == <<part, gwVars, tableVars, autoVars, tickVars, schedVars, budgetVars,
          portVars>>

(* Only the components the behaviour is not about have nothing to do, and  *)
(* of their initial states one is enough.                                  *)
Beginning(p) ==
    /\ p # "gateway" => endpoint = [e \in Endpoints |-> T("stub", 1, TRUE)]
    /\ p # "table" => row = NoRow
    /\ p # "autopilot" => counter["worker"] = 0 /\ ~product.deleted
    /\ \A q \in Products : enabled[q] <=> p = "ticks"
    /\ schedule.enabled <=> p = "schedules"
    /\ schedule.timing = "cron"
    /\ p # "budget" => capsRow = NoLimit /\ zone = 0
    /\ capsRow # NoLimit => capsRow["monthly"] = NoLimit

Init ==
    /\ part \in Parts
    /\ GatewayInit /\ TableInit /\ AutopilotInit /\ TickInit /\ ScheduleInit
    /\ BudgetInit /\ PortsInit
    /\ Beginning(part)

Next ==
    /\ UNCHANGED part
    /\ \/ /\ part = "gateway" /\ GatewayNext
          /\ TableRests /\ AutopilotRests /\ TicksRest /\ SchedulesRest /\ BudgetRests
          /\ PortsRest
       \/ /\ part = "table" /\ TableNext
          /\ GatewayRests /\ AutopilotRests /\ TicksRest /\ SchedulesRest /\ BudgetRests
          /\ PortsRest
       \/ /\ part = "autopilot" /\ AutopilotNext
          /\ GatewayRests /\ TableRests /\ TicksRest /\ SchedulesRest /\ BudgetRests
          /\ PortsRest
       \/ /\ part = "ticks" /\ TickNext
          /\ GatewayRests /\ TableRests /\ AutopilotRests /\ SchedulesRest /\ BudgetRests
          /\ PortsRest
       \/ /\ part = "schedules" /\ ScheduleNext
          /\ GatewayRests /\ TableRests /\ AutopilotRests /\ TicksRest /\ BudgetRests
          /\ PortsRest
       \/ /\ part = "budget" /\ BudgetNext
          /\ GatewayRests /\ TableRests /\ AutopilotRests /\ TicksRest /\ SchedulesRest
          /\ PortsRest
       \/ /\ part = "ports" /\ PortsNext
          /\ GatewayRests /\ TableRests /\ AutopilotRests /\ TicksRest /\ SchedulesRest
          /\ BudgetRests

Fairness ==
    /\ \A c \in Calls : WF_gwVars(part = "gateway" /\ Advance(c))
    /\ \A r \in Reconcilers :
         WF_tickVars(part = "ticks" /\ (StartReconcile(r) \/ ReconcileProduct(r)))
    /\ \A p \in Products : WF_tickVars(part = "ticks" /\ WorkerStep(p))
    /\ \A w \in {Ticker, Patcher} : WF_schedVars(part = "schedules" /\ ServerStep(w))
    /\ \A s \in Slots : WF_schedVars(part = "schedules" /\ JobStep(s))

Spec == Init /\ [][Next]_vars /\ Fairness

(* Every component is well typed, and so are the requests in progress.     *)
ServicesTypeOK ==
    /\ GatewayTypeOK /\ TableTypeOK /\ AutopilotTypeOK /\ TickTypeOK
    /\ ScheduleTypeOK /\ BudgetTypeOK /\ PortsTypeOK
=============================================================================
