-------------------------------- MODULE Fleet --------------------------------
(***************************************************************************)
(* The operator's configuration of the fleet: gateway endpoints, research  *)
(* hubs and the system's research settings, the agents bound to endpoints, *)
(* and the cache of the profiles gateways list.  Requests read a row and   *)
(* write it back whole; what keeps references alive is a check made by a   *)
(* request, and below it the foreign keys of SQLite, which the in-memory   *)
(* stores do not have.                                                     *)
(***************************************************************************)
EXTENDS Integers, FiniteSets

CONSTANTS
    GatewayIDs, HubIDs,    \* ids of gateway endpoints and research hubs
    FleetAgents,           \* ids of execution agents
    Names,                 \* remote agents a gateway may list
    NoID, NoConfig,
    Visits,                \* requests in progress
    MaxVisits              \* bound: requests of a behaviour, and their values

Things == GatewayIDs \cup HubIDs
Values == 0 .. MaxVisits
ConfigRow == [config : Values, state : Values]

ASSUME FleetAssumption ==
    /\ NoID \notin Things /\ GatewayIDs \cap HubIDs = {}
    /\ FleetAgents # {} /\ NoConfig \notin ConfigRow
    /\ MaxVisits \in Nat

VARIABLES
    store,       \* which stores: "sqlite" or "memory"
    rows,        \* gateway_endpoints and research_hubs
    bound,       \* execution_agents: the endpoint of each
    profiles,    \* agent_profiles, cached
    settings,    \* research_system_settings
    visit,       \* the requests: where they are and what they have read
    visits,
    gone,        \* ids of deleted rows
    told,        \* configuration last acknowledged (ground truth)
    tangled,     \* rows written back over a change (ground truth)
    fresh,       \* endpoints whose last refresh went undisturbed, and
    listed,      \* what their gateway listed then (ground truth)
    mixed        \* two requests have been in progress at once (ground truth)

fleetVars == <<store, rows, bound, profiles, settings, visit, visits, gone, told, tangled,
               fresh, listed, mixed>>

Settings == [auto : Values, hub : HubIDs \cup {NoID}]
Placeholder == "placeholder"
Profiles == GatewayIDs \X (Names \cup {Placeholder})

Steps == {"idle", "update", "probe", "persist", "inUse", "delete", "save", "clear", "list",
          "upsert", "hub", "settings", "unset"}
Visit == [at : Steps, thing : Things \cup {NoID}, seen : ConfigRow, set : Settings,
          value : Values, agent : FleetAgents, todo : SUBSET GatewayIDs,
          found : SUBSET (Names \cup {Placeholder}), fresh : BOOLEAN]

AnyFleetAgent == CHOOSE a \in FleetAgents : TRUE
NoVisit == [at |-> "idle", thing |-> NoID, seen |-> [config |-> 0, state |-> 0],
            set |-> [auto |-> 0, hub |-> NoID], value |-> 0, agent |-> AnyFleetAgent,
            todo |-> {}, found |-> {}, fresh |-> FALSE]

FleetTypeOK ==
    /\ store \in {"sqlite", "memory"}
    /\ rows \in [Things -> ConfigRow \cup {NoConfig}]
    /\ bound \in [FleetAgents -> GatewayIDs \cup {NoID}]
    /\ profiles \subseteq Profiles
    /\ settings \in Settings
    /\ visit \in [Visits -> Visit] /\ visits \in Values
    /\ gone \subseteq Things
    /\ told \in [Things \cup {NoID} -> Values]
    /\ tangled \subseteq Things \cup {NoID}
    /\ fresh \subseteq GatewayIDs
    /\ listed \in [GatewayIDs -> SUBSET (Names \cup {Placeholder})]
    /\ mixed \in BOOLEAN

FleetInit ==
    /\ store \in {"sqlite", "memory"}
    /\ rows = [x \in Things |-> NoConfig]
    /\ bound = [a \in FleetAgents |-> NoID]
    /\ profiles = {}
    /\ settings = [auto |-> 0, hub |-> NoID]
    /\ visit = [v \in Visits |-> NoVisit] /\ visits = 0
    /\ gone = {} /\ told = [x \in Things \cup {NoID} |-> 0] /\ tangled = {}
    /\ fresh = {} /\ listed = [e \in GatewayIDs |-> {}]
    /\ mixed = FALSE

Exists(x) == rows[x] # NoConfig
Stands(v, place) == visit[v].at = place
Leaves(v) == visit' = [visit EXCEPT ![v] = NoVisit]
Goes(v, place) == visit' = [visit EXCEPT ![v].at = place]

Arrives(v, rec) ==
    /\ Stands(v, "idle")
    /\ visits < MaxVisits
    /\ visits' = visits + 1
    /\ visit' = [visit EXCEPT ![v] = rec]
    /\ mixed' = (mixed \/ \E u \in Visits \ {v} : ~Stands(u, "idle"))

Untouched == <<store, told, tangled, gone, listed>>

(***************************************************************************)
(* Endpoints and hubs as rows: both kinds of PATCH.                        *)
(***************************************************************************)
CreateRow(v, x) ==
    /\ ~Exists(x) /\ x \notin gone
    /\ Arrives(v, NoVisit)
    /\ rows' = [rows EXCEPT ![x] = [config |-> 0, state |-> 0]]
    /\ UNCHANGED <<bound, profiles, settings, fresh, Untouched>>

PatchRow(v, x) ==
    /\ Exists(x)
    /\ Arrives(v, [NoVisit EXCEPT !.at = "update", !.thing = x, !.seen = rows[x],
                                  !.value = visits + 1])
    /\ UNCHANGED <<rows, bound, profiles, settings, fresh, Untouched>>

(* UPDATE of all columns; a row that is gone is not found.                 *)
WriteRow(v, new) ==
    LET x == visit[v].thing
    IN  /\ rows' = IF Exists(x) THEN [rows EXCEPT ![x] = new] ELSE rows
        /\ tangled' = IF Exists(x) /\ rows[x] # visit[v].seen THEN tangled \cup {x} ELSE tangled

UpdateRow(v) ==
    LET x == visit[v].thing
    IN  /\ Stands(v, "update")
        /\ WriteRow(v, [visit[v].seen EXCEPT !.config = visit[v].value])
        /\ told' = IF Exists(x) THEN [told EXCEPT ![x] = visit[v].value] ELSE told
        /\ Leaves(v)
        /\ UNCHANGED <<store, bound, profiles, settings, visits, gone, fresh, listed, mixed>>

(* The test of a connection: the row is read again after the probes, and   *)
(* written back with their result.                                         *)
TestConnection(v, e) ==
    /\ Exists(e)
    /\ Arrives(v, [NoVisit EXCEPT !.at = "probe", !.thing = e, !.value = visits + 1])
    /\ UNCHANGED <<rows, bound, profiles, settings, fresh, Untouched>>

ReadAfterProbe(v) ==
    /\ Stands(v, "probe")
    /\ IF Exists(visit[v].thing)
         THEN visit' = [visit EXCEPT ![v].at = "persist", ![v].seen = rows[visit[v].thing]]
         ELSE Leaves(v)
    /\ UNCHANGED <<rows, bound, profiles, settings, visits, fresh, mixed, Untouched>>

PersistStatus(v) ==
    /\ Stands(v, "persist")
    /\ WriteRow(v, [visit[v].seen EXCEPT !.state = visit[v].value])
    /\ Leaves(v)
    /\ UNCHANGED <<store, bound, profiles, settings, visits, gone, told, fresh, listed, mixed>>

(***************************************************************************)
(* Agents, and the removal of an endpoint.                                 *)
(***************************************************************************)
Register(v, a, e) ==
    /\ bound[a] = NoID /\ Exists(e)
    /\ \A u \in Visits : Stands(u, "save") => visit[u].agent # a
    /\ Arrives(v, [NoVisit EXCEPT !.at = "save", !.thing = e, !.agent = a])
    /\ UNCHANGED <<rows, bound, profiles, settings, fresh, Untouched>>

\* Does SQLite accept a reference?
Refers(x) == store = "memory" \/ Exists(x)

SaveAgent(v) ==
    /\ Stands(v, "save")
    /\ bound' = IF Refers(visit[v].thing)
                  THEN [bound EXCEPT ![visit[v].agent] = visit[v].thing] ELSE bound
    /\ Leaves(v)
    /\ UNCHANGED <<rows, profiles, settings, visits, fresh, mixed, Untouched>>

Bound(e) == \E a \in FleetAgents : bound[a] = e

DeleteEndpoint(v, e) ==
    /\ Arrives(v, IF Bound(e) THEN NoVisit
                  ELSE [NoVisit EXCEPT !.at = "delete", !.thing = e])
    /\ UNCHANGED <<rows, bound, profiles, settings, fresh, Untouched>>

\* Mutant: the delete without its foreign keys, as if the pragma were off.
DeleteUnchecked(e) == /\ rows' = [rows EXCEPT ![e] = NoConfig]
                      /\ gone' = gone \cup {e}
                      /\ UNCHANGED profiles

(* SQLite refuses to delete what an agent refers to, and deletes the       *)
(* profiles along.                                                         *)
DeleteRow(e) ==
    IF ~Exists(e) \/ (store = "sqlite" /\ Bound(e))
      THEN UNCHANGED <<rows, gone, profiles>>
      ELSE /\ rows' = [rows EXCEPT ![e] = NoConfig]
           /\ gone' = gone \cup {e}
           /\ profiles' = IF store = "sqlite" THEN {p \in profiles : p[1] # e} ELSE profiles

RemoveEndpoint(v) ==
    /\ Stands(v, "delete") /\ visit[v].thing \in GatewayIDs
    /\ DeleteRow(visit[v].thing)
    /\ fresh' = fresh \ {visit[v].thing}
    /\ Leaves(v)
    /\ UNCHANGED <<store, bound, settings, visits, told, tangled, listed, mixed>>

(***************************************************************************)
(* RefreshAll, without a lock of any kind.                                 *)
(***************************************************************************)
StartRefresh(v) ==
    /\ Arrives(v, [NoVisit EXCEPT !.at = "clear", !.todo = {e \in GatewayIDs : Exists(e)}])
    /\ UNCHANGED <<rows, bound, profiles, settings, fresh, Untouched>>

Refreshing(v, e) == visit[v].thing = e /\ visit[v].at \in {"list", "upsert"}

ClearProfiles(v) ==
    /\ Stands(v, "clear")
    /\ \/ /\ visit[v].todo = {}
          /\ Leaves(v)
          /\ UNCHANGED <<profiles, fresh>>
       \/ \E e \in visit[v].todo :
            LET alone == \A u \in Visits : ~Refreshing(u, e)
            IN  /\ profiles' = {p \in profiles : p[1] # e}
                /\ fresh' = fresh \ {e}
                /\ visit' = [u \in Visits |->
                     IF u = v
                       THEN [visit[v] EXCEPT !.at = "list", !.thing = e,
                                             !.todo = @ \ {e}, !.fresh = alone]
                     ELSE IF Refreshing(u, e) THEN [visit[u] EXCEPT !.fresh = FALSE]
                     ELSE visit[u]]
    /\ UNCHANGED <<rows, bound, settings, visits, mixed, Untouched>>

(* A gateway that fails, lists nobody or cannot list gets one row that     *)
(* says so.                                                                *)
ListRemoteProfiles(v) ==
    /\ Stands(v, "list")
    /\ \E S \in (SUBSET Names \ {{}}) \cup {{Placeholder}} :
         /\ visit' = [visit EXCEPT ![v].at = "upsert", ![v].found = S]
         /\ listed' = [listed EXCEPT ![visit[v].thing] = S]
    /\ UNCHANGED <<store, rows, bound, profiles, settings, visits, gone, told, tangled, fresh,
                   mixed>>

UpsertProfile(v) ==
    LET e == visit[v].thing
    IN  /\ Stands(v, "upsert")
        /\ \E n \in visit[v].found :
             IF ~Refers(e) THEN Leaves(v) /\ UNCHANGED <<profiles, fresh>>
             ELSE LET rest == visit[v].found \ {n}
                  IN  /\ profiles' = profiles \cup {<<e, n>>}
                      /\ visit' = [visit EXCEPT ![v].found = rest,
                                     ![v].at = IF rest = {} THEN "clear" ELSE "upsert"]
                      /\ fresh' = IF rest = {} /\ visit[v].fresh /\ Exists(e)
                                    THEN fresh \cup {e} ELSE fresh
        /\ UNCHANGED <<rows, bound, settings, visits, mixed, Untouched>>

(***************************************************************************)
(* The research settings, one row, and the removal of a hub.               *)
(***************************************************************************)
PatchSettings(v, h) ==
    /\ Arrives(v, [NoVisit EXCEPT !.at = IF h = NoID THEN "settings" ELSE "hub",
                                  !.thing = h, !.set = settings, !.value = visits + 1])
    /\ UNCHANGED <<rows, bound, profiles, settings, fresh, Untouched>>

FindHub(v) ==
    /\ Stands(v, "hub")
    /\ IF Exists(visit[v].thing) THEN Goes(v, "settings") ELSE Leaves(v)
    /\ UNCHANGED <<rows, bound, profiles, settings, visits, fresh, mixed, Untouched>>

(* A default hub is patched alone, the switch alone.                       *)
Patched(v) == IF visit[v].thing = NoID THEN [visit[v].set EXCEPT !.auto = visit[v].value]
              ELSE [visit[v].set EXCEPT !.hub = visit[v].thing]

UpsertSettings(v) ==
    LET new == Patched(v)
    IN  /\ Stands(v, "settings")
        /\ IF new.hub # NoID /\ ~Refers(new.hub) THEN UNCHANGED <<settings, told, tangled>>
           ELSE /\ settings' = new
                /\ told' = IF visit[v].thing = NoID THEN [told EXCEPT ![NoID] = new.auto]
                           ELSE told
                /\ tangled' = IF settings # visit[v].set THEN tangled \cup {NoID} ELSE tangled
        /\ Leaves(v)
        /\ UNCHANGED <<store, rows, bound, profiles, visits, gone, fresh, listed, mixed>>

(* An error of the read is ignored, and leaves empty settings; memory has  *)
(* no errors.                                                              *)
DeleteHub(v, h) ==
    /\ \E read \in IF store = "sqlite" THEN {settings, NoVisit.set} ELSE {settings} :
         Arrives(v, [NoVisit EXCEPT !.at = IF read.hub = h THEN "unset" ELSE "delete",
                                    !.thing = h, !.set = read])
    /\ UNCHANGED <<rows, bound, profiles, settings, fresh, Untouched>>

UnsetDefault(v) ==
    /\ Stands(v, "unset")
    /\ settings' = [visit[v].set EXCEPT !.hub = NoID]
    /\ tangled' = IF settings # visit[v].set THEN tangled \cup {NoID} ELSE tangled
    /\ Goes(v, "delete")
    /\ UNCHANGED <<store, rows, bound, profiles, visits, gone, told, fresh, listed, mixed>>

(* ON DELETE SET NULL.                                                     *)
RemoveHub(v) ==
    LET h == visit[v].thing
    IN  /\ Stands(v, "delete") /\ h \in HubIDs
        /\ IF ~Exists(h) THEN UNCHANGED <<rows, gone, settings>>
           ELSE /\ rows' = [rows EXCEPT ![h] = NoConfig]
                /\ gone' = gone \cup {h}
                /\ settings' = IF store = "sqlite" /\ settings.hub = h
                                 THEN [settings EXCEPT !.hub = NoID] ELSE settings
        /\ Leaves(v)
        /\ UNCHANGED <<store, bound, profiles, visits, told, tangled, fresh, listed, mixed>>

(* A database error, a lost client; UnsetDefault goes on after one.        *)
VisitFails(v) ==
    /\ ~Stands(v, "idle")
    /\ \/ Leaves(v)
       \/ Stands(v, "unset") /\ store = "sqlite" /\ Goes(v, "delete")
    /\ UNCHANGED <<rows, bound, profiles, settings, visits, fresh, mixed, Untouched>>

FleetNext ==
    \E v \in Visits :
      \/ \E x \in Things : CreateRow(v, x) \/ PatchRow(v, x)
      \/ \E e \in GatewayIDs :
           \/ TestConnection(v, e) \/ DeleteEndpoint(v, e)
           \/ \E a \in FleetAgents : Register(v, a, e)
      \/ \E h \in HubIDs \cup {NoID} : PatchSettings(v, h)
      \/ \E h \in HubIDs : DeleteHub(v, h)
      \/ StartRefresh(v)
      \/ UpdateRow(v) \/ ReadAfterProbe(v) \/ PersistStatus(v)
      \/ SaveAgent(v) \/ RemoveEndpoint(v)
      \/ ClearProfiles(v) \/ ListRemoteProfiles(v) \/ UpsertProfile(v)
      \/ FindHub(v) \/ UpsertSettings(v) \/ UnsetDefault(v) \/ RemoveHub(v)
      \/ VisitFails(v)

FleetSpec == FleetInit /\ [][FleetNext]_fleetVars

(***************************************************************************)
(* What refers to a row finds it: in SQLite whatever the order of the      *)
(* requests, in memory as long as one request follows the other (but for   *)
(* cached profiles, which outlive an endpoint there).  An acknowledged     *)
(* change of an endpoint, a hub or the switch stands, unless another       *)
(* request wrote the whole row back as it had read it before.  And an      *)
(* endpoint's cache, once refreshed without another refresh in between,    *)
(* holds what its gateway listed, never nothing.                           *)
(***************************************************************************)
FleetConsistent ==
    /\ store = "sqlite" \/ ~mixed =>
         /\ \A a \in FleetAgents : bound[a] # NoID => Exists(bound[a])
         /\ settings.hub # NoID => Exists(settings.hub)
    /\ store = "sqlite" => \A p \in profiles : Exists(p[1])
    /\ \A x \in Things \ tangled : Exists(x) => rows[x].config = told[x]
    /\ NoID \notin tangled => settings.auto = told[NoID]
    /\ \A e \in fresh : {p[2] : p \in {q \in profiles : q[1] = e}} = listed[e]
=============================================================================
