----------------------------- MODULE Autopilot -----------------------------
(***************************************************************************)
(* One product from research to the tasks of its approved ideas: requests  *)
(* of the HTTP server and jobs of the worker read the product and ideas,   *)
(* call a model, and save whole rows with an upsert that looks at nothing. *)
(* Only the PATCH of a product goes through SaveIfUnchangedSince, atomic   *)
(* here (ProductTable shows that it is).  An action is one database call   *)
(* with the code up to the next one.  Ids are drawn from one counter per   *)
(* process, which all kinds of rows share and a restart sets to zero.      *)
(***************************************************************************)
EXTENDS Naturals, Sequences, FiniteSets

CONSTANTS
    Requests,       \* requests and jobs in progress, numbered
    MaxId,          \* bound: ids drawn by a process
    MaxEvents,      \* bound: requests of a behaviour
    MaxUpsets,      \* bound: faults, and changes of whole products
    MaxDrafts       \* bound: ideas of one ideation

ASSUME AutopilotAssumption ==
    /\ Requests \subseteq Nat
    /\ MaxId \in Nat \ {0}
    /\ MaxEvents \in Nat
    /\ MaxUpsets \in Nat
    /\ MaxDrafts \in Nat

Ids == 1 .. MaxId
TheProduct == 1
Processes == {"server", "worker"}
Stages == {"research", "ideation", "swipe", "planning"}
Decisions == {"pass", "maybe", "yes"}

(* at: updated_at; meta: the last PATCH; auto: stamped by the autopilot.   *)
ProductRow == [at : Nat, deleted : BOOLEAN, stage : Stages, meta : Nat, auto : BOOLEAN]

(* manual: made from a task's specification, approved without a swipe;     *)
(* task: LinkedTaskID, which also says that the status is building.        *)
IdeaRow == [decision : {"absent", "none"} \cup Decisions, manual : BOOLEAN,
            task : Ids \cup {0}]

VARIABLES
    product, idea, pool, swipes, tasks,
    counter,     \* identity.Sequential of each process
    clock,       \* time.Now of both processes, later at every reading
    req,         \* requests: where they are and what they have read
    events,      \* requests begun, and upsets
    crossed      \* ideas two requests were at together, or one left half done

autoVars == <<product, idea, pool, swipes, tasks, counter, clock, req, events,
              crossed>>

Absent == [decision |-> "absent", manual |-> FALSE, task |-> 0]
Pending == [Absent EXCEPT !.decision = "none"]
Registered(t) == [at |-> t, deleted |-> FALSE, stage |-> "research", meta |-> 0,
                  auto |-> FALSE]

(* Requests that have written a part of what they are to write.            *)
HalfDone == {"swipePool", "swipeProduct", "swipeHistory", "promotePool",
             "promoteHistory", "promoteProduct", "link"}
AtIdea == HalfDone \cup {"swipe", "swipeIdea", "promote", "promoteIdea", "create",
                         "task", "manual", "patchIdea"}
WithProduct == {"research", "ideate", "drafts", "stamp", "patch", "swipeIdea",
                "swipePool", "swipeProduct", "promoteIdea", "promotePool",
                "promoteHistory", "promoteProduct"}
Places == {"idle", "restamp", "spec", "next"} \cup AtIdea \cup WithProduct

Request == [at : Places, home : Processes, tick : BOOLEAN, i : Ids, n : Ids \cup {0},
            decision : Decisions, drafts : Nat, stamp : Nat, row : ProductRow,
            idea : IdeaRow]
Idle == [at |-> "idle", home |-> "server", tick |-> FALSE, i |-> 1, n |-> 0,
         decision |-> "pass", drafts |-> 0, stamp |-> 0, row |-> Registered(0),
         idea |-> Absent]

AutopilotTypeOK ==
    /\ product \in ProductRow
    /\ idea \in [Ids -> IdeaRow]
    /\ pool \subseteq Ids
    /\ swipes \in [Ids -> Seq(Decisions)]
    /\ tasks \in [Ids -> Ids \cup {0}]
    /\ counter \in [Processes -> 0 .. MaxId]
    /\ clock \in Nat
    /\ req \in [Requests -> Request]
    /\ events \in [requests : 0 .. MaxEvents, upsets : 0 .. MaxUpsets]
    /\ crossed \subseteq Ids

(* The product is new, or its first idea waits for a swipe, perhaps a      *)
(* second one; it may be deleted.                                          *)
AutopilotInit ==
    /\ \E gone \in BOOLEAN :
         \/ /\ product = [Registered(1) EXCEPT !.deleted = gone]
            /\ idea = [i \in Ids |-> Absent]
            /\ pool = {}
            /\ counter = [p \in Processes |-> IF p = "server" THEN TheProduct ELSE 0]
         \/ /\ product = [Registered(1) EXCEPT !.stage = "swipe", !.deleted = gone]
            /\ \E d \in {"none", "maybe"} :
                 /\ idea = [i \in Ids |-> IF i = 1 THEN [Absent EXCEPT !.decision = d]
                                                   ELSE Absent]
                 /\ pool = IF d = "maybe" THEN {1} ELSE {}
            /\ counter = [p \in Processes |-> 1]
    /\ swipes = [i \in Ids |-> IF i \in pool THEN <<"maybe">> ELSE <<>>]
    /\ tasks = [i \in Ids |-> 0]
    /\ clock = 1
    /\ req = [q \in Requests |-> Idle]
    /\ events = [requests |-> 0, upsets |-> 0]
    /\ crossed = {}

(***************************************************************************)
(* What requests have in common.                                           *)
(***************************************************************************)
Event == /\ events.requests < MaxEvents
         /\ events' = [events EXCEPT !.requests = @ + 1]
Upset == /\ events.upsets < MaxUpsets
         /\ events' = [events EXCEPT !.upsets = @ + 1]

(* The requests are numbered only to tell them apart: the first idle       *)
(* number is taken.                                                        *)
Start(q, r) ==
    /\ req[q].at = "idle"
    /\ \A p \in Requests : p < q => req[p].at # "idle"
    /\ Event
    /\ req' = [req EXCEPT ![q] = r]

At(q, place) == req[q].at = place
Go(q, place) == req' = [req EXCEPT ![q].at = place]
Finish(q) == req' = [req EXCEPT ![q] = Idle]
SaveProduct(row) == product' = row

(* NewIdeaID, NewTaskID, NewProductID: other rows may have drawn ids since. *)
Draw(p, n) == /\ n \in (counter[p] + 1) .. MaxId
              /\ counter' = [counter EXCEPT ![p] = n]

Busy(q, i) == \E r \in Requests \ {q} : req[r].at \in AtIdea /\ req[r].i = i

SaveIdea(q, i, row) ==
    /\ idea' = [idea EXCEPT ![i] = row]
    /\ crossed' = IF Busy(q, i) THEN crossed \cup {i} ELSE crossed

InsertIdea(q, i, row) ==
    /\ idea' = [idea EXCEPT ![i] = row]
    /\ crossed' = IF Busy(q, i) \/ idea[i] # Absent THEN crossed \cup {i} ELSE crossed

(***************************************************************************)
(* Research and ideation, asked for or run by TickProduct (which looks at  *)
(* stage and cadence once more before).                                    *)
(***************************************************************************)
Home(tick) == IF tick THEN "worker" ELSE "server"

RunResearch(q) ==
    /\ ~product.deleted
    /\ product.stage = "research"
    /\ \E tick \in BOOLEAN :
         Start(q, [Idle EXCEPT !.at = "research", !.home = Home(tick), !.tick = tick,
                               !.row = product])
    /\ UNCHANGED <<product, idea, pool, swipes, tasks, counter, clock, crossed>>

SaveResearch(q) ==
    /\ At(q, "research")
    /\ clock' = clock + 1
    /\ SaveProduct([req[q].row EXCEPT !.stage = "ideation", !.at = clock + 1])
    /\ IF req[q].tick
         THEN req' = [req EXCEPT ![q] = [Idle EXCEPT !.at = "restamp", !.tick = TRUE,
                                                     !.home = req[q].home]]
         ELSE Finish(q)
    /\ UNCHANGED <<idea, pool, swipes, tasks, counter, events, crossed>>

RunIdeation(q) ==
    /\ ~product.deleted
    /\ product.stage \in {"ideation", "swipe"}
    /\ \E tick \in BOOLEAN :
         /\ tick => product.stage = "ideation"
         /\ Start(q, [Idle EXCEPT !.at = "ideate", !.home = Home(tick), !.tick = tick,
                                  !.row = product])
    /\ UNCHANGED <<product, idea, pool, swipes, tasks, counter, clock, crossed>>

GenerateIdeas(q) ==
    /\ At(q, "ideate")
    /\ clock' = clock + 1
    /\ req' = [req EXCEPT ![q].at = "drafts", ![q].stamp = clock + 1]
    /\ UNCHANGED <<product, idea, pool, swipes, tasks, counter, events, crossed>>

SaveDraft(q) ==
    /\ At(q, "drafts")
    /\ req[q].drafts < MaxDrafts
    /\ \E n \in Ids : /\ Draw(req[q].home, n)
                      /\ InsertIdea(q, n, Pending)
    /\ req' = [req EXCEPT ![q].drafts = @ + 1]
    /\ UNCHANGED <<product, pool, swipes, tasks, clock, events>>

SaveIdeation(q) ==
    /\ At(q, "drafts")
    /\ SaveProduct([req[q].row EXCEPT !.stage = IF req[q].drafts > 0 THEN "swipe" ELSE @,
                                      !.at = req[q].stamp])
    /\ IF req[q].tick
         THEN req' = [req EXCEPT ![q] = [Idle EXCEPT !.at = "restamp", !.home = req[q].home]]
         ELSE Finish(q)
    /\ UNCHANGED <<idea, pool, swipes, tasks, counter, clock, events, crossed>>

(* TickProduct reads the row again and saves it with LastAuto...At, under  *)
(* the updated_at it read.                                                 *)
ReadToStamp(q) ==
    /\ At(q, "restamp")
    /\ ~product.deleted
    /\ req' = [req EXCEPT ![q].at = "stamp", ![q].row = product]
    /\ UNCHANGED <<product, idea, pool, swipes, tasks, counter, clock, events,
                   crossed>>

SaveStamp(q) ==
    /\ At(q, "stamp")
    /\ SaveProduct([req[q].row EXCEPT !.auto = TRUE])
    /\ IF req[q].tick
         THEN req' = [req EXCEPT ![q].at = "next"]
         ELSE Finish(q)
    /\ UNCHANGED <<idea, pool, swipes, tasks, counter, clock, events, crossed>>

(* Research is followed by ideation in the same tick, if it is due.        *)
TickGoesOn(q) ==
    /\ At(q, "next")
    /\ ~product.deleted
    /\ product.stage = "ideation"
    /\ req' = [req EXCEPT ![q].at = "ideate", ![q].row = product, ![q].tick = FALSE]
    /\ UNCHANGED <<product, idea, pool, swipes, tasks, counter, clock, events,
                   crossed>>

TickEnds(q) ==
    /\ req[q].at \in {"restamp", "next"}
    /\ Finish(q)
    /\ UNCHANGED <<product, idea, pool, swipes, tasks, counter, clock, events,
                   crossed>>

(***************************************************************************)
(* Swipes.                                                                 *)
(***************************************************************************)
SubmitSwipe(q, i) ==
    /\ idea[i].decision = "none"
    /\ \E d \in Decisions :
         Start(q, [Idle EXCEPT !.at = "swipe", !.i = i, !.decision = d, !.idea = idea[i]])
    /\ UNCHANGED <<product, idea, pool, swipes, tasks, counter, clock, crossed>>

PromoteMaybe(q, i) ==
    /\ idea[i].decision = "maybe"
    /\ Start(q, [Idle EXCEPT !.at = "promote", !.i = i, !.decision = "yes", !.idea = idea[i]])
    /\ UNCHANGED <<product, idea, pool, swipes, tasks, counter, clock, crossed>>

ReadProduct(q) ==
    /\ req[q].at \in {"swipe", "promote", "create"}
    /\ \/ /\ ~product.deleted
          /\ clock' = clock + 1
          /\ req' = [req EXCEPT ![q].row = product, ![q].stamp = clock + 1,
                         ![q].at = CASE @ = "swipe" -> "swipeIdea"
                                     [] @ = "promote" -> "promoteIdea"
                                     [] @ = "create" -> "task"]
       \/ /\ product.deleted
          /\ Finish(q)
          /\ UNCHANGED clock
    /\ UNCHANGED <<product, idea, pool, swipes, tasks, counter, events, crossed>>

SaveDecision(q) ==
    /\ req[q].at \in {"swipeIdea", "promoteIdea"}
    /\ SaveIdea(q, req[q].i, [req[q].idea EXCEPT !.decision = req[q].decision])
    /\ req' = [req EXCEPT ![q].at = IF @ = "swipeIdea" THEN "swipePool" ELSE "promotePool",
                          ![q].idea = Absent]
    /\ UNCHANGED <<product, pool, swipes, tasks, counter, clock, events>>

\* Mutant: a decision other than maybe leaves the pool alone.
UpdatePoolAddOnly(q) ==
    /\ req[q].at \in {"swipePool", "promotePool"}
    /\ pool' = IF req[q].decision = "maybe" THEN pool \cup {req[q].i} ELSE pool
    /\ Go(q, IF At(q, "swipePool") THEN "swipeProduct" ELSE "promoteHistory")
    /\ UNCHANGED <<product, idea, swipes, tasks, counter, clock, events, crossed>>

UpdatePool(q) ==
    /\ req[q].at \in {"swipePool", "promotePool"}
    /\ pool' = IF req[q].decision = "maybe" THEN pool \cup {req[q].i} ELSE pool \ {req[q].i}
    /\ Go(q, IF At(q, "swipePool") THEN "swipeProduct" ELSE "promoteHistory")
    /\ UNCHANGED <<product, idea, swipes, tasks, counter, clock, events, crossed>>

AppendSwipe(q) ==
    /\ req[q].at \in {"swipeHistory", "promoteHistory"}
    /\ swipes' = [swipes EXCEPT ![req[q].i] = Append(@, req[q].decision)]
    /\ IF At(q, "promoteHistory") /\ req[q].row.stage = "swipe"
         THEN Go(q, "promoteProduct")
         ELSE Finish(q)
    /\ UNCHANGED <<product, idea, pool, tasks, counter, clock, events, crossed>>

\* Mutant: the stage moves on under the old updated_at.
SaveSwipedUnstamped(q) ==
    /\ req[q].at \in {"swipeProduct", "promoteProduct"}
    /\ SaveProduct([req[q].row EXCEPT
          !.stage = IF req[q].decision = "yes" /\ @ = "swipe" THEN "planning" ELSE @])
    /\ IF At(q, "swipeProduct") THEN Go(q, "swipeHistory") ELSE Finish(q)
    /\ UNCHANGED <<idea, pool, swipes, tasks, counter, clock, events, crossed>>

SaveSwipedProduct(q) ==
    /\ req[q].at \in {"swipeProduct", "promoteProduct"}
    /\ SaveProduct([req[q].row EXCEPT
          !.stage = IF req[q].decision = "yes" /\ @ = "swipe" THEN "planning" ELSE @,
          !.at = req[q].stamp])
    /\ IF At(q, "swipeProduct")
         THEN req' = [req EXCEPT ![q] = [Idle EXCEPT !.at = "swipeHistory", !.i = req[q].i,
                                                     !.decision = req[q].decision]]
         ELSE Finish(q)
    /\ UNCHANGED <<idea, pool, swipes, tasks, counter, clock, events, crossed>>

(***************************************************************************)
(* Ideas become tasks, and are edited.                                     *)
(***************************************************************************)
CreateFromApprovedIdea(q, i) ==
    /\ idea[i].decision = "yes"
    /\ Start(q, [Idle EXCEPT !.at = "create", !.i = i, !.idea = idea[i]])
    /\ UNCHANGED <<product, idea, pool, swipes, tasks, counter, clock, crossed>>

SaveTask(q) ==
    /\ At(q, "task")
    /\ \E n \in Ids :
         /\ Draw("server", n)
         /\ tasks' = [tasks EXCEPT ![n] = req[q].i]
         /\ crossed' = crossed \cup ({tasks[n]} \ {0})
         /\ req' = [req EXCEPT ![q] = [Idle EXCEPT !.at = "link", !.i = req[q].i, !.n = n,
                                                   !.idea = req[q].idea]]
    /\ UNCHANGED <<product, idea, pool, swipes, clock, events>>

LinkTask(q) ==
    /\ At(q, "link")
    /\ SaveIdea(q, req[q].i, [req[q].idea EXCEPT !.task = req[q].n])
    /\ Finish(q)
    /\ UNCHANGED <<product, pool, swipes, tasks, counter, clock, events>>

(* A new idea under an id of its own, or under one the caller prefers and  *)
(* that was free a moment ago.                                             *)
CreateFromSpecWithNewIdea(q) ==
    /\ ~product.deleted
    /\ \E n \in Ids \cup {0} :
         /\ n # 0 => idea[n] = Absent
         /\ Start(q, [Idle EXCEPT !.at = "spec", !.n = n])
    /\ UNCHANGED <<product, idea, pool, swipes, tasks, counter, clock, crossed>>

SaveManualIdea(q) ==
    /\ At(q, "spec")
    /\ \E n \in Ids :
         /\ IF req[q].n = 0 THEN Draw("server", n) ELSE n = req[q].n /\ UNCHANGED counter
         /\ InsertIdea(q, n, [decision |-> "yes", manual |-> TRUE, task |-> 0])
         /\ req' = [req EXCEPT ![q].at = "manual", ![q].i = n]
    /\ UNCHANGED <<product, pool, swipes, tasks, clock, events>>

ReadManualIdea(q) ==
    /\ At(q, "manual")
    /\ IF idea[req[q].i].decision = "yes"
         THEN req' = [req EXCEPT ![q].at = "create", ![q].idea = idea[req[q].i]]
         ELSE Finish(q)
    /\ UNCHANGED <<product, idea, pool, swipes, tasks, counter, clock, events,
                   crossed>>

PatchIdeaMetadata(q, i) ==
    /\ idea[i] # Absent
    /\ Start(q, [Idle EXCEPT !.at = "patchIdea", !.i = i, !.idea = idea[i]])
    /\ UNCHANGED <<product, idea, pool, swipes, tasks, counter, clock, crossed>>

SavePatchedIdea(q) ==
    /\ At(q, "patchIdea")
    /\ SaveIdea(q, req[q].i, req[q].idea)
    /\ Finish(q)
    /\ UNCHANGED <<product, pool, swipes, tasks, counter, clock, events>>

(***************************************************************************)
(* The product itself.                                                     *)
(***************************************************************************)
PatchMetadata(q) ==
    /\ ~product.deleted
    /\ clock' = clock + 1
    /\ Start(q, [Idle EXCEPT !.at = "patch", !.row = product, !.stamp = clock + 1])
    /\ UNCHANGED <<product, idea, pool, swipes, tasks, counter, crossed>>

SavePatch(q) ==
    /\ At(q, "patch")
    /\ IF ~product.deleted /\ product.at = req[q].row.at
         THEN SaveProduct([req[q].row EXCEPT !.meta = req[q].stamp, !.at = req[q].stamp])
         ELSE UNCHANGED product
    /\ Finish(q)
    /\ UNCHANGED <<idea, pool, swipes, tasks, counter, clock, events, crossed>>

AtOnce == /\ Upset
          /\ clock' = clock + 1
          /\ UNCHANGED <<idea, pool, swipes, tasks, req, crossed>>

SoftDelete == /\ ~product.deleted
              /\ product' = [product EXCEPT !.deleted = TRUE, !.at = clock + 1]
              /\ UNCHANGED counter
              /\ AtOnce

Restore == /\ product.deleted
           /\ product' = [product EXCEPT !.deleted = FALSE, !.at = clock + 1]
           /\ UNCHANGED counter
           /\ AtOnce

(* Another product, unless the id comes again.                             *)
Register ==
    /\ \E n \in Ids : /\ Draw("server", n)
                      /\ product' = IF n = TheProduct THEN Registered(clock + 1) ELSE product
    /\ AtOnce

(***************************************************************************)
(* A database error, a cancelled request, a failed call of the model; the  *)
(* death of a process.                                                     *)
(***************************************************************************)
Orphaned(Q) == {req[q].i : q \in {q \in Q : req[q].at \in HalfDone}}

Abandon(q) ==
    /\ ~At(q, "idle")
    /\ Upset
    /\ crossed' = crossed \cup Orphaned({q})
    /\ Finish(q)
    /\ UNCHANGED <<product, idea, pool, swipes, tasks, counter, clock>>

Restart(p) ==
    /\ Upset
    /\ counter' = [counter EXCEPT ![p] = 0]
    /\ crossed' = crossed \cup Orphaned({q \in Requests : req[q].home = p})
    /\ req' = [q \in Requests |-> IF req[q].home = p THEN Idle ELSE req[q]]
    /\ UNCHANGED <<product, idea, pool, swipes, tasks, clock>>

Research(q) == \/ RunResearch(q) \/ SaveResearch(q)
               \/ RunIdeation(q) \/ GenerateIdeas(q) \/ SaveDraft(q) \/ SaveIdeation(q)
               \/ ReadToStamp(q) \/ SaveStamp(q) \/ TickGoesOn(q) \/ TickEnds(q)

Swipes(q) == \/ \E i \in Ids : SubmitSwipe(q, i) \/ PromoteMaybe(q, i)
             \/ ReadProduct(q) \/ SaveDecision(q) \/ UpdatePool(q) \/ AppendSwipe(q)
             \/ SaveSwipedProduct(q)

Edits(q) == \/ \E i \in Ids : CreateFromApprovedIdea(q, i) \/ PatchIdeaMetadata(q, i)
            \/ SaveTask(q) \/ LinkTask(q) \/ CreateFromSpecWithNewIdea(q)
            \/ SaveManualIdea(q) \/ ReadManualIdea(q) \/ SavePatchedIdea(q)
            \/ PatchMetadata(q) \/ SavePatch(q)

AutopilotNext ==
    \/ \E q \in Requests : Research(q) \/ Swipes(q) \/ Edits(q) \/ Abandon(q)
    \/ SoftDelete \/ Restore \/ Register
    \/ \E p \in Processes : Restart(p)

AutopilotSpec == AutopilotInit /\ [][AutopilotNext]_autoVars

(***************************************************************************)
(* Properties.                                                             *)
(***************************************************************************)

(* The guard of SaveIfUnchangedSince compares a time only.  That is enough *)
(* though every other writer is unguarded: whatever was saved, deleted or  *)
(* restored in between, a row with the updated_at a PATCH has read is the  *)
(* row it has read, but for the stamps of the autopilot.                   *)
StampIdentifiesRow ==
    \A q \in Requests :
        (req[q].at \in WithProduct /\ req[q].row.at = product.at) =>
            [req[q].row EXCEPT !.auto = FALSE] = [product EXCEPT !.auto = FALSE]

(* The decision on an idea, the maybe pool, the swipe history and the      *)
(* tasks are written one after the other.  Once nobody is at an idea they  *)
(* agree, unless two requests were at it together, one was cut short, or   *)
(* an id came a second time.                                               *)
LedgersAgree ==
    \A i \in Ids \ crossed :
        (\A q \in Requests : req[q].at \in AtIdea => req[q].i # i) =>
            /\ i \in pool <=> idea[i].decision = "maybe"
            /\ idea[i].decision \in Decisions <=> idea[i].manual \/ swipes[i] # <<>>
            /\ swipes[i] # <<>> =>
                 /\ idea[i].decision = swipes[i][Len(swipes[i])]
                 /\ Len(swipes[i]) = 1 \/ swipes[i] = <<"maybe", "yes">>
            /\ idea[i].task # 0 => tasks[idea[i].task] = i
            /\ (\E n \in Ids : tasks[n] = i) => idea[i].task # 0
=============================================================================
