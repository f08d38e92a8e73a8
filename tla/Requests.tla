------------------------------ MODULE Requests ------------------------------
(***************************************************************************)
(* What every handler of the HTTP API does with a request, in which order: *)
(* who may ask, what is checked, what is read, which call changes          *)
(* something, what is written to the operations log, and the answer.  Any  *)
(* step may fail, the request's context may end and the server may stop    *)
(* between two steps.  The calls themselves are the other modules'.        *)
(***************************************************************************)
EXTENDS Integers, Sequences, FiniteSets

VARIABLES
    asked,       \* the request: its route, its credentials, and the server's settings
    place,       \* the step it is at; 0 before authentication
    done,        \* the steps of it that have taken effect as a whole, and
    broken,      \* those that stopped after a part of it (ground truth)
    noted,       \* the steps whose entry is in the operations log
    answer       \* the status written, 0 if none yet

requestVars == <<asked, place, done, broken, noted, answer>>

(***************************************************************************)
(* The steps of a handler: "conf" (is the part configured?), "body"        *)
(* (decode), "check" (validate), "clash" (a conflict looked for by the     *)
(* handler), "unbuilt" (not implemented), "sig" (the webhook's HMAC);      *)
(* reads, whose errors are mapped and else a 500 (find) or a 400 (find4),  *)
(* or not mapped (read, read4); calls that write once (act) or several     *)
(* times (acts), unmapped errors of which are a 400 or a 500, and the same *)
(* with errors that are not mapped (write, writes); "git" and "port" with  *)
(* answers of their own; calls whose error is ignored (aside).             *)
(***************************************************************************)
MapDomainErr ==
    [ErrConvoyExists |-> 409, ErrNotFound |-> 404, ErrInvalidInput |-> 400,
     ErrStaleEntity |-> 409, ErrConflict |-> 409, ErrNotMergeQueueHead |-> 409,
     ErrInvalidTransition |-> 400, ErrBudgetExceeded |-> 402, ErrGateway |-> 502,
     ErrShipping |-> 502, ErrMergeConflict |-> 409, ErrMergeShipBusy |-> 503,
     ErrNotConfigured |-> 503, ErrNoDispatchTarget |-> 400]

Mapped == {MapDomainErr[e] : e \in DOMAIN MapDomainErr}

Refusals ==
    [conf |-> {503}, body |-> {400}, check |-> {400}, clash |-> {409}, unbuilt |-> {501},
     sig |-> {401}, find |-> Mapped \cup {500}, find4 |-> Mapped \cup {400},
     read |-> {500}, read4 |-> {400}, act4 |-> Mapped \cup {400}, act5 |-> Mapped \cup {500},
     acts4 |-> Mapped \cup {400}, acts5 |-> Mapped \cup {500}, write4 |-> {400},
     write5 |-> {500}, writes5 |-> {500}, git |-> {502}, port |-> {503},
     aside |-> {}, log |-> {}]

Whole == {"act4", "act5", "write4", "write5", "port"}  \* takes effect in one write
Piecewise == {"acts4", "acts5", "writes5", "git"}      \* may stop halfway

(***************************************************************************)
(* The handlers that change something.                                     *)
(***************************************************************************)
\* Sequences to choose from, one after the other.
Either(A, B) == {a \o b : a \in A, b \in B}
Optional(s) == {<<>>, s}

createProduct == <<"body", "check", "act5", "log", "aside">>
patchProduct == <<"body", "check", "act5">>
deleteProduct == <<"act5", "log">>
restoreProduct == <<"act5", "find", "log">>
runResearch == <<"acts4", "read">>
runIdeation == <<"acts4", "read">>
swipe == <<"body", "check", "acts4", "read", "aside">>
patchIdea == <<"body", "check", "act4", "read">>
listMaybePool == <<"find", "conf", "read", "find">>
maybePoolBatchReeval == <<"body", "acts4", "aside">> \o listMaybePool
postProductFeedback == <<"body", "check", "act4", "log", "aside", "aside">>
patchProductFeedback == <<"body", "check", "act4", "read">>
promoteMaybe == <<"acts4", "read">>
createTask == <<"body", "check", "acts4", "log">>

(* Clarifications, then the status or its reason, then the paths, each if  *)
(* the body has it; the status is checked only when its turn comes.        *)
patchTask ==
    Either(Either({<<"body", "check">>}, Optional(<<"act4">>)),
           Either({<<>>, <<"check", "acts4">>, <<"act4">>},
                  Either(Optional(<<"act4">>), {<<"read">>})))

approvePlan == <<"body", "act4", "read">>
rejectPlan == <<"body", "act4", "read">>
openPullRequest == <<"body", "check", "acts4">>
dispatchTask == <<"body", "acts4", "read", "log">>
checkpoint == <<"body", "check", "acts4", "read">>
nudgeStallTask == <<"body", "acts4", "read">>
postTaskChat == <<"conf", "body", "check", "act4", "log">>
ackProductChatQueue == <<"conf", "check", "act4", "log">>
completeTask == <<"acts4", "aside", "read">>
createConvoy == <<"body", "check", "act4">>
dispatchConvoy == <<"body", "acts4", "read">>
recordCost == <<"body", "check", "act5">>
registerExecutionAgent == <<"conf", "body", "check", "read4", "check", "write4">>
createGatewayEndpoint == <<"conf", "body", "check", "write4">>
patchGatewayEndpoint == <<"conf", "check", "body", "check", "find4", "check", "act4">>
deleteGatewayEndpoint == <<"conf", "check", "read4", "clash", "act4">>
postGatewayEndpointTestConnection == <<"conf", "check", "find4", "body", "check", "aside">>
postAgentMailbox == <<"conf", "body", "check", "act4">>
patchTaskAgentHealth == <<"conf", "body", "check", "find", "check", "write5", "read">>
prepareGitWorktree ==
    <<"conf", "conf", "body", "check", "find", "find", "check", "git", "act5">>
enqueueMergeQueue == <<"conf", "find", "act5", "log">>
completeMergeQueue == <<"conf", "find", "acts5", "log">>
resolveMergeQueueByTask == <<"conf", "find", "body", "check", "acts5", "log">>
resolveMergeQueueByRow == <<"conf", "check", "find", "body", "check", "acts5", "log">>
cancelMergeQueue == <<"conf", "find", "act5", "log">>
allocateWorkspacePort == <<"conf", "body", "check", "port">>
releaseWorkspacePort == <<"conf", "check", "act4">>
patchProductCostCaps == <<"body", "check", "read", "write5">>
restoreTaskCheckpoint == <<"body", "check", "acts4", "read">>
putProductPreferenceModel == <<"body", "check", "find", "write5", "log", "read">>
patchProductSchedule == <<"body", "check", "find", "check", "act5", "log", "aside", "aside">>
postRecomputePreferenceModel == <<"check", "act4", "log">>
postConvoyMail == <<"body", "check", "act4", "log">>

postProductKnowledge == <<"conf", "body", "check", "act4", "log">>
patchProductKnowledgeEntry == <<"conf", "body", "check", "acts4", "log">>
deleteProductKnowledgeEntry == <<"conf", "check", "act5", "log">>

postTaskConvoyMC ==
    <<"conf", "body", "unbuilt", "read", "clash", "find", "check", "act4", "aside">>
patchTaskConvoyMC == <<"conf", "body", "check", "find", "act4", "find4", "read">>
deleteTaskConvoyMC == <<"conf", "find", "act5", "aside">>
postTaskConvoySubtasksMC == <<"conf", "body", "check", "find", "act4", "find4">>
postTaskConvoyDispatchMC == <<"conf", "body", "find", "check", "acts4">>

createResearchHub == <<"conf", "body", "check", "write4">>
patchResearchHub == <<"conf", "check", "body", "check", "find4", "check", "act4">>
deleteResearchHub == <<"conf", "check", "aside", "act4">>
patchResearchSystemSettings == <<"conf", "body", "check", "read4", "find4", "write4">>
postResearchHubTest == <<"conf", "check", "find4", "body", "check">>
\* What the hub does is its own.
postResearchHubInvoke == <<"conf", "check", "find4", "body", "check", "read4">>
postFleetRefresh == <<"conf", "writes5">>

(* A convoy's subtask, or a task.                                          *)
agentCompletionWebhook ==
    Either({<<"conf", "body", "sig", "body", "check">>},
           {<<"conf", "act4", "aside">>, <<"acts4", "aside">>})
ciCompletionWebhook == <<"conf", "body", "sig", "body", "check", "acts4", "aside">>

(***************************************************************************)
(* The handlers that only read.                                            *)
(***************************************************************************)
getProduct == <<"find">>
listIdeas == <<"read">>
listSwipeHistory == <<"find", "check", "read">>
listProductFeedback == <<"check", "find">>
getTaskChat == <<"conf", "check", "find">>
listAgents == <<"read", "read">>
listGatewayEndpoints == <<"conf", "read4">>
listAgentMailbox == <<"conf", "check", "find4">>
getTaskAgentHealth == <<"conf", "read">>
listStalledTasks == <<"conf", "find", "check", "find", "read">>
listProductAgentHealth == <<"conf", "find", "check", "read">>
listProductMergeQueue == <<"conf", "find", "check", "read">>
productCostBreakdown == <<"check", "find", "read">>
getProductPreferenceModel == <<"find", "read">>
listOperationsLog == <<"check", "read">>
getTaskConvoyMC == <<"conf", "find", "read">>
getTaskConvoyProgressMC == <<"conf", "find">>
postProductSuggestIdeaID == <<"body", "find", "check", "read", "read", "clash">>
postProductTfidfSuggestTags == <<"find", "body", "read", "find", "check">>

(***************************************************************************)
(* The router.                                                             *)
(***************************************************************************)
Writing ==
    {createProduct, patchProduct, deleteProduct, restoreProduct, runResearch, runIdeation,
     swipe, patchIdea, maybePoolBatchReeval, postProductFeedback, patchProductFeedback,
     promoteMaybe, createTask, approvePlan, rejectPlan, openPullRequest, dispatchTask,
     checkpoint, nudgeStallTask, postTaskChat, ackProductChatQueue, completeTask, createConvoy,
     dispatchConvoy, recordCost, registerExecutionAgent, createGatewayEndpoint,
     patchGatewayEndpoint, deleteGatewayEndpoint, postGatewayEndpointTestConnection,
     postAgentMailbox, patchTaskAgentHealth, prepareGitWorktree, enqueueMergeQueue,
     completeMergeQueue, resolveMergeQueueByTask, resolveMergeQueueByRow, cancelMergeQueue,
     allocateWorkspacePort, releaseWorkspacePort, patchProductCostCaps, restoreTaskCheckpoint,
     putProductPreferenceModel, patchProductSchedule, postRecomputePreferenceModel,
     postConvoyMail, postProductKnowledge, patchProductKnowledgeEntry,
     deleteProductKnowledgeEntry, postTaskConvoyMC, patchTaskConvoyMC, deleteTaskConvoyMC,
     postTaskConvoySubtasksMC, postTaskConvoyDispatchMC, createResearchHub, patchResearchHub,
     deleteResearchHub, patchResearchSystemSettings, postResearchHubTest, postResearchHubInvoke,
     postFleetRefresh, postProductSuggestIdeaID, postProductTfidfSuggestTags}
    \cup patchTask

Reading ==
    {getProduct, listIdeas, listSwipeHistory, listMaybePool, listProductFeedback, getTaskChat,
     listAgents, listGatewayEndpoints, listAgentMailbox, getTaskAgentHealth, listStalledTasks,
     listProductAgentHealth, listProductMergeQueue, productCostBreakdown,
     getProductPreferenceModel, listOperationsLog, getTaskConvoyMC, getTaskConvoyProgressMC}

Route(gate, get, programs) == {[gate |-> gate, get |-> get, steps |-> p] : p \in programs}
NewRouter ==
    Route("open", TRUE, {<<>>, <<"read">>})
    \cup Route("open", FALSE, agentCompletionWebhook \cup {ciCompletionWebhook})
    \cup Route("sse", TRUE, {<<"read">>})
    \cup Route("api", FALSE, Writing) \cup Route("api", TRUE, Reading)

\* MC_API_TOKEN, ARMS_ACL and ARMS_ALLOW_SAME_ORIGIN, and a request from localhost.
ServerSettings == [token : BOOLEAN, acl : BOOLEAN, local : BOOLEAN]
Credentials == {"token", "admin", "read", "secret", "none"}
Asked == [route : NewRouter, cred : Credentials, conf : ServerSettings]

RequestsTypeOK ==
    /\ asked \in Asked
    /\ place \in 0 .. Len(asked.route.steps) + 2
    /\ done \subseteq DOMAIN asked.route.steps
    /\ broken \subseteq DOMAIN asked.route.steps
    /\ noted \subseteq DOMAIN asked.route.steps
    /\ answer \in Mapped \cup {0, 200, 401, 403, 500, 501}

RequestsInit ==
    /\ asked \in Asked
    /\ place = 0
    /\ done = {} /\ broken = {} /\ noted = {}
    /\ answer = 0

Program == asked.route.steps
Ended == Len(Program) + 2              \* answered, or given up
Step == Program[place]
AtStep == place \in DOMAIN Program

(***************************************************************************)
(* Authentication.                                                         *)
(***************************************************************************)
Configured == asked.conf.token \/ asked.conf.acl
Bypassed == asked.conf.local /\ asked.conf.token

Authenticate ==
    IF asked.conf.token /\ asked.cred = "token" THEN "admin"
    ELSE IF asked.conf.acl /\ asked.cred \in {"admin", "read"} THEN asked.cred
    ELSE "nobody"

Refuse(status) == /\ answer' = status
                  /\ place' = Ended
                  /\ UNCHANGED <<asked, done, broken, noted>>

Proceed == place' = place + 1

AuthMiddleware ==
    /\ place = 0 /\ asked.route.gate = "api"
    /\ IF ~Configured \/ Bypassed THEN Proceed /\ UNCHANGED <<asked, done, broken, noted, answer>>
       ELSE CASE Authenticate = "nobody" -> Refuse(401)
              [] Authenticate = "read" /\ ~asked.route.get -> Refuse(403)
              [] OTHER -> Proceed /\ UNCHANGED <<asked, done, broken, noted, answer>>

SSEQueryToken ==
    /\ place = 0 /\ asked.route.gate = "sse"
    /\ IF Configured /\ ~Bypassed /\ Authenticate = "nobody" THEN Refuse(401)
       ELSE Proceed /\ UNCHANGED <<asked, done, broken, noted, answer>>

Open == /\ place = 0 /\ asked.route.gate = "open"
        /\ Proceed
        /\ UNCHANGED <<asked, done, broken, noted, answer>>

(***************************************************************************)
(* The steps.                                                              *)
(***************************************************************************)
\* A webhook is signed by whoever has WEBHOOK_SECRET.
Signed == asked.cred = "secret"

Succeeds ==
    /\ AtStep
    /\ Step = "sig" => Signed
    /\ Proceed
    /\ done' = IF Step \in Whole \cup Piecewise THEN done \cup {place} ELSE done
    /\ noted' = IF Step = "log" THEN noted \cup {place} ELSE noted
    /\ UNCHANGED <<asked, broken, answer>>

\* Mutant: the answer of a refusal is written, and the handler goes on.
FallsThrough ==
    /\ AtStep
    /\ \E status \in Refusals[Step] :
         answer' = IF answer = 0 THEN status ELSE answer
    /\ Proceed
    /\ UNCHANGED <<asked, done, broken, noted>>

TurnsDown == /\ AtStep
             /\ Step = "sig" => ~Signed
             /\ \E status \in Refusals[Step] : Refuse(status)

(* A call of several writes that fails after some of them.                 *)
BreaksOff ==
    /\ AtStep /\ Step \in Piecewise
    /\ broken' = broken \cup {place}
    /\ answer' \in Refusals[Step]
    /\ place' = Ended
    /\ UNCHANGED <<asked, done, noted>>

(* The error of the operations log, or of a call on the side, is ignored.  *)
Ignored == /\ AtStep /\ Step \in {"log", "aside"}
           /\ Proceed
           /\ UNCHANGED <<asked, done, broken, noted, answer>>

WriteJSON == /\ place = Len(Program) + 1
             /\ answer' = IF answer = 0 THEN 200 ELSE answer
             /\ place' = Ended
             /\ UNCHANGED <<asked, done, broken, noted>>

(* The server stops.                                                       *)
Stops == /\ place # Ended
         /\ place' = Ended
         /\ UNCHANGED <<asked, done, broken, noted, answer>>

RequestsNext == AuthMiddleware \/ SSEQueryToken \/ Open \/ Succeeds \/ TurnsDown \/ BreaksOff
                \/ Ignored \/ WriteJSON \/ Stops

RequestsSpec == RequestsInit /\ [][RequestsNext]_requestVars

(***************************************************************************)
(* Properties.                                                             *)
(***************************************************************************)
Acts == {i \in DOMAIN Program : Program[i] \in Whole \cup Piecewise}
Entitled == IF asked.route.gate = "open" THEN Signed
            ELSE ~Configured \/ Bypassed \/ Authenticate = "admin"
OneWrite == \E i \in Acts : Acts = {i} /\ Program[i] \in Whole

\* What has been done, even in part, is all that came before it.
InOrder == \A i \in done \cup broken, j \in Acts : j < i => j \in done

(* The handlers that read back what their one write has changed, through   *)
(* the same service call, and map the error of the read: the row may be    *)
(* gone by then.                                                           *)
ReadsBack == {restoreProduct, patchTaskConvoyMC, postTaskConvoySubtasksMC}

(* An answer says what happened: success, that all of the request took     *)
(* effect; a 4xx, that none of it did, unless the handler has several      *)
(* effects or a call of several writes, or is one of the three that read   *)
(* back; a 5xx says nothing.  Of several effects (patchTask, which applies *)
(* one group of fields after the other, is the worst) none takes place     *)
(* after one that was refused.  The operations log has an entry only of    *)
(* what took effect.  And nothing takes effect for who may only read, is   *)
(* not signed or sent a GET.                                               *)
AnswersAreTrue ==
    /\ answer = 200 => done = Acts
    /\ answer \in 400 .. 499 /\ OneWrite /\ Program \notin ReadsBack => done = {}
    /\ InOrder
    /\ answer \in {401, 403} => done = {} /\ broken = {}
    /\ noted # {} => done = Acts
    /\ done \cup broken # {} => Entitled /\ ~asked.route.get
=============================================================================
