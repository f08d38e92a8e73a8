------------------------------ MODULE Gateway ------------------------------
(***************************************************************************)
(* Dispatch to remote agents: RoutingGateway resolves an execution agent   *)
(* to the target of its gateway endpoint, clientPool keeps one client per  *)
(* target, and the client's driver carries the call.  OpenClaw clients     *)
(* keep an authenticated WebSocket under a mutex and correlate answers     *)
(* with requests; PicoClaw and MimiClaw write and do not wait; the HTTP    *)
(* drivers make one exchange, MisterMorph submits and polls, the CLI       *)
(* drivers run a process.  The gateways themselves, which may close a      *)
(* connection, stay silent or answer twice, are external.                  *)
(***************************************************************************)
EXTENDS Naturals, Sequences, FiniteSets

CONSTANTS
    Calls,       \* dispatches and agent listings, one execution of each
    Endpoints,   \* rows of gateway_endpoints
    EndpointOf,  \* the endpoint the agent of a call is bound to
    Targets,     \* what an endpoint may hold: see TargetRecord
    Patches,     \* pairs of targets an operator may replace one by the other
    MaxDials,    \* bound: connections of a behaviour
    NoCall

OpenClawDrivers == {"openclaw_ws", "nullclaw_ws", "zeroclaw_ws",
                    "clawlet_ws", "ironclaw_ws", "nemoclaw_ws"}
PushDrivers == {"picoclaw_ws", "mimiclaw_ws"}
HTTPDrivers == {"nullclaw_a2a", "zclaw_relay_http", "copaw_http",
                "metaclaw_http", "mistermorph_http"}
CLIDrivers == {"nanobot_cli", "inkos_cli"}
Drivers == {"stub"} \cup OpenClawDrivers \cup PushDrivers
             \cup HTTPDrivers \cup CLIDrivers

(* A target: its driver, where and as whom it is reached (URL, token,      *)
(* device, timeout), and whether it has all that its driver asks for.      *)
TargetRecord == [driver : Drivers, addr : Nat, complete : BOOLEAN]

Kinds == {"dispatch", "list"}
Clients == {"openclaw", "own"} \X
             {t \in Targets : t.driver \in OpenClawDrivers \cup PushDrivers}
Links == 1 .. MaxDials
Connect == "connect"
Challenge == "challenge"
Frame == [id : Calls \cup {Connect, Challenge}, ok : BOOLEAN]

ASSUME GatewayAssumption ==
    /\ Targets \subseteq TargetRecord
    /\ Targets # {}
    /\ EndpointOf \in [Calls -> Endpoints]
    /\ Patches \subseteq Targets \X Targets
    /\ MaxDials \in Nat
    /\ NoCall \notin Calls
    /\ {Connect, Challenge} \cap Calls = {}

VARIABLES
    endpoint,    \* the targets the endpoints hold
    at,          \* where a call is
    kind,
    target,      \* the target a call resolved
    result,
    holder,      \* Client.mu
    cached,      \* Client.conn: a link, or 0
    authed,      \* Client.authenticated
    link,        \* connections, at both their ends
    wire,        \* the HTTP request or the process of a call
    ran          \* targets at which the gateway carried out a call

gwVars == <<endpoint, at, kind, target, result, holder, cached, authed, link,
            wire, ran>>

Locked == {"dial", "challenge", "connect", "send", "wait"}
CallPlaces == {"idle", "resolve", "pool", "sandbox", "lock", "post", "await",
           "poll", "returned"} \cup Locked

LinkRecord == [to : Targets, state : {"none", "up", "lost", "closed"},
               welcome : BOOLEAN, inbox : Seq(Frame),
               todo : SUBSET (Calls \cup {Connect})]

GatewayTypeOK ==
    /\ endpoint \in [Endpoints -> Targets]
    /\ at \in [Calls -> CallPlaces]
    /\ kind \in [Calls -> Kinds]
    /\ target \in [Calls -> Targets]
    /\ result \in [Calls -> {"none", "ok", "error"}]
    /\ holder \in [Clients -> Calls \cup {NoCall}]
    /\ cached \in [Clients -> Links \cup {0}]
    /\ authed \in [Clients -> BOOLEAN]
    /\ link \in [Links -> LinkRecord]
    /\ wire \in [Calls -> {"none", "sent", "queued", "ok", "error"}]
    /\ ran \in [Calls -> Seq(Targets)]

GatewayInit ==
    /\ endpoint \in [Endpoints -> Targets]
    /\ at = [c \in Calls |-> "idle"]
    /\ kind = [c \in Calls |-> "dispatch"]
    /\ target = [c \in Calls |-> endpoint[EndpointOf[c]]]
    /\ result = [c \in Calls |-> "none"]
    /\ holder = [k \in Clients |-> NoCall]
    /\ cached = [k \in Clients |-> 0]
    /\ authed = [k \in Clients |-> FALSE]
    /\ link = [n \in Links |-> [to |-> CHOOSE t \in Targets : TRUE, state |-> "none",
                               welcome |-> FALSE, inbox |-> <<>>, todo |-> {}]]
    /\ wire = [c \in Calls |-> "none"]
    /\ ran = [c \in Calls |-> <<>>]

(***************************************************************************)
(* Calls and endpoints.                                                    *)
(***************************************************************************)
Driver(c) == target[c].driver
ClientOf(c) == <<IF kind[c] = "list" \/ Driver(c) \in {"openclaw_ws", "nullclaw_ws"}
                   THEN "openclaw" ELSE "own", target[c]>>
Conn(c) == cached[ClientOf(c)]

GoTo(c, place) == at' = [at EXCEPT ![c] = place]
Return(c, r) == /\ GoTo(c, "returned")
                /\ result' = [result EXCEPT ![c] = r]

PatchEndpoint(e) ==
    /\ \E t \in Targets : /\ <<endpoint[e], t>> \in Patches
                          /\ endpoint' = [endpoint EXCEPT ![e] = t]
    /\ UNCHANGED <<at, kind, target, result, holder, cached, authed, link, wire,
                   ran>>

Begin(c) ==
    /\ at[c] = "idle"
    /\ \E k \in Kinds : kind' = [kind EXCEPT ![c] = k]
    /\ GoTo(c, "resolve")
    /\ UNCHANGED <<endpoint, target, result, holder, cached, authed, link, wire,
                   ran>>

(* keyed: the agent has a session key. *)
Resolve(c) ==
    LET t == endpoint[EndpointOf[c]]
    IN  /\ at[c] = "resolve"
        /\ target' = [target EXCEPT ![c] = t]
        /\ \E keyed \in BOOLEAN :
             \/ /\ t.driver = "stub"
                /\ Return(c, "ok")
             \/ /\ t.driver # "stub"
                /\ IF kind[c] = "dispatch"
                     THEN ~keyed \/ (~t.complete /\ t.driver \notin CLIDrivers)
                     ELSE t.driver \notin OpenClawDrivers \ {"nemoclaw_ws"}
                /\ Return(c, "error")
             \/ /\ t.driver # "stub"
                /\ IF kind[c] = "dispatch"
                     THEN keyed /\ (t.complete \/ t.driver \in CLIDrivers)
                     ELSE t.driver \in OpenClawDrivers \ {"nemoclaw_ws"}
                /\ GoTo(c, "pool")
                /\ UNCHANGED result
        /\ UNCHANGED <<endpoint, kind, holder, cached, authed, link, wire, ran>>

FindClient(c) ==
    /\ at[c] = "pool"
    /\ CASE Driver(c) = "nemoclaw_ws" -> GoTo(c, "sandbox")
         [] Driver(c) \in (OpenClawDrivers \ {"nemoclaw_ws"}) \cup PushDrivers ->
              GoTo(c, "lock")
         [] OTHER -> GoTo(c, "post")
    /\ UNCHANGED <<endpoint, kind, target, result, holder, cached, authed, link, wire,
                   ran>>

(***************************************************************************)
(* The locked drivers.  Every failure of a locked call, whether a refused  *)
(* dial, a read or write error, a refusal by the gateway, the deadline of  *)
(* the call or a caller that went away, ends the same way: the connection  *)
(* is dropped, the call returns its error and releases the mutex.  Nothing *)
(* is tried a second time.                                                 *)
(***************************************************************************)
Closed(k) == [n \in Links |-> IF n = cached[k]
                               THEN [link[n] EXCEPT !.state = "closed", !.inbox = <<>>]
                               ELSE link[n]]

DropConn(k) == /\ cached' = [cached EXCEPT ![k] = 0]
               /\ authed' = [authed EXCEPT ![k] = FALSE]
               /\ link' = Closed(k)

Unlock(c) == holder' = [holder EXCEPT ![ClientOf(c)] = NoCall]

(* `nemoclaw <sandbox> start`, before the mutex and without a deadline. *)
EnsureSandbox(c) ==
    /\ at[c] = "sandbox"
    /\ \/ GoTo(c, "lock") /\ UNCHANGED result
       \/ Return(c, "error")
    /\ UNCHANGED <<endpoint, kind, target, holder, cached, authed, link, wire, ran>>

(* A listing starts from a fresh connection; a dispatch reuses one that    *)
(* is authenticated, a push driver any that is cached.                     *)
Reusable(c) == /\ kind[c] = "dispatch"
               /\ Conn(c) # 0
               /\ Driver(c) \in PushDrivers \/ authed[ClientOf(c)]

Lock(c) ==
    /\ at[c] = "lock"
    /\ holder[ClientOf(c)] = NoCall
    /\ holder' = [holder EXCEPT ![ClientOf(c)] = c]
    /\ \/ /\ Reusable(c)
          /\ GoTo(c, "send")
          /\ UNCHANGED <<cached, authed, link>>
       \/ /\ ~Reusable(c)
          /\ GoTo(c, "dial")
          /\ DropConn(ClientOf(c))
    /\ UNCHANGED <<endpoint, kind, target, result, wire, ran>>

(* The gateway greets an OpenClaw client with a challenge, or it does not. *)
Dial(c) ==
    /\ at[c] = "dial"
    /\ target[c].complete
    /\ \E n \in Links, hello \in BOOLEAN :
         /\ link[n].state = "none"
         /\ \A m \in 1 .. (n - 1) : link[m].state # "none"
         /\ cached' = [cached EXCEPT ![ClientOf(c)] = n]
         /\ link' = [link EXCEPT ![n] =
                [to |-> target[c], state |-> "up", welcome |-> FALSE, todo |-> {},
                 inbox |-> IF hello THEN <<[id |-> Challenge, ok |-> TRUE]>> ELSE <<>>]]
    /\ GoTo(c, IF Driver(c) \in PushDrivers THEN "send" ELSE "challenge")
    /\ UNCHANGED <<endpoint, kind, target, result, holder, authed, wire, ran>>

(* What is written on a connection whose other end is gone vanishes. *)
Written(n, r) == [link EXCEPT ![n].todo =
                      IF link[n].state = "up" THEN @ \cup {r} ELSE @]

Readable(c) == link[Conn(c)].inbox # <<>>
Read(c) == Head(link[Conn(c)].inbox)
Rest(n) == [link EXCEPT ![n].inbox = Tail(@)]

(* A frame that is not the one the call waits for. *)
Skip(c) ==
    /\ at[c] \in {"challenge", "connect", "wait"}
    /\ Readable(c)
    /\ Read(c).id # CASE at[c] = "challenge" -> Challenge
                      [] at[c] = "connect" -> Connect
                      [] at[c] = "wait" -> c
    /\ link' = Rest(Conn(c))
    /\ UNCHANGED <<endpoint, at, kind, target, result, holder, cached, authed, wire, ran>>

AnswerChallenge(c) ==
    /\ at[c] = "challenge"
    /\ Readable(c)
    /\ Read(c).id = Challenge
    /\ link' = [Written(Conn(c), Connect) EXCEPT ![Conn(c)].inbox = Tail(@)]
    /\ GoTo(c, "connect")
    /\ UNCHANGED <<endpoint, kind, target, result, holder, cached, authed, wire, ran>>

Connected(c) ==
    /\ at[c] = "connect"
    /\ Readable(c)
    /\ Read(c).id = Connect
    /\ Read(c).ok
    /\ link' = Rest(Conn(c))
    /\ authed' = [authed EXCEPT ![ClientOf(c)] = TRUE]
    /\ GoTo(c, "send")
    /\ UNCHANGED <<endpoint, kind, target, result, holder, cached, wire, ran>>

SendRequest(c) ==
    /\ at[c] = "send"
    /\ Driver(c) \in OpenClawDrivers
    /\ link' = Written(Conn(c), c)
    /\ GoTo(c, "wait")
    /\ UNCHANGED <<endpoint, kind, target, result, holder, cached, authed, wire, ran>>

\* Mutant: whatever is answered first is taken for the answer.
ReceiveAny(c) ==
    /\ at[c] = "wait"
    /\ Readable(c)
    /\ Read(c).ok
    /\ link' = Rest(Conn(c))
    /\ Return(c, "ok")
    /\ Unlock(c)
    /\ UNCHANGED <<endpoint, kind, target, cached, authed, wire, ran>>

(* An answer that lists no agents one can read is an error of its own. *)
ReceiveAnswer(c) ==
    /\ at[c] = "wait"
    /\ Readable(c)
    /\ Read(c) = [id |-> c, ok |-> TRUE]
    /\ link' = Rest(Conn(c))
    /\ \E r \in IF kind[c] = "list" THEN {"ok", "error"} ELSE {"ok"} : Return(c, r)
    /\ Unlock(c)
    /\ UNCHANGED <<endpoint, kind, target, cached, authed, wire, ran>>

(* PicoClaw and MimiClaw return as soon as the message is written. *)
PushMessage(c) ==
    /\ at[c] = "send"
    /\ Driver(c) \in PushDrivers
    /\ link[Conn(c)].state # "closed"
    /\ link' = Written(Conn(c), c)
    /\ Return(c, "ok")
    /\ Unlock(c)
    /\ UNCHANGED <<endpoint, kind, target, cached, authed, wire, ran>>

(* The reader of a push client notices that the connection is gone; the    *)
(* client keeps it and only its next write fails.                          *)
PumpEnds(k) ==
    /\ k[2].driver \in PushDrivers
    /\ cached[k] # 0
    /\ link[cached[k]].state = "lost"
    /\ link' = Closed(k)
    /\ UNCHANGED <<endpoint, at, kind, target, result, holder, cached, authed, wire, ran>>

CallFails(c) ==
    /\ at[c] \in Locked
    /\ DropConn(ClientOf(c))
    /\ Return(c, "error")
    /\ Unlock(c)
    /\ UNCHANGED <<endpoint, kind, target, wire, ran>>

(***************************************************************************)
(* The other end of a connection (external).                               *)
(***************************************************************************)
Answered(n, r, ok, times) ==
    [link EXCEPT ![n].todo = @ \ {r},
                 ![n].inbox = IF link[n].state = "closed" THEN @
                              ELSE @ \o [i \in 1 .. times |-> [id |-> r, ok |-> ok]]]

GatewayAccepts(n) ==
    /\ Connect \in link[n].todo
    /\ \E ok \in BOOLEAN :
         link' = [Answered(n, Connect, ok, 1) EXCEPT ![n].welcome = ok]
    /\ UNCHANGED <<endpoint, at, kind, target, result, holder, cached, authed, wire, ran>>

GatewayRuns(n) ==
    /\ \E c \in link[n].todo \ {Connect} :
         /\ ran' = [ran EXCEPT ![c] = Append(@, link[n].to)]
         /\ IF Driver(c) \in PushDrivers
              THEN link' = [link EXCEPT ![n].todo = @ \ {c}]
              ELSE \E times \in 1 .. 2 : link' = Answered(n, c, TRUE, times)
    /\ UNCHANGED <<endpoint, at, kind, target, result, holder, cached, authed, wire>>

GatewayRefuses(n) ==
    /\ \E c \in link[n].todo \ {Connect} : link' = Answered(n, c, FALSE, 1)
    /\ UNCHANGED <<endpoint, at, kind, target, result, holder, cached, authed, wire, ran>>

GatewayHangsUp(n) ==
    /\ link[n].state = "up"
    /\ link' = [link EXCEPT ![n].state = "lost"]
    /\ UNCHANGED <<endpoint, at, kind, target, result, holder, cached, authed, wire, ran>>

(***************************************************************************)
(* The drivers without a connection: one HTTP exchange, a submission that  *)
(* is polled, or a process.  They hold no mutex.                           *)
(***************************************************************************)
Exchange(c, d) ==
    /\ at[c] = "post"
    /\ Driver(c) = d
    /\ wire' = [wire EXCEPT ![c] = "sent"]
    /\ GoTo(c, "await")
    /\ UNCHANGED <<endpoint, kind, target, result, holder, cached, authed, link, ran>>

NullClawPost(c) == Exchange(c, "nullclaw_a2a")
ZClawPost(c) == Exchange(c, "zclaw_relay_http")
CoPawPost(c) == Exchange(c, "copaw_http")
MetaClawPost(c) == Exchange(c, "metaclaw_http")
MisterMorphSubmit(c) == Exchange(c, "mistermorph_http")
NanobotRun(c) == Exchange(c, "nanobot_cli")
InkOSRun(c) == target[c].complete /\ Exchange(c, "inkos_cli")

InkOSWithoutBook(c) ==
    /\ at[c] = "post"
    /\ Driver(c) = "inkos_cli"
    /\ ~target[c].complete
    /\ Return(c, "error")
    /\ UNCHANGED <<endpoint, kind, target, holder, cached, authed, link, wire, ran>>

ExchangeReturns(c) ==
    /\ at[c] \in {"await", "poll"}
    /\ wire[c] \in {"ok", "error"}
    /\ Return(c, wire[c])
    /\ UNCHANGED <<endpoint, kind, target, holder, cached, authed, link, wire, ran>>

(* The submission is accepted; GET /tasks/{id} until the task is done. *)
WaitTerminal(c) ==
    /\ at[c] = "await"
    /\ wire[c] = "queued"
    /\ GoTo(c, "poll")
    /\ UNCHANGED <<endpoint, kind, target, result, holder, cached, authed, link, wire, ran>>

\* Mutant: the polling has no deadline.
ExchangeFailsUnpolled(c) ==
    /\ at[c] = "await"
    /\ Return(c, "error")
    /\ UNCHANGED <<endpoint, kind, target, holder, cached, authed, link, wire, ran>>

(* A deadline, a caller that went away, a connection error.  A process is  *)
(* killed with its call; a server may go on with what it was sent.         *)
ExchangeFails(c) ==
    /\ at[c] \in {"await", "poll"}
    /\ Return(c, "error")
    /\ wire' = IF Driver(c) \in CLIDrivers THEN [wire EXCEPT ![c] = "error"] ELSE wire
    /\ UNCHANGED <<endpoint, kind, target, holder, cached, authed, link, ran>>

ServerAnswers(c) ==
    /\ \/ /\ wire[c] = "sent" /\ Driver(c) # "mistermorph_http"
          /\ \E answer \in {"ok", "error"} : wire' = [wire EXCEPT ![c] = answer]
          /\ ran' = [ran EXCEPT ![c] = Append(@, target[c])]
       \/ /\ wire[c] = "sent" /\ Driver(c) = "mistermorph_http"
          /\ wire' = [wire EXCEPT ![c] = "queued"]
          /\ UNCHANGED ran
       \/ /\ wire[c] = "queued"
          /\ \E answer \in {"ok", "error"} : wire' = [wire EXCEPT ![c] = answer]
          /\ ran' = [ran EXCEPT ![c] = Append(@, target[c])]
       \/ /\ wire[c] \in {"sent", "queued"}
          /\ wire' = [wire EXCEPT ![c] = "error"]
          /\ UNCHANGED ran
    /\ UNCHANGED <<endpoint, at, kind, target, result, holder, cached, authed, link>>

(***************************************************************************)
(* What a call does by itself, what the world does, and the specification. *)
(***************************************************************************)
Advance(c) ==
    \/ Resolve(c) \/ FindClient(c) \/ EnsureSandbox(c) \/ Lock(c) \/ Dial(c)
    \/ Skip(c) \/ AnswerChallenge(c) \/ Connected(c) \/ SendRequest(c)
    \/ ReceiveAnswer(c) \/ PushMessage(c) \/ CallFails(c)
    \/ NullClawPost(c) \/ ZClawPost(c) \/ CoPawPost(c) \/ MetaClawPost(c)
    \/ MisterMorphSubmit(c) \/ NanobotRun(c) \/ InkOSRun(c) \/ InkOSWithoutBook(c)
    \/ ExchangeReturns(c) \/ WaitTerminal(c) \/ ExchangeFails(c)

Remote(n) == GatewayAccepts(n) \/ GatewayRuns(n) \/ GatewayRefuses(n) \/ GatewayHangsUp(n)

GatewayNext ==
    \/ \E e \in Endpoints : PatchEndpoint(e)
    \/ \E c \in Calls : Begin(c) \/ Advance(c) \/ ServerAnswers(c)
    \/ \E k \in Clients : PumpEnds(k)
    \/ \E n \in Links : Remote(n)

(* Deadlines expire: every driver's options give a timeout.  The sandbox   *)
(* command of NemoClaw has none and is assumed to end.                     *)
GatewayFairness == \A c \in Calls : WF_gwVars(Advance(c))

GatewaySpec == GatewayInit /\ [][GatewayNext]_gwVars /\ GatewayFairness

(***************************************************************************)
(* Properties.                                                             *)
(***************************************************************************)
Waits(c) == Driver(c) \notin PushDrivers \cup {"stub"}

(* Whatever fails, times out, is answered twice or is patched under way, a *)
(* call is carried out at most once, and only by the gateway it resolved:  *)
(* no driver sends again what may have arrived, and the pool never hands a *)
(* call the connection of another URL, token or device.                    *)
RunsOnceWhereResolved ==
    \A c \in Calls : ran[c] \in {<<>>, <<target[c]>>}

(* A call that returns without an error has been carried out, for every    *)
(* driver that waits for an answer: the answer it took is its own, and     *)
(* never the late or repeated one of an earlier call on the connection.    *)
AnswerIsOwn ==
    \A c \in Calls :
        (result[c] = "ok" /\ Waits(c)) => ran[c] = <<target[c]>>

(* An OpenClaw connection that is kept between calls is one the gateway    *)
(* has admitted, to the gateway its client is for, with nothing asked that *)
(* is unanswered: a call that failed half way leaves nothing to the next.  *)
SessionsAreClean ==
    \A k \in Clients :
        (k[2].driver \in OpenClawDrivers /\ holder[k] = NoCall /\ cached[k] # 0) =>
            /\ authed[k]
            /\ link[cached[k]].welcome
            /\ link[cached[k]].to = k[2]
            /\ link[cached[k]].todo = {}

(* What a caller is told of a call is what the gateway it chose has done,  *)
(* and the next call on its connection can rely on the same.               *)
CallsAreExact == RunsOnceWhereResolved /\ AnswerIsOwn /\ SessionsAreClean

(* No call is under way for ever, though it queues on the mutex of its     *)
(* client and the gateway may be silent.                                   *)
CallsReturn == <>[](\A c \in Calls : at[c] \in {"idle", "returned"})
=============================================================================
