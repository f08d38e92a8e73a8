---------------------------- MODULE GatewayProofs ----------------------------
(***************************************************************************)
(* Theorems about Gateway for every set of calls, endpoints, targets and   *)
(* patches and every number of connections.                                *)
(*                                                                         *)
(* The argument follows a request: it is nowhere before its call sends it, *)
(* then in one place, at the gateway its call resolved, and a frame that   *)
(* answers it is written only when it has been carried out.  Beside it,    *)
(* a client's mutex and connection belong to one call, and what is on the  *)
(* connection fits the place that call is at.                              *)
(***************************************************************************)
EXTENDS Gateway, TLAPS

-----------------------------------------------------------------------------
(* Frames of an inbox, as a set. *)

Frames(q) == {q[i] : i \in 1 .. Len(q)}

LEMMA FramesOf ==
    /\ Frames(<<>>) = {}
    /\ \A q \in Seq(Frame) : q # <<>> =>
          /\ Head(q) \in Frames(q) /\ Head(q) \in Frame
          /\ Tail(q) \in Seq(Frame) /\ Frames(Tail(q)) \subseteq Frames(q)
<1>1. Frames(<<>>) = {}
  BY DEF Frames
<1>2. ASSUME NEW q \in Seq(Frame), q # <<>>
      PROVE  /\ Head(q) \in Frames(q) /\ Head(q) \in Frame
             /\ Tail(q) \in Seq(Frame) /\ Frames(Tail(q)) \subseteq Frames(q)
  <2>1. Len(q) \in Nat \ {0} /\ Head(q) = q[1] /\ Head(q) \in Frame /\ Tail(q) \in Seq(Frame)
    BY <1>2
  <2>2. Head(q) \in Frames(q)
    BY <2>1 DEF Frames
  <2>3. ASSUME NEW i \in 1 .. Len(Tail(q)) PROVE Tail(q)[i] \in Frames(q)
    <3>1. Tail(q)[i] = q[i + 1] /\ i + 1 \in 1 .. Len(q)
      BY <1>2, <2>1
    <3>. QED
      BY <3>1 DEF Frames
  <2>. QED
    BY <2>1, <2>2, <2>3 DEF Frames
<1>. QED
  BY <1>1, <1>2

\* What arrives: times copies of a frame behind the others.
LEMMA FramesArrive ==
    ASSUME NEW q \in Seq(Frame), NEW f \in Frame, NEW times \in Nat
    PROVE  LET r == q \o [i \in 1 .. times |-> f]
           IN  r \in Seq(Frame) /\ Frames(r) \subseteq Frames(q) \cup {f}
<1>. DEFINE s == [i \in 1 .. times |-> f]
            r == q \o s
<1>1. s \in Seq(Frame) /\ Len(s) = times /\ \A i \in 1 .. times : s[i] = f
  OBVIOUS
<1>. HIDE DEF s
<1>2. r \in Seq(Frame) /\ Len(r) = Len(q) + times
  BY <1>1
<1>3. ASSUME NEW i \in 1 .. Len(r) PROVE r[i] \in Frames(q) \cup {f}
  <2>1. CASE i <= Len(q)
    <3>1. r[i] = q[i] /\ i \in 1 .. Len(q)
      BY <1>1, <1>2, <2>1
    <3>. QED
      BY <3>1 DEF Frames
  <2>2. CASE ~(i <= Len(q))
    <3>1. r[i] = s[i - Len(q)] /\ i - Len(q) \in 1 .. times
      BY <1>1, <1>2, <2>2
    <3>. QED
      BY <1>1, <3>1
  <2>. QED
    BY <2>1, <2>2
<1>. QED
  BY <1>2, <1>3 DEF Frames, s

LEMMA OneFrame ==
    ASSUME NEW f \in Frame
    PROVE  <<f>> \in Seq(Frame) /\ Frames(<<f>>) = {f}
  BY DEF Frames

-----------------------------------------------------------------------------
(* The invariant. *)

Box(n) == Frames(link[n].inbox)

Unsent == {"idle", "resolve", "pool", "sandbox", "lock", "dial", "challenge",
           "connect", "send", "post"}

Nowhere(c) ==
    /\ ran[c] = <<>>
    /\ wire[c] = "none"
    /\ \A n \in Links : c \notin link[n].todo /\ \A f \in Box(n) : f.id # c

\* A call and its request.
CallOK(c) ==
    /\ at[c] \in Unsent => Nowhere(c)
    /\ at[c] # "returned" => result[c] = "none"
    /\ ran[c] \in {<<>>, <<target[c]>>}
    /\ wire[c] \in {"sent", "queued"} => ran[c] = <<>>
    /\ wire[c] = "ok" => ran[c] = <<target[c]>>
    /\ (result[c] = "ok" /\ Waits(c)) => ran[c] = <<target[c]>>
    /\ \A n \in Links :
         /\ c \in link[n].todo =>
               ran[c] = <<>> /\ wire[c] \in {"none", "error"} /\ link[n].to = target[c]
         /\ \A f \in Box(n) : f.id = c /\ f.ok => ran[c] = <<target[c]>>
    /\ \A m, n \in Links : c \in link[m].todo /\ c \in link[n].todo => m = n

\* A call and the mutex and connection of its client.
LockOK(c) ==
    /\ at[c] \in {"sandbox", "lock"} \cup Locked => Driver(c) \in OpenClawDrivers \cup PushDrivers
    /\ at[c] \in {"challenge", "connect", "wait"} => Driver(c) \in OpenClawDrivers
    /\ at[c] \in Locked => holder[ClientOf(c)] = c
    /\ at[c] \in {"challenge", "connect", "send", "wait"} => Conn(c) # 0

\* What is on the connection of an OpenClaw client, between calls and in one.
Session(l, auth, h, place) ==
    /\ h = NoCall => auth /\ l.welcome /\ l.todo = {}
    /\ (h \in Calls /\ place = "challenge") =>
          l.todo = {} /\ \A f \in Frames(l.inbox) : f.id = Challenge
    /\ (h \in Calls /\ place = "connect") =>
          /\ l.todo \subseteq {Connect}
          /\ \A f \in Frames(l.inbox) : f.id = Connect => l.todo = {} /\ (f.ok => l.welcome)
    /\ (h \in Calls /\ place = "send") => auth /\ l.welcome /\ l.todo = {}
    /\ (h \in Calls /\ place = "wait") => auth /\ l.welcome /\ l.todo \subseteq {h}

ClientOK(k) ==
    /\ holder[k] \in Calls => at[holder[k]] \in Locked /\ ClientOf(holder[k]) = k
    /\ cached[k] # 0 =>
          /\ link[cached[k]].to = k[2]
          /\ link[cached[k]].state # "none"
          /\ k[2].driver \in OpenClawDrivers => Session(link[cached[k]], authed[k], holder[k], at[holder[k]])

OwnLinks == \A j, k \in Clients : cached[j] = cached[k] /\ cached[k] # 0 => j = k

GwInv ==
    /\ GatewayTypeOK
    /\ \A c \in Calls : CallOK(c) /\ LockOK(c)
    /\ \A k \in Clients : ClientOK(k)
    /\ OwnLinks

-----------------------------------------------------------------------------
(* What an action leaves alone. *)

LEMMA Types ==
    ASSUME GatewayTypeOK
    PROVE  /\ \A c \in Calls : /\ target[c] \in Targets /\ Driver(c) \in Drivers
                               /\ at[c] \in CallPlaces /\ kind[c] \in Kinds
           /\ \A k \in Clients : /\ holder[k] \in Calls \cup {NoCall} /\ cached[k] \in Links \cup {0}
                                 /\ authed[k] \in BOOLEAN /\ k[2] \in Targets
           /\ \A n \in Links : /\ link[n] \in LinkRecord /\ link[n].inbox \in Seq(Frame)
                               /\ link[n].todo \subseteq Calls \cup {Connect}
                               /\ link[n].to \in Targets
                               /\ 0 # n /\ n \in Nat
           /\ NoCall \notin Calls /\ Connect \notin Calls /\ Challenge \notin Calls
           /\ Connect # Challenge
  BY GatewayAssumption, SMTT(60)
     DEF GatewayTypeOK, TargetRecord, LinkRecord, Clients, Driver, Links, Connect, Challenge

LEMMA ClientType ==
    ASSUME GatewayTypeOK, NEW c \in Calls, Driver(c) \in OpenClawDrivers \cup PushDrivers
    PROVE  ClientOf(c) \in Clients /\ ClientOf(c)[2] = target[c]
  BY Types DEF ClientOf, Clients, Driver

\* The client of a call that holds a mutex.
LEMMA Holds ==
    ASSUME GwInv, NEW c \in Calls, at[c] \in Locked
    PROVE  /\ ClientOf(c) \in Clients /\ ClientOf(c)[2] = target[c]
           /\ holder[ClientOf(c)] = c
           /\ Driver(c) \in OpenClawDrivers \cup PushDrivers
           /\ ClientOK(ClientOf(c))
  BY ClientType DEF GwInv, LockOK

LEMMA HoldsLink ==
    ASSUME GwInv, NEW c \in Calls, at[c] \in {"challenge", "connect", "send", "wait"}
    PROVE  /\ Conn(c) \in Links /\ Conn(c) = cached[ClientOf(c)]
           /\ link[Conn(c)].to = target[c]
           /\ link[Conn(c)].state # "none"
           /\ Driver(c) \in OpenClawDrivers => Session(link[Conn(c)], authed[ClientOf(c)], c, at[c])
<1>1. at[c] \in Locked
  BY DEF Locked
<1>2. Conn(c) # 0
  BY DEF GwInv, LockOK
<1>3. Conn(c) = cached[ClientOf(c)] /\ Conn(c) \in Links
  BY <1>1, <1>2, Holds, Types DEF Conn, GwInv
<1>. QED
  BY <1>1, <1>2, <1>3, Holds DEF ClientOK, Driver

\* A call whose request is neither sent nor answered by the step.
LEMMA CallKept ==
    ASSUME NEW d \in Calls, CallOK(d),
           target'[d] = target[d], ran'[d] = ran[d], wire'[d] = wire[d],
           at'[d] \in Unsent => at[d] \in Unsent,
           at'[d] # "returned" => result'[d] = "none",
           result'[d] = "ok" => result[d] = "ok" \/ ~Waits(d) \/ ran[d] = <<target[d]>>,
           \A n \in Links :
              /\ d \in link'[n].todo => d \in link[n].todo /\ link'[n].to = link[n].to
              /\ \A f \in Frames(link'[n].inbox) : f.id = d => f \in Frames(link[n].inbox)
    PROVE  CallOK(d)'
<1>1. Waits(d)' = Waits(d)
  BY DEF Waits, Driver
<1>2. (at[d] \in Unsent => Nowhere(d))'
  BY DEF CallOK, Nowhere, Box
<1>. QED
  BY <1>1, <1>2 DEF CallOK, Box

\* The calls and clients an action of call c, under the mutex of client k, does
\* not concern.
LEMMA OthersKept ==
    ASSUME GwInv, NEW c \in Calls, NEW k \in Clients, holder[k] \in {c, NoCall},
           at[c] \in Locked => ClientOf(c) = k,
           \A d \in Calls \ {c} : at'[d] = at[d] /\ result'[d] = result[d],
           UNCHANGED <<kind, target, ran, wire>>,
           \A j \in Clients \ {k} : /\ holder'[j] = holder[j] /\ cached'[j] = cached[j]
                                    /\ authed'[j] = authed[j],
           \A n \in Links : link'[n] = link[n] \/ n = cached[k] \/ link[n].state = "none"
    PROVE  /\ \A d \in Calls \ {c} : LockOK(d)'
           /\ \A j \in Clients \ {k} : ClientOK(j)'
<1>. GatewayTypeOK
  BY DEF GwInv
<1>0. \A d \in Calls : ClientOf(d)' = ClientOf(d) /\ Driver(d)' = Driver(d)
  BY DEF ClientOf, Driver
<1>1. ASSUME NEW d \in Calls \ {c} PROVE LockOK(d)'
  <2>1. LockOK(d)
    BY DEF GwInv
  <2>2. ASSUME at[d] \in Locked
        PROVE  /\ holder'[ClientOf(d)] = holder[ClientOf(d)]
               /\ cached'[ClientOf(d)] = cached[ClientOf(d)]
    <3>1. ClientOf(d) \in Clients /\ holder[ClientOf(d)] = d
      BY <2>2, Holds
    <3>2. ClientOf(d) # k
      BY <3>1, Types
    <3>. QED
      BY <3>1, <3>2
  <2>3. {"challenge", "connect", "send", "wait"} \subseteq Locked
    BY DEF Locked
  <2>4. Conn(d)' = cached'[ClientOf(d)] /\ Conn(d) = cached[ClientOf(d)]
    BY <1>0 DEF Conn
  <2>. QED
    BY <1>0, <2>1, <2>2, <2>3, <2>4 DEF LockOK
<1>2. ASSUME NEW j \in Clients \ {k} PROVE ClientOK(j)'
  <2>1. ClientOK(j)
    BY DEF GwInv
  <2>2. holder[j] # c
    <3>1. holder[j] = c => at[c] \in Locked /\ ClientOf(c) = j
      BY <2>1 DEF ClientOK
    <3>. QED
      BY <3>1
  <2>3. holder[j] \in Calls => at'[holder[j]] = at[holder[j]]
    BY <2>2
  <2>4. cached[j] # 0 => link'[cached[j]] = link[cached[j]]
    <3>1. cached[j] # 0 => cached[j] \in Links /\ cached[j] # cached[k] /\ link[cached[j]].state # "none"
      BY <2>1, Types DEF GwInv, OwnLinks, ClientOK
    <3>. QED
      BY <3>1
  <2>. QED
    BY <1>0, <2>1, <2>3, <2>4 DEF ClientOK, Session
<1>. QED
  BY <1>1, <1>2

\* An action of call c outside the mutex.
LEMMA OutsideKept ==
    ASSUME GwInv, NEW c \in Calls, at[c] \notin Locked, at'[c] \notin Locked,
           \A d \in Calls \ {c} : at'[d] = at[d] /\ kind'[d] = kind[d] /\ target'[d] = target[d],
           UNCHANGED <<holder, cached, authed, link>>,
           at'[c] \in {"sandbox", "lock"} => target'[c].driver \in OpenClawDrivers \cup PushDrivers
    PROVE  /\ \A d \in Calls : LockOK(d)'
           /\ \A j \in Clients : ClientOK(j)'
           /\ OwnLinks'
<1>. GatewayTypeOK
  BY DEF GwInv
<1>1. \A d \in Calls \ {c} : ClientOf(d)' = ClientOf(d) /\ Driver(d)' = Driver(d) /\ Conn(d)' = Conn(d)
  BY DEF ClientOf, Driver, Conn
<1>2. ASSUME NEW d \in Calls \ {c} PROVE LockOK(d)'
  BY <1>1 DEF GwInv, LockOK
<1>3. LockOK(c)'
  <2>1. {"challenge", "connect", "send", "wait"} \subseteq Locked
    BY DEF Locked
  <2>. QED
    BY <2>1 DEF LockOK, Driver
<1>4. ASSUME NEW j \in Clients PROVE ClientOK(j)'
  <2>1. ClientOK(j)
    BY DEF GwInv
  <2>2. holder[j] # c
    BY <2>1 DEF ClientOK
  <2>3. holder[j] \in Calls => at'[holder[j]] = at[holder[j]] /\ ClientOf(holder[j])' = ClientOf(holder[j])
    BY <1>1, <2>2
  <2>. QED
    BY <2>1, <2>3 DEF ClientOK, Session
<1>. QED
  BY <1>2, <1>3, <1>4 DEF GwInv, OwnLinks

\* An action that changes connections, but no call and no client.
LEMMA RemoteKept ==
    ASSUME GwInv, UNCHANGED <<at, kind, target, holder, cached, authed>>,
           \A k \in Clients : cached[k] # 0 =>
              /\ link'[cached[k]].to = link[cached[k]].to
              /\ link'[cached[k]].state # "none"
              /\ k[2].driver \in OpenClawDrivers => Session(link'[cached[k]], authed[k], holder[k], at[holder[k]])
    PROVE  /\ \A d \in Calls : LockOK(d)'
           /\ \A j \in Clients : ClientOK(j)'
           /\ OwnLinks'
<1>1. \A d \in Calls : ClientOf(d)' = ClientOf(d) /\ Driver(d)' = Driver(d) /\ Conn(d)' = Conn(d)
  BY DEF ClientOf, Driver, Conn
<1>2. ASSUME NEW d \in Calls PROVE LockOK(d)'
  BY <1>1 DEF GwInv, LockOK
<1>3. ASSUME NEW j \in Clients PROVE ClientOK(j)'
  BY <1>1 DEF GwInv, ClientOK, Session
<1>. QED
  BY <1>2, <1>3 DEF GwInv, OwnLinks

-----------------------------------------------------------------------------
(* What becomes of the connections. *)

LEMMA RestFacts ==
    ASSUME GatewayTypeOK, NEW n \in Links, link[n].inbox # <<>>, link' = Rest(n)
    PROVE  /\ link' \in [Links -> LinkRecord]
           /\ \A m \in Links : m # n => link'[m] = link[m]
           /\ link'[n].to = link[n].to /\ link'[n].state = link[n].state
           /\ link'[n].welcome = link[n].welcome /\ link'[n].todo = link[n].todo
           /\ Frames(link'[n].inbox) \subseteq Frames(link[n].inbox)
<1>. DEFINE l == [link[n] EXCEPT !.inbox = Tail(link[n].inbox)]
<1>1. link[n] \in LinkRecord /\ link[n].inbox \in Seq(Frame)
  BY Types
<1>2. Tail(link[n].inbox) \in Seq(Frame) /\ Frames(Tail(link[n].inbox)) \subseteq Frames(link[n].inbox)
  BY <1>1, FramesOf
<1>3. /\ l \in LinkRecord /\ l.to = link[n].to /\ l.state = link[n].state
      /\ l.welcome = link[n].welcome /\ l.todo = link[n].todo /\ l.inbox = Tail(link[n].inbox)
  BY <1>1, <1>2 DEF LinkRecord
<1>4. link' = [link EXCEPT ![n] = l]
  BY DEF Rest
<1>. HIDE DEF l
<1>5. link'[n] = l
  BY <1>4 DEF GatewayTypeOK
<1>. QED
  BY <1>2, <1>3, <1>4, <1>5 DEF GatewayTypeOK

LEMMA WrittenFacts ==
    ASSUME GatewayTypeOK, NEW n \in Links, NEW r \in Calls \cup {Connect}, NEW q,
           q = Written(n, r)
    PROVE  /\ q \in [Links -> LinkRecord]
           /\ \A m \in Links : m # n => q[m] = link[m]
           /\ q[n].to = link[n].to /\ q[n].state = link[n].state
           /\ q[n].welcome = link[n].welcome /\ q[n].inbox = link[n].inbox
           /\ q[n].todo \subseteq link[n].todo \cup {r}
<1>. DEFINE todo == IF link[n].state = "up" THEN link[n].todo \cup {r} ELSE link[n].todo
            l == [link[n] EXCEPT !.todo = todo]
<1>1. link[n] \in LinkRecord
  BY Types
<1>2. todo \subseteq Calls \cup {Connect} /\ todo \subseteq link[n].todo \cup {r}
  BY <1>1 DEF LinkRecord
<1>. HIDE DEF todo
<1>3. /\ l \in LinkRecord /\ l.to = link[n].to /\ l.state = link[n].state
      /\ l.welcome = link[n].welcome /\ l.todo = todo /\ l.inbox = link[n].inbox
  BY <1>1, <1>2 DEF LinkRecord
<1>4. q = [link EXCEPT ![n] = l]
  BY DEF Written, todo
<1>. HIDE DEF l
<1>. QED
  BY <1>2, <1>3, <1>4 DEF GatewayTypeOK

LEMMA DropFacts ==
    ASSUME GatewayTypeOK, NEW k \in Clients, link' = Closed(k)
    PROVE  /\ link' \in [Links -> LinkRecord]
           /\ \A m \in Links :
                /\ m # cached[k] => link'[m] = link[m]
                /\ link'[m].to = link[m].to /\ link'[m].todo = link[m].todo
                /\ link'[m].welcome = link[m].welcome
                /\ link'[m].state = link[m].state \/ link'[m].state = "closed"
                /\ Frames(link'[m].inbox) \subseteq Frames(link[m].inbox)
<1>1. ASSUME NEW m \in Links
      PROVE  LET l == [link[m] EXCEPT !.state = "closed", !.inbox = <<>>]
             IN  /\ l \in LinkRecord /\ l.to = link[m].to /\ l.todo = link[m].todo
                 /\ l.welcome = link[m].welcome /\ l.state = "closed" /\ l.inbox = <<>>
  <2>1. link[m] \in LinkRecord /\ <<>> \in Seq(Frame)
    BY Types
  <2>. QED
    BY <2>1 DEF LinkRecord
<1>2. ASSUME NEW m \in Links
      PROVE  /\ link'[m] \in LinkRecord
             /\ m # cached[k] => link'[m] = link[m]
             /\ link'[m].to = link[m].to /\ link'[m].todo = link[m].todo
             /\ link'[m].welcome = link[m].welcome
             /\ link'[m].state = link[m].state \/ link'[m].state = "closed"
             /\ Frames(link'[m].inbox) \subseteq Frames(link[m].inbox)
  <2>1. CASE m = cached[k]
    <3>1. link'[m] = [link[m] EXCEPT !.state = "closed", !.inbox = <<>>]
      BY <2>1 DEF Closed
    <3>. QED
      BY <1>1, <2>1, <3>1, FramesOf, ZenonT(90)
  <2>2. CASE m # cached[k]
    <3>1. link'[m] = link[m]
      BY <2>2 DEF Closed
    <3>. QED
      BY <3>1, Types
  <2>. QED
    BY <2>1, <2>2
<1>3. link' \in [Links -> LinkRecord]
  <2>1. DOMAIN link' = Links /\ link' = [m \in Links |-> link'[m]]
    BY DEF Closed
  <2>. QED
    BY <1>2, <2>1
<1>. QED
  BY <1>2, <1>3

LEMMA AnsweredFacts ==
    ASSUME GatewayTypeOK, NEW n \in Links, NEW r \in Calls \cup {Connect}, NEW ok \in BOOLEAN,
           NEW times \in 1 .. 2, NEW q, q = Answered(n, r, ok, times)
    PROVE  /\ q \in [Links -> LinkRecord]
           /\ \A m \in Links : m # n => q[m] = link[m]
           /\ q[n].to = link[n].to /\ q[n].state = link[n].state
           /\ q[n].welcome = link[n].welcome /\ q[n].todo = link[n].todo \ {r}
           /\ Frames(q[n].inbox) \subseteq Frames(link[n].inbox) \cup {[id |-> r, ok |-> ok]}
<1>. DEFINE f == [id |-> r, ok |-> ok]
            inbox == IF link[n].state = "closed" THEN link[n].inbox
                     ELSE link[n].inbox \o [i \in 1 .. times |-> f]
            l == [link[n] EXCEPT !.todo = link[n].todo \ {r}, !.inbox = inbox]
<1>1. link[n] \in LinkRecord /\ link[n].inbox \in Seq(Frame)
  BY Types
<1>2. f \in Frame
  BY DEF Frame
<1>. HIDE DEF f
<1>3. inbox \in Seq(Frame) /\ Frames(inbox) \subseteq Frames(link[n].inbox) \cup {f}
  BY <1>1, <1>2, FramesArrive
<1>4. q = [link EXCEPT ![n] = l]
  BY DEF Answered, f
<1>. HIDE DEF inbox
<1>5. /\ l \in LinkRecord /\ l.to = link[n].to /\ l.state = link[n].state
      /\ l.welcome = link[n].welcome /\ l.todo = link[n].todo \ {r} /\ l.inbox = inbox
  BY <1>1, <1>3 DEF LinkRecord
<1>. HIDE DEF l
<1>6. q[n] = l /\ q \in [Links -> LinkRecord] /\ \A m \in Links : m # n => q[m] = link[m]
  BY <1>4, <1>5 DEF GatewayTypeOK
<1>. QED
  BY <1>3, <1>5, <1>6 DEF f

-----------------------------------------------------------------------------
(* The actions under the mutex. *)

LEMMA PlacesIn ==
    /\ Locked \subseteq CallPlaces /\ Unsent \subseteq CallPlaces
    /\ {"returned", "await", "poll"} \subseteq CallPlaces
    /\ "returned" \notin Locked /\ "returned" \notin Unsent
    /\ "wait" \notin Unsent /\ "await" \notin Unsent /\ "poll" \notin Unsent
    /\ {"dial", "challenge", "connect", "send"} \subseteq Unsent
  BY DEF Locked, CallPlaces, Unsent

\* A read that is not for the call.
LEMMA SkipKept == ASSUME GwInv, NEW c \in Calls, Skip(c) PROVE GwInv'
<1>. DEFINE n == Conn(c)
<1>. GatewayTypeOK
  BY DEF GwInv
<1>0. /\ at[c] \in {"challenge", "connect", "wait"} /\ link[n].inbox # <<>> /\ link' = Rest(n)
      /\ UNCHANGED <<endpoint, at, kind, target, result, holder, cached, authed, wire, ran>>
  BY DEF Skip, Readable
<1>1. n \in Links /\ n = cached[ClientOf(c)] /\ link[n].to = target[c] /\ link[n].state # "none"
  BY <1>0, HoldsLink
<1>. HIDE DEF n
<1>2. /\ link' \in [Links -> LinkRecord]
      /\ \A m \in Links : m # n => link'[m] = link[m]
      /\ link'[n].to = link[n].to /\ link'[n].state = link[n].state
      /\ link'[n].welcome = link[n].welcome /\ link'[n].todo = link[n].todo
      /\ Frames(link'[n].inbox) \subseteq Frames(link[n].inbox)
  BY <1>0, <1>1, RestFacts
<1>3. GatewayTypeOK'
  BY <1>0, <1>2 DEF GatewayTypeOK
<1>4. ASSUME NEW d \in Calls PROVE CallOK(d)'
  <2>1. CallOK(d)
    BY DEF GwInv
  <2>2. at[d] # "returned" => result[d] = "none"
    BY <2>1 DEF CallOK
  <2>. QED
    BY <1>0, <1>2, <2>1, <2>2, CallKept
<1>5. ASSUME NEW k \in Clients, cached[k] # 0
      PROVE  /\ link'[cached[k]].to = link[cached[k]].to
             /\ link'[cached[k]].state # "none"
             /\ k[2].driver \in OpenClawDrivers => Session(link'[cached[k]], authed[k], holder[k], at[holder[k]])
  <2>1. ClientOK(k) /\ cached[k] \in Links
    BY <1>5, Types DEF GwInv
  <2>2. CASE cached[k] # n
    BY <1>2, <1>5, <2>1, <2>2 DEF ClientOK
  <2>3. CASE cached[k] = n
    <3>1. k[2].driver \in OpenClawDrivers => Session(link[n], authed[k], holder[k], at[holder[k]])
      BY <1>5, <2>1, <2>3 DEF ClientOK
    <3>2. k[2].driver \in OpenClawDrivers => Session(link'[n], authed[k], holder[k], at[holder[k]])
      BY <1>2, <3>1 DEF Session
    <3>. QED
      BY <1>1, <1>2, <2>3, <3>2
  <2>. QED
    BY <2>2, <2>3
<1>. QED
  BY <1>0, <1>3, <1>4, <1>5, RemoteKept DEF GwInv

\* The call moves on and its client keeps its connection.
LEMMA SessionKept ==
    ASSUME GwInv, NEW c \in Calls, NEW k \in Clients, NEW n \in Links,
           k = ClientOf(c), n = cached[k], at[c] \in Locked,
           \A d \in Calls \ {c} : at'[d] = at[d] /\ result'[d] = result[d],
           UNCHANGED <<kind, target, ran, wire, cached>>,
           \A j \in Clients \ {k} : holder'[j] = holder[j] /\ authed'[j] = authed[j],
           \A m \in Links : m # n => link'[m] = link[m],
           link'[n].to = link[n].to, link'[n].state # "none",
           \/ at'[c] \in {"challenge", "connect", "send", "wait"} /\ holder'[k] = c
           \/ at'[c] \notin Locked \cup {"sandbox", "lock"} /\ holder'[k] = NoCall,
           at'[c] \in {"challenge", "connect", "wait"} => Driver(c) \in OpenClawDrivers,
           Driver(c) \in OpenClawDrivers => Session(link'[n], authed'[k], holder'[k], at'[c])
    PROVE  /\ \A d \in Calls : LockOK(d)'
           /\ \A j \in Clients : ClientOK(j)'
           /\ OwnLinks'
<1>. GatewayTypeOK
  BY DEF GwInv
<1>0. /\ holder[k] = c /\ Driver(c) \in OpenClawDrivers \cup PushDrivers /\ ClientOK(k)
      /\ k[2] = target[c] /\ n # 0
  BY Holds, Types
<1>1. ClientOf(c)' = k /\ Driver(c)' = Driver(c) /\ Conn(c)' = n
  BY DEF ClientOf, Driver, Conn
<1>2. /\ \A d \in Calls \ {c} : LockOK(d)'
      /\ \A j \in Clients \ {k} : ClientOK(j)'
  BY <1>0, OthersKept
<1>3. LockOK(c)'
  <2>1. {"challenge", "connect", "send", "wait"} \subseteq Locked
    BY DEF Locked
  <2>. QED
    BY <1>0, <1>1, <2>1 DEF LockOK
<1>4. ClientOK(k)'
  <2>1. link'[n].to = k[2]
    BY <1>0 DEF ClientOK
  <2>2. k[2].driver = Driver(c)
    BY <1>0 DEF Driver
  <2>3. holder'[k] \in Calls => at'[holder'[k]] \in Locked /\ ClientOf(holder[k])' = k
    BY <1>0, <1>1, Types DEF Locked
  <2>4. holder'[k] \in Calls => holder'[k] = c
    BY <1>0, Types
  <2>5. Driver(c) \in OpenClawDrivers =>
           Session(link'[n], authed'[k], holder'[k], at'[holder'[k]])
    BY <2>4 DEF Session
  <2>. QED
    BY <1>0, <2>1, <2>2, <2>3, <2>4, <2>5 DEF ClientOK
<1>5. OwnLinks'
  BY DEF GwInv, OwnLinks
<1>. QED
  BY <1>2, <1>3, <1>4, <1>5

LEMMA AnswerChallengeKept ==
    ASSUME GwInv, NEW c \in Calls, NEW n, n = Conn(c), NEW k, k = ClientOf(c), AnswerChallenge(c)
    PROVE  GwInv'
<1>. DEFINE q == Written(n, Connect)
<1>. GatewayTypeOK
  BY DEF GwInv
<1>0. /\ at[c] = "challenge" /\ link[n].inbox # <<>>
      /\ link' = [q EXCEPT ![n].inbox = Tail(@)]
      /\ at' = [at EXCEPT ![c] = "connect"]
      /\ UNCHANGED <<endpoint, kind, target, result, holder, cached, authed, wire, ran>>
  BY DEF AnswerChallenge, Readable, GoTo
<1>1. /\ n \in Links /\ n = cached[k] /\ link[n].to = target[c] /\ link[n].state # "none"
      /\ Driver(c) \in OpenClawDrivers /\ Session(link[n], authed[k], c, at[c])
      /\ k \in Clients /\ holder[k] = c /\ at[c] \in Locked
  BY <1>0, Holds, HoldsLink DEF GwInv, LockOK, Locked
<1>2. /\ q \in [Links -> LinkRecord]
      /\ \A m \in Links : m # n => q[m] = link[m]
      /\ q[n].to = link[n].to /\ q[n].state = link[n].state
      /\ q[n].welcome = link[n].welcome /\ q[n].inbox = link[n].inbox
      /\ q[n].todo \subseteq link[n].todo \cup {Connect}
  BY <1>1, WrittenFacts
<1>. HIDE DEF q
<1>3. /\ Tail(link[n].inbox) \in Seq(Frame)
      /\ Frames(Tail(link[n].inbox)) \subseteq Frames(link[n].inbox)
  BY <1>0, <1>1, Types, FramesOf
<1>. DEFINE l == [q[n] EXCEPT !.inbox = Tail(link[n].inbox)]
<1>4. /\ l \in LinkRecord /\ l.to = link[n].to /\ l.state = link[n].state
      /\ l.welcome = link[n].welcome /\ l.todo = q[n].todo /\ l.inbox = Tail(link[n].inbox)
  <2>1. q[n] \in LinkRecord
    BY <1>1, <1>2
  <2>. QED
    BY <1>2, <1>3, <2>1 DEF LinkRecord
<1>5. link' = [q EXCEPT ![n] = l]
  BY <1>0, <1>2
<1>. HIDE DEF l
<1>6. /\ link' \in [Links -> LinkRecord] /\ link'[n] = l
      /\ \A m \in Links : m # n => link'[m] = link[m]
  BY <1>1, <1>2, <1>4, <1>5
<1>7. GatewayTypeOK'
  <2>1. at' \in [Calls -> CallPlaces]
    BY <1>0, PlacesIn DEF GatewayTypeOK, Unsent
  <2>. QED
    BY <1>0, <1>6, <2>1 DEF GatewayTypeOK
<1>8. ASSUME NEW d \in Calls PROVE CallOK(d)'
  <2>1. CallOK(d) /\ d # Connect
    BY Types DEF GwInv
  <2>a. at \in [Calls -> CallPlaces]
    BY DEF GatewayTypeOK
  <2>2. at'[d] = at[d] \/ (d = c /\ at[d] = "challenge" /\ at'[d] = "connect")
    BY <1>0, <2>a
  <2>3. result'[d] = result[d] /\ (at'[d] # "returned" => result'[d] = "none")
    BY <1>0, <2>1, <2>2 DEF CallOK
  <2>4. at'[d] \in Unsent => at[d] \in Unsent
    BY <2>2, PlacesIn
  <2>5. ASSUME NEW m \in Links
        PROVE  /\ d \in link'[m].todo => d \in link[m].todo /\ link'[m].to = link[m].to
               /\ \A f \in Frames(link'[m].inbox) : f.id = d => f \in Frames(link[m].inbox)
    BY <1>2, <1>3, <1>4, <1>6, <2>1
  <2>. QED
    BY <1>0, <2>1, <2>3, <2>4, <2>5, CallKept
<1>9. Session(link'[n], authed'[k], holder'[k], at'[c])
  <2>1. link'[n].todo \subseteq {Connect}
    BY <1>0, <1>1, <1>2, <1>4, <1>6 DEF Session
  <2>2. \A f \in Frames(link'[n].inbox) : f.id # Connect
    BY <1>0, <1>1, <1>3, <1>4, <1>6, Types, ZenonT(90) DEF Session
  <2>3. at'[c] = "connect" /\ holder'[k] = c
    BY <1>0, <1>1 DEF GatewayTypeOK
  <2>. QED
    BY <2>1, <2>2, <2>3, Types DEF Session
<1>10. /\ \A d \in Calls : LockOK(d)'
       /\ \A j \in Clients : ClientOK(j)'
       /\ OwnLinks'
  <2>1. at'[c] = "connect" /\ \A d \in Calls \ {c} : at'[d] = at[d]
    BY <1>0 DEF GatewayTypeOK
  <2>. QED
    BY <1>0, <1>1, <1>4, <1>6, <1>9, <2>1, SessionKept, ZenonT(90)
<1>. QED
  BY <1>7, <1>8, <1>10 DEF GwInv

LEMMA ConnectedKept ==
    ASSUME GwInv, NEW c \in Calls, NEW n, n = Conn(c), NEW k, k = ClientOf(c), Connected(c)
    PROVE  GwInv'
<1>. GatewayTypeOK
  BY DEF GwInv
<1>0. /\ at[c] = "connect" /\ link[n].inbox # <<>>
      /\ Head(link[n].inbox).id = Connect /\ Head(link[n].inbox).ok
      /\ link' = Rest(n)
      /\ authed' = [authed EXCEPT ![k] = TRUE]
      /\ at' = [at EXCEPT ![c] = "send"]
      /\ UNCHANGED <<endpoint, kind, target, result, holder, cached, wire, ran>>
  BY DEF Connected, Readable, Read, GoTo
<1>1. /\ n \in Links /\ n = cached[k] /\ link[n].to = target[c] /\ link[n].state # "none"
      /\ Driver(c) \in OpenClawDrivers /\ Session(link[n], authed[k], c, at[c])
      /\ k \in Clients /\ holder[k] = c /\ at[c] \in Locked
  BY <1>0, Holds, HoldsLink DEF GwInv, LockOK, Locked
<1>2. /\ link' \in [Links -> LinkRecord]
      /\ \A m \in Links : m # n => link'[m] = link[m]
      /\ link'[n].to = link[n].to /\ link'[n].state = link[n].state
      /\ link'[n].welcome = link[n].welcome /\ link'[n].todo = link[n].todo
      /\ Frames(link'[n].inbox) \subseteq Frames(link[n].inbox)
  BY <1>0, <1>1, RestFacts
<1>3. at \in [Calls -> CallPlaces] /\ authed \in [Clients -> BOOLEAN]
  BY DEF GatewayTypeOK
<1>4. /\ at'[c] = "send" /\ \A d \in Calls \ {c} : at'[d] = at[d]
      /\ authed'[k] = TRUE /\ \A j \in Clients \ {k} : authed'[j] = authed[j]
      /\ at' \in [Calls -> CallPlaces] /\ authed' \in [Clients -> BOOLEAN]
  BY <1>0, <1>1, <1>3, PlacesIn DEF Unsent
<1>5. GatewayTypeOK'
  BY <1>0, <1>2, <1>4 DEF GatewayTypeOK
<1>6. ASSUME NEW d \in Calls PROVE CallOK(d)'
  <2>1. CallOK(d)
    BY DEF GwInv
  <2>2. at'[d] \in Unsent => at[d] \in Unsent
    BY <1>0, <1>4, PlacesIn
  <2>3. at'[d] # "returned" => result'[d] = "none"
    BY <1>0, <1>4, <2>1 DEF CallOK
  <2>. QED
    BY <1>0, <1>2, <2>1, <2>2, <2>3, CallKept
<1>7. Session(link'[n], authed'[k], holder'[k], at'[c])
  <2>1. link[n].todo = {} /\ link[n].welcome
    <3>1. Head(link[n].inbox) \in Frames(link[n].inbox)
      BY <1>0, <1>1, Types, FramesOf
    <3>. QED
      BY <1>0, <1>1, <3>1 DEF Session
  <2>. QED
    BY <1>0, <1>1, <1>2, <1>4, <2>1, Types DEF Session
<1>8. /\ \A d \in Calls : LockOK(d)'
      /\ \A j \in Clients : ClientOK(j)'
      /\ OwnLinks'
  <2>1. /\ at'[c] \in {"challenge", "connect", "send", "wait"} /\ holder'[k] = c
        /\ \A d \in Calls \ {c} : at'[d] = at[d] /\ result'[d] = result[d]
        /\ \A j \in Clients \ {k} : holder'[j] = holder[j] /\ authed'[j] = authed[j]
        /\ link'[n].to = link[n].to /\ link'[n].state # "none"
        /\ UNCHANGED <<kind, target, ran, wire, cached>>
    BY <1>0, <1>1, <1>2, <1>4
  <2>. QED
    BY <1>1, <1>2, <1>7, <2>1, SessionKept
<1>. QED
  BY <1>5, <1>6, <1>8 DEF GwInv

\* Sending, by either kind of driver: the request is on its way, or nowhere if
\* the other end is gone.
LEMMA SentOK ==
    ASSUME GwInv, NEW c \in Calls, NEW n, n = Conn(c), NEW k, k = ClientOf(c),
           at[c] = "send", link' = Written(n, c),
           UNCHANGED <<target, wire, ran>>,
           \A d \in Calls \ {c} : at'[d] = at[d] /\ result'[d] = result[d],
           at'[c] \notin Unsent,
           at'[c] # "returned" => result'[c] = "none",
           result'[c] = "ok" => ~Waits(c)
    PROVE  \A d \in Calls : CallOK(d)'
<1>. GatewayTypeOK
  BY DEF GwInv
<1>1. n \in Links /\ link[n].to = target[c]
  BY HoldsLink
<1>2. /\ \A m \in Links : m # n => link'[m] = link[m]
      /\ link'[n].to = link[n].to /\ link'[n].inbox = link[n].inbox
      /\ link'[n].todo \subseteq link[n].todo \cup {c}
  BY <1>1, WrittenFacts
<1>3. Nowhere(c)
  BY PlacesIn DEF GwInv, CallOK
<1>4. CallOK(c)'
  <2>1. Waits(c)' = Waits(c)
    BY DEF Waits, Driver
  <2>2. \A m \in Links : /\ c \in link'[m].todo => m = n
                         /\ \A f \in Frames(link'[m].inbox) : f.id # c
    BY <1>1, <1>2, <1>3 DEF Nowhere, Box
  <2>. QED
    BY <1>1, <1>2, <1>3, <2>1, <2>2 DEF CallOK, Nowhere, Box
<1>5. ASSUME NEW d \in Calls \ {c} PROVE CallOK(d)'
  <2>1. CallOK(d) /\ (at'[d] # "returned" => result'[d] = "none")
    BY DEF GwInv, CallOK
  <2>2. ASSUME NEW m \in Links
        PROVE  /\ d \in link'[m].todo => d \in link[m].todo /\ link'[m].to = link[m].to
               /\ \A f \in Frames(link'[m].inbox) : f.id = d => f \in Frames(link[m].inbox)
    BY <1>2
  <2>. QED
    BY <2>1, <2>2, CallKept
<1>. QED
  BY <1>4, <1>5

LEMMA SendRequestKept ==
    ASSUME GwInv, NEW c \in Calls, NEW n, n = Conn(c), NEW k, k = ClientOf(c), SendRequest(c)
    PROVE  GwInv'
<1>. GatewayTypeOK
  BY DEF GwInv
<1>0. /\ at[c] = "send" /\ Driver(c) \in OpenClawDrivers
      /\ link' = Written(n, c)
      /\ at' = [at EXCEPT ![c] = "wait"]
      /\ UNCHANGED <<endpoint, kind, target, result, holder, cached, authed, wire, ran>>
  BY DEF SendRequest, GoTo
<1>1. /\ n \in Links /\ n = cached[k] /\ link[n].to = target[c] /\ link[n].state # "none"
      /\ Session(link[n], authed[k], c, at[c])
      /\ k \in Clients /\ holder[k] = c /\ at[c] \in Locked
  BY <1>0, Holds, HoldsLink DEF GwInv, LockOK, Locked
<1>2. /\ link' \in [Links -> LinkRecord]
      /\ \A m \in Links : m # n => link'[m] = link[m]
      /\ link'[n].to = link[n].to /\ link'[n].state = link[n].state
      /\ link'[n].welcome = link[n].welcome /\ link'[n].todo \subseteq link[n].todo \cup {c}
  BY <1>0, <1>1, WrittenFacts
<1>3. at \in [Calls -> CallPlaces]
  BY DEF GatewayTypeOK
<1>4. /\ at'[c] = "wait" /\ \A d \in Calls \ {c} : at'[d] = at[d]
      /\ at' \in [Calls -> CallPlaces]
  BY <1>0, <1>3, PlacesIn DEF Locked
<1>5. GatewayTypeOK'
  BY <1>0, <1>2, <1>4 DEF GatewayTypeOK
<1>6. \A d \in Calls : CallOK(d)'
  <2>1. result[c] = "none"
    BY <1>0 DEF GwInv, CallOK
  <2>. QED
    BY <1>0, <1>4, <2>1, PlacesIn, SentOK
<1>7. Session(link'[n], authed'[k], holder'[k], at'[c])
  BY <1>0, <1>1, <1>2, <1>4, Types DEF Session
<1>8. /\ \A d \in Calls : LockOK(d)'
      /\ \A j \in Clients : ClientOK(j)'
      /\ OwnLinks'
  BY <1>0, <1>1, <1>2, <1>4, <1>7, SessionKept
<1>. QED
  BY <1>5, <1>6, <1>8 DEF GwInv

LEMMA PushMessageKept ==
    ASSUME GwInv, NEW c \in Calls, NEW n, n = Conn(c), NEW k, k = ClientOf(c), PushMessage(c)
    PROVE  GwInv'
<1>. GatewayTypeOK
  BY DEF GwInv
<1>0. /\ at[c] = "send" /\ Driver(c) \in PushDrivers
      /\ link' = Written(n, c)
      /\ at' = [at EXCEPT ![c] = "returned"]
      /\ result' = [result EXCEPT ![c] = "ok"]
      /\ holder' = [holder EXCEPT ![k] = NoCall]
      /\ UNCHANGED <<endpoint, kind, target, cached, authed, wire, ran>>
  BY DEF PushMessage, Return, GoTo, Unlock
<1>1. /\ n \in Links /\ n = cached[k] /\ link[n].to = target[c] /\ link[n].state # "none"
      /\ k \in Clients /\ holder[k] = c /\ at[c] \in Locked
      /\ Driver(c) \notin OpenClawDrivers /\ ~Waits(c)
  BY <1>0, Holds, HoldsLink DEF Locked, PushDrivers, OpenClawDrivers, Waits
<1>2. /\ link' \in [Links -> LinkRecord]
      /\ \A m \in Links : m # n => link'[m] = link[m]
      /\ link'[n].to = link[n].to /\ link'[n].state = link[n].state
  BY <1>0, <1>1, WrittenFacts
<1>3. /\ at \in [Calls -> CallPlaces] /\ result \in [Calls -> {"none", "ok", "error"}]
      /\ holder \in [Clients -> Calls \cup {NoCall}]
  BY DEF GatewayTypeOK
<1>4. /\ at'[c] = "returned" /\ holder'[k] = NoCall
      /\ \A d \in Calls \ {c} : at'[d] = at[d] /\ result'[d] = result[d]
      /\ \A j \in Clients \ {k} : holder'[j] = holder[j]
      /\ at' \in [Calls -> CallPlaces] /\ result' \in [Calls -> {"none", "ok", "error"}]
      /\ holder' \in [Clients -> Calls \cup {NoCall}]
  BY <1>0, <1>1, <1>3, PlacesIn
<1>5. GatewayTypeOK'
  BY <1>0, <1>2, <1>4 DEF GatewayTypeOK
<1>6. \A d \in Calls : CallOK(d)'
  BY <1>0, <1>1, <1>4, PlacesIn, SentOK
<1>7. /\ \A d \in Calls : LockOK(d)'
      /\ \A j \in Clients : ClientOK(j)'
      /\ OwnLinks'
  <2>1. at'[c] \notin Locked \cup {"sandbox", "lock"}
    BY <1>4, PlacesIn
  <2>. QED
    BY <1>0, <1>1, <1>2, <1>4, <2>1, SessionKept
<1>. QED
  BY <1>5, <1>6, <1>7 DEF GwInv

LEMMA ReceiveAnswerKept ==
    ASSUME GwInv, NEW c \in Calls, NEW n, n = Conn(c), NEW k, k = ClientOf(c), ReceiveAnswer(c)
    PROVE  GwInv'
<1>. GatewayTypeOK
  BY DEF GwInv
<1>0. /\ at[c] = "wait" /\ link[n].inbox # <<>>
      /\ Head(link[n].inbox) = [id |-> c, ok |-> TRUE]
      /\ link' = Rest(n)
      /\ at' = [at EXCEPT ![c] = "returned"]
      /\ holder' = [holder EXCEPT ![k] = NoCall]
      /\ UNCHANGED <<endpoint, kind, target, cached, authed, wire, ran>>
  BY DEF ReceiveAnswer, Readable, Read, Return, GoTo, Unlock
<1>a. PICK r \in {"ok", "error"} : result' = [result EXCEPT ![c] = r]
  BY DEF ReceiveAnswer, Return
<1>1. /\ n \in Links /\ n = cached[k] /\ link[n].to = target[c] /\ link[n].state # "none"
      /\ Driver(c) \in OpenClawDrivers /\ Session(link[n], authed[k], c, at[c])
      /\ k \in Clients /\ holder[k] = c /\ at[c] \in Locked
  BY <1>0, Holds, HoldsLink DEF GwInv, LockOK, Locked
<1>2. /\ link' \in [Links -> LinkRecord]
      /\ \A m \in Links : m # n => link'[m] = link[m]
      /\ link'[n].to = link[n].to /\ link'[n].state = link[n].state
      /\ link'[n].welcome = link[n].welcome /\ link'[n].todo = link[n].todo
      /\ Frames(link'[n].inbox) \subseteq Frames(link[n].inbox)
  BY <1>0, <1>1, RestFacts
<1>3. /\ at \in [Calls -> CallPlaces] /\ result \in [Calls -> {"none", "ok", "error"}]
      /\ holder \in [Clients -> Calls \cup {NoCall}]
  BY DEF GatewayTypeOK
<1>4. /\ at'[c] = "returned" /\ holder'[k] = NoCall
      /\ \A d \in Calls \ {c} : at'[d] = at[d] /\ result'[d] = result[d]
      /\ \A j \in Clients \ {k} : holder'[j] = holder[j]
      /\ at' \in [Calls -> CallPlaces] /\ result' \in [Calls -> {"none", "ok", "error"}]
      /\ holder' \in [Clients -> Calls \cup {NoCall}]
  BY <1>0, <1>a, <1>1, <1>3, PlacesIn
<1>5. GatewayTypeOK'
  BY <1>0, <1>2, <1>4 DEF GatewayTypeOK
<1>b. ran[c] = <<target[c]>> /\ c \notin link[n].todo
  <2>1. [id |-> c, ok |-> TRUE] \in Frames(link[n].inbox)
    BY <1>0, <1>1, Types, FramesOf
  <2>2. ran[c] = <<target[c]>>
    BY <1>1, <2>1 DEF GwInv, CallOK, Box
  <2>3. c \in link[n].todo => ran[c] = <<>>
    BY <1>1 DEF GwInv, CallOK
  <2>. QED
    BY <2>2, <2>3
<1>6. ASSUME NEW d \in Calls PROVE CallOK(d)'
  <2>1. CallOK(d)
    BY DEF GwInv
  <2>2. at'[d] \in Unsent => at[d] \in Unsent
    BY <1>4, PlacesIn
  <2>3. at'[d] # "returned" => result'[d] = "none"
    BY <1>4, <2>1 DEF CallOK
  <2>4. result'[d] = "ok" => result[d] = "ok" \/ ran[d] = <<target[d]>>
    BY <1>4, <1>b
  <2>. QED
    BY <1>0, <1>2, <2>1, <2>2, <2>3, <2>4, CallKept
<1>7. Session(link'[n], authed'[k], holder'[k], at'[c])
  <2>1. link[n].todo = {} /\ authed[k] /\ link[n].welcome
    BY <1>0, <1>1, <1>b DEF Session
  <2>. QED
    BY <1>0, <1>2, <1>4, <2>1, Types DEF Session
<1>8. /\ \A d \in Calls : LockOK(d)'
      /\ \A j \in Clients : ClientOK(j)'
      /\ OwnLinks'
  <2>1. at'[c] \notin Locked \cup {"sandbox", "lock"}
    BY <1>4, PlacesIn
  <2>. QED
    BY <1>0, <1>1, <1>2, <1>4, <1>7, <2>1, SessionKept
<1>. QED
  BY <1>5, <1>6, <1>8 DEF GwInv

\* Every failure under the mutex: the client starts afresh.
LEMMA CallFailsKept ==
    ASSUME GwInv, NEW c \in Calls, NEW k, k = ClientOf(c), CallFails(c)
    PROVE  GwInv'
<1>. GatewayTypeOK
  BY DEF GwInv
<1>0. /\ at[c] \in Locked
      /\ cached' = [cached EXCEPT ![k] = 0]
      /\ authed' = [authed EXCEPT ![k] = FALSE]
      /\ link' = Closed(k)
      /\ at' = [at EXCEPT ![c] = "returned"]
      /\ result' = [result EXCEPT ![c] = "error"]
      /\ holder' = [holder EXCEPT ![k] = NoCall]
      /\ UNCHANGED <<endpoint, kind, target, wire, ran>>
  BY DEF CallFails, DropConn, Return, GoTo, Unlock
<1>1. k \in Clients /\ holder[k] = c
  BY <1>0, Holds
<1>2. /\ link' \in [Links -> LinkRecord]
      /\ \A m \in Links :
           /\ m # cached[k] => link'[m] = link[m]
           /\ link'[m].to = link[m].to /\ link'[m].todo = link[m].todo
           /\ Frames(link'[m].inbox) \subseteq Frames(link[m].inbox)
  BY <1>0, <1>1, DropFacts
<1>3. /\ at \in [Calls -> CallPlaces] /\ result \in [Calls -> {"none", "ok", "error"}]
      /\ holder \in [Clients -> Calls \cup {NoCall}]
      /\ cached \in [Clients -> Links \cup {0}] /\ authed \in [Clients -> BOOLEAN]
  BY DEF GatewayTypeOK
<1>4. /\ at'[c] = "returned" /\ result'[c] = "error" /\ holder'[k] = NoCall /\ cached'[k] = 0
      /\ \A d \in Calls \ {c} : at'[d] = at[d] /\ result'[d] = result[d]
      /\ \A j \in Clients \ {k} : /\ holder'[j] = holder[j] /\ cached'[j] = cached[j]
                                  /\ authed'[j] = authed[j]
      /\ at' \in [Calls -> CallPlaces] /\ result' \in [Calls -> {"none", "ok", "error"}]
      /\ holder' \in [Clients -> Calls \cup {NoCall}]
      /\ cached' \in [Clients -> Links \cup {0}] /\ authed' \in [Clients -> BOOLEAN]
  BY <1>0, <1>1, <1>3, PlacesIn
<1>5. GatewayTypeOK'
  BY <1>0, <1>2, <1>4 DEF GatewayTypeOK
<1>6. ASSUME NEW d \in Calls PROVE CallOK(d)'
  <2>1. CallOK(d)
    BY DEF GwInv
  <2>2. at'[d] \in Unsent => at[d] \in Unsent
    BY <1>4, PlacesIn
  <2>3. /\ at'[d] # "returned" => result'[d] = "none"
        /\ result'[d] = "ok" => result[d] = "ok"
    BY <1>4, <2>1 DEF CallOK
  <2>. QED
    BY <1>0, <1>2, <2>1, <2>2, <2>3, CallKept
<1>7. /\ \A d \in Calls \ {c} : LockOK(d)'
      /\ \A j \in Clients \ {k} : ClientOK(j)'
  <2>1. UNCHANGED <<kind, target, ran, wire>> /\ holder[k] \in {c, NoCall}
    BY <1>0, <1>1
  <2>2. \A m \in Links : link'[m] = link[m] \/ m = cached[k]
    BY <1>2
  <2>. QED
    BY <1>1, <1>4, <2>1, <2>2, OthersKept
<1>8. LockOK(c)'
  BY <1>4, PlacesIn DEF LockOK
<1>9. ClientOK(k)'
  BY <1>4, Types DEF ClientOK
<1>10. OwnLinks'
  BY <1>1, <1>4 DEF GwInv, OwnLinks
<1>. QED
  BY <1>5, <1>6, <1>7, <1>8, <1>9, <1>10 DEF GwInv

LEMMA LockKept ==
    ASSUME GwInv, NEW c \in Calls, NEW k, k = ClientOf(c), Lock(c)
    PROVE  GwInv'
<1>. GatewayTypeOK
  BY DEF GwInv
<1>0. /\ at[c] = "lock" /\ holder[k] = NoCall
      /\ holder' = [holder EXCEPT ![k] = c]
      /\ UNCHANGED <<endpoint, kind, target, result, wire, ran>>
  BY DEF Lock
<1>1. /\ Driver(c) \in OpenClawDrivers \cup PushDrivers /\ k \in Clients /\ k[2] = target[c]
      /\ ClientOK(k) /\ LockOK(c) /\ at[c] \notin Locked
  <2>1. LockOK(c) /\ Driver(c) \in OpenClawDrivers \cup PushDrivers
    BY <1>0 DEF GwInv, LockOK
  <2>2. k \in Clients /\ k[2] = target[c]
    BY <2>1, ClientType
  <2>. QED
    BY <1>0, <2>1, <2>2 DEF GwInv, Locked
<1>2. CASE /\ Reusable(c)
           /\ GoTo(c, "send")
           /\ UNCHANGED <<cached, authed, link>>
  <2>1. cached[k] # 0 /\ (Driver(c) \in PushDrivers \/ authed[k])
    BY <1>2 DEF Reusable, Conn
  <2>2. /\ at' = [at EXCEPT ![c] = "send"]
        /\ UNCHANGED <<cached, authed, link>>
    BY <1>2 DEF GoTo
  <2>3. at \in [Calls -> CallPlaces] /\ holder \in [Clients -> Calls \cup {NoCall}]
    BY DEF GatewayTypeOK
  <2>4. /\ at'[c] = "send" /\ holder'[k] = c
        /\ \A d \in Calls \ {c} : at'[d] = at[d]
        /\ \A j \in Clients \ {k} : holder'[j] = holder[j]
        /\ at' \in [Calls -> CallPlaces] /\ holder' \in [Clients -> Calls \cup {NoCall}]
    BY <1>0, <1>1, <2>2, <2>3, PlacesIn DEF Locked
  <2>5. GatewayTypeOK'
    BY <1>0, <2>2, <2>4 DEF GatewayTypeOK
  <2>6. ASSUME NEW d \in Calls PROVE CallOK(d)'
    <3>1. CallOK(d)
      BY DEF GwInv
    <3>2. at'[d] \in Unsent => at[d] \in Unsent
      BY <1>0, <2>4 DEF Unsent
    <3>3. at'[d] # "returned" => result'[d] = "none"
      BY <1>0, <2>4, <3>1 DEF CallOK
    <3>. QED
      BY <1>0, <2>2, <3>1, <3>2, <3>3, CallKept
  <2>7. /\ \A d \in Calls \ {c} : LockOK(d)'
        /\ \A j \in Clients \ {k} : ClientOK(j)'
    BY <1>0, <1>1, <2>2, <2>4, OthersKept
  <2>8. ClientOf(c)' = k /\ Driver(c)' = Driver(c) /\ Conn(c)' = cached[k]
    BY <1>0, <2>2 DEF ClientOf, Driver, Conn
  <2>9. LockOK(c)'
    BY <1>1, <2>1, <2>4, <2>8 DEF LockOK
  <2>10. ClientOK(k)'
    <3>1. at'[c] \in Locked
      BY <2>4 DEF Locked
    <3>2. k[2].driver \in OpenClawDrivers => Session(link[cached[k]], authed[k], c, "send")
      BY <1>0, <1>1, <2>1 DEF ClientOK, Session
    <3>. QED
      BY <1>1, <2>2, <2>4, <2>8, <3>1, <3>2 DEF ClientOK
  <2>11. OwnLinks'
    BY <2>2 DEF GwInv, OwnLinks
  <2>. QED
    BY <2>5, <2>6, <2>7, <2>9, <2>10, <2>11 DEF GwInv
<1>3. CASE /\ ~Reusable(c)
           /\ GoTo(c, "dial")
           /\ DropConn(k)
  <2>2. /\ at' = [at EXCEPT ![c] = "dial"]
        /\ cached' = [cached EXCEPT ![k] = 0]
        /\ authed' = [authed EXCEPT ![k] = FALSE]
        /\ link' = Closed(k)
    BY <1>3 DEF GoTo, DropConn
  <2>1. /\ link' \in [Links -> LinkRecord]
        /\ \A m \in Links :
             /\ m # cached[k] => link'[m] = link[m]
             /\ link'[m].to = link[m].to /\ link'[m].todo = link[m].todo
             /\ Frames(link'[m].inbox) \subseteq Frames(link[m].inbox)
    BY <1>1, <2>2, DropFacts
  <2>3. /\ at \in [Calls -> CallPlaces] /\ holder \in [Clients -> Calls \cup {NoCall}]
        /\ cached \in [Clients -> Links \cup {0}] /\ authed \in [Clients -> BOOLEAN]
    BY DEF GatewayTypeOK
  <2>4. /\ at'[c] = "dial" /\ holder'[k] = c /\ cached'[k] = 0
        /\ \A d \in Calls \ {c} : at'[d] = at[d]
        /\ \A j \in Clients \ {k} : /\ holder'[j] = holder[j] /\ cached'[j] = cached[j]
                                    /\ authed'[j] = authed[j]
        /\ at' \in [Calls -> CallPlaces] /\ holder' \in [Clients -> Calls \cup {NoCall}]
        /\ cached' \in [Clients -> Links \cup {0}] /\ authed' \in [Clients -> BOOLEAN]
    BY <1>0, <1>1, <2>2, <2>3, PlacesIn DEF Locked
  <2>5. GatewayTypeOK'
    BY <1>0, <2>1, <2>4 DEF GatewayTypeOK
  <2>6. ASSUME NEW d \in Calls PROVE CallOK(d)'
    <3>1. CallOK(d)
      BY DEF GwInv
    <3>2. at'[d] \in Unsent => at[d] \in Unsent
      BY <1>0, <2>4 DEF Unsent
    <3>3. at'[d] # "returned" => result'[d] = "none"
      BY <1>0, <2>4, <3>1 DEF CallOK
    <3>. QED
      BY <1>0, <2>1, <3>1, <3>2, <3>3, CallKept
  <2>7. /\ \A d \in Calls \ {c} : LockOK(d)'
        /\ \A j \in Clients \ {k} : ClientOK(j)'
    BY <1>0, <1>1, <2>1, <2>4, OthersKept
  <2>8. ClientOf(c)' = k /\ Driver(c)' = Driver(c)
    BY <1>0 DEF ClientOf, Driver
  <2>9. LockOK(c)'
    BY <1>1, <2>4, <2>8 DEF LockOK
  <2>10. ClientOK(k)'
    <3>1. at'[c] \in Locked
      BY <2>4 DEF Locked
    <3>. QED
      BY <2>4, <2>8, <3>1 DEF ClientOK
  <2>11. OwnLinks'
    BY <1>1, <2>4 DEF GwInv, OwnLinks
  <2>. QED
    BY <2>5, <2>6, <2>7, <2>9, <2>10, <2>11 DEF GwInv
<1>. QED
  BY <1>2, <1>3 DEF Lock

LEMMA DialKept ==
    ASSUME GwInv, NEW c \in Calls, NEW k, k = ClientOf(c), Dial(c)
    PROVE  GwInv'
<1>. GatewayTypeOK
  BY DEF GwInv
<1>0. /\ at[c] = "dial"
      /\ at' = [at EXCEPT ![c] = IF Driver(c) \in PushDrivers THEN "send" ELSE "challenge"]
      /\ UNCHANGED <<endpoint, kind, target, result, holder, authed, wire, ran>>
  BY DEF Dial, GoTo
<1>1. PICK n \in Links, hello \in BOOLEAN :
         /\ link[n].state = "none"
         /\ cached' = [cached EXCEPT ![k] = n]
         /\ link' = [link EXCEPT ![n] =
                [to |-> target[c], state |-> "up", welcome |-> FALSE, todo |-> {},
                 inbox |-> IF hello THEN <<[id |-> Challenge, ok |-> TRUE]>> ELSE <<>>]]
  BY DEF Dial
<1>2. /\ k \in Clients /\ k[2] = target[c] /\ holder[k] = c /\ at[c] \in Locked
      /\ Driver(c) \in OpenClawDrivers \cup PushDrivers
  BY <1>0, Holds DEF Locked
<1>. DEFINE inbox == IF hello THEN <<[id |-> Challenge, ok |-> TRUE]>> ELSE <<>>
            l == [to |-> target[c], state |-> "up", welcome |-> FALSE, todo |-> {}, inbox |-> inbox]
<1>3. inbox \in Seq(Frame) /\ \A f \in Frames(inbox) : f.id = Challenge
  <2>1. [id |-> Challenge, ok |-> TRUE] \in Frame
    BY DEF Frame
  <2>2. <<[id |-> Challenge, ok |-> TRUE]>> \in Seq(Frame)
        /\ Frames(<<[id |-> Challenge, ok |-> TRUE]>>) = {[id |-> Challenge, ok |-> TRUE]}
    BY <2>1, OneFrame
  <2>3. CASE hello
    <3>1. inbox = <<[id |-> Challenge, ok |-> TRUE]>>
      BY <2>3
    <3>. HIDE DEF inbox
    <3>2. inbox \in Seq(Frame)
      BY <2>2, <3>1
    <3>3. Frames(inbox) = {[id |-> Challenge, ok |-> TRUE]}
      BY <2>2, <3>1
    <3>4. [id |-> Challenge, ok |-> TRUE].id = Challenge
      OBVIOUS
    <3>. QED
      BY <3>2, <3>3, <3>4
  <2>4. CASE ~hello
    BY <2>4, FramesOf
  <2>. QED
    BY <2>3, <2>4
<1>. HIDE DEF inbox
<1>4. /\ l \in LinkRecord /\ l.to = target[c] /\ l.state = "up" /\ l.todo = {} /\ l.inbox = inbox
  BY <1>3, Types DEF LinkRecord
<1>5. link' = [link EXCEPT ![n] = l]
  BY <1>1 DEF inbox
<1>. HIDE DEF l
<1>6. /\ link \in [Links -> LinkRecord] /\ at \in [Calls -> CallPlaces]
      /\ cached \in [Clients -> Links \cup {0}]
  BY DEF GatewayTypeOK
<1>7. /\ link' \in [Links -> LinkRecord] /\ link'[n] = l
      /\ \A m \in Links : m # n => link'[m] = link[m]
  BY <1>4, <1>5, <1>6
<1>8. /\ cached'[k] = n /\ \A j \in Clients \ {k} : cached'[j] = cached[j]
      /\ cached' \in [Clients -> Links \cup {0}]
  BY <1>1, <1>2, <1>6
<1>9. /\ at'[c] = "send" => Driver(c) \in PushDrivers
      /\ at'[c] = "challenge" => Driver(c) \in OpenClawDrivers
      /\ at'[c] \in {"send", "challenge"} /\ \A d \in Calls \ {c} : at'[d] = at[d]
      /\ at' \in [Calls -> CallPlaces]
  BY <1>0, <1>2, <1>6, PlacesIn DEF Locked
<1>10. GatewayTypeOK'
  BY <1>0, <1>7, <1>8, <1>9 DEF GatewayTypeOK
<1>11. ASSUME NEW d \in Calls PROVE CallOK(d)'
  <2>1. CallOK(d) /\ d # Challenge
    BY Types DEF GwInv
  <2>2. at'[d] \in Unsent => at[d] \in Unsent
    BY <1>0, <1>9, PlacesIn
  <2>3. at'[d] # "returned" => result'[d] = "none"
    BY <1>0, <1>9, <2>1 DEF CallOK
  <2>4. ASSUME NEW m \in Links
        PROVE  /\ d \in link'[m].todo => d \in link[m].todo /\ link'[m].to = link[m].to
               /\ \A f \in Frames(link'[m].inbox) : f.id = d => f \in Frames(link[m].inbox)
    BY <1>3, <1>4, <1>7, <2>1
  <2>. QED
    BY <1>0, <2>1, <2>2, <2>3, <2>4, CallKept
<1>12. /\ \A d \in Calls \ {c} : LockOK(d)'
       /\ \A j \in Clients \ {k} : ClientOK(j)'
  BY <1>0, <1>1, <1>2, <1>7, <1>8, <1>9, OthersKept
<1>13. ClientOf(c)' = k /\ Driver(c)' = Driver(c) /\ Conn(c)' = n
  BY <1>0, <1>8 DEF ClientOf, Driver, Conn
<1>14. LockOK(c)'
  <2>1. n # 0 /\ holder'[k] = c
    BY <1>0, <1>2, Types
  <2>. QED
    BY <1>2, <1>9, <1>13, <2>1 DEF LockOK
<1>15. ClientOK(k)'
  <2>1. holder'[k] = c /\ at'[c] \in Locked
    BY <1>0, <1>2, <1>9 DEF Locked
  <2>2. k[2].driver = Driver(c)
    BY <1>2 DEF Driver
  <2>3. Driver(c) \in OpenClawDrivers => at'[c] = "challenge"
    BY <1>9 DEF OpenClawDrivers, PushDrivers
  <2>4. Driver(c) \in OpenClawDrivers => Session(l, authed'[k], c, at'[c])
    BY <1>3, <1>4, <2>3, Types DEF Session
  <2>. QED
    BY <1>2, <1>4, <1>7, <1>8, <1>13, <2>1, <2>2, <2>4 DEF ClientOK
<1>16. OwnLinks'
  <2>1. \A j \in Clients : cached[j] # n
    BY <1>1, Types DEF GwInv, ClientOK
  <2>. QED
    BY <1>8, <2>1 DEF GwInv, OwnLinks
<1>. QED
  BY <1>10, <1>11, <1>12, <1>14, <1>15, <1>16 DEF GwInv

-----------------------------------------------------------------------------
(* The other end. *)

\* Sessions survive what leaves the connections as they are but one.
LEMMA OneLink ==
    ASSUME GwInv, NEW n \in Links,
           \A m \in Links : m # n => link'[m] = link[m],
           link'[n].to = link[n].to, link'[n].state = "none" => link[n].state = "none",
           \A k \in Clients :
              cached[k] = n /\ k[2].driver \in OpenClawDrivers
                 /\ Session(link[n], authed[k], holder[k], at[holder[k]])
              => Session(link'[n], authed[k], holder[k], at[holder[k]])
    PROVE  \A k \in Clients : cached[k] # 0 =>
              /\ link'[cached[k]].to = link[cached[k]].to
              /\ link'[cached[k]].state # "none"
              /\ k[2].driver \in OpenClawDrivers =>
                    Session(link'[cached[k]], authed[k], holder[k], at[holder[k]])
<1>. SUFFICES ASSUME NEW k \in Clients, cached[k] # 0
     PROVE  /\ link'[cached[k]].to = link[cached[k]].to
            /\ link'[cached[k]].state # "none"
            /\ k[2].driver \in OpenClawDrivers =>
                  Session(link'[cached[k]], authed[k], holder[k], at[holder[k]])
  OBVIOUS
<1>1. /\ cached[k] \in Links /\ link[cached[k]].state # "none"
      /\ k[2].driver \in OpenClawDrivers =>
            Session(link[cached[k]], authed[k], holder[k], at[holder[k]])
  BY Types DEF GwInv, ClientOK
<1>2. CASE cached[k] = n
  BY <1>1, <1>2
<1>3. CASE cached[k] # n
  BY <1>1, <1>3
<1>. QED
  BY <1>2, <1>3

\* The gateway takes a request of c off the connection, and may answer it.
LEMMA TakenKept ==
    ASSUME GwInv, NEW n \in Links, NEW c \in Calls, c \in link[n].todo, NEW g, g.id = c,
           UNCHANGED <<endpoint, at, kind, target, result, holder, cached, authed, wire>>,
           ran' = [ran EXCEPT ![c] = <<target[c]>>] \/ (~g.ok /\ ran' = ran),
           link' \in [Links -> LinkRecord],
           \A m \in Links : m # n => link'[m] = link[m],
           link'[n].to = link[n].to, link'[n].state = link[n].state,
           link'[n].welcome = link[n].welcome, link'[n].todo = link[n].todo \ {c},
           Frames(link'[n].inbox) \subseteq Frames(link[n].inbox) \cup {g}
    PROVE  GwInv'
<1>. GatewayTypeOK
  BY DEF GwInv
<1>1. CallOK(c) /\ target[c] \in Targets /\ c # Connect
  BY Types DEF GwInv
<1>2. /\ ran[c] = <<>> /\ wire[c] \in {"none", "error"} /\ at[c] \notin Unsent
      /\ \A m \in Links : m # n => c \notin link[m].todo
  BY <1>1 DEF CallOK, Nowhere
<1>3. ran \in [Calls -> Seq(Targets)]
  BY DEF GatewayTypeOK
<1>4. /\ ran' \in [Calls -> Seq(Targets)]
      /\ g.ok => ran'[c] = <<target[c]>>
      /\ ran'[c] \in {<<>>, <<target[c]>>}
      /\ ran'[c] = <<>> => ran' = ran
      /\ \A d \in Calls \ {c} : ran'[d] = ran[d]
  <2>1. <<target[c]>> \in Seq(Targets) /\ <<target[c]>> # <<>>
    BY <1>1
  <2>2. CASE ran' = [ran EXCEPT ![c] = <<target[c]>>]
    BY <1>3, <2>1, <2>2
  <2>3. CASE ~g.ok /\ ran' = ran
    BY <1>2, <1>3, <2>3
  <2>. QED
    BY <2>2, <2>3
<1>5. GatewayTypeOK'
  BY <1>4 DEF GatewayTypeOK
<1>6. CallOK(c)'
  <2>1. Waits(c)' = Waits(c)
    BY DEF Waits, Driver
  <2>2. ~(result[c] = "ok" /\ Waits(c))
    BY <1>1, <1>2 DEF CallOK
  <2>3. \A m \in Links : c \notin link'[m].todo
    BY <1>2
  <2>4. ASSUME NEW m \in Links, NEW f \in Frames(link'[m].inbox), f.id = c, f.ok
        PROVE  ran'[c] = <<target[c]>>
    <3>1. f \notin Frames(link[m].inbox)
      BY <1>1, <1>2, <2>4 DEF CallOK, Box
    <3>2. m = n /\ f = g
      BY <2>4, <3>1
    <3>3. g.ok
      BY <2>4, <3>2
    <3>. QED
      BY <1>4, <3>3
  <2>. QED
    BY <1>1, <1>2, <1>4, <2>1, <2>2, <2>3, <2>4 DEF CallOK, Box
<1>7. ASSUME NEW d \in Calls \ {c} PROVE CallOK(d)'
  <2>1. CallOK(d) /\ (at'[d] # "returned" => result'[d] = "none")
    BY DEF GwInv, CallOK
  <2>2. ASSUME NEW m \in Links
        PROVE  /\ d \in link'[m].todo => d \in link[m].todo /\ link'[m].to = link[m].to
               /\ \A f \in Frames(link'[m].inbox) : f.id = d => f \in Frames(link[m].inbox)
    OBVIOUS
  <2>. QED
    BY <1>4, <2>1, <2>2, CallKept
<1>8. ASSUME NEW k \in Clients, cached[k] = n, k[2].driver \in OpenClawDrivers,
             Session(link[n], authed[k], holder[k], at[holder[k]])
      PROVE  Session(link'[n], authed[k], holder[k], at[holder[k]])
  BY <1>1, <1>8 DEF Session
<1>9. /\ \A d \in Calls : LockOK(d)'
      /\ \A j \in Clients : ClientOK(j)'
      /\ OwnLinks'
  <2>1. \A k \in Clients : cached[k] # 0 =>
              /\ link'[cached[k]].to = link[cached[k]].to
              /\ link'[cached[k]].state # "none"
              /\ k[2].driver \in OpenClawDrivers =>
                    Session(link'[cached[k]], authed[k], holder[k], at[holder[k]])
    BY <1>8, OneLink
  <2>. QED
    BY <2>1, RemoteKept
<1>. QED
  BY <1>5, <1>6, <1>7, <1>9 DEF GwInv

LEMMA GatewayRunsKept == ASSUME GwInv, NEW n \in Links, GatewayRuns(n) PROVE GwInv'
<1>. GatewayTypeOK
  BY DEF GwInv
<1>1. PICK c \in link[n].todo \ {Connect} :
        /\ ran' = [ran EXCEPT ![c] = Append(@, link[n].to)]
        /\ IF Driver(c) \in PushDrivers
             THEN link' = [link EXCEPT ![n].todo = @ \ {c}]
             ELSE \E times \in 1 .. 2 : link' = Answered(n, c, TRUE, times)
  BY DEF GatewayRuns
<1>2. UNCHANGED <<endpoint, at, kind, target, result, holder, cached, authed, wire>>
  BY DEF GatewayRuns
<1>3. c \in Calls /\ link[n] \in LinkRecord
  BY Types
<1>4. ran[c] = <<>> /\ link[n].to = target[c] /\ target[c] \in Targets
  BY <1>3, Types DEF GwInv, CallOK
<1>5. ran' = [ran EXCEPT ![c] = <<target[c]>>]
  <2>1. Append(ran[c], link[n].to) = <<target[c]>>
    BY <1>4
  <2>. QED
    BY <1>1, <2>1
<1>0. PICK ok \in BOOLEAN : ok = TRUE
  OBVIOUS
<1>6. /\ link' \in [Links -> LinkRecord]
      /\ \A m \in Links : m # n => link'[m] = link[m]
      /\ link'[n].to = link[n].to /\ link'[n].state = link[n].state
      /\ link'[n].welcome = link[n].welcome /\ link'[n].todo = link[n].todo \ {c}
      /\ Frames(link'[n].inbox) \subseteq Frames(link[n].inbox) \cup {[id |-> c, ok |-> ok]}
  <2>1. CASE link' = [link EXCEPT ![n].todo = @ \ {c}]
    <3>. DEFINE l == [link[n] EXCEPT !.todo = link[n].todo \ {c}]
    <3>1. /\ l \in LinkRecord /\ l.to = link[n].to /\ l.state = link[n].state
          /\ l.welcome = link[n].welcome /\ l.todo = link[n].todo \ {c}
          /\ l.inbox = link[n].inbox
      BY <1>3 DEF LinkRecord
    <3>2. link' = [link EXCEPT ![n] = l]
      BY <2>1
    <3>. HIDE DEF l
    <3>3. /\ link' \in [Links -> LinkRecord] /\ link'[n] = l
          /\ \A m \in Links : m # n => link'[m] = link[m]
      BY <3>1, <3>2 DEF GatewayTypeOK
    <3>. QED
      BY <3>1, <3>3
  <2>2. CASE \E times \in 1 .. 2 : link' = Answered(n, c, ok, times)
    <3>1. PICK times \in 1 .. 2 : link' = Answered(n, c, ok, times)
      BY <2>2
    <3>. DEFINE q == Answered(n, c, ok, times)
    <3>2. /\ q \in [Links -> LinkRecord]
          /\ \A m \in Links : m # n => q[m] = link[m]
          /\ q[n].to = link[n].to /\ q[n].state = link[n].state
          /\ q[n].welcome = link[n].welcome /\ q[n].todo = link[n].todo \ {c}
          /\ Frames(q[n].inbox) \subseteq Frames(link[n].inbox) \cup {[id |-> c, ok |-> ok]}
      BY <1>3, AnsweredFacts
    <3>3. link' = q
      BY <3>1
    <3>. HIDE DEF q
    <3>. QED
      BY <3>2, <3>3
  <2>. QED
    BY <1>0, <1>1, <2>1, <2>2
<1>. DEFINE g == [id |-> c, ok |-> ok]
<1>7. g.id = c /\ c \in link[n].todo
  BY <1>1
<1>8. Frames(link'[n].inbox) \subseteq Frames(link[n].inbox) \cup {g}
  BY <1>6
<1>. HIDE DEF g
<1>9. ran' = [ran EXCEPT ![c] = <<target[c]>>] \/ (~g.ok /\ ran' = ran)
  BY <1>5
<1>10. /\ link' \in [Links -> LinkRecord]
       /\ \A m \in Links : m # n => link'[m] = link[m]
       /\ link'[n].to = link[n].to /\ link'[n].state = link[n].state
       /\ link'[n].welcome = link[n].welcome /\ link'[n].todo = link[n].todo \ {c}
  BY <1>6
<1>. QED
  BY <1>2, <1>3, <1>7, <1>8, <1>9, <1>10, TakenKept

LEMMA GatewayRefusesKept == ASSUME GwInv, NEW n \in Links, GatewayRefuses(n) PROVE GwInv'
<1>. GatewayTypeOK
  BY DEF GwInv
<1>0. PICK c \in link[n].todo \ {Connect} : link' = Answered(n, c, FALSE, 1)
  BY DEF GatewayRefuses
<1>1. PICK ok \in BOOLEAN : ok = FALSE /\ link' = Answered(n, c, ok, 1)
  BY <1>0
<1>2. UNCHANGED <<endpoint, at, kind, target, result, holder, cached, authed, wire, ran>>
  BY DEF GatewayRefuses
<1>3. c \in Calls
  BY Types
<1>4. /\ link' \in [Links -> LinkRecord]
      /\ \A m \in Links : m # n => link'[m] = link[m]
      /\ link'[n].to = link[n].to /\ link'[n].state = link[n].state
      /\ link'[n].welcome = link[n].welcome /\ link'[n].todo = link[n].todo \ {c}
      /\ Frames(link'[n].inbox) \subseteq Frames(link[n].inbox) \cup {[id |-> c, ok |-> ok]}
  <2>. DEFINE q == Answered(n, c, ok, 1)
  <2>1. /\ q \in [Links -> LinkRecord]
        /\ \A m \in Links : m # n => q[m] = link[m]
        /\ q[n].to = link[n].to /\ q[n].state = link[n].state
        /\ q[n].welcome = link[n].welcome /\ q[n].todo = link[n].todo \ {c}
        /\ Frames(q[n].inbox) \subseteq Frames(link[n].inbox) \cup {[id |-> c, ok |-> ok]}
    BY <1>3, AnsweredFacts
  <2>2. link' = q
    BY <1>1
  <2>. HIDE DEF q
  <2>. QED
    BY <2>1, <2>2
<1>. DEFINE g == [id |-> c, ok |-> ok]
<1>5. g.id = c /\ ~g.ok /\ c \in link[n].todo
  BY <1>1
<1>6. Frames(link'[n].inbox) \subseteq Frames(link[n].inbox) \cup {g}
  BY <1>4
<1>. HIDE DEF g
<1>. QED
  BY <1>2, <1>3, <1>4, <1>5, <1>6, TakenKept

\* A step of the other end that leaves calls and answers alone.
LEMMA QuietKept ==
    ASSUME GwInv,
           UNCHANGED <<endpoint, at, kind, target, result, holder, cached, authed, wire, ran>>,
           link' \in [Links -> LinkRecord],
           \A m \in Links :
              /\ link'[m].to = link[m].to
              /\ \A d \in Calls : d \in link'[m].todo => d \in link[m].todo
              /\ \A f \in Frames(link'[m].inbox) : f.id \in Calls => f \in Frames(link[m].inbox),
           \A k \in Clients : cached[k] # 0 =>
              /\ link'[cached[k]].state # "none"
              /\ k[2].driver \in OpenClawDrivers =>
                    Session(link'[cached[k]], authed[k], holder[k], at[holder[k]])
    PROVE  GwInv'
<1>. GatewayTypeOK
  BY DEF GwInv
<1>1. GatewayTypeOK'
  BY DEF GatewayTypeOK
<1>2. ASSUME NEW d \in Calls PROVE CallOK(d)'
  <2>1. CallOK(d) /\ (at'[d] # "returned" => result'[d] = "none")
    BY DEF GwInv, CallOK
  <2>. QED
    BY <2>1, CallKept
<1>3. /\ \A d \in Calls : LockOK(d)'
      /\ \A j \in Clients : ClientOK(j)'
      /\ OwnLinks'
  <2>1. \A k \in Clients : cached[k] # 0 => cached[k] \in Links
    BY Types
  <2>. QED
    BY <2>1, RemoteKept
<1>. QED
  BY <1>1, <1>2, <1>3 DEF GwInv

LEMMA GatewayAcceptsKept == ASSUME GwInv, NEW n \in Links, GatewayAccepts(n) PROVE GwInv'
<1>. GatewayTypeOK
  BY DEF GwInv
<1>0. /\ Connect \in link[n].todo
      /\ UNCHANGED <<endpoint, at, kind, target, result, holder, cached, authed, wire, ran>>
  BY DEF GatewayAccepts
<1>1. PICK ok \in BOOLEAN : link' = [Answered(n, Connect, ok, 1) EXCEPT ![n].welcome = ok]
  BY DEF GatewayAccepts
<1>. DEFINE q == Answered(n, Connect, ok, 1)
            l == [q[n] EXCEPT !.welcome = ok]
<1>2. /\ q \in [Links -> LinkRecord]
      /\ \A m \in Links : m # n => q[m] = link[m]
      /\ q[n].to = link[n].to /\ q[n].state = link[n].state
      /\ q[n].todo = link[n].todo \ {Connect}
      /\ Frames(q[n].inbox) \subseteq Frames(link[n].inbox) \cup {[id |-> Connect, ok |-> ok]}
  BY AnsweredFacts
<1>3. link' = [q EXCEPT ![n].welcome = ok]
  BY <1>1
<1>. HIDE DEF q
<1>4. /\ l \in LinkRecord /\ l.to = link[n].to /\ l.state = link[n].state
      /\ l.welcome = ok /\ l.todo = link[n].todo \ {Connect} /\ l.inbox = q[n].inbox
  <2>1. q[n] \in LinkRecord
    BY <1>2
  <2>. QED
    BY <1>2, <2>1 DEF LinkRecord
<1>5. link' = [q EXCEPT ![n] = l]
  BY <1>3
<1>. HIDE DEF l
<1>6. /\ link' \in [Links -> LinkRecord] /\ link'[n] = l
      /\ \A m \in Links : m # n => link'[m] = link[m]
  BY <1>2, <1>4, <1>5
<1>7. ASSUME NEW m \in Links
      PROVE  /\ link'[m].to = link[m].to
             /\ \A d \in Calls : d \in link'[m].todo => d \in link[m].todo
             /\ \A f \in Frames(link'[m].inbox) : f.id \in Calls => f \in Frames(link[m].inbox)
  <2>1. [id |-> Connect, ok |-> ok].id = Connect
    OBVIOUS
  <2>. QED
    BY <1>2, <1>4, <1>6, <2>1, Types, SMTT(60)
<1>8. ASSUME NEW k \in Clients, cached[k] = n, k[2].driver \in OpenClawDrivers,
             Session(link[n], authed[k], holder[k], at[holder[k]])
      PROVE  Session(link'[n], authed[k], holder[k], at[holder[k]])
  <2>1. holder[k] \in Calls \cup {NoCall} /\ Connect \notin Calls
    BY Types
  <2>2. /\ holder[k] # NoCall /\ at[holder[k]] \notin {"challenge", "send", "wait"}
    BY <1>0, <1>8, <2>1 DEF Session
  <2>3. ASSUME at[holder[k]] = "connect"
        PROVE  /\ link'[n].todo = {} /\ link'[n].welcome = ok
               /\ \A f \in Frames(link'[n].inbox) : f.id = Connect => f.ok = ok
    <3>1. link[n].todo = {Connect} /\ \A f \in Frames(link[n].inbox) : f.id # Connect
      BY <1>0, <1>8, <2>1, <2>2, <2>3 DEF Session
    <3>2. [id |-> Connect, ok |-> ok].ok = ok
      OBVIOUS
    <3>. QED
      BY <1>2, <1>4, <1>6, <3>1, <3>2
  <2>. QED
    BY <2>1, <2>2, <2>3 DEF Session
<1>9. \A k \in Clients : cached[k] # 0 =>
              /\ link'[cached[k]].to = link[cached[k]].to
              /\ link'[cached[k]].state # "none"
              /\ k[2].driver \in OpenClawDrivers =>
                    Session(link'[cached[k]], authed[k], holder[k], at[holder[k]])
  BY <1>4, <1>6, <1>8, OneLink
<1>. QED
  BY <1>0, <1>6, <1>7, <1>9, QuietKept

LEMMA GatewayHangsUpKept == ASSUME GwInv, NEW n \in Links, GatewayHangsUp(n) PROVE GwInv'
<1>. GatewayTypeOK
  BY DEF GwInv
<1>. DEFINE l == [link[n] EXCEPT !.state = "lost"]
<1>0. /\ link' = [link EXCEPT ![n] = l]
      /\ UNCHANGED <<endpoint, at, kind, target, result, holder, cached, authed, wire, ran>>
  BY DEF GatewayHangsUp
<1>1. /\ l \in LinkRecord /\ l.to = link[n].to /\ l.state = "lost" /\ l.todo = link[n].todo
      /\ l.welcome = link[n].welcome /\ l.inbox = link[n].inbox
  <2>1. link[n] \in LinkRecord
    BY Types
  <2>. QED
    BY <2>1 DEF LinkRecord
<1>. HIDE DEF l
<1>2. /\ link' \in [Links -> LinkRecord] /\ link'[n] = l
      /\ \A m \in Links : m # n => link'[m] = link[m]
  BY <1>0, <1>1 DEF GatewayTypeOK
<1>3. ASSUME NEW k \in Clients, Session(link[n], authed[k], holder[k], at[holder[k]])
      PROVE  Session(link'[n], authed[k], holder[k], at[holder[k]])
  BY <1>1, <1>2, <1>3 DEF Session
<1>4. \A k \in Clients : cached[k] # 0 =>
              /\ link'[cached[k]].to = link[cached[k]].to
              /\ link'[cached[k]].state # "none"
              /\ k[2].driver \in OpenClawDrivers =>
                    Session(link'[cached[k]], authed[k], holder[k], at[holder[k]])
  BY <1>1, <1>2, <1>3, OneLink
<1>5. \A m \in Links :
         /\ link'[m].to = link[m].to
         /\ \A d \in Calls : d \in link'[m].todo => d \in link[m].todo
         /\ \A f \in Frames(link'[m].inbox) : f.id \in Calls => f \in Frames(link[m].inbox)
  BY <1>1, <1>2
<1>. QED
  BY <1>0, <1>2, <1>4, <1>5, QuietKept

LEMMA PumpEndsKept == ASSUME GwInv, NEW k \in Clients, PumpEnds(k) PROVE GwInv'
<1>. GatewayTypeOK
  BY DEF GwInv
<1>0. /\ k[2].driver \in PushDrivers /\ cached[k] # 0 /\ link' = Closed(k)
      /\ UNCHANGED <<endpoint, at, kind, target, result, holder, cached, authed, wire, ran>>
  BY DEF PumpEnds
<1>1. /\ link' \in [Links -> LinkRecord]
      /\ \A m \in Links :
           /\ m # cached[k] => link'[m] = link[m]
           /\ link'[m].to = link[m].to /\ link'[m].todo = link[m].todo
           /\ link'[m].state = link[m].state \/ link'[m].state = "closed"
           /\ Frames(link'[m].inbox) \subseteq Frames(link[m].inbox)
  BY <1>0, DropFacts
<1>2. ASSUME NEW j \in Clients, cached[j] # 0
      PROVE  /\ link'[cached[j]].state # "none"
             /\ j[2].driver \in OpenClawDrivers =>
                   Session(link'[cached[j]], authed[j], holder[j], at[holder[j]])
  <2>1. /\ cached[j] \in Links /\ link[cached[j]].state # "none"
        /\ j[2].driver \in OpenClawDrivers =>
              Session(link[cached[j]], authed[j], holder[j], at[holder[j]])
    BY <1>2, Types DEF GwInv, ClientOK
  <2>2. j[2].driver \in OpenClawDrivers => cached[j] # cached[k]
    BY <1>0, <1>2 DEF GwInv, OwnLinks, OpenClawDrivers, PushDrivers
  <2>. QED
    BY <1>1, <2>1, <2>2
<1>. QED
  BY <1>0, <1>1, <1>2, QuietKept

-----------------------------------------------------------------------------
(* The actions outside the mutex. *)

\* A call that moves on, with nothing sent and nothing resolved.
LEMMA PlainKept ==
    ASSUME GwInv, NEW c \in Calls, at[c] \notin Locked,
           NEW p \in CallPlaces \ Locked, NEW k \in Kinds, NEW r \in {"none", "ok", "error"},
           at' = [at EXCEPT ![c] = p], kind' = [kind EXCEPT ![c] = k],
           result' = [result EXCEPT ![c] = r],
           UNCHANGED <<endpoint, target, holder, cached, authed, link, wire, ran>>,
           p \in Unsent => at[c] \in Unsent,
           p # "returned" => r = "none",
           r = "ok" => ran[c] = <<target[c]>>,
           p \in {"sandbox", "lock"} => Driver(c) \in OpenClawDrivers \cup PushDrivers
    PROVE  GwInv'
<1>. GatewayTypeOK
  BY DEF GwInv
<1>1. /\ at \in [Calls -> CallPlaces] /\ result \in [Calls -> {"none", "ok", "error"}]
      /\ kind \in [Calls -> Kinds]
  BY DEF GatewayTypeOK
<1>2. /\ at'[c] = p /\ kind'[c] = k /\ result'[c] = r
      /\ \A d \in Calls \ {c} : at'[d] = at[d] /\ kind'[d] = kind[d] /\ result'[d] = result[d]
      /\ at' \in [Calls -> CallPlaces] /\ result' \in [Calls -> {"none", "ok", "error"}]
      /\ kind' \in [Calls -> Kinds]
  BY <1>1
<1>3. GatewayTypeOK'
  BY <1>2 DEF GatewayTypeOK
<1>4. ASSUME NEW d \in Calls PROVE CallOK(d)'
  <2>1. CallOK(d)
    BY DEF GwInv
  <2>2. at'[d] \in Unsent => at[d] \in Unsent
    BY <1>2
  <2>3. /\ at'[d] # "returned" => result'[d] = "none"
        /\ result'[d] = "ok" => result[d] = "ok" \/ ~Waits(d) \/ ran[d] = <<target[d]>>
    BY <1>2, <2>1 DEF CallOK
  <2>. QED
    BY <2>1, <2>2, <2>3, CallKept
<1>5. /\ \A d \in Calls : LockOK(d)'
      /\ \A j \in Clients : ClientOK(j)'
      /\ OwnLinks'
  <2>1. at'[c] \in {"sandbox", "lock"} => target'[c].driver \in OpenClawDrivers \cup PushDrivers
    BY <1>2 DEF Driver
  <2>. QED
    BY <1>2, <2>1, OutsideKept
<1>. QED
  BY <1>3, <1>4, <1>5 DEF GwInv

LEMMA SetToItself ==
    ASSUME GatewayTypeOK, NEW c \in Calls
    PROVE  /\ kind[c] \in Kinds /\ result[c] \in {"none", "ok", "error"}
           /\ UNCHANGED kind => kind' = [kind EXCEPT ![c] = kind[c]]
           /\ UNCHANGED result => result' = [result EXCEPT ![c] = result[c]]
           /\ UNCHANGED wire => wire' = [wire EXCEPT ![c] = wire[c]]
  BY DEF GatewayTypeOK

LEMMA BeginKept == ASSUME GwInv, NEW c \in Calls, Begin(c) PROVE GwInv'
<1>. GatewayTypeOK
  BY DEF GwInv
<1>1. PICK k \in Kinds : kind' = [kind EXCEPT ![c] = k]
  BY DEF Begin
<1>2. /\ at[c] = "idle" /\ at' = [at EXCEPT ![c] = "resolve"]
      /\ UNCHANGED <<endpoint, target, result, holder, cached, authed, link, wire, ran>>
  BY DEF Begin, GoTo
<1>3. result[c] = "none" /\ result' = [result EXCEPT ![c] = "none"]
  <2>1. result[c] = "none"
    BY <1>2 DEF GwInv, CallOK
  <2>. QED
    BY <1>2, <2>1, SetToItself
<1>. DEFINE p == "resolve"
<1>4. p \in CallPlaces \ Locked /\ at[c] \in Unsent /\ at[c] \notin Locked
  BY <1>2 DEF CallPlaces, Locked, Unsent
<1>5. p \notin {"sandbox", "lock"} /\ p # "returned"
  OBVIOUS
<1>6. at' = [at EXCEPT ![c] = p]
  BY <1>2
<1>. HIDE DEF p
<1>. QED
  BY <1>1, <1>2, <1>3, <1>4, <1>5, <1>6, PlainKept

\* What FindClient, EnsureSandbox, InkOSWithoutBook, WaitTerminal and
\* ExchangeReturns have in common.
LEMMA MovesKept ==
    ASSUME GwInv, NEW c \in Calls, at[c] \notin Locked,
           NEW p \in CallPlaces \ Locked, NEW r \in {"none", "ok", "error"},
           at' = [at EXCEPT ![c] = p], result' = [result EXCEPT ![c] = r],
           UNCHANGED <<endpoint, kind, target, holder, cached, authed, link, wire, ran>>,
           p \in Unsent => at[c] \in Unsent,
           p # "returned" => r = "none",
           r = "ok" => ran[c] = <<target[c]>>,
           p \in {"sandbox", "lock"} => Driver(c) \in OpenClawDrivers \cup PushDrivers
    PROVE  GwInv'
<1>. GatewayTypeOK
  BY DEF GwInv
<1>1. kind[c] \in Kinds /\ kind' = [kind EXCEPT ![c] = kind[c]]
  BY SetToItself
<1>2. UNCHANGED <<endpoint, target, holder, cached, authed, link, wire, ran>>
  OBVIOUS
<1>. QED
  BY <1>1, <1>2, PlainKept

\* A call under way goes on.
LEMMA GoesOn ==
    ASSUME GwInv, NEW c \in Calls, at[c] \notin Locked \cup {"returned"},
           NEW p \in CallPlaces \ (Locked \cup {"returned"}),
           at' = [at EXCEPT ![c] = p],
           UNCHANGED <<endpoint, kind, target, result, holder, cached, authed, link, wire, ran>>,
           p \in Unsent => at[c] \in Unsent,
           p \in {"sandbox", "lock"} => Driver(c) \in OpenClawDrivers \cup PushDrivers
    PROVE  GwInv'
<1>. GatewayTypeOK
  BY DEF GwInv
<1>. DEFINE r == "none"
<1>1. result[c] = r
  BY DEF GwInv, CallOK
<1>2. result' = [result EXCEPT ![c] = r]
  BY <1>1, SetToItself
<1>3. r \in {"none", "ok", "error"} /\ r # "ok" /\ r = "none" /\ p \in CallPlaces \ Locked
  OBVIOUS
<1>. HIDE DEF r
<1>. QED
  BY <1>2, <1>3, MovesKept

\* A call returns.
LEMMA ReturnsKept ==
    ASSUME GwInv, NEW c \in Calls, at[c] \notin Locked,
           NEW r \in {"ok", "error"}, Return(c, r),
           UNCHANGED <<endpoint, kind, target, holder, cached, authed, link, wire, ran>>,
           r = "ok" => ran[c] = <<target[c]>>
    PROVE  GwInv'
<1>. DEFINE p == "returned"
<1>1. at' = [at EXCEPT ![c] = p] /\ result' = [result EXCEPT ![c] = r]
  BY DEF Return, GoTo
<1>2. /\ p \in CallPlaces \ Locked /\ p \notin Unsent /\ p \notin {"sandbox", "lock"}
      /\ p = "returned" /\ r \in {"none", "ok", "error"}
  BY DEF CallPlaces, Locked, Unsent
<1>. HIDE DEF p
<1>. QED
  BY <1>1, <1>2, MovesKept

LEMMA FindClientKept == ASSUME GwInv, NEW c \in Calls, FindClient(c) PROVE GwInv'
<1>. GatewayTypeOK
  BY DEF GwInv
<1>1. /\ at[c] = "pool"
      /\ UNCHANGED <<endpoint, kind, target, result, holder, cached, authed, link, wire, ran>>
  BY DEF FindClient
<1>2. PICK p \in {"sandbox", "lock", "post"} :
        /\ at' = [at EXCEPT ![c] = p]
        /\ p \in {"sandbox", "lock"} => Driver(c) \in OpenClawDrivers \cup PushDrivers
  <2>1. CASE Driver(c) = "nemoclaw_ws"
    <3>1. at' = [at EXCEPT ![c] = "sandbox"]
      BY <2>1 DEF FindClient, GoTo, OpenClawDrivers, PushDrivers
    <3>. QED
      BY <2>1, <3>1 DEF OpenClawDrivers
  <2>2. CASE Driver(c) \in (OpenClawDrivers \ {"nemoclaw_ws"}) \cup PushDrivers
    <3>1. at' = [at EXCEPT ![c] = "lock"]
      BY <2>2 DEF FindClient, GoTo, OpenClawDrivers, PushDrivers
    <3>. QED
      BY <2>2, <3>1
  <2>3. CASE Driver(c) \notin OpenClawDrivers \cup PushDrivers
    <3>1. at' = [at EXCEPT ![c] = "post"]
      BY <2>3 DEF FindClient, GoTo, OpenClawDrivers, PushDrivers
    <3>. QED
      BY <3>1
  <2>. QED
    BY <2>1, <2>2, <2>3
<1>3. /\ p \in CallPlaces \ (Locked \cup {"returned"}) /\ at[c] \in Unsent
      /\ at[c] \notin Locked \cup {"returned"}
  BY <1>1 DEF CallPlaces, Locked, Unsent
<1>. QED
  BY <1>1, <1>2, <1>3, GoesOn

LEMMA EnsureSandboxKept == ASSUME GwInv, NEW c \in Calls, EnsureSandbox(c) PROVE GwInv'
<1>. GatewayTypeOK
  BY DEF GwInv
<1>1. /\ at[c] = "sandbox"
      /\ UNCHANGED <<endpoint, kind, target, holder, cached, authed, link, wire, ran>>
  BY DEF EnsureSandbox
<1>2. at[c] \notin Locked \cup {"returned"} /\ at[c] \in Unsent
  BY <1>1 DEF Locked, Unsent
<1>3. CASE GoTo(c, "lock") /\ UNCHANGED result
  <2>1. PICK p \in {"lock"} : at' = [at EXCEPT ![c] = p]
    BY <1>3 DEF GoTo
  <2>2. p \in CallPlaces \ (Locked \cup {"returned"})
    BY DEF CallPlaces, Locked
  <2>3. Driver(c) \in OpenClawDrivers \cup PushDrivers
    BY <1>1 DEF GwInv, LockOK
  <2>. QED
    BY <1>1, <1>2, <1>3, <2>1, <2>2, <2>3, GoesOn
<1>4. CASE Return(c, "error")
  <2>1. PICK r \in {"ok", "error"} : Return(c, r) /\ r # "ok"
    BY <1>4
  <2>. QED
    BY <1>1, <1>2, <2>1, ReturnsKept
<1>. QED
  BY <1>3, <1>4 DEF EnsureSandbox

LEMMA InkOSWithoutBookKept ==
    ASSUME GwInv, NEW c \in Calls, InkOSWithoutBook(c) PROVE GwInv'
<1>1. /\ at[c] = "post" /\ Return(c, "error")
      /\ UNCHANGED <<endpoint, kind, target, holder, cached, authed, link, wire, ran>>
  BY DEF InkOSWithoutBook
<1>2. at[c] \notin Locked
  BY <1>1 DEF Locked
<1>3. PICK r \in {"ok", "error"} : Return(c, r) /\ r # "ok"
  BY <1>1
<1>. QED
  BY <1>1, <1>2, <1>3, ReturnsKept

LEMMA WaitTerminalKept == ASSUME GwInv, NEW c \in Calls, WaitTerminal(c) PROVE GwInv'
<1>1. /\ at[c] = "await"
      /\ UNCHANGED <<endpoint, kind, target, result, holder, cached, authed, link, wire, ran>>
  BY DEF WaitTerminal
<1>2. PICK p \in {"poll"} : at' = [at EXCEPT ![c] = p]
  BY DEF WaitTerminal, GoTo
<1>3. /\ p \in CallPlaces \ (Locked \cup {"returned"}) /\ p \notin Unsent
      /\ p \notin {"sandbox", "lock"} /\ at[c] \notin Locked \cup {"returned"}
  BY <1>1 DEF CallPlaces, Locked, Unsent
<1>. QED
  BY <1>1, <1>2, <1>3, GoesOn

LEMMA ExchangeReturnsKept == ASSUME GwInv, NEW c \in Calls, ExchangeReturns(c) PROVE GwInv'
<1>1. /\ at[c] \in {"await", "poll"}
      /\ UNCHANGED <<endpoint, kind, target, holder, cached, authed, link, wire, ran>>
  BY DEF ExchangeReturns
<1>2. at[c] \notin Locked
  BY <1>1 DEF Locked
<1>3. PICK r \in {"ok", "error"} : r = wire[c] /\ Return(c, r)
  BY DEF ExchangeReturns
<1>4. r = "ok" => ran[c] = <<target[c]>>
  BY <1>3 DEF GwInv, CallOK
<1>. QED
  BY <1>1, <1>2, <1>3, <1>4, ReturnsKept

\* The calls an action of call c alone does not concern.
LEMMA OtherCalls ==
    ASSUME GwInv, NEW c \in Calls,
           \A d \in Calls \ {c} : /\ at'[d] = at[d] /\ result'[d] = result[d]
                                  /\ target'[d] = target[d] /\ wire'[d] = wire[d]
                                  /\ ran'[d] = ran[d],
           UNCHANGED link
    PROVE  \A d \in Calls \ {c} : CallOK(d)'
<1>. SUFFICES ASSUME NEW d \in Calls \ {c} PROVE CallOK(d)'
  OBVIOUS
<1>1. CallOK(d) /\ (at'[d] # "returned" => result'[d] = "none")
  BY DEF GwInv, CallOK
<1>. QED
  BY <1>1, CallKept

LEMMA ResolveKept == ASSUME GwInv, NEW c \in Calls, Resolve(c) PROVE GwInv'
<1>. GatewayTypeOK
  BY DEF GwInv
<1>. DEFINE t == endpoint[EndpointOf[c]]
<1>1. t \in Targets
  BY GatewayAssumption DEF GatewayTypeOK
<1>2. /\ at[c] = "resolve" /\ target' = [target EXCEPT ![c] = t]
      /\ UNCHANGED <<endpoint, kind, holder, cached, authed, link, wire, ran>>
  BY DEF Resolve
<1>3. PICK p \in {"returned", "pool"}, r \in {"none", "ok", "error"} :
        /\ at' = [at EXCEPT ![c] = p] /\ result' = [result EXCEPT ![c] = r]
        /\ p # "returned" => r = "none"
        /\ r = "ok" => t.driver = "stub"
  <2>1. result[c] = "none"
    BY <1>2 DEF GwInv, CallOK
  <2>2. CASE t.driver = "stub" /\ Return(c, "ok")
    BY <2>2 DEF Return, GoTo
  <2>3. CASE Return(c, "error")
    BY <2>3 DEF Return, GoTo
  <2>4. CASE GoTo(c, "pool") /\ UNCHANGED result
    <3>1. result' = [result EXCEPT ![c] = "none"]
      BY <2>1, <2>4, SetToItself
    <3>. QED
      BY <2>4, <3>1 DEF GoTo
  <2>. QED
    BY <2>2, <2>3, <2>4 DEF Resolve
<1>. HIDE DEF t
<1>4. p \in CallPlaces \ Locked /\ p \notin {"sandbox", "lock"} /\ at[c] \notin Locked
  BY <1>2 DEF CallPlaces, Locked
<1>5. /\ at \in [Calls -> CallPlaces] /\ result \in [Calls -> {"none", "ok", "error"}]
      /\ target \in [Calls -> Targets]
  BY DEF GatewayTypeOK
<1>6. /\ at'[c] = p /\ target'[c] = t /\ result'[c] = r
      /\ \A d \in Calls \ {c} : at'[d] = at[d] /\ target'[d] = target[d] /\ result'[d] = result[d]
      /\ at' \in [Calls -> CallPlaces] /\ result' \in [Calls -> {"none", "ok", "error"}]
      /\ target' \in [Calls -> Targets]
  BY <1>1, <1>2, <1>3, <1>4, <1>5
<1>7. GatewayTypeOK'
  BY <1>2, <1>6 DEF GatewayTypeOK
<1>8. CallOK(c)'
  <2>1. Nowhere(c)
    BY <1>2 DEF GwInv, CallOK, Unsent
  <2>2. Nowhere(c)'
    BY <1>2, <2>1 DEF Nowhere, Box
  <2>3. result'[c] = "ok" => ~Waits(c)'
    BY <1>3, <1>6 DEF Waits, Driver
  <2>. QED
    BY <1>3, <1>6, <2>2, <2>3 DEF CallOK, Nowhere
<1>9. \A d \in Calls \ {c} : CallOK(d)'
  BY <1>2, <1>6, OtherCalls
<1>10. /\ \A d \in Calls : LockOK(d)'
       /\ \A j \in Clients : ClientOK(j)'
       /\ OwnLinks'
  <2>1. UNCHANGED <<holder, cached, authed, link>>
    BY <1>2
  <2>. QED
    BY <1>2, <1>4, <1>6, <2>1, OutsideKept
<1>. QED
  BY <1>7, <1>8, <1>9, <1>10 DEF GwInv

\* A call of a driver without a connection and what it has on the wire.
LEMMA WireKept ==
    ASSUME GwInv, NEW c \in Calls, at[c] \notin Locked,
           NEW p \in {"await", "returned"}, NEW r \in {"none", "error"},
           NEW w \in {"none", "sent", "queued", "ok", "error"},
           at' = [at EXCEPT ![c] = p], result' = [result EXCEPT ![c] = r],
           wire' = [wire EXCEPT ![c] = w],
           UNCHANGED <<endpoint, kind, target, holder, cached, authed, link, ran>>,
           p # "returned" => r = "none",
           \/ w = wire[c]
           \/ w = "error"
           \/ w = "sent" /\ Nowhere(c)
    PROVE  GwInv'
<1>. GatewayTypeOK
  BY DEF GwInv
<1>1. /\ at \in [Calls -> CallPlaces] /\ result \in [Calls -> {"none", "ok", "error"}]
      /\ wire \in [Calls -> {"none", "sent", "queued", "ok", "error"}]
  BY DEF GatewayTypeOK
<1>2. p \in CallPlaces \ Locked /\ p \notin Unsent /\ p \notin {"sandbox", "lock"}
  BY DEF CallPlaces, Locked, Unsent
<1>3. /\ at'[c] = p /\ wire'[c] = w /\ result'[c] = r
      /\ \A d \in Calls \ {c} : at'[d] = at[d] /\ wire'[d] = wire[d] /\ result'[d] = result[d]
      /\ at' \in [Calls -> CallPlaces] /\ result' \in [Calls -> {"none", "ok", "error"}]
      /\ wire' \in [Calls -> {"none", "sent", "queued", "ok", "error"}]
  BY <1>1, <1>2
<1>4. GatewayTypeOK'
  BY <1>3 DEF GatewayTypeOK
<1>5. CallOK(c)'
  <2>1. CallOK(c)
    BY DEF GwInv
  <2>2. CASE w = wire[c] \/ w = "error"
    BY <1>2, <1>3, <2>1, <2>2 DEF CallOK, Box
  <2>3. CASE w = "sent" /\ Nowhere(c)
    BY <1>2, <1>3, <2>1, <2>3 DEF CallOK, Nowhere, Box
  <2>. QED
    BY <2>2, <2>3
<1>6. \A d \in Calls \ {c} : CallOK(d)'
  BY <1>3, OtherCalls
<1>7. /\ \A d \in Calls : LockOK(d)'
      /\ \A j \in Clients : ClientOK(j)'
      /\ OwnLinks'
  <2>1. UNCHANGED <<holder, cached, authed, link>>
    OBVIOUS
  <2>. QED
    BY <1>2, <1>3, <2>1, OutsideKept
<1>. QED
  BY <1>4, <1>5, <1>6, <1>7 DEF GwInv

LEMMA ExchangeKept == ASSUME GwInv, NEW c \in Calls, NEW d, Exchange(c, d) PROVE GwInv'
<1>. GatewayTypeOK
  BY DEF GwInv
<1>1. /\ at[c] = "post"
      /\ UNCHANGED <<endpoint, kind, target, result, holder, cached, authed, link, ran>>
  BY DEF Exchange
<1>2. PICK p \in {"await", "returned"}, r \in {"none", "error"},
           w \in {"none", "sent", "queued", "ok", "error"} :
        /\ p = "await" /\ r = "none" /\ w = "sent"
        /\ at' = [at EXCEPT ![c] = p] /\ wire' = [wire EXCEPT ![c] = w]
  BY DEF Exchange, GoTo
<1>3. result[c] = r /\ Nowhere(c)
  BY <1>1, <1>2 DEF GwInv, CallOK, Unsent
<1>4. result' = [result EXCEPT ![c] = r]
  BY <1>1, <1>3, SetToItself
<1>5. at[c] \notin Locked
  BY <1>1 DEF Locked
<1>6. UNCHANGED <<endpoint, kind, target, holder, cached, authed, link, ran>>
  BY <1>1
<1>. QED
  BY <1>2, <1>3, <1>4, <1>5, <1>6, WireKept

LEMMA ExchangeFailsKept == ASSUME GwInv, NEW c \in Calls, ExchangeFails(c) PROVE GwInv'
<1>. GatewayTypeOK
  BY DEF GwInv
<1>1. /\ at[c] \in {"await", "poll"}
      /\ UNCHANGED <<endpoint, kind, target, holder, cached, authed, link, ran>>
  BY DEF ExchangeFails
<1>2. PICK p \in {"await", "returned"}, r \in {"none", "error"} :
        /\ p = "returned" /\ r = "error"
        /\ at' = [at EXCEPT ![c] = p] /\ result' = [result EXCEPT ![c] = r]
  BY DEF ExchangeFails, Return, GoTo
<1>3. PICK w \in {"none", "sent", "queued", "ok", "error"} :
        /\ w = wire[c] \/ w = "error"
        /\ wire' = [wire EXCEPT ![c] = w]
  <2>1. wire[c] \in {"none", "sent", "queued", "ok", "error"}
    BY DEF GatewayTypeOK
  <2>2. CASE UNCHANGED wire
    BY <2>1, <2>2, SetToItself
  <2>3. CASE wire' = [wire EXCEPT ![c] = "error"]
    BY <2>3
  <2>. QED
    BY <2>2, <2>3 DEF ExchangeFails
<1>4. at[c] \notin Locked
  BY <1>1 DEF Locked
<1>. QED
  BY <1>1, <1>2, <1>3, <1>4, WireKept

LEMMA ServerAnswersKept == ASSUME GwInv, NEW c \in Calls, ServerAnswers(c) PROVE GwInv'
<1>. GatewayTypeOK
  BY DEF GwInv
<1>1. /\ wire[c] \in {"sent", "queued"}
      /\ UNCHANGED <<endpoint, at, kind, target, result, holder, cached, authed, link>>
  BY DEF ServerAnswers
<1>2. CallOK(c) /\ ran[c] = <<>> /\ target[c] \in Targets /\ at[c] \notin Unsent
  BY <1>1, Types DEF GwInv, CallOK, Nowhere
<1>3. PICK w \in {"queued", "ok", "error"} :
        /\ wire' = [wire EXCEPT ![c] = w]
        /\ \/ ran' = [ran EXCEPT ![c] = <<target[c]>>] /\ w # "queued"
           \/ UNCHANGED ran /\ w # "ok"
  <2>1. Append(ran[c], target[c]) = <<target[c]>>
    BY <1>2
  <2>2. CASE /\ \E answer \in {"ok", "error"} : wire' = [wire EXCEPT ![c] = answer]
             /\ ran' = [ran EXCEPT ![c] = Append(@, target[c])]
    BY <2>1, <2>2
  <2>3. CASE \E w \in {"queued", "error"} : wire' = [wire EXCEPT ![c] = w] /\ UNCHANGED ran
    BY <2>3
  <2>. QED
    BY <2>2, <2>3 DEF ServerAnswers
<1>4. /\ wire \in [Calls -> {"none", "sent", "queued", "ok", "error"}]
      /\ ran \in [Calls -> Seq(Targets)]
  BY DEF GatewayTypeOK
<1>5. /\ wire'[c] = w /\ wire' \in [Calls -> {"none", "sent", "queued", "ok", "error"}]
      /\ \A d \in Calls \ {c} : wire'[d] = wire[d]
  BY <1>3, <1>4
<1>6. /\ ran'[c] \in {<<>>, <<target[c]>>} /\ ran' \in [Calls -> Seq(Targets)]
      /\ w = "queued" => ran'[c] = <<>>
      /\ w = "ok" => ran'[c] = <<target[c]>>
      /\ \A d \in Calls \ {c} : ran'[d] = ran[d]
  <2>1. <<target[c]>> \in Seq(Targets)
    BY <1>2
  <2>2. CASE ran' = [ran EXCEPT ![c] = <<target[c]>>] /\ w # "queued"
    BY <1>4, <2>1, <2>2
  <2>3. CASE UNCHANGED ran /\ w # "ok"
    BY <1>2, <1>4, <2>3
  <2>. QED
    BY <1>3, <2>2, <2>3
<1>7. GatewayTypeOK'
  BY <1>1, <1>5, <1>6 DEF GatewayTypeOK
<1>8. CallOK(c)'
  <2>1. Waits(c)' = Waits(c) /\ result'[c] = result[c]
    BY <1>1 DEF Waits, Driver
  <2>2. <<target[c]>> # <<>>
    OBVIOUS
  <2>3. ~(result[c] = "ok" /\ Waits(c))
    BY <1>2, <2>2 DEF CallOK
  <2>4. /\ \A m \in Links : c \notin link[m].todo
        /\ \A m \in Links : \A f \in Box(m) : ~(f.id = c /\ f.ok)
    BY <1>1, <1>2, <2>2 DEF CallOK
  <2>5. \A m \in Links : Box(m)' = Box(m)
    BY <1>1 DEF Box
  <2>. QED
    BY <1>1, <1>2, <1>5, <1>6, <2>1, <2>3, <2>4, <2>5 DEF CallOK
<1>9. \A d \in Calls \ {c} : CallOK(d)'
  BY <1>1, <1>5, <1>6, OtherCalls
<1>10. /\ \A d \in Calls : LockOK(d)'
       /\ \A j \in Clients : ClientOK(j)'
       /\ OwnLinks'
  <2>1. \A k \in Clients : cached[k] # 0 =>
              /\ link'[cached[k]].to = link[cached[k]].to
              /\ link'[cached[k]].state # "none"
              /\ k[2].driver \in OpenClawDrivers =>
                    Session(link'[cached[k]], authed[k], holder[k], at[holder[k]])
    BY <1>1 DEF GwInv, ClientOK
  <2>. QED
    BY <1>1, <2>1, RemoteKept
<1>. QED
  BY <1>7, <1>8, <1>9, <1>10 DEF GwInv

LEMMA PatchEndpointKept == ASSUME GwInv, NEW e \in Endpoints, PatchEndpoint(e) PROVE GwInv'
<1>1. UNCHANGED <<at, kind, target, result, holder, cached, authed, link, wire, ran>>
  BY DEF PatchEndpoint
<1>2. GatewayTypeOK'
  <2>1. GatewayTypeOK /\ \E t \in Targets : endpoint' = [endpoint EXCEPT ![e] = t]
    BY DEF GwInv, PatchEndpoint
  <2>2. endpoint' \in [Endpoints -> Targets]
    BY <2>1 DEF GatewayTypeOK
  <2>. QED
    BY <1>1, <2>1, <2>2 DEF GatewayTypeOK
<1>. QED
  BY <1>1, <1>2 DEF GwInv, CallOK, Nowhere, Box, Waits, LockOK, ClientOf, Conn, Driver,
                    ClientOK, Session, OwnLinks

LEMMA NothingKept == ASSUME GwInv, UNCHANGED gwVars PROVE GwInv'
  BY DEF GwInv, gwVars, GatewayTypeOK, CallOK, Nowhere, Box, Waits, LockOK, ClientOf, Conn,
         Driver, ClientOK, Session, OwnLinks

-----------------------------------------------------------------------------
(* The theorems. *)

LEMMA GwInvInit == GatewayInit => GwInv
<1>. SUFFICES ASSUME GatewayInit PROVE GwInv
  OBVIOUS
<1>0. PICK t0 \in Targets : t0 = CHOOSE t \in Targets : TRUE
  BY GatewayAssumption
<1>1. \A n \in Links : link[n] = [to |-> t0, state |-> "none", welcome |-> FALSE,
                                  inbox |-> <<>>, todo |-> {}]
  BY <1>0 DEF GatewayInit
<1>2. link \in [Links -> LinkRecord]
  <2>1. [to |-> t0, state |-> "none", welcome |-> FALSE, inbox |-> <<>>, todo |-> {}] \in LinkRecord
    BY <1>0 DEF LinkRecord
  <2>. QED
    BY <1>1, <2>1 DEF GatewayInit
<1>3. GatewayTypeOK
  <2>1. endpoint \in [Endpoints -> Targets] /\ target \in [Calls -> Targets]
    BY GatewayAssumption DEF GatewayInit
  <2>2. at \in [Calls -> CallPlaces] /\ kind \in [Calls -> Kinds]
    BY DEF GatewayInit, CallPlaces, Kinds
  <2>3. authed \in [Clients -> BOOLEAN]
    BY Zenon DEF GatewayInit
  <2>4. ran \in [Calls -> Seq(Targets)]
    BY DEF GatewayInit
  <2>5. /\ holder \in [Clients -> Calls \cup {NoCall}] /\ cached \in [Clients -> Links \cup {0}]
        /\ result \in [Calls -> {"none", "ok", "error"}]
        /\ wire \in [Calls -> {"none", "sent", "queued", "ok", "error"}]
    BY DEF GatewayInit
  <2>. QED
    BY <1>2, <2>1, <2>2, <2>3, <2>4, <2>5 DEF GatewayTypeOK
<1>4. \A n \in Links : link[n].todo = {} /\ Box(n) = {}
  BY <1>1, FramesOf DEF Box
<1>5. ASSUME NEW c \in Calls PROVE CallOK(c) /\ LockOK(c)
  <2>1. at[c] = "idle" /\ ran[c] = <<>> /\ wire[c] = "none" /\ result[c] = "none"
    BY <1>5 DEF GatewayInit
  <2>2. CallOK(c)
    BY <1>4, <2>1 DEF CallOK, Nowhere
  <2>3. LockOK(c)
    BY <2>1 DEF LockOK, Locked
  <2>. QED
    BY <2>2, <2>3
<1>6. ASSUME NEW k \in Clients PROVE ClientOK(k)
  <2>1. holder[k] = NoCall /\ cached[k] = 0
    BY <1>6 DEF GatewayInit
  <2>. QED
    BY <2>1, GatewayAssumption DEF ClientOK
<1>7. OwnLinks
  BY DEF GatewayInit, OwnLinks
<1>. QED
  BY <1>3, <1>5, <1>6, <1>7 DEF GwInv

LEMMA AdvanceKept == ASSUME GwInv, NEW c \in Calls, Advance(c) PROVE GwInv'
<1>1. PICK k : k = ClientOf(c)
  OBVIOUS
<1>2. PICK n : n = Conn(c)
  OBVIOUS
<1>3. CASE Resolve(c) \/ FindClient(c) \/ EnsureSandbox(c) \/ InkOSWithoutBook(c)
  BY <1>3, ResolveKept, FindClientKept, EnsureSandboxKept, InkOSWithoutBookKept
<1>4. CASE ExchangeReturns(c) \/ WaitTerminal(c) \/ ExchangeFails(c)
  BY <1>4, ExchangeReturnsKept, WaitTerminalKept, ExchangeFailsKept
<1>5. CASE \/ NullClawPost(c) \/ ZClawPost(c) \/ CoPawPost(c) \/ MetaClawPost(c)
           \/ MisterMorphSubmit(c) \/ NanobotRun(c) \/ InkOSRun(c)
  <2>1. PICK d : Exchange(c, d)
    BY <1>5 DEF NullClawPost, ZClawPost, CoPawPost, MetaClawPost, MisterMorphSubmit,
                NanobotRun, InkOSRun
  <2>. QED
    BY <2>1, ExchangeKept
<1>6. CASE Lock(c)
  BY <1>1, <1>6, LockKept
<1>7. CASE Dial(c)
  BY <1>1, <1>7, DialKept
<1>8. CASE Skip(c)
  BY <1>1, <1>2, <1>8, SkipKept
<1>9. CASE AnswerChallenge(c)
  BY <1>1, <1>2, <1>9, AnswerChallengeKept
<1>10. CASE Connected(c)
  BY <1>1, <1>2, <1>10, ConnectedKept
<1>11. CASE SendRequest(c)
  BY <1>1, <1>2, <1>11, SendRequestKept
<1>12. CASE ReceiveAnswer(c)
  BY <1>1, <1>2, <1>12, ReceiveAnswerKept
<1>13. CASE PushMessage(c)
  BY <1>1, <1>2, <1>13, PushMessageKept
<1>14. CASE CallFails(c)
  BY <1>1, <1>14, CallFailsKept
<1>. QED
  BY <1>3, <1>4, <1>5, <1>6, <1>7, <1>8, <1>9, <1>10, <1>11, <1>12, <1>13, <1>14
  DEF Advance

LEMMA GwInvStep == GwInv /\ [GatewayNext]_gwVars => GwInv'
<1>. SUFFICES ASSUME GwInv, [GatewayNext]_gwVars PROVE GwInv'
  OBVIOUS
<1>1. ASSUME NEW e \in Endpoints, PatchEndpoint(e) PROVE GwInv'
  BY <1>1, PatchEndpointKept
<1>2. ASSUME NEW c \in Calls, Begin(c) \/ Advance(c) \/ ServerAnswers(c) PROVE GwInv'
  BY <1>2, BeginKept, AdvanceKept, ServerAnswersKept
<1>3. ASSUME NEW k \in Clients, PumpEnds(k) PROVE GwInv'
  BY <1>3, PumpEndsKept
<1>4. ASSUME NEW n \in Links, Remote(n) PROVE GwInv'
  BY <1>4, GatewayAcceptsKept, GatewayRunsKept, GatewayRefusesKept, GatewayHangsUpKept
  DEF Remote
<1>5. CASE UNCHANGED gwVars
  BY <1>5, NothingKept
<1>. QED
  BY <1>1, <1>2, <1>3, <1>4, <1>5 DEF GatewayNext

\* The variables of the gateway keep their types, whatever the drivers, the
\* remote gateways and the operator do.
THEOREM GatewayTypeCorrect == GatewaySpec => []GatewayTypeOK
<1>1. GwInv => GatewayTypeOK
  BY DEF GwInv
<1>. QED
  BY <1>1, GwInvInit, GwInvStep, PTL DEF GatewaySpec

\* A call is carried out at most once and only by the gateway it resolved, what
\* it is told is its own answer, and a session left to the next call is clean.
THEOREM CallsExact == GatewaySpec => []CallsAreExact
<1>1. GwInv => CallsAreExact
  <2>. SUFFICES ASSUME GwInv PROVE CallsAreExact
    OBVIOUS
  <2>1. RunsOnceWhereResolved /\ AnswerIsOwn
    BY DEF GwInv, CallOK, RunsOnceWhereResolved, AnswerIsOwn
  <2>2. SessionsAreClean
    BY DEF GwInv, ClientOK, Session, SessionsAreClean
  <2>. QED
    BY <2>1, <2>2 DEF CallsAreExact
<1>. QED
  BY <1>1, GwInvInit, GwInvStep, PTL DEF GatewaySpec
=============================================================================
