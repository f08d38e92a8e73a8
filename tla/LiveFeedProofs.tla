--------------------------- MODULE LiveFeedProofs ---------------------------
(***************************************************************************)
(* Theorems about LiveFeed for every set of processes and connections,     *)
(* every number of events, batch limit and channel capacity, with or       *)
(* without faults.                                                         *)
(***************************************************************************)
EXTENDS LiveFeed, FiniteSetTheorems, SequenceTheorems, WellFoundedInduction, TLAPS

-----------------------------------------------------------------------------
(* Sets of events and channels. *)

\* A set of events that is not empty has a least one.
LEMMA MinIsLeast ==
    ASSUME NEW S \in SUBSET Event, S # {}
    PROVE  Min(S) \in S /\ \A y \in S : Min(S) <= y
<1>1. S \subseteq Nat
  BY ConstantsAssumption DEF Event
<1>2. \E x \in S : \A y \in S : ~(<<y, x>> \in OpToRel(<, Nat))
  BY <1>1, NatLessThanWellFounded, WFMin
<1>3. \A x, y \in Nat : x < y => <<x, y>> \in OpToRel(<, Nat)
  BY DEF OpToRel
<1>4. \E x \in S : \A y \in S : x <= y
  <2>1. PICK x \in S : \A y \in S : ~(<<y, x>> \in OpToRel(<, Nat))
    BY <1>2
  <2>2. ASSUME NEW y \in S PROVE x <= y
    <3>1. ~(y < x)
      BY <1>1, <1>3, <2>1
    <3>. QED
      BY <1>1, <3>1
  <2>. QED
    BY <2>2
<1>. QED
  BY <1>4 DEF Min

LEMMA MaxOfTwo ==
    ASSUME NEW a \in 0..MaxEvent, NEW b \in 0..MaxEvent
    PROVE  Max({a, b}) \in 0..MaxEvent
<1>. USE ConstantsAssumption
<1>1. \E x \in {a, b} : \A y \in {a, b} : x >= y
  OBVIOUS
<1>2. Max({a, b}) \in {a, b}
  BY <1>1 DEF Max
<1>. QED
  BY <1>2

\* A flush that finds rows takes at least the oldest one.
LEMMA OldestIsThere ==
    ASSUME PendingEvents # {}
    PROVE  Oldest # {} /\ Oldest \in SUBSET Event
<1>. DEFINE e == Min(PendingEvents)
<1>1. PendingEvents \in SUBSET Event
  BY DEF PendingEvents
<1>2. e \in PendingEvents /\ \A d \in PendingEvents : e <= d
  BY <1>1, MinIsLeast
<1>3. {d \in PendingEvents : d <= e} = {e}
  <2>1. \A d \in PendingEvents : d \in Nat
    BY <1>1, ConstantsAssumption DEF Event
  <2>. HIDE DEF e
  <2>2. \A d \in PendingEvents : d <= e => d = e
    BY <1>2, <2>1
  <2>3. e <= e
    BY <1>2, <2>1
  <2>. QED
    BY <1>2, <2>2, <2>3
<1>4. Cardinality({d \in PendingEvents : d <= e}) <= BatchLimit
  BY <1>3, FS_Singleton, ConstantsAssumption
<1>. QED
  BY <1>1, <1>2, <1>4 DEF Oldest

Channel == UNION {[1..n -> Event] : n \in 0..ChanCap}

LEMMA ChannelIsSeq ==
    ASSUME NEW buf \in Channel
    PROVE  /\ buf \in Seq(Event)
           /\ Len(buf) \in 0..ChanCap
           /\ buf \in [1..Len(buf) -> Event]
<1>. USE ConstantsAssumption
<1>1. PICK n \in 0..ChanCap : buf \in [1..n -> Event]
  BY DEF Channel
<1>2. buf \in Seq(Event) /\ Len(buf) = n
  BY <1>1
<1>. QED
  BY <1>1, <1>2

LEMMA SeqIsChannel ==
    ASSUME NEW buf \in Seq(Event), Len(buf) <= ChanCap
    PROVE  buf \in Channel
<1>1. buf \in [1..Len(buf) -> Event] /\ Len(buf) \in 0..ChanCap
  BY ConstantsAssumption
<1>. QED
  BY <1>1 DEF Channel

LEMMA OfferedType ==
    ASSUME NEW ch \in Conn, NEW e \in Event
    PROVE  Offered(ch, e) \in Conn /\ Offered(ch, e).st = ch.st
<1>. USE ConstantsAssumption
<1>1. ch.buf \in Channel
  BY DEF Conn, Channel
<1>2. ch.buf \in Seq(Event) /\ Len(ch.buf) \in 0..ChanCap
  BY <1>1, ChannelIsSeq
<1>3. CASE Len(ch.buf) < ChanCap
  <2>1. ch.buf \o <<e>> \in Seq(Event) /\ Len(ch.buf \o <<e>>) <= ChanCap
    BY <1>2, <1>3
  <2>2. ch.buf \o <<e>> \in Channel
    BY <2>1, SeqIsChannel
  <2>. QED
    BY <1>3, <2>2 DEF Offered, Conn, Channel
<1>4. CASE ~(Len(ch.buf) < ChanCap)
  BY <1>4 DEF Offered, Conn
<1>. QED
  BY <1>3, <1>4

LEMMA ClosedType == Closed \in Conn
<1>0. <<>> \in Seq(Event) /\ Len(<<>>) <= ChanCap
  BY ConstantsAssumption
<1>1. <<>> \in Channel
  BY <1>0, SeqIsChannel
<1>. QED
  BY <1>1, ConstantsAssumption DEF Closed, Conn, Channel

-----------------------------------------------------------------------------
(* Type correctness, with what it needs: a relay that works has a batch. *)

Busy == {p \in Proc : relay[p].pc \in {"send", "mark"}}

RelayInv == TypeOK /\ \A p \in Busy : relay[p].batch # {}

\* The event a working relay is at.
LEMMA AtEvent ==
    ASSUME RelayInv, NEW p \in Busy
    PROVE  Min(relay[p].batch) \in relay[p].batch /\ Min(relay[p].batch) \in Event
<1>1. relay[p].batch \in SUBSET Event /\ relay[p].batch # {}
  BY DEF RelayInv, TypeOK, Relay, Busy
<1>. QED
  BY <1>1, MinIsLeast

\* A relay that goes on keeps the invariant.
LEMMA RelayKept ==
    ASSUME RelayInv, NEW p \in Proc, NEW q \in Relay,
           relay' = [relay EXCEPT ![p] = q],
           q.pc \in {"send", "mark"} => q.batch # {}
    PROVE  relay' \in [Proc -> Relay] /\ \A x \in Busy' : relay'[x].batch # {}
  BY DEF RelayInv, TypeOK, Busy

LEMMA NextEntryKept ==
    ASSUME RelayInv, NEW p \in Busy, NextEntry(p)
    PROVE  relay' \in [Proc -> Relay] /\ \A x \in Busy' : relay'[x].batch # {}
<1>. DEFINE rest == relay[p].batch \ {Min(relay[p].batch)}
            q == [pc |-> IF rest = {} THEN "wait" ELSE "send", batch |-> rest]
<1>1. relay[p].batch \in SUBSET Event
  BY DEF RelayInv, TypeOK, Relay, Busy
<1>2. q \in Relay
  BY <1>1 DEF Relay
<1>3. q.pc \in {"send", "mark"} => q.batch # {}
  OBVIOUS
<1>4. relay' = [relay EXCEPT ![p] = q]
  BY DEF NextEntry
<1>5. p \in Proc
  BY DEF Busy
<1>. HIDE DEF q
<1>. QED
  BY <1>2, <1>3, <1>4, <1>5, RelayKept

LEMMA DownKept ==
    ASSUME RelayInv, NEW p \in Proc, NEW pc \in {"down", "wait"},
           relay' = [relay EXCEPT ![p] = [pc |-> pc, batch |-> {}]]
    PROVE  relay' \in [Proc -> Relay] /\ \A x \in Busy' : relay'[x].batch # {}
<1>1. [pc |-> pc, batch |-> {}] \in Relay
  BY DEF Relay
<1>. QED
  BY <1>1, RelayKept

\* A connection that moves on.
LEMMA ConnKept ==
    ASSUME TypeOK, NEW c \in Client, NEW ch \in Conn, conn' = [conn EXCEPT ![c] = ch]
    PROVE  conn' \in [Client -> Conn]
  BY DEF TypeOK

LEMMA StateType ==
    ASSUME NEW ch \in Conn, NEW st \in {"closed", "open", "removed"}
    PROVE  [ch EXCEPT !.st = st] \in Conn
  BY DEF Conn

LEMMA ReceiveType ==
    ASSUME NEW ch \in Conn, ch.buf # <<>>
    PROVE  [st |-> "open", buf |-> Tail(ch.buf), last |-> Max({ch.last, Head(ch.buf)})] \in Conn
<1>1. ch.buf \in Channel
  BY DEF Conn, Channel
<1>2. ch.buf \in Seq(Event) /\ Len(ch.buf) \in 0..ChanCap
  BY <1>1, ChannelIsSeq
<1>3. Tail(ch.buf) \in Seq(Event) /\ Len(Tail(ch.buf)) <= ChanCap /\ Head(ch.buf) \in Event
  BY <1>2, ConstantsAssumption
<1>4. Tail(ch.buf) \in Channel
  BY <1>3, SeqIsChannel
<1>5. Head(ch.buf) \in 0..MaxEvent /\ ch.last \in 0..MaxEvent
  BY <1>3, ConstantsAssumption DEF Event, Conn
<1>6. Max({ch.last, Head(ch.buf)}) \in 0..MaxEvent
  BY <1>5, MaxOfTwo
<1>. QED
  BY <1>4, <1>6 DEF Conn, Channel

LEMMA RelayInit == Init => RelayInv
<1>1. [pc |-> "wait", batch |-> {}] \in Relay
  BY DEF Relay
<1>. QED
  BY <1>1, ClosedType DEF Init, RelayInv, TypeOK, Busy

LEMMA RelayStep == RelayInv /\ [Next]_vars => RelayInv'
<1>. SUFFICES ASSUME RelayInv, [Next]_vars PROVE RelayInv'
  OBVIOUS
<1>. TypeOK
  BY DEF RelayInv
<1>1. ASSUME NEW e \in Event, AppendOutbox(e) PROVE RelayInv'
  BY <1>1 DEF AppendOutbox, RelayInv, TypeOK, Busy
<1>2. ASSUME NEW p \in Proc, Flush(p) PROVE RelayInv'
  <2>1. Oldest # {} /\ Oldest \in SUBSET Event
    BY <1>2, OldestIsThere DEF Flush
  <2>2. [pc |-> "send", batch |-> Oldest] \in Relay
    BY <2>1 DEF Relay
  <2>3. relay' = [relay EXCEPT ![p] = [pc |-> "send", batch |-> Oldest]]
    BY <1>2 DEF Flush
  <2>4. relay' \in [Proc -> Relay] /\ \A x \in Busy' : relay'[x].batch # {}
    BY <2>1, <2>2, <2>3, RelayKept
  <2>. QED
    BY <1>2, <2>4 DEF Flush, RelayInv, TypeOK
<1>3. ASSUME NEW p \in Proc, Broadcast(p) PROVE RelayInv'
  <2>. DEFINE e == Min(relay[p].batch)
              q == [relay[p] EXCEPT !.pc = "mark"]
  <2>1. p \in Busy
    BY <1>3 DEF Broadcast, Busy
  <2>2. e \in Event
    BY <2>1, AtEvent
  <2>3. conn' = [c \in Client |-> IF p = Server /\ c \in subs THEN Offered(conn[c], e) ELSE conn[c]]
    BY <1>3 DEF Broadcast
  <2>4. conn' \in [Client -> Conn]
    <3>1. ASSUME NEW c \in Client
          PROVE  (IF p = Server /\ c \in subs THEN Offered(conn[c], e) ELSE conn[c]) \in Conn
      <4>1. conn[c] \in Conn
        BY DEF TypeOK
      <4>2. Offered(conn[c], e) \in Conn
        BY <2>2, <4>1, OfferedType
      <4>. QED
        BY <4>1, <4>2
    <3>. QED
      BY <2>3, <3>1
  <2>5. q \in Relay /\ q.batch # {}
    BY <2>1 DEF RelayInv, TypeOK, Relay, Busy
  <2>6. relay' = [relay EXCEPT ![p] = q]
    BY <1>3 DEF Broadcast, TypeOK
  <2>. HIDE DEF q
  <2>7. relay' \in [Proc -> Relay] /\ \A x \in Busy' : relay'[x].batch # {}
    BY <2>5, <2>6, RelayKept
  <2>. QED
    BY <1>3, <2>2, <2>4, <2>7 DEF Broadcast, RelayInv, TypeOK
<1>4. ASSUME NEW p \in Proc, MarkDelivered(p) \/ MarkFails(p) PROVE RelayInv'
  <2>1. p \in Busy
    BY <1>4 DEF MarkDelivered, MarkFails, Busy
  <2>2. Min(relay[p].batch) \in Event
    BY <2>1, AtEvent
  <2>3. relay' \in [Proc -> Relay] /\ \A x \in Busy' : relay'[x].batch # {}
    BY <1>4, <2>1, NextEntryKept DEF MarkDelivered, MarkFails
  <2>. QED
    BY <1>4, <2>2, <2>3 DEF MarkDelivered, MarkFails, RelayInv, TypeOK
<1>5. ASSUME NEW p \in Proc, CancelOpen(p) \/ Restart(p) PROVE RelayInv'
  <2>1. relay' \in [Proc -> Relay] /\ \A x \in Busy' : relay'[x].batch # {}
    BY <1>5, DownKept DEF CancelOpen, Restart
  <2>2. conn' \in [Client -> Conn] /\ subs' \subseteq Client
    BY <1>5, ClosedType DEF CancelOpen, Restart, TypeOK
  <2>. QED
    BY <1>5, <2>1, <2>2 DEF CancelOpen, Restart, RelayInv, TypeOK
<1>6. ASSUME NEW c \in Client, Subscribe(c) \/ Receive(c) \/ Unsubscribe(c) \/ CloseChannel(c)
      PROVE  RelayInv'
  <2>. conn[c] \in Conn
    BY DEF TypeOK
  <2>1. CASE Subscribe(c)
    <3>1. conn' = [conn EXCEPT ![c] = [conn[c] EXCEPT !.st = "open"]]
      BY <2>1 DEF Subscribe
    <3>2. conn' \in [Client -> Conn]
      BY <3>1, StateType, ConnKept
    <3>. QED
      BY <2>1, <3>2 DEF Subscribe, RelayInv, TypeOK, Busy
  <2>2. CASE Receive(c)
    <3>1. conn' = [conn EXCEPT ![c] = [st |-> "open", buf |-> Tail(conn[c].buf),
                                       last |-> Max({conn[c].last, Head(conn[c].buf)})]]
      BY <2>2 DEF Receive
    <3>2. conn' \in [Client -> Conn]
      BY <2>2, <3>1, ReceiveType, ConnKept DEF Receive
    <3>. QED
      BY <2>2, <3>2 DEF Receive, RelayInv, TypeOK, Busy
  <2>3. CASE Unsubscribe(c)
    <3>1. conn' = [conn EXCEPT ![c] = [conn[c] EXCEPT !.st = "removed"]]
      BY <2>3 DEF Unsubscribe
    <3>2. conn' \in [Client -> Conn]
      BY <3>1, StateType, ConnKept
    <3>. QED
      BY <2>3, <3>2 DEF Unsubscribe, RelayInv, TypeOK, Busy
  <2>4. CASE CloseChannel(c)
    <3>1. conn' \in [Client -> Conn]
      BY <2>4, ClosedType, ConnKept DEF CloseChannel
    <3>. QED
      BY <2>4, <3>1 DEF CloseChannel, RelayInv, TypeOK, Busy
  <2>. QED
    BY <1>6, <2>1, <2>2, <2>3, <2>4
<1>7. CASE UNCHANGED vars
  BY <1>7 DEF vars, RelayInv, TypeOK, Busy
<1>. QED
  BY <1>1, <1>2, <1>3, <1>4, <1>5, <1>6, <1>7 DEF Next

\* Type correctness: above all, no channel ever holds more than its capacity,
\* and no relay broadcasts or marks an event that is not in the table.
THEOREM TypeCorrect == Spec => []TypeOK
<1>1. RelayInv => TypeOK
  BY DEF RelayInv
<1>. QED
  BY <1>1, RelayInit, RelayStep, PTL DEF Spec

-----------------------------------------------------------------------------
(* Safety. *)

LEMMA HubStep == RelayInv /\ HubIsOpen /\ [Next]_vars => HubIsOpen'
<1>. SUFFICES ASSUME RelayInv, HubIsOpen, [Next]_vars PROVE HubIsOpen'
  OBVIOUS
<1>. TypeOK
  BY DEF RelayInv
<1>1. ASSUME NEW p \in Proc, Broadcast(p) PROVE HubIsOpen'
  <2>1. Min(relay[p].batch) \in Event
    BY <1>1, AtEvent DEF Broadcast, Busy
  <2>2. \A c \in Client : conn[c] \in Conn
    BY DEF TypeOK
  <2>3. \A c \in Client : conn'[c].st = conn[c].st
    BY <1>1, <2>1, <2>2, OfferedType DEF Broadcast
  <2>4. subs' = subs /\ subs \subseteq Client
    BY <1>1 DEF Broadcast, TypeOK
  <2>. QED
    BY <2>3, <2>4 DEF HubIsOpen
<1>2. ASSUME NEW p \in Proc,
             Flush(p) \/ MarkDelivered(p) \/ MarkFails(p) \/ CancelOpen(p) \/ Restart(p)
      PROVE  HubIsOpen'
  BY <1>2 DEF Flush, MarkDelivered, MarkFails, CancelOpen, Restart, HubIsOpen
<1>3. ASSUME NEW c \in Client, Subscribe(c) \/ Receive(c) \/ Unsubscribe(c) \/ CloseChannel(c)
      PROVE  HubIsOpen'
  <2>. conn \in [Client -> Conn] /\ subs \subseteq Client
    BY DEF TypeOK
  <2>1. \A d \in Client : d # c => conn'[d] = conn[d]
    BY <1>3 DEF Subscribe, Receive, Unsubscribe, CloseChannel
  <2>2. CASE Subscribe(c)
    <3>1. conn' = [conn EXCEPT ![c] = [conn[c] EXCEPT !.st = "open"]]
      BY <2>2 DEF Subscribe
    <3>2. conn'[c].st = "open"
      BY <3>1 DEF Conn
    <3>. QED
      BY <2>1, <2>2, <3>2 DEF Subscribe, HubIsOpen
  <2>3. CASE Receive(c)
    <3>1. conn'[c].st = "open"
      BY <2>3 DEF Receive
    <3>. QED
      BY <2>1, <2>3, <3>1 DEF Receive, HubIsOpen
  <2>4. CASE Unsubscribe(c)
    BY <2>1, <2>4 DEF Unsubscribe, HubIsOpen
  <2>5. CASE CloseChannel(c)
    <3>1. c \notin subs
      BY <2>5 DEF CloseChannel, HubIsOpen
    <3>. QED
      BY <2>1, <2>5, <3>1 DEF CloseChannel, HubIsOpen
  <2>. QED
    BY <1>3, <2>2, <2>3, <2>4, <2>5
<1>4. ASSUME NEW e \in Event, AppendOutbox(e) PROVE HubIsOpen'
  BY <1>4 DEF AppendOutbox, HubIsOpen
<1>5. CASE UNCHANGED vars
  BY <1>5 DEF vars, HubIsOpen
<1>. QED
  BY <1>1, <1>2, <1>3, <1>4, <1>5 DEF Next

\* Hub.broadcast never sends on a closed channel, whoever subscribes, leaves or
\* restarts while it does.
THEOREM HubStaysOpen == Spec => []HubIsOpen
<1>1. Init => HubIsOpen
  BY DEF Init, HubIsOpen
<1>. QED
  BY <1>1, HubStep, RelayInit, RelayStep, PTL DEF Spec

\* What a relay is about to mark has been broadcast, and so has what is marked.
MarkInv ==
    /\ DeliveredWasBroadcast
    /\ \A p \in Proc : relay[p].pc = "mark" => Min(relay[p].batch) \in sent[p]

\* No event is lost between the two steps of a relay: whenever a process dies or
\* the database is busy, a row is delivered only if some relay has sent it (to
\* the hub of its own process, which for a worker's relay is nobody's).
THEOREM DeliveryIsTrue == Spec => []DeliveredWasBroadcast
<1>1. Init => MarkInv
  BY DEF Init, MarkInv, DeliveredWasBroadcast
<1>2. RelayInv /\ MarkInv /\ [Next]_vars => MarkInv'
  <2>. SUFFICES ASSUME RelayInv, MarkInv, [Next]_vars PROVE MarkInv'
    OBVIOUS
  <2>. relay \in [Proc -> Relay] /\ outbox \in [Event -> {"none", "pending", "delivered"}]
    BY DEF RelayInv, TypeOK
  <2>1. ASSUME NEW e \in Event, AppendOutbox(e) PROVE MarkInv'
    BY <2>1 DEF AppendOutbox, MarkInv, DeliveredWasBroadcast
  <2>2. ASSUME NEW p \in Proc, Broadcast(p) PROVE MarkInv'
    <3>1. /\ \A x \in Proc : sent[x] \subseteq sent'[x]
          /\ Min(relay[p].batch) \in sent'[p] /\ outbox' = outbox
      BY <2>2 DEF Broadcast, RelayInv, TypeOK
    <3>2. relay' = [relay EXCEPT ![p].pc = "mark"]
      BY <2>2 DEF Broadcast
    <3>3. relay'[p].batch = relay[p].batch /\ \A x \in Proc : x # p => relay'[x] = relay[x]
      BY <3>2 DEF Relay
    <3>. QED
      BY <3>1, <3>3 DEF MarkInv, DeliveredWasBroadcast
  <2>3. ASSUME NEW p \in Proc, NextEntry(p) PROVE \A x \in Proc : relay'[x].pc = "mark" => relay'[x] = relay[x]
    BY <2>3 DEF NextEntry
  <2>4. ASSUME NEW p \in Proc, MarkDelivered(p) \/ MarkFails(p) PROVE MarkInv'
    BY <2>3, <2>4 DEF MarkDelivered, MarkFails, MarkInv, DeliveredWasBroadcast
  <2>5. ASSUME NEW p \in Proc, Flush(p) \/ CancelOpen(p) \/ Restart(p) PROVE MarkInv'
    BY <2>5 DEF Flush, CancelOpen, Restart, MarkInv, DeliveredWasBroadcast
  <2>6. ASSUME NEW c \in Client, Subscribe(c) \/ Receive(c) \/ Unsubscribe(c) \/ CloseChannel(c)
        PROVE  MarkInv'
    BY <2>6 DEF Subscribe, Receive, Unsubscribe, CloseChannel, MarkInv, DeliveredWasBroadcast
  <2>7. CASE UNCHANGED vars
    BY <2>7 DEF vars, MarkInv, DeliveredWasBroadcast
  <2>. QED
    BY <2>1, <2>2, <2>4, <2>5, <2>6, <2>7 DEF Next
<1>3. MarkInv => DeliveredWasBroadcast
  BY DEF MarkInv
<1>. QED
  BY <1>1, <1>2, <1>3, RelayInit, RelayStep, PTL DEF Spec

-----------------------------------------------------------------------------
(***************************************************************************)
(* The order of events.  What a connection has or had in its channel is    *)
(* marked, up to the event the relay is at, so that a flush begins behind  *)
(* it; a mark that fails sets its event aside.  Only the server's relay    *)
(* matters, and the worker may mark what it likes.                         *)
(***************************************************************************)
Done(d, box, un) == box[d] = "delivered" \/ d \in un

\* Rows are committed in the order of their ids.
NoGaps(box) == \A e, d \in Event : d < e /\ box[e] # "none" => box[d] # "none"

\* A batch leaves out no pending row that is older than one of its own.
BatchOK(r, box, un) ==
    r.pc \in {"send", "mark"} =>
        \A x \in r.batch : \A d \in Event : d < x => d \in r.batch \/ Done(d, box, un)

At(r, d) == r.pc = "mark" /\ d = Min(r.batch)

Has(ch, x) == x = ch.last \/ \E i \in 1..Len(ch.buf) : x = ch.buf[i]

Behind(x, r, box, un) == \A d \in Event : d <= x => Done(d, box, un) \/ At(r, d)

Ahead(x, r, un) ==
    r.pc \in {"send", "mark"} => \A b \in r.batch : At(r, b) \/ b > x \/ b \in un

Ordered(ch, un) ==
    \A i \in 1..Len(ch.buf) :
        \/ ch.buf[i] \in un
        \/ ch.buf[i] > ch.last /\ \A j \in 1..(i - 1) : ch.buf[i] > ch.buf[j]

ChannelOK(ch, r, box, un) ==
    /\ Ordered(ch, un)
    /\ \A x \in 0..MaxEvent : Has(ch, x) => Behind(x, r, box, un) /\ Ahead(x, r, un)

OrderInv ==
    /\ NoGaps(outbox)
    /\ BatchOK(relay[Server], outbox, unmarked)
    /\ \A c \in Client :
         /\ conn[c].st = "closed" => conn[c] = Closed
         /\ conn[c].st = "open" => ChannelOK(conn[c], relay[Server], outbox, unmarked)

LEMMA EventsAre == Event \subseteq Nat /\ Event \subseteq 0..MaxEvent /\ MaxEvent \in Nat
  BY ConstantsAssumption DEF Event

\* Marks only help, whoever makes them.
LEMMA MarksHelp ==
    ASSUME NEW r, NEW box, NEW un, NEW box2, NEW un2,
           un \subseteq un2,
           \A d \in Event : box[d] = "delivered" => box2[d] = "delivered"
    PROVE  /\ BatchOK(r, box, un) => BatchOK(r, box2, un2)
           /\ \A ch : ChannelOK(ch, r, box, un) => ChannelOK(ch, r, box2, un2)
<1>1. \A d \in Event : Done(d, box, un) => Done(d, box2, un2)
  BY DEF Done
<1>2. ASSUME BatchOK(r, box, un) PROVE BatchOK(r, box2, un2)
  BY <1>1, <1>2 DEF BatchOK
<1>3. ASSUME NEW ch, ChannelOK(ch, r, box, un) PROVE ChannelOK(ch, r, box2, un2)
  <2>1. Ordered(ch, un2)
    BY <1>3 DEF ChannelOK, Ordered
  <2>2. ASSUME NEW x \in 0..MaxEvent, Has(ch, x) PROVE Behind(x, r, box2, un2) /\ Ahead(x, r, un2)
    <3>1. Behind(x, r, box, un) /\ Ahead(x, r, un)
      BY <1>3, <2>2 DEF ChannelOK
    <3>2. Behind(x, r, box2, un2)
      BY <1>1, <3>1 DEF Behind
    <3>3. Ahead(x, r, un2)
      BY <3>1 DEF Ahead
    <3>. QED
      BY <3>2, <3>3
  <2>. QED
    BY <2>1, <2>2 DEF ChannelOK
<1>. QED
  BY <1>2, <1>3

\* A row that is older than one of the oldest is one of them.
LEMMA OldestIsPrefix ==
    ASSUME NEW x \in Oldest, NEW d \in PendingEvents, d < x
    PROVE  d \in Oldest
<1>. DEFINE A == {e \in PendingEvents : e <= d}
            B == {e \in PendingEvents : e <= x}
<1>1. PendingEvents \subseteq Event /\ x \in PendingEvents /\ Cardinality(B) <= BatchLimit
  BY DEF PendingEvents, Oldest
<1>2. \A e \in PendingEvents : e \in Nat
  BY <1>1, EventsAre
<1>3. A \subseteq B
  BY <1>1, <1>2
<1>4. IsFiniteSet(B)
  <2>1. IsFiniteSet(0..MaxEvent)
    BY EventsAre, FS_Interval
  <2>2. B \subseteq 0..MaxEvent
    BY <1>1, EventsAre
  <2>. QED
    BY <2>1, <2>2, FS_Subset
<1>5. Cardinality(A) <= Cardinality(B) /\ Cardinality(A) \in Nat /\ Cardinality(B) \in Nat
  BY <1>3, <1>4, FS_Subset, FS_CardinalityType
<1>6. Cardinality(A) <= BatchLimit
  BY <1>1, <1>5, ConstantsAssumption
<1>. QED
  BY <1>6 DEF Oldest

\* The relay broadcasts the oldest of its batch: it is new, or has come before
\* because its mark failed.
LEMMA OfferedIsOrdered ==
    ASSUME NEW r \in Relay, NEW box, NEW un, NEW ch \in Conn,
           r.pc = "send", r.batch # {},
           BatchOK(r, box, un), ChannelOK(ch, r, box, un)
    PROVE  /\ ChannelOK(ch, [r EXCEPT !.pc = "mark"], box, un)
           /\ ChannelOK(Offered(ch, Min(r.batch)), [r EXCEPT !.pc = "mark"], box, un)
<1>. DEFINE e == Min(r.batch)
            r2 == [r EXCEPT !.pc = "mark"]
<1>1. r2.pc = "mark" /\ r2.batch = r.batch /\ r.batch \in SUBSET Event
  BY DEF Relay
<1>2. e \in r.batch /\ e \in Event /\ \A y \in r.batch : e <= y
  BY <1>1, MinIsLeast
<1>3. \A d : At(r2, d) <=> d = e
  BY <1>1 DEF At
<1>4. \A d : ~At(r, d)
  BY DEF At
<1>5. Behind(e, r2, box, un) /\ Ahead(e, r2, un)
  <2>1. ASSUME NEW d \in Event, d <= e PROVE Done(d, box, un) \/ At(r2, d)
    <3>1. d \in Nat /\ e \in Nat
      BY <1>2, EventsAre
    <3>2. CASE d = e
      BY <1>3, <3>2
    <3>3. CASE d # e
      <4>1. d < e
        BY <2>1, <3>1, <3>3
      <4>2. d \notin r.batch
        BY <1>2, <3>1, <4>1
      <4>. QED
        BY <1>2, <4>1, <4>2 DEF BatchOK
    <3>. QED
      BY <3>2, <3>3
  <2>2. ASSUME NEW b \in r.batch PROVE At(r2, b) \/ b > e
    <3>1. b \in Nat /\ e \in Nat /\ e <= b
      BY <1>1, <1>2, EventsAre
    <3>. QED
      BY <1>3, <3>1
  <2>. QED
    BY <1>1, <2>1, <2>2 DEF Behind, Ahead
<1>. HIDE DEF e, r2
<1>6. ASSUME NEW x \in 0..MaxEvent, Has(ch, x)
      PROVE  /\ Behind(x, r2, box, un) /\ Ahead(x, r2, un)
             /\ e > x \/ e \in un
  <2>1. Behind(x, r, box, un) /\ Ahead(x, r, un)
    BY <1>6 DEF ChannelOK
  <2>. QED
    BY <1>1, <1>2, <1>4, <2>1 DEF Behind, Ahead
<1>7. ChannelOK(ch, r2, box, un)
  BY <1>6 DEF ChannelOK
<1>8. ChannelOK(Offered(ch, e), r2, box, un)
  <2>. DEFINE o == Offered(ch, e)
  <2>1. CASE ~(Len(ch.buf) < ChanCap)
    <3>1. o = ch
      BY <2>1 DEF Offered, Conn
    <3>. QED
      BY <1>7, <3>1
  <2>2. CASE Len(ch.buf) < ChanCap
    <3>0. ch.buf \in [1..Len(ch.buf) -> Event]
      BY ChannelIsSeq DEF Conn, Channel
    <3>1. ch.buf \in Seq(Event) /\ Len(ch.buf) \in Nat /\ ch.last \in 0..MaxEvent
      <4>1. ch.buf \in Channel /\ ch.last \in 0..MaxEvent
        BY DEF Conn, Channel
      <4>. QED
        BY <4>1, ChannelIsSeq
    <3>2. o.buf = Append(ch.buf, e) /\ o.last = ch.last
      BY <1>2, <2>2, <3>1 DEF Offered
    <3>3. /\ Len(o.buf) = Len(ch.buf) + 1 /\ o.buf[Len(ch.buf) + 1] = e
          /\ \A i \in 1..Len(ch.buf) : o.buf[i] = ch.buf[i]
      BY <1>2, <3>1, <3>2
    <3>. HIDE DEF o
    <3>4. \A x : Has(o, x) <=> Has(ch, x) \/ x = e
      BY <3>1, <3>2, <3>3 DEF Has
    <3>5. Ordered(o, un)
      <4>1. ASSUME NEW i \in 1..Len(ch.buf)
            PROVE  \/ o.buf[i] \in un
                   \/ o.buf[i] > o.last /\ \A j \in 1..(i - 1) : o.buf[i] > o.buf[j]
        <5>1. \/ ch.buf[i] \in un
              \/ ch.buf[i] > ch.last /\ \A j \in 1..(i - 1) : ch.buf[i] > ch.buf[j]
          BY DEF ChannelOK, Ordered
        <5>2. \A j \in 1..(i - 1) : j \in 1..Len(ch.buf)
          BY <3>1
        <5>. QED
          BY <3>2, <3>3, <5>1, <5>2
      <4>2. e \in un \/ (e > o.last /\ \A j \in 1..Len(ch.buf) : e > o.buf[j])
        <5>1. Has(ch, ch.last) /\ \A j \in 1..Len(ch.buf) : Has(ch, ch.buf[j])
          BY DEF Has
        <5>2. \A j \in 1..Len(ch.buf) : ch.buf[j] \in 0..MaxEvent
          BY <3>0, EventsAre
        <5>. QED
          BY <1>6, <3>1, <3>2, <3>3, <5>1, <5>2
      <4>3. \A i \in 1..(Len(ch.buf) + 1) : i \in 1..Len(ch.buf) \/ i = Len(ch.buf) + 1
        BY <3>1
      <4>4. (Len(ch.buf) + 1) - 1 = Len(ch.buf)
        BY <3>1
      <4>. QED
        BY <3>3, <4>1, <4>2, <4>3, <4>4 DEF Ordered
    <3>. QED
      BY <1>5, <1>6, <3>4, <3>5 DEF ChannelOK, o
  <2>. QED
    BY <2>1, <2>2
<1>. QED
  BY <1>7, <1>8 DEF e, r2

\* The event the relay was at is done with, marked or set aside.
LEMMA NextIsOrdered ==
    ASSUME NEW r \in Relay, NEW box, NEW un, NEW box2, NEW un2, NEW r2,
           r.pc = "mark", r.batch # {},
           un \subseteq un2,
           \A d \in Event : box[d] = "delivered" => box2[d] = "delivered",
           Done(Min(r.batch), box2, un2),
           r2.pc # "mark", r2.batch = r.batch \ {Min(r.batch)}
    PROVE  /\ BatchOK(r, box, un) => BatchOK(r2, box2, un2)
           /\ \A ch : ChannelOK(ch, r, box, un) => ChannelOK(ch, r2, box2, un2)
<1>. DEFINE e == Min(r.batch)
<1>1. \A d \in Event : Done(d, box, un) => Done(d, box2, un2)
  BY DEF Done
<1>2. r.batch \subseteq Event /\ e \in Event
  <2>1. r.batch \in SUBSET Event
    BY DEF Relay
  <2>. QED
    BY <2>1, MinIsLeast
<1>3. (\A d : At(r, d) <=> d = e) /\ \A d : ~At(r2, d)
  BY DEF At
<1>4. Done(e, box2, un2) /\ r2.batch = r.batch \ {e}
  OBVIOUS
<1>. HIDE DEF e
<1>5. ASSUME BatchOK(r, box, un) PROVE BatchOK(r2, box2, un2)
  <2>1. ASSUME NEW x \in r2.batch, NEW d \in Event, d < x
        PROVE  d \in r2.batch \/ Done(d, box2, un2)
    <3>1. d \in r.batch \/ Done(d, box, un)
      BY <1>4, <1>5, <2>1 DEF BatchOK
    <3>. QED
      BY <1>1, <1>4, <3>1
  <2>. QED
    BY <2>1 DEF BatchOK
<1>6. ASSUME NEW ch, ChannelOK(ch, r, box, un) PROVE ChannelOK(ch, r2, box2, un2)
  <2>1. Ordered(ch, un2)
    BY <1>6 DEF ChannelOK, Ordered
  <2>2. ASSUME NEW x \in 0..MaxEvent, Has(ch, x)
        PROVE  Behind(x, r2, box2, un2) /\ Ahead(x, r2, un2)
    <3>1. Behind(x, r, box, un) /\ Ahead(x, r, un)
      BY <1>6, <2>2 DEF ChannelOK
    <3>2. Behind(x, r2, box2, un2)
      BY <1>1, <1>3, <1>4, <3>1 DEF Behind
    <3>3. Ahead(x, r2, un2)
      BY <1>3, <1>4, <3>1 DEF Ahead
    <3>. QED
      BY <3>2, <3>3
  <2>. QED
    BY <2>1, <2>2 DEF ChannelOK
<1>. QED
  BY <1>5, <1>6

\* A connection takes the first event of its channel.
LEMMA ReceiveIsOrdered ==
    ASSUME NEW ch \in Conn, ch.buf # <<>>, NEW r, NEW box, NEW un, ChannelOK(ch, r, box, un)
    PROVE  /\ ChannelOK([st |-> "open", buf |-> Tail(ch.buf),
                         last |-> Max({ch.last, Head(ch.buf)})], r, box, un)
           /\ Head(ch.buf) > ch.last \/ Head(ch.buf) \in un
<1>. DEFINE o == [st |-> "open", buf |-> Tail(ch.buf), last |-> Max({ch.last, Head(ch.buf)})]
<1>1. /\ ch.buf \in Seq(Event) /\ Len(ch.buf) \in Nat /\ ch.last \in 0..MaxEvent
      /\ ch.buf \in [1..Len(ch.buf) -> Event]
  BY ChannelIsSeq DEF Conn, Channel
<1>2. Len(ch.buf) >= 1 /\ Head(ch.buf) = ch.buf[1]
  BY <1>1
<1>3. /\ Len(o.buf) = Len(ch.buf) - 1
      /\ \A i \in 1..(Len(ch.buf) - 1) : o.buf[i] = ch.buf[i + 1]
  BY <1>1, <1>2
<1>4. \A i \in 1..Len(ch.buf) : ch.buf[i] \in Event /\ ch.buf[i] \in Nat
  BY <1>1, EventsAre
<1>5. 1 \in 1..Len(ch.buf) /\ ch.last \in Nat
  BY <1>1, <1>2, EventsAre
<1>6. ch.buf[1] > ch.last \/ ch.buf[1] \in un
  BY <1>5 DEF ChannelOK, Ordered
<1>7. o.last = ch.last \/ o.last = ch.buf[1]
  <2>1. \E x \in {ch.last, ch.buf[1]} : \A y \in {ch.last, ch.buf[1]} : x >= y
    BY <1>4, <1>5
  <2>2. Max({ch.last, ch.buf[1]}) \in {ch.last, ch.buf[1]}
    BY <2>1 DEF Max
  <2>. QED
    BY <1>2, <2>2
<1>. HIDE DEF o
<1>8. \A x : Has(o, x) => Has(ch, x)
  <2>1. ASSUME NEW i \in 1..Len(o.buf) PROVE i + 1 \in 1..Len(ch.buf) /\ o.buf[i] = ch.buf[i + 1]
    BY <1>1, <1>3
  <2>. QED
    BY <1>5, <1>7, <2>1 DEF Has
<1>9. Ordered(o, un)
  <2>1. ASSUME NEW i \in 1..Len(o.buf), o.buf[i] \notin un
        PROVE  o.buf[i] > o.last /\ \A j \in 1..(i - 1) : o.buf[i] > o.buf[j]
    <3>1. i + 1 \in 1..Len(ch.buf) /\ o.buf[i] = ch.buf[i + 1] /\ i \in Nat /\ i >= 1
      BY <1>1, <1>3
    <3>2. ch.buf[i + 1] > ch.last /\ \A j \in 1..i : ch.buf[i + 1] > ch.buf[j]
      <4>1. (i + 1) - 1 = i
        BY <3>1
      <4>. QED
        BY <2>1, <3>1, <4>1 DEF ChannelOK, Ordered
    <3>3. o.buf[i] > o.last
      BY <1>7, <3>1, <3>2
    <3>4. ASSUME NEW j \in 1..(i - 1) PROVE o.buf[i] > o.buf[j]
      <4>1. j + 1 \in 1..i /\ o.buf[j] = ch.buf[j + 1]
        BY <1>1, <1>3, <3>1
      <4>. QED
        BY <3>1, <3>2, <4>1
    <3>. QED
      BY <3>3, <3>4
  <2>. QED
    BY <2>1 DEF Ordered
<1>10. ChannelOK(o, r, box, un)
  BY <1>8, <1>9 DEF ChannelOK
<1>. QED
  BY <1>2, <1>6, <1>10 DEF o

\* A connection that has just been opened.
LEMMA NewChannel ==
    ASSUME NEW r \in Relay, NEW box, NEW un, NEW ch, ch.buf = <<>>, ch.last = 0
    PROVE  ChannelOK(ch, r, box, un)
<1>1. Len(ch.buf) = 0
  OBVIOUS
<1>2. \A x : Has(ch, x) => x = 0
  BY <1>1 DEF Has
<1>3. \A d \in Event : d \in Nat /\ d > 0
  BY ConstantsAssumption DEF Event
<1>4. Behind(0, r, box, un)
  BY <1>3 DEF Behind
<1>5. Ahead(0, r, un)
  <2>1. r.batch \subseteq Event
    BY DEF Relay
  <2>. QED
    BY <1>3, <2>1 DEF Ahead
<1>6. Ordered(ch, un)
  BY <1>1 DEF Ordered
<1>. QED
  BY <1>2, <1>4, <1>5, <1>6 DEF ChannelOK

\* Rows that a relay has read exist, and rows never go away.
RowsExist == \A p \in Proc : \A e \in relay[p].batch : outbox[e] # "none"

LEMMA RowsStep == RelayInv /\ RowsExist /\ [Next]_vars => RowsExist'
<1>. SUFFICES ASSUME RelayInv, RowsExist, [Next]_vars PROVE RowsExist'
  OBVIOUS
<1>. /\ relay \in [Proc -> Relay] /\ \A p \in Proc : relay[p].batch \subseteq Event
     /\ outbox \in [Event -> {"none", "pending", "delivered"}]
  BY DEF RelayInv, TypeOK, Relay
<1>1. ASSUME NEW p \in Proc, Flush(p) PROVE RowsExist'
  <2>1. \A e \in Oldest : outbox[e] # "none"
    BY DEF Oldest, PendingEvents
  <2>. QED
    BY <1>1, <2>1 DEF Flush, RowsExist
<1>2. ASSUME NEW p \in Proc, Broadcast(p) \/ CancelOpen(p) \/ Restart(p) PROVE RowsExist'
  <2>1. outbox' = outbox /\ \A x \in Proc : relay'[x].batch \subseteq relay[x].batch
    BY <1>2 DEF Broadcast, CancelOpen, Restart, Relay
  <2>. QED
    BY <2>1 DEF RowsExist
<1>3. ASSUME NEW p \in Proc, MarkDelivered(p) \/ MarkFails(p) PROVE RowsExist'
  <2>1. \A x \in Proc : relay'[x].batch \subseteq relay[x].batch
    BY <1>3 DEF MarkDelivered, MarkFails, NextEntry
  <2>2. \A d \in Event : outbox'[d] = outbox[d] \/ outbox'[d] = "delivered"
    BY <1>3 DEF MarkDelivered, MarkFails
  <2>. QED
    BY <2>1, <2>2 DEF RowsExist
<1>4. ASSUME NEW e \in Event, AppendOutbox(e) PROVE RowsExist'
  BY <1>4 DEF AppendOutbox, RowsExist
<1>5. ASSUME NEW c \in Client, Subscribe(c) \/ Receive(c) \/ Unsubscribe(c) \/ CloseChannel(c)
      PROVE  RowsExist'
  BY <1>5 DEF Subscribe, Receive, Unsubscribe, CloseChannel, RowsExist
<1>6. CASE UNCHANGED vars
  BY <1>6 DEF vars, RowsExist
<1>. QED
  BY <1>1, <1>2, <1>3, <1>4, <1>5, <1>6 DEF Next

\* Marks alone: the server's relay and the connections stay.
LEMMA MarksKept ==
    ASSUME OrderInv, NoGaps(outbox'), relay'[Server] = relay[Server], conn' = conn,
           unmarked \subseteq unmarked',
           \A d \in Event : outbox[d] = "delivered" => outbox'[d] = "delivered"
    PROVE  OrderInv'
<1>1. BatchOK(relay[Server], outbox', unmarked')
  BY MarksHelp DEF OrderInv
<1>2. \A c \in Client : conn[c].st = "open" =>
         ChannelOK(conn[c], relay[Server], outbox', unmarked')
  BY MarksHelp DEF OrderInv
<1>. QED
  BY <1>1, <1>2 DEF OrderInv

\* One connection alone.
LEMMA ChannelKept ==
    ASSUME OrderInv, UNCHANGED <<outbox, relay, unmarked>>, NEW c \in Client,
           \A d \in Client : d # c => conn'[d] = conn[d],
           conn'[c].st = "closed" => conn'[c] = Closed,
           conn'[c].st = "open" => ChannelOK(conn'[c], relay[Server], outbox, unmarked)
    PROVE  OrderInv'
<1>1. ASSUME NEW d \in Client
      PROVE  /\ conn'[d].st = "closed" => conn'[d] = Closed
             /\ conn'[d].st = "open" => ChannelOK(conn'[d], relay[Server], outbox, unmarked)
  <2>1. CASE d = c
    BY <2>1
  <2>2. CASE d # c
    BY <2>2 DEF OrderInv
  <2>. QED
    BY <2>1, <2>2
<1>. QED
  BY <1>1 DEF OrderInv

LEMMA OrderInit == Init => OrderInv
<1>. SUFFICES ASSUME Init PROVE OrderInv
  OBVIOUS
<1>1. relay[Server].pc = "wait" /\ \A c \in Client : conn[c] = Closed /\ conn[c].st = "closed"
  BY ConstantsAssumption DEF Init, Closed
<1>2. NoGaps(outbox)
  BY DEF Init, NoGaps
<1>. QED
  BY <1>1, <1>2 DEF OrderInv, BatchOK

LEMMA OrderStep ==
    RelayInv /\ HubIsOpen /\ RowsExist /\ OrderInv /\ [Next]_vars => OrderInv'
<1>. SUFFICES ASSUME RelayInv, HubIsOpen, RowsExist, OrderInv, [Next]_vars PROVE OrderInv'
  OBVIOUS
<1>. TypeOK
  BY DEF RelayInv
<1>. /\ relay \in [Proc -> Relay] /\ relay[Server] \in Relay /\ Server \in Proc
     /\ outbox \in [Event -> {"none", "pending", "delivered"}]
     /\ conn \in [Client -> Conn]
  BY ConstantsAssumption DEF TypeOK
<1>. NoGaps(outbox)
  BY DEF OrderInv
<1>1. ASSUME NEW e \in Event, AppendOutbox(e) PROVE OrderInv'
  <2>1. NoGaps(outbox')
    <3>1. \A d \in 1..(e - 1) : outbox[d] # "none"
      BY <1>1 DEF AppendOutbox
    <3>2. \A d \in Event : d < e => d \in 1..(e - 1)
      BY ConstantsAssumption DEF Event
    <3>3. outbox' = [outbox EXCEPT ![e] = "pending"]
      BY <1>1 DEF AppendOutbox
    <3>. QED
      BY <3>1, <3>2, <3>3 DEF NoGaps
  <2>. QED
    BY <1>1, <2>1, MarksKept DEF AppendOutbox
<1>2. ASSUME NEW p \in Proc, p # Server, Flush(p) \/ Broadcast(p) \/ CancelOpen(p) \/ Restart(p)
      PROVE  OrderInv'
  <2>1. relay'[Server] = relay[Server]
    BY <1>2 DEF Flush, Broadcast, CancelOpen, Restart
  <2>2. conn' = conn
    BY <1>2 DEF Flush, Broadcast, CancelOpen, Restart
  <2>3. UNCHANGED <<outbox, unmarked>>
    BY <1>2 DEF Flush, Broadcast, CancelOpen, Restart
  <2>. QED
    BY <2>1, <2>2, <2>3, MarksKept
<1>3. ASSUME NEW p \in Proc, MarkDelivered(p) \/ MarkFails(p) PROVE OrderInv'
  <2>. DEFINE e == Min(relay[p].batch)
  <2>1. p \in Busy /\ relay[p].pc = "mark"
    BY <1>3 DEF MarkDelivered, MarkFails, Busy
  <2>2. e \in relay[p].batch /\ e \in Event /\ relay[p].batch # {}
    BY <2>1, AtEvent
  <2>0. outbox[e] # "none"
    BY <2>2 DEF RowsExist
  <2>3. /\ conn' = conn /\ unmarked \subseteq unmarked'
        /\ \A d \in Event : outbox'[d] = outbox[d] \/ outbox'[d] = "delivered"
        /\ \A d \in Event : outbox[d] = "none" => outbox'[d] = "none"
        /\ Done(e, outbox', unmarked')
    BY <1>3, <2>0, <2>2 DEF MarkDelivered, MarkFails, Done
  <2>4. NextEntry(p)
    BY <1>3 DEF MarkDelivered, MarkFails
  <2>5. NoGaps(outbox')
    BY <2>3 DEF NoGaps
  <2>6. CASE p # Server
    <3>1. relay'[Server] = relay[Server]
      BY <2>4, <2>6 DEF NextEntry
    <3>. QED
      BY <2>3, <2>5, <3>1, MarksKept
  <2>7. CASE p = Server
    <3>. DEFINE r2 == relay'[Server]
    <3>1. r2.pc # "mark" /\ r2.batch = relay[Server].batch \ {Min(relay[Server].batch)}
      BY <2>4, <2>7 DEF NextEntry
    <3>2. \A d \in Event : outbox[d] = "delivered" => outbox'[d] = "delivered"
      BY <2>3
    <3>. HIDE DEF r2
    <3>3. BatchOK(r2, outbox', unmarked')
      BY <2>1, <2>2, <2>3, <2>7, <3>1, <3>2, NextIsOrdered DEF OrderInv
    <3>4. \A c \in Client : conn[c].st = "open" => ChannelOK(conn[c], r2, outbox', unmarked')
      BY <2>1, <2>2, <2>3, <2>7, <3>1, <3>2, NextIsOrdered DEF OrderInv
    <3>. QED
      BY <2>3, <2>5, <3>3, <3>4 DEF OrderInv, r2
  <2>. QED
    BY <2>6, <2>7
<1>4. ASSUME Flush(Server) PROVE OrderInv'
  <2>. DEFINE r2 == [pc |-> "send", batch |-> Oldest]
  <2>1. relay'[Server] = r2 /\ r2.pc = "send" /\ r2.batch = Oldest /\ relay[Server].pc = "wait"
    BY <1>4 DEF Flush
  <2>2. UNCHANGED <<outbox, conn, unmarked>>
    BY <1>4 DEF Flush
  <2>3. \A x \in Oldest : x \in Event /\ outbox[x] = "pending"
    BY DEF Oldest, PendingEvents
  <2>. HIDE DEF r2
  <2>4. BatchOK(r2, outbox, unmarked)
    <3>1. ASSUME NEW x \in Oldest, NEW d \in Event, d < x
          PROVE  d \in Oldest \/ Done(d, outbox, unmarked)
      <4>1. outbox[d] # "none"
        BY <2>3, <3>1 DEF NoGaps
      <4>2. CASE outbox[d] = "pending"
        BY <3>1, <4>2, OldestIsPrefix DEF PendingEvents
      <4>. QED
        BY <4>1, <4>2 DEF Done
    <3>. QED
      BY <2>1, <3>1 DEF BatchOK
  <2>5. ASSUME NEW c \in Client, conn[c].st = "open"
        PROVE  ChannelOK(conn[c], r2, outbox, unmarked)
    <3>1. ChannelOK(conn[c], relay[Server], outbox, unmarked)
      BY <2>5 DEF OrderInv
    <3>2. ASSUME NEW x \in 0..MaxEvent, Has(conn[c], x)
          PROVE  Behind(x, r2, outbox, unmarked) /\ Ahead(x, r2, unmarked)
      <4>1. \A d \in Event : d <= x => Done(d, outbox, unmarked)
        BY <2>1, <3>1, <3>2 DEF ChannelOK, Behind, At
      <4>2. \A b \in Oldest : b > x \/ b \in unmarked
        <5>1. \A b \in Oldest : b \in Nat
          BY <2>3, EventsAre
        <5>2. x \in Nat
          BY EventsAre
        <5>. QED
          BY <2>3, <4>1, <5>1, <5>2 DEF Done
      <4>. QED
        BY <2>1, <4>1, <4>2 DEF Behind, Ahead
    <3>. QED
      BY <3>1, <3>2 DEF ChannelOK
  <2>. QED
    BY <2>1, <2>2, <2>4, <2>5 DEF OrderInv
<1>5. ASSUME Broadcast(Server) PROVE OrderInv'
  <2>. DEFINE r == relay[Server]
              e == Min(r.batch)
              r2 == [r EXCEPT !.pc = "mark"]
  <2>1. r.pc = "send" /\ Server \in Busy
    BY <1>5 DEF Broadcast, Busy
  <2>2. r.batch # {} /\ e \in Event
    BY <2>1, AtEvent
  <2>3. relay'[Server] = r2 /\ UNCHANGED <<outbox, subs, unmarked>>
    BY <1>5 DEF Broadcast
  <2>4. \A c \in Client : conn'[c] = IF c \in subs THEN Offered(conn[c], e) ELSE conn[c]
    BY <1>5 DEF Broadcast
  <2>5. BatchOK(r, outbox, unmarked)
    BY DEF OrderInv
  <2>6. BatchOK(r2, outbox, unmarked)
    <3>1. r2.batch = r.batch
      BY DEF Relay
    <3>. QED
      BY <2>1, <2>5, <3>1 DEF BatchOK
  <2>. r \in Relay
    OBVIOUS
  <2>. HIDE DEF r, e, r2
  <2>7. ASSUME NEW c \in Client
        PROVE  /\ conn'[c].st = "closed" => conn'[c] = Closed
               /\ conn'[c].st = "open" => ChannelOK(conn'[c], r2, outbox, unmarked)
    <3>. conn[c] \in Conn
      OBVIOUS
    <3>1. conn[c].st = "open" =>
             /\ ChannelOK(conn[c], r2, outbox, unmarked)
             /\ ChannelOK(Offered(conn[c], e), r2, outbox, unmarked)
      BY <2>1, <2>2, <2>5, OfferedIsOrdered DEF OrderInv, r, e, r2
    <3>2. CASE c \in subs
      <4>1. conn[c].st = "open"
        BY <3>2 DEF HubIsOpen
      <4>2. conn'[c] = Offered(conn[c], e) /\ Offered(conn[c], e).st = conn[c].st
        BY <2>2, <2>4, <3>2, OfferedType
      <4>. QED
        BY <3>1, <4>1, <4>2
    <3>3. CASE c \notin subs
      BY <2>4, <3>1, <3>3 DEF OrderInv
    <3>. QED
      BY <3>2, <3>3
  <2>. QED
    BY <2>3, <2>6, <2>7 DEF OrderInv
<1>6. ASSUME Restart(Server) PROVE OrderInv'
  <2>1. relay'[Server].pc = "wait" /\ UNCHANGED <<outbox, unmarked>>
    BY <1>6 DEF Restart
  <2>2. \A c \in Client : conn'[c] = Closed /\ conn'[c].st = "closed"
    BY <1>6 DEF Restart, Closed
  <2>. QED
    BY <2>1, <2>2 DEF OrderInv, BatchOK
<1>7. ASSUME NEW c \in Client, Subscribe(c) \/ Receive(c) \/ Unsubscribe(c) \/ CloseChannel(c)
      PROVE  OrderInv'
  <2>1. UNCHANGED <<outbox, relay, unmarked>>
    BY <1>7 DEF Subscribe, Receive, Unsubscribe, CloseChannel
  <2>2. \A d \in Client : d # c => conn'[d] = conn[d]
    BY <1>7 DEF Subscribe, Receive, Unsubscribe, CloseChannel
  <2>3. conn'[c].st = "closed" => conn'[c] = Closed
    BY <1>7 DEF Subscribe, Receive, Unsubscribe, CloseChannel, Conn
  <2>4. ASSUME conn'[c].st = "open" PROVE ChannelOK(conn'[c], relay[Server], outbox, unmarked)
    <3>1. CASE Subscribe(c)
      <4>1. conn[c] = Closed
        BY <3>1 DEF Subscribe, OrderInv
      <4>2. conn'[c] = [conn[c] EXCEPT !.st = "open"]
        BY <3>1 DEF Subscribe
      <4>3. conn'[c].buf = <<>> /\ conn'[c].last = 0
        BY <4>1, <4>2 DEF Closed
      <4>. QED
        BY <4>3, NewChannel
    <3>2. CASE Receive(c)
      <4>1. conn'[c] = [st |-> "open", buf |-> Tail(conn[c].buf),
                        last |-> Max({conn[c].last, Head(conn[c].buf)})]
        BY <3>2 DEF Receive
      <4>2. conn[c] \in Conn /\ conn[c].buf # <<>>
        BY <3>2 DEF Receive
      <4>3. ChannelOK(conn[c], relay[Server], outbox, unmarked)
        BY <3>2 DEF Receive, OrderInv
      <4>. QED
        BY <4>1, <4>2, <4>3, ReceiveIsOrdered
    <3>3. CASE Unsubscribe(c) \/ CloseChannel(c)
      BY <2>4, <3>3 DEF Unsubscribe, CloseChannel, Closed, Conn
    <3>. QED
      BY <1>7, <3>1, <3>2, <3>3
  <2>. QED
    BY <2>1, <2>2, <2>3, <2>4, ChannelKept
<1>8. CASE UNCHANGED vars
  BY <1>8, MarksKept DEF vars
<1>9. \A p : ~(p = Server /\ CancelOpen(p))
  BY DEF CancelOpen
<1>. QED
  BY <1>1, <1>2, <1>3, <1>4, <1>5, <1>6, <1>7, <1>8, <1>9 DEF Next

\* liveSSE tells its client events in the order of their commits and each once,
\* but for events whose mark failed: over full channels, restarts of any process
\* and a worker that marks rows the server's relay has in its batch.
THEOREM ReceivedAreInOrder == Spec => ReceivedInOrder
<1>. DEFINE Told == \A c \in Client :
               (/\ conn[c].st = "open" /\ conn'[c].st = "open"
                /\ conn[c].buf # <<>> /\ conn'[c].buf = Tail(conn[c].buf))
               => (Head(conn[c].buf) > conn[c].last \/ Head(conn[c].buf) \in unmarked)
<1>1. ASSUME RelayInv, OrderInv PROVE Told
  <2>. SUFFICES ASSUME NEW c \in Client, conn[c].st = "open", conn[c].buf # <<>>
                PROVE  Head(conn[c].buf) > conn[c].last \/ Head(conn[c].buf) \in unmarked
    OBVIOUS
  <2>1. conn[c] \in Conn
    BY <1>1 DEF RelayInv, TypeOK
  <2>2. ChannelOK(conn[c], relay[Server], outbox, unmarked)
    BY <1>1 DEF OrderInv
  <2>. QED
    BY <2>1, <2>2, ReceiveIsOrdered
<1>2. Init => HubIsOpen /\ RowsExist
  BY DEF Init, HubIsOpen, RowsExist
<1>. QED
  BY <1>1, <1>2, RelayInit, RelayStep, HubStep, RowsStep, OrderInit, OrderStep, PTL DEF Spec, ReceivedInOrder
=============================================================================
