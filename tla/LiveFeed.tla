------------------------------ MODULE LiveFeed ------------------------------
(***************************************************************************)
(* The live activity feed with SQLite (application/livefeed): operations   *)
(* append events to the table event_outbox in the transaction that changes *)
(* their rows, a relay in each process polls the table and broadcasts to   *)
(* the process's hub, and the hub copies to the channels of its            *)
(* subscribers, the SSE connections.                                       *)
(*                                                                         *)
(* The worker starts a relay too.  It has no subscribers, and its relay    *)
(* stops when main cancels the context OpenApp was called with; until then *)
(* it delivers to nobody.                                                  *)
(***************************************************************************)
EXTENDS Integers, Sequences, FiniteSets, FiniteSetsExt

CONSTANTS
    Proc, Server,  \* the processes, and the one that serves HTTP
    Client,        \* SSE connections
    MaxEvent,      \* bound: events ever appended
    BatchLimit,    \* the limit flushOutbox gives to Pending
    ChanCap,       \* capacity of a subscriber's channel
    Faults

FaultKind == {"busy", "restart"}

ASSUME ConstantsAssumption ==
    /\ Server \in Proc
    /\ MaxEvent \in Nat
    /\ BatchLimit \in Nat \ {0}
    /\ ChanCap \in Nat \ {0}
    /\ Faults \subseteq FaultKind

Event == 1..MaxEvent  \* AUTOINCREMENT ids, in the order of commit

VARIABLES
    outbox,    \* event -> its row: none, pending (delivered_at IS NULL) or delivered
    relay,     \* process -> its relay
    subs,      \* the server's Hub.subs
    conn,      \* client -> its channel and what it has received
    sent,      \* process -> the events its relay has broadcast (ground truth)
    unmarked   \* events whose MarkDelivered has failed (ground truth)

vars == <<outbox, relay, subs, conn, sent, unmarked>>

Relay == [pc : {"down", "wait", "send", "mark"}, batch : SUBSET Event]

\* A removed connection is out of the hub but its channel is not closed yet.
Conn == [st : {"closed", "open", "removed"}, buf : UNION {[1..n -> Event] : n \in 0..ChanCap},
         last : 0..MaxEvent]

Closed == [st |-> "closed", buf |-> <<>>, last |-> 0]

Init ==
    /\ outbox = [e \in Event |-> "none"]
    /\ relay = [p \in Proc |-> [pc |-> "wait", batch |-> {}]]
    /\ subs = {}
    /\ conn = [c \in Client |-> Closed]
    /\ sent = [p \in Proc |-> {}] /\ unmarked = {}

-----------------------------------------------------------------------------
(* The outbox and the relays. *)

PendingEvents == {e \in Event : outbox[e] = "pending"}

\* appendOutboxTx, or OutboxPublisher.Publish for an event without a row.
AppendOutbox(e) ==
    /\ outbox[e] = "none" /\ \A d \in 1..(e - 1) : outbox[d] # "none"
    /\ outbox' = [outbox EXCEPT ![e] = "pending"]
    /\ UNCHANGED <<relay, subs, conn, sent, unmarked>>

\* Mutant: a flush does not begin with the oldest rows.
NewestPending == {e \in PendingEvents : Cardinality({d \in PendingEvents : d >= e}) <= BatchLimit}

\* Pending: ORDER BY id ASC LIMIT ?
Oldest == {e \in PendingEvents : Cardinality({d \in PendingEvents : d <= e}) <= BatchLimit}

Flush(p) ==
    /\ relay[p].pc = "wait" /\ PendingEvents # {}
    /\ relay' = [relay EXCEPT ![p] = [pc |-> "send", batch |-> Oldest]]
    /\ UNCHANGED <<outbox, subs, conn, sent, unmarked>>

\* Mutant: the send is not conditional on room in the channel.
OfferedAlways(ch, e) == [ch EXCEPT !.buf = @ \o <<e>>]

\* The channel after a non-blocking send: a full one drops the event.
Offered(ch, e) ==
    [st |-> ch.st, buf |-> IF Len(ch.buf) < ChanCap THEN ch.buf \o <<e>> ELSE ch.buf, last |-> ch.last]

\* Hub.broadcast holds the read lock over all its sends, and Subscribe and
\* unsubscribe need the write lock.
Broadcast(p) ==
    /\ relay[p].pc = "send"
    /\ LET e == Min(relay[p].batch) IN
          /\ conn' = [c \in Client |-> IF p = Server /\ c \in subs THEN Offered(conn[c], e) ELSE conn[c]]
          /\ sent' = [sent EXCEPT ![p] = @ \cup {e}]
    /\ relay' = [relay EXCEPT ![p].pc = "mark"]
    /\ UNCHANGED <<outbox, subs, unmarked>>

\* On to the next entry of the batch.
NextEntry(p) ==
    LET rest == relay[p].batch \ {Min(relay[p].batch)} IN
    relay' = [relay EXCEPT ![p] = [pc |-> IF rest = {} THEN "wait" ELSE "send", batch |-> rest]]

\* Mutant: the whole batch is marked with its first entry.
MarkBatch(p) ==
    /\ relay[p].pc = "mark"
    /\ outbox' = [e \in Event |-> IF e \in relay[p].batch THEN "delivered" ELSE outbox[e]]
    /\ NextEntry(p)
    /\ UNCHANGED <<subs, conn, sent, unmarked>>

MarkDelivered(p) ==
    /\ relay[p].pc = "mark"
    /\ outbox' = [outbox EXCEPT ![Min(relay[p].batch)] = "delivered"]
    /\ NextEntry(p)
    /\ UNCHANGED <<subs, conn, sent, unmarked>>

\* Mutant: the relay ends on the first error.
MarkFailsFatal(p) ==
    /\ "busy" \in Faults
    /\ relay[p].pc = "mark"
    /\ unmarked' = unmarked \cup {Min(relay[p].batch)}
    /\ relay' = [relay EXCEPT ![p] = [pc |-> "down", batch |-> {}]]
    /\ UNCHANGED <<outbox, subs, conn, sent>>

\* The error of MarkDelivered is ignored: the row stays pending.
MarkFails(p) ==
    /\ "busy" \in Faults
    /\ relay[p].pc = "mark"
    /\ unmarked' = unmarked \cup {Min(relay[p].batch)}
    /\ NextEntry(p)
    /\ UNCHANGED <<outbox, subs, conn, sent>>

\* The worker's main calls cancelOpen: Pending fails from now on.
CancelOpen(p) ==
    /\ p # Server
    /\ relay' = [relay EXCEPT ![p] = [pc |-> "down", batch |-> {}]]
    /\ UNCHANGED <<outbox, subs, conn, sent, unmarked>>

\* A process dies, its hub with it, and is started again.
Restart(p) ==
    /\ "restart" \in Faults
    /\ relay' = [relay EXCEPT ![p] = [pc |-> "wait", batch |-> {}]]
    /\ IF p = Server
       THEN subs' = {} /\ conn' = [c \in Client |-> Closed]
       ELSE UNCHANGED <<subs, conn>>
    /\ UNCHANGED <<outbox, sent, unmarked>>

-----------------------------------------------------------------------------
(* The subscribers: one run of liveSSE per connection. *)

Subscribe(c) ==
    /\ conn[c].st = "closed" /\ c \notin subs
    /\ subs' = subs \cup {c}
    /\ conn' = [conn EXCEPT ![c].st = "open"]
    /\ UNCHANGED <<outbox, relay, sent, unmarked>>

Receive(c) ==
    /\ conn[c].st = "open" /\ conn[c].buf # <<>>
    /\ conn' = [conn EXCEPT ![c] = [st |-> "open", buf |-> Tail(@.buf), last |-> Max({@.last, Head(@.buf)})]]
    /\ UNCHANGED <<outbox, relay, subs, sent, unmarked>>

\* Mutant: the channel is closed before it is taken out of the hub.
CloseFirst(c) ==
    /\ conn[c].st = "open"
    /\ conn' = [conn EXCEPT ![c] = Closed]
    /\ UNCHANGED <<outbox, relay, subs, sent, unmarked>>

\* unsubscribe: delete under the lock, then close without it.
Unsubscribe(c) ==
    /\ conn[c].st = "open"
    /\ subs' = subs \ {c}
    /\ conn' = [conn EXCEPT ![c].st = "removed"]
    /\ UNCHANGED <<outbox, relay, sent, unmarked>>

CloseChannel(c) ==
    /\ conn[c].st = "removed"
    /\ conn' = [conn EXCEPT ![c] = Closed]
    /\ UNCHANGED <<outbox, relay, subs, sent, unmarked>>

Next ==
    \/ \E e \in Event : AppendOutbox(e)
    \/ \E p \in Proc : \/ Flush(p) \/ Broadcast(p) \/ MarkDelivered(p) \/ MarkFails(p)
                       \/ CancelOpen(p) \/ Restart(p)
    \/ \E c \in Client : Subscribe(c) \/ Receive(c) \/ Unsubscribe(c) \/ CloseChannel(c)

Spec == Init /\ [][Next]_vars

\* The server's relay is polled every 200 ms.  Strong fairness: restarts do not
\* always come before the mark, and the database is not busy every time.
Fairness == SF_vars(Flush(Server)) /\ SF_vars(Broadcast(Server)) /\ SF_vars(MarkDelivered(Server))

FairSpec == Spec /\ Fairness

-----------------------------------------------------------------------------
(* Properties. *)

\* Every variable stays in its range.
TypeOK ==
    /\ outbox \in [Event -> {"none", "pending", "delivered"}]
    /\ relay \in [Proc -> Relay]
    /\ subs \subseteq Client
    /\ conn \in [Client -> Conn]
    /\ sent \in [Proc -> SUBSET Event] /\ unmarked \subseteq Event

\* The hub never sends on a closed channel, which would panic and end the
\* server (Hub.broadcast against the function Subscribe returns).
HubIsOpen == \A c \in subs : conn[c].st = "open"

\* Restart-safe: no row is marked delivered before some relay has broadcast it,
\* whenever a process dies (flushOutbox).
DeliveredWasBroadcast ==
    \A e \in Event : outbox[e] = "delivered" => \E p \in Proc : e \in sent[p]

\* A connection receives events in the order of their commits and each at most
\* once, except that an event whose mark failed may come again: two relays, full
\* channels and restarts lose events but never reorder or repeat them.
ReceivedInOrder ==
    [][\A c \in Client :
          (/\ conn[c].st = "open" /\ conn'[c].st = "open"
           /\ conn[c].buf # <<>> /\ conn'[c].buf = Tail(conn[c].buf))
          => (Head(conn[c].buf) > conn[c].last \/ Head(conn[c].buf) \in unmarked)]_vars

\* A worker's relay has broadcast the event, to a hub that nobody subscribes to.
TakenByWorker(e) == \E p \in Proc \ {Server} : e \in sent[p]

\* Every event is broadcast by the server's hub, whose subscribers are the SSE
\* connections, and its row is marked: in the end, across restarts and a busy
\* database.  Except an event a starting worker has taken: its relay marks the
\* row too, and the server never sees it (OpenApp starts a relay in both).
EventuallyBroadcast ==
    \A e \in Event : outbox[e] = "pending" ~>
        (outbox[e] = "delivered" /\ (e \in sent[Server] \/ TakenByWorker(e)))
=============================================================================
