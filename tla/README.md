# A formal model of arms

`arms` (`src/arms`) is the back end of CloseLoopAutomous: a Go service that runs
software products on autopilot. It researches and ideates, turns approved ideas
into tasks on a Kanban board, hands tasks to coding agents through gateways,
opens pull requests and merges them through a queue. Two processes,
`cmd/arms` (HTTP API, webhooks, resync ticker) and `cmd/arms-worker` (asynq
consumer), run the same application code on one SQLite database; without a
database the server works on in-memory stores.

This directory holds TLA+ modules of its components, TLC configurations that
check them on small instances, and proofs about them for every instance.

## 1. Inventory

What makes the system hard is common to all components. SQLite has a single
connection per process (`adapters/sqlite/db.go:21`), so every statement and
every transaction is atomic, but almost every operation of the application
layer *reads* a whole row, perhaps calls an agent gateway, a forge or a budget
policy, and *writes* the whole row back, with no version check. HTTP handlers,
webhooks, the stall sweep and worker jobs all do this at the same time; the
exclusions are few: the product gate (a mutex of one process) around completion
and the two webhooks, the lease on the head of the merge queue, the mutex of a
gateway client, `SaveIfUnchangedSince` under the PATCH of a product, asynq's
uniqueness of job ids, and SQLite's unique and foreign keys.

The components, what they keep, and what makes them correct ("hard" names the
behaviour a test hardly reaches). Paths are below `src/arms/internal`.

| Component | State | Operations | Talks to | Hard | Correct when |
|---|---|---|---|---|---|
| Merge queue (`application/mergequeue`, `adapters/sqlite/workspace.go`, `domain/merge.go`) | rows of `workspace_merge_queue` with status, lease owner and expiry, last outcome | enqueue, cancel, complete (reserve the head, merge, record) | forge or clone, task completion, live feed | leases that expire under a slow merge, lost answers, abandoned calls, two processes | one ship per product at a time, first in first out, no false "merged", no outcome lost, leases come free |
| Forge and clone (`adapters/shipping`) | pull requests; the working tree of a local clone | create a pull request, merge, read gates | merge queue, task board | transient errors, a merge that happened though the answer was lost, a clone left mid-merge | outcomes are classified truthfully |
| Task board (`application/task`, `domain/task.go`) | rows of `tasks`: column, plan approval, agent reference, pull request | approve, recall, PATCH, dispatch, checkpoint, open pull request, complete, agent and CI webhooks | gateway, forge, merge queue, budget, live feed | whole-row writes of stale reads, two dispatches, callbacks racing a recall, crashes between call and save | nothing is assigned unapproved, references are real, done is final for callbacks, a recalled task is with no agent |
| Stall sweep (`application/task/autonudge.go`, `reassign.go`, `jobs/stall_autonudge.go`) | the JSON detail of a task's agent-health row | nudge, redispatch to another agent, heartbeat | task board, gateway | sweeps overlap and decide on a row read several calls earlier; every writer replaces the row as a whole | no nudge or move sooner or more often than configured |
| Live feed (`application/livefeed`, `adapters/sqlite/outbox.go`) | `event_outbox` rows; per process a relay, a hub and its subscribers' channels | append, flush, broadcast, mark, subscribe, unsubscribe | every operation that publishes; SSE clients | two relays on one table, a crash between broadcast and mark, full channels, close racing a send | no event is skipped for good, order is kept, the hub never sends on a closed channel |
| Convoy (`application/convoy`, `domain/convoy_dag.go`) | a convoy's subtasks and their dependencies | create, append, dispatch wave, completion webhook, patch, delete | gateway, budget, agent health | a wave holds the whole convoy across many gateway calls; a completion in between | dependents wait for reports, the graph stays closed, completions stick |
| Autopilot, idea swipes (`application/autopilot`) | ideas and decisions, swipe history, maybe pool, cadence stamps | research, ideation, swipe, promote, edit, ticks, task creation | AI adapters, task creation, job queue | four tables written one after the other; processes lost in between; ids that repeat | decision, pool, history and task agree |
| Products (`application/product`, `adapters/sqlite/repos.go`) | product rows, soft delete | register, patch, delete, restore | everything | a conditional save made of several statements, beside writers that compare nothing | a PATCH lands only on the row it was made for |
| Job queue (`jobs`, `cmd/arms-worker`) | asynq tasks with unique ids, schedule rows that name a job | enqueue, run, retry, archive, re-enqueue, reconcile | autopilot, stall sweep | a job that re-enqueues itself under its own id; failures between a job and its row | every due product is ticked; jobs do not multiply |
| Budget and cost (`application/cost`, `adapters/budget`) | cost rows, caps | assert, record, patch caps | dispatch, waves | caps, clock and sums are read one by one, the cost inserted later; midnight | overspend is bounded |
| Workspace ports (`adapters/sqlite/workspace.go`) | a hundred ports | allocate, release | agents | read and insert are apart; lost answers; repeated release | a port is in one hand |
| Sequential ids (`adapters/identity`) | one counter per process | next id | all creations | restart; two processes | what repeats is known |
| Gateway drivers (`adapters/gateway`) | a pool of clients, one authenticated WebSocket each | dispatch, list agents | dispatch, waves, chat, agent refresh | late and repeated answers on a shared connection, endpoints patched under way, half-done handshakes | a call is carried out at most once, where it was resolved, and told its own answer |
| Knowledge (`application/knowledge`, `adapters/chromemstore`, ...) | entries of a product, in SQL, memory or chromem | add, update, delete, ingestion | swipes, feedback, completions | an update that deletes first and may fail to add; a sequence file that is cut off | entries read as last written |
| Fleet (`adapters/httpapi`, gateway endpoints, agents, profiles, research hubs) | configuration rows and a cache of remote profiles | register, patch, connect, refresh, delete | gateway, autopilot | references guarded by a check only; whole-row writes | references resolve, acknowledged changes stand |
| HTTP API (`adapters/httpapi`) | none | the routes to the above | all | any step of a handler may fail after an earlier one took effect | answers and log entries are true |
| In-memory stores (`adapters/memory`) | the same rows in maps and slices | the same | the server without a database | written a second time by hand | they answer like SQLite |
| AI adapters, text analysis, task chat, mailbox, geo data, UI (`fishtank`) | single rows, none | I/O | - | - | - |

## 2. Plan

Lines 1 to 8 are done; line 9 says what is left out for good.

1. `MergeQueue`, `ShipLane` and the refinement `MergeQueueLane`; proofs.
2. `Kanban`, `TaskLifecycle`, `TaskBoard` and the refinement; proofs.
3. `Convoy`; proofs.
4. `LiveFeed`; proofs.
5. `Gateway`; proofs.
6. `ProductStore`, `ProductTable` and the refinement; proofs. `Autopilot`,
   `TickJobs`, `Schedules`, `Budget`, `Ports`; proofs of all of them. Run `Services`.
7. `StallSweep`, `StoreTwins`, `Knowledge`, `Fleet`, `Requests`; proofs of all of them.
   Run `Operations`. Proofs of the two unions `Services` and `Operations`.
8. The refinements of `ShipLane` (under the lease) and of `TaskBoard` (under the gate,
   and for one request at a time) proved; and that what `TaskRecall` and
   `ConvoyLostCompletion` show cannot happen with one request at a time.
9. Left out: a composition of the board's completion with the merge queue. A
   completion starts a ship as its last act and drops its error
   (`maybeAutoMergeShip`), so that "done" promises nothing about "merged" and the two
   modules would share nothing but that call.

Every module is written so that it can be proved about: constants carry named
assumptions, actions are one per operation or per step between two suspension
points, invariants are conjunctions of named parts, and there is no RECURSIVE
operator. The components of `Services` and of `Operations` share no variables;
each of these runs is the disjoint union of the components' behaviours (`part`
says which one a behaviour is about), which costs TLC their sum.

## 3. Modules

| Module | Stands for |
|---|---|
| `ShipLane` | Abstract specification: whoever joins gets the next number; per product one ship at a time, of the front of the numbers that wait. |
| `MergeQueue` | `workspace_merge_queue`, `mergequeue.Service.complete`, the lease, the three backends, forge and clone. |
| `MergeQueueLane` | The refinement: row ids are the numbers, pending rows wait, a ship in flight is `busy`. |
| `Kanban` | The columns of `domain/task.go` and which operation accepts which. |
| `TaskBoard` | Abstract specification: every board operation atomic. |
| `TaskLifecycle` | `task.Service` under concurrent requests; implements `TaskBoard` where it can. |
| `Convoy` | `convoy.Service` on one convoy. |
| `LiveFeed` | The outbox, the relays, the hub and its subscribers. |
| `Gateway` | `RoutingGateway`, `clientPool` and the drivers, with the remote ends as external actions. |
| `ProductStore` | Abstract specification: the product repository, every call one step, as the in-memory store does it. |
| `ProductTable` | The SQL statements of the product repository; implements `ProductStore`. |
| `Autopilot` | One product with all writers of its row, its ideas, swipes, pool and tasks, and the counters ids are drawn from. |
| `TickJobs` | The tick jobs of the products in asynq: uniqueness, retries, archive, the server's reconcile. |
| `Schedules` | The cron schedule of a product: the row, the jobs, the five-minute ticker and PATCH. |
| `Budget` | Caps, costs and periods of one product. |
| `Ports` | Allocation and release of workspace ports. |
| `StallSweep` | Sweeps, nudges by hand, heartbeats and completions around one agent-health row. |
| `StoreTwins` | Merge queue and ports in SQLite and in memory, side by side. |
| `Knowledge` | Knowledge entries in SQLite and in chromem. |
| `Fleet` | Endpoints, hubs, research settings, agents and cached profiles, in both stores. |
| `Requests` | Every handler of the HTTP API as a short program of checks, reads, effects and log entries. |
| `MergeQueueProofs`, `TaskLifecycleProofs`, `ConvoyProofs`, `LiveFeedProofs`, `GatewayProofs`, `KnowledgeProofs` | Theorems about one component each. |
| `ServicesProofs` | Theorems about `ProductTable`, `Ports`, `Autopilot`, `TickJobs`, `Schedules` and `Budget`, and about all components of `Services` together. |
| `OperationsProofs` | Theorems about `StallSweep`, `StoreTwins`, `Fleet` and `Requests`, and about all components of `Operations` together. |
| `MCMergeQueue`, `MCTaskLifecycle`, `MCConvoy`, `MCServices`, `MCOperations` | Values of the constants for TLC, and the unions of components. |

**Steps.** A transaction or a statement is one step, because SQLite has one
connection per process and serializes writers. Between the read of a row and
its write back a request is suspended and holds its copy; everything else may
happen meanwhile. A call to a gateway, a forge or a model is a step of its own,
with an outcome. A request that is refused changes nothing and, where the
refusal is on its first read, is no step.

**MergeQueue.** `queue` maps row ids (`AUTOINCREMENT`, never reused) to rows,
`ship` holds the local variables of one `complete` call per shipper, `forge` and
`tree` are the truth outside: what a pull request is, and whether the local
clone is in the middle of a merge. `Complete` is the call up to the reservation,
`ReserveHeadForShip`/`ReserveRefused` the first transaction, `MergePullRequest`,
`MergeBranches` and `UnknownBackend` one attempt of the merge, `FinishShip` the
second transaction, `Abandon` a cancelled context or a dead process. A lease is
kept as the whole seconds left; `left = 0` stands for the last second, in which
the comparison of the two RFC3339Nano texts may go either way, so `LeaseFree` and
`LeaseBusy` overlap there. Only `runMergeShipFinishTx` checks the owner, not the
expiry or the row's status, and `FinishShip` does the same.

**TaskLifecycle.** `row` is the table; `req` holds what each goroutine runs;
`gate` is `ProductGate`'s mutex per product; `orders` is what the gateway has
accepted, the truth the row's reference is compared with. A call to the gateway may
fail though the gateway took the task on (`GatewayAnswerLost`: a timeout, a broken
connection): the operation returns its error and saves nothing, an agent works, and
`unheard` remembers the order that nobody knows. A failing query ends a request
as a cancelled context does (`Abandon`). Columns no property
looks at (spec, clarifications, checkpoint text, paths, reason) are left out;
the operations that write only these are `TouchTask`, because their stale write
of the rest still counts. `AutoOpensPullRequest` may happen whenever the code's
own conditions on the row hold; that the tier and the merge policy also allow it
is not checked again there, so it may happen more often than in the code.

**Convoy.** `sub` is the stored convoy, `call` the requests with the version
they read, `orders` and `reported` the truth at the gateway and the agents. A
wave is its read, one step per gateway call in the order of `dag_layer, id`, and
its save; a gateway error saves at once, and may come after the gateway took the
subtask on (`GatewayAnswerLost`), so that the next wave orders it again; a denied
budget or routing returns without saving. `attempts` stays at the cap, since the code only compares it with
the cap (`>=`).

**LiveFeed.** `outbox` rows go from none to pending to delivered; each process
has a `relay` that reads a batch, broadcasts an entry and marks it; `subs` and
`conn` are the server's hub and its SSE connections, one goroutine each, which
receives, or unsubscribes in two steps: out of the map under the lock, then
close. `CancelOpen` is the end of the worker's relay: `cmd/arms-worker` passes
`OpenApp` a context it cancels right after. `sent` keeps which process's hub an event
went to: only the server's has subscribers.

**Gateway.** A call resolves its endpoint to a *target* (driver, address and
credentials, complete or not) once and keeps it. `clientPool` has one client per
kind of protocol and target; `holder`, `cached` and `authed` are its mutex,
connection and flag, `link` a connection at both ends: what the gateway has to do,
and the frames the client has not read. OpenClaw clients connect by a challenge
and wait for the frame with their request's id (`Skip` drops any other); push
drivers return once they have written; the HTTP and CLI drivers exchange on a
`wire` of their own. Every error of a locked call is one action, `CallFails`,
which drops the connection. The gateways may hang up, refuse, answer twice or
never; `ran` is the truth about what was carried out.

**ProductStore and ProductTable.** The conditional calls of the SQL repository test
in the WHERE clause and look a second time to name the reason of a refusal;
`SaveIfUnchangedSince` compares in Go what it read, and again in its UPDATE. The
refinement mapping keeps a call "asked" until the statement that decides it.

**Autopilot.** Requests of the server and jobs of the worker are processes that
hold the product and idea they read; every database call is a step, model calls
answer or fail in between. `counter` is `identity.Sequential`, set to zero when
its process restarts, so that ids come a second time and `Save` overwrites.
`crossed` collects the ideas two requests were at together, that were cut short, or
whose id was repeated: the code promises nothing there.

**TickJobs, Schedules.** A job has an asynq state (queued, running, retry,
archived) and the lock of its uniqueness, which expires on its own. A tick enqueues
its successor under its own id, which is refused while it runs; the reconcile
stops at the first error that is not a duplicate. asynq takes the uniqueness lock
before it looks for the id, so an enqueue refused for its id (a conflict) has taken
the lock again, and the next one is a duplicate. Schedule jobs have no id; the row
names one.

**Budget.** Time is in half days and a stored cost carries the server's zone, as
the text comparison of `repos.go:1114` sees it. **Ports.** SELECT, then INSERTs in
order until one succeeds; the answer may be lost, and the client ask again.

**StallSweep.** `health` is the row, `card` the task, `nudged` and `moved` the
history the limits are about; a sweep holds the row it read. `blurred` is set when
records are lost as the code allows, also when the gateway moved the task to another
agent and its answer was lost (`AgentTakesOverUnheard`). **StoreTwins.** Every call is made to both
stores; `answers` compares. `parted` is set where the code's two versions
differ on purpose or by their clock.

**Knowledge.** `docs` is what is stored, `kept` what the callers were told, `hurt` and
`renumbered` what a cut-off update or number file has spoiled. **Fleet.** `rows` with
a configuration, `bound` agents, `settings`, `profiles`; `told` is what the last
acknowledged request asked for, `tangled`, `mixed` and `fresh` say which overlaps
have happened. **Requests.** `asked` picks a route and its program, credentials
and configuration; each step of the program may fail, and the handler answers as
its error mapping says; `done`, `broken` and `noted` are the effects. A call of the
handler is one step, or two where the service writes and then reads the row back
(`restoreProduct`, the PATCH of a convoy and the append to it), since the read may
fail, and be answered with a 404, after the write took effect. A step of one write that
fails has written nothing.

## 4. Runs

Runs with `expect: pass` end without error. Deadlock is checked in all of them
but `Services` and `Operations`, where a component comes to rest when its bound on
requests is used up. (The two small violation runs with only two operations,
`TaskRecall` and `ConvoyLostCompletion`, may also come to rest.)

| Run | Shows | Bounds, and why they are enough |
|---|---|---|
| `MergeQueueLease` | One ship per product at a time, its outcome always recordable, no false "merged", and the refinement of `ShipLane`. | Two processes, two tasks of one product, GitHub, every fault, two attempts. `MaxShip` 1 < `LeaseTTL` 2 is the condition. Two shippers are the smallest contention, two rows give a head and a follower. An outcome written after its lease has lapsed is not reached here; it is `MergedIsTrue` that covers it, which assumes no bound on a ship. |
| `MergeQueueLapse` | First in, first out survives lapsed leases, late outcomes and owners that cannot be told apart. | One process with two shippers (one owner name), ships up to twice the lease, local merges and a noop process on the same table. |
| `MergeQueueLive` | Leases of dead calls come free; every call returns. | One task, both an ordinary and an unknown backend, retries, disconnects; two rows so that the task can be enqueued again. |
| `MergeQueueOverlap` | (violation) two ships at once when a merge outlasts the lease. | No faults at all; only time. |
| `TaskRaces` | What holds of a row whatever is written over it: plan gate, real references, head with URL. | One task (rows are independent), two requests, every operation, requests cut off anywhere; two orders so that a redispatch can race a dispatch. |
| `TaskSequential` | With one request at a time the board is atomic and no answer of the gateway is dropped: the orders nobody knows are those whose answer was lost. | Two tasks, two orders (both tasks once, or one of them again after a lost answer), no request cut off, noop publisher, semi-automatic tier. |
| `TaskGated` | Under the product gate the board is atomic under concurrency, done is final, requests end. | Two tasks and two requests of one product, all start columns from which the gated operations can do anything. |
| `TaskRecall` | (violation) a recall that read before a dispatch was saved, and saves after it, takes a task from its agent. | Dispatch and recall only. |
| `ConvoyLostCompletion` | (violation) a wave's save undoes a completion. | Waves and a completion, two independent subtasks. The wave that undoes it in the trace is a second one that found nothing to dispatch: it saves the convoy all the same. |
| `LiveFeed` | No send on a closed channel, mark after broadcast, order kept, and every event that no worker's relay has taken broadcast by the server in the end (`EventuallyBroadcast`). | Server and worker, three events with a batch of two, so that a batch ends while rows remain; a channel of one, so that it fills; restarts and a busy database. One connection: connections do not interact except through the hub's lock. The order of several events in a channel is the theorem's, `ReceivedAreInOrder`. |
| `Services` | See below. | See below. |
| `Operations` | See below. | See below. |

`Services`, one component per behaviour:

* *Gateway* (`CallsAreExact`, `CallsReturn`): two calls, dispatches or listings, to one
  endpoint that holds any of thirteen targets covering every driver, and that an
  operator may switch between two addresses; two connections, so that a session is
  reused, lost and replaced. Two calls on one client are enough for a late or
  repeated answer to meet the next call.
* *Product table* (`ImplementsProductStore`): two callers and three readings of the
  clock: a copy, a save in between and a save on it.
* *Autopilot* (`StampIdentifiesRow`, `LedgersAgree`): two requests or jobs at a time, two ids a
  process, so that the second process and a restart repeat them; one fault. A repeated
  id that meets a delete and a restore takes more faults than that, and is left to
  `StampsIdentifyRows`; `LedgersAgree` says nothing of the ideas in `crossed`.
* *Ticks* (`DueProductTicked`): two products, so that one stands behind the other; one
  retry; two faults, the least that archives a job or that makes an enqueue meet the
  id of a job without its lock.
* *Schedules* (`ScheduleKeepsTicking`, `ChainsAreBounded`): two jobs at once, the ticker and
  one PATCH; one failure.
* *Budget* (`OverspendBounded`): two spenders, three requests, two half days across
  midnight, a zone on either side of UTC, the daily and the total cap patched at any
  time. The monthly cap is checked by the same query over another period; TLC leaves it
  out and the theorem has it.
* *Ports* (`PortsExclusive`): two tenants, two ports, five requests: both ports taken, an
  answer lost, a release repeated and the port given out again.

`Operations`, one component per behaviour:

* *Convoy* (`OrderedAfterDependencies`, `StoredConvoyHolds`): three subtasks (a fork: two
  depend on one), two planned and one appended, two requests, cap of two, three
  orders: all three subtasks once, or one of them again, as after a lost answer. The
  requests are symmetric.
* *Stall sweep* (`StallRecordsHold`): two sweeps or nudges by hand at a time, three in all,
  two agents, two hours; a cooldown of one hour and at most one move a day.
* *Twins* (`TwinsAgree`): three tasks, two of one product; two owners; five calls (enqueue
  two, reserve, finish, reserve); a lease of one and a half seconds, so that it
  ends between two whole ones.
* *Knowledge* (`KnowledgeKept`): two requests, two products, four writes.
* *Fleet* (`FleetConsistent`): two endpoints, a hub, an agent, two remote names, two requests at
  a time, four in all.
* *Requests* (`AnswersAreTrue`): every route with every credential and configuration,
  each step failing or not; one request, since what others do is in the other
  components.

The bounds named `Max...` only end an instance; the theorems hold for all their
values.

**Fairness.** `MergeQueueLive`: each call's goroutine is scheduled (weak fairness
of its steps; the merge returns because retries are bounded and the HTTP client
gives up), and the clock advances (strong, as a step may delay it). Nobody is
obliged to enqueue, repair a clone or push a branch. `TaskGated`: running requests
go on, outgoing calls return, and `sync.Mutex` is starvation-free (strong
fairness of `WithLock`). `LiveFeed`: the server's relay is polled every 200 ms;
strong fairness says that restarts do not always come before the mark and that
the database is not busy every time. The worker's relay and the connections have
no fairness. `Services`: a call goes on or fails at its deadline (every driver's
options give one; the sandbox command of NemoClaw has none and is assumed to end),
but the gateways owe nothing and the mutex is fair only to a call that can take
it; the reconcile and the ticker come back, which they do every five minutes, and
the worker runs what is queued. asynq's archive is emptied by nobody.

## 5. Proofs

All proofs are checked by TLAPS for every value of the constants that meets the
named assumptions of the module.

*Merge queue.* `TypeCorrect`. `FirstInFirstOut`: `ShippedInOrder` is not inductive,
because a shipper records on a row it chose long ago; `FrontInv` adds that the row
of every ship in flight has no pending row of its product before it (true when it
reserved, and ids only grow). `ShipsAreSerialized` and
`OutcomesAreRecordable` assume `MaxShip < LeaseTTL` and no noop backend, the two
conditions the code leaves to its operator; `LeaseInv` says that a lease outlives
its ship by at least the difference and that no two ships are on one row.
`MergedIsTrue`: `MergedInv` extends the claim to outcomes still in a local variable.
`QueueImplementsLane` is the refinement of `ShipLane` under the same two conditions.
A reservation becomes `Start`, the record of a ship or its loss `Land` or `GiveUp`;
`FrontInv` and `LeaseInv` say that the row in flight is still the front of its product
when it lands, and that nobody withdraws it meanwhile.

*Task board.* `TypeCorrect`. `PlanGate`, `ReferencesAreOwn`, `HeadsComeWithUrls` and
`RowsAreTrue` rest on `CopiesSound`: what is true of a row in the table is true of
every copy a request holds, so writing a copy back, however stale, cannot break it
(the head and its URL with a real forge). `CompletionIsFinal` and `GatedBoard` (the
refinement of `TaskBoard`) hold while only operations under the gate run; `GatedInv`
says that who is about to write holds the gate of the task's product and that its
copy is still a legal move of the row. `SoloBoard` is the same refinement for all
operations and one request at a time, which may be cut off anywhere: `SoloCopy` says
that what it holds follows from the row in one step of the board. `LastAnswerIsKnown`
assumes one request at a time that is not cut off; `SoloInv` says that the row, or the
copy about to replace it, names the largest reference the gateway answered with, and
that references are given out without gaps, so that a new one is the largest
(`FreshIsLargest`). The orders whose answer was lost are not on the row: a second
dispatch then orders the task again, and a recall is not refused.
`RecallsComeFirst` proves `RecallOnlyBeforeDispatch` of such a request, and that it takes
an assigned task back only while no dispatch of it was ever answered: `SoloRecall` says
that a call about to take its task back to planning has nothing left to ask, and that
no answer about the task has arrived. `GatesComeFree`: who holds a gate is at work
under it on a task of its product (`GatesAreHeld`), with any number of requests cut off
anywhere; it is the safety half of `RequestsEnd`.

*Convoy.* `TypeCorrect`. `ConvoyInv` claims of the stored convoy and of every
version in a request's hands that they are sound (completed implies dispatched
and reported, references are real, the graph is closed), and of every wave that
the dependencies of what it still has to dispatch are reported. From it follow
`DependenciesGate`, `StoredConvoyIsTrue`, `StoredGraphsAreClosed` and `ConvoyHolds`.
`CompletionsStick`, `DispatchesAreOnce` and `OrdersAreOnRecord` are about one request at a
time, the last two about a convoy that is not deleted: the version in hand has all
completions and dispatches of the stored one, and a wave has still to dispatch only
what is not dispatched (`SoloInv`), so that what is stored as dispatched is not ordered
again, whatever fails. An order whose answer was lost leaves its subtask open; what it
does leave is a counted attempt. `OrdersAreOnRecord` says so, for waves that fail at the
gateway only (`SoloKnown`): a denied wave forgets both.

*Live feed.* `TypeCorrect` needs that a relay at work has a batch (`RelayInv`), from
which it takes the oldest entry, and that a channel is offered nothing beyond its
capacity. `HubStaysOpen`: with the types, `HubIsOpen` is inductive, because a connection
leaves the map before it closes its channel.
`DeliveryIsTrue`: a row a relay is about to mark has been broadcast by that relay, in
whichever process it is. `ReceivedAreInOrder` (an action property): `OrderInv` says that what a
connection has received or has in its channel is marked, up to the entry the
server's relay is at, so that a flush begins behind it; that a batch leaves out no
older pending row; and that what is still in the batch is newer than anything in a
channel. A mark that fails sets its event aside, and whatever the worker marks can
only help.

*Gateway.* `GatewayTypeCorrect`, `CallsExact`. `GwInv` follows a request and a
connection. Of a request it says where it is: nowhere before its call sends it, then
at most on one connection, to the gateway the call resolved, or on the wire, and a
frame or an answer that says it succeeded exists only once it has been carried out.
Of a client, that its mutex is held by the call whose place says so, that its
connection leads to its own target and is no other client's, and (`Session`) that
what is on the connection fits the place of the holder: nothing asked while a
challenge is awaited, at most the connect request while that is, only the holder's
request while it waits, nothing between calls. Late and repeated answers are frames
of calls that have returned; they may lie in an inbox, and the id keeps them apart.

*Product table.* `TableTypeCorrect`, `TableImplementsStore`. `TableInv`: at its UPDATE
`SaveIfUnchangedSince` holds the very time it was given, and a second look is made
only by a call that has not been answered. Every statement is then a step of the
abstract store or a stutter.

*Ports.* `PortsTypeCorrect`, `PortsAreExclusive`. `PortsInv`: a request between its INSERT
and its answer has its row, and what a tenant holds has its row, except for ports
a foreign release has touched; the INSERT fails on a row that exists, whatever the
SELECT had seen.

*Knowledge.* `KnowledgeTypeCorrect`, `EntriesAreKept`. `KnowInv`: what is stored and
what the writers were told differ only where an update is between its delete and its
add, or an id is hurt (`StoredIsTold`). Two arguments about ids carry it: a number
that has been drawn and not yet stored is above every id that is stored, being
updated or given out (`Fresh`), until the file is cut off; and two requests at one
document of chromem have hurt it (`Apart`), so that an id that is not hurt is in
at most one hand. That numbers stay within the writes there were needs a count of the
requests that wait for one (`Counted`).

*Autopilot.* `AutopilotTypeCorrect`, `StampsIdentifyRows`, `LedgersAlwaysAgree`. `StampInv`:
who is going to save the product under a time of its own has that time to itself, no
row and no copy bears it, so copies with one time are copies of one row; the clock
counts readings, which is what monotonic nanoseconds come to. `LedgerInv`: of an idea that is not
crossed, every request at it holds the idea as it is (`Current`), at most one request
is between its writes, its place says which of them have been made (`Halfway`), and
without one the ledgers are settled.

*Tick jobs.* `TickTypeCorrect`, `FollowUpsAreRefused`. `TickInv`: while the worker is in a
job, asynq keeps it as active. So what a tick enqueues under its own id meets the lock
or the id, which is why `EnqueueFollowUp` has no way to succeed.

*Schedules.* `ScheduleTypeCorrect`, `ChainsStayBounded`. `ScheduleInv` counts jobs before
they exist: a ticker about to enqueue, or a row without a job that the ticker will
find, is worth one; a PATCH that has not saved its row is worth two. Jobs and promises
together stay within the first chain, two for every PATCH and one for every failure.

*Budget.* `BudgetTypeCorrect`, `OverspendStaysBounded`. `BudgetInv` says for each cap, and
for each day and month that can be asked about, that if requests have passed the
check of that cap and not inserted yet, one of them finds room for its own cost and a
cost of each of the others (`Rooms`); that caps read earlier are no looser than the
highest there has been (`UnderLimit`); and that a cost is stored in no period older
than the one it was checked in. `MaxCost` is the largest cost.

*Stall sweep.* `StallTypeCorrect`, `StallRecordsAreKept`. `StallInv`: as long as nothing has
been lost, an answer of the gateway included, at most one sweep has acted and not
recorded it (`OneActs`), the row holds
all nudges and moves but that one (`Recorded`), and what a sweep has decided on is
due by the row it read, the later the more so (`Timely`).

*Store twins.* `TwinTypeCorrect`, `TwinsAlwaysAgree`. `TwinInv`: the table, whose order
are the ids, and the slice, whose order are its positions, hold the same rows but
for the lease of a row that is done; ids ascend in the slice, so that the first row a
loop meets is the one with the least id that a statement finds.

*Fleet.* `FleetTypeCorrect`, `FleetIsConsistent`. `FleetInv`: an id that is gone does not
come back (`ToldOf`); in memory a request that is alone finds what it checked still so
when it acts (`Checked`); a refresh that is alone at its endpoint has in the cache exactly
what it has listed and not yet to insert (`InFlight`).

*Requests.* `RequestsAreTyped`, `AnswersHold`. The argument is about the shape of a program
(`Orderly`): its log entry comes after all its effects, its signature is checked before
any, and, but in the three handlers that read back what they wrote (`ReadsBack`), a route
whose only effect is one write has nothing after it that can answer with a 4xx. Every
route's program is orderly (one leaf each; that of `patchTask`, which depends on the
fields it is sent, is joined from pieces that are `Tidy`).
`ReqInv` adds to the property what holds while a request is under way (`Underway`): it has
done exactly the effects before its current step, broken none, noted only what is
before that step, and passed the credentials its route asks for.

*Services and Operations together.* `PartsBehave`, one in each of the two modules: every
behaviour of the union is a behaviour of each component, as the others' steps leave its
variables alone. With it the theorems about components carry over:
`ServicesTypeCorrect`, `OperationsTypeCorrect`, and `OperationsHold`, which joins all
invariants the run `Operations` checks.

*Only model-checked.* The liveness properties, `LeaseIsReclaimable`, `ShipEnds`,
`RequestsEnd`, `EventuallyBroadcast`, `CallsReturn`, `DueProductTicked` and
`ScheduleKeepsTicking`: fairness is out of the prover's reach. A theorem states every
other property that a run checks; `SerializedShips`, `RecallOnlyBeforeDispatch` and
`CompletionSticks`, which runs violate, under the condition that restores them.

## 6. Where the code disagrees with what it says

* **Overlapping ships** (`MergeQueueOverlap`): the lease is taken once and not
  renewed, and the merge has no deadline tied to it; when a merge outlasts it, the
  next shipper merges at the same time, against "serialized merge queue".
* **A recall that takes a task from its agent** (`TaskRecall`): `plan/reject` is
  documented as blocked after dispatch, but it checks the row it read and saves it
  whole: a dispatch saved in between is overwritten, its reference with it. That takes
  two overlapping requests (`RecallsComeFirst`). With a single one, a task whose dispatch
  was lost (answer or save) can be recalled too: its row never had the reference.
* **A completion that is lost** (`ConvoyLostCompletion`): the webhook's mark is
  overwritten by a wave that read the convoy before; dependents then wait forever.
  It takes two overlapping requests (`CompletionsStick`).

Seen while modelling, without a run of their own. On tasks and merges: a gateway call
that fails after the gateway took the task on leaves an agent at work that no row
names, and the task may be ordered again (tasks, subtasks and reassignments alike); two
concurrent dispatches of a task both reach the gateway; a PATCH undoes a completion
saved after its read; a merge whose answer was lost is recorded as a conflict when
it is retried; a product policy that names `noop` on a process with a real backend is
recorded as failed; a wave that is denied half way forgets what it dispatched and
dispatches it again; while the worker starts, its relay may mark events delivered
that only its own, empty hub has seen, so that no SSE connection ever gets them
(`src/README.md:56` promises restart-safe delivery; `EventuallyBroadcast` names these
events, `TakenByWorker`).

On money: costs are stored under local time (`adapters/time/clock.go:11`,
`repos.go:1097`) and compared as text with UTC midnight (`repos.go:1114`); in a zone
behind UTC the costs between midnight UTC and local midnight count in no day and no
month, so that `OverspendBounded` states the periods for zones not behind UTC.
`composite.go:11` promises the default ceiling also for a row without a cumulative cap;
the code applies it only when there is no row.

On jobs: a tick job in asynq's archive is never replaced, so that its product is ticked
no more; an enqueue that meets the id of a job without its lock ends the reconcile,
and the products behind it wait for the next one; every PATCH of a schedule adds a chain of jobs; a failure between a
schedule job and its row, or two racing writes of the row, strand the schedule.

On the stall sweep: the PATCH of an agent's health replaces the detail and with it the
records of nudges and moves; an error of reading that row counts as no row in the
reassignment, the redispatch and the nudge; an error of writing it after a move is
ignored; a nudge saves the whole task row it read; sweeps may overlap, their jobs
having no unique id.

On stores: SQLite leaves the lease on a row completed by hand, memory clears it, so a
late report is answered differently; lease ends are compared as text in one and as
times in the other; exhausted ports are a "not found" in memory and a plain error in
SQLite. A chromem update deletes before it embeds and adds, and loses the entry when
that fails; its number file, cut off, lets ids come again; the worker has its own
copy. In memory nothing like a foreign key exists: cached profiles outlive their
endpoint, and a registration may slip past a check before a delete, which besides
looks at 500 agents at most.

On answers: many routes give an unmapped internal error as a 400; `patchTask` may refuse
after it has applied earlier fields; a failed read after the act is a 500, and the
dispatch then is not logged; `restoreProduct`, the PATCH of a convoy and the append of
subtasks read the row back inside the service and answer 404 if it is gone by then,
though their write took effect.

## 7. Not modelled

* *Task board*: task creation outside of ideas, checkpoint history, knowledge ingestion
  on completion (its writes are in `Knowledge`). *Convoy*: creation, with the unguarded
  check for a second convoy, and convoy mail, which is append-only.
* *Autopilot*: the learned preference model, research cycles, feedback and the batch
  re-evaluation of the maybe pool. *Job queue*: the stall job's own period and the tick
  loop used without Redis. *Knowledge*: the worker's own copy of a Chromem store, which
  shares the file of its numbers with the server's.
* *Gateway drivers*: pairing, device identity, message text, parsing.
* *In-memory stores*: those of tasks, ideas, costs and checkpoints; operations on them
  interleave as on SQLite.
* *HTTP API*: JSON, CORS, request ids, access log, rate limits; the stub of the OpenClaw
  protocol, which is a test double.
* Search, ranking, tag suggestion, text analysis and geo data are pure functions; task
  chat, feedback and the mailbox are single inserts and updates, whose handlers are
  in `Requests`. The `fishtank` front end keeps no state the service depends on.
