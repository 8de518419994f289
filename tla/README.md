# A TLA+ model of microservice-ecommerce

The repository is a small event-driven shop: two ASP.NET services (`UserService`,
`OrderService`) that write events to an *outbox* table together with their entities, a
shared background worker that publishes the outbox to Kafka, a consumer in `OrderService`
that cancels the pending orders of a deactivated user, and an `EventBridge` that pushes
every event to browsers over SignalR. The code is `src/src/`, its tests `src/tests/`.

What is hard about it is not one function but the steps between functions: nothing locks
a row between a read and a save, the worker and the HTTP endpoints write the same rows,
the broker may lose an acknowledgement, the consumer's handler and its commit are not
atomic, and a process may stop at any of these points.

## 1. Inventory

| component | state | operations | talks to |
|---|---|---|---|
| `OutboxPublisherWorker` (`Shared/OutboxPublisher/Worker`) | the current batch, one `DbContext` per poll | poll, publish each entry, mark it sent or failed, catch block, shutdown | store, publisher |
| `KafkaOutboxPublisher` | none (options: `MaxRetries`, dead-letter topic) | `PublishAsync`: to the topic, or to the dead-letter topic | Kafka |
| `OutboxStore` (one copy per service) | `OutboxEntries`: `CreatedAt`, `SentAt`, `RetryCount`; the change tracker | `AcquireAndLockAsync`, `MarkSentAsync`, `MarkFailedAsync` | in-memory EF database |
| `OutboxController` (one copy per service) | the same rows | `GetUnsent`, `MarkSent`, `IncrementRetry` over HTTP | store's table |
| `UsersController` | `Users`, outbox rows `users.created`, `users.status-changed` | `Create`, `UpdateStatus`, reads | database |
| `OrdersController` | `Orders`, outbox rows `orders.created`, `orders.status-changed` | `Create`, `UpdateStatus`, reads | database, `UserService` over HTTP |
| `UserStatusChangedHandler` | the orders its query returned | `HandleAsync`: cancel pending orders, write `orders.cancelled` | database |
| `UserStatusConsumerService` | position, committed offset (kept by Kafka) | connect, consume, deserialize, handle, commit, restart | Kafka, handler |
| `KafkaConsumerService` (EventBridge) | position, auto-committed offset | wait for topics and create them, consume, broadcast, close | Kafka, SignalR |
| `EventHub` | none of its own; SignalR keeps its connections | `Clients.All` | browsers |
| host start-up, DI | order of the hosted services, the in-memory database | start, stop | all |
| `OutboxRepository`, application services | the outbox table | registered, called by nothing | - |
| `AuthController` | none | issues a JWT | - |
| entities, events, DTOs | columns | - | - |
| legacy `KafkaProducer` | none | registration commented out | - |
| React front end (`App.js`, `env.js`) | status text, three event lists, one `HubConnection` per effect | start with retry, callbacks of the connection, receive, cleanup | EventBridge |

What makes each correct, and where it is hard:

- **Outbox** (worker, publisher, store, HTTP endpoints). An event recorded with its entity
  reaches its topic at least once, a bounded number of times; its row is never retired
  without that; a failing row does not block the others; order is kept except after a
  failure. Hard: an acknowledgement lost after the append; the publish and the mark are two
  steps with a shutdown or an exception between them; a failed save leaves its changes in
  the change tracker, and the catch block saves through the same context; HTTP clients write
  the same rows without a lock; `CreatedAt` is taken before the commit.
- **UsersController.** E-mail addresses are unique; the table and the events agree. Hard:
  check and save are two steps, with other requests in between.
- **Status consumer.** No event is skipped by a commit and none is stuck. Hard: restart,
  rebalance or a failed commit between handling and committing; the position has moved on
  when a handler throws.
- **Orders and handler.** A deactivation cancels exactly the owner's pending orders, once;
  row and events agree. Hard: both sides save from copies read earlier, the user is validated
  over HTTP before the save, messages are redelivered.
- **EventBridge.** Every event is broadcast, and few of them twice. Hard: offsets are stored
  before the broadcast; the wait for topics is bounded and races their creation; on .NET 8
  `ExecuteAsync` runs inside `StartAsync` until it awaits something incomplete, and the web
  server with the hub starts after that.
- **Front end.** The page gets connected, shows what it is sent, newest first, and its status
  line tells the truth. Hard: callbacks of an old and a new connection write one status text,
  the cleanup of an effect meets a `start()` in progress or its timer, reconnecting gives up,
  the hub does not repeat what a page has missed.
- **Hosts.** The database is in memory, the committed offsets are not.

`PROJECT.json` lists every hazard at its line, with the properties aimed at it.

## 2. Modules

| module | models | how |
|---|---|---|
| `OutboxPublisher` | worker, publisher, store, outbox endpoints, the requests that add rows | one action per await-delimited step of `ExecuteAsync` |
| `OutboxContract` | what the outbox promises while saves work and nobody else writes its rows | `status` and `copies` per event; abstract |
| `OutboxPromise` | what is left of that with store faults and HTTP clients | `status`, `copies`, late copies; abstract |
| `MCOutbox` | bounds and symmetry for TLC | extends `OutboxPublisher` |
| `UserService` | `UsersController` | a request is a read and, later, a save |
| `UserContract` | what the rest of the system may rely on about users | `status` and the announced statuses; abstract |
| `StatusConsumer` | `UserStatusConsumerService` on one partition | offsets; the handler returns or throws |
| `QueueContract` | what the consumer group promises its handler: in order, at least once | offsets `offered` and `acknowledged`; abstract |
| `OrderService` | `OrdersController`, `UserStatusChangedHandler`, with `StatusConsumer` composed by `INSTANCE` | the handler's steps refine the consumer's `HandlerReturns` and `HandlerThrows`; its environment is `UserContract` |
| `OrderContract` | what `OrderService` promises about its orders | `owner`, `status`, cancellations to spare, deactivated users; abstract |
| `EventBridge` | `KafkaConsumerService` and the start of its process | offsets per topic; one action per step of the two loops |
| `App` | `App.js`, `env.js` | one action per callback of the effect; the connection is external |
| `EventStream` | both, with the hub and the transport between them | instances of the two, each step a step of one of them or of the network |
| `MCStream` | values for TLC | extends `EventStream` |
| `OutboxPublisherProofs`, `StatusConsumerProofs`, `UserServiceProofs`, `OrderServiceProofs`, `EventStreamProofs` | the theorems | extend the module they are about |
| `OrderContractProofs` | `OrderService` implements `OrderContract` | extends `OrderServiceProofs` |

The abstract specifications fit together: `UserService` implements `UserContract`, whose `Change` is the step of
`OrderService`'s environment; `OutboxPublisher` implements `OutboxPromise`, whose `Deliver` and `DeliverLate` are all that
`OrderService` assumes of the way an event comes to its topic.

### OutboxPublisher

`stored`, `created`, `retry` and `sent` are the table (`SentAt` only as set or not set);
`dirtySent` and `dirtyRetry` the unsaved changes in the scope's `DbContext`; `pc`, `batch`,
`snapshot` and `current` the worker's locals, `snapshot` being the `RetryCount` in its copies;
`log` and `deadLog` what Kafka has appended, over all topics.

`Stamp`/`Commit` are the two halves of a controller's write: `CreatedAt` first, the save later.
`Acquire` is the query, ordered by `CreatedAt` and cut at the batch size; it takes no lock,
although `IOutboxStore` asks for one. `Publish` has three outcomes, the third being "appended
but reported as failed". `Mark` saves the result; `MarkThrows`, `CatchMark` and
`CatchMarkThrows` are the catch blocks; `MarkCancelled`, `EndBatch` and `Exit` the reactions to
the stopping token. `Save` writes what the `DbContext` tracks, leftovers of an earlier failed
save included. `HttpReadRetry`/`HttpSaveRetry` are separate because `IncrementRetry` saves a
copy; `HttpMarkSent` is one step because what it writes does not depend on what it read.

`StoreMayFail` is FALSE for the provider the services configure (EF in-memory, which does not
fail) and TRUE for the relational one the design is written for; the results under both are
kept apart.

### UserService, StatusConsumer, OrderService

Each request has its own `DbContext` on a shared database without concurrency tokens, so a
request is two steps and the second overwrites. An id of a request doubles as the id of the row
it creates. E-mail validation and trimming, names and products are abstracted: no branch of
the modelled control after validation depends on them.

In `StatusConsumer` the partition's log is `topic`, `position` the next offset `Consume` returns.
A null or empty message is committed at once, a malformed one falls into the catch block without
commit and without seek, a throwing handler likewise: the next successful commit covers it. The
events "message failed for good" are therefore in the model (`failed`, `Unparsable`) and the
properties say so instead of assuming them away.

In `OrderService`, `UserChanges` and `EventPublished` are `UserService` seen from outside. `changes` are, per user, the
statuses announced by committed events, and `UserChanges` is `Change` of `UserContract`: two requests that overlap may announce one
status twice. `copies` says how often each event is on the topic. `EventPublished` is any `Deliver` or `DeliverLate` of `OutboxPromise`:
any recorded event, in any order, again, or never. A deactivation may thus arrive after the reactivation that followed it.
`earlier` is a history variable: which messages' handling had begun when an order became Pending. It is what "the orders that
were pending then" needs in order to be said of a later state.
`batch` is the set of orders tracked by the handler's `DbContext`. `Restart` loses the in-memory
database with its outbox and its requests, and keeps topic and committed offset.
Its `PatchFails` covers a failed validation, a cancelled request and a failed save, which all
end the request without effect. The handler's case "status is not Inactive" and its
case "no pending order" have the same effect, and are one action. `ValidUser` leaves out the branches of
`ValidateUserExistsAsync` that assume an active user (an answer 200 without a status it can read, no client factory): `UserService`
always sends a status, and `Program` registers the client.

### EventBridge, App, EventStream

In `EventBridge` a topic is its number of messages (one partition, as the code creates it), a message its topic
and offset. `position` is what `Consume` returns next and, with auto-commit, also what is stored; `AutoCommit`
is librdkafka's background commit. A host that stops ends its services in the reverse order: `WebServerStops` closes the hub while the
loop still runs, and may broadcast to nobody and commit (`stopping`); `Shutdown` is then the `finally` block with `Close`, `Crash` the end
without it, at any point. The configuration is complete, as in `appsettings.json`: the branch of `ExecuteAsync` that goes on without a
subscription is left out. A
rebalance either revokes the partitions (commits) or loses them (does not). `yielded` says whether
`ExecuteAsync` has met an incomplete `await`: the delay of the topic wait, or the one after a fatal consume
error. A broadcast does not count: while nothing has been awaited there is no web server, hence no client,
and `SendAsync` to nobody completes at once. `serving` follows `yielded`, in the order of `Host.StartAsync`.
`attempts` and `rewinds` are history variables. A failed broadcast is an attempt: the code only logs it.

In `App` a connection is named by the effect that built it. `link` is its `HubConnectionState`, `starter` where its
`start()` is (running, waiting for the timer, or done), `status` and `lists` the React state. `connection`, the
fourth state variable, is set and never read, and left out. `Refresh` is a remount of the effect, as
a development server does it: the cleanup stops the old connection but not its `start()`. `Stopped` says
what `stop()` makes of each state; stopping a connection that is starting makes `start()` reject, and its
catch block sets the timer. `OnClose` has no retry, as in the code.

`EventStream` adds `hub` (is a connection accepted, is it in `Clients.All`), `channel` (events under way, in order) and
`faults`. `Broadcast` is `SendReturns` of the bridge plus an append to the channel of every connection in the hub.
The transport is ordered; when it breaks, or the process ends, some suffix is lost and the client
notices after the rest. `since` is a history variable, set when the hub lists a connection: what the bridge had broadcast by then, the
connection cannot have got. `AttemptFails` makes an attempt against an unreachable hub fail for free, and against a
reachable one only as a counted fault. The hub's address is `HubUrl`, from `env.js`: substituted,
missing, or the placeholder that is there until the container's entry point replaces it.

## 3. What the runs check

| run | question | bounds | distinct states |
|---|---|---|---|
| `outbox_core` | Can a shutdown or any produce outcome lose, multiply, reorder or block events? | 3 rows, batch 2, `MaxRetries` 2 | 289 k |
| `outbox_deadletter` | What does `MaxRetries <= 0` do? | 3 rows, batch 2, `MaxRetries` 0 | 2 k |
| `outbox_faults` | The same with a store that throws and an HTTP client on the same rows | 2 rows, 1 client, `MaxLog` 3, `MaxCount` 2 | 1.0 M |
| `outbox_exhausted` | Is an exhausted entry dead-lettered? (**no**) | 2 rows | finding |
| `users` | Do table and outbox agree under concurrent requests? Is `UserContract` implemented? | 4 requests, 2 addresses | 37 k |
| `users_email` | Are addresses unique? (**no**) | 3 requests, 1 address | finding |
| `consumer` | Is an event skipped, out of turn or stuck? | 3 values, 3 messages, 2 disruptions | 7 k |
| `orders` | Are exactly the right orders cancelled, all of them, once? Is `OrderContract` implemented? | 2 orders, 2 users, 1 PATCH, 2 status changes, `MaxLog` 2, 1 disruption | 704 k |
| `orders_stale` | Does the handler cancel only pending orders? (**no**) | 1 order, 1 user, 1 PATCH | finding |
| `orders_race` | Is no order of an inactive user left pending? (**no**) | 1 order, 1 user | finding |
| `stream` | What is lost, missed, repeated, reordered or wrongly shown between Kafka and the page? Does the page get connected? | 2 topics, 2 messages each, 2 connections, 2 reconnect attempts, 3 occasions | 270 k |
| `stream_web` | Does a bridge that is started come to serve its hub? (**no**) | no process end, 1 connection | finding |

**Why the bounds are enough.** Three rows with batches of two give a batch that is cut, a row left
for the next poll and a row committed late with an old timestamp. `MaxRetries` 2 has a first, a
last and an excluded attempt. The only counters of the outbox model without a bound of their own are `Len(log)`
and `RetryCount` under faults and clients (a client can set `RetryCount` back, so the program does
not bound the publishes); `MaxLog` and `MaxCount` cut them in `outbox_faults`, where three
appended messages suffice to publish one row again after each kind of failure. In the runs
without faults both are left wide open (99) and never reached. Four requests let three of them
interleave on a user a fourth created. Two disruptions let a redelivered message be redelivered
again. Two users and two orders tell the owner's orders from another's and one cancelled order from all;
two status changes deactivate both users, or one user twice, or deactivate one and bring it back.
`MaxLength`, `MaxChanges`, `MaxLog` and `MaxDisruptions` are guards of the actions they bound. In `OrderService` a repeated delivery counts as a disruption,
like a restart or a rebalance: a log of two holds one deactivation twice, or two changes in either order.

In `stream`, messages, ends of the process, rebalances, network faults and remounts share a budget, `MaxOccasions`: three of
them, of any kinds, at any points. That covers a message skipped by a crash followed by one that is delivered; two messages
in one channel that breaks; a message repeated after a crash; a remount while the connection is starting, broken or
reconnecting, with an event after it. One message is blank. Each hazard needs one or two occasions and a message.
The theorems of section 4 hold without this budget (`MaxOccasions` is any number). Two reconnect
attempts instead of the library's four have a first and a last; the other counters (`MaxMessages`, `MaxStops`, `MaxMounts`, `MaxFaults`)
are guards too.

**Deadlock** checking is off in all runs because the system may really stop: requests end, the
topic ends, and a stopped worker has nothing to do. Progress is stated by the liveness properties
instead.

**Symmetry** is used for rows, and only in the runs without liveness properties.

**Fairness.** `OutboxPublisher` has weak fairness of the worker's steps as a whole: it is a
`BackgroundService` whose loop always comes back (every `await` is bounded by Kafka's message timeout
or by the stopping token). No outcome is fair: a produce may fail for ever, and it is then
`RetryCount` that ends the attempts. `StatusConsumer` and `OrderService` have weak fairness of the
consumer loop for the same reason; that an event is published at all is not assumed, the property
starts from the topic. Requests, users, HTTP clients, restarts and rebalances owe nothing.
`EventStream` has weak fairness of four threads: `ExecuteAsync` (the end of its wait, the loop, the broadcast), the
start of the web server, the hub's handling of accepted connections, and the browser's event loop,
which runs every callback and timer in the end. A process that ended need not come back,
no message, fault or remount is due, and the wait for topics may end by its timeout only.
`EventuallySettled` and the handler's property make allowance for what the code allows:
the host may stop, a row may be parked, a handler may fail for a message. `EventsReachThePage`
speaks of the mounted page's connection while the hub lists it, and ends when that connection does; `PageConnects`
ends when the hub is not reachable, and says nothing of a page that was connected before, because
nothing starts a connection again after `onclose`.

**Mutants.** Every property of a passing run has a mutated definition beside the one it replaces
(marked "Mutant:" in the modules) which breaks it: a dropped `SentAt` filter, an off-by-one in the retry
limit, `EnableAutoCommit`, a query that forgets the owner, and so on. They are not part of the specifications.

### Findings

1. *The dead-letter branch is unreachable* (`outbox_exhausted`). `KafkaOutboxPublisher` dead-letters at
   `RetryCount >= MaxRetries`; `AcquireAndLockAsync` returns only rows with `RetryCount < MaxRetries`. A row that
   failed `MaxRetries` times stays in the table, unsent. `DeadLetterUnused`, checked and proved, is the same fact
   as a safety property. With `MaxRetries <= 0` the store's `Math.Max(1, ...)` opens the branch, and then nothing is published at all.
2. *Two users with one e-mail address* (`users_email`): the duplicate check and the insert are two steps, with no index behind them.
3. *The handler overwrites a newer status* (`orders_stale`): "only cancel if still Pending" tests the copies the query
   just returned, so a PATCH that commits in between is undone: a Paid order becomes Cancelled.
4. *A pending order of an inactive user* (`orders_race`): a POST validates the user, the deactivation is handled, the
   POST saves. Nothing looks at that order again.
5. *A bridge without a web server* (`stream_web`). If every topic exists when `EventBridge` starts, the wait loop ends before its
   only `await`, `Consume` blocks without one, and the broadcast to nobody completes at once: `ExecuteAsync` never
   returns to `StartAsync`, and the hub the README tells the browser to watch is never served. A first
   start, with topics missing, awaits the 2 s delay and works; a restart of the bridge does not. (The other two services
   get a newer `Microsoft.Extensions.Hosting` through `Shared`, which starts `ExecuteAsync` on a thread of its own.)

## 4. What is proved

The TLAPS theorems hold for every value of the constants; TLC first checked each formula on the bounded runs.

**`OutboxPublisherProofs`**

| theorem | property | assumes |
|---|---|---|
| `TypeCorrect` | `TypeOK` | - |
| `SentIsFinalCorrect` | `SentIsFinal` | - |
| `LateCopies` | `AtMostOneLateCopy` | - |
| `SilentLossImpossible` | `NoSilentLoss` | - |
| `DeadLetterUnreachable` | `DeadLetterUnused` | - |
| `DeliveriesBounded` | `CopiesBounded` | `MaxRetries >= 1`, no HTTP client, store does not fail |
| `OutboxImplementsContract` | `ImplementsContract` | the same three |
| `OutboxKeepsPromise` | `ImplementsPromise` | `MaxRetries >= 1` |
| `DeadLetteredOnce` | `DeadLetterOnce` | `MaxRetries <= 0`, store does not fail |
| `OrderKept` | `OvertakesOnlyAfterFailure` | store does not fail |

"-" means only `ConstantsAssumption`: faults, clients and every limit are included.

- `AtMostOneLateCopy` is not inductive: a second late copy would follow if the worker still held the entry.
  `LateInv` adds that an entry with a late copy is marked sent, so that no later batch contains it, and has left the
  current batch.
- `NoSilentLoss` is threatened through the change tracker. `RetireInv` says that whatever is dirty-sent, or about to be
  marked sent, has been published, and that every entry the worker holds was read below the retry limit: so it
  meets neither the dead-letter branch nor, in the catch block, `nextRetry > MaxRetries`. `DeadLetterUnused`
  follows from the same invariant.
- `CopiesBounded` needs `CountInv`: while the host runs, an unsent event has at most one copy per recorded failure, plus
  the attempt in progress; and the `RetryCount` the worker copied is the one in the row. With clients or store faults the
  last part fails (a client can write a smaller count), which is why the theorem excludes them. No bound survives them at all: a
  save that throws after the publish forgets the failure it should count, and does so again at the next poll.
- `OutboxKeepsPromise` states what does survive: an event is retired only after a copy was appended or on a client's word, for good, and at
  most one copy follows. One save may retire several events, those of earlier saves that threw among them, so `Mark` and `CatchMark` map to
  `Retire` of a set. Beside `RetireInv` and `LateInv` it needs `HeldInv`: the worker's batch and what its `DbContext` left dirty
  are rows of the table, so nothing is retired that was never recorded.
- The refinement is proved action by action: `Commit` maps to `Record`, an appended `Publish` to `Deliver`, `Mark` to
  `Retire`, `Abandon` or a stutter, all others to stutters.
- `DeadLetterOnce`: by `DeadInv` a dead-lettered entry is marked sent, is about to be, or its mark was cancelled by a shutdown,
  after which no batch follows. HTTP clients are allowed: none un-sends a row.
- `OvertakesOnlyAfterFailure`: by `OrderInv` a row that was visible to the query, is older than one in the batch, unsent and without
  a failure, is itself in the batch or being recorded. A store that fails would lose the record of the failure.

**`StatusConsumerProofs`**: `TypeCorrect`, `NothingSkipped` (`CommittedWasSettled`), `CommitMonotone`
(`CommitNeverRegresses`), `ConsumerImplementsContract` (`ImplementsContract`), for logs of any length. `OffsetInv` relates the three ways an offset is known: everything below the position of a
connected consumer is settled except the message in its handler, and the committed offset does
not exceed the position. The clause has to be dropped while the consumer is down, because a crash leaves
the position past an unhandled message; `Connect` re-establishes it from the committed offset. The refinement of `QueueContract`
needs nothing more: by the same clause the message in the handler is settled only after all before it, so both ways out of the
handler are an `Offer`, `CommitOffset` is an `Acknowledge`, and restarts, rebalances and failed commits are stutters.

**`UserServiceProofs`**: `TypeCorrect`, `OnlyOverlapDuplicates`, `LastEventIsTrue`, `OldStatusIsTrue`, `UsersImplementContract`
(`ImplementsContract`), for any number of requests. `SeenInv` says that the rows a check saw are still there under other addresses; `AnnounceInv` that
a running update holds a status its user really had, at the point where `base` events were committed. The refinement needs both
and that a user without events is Active (`NewUsersActive`): the status a save replaces may be any, but the one its request compared
with was the user's once.

**`OrderServiceProofs`**

| theorem | property | argument |
|---|---|---|
| `TypeCorrect` | `TypeOK` | `TypeInv` |
| `RowsMatchEvents` | `RowMatchesEvents` | inductive over `TypeInv` |
| `CancelsOncePerPending` | `HandlerCancelsOnce` | `SpareInv` |
| `HandledIsComplete` | `HandledMeansCancelled` | `CompleteInv` |
| `AppliedAgainIsRedelivered` | `AppliedAgainOnlyAfterDisruption` | `FreshInv` |
| `CommittedIsComplete` | `CommittedMeansCancelled` | the last one, and `StatusConsumerProofs` |
| `OrdersImplementContract` (in `OrderContractProofs`) | `ImplementsContract` | `TypeInv`, `SpareInv`, `CauseInv` |

All assume only `OrderAssumption`: any orders, users, requests, redeliveries, rebalances and restarts. `Writers`
lists the only steps that touch rows, so each invariant is proved for three saves (create, PATCH, handler) and the restart.

- `TypeInv` adds to `TypeOK` that an order without a row has no outbox rows and that a running PATCH is about a row that exists.
- `HandlerCancelsOnce` is not inductive, since the handler saves a copy that may be stale. `SpareInv` says that an order that is Pending, *or was
  when the handler read it*, has one cancellation to spare; there is one handler, so nobody else spends it.
- `AppliedAgainOnlyAfterDisruption` is about orders that came after an event was handled: the handler does not look at `OccurredAt`, so a
  repeated deactivation cancels them too. `FreshInv` says that before the first rebalance or restart the consumer is past every message whose
  handling has begun, also through failed handlers and failed commits, and that a connected consumer never lies below the committed offset.
- `HandledMeansCancelled` is the completeness of the handler: a query that returned one order, or a save that forgot one, would break it. It is
  threatened between the query and the save, when orders come into being or back to Pending. `CompleteInv` says that, while the handler
  holds copies, a pending order of its user is among them or became Pending after it began.
- `CommittedMeansCancelled` is composed, not proved anew: `ConsumerRefined` shows that every step of `OrderService` is a step of
  `StatusConsumer` or leaves its variables alone, so `NothingSkipped` holds of the instance, and below the committed offset every message was handled
  or the handler threw for it. That, with the theorem before, is the property.
- `OrdersImplementContract`: only the three saves and the restart change what `OrderContract` sees. The handler's save maps to `CancelAll` of its
  batch, for which `CauseInv` gives one deactivated owner of all its orders and `SpareInv` a cancellation to spare for each. `CauseInv` is the reason why
  nobody else's order is cancelled: what the `DbContext` holds belongs to the user of the message at hand, and owners and messages do not change.

**`EventStreamProofs`**

| theorem | property | argument |
|---|---|---|
| `TypeCorrect` | `TypeOK` | `BridgeTyped`, `PageTyped`, `NetTyped` |
| `SkipsBounded` | `SkipsAtMostOnePerStop` | `SkipInv` |
| `ReplaysAreRewinds` | `RebroadcastOnlyAfterRewind` | `ReplayInv` |
| `OrphansOnlyFromStart` | `OrphansWereStarting` | `PageTyped` |
| `StatusIsTruthful` | `StatusTruthful` | inductive over `PageTyped` |
| `ListsNewestFirst` | `NewestFirst` | `LeftLoop`, `InOrder` |
| `ListenersMissNothing` | `NothingMissed` | `MissingInv` |
| `ShownOnce` | `ShownOncePerRewind` | `LeftLoop`, `InOrder`, `NoBlank` |

All assume only `StreamAssumption` (finitely many topics, bounds that are numbers). `StepsOfBridge` and `StepsOfPage` show that each step
of the composition is a step of the bridge, or of the page, or leaves it alone, so that most invariants are proved about one part.

- `SkipsAtMostOnePerStop` counts committed offsets, and the commit comes at any later time. `SkipInv` therefore counts everything
  already *read* and never broadcast, without the message in the loop; a crash adds that message and a stop to both sides,
  a rewind only takes away.
- `RebroadcastOnlyAfterRewind`: with `ReplayInv`, what lies at or above the position, or is in the loop, has been broadcast at most once per rewind.
- `OrphansWereStarting` needs, of a connection cleaned up when its `start()` was done, that it is closed or closing for good.
- `NewestFirst` follows from the order on the wire. `LeftLoop` says that every event on its way or on the page lies below the position
  (or stems from before a rewind), `PendingRead` that the message in the loop is the last one read of its topic: so a broadcast appends the
  greatest offset. `InOrder` carries that through the channel, its possible truncation, and the list.
- `NothingMissed` is inductive with the types (`MissingInv` is the same, said of one offset at a time). The lemmas show why: only `Consume` moves a
  position up, past a blank message or the one it then holds; while the web server goes on a message leaves the loop only by its broadcast;
  and what is on the wire of a connection that stays in the hub goes to the page and nowhere else. A truncation takes the
  connection out of the hub in the same step.
- `ShownOncePerRewind` counts. By `InOrder` two entries of one message over one connection are of different runs, and by `LeftLoop` a run is one of
  0..`rewinds`: the entries inject into that interval.

**Only model-checked:** liveness (`EventuallySettled`, `EveryMessageSettles`, `PendingOrdersAreCancelled`, `EventsReachThePage`,
`PageConnects`): fairness is out of the prover's reach. Every safety property that a passing run checks is proved.

## 5. What is not modelled

- `OutboxRepository` and the application services: nothing calls them. `AuthController` and the legacy
  producer: no state that a property could be about.
- In `UserStatusConsumerService`, the configuration checks and metadata probes before the subscription
  are abstracted to "not connected yet"; they change nothing.
- The order of hosted services in `OrderService` and `UserService`: their `ExecuteAsync` runs on a thread of its own, so none waits for another.
- Libraries: Kafka's client and broker, SignalR on both sides and React are modelled from how the code uses them, and
  marked external in `PROJECT.json`. React's batching of state updates is left out: the updates are functions of
  the previous state, or constants, applied in order.
- The page's markup and the times it shows; `conn.stop()` on leaving the page altogether, after which nothing is observed.
- An incomplete Kafka configuration of the bridge, and a `UserService` that answers without a status: neither occurs with this repository's
  services and settings.
- Payloads, JSON formats, validation messages, logging, authentication, HTTP status codes.
- Topics with several partitions: the code creates every topic with one.
- Several instances of a service: the databases are in-memory and private to a process.

## 6. Plan

Done: the outbox with its two contracts, the user requests and what they promise, the status consumer and its queue contract, the order service on top
of both with its own contract, the bridge and the page; proofs of all safety properties and of every refinement. Next:

1. An abstract specification of the stream (a connection's session shows a contiguous part of the log, in order) which `NothingMissed`,
   `NewestFirst` and `ShownOncePerRewind` already contain, and the refinement that `EventStream` implements it.
2. `OrderService` composed with `QueueContract` instead of `StatusConsumer`, as it is now with `UserContract`: its proofs would
   then hold for any consumer that keeps that contract.
