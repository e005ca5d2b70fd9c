# Lily: TLA+ models of messaging, shutdown and scopes

Lilyrs is a Rust workspace of application infrastructure: foundation crates
(configuration, dependency injection, shutdown, clients), application frameworks
(HTTP, WebSocket, queue consumer) and integrations (RabbitMQ, PostgreSQL,
MongoDB, Redis, ClickHouse). This directory holds TLA+ models of the parts whose
correctness depends on interleavings, failures and ordering, TLC configurations
that check them on small instances, and TLAPS proofs for every instance.

Two promises are at the centre. **An event enqueued in a business transaction
reaches the broker, and an event consumed by a transactional handler has its
effects once**: the outbox relay, the consumer engine and the transactional
inbox of `crates/integrations/lily_queue`. **A process that is told to stop
stops in time, with nothing running behind its back**: the shutdown state and
coordinator of `foundation/lily_shutdown`, the scopes of
`foundation/lily_injection`, and the drains of the three parts above.

`PROJECT.json` is the machine-readable side of this document: components, runs,
the source lines behind every definition, hazards, findings and theorems. Paths
below are relative to `src/crates/`.

## 1. Inventory

### Modelled

| Part | State | Operations | Interaction |
|---|---|---|---|
| Outbox table and relay worker (`integrations/lily_queue/src/outbox_relay.rs`, `transactional_postgresql/storage.rs`) | rows with attempts, claim token, lease and back-off; a worker's batch and current record | enqueue, claim batch, begin publish, publish, mark delivered, record failure, count exhausted, clean up | workers of several processes share one table; the only coordination is the fenced SQL statement; the broker confirms, or does not |
| Relay supervisor and ledger (`outbox_relay.rs`, `owned_tasks.rs`, `lifecycle.rs`) | worker map, admission flag, per-worker degradation, one readiness ledger of atomics, a terminal-failure notification | register, start, stop admission, drain, force, close, degrade, recover, wait for terminal failure | the shutdown coordinator calls it in phases; workers write the shared ledger concurrently |
| Transactional inbox and tracker (`transactional_postgresql/storage.rs`, `owned_tasks.rs`, `integrations/lily_postgresql`) | inbox rows, advisory locks, open transactions; an admission flag, a counter of leases, owner-task receipts | admit, claim an identity, run the handler, complete, commit or roll back, clean up; stop, force, drain | each delivery has a waiter and an owner task that outlives it; the server may finish what the process abandoned |
| Consumer engine and settlement (`integrations/lily_queue/src/providers/rabbitmq/queue_engine.rs`, `settlement.rs`, `telemetry.rs`) | deliveries with their settlement authority, a bounded buffer, a task set, engine and generation tokens, the channel generation | receive, admit, dispatch, handle, hand off to retry or dead letter, ack, nack, lose the channel, recover, drain, force drain | receiver, dispatcher, handler tasks, supervisor and registration are tasks of their own; the broker redelivers what a lost channel leaves unsettled |
| Shutdown state and signal monitor (`foundation/lily_shutdown/src/lib.rs`, `signal_handler.rs`) | flags, counters and watch channels, no lock | initiate, publish ready, take and drop an activity guard, receive a signal, force, wait for the first, stop the monitor | every framework and background task of the process |
| Shutdown coordinator (`foundation/lily_shutdown/src/framework.rs`) | registered components, one-shot closures, owned task sets, an absolute deadline with a force reserve, a report | attach deadlines, execute phase by phase, force, report; being dropped and called again | calls the drains of everything else, in phases |
| Scopes and container shutdown (`foundation/lily_injection/src/`) | live and closing scope IDs, a context per scope, cleanup tasks and their control, resolution guards, root instances | create, resolve, close, drop, clean up, abort at a deadline, wait for a cleanup, shut the container down | factories and disposers are the application's; the runtime may drop a task |

What is hard in them, and what makes them correct:

* **Relay worker.** A lease can expire at any moment, a storage call can fail
  after taking effect, a publish can time out although the broker has the copy,
  a process can die anywhere. Correct means: no row is settled before the broker
  confirmed a copy; every copy costs a durable attempt, so the budget bounds the
  copies; a stale worker changes nothing; duplicates happen only in the window
  between a confirm and its durable mark; every row is in the end delivered or
  exhausted.
* **Supervisor.** Registration awaits a schema check while shutdown takes its
  snapshot; the ledger is several atomics written by several tasks;
  `notify_waiters` stores no permit. Correct means: nobody runs after a
  successful drain; the verdict is final; the degraded counter is exact;
  a terminal failure is always seen; a shutdown ends.
* **Inbox.** Two deliveries of one event at once; a COMMIT whose answer is lost;
  a waiter that is dropped; an owner interrupted in the middle of a COMMIT;
  `begin` racing the end of admission. Correct means: effects once per retained
  row; Ok only for committed effects; a claim never waits; a successful drain
  leaves no transaction running.

* **Consumer engine.** A settlement frame has no answer; the channel may go with
  deliveries in the buffer, in handlers and in settlement; recovery, failure,
  drain and force meet in a tree of cancellation tokens. Correct means: the
  original is removed only when handled or when its successor is confirmed; at
  most one frame per delivery; nothing of a lost generation runs beside the next;
  a reconciled drain leaves no task; a forced drain and a failed runtime end.
* **Shutdown state.** Every operation is a sequence of single atomics. Correct
  means: shutdown wins over readiness, exactly one request makes the transition,
  the activity counter neither drifts nor underflows, a drain that read zero
  stays quiet, and the waiter and the force path are reached.
* **Shutdown coordinator.** One absolute deadline, a reserve for force, futures
  that hang, panic or are dropped half way. Correct means: it ends in time,
  graceful work never eats the force reserve, no closure runs twice, and the
  report says what happened.
* **Scopes.** Cleanup waits for resolutions that may still publish an instance;
  three deadlines may claim the same cleanup; the task may be lost; an ID may be
  used again. Correct means: every instance has one owner and is disposed at
  most once, an ID is reserved until nobody can publish into its scope, roots go
  last, and shutdown returns whatever the application's code does.

### Not modelled yet, in the order of the plan (section 2)

| Part | Hard behaviour | Properties it would need |
|---|---|---|
| Delivery lifecycle and pipeline (`delivery_lifecycle.rs`, `delivery_execution.rs`, `delivery_termination.rs`, `pipeline.rs`) | handler timeout, panic and cancellation racing completion; exits run in reverse order | every entered stage exits once; the outcome is decided once |
| MongoDB inbox and outbox (`transactional_mongodb/storage.rs`) | the driver re-runs the whole body on transient errors, a heartbeat renews claims | the same contracts as the PostgreSQL store |
| Queue service and shutdown budget (`queue_service.rs`, `shutdown_budget.rs`) | one hard deadline split between phases | no phase starves the next |
| Background services (`foundation/lily_background_service`) | supervised failure and bounded stop | a failure is reported; stop ends |
| Consumer framework (`framework/lily_consumer`) | a build that fails half way | what was built is torn down in reverse |
| WebSocket client (`foundation/lily_websocket_client`), server (`framework/lily_websocket`), backplane (`integrations/lily_websocket_redis`) | reconnection with a bounded queue; groups across nodes | order per connection; resubscription misses no group |
| Queue client (`integrations/lily_queue_client`) | publishes during reconnection | admission bound holds; each publish resolves once |
| HTTP framework (`framework/lily_http_api`) | connections at shutdown | every connection owned and joined |

### Not modelled, and not planned

Procedural macros and registries (compile time), configuration and validation
(immutable; the bounds they enforce are assumptions here), error, core and
context types, middleware and web core (decisions on one request), logging,
monitoring and tracing (observations), the typed adapters for MongoDB, Redis and
ClickHouse, AsyncAPI documents, the HTTP client, topology declaration and header
codecs, and the `lilyrs` facade.

The repository is large (about 250,000 lines of implementation with its inline
tests), and most of it is of these kinds or in the table above. The models cover
the state machines at its centre, not its breadth.

## 2. Plan

1. *(done)* `OutboxRelay`, its abstract promise `AtLeastOnceOutbox`, and
   `OutboxRelayProofs`.
2. *(done)* `RelaySupervisor` and `RelaySupervisorProofs`.
3. *(done)* `TransactionalInbox` and `TransactionalInboxProofs`.
4. *(done)* `QueueConsumer`: settlement, retry and dead-letter handoff, channel
   loss, recovery, drain; `QueueConsumerProofs`.
5. *(done)* `ShutdownState` and `ShutdownStateProofs`; `ShutdownCoordinator`, the
   environment the supervisor and the inbox assume, and
   `ShutdownCoordinatorProofs`.
6. *(done)* `ScopeManager` and `ScopeManagerProofs`.
7. `DeliveryLifecycle`: handler future, timeout, cancellation, panic, and the
   pipeline's entered and exited stages, now the outcomes of `QueueConsumer`'s
   handlers.
8. `ReliableDelivery`: composition of the inbox with the consumer, refined to
   "effects once, never lost".
9. `MongoInbox`, against the same properties as `TransactionalInbox`.
10. `BackgroundService`, the queue service's shutdown budget, then the WebSocket
    client and backplane.

The safety properties of every module are proved (section 6). The proofs still
worth writing are those of the modules to come.

## 3. Modules and the code

### OutboxRelay

`row` is `lily_queue.outbox`. A record is its rank in `(created_at, record_id)`,
so that `Candidates` and `Bounded` are the `ORDER BY ... LIMIT` and the running
byte sum of `claim_outbox_batch`. `pc`, `owner`, `batch`, `cur` and `attempt` are
the locals of `RelayWorker::run`; `cancel` its two tokens. Each SQL statement is
one operator on the table (`Claimed`, `Begun`, `Delivered`, `Released`) guarded
by its WHERE clause (`Eligible`, `BeginMatches`, `SettleMatches`), each await of
the loop an action. `published`, `confirmed`, `proven` and `unproven` are
history: which attempts the broker accepted, and which delivered marks the
worker saw succeed.

The clock is three facts per row (lease expired, back-off over, retention over)
that turn true at any moment, also while the worker is in the middle of the row.
A failing storage call is reported as failed whether or not the statement took
effect. Crashes lose the worker, never the table.

### AtLeastOnceOutbox

The promise without workers, leases or tokens: an event is committed, copies of
it are sent at most `MaxAttempts` times, it is settled only once one is confirmed,
and forgotten only once settled. `ImplementsAtLeastOnce` maps `row.status`,
`published` and `confirmed` to it.

### RelaySupervisor

One process, at the granularity of its atomics and locks: `register` is three
steps around its awaited schema check; `degrade` is `record_failure`, then the
worker's own flags (`RecordCause`), then the shared counter (`CountDegraded`);
`recover` the flags (`Recover`), then the counter (`DiscountRecovered`);
`record_recovered` is a read before an update. A worker's work is
abstracted to its outcomes. The lifecycle takes the phases in the order in which
`lifecycle.rs` registers them; deadlines are nondeterminism.

### TransactionalInbox

An execution is one call of `execute_before`. Its `waiter` is the delivery's
future, its `owner` the task adopted by `OwnedTasks::spawn`. `begin` is three
steps (check, count, check again). The owner's stages are those of the
transaction: connect, advisory lock, claim statement, handler, completion,
commit or rollback. `txn` is what PostgreSQL knows: `orphan` is a transaction
whose client is gone before COMMIT, `inDoubt` one whose COMMIT may have arrived.
The server ends either at any later moment, and until then keeps its advisory
lock. `LockOf` is the 64-bit digest: keys may collide. `effects[k]` counts the
commits of the handler's writes for `k`; it is history. What a delivery is told
(`ExecutionResult`) is the classification in `queue_service.rs`. `drain` follows
`drain_transactions` from await to await, including the enabled notification.

### QueueConsumer

One registered subscription. `copy` is the broker: each copy of a message is
ready, unsettled or gone, and the frames of the channel are applied in the
broker's own time. `job` is the delivery of a copy from reservation in the
receiver to the end of its task, with the attempt guard and the settlement
authority it holds. `buffer` is the mpsc channel, `exits` the results the
`JoinSet` still owes its reader. `receiver`, `dispatcher`, `supervisor`,
`generation` and `drain` are the places of five tasks between awaits. `g` and `e`
are the tokens of the generation and of the engine; `force_drain` cancels the
handlers first and the other tokens once it has their lock (`ForceTakesTokens`). A handler returns, fails,
panics or never ends; a publish is confirmed, refused or unknown; the channel
may be lost at any moment (`faults`). The wait of a retry, header codecs,
traces and the counters of the settlement ledger are left out.

### ShutdownState

Every load, store and read-modify-write of `ShutdownState` is a step.
`initiate_shutdown` is the compare-exchange, the retained signal, the lowering
of readiness, the seal and the publication; `publish_ready` is two checks, a
store, the same two checks again and the withdrawal; `activity_guard` is check,
increment, check. The signal listener calls the same operations, so `Requesters`
are the callers and the listener. `first`, `drained` and `told` are history.
Connections and jobs are counted alike and share one counter here.

### ShutdownCoordinator

`execute_report` from await to await over components of three kinds: an action,
an action with a force handle, a set of owned tasks. `limits` is the deadline
arithmetic (`calculate_force_reserve` and the clamps of the component timeouts)
in whole ticks. A closure is taken when it is called, which is what a second
execution after a dropped one meets. The force request is an input;
`ShutdownState` shows how it arises. It may come just before a component is run,
which is also what the unbiased select does when it takes the request before it
has polled the closure. `drops` numbers the executions and `forcedIn` remembers
the last one that polled a component's force handle; both are history.

### ScopeManager

A generation is one `ScopeContext`, and an ID may be used by several. `ctx` is its
state, its count of resolutions in flight, the scoped cache, the disposal ledger
and the handoff; `job` the cleanup task with the control word (`terminal`) that a
normal end, the deadline, the aggregate abort and an unexpected stop compete for.
`res` is a resolution from admission to return, `fate` what became of the
instance it made, `provider` the container's admission counter, `shutdown`
`perform_shutdown` from await to await. Factories and disposers return, fail,
are cancelled or never end, also the disposer that the resolution of a root
transient awaits itself when shutdown has overtaken it (`DisposeOvertaken`).

### Definitions named Mut...

Plausible bugs of the definition after them. No specification uses them; each is
substituted in turn to show that a property can fail.

## 4. Runs

| Run | Instance | Shows |
|---|---|---|
| OutboxRelay | 2 workers, a row and an oversized one, 2 attempts, 2 faults or crashes | `EachCopyHasItsAttempt`, `DuplicatesAccounted`, fencing under lease expiry (`OnlyTheOwnerMarks`), the refinement `ImplementsAtLeastOnce` |
| OutboxRelayLive | 2 workers, 1 row, 1 fault | `EveryRowSettles` |
| RelaySupervisor | 2 workers | `NoWorkerOutlivesDrain`, `DegradedCountMatches`, `FinalStateSticks` |
| RelaySupervisorLive | 1 worker | `FailureIsObserved`, `StopCompletes` |
| TransactionalInbox | 2 executions of one event or of two with colliding keys, shutdown, 1 crash | `ExactlyOnceWhileRetained`, `OkMeansApplied`, `DrainedMeansFinalized` |
| TransactionalInboxLive | 2 executions of one event, shutdown | `ForceEndsDrain` |
| QueueConsumer | 1 message in up to 2 copies, 1 retry, 2 handler slots, a buffer of 1, 1 fault, 2 generations | `NoMessageLost`, `OneFramePerDelivery`, `PendingIsRedelivered`, `ReconciledMeansQuiet`, `GenerationsAreDisjoint`, `ForceEndsDrain`, `FailureEndsRuntime` |
| ShutdownState | a caller, the listener with two signals, a publisher, a worker | `ShutdownWins`, `DrainedStaysQuiet`, `InitiationReachesWaiter`, `SecondSignalForces` |
| ShutdownCoordinator | 3 components of the three kinds in 2 phases, deadline 4, reserve up to 2, one dropped call | `EndsInTime`, `ReserveIsKept`, `ClosuresRunOnce`, `ReportIsTruthful`, `AlwaysReports` |
| ScopeManager | 1 scope, a resolver of a scoped service, a resolver of any | `OwnedExactlyOnce`, `IdIsReservedUntilQuiet`, `RootDisposalIsLast`, `ReturnMeansQuiet` |
| ScopeManagerLive | 1 scope, 1 resolver of any lifetime | `ShutdownReturns`, `ClaimedCleanupEnds` |

The safety runs of `RelaySupervisor`, `QueueConsumer`, `ShutdownCoordinator` and
`ScopeManager` also check the module's `TypeOK`, which is proved as well. The type
invariants and some further invariants of the other modules (`NoEventLost`, `OwnerHoldsNewestAttempt`,
`LastAttemptIsExclusive`, `RowHistoryIsOneWay`, `ClaimNeverWaits`,
`ActiveCountsLeases`, `CountIsExact`, `OneTransition`) are not among the runs
because they are proved, for every instance. Deadlock is not checked:
workers that are switched off, a closed process, executions that have all
returned and a reported shutdown really do stop. The largest runs have 3.1
million (ScopeManager), 1.15 million (ShutdownCoordinator), 1.0 million
(RelaySupervisor) and 0.4 million (QueueConsumer) distinct states.

**Why the bounds suffice.** Fencing is about a stale and a fresh worker: two.
The attempt budget's edges are first, last and exhausted: two attempts show all
of them. A batch of two, with a current row and a tail, is in OutboxRelayTail and
in the proofs; the oversized row makes the batches of the other runs one row
long. The inbox
needs an original and its duplicate or redelivery, at once or one after the
other: two executions. A lost wake-up and an admission race need one execution
and the drain; two add "the last one leaves while another backs out". The safety of every module is also proved,
without bounds.

The consumer needs an original and the copy its handoff publishes, two
handler slots so that one task settles while another fails, and a second
generation beside the first: one message is enough for all of them. The
coordinator needs two components in one phase (what the first leaves of the
deadline) and one in another (the order). A scope needs a resolution that
publishes while cleanup waits and one that shares its cached instance. Deadlines
fall at any moment, so no bound on time hides a race; only the coordinator has a
clock, because its properties are about the arithmetic.

Larger instances of the same modules that are not among the runs were checked
once, without an error: QueueConsumer's invariants with two messages in up to
three copies and no fault (2.1 million states), ShutdownState with two workers
(1.8 million), ShutdownCoordinator's invariants with two tasks in its set (1.6
million), ScopeManager's invariants with one resolver and two generations of one
ID (6.3 million), which is where an ID is used again: the runs have one
generation, so that they leave the reuse of an ID to this check and the proofs.
The inductive invariant of
`ScopeManagerProofs` was checked on that instance and on the run's own.

### Where the documentation and the code disagree

`OutboxRelayTail` checks one sentence of the code's own documentation, "Only force
cancellation may interrupt owned work", and finds it violated: a row that
exhausts its attempts ends the run, and the tail of its batch stays leased by
nobody.

Other sentences that do not hold are stated as definitions at the end of their
modules. Each is an invariant (the first an action property) that TLC refutes
when it is the only property of a configuration with the instance of the
module's safety run.

| Definition | Sentence | What happens |
|---|---|---|
| `OutboxRelay!OnlyBlockedRowsEndRelay` | exhausted rows are "blocked" (`outbox_relay.rs:181`) | another worker's idle probe counts a row whose last attempt is still being published, and ends its relay |
| `RelaySupervisor!NotReadyWhileDraining` | Draining / Ready (`outbox_relay.rs:217`, `:223`) | a worker that fails and recovers during the drain makes the ledger READY |
| `RelaySupervisor!ExhaustedCountsBlocked` | "Durable rows blocked" (`outbox_relay.rs:181`) | one database's probe overwrites the count of another's |
| `TransactionalInbox!DrainWaitsForRollback` | "Waits until every admitted transaction commits or rolls back" (`transactional_postgresql/storage.rs:461`) | an execution is admitted when the drain reads the receipts, and has panicked by the time it reads the counter: Ok, with its transaction open |
| `QueueConsumer!TransportLossIsLocal` | "Recoverable transport loss does not cancel sibling subscriptions." (`framework/lily_consumer/LIFECYCLE.md:322-327`) | a settlement the receiver attempts on the lost channel fails, and a failed settlement fails the whole runtime |
| `ShutdownState!NamesTheWinner` | "Signal which won the initial transition." (`lily_shutdown/src/lib.rs:99`) | a request that loses the exchange before the winner has retained its signal reports another |
| `ShutdownState!NoFalseStop` | the published signal is preferred to a stopped monitor (`signal_handler.rs:85-88`) | the listener ends between another request's exchange and its publication: the waiter reports a stopped monitor |
| `ShutdownCoordinator!GracefulUsedNoForce` | "Every component completed without using force cleanup." (`lily_shutdown/src/framework.rs:184`) | an execution aborts the tasks of a set and is dropped; the next one joins them without an error and reports a graceful shutdown. `ReportIsTruthful` therefore speaks of the execution that reports |
| `ScopeManager!CancellationIsReturned` | "deadline, aggregate cancellation and unexpected task loss are returned here" (`scope_manager.rs:1295`) | an observer that looks after a lost task was reconciled gets Ok |
| `ScopeManager!CloseAwaitsDisposal` | "Close the scope and await all managed disposal hooks." (`ApplicationScope::close`) | when the container's shutdown has begun the cleanup first, close returns Ok at once, with the cleanup still to run |

None of them loses or duplicates an event or disposes an instance twice: leases
expire, tables are authoritative, the server aborts what is left, and the last
resolution finishes the cleanup.

## 5. Fairness

Liveness is claimed under these assumptions, and no others.

* A spawned task is polled: weak fairness of its own steps (tokio). Synchronous
  code between awaits runs on: weak fairness of `begin` and `spawn`.
* The database clock advances: weak fairness of `ExpireLease` and
  `BecomeAvailable`.
* Leases do not for ever lapse between claim and begin: strong fairness of
  `BeginPublish`. Configuration validation requires the lease to be at least the
  publish timeout (`foundation/lily_config/src/config.rs:1168`), and a begin
  statement is all that has to fit in.
* One loop iteration is over a bounded batch: strong fairness of `EndIteration`.
* A forced owner meets its cutoff: weak fairness of `forced /\ Interrupt(e)`
  (`TransactionTasks::run` puts it in its timer).
* A deadline that was set passes, and a token that was cancelled is seen: weak
  fairness of `FinishDeadline` and `FinishObservesForce` (QueueConsumer), of the
  timeouts and `Tick` (ShutdownCoordinator) and of the abort of a claimed cleanup
  and the drop of an aborted task (ScopeManager).
* The OS listener is polled: weak fairness of `ReceiveSignal` and of the waiter
  (ShutdownState). Stopping the monitor is a choice of its owner.
* Nothing is assumed of factories, disposers, the closures of shutdown
  components and whoever owns a scope or a guard.
* Nothing is assumed of handlers, brokers, the database's answers, deadlines, or
  of anyone asking for a shutdown.

## 6. Proofs

All for arbitrary values of the constants, under the named assumptions of the
modules: positive attempt, batch and byte bounds; rows are numbered from 1;
finite sets of executions, of relay workers and of resolvers; any `LockOf`; at least one
message, generation, handler slot and place in the buffer; any components,
phases, time-outs and deadlines; any scope IDs, lifetimes and number of
generations; any number of faults and crashes. The other
assumptions keep the values of the constants apart from the constants' own
markers (`None`, the states of a starter).

**OutboxRelayProofs.** `RowChanges` says once what a step can do to one row;
the invariants follow from it instead of action by action. The inductive
invariant is
`TypeOK /\ AttemptsInv /\ ConfirmedInv /\ MarksInv /\ TokenInv /\ OwnershipInv`:
`AttemptsInv` (published attempts do not exceed the row's count, and the attempt
in flight is not yet published), `ConfirmedInv` (a worker about to mark, and a
settled row, have a confirm), `MarksInv` (every published attempt is in flight,
proven or unproven), `TokenInv` (claim tokens are fresh and unique, and are only on
pending rows), `OwnershipInv` (the token's worker holds the newest attempt; none
overtakes the last one). None of the checked invariants is inductive alone:
`NoEventLost` needs to know what a worker at its mark has seen, and fencing needs
tokens to be unique. Theorems: `TypeCorrect`, `NoLoss`, `CopiesArePaidFor`,
`DuplicatesExplained`, `OwnerIsNewest`, `LastAttemptExclusive`, the action
properties `MarkIsFenced` and `RowsAreOneWay`, and the safety refinement
`RelayImplementsOutbox`.

**TransactionalInboxProofs.** The inductive invariant adds to the checked
properties `StageInv` (the owner's stage decides what its transaction holds),
`InDoubtInv` (a transaction in doubt is whole: row and effects, or neither),
`LockInv` (locks are exclusive, only a holder has an uncommitted row, and its key
has no committed one), `ReportInv` (whoever reports success has seen the effects)
and `QuietInv` (once the drain found nobody, nobody enters). `ExactlyOnce` rests
on `LockInv`: a redelivery meets either the lock of the undecided transaction or
its committed row. Theorems: `TypeCorrect`, `ExactlyOnce`, `AcksAreEarned`,
`ClaimsNeverWait`, `LeasesAreCounted`, `DrainIsFinal`.

**ShutdownStateProofs.** For any finite set of workers and any callers,
publishers and signals. Three inductive parts: `ReadyInv` (once a shutdown has
lowered readiness, `ready` can only be true because a publisher is between its
store and its second check), `SignalInv` (who is inside the transition asked for
the signal that won, and nobody is before the first), `QuietInv` (a drain that
read zero did so behind closed admission). `CountIsExact` is inductive with the
types; its steps move one worker in or out of a finite set and the counter with
it. `ShutdownWins` needs `ReadyInv` because a publisher may store `ready` after
the shutdown lowered it. Theorems: `TypeCorrect`, `ShutdownAlwaysWins`,
`SingleTransition`, `CounterExact`, `DrainIsQuiet`.

**RelaySupervisorProofs.** For any finite set of workers. `DegradedCountMatches`
counts the workers between the two atomics of `degrade` and `recover` as the
counter does: `Counted` is a degraded worker that has already been added, or a
recovered one that has still to be subtracted. It is inductive with the types and
`FlagInv` (a worker about to be counted has a cause, one about to be discounted
has none): each of the two counter steps moves one worker in or out of that
finite set, and every other step leaves the set alone. `NoWorkerOutlivesDrain` is not, and
`StopInv` says why it holds: a task belongs to a worker of the map, the map is
closed when admission stops, so the workers cancelled when the drain begins are
all there will ever be, also for a registration or a start that was overtaken
by the whole shutdown; and the ledger carries a verdict only after the drain.
Theorems: `TypeCorrect`, `CountIsExact`, `DrainIsComplete`, and the action
property `VerdictIsFinal`.

**ShutdownCoordinatorProofs.** For any number of components in any phases and of
any kinds, any time-outs, deadline, reserve and cutoffs, any number of tasks and
of dropped executions. The inductive invariant has, beside the types, `AwaitInv`
(the closure whose future is awaited has been taken), `OnceInv` (a closure runs
only while the coordinator awaits it, and a fresh one was never invoked),
`VisitInv` (what is decided lies behind the coordinator: an earlier phase, or the
same phase above the index), `TimeInv` (the awaited deadline is one of the
execution's, the reserve lies between the two, and the graceful one bounds the
clock until the first force), `TruthInv` (a status says what happened) and
`ForceInv` (a component forced by the current execution is being forced or has a
cleanup outcome that says so, which is why a graceful report forced nothing).
`ClosuresRunOnce` needs `VisitInv` to know that a component is not visited twice
and `OnceInv` for an execution that is dropped and repeated; `ReserveIsKept`
needs `TimeInv`, whose arithmetic rests on the lemmas `ReserveFits` and
`LimitsFit` about `calculate_force_reserve` and the clamps. Theorems:
`TypeCorrect`, `NeverLate`, `ReserveSurvivesGraceful`, `ActionsAreOneShot`,
`ReportsAreTruthful`.

**QueueConsumerProofs.** For any number of messages, copies, faults, generations,
handler slots, buffer places and retries. `SettlementCases` reduces the nine steps
of a settlement to three: the delivery ends (`Ends`), moves on to an operation
(`Moves`), or the broker takes the copy of its handoff. The inductive invariant is
`TypeOK /\ DeliveryInv /\ HolderInv /\ QuietInv /\ KeptInv`. `DeliveryInv`: a
delivery that has not ended wrote no frame, and the broker has its copy unacked
or, on a lost channel, back in the queue. `HolderInv`: each delivery in the
buffer is there once, the one the receiver holds is not there, and only tasks
are marked to be aborted; without it the receiver could free what a task still
settles. `QuietInv`: a closed buffer is empty, a dispatcher that returned has no
task, and the supervisor's `returned`, on which recovery and the drain rely, is
kept until the next generation. `KeptInv` strengthens `NoMessageLost` to a copy
that is neither acknowledged nor about to be, because at the moment the ack is
applied the copy that replaces it must be one that stays. Theorems:
`TypeCorrect`, `NothingIsLost`, `SettledOnce`, `PendingIsTrue`, `DrainIsQuiet`,
and the action property `GenerationsDoNotOverlap`.

**ScopeManagerProofs.** For any IDs, any finite set of resolvers with any
lifetimes, and any number of generations, so also for IDs that are used again
and again. None of the four properties is inductive; they follow from nine parts.
`CountInv`: a scope's counter is the number of resolutions between entering and
leaving it, the provider's the number it has admitted. `ResolutionInv`: a
resolution found its generation under the ID it was asked for, and nothing is
published before its factory ends. `MapInv`: an open generation is in the map of
its ID, and one with a cleanup control reserves it. `CleanupInv`: how far a
cleanup is; a generation is closing, with its control, until its ledger is
detached or handed over, and that happens with no guard left. `LockInv`: who makes
a scoped service holds the creation lock, and nothing is cached meanwhile, so
`cache_any` never replaces an instance. `PlaceInv`: what a generation's ledger, task or
handoff holds was resolved in that generation, and what is published is in one of
these places or in the root. `NormalInv`: an open cleanup past its ledger has
disposed of everything it no longer holds. `WatchInv` and `ShutdownInv`: what
owner, observer and each stage of the shutdown have seen the end of.

A step of the proof is one action; the frame lemmas (`CountFrame` to
`ShutdownFrame`) say what each part depends on, and `ResolverKeeps`,
`ScopedKeeps`, `TaskKeeps` and `HolderKeeps` what a step of a resolution, of a
resolution inside its scope, of a cleanup task and of a disposing task can
disturb at all. The hardest steps are the ones the code comments on:
`InitializationCancelled` finds a scope by its ID, and the proof that it is the
resolution's own (`RegistrationIsOwn`) is that the guard it holds keeps the
control and so the reservation; `Finish` and `CompleteHandoff` end a cleanup from
two sides, and `HandoffInv` says that only one resolution can be on the second.
Theorems: `TypeCorrect`, `OneOwner`, `IdReserved`, `RootLast`, `ReturnsAreQuiet`.

**Only model-checked.** Every liveness property (`EveryRowSettles`,
`FailureIsObserved`, `StopCompletes`, both `ForceEndsDrain`, `FailureEndsRuntime`,
`InitiationReachesWaiter`, `SecondSignalForces`, `AlwaysReports`,
`ShutdownReturns`, `ClaimedCleanupEnds`): fairness and ENABLED are beyond the
prover. The run that shows a violation.

## 7. What the results do not say

* Atomics are sequentially consistent. The code uses Acquire and Release; the
  models interleave individual operations but do not reorder them. Two places
  depend on it: `publish_ready` stores `ready` and then loads the shutdown flag
  while `initiate_shutdown` does the opposite, and the activity guard increments
  and then loads admission while a drain seals and then loads the counter. Both
  are store-buffering shapes, where Release and Acquire alone allow each side to
  miss the other's write. What is checked and proved of them is the algorithm.
* PostgreSQL is trusted: READ COMMITTED, advisory transaction locks released
  after the commit is visible, unique-index arbitration, an abandoned session
  ended by the server at some time.
* RabbitMQ is trusted to redeliver what a closed channel leaves unsettled. A retry copy and its original may both
  be delivered when the ack of the original is lost with the channel: the model
  shows that nothing is lost, the inbox removes the duplicate.
* `TransportLossIsLocal` is about one subscription's effect on the engine;
  readiness of several subscriptions, startup and its rollback are not modelled.
* Building a container (eager singletons, rollback of a failed build) is not
  modelled; a container starts built.
* A broker confirm is trusted. What the broker does with a confirmed copy,
  and what consumers do with duplicates of other stores, is outside.
* The relay is modelled over the PostgreSQL store. The MongoDB store implements
  the same trait and is in the plan.
* The handler's writes are those made through its transaction. An effect outside
  it (an HTTP call) may repeat with every attempt.
* Deadline arithmetic is nondeterminism: the models show that nothing goes wrong
  for any timing, not that a given configuration is comfortable.
