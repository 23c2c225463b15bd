# Bridgefu: TLA+ models, checks and proofs

Bridgefu bridges two-leg calls between SIP, WebRTC, UCTP and provider networks.
Signaling and media run in the rvoip library; Bridgefu decides what a call may
do, keeps that decision in a durable repository, and drives connections,
providers, gateways and broadcasts from outboxes of effects. This project
models the decision and durability core of that system, the components that
carry the decisions out, and the processes they run in. `PROJECT.json` maps
every definition to the lines it translates.

1. [Inventory](#1-inventory)
2. [Modules](#2-modules)
3. [Runs](#3-runs)
4. [Proofs](#4-proofs)
5. [Where code and documentation part](#5-where-code-and-documentation-part)
6. [Not modelled, and what is left](#6-not-modelled-and-what-is-left)

## 1. Inventory

| Part | State it keeps | Operations | Talks to |
|---|---|---|---|
| Call aggregate (`call_engine/domain.rs`) | call state, two legs with state and binding generation, replacement, outcome, four deadlines, version | `decide` on every `CallCommand`; returns a new aggregate and effect intents | the repository commits its decisions |
| Repository (`persistence/memory.rs`, contract in `call_engine/repository.rs`, `call_service/repository.rs`) | workers and fences, calls and assignments, command ids, effect outbox, deadlines, attachments, bindings, control outbox, provider events, references, idempotency | one transaction per operation, under one lock | service and supervisor call it; the SQL backend replays the same transitions |
| SQL backend (`persistence/sql.rs`) | the same tables, a repository epoch | load, evaluate with the memory repository, write the difference, advance the epoch | PostgreSQL, SQLite |
| Call service (`call_service/service.rs`) | none of its own | create, keyed commands, bounded attachment loop, replays | API and supervisor call it |
| Execution supervisor (`call_service/execution.rs`) | one actor per call, connection index, admission queues | claim durable work, execute effects, commit follow-ups, recover after a restart | repository, rvoip, providers, private egress |
| Providers (`providers.rs`, `provider_execution.rs`) | circuit breaker, clients | dial, bridge, transfer, hang up, webhooks | webhooks become provider events |
| Coordination (`coordination/*`) | ordered outbox, projection of workers and calls, wakeups | claim, project, acknowledge | Redis |
| Broadcasts (`broadcast/*`) | command table, active broadcasts, grants | enqueue, claim, execute, revoke | worker, Redis, relay |
| Private egress (`private_egress*.rs`) | command journal, routes, lifecycle journal | prepare, activate, abort, end, acknowledge | gateway and worker |
| Gateway (`gateway_*.rs`) | pending and active route slots, pins, permits, peers | resolve attachment, open, forward, retire | Redis projection, worker |
| Process roles (`process_role.rs`, `runtime.rs`, `main.rs`, `moq_relay_role.rs`) | open components, readiness, drain state | start, observe, drain, stop | everything |
| Configuration (`config.rs`) | the loaded settings | validate, project recipes, preflight | process roles |
| API, recipes, evidence, SDK | requests, start-up files, bounded diagnostics | validate and translate | call service |

### What is hard here

* **Interleaving.** Leg reports, API commands, effect results, provider events
  and timers of one call reach the repository in any order. Each commits at an
  expected version, so what was read before may be stale when it is written.
* **Make-before-break.** A replacement holds two routes for one leg. Rejection,
  timeout, hangup and failure race its result.
* **Fencing.** A worker process may pause and wake up after its successor
  registered. Every write must be refused from then on.
* **Crash and restart.** The outbox, the claims, the timers and the attachments
  of a call move to a new incarnation, which may crash again half way.
* **At-least-once work.** Claims lapse, results are reported late or twice,
  answers of committed transactions are lost and requests are sent again.
* **Two stores.** Cache and database, gateway and journal, process and grant
  store each hold half of one fact and change one after the other.
* **Boundedness.** Capacity, permits, slots, timers and rows must all be given
  back however a call, a task or a process ends.

`PROJECT.json` lists the single hazards at their lines, with the properties
that would catch each going wrong.

### What makes each part correct

* Aggregate: the executor that follows the intents holds exactly the bridge,
  the routes and the timers the state calls for; no generation is used twice;
  an outcome, once a failure, stays one.
* Repository: only the newest incarnation writes; effects are delivered in
  order; a takeover strands nothing; capacity is exact; every call gives its
  capacity back.
* Bindings and SQL: the connection that may speak for a leg is the one of its
  current generation; what a transaction writes loads again and then decides
  as before.
* Service: one operation per idempotency key; a lost answer is replayed.
* Supervisor: every route, contact and bridge belongs to a call that wants it
  or to an operation that will end it; a replacement never cuts the
  destination before its successor is up.
* Provider events: applied once, in receipt order, and only to the generation
  they are about.
* Coordination: the outbox is drained in order, the drained cache says what the
  database says, a process never trusts its lease longer than the database.
* Broadcast and egress: publication, authority and grant go together; no native
  leg outlives what it was staged for.
* Gateway: a call is carried to one worker; what is reserved is given back.
* Roles: what validation accepts can be started, what was opened is closed, in
  an order that leaves no work without an executor.

## 2. Modules

| Module | Models | Uses |
|---|---|---|
| `CallAggregate` | `call_engine/domain.rs`: one action per command and outcome of it | |
| `CallRepository` | workers, fences, capacity, outbox, deadlines, takeover | implements `EffectDelivery` |
| `EffectDelivery` | abstract promise of the effect outbox | |
| `CallBindings` | attachments, bindings, owners, control outbox | extends `CallAggregate` |
| `StoreReload` | the load, the rows only it reads, the written difference of the SQL backend | extends `CallBindings` |
| `CallService` | keyed operations, replay, placement, attachment loop | implements `KeyedOperations` |
| `KeyedOperations` | abstract promise of an idempotency key | |
| `ProviderEvents` | provider calls, references and webhooks of one leg | |
| `Coordination` | leases in time, coordination outbox, projectors, cache | |
| `BroadcastCommands` | broadcast commands, their executor, grants, authority | |
| `LegExecution` | the actor of one call: admission, start, bridge, stop, recovery | |
| `LegReplacement` | replacement and transfer of a destination by that actor | |
| `PrivateEgress` | the gateway's private legs, their journal and the proxy | |
| `Gateway` | admission gate, ingress tasks, forwarder slots, pins and peers | |
| `Configuration` | what a process accepts, and what its constructors refuse | |
| `ProcessRoles` | start, rollback, health, drain and stop of the five roles | extends `Configuration` |

`MCCallAggregate`, `MCStoreReload`, `MCCallService`, `MCCoordination`,
`MCLegExecution`, `MCGateway` and `MCProcessRoles` give functions and scenarios
as constants and `MCProviderEvents` a `VIEW`; the other runs instantiate their
module directly.
`BroadcastCommandsProofs`, `CallRepositoryProofs`, `CallServiceProofs` (the
service, and `LegReplacement` for what its `replace_leg` sets off),
`CoordinationProofs`, `GatewayProofs`, `LegExecutionProofs`, `RemoteLegProofs`
(`ProviderEvents` and `PrivateEgress`, the legs somebody else places for
Bridgefu) and `StoreReloadProofs` (`CallAggregate`, `CallBindings` and
`StoreReload`) hold the theorems.

### CallAggregate

The variables are the fields of `CallAggregate` (`callState`, `legState`,
`binding`, `kind`, `replacement`, `due` and `deadlineGeneration`, `outcome`,
`version`) and a ledger of what an executor holds when it carries out the
intents in order: `started` routes, `stopped` routes, `bridged`, `scheduled`
timers. Every action is one command that `decide` accepts; a refused command is
the absence of a step. `Emit` turns the intents of a decision into the ledger's
change, so that a missing or superfluous intent shows up as a mismatch between
ledger and aggregate. Kinds of endpoints are reduced to `telnyx`, whose legs
attach media separately, and `other`.

### CallRepository and EffectDelivery

The aggregate is reduced to four call states and an opaque decision that emits
rows and arms timers, or is ignored: an ignored command records its identifier
and moves no version (`commit_command_in_state`). What is kept in full is the
durability protocol:
`register_worker`, `renew`, `set_worker_draining`, `create_call`,
`commit_command`, `claim_outbox`, `complete_outbox` and
`reconcile_effect_result`, `claim_due_deadlines`, `claim_restart_calls`,
`release_assignment`. Processes keep the incarnation they were started with, so
a paused process that wakes up is one that acts with an old incarnation; the
repository's guards decide. `EffectDelivery` says only: a sequence of effects
grows at its end and is finished in order, each once. `InOrderDelivery` says
that the repository implements it, mapping rows to positions.

### CallBindings and StoreReload

`CallBindings` composes the aggregate with the tables that say who may speak
for a leg. Every action is one repository transaction; those that commit a
command contain the aggregate's step for it, and `Applied` is
`retire_inactive_bindings` together with the attachments the service issues for
the decision's effects. The state read by `inspect_attachment` is kept in
`candidate` and used by a later `ConsumeAttachment`, as in the code.

`StoreReload` adds the rows that only the load of the SQL backend reads
(receipts of binds and promotions, the binding an attachment keeps, recorded
contexts) and states what `from_snapshot_at` demands of them, what it derives,
and which differences `sql.rs` can write.

### CallService and KeyedOperations

A request is a task that reads, resolves principals, asks placement, checks and
commits, each a step; the awaits between let others commit first. A repository
call may fail and its answer may be lost. `Key`s are shared and used again
after their retention period. A hangup of an ending call applies again and
re-arms its deadline; once the call has `ended` and given its worker back it is
refused. `KeyedOperations` is what a key promises:
`OneOperationPerKey` says the service implements it. Arrivals of legs run the
bounded inspect and consume loop beside.

### ProviderEvents

One provider leg and its webhooks. A provider call is identified by the binding
generation and the role (media or destination) it was dialed for; an event
carries its provider call, its kind, and what its `client_state` decodes to.
Events may arrive before the reference of their provider call is stored, when
they wait. The call is reduced to what an event's handler reads of it.
`ReconcileProviderEvent` contains the read, the follow-up and the commit, since
the commit is made at the version read and a conflict repeats the whole. A
handler that fails leaves the event claimed. Claims carry the fence of the
claimant; one that expired has fence 0. `submitting` holds the
attempts whose `ExecuteTransfer` is not reconciled: the submission succeeds, or
it fails or times out and finishes the transfer as rejected without a callback,
which may still come when the provider was reached all the same.

### Coordination

`CallRepository` treats a repository transaction as one step and a lease as held
or expired; `Coordination` looks at the time in between. `worker` and
`assignment` are the database rows, `tx` the one transaction that holds the
metadata row. `Begin` reads the database clock and decides, `AppendEvents`
stamps the outbox events with a later reading of it, `Commit` makes both
visible and may lose its answer; `Tick` may come anywhere between. `runtime` is
the renewal task of a worker process with its local deadline
`lease_valid_until`, which is polled before the renewal.

`outbox` is the ordered table, `Claim`, `Apply` and `Acknowledge` the three
calls a projector makes, each a step of its own; `batch` is what is left of its
claims. Projectors may share a name, as a restarted worker and its paused
predecessor do. `cache` holds the entry of every key with its sequence and
`Outcome` is what the cache answers (the Lua scripts and the memory coordinator
agree); `stream` holds the sequences of published wakeups. Times compare as in
the code, with one clock: the database's, which a worker's monotonic clock is
assumed to keep pace with.

### BroadcastCommands

The API enqueues start and stop commands for a worker lease; the executor of
that lease claims one at a time, publishes under a grant in the shared store and
completes the command, verifying when the answer was lost. Starts are accepted
for the current lease until its row is marked draining, which is after the
executor's shutdown: a closing executor's lease still takes them. A restarted worker
with a higher fence fails and cleans what older fences left, while the old
process may still run. `grant`, `authority` and `active` are the three places a
publication leaves traces in.

### LegExecution and LegReplacement

`LegExecution` is one call with a caller that attaches and a destination that
Bridgefu dials. `db` is the durable call as the commands leave it, `net` what
the orchestrator and Amazon hold, and in between are the actor (`actor`, `held`,
`cache`, `queue`), its one operation at a time (`op`, each await a step) and the
admission of the caller (`adm`). A claimed row whose operation returns an error
keeps its claim while the worker lives and blocks the rows behind it. A failed
bridge fails the first leg, or the one that still has a binding (`BridgeFails`).
A start whose recovery fails after the legs of the call were failed
(`RecoveryFails`) leaves the cleanup to the next one. Panics of an actor's task
(`recover_panicked_actor_work`) are not modelled.

`LegReplacement` takes an active call on: hold, dial beside, promote or abort,
or a transfer by the transport, over the orchestrator and over the private
gateway, whose answers and notices arrive late and in any order.

### PrivateEgress

One gateway process at a time, with a local replay entry, a durable claim and a
durable route per target. A transition is claimed before and completed after
the proxy does the work; the end of the source, a hangup, a lost answer and a
crash fall in between. `late` marks targets whose `Prepare` was in flight when
the source ended. One deadline covers `fail_source` and the End of every target
of a source: once it is `spent` (`DeadlinePasses`), the handler's End is skipped
for the targets in `skipped`, and
the record and the cell go all the same (see section 5).

### Gateway

Tasks are runs of an ingress connection or of an egress opener. Each opens at
most one route through reserve, peer connection, open, activate. `slots` and
`pins` are the forwarder's table, `permit`, `peerPermit`, `lease`, `pending` the
four kinds of admission. A worker's envelopes arrive at any time; the stop
drains, cancels, retires and closes in the order of the code.

### Configuration and ProcessRoles

`Configuration` states the requirements twice, as the code does: validation
before anything is opened (`Accepted`) and the constructor that needs the
setting (`RefusedLater`). `ProcessRoles` runs each role as a program: fallible
start steps, the cleanup for each failing one, the stop sequence. `todo` is what
is left of it; requests, broadcasts, dependency changes, signals and the drain
deadline interleave. `broke` is the start step that failed. What a failed start
leaves open is named once (`Abandoned`), the order of opening and closing is
checked against one relation (`Feeds`: who passes work on to whom), and the pairs
the code opens or closes the other way round are two sets, `OpenedEarly` and
`ClosedEarly`; leaving any one of these exceptions out makes the run fail. The
draining mark of the worker row may fail at any time: the row is then `unmarked`.

## 3. Runs

| Run | Question | Bounds |
|---|---|---|
| `call_aggregate` | do the intents leave exactly the right bridge, routes and timers, and is history kept? | 2 legs, 10 versions, 3 generations per binding, 2 per deadline, 3 instants |
| `call_repository` | fencing, takeover, exact capacity, timers and identifiers; in-order delivery; release | 1 worker, 1 call, 3 incarnations, 2 catalogs, 3 versions and 1 ignored command, 2 rows, 1 deadline, 2 claims |
| `store_reload` | do the rows load again and decide alike, do the connection tables agree with the aggregate? | 3 connections (symmetric), 2 incarnations, 7 versions (3 of a call that starts with a Telnyx leg), 2 generations, 1 control row |
| `provider_events` | what connects a provider leg, finishes a transfer or promotes a replacement; order of events | Telnyx leg, 2 generations, 2 transfer attempts, 2 incarnations, 3 events |
| `coordination` | order of the outbox, local and durable leases, refused events, exact cache, convergence | 1 worker, 1 call, 2 projectors of one name, lease 1, 3 instants, 5 events, 1 fault, 1 flush |
| `broadcast` | grant, authority and publication; who may reopen a deleted broadcast; do DELETEs finish? | 1 broadcast, 2 fences, 1 active, 2 grants, 2 faults, lost answers of claim and complete |
| `leg_execution` | does every route belong to its call, do ended calls release, do active calls bridge? | a gated Amazon plan and a parallel SIP plan, 1 trouble |
| `leg_replacement` | is the destination never cut, is at most one left, do active calls resume? | 2 attempts, both kinds of route, 1 lost party |
| `call_service` | one operation per key, replay of lost answers, loadable receipts, retried races | 1 key, 2 requests over 5 operations, 2 periods, 4 versions, 1 fault |
| `private_egress` | are legs, records, permits and durable routes accounted for, do hangups retire their route? | 1 target, 2 epochs, 1 fault, 2 sends |
| `gateway` | one worker per call, nothing served after its end, nothing kept, complete stop | 2 tasks, 2 workers, 2 keys of one call, limits of 2 |
| `process_roles` | accepted is usable, exits release, order of components, must-stop stops | 9 deployments with every pair of changes, 2 requests, 1 broadcast |

All runs pass. Every property has a mutant, a plausible bug in one mapped
definition, that its run refutes.

The runs but `gateway` use `CHECK_DEADLOCK FALSE`, because a finished call, or
one at its bound, may rest; where something must happen a liveness property
says so. `store_reload` has a `VIEW` without the executor's ledger, which
decides nothing there, and `provider_events` one without what neither an action
nor a property reads again: the claimant of an applied event, the submission of
a finished transfer, the counters of a call that ends.

Why the bounds are enough: every protocol step involves at most two
generations of one thing (the current and the pending binding, the armed and
the cancelled timer, the old and the new incarnation), and a third value, where
it is affordable, lets a stale one survive two changes. Eight to ten commands
are enough for setup, connect, hold or transfer, replacement, its result or
timeout, and a teardown. For the eleven components with proofs the bounds only
limit what TLC shows of liveness: the safety properties are theorems for every
value of them.

### Fairness

* `call_repository`: a stopped worker is registered again, and for each call
  some of its due work is done: `claim_durable_work` runs on every wakeup and
  on a fallback interval, claims lapse (`WORK_CLAIM_TTL`). Which work is not
  assumed; nothing is assumed about peers, callers or paused processes.
* `coordination`: each call a projector makes (`run_coordination_projector` is a
  loop that only sleeps between them) and the lapse of claims. Failing calls
  and claims that lapse under work are bounded by `MaxFaults`: a projector that
  is slower than its claims for ever makes no progress in the code either.
* `broadcast`: the executor's task, the retry of a failed revocation, the lapse
  of a claim, and the start of a worker that went down.
* `leg_execution`, `leg_replacement`: one condition on all steps of the actor,
  its operation, the supervisor and the timers. No step leads back to an
  earlier state, so that one weak fairness condition is enough; hangups,
  crashes and clients need not happen.
* `call_service`: a server finishes a request it took.
* `gateway`: what the runtime's own tasks do (`Progress`), not what peers,
  workers and clients do. `private_egress`: the tasks of the gateway, its
  delivery loop and the end of a source.
* `process_roles`: the program's next step, the observation of a dependency,
  a signal or the end of the HTTP task once it is there, and the drain deadline.

## 4. Proofs

Every theorem below holds for every value of the constants that satisfies the
named assumptions of its module (`ASSUME ...Assumption`): sets of workers,
calls, legs, keys, tasks and projectors are arbitrary (finite where the code
counts them), limits are naturals, and the bounds of section 3 are arbitrary
naturals too. TLC evaluates the assumptions on every run, and checked every
inductive invariant on the runs' instances before it was proved.

| Module | Theorem | States |
|---|---|---|
| `BroadcastCommandsProofs` | `InvCorrect` | the inductive invariant and the types |
| | `AuthorityCorrect` | `AuthorityIsSettled` |
| | `ReopenCorrect` | the action property `OnlyReclaimsReopen` |
| `CallRepositoryProofs` | `Invariance`, `TypeCorrect` | |
| | `StoreCorrect` | `StoreIsConsistent` |
| | `NewestCorrect` | the action property `OnlyTheNewestWrites` |
| | `DeliveryCorrect` | `InOrderDelivery`: the repository implements `EffectDelivery` |
| `CallServiceProofs`, service | `Invariance`, `TypeCorrect` | |
| | `ReplayCorrect`, `LoadCorrect`, `RacesCorrect` | `LostAnswersReplay`, `ReceiptsLoad`, `RacesAreRetried` |
| | `KeyedCorrect` | `OneOperationPerKey`: the service implements `KeyedOperations` |
| `CallServiceProofs`, replacement | `ReplInvariance`, `ReplTypeCorrect` | |
| | `MakeBeforeBreakCorrect` | `MakeBeforeBreak` |
| `CoordinationProofs` | `Invariance`, `TypeCorrect`, `CacheCorrect` | `CacheFollowsDatabase` |
| `GatewayProofs` | `Invariance`, `TypeCorrect`, `OneWorkerCorrect` | `OneWorkerPerCall` |
| | `KeptInvariance`, `NothingKeptCorrect`, `EndedSetupCorrect` | `NothingIsKept`, `EndedSetupIsNotServed`, for any number of tasks of one route key |
| `LegExecutionProofs` | `Invariance`, `TypeCorrect`, `RoutesCorrect` | `RoutesFollowTheirCall` |
| `RemoteLegProofs`, provider events | `Invariance`, `TypeCorrect`, `OrderCorrect`, `ProvenCorrect`, `EndCorrect` | `EventsInOrder`, `ProviderLegIsProven`, `ProviderEndIsFinal` |
| | `TransferCorrect` | the action property `TransfersNeedTheirCallback` |
| `RemoteLegProofs`, private egress | `EgressInvariance`, `EgressTypeCorrect` | |
| | `NothingLeftCorrect`, `RoutesAccountedCorrect` | `NothingIsLeftBehind`, `RoutesAreAccountedFor` |
| `StoreReloadProofs`, aggregate | `Invariance`, `TypeCorrect` | |
| | `BridgeCorrect`, `RoutesCorrect`, `DeadlinesCorrect` | `BridgeMatchesCall`, `RoutesMatchLegs`, `DeadlinesHold` |
| | `HistoryCorrect` | the action property `HistoryIsKept` |
| `StoreReloadProofs`, store | `StoreInvariance`, `HistoryInvariance`, `RowsInvariance` | the inductive invariants |
| | `TablesCorrect` | `TablesAgree` |
| | `ReloadCorrect` | `ReloadDecidesAlike` |
| | `TransactionsCorrect` | the action property `TransactionsPersist` |

None of the properties is inductive alone. The arguments:

**CallAggregate.** `IInv` adds what `validate` in the code checks after every
decision (`Validate`), and three facts the code relies on without checking:
`OneReplacement` (at most one replacement, and it belongs to a transferring
call), `GenerationsAreReserved` (every generation ever started is at most the
leg's cursor, so the next one is fresh) and `LiveRoutesNotStopped` (without it
`StartLeg` after a rotation could restart a stopped route). One lemma per
action; lemmas about `Named` and `Emit` reduce effect sets to the four ledgers.
`HistoryIsKept` follows from the invariant: what a decision starts is above the
cursor, so it is in neither ledger; what it stops is the current or the pending
generation, which `LiveRoutesNotStopped` has not stopped yet; and only the first
teardown of a call sets the outcome.

**CallRepository.** `RowsOK`: a row that was claimed or finished comes after
finished rows only, and an unfinished row carries the lease of its call. So a
claimed row is the oldest unfinished one, and a takeover, which rewrites the
unfinished rows, strands none. `TimersOK`: only the armed generation of a
deadline can still fire. The command identifiers of a call are finite and as
many as its versions, since every commit uses a fresh one; the live calls of a
worker are finite and as many as `reserved_calls`. Each step is then shown to be
`Silent` (it moves no version and finishes no row) or `Wrote(c, n)` (the newest
incarnation of the owner advanced call `c` and emitted `n` rows, finishing at
most the oldest unfinished one). `OnlyTheNewestWrites` and the refinement of
`EffectDelivery` are both read off this case distinction.

**CallService.** Results are numbered; a receipt agrees with the result made in
its transaction; what was made in this retention period has exactly one live
receipt; a command whose receipt was replaced or retired has its claim. A
request sent after its operation committed (`late`) finds the receipt in its
preflight, before its own transaction, whatever happened to the call, hence
`LostAnswersReplay`. Every lost race of an arrival is a version of the call
counted since it began. For the refinement, a step either makes one result for
a key that had none this period, replays the one there, ends the period, or
touches neither.

**Coordination.** The outbox is the history of the authority: the last event of
a key is its current row, and each snapshot of a worker or call follows the one
before it in sequence, fence and expiry. A cache that lost nothing holds, for
every key, the snapshot before the first event of any batch that names it;
under a held claim everything before the batch is applied or in it. Then no
event is refused and a drained cache is exact. A process counts its local lease
from the start of the attempt that got it, which is not after the database
read its clock, so the local lease ends first; `reserved_calls` counts the
assignments and cannot drop below zero.

**Gateway.** Slot and pin move together in `reserve`, `activate`, rollback and
retirement: the count of a call's pin is the number of its slots, all of which
go to the pin's worker. The proof reduces the steps to those that leave the
table alone and five operations on it. What a task holds (`KeptInv`) is stated
task by task, whether or not others have the same route key: its route is in the
slot exactly while it has its permits and was not evicted (`HoldsInv`), a route
that was retired is closed (`ClosedInv`), a route that is to end and is still in
its slot has a retirement under way (`SpawnedInv`), and a session that ended is
neither pending nor served by an open route (`OverInv`). A rollback and a
retirement go by key (`gateway_forwarding.rs:4350`, 4363). A retirement that
meets the route of another task of the key closes it, which keeps the invariant;
a rollback removes it without closing it, and the history variable `evicted`
records that. It is the one exception of the properties, and MCGateway's two
native attachments of one leg reach it. Broadcast routes have a fresh leg of their
own (5043) and egress keys carry the binding generation (4935); only attachments
to one public leg share a key.

**LegExecution.** Commands do few things to the durable call (`Follows`: legs
only progress, an ending call asks every leg to stop) and few steps bring a
route to life (`Calms` says of the others that they do not). The claimed row is
in one place, the actor's queue or its operation, so the check a start made of
its caller still holds when it dials four steps later. Every step is one of
four shapes: the actor stays, is born, moves its operation, or ends.

**LegReplacement.** `MakeBeforeBreak` speaks of routes; what keeps it true is in
rows nobody has read yet. `EndsInv`: while the call is alive, every open route
beside the current one has its stop or abort still to be read, or is the
replacement that is wanted. Such a row never names the current generation
(`RowOK`), and a claimed row is in one place (`ClaimInv`), so that executing it
ends what it was written for. The operation works with copies of the bindings,
which may be older than the call: `CopyInv` says how far, `DialInv` that a dial
under way is still the wanted one or the call is ending, and `FreshInv`, with
the order of the starts (`StartsRise`), that a start to come finds no route of
its generation. `HoldInv` is who owns the open routes, and `CutInv` extends the
first half of the property to the destination being dialled: a route ended
before its promotion must not become the current one. Most steps only let
routes fade and calls close (`FadeStep`), or take an operation one step on
(`OpStep`); promotion, rejection and the start of an attempt are argued singly.

**ProviderEvents.** `Phases` (a pending replacement belongs to a transferring
call with a held leg and is a younger generation), `DialsAreReserved` (provider
calls, so events, exist only for reserved generations, hence a new replacement
starts without an end), `PendingIsAlive`, `CompletionsAreApplied`. Every step is
reduced to a step of the call and a step of the events.

**BroadcastCommands.** A row has one start, claimed no later than its stop, and
all its commands carry the fence of the row (`CommandsInv`); a claim an executor
has in hand is the command of its id (`ClaimsInv`). What runs belongs to the
lease of its row, and its start is finished or is the command being settled
(`ActiveInv`, `ResultInv`), so a start never finds its publication running. A
grant generation is issued once and to one broadcast (`UniqueInv`). A recorded
generation that no longer runs in the live lease of its row is revoked, waits
for the retry, or was lost (`RevokedInv`), and an active grant is recorded, held
or lost (`GrantInv`); the two together let a completion drop the grant from its
hand. `ReopenCorrect` needs that the first claim of a start still has an open
row. Most steps are shown to be quiet for these facts; the others move one
generation of one broadcast.

**PrivateEgress.** The invariant is one conjunct per target (`TargetInv`), since
a step touches one target. A permit belongs to the Prepare under way or to the
record (`PermitInv`); the proxy has a leg only for a Prepare that was neither
refused nor failed (`NativeInv`), and a leg without a record is a Prepare's
under way, or late, or one whose End was skipped (`CellInv`); after `fail_source` a target that is not late has
no Prepare in flight and its record is gone once `end_source_until` came to it
(`EndInv`). While the source is up the pending transition is the one of the
command that works, starting from the state the record has (`WorkInv`). Between
the commit of a transition in the store and its second lock of the record
nothing else is claimed, and only a hangup can have come in between
(`CommitInv`): that is what `execute_once` has to look for before it writes the
record.

**StoreReload.** Every transaction is a step of `CallBindings`, and contains at
most one of the aggregate, so `IInv` carries over. `BInv` adds to `TablesAgree`
that a route has one owner, that an owner which is not bound came with the
provider attachment of the pending generation (`ParallelOwners`), that kinds
change with a promotion only, and that what `inspect_attachment` found still
holds while the version it read is the call's (`CandidatesHold`, why comparing
versions is enough in `consume_attachment`). A decision is `Steady` unless it
promotes a replacement: it brings no leg but the reporting one to be heard and
starts nothing while a replacement is pending. The load reads rows that outlive
their binding, so `HInv` is about everything ever attached, bound or promoted: a
connection names one route for ever, a route has had one connection (a binding
generation is never used again, `NextMoves`), an attachment row is issued with
the start of its route and stays consumed, and what is owned is remembered. Then
the owners the load rebuilds are the bound and the attached connections, and the
ones memory had forgotten have a consumed row, which nothing may use. Writing
back needs the primary keys of every table (`KeysAreUnique`, from `HInv`), and
that no operation takes a row away or retires a control effect of a live binding
(`Persists`). `ProviderLegsAssumption`: a leg that starts with a provider is
signaled by Bridgefu (`LegEndpoint::worker_capability`, `call_service/model.rs:482`).
`ReloadDecidesAlike` states the one case that does not load (section 5, the Telnyx
binding kept by an attachment): a Bridgefu-signaled binding without a receipt is
that of an attached Telnyx leg (`BindsHaveReceipts`). The theorem holds for calls
with and without such a leg, and the run follows both.

What stays with TLC, and why:

* Liveness (`CallsRelease`, `BacklogConverges`, `EndedCallsRelease`,
  `ActiveCallsBridge`, `ActiveCallsResume`, `StopLeavesNothing`,
  `HangupsRetireTheirRoute`, `DeletesFinishUnlessOvertaken`,
  `StopsWhenItMust`): the prover has no rules for fairness and `ENABLED`.
* `AcceptedIsUsable`, `ExitsRelease` and `OrderHolds` are about the concrete
  programs of five roles and a concrete set of settings: exhaustive evaluation
  covers the programs, and nothing in them ranges over an unbounded constant.

## 5. Where code and documentation part

Facts met while modelling. The models behave as the code does; where a property
needs an exception for one of them, its comment says so. Paths are relative to
`src/src/` unless they name a document.

*Calls.*

* A `call.bridged` of a call that ended before the event was claimed finds no
  binding (`persistence/memory.rs:7172`): it and its followers are never
  acknowledged, and keep the worker's route catalog pinned. An event with a
  foreign `client_state` fails its handler on every claim
  (`call_service/execution.rs:13553`).
* `work_is_ready` holds the StartLeg of an ending call back
  (`execution.rs:5194`), though the comment at 5190 says it runs.
* A DELETE during StartLeg leaves the row claimed until the ending deadline.
  `fail_unowned_proven_admission` (3396) and the path of an undelivered receipt
  (2441-2545) set no ending deadline and do not tell a running actor.
* A replacement's start row that is executed after the transfer deadline or an
  end of the call is a `StaleClaim` (12116-12139): it keeps its claim for
  `WORK_CLAIM_TTL`, a day, and blocks the Abort and Bridge behind it. The call
  is then active without media, unlike `docs/product-overview.md:16-17`. A
  pending binding whose route failed without an event stays pending and rejects
  later attempts (12039-12062); a promoted private route whose end is handled
  before `finish_work_operation` installs it is dropped (6322).
* A Telnyx binding kept by an attachment does not load again under SQL
  (`memory.rs:2571`, 1108), unlike `docs/repository-backends.md:3`.

*Coordination and broadcasts.*

* After a flush, a projector that outlived its claim can write an old worker
  snapshot back; the cache then refuses the next renewal of that lease
  (`coordination/memory.rs:270`), and nothing behind it is projected until the
  entry expires, though `docs/roadmap.md:1095` says an ordered backlog always
  converges.
* A start whose committed answer was lost and whose row a DELETE moved on is
  retried without end (`broadcast/command_executor.rs:915`). A start whose
  claim answer was lost can run after its stop and reopen a deleted broadcast
  (`command_executor.rs:517`), unlike `docs/roadmap.md:4214`.
* `create_broadcast` checks capacity before two awaits (`api.rs`, about 1518):
  concurrent creates can exceed `broadcast.max_active`.

*Private egress and gateway.*

* A Prepare in flight when the source ends leaves the proxy's route
  (`private_egress.rs:1447`, comment at 1387). A `fail_source` that times out, or
  an earlier End, may spend the one deadline of `end_source_until` (1393, 1415):
  the handler's End is then skipped, the record and cell are removed (1466-1489)
  and the proxy's route stays. The digest of a command covers
  `issued_at`, so a command that is issued anew is a conflict. Abort is refused
  after Activate, End while a transition is pending.
* A cancelled broadcast or egress opener keeps its pending slot and pin until
  the stop; an egress opener cancelled after the retirement leaves its slot.
  A late failure or close retires by key and can meet a successor. With three
  attachments of one leg the permits of the third can be lost: the first's
  second retirement removes the second's reservation, the third reserves and
  activates, and the second's failed activation rolls the third's slot back
  (`gateway_forwarding.rs:4350`). Two openers of one key that outlive the
  retirement of all routes do the same to each other. The evicted route is out of
  reach of every retirement by key and its pumps hold it, so it keeps its permits
  and serves a session that ended: the exception `evicted` of the three
  properties. An end
  between `StreamOpened` and the insertion into `routes_by_wire` is lost for
  broadcast and egress routes. A cleanup that is aborted is not resumed, because
  `cleaned` is set first.
* `GatewayRoleRuntime::shutdown`'s `wait_idle` can use the whole budget
  (`process_role.rs`, about 1528).

*Processes.*

* A failed UCTP bind in recipe mode returns without shutting the generic
  runtime down (`main.rs`, about 1076); recipe mode closes local broadcasts and
  the media runtime before the requests in flight finish (1121-1146, comment at
  `api.rs:656`). A failed expert start leaves the legacy SIP server bound (600),
  and a failed profile pool, or evidence policy of a later profile, drops the
  profile stacks that are open without a shutdown (`runtime.rs:496`, 547;
  `gateway_native_ingress.rs:440`).
* The gateway closes its forwarder before the native edge whose routes use it
  (`process_role.rs:1087-1101`), the worker closes execution, the Amazon adapter
  and the broadcasts before the forwarding that feeds them (2641-2670).
* The draining mark is one bounded write (`call_service/runtime.rs:682`): an error
  loses it, the worker's rollbacks ignore that (`process_role.rs:2532`, 2566,
  2592), and a failed start whose cleanup exceeds its two seconds drops the
  rest of the cleanup, mark included (2421).
* All-in-one modes observe neither lease loss nor, in expert mode, the failure
  of the HTTP task; start errors after the row was registered leave it active
  until its lease expires. An aborted HTTP task leaves connection tasks that
  hold the call runtime, so the row is not drained (`main.rs:1165`,
  `process_role.rs:1966`).
* A draining split worker's row stays active until the last stop step
  (`call_service/runtime.rs:676`), unlike `docs/architecture.md:84`; a split worker runs
  without the Amazon journal (`process_role.rs:2276`, comment
  `amazon_cleanup.rs:3`).
* The relay's failed drain returns with its health still "draining"
  (`moq_relay_role.rs:384`).

## 6. Not modelled, and what is left

Not modelled: parsing of configuration, tokens and webhooks, recipe manifests
and their compiler, request and view types, media packets and codecs, row
codecs, metrics and evidence (no protocol state of their own), the rate limiter's
buckets, the circuit breaker of the provider clients, and the TypeScript SDK (a
client). External and modelled from their use only: rvoip's orchestrator and
adapters, the Amazon adapter, Redis and the SQL engines.

Left: the consumer groups of the wakeup streams, beside `Coordination`.
