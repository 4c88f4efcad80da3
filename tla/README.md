# TLA+ verification of party-stack

This directory specifies and checks the concurrent core of the repository (a framework for
offline-first applications: a live ontology over backend adapters, with a durable outbox,
coordination between browser tabs, a blob cache and user connections) and the rules by which
its adapters, its schema language and its expressions work. Paths below are relative to `src/`,
the root of the repository. `PROJECT.json` lists, definition by definition, the lines that each
definition stands for.

    tlc -workers 2 -config MCClient.cfg MCClient            model-check one run
    tlapm OutboxProofs.tla                                  check the proofs of a module

1. The system: components, state, interactions, hard behaviours
2. The modules, and how they correspond to the code
3. The runs: bounds, fairness, what they show
4. The proofs
5. Disagreements between code and documents, and other behaviours the models show
6. What is not modelled, and the plan

## 1. The system

| component | code | state it keeps | operations |
|---|---|---|---|
| outbox | `packages/ontology/src/live/outbox/` | a persisted table of entries ordered by `sequence` (status queued, executing, failed; attempts; `executionId`; `nextAttemptAt`; error), per tab the promises of its completions, an executor in the leader | enqueue, edit, remove, retry, claimNext, complete, fail, discardAll, nextRetryAt, recover |
| projections | `.../outbox/projectionManager.ts` | optimistic effects of pending entries, their fingerprints, a tail of scheduled work | reconcile, ensure, discard, disable, dispose |
| live ontology | `packages/ontology/src/live/LiveOntology.ts` | its parts (runtime, outbox, blobs, backend, collections), readiness, calls under way | start, call an action, clean up, destroy |
| attachments of actions | `packages/ontology/src/live/actions/` | per attempt what is stored, uploaded or bound | prepare, apply, bind, store eagerly |
| schema, expressions | `packages/ontology/src/ir/`, `.../live/expression.ts`, `.../live/actions/` | none: pure functions | validate, resolve types and links, evaluate, complete parameters |
| service lanes | `packages/coordination/src/host-core.ts` | per service a lane (one handler at a time), accepted calls, reentrant calls of a running handler | serve, call, abort, close |
| lock and broadcast coordination | `.../LockBroadcastCoordination.ts` | who holds the web lock, per caller its pending requests, per leader the requests it answered | call, retry to the next leader, cancel, elect, run as leader, close |
| shared worker coordination | `.../shared-worker/` | connections with handshakes, message ports, pending requests | hello, request, cancel, answer, publish, disconnect, close |
| blobs | `packages/blobs/src/` | records (state, pending operation, local and remote ids), a byte store, operations under way | stage, bind, read, metadata, cache, recover, collect garbage |
| OAuth client | `packages/oauth/src/` | a session record and its secret, tokens in each tab's memory, pending sign-in flows | sign in, complete a redirect, refresh, get an access token, revoke, restore |
| connection manager | `packages/connections/src/` | the persisted connection, per tab a live session, a refresh loop in the leader | connect, disconnect, forget, report, refresh, close |
| backend installation | `packages/ontology/src/installation/` | live ontologies per user and ontology, openings under way, records of local partitions | open, close, disconnect, forget, cleanup |
| persisted collection coordinator | `packages/runtime/src/coordinator/` | the stream position of a collection, relays that wait, envelopes already seen | apply mutations, announce, relay |
| IndexedDB persistence | `packages/db-indexeddb-persistence/src/` | rows with versions, indexes, the position of each collection | apply a committed transaction, plan and answer a query |
| SQLite ontology, durable object | `packages/sqlite-ontology/src/`, `packages/durable-object-ontology/src/` | rows in transactions; a journal of uploads and orphans, bytes in an external store | apply an action, upload, collect, recover, destroy |
| remote ontology | `packages/remote-ontology/src/` | a client's loaded objects, the policy of a server | describe, load, resolve, apply, invalidate |
| Foundry | `packages/foundry-ontology/src/`, `packages/foundry-object-set-watcher/src/` | rows with a durable cursor into the edit history; shared subscriptions over a websocket | follow edits, refresh, load, await an operation; subscribe, reconnect |
| Salesforce, better-auth, HTTP retries | `packages/*` of these names | adapters to remote services | requests and data mapping |
| runtimes, generators, devtools, samples | `packages/*-runtime`, `.../generate`, `apps`, `old` | none of their own | platform bindings, text generation, interface |

**How they interact.** Every tab (a *context*) runs the same code. Coordination elects one
leader; calls to a service are executed by the leader's lane for that service, wherever they
come from. The outbox is such a service plus an executor that the leader runs; the blob
manager is one whose host alone changes records; the OAuth client refreshes through one; a
persisted collection stores its mutations through one; the connection manager runs its refresh
loop as leader work. The outbox reads the connection's state to know whether it may send, the
projections show what it will do, and a live ontology starts and ends all of them. The
installation opens and closes live ontologies with the connections of their users. Backends
(SQLite, a remote server, Foundry) execute the actions that the outbox sends, with their
attachments, and tell collections what changed.

**What is hard here**: tabs that close between two writes; a leader that dies with calls in
flight, which their callers repeat; handlers of the leader that keep running after the lock
moved on; state that is read before an `await` and used after it; results that arrive after
the thing they are about was replaced; several steps of which one fails; two stores that no one
transaction covers; retries of what was already done at the backend. `PROJECT.json` lists each
such hazard at its line, with the properties that would notice.

**What makes each part correct**, and therefore what is checked:

* outbox: it is a first-in first-out queue; only its head executes and nothing overtakes it;
  a claim is not changed under the executor; an accepted write is not lost; a completion means
  that the action was applied, and every completion settles; the executor misses no wake-up.
* projections: what is shown follows the outbox, in its order, and not beyond its life.
* live ontology: what keeps its state in the runtime ends before it, and whatever is awaited settles.
* lanes: handlers of one service do not overlap unless nested; accepted calls run in order;
  what was rejected does not run; no chain of calls blocks itself.
* coordination: a request is served under the lock, once per leader, and settles; through the
  shared worker nothing runs for a client that is gone, and events arrive before the answers
  that may depend on them.
* persisted collection and indexes: rows, positions and announcements agree, whoever leads; a query
  that runs on indexes misses no row.
* blobs: the only copy of bytes is never deleted; a committed record has bytes; nothing stays
  pending.
* OAuth: no token that the server accepts is thrown away; what is secret stays listed, so
  that it is found and removed again.
* connections: a session in use was not cleaned up, none leaks, an active connection is
  usable, one that is due is refreshed.
* installation: no live ontology and no local data is lost sight of, and calls that end something
  have ended it when they return.
* SQLite: linked bytes stay, others have an owner, and destruction leaves none.
* schema, expressions, remote ontology: what the validator accepts has a value at run time, also
  behind a policy that hides parts of it, and client and server agree on it.
* Foundry: no edit is passed over, and after everything under way the collection holds what
  Foundry holds; every consumer that was told its object set is open was told of its last change.
* attachments: they arrive before, and are found after, the action that refers to them.

## 2. The modules

An `MC*` module gives constants their values; a `*Proofs` module holds the theorems of the
components it extends. Operators marked `Mutant:` are deliberately wrong variants of the definition
that follows them; they are never part of a specification and show that a property notices.
In all modules the disruptions of a behaviour (crashes, faults, timeouts, changes of leader)
are bounded, and counted in a variable (`spent`, `mishaps`, `incidents`, `trouble`).

Where an instance should meet several situations that do not mix (a strategy, which operations
are called, which disruptions happen), the initial state chooses one of a constant set and a
variable that never changes remembers it: `setting` in `Outbox`, `Blobs` and `Connections`,
`scenario` in `RemoteOntology`, `plan` in `SQLiteOntology`, `course` in `Installation`, `way` in
`FoundryCollection`, `plot` in `ObjectSetWatcher`, `setup` in `ActionExecution`, `manner` in
`LiveOntology`. Theorems hold for every such set.

### OutboxRepository, Outbox, OutboxQueue

`OutboxRepository` holds the pure part of `repository.ts`: which entry is the head, whether it
can be claimed, what claiming, rescheduling, failing, discarding and recovering do to the
table. `Outbox` is the service around it (`createOntologyOutbox.ts`) with its clients and
executor. `box` is the persisted table. `call[c]` is the call a client awaits, `promise[c][id]`
its completion, `inbox[c]` the result events on their way to it. `lane[h]` is the lane of host
`h`, busy between a handler's persisted effect and `Post`, which publishes its events and its
answer, so that a crash may fall in between. The executor is `pc`, `claim`, `effect`, `outcome`
and `wake` (one buffered wake-up). `applied` counts executions at the backend and serves the
properties only.

Decisions: payloads are dropped; `nextAttemptAt` becomes a flag `due`; a handled call whose host
crashes is sent again to the next host, so an enqueue may be done twice. `Crash` ends a
context; `LoseLeadership` ends only its term. The error that a projection cannot be restored is
read by the repository but written by no code, and is absent.

`OutboxQueue` is the abstract specification: actions that wait, in an order, of which only the
first is executed. It is stated over the set of waiting actions and the pairs of which one comes
before the other, so that the refinement needs no sorted sequence and can be proved.

### Projections

`projectionManager.ts` in one context, beside a leader that changes the table: commits reach the
replica, answers and results reach the client, each in its own time. Works run one after another;
projecting an entry takes time and may fail, which disables the manager. `overlay` is the list of
transactions that are shown. Sorting and filtering are stated by the positions that are left, in
ascending order (`Ascending`, `Without`), so that no list is built recursively and the module can be
proved about.

### LiveOntology

The start of the outbox and the blobs, the readiness of collections, direct and queued calls, and
the cleanup (`teardown` is what it waits for), which may be asked for at any step. The parts are
modules of their own and appear here as up, failed or down.

### ServiceLanes

`host-core.ts`. A call waits, runs, and ends; its handler may call further services (`Uses`
says which) and awaits what it calls. A call to a service whose handler is an ancestor of the
caller is reentrant and runs nested. Aborting a call that waits removes it; aborting one that runs
only rejects its caller: the handler goes on. Handlers are assumed to await their nested calls
and to return; they may ignore an abort, as the code passes a signal and nothing more.

### LockBroadcast

`LockBroadcastCoordination.ts` over `host-core.ts`. Nodes compete for a web lock; a caller publishes
its request, the leader dedupes and executes it through its lane and broadcasts the answer;
when nobody answers in time the caller publishes again. Messages are sets of requests on
their way, since a BroadcastChannel does not lose them but a node that is not leading ignores
them. On closing, the term's body ends before the child that holds the lock is halted, which
is the order in which Effection unwinds it. Events, protocol mismatches and the eviction of
answered requests (after 1000, or 30 s) are not modelled.

### SharedWorker

The other transport. Ports are queues in both directions (`up`, `down`); a port that closes tells
its peer with a last message. A client says hello, the host answers with a welcome or a refusal,
requests wait for the welcome. What a request does is a handler, which may run for ever. `fits` is
the set of clients that speak the host's protocol. `since` and `got` remember what a client was
sent and has seen; they serve the properties.

### PersistedCollection, IndexEntries, IndexPlans, IndexedQueries

`createPersistedCollectionCoordinator.ts` over the IndexedDB adapter. Requests come through the
coordination, which may deliver one again to the same leader or the next. `stored` is the database
with its stream position and indexes, `position` what each leader remembers of it, `answered` its
memory of answers. The rows that a log of commits amounts to (`Folded`) are stated by the last writer
of each. `IndexEntries` holds the keys of indexed values and what is kept up to date with every commit;
`IndexPlans` the plan for a predicate, recursive as predicates are, with the predicate itself as the
reference; `IndexedQueries` relates the two over the states of the collection.

### Blobs

`createBlobManager.ts`, `createBlobStore.ts`, `collectBlobGarbage.ts` and the byte store of the web
runtime (opening a file for writing creates it empty, closing replaces its content, a failed
write discards it). `setting.boundFirst` picks which of two records a query for one returns.
Recovery is the first work of every term. A conflict or a failed deletion in a collection stops the
blob service of that host. A crash of the host drops undelivered answers; callers repeat their calls.

### SQLiteOntology

The SQLite adapter with the byte stores of `durable-object-ontology`. An application shows its
changes by an optimistic transaction, uploads under keys of its own that are journaled first, and
commits in one SQL transaction; collectors visit pages of the journal. `late` are bytes that
arrive after their upload was given up.

### OAuth

`createPublicOAuthClient.ts`: one user, several tabs. `stored` and `row` are the secret and the
record, `cached` the tokens in each tab's memory; refreshes run in the leader's lane (`Lane`)
one at a time, everything else in the tab that asks. Token sets are numbered in the order they
were issued; the server rotates refresh tokens. `Restart(c)` is a reload at any point, with the
restoration and the cleaning of old flows that the next page does. Token contents and PKCE
are abstracted.

### Connections

`createConnectionManager.ts`: one user, several tabs. Actor `c` is the refresh loop of context
`c`; the other actors call its manager. A status write takes effect when it is issued, as the
local collection persists in order, and the awaiting operation resumes later (`Establish`, then
`Settle` or `Rollback`). A refresh under way is not stopped by a disconnect, a handover or
`cleanup`, since nothing in the code stops it. Handles of sessions that were cleaned up and are
no longer held are used again, which keeps `MaxSession` from cutting behaviours short.

### Installation

`createOntologyBackendInstallation.ts` in one context. `live` is the cache of live ontologies,
`opening` the openings under way, `recorded` and `data` the partitions; a call that ends something
works on several keys at once (`part[q][k]`, `holds[q][k]`). `course.careful` says that the
application opens nothing for a user whom a call is ending.

### OntologyIR, Expressions, Projection, RemoteOntology

`OntologyIR` is the schema language with `validate()`, `Expressions` what expressions evaluate to and
how parameters are completed, `Projection` what a server shows of an ontology under a policy. They
are operators, recursive where the code is. `RemoteOntology` composes them into a client and a
server that resolve and apply one action while others write.

### FoundryCollection, ObjectSetWatcher, Attachments, ActionExecution

`FoundryCollection` is the collection of one object type: the edit history as a sequence, a durable
cursor, pages, full refreshes, and the watcher's messages. `ObjectSetWatcher` is the watcher itself:
subscriptions shared by consumers over a session that reconnects and whose server answers with new
ids. `ActionExecution` is one action with attachments over three kinds of backend, with retries: a
machine over the uses of attachments that were collected from the parameters (`setup.uses`) and those
that the parameters refer to (`setup.referred`). `Attachments` holds the walk over parameters and their
types that collects them, recursive as the types are; the run's setups are made by it. What is asserted
of the bound ids is for parameters that use an attachment for one kind of target (`OneKind`), as the
first use decides how it is stored.

## 3. The runs

`CHECK_DEADLOCK FALSE` is set where the supply of actions, calls, tokens and disruptions is
finite and the system rightly comes to rest; liveness properties say that it rests only where
it should.

**Several components in one run.** A run asks one question of each of several components that share
no state. Its module extends all of them; a variable `focus`, chosen initially, says which one a behaviour
is about, the others keep their initial state. So a run has the sum of its components' states and not
their product. The properties are the components' own definitions, the ones that section 4 proves;
`StateTyped` is the conjunction of their type invariants.

### Runs that pass

| run (module) | checks | components, bounds and what they let happen |
|---|---|---|
| `outbox` (`MCLeader`) | `StateTyped`, `ExecutingIsHead`, `ClaimIsCurrent`, `ClientsCanRely`, `RunsBounded`, `ImplementsQueue`, `WritesAreKept`; `StorageIsListed`, `LiveSessionIsKept` | *Outbox*: two contexts, two entries; discard-all with one retry, a crash and a timed-out call (an enqueue that is repeated, a crash between effect and answer, a discard of both entries), or pause with a client's edit, removal or retry and a handover during an execution. *OAuth*: two tabs, two token sets, one sign-in flow; any two of a reload, a fault, a revocation and the end of the grant, at any step |
| `outbox_live` (`MCOutbox`) | `Drains`, `CompletionsSettle` | two contexts, one entry, discard-all; an outage, a client's change and a crash, so a wake-up may be lost in each of the executor's waits |
| `services` (`MCServices`) | `StateTyped`; `LanesSerial`, `LanesInOrder`, `RejectedStaysOut`; `ConnectionsHold`; `CollectionAgrees`, `IndexComplete`; `ServicesSettle` | *ServiceLanes*: three calls over two services that call each other and themselves: one chain of depth three, or two of which one waits, cancelled and closed anywhere. *SharedWorker*: a client with two requests, one event and one mishap, with the host's protocol or another. *PersistedCollection*: two contexts, three mutations, of which one overwrites and one deletes, a crash, a fault and a lost answer; the same mutations beside two indexes and 42 predicates; three relays of which at most two may wait |
| `storage` (`MCStorage`) | `StateTyped`; `ServedUnderLock`, `CallersAreServed`; `RecordsKeepBytes`; `StoreMatchesDatabase`; `StorageSettles` | *LockBroadcast*: two nodes, two calls, one of which may be published again to the next leader. *Blobs*: two contexts; a local blob and its remote id are staged, bound, read and collected, a foreign one is cached; the host or a client dies, a call times out, a write or a deletion fails. *SQLiteOntology*: two applications that upload one id, or one that uploads two, beside two collectors with pages of one; a crash, a failed request and an early recovery |
| `client` (`MCClient`) | `StateTyped`; `SessionsAreKept`; `RuntimeOutlivesAll`; `OverlayFollows`; `ClientSettles` | *Connections*: two managers and a caller with a reload and a refusal, or one manager with every disruption once; three sessions. *LiveOntology*: two collections, a reader, a queued and a direct call, cleaned up at any step. *Projections*: up to three entries, one of which changes nothing; an edit, a failed action, a projection that fails, or a disposal |
| `backends` (`MCBackends`) | `StateTyped`; `AcceptedRuns`, `PartiesAgree`, `DescribedIsValid`; `NothingIsLost`; `CollectionFollows`, `AwaitedIsShown`; `NoChangeIsMissed`; `AttachmentsHold`; `BackendsSettle` | *RemoteOntology*: a small ontology and an action whose default or assignment is any usable expression of up to four levels, or one that combines two, under four policies. *Installation*: two ontologies of one user with a reload and a fault, or one with two calls at once. *FoundryCollection*: three edits with pages of one; reloads, a clock that stands still, a history that fails, lost messages. *ObjectSetWatcher*: three consumers of two object sets; a lost connection, a late message, a refusal. *ActionExecution*: two attachments in three places over three kinds of backend, two faults |

Why these bounds: the modelled hazards need two parties and one or two disruptions (a call is
repeated after the first crash, a stale result needs one replacement, an order needs two
entries). Larger instances were checked in the same way, with the same result: the lock protocol
with three nodes, the outbox with two retries, the OAuth client with four token sets or two
reloads, the shared worker with two clients and two events. With four calls the lanes keep their safety
properties, but two opposite chains of calls wait for each other (section 5).

Where a property claims less than one would wish, its definition and comment say so, and the
cases it leaves out are behaviours of section 5: parts of `ClientsCanRely` hold until a context
crashes, `CompletionsSettle` unless one does; `AcceptedWritesSurvive` is for the strategy pause;
`StorageIsListed` and `LiveSessionIsKept` hold as long as nobody signs in or out, the latter also
without a reload; of `SessionsAreKept`, `SessionIsOpen` is for at most one failing write and the rest
for none; `NothingLeftPending` is without `boundFirst`; `NothingIsLost` promises complete calls and
recorded data to careful applications; `PartiesAgree` is for types that the answer names;
`CollectionFollows` for loads that nothing overtakes; `IndexComplete` for indexes none of which ends
another's path.

Symmetry is used for contexts, entries and flows in the run `outbox`, which has safety and action
properties only and where no definition distinguishes them.

**Fairness.** Weak fairness for what the event loop, the lock manager or a timer does by itself:
the browser grants a lock that is waited for, a lane whose handler has returned starts the next
call, a message is delivered, a backoff ends, the refresh loop polls, an `await` that is settled
goes on. The outbox needs strong fairness for the handling of a call and for the executor's steps,
as both take turns in one lane: the lane is first-in first-out, so each gets its turn although it is
disabled in between; the same holds for calls to the blob host. Outages are assumed to be repaired
(`ComeOnline`, `SignIn`), backends and object stores to answer. Nothing is assumed of users and
callers, nor that a handler of the shared worker ends. In a run of several components the fairness
of each is stated for the behaviours that are about it, and grouped where the actions of a group
exclude each other's progress only for finitely many steps. A liveness property is of the form
`[]<>` (everything that is awaited has settled, again and again), so that one formula serves
behaviours that come to rest and those that go on.

### Runs that find a disagreement

`oauth_stale`, `conn_inactive` and `sqlite_overlap`, see section 5. Each checks one property, taken
from the sentence that the finding quotes.

## 4. The proofs

What the runs check of small instances, the `*Proofs` modules prove of every instance: for any number
of contexts, entries, services, calls, nodes, blobs, clients, requests, users, objects and ontologies,
and for any budget of disruptions and any set of settings. Each theorem is about the specification of
its own component (`Spec` of the outbox, the lanes and the connections; `OAuthSpec`, `LifeSpec`,
`ProjectionSpec`, `WorkerSpec`, `CollectionSpec`, `LockSpec`, `StoreSpec`, `BlobsSpec`,
`InstallationSpec`, `ExecutionSpec`, `WatcherSpec`, `FoundrySpec`) and about the very definition that the
composed run checks. The composed run is not a conjunction of those specifications in the proofs: that
each of its behaviours is one of the component in focus is seen from the definition of its `MCNext`.

**Assumptions.** Only what the constants mean, by name in the module that declares them; TLC evaluates
each on the run that extends the module: `SettingsAssumption`, `NobodyAssumption`, `BudgetAssumption`
(outbox), `OAuthAssumption`, `NoneAssumption`, `UsesAssumption`, `ServesAssumption` (lanes),
`WorkerAssumption`, `CollectionAssumption`, `NoOneAssumption`, `AttemptsAssumption` (lock and broadcast),
`StoreAssumption`, `BlobsAssumption`, `PlacesAssumption`, `SessionAssumption`, `SettingsAssumption`
(connections), `InstallationAssumption`, `ExecutionAssumption`, `WatcherAssumption`, `FoundryAssumption`.
Two theorems have a hypothesis of their own: `WaitsClimb` a ranking of the services, and
`AttachmentsArrive` that no use is missed when attachments are collected.

| module | theorem | states |
|---|---|---|
| `OutboxProofs` | `TypeCorrect` | `TypeOK` |
| | `StrictBarrier`, `ClaimStands` | `ExecutingIsHead`, `ClaimIsCurrent` |
| | `QueueIsImplemented` | `ImplementsQueue`: the outbox implements `OutboxQueue` |
| | `WritesStay`, `ClientsRely` | `WritesAreKept`, `ClientsCanRely` |
| | `RetriesEnd` | `RunsBounded` |
| `OAuthProofs` | `OAuthTypeCorrect` | `OAuthTypeOK` |
| | `StorageListed`, `LiveSessionStays` | `StorageIsListed`, `LiveSessionIsKept` |
| `ServicesProofs` | `TypeCorrect`, `Serial`, `InOrder`, `RejectedOut` | of the lanes: `TypeOK`, `LanesSerial`, `LanesInOrder`, `RejectedStaysOut` |
| | `WaitsClimb` | where services can be ranked by who uses whom, no lanes wait for each other |
| | `WorkerTypeCorrect`, `ConnectionsServe` | of the shared worker: `WorkerTypeOK`, `ConnectionsHold` |
| | `CollectionTypeCorrect`, `CollectionIsConsistent` | of the persisted collection: `CollectionTypeOK`, `CollectionAgrees` |
| `StorageProofs` | `UnderLock`, `CallersServed` | of lock and broadcast: `ServedUnderLock`, `CallersAreServed` |
| | `StoreTypeCorrect`, `DatabaseIsMatched` | of the SQLite ontology: `StoreTypeOK`, `StoreMatchesDatabase` |
| `BlobsProofs` | `TypeCorrect`, `BytesKept` | `BlobsTypeOK`, `RecordsKeepBytes` |
| `ClientProofs` | `TypeCorrect`, `SessionsKept` | of connections: `TypeOK`, `SessionsAreKept` |
| | `RuntimeIsLastToGo`, `NoneIsLeftRegistered` | of a live ontology: `RuntimeOutlivesAll`; a completion is registered only with an outbox that is up |
| | `ProjectionTypeCorrect`, `OverlayIsFollowing` | of projections: `ProjectionTypeOK`, `OverlayFollows` |
| `InstallationProofs` | `InstallationTypeCorrect`, `NothingLost` | `InstallationTypeOK`, `NothingIsLost` |
| | `ExecutionTypeCorrect`, `AttachmentsArrive` | of actions with attachments: `ExecutionTypeOK`, `AttachmentsHold` |
| `FoundryProofs` | `WatcherTypeCorrect`, `OpenIsUpToDate` | of the watcher: `WatcherTypeOK`, `NoChangeIsMissed` |
| | `FoundryTypeCorrect`, `CollectionIsFollowing`, `AwaitedIsFound` | of the collection: `FoundryTypeOK`, `CollectionFollows`, `AwaitedIsShown` |

**How they go.** None of these properties is inductive. Each proof first states the strengthening that
is, part by part, and shows that Init establishes it, that each action keeps it (a lemma per
action, or one for what several actions have in common), and that it implies the property. TLC checked the
strengthenings of the instances before they were proved; several had to be corrected.

* *Outbox.* The head and the claim are inductive together (`Claims`), given the types, and with them the
  sequences are distinct (`Distinct`). The refinement maps the table to its entries and their order by
  sequence; every change of the table adds the last entry, drops some, or changes who executes, and
  each of these is a step of the queue. What clients are told rests on two more parts: what was
  announced or is about to be agrees with `applied` (`Truthful`), and without a crash an action that
  is still to be enqueued has left no trace but its call, and no result is lost on its way
  (`Undisturbed`). `WritesStay` is an action property, proved action by action under these.
* *Bounded executions.* A potential that would be a sum over the table is stated as the cardinality of a
  set, the executions that its entries still owe (`Owed`). Claiming an entry spends one; what gives new
  ones is a client's call or a disruption, and each brings a known number along (`Solvent`). So the
  balance of a step is an argument about finite sets and needs no induction over the table.
* *OAuth.* A flow belongs to the tab that has begun it until its record is listed (`BegunIsOwn`). While
  nobody signs in or out, only the refresh service writes, and it never leaves a secret without its
  record (`OnlyService`); without a reload the leader knows the stored token set, so what the service
  forgets is what the server has refused (`NotReloaded`).
* *Lanes.* Handlers that run or wait in one chain of calls are nested in one another (`Chains`,
  `OneChain`), and one that nobody aborted runs under the call that holds the lane (`Holders`); the
  queue is the rest of what the lane accepted (`Order`). `WaitsClimb` then shows that a lane waits only
  for lanes of higher rank; the two opposite chains of section 5 have no ranking.
* *Shared worker.* Hello comes once and before all else in a port; a request is on its way once,
  or has a handler, or is answered; a handler that runs has an accepted client; events in a port
  continue those that were received without a gap and reach the last one published; and the answer behind
  them is not older than what its handler could know.
* *Persisted collection.* No commit is ahead of the stream, nor the stream of a leader that has found its
  position (`PositionStands`);
  commits and announcements are of a reign that has begun (`ReignsGrow`), and what is announced as it was
  committed is announced in the order of the commits (`AnnouncedInOrder`). That a leader
  announces what it stored at the position of its commit, and only then, needs a memory that holds all
  envelopes (`LeaderRemembers`), which is where the property is conditioned on the capacity.
* *Lock and broadcast.* What a node has accepted or executes is the lock holder's (`LanesUnderLock`):
  that a term halts its handlers before the lock is released is what the proof rests on. `Serving` adds
  that a call that was started or accepted by a node cannot be accepted there again, since it is
  still being served there, has its answer remembered, or is settled.
* *SQLite.* What journal, rows, store and requests under way say of one key, by how far its upload is
  (`Sound`), for as long as there is a database (`Living`); and that destruction has waited for writes, so
  that only late ones can arrive after the page they would have been on (`Destroying`).
* *Blobs.* The largest. `Operating`, `Answering` and `Staging` say what an operation owns at each of
  its steps; `Recorded` that writes have numbers of their own; `Hosting` and `Recovering` what the host
  holds in each term, and that the recovery has yet to visit every pending record. With these, what is
  about to be committed has its bytes or will be failed (`Written`), and a blob that no backend has
  stays staged from the moment its stage was committed (`Kept`).
* *Connections.* Ownership: a session is held by the memory of the context that made it, or by an
  operation that will clean it up or put it back (`Owned`), by one of these only (`Exclusive`), and
  by one of them at all (`Accounted`). The last two are conditioned on the number of failed
  writes, as the property is: section 5 has the behaviours beyond it.
* *Live ontology.* What the cleanup waits for says which parts are down already (`TeardownInOrder`).
* *Projections.* An entry has one sequence, wherever its row is known (`EntriesKeepPlace`). What is
  installed is the start of what is wanted, and of it those that change something are shown, in order
  (`InstalledIsShown`). Whatever overtakes what, the last message or work that is about an entry leaves it
  as the table has it, unless a table is still on its way (`OutboxArrives`). With nothing under way, what is
  shown and what the table says are lists in strict order with the same rows, and such lists are equal.
* *Installation.* A key that is being opened has no live ontology (`Slot`); what a call holds is cached no
  more (`Holding`); what runs is cached, withdrawn or held (`Accounted`). For careful applications, a
  record is there before its data (`Listed`), what a call has closed stays closed until it returns
  (`Final`), and its user is off before that (`Off`). That opened ontologies are not among those is one
  lemma, `OpenedIsUntouched`, and the only place where the application's care is used.
* *Attachments.* What has been made in an attempt is an upload under its own id, or is stored and, if it is
  stored under a new id, mapped (`Prepared`); where a backend keeps ids none of those is mapped (`Kept`), and
  where it does not all are (`Renamed`). So what the last action refers to is bound or still has its mapping
  (`Binds`). How an id is stored is told by its first use, the least index at which it occurs. That the walk
  over the parameters misses no use is the hypothesis `EveryUseIsCollected`; the run has the uses from the
  recursive `Attachments`, and finds the property violated when that walk skips optionals and structs.
* *Watcher.* Whoever knows a version of an object set after some message on the wire hears of its last
  change behind it, or of its end (`Fresh`). An answer promises that for each set it accepts
  (`Answering`), and what is shown as open has it between requests (`Shown`). Consumers are counted by a
  cardinality (`Shares`).
* *Foundry collection.* The cursor stands after some edit of the history: exactly the later ones are due,
  and a catch-up has read them up to its last page (`Reading`); what the cursor has passed is shown
  (`PassedIsShown`). Once the history is unavailable, what rows or an answer do not show is on the feed or
  kept (`DirectIsCurrent`). That a bounded set of numbers has a greatest one is proved without
  induction: otherwise the successor would inject it into itself without being onto.

**What stays with the model checker.**

* Liveness (`Drains`, `CompletionsSettle`, `ServicesSettle`, `StorageSettles`, `ClientSettles`,
  `BackendsSettle`), and with it fairness and ENABLED.
* What recursive definitions compute for every input, which needs an induction over data that the
  installed provers cannot do: `AcceptedRuns`, `PartiesAgree` and `DescribedIsValid` (`OntologyIR`,
  `Expressions`, `Projection`, `RemoteOntology`), `IndexComplete` (`IndexPlans`), and the walk that collects
  attachments (`Attachments`).
* `StateTyped`, which only joins the type invariants of a run's components; these are proved one by one,
  save that of `RemoteOntology`, and `LockBroadcast` and `LiveOntology` prove theirs as a part of their
  invariants.
* The findings of section 5, which are counterexamples.

## 5. Disagreements between code and documents, and other behaviours the models show

Three are checked, by the runs that end in a counterexample; `PROJECT.json` quotes each document
with its place.

| run | the code | the document |
|---|---|---|
| `oauth_stale` | a tab that becomes the leader refreshes with the rotated token it had cached | the secret store is reloaded before a refresh |
| `conn_inactive` | a refresh under way makes a disconnected connection active again | it remains inactive |
| `sqlite_overlap` | an action that commits while another one uploads writes back the other's reference, which stays when the other fails | a failed commit never leaves a reference without its bytes |

The models also show the following behaviours. No run of its own reports them; they are where a
property is scoped (section 3), or where an instance was chosen.

* Outbox: recovery under discard-all rejects an entry that was interrupted and all after it,
  while `specs` promises that accepted writes survive a restart; an interrupted entry that waits
  for its user under pause is queued again by the next recovery; an enqueue that is repeated after a
  crash is executed twice.
* Live ontology: a direct call may bind ids when the blobs are gone; a call that reaches the outbox
  after it was disposed of never settles.
* Lanes: a handler whose reentrant call was aborted may go on beside the next nested one; two
  chains of calls in opposite directions wait for each other's lane, as the host refuses a service
  only within its own chain.
* Lock and broadcast: a request that is published while nobody leads is overtaken by a later one;
  work that runs as leader may outlive the lock.
* Persisted collection: a repeated request is announced with old rows at a position that is never
  stored; a position that could not be read once refuses every later mutation of that leader; an
  index of `meta.name` answers a query for `name`, and an instant's key is its whole millisecond.
* Blobs: where a query for one record prefers the bound alias (`boundFirst`), commits are refused
  as stale and recovery passes over the record; a blob that is cached again after the query of a
  collection page makes the deletion conflict, which ends the blob service of that host; a record
  that failed after the query is purged; metadata written after a purge makes a record without a
  state; a read may return the empty file of a write under way.
* SQLite: `applyAction` ignores its idempotency key; attachments of deleted objects are never
  orphaned.
* OAuth: a lookup that fails after the token was rotated loses the new token.
* Connections: a leader without a session for a user records that the session cannot be refreshed,
  although another tab has one; the rollback of a failed write ends the session that another caller
  established meanwhile, and two failing writes restore one that was cleaned up; a request that is
  refused late ends the session the user has signed in with since.
* Installation: an ontology that is opened while its user is forgotten survives, with its data; two
  live ontologies of one key overlap while the first is still being cleaned up.
* Expressions: two parts of a struct that ask for one parameter at the same time are taken for a
  cycle; aliases that refer to each other are resolved for ever.
* Remote ontology: a step that names its object through an alias or an optional is left out of the
  invalidated types; without a visibility policy all assignments are stripped.
* Foundry: a clock of the client that is ahead skips edits; later pages are asked for with another
  start time but the old page token; a history that failed is never tried again, and then any update
  resolves who waits for an operation; a catch-up left over from a former run switches the present one.
* Attachments: where a backend recognises an action whose answer was lost, the local id is bound to
  a copy that nothing refers to.

## 6. What is not modelled, and the plan

Left out for good: formatting, generated code, command lines, user interface, platform bindings,
samples and the earlier generation under `old`. Adapters to remote services are modelled by what
they may answer; Salesforce and better-auth keep no state of their own. The retention of attachments
by pending actions (live attachments) and the retry loop of single HTTP requests are small and not
modelled yet.

Next, in this order:

1. The composition of `SharedWorker` and `LockBroadcast` as two implementations of one abstract service:
   both prove parts of it, on their own terms.
2. Queries behind Foundry: the predicates that are pushed down to its API, against the reference
   semantics that `IndexPlans` has for IndexedDB.
3. Live attachments, over `Blobs` and `Projections`.
4. Proofs: that client and server of `RemoteOntology` agree needs an induction over types and
   expressions, and with it a prover for the library's induction theorems.
