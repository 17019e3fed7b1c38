# Holon: specifications and proofs

Holon is a data platform of six FastAPI services, each with a PostgreSQL database
of its own, that talk over HTTP and over a Kafka-compatible bus. This directory
models the protocols that hold those services together and the state each keeps: how an
event leaves a database and reaches its consumers, how a dataset is ingested, stored, indexed and
read, how the ontology is published, how a governed action is submitted, approved, applied,
undone and written back to a source system, and how access is granted and revoked. The modules are checked with TLC and, where noted, proved with
TLAPS for every value of their constants.

All paths below are relative to the repository's root.

## 1. Inventory

### 1.1 The system

| Service | Role | State |
|---|---|---|
| Connectivity | ingests datasets from sources, writes back to them | source registries, cursors, `sync_run`, Iceberg tables, write targets |
| Knowledge | ontology, catalogue, actions, search | `action_type`, `action_approval`, `action_invocation`, `object_instance_edit`, catalogue and serving tables, OpenSearch |
| Automation | workflow engine of the writeback saga, agent chain trigger | `workflow_execution` |
| Identity | principals, tokens, permissions, federation | `principal`, `revoked_token`, permission grants |
| Intelligence | agent sessions, language-model gateway | sessions, token and request counters |
| Experience | web UI, application builder | application definitions |
| `libs/holon_common` | what all of them share | `event_outbox` table, consumer offsets, the in-memory denylist, circuit breakers |

The Helm chart runs most services with two replicas (`deploy/helm/holon/values.yaml`), so
what is one task per process, such as a relay, a consumer or a scheduler, has two instances.

### 1.2 Components, their operations and what makes them correct

**Transactional outbox** (`libs/holon_common/outbox.py`). State: `event_outbox` rows with
an id from a sequence and a `published_at` stamp. Operations: `enqueue` in the caller's
transaction; `relay_forever`, one task per replica, which polls, validates, sends and
stamps. Hard: several relays on one table without row locks, ids that become visible out
of order, crashes between the send and the stamp, poison rows, broker errors mid-batch.
Correct when: nothing uncommitted is sent, nothing committed is lost or starved, and an
effect is not delivered before its cause.

**Event consumer** (`libs/holon_common/events.py`) and the catalogue loop
(`services/knowledge/app/catalog.py`). State: the group's offset, the position, a dead
letter queue. Operations: validate, quarantine, process with retries, commit. Hard: a
commit is of the *position*; quarantine and commit can fail too; a task that dies is not
supervised. Correct when: the committed offset never passes an event that was neither
processed nor quarantined, and no event blocks the partition for ever.

**Action engine** (`services/knowledge/app/actions/`). State: approvals, invocations,
the edit overlay of each object, the action type registry. Operations: request, apply,
approve, reject, expire, compensate, revert; `create_action_type`. Hard: each handler reads
outside a transaction and then writes inside one, under row locks, concurrently with all
the others. Correct when: an approval is decided once and applied exactly once if
approved, the captured prior value is the overwritten one, reverts undo exactly, and a
compensated approval leaves none of its values, as long as its action goes on writing the same properties.

**Writeback saga** (`services/automation/app/workflow.py` with Knowledge and
Connectivity). State: `workflow_execution`, the consumer's offset, the source system's row.
Operations: take an event, fetch the definition, insert an execution, write through
Connectivity, call Knowledge back on failure, announce on success, commit. Hard: every call
may fail, time out and take effect late; events are repeated; the process restarts anywhere.
Correct when: the source changes only for approved requests, what the engine records is true,
and every approved request is completed or undone.

**Revocation denylist** (`auth.py`, `principal_status.py`, `service_runtime.py` of
`libs/holon_common`; `token_revocation.py`, `status_events.py` of Identity). State:
Identity's tables; in each process two sets, a consumer and a snapshot refresh.
Operations: change a status, revoke, consume an event, hydrate at boot and every 30
seconds. Hard: a snapshot in flight while events arrive. Correct when: no replace
revives a token, a caught-up process agrees with Identity, and every process agrees in the end.

**Ingestion** (`ingest_sync.py`, `cursor_window.py`, `file_cursor.py`, `iceberg_writer.py`) and
its **scheduler** (`ingest_scheduler.py`, `scheduler_jobs.py`) of Connectivity. State: a cursor
per source, the Iceberg table with its snapshots, `sync_run`, an advisory lock, two levels of
semaphores. Hard: three commits in three stores, a snapshot commit of unknown outcome, a leader
that notices late that it no longer leads, a source that changes between two pages, rows without a
cursor value, tenants whose source hangs. Correct when: rows with a cursor value are neither lost nor
repeated, the cursor passes none that is not in the table, every one arrives in the end, and no tenant
starves another.

**Kafka streams** (`stream_connector.py`). State: the last row per key, the dataset, the group's
offset. Hard: four steps per cycle, a thread that goes on after its task was cancelled,
rebalances. Correct when: a committed message is in the dataset and an active stream catches up.

**Source registries** (`routers/sources/`, `sql_source_registry.py` and its siblings). State: five
tables of sources, connections with secrets, plugins and streams that claim a dataset, SpiceDB
links. Correct when: a dataset name has one active owner, a source can be used, and a stored
secret never follows a new destination.

**Circuit breaker** (`observability.py`). State: open, half-open or closed, failures, calls in
flight. Correct when: it closes again once its dependency is back.

**Ontology** (`ontology/` and `routers/ontology_admin/`). State: ObjectTypes with versions,
branches, reviews and a definition cache; interfaces with parents; value types with
revisions, shared properties, relation types. Hard: validations before the lock, caches filled
late, merges of several steps. Correct when: the live definition is the last one published, the
events tell its history, merges were reviewed, caches become fresh, implementers keep their
contracts, revisions are faithful and PostgreSQL agrees with SpiceDB.

**Serving store, index and links** (`catalog.py`, `catalog_reindex.py`, `serving_store.py`,
`catalog_join_links.py`, `link_overlays.py`, `action_structural.py`). State: instances and their
history, documents in OpenSearch, join pairs and the snapshot they are labelled with, overlays.
Hard: syncs, reindexes, refreshers and actions at once. Correct when: search shows the store, a
label is no newer than its pairs, and a link write shows until the lake agrees.

**Reads** (`reads.py`, `core.py`, `masking.py`, `policy.py`, `derived.py`) and **analytics plans**
(`execution.py`). Correct when: a walk over pages misses and repeats nothing, nothing withheld is
shown, a cached decision is no older than its time to live, aggregates, graphs and search agree with
reads, stored results are those of their pins and their columns are masked for each reader.

**Access control** (`authz.py` of `holon_common`; Identity's `scim.py`, `federation_login.py`,
`access_ops.py`, `governance.py`, `seed.py`). State: principals, groups, relations in SpiceDB, the
denial cache of a service. Hard: a change of access is several writes to two stores and an event.
Correct when: a cached denial does not outlive its reason unannounced, a login leaves exactly the
role its claims name and opens one session, a boot leaves an administrator.

**Agents** (`agent_runtime.py`, `spend_limits.py`, `agent_chain_trigger.py`), **plugins and
models** (`plugin.py`, `model_registry.py`), **applications** (`application_builder.py`). Hard: a completion
is delivered and read again while requests of the last reading still run. Correct
when: what turns spent is accounted, a chain is no deeper than granted, a registration is kept,
linked and used as it was checked, and a promoted version was validated.

The language-model gateway, the audit log, the web UI, migrations, secrets and deployment are
I/O, formatting or start-up plumbing. `PROJECT.json` lists each with the reason.

How they interact: domain transactions of every service → outbox → bus → consumers;
Knowledge → (event) → Automation → (HTTP) → Connectivity → source system; Automation →
(HTTP callback) → Knowledge; Identity → (events and snapshot) → every service.

## 2. Modules and how they correspond to the code

| Module | Models | Kind |
|---|---|---|
| `Outbox` | `outbox.py` | component |
| `EventConsumer` | `events.py`, `catalog.consume_events` | component |
| `ApprovalLifecycle` | what Knowledge promises about an approval | abstract specification |
| `ActionEngine` | `actions/`, `create_action_type` | component, implements `ApprovalLifecycle` |
| `ActionSaga` | `workflow.py` over Knowledge and Connectivity | composition, on top of `ApprovalLifecycle` |
| `Denylist` | revocation, from Identity to one process | composition |
| `ActionSubmission` | `declarative.py`, `declarative_criteria.py`, batches of `routers/objects/generic.py` | component |
| `IncrementalSync` | `ingest_sync.py`, cursors, `iceberg_writer.py`, leadership of `ingest_scheduler.py` | composition |
| `JobRunner` | `scheduler_jobs.py` | component |
| `StreamConnector` | `stream_connector.py`, `ingest_streams.py`, `kafka_stream_registry.py` | composition |
| `SourceRegistry`, `SourceConnections` | source registries and connections | components |
| `CircuitBreaker` | `observability.py` | component |
| `OntologyPublishing` | `publishing.py`, `branching.py`, `object_types.py`, `definition_cache.py` and their router | component |
| `InterfaceContracts` | `interfaces.py`, `interface_contract.py`, `publishing_validate_implements.py` | component |
| `TypeRegistry` | value types, shared properties, relation types, `resource_branching.py` | component |
| `ServingStore` | `catalog.py`, `serving_store.py`, `catalog_reindex.py`, `search.py`, structural edits | composition |
| `LinkStore` | `catalog_join_links.py`, `relation_links.py`, `link_overlays.py` | component |
| `GovernedReads` | `reads.py`, `core.py`, `masking.py`, `policy.py`, `markings.py`, `derived.py`, search filters | component |
| `ExecutionCache` | `execution.py`, `routers/execute.py` | component |
| `AccessControl` | Identity's changes of access, SpiceDB, `authz.py` | composition |
| `AgentSession`, `AgentChain` | `agent_runtime.py`, `spend_limits.py`; `agent_chain_trigger.py` | components |
| `PluginRegistry`, `ModelRegistry` | `plugin.py`, `tool_plugin_registry.py`; `model_registry.py` | components |
| `Applications` | `application_builder.py`, `application_validate.py` | component |
| `MCActionEngine`, `MCActionSaga`, `MCPublishing`, `MCIngest` | instances of one module for TLC | |
| `MCConnectivity`, `MCKnowledge`, `MCPlatform`, `MCQueries` | instances of several modules, see below | |
| `ActionEngineProofs`, `DenylistProofs`, `OntologyPublishingProofs`, `IncrementalSyncProofs` | theorems about the module of that name | |
| `EventBusProofs` | theorems about `Outbox`, `EventConsumer` and `StreamConnector` | |
| `ActionSagaProofs` | theorems about `ApprovalLifecycle` and `ActionSaga` | |
| `PlatformProofs` | theorems about the eight components of `MCPlatform` | |
| `KnowledgeProofs` | theorems about four of the five components of `MCKnowledge` | |

`Outbox`, `Denylist` and, for one run, `GovernedReads` are run as they are.

The four modules that instantiate several components have a variable `focus`, set in the initial
state and never changed: each behaviour exercises one component, and the others keep their
initial state. The components have no state in common, so nothing is lost by it, and the state
space is the sum of theirs and not the product. The properties of such a module are those of
its components under the name the run uses. `MCConnectivity` extends `EventConsumer` and
`StreamConnector`, so their properties keep their own names. `MCPlatform` and `MCKnowledge` are
parameterised like the components: their sets and bounds are constants with named assumptions, so that
what is proved of them holds for every instance and not only for the one of the run.
`MCPlatform` has `AgentSession`, `AgentChain`, `PluginRegistry`, `ModelRegistry`, `Applications`,
`ActionSubmission`, `SourceRegistry` and `SourceConnections`; `MCKnowledge` has `InterfaceContracts`,
`TypeRegistry`, `ServingStore`, `LinkStore` and `ExecutionCache`; `MCQueries` has `AccessControl` and
`GovernedReads`.

Definitions named `X_Something` in front of a definition `X` are plausible wrong versions of
it. They are used to confirm that each property would catch the mistake, and are no part of
the specification.

**Outbox.** `tx`, `rowId`, `lastId` are the table and its sequence: `Enqueue` draws the id
inside an open transaction, `CommitTx` makes the row visible, so ids appear out of order.
`Fetch`, `Publish`, `SkipPoison`, `Stamp` are the statements of the loop, `BrokerError` and
`RelayRestart` its failures. `before` is a history variable: what had committed when an event was
enqueued. The topic is a set, because a second record of an event is allowed and
consumers are told to expect it.

**EventConsumer.** A record is its kind: invalid, of another type, a sync event, or one whose
processing fails for good. `pc` is the place in the loop. A refused commit inside
the `try` block is one more exception to retry (`commit_handled`); outside it ends the task
(`dead`). A dead letter producer is configured, as in every service. `refused` is a history variable:
the invalid records the dead letter queue refused.

**ActionEngine.** A worker is a request handler of any replica. What it has read before its
transaction is in `job`. Row locks are those PostgreSQL takes under READ COMMITTED:
`Held` is what `FOR UPDATE` and the upsert lock, and `FOR UPDATE` locks nothing when the row
is missing. A value is the id of the invocation that wrote it. `Resolve` lets a
function-backed action write any non-empty set of properties. An invocation's id is drawn at
its INSERT and here identified with the commit order: two transactions that write the same
property are serialised by the row lock, and the ids of others are compared only by
`LaterEdit`. `MCActionEngine` adds `mode`: handlers at once, or one at a time with more invocations or
with both actions redefined, from two properties to whatever a function computes.
Submission criteria and rules are in `ActionSubmission`, structural edits in `ServingStore` and
`LinkStore`; dotted paths are left out. There is one tenant.

**ActionSaga.** Knowledge is `ApprovalLifecycle`, which `ActionEngine` is proved to
implement; the outbox is reduced to what `EventBusProofs` proves. `Faults` says which calls may
go wrong: the run takes all of them, and `MCActionSaga` notes in `abandoned` which requests the
engine gave up on. `late` holds the calls
the engine gave up on, which may still take effect. `SetStatus` updates the last execution
row, since one task handles one record at a time. Every approval is of an action with a
writeback; a definition that lost it is the fault "definition".

**Denylist.** One process stands for all, since each host has a consumer group of its own.
`Ask`, `ReadDisabled`, `ReadJtis`, `Replace` are one hydrate: the request, Identity's statements
(the purge of expired rows and the two reads), the replacement and replay, which have no `await` between them. `captured` is the
open capture. `FreshGroup` tells the first boot of a host from a later one. The relay
delivers the events of one principal in order, as `CausalOrder` of `Outbox` guarantees for
transactions that update the same principal row one after the other.

**IncrementalSync.** A row is a number, its cursor value is the time it got; several rows may
share one, and the rows of `bare` have none (the cursor property is null). A sync reads the cursor, the
window, writes the snapshot, records it and commits the cursor; `AdoptResume` is the repair from the
table's own metadata. A window is one statement (`mode` "property"), or one page at a time ("pages"),
with the source changing in between, or a listing of files. `CommitUnknown` is a commit
that landed although the sync saw it fail. `overlapped` notes that two replicas synced at once.
`Covers(c, i)` says that a sync resuming at `c` does not read row `i` again. Rows are numbered in the
order of their names, or of their pages: `late` notes the files that came with the time of a
file already read and an earlier name, and the rows that came on a page a sync had already left. The source's API
is taken to go on after the last row it returned, so that a page neither repeats nor jumps a row that was there.

**StreamConnector.** A message is its offset. `orphans` are snapshots whose task was cancelled and
whose thread goes on. **JobRunner** has the queues of both semaphores in order. **CircuitBreaker**
keeps, per call, what it saw of the state when it started.

**OntologyPublishing, TypeRegistry, InterfaceContracts, SourceRegistry, PluginRegistry,
ModelRegistry, Applications, AccessControl, ActionSubmission.** A handler is a coroutine, cut at
the awaits at which another one can change what it has read; the record in `request` (`req`,
`pending`, `op`) is what it carries from one to the next. A SpiceDB failure, a compensation and a
process that dies are actions of their own. History variables (`raced`, `overlapped`, `lossy`,
`unchecked`, ...) note that requests met in a window the code leaves open; where the code makes no
promise for that case the property excludes it by name, and section 5 says what happens then.

**ServingStore, LinkStore.** A value stands for a whole row; one pair of instances stands for all
pairs. A document records the reindex generation and the time that the purge looks at; OpenSearch may refuse
any document of a bulk (`spared`). An event of either consumer may be quarantined (`behind`).

**TypeRegistry.** A proposal sets, clears or leaves the project; a merge applies it to the row and, like the
code, writes no `parent_project` (`ungoverned`).

**ActionSubmission.** The action writes a constant, the reason it was invoked with, or what a function computes.
`vetted` is what the edit was held against. A revert reopens the instance.

**GovernedReads.** One principal, alone or for a mandant, reads instances numbered in the store's
order. `Fetch`, `Filter`, `AskPolicy`, `Mask` are the steps of one batch of `_resolve_many`: the rows, their
markings, the call of OPA when no decision is cached, the values. The age of a decision counts from the
call, as `policy.py` does. The limits of the code (factor 3, 16
rows, 32 batches) are constants. `always` and `sometime` hold what was readable throughout and at
some moment of a walk, `answers` and `allowed` what the policy said. Aggregates, graphs and search are operators,
checked in every state.

**ExecutionCache.** A result is the versions it was read at, its column, and who computed it.

**AgentSession.** The model's answer costs any amount of `Tokens` and asks for any number of tool
calls; a turn is one step per statement or call. `Evaluate` and `Replay` are the model calls that
are recorded nowhere (`unbilled`). **AgentChain** is the consumer that commits no offset of its own: a `Reread`
is a restart or a rebalance, after which the requests in `calls` go on unawaited or, on the replica that lost the
partition, awaited; `Redeliver` repeats a record. A reading is a position and the number of rereadings before it.

## 3. Runs

Passing runs.

| Run | Properties | Instance |
|---|---|---|
| `outbox` | `OnlyCommittedOnTopic`, `StampedIsOnTopic`, `CausalOrder`, `EventuallyRelayed` | 3 events, one of them poison, 2 relays, batches of 2 |
| `denylist` | `CaughtUpAgrees`, `ReplaceDropsNothing`, `EventuallyAgrees` | 2 changes, repeated records, 1 restart, commits may fail |
| `actions` | `CapturedIsCurrent`, `SerialReplay`, `SerialCompensation`, `ImplementsLifecycle` | 2 handlers and 3 invocations at once; or one at a time, with 4 while one action is redefined or 3 while both are; 2 approvals, 2 properties, function-backed actions |
| `saga` | `NoWriteWithoutApproval`, `CompletedIsWritten`, `FailedIsRecorded`, `SettlesUnlessAbandoned` | 2 approvals, all faults, 2 restarts |
| `publishing` | `LiveIsPublished`, `EventChain`, `MergedWasReviewed`, `ProjectLinkSettles`, `EventuallyFresh` | 2 handlers at once, 4 requests, 3 versions, 1 branch |
| `ingest` | `RowsLandOnce`, `NothingSkipped`, `EventuallyIngested` | 2 replicas, 2 rows, 2 cursor values or none, pages of one row, 2 failures, crashes or requests (1 where rows are read by a property) |
| `connectivity` | `StreamNotLost`, `StreamCatchesUp`, `NoStarvation`, `BreakerRecovers`, `CommittedIsSettled`, `EventuallyCommitted` | 3 messages on 2 replicas; 4 jobs of 2 tenants, one hanging; 3 callers; 3 records of any kind with 2 restarts |
| `knowledge` | `InterfacesSound`, `TypesGoverned`, `SearchFollowsStore`, `LinksFaithful`, `ExecutionSound` | 3 interfaces in 2 concurrent requests; 3 requests on one type of each kind, with proposals that set, clear and leave the project; 2 rows in 2 syncs, refused documents, beside a reindex and an action with its revert; 2 syncs, a redefinition or a quarantine, a write of a link and its revert; 2 plans with 2 changes |
| `platform` | `AgentsAccounted`, `RegistrationsSound`, `SourcesSound`, `SubmissionsSound` | 2 requests in flight in each of eight components, 2 to 4 in all, 1 fault each; 5 completions, 1 rereading |
| `queries` | `AccessSound`, `ReadsGoverned` | 2 logins or changes of access beside a service's checks; 3 rows in pages of one, 3 reads and a change; or 2 reads, 2 ticks and 2 changes of policy and clearances, with and without a mandant |

What the joint properties say, component by component:

- `InterfacesSound`: `InterfaceContracts!ContractsHold`, `HierarchySound`. `TypesGoverned`:
  `TypeRegistry!RevisionsFaithful`, `TypeGoverned`, `MergedIsApplied`. `SearchFollowsStore`:
  `ServingStore!SearchComplete`, `SearchPurged`, `HistoryCurrent`. `LinksFaithful`:
  `LinkStore!LabelHonest`, `LinksCurrent`, `LinkWriteKept`. `ExecutionSound`: `StoredAtPins`,
  `AnswerIsFresh`, `MaskedForReader`.
- `AgentsAccounted`: `AgentSession!BudgetKept`, `TranscriptPaired`, `CompletionAnnounced`, `SpendCounted` and
  `AgentChain!ChainBounded`, `OneFollower`. `RegistrationsSound`: `PluginRegistry!PluginsSound`,
  `ModelRegistry!ModelsSound`, `Applications!ApplicationsSound`. `SourcesSound`:
  `SourceRegistry!DatasetOwnedOnce`, `SourceUsable`, `SourceConnections!SecretStaysHome`.
  `SubmissionsSound`: `AppliedOnce`, `EditsVetted`, `BatchAccounted`.
- `AccessSound`: `DenialsFresh`, `LoginSynced`, `BootRepairs`, `LoginOnce`. `ReadsGoverned`:
  `WalkCovers`, `NothingWithheld`, `VisibilityFresh`, `AggregatesAgree`, `GraphSound` and the agreement
  of search with reads.

Runs that end in a violation. In each, what the code does differs from what one of its
comments says; `findings` in `PROJECT.json` quotes both sides.

| Run | Property | What happens |
|---|---|---|
| `compensation_foreign` | `CompensationDeletesOwnRows` | a compensation deletes another action's later edit of the property |
| `aggregate_counts` | `CountsWhatIsRead` | a child whose markings were cleared is readable and is not counted |

Each property is checked under the failures it survives. `SerialReplay` and `SerialCompensation`
hold with one handler at a time and not with two, and the second for approvals after which the action wrote no
fewer properties of the object (section 5). `SettlesUnlessAbandoned` excludes the requests
the engine gave up on: it logs a failed definition read, a failed callback or an error of its own
database, and goes on. `CaughtUpAgrees` supposes that no older record of a principal is repeated
after a newer one (`InOrder`): such a repeat puts the old status back, and only the next refresh
repairs it, which is what `EventuallyAgrees` says.

### Bounds

Two relays, handlers or approvals are what an interference needs; a third event in the
outbox gives a cause, an effect and a poison row in front of them, with batches of two so that a
batch can end between them. A chain of reverts needs three invocations: one, another that
overwrites it, and one undone; compensation needs a fourth for an edit between two of the same
action. Two restarts let a redelivery be redelivered. Two identity changes are a disable
undone by an enable, or a status and a revocation, around the two reads of a snapshot; safety was
also checked once with three (7.0 million states). Retries are bounded by 2 where the code has
`_EVENT_ATTEMPTS`: one that is retried and one that is the last.

A window of the cursor needs two rows, at one time or at two (with more rows than `MaxBoundary` at one time,
those that were capped are appended at every sync and the states have no end; that case is left to the
proof of `NothingSkipped`). While no row has a cursor value each sync appends the others again, and
`MaxSnapshots` ends it after one. Two of the events of `MaxEvents` are
a lost lock and a request, or a commit of unknown outcome and the failure of the sync after it. A stream
needs two keys and one message to skip. Starvation needs a tenant with two hanging jobs, more than its
slot, and a tenant whose two jobs queue behind each other. An interface needs a parent, a child and
a third for a cycle or a conflict. A merge that dies and is approved again is two requests, and a
third races it. A sync beside a reindex needs two tables. One write of
a row or of a link, with its revert (which no bound counts), meets every step of a worker; longer series of writes are left to
the theorems of `KnowledgeProofs`, which hold for any bounds. A page of one with batches of one makes
three rows take several pages and several batches. Two requests in flight show each race
between a check and a write, a third comes after it, and one fault each lets a compensation run.

`CHECK_DEADLOCK FALSE` stands only where a bounded system may really stop: those whose topic ends
or whose requests are counted. `Denylist`, `Outbox` and `ActionEngine` can always take a step.
Symmetry is used where every property is a safety property; `ImplementsLifecycle` is one.

### Fairness

- `Outbox!Fairness`: weak fairness of the poll, since `relay_forever` loops for ever and catches
  every exception; strong fairness of sending and stamping, which are retried at each poll: the
  broker and the process are not down every single time. None of a transaction's commit.
- `EventConsumer!FairSpec`: weak fairness of the loop as a whole, and no outcome of processing is
  favoured: it may fail every time. Strong fairness of a quarantine that goes through, since
  the loop tries it again until the dead letter queue is up.
- `MCActionSaga!MCFairSpec`: weak fairness of the loop as a whole; of the relay, only the first
  delivery is fair, which is `EventuallyRelayed`.
- `Denylist!FairSpec`: weak fairness of the tasks and of first deliveries; strong fairness of an
  answered refresh, which is tried every 30 seconds for ever. A dead consumer stays dead.

- `OntologyPublishing!FairSpec`: a cache entry expires by the clock, and the event loop resumes every
  coroutine. None of a request being made.
- `IncrementalSync!Fairness`: weak fairness of every step of a sync and of the scheduler's poll, loss
  and submission. No outcome of a commit is favoured; failures are bounded.
- `StreamConnector!Fairness`: weak fairness of a task's next step and of an assignment of an unowned
  partition; strong fairness of the end of a drain window, which is a timeout that recurs.
- `JobRunner!Fairness`: asyncio wakes waiters in order, and the jobs of tenants that do not hang end.
- `CircuitBreaker!Fairness`: callers go on calling, every call ends (the HTTP clients have timeouts),
  time passes.

## 4. Proofs

| Theorem | Statement |
|---|---|
| `EventBusProofs!RelayTypeCorrect` | `RelaySpec => []RelayTypeOK` |
| `EventBusProofs!OnlyCommitted` | `RelaySpec => []OnlyCommittedOnTopic` |
| `EventBusProofs!NoLoss` | `RelaySpec => []StampedIsOnTopic` |
| `EventBusProofs!Causality` | `RelaySpec => []CausalOrder` |
| `ActionSagaProofs!LifecycleAppliedOnce` | `LifecycleSpec => []AppliedOnce` |
| `ActionSagaProofs!SagaTypeCorrect` | `Spec => []TypeOK` |
| `ActionSagaProofs!WritesAreApproved` | `Spec => []NoWriteWithoutApproval` |
| `ActionSagaProofs!CompletionIsTrue` | `Spec => []CompletedIsWritten` |
| `ActionSagaProofs!FailureIsRecorded` | `Spec => []FailedIsRecorded` |
| `DenylistProofs!DenylistTypeCorrect` | `Spec => []TypeOK` |
| `DenylistProofs!NoTokenRevived` | `Spec => ReplaceDropsNothing` |
| `DenylistProofs!CaughtUpIsRight` | `ASSUME ~FreshGroup PROVE Spec => []CaughtUpAgrees` |
| `EventBusProofs!ConsumerTypeCorrect` | `Spec => []TypeOK`, given bounds that are natural numbers |
| `EventBusProofs!CommitsOnlySettled` | `Spec => []CommittedIsSettled` |
| `EventBusProofs!StreamKeepsCommitted` | `StreamSpec => []StreamNotLost` |
| `ActionEngineProofs!CaptureHolds` | `Spec => []CapturedIsCurrent` |
| `ActionEngineProofs!EngineImplementsLifecycle` | `Spec => ImplementsLifecycle` |
| `ActionEngineProofs!EngineAppliesOnce` | `Spec => []Lifecycle!AppliedOnce` |
| `OntologyPublishingProofs!RowIsPublished` | `Spec => []LiveIsPublished` |
| `OntologyPublishingProofs!EventsTellHistory` | `Spec => []EventChain` |
| `OntologyPublishingProofs!MergeHasReview` | `Spec => []MergedWasReviewed` |
| `OntologyPublishingProofs!ProjectFollowsRow` | `Spec => []ProjectLinkSettles` |
| `IncrementalSyncProofs!CursorSkipsNothing` | `Spec => []NothingSkipped` |
| `IncrementalSyncProofs!EachRowLandsOnce` | `Spec => []RowsLandOnce` |
| `PlatformProofs!SourcesAreSound` | `Spec => []SourcesSound` |
| `PlatformProofs!AgentsAreAccounted` | `Spec => []AgentsAccounted` |
| `PlatformProofs!RegistrationsAreSound` | `Spec => []RegistrationsSound` |
| `PlatformProofs!SubmissionsAreSound` | `Spec => []SubmissionsSound` |
| `KnowledgeProofs!LinksAreFaithful` | `Spec => []LinksFaithful` |
| `KnowledgeProofs!ExecutionIsSound` | `Spec => []ExecutionSound` |
| `KnowledgeProofs!TypesAreGoverned` | `Spec => []TypesGoverned` |
| `KnowledgeProofs!SearchFollows` | `Spec => []SearchFollowsStore` |

The assumptions are the ones named in the modules (`OutboxAssumption`, `SagaAssumption`,
`DenylistAssumption`, `EngineAssumption`, `PublishingAssumption`, `SyncAssumption`,
`StreamAssumption`, `PlatformAssumption`, `KnowledgeAssumption`): finitely many events, a topic that is a
sequence, bounds that are natural numbers, a boundary of at least one key, fault kinds that exist, a cost
of an answer that has a maximum, ids that are positive numbers, a consumer that is not a refresh job, and
a `None` that is no row, request or value. Sets of handlers, replicas, clients, approvals, instances,
properties, columns, payloads and branches are arbitrary, and so are the bounds on what happens.

*Outbox.* None of the properties is inductive. `IInv` adds that rows have distinct ids that
follow the sequence and exceed those of every event committed before them, that a batch
holds committed rows, and, for `CausalOrder`, that whatever was committed before a row of a
batch is in front of it in the same batch, on the topic, or poison. The last is what a broker error must
not break: it gives up the whole rest of the batch.

*Saga.* `SagaInv` ties the engine's place to its records: from `call` on, the last
execution row is of the approval in hand and running; at `complete` and `announce` its edits are
in the source; at `callback` the failure is recorded; a late call belongs to an approved request
(a late compensation, to a recorded failure). `AppliedOnce`, a theorem about the lifecycle, turns
"approved" into "applied once". The proof holds for every set of faults and any number of copies and restarts.

*Denylist.* Between `Ask` and `Replace` each token on the in-memory list must be in
Identity's table, or expired (`Durable`), and, once the last statement has run, in the answer,
among the captured events, or expired (`AnswerCovers`). A token leaves Identity's table only once
expired, so a token on the list when the statement runs is in its answer, and one that comes later
is captured.

For `CaughtUpAgrees`, `AgreeInv` adds that Identity's tables are the last event of each principal
(`TablesAreLast`), that the consumer never falls behind its group's offset (`KeepsUp`), that the sets
in memory are those of the last record read (`ServedIsFresh`), and what a replace would install
at any moment: the last *captured* event of a principal is its last record, and for a principal with
none captured the snapshot is as new as anything read (`AnswerIsFresh`). The snapshot and the capture
separately may be stale; the invariant is about the two together, which is what the replay after the
replace relies on. `~FreshGroup` is needed: the first boot of a host has a gap (section 5).

*Event consumer.* `CommittedIsSettled` looks at the committed offset, but a commit commits the
position. `ConsumerInv` therefore says that every record the loop has left behind is settled
(`LeftBehind`) and that, where the loop is about to commit, the record in hand is too (`AtRecord`).
A death of the task needs the same fact, since a restart goes back to the committed offset.

*Streams.* `StreamInv` has two layers. Whatever the number of writers, what the owner of the partition has
read past was written or is in what it holds, so that it is in a snapshot when the offset is committed
(`TaskWrites`). With a single writer (`SoleWriter`), what was committed is in the dataset, in the stored state
and in what the task holds, and what the task has read since is stored or in its batch: this is why a new task may
overwrite the dataset with what it loads, and why a failed cycle must keep its batch.

*Action engine.* `EngineInv` has the shape of the tables, what each handler holds at each of its
places, and two facts about the row locks: two transactions never hold one approval
(`ApprovalExclusive`) nor one edit row (`EditExclusive`). `CapturedIsCurrent` is inductive with
the second. The refinement needs the first: what a handler read about an approval under its lock is
still so when it commits, so that `approve`, `compensate` and their racing sweeps are single steps of the
lifecycle; appending an invocation adds one to the cardinality that the mapping takes for `applied`.
`EngineAppliesOnce` takes the inductive step of `LifecycleAppliedOnce` over to the engine's state.

*Publication.* `PubInv` adds the foreign keys and what an approval leaves behind (`StoreOK`) and what
each handler carries from the statement that read it to the one that uses it. It does not say that
a handler's read is still current, which is false before the lock: the publication is proved from
the check repeated under the lock. `ProjectLinkSettles` needs a second invariant for the behaviours
without overlap or refusal (`Calm`): the cache is empty or the live row except just before an invalidation,
and SpiceDB agrees with the row unless a handler has still to reconcile it.

*Ingestion.* `SkipInv` extends `NothingSkipped` from the stored cursor to every cursor there is: that of the
table's snapshot and those in the hands of syncs in flight. A cursor is `Honest` towards a set
of rows if what it covers is in the table or in that set; a sync's next cursor is honest towards what it
keeps, and towards nothing more once its snapshot has landed. A sync between two pages holds exactly the rows of the pages behind it that its start does not cover (`PagesHonest`); what
arrives there afterwards is `late`. The proof holds with
overlapping syncs, capped boundaries, orphaned threads, rows without a cursor value and any number of replicas. `OnceInv`, for runs without
overlap and cap, adds the converse for rows with a cursor value: what is in the table is covered by the cursor or by the snapshot's,
and a sync that has adopted the newer of the two keeps no row of the table. Both need the maximum of a finite set
of times; that it exists follows from the well-foundedness of `<` and takes no induction over the set.
The first attempt at `NothingSkipped` failed for a file with an earlier name and the same time as one that
was read; this is the history variable `late` (section 5).

A step of `MCPlatform` or `MCKnowledge` is a step of the component in focus and leaves the others alone
(`ComponentSteps`), so each component has an invariant of its own, and the theorem of a joint property combines
those of its components.

*Sources and connections.* `SourcesInv` counts the requests under way until two overlap (`OneRequest`),
says what a request found free is still free (`ChecksHold`) and what it still owes to SpiceDB and to the
connection (`UsableSoon`); the owner of a name is then unique. For connections it is enough that a
registration in flight stores only secrets supplied for its own destination.

*Agents.* `AgentPhase` says that a session is untouched until the request that creates it has linked it; `AgentSole`, for a session no other
turn disturbed, says where the books are: with the one turn that runs (`HeldBy`) or in the row (`HeldByRow`),
and that the transcript awaits exactly the tool results the turn still has to record (`Awaiting`). What requests
returned is the day's tokens, those of a turn between its return and its bill, and `unbilled`. In a chain every
event was granted the same depth; a request that has yet to create its session is of a reading that started none, at most
one request is of a reading, and the consumer has moved past every reading that started one unless it waits for it.

*Registries and applications.* `ToolsOne` makes a registration past its check the only one, `ToolsFree` has it go on
only with a name that was free, or with the action that took it later on record. `ModelsBacked` ties a row, a prediction and a registration in flight to the artifact of its version, `ModelsFirst` allows one
first registration under way, before any tenant has the model. For applications `AppsEdits` says what each edit has validated at
its place, `AppsRows` that every version but the last is promoted, and promoted as it was checked, `AppsProject` that SpiceDB and the
column differ only by the change under way.

*Submissions.* `SubsOnce` gives each instance at most one claim (`OneClaim`): an invocation, a pending approval
or a submission past its criterion, unless it is contended; what stands (`Stands`: not reverted) or is `Due` keeps the instance closed
to the next. A request, and then its invocation, carries what its edit was held against (`Vetted`). `SubsLeft` says that what is stored under the
key of a request is what its outcome will tell. `BatchAccounted` is then a statement about a set with at most one element.

*Links.* Events come in the order of their snapshots and the label is behind only while one is queued
(`LinksEvents`, `LinksSettled`) or after a quarantine (`behind`); what a worker labels is no newer than what it reads (`LinksJobs`); a worker nobody
overtook works for the relation as it is (`LinksCalm`).

*Plans.* `Looked` relates a plan in flight to the lake and the catalogue at once: its pins are no older than
what was catalogued at its start, its scans no older than its pins, and if nothing moved meanwhile all of them are
the current versions. `PlansFiled` says that a result is filed under the pins it was read at, so that a hit is
as new as the request that finds it.

*Types.* Every write marks the other requests stale, so what a request has read is still current until it is
marked (`CalmOf`); versions are archived up to the live one and no further (`TypesArchived`); PostgreSQL and SpiceDB differ only
by what one request between its two writes still owes (`TypesOwed`), or by a merge that changed the project (`ungoverned`). `TypesFit` has what survives races.

*Serving store.* The event in hand stays queued until its documents have landed, and documents and reindexes are dated in
the past (`ServingInHand`). A purge spares the documents of the rows the reindex has passed, being of its generation
or later than its start (`ServingSpares`); beside a reindex that nothing overlapped every document is of a
present row or older than the reindex (`ServingClean`); hence none without a row after the purge (`ServingExact`).
The next id of a page is the least above the last; it exists by well-foundedness, as above.

TLC also checks each of these inductive invariants, without a violation, on the instances of section 3.

Checked by TLC only:

- the liveness properties (`EventuallyRelayed`, `EventuallyAgrees`, `EventuallyFresh`,
  `EventuallyIngested`, `EventuallyCommitted`, `StreamCatchesUp`, `NoStarvation`, `BreakerRecovers`,
  `SettlesUnlessAbandoned`), which are out of the prover's reach;
- `SerialReplay` and `SerialCompensation`, whose value after a chain of reverts is a replay of the whole
  history of invocations, an induction over data;
- `InterfacesSound` and `ReadsGoverned`, whose contracts, walks and aggregates are recursive functions and folds over
  sets: what those compute is again an induction over data;
- `AccessSound`, whose requests carry the rest of their writes as a sequence made from a set in some order.

## 5. Where code and documentation differ

Two differences have a run of their own (section 3). The models describe these others; a property
that does not cover one excludes it by a named history variable, constant or bound, or says it in its comment.

- `events.py:221` logs "leaving offset uncommitted" for an invalid record the dead letter queue refused;
  the next commit commits the position, hence also that record (`CommittedIsSettled` allows it for
  `refused` ones only).
- `declarative_edits.py:225` says a revert is "only ever for the single most recent qualifying
  invocation"; the check is before the transaction, so an edit may commit in between. `SerialReplay`
  is for handlers one at a time.
- `declarative_edits.py:158-167` says that compensation deletes the rows its approval wrote; it deletes the properties
  of the latest invocation of the action on the object (173-200). Where the action is function-backed or was redefined
  (`action_types.py:195-198`, 302), or another approval of it was applied since, values of the failed approval
  stay, and values of others go: the run `compensation_foreign` has the second, and `CompensatedEditIsGone` leaves out
  approvals after which the action wrote fewer properties there.
- `declarative.py:173-187` validates an edit with `parameter_name` "reason" against `parameters["reason"]`, as a rule
  null, and `declarative_edits.py:107-125` writes the top-level reason: its value meets no rule of the
  property (`EditsVetted` asks for an editable property only). A second submission is refused by its
  criterion until the first is reverted, and then accepted (`AppliedOnce`).
- `events.py:151` says offsets are committed "only after successful processing"; `workflow.py:281` logs
  a failed trigger and commits (`abandoned`).
- `principal_status.py:9`: on the first boot of a host there is no group offset, and a change between
  Identity's reads and the first position of the consumer is in neither; the refresh repairs it. The
  `denylist` run is for a group that exists (`FreshGroup = FALSE`).
- `cursor_window.py:7` says a row "lands in the dataset once"; two replicas that sync at once, while the
  old leader has not noticed that it lost the lock, or a manual sync beside a scheduled one, append it twice
  (`overlapped`), and so may a boundary of more than `_MAX_BOUNDARY_KEYS` rows (`capped`, which two
  rows do not reach).
- Rows whose cursor property is null (`bare`): as long as the source has no cursor, each sync appends all of
  them again, against the same line; once one is stored they are never read (`cursor_window.py:175-179`).
  The three properties of the `ingest` run are for rows with a cursor value.
- A source read in pages changes between two of them (`generic_rest_fetch.py:201-226`): the cursor may
  pass a row that arrived on a page already read (`late`).
- `file_cursor.py:3` says that resuming by name alone skips a file that is "uploaded out of order after a later
  name was already synced", and resumes by time and name instead; among files of one time it still does, and
  SFTP times have whole seconds (`late`; `NothingSkipped` and `EventuallyIngested` leave those files out).
- `publishing.py:271` says the lock prevents "two concurrent callers from each validating against the
  same version and then both writing"; the validations are before the lock, and only the check of the
  version number is repeated under it. `LiveIsPublished` and `EventChain` hold all the same.
- A merge of a branch sets or clears `project_urn` (`resource_branching.py:108`, 130, 219-220, 242-243), or creates the type,
  and nothing on its path writes the relation to the project: PostgreSQL and SpiceDB disagree until the next boot or
  change of project (`ungoverned`).
- A create that had read no row writes over a type that was published meanwhile (`clobbered`).
- `catalog.py:306-321` quarantines a sync event that keeps failing and commits it. The version is in the catalogue by then,
  so join pairs and documents stay behind it until the next sync, refresh or boot (`behind` of `LinkStore` and of
  `ServingStore`).
- `search.py:164-168` checks the status of a `_bulk` request and not its items: a document OpenSearch refused is missing or
  old until the next sync or reindex (`spared`).
- `core.py:180-184` asks for the markings of the principal and of its mandant before a search, 305-307 for the principal's
  alone before a read: what an agent may read it need not find (`SearchAgrees`).
- `masking.py:97-98` says nothing is derived from a masked value; the aggregates over foreign keys (`derived.py:243-299`,
  `serving_store.py:302-371`) take the stored values of children, confidential ones included (`AggregatesAgree`).
- A marking changed on an instance is not written to its search document until the next sync or
  reindex (`GovernedReads!indexed`).
- A page that finds nothing readable in its 32 batches ends the walk early (`capped`).
- A stored result is looked up by the versions of its datasets and not by the columns its properties are
  mapped to: after a republished mapping it answers with the old column, and an aggregate over it
  is masked by the new one (`MaskedForReader`).
- `routers/execute.py:52-76` and 207-211 mask the value of an aggregate and not the values a `group_by` groups by, nor a
  filter on a confidential property; 245-248 leave the `t_` columns of a join in clear when the target type is
  unknown (`MaskedForReader` names both).
- An execution adapter's answer is stored under pins it need not have read (`StoredAtPins` is for
  DuckDB).
- A save that read a draft before its promotion writes into the promoted version (`raced` of
  `Applications`).
- Completion events of chained sessions are delivered at least once (`outbox.py:107`, `events.py:151`) and never committed, and
  `agent_chain_trigger.py:127-162` does not look for a follower that exists: each copy of a record, and each reading
  of it after a restart or a rebalance, starts one. `OneFollower` is per reading; `ChainBounded` holds over all of them.
- The model calls of `/sessions/{urn}/replay` (`sessions.py:150-159`) and of an evaluation (`rag.py:82-111`) are in no account
  (`unbilled`); the tokens of a turn that dies are in none either (`lossy`).
- A model's name is shared by all tenants; first registrations of two tenants that race may replace or
  delete each other's row, and a link that a failed seed made after all outlives its row and lets that tenant
  replace the model another registers under the name (`raced` of `ModelRegistry`).
- `routers/execute.py:162` reads `execution._OBJECT_TYPE_TO_DATASET`, which the module does not define,
  so a join over an object-backed relation fails before it is planned; `ExecutionCache!Ops` has the
  bridged join for join datasets.

Reached too, without a property that forbids it: a timed-out write that takes effect after the
compensation (`LateEffect`), a second execution of one approval after a redelivery, a completed
execution whose event was not enqueued, and two first writers of one property who both capture that
nothing was there.

### Simplifications

What the models merge or leave out of the handlers they have:

- `OntologyPublishing`: a publication's cascade of the lifecycle to property rules (`publishing.py:294-302`) is left out, and
  the awaits of `object_types.py:172-200` before the upsert are one step.
- `ActionEngine!CompensateRead` is one step for the reads of the approval and of its invocation.
- `Outbox!Publish`: a row that does not parse would stop every batch like a broker error; `enqueue` writes
  nothing but what `EventEnvelope` serialises.
- `StreamConnector!Drain`: a record that is no JSON fails in the consumer, which logs it and tries again
  (`stream_connector.py:63`), and a topic that another tenant holds ends the task (76-80). Neither is modelled:
  `StreamCatchesUp` is for JSON records on a topic of the tenant's own.
- `AccessControl`: a boot reads whether there is a usable administrator, and the root's row, in its first step.
- `AgentSession!Load` reads the row and the transcript at once. In `AgentChain` an error that is not of HTTP ends the loop,
  which is a position that no longer moves until a `Reread`.
- `TypeRegistry`: the `lifecycle_status` a merge may set is left out; the join links a merged relation refreshes are
  `LinkStore`'s.
- A SpiceDB write that fails is taken to have had no effect, except in `ModelRegistry`.

## 6. Not modelled, and what comes next

The reasons are in `components` of `PROJECT.json`. In short: drivers and parsers of the connectors, query
construction and scoring of search, user expressions, SAML and OIDC, the language-model gateway, the
web UI, audit, migrations and deployment are I/O, formatting, evaluation or plumbing. Object sets,
history reads, lineage, previews of actions and the pipeline of file conversions change no state that
another component relies on. Hazards the code has and no property covers are in `hazards` of
`PROJECT.json`, each with a note.

Theorems worth proving next: `AccessSound`, with the writes a request has still to make as a set in place of
a sequence; and `HierarchySound` of `InterfaceContracts` for hierarchies of bounded depth.

## 7. Running

    tlc -config MCOutbox.cfg Outbox
    tlapm EventBusProofs.tla

Each run's module and configuration are in `runs` of `PROJECT.json`.
