# Verification of Observable

TLA+ modules for Observable, a multi-tenant observability backend: the path of
telemetry from the ingest gateway to ClickHouse, what is queried from there,
alerting with its notifications and incidents, and the control plane in
PostgreSQL. The modules are written from the Rust source, not from the documents
in `docs/` and `spec/`, and not from the sketches in `formal/tla/`.
`PROJECT.json` maps every definition to the lines it models.

## 1. The system

    OTLP and Prometheus clients
        |
    ingest-gateway  --telemetry.raw.v1-->  stream-processor
        ^                                      |  telemetry.normalized.v1
        | deployment.markers.v1                v
        |                                 storage-writer --> ClickHouse
    admin-service <--> PostgreSQL                               |
                         ^    ^                                 |
    auth-service --------+    +---- alert-evaluator <-----------+
                                                                |
    frontend --> query-api (questions, searches, charts) <------+
    playground --> query-core's DuckDB renderers, in the browser

| Component | State | Operations | Interacts through |
|---|---|---|---|
| ingest-gateway | rate-limiter buckets, cardinality sets, deployment registry (memory) | authenticate, limit, convert, charge, publish | appends to `telemetry.raw.v1`, HTTP to auth-service, consumes `deployment.markers.v1` |
| stream-processor | batch buffer, offset watermark, span-metrics window (memory); group offsets (broker) | receive, tick, flush with retry, commit, flush metrics | consumes raw, publishes normalized |
| storage-writer | message in hand, flush loops (memory); group offsets (broker) | receive, insert per table with retry, acknowledge, commit | consumes normalized, inserts into ClickHouse |
| alert-evaluator | `alert_rules`, `alert_firings`, `incidents`, `incident_events`, `slos`, `notification_channels`, `notification_audit_log` | evaluation cycle, suppression pass, notification worker, API of rules, SLOs, channels and incidents | PostgreSQL, reads ClickHouse, posts webhooks |
| auth-service, observable-auth | API keys, sessions, users | validate a key, OIDC callback, sign and validate sessions, tenant selection | PostgreSQL |
| admin-service | tenants, tokens, members, dashboards, saved views, deployments, model settings, semantic annotations | CRUD with grants, purge, publish markers, internal endpoints | PostgreSQL, `deployment.markers.v1` |
| query-api, query-core | sessions of two-phase questions (memory) | answer questions, plan and run searches, histograms, charts, topology, inventory, catalog | reads ClickHouse, internal endpoints of the others |
| playground | - | the same queries rendered for DuckDB | query-core |
| frontend, configuration, self-telemetry | - | - | - |

What is hard here, and what correctness means for each part:

* **stream-processor.** One task both receives and flushes, so its offsets
  (`watermark`) cover records of the batch being published. Commits are
  asynchronous; a rebalance may hand a partition to another replica while
  buffer and watermark survive in the first. *Correct*: a committed offset never
  passes a record that has not been published, every record is published in the
  end, published spans are counted in the span metrics.
* **storage-writer.** One message is spread over up to five tables, each with
  its own insert and retry. *Correct*: a committed message has all of its rows,
  no row appears twice within the deduplication window, events do not precede
  their spans, the backlog drains.
* **Both together.** Neither commit may cover a record that the other service
  can still lose; redelivery must not show rows twice.
* **ingest-gateway.** Two converters for one protocol, a third for Prometheus
  histograms; a budget charged before a publish that may fail or time out while
  its client retries. *Correct*: accepted means published, budgets hold for every
  order of exports, the same export means the same over every transport.
* **alert-evaluator.** Every SQL statement stands alone; errors and crashes fall between any
  two; two notification workers overlap in a rolling update; responders change the same
  incidents. *Correct*: one open firing per rule, suppression that can end, notifications
  that are true, are attempted a bounded number of times and settle, incidents and timelines
  that explain each other, verdicts that follow the telemetry.
* **Control plane.** Handlers check in one statement and write in another; a
  session, a key or a grant can end in between. *Correct*: nobody acts on
  authority never granted, retired keys and ended sessions stay so, an object
  and a tenant keep an owner and an administrator, what one endpoint writes
  another reads back, also over HTTP and when that read fails.
* **query-api.** Many SQL texts about one set of rows, while rows keep arriving.
  *Correct*: a page agrees with its count, a histogram with its search, a tail
  shows no row twice and none out of order, charts add up, the browser's queries
  agree with the server's; a question keeps its filters from the text to the SQL and
  gets a scope where it has none, a session is spent once and stays with its tenant.

`PROJECT.json` lists the components with their status and the hazards line by
line, each with the properties that would notice it going wrong.

## 2. Modules

| Module | Models | Built on |
|---|---|---|
| `Telemetry` | envelopes and messages, `NormalizedBatch` | - |
| `AtLeastOnce` | what a stage promises: an abstract specification | - |
| `StreamProcessor` | `consumer.rs`, `main.rs`, `metrics.rs`, `batch.rs` | `Telemetry`; implements `AtLeastOnce` |
| `StorageWriter` | `normalized_consumer.rs`, `buffer.rs`, `lib.rs`, `spans.rs` | `Telemetry`; implements `AtLeastOnce` |
| `TelemetryPipeline` | both services joined by the normalized topic | instances of both |
| `OtlpConversion`, `PrometheusConversion` | the three converters of ingest-gateway | - |
| `IngestGateway` | the export endpoints, limiter, budget, publish | both conversions |
| `AlertEvaluator` | the evaluation cycle: firings, suppression, notices, incidents | - |
| `Notifications` | channels, the audit log, the notification worker | - |
| `Incidents` | incident statements of evaluator and responders, timelines, the report's summary | - |
| `AlertRules` | rules and SLOs as stored, verdicts on telemetry, listings | - |
| `ServiceCatalog` | service discovery and catalog, the SLO half of the report | `AlertRules` |
| `Tenancy` | users, tenants, roles: names shared by the control plane | - |
| `Accounts` | sessions, API keys, members, tenants, the doors of each service | `Tenancy` |
| `SharedObjects` | dashboards and saved views, grants, export and import | `Tenancy` |
| `Deployments` | deployment markers, their topic, the gateways' registries | `Tenancy` |
| `ModelSettings` | settings of the language model and who reads them | - |
| `NlqIr` | the intermediate representation of a question | - |
| `QueryPlanning` | from the representation to a query's conditions | `NlqIr` |
| `NlqPipeline` | the question endpoints and their sessions | `QueryPlanning` |
| `TelemetryQueries` | log, trace, topology, inventory and counter queries | - |
| `MetricQueries` | metric tables, merges, metric endpoints | `TelemetryQueries` |
| `PlaygroundQueries` | the DuckDB renderers against the server's queries | `MetricQueries` |
| `SumTheorems` | theorems about sums over finite sets and the least number | - |
| `StreamProcessorProofs`, `StorageWriterProofs` | theorems | the component modules, `SumTheorems` |
| `TelemetryPipelineProofs` | the end-to-end theorem | `TelemetryPipeline`, whose instances the theorems of the two modules above are about |
| `AlertingProofs` | theorems | `AlertEvaluator`, `Notifications` |
| `AccountsProofs` | theorems | `Accounts` |
| `ControlPlaneProofs` | theorems | `SharedObjects`, `Incidents`, `Deployments`, `ModelSettings` |
| `DataPlaneProofs` | theorems | `IngestGateway`, `NlqPipeline`, `ServiceCatalog`, `PlaygroundQueries`, `SumTheorems` |
| `MCStreamProcessor`, `MCStorageWriter`, `MCTelemetryPipeline`, `MCAlertEvaluator`, `MCAlerting`, `MCControlPlane`, `MCDataPlane` | instances for TLC | the component modules |

Definitions whose comment starts with "Mutant:" are not part of any
specification. Each is the variant of the definition below it that a plausible
mistake in the code would produce; every property of a passing run, and every
part of a combined one, is violated by one of them.

### StreamProcessor

State: the raw topic, the group's assignment (`owner`) and offsets
(`committed`), and for each replica its program counter in `run_batch`, its
fetch positions, `buf`, `watermark`, queue of commit requests on the way
(`inflight`), and span-metrics window (`agg`). Offsets count records:
`committed[p] = n` means that the first n are done.

| Action | Code |
|---|---|
| `Receive` | the receive branch of the select loop: watermark first, then deserialise, a full buffer goes to the flush |
| `Tick` | the interval branch: flush a filled buffer, else commit the watermark |
| `RecordSpans`, `Publish`, `PublishFails` | one attempt of the handler inside `flush_with_retry`; a failed publish may have been delivered, and the next attempt counts the spans again |
| `Commit`, `CommitArrives`, `CommitLost` | `commit(.., Async)` and what becomes of the request |
| `FlushSpanMetrics` | the background task: drain, publish once, only log an error |
| `Crash`, `Restart`, `Assign`, `Rebalance`, `Produce` | environment |

`normalise` and scrubbing change the text of a record and are left out.

### StorageWriter

State: the normalized topic, assignment and offsets, and for each writer the
message in hand (`cur`), the tables it still owes (`todo`), commit requests; and
for ClickHouse the sequence of inserted blocks of each table with their tokens.
`Stage` is the order in which `run`, `insert_spans` and `flush_metrics` insert.
`HasRow` says which envelopes have a row in a table, and `RowsFor` copies those
rows out of a message in order, as the loops of `insert_spans` do.
`Token` is a pair of the block and, for rows with an attribute map of several
keys, the iteration order of that map in this deserialisation: the
deduplication token hashes the serialised rows. `InWindow` is ClickHouse's rule
(external). A flush loop never holds rows of two messages, because `run` awaits
the acknowledgement of each part; so buffering by rows or time does not appear.
`ConsumerStops` is the end of the consumer task on an error, after which the
process stays up. The retention worker is not modelled.

### TelemetryPipeline

`SP!Next` and `SW!WriterStep` interleave; `normalized` is the one shared
variable. `StorageWriter` states its own producer twice: `MessageArrives` appends
any message, and `OpenSpec` is the service behind such a producer; `PublishMessage`
adds the bound under which it is checked alone. The path uses neither: a message
arrives when stream-processor publishes one.

### IngestGateway and the conversions

An export waits for auth-service and for the publish; between the two awaits its handler is
one step, which limits, decodes, converts and charges. State: per replica the token buckets
and the set of known series of each tenant, the topic, and per export its stage and answer.
A client repeats an export that failed, a replica restarts with empty sets. The conversions
are operators: attributes and bodies as trees of one level, point types, temporality, the
fallback of a Prometheus histogram without a +Inf bucket. The converter filters the sorted
buckets; the model sorts the filtered ones (`HistogramPoint`), which is the same sequence of
bounds. Each converter reads the `isMonotonic` of a sum in its own way: a JSON body may
leave it out, which is stored as unknown, where protobuf has `false` (`JsonMonotonic`,
`ProtoMonotonic`), and the id of a series depends on it. `ConversionsAgree` compares the
JSON with the protobuf converter, for values that both can write (`Portable`,
`PortableLabel`) and sums that state their monotonicity (`PortableMetric`), and the parts of
a histogram with its total: per histogram and time, bounds increase if no bucket is
repeated, and the counts add up to the +Inf bucket if the scrape was cumulative.

### AlertEvaluator, Notifications, Incidents, AlertRules

Four views of one service, which share no state in the models. `AlertEvaluator` is the cycle
over rules whose verdict is free: one action is one SQL statement, `RuleFails` is an error
that the loop over the rules logs, `CycleFails` one that ends the cycle, or a crash and
restart; these two are bounded faults. `SkipRule`, a rule without telemetry or with a
condition that does not parse, is a step of its own: it may be taken in every cycle, for
ever, and no bound counts it. An administrator may delete a channel that rules still name
(`DeleteChannel`); from then on the foreign key rejects its notice in every cycle
(`EnqueueRejected`), and what would have followed is left out. `Notifications` takes any
queued notice: a worker fetches a batch, posts, updates the row, and may die between the
two; two workers overlap. `Incidents` has the worker and two responders at the statements of
an incident, with its timeline; a second evaluator during a rolling update is modelled for
the notification queue only. `AlertRules` stores rules and SLOs through the API, lets
samples arrive late or early, and computes the verdict of each type from them;
`ServiceCatalog` reads the same samples and the verdicts as discovery and the reliability
report do.

### Accounts, SharedObjects, Deployments, ModelSettings

One action is one statement or one transaction; a request in flight remembers
what its earlier statements read. `Accounts` covers OIDC callback, signing and
validation of sessions, selection of a tenant, the API keys with rotation and
expiry, members, purge, and the way each service turns headers into a caller
(`require_tenant_query` and its siblings), which have to agree. `SharedObjects`
has both kinds of object over the same handlers, the validation of panels and
layouts with 64-bit columns that wrap, and export followed by import. `Deployments`
joins admin-service, the marker topic and the registries of two gateways with one
consumer group.

`ModelSettings` writes one row per field with no transaction. admin-service and
query-api have an environment each (`adminEnv`, `queryEnv`), which
`docker-compose.yml` gives different values. A question reads the settings twice,
first the provider (`AskQuestion`) and then, unless query-api was started with
`LLM_API_KEY`, the connection (`SendQuestion`); each read is a request to
`/internal/config/llm` that may fail, after which query-api goes on as if nothing were
stored. What a PUT must not overwrite is kept in `before`: the PUTs that had been
answered when it began. So overlapping PUTs are part of the claim.

### NlqIr, QueryPlanning, NlqPipeline

The pure part is operators over abstract words: envelopes an answer may come in, merging
with the page's own representation, service scope (a filter added to a representation that
has none on `service_name`, whatever that one says), fuzzy metric names, routing, the fields
that may be filtered on (the fixed ones and the registered dimensions), and the conditions
of the SQL. An `ir` that is no object panics in `normalize_nlq_ir` and ends its task: a
`complete` then loses its session (`Panics`). Filters of sequences are written with `Kept`,
a recursive function, since the prover knows nothing of `SelectSeq`; `Names` is `STRING`
with the literals of the module named, because it cannot tell that a literal is a string.
`NlqPipeline` adds the endpoints: `prepare` stores a session, concurrent `complete`s take
it, await and may put it back, sessions expire.

### TelemetryQueries, MetricQueries, PlaygroundQueries

Rows arrive in any order into a set; a query is the meaning of its SQL over that set.
Searches read count and page in two statements, the context of a log row reads pivot, rows
before and rows after in three, tails poll with a cursor. Both branches of the topology
query have the lower bound of the window, on different spans. Names of infrastructure are
sequences, the parts between their slashes, since an id joins names with slashes: `a/b` and
`c` have the id of `a` and `b/c`. Filters that only make the set of rows smaller
(environment and service of the topology, cursor and facets of the search) are left out.
`MetricQueries` has a catalog entry for each stream of a group (monotonicity and
temporality) but a chart for the group, as the two statements have. It adds what ClickHouse
does with `metric_series`: an insert is a part, a merge keeps one row of a sorting key.
`PlaygroundQueries` evaluates the DuckDB texts over the same rows, with DuckDB's division
and rounding.

## 3. Runs

TLC, two workers; the states are the distinct ones.

| Run | Expect | Properties | States |
|---|---|---|---|
| `processor_delivery` | pass | `TypeOK`, `CommittedImpliesPublished`, `SpanCallsAccounted`, `DeliverySpec`, `EventuallyPublished` | 158,048 |
| `writer_delivery` | pass | `WTypeOK`, `CommittedImpliesStored`, `EventsFollowSpans`, `PointsStoredOnce`, `WDeliverySpec`, `EventuallyStoredOrStopped` | 205,280 |
| `pipeline_delivery` | pass | `NoCommittedLoss`, `EventuallyVisible` | 72,141 |
| `alerting` | pass | `FiringsAreSound`, `NoticesMatchFirings`, `DeliveriesAreAccounted`, `ResolvedIsFinal`, `IncidentsFollowFirings`, `ActiveIsAnnounced`, `NotificationsSettle` | 347,673 |
| `control_plane` | pass | `CredentialsAreHonoured`, `SharedObjectsAgree`, `RegistryIsFaithful`, `SettingsAgree`, `IncidentRecordsAgree`, `TenantsAndSessionsHold`, `GuardedRemovalKeepsAdmin`, `ChangesWereAuthorized`, `AccurateRevokeKeepsOwner` | 269,470 |
| `data_plane` | pass | `ExportsAreAccounted`, `ConversionsAgree`, `SessionIsSpentOnce`, `QuestionsKeepMeaning`, `AllLogViewsAgree`, `AllSpanViewsAgree`, `AllMetricViewsAgree`, `RulesAndCatalogAgree`, `SessionsBelong`, `VerdictsFollowTelemetry` | 389,696 |
| `writer_hash_order` | violation | `RedeliveryDeduplicated` | |
| `pipeline_duplicates` | violation | `NoDuplicateVisibleRows` | |
| `alert_storm` | violation | `SuppressedStaysQuiet` | |
| `shared_revoke` | violation | `RevokeKeepsOwner` | |
| `metric_charts` | violation | `GroupPointsAddUp` | |
| `webllm_fallback` | violation | `WebllmStaysLocal` | |

What a property says stands in the comment above it. Several are conjunctions of
named parts, each of which has a mutant of its own:

| Property | Parts |
|---|---|
| `FiringsAreSound` | types; one open firing per rule; a suppressed firing has a critical one that inhibits it; what the worker remembers between two statements is still true |
| `DeliveriesAreAccounted` | a row is sent only after a receiver took it and failed only after the last attempt; the POSTs of a row are bounded |
| `CredentialsAreHonoured` | types; a request acts on authority that was granted; retired keys are refused; the doors of the services agree; a listed tenant can be selected |
| `TenantsAndSessionsHold` | requests change rows of their own tenant only; an ended session stays ended |
| `SharedObjectsAgree` | types; grants have objects; what is listed can be read; an exported dashboard imports; panels fit the grid with columns that wrap at 64 bits |
| `RegistryIsFaithful` | stamps name real deployments of the tenant; a registry follows the markers it consumed, unless an event was lost, repeated or out of order; list, enrichment and correlation agree |
| `SettingsAgree` | each stored field is of the last PUT of it, or of one that overlapped that; with one environment the console shows and tests what questions use; a question is sent with a key that was set and not against settings at rest |
| `IncidentRecordsAgree` | a second open incident stems from a reopening; a resolution is dated; the timeline explains the status; the report counts what is there |
| `ExportsAreAccounted` | accepted means published, refused means not; the budget holds |
| `ConversionsAgree` | JSON and protobuf; Prometheus histograms |
| `QuestionsKeepMeaning` | a plan filters on `service_name` as the representation did, or by the scope where it did not; an answer means the same in every envelope; guessed metric names are registered ones; filters reach the SQL |
| `AllLogViewsAgree` | tail, page and count, histogram and search, context over three statements; the playground's texts |
| `AllSpanViewsAgree` | trace search, detail and histogram; edges of the topology backed by the traces of the window; workloads with plain names; the playground's texts |
| `AllMetricViewsAgree` | counters over resets; catalog entries, groups and charts over inserts and merges |
| `RulesAndCatalogAgree` | stored conditions are readable; listings and internal endpoints; catalog and report |

### Bounds

Components that share no variables are checked in one run, and a behaviour
follows one of them: the variable `focus` of `MCAlerting`, `MCControlPlane` and
`MCDataPlane` chooses it in the initial state, and the others stay in theirs. A
product of independent state spaces would add nothing. Where a second dimension
multiplies the states, a bound of the MC module keeps the full bounds from
meeting: `WithinBounds` of `MCStreamProcessor` and `MCStorageWriter`,
`AccountsBound` and `DeploymentsBound` of `MCControlPlane`, `RulesBound` of
`MCDataPlane`; each says in its comment what it leaves out.

* **Delivery.** Two replicas. Two records of one partition let a commit stop between them
  and a restart batch them differently; two partitions with one record each make a watermark
  with two offsets and one commit request for both. Two faults allow the combinations that
  matter: a rebalance followed by a crash of the new owner, a crash with a commit of the
  dead member still on the way, a failed publish followed by a crash. The safety of both
  stages is proved for all bounds. The two messages of the storage-writer's topic differ
  (`WithinBounds`): one has rows for every table, another one a log that the first has not,
  a third cannot be parsed. So the second is stored only by a writer that goes on after the
  first, and with a deduplication window of two an insert of logs may be repeated with
  another one in between, inside the window; outside of it ClickHouse promises nothing.
  Attribute maps have two iteration orders while one message is in the topic and one beyond
  that. The pipeline has one replica and one writer, since what it adds is the two commits
  one after the other.
* **Alerting.** Three rules (critical, warning, composite of both) and three firings: the
  warning rule has a duration and the critical one none, so that one firing is pending when
  it is suppressed and a second one is open when the first comes back (the unique-index
  conflict of `Lift`). One fault, a failed statement or a crash, and one request, which may
  silence or edit a rule, touch an incident or delete the channel that all rules name; rules
  without a verdict are not faults and not bounded. One notice to two channels, two workers,
  one retry and one outage: both workers hold the same row, one dies after its POST.
  `RetryLimit` is ten in the code and one here; the bound on POSTs is stated in terms of it.
* **Control plane.** Two users, two tenants, two requests in flight, two or three changes:
  enough for a check of one request, a change by another, and the write of the first. A key
  has two secrets, so that one is rotated. `MaxInt` is 127 for 2^63 - 1: the sums that must
  not wrap are of two columns. The settings of the language model start empty or with a key
  stored in the clear; two PUTs with three kinds of bodies, one with an unknown provider,
  and one question meet under five pairs of environments: the same for both services in four
  of them, in the fifth that of `docker-compose.yml`, which gives a key to query-api only.
  Two gateways, two markers, one finish and one restart let a registry miss or repeat an
  event.
* **Data plane.** Nine exports, one of each signal and of each kind of damage, among them a
  sum without `isMonotonic`, two in flight, a budget that two of them exceed together. Seven
  answers of the model and six questions, two calls on one session of one replica. Four rows
  each of logs, spans and points with equal times, a child that starts before its parent and
  a counter reset, which arrive in every order. Four metric batches that repeat a series and
  two series with one sorting key. Two rules or SLOs, two samples (one kind of them without
  service and environment) and a clock of three values, so that a sample lies on each
  window's edge.

Symmetry is used over requests, row ids and gateways in `control_plane` and over requests
and tenants in `data_plane`; their temporal properties are action properties, for
which it is sound. `CHECK_DEADLOCK FALSE` stands in every configuration: when the
bounded clients, producers and faults are used up, the services wait for ever, as
they should; the evaluator waits once the bound on firings is reached
(`ActiveIsAnnounced` claims nothing beyond that point).

### Fairness

* Weak fairness of every branch of the consumer loops: a tokio task that is ready
  is polled, the branches of `select!` are chosen at random. `flush_with_retry`
  and `retry_until_success` never give up, and faults are finite, so a retried
  publish or insert succeeds at last.
* Weak fairness of `Restart` and of assignment: Kubernetes restarts a pod that
  exited, the group coordinator assigns free partitions. No fairness is assumed
  for a storage-writer whose consumer task has ended: the process is alive and
  ready, and nothing restarts it.
* Weak fairness of the evaluator's steps as a whole: the interval of
  `start_eval_worker` ticks on and statements return. Nothing forces a verdict: a rule
  may be skipped for ever, and `ActiveIsAnnounced` speaks of rules that are given a
  verdict again and again (`[]<><<Judge(r)>>`) and none of whose channels is deleted.
* Weak fairness of each notification worker and of the clock that ends a
  backoff. This assumes that a POST returns: the HTTP client of the worker sets no
  timeout, and a receiver that never answers would stop the queue
  (`evaluator.rs:1097`, listed as a hazard without a property).
* `control_plane` and `data_plane` state no fairness and check no liveness.

### Findings

* `writer_hash_order` - rows with two attributes have no stable deduplication
  token, since `HashMap`s are serialised in iteration order; a redelivery after a
  crash between insert and commit is visible twice (`storage-writer/src/lib.rs`
  calls the token deterministic).
* `pipeline_duplicates` - a crash of stream-processor between publish and commit
  makes another message of the same records, with another token
  (`formal/tla/README.md` excludes duplicate rows across crash windows).
* `alert_storm` - while a firing is suppressed, every cycle opens, announces and
  suppresses another one of the same rule (`spec/07-alerting-slo.md` says that
  inhibition prevents storms).
* `shared_revoke` - two owners who revoke each other at the same time leave a
  dashboard without one; the comment at the statement excludes it.
* `metric_charts` - a series that came in two batches counts twice in the chart of
  its group until a merge.
* `webllm_fallback` - when query-api cannot read the provider it goes on as with a remote
  one, and sends a question to the stored endpoint although the stored provider is WebLLM
  (`spec/adr/ADR-035-webllm-client-side-nlq-provider.md` says that `POST /v1/nlq` cannot be
  reached and answers 503 there).

Observed while modelling. Most have no document that settles what is right; where one
says otherwise, it is named, and the properties claim only what the code does:

* A receive error ends the consumer task of storage-writer for good while the pod
  stays ready (`normalized_consumer.rs:50`); `EventuallyStoredOrStopped` has the
  escape for it.
* The span-metrics task of stream-processor drains its window before it publishes
  and only logs a failure (`main.rs:75`).
* `POST /v1/admin/members` sets the role of an existing member, the last
  administrator's too (`admin_members.rs:84`); `GuardedRemovalKeepsAdmin` is about
  removal, which is guarded.
* The purge of a tenant leaves records in some tables (`docs/retention-deletion.md:76`).
* The gateways' registry and the SQL of the deployment lookups order candidates
  differently (`deployment_registry.rs:22`).
* An infrastructure id that matches two workloads answers 404
  (`discovery.rs:623`); service summaries have no upper time bound
  (`discovery.rs:302`).
* Scoped trace queries drop filters other than equality (`mcp_query.rs:377`);
  `parse_relative_minutes` multiplies in `u32` (`mcp_query.rs:592`).
* Change detection ignores integer points (`evaluator.rs:592`); a span dated in
  the future silences a deadman rule (`evaluator.rs:544`); an SLO with a burn-rate
  threshold above 1 / (1 - target) can never fire (`slos.rs:84`).
* A deadman rule made through the API is stored without the `service_name` that the
  evaluator's condition requires (`alerts.rs:400`, `evaluator.rs:55`) and skipped in every
  cycle, though `docs/agent-context.md:502` says that such rules are supported;
  `ConditionsAreReadable` speaks of the other types.
* The service scope of a question is added only where the representation has no filter on
  `service_name`, whatever its value and operator (`llm_adapter.rs:1363`), though the
  comment at `llm_adapter.rs:150` says that it is enforced "regardless of what the LLM
  emits"; `ScopedQueriesFilter` says which of the two a query is restricted by.
* The id of a series hashes `is_monotonic` (`metric.rs:57`); the JSON converter makes `None`
  of a missing `isMonotonic` (`http-json/convert.rs:229`), which is how proto3 JSON writes
  `false`, and the protobuf converter `Some(false)` (`grpc/convert.rs:284`). The same
  counter is two series, one for each transport. Bytes and missing values also differ
  (`http-json/convert.rs:42`), where the comment above says that values are consistent
  across transports.
* The catalog has an entry for each monotonicity and temporality, the chart of an entry
  adds the points of all of them (`metrics.rs:206`), though `spec/09-api.md:120` says that a
  chart is of one metric identity.
* With `LLM_API_KEY` set, questions ignore a URL stored by the Setup page, which the page's
  own test uses (`llm_adapter.rs:58`, `spec/08-ai-ml.md:208`); `ConsoleShowsWhatIsUsed`
  excepts this case.
* An answer whose `ir` is not an object panics (`llm_adapter.rs:871`); a two-phase question
  then ends without an answer and its session is gone.
* Two workloads may have one id, because names may hold slashes and missing names are left
  out (`discovery.rs:1042`).
* A rule that names a deleted channel fails its foreign key before the incident is written,
  in every cycle (`evaluator.rs:866`, `evaluator.rs:1050`); a statement that fails after the
  UPDATE to resolved loses the resolved notification (`evaluator.rs:897`).
* The reliability summary counts a reopened incident as open and as resolved
  (`reliability.rs:127`).
* While a series has several rows, the chart of a group adds each of its points once per
  row: a sum of values that are not negative is never too small, one with negative values
  may be (`metrics.rs:208`).
* A scrape that repeats a bucket has its bound twice in the stored histogram
  (`prometheus_rw/convert.rs:229`); an integer label that JSON cannot parse is stored as "".
* The sorting key of `metric_series` lacks environment and resource, so that a
  merge can drop the only row of a series (`003_create_metrics.sql:18`).
* DuckDB rounds where ClickHouse truncates, so that the playground's histogram
  buckets differ from the ones it mirrors (`log_query.rs`); its topology finds no
  co-occurrence in chains of three services (`topology_query.rs:9`).

## 4. Proofs

Checked by TLAPS for every value of the constants. A theorem that names a
property of §3 states the same definition that TLC checks on a small instance.

| Module | Theorem | Statement |
|---|---|---|
| `StreamProcessorProofs` | `TypeCorrect` | `Spec => []TypeOK` |
| | `DeliverySafe` | `Spec => []CommittedImpliesPublished` |
| | `DeliveryRefines` | `Spec => DeliverySpec`: implements `AtLeastOnce` |
| | `SpansAreCounted` | `Spec => []SpanCallsAccounted` |
| `StorageWriterProofs` | `WTypeCorrect` | `Spec => []WTypeOK` |
| | `StorageSafe` | `Spec => []CommittedImpliesStored` |
| | `StorageRefines` | `Spec => WDeliverySpec`: implements `AtLeastOnce` |
| | `EventsAfterSpans` | `Spec => []EventsFollowSpans` |
| | `PointsOnce` | `Spec => []PointsStoredOnce` |
| `TelemetryPipelineProofs` | `PathProcesses`, `PathWrites` | the composed path implements each of its components |
| | `PathLosesNothing` | `Spec => []NoCommittedLoss` |
| `AlertingProofs` | `FiringsSound`, `NoticesSound` | `[]FiringsAreSound`, `[]NoticesMatchFirings` |
| | `ResolvedStaysResolved`, `IncidentsFollow` | `ResolvedIsFinal`, `IncidentsFollowFirings` |
| | `DeliveriesAccounted` | `NtSpec => []DeliveriesAreAccounted` |
| `AccountsProofs` | `AccountsInvariant` | `AccSpec => []AccountsInv` |
| | `CredentialsHonoured` | `AccSpec => []CredentialsAreHonoured` |
| | `RequestsAndSessions`, `RemovalKeepsAdmin` | `TenantsAndSessionsHold`, `GuardedRemovalKeepsAdmin` |
| `ControlPlaneProofs` | `SharedInvariant`, `SharedObjectsConsistent` | `[]SharedInv`, `[]SharedObjectsAgree` |
| | `ChangesAreAuthorized`, `RevokesKeepOwners` | `ChangesWereAuthorized`, `AccurateRevokeKeepsOwner` |
| | `IncidentsInvariant`, `IncidentsConsistent` | `[]IncidentsInv`, `[]IncidentRecordsAgree` |
| | `DeploymentsInvariant`, `RegistriesAreFaithful` | `[]DeploymentsInv`, `[]RegistryIsFaithful` |
| | `SettingsInvariant`, `SettingsAreAgreed` | `[]SettingsInv`, `[]SettingsAgree` |
| `DataPlaneProofs` | `ExportsInvariant`, `ExportsAccounted` | `[]IgInv`, `[]ExportsAreAccounted` |
| | `ConversionsAlwaysAgree` | `IgSpec => []ConversionsAgree` |
| | `SessionsInvariant`, `SessionsAreSpentOnce`, `SessionsAreOwn` | `[]NlqInv`, `[]SessionIsSpentOnce`, `SessionsBelong` |
| | `QuestionsKeepTheirMeaning` | `NlqSpec => []QuestionsKeepMeaning` |
| | `RulesInvariant`, `CatalogAndRulesAgree` | `[]RulesInv`, `[]RulesAndCatalogAgree` |
| | `VerdictsAreSound` | `ArSpec => VerdictsFollowTelemetry` |
| | `LogViewsAgreeAlways`, `SpanViewsAgreeAlways` | `TqSpec => []AllLogViewsAgree`, `TqSpec => []AllSpanViewsAgree` |
| | `CountersAddUp`, `ChartsAgreeAlways` | `TqSpec => []RatesAddUp`, `MqSpec => [](MetricViewsAgree /\ PlaygroundMetricsMirror)` |
| | `MetricViewsAgreeAlways` | `TqSpec /\ MqSpec => []AllMetricViewsAgree`, from the two above |

With these every invariant and action property that a passing run checks is proved.

### Assumptions

Each module names its own (`StreamProcessorAssumption` and so on), and TLC
evaluates them on every run. Most say that a bound is a natural number or that
"nobody" is none of the users. The others:

* replicas, users, notification workers, deployments and exports are finite sets,
  since the code counts over them (sums over replicas, `COUNT(*)` of
  administrators and owners, workers that hold a row); there is at least one
  notification worker, pod and tenant with a key, and there is an iteration order
  of attribute maps;
* the parts of the body of an export are finitely many (`ExportsAreFinite`);
* the bodies of rules and SLOs are what serde lets through, with each field of its
  type or missing; rules of the seed are complete and belong to no SLO
  (`RulesAssumption`);
* a Prometheus request has finitely many time series, whose buckets have counts in
  `Nat` (`*v as u64`) and bounds not above `Inf` (`AreTimeSeries`);
* logs, spans and points have times in `0 .. MaxTime`, points integer values, and a
  span id is unique in its trace (`QueryAssumption`);
* there are finitely many metric series and points in a batch, a batch brings the
  series of its points, and a chart's group has one metric type (`MetricAssumption`);
* questions and answers are what serde makes of a body, and the registry returns lists
  of names (`NlqAssumption`);
* JSON texts of a panel come from a set `Words` that has the words the code
  compares with; a column number is at most `MaxInt > 24`;
* obfuscation of a key is one-to-one and its result, a string of hexadecimal
  digits, is never the text that stands for a key stored unobfuscated
  (`ModelSettingsAssumption`).

The conjuncts `MaxRecords`, `MaxFaults`, `MaxOps` and their like only bound the
actions that stand for the environment; the proofs hold for each value of them.

### Arguments

None of the invariants that matter is inductive alone. What each strengthening
adds stands in the component module, below its properties.

* `DeliveryInv` follows a record backwards from the offset that was committed:
  every record below the **fetch position** of an owner, and below the
  **watermark** of any replica, owner or not, is settled (published, or without
  telemetry) or in that replica's own buffer; every record below an offset in a
  **request** is settled; the buffer is empty when the loop is about to commit.
  The watermark part speaks of replicas that have lost the partition, since their
  watermark survives. `Publish` carries the argument: what was in the buffer
  becomes published at the moment the buffer empties (`PublishedStable`,
  `CoveredStable`).
* `AccountInv` of the span metrics: the spans counted include those of every batch
  that is being published, so publishing adds none (`CountedSpans`). A batch that
  is tried again is counted again, hence `<=`. Its sums over replicas are folds,
  that is, recursive functions; `SumTheorems` derives what is needed of them
  (`SumSplit`, `SumChanges`, `SumDrops`) without an induction scheme: among the
  subsets of a finite set for which a fact fails there is one with the fewest
  elements.
* `StorageInv`: for the message in hand, everything before it in the partition is
  durable and each of its tables that is not in `todo` has its block
  (`WriteInv`); an owner's position is durable or the message in hand
  (`PassedInv`); requests and commits point at durable prefixes. `ApplyStores`
  is the lemma about deduplication: after an insert the rows are there, whether
  the block was taken or its token was known. `EventInv` adds that a block of events
  has the spans of its message before it; that the rows of a block are those of
  the envelopes (`RowsForCopies`) is an induction over the loop of `RowsFor`, again
  by a least counterexample.
* `NoCommittedLoss` composes the two: `PathWrites` uses the processor's own type
  invariant to show that what arrives at storage-writer is a message; then every
  theorem about either service holds in the path.
* Alerting: `FiringsAreSound` contains what makes it inductive. `OneOpenFiring` and
  `InhibitorIsCritical` need `WorkerAgrees`: between the statement that changes a
  firing and those that announce it, what the worker remembers stays true, because
  requests touch no firing, and a cycle that fails forgets its job.
* `QueueInv` counts, for each row of the notification queue, the workers that have
  read it, those that would retry it and those that have posted it. A row read with
  fewer retries than it has now is what lets two workers exceed `RetryLimit`; the
  bound is `(RetryLimit + 1)` POSTs for each worker, and one for each outcome that
  an outage lost.
* `AccountsInv`: an authorization becomes one session at most; memberships, sign-ins
  and sessions carry roles that were held; no two keys share a secret and none has a
  retired one; a request in flight has seen what it acts on. `RemovalKeepsAdmin`
  follows since a removal that goes on has counted a second administrator or seen
  a target that is none.
* `SharedInv`: stored panels are valid and settled, so that a second normalisation
  changes nothing (`SettledRowsStay`); a call in flight names an object that has
  existed and a tenant and relation that were right when they were read, and none
  of this can become wrong afterwards.
* `IncidentsInv`: an event of the timeline is written or *due*, that is, about to be
  written by the worker or by a call; an ended incident is marked; the worker
  inserts only beside incidents that have come back.
* `DeploymentsInv`: the current status of a marker is on its way (`OnItsWay`): still
  to be published, or in the last event about it that the owner of the partition
  has not consumed, or in that owner's registry.
* `SettingsInv`: the value of each field is one that some PUT wrote and that no PUT begun
  after its answer wrote (`SettingsAreCurrent`, which needs only that `before` holds
  answered PUTs: one that writes a field has not been answered yet, so that none began after
  its answer). A question that has been asked with no PUT in flight, and is not disturbed by
  one, finds the settings it read first (`QuestionInv`), so that its second read belongs to
  the same provider. What the console shows and what a question uses is then compared case
  by case over the environments (`ConsoleAgrees`), and a key that is sent is one that was
  stored, read back (`KeysComeBack`, `CallerKeys`).
* `IgInv`: a request passes its stages in order, nothing is in the topic before
  its publish began, and the count of a replica for a tenant is the sum of the
  charges that it remembers (`SumDrops` when a restart forgets them). What was published
  could be decoded, so that `StoredHistograms` may speak of its buckets.
* `ConversionsAgree` is then a statement about operators. The two converters are compared
  scalar by scalar, list by list, attribute by attribute (`ScalarsAgree`, `ValuesAgree`,
  `AttributesAgree`, `LabelsAgree`, `MetricsAgree`). For a histogram: finitely many buckets
  can be sorted, the largest bound last (`SortExists`, by a smallest set that cannot); the
  differences of cumulative counts telescope (`IntervalsAddUp`); bounds that differ
  increase (`BoundsIncrease`); and a stored point is that of one group of time series
  (`PointsOfRequest`).
* `NlqInv`: a token has one session at most, in the store of one replica or in the
  hands of one call, and that session counts the repairs asked for.
* `ScopeInv` follows the scope of a question through the calls: a call that waits for the
  model works on a question of some client, one that resumes has the request its session was
  prepared for, and a plan that ran is one that filters. A plan keeps its scope, which is
  `ScopeOf`: the filters on `service_name` that the representation came with, or else that
  of the request, because `enforce_service_scope` leaves those very filters
  (`ScopeIsAdded`), merging and overriding keep one (`OverridesHold`, `MergeHolds`), the
  sessions keep the request (`PrepareKeepsScope`, `CompleteKeepsScope`), and no template
  over metrics or logs drops one (`ClausesTranslate`, `QueriesTranslate`, `FiltersHold`).
  `Kept` and the parsers are read by lemmas that say what survives (`KeptHolds`,
  `AnswersAreRead`, `ShorthandIsRead`).
* `RulesInv`: a stored condition has the fields that the evaluator of its type
  reads (`CreateRuleKeeps`, `CreateSloKeeps`), and each SLO exactly one rule, with
  the SLO's service and environment. From the first follow readable listings
  (`ReadableIsListed`), from the second that the service list, the alert list and
  the reliability report name the same SLOs (`AlertsAreSlos`, `EnrichmentAsShown`,
  `SummaryAsShown`). A verdict changes with a sample in one direction only, because
  the counts of calls and errors only grow with one (`CountsWithSample`) and the
  burn rate, a quotient compared with a threshold, follows them (`BurnFollows`).
* `TqInv`: the tail's cursor is not before any row it has shown, those rows are in order and
  shown once, and what a search has counted is still stored when it reads its page. The rest
  of the log views is about **pages**: an order of rows has each of them once
  (`OrderOfRows`), a page of the first or last `n` leaves out only rows on the far side of
  it (`FirstPage`, `LastPage`), and a context grows by one page on either side in two
  statements (`BeforeKeeps`, `AfterKeeps`): between the rows of two pages that meet, no row
  of the source is missing that was there when the request began (`JoinIsContiguous`,
  `ConcatSorted`, `ConcatOnce`), although rows arrive in between. The buckets of a histogram
  are disjoint, so their sizes add up (`DisjointSizes`), and the width, a quotient rounded
  down, leaves a remainder smaller than the number of buckets (`IntervalFits`).
* The span views need of `TqInv` only that rows are finitely many. A search that is not
  full has all traces of its range (`LimitedPage`); of each pair of spans behind an
  edge one is from the window, so that the search finds their trace, and a counted error is
  a failed span of the callee (`EdgeCounts`, `PairsAreFound`); the failed calls that the
  playground draws map one-to-one into the failed spans of the callee, since a span
  has one parent (`FailedCallsAreSpans`); a path of four names that are all there and
  hold no slash is the id of no other names, unless one of those holds a slash
  (`PathsDiffer`, from `PartsCancel`).
* `PointsInv`: the points of a counter are finitely many and have one time each, so that
  there is one order of them; along it the gains telescope (`GainsAddUp`): what a counter
  gained is its last value less its first, and at each reset the value before it.
* `MqInv`: every part holds series that were inserted, for every one of them some part has a
  row with its sorting key whatever has been merged, and a flushed batch is described. Then
  the join of a chart misses no point. Its sums are those of `SumTheorems`, regrouped by
  series (`SumGroups`), compared term by term (`SumMonotone`, `SumScaled`) and added pairwise
  (`SumAdds`); an average lies between the least and the largest of its values.

Refinement: initial states and each step are mapped by `done <-
PublishedRecords` and `done <- DurableMessages`. A publish or an insert is
`Perform`; an arriving commit is `Commit`, allowed by `RequestInv` or
`WRequestInv`; appending a record is `Produce`, which also covers a message equal
to one that is stored already; everything else stutters.

### Only model-checked

* Liveness: `EventuallyPublished`, `EventuallyStoredOrStopped`,
  `EventuallyVisible`, `ActiveIsAnnounced`, `NotificationsSettle`. Fairness and
  ENABLED are out of the prover's reach.
* The texts behind the abstraction: which strings `Lower` and `Display` change, that the
  hash of a series is injective, how the scores of fuzzy matching are computed from
  letters. The theorems hold for the operators as the modules state them.

## 5. Not modelled

* What normalisation and PII scrubbing do to text (`observable-process`), and
  what formatting, SQL quoting and prompts look like: strings are opaque here.
* Retention deletes in storage-writer: after them "stored" would mean "was
  stored".
* A second evaluator during a rolling update outside of the notification queue;
  floating-point thresholds, quantiles and units.
* Semantic annotations of fields: single upserts, and a lookup that depends on the table
  alone, so that no behaviour is at stake.
* `usage.rs` and `change_events.rs` of query-api and the audit log: single
  inserts and read-only aggregations.
* Signatures, PKCE and the identity provider of auth-service: a sign-in is
  accepted or not.
* The playground's data generator, the frontend, configuration and
  self-telemetry of the services.

## 6. Plan

Done: the delivery path with its proofs; alerting with notifications, incidents
and rules; ingest; the control plane; questions, queries and charts. Left:

1. **Composition**: the evaluator's notices as the queue of `Notifications`.
2. **Retention**: a storage-writer whose rows leave again, with "stored" relative
   to the retention period.
3. **Cross traffic**: the spans that stream-processor counts as the points of a chart,
   from `agg` to `metric_points`.

## 7. Running

    tlc -workers 2 -config StreamProcessor.cfg MCStreamProcessor
    tlc -workers 2 -config ControlPlane.cfg MCControlPlane
    tlapm StreamProcessorProofs.tla
    tlapm DataPlaneProofs.tla

`PROJECT.json` names the module and the configuration of each run; a run takes
up to three minutes. Run `tlapm` on each of the eight modules with
theorems; the largest takes some minutes from nothing.
