# FrontierIQ: specifications

FrontierIQ is a governance platform for Microsoft 365 Copilot tenants. It ingests audit and usage
signals from Microsoft Graph and the Scenario Library, keeps a registry of tenants and their
governance decisions, detects overshared content and proposes coaching actions. Everything under
`src/src` is JavaScript modules; state is kept in closures, in values the caller passes from call to
call, or in snapshot files. This directory holds TLA+ modules of the parts whose correctness depends
on the order of things, the TLC configurations that check them, and proofs of what matters most.

Paths below are relative to the repository; the product's source is `src/`, its docs are `docs/`.

- [1. Inventory](#1-inventory): the system's components, and what is hard in each
- [2. Modules](#2-modules): which module models what, and how its state and actions correspond to the code
- [3. Runs](#3-runs): what each run checks and shows, its bounds and fairness
- [4. Proofs](#4-proofs): what is proved, from what, and by which invariant
- [5. Disagreements](#5-disagreements-between-the-documents-and-the-code) found on the way
- [6. Limits](#6-what-the-models-leave-out): what is abstracted, what is only model-checked
- [7. Not modelled](#7-not-modelled): which components are left out, and why

Tools: `tlc -config X.cfg M` for the runs of section 3, `tlapm M_proofs.tla` for the proofs.

## 1. Inventory

How the parts interact: *Observe* (Graph, Scenario Library, webhooks) fetches and normalises; its
runs are begun by a scheduler in the same Node process or by a caller that keeps the checkpoint or the
snapshot. What it returns goes to Foundry through a handoff batch. *Secure* assesses the index that was
built from it and answers a state the caller keeps. *Govern* keeps tenants, policies, exceptions and
waivers, and is called by the API. *Optimize* ranks actions, tracks their remediation and reports.
There are no threads: two things interleave only where one awaits, or where two flows have read the
same immutable value.

| Component (source) | State and operations | What is hard | What makes it correct |
|---|---|---|---|
| Scenario ingestion scheduler (`src/observe/ingestion/scenario-library-ingestion.mjs:308-335`) | a timer in a closure; start, stop, isRunning, the interval callback | start awaits between the test and the assignment of the timer; the interval does not await its run; a rejected run ends the process | nothing fires that stop cannot clear |
| Scenario Library ingestion, use case tracker (same file; `src/optimize/planning/scenario-usecase-management.mjs`) | a snapshot the caller stores, a tracker edited in place; one run fetches two things, merges, compares checksums, hands over | runs overlap; edits fall between a run's awaits; the two answers may be of different moments; malformed answers | no edit lost, Foundry not behind the store, it catches up |
| Delta reconciliation (`src/observe/ingestion/runtime-pipeline.mjs:196-248`) | a checkpoint the caller stores; paging, delta cursors | rejection in the middle, malformed pages, caller crash between delivery and store, overlapping runs, pages without delta cursor | the checkpoint never covers what was not delivered, but for malformed pages; every change is delivered |
| Webhook receiver, triggers, staging, handoff (same file) | none of its own: idempotency keys, artifacts, batches, which the caller keeps | duplicated or reordered notifications, one bad notification in a batch, lost answers, two artifacts of one path, expiry | what was answered is accounted for; what a batch refers to is still there |
| Foundry connector (`src/observe/ingestion/foundry-iq-connector.mjs`) | builders that take each other's results from the caller | steps repeated with other arguments | what is reported ready has what it rests on |
| Ingestion contracts (`src/observe/ingestion/ingestion-*.mjs`, `src/observe/foundation`) | lists of failures, lineage and quality events | boundaries of replay windows, ratios of empty lists, averages that rise when a bad member leaves | an outage leaves only the tail beyond the cap; nothing improves by ageing |
| Tenant registry, repository, snapshots (`src/govern/tenant`) | an immutable list of records, a snapshot file; upsert, transition, reads | flows that share a value, restarts, unvalidated initial lists | no second record of a tenant, reads return what was acknowledged, the lifecycle is left only by upsert |
| Tenant management API, API runtime (`src/observe/api`) | none: the host passes the records it has read; routing, two gates, handlers | the list an answer is given from is stale; success without a store | an answer is of the time its call was open, what was acknowledged is read back |
| Authentication, permission scopes (`src/govern/auth`) | none; claims against tenant, audience, expiry | several refusals at once, scopes against roles | refused requests change nothing and read nothing |
| Governance operations (`src/govern/operations`) | exception, waiver, review and approval records with a trail of events | an external clock, back-dated events, approvals after expiry | what is approved was approvable then, a trail tells what happened |
| Policy evaluator and trace (`src/govern/enforcement`), policy catalog (`src/govern/policy`) | none; decisions over conditions and lists | precedence of rules; three validators of one list of permissions | more risk is never answered more mildly |
| SIEM integration (`src/secure/siem`) | a plan of routes, the events the SIEM keeps by id | events that share an id, a route that fits a sample and not the event, minimum severities | a decision that matters reaches the SIEM as an event that speaks for it |
| Security triage: access anomalies, incident priority, prompt injection, privacy posture, data minimisation (`src/secure`) | none; scores over evidence | bands, caps, rounding | a case about which more is known is not treated more mildly |
| Onboarding, skills and roles (`src/govern/onboarding`, `control-system`, `validators`) | plans, executions, secrets, released skills, which operator and caller keep | executions that carry no plan, life against rotation of a secret, validators that collect permissions differently | nothing risky without approval, no surprise expiry, readiness is earned |
| Compliance (`src/govern/compliance`) | attestation windows | rounding to days | nothing is overdue unannounced |
| Overshare detection and enforcement (`src/secure/overshare`, `src/observe/ingestion/foundry-iq-connector.mjs`) | the connector's enforcement state, the last assessment's findings, both kept by the caller | thresholds and weights of different functions, escalation by recurrence, findings older than the index, dedupe of findings | no restriction without cause, a suspension stands, what was shown is reported |
| Remediation tracker (`src/optimize/delivery/remediation-tracker.mjs`) | one record per action: open, acknowledged, resolved, verified | records sent back, times left out, ages from the wrong timestamp | nothing stuck is missing from the list, a verified record is consistent and final |
| Coach actions (`src/optimize/delivery/coach-action-*.mjs`) | none; lists of the pillars | duplicates by id and by control in any order, ties, cut against filter | everything once, the best first |
| Multi-tenant orchestration, fairness guard, Graph clients, signal correlator (`src/observe/graph`, `src/observe/signal-correlator.mjs`) | queue with priorities, rate-limit slots, retry counts, signals grouped into risks | a tenant listed twice, calls that interleave, fail and are retried, answers in any order | every entry is accounted for once; a late event only raises a risk |
| Refresh planner (`src/observe/graph/scheduled-refresh-planner.mjs`) | ages of the pillars' data | a clock left at the epoch | a caller that asks in time has data no older than twice its interval |
| Service health, alerts (performance metrics, objectives, `alert-threshold-engine.mjs`) | samples, metrics | percentiles, clamped values, distances relative to a threshold | good news never worsens a verdict |
| Fabric IQ, Work IQ, adapters, registry | none; requests, mappings and normalisation of one record | - | functional, unit-testable |
| Delivery documents, optimisation models, planning and reporting | none; formatting and weighted scores | - | functional, unit-testable |
| Operating model, identity graph | none; catalogs and documents | - | functional |
| Backlog board extension (`.github/extensions`) | a server per canvas instance, the list a page holds | open against open and close, late answer of a refresh | a URL is served until its instance is closed, no server is orphaned but by a race, a page does not go back |

`PROJECT.json` lists every component with its status, and every hazard at its line with the properties
that cover it.

## 2. Modules

| Module | Models | Used by |
|---|---|---|
| `IngestionScheduler` | `createScenarioIngestionScheduler` | extended by `ScenarioIngestion`; proofs in `ScenarioIngestion_proofs` |
| `ScenarioIngestion` | the Scenario Library run, the scheduler that begins it, the operators who edit its tracker | `MCScenarioIngestion`, `ScenarioIngestion_proofs` |
| `ChangeFeed` | abstract: what incremental ingestion promises | instantiated by `DeltaReconciliation` |
| `DeltaReconciliation` | `runGraphDeltaReconciliation` and the caller that stores its checkpoint | `MCDeltaReconciliation`, `DeltaReconciliation_proofs` |
| `TenantRepository` | in-memory repository, snapshots, restarts | `MCTenantRepository`, `TenantRepository_proofs` |
| `TenantApi` | routes, dispatch, handlers and telemetry of the API, over the repository | extends `TenantRepository` and `AccessControl`; `MCTenantRepository`, `TenantRepository_proofs` |
| `AccessControl` | claims, scopes, the gates, pillars of a role | extended by `TenantApi` |
| `RemediationTracker` | remediation records and the overdue list | `MCRemediationTracker`, `MCDelivery`, `Delivery_proofs` |
| `CoachActions` | aggregation and delivery packages | `MCCoachActions`, which `MCDelivery` extends; `Delivery_proofs` |
| `BacklogBoard` | the board's host and its page | `MCDelivery`, `Delivery_proofs` |
| `OvershareEnforcement` | the two assessments and the enforcement decision over a changing index | `MCOvershareEnforcement`, `Security_proofs` |
| `SiemIntegration` | policy evaluator, events, routes, readiness, what the SIEM keeps | the same |
| `SecurityTriage` | five scoring contracts over a growing case | the same |
| `GovernanceClock` | the time governance records are judged against | extended by the next and by `GovernanceReviews` |
| `GovernanceExceptions` | exception workflow and portfolio | `MCGovernance`, `Governance_proofs` |
| `GovernanceWaivers` | waiver registry and audit trail | the same |
| `GovernanceReviews` | due attestations, attestation windows, review cadence | the same |
| `GovernanceApproval` | approval board, rules engine, governance matrix | the same |
| `PolicyCatalog` | the eight policies, their evaluators, the list of risky permissions | extended by `TenantOnboarding`, `IngestionRuntime`, `SiemIntegration` |
| `TenantOnboarding` | requests, bundles, workflow, checklist, skills and roles | `MCGovernance`, `Governance_proofs` |
| `IngestionRuntime` | webhook receiver, staging, handoff, the scenario pipeline's one-turn variant | `MCObserve`, `Observe_proofs` |
| `FoundryConnector` | the connector's set-up | `MCObserve`, `Observe_proofs` |
| `ReplayRecovery` | replay windows and duplicate verdicts | `MCObserve`, `Observe_proofs` |
| `SignalGate` | quality gate, freshness, lineage, source health | `MCObserve` |
| `GraphCollection` | orchestrator, Graph clients, correlator | `MCObserve`, `Observe_proofs` |
| `ServiceHealth`, `AlertThresholds` | performance health, objectives; alerts on metrics | `MCObserve`; `AlertThresholds` in `Observe_proofs` |
| `RefreshPlanner` | schedules, staleness, overdue pillars | `MCObserve`, `Observe_proofs` |
| `StableOrder` | lists that are filtered (`Pick`) or sorted (`SortedBy`, stable), as the language does it | extended by `CoachActions`, `GraphCollection`, `GovernanceWaivers` |
| `NumberFacts` | no code: a set of numbers that is not empty has a least and, if bounded, a greatest; what the operators of `StableOrder` return | six of the proof modules |

Parts that share no state are checked in one run: the `MC` module chooses one `part` at the start and
only that part moves, so that a run covers the sum of its parts. Their product would show no more.

An operator named `...` in a comment "Mutant of X" is a plausible mistake in X; substituted for X it
makes a property fail, which shows that the property depends on that line of the code.

### IngestionScheduler

`timer` is the closure variable; `live` are the intervals the event loop still fires, which the code
cannot see; `inflight` says of each slot whether it is free, holds the first run that a `start()`
awaits, or a run begun by an interval. `Start` is the code up to its `await`, `StartResolves` what
follows it (it does not look at `timer` again), `StartRejects` the rejected promise; `Tick`,
`TickResolves` and `TickRejects` are the interval's callback, whose rejection nobody handles: the
process ends, and its successor has a new scheduler. `start()` while a timer is armed, and `stop()`
while none is, return at once and are not steps. `startsOverlapped` and `runsOverlapped` remember that
two starts, or two runs, were in flight together.

### ScenarioIngestion

A run goes through `BeginByStart` or `BeginByTick` (conjoined with the scheduler's action),
`FetchScenarioTable` and `FetchSelectionLogic` in either order, and `FinishRun`, everything after
`Promise.all` in one turn of the event loop: merge of the tracker, comparison of checksums, handoff or
duplicate, and the caller's store. `FailRun` is a rejected fetch.
The snapshot is *shared*: `updateUseCaseTracker` mutates the stored object, so a run that captured it
sees later edits. `request[s].seen` is therefore `Shared`, or the last value of an object that has been
replaced since. `OperatorUpdate` applies a batch of updates up to the first that throws (the earlier
ones stay applied). A malformed answer is an empty table. A checksum is represented by what it hashes.
`intent` and `dropped` remember what operators asked for and which use cases left the tracker.

### DeltaReconciliation and ChangeFeed

A cursor is opaque to the code; the model gives it the place in the feed it stands for and keeps its
kind: none, paging, delta, or the literal `"initial"` that the code stores when no page carried a delta
cursor and there was no checkpoint. `Begin` takes the stored checkpoint, `FetchDeltaPage` is one turn
of the loop (a last page may come with or without delta cursor), `FetchMalformedPage` a turn whose items are no
array (`garbled` remembers the changes the page was to hold), `FetchRejects` a rejected page,
`Deliver` and `SaveCheckpoint` the two steps of the caller, `CallerCrashes` the loss of what it had not
stored. The service is external: it rejects `"initial"`, a cursor it never issued.
`ChangeFeed` is the promise: changes are ingested at least once, and the committed position never
covers a change that was neither ingested nor unreadable. The refinement maps `published` to `feed`, `ingested` to
`delivered`, `unreadable` to `garbled` and `committed` to `checkpoint.at`.

### TenantRepository

`repository` is the value the flows share. A flow reads it (`ReadRepository`), applies operations to
the value it holds (`Upsert`, `Transition`), and stores it (`Store`); nothing compares the value it
replaces. The list a repository is initialised with is not validated, so `seed` may hold a tenant
twice, an invalid record, or a hole (null), and the model does what `find`, `findIndex` and `map` do
with each: `UpsertTenantRecord` replaces the first record of the tenant, `TransitionTenant` overwrites
all of them, `findIndex` throws at a hole on its way, `map` at any hole. Refused operations (an invalid
candidate, a move that `TRANSITIONS` does not list) change nothing and are not steps. `SaveSnapshot`
and `Restart` are the persistence adapter: a restart takes the snapshot if there is one that loads, else
the seed. `acked` is the state last acknowledged per tenant, `stale` that a store replaced a value its
flow had not read.

### TenantApi and AccessControl

A client's call is a request together with the list its host has read (`Arrive`) and later an answer
(`Answer`, the whole of `executeRuntimeRequest`: route, bearer check, gate, handler, status code,
telemetry event, and then the host's store of the record of a successful upsert into the repository of
that moment). Between the two other calls are answered, and the host may be restarted from a snapshot.
`Verdict` is the first check that fails, in the order of the code. `handleListTenants` filters invalid records before it counts, `handleGetTenant` takes the first
record of an id: of a duplicate whose first record is invalid, list and get disagree. Of the reasons for
a refusal the runtime knows three; the others, and a tenant that is not found, become status 500.
The history in `call` is the set of states the tenant had while the call was open.

### RemediationTracker

One record per coach action with its four timestamps; time is a day, thresholds are hours as in the
code. A call passes the time or leaves it out, which stamps the epoch (`Stamped`). Each of
`CreateRemediationRecord`, `AcknowledgeAction`, `ResolveAction` and `VerifyResolution` is one function
of the file with its transition check; `Overdue` is what `buildRemediationSummary` lists. `since` is the day a
record took its status, `unstamped` the actions one of whose calls left the time out.

### CoachActions

The aggregation is a pure function; a state is what the pillars have reported, and `Report` and `Reset`
are the pillars. `AllActions`, `DeduplicateActions`, `Ranked`, `Passes` and `DeliveryPackage` follow the
functions of the two files, the order of ties included; a package is made of the list just aggregated. An
action is its id, pillar, control, severity, effort and worth (the product of clamped impact and
confidence, a small number). An id may be reported with two controls: the better action is kept, and
the other control may then be in no list.

### StableOrder

`filter` and the stable `sort` of the language, without recursion: the k-th element of an order is the one
with k - 1 before it. A recursion over the list would compute the same, and nothing could be proved of it
for lists of any length. `Computed` is the identity; it makes TLC compute a list once.

### BacklogBoard

`servers` is the map of `extension.mjs`, `listening` and `owner` the servers behind it, `opening` the calls
of `open()` that still await `listen`. `OpenStarts` and `OpenResolves` are the two sides of that
await, `OpenAgain` the call that finds an entry, `OnClose` deletes the entry and closes its server.
`raced` remembers the instances with overlapping calls. The page: `ClickRefresh` and the load begin a
fetch, `ServeIssues` is the server's answer (the list, an empty one for a private repository, or an
error object, which the page takes for an empty list), `FetchResolves` and `FetchRejects` the page's two
continuations, `RenderIssues` a change of a filter. `crossed` remembers that fetches overlapped. The two
sides share no state and are two parts; `BoardSpec` is both together, of which the theorem speaks.

### OvershareEnforcement

`source` and `index` are documents and chunks with their envelope (access list, label, personal data);
`Publish`, `Protect`, `Relabel`, `Rewrite`, `Remove`, `IndexChunk` and `DropChunk` are the changes of the
corpus between assessments (the connector's chunk is stamped with the envelope of the moment it is
indexed). `AssessIngestion` and `AssessQuery` are the two assessments followed by
`evaluateOvershareEnforcement`; the caller keeps `state` and the document findings `drifted` of the
last ingestion assessment, with which queries are scored. A hit may be marked as blocked, as redacted, or both, and warnings of the service are told apart only
where enforcement reads one as evidence (`SaysDenyLost`). The scores are the code's sums of capped
counts; `Decide` is its chain of thresholds (the last one met decides), the recurrence bump, the cap on
decisions without grave evidence, and the standing suspension. The properties speak of *every* next
assessment in each state, not only of the one that is taken.

### GovernanceExceptions, GovernanceWaivers, GovernanceReviews, GovernanceApproval

The functions of `src/govern/operations` take the record, and the date, from their caller, so that the
state is what the caller keeps: `request` (exceptions), `waiver` and `trail`, `item` (the date of the
last attestation), `score` and `votes`. Time is counted in half days, since the schedules round to days.

- `CreateExceptionRequest` and `AdvanceExceptionState` are the two functions of the workflow; an event
  carries today's date or a back-dated one. `Overdue` is what the portfolio counts.
- `RegisterGovernanceWaiver` registers or renews, `EnforceWaiverExpiry` maps the whole list as of *any*
  date, `AppendWaiverAuditEvent` appends and sorts (`ByDate` is the stable sort), `Approvers` is the
  lineage. `enforced` and `arrived` remember the latest date enforced and the order of arrival.
- `DueAttestations`, `WindowStatus` and `ReviewStatus` are the three functions that say what is due, of which two read a
  missing cadence as zero days;
  `Evaluate` is a caller that asks for both schedules, `Attest` an owner, `missed` remembers that
  a whole day went by without an evaluation, `warned` what the evaluations said since the attestation.
- `Decision` is the board, `Allowed` the rules engine with any subset of its rules, `Matrix` the default
  matrix with the lists it takes from the board and the baseline library. Scores are counted in
  halves since those between two bands (24.5) belong to none; `NoScore` is one that is no number.

### SiemIntegration and SecurityTriage

`EvaluateGovernanceRequest` is the evaluator, whose conditions come and go (`ConditionChanges`);
`Evaluate`, `ReportAssessment` and `ReportEnforcement` build the three kinds of events, `Forward` sends one
over the live plan (`ResolveSiemRoute` takes the first route that takes the event) to a SIEM that keeps
one event of an id. `GoLive` is the host that puts into service what `SiemReady` passes on its samples.
`SecurityTriage` has one open case of one of five kinds and actions that make it worse;
`Gravity` is what its contract says of it. Percentages are rounded as the code does.

### PolicyCatalog and TenantOnboarding

`PolicyCatalog` has no state. In `TenantOnboarding` an operator has requests validated and
planned (`Plan`), runs the script of the bundle step by step (`RegisterOrDeploy`, `GrantAdminConsent`,
`ProvisionSecret`), and records executions (`RecordExecution`), from whose list `EvaluateOnboardingWorkflowCheckpoints`
tells the state of the workflow: the last execution of a checkpoint counts, and one recorded for an earlier
plan as well. `SecretsAge` is a day, on which the manifest's rotation replaces what is due.
`AssessStep` is the checklist of the first run, `Release` the compliance bundle with skills and roles.

### IngestionRuntime, FoundryConnector, ReplayRecovery, SignalGate

- `Deliver` is one call of the webhook receiver with any sequence of changes still to be delivered:
  validation request and wrong method first, then invalid notifications set aside, then a throw if one of the rest
  cannot be mapped (the caller answers 500 and keeps nothing), else triggers by idempotency key. An
  answer may be lost, so that the sender delivers again. `Stage`, `HandOff`, `ScenarioRuntime` and
  `InstantPasses` are staging under paths, the batch, the pipeline and the expiry of what is stored.
- The connector's actions are its builders; each throws without what it needs and may be repeated.
- `Fail`, `Resume` (noticed or not) and `Replay` with `PlanReplayWindows` and `EvaluateReplayDedupSafety`;
  `missed` and `recovered` are the items of the source.
- `Accepted`, `QualityScore`, `Stale`, `HealthScore` and the lineage follow their contracts over
  signals that age; those in `Used` are collected anew with any of `Confidences`, and have actions built on them.

### GraphCollection, ServiceHealth, AlertThresholds, RefreshPlanner

- `Launch` queues the portfolio and plans its calls (`BuildTenantQueue`, `ApplyRateLimitPolicy`) if the fairness guard
  lets it; `StartCall`, `CallFails` and `CallReturns` are the caller, within delays and retry budgets;
  an answer goes through `ValidateResponse`, its events become signals that are correlated by tenant, resource
  and window. A policy whose `maxConcurrent` is 0 makes every entry due at once.
- `ServiceHealth` takes samples into a bag; `AlertThresholds` changes one metric at a time.
- `RefreshPlanner`: `RefreshOverdue` is a caller that asks which pillars are overdue and refreshes those, with the time or
  without it, `RefreshNow` a refresh that someone asks for. `neglected` remembers that nobody asked with the
  time over more than a tick.

## 3. Runs

| Run | Bounds | What it shows |
|---|---|---|
| `scenario_ingestion` | 2 slots, 2 intervals, 1 use case, 2 selection logics, 2 statuses, 3 outside events, batches of up to 2 | `LeakOnlyByOverlap`, `UpdatesSurvive`, `HandoffMatchesStore` under every interleaving of start, stop, intervals, both fetches, operator edits, malformed answers and rejected runs |
| `scenario_catches_up` | as above with 1 selection, 1 status, 2 outside events | `CatchesUp`: while some interval stays armed the stored snapshot ends up being the library's |
| `scenario_lifecycle` | 1 selection, 2 statuses, 2 events | finds `LifecyclePersists` violated (section 5) |
| `delta_feed` | 2 runs, 3 changes, pages of 1, 2 failures | `NoGap`, `Advances`, `EveryChangeDelivered`, and `ImplementsChangeFeed` |
| `tenant_repository` | 2 tenants, 2 flows, 3 operations, 4 seeds; 2 clients, 14 requests | flows that share the repository, and the API over it: `NoNewDuplicates`, `ReadYourWrites`, `OnlyUpsertLeavesLifecycle`, `AnswersAreCurrent` |
| `delivery` | 1 tracked action over 10 days; 2 pillars, 7 kinds of action, 4 reports; 2 instances, 3 servers; 3 fetches, 3 lists | `StuckIsListed`, `VerifiedInOrder`, `EverythingOnceAtItsBest`, `PackageIsTheBest`, `BoardServes` |
| `remediation_overdue` | 1 action, 5 days | finds `OverdueMeansStuck` violated |
| `coach_control` | 2 pillars, 7 kinds of action | finds `HighestOfItsControl` violated |
| `overshare_enforcement` | 1 document, 2 chunks, 2 access lists, 2 labels, answers of up to 2 hits (shown, redacted, blocked or both marks) with and without warnings, recurrence 0 or 1; 4 requests, 4 plans, 4 connectors; cases at both sides of every band | `DenyLossReviewed`, `NoGroundlessThrottle`, `LiftedOnlyClean`, `SurfacedIsReported`, `SuspensionStands`; `DecisionsReachTheSoc`; `MoreRiskNeverMilder` |
| `overshare_exposure` | the same | finds `ExposureReported` violated |
| `governance` | 1 exception, 2 waivers, 2 actors, 3 audit events of 4 dates, 1 item with a cadence of 0, 1 or 9 days or none, 14 scores; 1 app, 6 requests, 5 executions, 6 checklist steps, 7 skills, 4 lists of roles | `PortfolioAgrees`, `ExpiryIsOrderFree`, `TrailInOrder`, `WarnedBeforeOverdue`, `BoardMeetsMatrix`, `LowerRiskAllowed`; `OnlyApprovedRisk`, `NoSurpriseExpiry`, `ReadyIsEarned` |
| `observe` | 2 changes in batches of 2; 2 staged artifacts; 2 outages; 8 signals, 2 of them collected anew; 4 portfolios; 21 samples; 4 metrics; 54 hours of refreshes | `AcceptedIsAccounted`, `HandoffHolds`, `ReadyInOrder`, `ReplayLeavesOnlyTheTail`, `EveryTenantAccounted`, `DataKeepsFresh`, `VerdictsAreMonotone` |

Why these bounds are enough for the interesting cases:

- *Scheduler and scenario runs*: two slots give one overlap of every kind (start/start, start/tick,
  tick/tick), two handles one leaked interval besides the known one. Three events allow a change of the library
  between the two fetches of a run, an edit between its awaits, and one more (a malformed answer, or a
  change back). One use case suffices for loss, since a batch can still have a bad status before or
  after a good one. `CatchesUp` needs only that a stale or torn answer is followed by the final one.
- *Delta*: pages of one make every change a page boundary; three changes allow a publish between two
  pages and one after the run; two failures fall at any of the steps, such as a malformed page and a crash after it.
- *Tenants*: two flows are one stale store; three operations allow upsert after transition after upsert;
  the seeds are an empty list, a duplicated tenant, an invalid record, and a hole. Two clients are one
  call answered while another is open; the requests are one of every route, an unknown one, and one
  refused at each check of the two gates.
- *Remediation*: ten days exceed the longest threshold (seven days) with two send-backs before it.
  Deadlock is off since the clock ends and a verified record admits no call.
- *Coach actions*: four reports are enough for an id and a control shared by different pairs of
  actions, reported in any order; the kinds cover a missing id, control, severity and pillar, and an id
  reported with two controls.
- *Overshare*: two chunks of one document can drift apart from their source and from each other, and
  two hits are one that is shown after one that is blocked. Two hits are alike in whether their label was enforced, and
  warnings come with few hits, or with those that score highest without exposure. The weights and
  thresholds are those of the code.

- *Board*: three servers are two that are opened at once for one instance and one for another; three
  fetches are two that overlap and one after them.
- *Governance*: five half days pass two expiries, on their day and after it; twenty see
  an item of nine days be scheduled, upcoming, due and overdue; an item of zero days is due on the day it was
  attested, as one without a cadence is in two of the three functions. Three events are one that arrives
  late between two. The scores are both ends of each band, one between each two, and one outside on either side.
  Deadlock is off: a closed exception and a full trail are ends.
- *Onboarding*: the requests are valid ones of both credential types (one with the fields of the other type as
  well) and one for each of three reasons of a refusal; five executions are all four checkpoints and one repeated. Secrets
  age beyond the default rotation.
- *SIEM and triage*: two principals who ask for the same at one instant share an event id; the plans are a
  complete one, one that lacks outcomes, one with an unsuitable playbook and one without. Cases have
  values on both sides of every cap and band.
- *Observe*: two changes with every combination of ids and scope; names of which two sanitise alike; outages that overlap a
  cap or its end; of eight signals two, four or seven accepted, aged in steps of 45 minutes up to 225, on both sides of each limit; a tenant listed twice, one without credential, one
  without permission, one without id; 21 samples are where the 95th percentile leaves the worst one out.
  54 hours are two intervals of the slowest pillar and a tick. Deadlock is off: everything was delivered, or the clock has ended.

Symmetry (slots and handles; flows and clients; chunks and labels; waivers and actors) is used only in runs that check invariants and
the action property `SuspensionStands`, never with a liveness property, and the sets are fully symmetric in the modules.

Fairness is stated where a liveness property needs it, and only for what the program or its environment
does by itself. In `ScenarioIngestion` the service answers both fetches, the event loop resumes a run
whose answers are in, and an armed interval fires. Nobody is assumed to call `start()`, `stop()` or
`updateUseCaseTracker`, hence the premise `<>[]isRunning`. In `DeltaReconciliation` reconciliation is
begun again whenever a run has ended (the schedule), the service answers a page request, and a caller
that has a result delivers and stores it. Rejections, malformed pages and crashes are finitely many by bound, but for
the service's answer to `"initial"`: a caller whose checkpoint is that literal never recovers, so
`EveryChangeDelivered` has the premise that it is never stored. Other modules state safety only.

## 4. Proofs

| Theorem (module) | Statement | Inductive invariant, and why it is needed |
|---|---|---|
| `SchedulerTypeCorrect`, `NoLeakWithoutOverlap` (`ScenarioIngestion_proofs`) | any number of slots and handles: only overlapping starts leak an interval | `SchedulerInv`: without overlap at most one start is pending, and while it is no timer is armed. Without that, `StartResolves` could overwrite an armed timer |
| `PipelineSchedules`, `EditsSurviveRuns`, `FoundryHasTheStored` (`ScenarioIngestion_proofs`) | any catalog, use cases and batches of edits: unless two runs overlapped, the tracker has what operators set last, and Foundry has what is stored | `PipelineInv`: while no runs overlapped, one is under way at most (`SoleRun`) and the snapshot it took already has every edit (`EditsKept`). The second would be lost without the first: a run that began earlier would store a snapshot from before an edit. That no timer starts a second run comes from the scheduler's invariant, by `PipelineSchedules` |
| `TypeCorrect`, `CheckpointSafe`, `Refinement` (`DeltaReconciliation_proofs`) | any number of runs, any page size: no gap but for malformed pages, and every step is a step or a stutter of `ChangeFeed` | `Inv`: per run, everything at or before its cursor (while paging) or its delta cursor (afterwards) is delivered, among its items or on a malformed page, and the fallback delta cursor is covered by what is delivered |
| `TypeCorrect`, `NoDuplicates`, `WritesReadBack`, `LifecycleKept` (`TenantRepository_proofs`) | any tenants, flows, seeds and number of operations | `IInv`: also the values flows hold are rooted in the seed (`AllRooted`), and what a flow wrote is what it would read (`FlowReads`). Lemmas: what upsert and transition do to the first index of an id; a first index exists (least-number principle) |
| `ApiAnswersCurrent`, `ApiKeepsRepository` (`TenantRepository_proofs`) | any requests and clients, calls in any interleaving: an answer gives a state the tenant had while the call was open, and the repository keeps its promises | `ApiInv`: per open call, what its host read is a state the tenant had since the call began (`CurrentCall`), and each phase has its fields. Lemmas: what a path resolves to; no refusal has the code of a tenant that was not found, so that an answer is told by its status and code |
| `TypeCorrect`, `NothingStuckUnlisted`, `VerifiedIsConsistent`, `VerifiedStays` (`Delivery_proofs`) | any actions, any last day | `IInv`: the reference time of a record is never later than the day it took its status, and each status has the timestamps before it in order |
| `TypeCorrect`, `NoRestrictionWithoutCause`, `FirstOffenceWarned`, `LostDenyIsReviewed`, `ShownIsReported`, `LiftedClean`, `SuspensionNotWeakened` (`Security_proofs`) | any corpus, responses, warnings and recurrences; see below for the policy | `TypeOK` suffices: the properties quantify over the next assessment. Lemmas: the decision is the highest threshold met, capped sums of counts are bounded by their parts, the first hit with personal data is a finding |
| `DecisionsDelivered` (`Security_proofs`) | any connectors, plans, samples, requests and assessments: what readiness shows of its samples holds of every decision they speak for, and no event the SIEM holds under a decision's id tells of another outcome | `SiemInv`: nothing is decided before something is live, what is live was found ready, every event was made by one of the three builders, and the SIEM holds only what was decided. Only the second carries what was found of samples over to decisions made later |
| `LostConditionNeverMilder`, `CasesNeverMilder` (`Security_proofs`) | any requests: no answer is milder after a condition is lost. Any numbers of users, signals, hits, fields and items: more knowledge of a case is never answered more mildly, and a posture of fewer than 20000 items hides no loss | The two parts of `MoreRiskNeverMilder`, each on the specification of its module. `case \in Cases`; each of the five contracts has a lemma that its score is monotone, or that its bands are crossed upwards only |
| `PortfolioAndWorkflowAgree`, `EnforcementOrderFree`, `NothingOverdueUnannounced`, `BoardAndRulesAgree`, `LessRiskNeedsNoMore` (`Governance_proofs`) | any ids, dates, cadences, warning period and scores | `PortfolioAgrees`, `BoardMeetsMatrix` and `LowerRiskAllowed` follow from the types, `ExpiryIsOrderFree` is inductive with them. `ReviewInv`: while no day was missed the last evaluation is at most a day old, and whatever was due within half a day of it, or before, has been announced if its cadence is positive. Lemmas: the statuses without the division; bands ascend with scores, rows with bands |
| `ReadyMeansEarned` (`Governance_proofs`) | any apps, requests, executions and results of a checklist: ready for activation only with every failure made good later and a bundle that lacks one thing at most; a tenant ready only with every critical step passed and at most a fifth of the evaluated steps missed | `MarksInv`: executions are sequences of records, and no critical step is marked as half passed, which the score would count as half. Lemmas: a checklist has ten steps at most, and with so few rounding cannot lift a score over the bar |
| `BoardKeepsServing` (`Delivery_proofs`) | any instances, servers and fetches, host and page together | `HostInv`: the map and the URLs agree, no server is handed to two instances, an instance without a race has an entry or one server being opened. `PageInv`: while no fetches overlapped at most one is in flight, and its list is not older than what was shown. |
| `SecretsRotateInTime`, `RiskIsApproved` (`Governance_proofs`) | any apps, requests, skills, roles and ages | `PlansValid`: a plan comes from a request that passed its validation. `SecretsInv`: a secret in the vault is younger than its rotation, which is the one its request asked for |
| `WebhookAccounts` (`Observe_proofs`) | any changes, sent again in any batch and order: what was answered with success is listed as invalid, has its trigger or carries no complete identity, and nothing else left a trace | `WebhookInv`: identified notifications differ from change to change, and every trigger has the key of its own trusted notification. Without the first, two changes would share a key and one of them would be taken for a duplicate |
| `StagingHoldsHandoff` (`Observe_proofs`) | any artifacts, staged in any order and under any names: what a batch refers to was staged and stays readable until it expires or is replaced at its very path; a batch is made of its sources and told by its id; latencies add up | `StagingInv`: every artifact, handed off or not, lies under the path and until the expiry its scope, time and name give it, and is readable (`Readable`); the id of a batch is made of its scope and documents (`FromItsSources`) |
| `ConnectorReadyInOrder` (`Observe_proofs`) | any configurations, and builders called in any order and again: whatever is ready has all it rests on, and a job indexes into the knowledge base its index was defined for unless that was redefined | `ConnectorInv`: an index was built on a knowledge base, on the current one unless that moved; a job has an index and a source, and belongs to the index's unless it went astray |
| `PlannerKeepsFresh` (`Observe_proofs`) | any times and pillars asked for: unless checks are neglected, no data is older than two intervals and a tick, nothing never fetched escapes, and fresh is what the schedule says | `PlannerInv`: a schedule is its pillar's last refresh and one interval; without neglect the last check is a tick old at most, and no pillar was older than two intervals at that check |
| `ReplayRecoversMissed` (`Observe_proofs`) | any failures, resumptions and caps: a replay brings back all that was missed in the windows it covers, and leaves what the cap cut off | `ReplayInv`: failures are in order and none starts before the resumption noticed of the one before (`FailuresInOrder`); each missed item was lost by the last failure before it (`MissedWasLost`); a batch repeats itself only after an outage whose end went unnoticed (`BlockedByUnnoticed`). Lemma: there is a last failure before an item (greatest-number principle) |
| `AlertsFollowMetrics` (`Observe_proofs`) | any readings of the metrics, on either side of the thresholds: a metric that improves raises no alert and makes none more severe | `MetricsInv`: readings are numbers or missing. Lemma: every threshold is on the side on which its metric gets worse |
| `TenantsAccounted`, `LateEventsRaise` (`Observe_proofs`) | any portfolios, rate limits, retry budgets, windows and answers: the signals of a tenant are the rows of its answered calls, the summary counts every entry of the portfolio, and a healthy one has at most a twentieth of them failed or skipped; an event that arrives late loses no correlation and lowers none | `CollectionInv`: the calls are as many as the entries that could be queued and the rest is skipped; every signal has a known severity. Lemmas: a filtered list has as many members as there are indices that pass; sums over tenants count the entries once; a group that gains a signal keeps its latest member, its size and its worst severity at least |
| `TrailFallsIntoPlace` (`Governance_proofs`) | any audit events in any order of arrival: the trail holds all of them by date and on one date by arrival, and the lineage names each approver once, in the order of first approvals | `TrailInv`: the trail is what arrived, in an order of its indices by date and arrival. The bare property would not do: an append arranges the trail that is there, whose ties must already be in the order of arrival |
| `ListedOnceAtTheirBest`, `PackagesHoldTheBest` (`Delivery_proofs`) | any pillars, actions and reports: no id and no control is listed twice, an id only at its best, an id that is missing has its best action's control in the list; a package holds the best that pass its filter | `CoachInv`: pillars report lists of actions; the rest is what the operators return. Lemmas follow the list through the merge, both deduplications, the ranking and the filter: what `Pick` and `SortedBy` (`StableOrder`) return is a list of distinct indices in an order, and the first of the best of a set exists |

Assumptions are the named `ASSUME`s of the modules: that the model's sentinels differ from values, that
bounds, thresholds, dates, counts and readings are numbers, that sets a contract counts are finite, that the hits of an answer are
different chunks, that severities and actions are those of the contracts, that the steps of a checklist are
the catalog's, that portfolios, payloads and pillars are lists, that an action a pillar reports has its fields and
a known severity, and that the body of a request names a tenant. Four theorems also assume something of the enforcement policy, which callers may pass: `FirstOffenceWarned` a positive recurrence threshold, `LostDenyIsReviewed`
the default policy (a lost deny entry counts 14 for the mismatch and 18 for the entry, and 32 reaches
the 30 of the review threshold; other thresholds may not), `LiftedClean` and `SuspensionNotWeakened`
positive thresholds.

Type correctness is proved where a module's theorems need it, and not checked again in the runs.
`FirstOffenceNotSuspended` has a theorem and no run.

Only model-checked:

- the liveness properties `CatchesUp` and `EveryChangeDelivered`: fairness and ENABLED are beyond the prover;
- `SignalGate` and `ServiceHealth`, which fold over signals and samples; with them `VerdictsAreMonotone` but for
  its parts about alerts (`AlertsFollowMetrics`) and late events (`LateEventsRaise`);
- `Advances`.

`MoreRiskNeverMilder` is the conjunction of what `LostConditionNeverMilder` and `CasesNeverMilder` prove.

## 5. Disagreements between the documents and the code

- `docs/120-scenario-library-integration.md:65` says that lifecycle state is preserved across refreshed
  ingestions. `mergeUseCaseTracker` keeps only what the refreshed catalog lists: a use case that one
  refresh lacks, or one malformed answer, loses the status an operator set (`scenario_lifecycle`).
- `docs/410-remediation-tracker.md:39` gives 48 hours for a resolved action. The code counts them from
  `acknowledgedAt`, so an action resolved just now may be overdue (`remediation_overdue`). The list errs
  on the safe side: `StuckIsListed` shows that nothing stuck is missing.
- `src/optimize/delivery/coach-action-aggregator.mjs:79` says that of one control the action with the
  highest score is kept. The first one is kept: the bookkeeping of the better one is never read (`coach_control`).
- `docs/190-overshare-detection.md:15` says that a query assessment answers whether a hit surfaced
  sensitive data. Findings are deduplicated by document and value and credited to the first hit, so a
  blocked hit hides a shown one of the same document (`overshare_exposure`). With only shown hits
  nothing is hidden (`SurfacedIsReported`, proved as `ShownIsReported`).

Without a run, since it is a matter of reading: `docs/910-governance-waiver-registry-contract.md` says that
`enforceWaiverExpiry` also classifies waivers as expiring; the code knows active and expired only.

Likewise: `docs/530-tenant-management-api.md:29` says of an upsert that it "Validates and upserts";
`handleUpsertTenant` answers with the record and leaves the storing to its host. The board's action
`refresh` is described as "Refresh the backlog to fetch latest issues"
(`.github/extensions/backlog-board/extension.mjs:237-241`) and does nothing.

Known behaviours that contradict nothing but a reader should know of: an event with an early date still
approves an exception that has expired (the portfolio counts it as overdue all the same); an item whose cadence is missing is overdue in both schedules and never in
the list of due attestations (`lifecycle-attestation.mjs:82`); `stop()` during the first run of
`start()` has no effect; overlapping runs can move a delta checkpoint back (changes are delivered
again); a malformed page is taken for an empty one, so that the checkpoint passes its changes and nobody gets them; a checkpoint `"initial"` is never left; an indexed chunk whose source is gone adds nothing to the
score; a warning of the query service that reads `deny_precedence_lost` counts as evidence for a restriction
(`overshare-detection.mjs:344`); and a single clean query lifts a suspension that an ingestion assessment imposed, drift or not.
In other parts: a caller of the refresh planner that leaves the time out finds nothing overdue ever
again; the fairness guard calls an empty queue ready although it lists the blocker `no-tenants`; the
board shows an error of GitHub as an empty list; a decision's event id leaves out principal and
permission; a more severe incident may meet an earlier route whose playbook does not suit it, although readiness
passed on samples; a plan may be complete while the readiness of its bundle lacks the regional resource, and
executions of an earlier plan count for a new one; the rotation of a secret is never compared with its life; a
deterministic client id is made of the first 16 characters of tenant and app, so that the apps of a tenant
whose id is a GUID share one (`src/govern/onboarding/tenant-onboarding.mjs:502`); a rounded share of
the privacy posture may hide a single item from 20000 on; the quality score may rise when a signal ages out while fewer
than two fifths of the signals are accepted (from 44 to 45 with two of eight); and of an id that is reported with two controls,
the control of the weaker action may be in no list.

## 6. What the models leave out

- *Data*: names, texts, dates and hashes are model values. A checksum or hash is represented by what it
  hashes (no collisions). Of a tracker item only the status is kept, of which the other preserved
  fields are copied alike; of a tenant record the id, the state and whether it validates.
- *Overshare*: personal data is in all chunks of its document or none, and counts as one value; the
  detector's patterns, severities, control and evidence lists are left out. `AssessIngestion` and
  `AssessQuery` are atomic, as the code is synchronous.
- *Environment*: Graph, the Scenario Library and the callers that keep state are modelled from how the
  code uses them. Times passed to the remediation tracker are the current day or left out, never another day.
- *Governance*: records are complete (a field that is missing is refused before anything happens), agents
  and skills have the same rows, and of six audit event types only `approved` is told apart. Counts by state and
  evidence envelopes are left out.
- *Onboarding and skills*: texts, URLs, templates and names; a request's plain fields are complete or not.
- *Observe*: hashes and paths are the tuples of what they are made of; a signal is its confidence and age; an audit row its
  fields, operation, resource and hour; a sample what its class depends on.
- *SIEM*: an event is its id, kind, outcome, severity and controls; titles, dimensions and evidence are left out.
- *API*: correlation ids, messages and the fixtures of the smoke command.

## 7. Not modelled

- *Operating model, identity graph, baselines and drift*: static catalogs, and builders of documents and graphs from
  them. They keep no state, nothing happens in them in an order, and what they could get wrong is the content of a list.
- *Fabric IQ, Work IQ, source adapters, agent and skill registry*: definitions, mappings and the normalisation of single
  records. What matters of them elsewhere (which signals are valid, which fields a row must have) is in
  `SignalGate` and `GraphCollection`.
- *Delivery documents* (OpenAPI, local server scaffold, explainability, briefings), *optimisation models,
  reporting, planning* (maturity, cost and value, dashboards, exports): weighted scores and formatting. Their correctness is
  arithmetic over numbers that a unit test reaches as well.
- *Tenant insights, current-state view, the smoke command*: trends and differences of two lists, and a command line. (The smoke command
  remaps its fixtures with `--tenant-id` but requests the tenant `tenant-a` all the same,
  `cli-smoke-command-contract.mjs:79-86`.)
- *Playbooks, support and roadmap catalogs* of the governance operations: static data.

What could be taken further: proofs of `Advances` and of the parts of `VerdictsAreMonotone` about signals and samples;
the lifecycle transitions of governance with the attestations they ask for; and the composition of the
webhook's triggers with the delta reconciliation they begin, which the code leaves to the caller.
