---------------------------- MODULE GraphCollection ----------------------------
(***************************************************************************)
(* Collecting audit events from many tenants: the orchestrator queues the  *)
(* tenants, spaces their calls and grants each a number of retries; the    *)
(* audit and reports clients build the requests and validate what comes    *)
(* back; the correlator groups the events into risks.  The module's code   *)
(* plans and judges only: the caller makes the calls (StartCall, and the   *)
(* three ways a call may end).                                             *)
(*                                                                         *)
(* Times are in units of the policy's tenant delay.                        *)
(***************************************************************************)
EXTENDS Integers, SequencesExt, StableOrder

CONSTANTS
  Portfolio,   \* lists of tenant entries: tenantId, hasCredential, hasPermission, meta, request
  NoName,      \* the id of an entry that has none
  RateLimitPolicy,  \* rate limit policies: maxConcurrent, tenantDelay, maxRetries, retryBackoff
  Payload,     \* lists of rows: fields, operation, resource, hour
  WindowHours, \* windows of the correlator
  MaxMoment    \* bound: the last moment of the model

\* Portfolios and payloads are lists.
ASSUME ListAssumption == \A list \in Portfolio \union Payload : list \in Seq(ToSet(list))

VARIABLES
  tenants,  \* the entries of this run
  policy,   \* the policy of this run
  skipped,  \* what the queue left out
  calls,    \* per planned entry: its plan and how its call stands
  signals,  \* the events accepted so far, as signals, in order of arrival
  moment

collectionVars == <<tenants, policy, skipped, calls, signals, moment>>

-----------------------------------------------------------------------------
(* The orchestrator. *)

PRIORITY_ORDER == <<"urgent", "standard", "low">>

ClassifyTenantPriority(meta) ==
  IF meta.hasOpenIncident \/ meta.isNew THEN "urgent"
  ELSE IF meta.tier = "trial" THEN "low" ELSE "standard"

IsQueued(entry) == entry.tenantId # NoName /\ entry.hasCredential

Queued(entries) == Pick(entries, {i \in DOMAIN entries : IsQueued(entries[i])})

\* indexOf the priority of each entry of a queue.
Priorities(queue) ==
  [i \in DOMAIN queue |->
     CHOOSE p \in 1..3 : PRIORITY_ORDER[p] = ClassifyTenantPriority(queue[i].meta)]

BuildTenantQueue(entries) ==
  [queue   |-> SortedBy(Queued(entries), Priorities(Queued(entries))),
   skipped |-> Pick(entries, {i \in DOMAIN entries : ~IsQueued(entries[i])})]

\* maxConcurrent entries share a delay; a policy of 0 has no slot (i % 0), and
\* every entry is due at once.
ScheduledDelay(i, p) ==
  IF p.maxConcurrent = 0 THEN 0 ELSE ((i - 1) \div p.maxConcurrent) * p.tenantDelay

ApplyRateLimitPolicy(queue, p) ==
  [i \in DOMAIN queue |->
     [entry |-> queue[i], dueAt |-> ScheduledDelay(i, p), retryBudget |-> p.maxRetries]]

\* The share of urgent entries against that of low ones: ready while the two
\* differ by at most half of the queue (an empty queue is ready too).
EvaluateMultiTenantFairness(queue) ==
  LET Of(priority) == Cardinality({i \in DOMAIN queue : ClassifyTenantPriority(queue[i].meta) = priority})
      difference   == Of("urgent") - Of("low")
      distance     == IF difference < 0 THEN -difference ELSE difference
  IN  IF 2 * distance <= Len(queue) THEN "ready" ELSE "blocked"

ListFairnessBlockers(queue) ==
  (IF queue = <<>> THEN {"no-tenants-in-queue"} ELSE {})
  \union
  (IF EvaluateMultiTenantFairness(queue) = "blocked" THEN {"priority-distribution-imbalance"} ELSE {})

CheckOrchestratorReadiness(entries) == entries # <<>>

-----------------------------------------------------------------------------
(* The audit and reports clients. *)

SUPPORTED_WORKLOADS ==
  {"MicrosoftTeams", "SharePoint", "OneDrive", "Exchange", "AzureActiveDirectory",
   "MicrosoftForms", "Copilot", "CopilotStudio"}
SUPPORTED_PERIODS == {"D7", "D30", "D90", "D180"}

\* A request that the builder of its kind accepts.
BuildRequest(request) ==
  CASE request.kind = "auditLog" -> request.workload \in SUPPORTED_WORKLOADS \union {"any"}
    [] request.kind \in {"usageDetail", "userCountSummary"} -> request.period \in SUPPORTED_PERIODS

\* checkAuditClientReadiness and checkClientReadiness, of a queued entry.
ClientReady(entry) == entry.hasPermission

REQUIRED_FIELDS ==
  [auditLog         |-> {"Id", "CreationTime", "Operation", "Workload", "UserId"},
   usageDetail      |-> {"reportRefreshDate", "userPrincipalName", "displayName",
                         "lastActivityDate", "copilotActivityCount"},
   userCountSummary |-> {"reportRefreshDate", "reportDate", "enabledUserCount",
                         "activeUserCount"}]

EVENT_SEVERITY ==
  [low      |-> {"SignIn", "FileAccessed", "AgentInvoked"},
   medium   |-> {"FileDownloaded", "FileShared"},
   high     |-> {"SensitiveFileSeen", "PolicyViolation", "AdminConsentGranted", "RoleAssigned"},
   critical |-> {"AgentPolicyViolation", "OvershareDetected", "UnauthorizedAccess"}]

EVENT_PILLAR ==
  [OBSERVE |-> {"FileAccessed", "AgentInvoked"},
   SECURE  |-> {"SignIn", "FileDownloaded", "FileShared", "SensitiveFileSeen",
                "OvershareDetected", "UnauthorizedAccess"},
   GOVERN  |-> {"PolicyViolation", "AdminConsentGranted", "RoleAssigned", "AgentPolicyViolation"}]

\* The key of a table whose set an operation is in.
Lookup(table, operation, default) ==
  IF \E k \in DOMAIN table : operation \in table[k]
  THEN CHOOSE k \in DOMAIN table : operation \in table[k] ELSE default

ClassifyAuditEvent(operation) ==
  [severity |-> Lookup(EVENT_SEVERITY, operation, "low"),
   pillar   |-> Lookup(EVENT_PILLAR, operation, "OBSERVE")]

\* Mutant of ValidateResponse: rows that lack a field are dropped, the rest kept.
ValidateResponseByRow(kind, payload) ==
  [ok |-> \A i \in DOMAIN payload : REQUIRED_FIELDS[kind] \subseteq payload[i].fields,
   rows |-> SelectSeq(payload, LAMBDA row : REQUIRED_FIELDS[kind] \subseteq row.fields)]

\* One row that lacks a field refuses the response: nothing of it is returned.
ValidateResponse(kind, payload) ==
  IF \A i \in DOMAIN payload : REQUIRED_FIELDS[kind] \subseteq payload[i].fields
  THEN [ok |-> TRUE, rows |-> payload]
  ELSE [ok |-> FALSE, rows |-> <<>>]

-----------------------------------------------------------------------------
(* The correlator. *)

VALID_PILLARS == {"OBSERVE", "GOVERN", "SECURE", "OPTIMIZE"}
SEVERITY_RANK == [low |-> 1, medium |-> 2, high |-> 3, critical |-> 4]

PillarCountElevation(count) == <<0, 1, 2, 2>>[count]

IsCorrelated(s) == s.tenantId # NoName /\ s.resource # NoName /\ s.pillar \in VALID_PILLARS

CorrelationKey(s, window) == <<s.tenantId, s.resource, s.hour \div window>>

Group(list, window, key) ==
  {s \in ToSet(list) : IsCorrelated(s) /\ CorrelationKey(s, window) = key}

Keys(list, window) ==
  {CorrelationKey(s, window) : s \in {x \in ToSet(list) : IsCorrelated(x)}}

\* The rank of a group: its worst signal, raised by the pillars it spans.
ClassifyCorrelationRisk(group) ==
  LET worst   == Max({SEVERITY_RANK[s.severity] : s \in group})
      pillars == {s.pillar : s \in group}
  IN  Min({4, worst + PillarCountElevation(Cardinality(pillars))})

CorrelateSignals(list, window) ==
  [key \in Keys(list, window) |-> ClassifyCorrelationRisk(Group(list, window, key))]

ListHighRiskCorrelations(list, window) ==
  {key \in Keys(list, window) : CorrelateSignals(list, window)[key] >= SEVERITY_RANK["high"]}

-----------------------------------------------------------------------------
(* The caller. *)

CollectionInit ==
  /\ tenants \in Portfolio
  /\ policy \in RateLimitPolicy
  /\ skipped = <<>> /\ calls = <<>> /\ signals = <<>>
  /\ moment = 0

\* The run is planned, if nothing blocks it.
Launch ==
  /\ calls = <<>> /\ moment = 0
  /\ CheckOrchestratorReadiness(tenants)
  /\ LET queue == BuildTenantQueue(tenants).queue
     IN  /\ ListFairnessBlockers(queue) = {}
         /\ calls' = [i \in DOMAIN queue |->
              LET plan == ApplyRateLimitPolicy(queue, policy)[i]
              IN  [entry |-> plan.entry, dueAt |-> plan.dueAt, retryBudget |-> plan.retryBudget,
                   status |-> "waiting", payload |-> <<>>]]
  /\ skipped' = BuildTenantQueue(tenants).skipped
  /\ UNCHANGED <<tenants, policy, signals, moment>>

Tick == moment < MaxMoment /\ moment' = moment + 1 /\ UNCHANGED <<tenants, policy, skipped, calls, signals>>

Ends(i, status) == calls' = [calls EXCEPT ![i].status = status]

StartCall(i) ==
  /\ calls[i].status = "waiting" /\ moment >= calls[i].dueAt
  /\ Ends(i, IF BuildRequest(calls[i].entry.request) /\ ClientReady(calls[i].entry)
             THEN "running" ELSE "error")
  /\ UNCHANGED <<tenants, policy, skipped, signals, moment>>

\* A call that is throttled or lost is due again after the backoff.
CallFails(i) ==
  /\ calls[i].status = "running"
  /\ IF calls[i].retryBudget > 0
     THEN calls' = [calls EXCEPT ![i].status = "waiting", ![i].retryBudget = @ - 1,
                                 ![i].dueAt = moment + policy.retryBackoff]
     ELSE Ends(i, "error")
  /\ UNCHANGED <<tenants, policy, skipped, signals, moment>>

\* What a caller makes of a row of the audit log.
AsSignal(entry, row) ==
  [tenantId |-> entry.tenantId, resource |-> row.resource, hour |-> row.hour,
   severity |-> ClassifyAuditEvent(row.operation).severity,
   pillar   |-> ClassifyAuditEvent(row.operation).pillar]

CallReturns(i, payload) ==
  /\ calls[i].status = "running"
  /\ LET entry    == calls[i].entry
         answered == ValidateResponse(entry.request.kind, payload)
     IN  /\ calls' = [calls EXCEPT ![i].status = IF answered.ok THEN "ok" ELSE "error",
                                   ![i].payload = payload]
         /\ signals' = IF entry.request.kind = "auditLog"
                       THEN signals \o [r \in DOMAIN answered.rows |-> AsSignal(entry, answered.rows[r])]
                       ELSE signals
  /\ UNCHANGED <<tenants, policy, skipped, moment>>

CollectionNext ==
  \/ Launch
  \/ Tick
  \/ \E i \in DOMAIN calls :
       StartCall(i) \/ CallFails(i) \/ \E payload \in Payload : CallReturns(i, payload)

CollectionSpec == CollectionInit /\ [][CollectionNext]_collectionVars

-----------------------------------------------------------------------------

\* buildOrchestrationSummary over the results the caller has, the entries left
\* out among them.
BuildOrchestrationSummary ==
  LET Of(status) == Cardinality({i \in DOMAIN calls : calls[i].status = status})
      total      == Of("ok") + Of("error") + Len(skipped)
  IN  [total |-> total, ok |-> Of("ok"), errors |-> Of("error"), skipped |-> Len(skipped),
       health |-> IF total > 0 /\ 100 * Of("ok") >= 95 * total THEN "healthy"
                  ELSE IF total > 0 /\ 100 * Of("ok") >= 80 * total THEN "degraded" ELSE "critical"]

Launched == calls # <<>>
Finished == Launched /\ \A i \in DOMAIN calls : calls[i].status \in {"ok", "error"}

Contributed(i) ==
  IF calls[i].status = "ok" /\ calls[i].entry.request.kind = "auditLog"
  THEN Len(calls[i].payload) ELSE 0

\* The rows of the answers a tenant's calls gave.
AnsweredRows(t) ==
  UNION {{i} \X (1..Contributed(i)) : i \in {c \in DOMAIN calls : calls[c].entry.tenantId = t}}

(***************************************************************************)
(* Every tenant of a run is accounted for exactly once, however its calls  *)
(* interleave, fail and are retried: a tenant whose call succeeded gave    *)
(* all the events of its answer once, one whose call failed or was refused *)
(* gave none, and the summary of a finished run counts every entry of the  *)
(* portfolio and is healthy only if nothing was left out.                  *)
(* (buildTenantQueue, validateAuditLogResponse, buildOrchestrationSummary.)*)
(***************************************************************************)
EveryTenantAccounted ==
  /\ \A t \in {calls[i].entry.tenantId : i \in DOMAIN calls} :
       Cardinality({k \in DOMAIN signals : signals[k].tenantId = t}) = Cardinality(AnsweredRows(t))
  /\ Finished => /\ BuildOrchestrationSummary.total = Len(tenants)
                 /\ BuildOrchestrationSummary.health = "healthy" =>
                      20 * (BuildOrchestrationSummary.errors + Len(skipped)) <= Len(tenants)

(***************************************************************************)
(* An event that arrives late only raises a risk: no correlation is lost   *)
(* or gets a lower severity by an answer that arrives after it was         *)
(* reported, in whatever order the tenants' answers arrive.                *)
(* (correlateSignals, classifyCorrelationRisk.)                            *)
(***************************************************************************)
LateEventsOnlyRaise ==
  [][\A window \in WindowHours : \A key \in Keys(signals, window) :
       /\ key \in Keys(signals', window)
       /\ CorrelateSignals(signals', window)[key] >= CorrelateSignals(signals, window)[key]]_collectionVars
=============================================================================
