------------------------------- MODULE MCObserve -------------------------------
(* The ingestion runtime, the connector, replay recovery, the signal gate,    *)
(* the collection from many tenants, the health of the API runtime and the    *)
(* alerts on metrics, and the refresh planner, each part checked alone: they  *)
(* share no state.                                                            *)
EXTENDS IngestionRuntime, FoundryConnector, ReplayRecovery, SignalGate, GraphCollection,
        ServiceHealth, AlertThresholds, RefreshPlanner

VARIABLE part  \* the part that is checked

ingestionVars == <<webhookVars, stagingVars, connectorVars, replayVars, gateVars>>
platformVars  == <<collectionVars, healthVars, tenantMetrics, plannerVars>>

vars == <<ingestionVars, platformVars, part>>

\* Parts that are not checked start in one of their initial states.
Quiet(state) == UNCHANGED state /\ UNCHANGED part

MCInit ==
  /\ part \in {"webhook", "staging", "connector", "replay", "gate", "collection", "health", "alerts",
               "planner"}
  /\ IF part = "webhook" THEN WebhookInit
     ELSE /\ notification = [c \in Change |-> [scope |-> Unmapped, trusted |-> FALSE,
                                               subscriptionId |-> Absent, eventId |-> Absent]]
          /\ subscribed = FALSE /\ pending = Change /\ accepted = {} /\ invalid = {} /\ triggers = {}
  /\ StagingInit
  /\ ConnectorInit
  /\ part # "connector" => workspace.identity = "systemAssigned"
  /\ ReplayInit
  /\ part # "replay" => cap = Min(Caps)
  /\ GateInit
  /\ CollectionInit
  /\ part # "collection" => tenants = <<>> /\ policy = CHOOSE p \in RateLimitPolicy : TRUE
  /\ HealthInit
  /\ part # "health" => slo = CHOOSE o \in [target : Target, windowHours : SloWindow] : TRUE
  /\ AlertsInit /\ PlannerInit
  /\ part # "gate" => confidence = CHOOSE c \in Confidences : TRUE

MCNext ==
  \/ part = "webhook" /\ WebhookStep /\ Quiet(<<stagingVars, connectorVars, replayVars, gateVars, platformVars>>)
  \/ part = "staging" /\ StagingStep /\ Quiet(<<webhookVars, connectorVars, replayVars, gateVars, platformVars>>)
  \/ part = "connector" /\ ConnectorStep /\ Quiet(<<webhookVars, stagingVars, replayVars, gateVars, platformVars>>)
  \/ part = "replay" /\ ReplayStep /\ Quiet(<<webhookVars, stagingVars, connectorVars, gateVars, platformVars>>)
  \/ part = "gate" /\ GateStep /\ Quiet(<<webhookVars, stagingVars, connectorVars, replayVars, platformVars>>)
  \/ /\ \/ part = "collection" /\ CollectionNext /\ UNCHANGED <<healthVars, tenantMetrics, plannerVars>>
        \/ part = "health" /\ HealthNext /\ UNCHANGED <<collectionVars, tenantMetrics, plannerVars>>
        \/ part = "alerts" /\ AlertsNext /\ UNCHANGED <<collectionVars, healthVars, plannerVars>>
        \/ part = "planner" /\ PlannerStep /\ UNCHANGED <<collectionVars, healthVars, tenantMetrics>>
     /\ Quiet(ingestionVars)

MCSpec == MCInit /\ [][MCNext]_vars

MCSanitized == [n \in Name |-> IF n = "Run 1" THEN "run-1" ELSE n]

-----------------------------------------------------------------------------
(* Tenants: of each priority, one twice, and ones that are left out. *)

Entry(id, credential, tier, isNew, request) ==
  [tenantId |-> id, hasCredential |-> credential, hasPermission |-> id # "tenant-d",
   meta |-> [tier |-> tier, isNew |-> isNew, hasOpenIncident |-> FALSE], request |-> request]

Audit(workload) == [kind |-> "auditLog", workload |-> workload, period |-> "none"]
Usage(period)   == [kind |-> "usageDetail", workload |-> "none", period |-> period]

MCPortfolio ==
  {<<>>,
   <<Entry("tenant-a", TRUE, "trial", FALSE, Audit("any")),
     Entry("tenant-b", TRUE, "enterprise", TRUE, Audit("Copilot")),
     Entry("tenant-a", TRUE, "enterprise", FALSE, Audit("SharePoint")),
     Entry("tenant-c", FALSE, "standard", FALSE, Usage("D7"))>>,
   <<Entry("tenant-c", TRUE, "enterprise", FALSE, Usage("D30")),
     Entry("tenant-d", TRUE, "standard", FALSE, Audit("any")),
     Entry("tenant-a", TRUE, "standard", FALSE, Audit("Exchange")),
     Entry(NoName, TRUE, "standard", FALSE, Usage("D7"))>>,
   <<Entry("tenant-a", TRUE, "standard", FALSE, Audit("Yammer")),
     Entry("tenant-b", TRUE, "standard", FALSE, Usage("D1"))>>}

Row(operation, hour) ==
  [fields |-> REQUIRED_FIELDS["auditLog"] \union REQUIRED_FIELDS["usageDetail"],
   operation |-> operation, resource |-> "site", hour |-> hour]

MCPayload ==
  {<<Row("FileAccessed", 0)>>,
   <<Row("FileShared", 0), Row("AdminConsentGranted", 1)>>,
   <<Row("SignIn", 1), [Row("SignIn", 1) EXCEPT !.resource = NoName]>>,
   <<Row("OvershareDetected", 1), [Row("FileShared", 1) EXCEPT !.fields = {"Id"}]>>}

MCRateLimitPolicy ==
  {[maxConcurrent |-> 2, tenantDelay |-> 1, maxRetries |-> 1, retryBackoff |-> 1],
   [maxConcurrent |-> 0, tenantDelay |-> 1, maxRetries |-> 0, retryBackoff |-> 1]}

-----------------------------------------------------------------------------
(* Signals: of eight, two, four or seven with a confidence the gate accepts. *)

MCConfidences ==
  {<<60, 100, 40, 40, 40, 59, 59, 101>>, <<60, 60, 100, 80, 40, 40, 59, 101>>,
   <<60, 100, 60, 80, 80, 100, 100, 59>>}

-----------------------------------------------------------------------------
(* Performance samples and metrics. *)

SampleOf(status, duration, cpu, memory) ==
  [status |-> status, durationMs |-> duration, cpuPercent |-> cpu, memoryPercent |-> memory]

MCSample ==
  {SampleOf(200, 90, 50, -1), SampleOf(200, 1000, 80, 120), SampleOf(500, 2400, 50, 91),
   SampleOf(0, 1000, 20, 20)}

MCReading ==
  [overallScore           |-> {NoReading, 10, 39, 40, 59, 60},
   overshareRate          |-> {NoReading, 50, 51, 80},
   activeAgentRatio       |-> {NoReading, 100, 299, 300},
   criticalComplianceGaps |-> {NoReading, 0, 1}]

(***************************************************************************)
(* No verdict turns the wrong way: signals that age or a source that gets  *)
(* worse improve nothing, a good answer or a metric that gets better makes *)
(* nothing worse, and an event that arrives late only raises a risk.       *)
(***************************************************************************)
VerdictsAreMonotone ==
  /\ AgeingNeverImproves
  /\ GoodNewsNeverWorsens /\ ImprovementRaisesNoAlert
  /\ LateEventsOnlyRaise
=============================================================================
