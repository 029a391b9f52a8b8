--------------------------- MODULE SiemIntegration ---------------------------
(***************************************************************************)
(* Decisions on their way to the security operations centre.  A governance *)
(* request is evaluated in the context of its moment, an overshare         *)
(* assessment and an enforcement decision are reported as they are made:   *)
(* each becomes a SIEM event, which the host forwards when the registered  *)
(* connector lets it through and the routing plan has a route for it.  The *)
(* plan goes live only if the readiness check, which is made with sample   *)
(* events, finds nothing missing.                                          *)
(*                                                                         *)
(* One tenant.  An event id is a hash of some of the event's fields: here  *)
(* the tuple of these fields.                                              *)
(***************************************************************************)
EXTENDS PolicyCatalog, Sequences

CONSTANTS
  Solutions,    \* solutions with a policy profile
  Requests,     \* bound: the governance requests evaluated
  Assessments,  \* bound: the overshare assessments reported
  Enforcements, \* bound: the enforcement decisions reported of each
  Samples,      \* bound: the sets of sample events readiness is checked with
  Connectors,   \* bound: the connector registrations tried
  Plans,        \* bound: the routing plans tried
  Losable,      \* bound: the conditions that come and go
  LastInstant,  \* bound on the clock
  MaxDecided,   \* bound on the decisions
  NotLive       \* no routing plan is live

VARIABLES
  setup,    \* the connector, plan and samples that are live, or NotLive
  context,  \* the conditions in place for a governance decision
  instant,  \* the clock the evaluator stamps its traces with
  decided,  \* the events of the decisions made
  soc       \* the events the SIEM holds

\* The severities of what the routing is tried with are the contract's.
ASSUME SampleAssumption ==
  \A samples \in Samples : \A e \in samples : e.severity \in {"low", "medium", "high", "critical"}

ASSUME AssessmentAssumption ==
  \A a \in Assessments :
    a.severity \in {"none", "low", "medium", "high", "critical"} /\ a.exposed \in BOOLEAN

ASSUME EnforcementAssumption ==
  \A d \in Enforcements : d.action \in {"allow", "warn", "review", "throttle", "suspend"}

siemVars == <<setup, context, instant, decided, soc>>

-----------------------------------------------------------------------------
(* The policy evaluator.                                                    *)

CONDITIONS == {"owner", "region", "retention", "audit", "rai", "ticket"}

\* A condition that is missing is a missing control of the decision.
Demanded(request) ==
  {"owner", "region", "retention", "audit"} \union
  (IF request.riskBand = "high" \/ request.action = "deploy-agent" THEN {"rai"} ELSE {})

Risky(request) ==
  request.riskBand = "high" \/ IsHighRiskPermission(request.permission, request.kind)

EvaluateGovernanceRequest(request, conditions) ==
  IF request.solution \notin Solutions \/ ~ ({"region", "audit"} \subseteq conditions) THEN "deny"
  ELSE IF Risky(request) /\ "ticket" \notin conditions THEN "require_approval"
  ELSE "allow"

MissingControls(request, conditions) ==
  IF request.solution \notin Solutions THEN {"profile"}
  ELSE (Demanded(request) \ conditions) \union
       (IF EvaluateGovernanceRequest(request, conditions) = "require_approval" THEN {"ticket"} ELSE {})

-----------------------------------------------------------------------------
(* The events.                                                              *)

SIEM_EVENT_KINDS == {"governance-decision", "overshare-incident", "overshare-enforcement"}

ValidOutcomes ==
  [kind \in SIEM_EVENT_KINDS |->
     IF kind = "governance-decision" THEN {"allow", "deny", "require_approval"}
     ELSE IF kind = "overshare-incident" THEN {"at-risk", "exposed"}
     ELSE {"allow", "warn", "review", "throttle", "suspend"}]

SEVERITY_RANK ==
  [severity \in {"low", "medium", "high", "critical"} |->
     IF severity = "low" THEN 1 ELSE IF severity = "medium" THEN 2
     ELSE IF severity = "high" THEN 3 ELSE 4]

AtLeast(severity, minimum) == SEVERITY_RANK[severity] >= SEVERITY_RANK[minimum]

SeverityOfDecision(outcome) ==
  IF outcome = "deny" THEN "high" ELSE IF outcome = "require_approval" THEN "medium" ELSE "low"

SeverityOfAction(action) ==
  IF action = "suspend" THEN "critical" ELSE IF action = "throttle" THEN "high"
  ELSE IF action = "review" THEN "medium" ELSE "low"

Event(id, kind, outcome, severity, incident, principal, controls) ==
  [id |-> id, principal |-> principal, controls |-> controls,
   kind |-> kind, outcome |-> outcome, severity |-> severity,
   delivery |-> IF incident THEN "incident" ELSE "audit",
   playbook |-> IF ~ incident THEN "none"
                ELSE IF outcome \in {"deny", "suspend"} THEN "access-revocation"
                ELSE "risk-containment"]

\* Mutant of GovernanceDecisionId: the decision is not part of the id.
IdWithoutDecision(request, outcome, at) == <<request.solution, request.resource, request.action, at>>

\* Neither the principal nor the permission is part of the id.
GovernanceDecisionId(request, outcome, at) ==
  <<request.solution, request.resource, request.action, outcome, at>>

GovernanceDecisionSiemEvent(request, outcome, controls, at) ==
  Event(GovernanceDecisionId(request, outcome, at), "governance-decision",
        outcome, SeverityOfDecision(outcome), outcome # "allow",
        request.principal, controls)

\* assessment: its id and stage, the severity of the score, actual exposure and
\* the controls concerned.
OvershareIncidentSiemEvent(assessment) ==
  LET severity == IF assessment.severity = "none" THEN "low" ELSE assessment.severity
      outcome  == IF assessment.exposed THEN "exposed" ELSE "at-risk"
  IN  Event(<<assessment.id, assessment.stage, severity, outcome>>, "overshare-incident",
            outcome, severity, AtLeast(severity, "medium") \/ assessment.exposed,
            "none", assessment.controls)

\* The id of an enforcement decision is made of its incident, the state before,
\* the recurrence count (here: whether there was one) and the action.
OvershareEnforcementSiemEvent(assessment, prior, recurred, action) ==
  Event(<<<<assessment.id, prior, recurred, action>>, assessment.id, action>>,
        "overshare-enforcement", action, SeverityOfAction(action),
        action \notin {"allow", "warn"}, "none", assessment.controls)

-----------------------------------------------------------------------------
(* Registration, routing and readiness.                                     *)

SIEM_PLATFORMS == {"sentinel", "splunk", "qradar", "genericWebhook"}

\* identified: ids, owner and destination are all there.
RegistrationOk(connector) ==
  /\ connector.identified
  /\ connector.platform \in SIEM_PLATFORMS
  /\ connector.minimum \in DOMAIN SEVERITY_RANK
  /\ connector.kinds # {} /\ connector.kinds \subseteq SIEM_EVENT_KINDS
  /\ connector.platform = "sentinel" => connector.workspace

RouteOk(route) ==
  /\ route.kind \in SIEM_EVENT_KINDS
  /\ route.delivery \in {"audit", "incident"}
  /\ route.minimum \in DOMAIN SEVERITY_RANK
  /\ route.delivery = "incident" => route.playbook # "none"
  /\ route.outcomes # {} /\ route.outcomes \subseteq ValidOutcomes[route.kind]

RoutingPlanOk(plan) == plan # << >> /\ \A i \in DOMAIN plan : RouteOk(plan[i])

Playbook == [playbook \in {"access-revocation", "risk-containment"} |->
  IF playbook = "access-revocation"
  THEN [kinds |-> {"governance-decision", "overshare-enforcement"}, outcomes |-> {"deny", "suspend"}]
  ELSE [kinds |-> SIEM_EVENT_KINDS,
        outcomes |-> {"require_approval", "at-risk", "exposed", "review", "throttle"}]]

Passes(connector, event) ==
  event.kind \in connector.kinds /\ AtLeast(event.severity, connector.minimum)

Takes(route, event) ==
  /\ route.kind = event.kind
  /\ route.delivery = event.delivery
  /\ AtLeast(event.severity, route.minimum)
  /\ event.outcome \in route.outcomes

Routed(plan, event) == \E i \in DOMAIN plan : Takes(plan[i], event)

ResolveSiemRoute(plan, event) ==
  plan[CHOOSE i \in DOMAIN plan :
         Takes(plan[i], event) /\ \A j \in 1..(i - 1) : ~ Takes(plan[j], event)]

PlaybookSupports(playbook, event) ==
  playbook # "none" =>
    /\ playbook \in DOMAIN Playbook
    /\ event.kind \in Playbook[playbook].kinds
    /\ event.outcome \in Playbook[playbook].outcomes

Covered(connector, plan, event) ==
  /\ Passes(connector, event)
  /\ Routed(plan, event)
  /\ PlaybookSupports(ResolveSiemRoute(plan, event).playbook, event)

KindCovered(connector, plan, kind) ==
  kind \in connector.kinds /\ \E i \in DOMAIN plan : plan[i].kind = kind

SiemReady(connector, plan, samples) ==
  /\ \A kind \in SIEM_EVENT_KINDS : KindCovered(connector, plan, kind)
  /\ \A event \in samples : Covered(connector, plan, event)

-----------------------------------------------------------------------------

SiemInit ==
  /\ setup = NotLive
  /\ context = CONDITIONS
  /\ instant = 0
  /\ decided = {}
  /\ soc = {}

\* The operator registers a connector and a plan, and goes live if ready.
GoLive(connector, plan, samples) ==
  /\ setup = NotLive
  /\ RegistrationOk(connector) /\ RoutingPlanOk(plan) /\ samples # {}
  /\ SiemReady(connector, plan, samples)
  /\ setup' = [connector |-> connector, plan |-> plan, samples |-> samples]
  /\ UNCHANGED <<context, instant, decided, soc>>

Decides(event) ==
  /\ setup # NotLive /\ Cardinality(decided \union {event}) <= MaxDecided
  /\ decided' = decided \union {event}
  /\ UNCHANGED <<setup, context, instant, soc>>

Evaluate(request) ==
  Decides(GovernanceDecisionSiemEvent(request, EvaluateGovernanceRequest(request, context),
                                      MissingControls(request, context), instant))

ReportAssessment(assessment) == Decides(OvershareIncidentSiemEvent(assessment))

ReportEnforcement(assessment, prior, recurred, action) ==
  Decides(OvershareEnforcementSiemEvent(assessment, prior, recurred, action))

\* A SIEM keeps one event of an id, so that a repeated delivery does no harm.
Forward(event) ==
  /\ Passes(setup.connector, event) /\ Routed(setup.plan, event)
  /\ soc' = IF \E held \in soc : held.id = event.id THEN soc ELSE soc \union {event}
  /\ UNCHANGED <<setup, context, instant, decided>>

ConditionChanges(condition) ==
  /\ setup # NotLive
  /\ context' = IF condition \in context THEN context \ {condition} ELSE context \union {condition}
  /\ UNCHANGED <<setup, instant, decided, soc>>

InstantPasses ==
  /\ setup # NotLive /\ instant < LastInstant
  /\ instant' = instant + 1
  /\ UNCHANGED <<setup, context, decided, soc>>

SiemStep ==
  \/ \E c \in Connectors, p \in Plans, s \in Samples : GoLive(c, p, s)
  \/ \E r \in Requests : Evaluate(r)
  \/ \E a \in Assessments : ReportAssessment(a)
  \/ \E a \in Assessments, d \in Enforcements : ReportEnforcement(a, d.prior, d.recurred, d.action)
  \/ \E e \in decided : Forward(e)
  \/ \E c \in Losable : ConditionChanges(c)
  \/ InstantPasses

SiemSpec == SiemInit /\ [][SiemStep]_siemVars

-----------------------------------------------------------------------------

\* A sample event speaks for the decisions of its kind, outcome and delivery
\* that are at least as severe.
SpeaksFor(sample, event) ==
  /\ sample.kind = event.kind
  /\ sample.outcome = event.outcome
  /\ sample.delivery = event.delivery
  /\ AtLeast(event.severity, sample.severity)

SameOutcome(held, event) ==
  /\ held.kind = event.kind /\ held.outcome = event.outcome
  /\ held.severity = event.severity /\ held.delivery = event.delivery

\* Once the readiness check has let a plan go live, every decision one of its
\* samples speaks for reaches the SIEM: connector and routes take its event,
\* into a playbook made for it if the sample was as severe (a more severe one
\* may meet an earlier route), the playbook it recommends itself is made for
\* it, and an event the SIEM holds under its id tells of the same outcome, if not
\* of the same principal.
DecisionsReachTheSoc ==
  \A event \in decided :
    /\ \A sample \in setup.samples : SpeaksFor(sample, event) =>
         /\ Passes(setup.connector, event) /\ Routed(setup.plan, event)
         /\ sample.severity = event.severity => Covered(setup.connector, setup.plan, event)
    /\ PlaybookSupports(event.playbook, event)
    /\ \A held \in soc : held.id = event.id => SameOutcome(held, event)

\* How strict a governance decision is.
Strictness(decision) ==
  IF decision = "deny" THEN 3 ELSE IF decision = "require_approval" THEN 2 ELSE 1

\* A step that loses conditions makes the answer to no request milder.
RequestsNeverMilder ==
  context' \subseteq context =>
    \A r \in Requests : Strictness(EvaluateGovernanceRequest(r, context')) >=
                        Strictness(EvaluateGovernanceRequest(r, context))
=============================================================================
