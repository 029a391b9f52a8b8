---------------------------- MODULE AlertThresholds ----------------------------
(***************************************************************************)
(* Alerts from thresholds on a tenant's metrics.  A metric that crosses    *)
(* its threshold by more than half of it raises the severity by one band.  *)
(* Rates are in per mille; a metric may be missing.                        *)
(***************************************************************************)
EXTENDS Integers, FiniteSetsExt

CONSTANTS
  Reading,  \* per metric: the values it takes, NoReading among them
  NoReading \* a metric that is missing

ASSUME ReadingAssumption ==
  /\ \A m \in DOMAIN Reading : Reading[m] \subseteq Int \union {NoReading}
  /\ NoReading \notin Int

VARIABLES tenantMetrics  \* the tenant's metrics

Threshold(metric, operator, threshold, severity) ==
  [metric |-> metric, operator |-> operator, threshold |-> threshold, severity |-> severity]

\* Severities from low to critical.
BuildDefaultThresholds ==
  {Threshold("overallScore", "lt", 40, 4), Threshold("overallScore", "lt", 60, 3),
   Threshold("governScore", "lt", 50, 3), Threshold("secureScore", "lt", 50, 3),
   Threshold("overshareRate", "gt", 50, 4), Threshold("licenseUtilization", "lt", 500, 2),
   Threshold("activeAgentRatio", "lt", 300, 2), Threshold("criticalComplianceGaps", "gt", 0, 4)}

Crosses(operator, actual, threshold) ==
  IF operator = "lt" THEN actual < threshold ELSE actual > threshold

Distance(a, b) == IF a < b THEN b - a ELSE a - b

\* Mutant of ClassifyAlertSeverity: the value is compared, not its distance.
ClassifyAlertSeverityOfActual(t, actual) ==
  IF t.threshold # 0 /\ 2 * actual > t.threshold THEN Min({4, t.severity + 1}) ELSE t.severity

ClassifyAlertSeverity(t, actual) ==
  IF t.threshold # 0 /\ 2 * Distance(actual, t.threshold) > t.threshold
  THEN Min({4, t.severity + 1}) ELSE t.severity

\* The severity of a threshold's alert, 0 if it raises none.
Alert(t, values) ==
  IF /\ t.metric \in DOMAIN values /\ values[t.metric] # NoReading
     /\ Crosses(t.operator, values[t.metric], t.threshold)
  THEN ClassifyAlertSeverity(t, values[t.metric]) ELSE 0

BuildThresholdSummary(values) ==
  LET alerts == {t \in BuildDefaultThresholds : Alert(t, values) > 0}
  IN  [total |-> Cardinality(alerts),
       requiresAction |-> \E t \in alerts : Alert(t, values) >= 3]

-----------------------------------------------------------------------------

AlertsInit == tenantMetrics \in [DOMAIN Reading -> {NoReading}]

Measure(metric, value) == tenantMetrics' = [tenantMetrics EXCEPT ![metric] = value]

AlertsNext == \E m \in DOMAIN Reading : \E v \in Reading[m] : Measure(m, v)

AlertsSpec == AlertsInit /\ [][AlertsNext]_tenantMetrics

\* The metrics of which more is worse.
IsWorseUpwards(metric) == metric \in {"overshareRate", "criticalComplianceGaps"}

Improved(before, after) ==
  \A m \in DOMAIN before : after[m] # before[m] =>
    /\ NoReading \notin {before[m], after[m]}
    /\ IF IsWorseUpwards(m) THEN after[m] <= before[m] ELSE before[m] <= after[m]

(***************************************************************************)
(* A metric that improves raises no alert, and makes none more severe: the *)
(* distance that elevates a severity is measured on the side that crossed. *)
(* (evaluateThresholds, classifyAlertSeverity, buildThresholdSummary.)     *)
(***************************************************************************)
ImprovementRaisesNoAlert ==
  [][Improved(tenantMetrics, tenantMetrics') =>
       /\ \A t \in BuildDefaultThresholds : Alert(t, tenantMetrics') <= Alert(t, tenantMetrics)
       /\ BuildThresholdSummary(tenantMetrics').requiresAction =>
            BuildThresholdSummary(tenantMetrics).requiresAction]_tenantMetrics
=============================================================================
