----------------------------- MODULE ServiceHealth -----------------------------
(***************************************************************************)
(* The health of the API runtime: performance samples are summarised, the  *)
(* summary is classified, and one of its figures is measured against an    *)
(* objective whose breach raises an alert.  Of a summary only what its     *)
(* class depends on is kept.  A bag of samples stands for the list: no     *)
(* figure depends on their order.                                          *)
(*                                                                         *)
(* Rates and budgets are decimals in the code; here they are compared as   *)
(* fractions, or counted in ten-thousandths, the digits the code keeps.    *)
(***************************************************************************)
EXTENDS Integers, FiniteSetsExt

CONSTANTS
  Sample,      \* samples: status, durationMs, cpuPercent, memoryPercent (as sent)
  MaxSamples,  \* bound: samples in a summary
  Target,      \* objectives for the 95th percentile of durations
  SloWindow    \* windows of an objective

ASSUME SamplesAssumption == MaxSamples \in Nat

VARIABLES
  samples,  \* how often each sample was taken
  slo       \* the objective: target and windowHours

healthVars == <<samples, slo>>

-----------------------------------------------------------------------------

ClassifyOutcome(statusCode) ==
  CASE statusCode \in 200..299 -> "success"
    [] statusCode \in 400..499 -> "client_error"
    [] statusCode >= 500       -> "server_error"
    [] OTHER                   -> "unknown"

ClampMin(value, min)        == Max({min, value})
ClampRange(value, min, max) == Max({min, Min({max, value})})

NormalizeSample(s) ==
  [outcome                    |-> ClassifyOutcome(s.status),
   durationMs                 |-> ClampMin(s.durationMs, 0),
   resourceUtilizationPercent |-> Max({ClampRange(s.cpuPercent, 0, 100),
                                       ClampRange(s.memoryPercent, 0, 100)})]

Count(bag, Test(_)) == MapThenSumSet(LAMBDA s : IF Test(s) THEN bag[s] ELSE 0, DOMAIN bag)

Size(bag)  == MapThenSumSet(LAMBDA s : bag[s], DOMAIN bag)
Taken(bag) == {s \in DOMAIN bag : bag[s] > 0}

\* The duration of rank ceil(p% of the samples) in increasing order.
Percentile(bag, p) ==
  LET rank == Max({1, (p * Size(bag) + 99) \div 100})
  IN  Min({d \in {NormalizeSample(s).durationMs : s \in Taken(bag)} :
             Count(bag, LAMBDA s : NormalizeSample(s).durationMs <= d) >= rank})

BuildPerformanceMetricsSummary(bag) ==
  IF Size(bag) = 0
  THEN [requestCount |-> 0, errors |-> 0, p95DurationMs |-> 0, peak |-> 0]
  ELSE [requestCount  |-> Size(bag),
        errors        |-> Count(bag, LAMBDA s : NormalizeSample(s).outcome # "success"),
        p95DurationMs |-> Percentile(bag, 95),
        peak          |-> Max({NormalizeSample(s).resourceUtilizationPercent : s \in Taken(bag)})]

\* Classes from best to worst.
Classes == <<"healthy", "fair", "at-risk", "critical">>

Reaches(summary, percent, duration, peak) ==
  \/ 100 * summary.errors >= percent * summary.requestCount
  \/ summary.p95DurationMs >= duration
  \/ summary.peak >= peak

\* A summary of no requests is critical.
ClassifyPerformanceHealth(summary) ==
  IF summary.requestCount = 0 \/ Reaches(summary, 20, 5000, 95) THEN 4
  ELSE IF Reaches(summary, 10, 2000, 90) THEN 3
  ELSE IF Reaches(summary, 3, 800, 75) THEN 2
  ELSE 1

\* buildRequestTelemetrySummary: unknown outcomes are no errors.
TelemetryErrors(bag) ==
  Count(bag, LAMBDA s : ClassifyOutcome(s.status) \in {"client_error", "server_error"})

-----------------------------------------------------------------------------
(* Objectives. *)

\* A quotient rounded to ten-thousandths.
TenThousandths(a, b) == (2 * 10000 * a + b) \div (2 * b)

Rounded(a, b) == (2 * a + b) \div (2 * b)

EvaluateOperationalSlo(target, actual, windowHours) ==
  LET budget == IF target > 0 THEN TenThousandths(Max({0, actual - target}), target) ELSE 0
  IN  [status |-> IF actual <= target THEN "met" ELSE "breached",
       burnRate |-> Rounded(budget, Max({1, windowHours}))]

\* From low to critical.
ClassifySloBurnRate(burnRate) ==
  IF burnRate >= 500 THEN 4 ELSE IF burnRate >= 200 THEN 3 ELSE IF burnRate >= 100 THEN 2 ELSE 1

\* buildSloBreachAlerts: the severity of the alert, 0 if there is none.
SloAlert(evaluation) ==
  IF evaluation.status = "breached" THEN ClassifySloBurnRate(evaluation.burnRate) ELSE 0

AlertFor(bag) ==
  SloAlert(EvaluateOperationalSlo(slo.target, BuildPerformanceMetricsSummary(bag).p95DurationMs,
                                  slo.windowHours))

-----------------------------------------------------------------------------

HealthInit ==
  /\ samples = [s \in Sample |-> 0]
  /\ slo \in [target : Target, windowHours : SloWindow]

TakeSample(s) ==
  /\ Size(samples) < MaxSamples
  /\ samples' = [samples EXCEPT ![s] = @ + 1]
  /\ UNCHANGED slo

HealthNext == \E s \in Sample : TakeSample(s)

-----------------------------------------------------------------------------

Health(bag) == ClassifyPerformanceHealth(BuildPerformanceMetricsSummary(bag))

\* As good as any sample that was taken.
IsGood(s, bag) ==
  \A other \in Taken(bag) :
    /\ NormalizeSample(s).outcome = "success"
    /\ NormalizeSample(s).durationMs <= NormalizeSample(other).durationMs
    /\ NormalizeSample(s).resourceUtilizationPercent <=
         NormalizeSample(other).resourceUtilizationPercent

(***************************************************************************)
(* One more good answer never makes the health worse, never makes a breach *)
(* more severe and never raises a new alert, at any number of samples:     *)
(* ranks that are rounded make a percentile jump as the list grows.        *)
(* (buildPerformanceMetricsSummary, classifyPerformanceHealth,             *)
(* evaluateOperationalSlo, buildSloBreachAlerts.)                          *)
(***************************************************************************)
GoodNewsNeverWorsens ==
  [][\A s \in Sample :
       (samples'[s] = samples[s] + 1 /\ Size(samples) > 0 /\ IsGood(s, samples)) =>
         /\ Health(samples') <= Health(samples)
         /\ AlertFor(samples') <= AlertFor(samples)]_healthVars
=============================================================================
