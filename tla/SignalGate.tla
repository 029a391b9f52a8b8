------------------------------ MODULE SignalGate ------------------------------
(***************************************************************************)
(* What is derived from normalized signals and from the metrics of their   *)
(* source: the quality gate with its score, the freshness summary, the     *)
(* health of the source, and the lineage from the signals the gate         *)
(* accepted to the actions built on them.  Everything is computed anew     *)
(* from the current signals whenever the caller asks.                      *)
(*                                                                         *)
(* Confidences and rates are in hundredths, freshness in minutes; decimals *)
(* are rounded half up, as toFixed and Math.round do on the exact value.   *)
(***************************************************************************)
EXTENDS Integers, FiniteSets, FiniteSetsExt

CONSTANTS
  Signal,       \* signals of one workload
  Confidences,  \* what the signals' confidences can be; out of 0..100 one is not valid
  Used,         \* bound: the signals that are collected anew and used by actions
  AgeStep,      \* minutes between two evaluations
  MaxAge,       \* bound: freshness of a signal
  Latencies,    \* latencies of the source, in milliseconds
  MaxErrors,    \* bound: errors of the source
  Action        \* actions built on signals

VARIABLES
  confidence, \* of each signal
  age,        \* freshness of each signal, in minutes
  links,      \* the signals each action was built on
  metrics     \* of the source: [success, latency, errors]

gateVars == <<confidence, age, links, metrics>>

Round(numerator, denominator) == (2 * numerator + denominator) \div (2 * denominator)
Sum(f, S) == MapThenSumSet(LAMBDA s : f[s], S)

MinConfidence == 60
MaxFreshness  == 180
MinPassRate   == 8000
StaleAfter    == 60

\* validateNormalizedSignal, of which the other fields are given.
IsValid(s) == confidence[s] \in 0..100 /\ age[s] >= 0

\* evaluateSignalQualityGate
Accepted == {s \in Signal : IsValid(s) /\ confidence[s] >= MinConfidence /\ age[s] <= MaxFreshness}

PassRate == Round(10000 * Cardinality(Accepted), Cardinality(Signal))
AverageConfidence ==
  IF Accepted = {} THEN 0 ELSE Round(100 * Sum(confidence, Accepted), Cardinality(Accepted))
AverageFreshness ==
  IF Accepted = {} THEN 0 ELSE Round(100 * Sum(age, Accepted), Cardinality(Accepted))

\* Mutant of QualityScore: how many signals passed does not count.
QualityScoreOfAccepted ==
  Round((90 * AverageConfidence) * MaxFreshness
        + 1000 * Max({0, 100 * MaxFreshness - AverageFreshness}),
        10000 * MaxFreshness)

QualityScore ==
  Round((60 * PassRate + 30 * AverageConfidence) * MaxFreshness
        + 1000 * Max({0, 100 * MaxFreshness - AverageFreshness}),
        10000 * MaxFreshness)

GateReady == PassRate >= MinPassRate

\* summarizeSignalFreshness over the valid signals (it throws for others).
Stale == {s \in Signal : IsValid(s) /\ age[s] > StaleAfter}

\* buildSignalLineageGraph: links to signals that are not nodes are unresolved.
Unresolved   == {l \in Action \X Signal : l[2] \in links[l[1]] /\ l[2] \notin Accepted}
LineageReady == Unresolved = {}

\* evaluateSourceHealth, with the freshness of the oldest valid signal.
SourceFreshness == Max({age[s] : s \in Signal})
HealthScore ==
  LET exact == 900 * metrics.success
               + 6 * Max({0, 5000 - metrics.latency})
               + 125 * Max({0, 240 - SourceFreshness})
               - 1500 * Min({20, metrics.errors})
  IN  IF exact <= 0 THEN 0 ELSE Min({100, Round(exact, 1500)})
ClassifySourceOutage(score) == IF score < 60 THEN 2 ELSE IF score < 80 THEN 1 ELSE 0
HealthStatus(score) == IF score >= 80 THEN 0 ELSE IF score >= 60 THEN 1 ELSE 2

-----------------------------------------------------------------------------

GateInit ==
  /\ confidence \in Confidences
  /\ age = [s \in Signal |-> 0]
  /\ links = [a \in Action |-> {}]
  /\ metrics = [success |-> 100, latency |-> Min(Latencies), errors |-> 0]

\* Time passes: every signal gets older.
Age ==
  /\ \A s \in Signal : age[s] < MaxAge
  /\ age' = [s \in Signal |-> age[s] + AgeStep]
  /\ UNCHANGED <<confidence, links, metrics>>

\* A signal is collected anew.
Refresh(s) ==
  /\ age[s] > 0
  /\ age' = [age EXCEPT ![s] = 0]
  /\ UNCHANGED <<confidence, links, metrics>>

\* An action is built on signals the gate accepts now.
BuildAction(a, on) ==
  /\ links[a] = {} /\ on # {} /\ on \subseteq Accepted
  /\ links' = [links EXCEPT ![a] = on]
  /\ UNCHANGED <<confidence, age, metrics>>

\* The source gets worse in one metric.
Worsen ==
  /\ \/ metrics.success > 0 /\ metrics' = [metrics EXCEPT !.success = @ - 50]
     \/ \E l \in Latencies : l > metrics.latency /\ metrics' = [metrics EXCEPT !.latency = l]
     \/ metrics.errors < MaxErrors /\ metrics' = [metrics EXCEPT !.errors = @ + 10]
  /\ UNCHANGED <<confidence, age, links>>

GateStep ==
  \/ Age \/ Worsen
  \/ \E s \in Used : Refresh(s)
  \/ \E a \in Action, on \in SUBSET Used : BuildAction(a, on)

(***************************************************************************)
(* Nothing improves by getting older or worse: without a new collection,   *)
(* no rejected signal is accepted and no stale one fresh again, the health *)
(* score does not rise, a blocked lineage stays blocked, and outage and    *)
(* status of the source keep naming the same band.  The quality score does *)
(* not rise while two fifths of the signals are accepted; of fewer, the    *)
(* averages may rise by more than the pass rate falls when one ages out.   *)
(* evaluateSignalQualityGate, evaluateSourceHealth, summarizeSignalLineage *)
(***************************************************************************)
Ageing == Age \/ Worsen

NothingImproves ==
  /\ Accepted' \subseteq Accepted
  /\ Stale \subseteq Stale'
  /\ 5 * Cardinality(Accepted) >= 2 * Cardinality(Signal) => QualityScore' <= QualityScore
  /\ GateReady' => GateReady
  /\ LineageReady' => LineageReady
  /\ HealthScore' <= HealthScore
  /\ ClassifySourceOutage(HealthScore') = HealthStatus(HealthScore')

AgeingNeverImproves == [][Ageing => NothingImproves]_gateVars
=============================================================================
