---------------------------- MODULE SecurityTriage ----------------------------
(***************************************************************************)
(* The scores of the secure pillar that decide on a response: an access    *)
(* anomaly, an overshare incident in the triage queue, a prompt with       *)
(* injection signals, and a record that is minimised under a policy.  A    *)
(* case is scored anew whenever more becomes known about it: here the      *)
(* evidence of an open case grows, a policy is tightened, and the privacy  *)
(* posture of a tenant worsens.                                            *)
(***************************************************************************)
EXTENDS Integers, FiniteSets

CONSTANTS
  Radii,    \* bound: the numbers of users concerned
  Counts,   \* bound: the numbers of signals, repeats and detector hits
  Fields,   \* bound: the fields of a record
  Totals    \* bound: the numbers of workloads and labelled items

ASSUME CountsAssumption == Radii \subseteq Nat /\ Counts \subseteq Nat /\ Totals \subseteq Nat
ASSUME FieldsAssumption == IsFiniteSet(Fields)

VARIABLE case  \* the open case: its kind and what is known of it

AtMost(n, cap) == IF n > cap THEN cap ELSE n
Points(holds, points) == IF holds THEN points ELSE 0

\* Mutant of Band: an off-by-one leaves 75 to the medium band.
BandWithGap(score) ==
  IF score > 75 THEN 4 ELSE IF score >= 55 /\ score < 75 THEN 3 ELSE IF score >= 30 THEN 2 ELSE 1

\* The band of a score, from 1 (low) to 4 (critical), which three contracts
\* define alike.
Band(score) ==
  IF score >= 75 THEN 4 ELSE IF score >= 55 THEN 3 ELSE IF score >= 30 THEN 2 ELSE 1

-----------------------------------------------------------------------------
(* Access anomalies.                                                        *)

ANOMALY_TYPE_WEIGHT ==
  [type \in {"impossible_travel", "token_reuse", "privilege_escalation",
             "suspicious_app_consent", "excessive_failures", "other"} |->
     IF type \in {"privilege_escalation", "suspicious_app_consent"} THEN 4
     ELSE IF type \in {"impossible_travel", "token_reuse"} THEN 3
     ELSE IF type = "excessive_failures" THEN 2 ELSE 1]

ScoreAccessAnomaly(a) ==
  AtMost(ANOMALY_TYPE_WEIGHT[a.type] * 10 + AtMost(a.signals * 5, 25)
         + AtMost(a.users \div 5, 30) + AtMost(a.repeats * 3, 15) + Points(a.privileged, 10), 100)

MapAccessAnomalyResponse(a) ==
  <<"monitor", "investigate", "contain", "revoke">>[Band(ScoreAccessAnomaly(a))]

-----------------------------------------------------------------------------
(* The triage queue of overshare incidents.                                 *)

SEVERITY_WEIGHT == [severity \in {"low", "medium", "high", "critical"} |->
  IF severity = "critical" THEN 4 ELSE IF severity = "high" THEN 3
  ELSE IF severity = "medium" THEN 2 ELSE 1]

DATA_SENSITIVITY_WEIGHT == [class \in {"confidential", "restricted", "internal", "public"} |->
  IF class = "confidential" THEN 3 ELSE IF class = "restricted" THEN 2
  ELSE IF class = "internal" THEN 1 ELSE 0]

EXPOSURE_POINTS == [exposure \in {"none", "broad_internal", "external_share"} |->
  IF exposure = "external_share" THEN 12 ELSE IF exposure = "broad_internal" THEN 6 ELSE 0]

Sensitivity(classes) ==
  Cardinality({w \in classes \X (1..3) : w[2] <= DATA_SENSITIVITY_WEIGHT[w[1]]})

\* An incident lists each classification once.
CalculateOversharePriority(i) ==
  AtMost(SEVERITY_WEIGHT[i.severity] * 12 + AtMost(i.users \div 5, 40)
         + Sensitivity(i.classes) * 3 + EXPOSURE_POINTS[i.exposure], 100)

-----------------------------------------------------------------------------
(* Prompts.                                                                 *)

\* A detector that hits twice counts once; hits are a number here.
ClassifyPromptInjectionRisk(p) ==
  AtMost(AtMost(p.hits * 12, 40) + Points("credential" \in p.signs, 25)
         + Points("escalation" \in p.signs, 20) + Points("sensitive" \in p.signs, 10)
         + Points("long" \in p.signs, 5), 100)

SIGNS == {"credential", "escalation", "sensitive", "long"}

BuildPromptInjectionContainment(p) ==
  <<"allow_and_log", "allow_with_review", "block_and_review", "block_and_suspend">>
    [Band(ClassifyPromptInjectionRisk(p))]

-----------------------------------------------------------------------------
(* Minimisation: a field the policy does not allow is dropped, one it       *)
(* redacts is replaced, the others go out as they are.                      *)

DroppedFields(p)  == Fields \ p.allowed
RedactedFields(p) == (Fields \intersect p.allowed) \intersect p.redact

-----------------------------------------------------------------------------
(* The privacy posture.                                                     *)

\* Hundredths of a percent, as toFixed(2) rounds them.
Percent(part, total) == IF total = 0 THEN 0 ELSE (20000 * part + total) \div (2 * total)

\* Every retention record has a next action, so only an empty list fails.
PrivacyFailedChecks(p) ==
  {check \in {"data-residency", "purview-labels", "pii-findings", "retention-workflow"} :
     CASE check = "data-residency"     -> Percent(p.total - p.moved, p.total) # 10000
       [] check = "purview-labels"     -> Percent(p.total - p.unlabelled, p.total) # 10000
       [] check = "pii-findings"       -> p.pii
       [] check = "retention-workflow" -> p.records = 0}

-----------------------------------------------------------------------------

Anomalies ==
  [kind : {"anomaly"}, type : DOMAIN ANOMALY_TYPE_WEIGHT, signals : Counts, users : Radii,
   repeats : Counts, privileged : BOOLEAN]

Incidents ==
  [kind : {"incident"}, severity : DOMAIN SEVERITY_WEIGHT, users : Radii,
   classes : SUBSET DOMAIN DATA_SENSITIVITY_WEIGHT, exposure : DOMAIN EXPOSURE_POINTS]

Prompts  == [kind : {"prompt"}, hits : Counts, signs : SUBSET SIGNS]
Records  == [kind : {"record"}, allowed : SUBSET Fields, redact : SUBSET Fields]
Postures == [kind : {"posture"}, total : Totals, moved : {0, 1}, unlabelled : {0, 1},
             pii : BOOLEAN, records : {0, 1}]

Cases == Anomalies \union Incidents \union Prompts \union Records \union Postures

TriageInit == case \in Cases

Learn(kind, known) ==
  /\ case.kind = kind
  /\ case' = known

AnomalyGrows ==
  \E n \in Counts, r \in Radii :
    \/ n > case.signals /\ Learn("anomaly", [case EXCEPT !.signals = n])
    \/ n > case.repeats /\ Learn("anomaly", [case EXCEPT !.repeats = n])
    \/ r > case.users /\ Learn("anomaly", [case EXCEPT !.users = r])
    \/ ~ case.privileged /\ Learn("anomaly", [case EXCEPT !.privileged = TRUE])

IncidentGrows ==
  \/ \E s \in DOMAIN SEVERITY_WEIGHT :
       SEVERITY_WEIGHT[s] > SEVERITY_WEIGHT[case.severity] /\ Learn("incident", [case EXCEPT !.severity = s])
  \/ \E r \in Radii : r > case.users /\ Learn("incident", [case EXCEPT !.users = r])
  \/ \E c \in DOMAIN DATA_SENSITIVITY_WEIGHT \ case.classes :
       Learn("incident", [case EXCEPT !.classes = @ \union {c}])
  \/ \E e \in DOMAIN EXPOSURE_POINTS :
       EXPOSURE_POINTS[e] > EXPOSURE_POINTS[case.exposure] /\ Learn("incident", [case EXCEPT !.exposure = e])

PromptGrows ==
  \/ \E n \in Counts : n > case.hits /\ Learn("prompt", [case EXCEPT !.hits = n])
  \/ \E s \in SIGNS \ case.signs : Learn("prompt", [case EXCEPT !.signs = @ \union {s}])

PolicyTightens ==
  \/ \E f \in case.allowed : Learn("record", [case EXCEPT !.allowed = @ \ {f}])
  \/ \E f \in Fields \ case.redact : Learn("record", [case EXCEPT !.redact = @ \union {f}])

PostureWorsens ==
  \/ case.moved = 0 /\ Learn("posture", [case EXCEPT !.moved = 1])
  \/ case.unlabelled = 0 /\ Learn("posture", [case EXCEPT !.unlabelled = 1])
  \/ ~ case.pii /\ Learn("posture", [case EXCEPT !.pii = TRUE])

TriageStep ==
  \/ case.kind = "anomaly" /\ AnomalyGrows
  \/ case.kind = "incident" /\ IncidentGrows
  \/ case.kind = "prompt" /\ PromptGrows
  \/ case.kind = "record" /\ PolicyTightens
  \/ case.kind = "posture" /\ PostureWorsens

TriageSpec == TriageInit /\ [][TriageStep]_case

-----------------------------------------------------------------------------

\* How grave the response to a case is, by the position of its band.
Gravity(c) ==
  CASE c.kind = "anomaly"  -> Band(ScoreAccessAnomaly(c))
    [] c.kind = "incident" -> Band(CalculateOversharePriority(c))
    [] c.kind = "prompt"   -> Band(ClassifyPromptInjectionRisk(c))
    [] c.kind = "record"   -> 2 * Cardinality(DroppedFields(c)) + Cardinality(RedactedFields(c))
    [] c.kind = "posture"  -> Cardinality(PrivacyFailedChecks(c))

\* Whether the response takes something away before anyone reviews it.
Stops(c) ==
  \/ c.kind = "anomaly" /\ MapAccessAnomalyResponse(c) \in {"contain", "revoke"}
  \/ c.kind = "prompt"
     /\ BuildPromptInjectionContainment(c) \in {"block_and_review", "block_and_suspend"}

\* The percentages of a posture are rounded: up to this many items each counts.
RoundingLimit == 20000

\* No case is answered more mildly when more becomes known against it, nor is what
\* was stopped let go, no policy reveals more when it is tightened, and a posture
\* does not hide a workload that moved or a label that was lost among fewer than
\* RoundingLimit items.
CaseNeverMilder ==
  /\ Gravity(case') >= Gravity(case)
  /\ Stops(case) => Stops(case')
  /\ case.kind = "posture" /\ case.total < RoundingLimit =>
       /\ case'.moved > 0 => "data-residency" \in PrivacyFailedChecks(case')
       /\ case'.unlabelled > 0 => "purview-labels" \in PrivacyFailedChecks(case')
=============================================================================
