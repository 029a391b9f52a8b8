-------------------------- MODULE TenantOnboarding --------------------------
(***************************************************************************)
(* How a tenant and its apps come into service.  A request is validated    *)
(* and turned into a plan with a bundle; the operator runs the bundle's    *)
(* script, which registers the app, grants it consent, stores its secret   *)
(* in the vault and deploys, and records the execution of the plan's       *)
(* checkpoints in a list of the caller's; a checklist is evaluated step by *)
(* step; and skills are released through the compliance bundle together    *)
(* with the role assignments.                                              *)
(***************************************************************************)
EXTENDS PolicyCatalog, Sequences

CONSTANTS
  App,            \* the apps of the tenant
  Onboardings,    \* bound: the requests made
  Executions,     \* bound: the executions recorded
  Checklist,      \* bound: the steps of the checklist that are evaluated
  Manifests,      \* bound: the skill manifests
  Assignments,    \* bound: the lists of role assignments
  MaxExecutions,  \* bound on the executions of an app
  MaxAge,         \* bound on the age of a secret, in days
  NoPlan, NoSecret, NotGiven

\* The days of a request are numbers, those of its rotation may be left out.
ASSUME OnboardingsAssumption ==
  \A r \in Onboardings :
    /\ {r.credential.expiryDays, r.credential.validityDays} \subseteq Int
    /\ {r.credential.rotationDays, r.credential.rolloverDays} \subseteq Int \union {NotGiven}

\* The steps are those of the catalog.
ASSUME ChecklistAssumption ==
  Checklist \subseteq
    {"entra-app-registered", "permissions-granted", "keyvault-configured", "mfa-enabled",
     "baseline-policy-applied", "coe-owner-assigned", "audit-log-retention",
     "license-inventory", "data-residency-confirmed", "initial-usage-pull"}

VARIABLES
  plan,        \* per app: the request its plan and bundle were built from, or NoPlan
  progress,    \* per app: the steps of the script pack that have been run
  granted,     \* the permissions that were consented to
  vault,       \* per app: its secret and the rotation it is under, or NoSecret
  executions,  \* per app: the executions recorded
  results,     \* per step of the checklist: its result
  skills,      \* the skills that are released
  roles        \* the role assignments in force

onboardingVars == <<plan, progress, granted, vault, executions, results, skills, roles>>

-----------------------------------------------------------------------------
(* Requests and bundles.                                                    *)

CREDENTIAL_STRATEGIES == {"clientSecret", "certificate"}
PROVISIONING_MODES    == {"create", "reference"}

\* Both kinds of dates may be given; only those of the type count.
Life(credential) ==
  IF credential.type = "clientSecret" THEN credential.expiryDays ELSE credential.validityDays

\* Mutant of RotationGiven: the field of client secrets is read for both types.
RotationOfSecrets(credential) == credential.rotationDays

RotationGiven(credential) ==
  IF credential.type = "clientSecret" THEN credential.rotationDays ELSE credential.rolloverDays

\* No rule compares the rotation with the life of the credential.
RotationDays(credential) ==
  IF RotationGiven(credential) = NotGiven THEN 30 ELSE RotationGiven(credential)

CredentialOk(credential) ==
  /\ credential.type \in CREDENTIAL_STRATEGIES
  /\ credential.named
  /\ Life(credential) > 0

\* complete: the plain fields that are required are there, the redirect address
\* among them is of the right kind.
ValidateTenantOnboardingRequest(request) ==
  /\ request.complete
  /\ request.owners # {}
  /\ CredentialOk(request.credential)
  /\ request.resourceTypes # {}
  /\ request.mode \in PROVISIONING_MODES
  /\ EvaluateTenantOnboardingPolicies(request).evaluation.ok

HasHighRisk(request) == EvaluateTenantOnboardingPolicies(request).highRisk

\* The name of a permission, without the resource it is of.
FlattenPermissionNames(request) == request.appRoles \union request.delegatedScopes

KeyVaultProvisioningManifest(request) ==
  [life |-> Life(request.credential), rotationDays |-> RotationDays(request.credential)]

FailedReadinessChecks(request) ==
  Violated("missing-approval-ticket", HasHighRisk(request) /\ ~ request.ticket)
  \union
  Violated("missing-owners", request.owners = {})
  \union
  Violated("missing-regional-resource", request.resourceTypes \intersect {"Storage", "KeyVault"} = {})

-----------------------------------------------------------------------------
(* The workflow of a plan.                                                  *)

CHECKPOINT_IDS == {"validate-request", "approval-gate", "provisioning-bundle", "evidence-bundle"}

BlockedCheckpoints(request) ==
  Violated("approval-gate", HasHighRisk(request) /\ ~ request.ticket)

Recorded(list, id) == {i \in DOMAIN list : list[i].id = id}

\* Mutant of LastStatus: the first execution of a checkpoint is kept.
FirstStatus(list, id) ==
  list[CHOOSE i \in Recorded(list, id) : \A j \in Recorded(list, id) : i <= j].status

LastStatus(list, id) ==
  list[CHOOSE i \in Recorded(list, id) : \A j \in Recorded(list, id) : j <= i].status

CheckpointStatus(request, list, id) ==
  IF id \in BlockedCheckpoints(request) THEN "blocked"
  ELSE IF Recorded(list, id) = {} THEN "pending"
  ELSE LastStatus(list, id)

EvaluateOnboardingWorkflowCheckpoints(request, list) ==
  LET statuses == {CheckpointStatus(request, list, id) : id \in CHECKPOINT_IDS}
      unknown  == \E i \in DOMAIN list : list[i].id \notin CHECKPOINT_IDS
  IN  IF unknown \/ statuses \intersect {"blocked", "failed"} # {} THEN "blocked"
      ELSE IF "pending" \in statuses THEN "in_progress"
      ELSE "completed"

ReadyForActivation(a) ==
  plan[a] # NoPlan /\ EvaluateOnboardingWorkflowCheckpoints(plan[a], executions[a]) = "completed"

-----------------------------------------------------------------------------
(* The checklist of the first run.                                          *)

CRITICALITY ==
  [step \in {"entra-app-registered", "permissions-granted", "keyvault-configured", "mfa-enabled",
             "baseline-policy-applied", "coe-owner-assigned", "audit-log-retention",
             "license-inventory", "data-residency-confirmed", "initial-usage-pull"} |->
     IF step \in {"entra-app-registered", "permissions-granted", "keyvault-configured"} THEN "critical"
     ELSE IF step \in {"coe-owner-assigned", "license-inventory", "initial-usage-pull"} THEN "medium"
     ELSE "high"]

EvaluateAssessmentStep(step, passed) ==
  IF passed THEN "pass" ELSE IF CRITICALITY[step] = "critical" THEN "fail" ELSE "partial"

Evaluated == {step \in Checklist : results[step] # "pending"}
Passed    == {step \in Checklist : results[step] = "pass"}

\* Of the steps that have a result: one without is neither passed nor a gap.
BaselineScore ==
  IF Evaluated = {} THEN 0
  ELSE (200 * Cardinality(Passed) + Cardinality(Evaluated)) \div (2 * Cardinality(Evaluated))

ClassifyOnboardingReadiness ==
  IF \E step \in Evaluated : results[step] = "fail" THEN "blocked"
  ELSE IF BaselineScore >= 80 THEN "ready"
  ELSE "partial"

-----------------------------------------------------------------------------
(* The control system: skills and roles.                                    *)

ValidateSkillManifest(manifest) ==
  /\ manifest.declared
  /\ manifest.riskBand \in {"high", "medium", "low"}
  /\ manifest.testsPassed
  /\ manifest.riskBand = "high" \/ HasHighRiskScope(manifest) => manifest.ticket
  /\ EvaluateSkillManifestPolicies(manifest).ok

AllowedHighRiskRoles ==
  [role \in {"foundryAdmin", "indexer", "reviewer", "approver", "securityOperator"} |->
     IF role = "foundryAdmin" THEN {"Owner"}
     ELSE IF role = "securityOperator" THEN {"Privileged Role Administrator"} ELSE {}]

ValidateRoleAssignments(assignments) ==
  \A a \in assignments :
    /\ a.role \in DOMAIN AllowedHighRiskRoles
    /\ IsHighRiskPermission(a.assigned, "rbacRole") => a.assigned \in AllowedHighRiskRoles[a.role]

CiCdCompliancePassed(manifests, assignments) ==
  (\A m \in manifests : ValidateSkillManifest(m)) /\ ValidateRoleAssignments(assignments)

-----------------------------------------------------------------------------

OnboardingInit ==
  /\ plan = [a \in App |-> NoPlan]
  /\ progress = [a \in App |-> 0]
  /\ granted = {}
  /\ vault = [a \in App |-> NoSecret]
  /\ executions = [a \in App |-> << >>]
  /\ results = [step \in Checklist |-> "pending"]
  /\ skills = {} /\ roles = {}

\* A request that is not valid leaves no plan; a new plan leaves the executions
\* recorded of the old one, which carry no plan of theirs.
Plan(a, request) ==
  /\ ValidateTenantOnboardingRequest(request)
  /\ plan' = [plan EXCEPT ![a] = request]
  /\ progress' = [progress EXCEPT ![a] = 0]
  /\ UNCHANGED <<granted, vault, executions, results, skills, roles>>

RunsStep(a, n) ==
  /\ plan[a] # NoPlan /\ progress[a] = n - 1
  /\ progress' = [progress EXCEPT ![a] = n]
  /\ UNCHANGED <<plan, executions, results, skills, roles>>

RegisterOrDeploy(a) == (RunsStep(a, 1) \/ RunsStep(a, 4)) /\ UNCHANGED <<granted, vault>>

GrantAdminConsent(a) ==
  /\ RunsStep(a, 2)
  /\ granted' = granted \union
       {[app |-> a, permission |-> p, ticket |-> plan[a].ticket] :
          p \in FlattenPermissionNames(plan[a])}
  /\ UNCHANGED vault

ProvisionSecret(a) ==
  /\ RunsStep(a, 3)
  /\ vault' = [vault EXCEPT ![a] =
       [age |-> 0, credential |-> plan[a].credential,
        manifest |-> KeyVaultProvisioningManifest(plan[a])]]
  /\ UNCHANGED granted

\* A day's work on a secret: it is rotated when its manifest says so.
Aged(secret) ==
  IF secret = NoSecret THEN NoSecret
  ELSE [secret EXCEPT !.age = IF @ + 1 >= secret.manifest.rotationDays THEN 0 ELSE @ + 1]

SecretsAge ==
  /\ \A a \in App : vault[a] # NoSecret => vault[a].age < MaxAge
  /\ vault' = [a \in App |-> Aged(vault[a])]
  /\ UNCHANGED <<plan, progress, granted, executions, results, skills, roles>>

RecordExecution(a, execution) ==
  /\ plan[a] # NoPlan /\ Len(executions[a]) < MaxExecutions
  /\ executions' = [executions EXCEPT ![a] = Append(@, execution)]
  /\ UNCHANGED <<plan, progress, granted, vault, results, skills, roles>>

AssessStep(step, passed) ==
  /\ results' = [results EXCEPT ![step] = EvaluateAssessmentStep(step, passed)]
  /\ UNCHANGED <<plan, progress, granted, vault, executions, skills, roles>>

Release(manifests, assignments) ==
  /\ CiCdCompliancePassed(manifests, assignments)
  /\ skills' = skills \union manifests
  /\ roles' = assignments
  /\ UNCHANGED <<plan, progress, granted, vault, executions, results>>

ProvisioningStep ==
  \/ \E a \in App, r \in Onboardings : Plan(a, r)
  \/ \E a \in App : RegisterOrDeploy(a) \/ GrantAdminConsent(a) \/ ProvisionSecret(a)
  \/ SecretsAge

WorkflowStep ==
  \/ \E a \in App, r \in Onboardings : Plan(a, r)
  \/ \E a \in App, e \in Executions : RecordExecution(a, e)

AssessmentStep == \E step \in Checklist, passed \in BOOLEAN : AssessStep(step, passed)

ReleaseStep == \E ms \in SUBSET Manifests, as \in Assignments : Release(ms, as)

OnboardingNext == ProvisioningStep \/ WorkflowStep \/ AssessmentStep \/ ReleaseStep

OnboardingSpec == OnboardingInit /\ [][OnboardingNext]_onboardingVars

-----------------------------------------------------------------------------

\* No permission that counts as risky is in use without someone's approval: the
\* consent given to an app came from a request with a ticket, a skill that is
\* released has one (and at a high risk band a review), and a risky role is held
\* only in a part it is meant for.  Three validators share one list of risky
\* permissions, and each has its own way of collecting what is asked for.
OnlyApprovedRisk ==
  /\ \A g \in granted : IsHighRiskPermission(g.permission, "custom") => g.ticket
  /\ \A m \in skills :
       /\ \A s \in m.scopes : IsHighRiskPermission(s, "custom") => m.ticket
       /\ m.riskBand = "high" => m.ticket /\ m.reviewed
  /\ \A a \in roles : a.assigned \in HIGH_RISK_RBAC_ROLES =>
       <<a.role, a.assigned>> \in {<<"foundryAdmin", "Owner">>,
                                  <<"securityOperator", "Privileged Role Administrator">>}

\* A secret outlives its rotation unless the request itself asked for that: only
\* where the life it gives its credential is shorter than the rotation it gives,
\* or than the 30 days it gets if it gives none, does a secret expire.
NoSurpriseExpiry ==
  \A a \in App : vault[a] # NoSecret =>
    LET c == vault[a].credential
        life == IF c.type = "certificate" THEN c.validityDays ELSE c.expiryDays
        asked == IF c.type = "certificate" THEN c.rolloverDays ELSE c.rotationDays
    IN  vault[a].age >= life => life < IF asked = NotGiven THEN 30 ELSE asked

\* Good marks are earned.  An app is ready for activation only if nobody recorded
\* a failure of a checkpoint that was not made good later, and then the readiness
\* of its bundle, which is judged elsewhere, lacks at most the regional resource;
\* a tenant is ready only if no critical step that was evaluated failed.
ReadyIsEarned ==
  /\ \A a \in App : ReadyForActivation(a) =>
       /\ \A i \in DOMAIN executions[a] : executions[a][i].status = "failed" =>
            \E j \in DOMAIN executions[a] :
              j > i /\ executions[a][j].id = executions[a][i].id /\ executions[a][j].status # "failed"
       /\ \A id \in CHECKPOINT_IDS : \E i \in DOMAIN executions[a] : executions[a][i].id = id
       /\ FailedReadinessChecks(plan[a]) \subseteq {"missing-regional-resource"}
  /\ ClassifyOnboardingReadiness = "ready" =>
       /\ \A step \in Evaluated : CRITICALITY[step] = "critical" => results[step] = "pass"
       /\ 5 * Cardinality(Evaluated \ Passed) <= Cardinality(Evaluated)
=============================================================================
