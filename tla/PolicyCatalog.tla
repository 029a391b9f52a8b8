---------------------------- MODULE PolicyCatalog ----------------------------
(***************************************************************************)
(* The policy catalog and its three evaluators: skill manifests, tenant    *)
(* onboarding and ingestion.  An evaluator reports every policy of its     *)
(* target as matched and the ids of those the input violates; the input    *)
(* passes when there is none.  Its caller decides what follows from that.  *)
(***************************************************************************)
EXTENDS Integers, FiniteSets

SKILL_DATA_SOURCES ==
  {"azure-ai-foundry", "azure-ai-search", "exchange-online", "fabric-onelake",
   "microsoft-graph", "microsoft-purview", "sharepoint-online", "teams"}
MODEL_PROVIDERS   == {"azure-ai-foundry", "azure-openai", "microsoft"}
RESOURCE_TYPES    == {"CognitiveServices", "KeyVault", "ManagedIdentity", "Search", "Storage"}
INGESTION_SOURCES == {"azure-ai-foundry", "microsoft-graph", "microsoft-scenario-library"}
PROVIDERS         == {"blob", "onelake"}

RetentionRange == [class \in {"ephemeral", "short-term", "compliance"} |->
  IF class = "ephemeral" THEN 1..7 ELSE IF class = "short-term" THEN 7..30 ELSE 30..3650]

CatalogPolicy(id, target, controls) == [id |-> id, target |-> target, controls |-> controls]

Policies ==
  {CatalogPolicy("skill.high-risk-approval", "skillManifest", {"approval-gates", "least-privilege"}),
   CatalogPolicy("skill.approved-data-sources", "skillManifest", {"policy-as-code"}),
   CatalogPolicy("skill.approved-model-providers", "skillManifest", {"policy-as-code"}),
   CatalogPolicy("skill.cicd-release-gates", "skillManifest", {"ci-cd-gates", "responsible-ai"}),
   CatalogPolicy("tenant.high-risk-approval", "tenantOnboarding", {"approval-gates", "byo-entra"}),
   CatalogPolicy("tenant.approved-resource-types", "tenantOnboarding", {"policy-as-code", "data-residency"}),
   CatalogPolicy("ingestion.approved-sources", "ingestion", {"policy-as-code"}),
   CatalogPolicy("ingestion.retention-and-storage", "ingestion", {"data-retention", "audit-traceability"})}

PoliciesFor(target) == {p.id : p \in {q \in Policies : q.target = target}}

Evaluation(target, violated) ==
  [ok |-> violated = {}, matched |-> PoliciesFor(target), violated |-> violated]

Violated(id, holds) == IF holds THEN {id} ELSE {}

(***************************************************************************)
(* isHighRiskPermission.  Roles are judged against a list of their own.    *)
(***************************************************************************)
HIGH_RISK_PERMISSION_RULES ==
  {"Directory.ReadWrite.All", "Directory.AccessAsUser.All", "Application.ReadWrite.All",
   "RoleManagement.ReadWrite.Directory", "User.ReadWrite.All", "Sites.FullControl.All",
   "Mail.Send"}
HIGH_RISK_RBAC_ROLES ==
  {"Owner", "User Access Administrator", "Privileged Role Administrator", "Global Administrator"}

IsHighRiskPermission(permission, kind) ==
  permission \in IF kind = "rbacRole" THEN HIGH_RISK_RBAC_ROLES ELSE HIGH_RISK_PERMISSION_RULES

-----------------------------------------------------------------------------

HasHighRiskScope(manifest) == \E s \in manifest.scopes : IsHighRiskPermission(s, "appRole")

\* manifest.declared: skillId, name, owner and solutionId are all there.
EvaluateSkillManifestPolicies(manifest) ==
  Evaluation("skillManifest",
    Violated("skill.high-risk-approval",
             (manifest.riskBand = "high" \/ HasHighRiskScope(manifest)) /\ ~manifest.ticket)
    \union
    Violated("skill.approved-data-sources",
             manifest.sources = {} \/ ~(manifest.sources \subseteq SKILL_DATA_SOURCES))
    \union
    Violated("skill.approved-model-providers",
             manifest.models = {} \/ ~(manifest.models \subseteq MODEL_PROVIDERS))
    \union
    Violated("skill.cicd-release-gates",
             \/ ~manifest.declared
             \/ ~manifest.testsPassed
             \/ manifest.riskBand = "high" /\ ~manifest.reviewed))

\* Mutant of EvaluateTenantOnboardingPolicies: only application roles are judged.
EvaluateTenantByRoles(request) ==
  LET highRisk == \E p \in request.appRoles : IsHighRiskPermission(p, "appRole")
  IN  [evaluation |-> Evaluation("tenantOnboarding",
         Violated("tenant.high-risk-approval", highRisk /\ ~request.ticket)
         \union
         Violated("tenant.approved-resource-types", ~(request.resourceTypes \subseteq RESOURCE_TYPES))),
       highRisk |-> highRisk]

EvaluateTenantOnboardingPolicies(request) ==
  LET highRisk == \/ \E p \in request.appRoles : IsHighRiskPermission(p, "appRole")
                  \/ \E p \in request.delegatedScopes : IsHighRiskPermission(p, "delegatedScope")
  IN  [evaluation |-> Evaluation("tenantOnboarding",
         Violated("tenant.high-risk-approval", highRisk /\ ~request.ticket)
         \union
         Violated("tenant.approved-resource-types", ~(request.resourceTypes \subseteq RESOURCE_TYPES))),
       highRisk |-> highRisk]

\* A class that is not in the catalog has no range: comparing with undefined is
\* false, and only the class itself is reported.
EvaluateIngestionPolicies(input) ==
  Evaluation("ingestion",
    Violated("ingestion.approved-sources", input.source \notin INGESTION_SOURCES)
    \union
    Violated("ingestion.retention-and-storage",
             \/ input.provider \notin PROVIDERS
             \/ input.class \notin DOMAIN RetentionRange
             \/ input.class \in DOMAIN RetentionRange /\ input.days \notin RetentionRange[input.class]))
=============================================================================
