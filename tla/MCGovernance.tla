----------------------------- MODULE MCGovernance -----------------------------
(* The governance records and the onboarding, each part checked alone up to  *)
(* a horizon of its own: they share nothing but the clock, so that their     *)
(* product would show no more than their sum.                                *)
EXTENDS GovernanceExceptions, GovernanceWaivers, GovernanceReviews, GovernanceApproval,
        TenantOnboarding, TLC

VARIABLE part  \* the part that is checked

Parts   == {"exceptions", "waivers", "trail", "reviews", "approval",
            "provisioning", "workflow", "assessment", "release"}
Horizon == 5  \* of the exceptions' clock

vars == <<now, request, waiver, trail, enforced, arrived, item, lastSeen, warned, missed,
          score, votes, onboardingVars, part>>

MCInit ==
  /\ now = 0 /\ part \in Parts
  /\ ExceptionInit /\ WaiverInit /\ ReviewInit /\ ApprovalInit /\ OnboardingInit
  /\ part # "approval" => score = 0
  /\ part # "reviews" => \A i \in Item : item[i].cadence = NoCadence

Idle(others) == UNCHANGED others /\ UNCHANGED part

exceptionRest == <<request>>
waiverRest    == <<waiver, trail, enforced, arrived>>
reviewRest    == <<item, lastSeen, warned, missed>>
records       == <<now, exceptionRest, waiverRest, reviewRest, approvalVars>>

MCNext ==
  \/ /\ part = "exceptions" /\ Idle(<<waiverRest, approvalVars, onboardingVars>>)
     /\ \/ ExceptionStep /\ UNCHANGED reviewRest
        \/ now < Horizon /\ DayPasses /\ UNCHANGED exceptionRest
  \/ part = "waivers" /\ WaiverStep
     /\ Idle(<<now, exceptionRest, reviewRest, approvalVars, onboardingVars>>)
  \/ part = "trail" /\ TrailStep
     /\ Idle(<<now, exceptionRest, reviewRest, approvalVars, onboardingVars>>)
  \/ /\ part = "reviews" /\ Idle(<<exceptionRest, waiverRest, approvalVars, onboardingVars>>)
     /\ ReviewStep \/ DayPasses
  \/ part = "approval" /\ ApprovalStep
     /\ Idle(<<now, exceptionRest, waiverRest, reviewRest, onboardingVars>>)
  \/ part = "provisioning" /\ ProvisioningStep /\ Idle(records)
  \/ part = "workflow" /\ WorkflowStep /\ Idle(records)
  \/ part = "assessment" /\ AssessmentStep /\ Idle(records)
  \/ part = "release" /\ ReleaseStep /\ Idle(records)

MCSpec == MCInit /\ [][MCNext]_vars

Symmetry == Permutations(Waiver) \union Permutations(Actor)

\* Both ends of every band, scores between bands and outside, and no number.
MCScores == {-2, 0, 48, 49, 50, 98, 99, 100, 148, 149, 150, 200, 210, NoScore}

-----------------------------------------------------------------------------
(* The onboarding's instance.                                               *)

MCSecretOf(days) == [type |-> "clientSecret", named |-> TRUE, expiryDays |-> days, validityDays |-> 0,
                     rotationDays |-> NotGiven, rolloverDays |-> NotGiven]

\* A certificate whose request also gives the fields of a secret.
MCCertificate == [type |-> "certificate", named |-> TRUE, expiryDays |-> 90, validityDays |-> 5,
                  rotationDays |-> 28, rolloverDays |-> 2]

MCOnboarding == [complete |-> TRUE, owners |-> {"coe"}, credential |-> MCSecretOf(40),
                 appRoles |-> {"User.Read.All"}, delegatedScopes |-> {},
                 resourceTypes |-> {"KeyVault"}, mode |-> "create", ticket |-> FALSE]

\* Valid ones; without ticket, name or an allowed resource type.
MCOnboardings ==
  {MCOnboarding,
   [MCOnboarding EXCEPT !.credential = MCSecretOf(10), !.resourceTypes = {"Search"}],
   [MCOnboarding EXCEPT !.delegatedScopes = {"Mail.Send"}, !.ticket = TRUE,
                        !.credential = MCCertificate],
   [MCOnboarding EXCEPT !.delegatedScopes = {"Mail.Send"}],
   [MCOnboarding EXCEPT !.complete = FALSE],
   [MCOnboarding EXCEPT !.resourceTypes = {"Compute"}]}

MCExecutions ==
  {[id |-> id, status |-> "completed"] :
     id \in {"validate-request", "approval-gate", "provisioning-bundle", "other"}} \union
  {[id |-> "approval-gate", status |-> "failed"], [id |-> "evidence-bundle", status |-> "skipped"]}

MCChecklist == {"entra-app-registered", "keyvault-configured", "mfa-enabled",
                "audit-log-retention", "coe-owner-assigned", "license-inventory"}

MCManifest == [declared |-> TRUE, riskBand |-> "low", testsPassed |-> TRUE, ticket |-> FALSE,
               reviewed |-> FALSE, scopes |-> {"User.Read.All"}, sources |-> {"teams"},
               models |-> {"microsoft"}]
MCManifests ==
  {MCManifest, [MCManifest EXCEPT !.scopes = {"Mail.Send"}],
   [MCManifest EXCEPT !.scopes = {"Mail.Send"}, !.ticket = TRUE],
   [MCManifest EXCEPT !.riskBand = "high", !.ticket = TRUE],
   [MCManifest EXCEPT !.riskBand = "high", !.ticket = TRUE, !.reviewed = TRUE],
   [MCManifest EXCEPT !.sources = {"dropbox"}], [MCManifest EXCEPT !.testsPassed = FALSE]}

MCAssignment(role, assigned) == [role |-> role, assigned |-> assigned]
MCAssignments ==
  {{MCAssignment("foundryAdmin", "Owner"), MCAssignment("indexer", "Reader")},
   {MCAssignment("securityOperator", "Privileged Role Administrator")},
   {MCAssignment("approver", "Owner")}, {MCAssignment("guest", "Reader")}}
=============================================================================
