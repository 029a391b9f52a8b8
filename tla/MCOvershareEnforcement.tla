------------------------ MODULE MCOvershareEnforcement ------------------------
(* Small instances of the secure pillar, each part checked alone: the        *)
(* overshare workflow on one document in two chunks, with the thresholds of  *)
(* the code and every response of up to two hits; the way of decisions to    *)
(* the SIEM; and the cases of the triage.  Overshare assessments and         *)
(* enforcement decisions reach the SIEM in every form they can take, so that *)
(* the parts need no product.                                                *)
EXTENDS OvershareEnforcement, SiemIntegration, SecurityTriage, TLC

VARIABLE part  \* the part that is checked

MCDocOf  == [c \in Chunks |-> CHOOSE d \in Docs : TRUE]

\* Up to two hits of different chunks; of two hits both labels were enforced, or
\* neither was, and only then a hit has both marks.  Two warnings come with at most one hit, and that of a lost
\* deny entry with hits whose labels were not enforced: an answer that says nothing
\* scores the highest of those.
HitLists ==
  {<< >>} \union {<<h>> : h \in Hit} \union
  {l \in {<<g, h>> : g \in Hit, h \in Hit} :
     /\ l[1].chunk # l[2].chunk
     /\ l[1].enforced = l[2].enforced
     /\ l[1].enforced => \A i \in 1..2 : Cardinality(l[i].marks) < 2}

MCResponses ==
  [hits : HitLists, answerPii : BOOLEAN, warnings : {<< >>}] \union
  [hits : {l \in HitLists : Len(l) < 2}, answerPii : {FALSE},
   warnings : {<<"partial_results", "partial_results">>}] \union
  [hits : {l \in HitLists : \A i \in DOMAIN l : ~ l[i].enforced}, answerPii : {FALSE},
   warnings : {<<"deny_precedence_lost">>}]

Symmetry == Permutations(Chunks) \union Permutations(Labels)

-----------------------------------------------------------------------------
(* The SIEM's instance.                                                     *)

MCRequest(principal, action, riskBand, permission) ==
  [solution |-> "m365-copilot", principal |-> principal, resource |-> "site", action |-> action,
   riskBand |-> riskBand, permission |-> permission, kind |-> "appRole"]

\* Two principals who ask for the same at the same instant, and a request at risk.
MCRequests ==
  {MCRequest("p1", "query-kb", "low", "none"), MCRequest("p2", "query-kb", "low", "none"),
   MCRequest("p1", "deploy-agent", "low", "Mail.Send"),
   [MCRequest("p1", "query-kb", "high", "none") EXCEPT !.solution = "unknown"]}

MCAssessment(id, severity, exposed) ==
  [id |-> id, stage |-> "query", severity |-> severity, exposed |-> exposed, controls |-> {}]

MCAssessments == {MCAssessment("a1", "none", FALSE), MCAssessment("a2", "medium", FALSE),
                  MCAssessment("a3", "critical", TRUE)}

MCEnforcements ==
  {[prior |-> "clear", recurred |-> FALSE, action |-> a] : a \in {"allow", "review", "suspend"}}

\* One sample of every outcome, or too few.
MCSample(outcome) == GovernanceDecisionSiemEvent(MCRequest("p1", "query-kb", "low", "none"), outcome, {}, 9)
AllSamples ==
  {MCSample(o) : o \in ValidOutcomes["governance-decision"]} \union
  {OvershareIncidentSiemEvent(a) : a \in MCAssessments} \union
  {OvershareEnforcementSiemEvent(MCAssessment("a1", "none", FALSE), "clear", FALSE, a) :
     a \in ValidOutcomes["overshare-enforcement"]}
MCSamples == {AllSamples, {MCSample("deny")}, {}}

MCConnector == [identified |-> TRUE, platform |-> "sentinel", workspace |-> TRUE,
                kinds |-> SIEM_EVENT_KINDS, minimum |-> "low"]
MCConnectors == {MCConnector, [MCConnector EXCEPT !.minimum = "medium"],
                 [MCConnector EXCEPT !.workspace = FALSE], [MCConnector EXCEPT !.kinds = {}]}

MCRoute(kind, delivery, minimum, outcomes, playbook) ==
  [kind |-> kind, delivery |-> delivery, minimum |-> minimum, outcomes |-> outcomes, playbook |-> playbook]

FullPlan ==
  <<MCRoute("governance-decision", "incident", "high", {"deny"}, "access-revocation"),
    MCRoute("governance-decision", "incident", "low", {"deny", "require_approval"}, "risk-containment"),
    MCRoute("governance-decision", "audit", "low", {"allow"}, "none"),
    MCRoute("overshare-incident", "incident", "low", {"at-risk", "exposed"}, "risk-containment"),
    MCRoute("overshare-incident", "audit", "low", {"at-risk"}, "none"),
    MCRoute("overshare-enforcement", "incident", "critical", {"suspend"}, "access-revocation"),
    MCRoute("overshare-enforcement", "incident", "low", {"review", "throttle"}, "risk-containment"),
    MCRoute("overshare-enforcement", "audit", "low", {"allow", "warn"}, "none")>>

\* Complete; with routes for some outcomes only; with a playbook not made for
\* what it is given; with an incident route without playbook.
MCPlans == {FullPlan, SubSeq(FullPlan, 1, 6),
            [FullPlan EXCEPT ![4].playbook = "access-revocation"], [FullPlan EXCEPT ![1].playbook = "none"]}

-----------------------------------------------------------------------------

MCInit ==
  /\ part \in {"overshare", "siem", "triage"}
  /\ Init /\ SiemInit /\ TriageInit
  /\ part # "triage" => case = [kind |-> "prompt", hits |-> 0, signs |-> {}]

MCNext ==
  /\ UNCHANGED part
  /\ \/ part = "overshare" /\ Next /\ UNCHANGED <<siemVars, case>>
     \/ part = "siem" /\ SiemStep /\ UNCHANGED <<vars, case>>
     \/ part = "triage" /\ TriageStep /\ UNCHANGED <<vars, siemVars>>

MCSpec == MCInit /\ [][MCNext]_<<vars, siemVars, case, part>>

\* More risk is never answered more mildly: neither a governance request when a
\* condition is lost (a missing ticket must not turn a denial into a request for
\* approval), nor an open case when more becomes known against it, by whichever
\* of five contracts it is scored.
MoreRiskNeverMilder ==
  [][/\ part = "siem" => RequestsNeverMilder
     /\ part = "triage" => CaseNeverMilder]_<<siemVars, case, part>>
=============================================================================
