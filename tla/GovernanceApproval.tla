--------------------------- MODULE GovernanceApproval ---------------------------
(***************************************************************************)
(* Two ways to approve an asset: the approval board, whose four reviewers  *)
(* vote on a request with a risk band, and the rules engine, which looks   *)
(* the band of a risk score up in the governance matrix and asks for its   *)
(* controls, reviewers and review gate.  Both read the same list of        *)
(* reviewers, but the matrix names some of them on its own.                *)
(*                                                                         *)
(* Agents and skills have the same rows.  A score is counted in halves:    *)
(* scores between two bands belong to none.                                *)
(***************************************************************************)
EXTENDS Integers, FiniteSets

CONSTANTS
  Scores,   \* risk scores an asset may have, in halves
  NoScore   \* a score that is not a number

ASSUME ScoresAssumption == Scores \ {NoScore} \subseteq Int

VARIABLES
  score,  \* the risk score of the asset under review
  votes   \* per reviewer, the state of the review in the request

approvalVars == <<score, votes>>

REQUIRED_REVIEWERS ==
  {"securityRepresentative", "complianceRepresentative", "responsibleAiLead", "coeLead"}
Reviewer == REQUIRED_REVIEWERS \union {"executiveSponsor"}

\* The controls of the baseline library, those a low band asks for among them.
LowControls == {"least-privilege", "owner-accountability", "audit-traceability"}
REQUIRED_CONTROLS ==
  LowControls \union {"residency", "retention", "approval-gates", "responsible-ai"}

SUPPORTED_RULES == {"risk-band-resolution", "control-coverage", "reviewer-coverage",
                    "review-gate-alignment"}

Taxonomy == [low |-> 0..48, medium |-> 50..98, high |-> 100..148, critical |-> 150..200]

Row(gate, reviewers, controls) == [gate |-> gate, reviewers |-> reviewers, controls |-> controls]
Matrix ==
  [low      |-> Row("auto-approve", {"coeLead"}, LowControls),
   medium   |-> Row("standard-review", {"coeLead", "securityRepresentative"}, REQUIRED_CONTROLS),
   high     |-> Row("governance-board", REQUIRED_REVIEWERS, REQUIRED_CONTROLS),
   critical |-> Row("executive-board", Reviewer, REQUIRED_CONTROLS)]

Clamped(s) == IF s < 0 THEN 0 ELSE IF s > 200 THEN 200 ELSE s

\* resolveRiskBand
BandOf(s) ==
  IF s # NoScore /\ \E b \in DOMAIN Taxonomy : Clamped(s) \in Taxonomy[b]
  THEN CHOOSE b \in DOMAIN Taxonomy : Clamped(s) \in Taxonomy[b]
  ELSE "unknown"

\* Mutant of Allowed: an asset without a row in the matrix lacks nothing.
AllowedUnmapped(s, controls, reviewers, gate, rules) ==
  LET band == BandOf(s) IN
  /\ rules \subseteq SUPPORTED_RULES
  /\ "risk-band-resolution" \in rules => band # "unknown"
  /\ band \in DOMAIN Matrix =>
       /\ "control-coverage" \in rules => Matrix[band].controls \subseteq controls
       /\ "reviewer-coverage" \in rules => Matrix[band].reviewers \subseteq reviewers
       /\ "review-gate-alignment" \in rules => gate \in {"none", Matrix[band].gate}

\* evaluateGovernanceRules: no enabled rule has a reason against it, and the
\* asset has a row in the matrix.  A gate is compared if one is requested.
Allowed(s, controls, reviewers, gate, rules) ==
  LET band == BandOf(s) IN
  /\ rules \subseteq SUPPORTED_RULES
  /\ "risk-band-resolution" \in rules => band # "unknown"
  /\ band \in DOMAIN Matrix
  /\ "control-coverage" \in rules => Matrix[band].controls \subseteq controls
  /\ "reviewer-coverage" \in rules => Matrix[band].reviewers \subseteq reviewers
  /\ "review-gate-alignment" \in rules => gate \in {"none", Matrix[band].gate}

\* Mutant of Decision: reviews that are pending are not waited for.
DecisionWithoutWaiting(band) ==
  IF band \notin {"high", "medium", "low"} \/ \E r \in REQUIRED_REVIEWERS : votes[r] \in {"missing", "rejected"}
  THEN "rejected"
  ELSE IF band = "high" THEN "escalate" ELSE "approved"

\* evaluateApprovalRequest of a request that names itself, its requester and
\* evidence: the checks follow one another.  A request that does not validate
\* (another band, a review that is missing) is rejected.
Decision(band) ==
  IF band \notin {"high", "medium", "low"} \/ \E r \in REQUIRED_REVIEWERS : votes[r] \in {"missing", "rejected"}
  THEN "rejected"
  ELSE IF \E r \in REQUIRED_REVIEWERS : votes[r] = "pending" THEN "needs_more_review"
  ELSE IF band = "high" THEN "escalate" ELSE "approved"
-----------------------------------------------------------------------------
ApprovalInit ==
  /\ score \in Scores
  /\ votes = [r \in Reviewer |-> "missing"]

\* A reviewer is asked, answers, or changes their mind.
Vote(r, vote) ==
  /\ votes[r] # vote
  /\ votes' = [votes EXCEPT ![r] = vote]
  /\ UNCHANGED score

\* The asset is assessed again.
Reassess == score' \in Scores \ {score} /\ UNCHANGED votes

ApprovalStep ==
  \/ \E r \in Reviewer, vote \in {"pending", "approved", "rejected"} : Vote(r, vote)
  \/ Reassess

ApprovalSpec == ApprovalInit /\ [][ApprovalStep]_approvalVars
-----------------------------------------------------------------------------
ApprovalTypeOK ==
  /\ score \in Scores
  /\ votes \in [Reviewer -> {"missing", "pending", "approved", "rejected"}]

Approving == {r \in Reviewer : votes[r] = "approved"}

(***************************************************************************)
(* The board asks for no less than the matrix: a request of the asset's    *)
(* band that the board approves, or escalates, has the reviewers the       *)
(* matrix wants, so that the rules engine allows the asset at its gate     *)
(* with all controls present.                                              *)
(***************************************************************************)
BoardMeetsMatrix ==
  LET band == BandOf(score) IN
  Decision(band) \in {"approved", "escalate"} =>
    Allowed(score, REQUIRED_CONTROLS, Approving, Matrix[band].gate, SUPPORTED_RULES)

(***************************************************************************)
(* The rules engine asks no more of a lower risk: whatever controls and    *)
(* approvals allow an asset at some score, at no particular gate, allow it *)
(* at every score the taxonomy knows below it; and nothing is allowed at a *)
(* score that is no number or lies between two bands.                      *)
(***************************************************************************)
LowerRiskAllowed ==
  \A controls \in {{}, LowControls, REQUIRED_CONTROLS}, rules \in SUBSET SUPPORTED_RULES :
    Allowed(score, controls, Approving, "none", rules) =>
      /\ score # NoScore /\ BandOf(score) # "unknown"
      /\ \A s \in Scores :
           s # NoScore /\ s <= score /\ BandOf(s) # "unknown" =>
             Allowed(s, controls, Approving, "none", rules)
=============================================================================
