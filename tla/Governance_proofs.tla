--------------------------- MODULE Governance_proofs ---------------------------
(***************************************************************************)
(* What holds of the governance records for every set of ids, dates,       *)
(* cadences and scores, and of the onboarding for every set of apps,       *)
(* requests, skills and role assignments.                                  *)
(***************************************************************************)
EXTENDS GovernanceExceptions, GovernanceWaivers, GovernanceReviews, GovernanceApproval,
        TenantOnboarding, NumberFacts, FiniteSetTheorems, TLAPS

-----------------------------------------------------------------------------
(* Exceptions.                                                              *)

LEMMA ExceptionInitType == now = 0 /\ ExceptionInit => ExceptionTypeOK
  BY TimeAssumption DEF ExceptionInit, ExceptionTypeOK, Time

LEMMA ExceptionStepType ==
  ASSUME ExceptionTypeOK, [ExceptionStep \/ (Tick /\ UNCHANGED request)]_exceptionVars
  PROVE  ExceptionTypeOK'
<1>1. ASSUME NEW e \in Exception, NEW expiresAt \in Expiries, CreateExceptionRequest(e, expiresAt)
      PROVE  ExceptionTypeOK'
  <2> DEFINE r == [state |-> "requested", expiresAt |-> expiresAt, history |-> <<>>]
  <2>1. r \in Request
    BY DEF Request, ExceptionState, ALLOWED_TRANSITIONS
  <2> QED
    BY <1>1, <2>1 DEF CreateExceptionRequest, ExceptionTypeOK
<1>2. ASSUME NEW e \in Exception, NEW to \in ExceptionState, NEW at \in {0, now},
             AdvanceExceptionState(e, to, at)
      PROVE  ExceptionTypeOK'
  <2> DEFINE r == request[e]
             entry == [from |-> r.state, to |-> to, at |-> at]
             next == [state |-> to, expiresAt |-> r.expiresAt, history |-> Append(r.history, entry)]
  <2>1. r \in Request
    BY <1>2 DEF AdvanceExceptionState, Created, ExceptionTypeOK
  <2>2. entry \in Event
    BY <2>1, TimeAssumption DEF Event, Request, ExceptionTypeOK, Time
  <2>3. next \in Request
    <3>1. Append(r.history, entry) \in Seq(Event)
      <4>1. r.history \in Seq(Event)
        BY <2>1 DEF Request
      <4> HIDE DEF r, entry
      <4> QED
        BY <2>2, <4>1
    <3> HIDE DEF r, entry
    <3> QED
      BY <2>1, <3>1 DEF Request
  <2>4. request' = [request EXCEPT ![e] = next] /\ now' = now
    BY <1>2, <2>1 DEF AdvanceExceptionState, ExceptionTypeOK, Request
  <2> HIDE DEF next
  <2> QED
    BY <2>3, <2>4 DEF ExceptionTypeOK
<1>3. ASSUME Tick, UNCHANGED request PROVE ExceptionTypeOK'
  BY <1>3, TimeAssumption DEF Tick, ExceptionTypeOK, Time
<1>4. ASSUME UNCHANGED exceptionVars PROVE ExceptionTypeOK'
  BY <1>4 DEF exceptionVars, ExceptionTypeOK
<1> QED
  BY <1>1, <1>2, <1>3, <1>4 DEF ExceptionStep

\* Where a state may go once it has expired: out of force, if it still is in.
LEMMA ExpiredTransitions ==
  /\ \A s \in ExceptionState \ {"closed", "expired", "rejected"} : "expired" \in ALLOWED_TRANSITIONS[s]
  /\ \A s \in {"closed", "expired", "rejected"} : ALLOWED_TRANSITIONS[s] \subseteq {"closed"}
  /\ \A s \in ExceptionState : ALLOWED_TRANSITIONS[s] \subseteq ExceptionState
  BY DEF ExceptionState, ALLOWED_TRANSITIONS

LEMMA PortfolioAgreesInState == ExceptionTypeOK => PortfolioAgrees
<1> SUFFICES ASSUME ExceptionTypeOK, NEW e \in Exception, Created(e)
             PROVE  IF e \in Overdue(now)
                    THEN "expired" \in OpenTo(e) /\ OpenTo(e) \subseteq {"expired", "closed"}
                    ELSE OpenTo(e) = ALLOWED_TRANSITIONS[request[e].state]
  BY DEF PortfolioAgrees
<1> DEFINE s == request[e].state
<1>1. s \in ExceptionState /\ request[e].expiresAt \in Nat /\ now \in Nat
  <2>1. request[e] \in Request /\ now \in Nat
    BY TimeAssumption DEF ExceptionTypeOK, Created, Time
  <2> QED
    BY <2>1, ExpiriesAssumption DEF Request
<1>2. OpenTo(e) = {to \in ALLOWED_TRANSITIONS[s] :
                     now > request[e].expiresAt => to \in {"expired", "closed"}}
  BY <1>1, ExpiredTransitions DEF OpenTo, Accepts
<1>3. e \in Overdue(now) <=> request[e].expiresAt < now /\ s \notin {"closed", "expired", "rejected"}
  BY DEF Overdue
<1>4. CASE e \in Overdue(now)
  <2>1. "expired" \in ALLOWED_TRANSITIONS[s] /\ now > request[e].expiresAt
    BY <1>1, <1>3, <1>4, ExpiredTransitions
  <2> QED
    BY <1>2, <1>4, <2>1
<1>5. CASE e \notin Overdue(now)
  <2>1. CASE s \in {"closed", "expired", "rejected"}
    <3>1. ALLOWED_TRANSITIONS[s] \subseteq {"closed"}
      BY <2>1, ExpiredTransitions
    <3> QED
      BY <1>2, <1>5, <3>1
  <2>2. CASE ~ (request[e].expiresAt < now)
    <3>1. ~ (now > request[e].expiresAt)
      BY <1>1, <2>2
    <3> QED
      BY <1>2, <1>5, <3>1
  <2> QED
    BY <1>3, <1>5, <2>1, <2>2
<1> QED
  BY <1>4, <1>5

(***************************************************************************)
(* For any exceptions, expiries and length of the clock, and whatever      *)
(* dates the events carry: the portfolio counts a request as overdue       *)
(* exactly when the workflow lets it go nowhere but out of force.          *)
(***************************************************************************)
THEOREM PortfolioAndWorkflowAgree == ExceptionSpec => [](ExceptionTypeOK /\ PortfolioAgrees)
<1>1. ExceptionSpec => []ExceptionTypeOK
  BY ExceptionInitType, ExceptionStepType, PTL DEF ExceptionSpec
<1> QED
  BY <1>1, PortfolioAgreesInState, PTL
-----------------------------------------------------------------------------
(* Waivers.                                                                 *)

\* The waivers and the dates that were enforced; the trail plays no part.
WaiverInv ==
  /\ waiver \in [Waiver -> Entry \union {NoWaiver}]
  /\ enforced \in [Waiver -> Dates]
  /\ ExpiryIsOrderFree

LEMMA WaiverInvInit == WaiverInit => WaiverInv
  BY DatesAssumption DEF WaiverInit, WaiverInv, ExpiryIsOrderFree

LEMMA RegisterKeepsWaiverInv ==
  ASSUME WaiverInv, NEW w \in Waiver, NEW expiresAt \in Dates, RegisterGovernanceWaiver(w, expiresAt)
  PROVE  WaiverInv'
<1> DEFINE entry == [expiresAt |-> expiresAt, state |-> "active"]
<1>1. entry \in Entry /\ entry.state = "active" /\ entry.expiresAt = expiresAt
  BY DEF Entry
<1>2. /\ waiver' = [waiver EXCEPT ![w] = entry]
      /\ enforced' = [enforced EXCEPT ![w] = 0]
  BY DEF RegisterGovernanceWaiver
<1>3. 0 \in Dates /\ Dates \subseteq Nat
  BY DatesAssumption
<1> HIDE DEF entry
<1> QED
  BY <1>1, <1>2, <1>3 DEF WaiverInv, ExpiryIsOrderFree

LEMMA EnforceKeepsWaiverInv ==
  ASSUME WaiverInv, NEW asOf \in Dates, EnforceWaiverExpiry(asOf)
  PROVE  WaiverInv'
<1>1. ASSUME NEW w \in Waiver, waiver[w] = NoWaiver
      PROVE  waiver'[w] = NoWaiver /\ enforced'[w] = enforced[w]
  BY <1>1 DEF EnforceWaiverExpiry
<1>2. ASSUME NEW w \in Waiver, waiver[w] # NoWaiver
      PROVE  /\ waiver'[w] = Enforced(waiver[w], asOf)
             /\ enforced'[w] = IF asOf > enforced[w] THEN asOf ELSE enforced[w]
  BY <1>2 DEF EnforceWaiverExpiry
<1>3. ASSUME NEW w \in Waiver, waiver[w] # NoWaiver
      PROVE  /\ waiver'[w] \in Entry
             /\ waiver'[w].state = "expired" <=> enforced'[w] > waiver'[w].expiresAt
  <2>1. waiver[w] \in Entry /\ enforced[w] \in Nat /\ asOf \in Nat
    BY <1>3, DatesAssumption DEF WaiverInv
  <2>2. /\ waiver[w].expiresAt \in Nat /\ waiver[w].expiresAt \in Dates
        /\ waiver[w].state \in {"active", "expired"}
    BY <2>1, DatesAssumption DEF Entry
  <2>3. waiver[w].state = "expired" <=> enforced[w] > waiver[w].expiresAt
    BY <1>3 DEF WaiverInv, ExpiryIsOrderFree
  <2>4. /\ waiver'[w] \in Entry
        /\ waiver'[w].expiresAt = waiver[w].expiresAt
        /\ waiver'[w].state = "expired" <=> waiver[w].expiresAt < asOf \/ waiver[w].state = "expired"
    BY <1>2, <1>3, <2>1, <2>2 DEF Enforced, Entry
  <2> QED
    BY <1>2, <1>3, <2>1, <2>2, <2>3, <2>4
<1>4. waiver' \in [Waiver -> Entry \union {NoWaiver}]
  <2>1. waiver' = [w \in Waiver |-> waiver'[w]]
    BY DEF EnforceWaiverExpiry
  <2> QED
    BY <1>1, <1>3, <2>1
<1>5. enforced' \in [Waiver -> Dates]
  <2>1. enforced' = [w \in Waiver |-> enforced'[w]]
    BY DEF EnforceWaiverExpiry
  <2> QED
    BY <1>1, <1>2, <2>1 DEF WaiverInv
<1> QED
  BY <1>1, <1>3, <1>4, <1>5 DEF WaiverInv, ExpiryIsOrderFree

(***************************************************************************)
(* For any waivers and dates, and any number of audit events: a waiver is  *)
(* expired exactly if an enforcement since its registration was later than *)
(* its expiry, in whatever order the dates were enforced.                  *)
(***************************************************************************)
THEOREM EnforcementOrderFree == WaiverSpec => []ExpiryIsOrderFree
<1>1. ASSUME WaiverInv, [WaiverStep \/ TrailStep]_waiverVars PROVE WaiverInv'
  <2>1. CASE WaiverStep
    BY <1>1, <2>1, RegisterKeepsWaiverInv, EnforceKeepsWaiverInv DEF WaiverStep
  <2>2. CASE TrailStep \/ UNCHANGED waiverVars
    <3>1. UNCHANGED <<waiver, enforced>>
      BY <2>2 DEF TrailStep, AppendWaiverAuditEvent, waiverVars
    <3> QED
      BY <1>1, <3>1 DEF WaiverInv, ExpiryIsOrderFree
  <2> QED
    BY <1>1, <2>1, <2>2
<1>2. WaiverInv => ExpiryIsOrderFree
  BY DEF WaiverInv
<1> QED
  BY <1>1, <1>2, WaiverInvInit, PTL DEF WaiverSpec

-----------------------------------------------------------------------------
(* Reviews.                                                                 *)

(***************************************************************************)
(* As long as no day was missed, the last evaluation is at most a day old, *)
(* and an item it saw less than a day before its due time, or later, has   *)
(* been announced, if its cadence is a day or more.                        *)
(***************************************************************************)
Announced(i) == "due_now" \in warned[i].window /\ "upcoming" \in warned[i].review

ReviewInv ==
  /\ ReviewTypeOK
  /\ lastSeen <= now
  /\ ~ missed => /\ now <= lastSeen + Day
                 /\ \A i \in Item : CadenceDays(i) > 0 /\ lastSeen + 1 >= Due(i) => Announced(i)

LEMMA DueInRange ==
  ASSUME ReviewTypeOK, NEW i \in Item
  PROVE  /\ Due(i) \in Nat /\ Due(i) = item[i].last + CadenceDays(i) * 2
         /\ item[i].last \in Nat /\ CadenceDays(i) \in Nat
         /\ now \in Nat /\ lastSeen \in Nat
<1>1. /\ item[i].last \in Time /\ item[i].cadence \in Cadences \union {NoCadence}
      /\ now \in Time /\ lastSeen \in Time
  BY DEF ReviewTypeOK
<1>2. item[i].last \in Nat /\ CadenceDays(i) \in Nat /\ now \in Nat /\ lastSeen \in Nat
  <2>1. Time \subseteq Nat
    BY TimeAssumption DEF Time
  <2> QED
    BY <1>1, <2>1, CadenceAssumption DEF CadenceDays
<1> QED
  BY <1>2 DEF Due, Day

\* What the schedules say, without the division.
LEMMA Statuses ==
  ASSUME ReviewTypeOK, NEW i \in Item
  PROVE  /\ WindowStatus(i, now) = "overdue" <=> Due(i) < now
         /\ WindowStatus(i, now) = "due_now" <=> Due(i) \in {now, now + 1}
         /\ ReviewStatus(i, now) = "overdue" <=> Due(i) < now
         /\ Due(i) \in {now, now + 1} => ReviewStatus(i, now) = "upcoming"
         /\ WindowStatus(i, now) \in Warning /\ ReviewStatus(i, now) \in Warning
<1> DEFINE d == DaysUntil(Due(i), now)
<1>1. Due(i) \in Nat /\ now \in Nat
  BY DueInRange
<1>2. /\ d \in Int
      /\ d < 0 <=> Due(i) < now
      /\ d = 0 <=> Due(i) \in {now, now + 1}
  BY <1>1 DEF DaysUntil, Day
<1> HIDE DEF d
<1>3. WindowStatus(i, now) = IF d < 0 THEN "overdue" ELSE IF d = 0 THEN "due_now" ELSE "upcoming"
  BY <1>2 DEF WindowStatus, d
<1>4. ReviewStatus(i, now) = IF d < 0 THEN "overdue" ELSE IF d <= Upcoming THEN "upcoming" ELSE "scheduled"
  BY DEF ReviewStatus, d
<1> QED
  BY <1>2, <1>3, <1>4, UpcomingAssumption DEF Warning

LEMMA ReviewInvInit == now = 0 /\ ReviewInit => ReviewInv
<1> SUFFICES ASSUME now = 0, ReviewInit PROVE ReviewInv
  OBVIOUS
<1>1. ReviewTypeOK /\ lastSeen = 0
  <2>1. 0 \in Time
    BY TimeAssumption DEF Time
  <2>2. item \in [Item -> [last : Time, cadence : Cadences \union {NoCadence}]]
    BY <2>1 DEF ReviewInit
  <2>3. warned \in [Item -> [window : SUBSET Warning, review : SUBSET Warning]]
    BY DEF ReviewInit
  <2> QED
    BY <2>1, <2>2, <2>3 DEF ReviewInit, ReviewTypeOK
<1>2. ASSUME NEW i \in Item, CadenceDays(i) > 0 PROVE Due(i) >= 2
  <2>1. /\ Due(i) = item[i].last + CadenceDays(i) * 2
        /\ item[i].last \in Nat /\ CadenceDays(i) \in Nat
    BY <1>1, DueInRange
  <2> QED
    BY <1>2, <2>1
<1> QED
  BY <1>1, <1>2, DueInRange DEF ReviewInv, Day

LEMMA AttestKeepsReviewInv ==
  ASSUME ReviewInv, NEW i \in Item, Attest(i)
  PROVE  ReviewInv'
<1>1. /\ now' = now /\ lastSeen' = lastSeen /\ missed' = missed
      /\ \A j \in Item \ {i} : item'[j] = item[j] /\ warned'[j] = warned[j]
      /\ item'[i].last = now /\ item'[i].cadence = item[i].cadence
  BY DEF Attest, ReviewInv, ReviewTypeOK
<1>2. ReviewTypeOK'
  BY DEF Attest, ReviewInv, ReviewTypeOK
<1>3. /\ CadenceDays(i)' = CadenceDays(i) /\ CadenceDays(i) \in Nat
      /\ now \in Nat /\ lastSeen \in Nat
      /\ CadenceDays(i) > 0 => Due(i)' \in Nat /\ Due(i)' >= now + 2
  BY <1>1, DueInRange DEF CadenceDays, Due, Day, ReviewInv
<1>4. ASSUME NEW j \in Item \ {i}
      PROVE  Due(j)' = Due(j) /\ CadenceDays(j)' = CadenceDays(j) /\ (Announced(j) => Announced(j)')
  BY <1>1 DEF CadenceDays, Due, Announced
<1> QED
  <2>1. ASSUME NEW j \in Item, ~ missed, CadenceDays(j)' > 0, lastSeen + 1 >= Due(j)'
        PROVE  Announced(j)'
    <3>1. j # i
      <4>1. ~ (CadenceDays(i)' > 0 /\ lastSeen + 1 >= Due(i)')
        BY <1>3 DEF ReviewInv
      <4> QED
        BY <2>1, <4>1
    <3> QED
      BY <1>4, <2>1, <3>1 DEF ReviewInv
  <2> QED
    BY <1>1, <1>2, <2>1 DEF ReviewInv

LEMMA EvaluateKeepsReviewInv ==
  ASSUME ReviewInv, Evaluate
  PROVE  ReviewInv'
<1>1. now' = now /\ lastSeen' = now /\ missed' = missed /\ item' = item
  BY DEF Evaluate
<1>2. ASSUME NEW i \in Item
      PROVE  /\ warned'[i] = [window |-> warned[i].window \union {WindowStatus(i, now)},
                              review |-> warned[i].review \union {ReviewStatus(i, now)}]
             /\ warned'[i].window = warned[i].window \union {WindowStatus(i, now)}
             /\ warned'[i].review = warned[i].review \union {ReviewStatus(i, now)}
             /\ warned'[i] \in [window : SUBSET Warning, review : SUBSET Warning]
  <2>1. /\ warned[i] \in [window : SUBSET Warning, review : SUBSET Warning]
        /\ WindowStatus(i, now) \in Warning /\ ReviewStatus(i, now) \in Warning
    BY Statuses DEF ReviewInv, ReviewTypeOK
  <2> QED
    BY <2>1 DEF Evaluate
<1>3. ReviewTypeOK'
  <2>1. warned' = [i \in Item |-> warned'[i]]
    BY DEF Evaluate
  <2> QED
    BY <1>1, <1>2, <2>1 DEF ReviewInv, ReviewTypeOK
<1>4. ASSUME NEW i \in Item, ~ missed, CadenceDays(i) > 0, now + 1 >= Due(i) PROVE Announced(i)'
  <2>1. Due(i) \in Nat /\ now \in Nat /\ lastSeen \in Nat
    BY DueInRange DEF ReviewInv
  <2>2. CASE Due(i) \in {now, now + 1}
    <3>1. WindowStatus(i, now) = "due_now" /\ ReviewStatus(i, now) = "upcoming"
      BY <2>2, Statuses DEF ReviewInv
    <3>2. "due_now" \in warned'[i].window /\ "upcoming" \in warned'[i].review
      BY <1>2, <3>1
    <3> QED
      BY <3>2 DEF Announced
  <2>3. CASE Due(i) < now
    <3>1. Announced(i)
      BY <1>4, <2>1, <2>3 DEF ReviewInv, Day
    <3>2. "due_now" \in warned'[i].window /\ "upcoming" \in warned'[i].review
      BY <1>2, <3>1 DEF Announced
    <3> QED
      BY <3>2 DEF Announced
  <2> QED
    BY <1>4, <2>1, <2>2, <2>3
<1>5. \A i \in Item : Due(i)' = Due(i) /\ CadenceDays(i)' = CadenceDays(i)
  BY <1>1 DEF CadenceDays, Due
<1>6. now \in Nat
  BY TimeAssumption DEF ReviewInv, ReviewTypeOK, Time
<1> QED
  BY <1>1, <1>3, <1>4, <1>5, <1>6 DEF ReviewInv, Day

LEMMA DayPassesKeepsReviewInv ==
  ASSUME ReviewInv, DayPasses
  PROVE  ReviewInv'
<1>1. /\ now \in Nat /\ lastSeen \in Nat /\ missed \in BOOLEAN /\ now' = now + 1
      /\ now' \in Time /\ item' = item /\ lastSeen' = lastSeen /\ warned' = warned
  BY TimeAssumption DEF ReviewInv, ReviewTypeOK, Time, DayPasses, Tick
<1>2. missed' \in BOOLEAN /\ (~ missed' => ~ missed /\ now' - lastSeen <= Day)
  <2>1. missed' <=> missed \/ now' - lastSeen > Day
    BY DEF DayPasses
  <2>2. missed' \in BOOLEAN
    BY DEF DayPasses
  <2>3. now' - lastSeen <= Day <=> ~ (now' - lastSeen > Day)
    BY <1>1 DEF Day
  <2> QED
    BY <2>1, <2>2, <2>3
<1>3. ReviewTypeOK'
  BY <1>1, <1>2 DEF ReviewInv, ReviewTypeOK
<1>4. \A i \in Item : /\ Due(i)' = Due(i) /\ CadenceDays(i)' = CadenceDays(i)
                      /\ Announced(i) => Announced(i)'
  BY <1>1 DEF CadenceDays, Due, Announced
<1> QED
  BY <1>1, <1>2, <1>3, <1>4 DEF ReviewInv, Day

LEMMA AnnouncedInTime == ReviewInv => WarnedBeforeOverdue
<1> SUFFICES ASSUME ReviewInv, NEW i \in Item
             PROVE  /\ ~ missed /\ CadenceDays(i) > 0 /\ Due(i) < now => Announced(i)
                    /\ Due(i) < now => i \in DueAttestations(now) \/ item[i].cadence = NoCadence
                    /\ i \in DueAttestations(now) => Due(i) < now \/ Due(i) \in {now, now + 1}
  BY Statuses DEF WarnedBeforeOverdue, Announced, ReviewInv
<1>1. Due(i) \in Nat /\ now \in Nat /\ lastSeen \in Nat
  BY DueInRange DEF ReviewInv
<1> QED
  BY <1>1 DEF ReviewInv, DueAttestations, Day

(***************************************************************************)
(* For any items, cadences and warning period: schedules evaluated at      *)
(* least once a day announce every item of a positive cadence before it is *)
(* overdue, and the three functions agree on what is, but for items        *)
(* without a cadence, which are overdue and never listed as due.           *)
(***************************************************************************)
THEOREM NothingOverdueUnannounced == ReviewSpec => [](ReviewTypeOK /\ WarnedBeforeOverdue)
<1>1. ASSUME ReviewInv, [ReviewStep \/ DayPasses]_reviewVars PROVE ReviewInv'
  <2>1. CASE ReviewStep
    BY <1>1, <2>1, AttestKeepsReviewInv, EvaluateKeepsReviewInv DEF ReviewStep
  <2>2. CASE DayPasses
    BY <1>1, <2>2, DayPassesKeepsReviewInv
  <2>3. CASE UNCHANGED reviewVars
    BY <1>1, <2>3 DEF reviewVars, ReviewInv, ReviewTypeOK, CadenceDays, Due, Announced
  <2> QED
    BY <1>1, <2>1, <2>2, <2>3
<1>2. ReviewInv => ReviewTypeOK
  BY DEF ReviewInv
<1> QED
  BY <1>1, <1>2, ReviewInvInit, AnnouncedInTime, PTL DEF ReviewSpec

-----------------------------------------------------------------------------
(* Approvals.                                                               *)

LEMMA ApprovalTypeInvariant == ApprovalSpec => []ApprovalTypeOK
<1>1. ApprovalInit => ApprovalTypeOK
  BY DEF ApprovalInit, ApprovalTypeOK
<1>2. ASSUME ApprovalTypeOK, [ApprovalStep]_approvalVars PROVE ApprovalTypeOK'
  BY <1>2 DEF ApprovalStep, Vote, Reassess, approvalVars, ApprovalTypeOK
<1> QED
  BY <1>1, <1>2, PTL DEF ApprovalSpec

\* A decision in favour has every reviewer of the board behind it.
LEMMA FavourMeansAll ==
  ASSUME ApprovalTypeOK, NEW band, Decision(band) \in {"approved", "escalate"}
  PROVE  band \in {"high", "medium", "low"} /\ REQUIRED_REVIEWERS \subseteq Approving
<1>1. /\ band \in {"high", "medium", "low"}
      /\ \A r \in REQUIRED_REVIEWERS : votes[r] \notin {"missing", "rejected", "pending"}
  BY DEF Decision
<1> QED
  BY <1>1 DEF ApprovalTypeOK, Approving, Reviewer

(***************************************************************************)
(* For any scores: what the board approves or escalates, the rules engine  *)
(* allows at the gate of its band once all controls are present.           *)
(***************************************************************************)
THEOREM BoardAndRulesAgree == ApprovalSpec => []BoardMeetsMatrix
<1>1. ApprovalTypeOK => BoardMeetsMatrix
  <2> SUFFICES ASSUME ApprovalTypeOK, Decision(BandOf(score)) \in {"approved", "escalate"}
               PROVE  Allowed(score, REQUIRED_CONTROLS, Approving, Matrix[BandOf(score)].gate, SUPPORTED_RULES)
    BY DEF BoardMeetsMatrix
  <2> DEFINE band == BandOf(score)
  <2>1. band \in {"high", "medium", "low"} /\ REQUIRED_REVIEWERS \subseteq Approving
    BY FavourMeansAll
  <2> HIDE DEF band
  <2>2. /\ band \in DOMAIN Matrix /\ band # "unknown"
        /\ Matrix[band].controls \subseteq REQUIRED_CONTROLS
        /\ Matrix[band].reviewers \subseteq REQUIRED_REVIEWERS
    BY <2>1 DEF Matrix, Row, REQUIRED_CONTROLS, REQUIRED_REVIEWERS
  <2> QED
    BY <2>1, <2>2 DEF Allowed, band
<1> QED
  BY <1>1, ApprovalTypeInvariant, PTL

\* The bands are ordered as their scores are, and a lower row asks for no more.
Rank == [low |-> 1, medium |-> 2, high |-> 3, critical |-> 4]

LEMMA BandHoldsScore ==
  ASSUME NEW s, BandOf(s) # "unknown"
  PROVE  s # NoScore /\ BandOf(s) \in DOMAIN Taxonomy /\ Clamped(s) \in Taxonomy[BandOf(s)]
  BY DEF BandOf

LEMMA BandsInOrder ==
  ASSUME NEW s \in Int, NEW t \in Int, s <= t, BandOf(s) # "unknown", BandOf(t) # "unknown"
  PROVE  Rank[BandOf(s)] <= Rank[BandOf(t)]
<1>1. Clamped(s) \in Int /\ Clamped(t) \in Int /\ Clamped(s) <= Clamped(t)
  BY DEF Clamped
<1>2. /\ BandOf(s) \in {"low", "medium", "high", "critical"} /\ Clamped(s) \in Taxonomy[BandOf(s)]
      /\ BandOf(t) \in {"low", "medium", "high", "critical"} /\ Clamped(t) \in Taxonomy[BandOf(t)]
  BY BandHoldsScore DEF Taxonomy
<1> QED
  BY <1>1, <1>2 DEF Taxonomy, Rank

LEMMA RowsAscend ==
  ASSUME NEW b \in DOMAIN Matrix, NEW c \in DOMAIN Matrix, Rank[b] <= Rank[c]
  PROVE  Matrix[b].controls \subseteq Matrix[c].controls /\ Matrix[b].reviewers \subseteq Matrix[c].reviewers
<1>1. /\ b \in {"low", "medium", "high", "critical"}
      /\ c \in {"low", "medium", "high", "critical"}
  BY DEF Matrix
<1>2. \/ b = c \/ b = "low" \/ c = "critical"
      \/ b = "medium" /\ c = "high"
  BY <1>1 DEF Rank
<1>3. \A d \in {"low", "medium", "high", "critical"} :
        /\ LowControls \subseteq Matrix[d].controls /\ Matrix[d].controls \subseteq REQUIRED_CONTROLS
        /\ {"coeLead"} \subseteq Matrix[d].reviewers /\ Matrix[d].reviewers \subseteq Reviewer
  BY DEF Matrix, Row, REQUIRED_CONTROLS, Reviewer, REQUIRED_REVIEWERS
<1>4. /\ Matrix["low"].controls = LowControls /\ Matrix["low"].reviewers = {"coeLead"}
      /\ Matrix["critical"].controls = REQUIRED_CONTROLS /\ Matrix["critical"].reviewers = Reviewer
      /\ Matrix["medium"].controls = Matrix["high"].controls
      /\ Matrix["medium"].reviewers \subseteq Matrix["high"].reviewers
  BY DEF Matrix, Row, REQUIRED_REVIEWERS
<1> QED
  BY <1>1, <1>2, <1>3, <1>4

(***************************************************************************)
(* For any scores: no asset needs more to be allowed than one of a higher  *)
(* score, and none is allowed whose score is in no band.                   *)
(***************************************************************************)
THEOREM LessRiskNeedsNoMore == ApprovalSpec => []LowerRiskAllowed
<1>1. ApprovalTypeOK => LowerRiskAllowed
  <2> SUFFICES ASSUME ApprovalTypeOK, NEW controls, NEW rules,
                      Allowed(score, controls, Approving, "none", rules)
               PROVE  /\ score # NoScore /\ BandOf(score) # "unknown"
                      /\ \A s \in Scores :
                           s # NoScore /\ s <= score /\ BandOf(s) # "unknown" =>
                             Allowed(s, controls, Approving, "none", rules)
    BY DEF LowerRiskAllowed
  <2>1. BandOf(score) \in DOMAIN Matrix
    BY DEF Allowed
  <2>2. BandOf(score) # "unknown" /\ score # NoScore
    BY <2>1, BandHoldsScore DEF Matrix
  <2>3. ASSUME NEW s \in Scores, s # NoScore, s <= score, BandOf(s) # "unknown"
        PROVE  Allowed(s, controls, Approving, "none", rules)
    <3>1. s \in Int /\ score \in Int
      BY <2>2, <2>3, ScoresAssumption DEF ApprovalTypeOK
    <3>2. BandOf(s) \in DOMAIN Matrix
      BY <2>3, BandHoldsScore DEF Matrix, Taxonomy
    <3>3. /\ Matrix[BandOf(s)].controls \subseteq Matrix[BandOf(score)].controls
          /\ Matrix[BandOf(s)].reviewers \subseteq Matrix[BandOf(score)].reviewers
      BY <2>1, <2>2, <2>3, <3>1, <3>2, BandsInOrder, RowsAscend
    <3> QED
      BY <2>3, <3>2, <3>3 DEF Allowed
  <2> QED
    BY <2>2, <2>3
<1> QED
  BY <1>1, ApprovalTypeInvariant, PTL

-----------------------------------------------------------------------------
(* Onboarding: plans.                                                              *)

PlansValid ==
  /\ plan \in [App -> Onboardings \union {NoPlan}]
  /\ \A a \in App : plan[a] # NoPlan => ValidateTenantOnboardingRequest(plan[a])

LEMMA PlansInitially == OnboardingInit => PlansValid
  BY DEF OnboardingInit, PlansValid

LEMMA PlansStayValid ==
  ASSUME PlansValid, OnboardingNext \/ UNCHANGED onboardingVars
  PROVE  PlansValid'
<1>1. ASSUME NEW a \in App, NEW r \in Onboardings, Plan(a, r) PROVE PlansValid'
  BY <1>1 DEF Plan, PlansValid
<1>2. ASSUME UNCHANGED plan PROVE PlansValid'
  BY <1>2 DEF PlansValid
<1>3. CASE \E a \in App : RegisterOrDeploy(a) \/ GrantAdminConsent(a) \/ ProvisionSecret(a)
  BY <1>2, <1>3 DEF RegisterOrDeploy, GrantAdminConsent, ProvisionSecret, RunsStep
<1>4. CASE SecretsAge
  BY <1>2, <1>4 DEF SecretsAge
<1>5. CASE WorkflowStep
  BY <1>1, <1>2, <1>5 DEF WorkflowStep, RecordExecution
<1>6. CASE AssessmentStep
  BY <1>2, <1>6 DEF AssessmentStep, AssessStep
<1>7. CASE ReleaseStep
  BY <1>2, <1>7 DEF ReleaseStep, Release
<1>8. CASE UNCHANGED onboardingVars
  BY <1>2, <1>8 DEF onboardingVars
<1> QED
  BY <1>1, <1>3, <1>4, <1>5, <1>6, <1>7, <1>8 DEF OnboardingNext, ProvisioningStep

-----------------------------------------------------------------------------
(* Onboarding: secrets.                                                     *)

\* A secret is as old as its rotation allows, and the rotation is what its
\* credential asked for.
SecretOk(secret) ==
  /\ secret.age \in Nat
  /\ secret.manifest.rotationDays = RotationDays(secret.credential)
  /\ RotationDays(secret.credential) \in Int
  /\ secret.credential.type \in CREDENTIAL_STRATEGIES
  /\ Life(secret.credential) \in Int /\ Life(secret.credential) > 0
  /\ secret.age = 0 \/ secret.age < secret.manifest.rotationDays

SecretsInv ==
  /\ vault = [a \in App |-> vault[a]]
  /\ \A a \in App : vault[a] # NoSecret => SecretOk(vault[a])

LEMMA SecretsInitially == OnboardingInit => SecretsInv
  BY DEF OnboardingInit, SecretsInv

\* What a valid request asks of a secret is a number.
LEMMA RequestedSecret ==
  ASSUME NEW r \in Onboardings, ValidateTenantOnboardingRequest(r)
  PROVE  /\ r.credential.type \in CREDENTIAL_STRATEGIES
         /\ Life(r.credential) \in Int /\ Life(r.credential) > 0
         /\ RotationDays(r.credential) \in Int
<1>1. CredentialOk(r.credential)
  BY DEF ValidateTenantOnboardingRequest
<1>2. r.credential.type \in CREDENTIAL_STRATEGIES /\ Life(r.credential) > 0
  BY <1>1 DEF CredentialOk
<1>3. Life(r.credential) \in Int
  BY OnboardingsAssumption DEF Life
<1>4. RotationGiven(r.credential) \in Int \union {NotGiven}
  BY OnboardingsAssumption DEF RotationGiven
<1>5. RotationDays(r.credential) \in Int
  BY <1>4 DEF RotationDays
<1> QED
  BY <1>2, <1>3, <1>5

LEMMA SecretProvisioned ==
  ASSUME PlansValid, SecretsInv, NEW a \in App, ProvisionSecret(a)
  PROVE  SecretsInv'
<1> DEFINE secret == [age |-> 0, credential |-> plan[a].credential,
                      manifest |-> KeyVaultProvisioningManifest(plan[a])]
<1>1. plan[a] \in Onboardings /\ ValidateTenantOnboardingRequest(plan[a])
  BY DEF PlansValid, ProvisionSecret, RunsStep
<1>2. SecretOk(secret)
  BY <1>1, RequestedSecret DEF SecretOk, KeyVaultProvisioningManifest
<1>3. vault' = [vault EXCEPT ![a] = secret]
  BY DEF ProvisionSecret
<1> HIDE DEF secret
<1> QED
  BY <1>2, <1>3 DEF SecretsInv

LEMMA SecretAged ==
  ASSUME NEW secret, SecretOk(secret)
  PROVE  SecretOk(Aged(secret)) \/ Aged(secret) = NoSecret
<1> DEFINE age == IF secret.age + 1 >= secret.manifest.rotationDays THEN 0 ELSE secret.age + 1
           aged == [secret EXCEPT !.age = age]
<1>1. CASE secret = NoSecret
  BY <1>1 DEF Aged
<1>2. CASE secret # NoSecret
  <2>1. Aged(secret) = aged
    BY <1>2 DEF Aged
  <2>2. age \in Nat /\ (age = 0 \/ age < secret.manifest.rotationDays)
    BY DEF SecretOk
  <2> QED
    BY <2>1, <2>2 DEF SecretOk
<1> QED
  BY <1>1, <1>2

LEMMA SecretsStaySound ==
  ASSUME PlansValid, SecretsInv, OnboardingNext \/ UNCHANGED onboardingVars
  PROVE  SecretsInv'
<1>1. CASE \E a \in App : ProvisionSecret(a)
  BY <1>1, SecretProvisioned
<1>2. CASE SecretsAge
  <2>1. vault' = [a \in App |-> Aged(vault[a])]
    BY <1>2 DEF SecretsAge
  <2>2. ASSUME NEW a \in App, Aged(vault[a]) # NoSecret
        PROVE  SecretOk(Aged(vault[a]))
    <3>1. vault[a] # NoSecret
      BY <2>2 DEF Aged
    <3> QED
      BY <2>2, <3>1, SecretAged DEF SecretsInv
  <2> QED
    BY <2>1, <2>2 DEF SecretsInv
<1>3. ASSUME UNCHANGED vault PROVE SecretsInv'
  BY <1>3 DEF SecretsInv
<1>4. CASE \E a \in App : RegisterOrDeploy(a) \/ GrantAdminConsent(a)
  BY <1>3, <1>4 DEF RegisterOrDeploy, GrantAdminConsent
<1>5. CASE \E a \in App, r \in Onboardings : Plan(a, r)
  BY <1>3, <1>5 DEF Plan
<1>6. CASE \E a \in App, e \in Executions : RecordExecution(a, e)
  BY <1>3, <1>6 DEF RecordExecution
<1>7. CASE AssessmentStep \/ ReleaseStep \/ UNCHANGED onboardingVars
  BY <1>3, <1>7 DEF AssessmentStep, AssessStep, ReleaseStep, Release, onboardingVars
<1> QED
  BY <1>1, <1>2, <1>4, <1>5, <1>6, <1>7 DEF OnboardingNext, ProvisioningStep, WorkflowStep

LEMMA SoundSecretsLast == SecretsInv => NoSurpriseExpiry
<1> SUFFICES ASSUME SecretsInv, NEW a \in App, vault[a] # NoSecret
             PROVE  LET c == vault[a].credential
                        life == IF c.type = "certificate" THEN c.validityDays ELSE c.expiryDays
                        asked == IF c.type = "certificate" THEN c.rolloverDays ELSE c.rotationDays
                    IN  vault[a].age >= life => life < IF asked = NotGiven THEN 30 ELSE asked
  BY DEF NoSurpriseExpiry
<1> DEFINE c == vault[a].credential
           life == IF c.type = "certificate" THEN c.validityDays ELSE c.expiryDays
           asked == IF c.type = "certificate" THEN c.rolloverDays ELSE c.rotationDays
           rotation == IF asked = NotGiven THEN 30 ELSE asked
<1>1. SecretOk(vault[a])
  BY DEF SecretsInv
<1>2. life = Life(c) /\ rotation = RotationDays(c)
  BY <1>1 DEF SecretOk, CREDENTIAL_STRATEGIES, Life, RotationDays, RotationGiven
<1>3. vault[a].age >= life => life < rotation
  <2> HIDE DEF life, rotation, c
  <2>1. /\ vault[a].age \in Nat /\ life \in Int /\ rotation \in Int /\ life > 0
        /\ vault[a].age = 0 \/ vault[a].age < rotation
    BY <1>1, <1>2 DEF SecretOk, c
  <2> QED
    BY <2>1
<1> QED
  BY <1>3

-----------------------------------------------------------------------------
(* Permissions, skills and roles.                                           *)

\* A valid request that asks for a risky permission has a ticket.
LEMMA RiskHasTicket ==
  ASSUME NEW r, ValidateTenantOnboardingRequest(r),
         NEW p \in FlattenPermissionNames(r), IsHighRiskPermission(p, "custom")
  PROVE  r.ticket
<1>1. EvaluateTenantOnboardingPolicies(r).evaluation.ok
  BY DEF ValidateTenantOnboardingRequest
<1> DEFINE highRisk == \/ \E q \in r.appRoles : IsHighRiskPermission(q, "appRole")
                       \/ \E q \in r.delegatedScopes : IsHighRiskPermission(q, "delegatedScope")
<1>2. highRisk
  BY DEF FlattenPermissionNames, IsHighRiskPermission
<1>3. Violated("tenant.high-risk-approval", highRisk /\ ~ r.ticket) = {}
  <2> HIDE DEF highRisk
  <2> QED
    BY <1>1 DEF EvaluateTenantOnboardingPolicies, Evaluation, highRisk
<1>4. ~ (highRisk /\ ~ r.ticket)
  BY <1>3 DEF Violated
<1> QED
  BY <1>2, <1>4

\* A skill manifest that passes its validation has what its risk asks for.
LEMMA SkillRiskIsApproved ==
  ASSUME NEW m, ValidateSkillManifest(m)
  PROVE  /\ \A s \in m.scopes : IsHighRiskPermission(s, "custom") => m.ticket
         /\ m.riskBand = "high" => m.ticket /\ m.reviewed
<1>1. m.riskBand = "high" \/ HasHighRiskScope(m) => m.ticket
  BY DEF ValidateSkillManifest
<1>2. \A s \in m.scopes : IsHighRiskPermission(s, "custom") => HasHighRiskScope(m)
  BY DEF HasHighRiskScope, IsHighRiskPermission
<1> DEFINE unready == \/ ~ m.declared
                      \/ ~ m.testsPassed
                      \/ m.riskBand = "high" /\ ~ m.reviewed
<1>3. EvaluateSkillManifestPolicies(m).ok
  BY DEF ValidateSkillManifest
<1>4. Violated("skill.cicd-release-gates", unready) = {}
  <2> HIDE DEF unready
  <2> QED
    BY <1>3 DEF EvaluateSkillManifestPolicies, Evaluation, unready
<1>5. ~ unready
  BY <1>4 DEF Violated
<1> QED
  BY <1>1, <1>2, <1>5

\* Role assignments that pass hold a risky role only in a part it is meant for.
LEMMA RolesAreMeant ==
  ASSUME NEW as, ValidateRoleAssignments(as)
  PROVE  \A a \in as : a.assigned \in HIGH_RISK_RBAC_ROLES =>
           <<a.role, a.assigned>> \in {<<"foundryAdmin", "Owner">>,
                                      <<"securityOperator", "Privileged Role Administrator">>}
<1> SUFFICES ASSUME NEW a \in as, a.assigned \in HIGH_RISK_RBAC_ROLES
             PROVE  \/ a.role = "foundryAdmin" /\ a.assigned = "Owner"
                    \/ a.role = "securityOperator" /\ a.assigned = "Privileged Role Administrator"
  OBVIOUS
<1>1. a.role \in DOMAIN AllowedHighRiskRoles /\ a.assigned \in AllowedHighRiskRoles[a.role]
  BY DEF ValidateRoleAssignments, IsHighRiskPermission
<1> QED
  BY <1>1 DEF AllowedHighRiskRoles

LEMMA RiskStaysApproved ==
  ASSUME PlansValid, OnlyApprovedRisk, OnboardingNext \/ UNCHANGED onboardingVars
  PROVE  OnlyApprovedRisk'
<1>1. ASSUME NEW a \in App, GrantAdminConsent(a) PROVE OnlyApprovedRisk'
  <2>1. ValidateTenantOnboardingRequest(plan[a])
    BY <1>1 DEF PlansValid, GrantAdminConsent, RunsStep
  <2>2. \A p \in FlattenPermissionNames(plan[a]) : IsHighRiskPermission(p, "custom") => plan[a].ticket
    BY <2>1, RiskHasTicket
  <2>3. /\ granted' = granted \union
             {[app |-> a, permission |-> p, ticket |-> plan[a].ticket] :
                p \in FlattenPermissionNames(plan[a])}
        /\ UNCHANGED <<skills, roles>>
    BY <1>1 DEF GrantAdminConsent, RunsStep
  <2>4. \A g \in granted' : IsHighRiskPermission(g.permission, "custom") => g.ticket
    <3> SUFFICES ASSUME NEW g \in granted', IsHighRiskPermission(g.permission, "custom")
                 PROVE  g.ticket
      OBVIOUS
    <3>1. CASE g \in granted
      BY <3>1 DEF OnlyApprovedRisk
    <3>2. CASE g \notin granted
      <4>1. PICK p \in FlattenPermissionNames(plan[a]) :
              g = [app |-> a, permission |-> p, ticket |-> plan[a].ticket]
        BY <2>3, <3>2
      <4>2. g.permission = p /\ g.ticket = plan[a].ticket
        BY <4>1
      <4> QED
        BY <2>2, <4>1, <4>2
    <3> QED
      BY <3>1, <3>2
  <2> QED
    BY <2>3, <2>4 DEF OnlyApprovedRisk
<1>2. ASSUME NEW ms \in SUBSET Manifests, NEW as \in Assignments, Release(ms, as)
      PROVE  OnlyApprovedRisk'
  <2>1. skills' = skills \union ms /\ roles' = as /\ UNCHANGED granted
    BY <1>2 DEF Release
  <2>2. (\A m \in ms : ValidateSkillManifest(m)) /\ ValidateRoleAssignments(as)
    BY <1>2 DEF Release, CiCdCompliancePassed
  <2> QED
    BY <2>1, <2>2, SkillRiskIsApproved, RolesAreMeant DEF OnlyApprovedRisk
<1>3. ASSUME UNCHANGED <<granted, skills, roles>> PROVE OnlyApprovedRisk'
  BY <1>3 DEF OnlyApprovedRisk
<1>4. CASE ProvisioningStep
  BY <1>1, <1>3, <1>4
     DEF ProvisioningStep, Plan, RegisterOrDeploy, ProvisionSecret, SecretsAge, RunsStep
<1>5. CASE WorkflowStep \/ AssessmentStep
  BY <1>3, <1>5 DEF WorkflowStep, Plan, RecordExecution, AssessmentStep, AssessStep
<1>6. CASE ReleaseStep
  BY <1>2, <1>6 DEF ReleaseStep
<1>7. CASE UNCHANGED onboardingVars
  BY <1>3, <1>7 DEF onboardingVars
<1> QED
  BY <1>4, <1>5, <1>6, <1>7 DEF OnboardingNext

-----------------------------------------------------------------------------

\* For any requests, and secrets of any age: a secret expires only where the
\* request it came from gave it a life shorter than its rotation.
\* (buildKeyVaultProvisioningManifest, validateCredentialStrategy)
THEOREM SecretsRotateInTime == OnboardingSpec => []NoSurpriseExpiry
<1>1. OnboardingInit => PlansValid /\ SecretsInv
  BY PlansInitially, SecretsInitially
<1>2. PlansValid /\ SecretsInv /\ [OnboardingNext]_onboardingVars => PlansValid' /\ SecretsInv'
  BY PlansStayValid, SecretsStaySound
<1> QED
  BY <1>1, <1>2, SoundSecretsLast, PTL DEF OnboardingSpec

\* For any requests, skills and role assignments: what counts as risky is in use
\* only with an approval.  (validateTenantOnboardingRequest, validateSkillManifest,
\* validateRoleAssignments)
THEOREM RiskIsApproved == OnboardingSpec => []OnlyApprovedRisk
<1>1. OnboardingInit => PlansValid /\ OnlyApprovedRisk
  BY PlansInitially DEF OnboardingInit, OnlyApprovedRisk
<1>2. PlansValid /\ OnlyApprovedRisk /\ [OnboardingNext]_onboardingVars
        => PlansValid' /\ OnlyApprovedRisk'
  BY PlansStayValid, RiskStaysApproved
<1> QED
  BY <1>1, <1>2, PTL DEF OnboardingSpec

-----------------------------------------------------------------------------
(* Onboarding: good marks.                                                  *)

\* What the callers keep is well formed, and no critical step is half passed.
MarksInv ==
  /\ executions = [a \in App |-> executions[a]]
  /\ \A a \in App : executions[a] \in Seq(Executions)
  /\ results \in [Checklist -> {"pending", "pass", "fail", "partial"}]
  /\ \A step \in Checklist : results[step] = "partial" => CRITICALITY[step] # "critical"

LEMMA MarksInitially == OnboardingInit => MarksInv
  BY DEF OnboardingInit, MarksInv

LEMMA MarksStaySound ==
  ASSUME MarksInv, OnboardingNext \/ UNCHANGED onboardingVars
  PROVE  MarksInv'
<1>1. ASSUME UNCHANGED <<executions, results>> PROVE MarksInv'
  BY <1>1 DEF MarksInv
<1>2. ASSUME NEW a \in App, NEW e \in Executions, RecordExecution(a, e) PROVE MarksInv'
  <2>1. Append(executions[a], e) \in Seq(Executions)
    BY <1>2 DEF MarksInv
  <2>2. executions' = [executions EXCEPT ![a] = Append(executions[a], e)] /\ results' = results
    BY <1>2 DEF RecordExecution
  <2> QED
    BY <2>1, <2>2 DEF MarksInv
<1>3. ASSUME NEW step \in Checklist, NEW passed \in BOOLEAN, AssessStep(step, passed) PROVE MarksInv'
  <2>1. EvaluateAssessmentStep(step, passed) \in {"pass", "fail", "partial"}
    BY DEF EvaluateAssessmentStep
  <2>2. EvaluateAssessmentStep(step, passed) = "partial" => CRITICALITY[step] # "critical"
    BY DEF EvaluateAssessmentStep
  <2> QED
    BY <1>3, <2>1, <2>2 DEF AssessStep, MarksInv
<1>4. CASE ProvisioningStep
  BY <1>1, <1>4 DEF ProvisioningStep, Plan, RegisterOrDeploy, GrantAdminConsent, ProvisionSecret,
     RunsStep, SecretsAge
<1>5. CASE WorkflowStep
  BY <1>1, <1>2, <1>5 DEF WorkflowStep, Plan
<1>6. CASE AssessmentStep
  BY <1>3, <1>6 DEF AssessmentStep
<1>7. CASE ReleaseStep
  BY <1>1, <1>7 DEF ReleaseStep, Release
<1>8. CASE UNCHANGED onboardingVars
  BY <1>1, <1>8 DEF onboardingVars
<1> QED
  BY <1>4, <1>5, <1>6, <1>7, <1>8 DEF OnboardingNext

\* The status of a checkpoint is the one recorded of it last.
LEMMA LastStatusIs ==
  ASSUME NEW list \in Seq(Executions), NEW id, Recorded(list, id) # {}
  PROVE  \E k \in Recorded(list, id) :
           LastStatus(list, id) = list[k].status /\ \A j \in Recorded(list, id) : j <= k
<1>1. Recorded(list, id) \in SUBSET (1..Len(list)) /\ Len(list) \in Nat
  BY DEF Recorded
<1>2. \E k \in Recorded(list, id) : \A j \in Recorded(list, id) : j <= k
  BY <1>1, GreatestNat
<1> QED
  BY <1>2 DEF LastStatus

\* A workflow that is completed has a last status of each checkpoint, and none failed.
LEMMA CompletedMeans ==
  ASSUME NEW asked, NEW list \in Seq(Executions),
         EvaluateOnboardingWorkflowCheckpoints(asked, list) = "completed"
  PROVE  /\ \A i \in DOMAIN list : list[i].id \in CHECKPOINT_IDS
         /\ \A id \in CHECKPOINT_IDS :
              /\ id \notin BlockedCheckpoints(asked)
              /\ Recorded(list, id) # {} /\ LastStatus(list, id) # "failed"
<1> DEFINE statuses == {CheckpointStatus(asked, list, id) : id \in CHECKPOINT_IDS}
<1>1. /\ \A i \in DOMAIN list : list[i].id \in CHECKPOINT_IDS
      /\ "blocked" \notin statuses /\ "failed" \notin statuses /\ "pending" \notin statuses
  BY DEF EvaluateOnboardingWorkflowCheckpoints
<1>2. \A id \in CHECKPOINT_IDS : CheckpointStatus(asked, list, id) \notin {"blocked", "failed", "pending"}
  BY <1>1
<1>3. ASSUME NEW id \in CHECKPOINT_IDS
      PROVE  /\ id \notin BlockedCheckpoints(asked)
             /\ Recorded(list, id) # {} /\ LastStatus(list, id) # "failed"
  BY <1>2 DEF CheckpointStatus
<1> QED
  BY <1>1, <1>3

LEMMA ActivationEarned ==
  ASSUME PlansValid, MarksInv, NEW a \in App, ReadyForActivation(a)
  PROVE  /\ \A i \in DOMAIN executions[a] : executions[a][i].status = "failed" =>
              \E j \in DOMAIN executions[a] :
                j > i /\ executions[a][j].id = executions[a][i].id /\ executions[a][j].status # "failed"
         /\ \A id \in CHECKPOINT_IDS : \E i \in DOMAIN executions[a] : executions[a][i].id = id
         /\ FailedReadinessChecks(plan[a]) \subseteq {"missing-regional-resource"}
<1> DEFINE list == executions[a]  asked == plan[a]
<1>1. list \in Seq(Executions) /\ ValidateTenantOnboardingRequest(asked)
      /\ EvaluateOnboardingWorkflowCheckpoints(asked, list) = "completed"
  BY DEF MarksInv, PlansValid, ReadyForActivation
<1> HIDE DEF list, asked
<1>2. /\ \A i \in DOMAIN list : list[i].id \in CHECKPOINT_IDS
      /\ \A id \in CHECKPOINT_IDS :
           /\ id \notin BlockedCheckpoints(asked)
           /\ Recorded(list, id) # {} /\ LastStatus(list, id) # "failed"
  BY <1>1, CompletedMeans
<1>3. ASSUME NEW i \in DOMAIN list, list[i].status = "failed"
      PROVE  \E j \in DOMAIN list : j > i /\ list[j].id = list[i].id /\ list[j].status # "failed"
  <2> DEFINE id == list[i].id
  <2>1. PICK k \in Recorded(list, id) :
          LastStatus(list, id) = list[k].status /\ \A j \in Recorded(list, id) : j <= k
    BY <1>1, <1>2, LastStatusIs
  <2>2. i \in Recorded(list, id) /\ DOMAIN list = 1..Len(list) /\ Len(list) \in Nat
    BY <1>1 DEF Recorded
  <2>3. k \in DOMAIN list /\ list[k].id = id /\ i <= k /\ list[k].status # "failed"
    BY <1>2, <2>1, <2>2 DEF Recorded
  <2>4. k # i
    BY <1>3, <2>3
  <2> QED
    BY <2>2, <2>3, <2>4
<1>4. \A id \in CHECKPOINT_IDS : \E i \in DOMAIN list : list[i].id = id
  BY <1>2 DEF Recorded
<1>5. FailedReadinessChecks(asked) \subseteq {"missing-regional-resource"}
  <2>1. asked.owners # {}
    BY <1>1 DEF ValidateTenantOnboardingRequest
  <2>2. "approval-gate" \notin BlockedCheckpoints(asked)
    BY <1>2 DEF CHECKPOINT_IDS
  <2>3. ~ (HasHighRisk(asked) /\ ~ asked.ticket)
    BY <2>2 DEF BlockedCheckpoints, Violated
  <2> QED
    BY <2>1, <2>3 DEF FailedReadinessChecks, Violated
<1> QED
  BY <1>3, <1>4, <1>5 DEF list, asked

\* The checklist has ten steps.
LEMMA TenSteps == IsFiniteSet(Checklist) /\ Cardinality(Checklist) <= 10
<1> DEFINE step(i) ==
             IF i = 1 THEN "entra-app-registered" ELSE IF i = 2 THEN "permissions-granted"
             ELSE IF i = 3 THEN "keyvault-configured" ELSE IF i = 4 THEN "mfa-enabled"
             ELSE IF i = 5 THEN "baseline-policy-applied" ELSE IF i = 6 THEN "coe-owner-assigned"
             ELSE IF i = 7 THEN "audit-log-retention" ELSE IF i = 8 THEN "license-inventory"
             ELSE IF i = 9 THEN "data-residency-confirmed" ELSE "initial-usage-pull"
           steps == {step(i) : i \in 1..10}
           last == 10
<1>1. Checklist \subseteq steps
  <2>1. /\ \A i \in {1, 2, 3, 4, 5, 6, 7, 8, 9, 10} : i \in 1..10
        /\ step(1) = "entra-app-registered" /\ step(2) = "permissions-granted"
        /\ step(3) = "keyvault-configured" /\ step(4) = "mfa-enabled"
        /\ step(5) = "baseline-policy-applied" /\ step(6) = "coe-owner-assigned"
        /\ step(7) = "audit-log-retention" /\ step(8) = "license-inventory"
        /\ step(9) = "data-residency-confirmed" /\ step(10) = "initial-usage-pull"
    OBVIOUS
  <2> HIDE DEF step
  <2> QED
    BY <2>1, ChecklistAssumption
<1> HIDE DEF step
<1>2. [i \in 1..last |-> step(i)] \in Surjection(1..last, steps) /\ last \in Nat
  BY DEF Surjection
<1> HIDE DEF steps
<1>3. IsFiniteSet(steps) /\ Cardinality(steps) <= last
  <2> HIDE DEF last
  <2>1. ExistsSurjection(1..last, steps)
    BY <1>2 DEF ExistsSurjection
  <2> QED
    BY <1>2, <2>1, FS_NatSurjection, FS_SurjCardinalityBound
<1>4. IsFiniteSet(Checklist) /\ Cardinality(Checklist) <= Cardinality(steps)
  BY <1>1, <1>3, FS_Subset
<1>5. Cardinality(Checklist) \in Int /\ Cardinality(steps) \in Int
  BY <1>3, <1>4, FS_CardinalityType
<1> QED
  BY <1>3, <1>4, <1>5

\* A rounded score of 80 or more lets at most a fifth of the steps be missed: the
\* half percent that rounding gives away is less than one step of so few.
LEMMA ScoreEarned ==
  ASSUME BaselineScore >= 80
  PROVE  5 * Cardinality(Evaluated \ Passed) <= Cardinality(Evaluated)
<1> DEFINE e == Cardinality(Evaluated)  p == Cardinality(Passed)
<1>1. Evaluated \subseteq Checklist /\ Passed \subseteq Evaluated
  BY DEF Evaluated, Passed
<1>2. IsFiniteSet(Evaluated) /\ IsFiniteSet(Passed) /\ e \in Nat /\ p \in Nat /\ e <= 10
  <2>1. IsFiniteSet(Evaluated) /\ e <= Cardinality(Checklist)
    BY <1>1, TenSteps, FS_Subset
  <2>2. IsFiniteSet(Passed)
    BY <1>1, <2>1, FS_Subset
  <2>3. e \in Nat /\ p \in Nat /\ Cardinality(Checklist) \in Nat
    BY <2>1, <2>2, TenSteps, FS_CardinalityType
  <2> QED
    BY <2>1, <2>2, <2>3, TenSteps
<1>3. Evaluated # {}
  BY DEF BaselineScore
<1>4. BaselineScore = (200 * p + e) \div (2 * e)
  BY <1>3 DEF BaselineScore
<1>5. e # 0
  BY <1>2, <1>3, FS_EmptySet
<1>6. Cardinality(Evaluated \ Passed) = e - p
  BY <1>1, <1>2, FS_Difference, Evaluated \intersect Passed = Passed
<1> HIDE DEF e, p
<1>7. 5 * (e - p) <= e
  <2>1. (2 * e) * ((200 * p + e) \div (2 * e)) <= 200 * p + e
    BY <1>2, <1>5
  <2>2. (200 * p + e) \div (2 * e) \in Int /\ (200 * p + e) \div (2 * e) >= 80
    BY <1>2, <1>4, <1>5
  <2>3. \A q \in Int : q >= 80 => (2 * e) * q >= 160 * e
    BY <1>2
  <2>4. 160 * e <= 200 * p + e
    BY <1>2, <2>1, <2>2, <2>3
  <2> QED
    BY <1>2, <2>4
<1> QED
  BY <1>6, <1>7 DEF e

LEMMA MarksEarned == PlansValid /\ MarksInv => ReadyIsEarned
<1> SUFFICES ASSUME PlansValid, MarksInv PROVE ReadyIsEarned
  OBVIOUS
<1>1. ASSUME ClassifyOnboardingReadiness = "ready"
      PROVE  /\ \A step \in Evaluated : CRITICALITY[step] = "critical" => results[step] = "pass"
             /\ 5 * Cardinality(Evaluated \ Passed) <= Cardinality(Evaluated)
  <2>1. (\A step \in Evaluated : results[step] # "fail") /\ BaselineScore >= 80
    BY <1>1 DEF ClassifyOnboardingReadiness
  <2>2. \A step \in Evaluated : CRITICALITY[step] = "critical" => results[step] = "pass"
    BY <2>1 DEF MarksInv, Evaluated
  <2> QED
    BY <2>1, <2>2, ScoreEarned
<1> QED
  BY <1>1, ActivationEarned DEF ReadyIsEarned

\* For any requests, executions and results: an app is ready for activation, and a
\* tenant ready, only if it earned it.
\* (evaluateOnboardingWorkflowCheckpoints, classifyOnboardingReadiness)
THEOREM ReadyMeansEarned == OnboardingSpec => []ReadyIsEarned
<1>1. OnboardingInit => PlansValid /\ MarksInv
  BY PlansInitially, MarksInitially
<1>2. PlansValid /\ MarksInv /\ [OnboardingNext]_onboardingVars => PlansValid' /\ MarksInv'
  BY PlansStayValid, MarksStaySound
<1> QED
  BY <1>1, <1>2, MarksEarned, PTL DEF OnboardingSpec
-----------------------------------------------------------------------------
(* The audit trail.                                                         *)

\* The trail is what arrived, in an order f by date and arrival.
Arranged(f) ==
  LET n == Len(arrived)
  IN  /\ Sorts(f, n, [i \in 1..n |-> arrived[i].at])
      /\ trail = Along(arrived, f, n)

TrailInv == arrived \in Seq(AuditEvent) /\ \E f : Arranged(f)

LEMMA EventsDated ==
  ASSUME NEW event \in AuditEvent
  PROVE  event.at \in Dates /\ event.at \in Int
<1>1. event.at \in Dates
  BY DEF AuditEvent
<1>2. Dates \subseteq Int
  BY DatesAssumption
<1> QED
  BY <1>1, <1>2, Zenon

LEMMA TrailInitially == WaiverInit => TrailInv
<1> SUFFICES ASSUME WaiverInit PROVE TrailInv
  OBVIOUS
<1> DEFINE f == [k \in 1..0 |-> 0]
<1>1. arrived \in Seq(AuditEvent) /\ Len(arrived) = 0 /\ trail = Along(arrived, f, 0)
  BY DEF WaiverInit, Along
<1>2. f \in [1..0 -> 1..0] /\ \A k \in 1..0 : FALSE
  OBVIOUS
<1> HIDE DEF f
<1>3. Arranged(f)
  BY <1>1, <1>2 DEF Arranged, Sorts
<1> QED
  BY <1>1, <1>3 DEF TrailInv

\* The trail has as many events, and those that arrived.
LEMMA TrailListed ==
  ASSUME arrived \in Seq(AuditEvent), NEW f, Arranged(f)
  PROVE  LET n == Len(arrived)
         IN  /\ n \in Nat /\ DOMAIN arrived = 1..n /\ DOMAIN trail = 1..n
             /\ trail \in Seq(AuditEvent) /\ Len(trail) = n
             /\ f \in [1..n -> 1..n] /\ \A i \in 1..n : \E k \in 1..n : f[k] = i
             /\ \A k \in 1..n : /\ trail[k] = arrived[f[k]] /\ trail[k].at \in Int
                                /\ arrived[k] \in AuditEvent
             /\ \A k, l \in 1..n : k < l =>
                  trail[k].at < trail[l].at \/ (trail[k].at = trail[l].at /\ f[k] < f[l])
<1> DEFINE n == Len(arrived)  of == [i \in 1..n |-> arrived[i].at]
<1>1. n \in Nat /\ DOMAIN arrived = 1..n /\ \A k \in 1..n : arrived[k] \in AuditEvent
  OBVIOUS
<1>2. Sorts(f, n, of) /\ trail = [k \in 1..n |-> arrived[f[k]]]
  BY DEF Arranged, Along
<1>3. \A i \in 1..n : of[i] = arrived[i].at
  OBVIOUS
<1> HIDE DEF n, of
<1>4. /\ f \in [1..n -> 1..n] /\ \A i \in 1..n : \E k \in 1..n : f[k] = i
      /\ \A k, l \in 1..n : k < l => of[f[k]] < of[f[l]] \/ (of[f[k]] = of[f[l]] /\ f[k] < f[l])
  BY <1>2 DEF Sorts
<1>5. /\ DOMAIN trail = 1..n
      /\ \A k \in 1..n : trail[k] = arrived[f[k]] /\ trail[k].at = of[f[k]] /\ trail[k] \in AuditEvent
  BY <1>1, <1>2, <1>3, <1>4
<1>6. trail \in Seq(AuditEvent) /\ Len(trail) = n
  BY <1>1, <1>2, <1>5
<1> QED
  BY <1>1, <1>4, <1>5, <1>6, EventsDated DEF n

\* Sorting the trail with one event more arranges what has arrived by then.
LEMMA AppendArranges ==
  ASSUME arrived \in Seq(AuditEvent), NEW f, Arranged(f), NEW event \in AuditEvent,
         AppendWaiverAuditEvent(event)
  PROVE  arrived' \in Seq(AuditEvent) /\ \E h : Arranged(h)'
<1> DEFINE n    == Len(arrived)
           m    == n + 1
           list == Append(trail, event)
           rank == [i \in DOMAIN list |-> list[i].at]
           of   == [i \in 1..m |-> arrived'[i].at]
<1>1. /\ n \in Nat /\ trail \in Seq(AuditEvent) /\ Len(trail) = n
      /\ f \in [1..n -> 1..n]
      /\ \A k \in 1..n : trail[k] = arrived[f[k]]
  BY TrailListed
<1>2. arrived' = Append(arrived, event) /\ trail' = SortedBy(list, rank)
  BY DEF AppendWaiverAuditEvent, ByDate
<1>3. /\ arrived' \in Seq(AuditEvent) /\ Len(arrived') = m
      /\ \A k \in 1..n : arrived'[k] = arrived[k]
      /\ arrived'[m] = event
  BY <1>2
<1>4. /\ DOMAIN list = 1..m /\ \A k \in 1..n : list[k] = trail[k]
      /\ list[m] = event
  BY <1>1
<1>5. \A k \in 1..m : arrived'[k] \in AuditEvent
  BY <1>3
<1>6. Sorts(f, n, of)
  <2> DEFINE had == [i \in 1..n |-> arrived[i].at]
  <2>1. Sorts(f, n, had)
    BY DEF Arranged
  <2>2. \A i \in 1..n : of[i] = had[i]
    BY <1>1, <1>3
  <2> HIDE DEF of, n, had
  <2> QED
    BY <2>1, <2>2, SortsAlike, Zenon
<1> HIDE DEF list
<1>7. \A k \in 1..m : of[k] = arrived'[k].at /\ rank[k] = list[k].at
  BY <1>4
<1>8. m \in Nat /\ m = n + 1 /\ 1..n \subseteq 1..m /\ m \in 1..m
  BY <1>1
<1> HIDE DEF n, m, rank, of
<1>9. \A k \in 1..m : of[k] \in Int
  BY <1>5, <1>7, EventsDated
<1>10. \A k \in 1..n : list[k] = arrived'[f[k]] /\ rank[k] = of[f[k]]
  <2> SUFFICES ASSUME NEW k \in 1..n PROVE list[k] = arrived'[f[k]] /\ rank[k] = of[f[k]]
    OBVIOUS
  <2>1. f[k] \in 1..n /\ f[k] \in 1..m /\ k \in 1..m
    BY <1>1, <1>8
  <2>2. list[k] = trail[k] /\ trail[k] = arrived[f[k]] /\ arrived[f[k]] = arrived'[f[k]]
    BY <1>1, <1>3, <1>4, <2>1, Zenon
  <2> QED
    BY <1>7, <2>1, <2>2, Zenon
<1>11. list[m] = arrived'[m] /\ rank[m] = of[m]
  BY <1>3, <1>4, <1>7, <1>8
<1>12. PICK h : Sorts(h, m, of) /\ SortedBy(list, rank) = Along(arrived', h, m)
  <2>1. OneUnsorted(list, rank, arrived', of, f, n, m)
    <3>1. n \in Nat /\ m \in Nat /\ m = n + 1 /\ DOMAIN list = 1..m
      BY <1>1, <1>4, <1>8
    <3> QED
      BY <1>6, <1>9, <1>10, <1>11, <3>1, Zenon DEF OneUnsorted
  <2> QED
    BY <2>1, SortedWithOneMore
<1>13. Arranged(h)'
  BY <1>2, <1>3, <1>12 DEF Arranged, of
<1> QED
  BY <1>3, <1>13

LEMMA TrailStepInv ==
  ASSUME TrailInv, [WaiverStep \/ TrailStep]_waiverVars
  PROVE  TrailInv'
<1>1. PICK f : Arranged(f)
  BY DEF TrailInv
<1>2. arrived \in Seq(AuditEvent)
  BY DEF TrailInv
<1>3. ASSUME UNCHANGED <<trail, arrived>> PROVE TrailInv'
  <2>1. Arranged(f)'
    BY <1>1, <1>3 DEF Arranged
  <2> QED
    BY <1>2, <1>3, <2>1 DEF TrailInv
<1>4. ASSUME NEW event \in AuditEvent, AppendWaiverAuditEvent(event) PROVE TrailInv'
  BY <1>1, <1>2, <1>4, AppendArranges DEF TrailInv
<1>5. CASE WaiverStep
  <2>1. UNCHANGED <<trail, arrived>>
    BY <1>5 DEF WaiverStep, RegisterGovernanceWaiver, EnforceWaiverExpiry
  <2> QED
    BY <1>3, <2>1
<1>6. CASE TrailStep
  BY <1>4, <1>6 DEF TrailStep
<1>7. CASE UNCHANGED waiverVars
  BY <1>3, <1>7 DEF waiverVars
<1> QED
  BY <1>5, <1>6, <1>7

\* On one date, the trail holds the events in the order of arrival.
LEMMA OneDateInOrder ==
  ASSUME TrailInv, NEW t
  PROVE  Pick(trail, OfDate(trail, t)) = Pick(arrived, OfDate(arrived, t))
<1> DEFINE n == Len(arrived)
           I == OfDate(trail, t)
           J == OfDate(arrived, t)
<1>1. PICK f : Arranged(f)
  BY DEF TrailInv
<1>2. /\ n \in Nat /\ DOMAIN arrived = 1..n /\ DOMAIN trail = 1..n
      /\ f \in [1..n -> 1..n] /\ \A i \in 1..n : \E k \in 1..n : f[k] = i
      /\ \A k \in 1..n : trail[k] = arrived[f[k]] /\ trail[k].at \in Int
      /\ \A k, l \in 1..n : k < l =>
           trail[k].at < trail[l].at \/ (trail[k].at = trail[l].at /\ f[k] < f[l])
  BY <1>1, TrailListed DEF TrailInv
<1> HIDE DEF n
<1>3. /\ I \subseteq 1..n /\ \A k \in 1..n : k \in I <=> trail[k].at = t
      /\ J \subseteq 1..n /\ \A k \in 1..n : k \in J <=> arrived[k].at = t
  BY <1>2 DEF OfDate
<1>4. I \in SUBSET Int /\ J \in SUBSET Int /\ IsFiniteSet(I) /\ IsFiniteSet(J)
  <2>1. IsFiniteSet(1..n)
    BY <1>2, UpTo
  <2>2. IsFiniteSet(I) /\ IsFiniteSet(J)
    BY <1>3, <2>1, FS_Subset, Zenon
  <2>3. 1..n \subseteq Int
    OBVIOUS
  <2> QED
    BY <1>3, <2>2, <2>3, Zenon
<1> HIDE DEF I, J
<1>5. ASSUME NEW k \in I, NEW l \in I, k < l PROVE f[k] < f[l]
  <2>1. k \in 1..n /\ l \in 1..n /\ trail[k].at = t /\ trail[l].at = t
    BY <1>3
  <2>2. trail[k].at < trail[l].at \/ f[k] < f[l]
    BY <1>2, <1>5, <2>1
  <2>3. trail[k].at \in Int
    BY <1>2, <2>1
  <2> QED
    BY <2>1, <2>2, <2>3
<1>6. ASSUME NEW k \in I PROVE f[k] \in J
  <2>1. k \in 1..n /\ trail[k].at = t
    BY <1>3
  <2>2. f[k] \in 1..n /\ trail[k] = arrived[f[k]]
    BY <1>2, <2>1
  <2> QED
    BY <1>3, <2>1, <2>2
<1>7. \A j \in J : \E k \in I : f[k] = j
  <2> SUFFICES ASSUME NEW j \in J PROVE \E k \in I : f[k] = j
    OBVIOUS
  <2>1. PICK k \in 1..n : f[k] = j
    BY <1>2, <1>3
  <2>2. trail[k] = arrived[j] /\ arrived[j].at = t
    BY <1>2, <1>3, <2>1
  <2> QED
    BY <1>3, <2>1, <2>2
<1>8. Cardinality(I) \in Nat /\ Cardinality(J) = Cardinality(I)
  <2> DEFINE g == [k \in I |-> f[k]]
  <2>1. g \in [I -> J] /\ \A k \in I : g[k] = f[k]
    BY <1>6
  <2> HIDE DEF g
  <2>2. \A k, l \in I : g[k] = g[l] => k = l
    <3> SUFFICES ASSUME NEW k \in I, NEW l \in I, g[k] = g[l] PROVE k = l
      OBVIOUS
    <3>1. k \in Int /\ l \in Int /\ f[k] = f[l] /\ f[k] \in Int
      BY <1>4, <1>6, <2>1
    <3>2. ~ (k < l) /\ ~ (l < k)
      BY <1>5, <3>1
    <3> QED
      BY <3>1, <3>2
  <2>3. \A j \in J : \E k \in I : g[k] = j
    BY <1>7, <2>1
  <2>4. g \in Bijection(I, J)
    BY <2>1, <2>2, <2>3 DEF Bijection, Injection, Surjection, IsInjective
  <2>5. ExistsBijection(I, J)
    BY <2>4 DEF ExistsBijection
  <2> QED
    BY <1>4, <2>5, FS_Bijection, FS_CardinalityType
<1> DEFINE c == Cardinality(I)
<1>9. PICK o : Enumerates(o, I) /\ Pick(trail, I) = Along(trail, o, c)
  BY <1>4, PickIs
<1>10. PICK p : Enumerates(p, J) /\ Pick(arrived, J) = Along(arrived, p, c)
  BY <1>4, <1>8, PickIs
<1> DEFINE q == [k \in 1..c |-> f[o[k]]]
<1>11. /\ o \in [1..c -> I] /\ \A i \in I : \E k \in 1..c : o[k] = i
       /\ \A k, l \in 1..c : k < l => o[k] < o[l]
  BY <1>9 DEF Enumerates
<1> HIDE DEF c
<1>12. q \in [1..c -> J] /\ \A k \in 1..c : q[k] = f[o[k]] /\ o[k] \in I
  BY <1>6, <1>11
<1> HIDE DEF q
<1>13. Enumerates(q, J)
  <2>1. ASSUME NEW j \in J PROVE \E k \in 1..c : q[k] = j
    <3>1. PICK i \in I : f[i] = j
      BY <1>7
    <3>2. PICK k \in 1..c : o[k] = i
      BY <1>11
    <3> QED
      BY <1>12, <3>1, <3>2
  <2>2. ASSUME NEW k \in 1..c, NEW l \in 1..c, k < l PROVE q[k] < q[l]
    <3>1. o[k] < o[l] /\ o[k] \in I /\ o[l] \in I
      BY <1>11, <2>2
    <3> QED
      BY <1>5, <1>12, <3>1
  <2>3. Cardinality(J) = c
    BY <1>8 DEF c
  <2> QED
    BY <1>12, <2>1, <2>2, <2>3 DEF Enumerates
<1>14. q = p
  BY <1>4, <1>10, <1>13, OneEnumeration
<1>15. ASSUME NEW k \in 1..c PROVE trail[o[k]] = arrived[p[k]]
  <2>1. o[k] \in 1..n /\ p[k] = f[o[k]]
    BY <1>3, <1>12, <1>14
  <2> QED
    BY <1>2, <2>1
<1>16. Pick(trail, I) = Pick(arrived, J)
  BY <1>9, <1>10, <1>15 DEF Along, c
<1> QED
  BY <1>16 DEF I, J

\* A list s of n elements: each of S, only these, by date.
InDates(s, n, S) ==
  /\ n \in Nat /\ DOMAIN s = 1..n
  /\ \A k \in 1..n : s[k] \in S
  /\ \A x \in S : x.at \in Int /\ \E k \in 1..n : s[k] = x
  /\ \A i, j \in 1..n : i < j => s[i].at <= s[j].at

\* Picking the elements of a part of S leaves them by date.
LEMMA PickInDates ==
  ASSUME NEW s, NEW n, NEW S, InDates(s, n, S), NEW T, T \subseteq S,
         NEW I, I = {i \in 1..n : s[i] \in T}
  PROVE  \E m : InDates(Pick(s, I), m, T)
<1>1. /\ n \in Nat /\ DOMAIN s = 1..n
      /\ \A x \in S : x.at \in Int /\ \E k \in 1..n : s[k] = x
      /\ \A i, j \in 1..n : i < j => s[i].at <= s[j].at
  BY DEF InDates
<1>2. I \in SUBSET Int /\ IsFiniteSet(I)
  <2>1. I \subseteq 1..n /\ 1..n \subseteq Int /\ IsFiniteSet(1..n)
    BY <1>1, UpTo
  <2> QED
    BY <2>1, FS_Subset, Zenon
<1> DEFINE m == Cardinality(I)
<1>3. PICK o : Enumerates(o, I) /\ Pick(s, I) = Along(s, o, m)
  BY <1>2, PickIs
<1> DEFINE p == Pick(s, I)
<1>4. m \in Nat
  BY <1>2, PickIs
<1>5. /\ o \in [1..m -> I] /\ \A i \in I : \E k \in 1..m : o[k] = i
      /\ \A k, l \in 1..m : k < l => o[k] < o[l]
  BY <1>3 DEF Enumerates
<1> HIDE DEF m
<1>6. DOMAIN p = 1..m /\ \A k \in 1..m : p[k] = s[o[k]] /\ o[k] \in I
  BY <1>3, <1>5 DEF Along
<1> HIDE DEF p
<1>7. ASSUME NEW x \in T PROVE x.at \in Int /\ \E k \in 1..m : p[k] = x
  <2>1. PICK i \in 1..n : s[i] = x
    BY <1>1
  <2>2. PICK k \in 1..m : o[k] = i
    BY <1>5, <2>1
  <2> QED
    BY <1>1, <1>6, <2>1, <2>2
<1>8. ASSUME NEW k \in 1..m, NEW l \in 1..m, k < l PROVE p[k].at <= p[l].at
  <2>1. o[k] < o[l] /\ o[k] \in 1..n /\ o[l] \in 1..n
    BY <1>5, <1>6, <1>8
  <2> QED
    BY <1>1, <1>6, <2>1
<1>9. \A k \in 1..m : p[k] \in T
  BY <1>6
<1>10. InDates(p, m, T)
  BY <1>4, <1>6, <1>7, <1>8, <1>9 DEF InDates
<1> QED
  BY <1>10 DEF p

\* So does sorting them by date once more.
LEMMA ByDateInDates ==
  ASSUME NEW s, NEW n, NEW S, InDates(s, n, S)
  PROVE  InDates(ByDate(s), n, S)
<1> DEFINE rank == [i \in DOMAIN s |-> s[i].at]
           p    == ByDate(s)
<1>1. /\ n \in Nat /\ DOMAIN s = 1..n /\ \A k \in 1..n : s[k] \in S
      /\ \A x \in S : x.at \in Int /\ \E k \in 1..n : s[k] = x
  BY DEF InDates
<1>2. \A k \in 1..n : rank[k] = s[k].at /\ rank[k] \in Int
  BY <1>1
<1>3. p = SortedBy(s, rank)
  BY DEF ByDate
<1> HIDE DEF p, rank
<1>4. PICK o : Sorts(o, n, rank) /\ SortedBy(s, rank) = Along(s, o, n)
  BY <1>1, <1>2, SortedByIs
<1>5. /\ o \in [1..n -> 1..n] /\ \A i \in 1..n : \E k \in 1..n : o[k] = i
      /\ \A k, l \in 1..n : k < l =>
           rank[o[k]] < rank[o[l]] \/ (rank[o[k]] = rank[o[l]] /\ o[k] < o[l])
  BY <1>4 DEF Sorts
<1>6. DOMAIN p = 1..n /\ \A k \in 1..n : p[k] = s[o[k]] /\ o[k] \in 1..n
  BY <1>3, <1>4, <1>5 DEF Along
<1>7. ASSUME NEW x \in S PROVE x.at \in Int /\ \E k \in 1..n : p[k] = x
  <2>1. PICK i \in 1..n : s[i] = x
    BY <1>1
  <2>2. PICK k \in 1..n : o[k] = i
    BY <1>5, <2>1
  <2> QED
    BY <1>1, <1>6, <2>1, <2>2
<1>8. ASSUME NEW k \in 1..n, NEW l \in 1..n, k < l PROVE p[k].at <= p[l].at
  <2>1. /\ o[k] \in 1..n /\ o[l] \in 1..n /\ p[k] = s[o[k]] /\ p[l] = s[o[l]]
    BY <1>6
  <2>2. /\ rank[o[k]] = p[k].at /\ rank[o[l]] = p[l].at
        /\ rank[o[k]] \in Int /\ rank[o[l]] \in Int
    BY <1>2, <2>1
  <2>3. rank[o[k]] < rank[o[l]] \/ rank[o[k]] = rank[o[l]]
    BY <1>5, <1>8
  <2> QED
    BY <2>2, <2>3
<1>9. \A k \in 1..n : p[k] \in S
  BY <1>1, <1>6
<1>10. InDates(p, n, S)
  BY <1>1, <1>6, <1>7, <1>8, <1>9 DEF InDates
<1> QED
  BY <1>10 DEF p

\* The approvals of a waiver, of the events that arrived.
Approved(w) == {v \in Range(arrived) : v.waiverId = w /\ v.eventType = "approved"}

LEMMA ApprovalsInDates ==
  ASSUME TrailInv, NEW w
  PROVE  \E n : InDates(Approvals(w), n, Approved(w))
<1> DEFINE n == Len(arrived)
           S == Range(arrived)
           T == {x \in S : x.waiverId = w}
           U == {x \in T : x.eventType = "approved"}
<1>1. PICK f : Arranged(f)
  BY DEF TrailInv
<1>2. InDates(trail, n, S)
  <2>1. /\ n \in Nat /\ DOMAIN arrived = 1..n /\ DOMAIN trail = 1..n
        /\ f \in [1..n -> 1..n] /\ \A i \in 1..n : \E k \in 1..n : f[k] = i
        /\ \A k \in 1..n : trail[k] = arrived[f[k]] /\ trail[k].at \in Int
        /\ \A k, l \in 1..n : k < l =>
             trail[k].at < trail[l].at \/ (trail[k].at = trail[l].at /\ f[k] < f[l])
    BY <1>1, TrailListed DEF TrailInv
  <2> HIDE DEF n
  <2>2. S = {arrived[i] : i \in 1..n}
    BY <2>1 DEF Range
  <2>3. ASSUME NEW x \in S PROVE x.at \in Int /\ \E k \in 1..n : trail[k] = x
    <3>1. PICK i \in 1..n : arrived[i] = x
      BY <2>2
    <3>2. PICK k \in 1..n : f[k] = i
      BY <2>1
    <3> QED
      BY <2>1, <3>1, <3>2
  <2>4. \A k \in 1..n : trail[k] \in S
    BY <2>1, <2>2
  <2>5. ASSUME NEW k \in 1..n, NEW l \in 1..n, k < l PROVE trail[k].at <= trail[l].at
    <3>1. trail[k].at < trail[l].at \/ trail[k].at = trail[l].at
      BY <2>1, <2>5
    <3>2. trail[k].at \in Int /\ trail[l].at \in Int
      BY <2>1
    <3> QED
      BY <3>1, <3>2
  <2> HIDE DEF S
  <2> QED
    BY <2>1, <2>3, <2>4, <2>5 DEF InDates
<1>3. PICK m : InDates(Pick(trail, {i \in DOMAIN trail : trail[i].waiverId = w}), m, T)
  <2> DEFINE I == {i \in DOMAIN trail : trail[i].waiverId = w}
  <2>1. I = {i \in 1..n : trail[i] \in T}
    BY <1>2 DEF InDates
  <2>2. T \subseteq S
    OBVIOUS
  <2> HIDE DEF I, S, T, n
  <2>3. \E m : InDates(Pick(trail, I), m, T)
    BY <1>2, <2>1, <2>2, PickInDates
  <2> QED
    BY <2>3 DEF I
<1>4. InDates(Lineage(w), m, T)
  BY <1>3, ByDateInDates DEF Lineage
<1>5. \E l : InDates(Approvals(w), l, U)
  <2> DEFINE lineage == Lineage(w)
             I == {i \in DOMAIN lineage : lineage[i].eventType = "approved"}
  <2>1. I = {i \in 1..m : lineage[i] \in U}
    BY <1>4 DEF InDates
  <2>2. U \subseteq T
    OBVIOUS
  <2>3. Approvals(w) = Pick(lineage, I)
    BY DEF Approvals
  <2> HIDE DEF I, lineage, T, U
  <2>4. InDates(lineage, m, T)
    BY <1>4 DEF lineage
  <2>5. \E l : InDates(Pick(lineage, I), l, U)
    BY <2>1, <2>2, <2>4, PickInDates
  <2> QED
    BY <2>3, <2>5
<1>6. U = Approved(w)
  BY DEF Approved
<1> QED
  BY <1>5, <1>6

\* The lineage names everyone who approved, once, by their first approvals.
LEMMA ApproversInOrder ==
  ASSUME TrailInv, NEW w
  PROVE  LET names == Approvers(w)
         IN  /\ Range(names) = {e.actor : e \in Approved(w)}
             /\ \A i, j \in DOMAIN names : i < j =>
                  /\ names[i] # names[j]
                  /\ FirstApproval(w, names[i]) <= FirstApproval(w, names[j])
<1> DEFINE a     == Approvals(w)
           F     == {i \in DOMAIN a : \A j \in 1..(i - 1) : a[j].actor # a[i].actor}
           names == Approvers(w)
           S     == Approved(w)
           m     == Cardinality(F)
<1>1. PICK n : InDates(a, n, S)
  BY ApprovalsInDates
<1>2. names = [k \in DOMAIN Pick(a, F) |-> Pick(a, F)[k].actor]
  BY DEF Approvers
<1> HIDE DEF a, names
<1>3. /\ n \in Nat /\ DOMAIN a = 1..n /\ \A k \in 1..n : a[k] \in S /\ a[k].at \in Int
      /\ \A x \in S : \E k \in 1..n : a[k] = x
      /\ \A i, j \in 1..n : i < j => a[i].at <= a[j].at
  BY <1>1 DEF InDates
<1>4. F \subseteq 1..n /\ \A i \in F, j \in 1..n : j < i => a[j].actor # a[i].actor
  <2>1. \A i, j \in 1..n : j < i => j \in 1..(i - 1)
    BY <1>3
  <2> QED
    BY <1>3, <2>1
<1>5. ASSUME NEW i \in 1..n PROVE \E k \in F : a[k].actor = a[i].actor /\ k <= i
  <2> DEFINE same == {k \in 1..n : a[k].actor = a[i].actor}
  <2>1. same \in SUBSET Nat /\ i \in same
    BY <1>3
  <2>2. PICK k \in same : \A j \in same : k <= j
    BY <2>1, LeastNat
  <2>3. k \in 1..n /\ a[k].actor = a[i].actor /\ k <= i
    BY <2>1, <2>2
  <2>4. ASSUME NEW j \in 1..(k - 1) PROVE a[j].actor # a[k].actor
    <3>1. j \in 1..n /\ ~ (k <= j)
      BY <1>3, <2>3
    <3> QED
      BY <2>2, <2>3, <3>1
  <2>5. k \in F
    BY <1>3, <2>3, <2>4
  <2> QED
    BY <2>3, <2>5
<1>6. F \in SUBSET Int /\ IsFiniteSet(F)
  <2>1. 1..n \subseteq Int /\ IsFiniteSet(1..n)
    BY <1>3, UpTo
  <2> QED
    BY <1>4, <2>1, FS_Subset, Zenon
<1> HIDE DEF F, S
<1>7. PICK o : Enumerates(o, F) /\ Pick(a, F) = Along(a, o, m)
  BY <1>6, PickIs
<1>8. m \in Nat
  BY <1>6, PickIs
<1>9. /\ o \in [1..m -> F] /\ \A i \in F : \E k \in 1..m : o[k] = i
      /\ \A k, l \in 1..m : k < l => o[k] < o[l]
  BY <1>7 DEF Enumerates
<1> HIDE DEF m
<1>10. /\ DOMAIN names = 1..m
       /\ \A k \in 1..m : names[k] = a[o[k]].actor /\ o[k] \in F /\ o[k] \in 1..n
  BY <1>2, <1>4, <1>7, <1>9 DEF Along
<1>11. Range(names) = {e.actor : e \in S}
  <2>1. \A k \in 1..m : a[o[k]] \in S
    BY <1>3, <1>10
  <2>2. ASSUME NEW x \in S PROVE \E k \in 1..m : names[k] = x.actor
    <3>1. PICK i \in 1..n : a[i] = x
      BY <1>3
    <3>2. PICK j \in F : a[j].actor = x.actor
      BY <1>5, <3>1
    <3>3. PICK k \in 1..m : o[k] = j
      BY <1>9
    <3> QED
      BY <1>10, <3>2, <3>3
  <2> QED
    BY <1>10, <2>1, <2>2 DEF Range
<1>12. ASSUME NEW k \in 1..m PROVE FirstApproval(w, names[k]) = a[o[k]].at
  <2> DEFINE i     == o[k]
             mine  == {v \in Range(arrived) :
                         v.waiverId = w /\ v.actor = names[k] /\ v.eventType = "approved"}
             dates == {e.at : e \in mine}
  <2>1. i \in F /\ i \in 1..n /\ names[k] = a[i].actor /\ a[i] \in S /\ a[i].at \in Int
    BY <1>3, <1>10
  <2>2. mine = {v \in S : v.actor = names[k]}
    BY DEF S, Approved
  <2> HIDE DEF mine, i
  <2>3. a[i].at \in dates
    BY <2>1, <2>2
  <2>4. ASSUME NEW u \in dates PROVE u \in Int /\ a[i].at <= u
    <3>1. PICK x \in mine : u = x.at
      OBVIOUS
    <3>2. PICK j \in 1..n : a[j] = x
      BY <1>3, <2>2, <3>1
    <3>3. a[j].actor = a[i].actor /\ a[j].at = u /\ a[j].at \in Int
      BY <1>3, <2>1, <2>2, <3>1, <3>2
    <3>4. ~ (j < i)
      BY <1>4, <2>1, <3>3
    <3>5. i = j \/ i < j
      BY <1>3, <2>1, <3>4
    <3> QED
      BY <1>3, <2>1, <3>3, <3>5
  <2>5. FirstApproval(w, names[k]) = CHOOSE t \in dates : \A u \in dates : t <= u
    BY DEF FirstApproval, mine
  <2> HIDE DEF dates
  <2>6. \A t \in dates : (\A u \in dates : t <= u) => t = a[i].at
    BY <2>1, <2>3, <2>4
  <2>7. \E t \in dates : \A u \in dates : t <= u
    BY <2>3, <2>4
  <2> QED
    BY <2>5, <2>6, <2>7 DEF i
<1>13. ASSUME NEW k \in 1..m, NEW l \in 1..m, k < l
       PROVE  /\ names[k] # names[l]
              /\ FirstApproval(w, names[k]) <= FirstApproval(w, names[l])
  <2>1. o[k] < o[l] /\ o[k] \in 1..n /\ o[l] \in 1..n /\ o[l] \in F
    BY <1>9, <1>10, <1>13
  <2>2. a[o[k]].actor # a[o[l]].actor
    BY <1>4, <2>1
  <2>3. a[o[k]].at <= a[o[l]].at
    BY <1>3, <2>1
  <2> QED
    BY <1>10, <1>12, <2>2, <2>3
<1> QED
  BY <1>10, <1>11, <1>13 DEF names, S

(***************************************************************************)
(* Late events fall into place: the trail holds every event that arrived,  *)
(* by date and on one date in the order of arrival, and the lineage names  *)
(* everyone who approved, once, in the order of their first approvals.     *)
(***************************************************************************)
THEOREM TrailFallsIntoPlace == WaiverSpec => []TrailInOrder
<1>1. TrailInv => TrailInOrder
  <2> SUFFICES ASSUME TrailInv PROVE TrailInOrder
    OBVIOUS
  <2>1. \A i, j \in DOMAIN trail : i < j => trail[i].at <= trail[j].at
    <3>1. PICK f : Arranged(f)
      BY DEF TrailInv
    <3> DEFINE n == Len(arrived)
    <3>2. /\ DOMAIN trail = 1..n /\ \A k \in 1..n : trail[k].at \in Int
          /\ \A k, l \in 1..n : k < l =>
               trail[k].at < trail[l].at \/ (trail[k].at = trail[l].at /\ f[k] < f[l])
      BY <3>1, TrailListed DEF TrailInv
    <3> HIDE DEF n
    <3> QED
      BY <3>2
  <2>2. \A t \in Dates : Pick(trail, OfDate(trail, t)) = Pick(arrived, OfDate(arrived, t))
    BY OneDateInOrder
  <2>3. \A w \in Waiver :
          LET names == Approvers(w)
          IN  /\ Range(names) = {e.actor : e \in {v \in Range(arrived) :
                                   v.waiverId = w /\ v.eventType = "approved"}}
              /\ \A i, j \in DOMAIN names : i < j =>
                   /\ names[i] # names[j]
                   /\ FirstApproval(w, names[i]) <= FirstApproval(w, names[j])
    BY ApproversInOrder DEF Approved
  <2> QED
    BY <2>1, <2>2, <2>3 DEF TrailInOrder
<1>2. TrailInv /\ [WaiverStep \/ TrailStep]_waiverVars => TrailInv'
  BY TrailStepInv
<1> QED
  BY <1>1, <1>2, TrailInitially, PTL DEF WaiverSpec

=============================================================================
