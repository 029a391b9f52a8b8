----------------------------- MODULE Security_proofs -----------------------------
(***************************************************************************)
(* What holds for every corpus, every set of responses and every count of  *)
(* recurrences: type correctness, and from it, state by state, what the    *)
(* next enforcement decision can be.                                       *)
(***************************************************************************)
EXTENDS OvershareEnforcement, SiemIntegration, SecurityTriage,
        NumberFacts, FiniteSetTheorems, TLAPS

-----------------------------------------------------------------------------
(* The decision.                                                            *)

\* The action by score is the highest one that is warranted.
LEMMA ByScoreIsHighest ==
  ASSUME NEW incident, NEW prior, NEW n
  PROVE  /\ ByScore(incident, prior, n) \in 0..4
         /\ Warrants(ByScore(incident, prior, n), incident, prior, n)
         /\ \A j \in 0..4 : j > ByScore(incident, prior, n) => ~ Warrants(j, incident, prior, n)
<1> DEFINE W(i) == Warrants(i, incident, prior, n)
           Highest(i) == W(i) /\ \A j \in (i + 1)..4 : ~ W(j)
<1>1. W(0)
  BY DEF Warrants
<1>2. \E i \in 0..4 : Highest(i)
  <2> HIDE DEF W
  <2>1. CASE W(4)
    BY <2>1, 4 \in 0..4, \A j \in (4 + 1)..4 : FALSE
  <2>2. CASE ~ W(4) /\ W(3)
    BY <2>2, 3 \in 0..4, \A j \in (3 + 1)..4 : j = 4
  <2>3. CASE ~ W(4) /\ ~ W(3) /\ W(2)
    BY <2>3, 2 \in 0..4, \A j \in (2 + 1)..4 : j = 3 \/ j = 4
  <2>4. CASE ~ W(4) /\ ~ W(3) /\ ~ W(2) /\ W(1)
    BY <2>4, 1 \in 0..4, \A j \in (1 + 1)..4 : j = 2 \/ j = 3 \/ j = 4
  <2>5. CASE ~ W(4) /\ ~ W(3) /\ ~ W(2) /\ ~ W(1)
    BY <2>5, <1>1, 0 \in 0..4, \A j \in (0 + 1)..4 : j = 1 \/ j = 2 \/ j = 3 \/ j = 4
  <2> QED
    BY <2>1, <2>2, <2>3, <2>4, <2>5
<1>3. ByScore(incident, prior, n) = CHOOSE i \in 0..4 : Highest(i)
  BY DEF ByScore
<1>4. /\ ByScore(incident, prior, n) \in 0..4
      /\ Highest(ByScore(incident, prior, n))
  <2> HIDE DEF Highest
  <2> QED
    BY <1>2, <1>3
<1> HIDE DEF W
<1> QED
  <2>1. \A j \in 0..4 : j > ByScore(incident, prior, n) => j \in (ByScore(incident, prior, n) + 1)..4
    BY <1>4
  <2> QED
    BY <1>4, <2>1 DEF W

\* The decision is one of the five actions.
LEMMA DecisionInRange ==
  ASSUME NEW incident, NEW prior, NEW n
  PROVE  Decide(incident, prior, n) \in 0..4
<1> DEFINE i == ByScore(incident, prior, n)
<1>1. i \in 0..4
  BY ByScoreIsHighest
<1> HIDE DEF i
<1>2. Escalated(i, n) \in 0..4
  BY <1>1 DEF Escalated
<1> QED
  BY <1>2 DEF Decide, WithEvidence, i

\* The next state is the one its decision is mapped to.
LEMMA StateOfDecision ==
  ASSUME NEW incident, NEW n
  PROVE  LET i == Decide(incident, state, n) IN
         /\ NextState(incident, n) \in {"clear", "warned", "in_review", "throttled", "suspended"}
         /\ NextState(incident, n) = "clear" <=> i = 0
         /\ NextState(incident, n) \in {"in_review", "throttled", "suspended"} <=> i >= 2
         /\ NextState(incident, n) \in {"throttled", "suspended"} <=> i >= 3
         /\ NextState(incident, n) = "suspended" <=> i = 4
<1> DEFINE i == Decide(incident, state, n)
<1>1. i \in 0..4
  BY DecisionInRange
<1>2. NextState(incident, n) = ENFORCEMENT_STATES[i + 1]
  BY DEF NextState
<1> HIDE DEF i
<1>3. \/ i = 0 /\ NextState(incident, n) = "clear"
      \/ i = 1 /\ NextState(incident, n) = "warned"
      \/ i = 2 /\ NextState(incident, n) = "in_review"
      \/ i = 3 /\ NextState(incident, n) = "throttled"
      \/ i = 4 /\ NextState(incident, n) = "suspended"
  BY <1>1, <1>2 DEF ENFORCEMENT_STATES
<1> QED
  BY <1>3 DEF i

\* Without grave evidence no decision restricts a connector not suspended.
LEMMA NoEvidenceNoRestriction ==
  ASSUME NEW incident, NEW n, state # "suspended", ~ incident.grave
  PROVE  NextState(incident, n) \notin Restricted
<1>1. Decide(incident, state, n) <= 2
  <2> DEFINE e == Escalated(ByScore(incident, state, n), n)
  <2>1. e \in 0..4
    BY ByScoreIsHighest DEF Escalated
  <2>2. Decide(incident, state, n) = WithEvidence(e, incident)
    BY DEF Decide
  <2> HIDE DEF e
  <2> QED
    BY <2>1, <2>2 DEF WithEvidence
<1> QED
  BY <1>1, StateOfDecision, DecisionInRange DEF Restricted

\* A suspended connector is cleared by a score of zero and stays suspended by
\* any other, if every threshold asks for some score.
LEMMA SuspensionSticks ==
  ASSUME NEW incident, NEW n, state = "suspended", incident.score \in Nat,
         Policy.warning > 0, Policy.review > 0, Policy.throttle > 0, Policy.suspend > 0
  PROVE  /\ incident.score > 0 => NextState(incident, n) = "suspended"
         /\ incident.score = 0 => NextState(incident, n) = "clear"
<1>1. CASE incident.score > 0
  BY <1>1, StateOfDecision DEF Decide
<1>2. CASE incident.score = 0
  <2>1. /\ ~ Warrants(1, incident, state, n)
        /\ ~ Warrants(2, incident, state, n)
        /\ ~ Warrants(3, incident, state, n)
        /\ ~ Warrants(4, incident, state, n)
    <3>1. /\ Policy.warning \in Nat /\ Policy.review \in Nat
          /\ Policy.throttle \in Nat /\ Policy.suspend \in Nat
      BY PolicyAssumption
    <3>2. /\ ~ (incident.score >= Policy.warning) /\ ~ (incident.score >= Policy.review)
          /\ ~ (incident.score >= Policy.throttle) /\ ~ (incident.score >= Policy.suspend)
      BY <1>2, <3>1
    <3> QED
      BY <3>2 DEF Warrants
  <2>2. ByScore(incident, state, n) = 0
    BY <2>1, ByScoreIsHighest
  <2>3. Decide(incident, state, n) = 0
    BY <1>2, <2>2 DEF Decide, Escalated, WithEvidence
  <2> QED
    BY <1>2, <2>3, StateOfDecision
<1> QED
  BY <1>1, <1>2

-----------------------------------------------------------------------------
(* The scores.                                                              *)

\* A capped number is a number, no more than itself, and zero only if it is.
LEMMA CappedNumber ==
  ASSUME NEW k \in Nat, NEW cap \in Nat, cap > 0
  PROVE  /\ Lesser(k, cap) \in Nat
         /\ Lesser(k, cap) = 0 <=> k = 0
         /\ k <= cap => Lesser(k, cap) = k
         /\ k >= cap => Lesser(k, cap) = cap
BY DEF Lesser

\* The same for a count with a weight.
LEMMA WeighedCount ==
  ASSUME NEW k \in Nat, NEW w \in Nat, NEW cap \in Nat, w > 0, w <= cap
  PROVE  /\ Lesser(k * w, cap) \in Nat
         /\ Lesser(k * w, cap) = 0 <=> k = 0
         /\ k > 0 => Lesser(k * w, cap) >= w
<1>1. k * w \in Nat
  OBVIOUS
<1>2. k * w = 0 <=> k = 0
  OBVIOUS
<1>3. k > 0 => k * w >= w
  OBVIOUS
<1> QED
  BY <1>1, <1>2, <1>3 DEF Lesser

\* The sets an ingestion assessment counts are finite.
LEMMA CountedIngestion ==
  /\ IsFiniteSet(PiiDocs) /\ IsFiniteSet(DocsOf(PiiChunks)) /\ IsFiniteSet(AclMismatch)
  /\ IsFiniteSet(LostDeny) /\ IsFiniteSet(WrongLabel) /\ IsFiniteSet(StaleLabel)
<1>1. /\ PiiDocs \subseteq Docs /\ DocsOf(PiiChunks) \subseteq Docs
      /\ AclMismatch \subseteq Chunks /\ LostDeny \subseteq Chunks
      /\ WrongLabel \subseteq Chunks /\ StaleLabel \subseteq Chunks
  BY CorpusAssumption DEF PiiDocs, DocsOf, PiiChunks, Indexed, Orphans, Compared,
     AclMismatch, LostDeny, WrongLabel, StaleLabel
<1> QED
  BY <1>1, CorpusAssumption, FS_Subset

\* A lost deny entry is a mismatch, so the two weights add up.
LEMMA LostDenyMismatches == LostDeny \subseteq AclMismatch
BY DEF LostDeny, AclMismatch

\* An ingestion score is zero only if every count is, and a lost deny entry
\* alone makes 32 of it.
LEMMA IngestionScoreParts ==
  /\ IngestionScore \in Nat
  /\ IngestionScore = 0 =>
       /\ PiiDocs = {} /\ PiiChunks = {} /\ AclMismatch = {}
       /\ WrongLabel = {} /\ StaleLabel = {}
  /\ LostDeny # {} => IngestionScore >= 32
<1> DEFINE p == Cardinality(PiiDocs)
           i == Cardinality(DocsOf(PiiChunks))
           a == Cardinality(AclMismatch)
           l == Cardinality(LostDeny)
           w == Cardinality(WrongLabel)
           s == Cardinality(StaleLabel)
<1>1. /\ p \in Nat /\ i \in Nat /\ a \in Nat /\ l \in Nat /\ w \in Nat /\ s \in Nat
  BY CountedIngestion, FS_CardinalityType
<1>2. /\ p = 0 => PiiDocs = {}
      /\ i = 0 => DocsOf(PiiChunks) = {}
      /\ a = 0 => AclMismatch = {}
      /\ l = 0 => LostDeny = {}
      /\ w = 0 => WrongLabel = {}
      /\ s = 0 => StaleLabel = {}
  BY CountedIngestion, FS_EmptySet
<1>3. LostDeny # {} => l > 0 /\ a > 0
  BY <1>1, <1>2, LostDenyMismatches
<1>4. DocsOf(PiiChunks) = {} => PiiChunks = {}
  BY DEF DocsOf
<1> DEFINE P == Lesser(p * 8, 24)
           I == Lesser(i * 12, 24)
           A == Lesser(a * 14, 28)
           L == Lesser(l * 18, 36)
           W == Lesser(w * 10, 20)
           S == Lesser(s * 6, 12)
<1> HIDE DEF p, i, a, l, w, s
<1>5. /\ P \in Nat /\ (P = 0 <=> p = 0)
      /\ I \in Nat /\ (I = 0 <=> i = 0)
      /\ A \in Nat /\ (A = 0 <=> a = 0) /\ (a > 0 => A >= 14)
      /\ L \in Nat /\ (L = 0 <=> l = 0) /\ (l > 0 => L >= 18)
      /\ W \in Nat /\ (W = 0 <=> w = 0)
      /\ S \in Nat /\ (S = 0 <=> s = 0)
  BY <1>1, WeighedCount
<1>6. IngestionScore = Lesser(100, P + I + A + L + W + S)
  BY DEF IngestionScore, p, i, a, l, w, s
<1> HIDE DEF P, I, A, L, W, S
<1>7. /\ IngestionScore \in Nat
      /\ IngestionScore = 0 => P = 0 /\ I = 0 /\ A = 0 /\ L = 0 /\ W = 0 /\ S = 0
      /\ A >= 14 /\ L >= 18 => IngestionScore >= 32
  BY <1>5, <1>6 DEF Lesser
<1> QED
  BY <1>2, <1>3, <1>4, <1>5, <1>7

\* The sets a query assessment counts are finite.
LEMMA CountedQuery ==
  ASSUME NEW r \in Responses
  PROVE  /\ IsFiniteSet(Exposed(r)) /\ IsFiniteSet(FromDrifted(r)) /\ IsFiniteSet(Unenforced(r))
         /\ IsFiniteSet(Marked(r, "redacted")) /\ IsFiniteSet(Marked(r, "blocked"))
<1>1. r.hits \in Seq(Hit)
  BY ResponsesAssumption
<1>2. DOMAIN r.hits = 1..Len(r.hits) /\ Len(r.hits) \in Nat
  BY <1>1
<1>3. IsFiniteSet(DOMAIN r.hits)
  BY <1>2, FS_Interval
<1>4. /\ Exposed(r) \subseteq DOMAIN r.hits
      /\ FromDrifted(r) \subseteq DOMAIN r.hits
      /\ Unenforced(r) \subseteq DOMAIN r.hits
      /\ Marked(r, "redacted") \subseteq DOMAIN r.hits
      /\ Marked(r, "blocked") \subseteq DOMAIN r.hits
  BY DEF Exposed, Shown, FromDrifted, Unenforced, Marked
<1> QED
  BY <1>3, <1>4, FS_Subset

\* A query score is zero only if no personal data was found exposed and no hit
\* was redacted or blocked.
LEMMA QueryScoreParts ==
  ASSUME NEW r \in Responses
  PROVE  /\ QueryScore(r) \in Nat
         /\ QueryScore(r) = 0 =>
              /\ ~ ActualExposure(r)
              /\ Marked(r, "redacted") = {} /\ Marked(r, "blocked") = {}
<1> DEFINE e == Cardinality(Exposed(r))
           f == Cardinality(FromDrifted(r))
           u == Cardinality(Unenforced(r))
           m == Cardinality(Marked(r, "redacted"))
           b == Cardinality(Marked(r, "blocked"))
           n == Len(r.warnings)
<1>1. /\ e \in Nat /\ f \in Nat /\ u \in Nat /\ m \in Nat /\ b \in Nat /\ n \in Nat
  BY CountedQuery, FS_CardinalityType, ResponsesAssumption
<1>2. /\ e = 0 => Exposed(r) = {}
      /\ m = 0 => Marked(r, "redacted") = {}
      /\ b = 0 => Marked(r, "blocked") = {}
  BY CountedQuery, FS_EmptySet
<1> DEFINE A == IF r.answerPii THEN 30 ELSE 0
           E == Lesser(e * 20, 40)
           F == Lesser(f * 12, 24)
           U == Lesser(u * 8, 16)
           M == Lesser(m * 4, 8)
           B == Lesser(b * 2, 4)
           N == Lesser(n * 3, 6)
<1> HIDE DEF e, f, u, m, b, n
<1>3. /\ E \in Nat /\ (E = 0 <=> e = 0)
      /\ F \in Nat /\ U \in Nat /\ N \in Nat
      /\ M \in Nat /\ (M = 0 <=> m = 0)
      /\ B \in Nat /\ (B = 0 <=> b = 0)
  BY <1>1, WeighedCount
<1>4. A \in Nat /\ (A = 0 => ~ r.answerPii)
  OBVIOUS
<1>5. QueryScore(r) = Lesser(100, A + E + F + U + M + B + N)
  BY DEF QueryScore, e, f, u, m, b, n
<1> HIDE DEF A, E, F, U, M, B, N
<1>6. /\ QueryScore(r) \in Nat
      /\ QueryScore(r) = 0 => A = 0 /\ E = 0 /\ M = 0 /\ B = 0
  BY <1>3, <1>4, <1>5 DEF Lesser
<1> QED
  BY <1>2, <1>3, <1>4, <1>6 DEF ActualExposure

\* If any hit has personal data, the first such hit is a finding.
LEMMA FirstHitFinds ==
  ASSUME NEW r \in Responses, NEW i \in DOMAIN r.hits, index[r.hits[i].chunk].pii
  PROVE  \E j \in DOMAIN r.hits : Finds(r, j)
<1> DEFINE S == {k \in DOMAIN r.hits : index[r.hits[k].chunk].pii}
<1>1. /\ DOMAIN r.hits = 1..Len(r.hits)
      /\ Len(r.hits) \in Nat
  BY ResponsesAssumption
<1>2. S \in SUBSET Nat /\ i \in S
  BY <1>1
<1>3. PICK j \in S : \A k \in S : j <= k
  BY <1>2, LeastNat
<1>4. j \in 1..Len(r.hits)
  BY <1>1, <1>3
<1>5. \A k \in 1..(j - 1) : k \in 1..Len(r.hits) /\ ~ (j <= k)
  BY <1>1, <1>4
<1>6. \A k \in 1..(j - 1) : ~ index[r.hits[k].chunk].pii
  BY <1>1, <1>3, <1>5
<1>7. Finds(r, j)
  BY <1>3, <1>6 DEF Finds
<1> QED
  BY <1>3, <1>7

-----------------------------------------------------------------------------
(* Type correctness.                                                        *)

\* The findings of an ingestion assessment are documents.
LEMMA DriftedAreDocs ==
  DocsOf(AclMismatch \union LostDeny \union WrongLabel \union StaleLabel) \subseteq Docs
BY CorpusAssumption DEF DocsOf, AclMismatch, LostDeny, WrongLabel, StaleLabel, Compared, Indexed

\* A new label date leaves the index well-typed.
LEMMA RestampedType ==
  ASSUME TypeOK, NEW d \in Docs, NEW kept \in SUBSET Chunks
  PROVE  Restamped(d, kept) \in [Chunks -> IndexedEnvelope \union {NotIndexed}]
<1>1. SUFFICES ASSUME NEW c \in Chunks
               PROVE  Restamped(d, kept)[c] \in IndexedEnvelope \union {NotIndexed}
  BY DEF Restamped
<1>2. CASE c \in Indexed /\ DocOf[c] = d
  <2>1. index[c] \in IndexedEnvelope
    BY <1>2 DEF TypeOK, Indexed
  <2>2. [index[c] EXCEPT !.fresh = c \in kept] \in IndexedEnvelope
    <3>1. \A b \in BOOLEAN : [index[c] EXCEPT !.fresh = b] \in IndexedEnvelope
      BY <2>1 DEF IndexedEnvelope
    <3>2. (c \in kept) \in BOOLEAN
      OBVIOUS
    <3> QED
      BY <3>1, <3>2, Zenon
  <2> QED
    BY <1>2, <2>2 DEF Restamped
<1>3. CASE ~ (c \in Indexed /\ DocOf[c] = d)
  BY <1>3 DEF Restamped, TypeOK
<1> QED
  BY <1>2, <1>3

\* Every step keeps the types.
LEMMA TypeStep == TypeOK /\ [Next]_vars => TypeOK'
<1> SUFFICES ASSUME TypeOK, [Next]_vars PROVE TypeOK'
  OBVIOUS
<1>1. ASSUME NEW d \in Docs, NEW envelope \in Envelope, NEW kept \in SUBSET Chunks,
             Publish(d, envelope, kept)
      PROVE  TypeOK'
  BY <1>1, RestampedType DEF Publish, TypeOK
<1>2. ASSUME NEW d \in Docs, NEW acl \in Acls, Protect(d, acl)
      PROVE  TypeOK'
  <2>1. [source[d] EXCEPT !.acl = acl] \in Envelope
    BY <1>2 DEF Protect, TypeOK, Envelope
  <2> QED
    BY <1>2, <2>1 DEF Protect, TypeOK
<1>3. ASSUME NEW d \in Docs, NEW label \in Labels, NEW kept \in SUBSET Chunks,
             Relabel(d, label, kept)
      PROVE  TypeOK'
  <2>1. [source[d] EXCEPT !.label = label] \in Envelope
    BY <1>3 DEF Relabel, TypeOK, Envelope
  <2> QED
    BY <1>3, <2>1, RestampedType DEF Relabel, TypeOK
<1>4. ASSUME NEW d \in Docs, Rewrite(d)
      PROVE  TypeOK'
  <2>1. [source[d] EXCEPT !.pii = ~ @] \in Envelope
    BY <1>4 DEF Rewrite, TypeOK, Envelope
  <2> QED
    BY <1>4, <2>1 DEF Rewrite, TypeOK
<1>5. ASSUME NEW d \in Docs, Remove(d)
      PROVE  TypeOK'
  BY <1>5 DEF Remove, TypeOK
<1>6. ASSUME NEW c \in Chunks, IndexChunk(c)
      PROVE  TypeOK'
  <2>1. source[DocOf[c]] \in Envelope
    BY <1>6, CorpusAssumption DEF IndexChunk, TypeOK
  <2>2. [acl |-> source[DocOf[c]].acl, label |-> source[DocOf[c]].label,
         pii |-> source[DocOf[c]].pii, fresh |-> TRUE] \in IndexedEnvelope
    BY <2>1 DEF Envelope, IndexedEnvelope
  <2> QED
    BY <1>6, <2>2 DEF IndexChunk, TypeOK
<1>7. ASSUME NEW c \in Chunks, DropChunk(c)
      PROVE  TypeOK'
  BY <1>7 DEF DropChunk, TypeOK
<1>8. ASSUME NEW n \in Recurrences, AssessIngestion(n)
      PROVE  TypeOK'
  BY <1>8, DriftedAreDocs, StateOfDecision DEF AssessIngestion, TypeOK, corpus
<1>9. ASSUME NEW n \in Recurrences, NEW r \in Possible, AssessQuery(r, n)
      PROVE  TypeOK'
  BY <1>9, StateOfDecision DEF AssessQuery, TypeOK, corpus
<1>10. CASE UNCHANGED vars
  BY <1>10 DEF vars, TypeOK
<1> QED
  BY <1>1, <1>2, <1>3, <1>4, <1>5, <1>6, <1>7, <1>8, <1>9, <1>10 DEF Next

\* Type correctness for any corpus, responses and policy.
THEOREM TypeCorrect == Spec => []TypeOK
<1>1. Init => TypeOK
  BY DEF Init, TypeOK
<1> QED
  BY <1>1, TypeStep, PTL DEF Spec

-----------------------------------------------------------------------------
(* What the next decision can be, in any well-typed state.                  *)

\* Incidents have numbers for scores.
LEMMA IncidentScores ==
  /\ IngestionIncident.score = IngestionScore /\ IngestionIncident.score \in Nat
  /\ \A r \in Responses : /\ QueryIncident(r).score = QueryScore(r)
                          /\ QueryIncident(r).score \in Nat
BY IngestionScoreParts, QueryScoreParts DEF IngestionIncident, QueryIncident

\* A connector not suspended is restricted only for a lost deny entry, found or
\* told by the service, or for personal data an answer surfaced.
LEMMA RestrictionNeedsCause == NoGroundlessThrottle
<1> SUFFICES ASSUME state # "suspended", NEW n \in Recurrences
             PROVE  /\ NextState(IngestionIncident, n) \in Restricted => LostDeny # {}
                    /\ \A r \in Possible :
                         NextState(QueryIncident(r), n) \in Restricted => Surfaced(r) \/ SaysDenyLost(r)
  BY DEF NoGroundlessThrottle
<1>1. NextState(IngestionIncident, n) \in Restricted => LostDeny # {}
  <2>1. IngestionIncident.grave <=> LostDeny # {}
    BY DEF IngestionIncident
  <2> QED
    BY <2>1, NoEvidenceNoRestriction
<1>2. ASSUME NEW r \in Possible, NextState(QueryIncident(r), n) \in Restricted
      PROVE  Surfaced(r) \/ SaysDenyLost(r)
  <2>1. QueryIncident(r).grave <=> ActualExposure(r) \/ SaysDenyLost(r)
    BY DEF QueryIncident
  <2>2. ActualExposure(r) \/ SaysDenyLost(r)
    BY <1>2, <2>1, NoEvidenceNoRestriction
  <2> QED
    BY <2>2 DEF ActualExposure, Exposed, Finds, Surfaced
<1> QED
  BY <1>1, <1>2

\* A connector neither throttled nor suspended is not suspended without a
\* recurring incident, if the policy asks for one.
LEMMA FirstOffenceIsWarned ==
  ASSUME Policy.recurrence > 0
  PROVE  FirstOffenceNotSuspended
<1>1. ASSUME NEW incident, state \notin Restricted
      PROVE  NextState(incident, 0) # "suspended"
  <2> DEFINE i == ByScore(incident, state, 0)
  <2>1. ~ Warrants(4, incident, state, 0)
    <3>1. ~ (0 >= Policy.recurrence)
      BY PolicyAssumption
    <3> QED
      BY <1>1, <3>1 DEF Warrants, Restricted
  <2>2. i \in 0..3
    BY <2>1, ByScoreIsHighest
  <2>3. Decide(incident, state, 0) # 4
    BY <1>1, <2>2 DEF Decide, Escalated, WithEvidence, Restricted
  <2> QED
    BY <2>3, StateOfDecision
<1> QED
  BY <1>1 DEF FirstOffenceNotSuspended

\* With the default thresholds a lost deny entry is at least reviewed.
LEMMA LostDenyGoesToReview ==
  ASSUME Policy = DefaultPolicy
  PROVE  DenyLossReviewed
<1> SUFFICES ASSUME LostDeny # {}, NEW n \in Recurrences
             PROVE  NextState(IngestionIncident, n) \in {"in_review"} \union Restricted
  BY DEF DenyLossReviewed
<1> DEFINE i == ByScore(IngestionIncident, state, n)
<1>1. IngestionIncident.score >= 32 /\ IngestionIncident.grave
  BY IngestionScoreParts, IncidentScores DEF IngestionIncident
<1>2. Warrants(2, IngestionIncident, state, n)
  <2>1. Policy.review = 30
    BY DEF DefaultPolicy
  <2> QED
    BY <1>1, <2>1, IncidentScores DEF Warrants
<1>3. i \in 0..4 /\ i >= 2
  BY <1>2, ByScoreIsHighest
<1> HIDE DEF i
<1>4. Escalated(i, n) \in 2..4
  BY <1>3 DEF Escalated
<1>5. Decide(IngestionIncident, state, n) >= 2
  BY <1>1, <1>4 DEF Decide, WithEvidence, i
<1> QED
  BY <1>5, StateOfDecision DEF Restricted

\* Next to no redacted or blocked hit, exposure is what was surfaced.
LEMMA ShownExposureIsReported == SurfacedIsReported
<1> SUFFICES ASSUME NEW r \in Possible, Shown(r) = DOMAIN r.hits
             PROVE  ActualExposure(r) <=> Surfaced(r)
  BY DEF SurfacedIsReported
<1>0. r \in Responses
  BY DEF Possible
<1>1. ASSUME NEW i \in Shown(r), index[r.hits[i].chunk].pii
      PROVE  Exposed(r) # {}
  <2>1. PICK j \in DOMAIN r.hits : Finds(r, j)
    BY <1>0, <1>1, FirstHitFinds
  <2> QED
    BY <2>1 DEF Exposed
<1> QED
  BY <1>1 DEF ActualExposure, Surfaced, Exposed, Finds

\* A suspension is lifted only by an index in agreement with its sources and
\* free of personal data, or by an answer that surfaced none.
LEMMA LiftingNeedsCleanIndex ==
  ASSUME Policy.warning > 0, Policy.review > 0, Policy.throttle > 0, Policy.suspend > 0
  PROVE  LiftedOnlyClean
<1> SUFFICES ASSUME state = "suspended", NEW n \in Recurrences
             PROVE  /\ NextState(IngestionIncident, n) # "suspended" => InSync
                    /\ \A r \in Possible :
                         NextState(QueryIncident(r), n) # "suspended" => ~ Surfaced(r)
  BY DEF LiftedOnlyClean
<1>1. ASSUME NextState(IngestionIncident, n) # "suspended"
      PROVE  InSync
  <2>1. IngestionScore = 0
    BY <1>1, SuspensionSticks, IncidentScores
  <2>2. /\ PiiDocs = {} /\ PiiChunks = {}
        /\ AclMismatch = {} /\ WrongLabel = {} /\ StaleLabel = {}
    BY <2>1, IngestionScoreParts
  <2> QED
    BY <2>2 DEF InSync, AclMismatch, WrongLabel, StaleLabel
<1>2. ASSUME NEW r \in Possible, NextState(QueryIncident(r), n) # "suspended"
      PROVE  ~ Surfaced(r)
  <2>0. r \in Responses
    BY DEF Possible
  <2>1. QueryScore(r) = 0
    BY <1>2, <2>0, SuspensionSticks, IncidentScores
  <2>2. /\ ~ ActualExposure(r)
        /\ Marked(r, "redacted") = {} /\ Marked(r, "blocked") = {}
    BY <2>0, <2>1, QueryScoreParts
  <2>3. Shown(r) = DOMAIN r.hits
    <3>1. r.hits \in Seq(Hit)
      BY <2>0, ResponsesAssumption
    <3>2. \A i \in DOMAIN r.hits : r.hits[i] \in Hit
      BY <3>1
    <3>3. \A i \in DOMAIN r.hits : r.hits[i].marks \subseteq {"redacted", "blocked"}
      BY <3>2 DEF Hit
    <3> QED
      BY <2>2, <3>3 DEF Marked, Shown
  <2> QED
    BY <2>2, <2>3, ShownExposureIsReported DEF SurfacedIsReported
<1> QED
  BY <1>1, <1>2

\* A step leaves a suspension in force or lifts it altogether.
THEOREM SuspensionNotWeakened ==
  ASSUME Policy.warning > 0, Policy.review > 0, Policy.throttle > 0, Policy.suspend > 0
  PROVE  Spec => SuspensionStands
<1>1. ASSUME state = "suspended", [Next]_vars
      PROVE  state' \in {"suspended", "clear"}
  <2>1. ASSUME NEW incident, NEW n, incident.score \in Nat
        PROVE  NextState(incident, n) \in {"suspended", "clear"}
    <3>1. incident.score > 0 \/ incident.score = 0
      BY <2>1
    <3> QED
      BY <1>1, <2>1, <3>1, SuspensionSticks
  <2>2. ASSUME NEW n \in Recurrences, AssessIngestion(n)
        PROVE  state' \in {"suspended", "clear"}
    BY <2>1, <2>2, IncidentScores DEF AssessIngestion
  <2>3. ASSUME NEW n \in Recurrences, NEW r \in Possible, AssessQuery(r, n)
        PROVE  state' \in {"suspended", "clear"}
    BY <2>1, <2>3, IncidentScores DEF AssessQuery, Possible
  <2>4. CASE UNCHANGED state
    BY <1>1, <2>4
  <2> QED
    BY <1>1, <2>2, <2>3, <2>4
    DEF Next, Publish, Protect, Relabel, Rewrite, Remove, IndexChunk, DropChunk, vars
<1> QED
  BY <1>1, PTL DEF Spec, SuspensionStands

-----------------------------------------------------------------------------
(* The same, of every behaviour.                                            *)

\* No run restricts a connector without a lost deny entry, found in the index or
\* told in a warning of the service, or surfaced data.
THEOREM NoRestrictionWithoutCause == Spec => []NoGroundlessThrottle
BY RestrictionNeedsCause, PTL

\* No run suspends a connector at its first offence.
THEOREM FirstOffenceWarned ==
  ASSUME Policy.recurrence > 0
  PROVE  Spec => []FirstOffenceNotSuspended
BY FirstOffenceIsWarned, PTL

\* In every run a lost deny entry leads to a review or more.
THEOREM LostDenyIsReviewed ==
  ASSUME Policy = DefaultPolicy
  PROVE  Spec => []DenyLossReviewed
BY LostDenyGoesToReview, PTL

\* In every run exposure is reported as surfaced where no hit is withheld.
THEOREM ShownIsReported == Spec => []SurfacedIsReported
BY ShownExposureIsReported, PTL

\* In every run a suspension is lifted only in a clean state.
THEOREM LiftedClean ==
  ASSUME Policy.warning > 0, Policy.review > 0, Policy.throttle > 0, Policy.suspend > 0
  PROVE  Spec => []LiftedOnlyClean
BY LiftingNeedsCleanIndex, PTL

-----------------------------------------------------------------------------
(* Decisions on their way to the SIEM.                                      *)

SeverityNames == {"low", "medium", "high", "critical"}

\* An event as the three builders make it.
Made(event) ==
  \/ \E request \in Requests : \E conditions, controls, at :
       event = GovernanceDecisionSiemEvent(request, EvaluateGovernanceRequest(request, conditions),
                                           controls, at)
  \/ \E a \in Assessments : event = OvershareIncidentSiemEvent(a)
  \/ \E a \in Assessments, d \in Enforcements :
       event = OvershareEnforcementSiemEvent(a, d.prior, d.recurred, d.action)

\* What goes live was found ready, decisions are made only then, and the SIEM
\* holds nothing but their events.
SiemInv ==
  /\ decided # {} => setup # NotLive
  /\ setup # NotLive =>
       /\ setup.samples \in Samples
       /\ RegistrationOk(setup.connector) /\ RoutingPlanOk(setup.plan)
       /\ SiemReady(setup.connector, setup.plan, setup.samples)
  /\ \A event \in decided : Made(event)
  /\ soc \subseteq decided

LEMMA SiemInitially == SiemInit => SiemInv
  BY DEF SiemInit, SiemInv

LEMMA DecisionKeepsSiem ==
  ASSUME SiemInv, NEW event, Made(event), Decides(event)
  PROVE  SiemInv'
  BY DEF Decides, SiemInv, Made

LEMMA SiemKeepsInv == SiemInv /\ [SiemStep]_siemVars => SiemInv'
<1> SUFFICES ASSUME SiemInv, [SiemStep]_siemVars PROVE SiemInv'
  OBVIOUS
<1>1. ASSUME UNCHANGED <<setup, decided, soc>> PROVE SiemInv'
  BY <1>1 DEF SiemInv, Made
<1>2. ASSUME NEW c \in Connectors, NEW p \in Plans, NEW s \in Samples, GoLive(c, p, s) PROVE SiemInv'
  BY <1>2 DEF GoLive, SiemInv, Made
<1>3. ASSUME NEW r \in Requests, Evaluate(r) PROVE SiemInv'
  BY <1>3, DecisionKeepsSiem DEF Evaluate, Made
<1>4. ASSUME NEW a \in Assessments, ReportAssessment(a) PROVE SiemInv'
  BY <1>4, DecisionKeepsSiem DEF ReportAssessment, Made
<1>5. ASSUME NEW a \in Assessments, NEW d \in Enforcements,
             ReportEnforcement(a, d.prior, d.recurred, d.action)
      PROVE  SiemInv'
  BY <1>5, DecisionKeepsSiem DEF ReportEnforcement, Made
<1>6. ASSUME NEW e \in decided, Forward(e) PROVE SiemInv'
  BY <1>6 DEF Forward, SiemInv, Made
<1>7. CASE (\E c \in Losable : ConditionChanges(c)) \/ InstantPasses \/ UNCHANGED siemVars
  BY <1>1, <1>7 DEF ConditionChanges, InstantPasses, siemVars
<1> QED
  BY <1>2, <1>3, <1>4, <1>5, <1>6, <1>7 DEF SiemStep

\* A minimum that a severity reaches is reached by every greater one.
LEMMA AtLeastTransitive ==
  ASSUME NEW a \in SeverityNames, NEW b \in SeverityNames, NEW c \in SeverityNames,
         AtLeast(a, b), AtLeast(b, c)
  PROVE  AtLeast(a, c)
<1>1. \A s \in SeverityNames : SEVERITY_RANK[s] \in Nat
  BY DEF SEVERITY_RANK, SeverityNames
<1> QED
  BY <1>1 DEF AtLeast

\* The severity of an event is of the contract, and the playbook it recommends is
\* made for it.
LEMMA MadeEvents ==
  ASSUME NEW event, Made(event)
  PROVE  event.severity \in SeverityNames /\ PlaybookSupports(event.playbook, event)
<1> USE DEF Event, PlaybookSupports, Playbook, SeverityNames, SIEM_EVENT_KINDS
<1>1. ASSUME NEW r \in Requests, NEW x, NEW k, NEW t,
             event = GovernanceDecisionSiemEvent(r, EvaluateGovernanceRequest(r, x), k, t)
      PROVE  event.severity \in SeverityNames /\ PlaybookSupports(event.playbook, event)
  <2>1. EvaluateGovernanceRequest(r, x) \in {"allow", "deny", "require_approval"}
    BY DEF EvaluateGovernanceRequest
  <2> QED
    BY <1>1, <2>1 DEF GovernanceDecisionSiemEvent, SeverityOfDecision
<1>2. ASSUME NEW a \in Assessments, event = OvershareIncidentSiemEvent(a)
      PROVE  event.severity \in SeverityNames /\ PlaybookSupports(event.playbook, event)
  BY <1>2, AssessmentAssumption DEF OvershareIncidentSiemEvent
<1>3. ASSUME NEW a \in Assessments, NEW d \in Enforcements,
             event = OvershareEnforcementSiemEvent(a, d.prior, d.recurred, d.action)
      PROVE  event.severity \in SeverityNames /\ PlaybookSupports(event.playbook, event)
  BY <1>3, EnforcementAssumption DEF OvershareEnforcementSiemEvent, SeverityOfAction
<1> QED
  BY <1>1, <1>2, <1>3 DEF Made

\* An event's id tells its outcome: ids of different kinds differ in length.
LEMMA IdTellsOutcome ==
  ASSUME NEW held, NEW event, Made(held), Made(event), held.id = event.id
  PROVE  SameOutcome(held, event)
<1> DEFINE Governance(e) == \E r \in Requests : \E x, k, t :
             e = GovernanceDecisionSiemEvent(r, EvaluateGovernanceRequest(r, x), k, t)
           Incident(e) == \E a \in Assessments : e = OvershareIncidentSiemEvent(a)
           Enforcement(e) == \E a \in Assessments, d \in Enforcements :
             e = OvershareEnforcementSiemEvent(a, d.prior, d.recurred, d.action)
<1>1. \A e : Governance(e) =>
        /\ e.kind = "governance-decision" /\ Len(e.id) = 5
        /\ e.outcome = e.id[4] /\ e.severity = SeverityOfDecision(e.outcome)
        /\ e.delivery = IF e.outcome # "allow" THEN "incident" ELSE "audit"
  BY DEF GovernanceDecisionSiemEvent, GovernanceDecisionId, Event
<1>2. \A e : Incident(e) =>
        /\ e.kind = "overshare-incident" /\ Len(e.id) = 4
        /\ e.outcome = e.id[4] /\ e.severity = e.id[3]
        /\ e.delivery = IF AtLeast(e.severity, "medium") \/ e.outcome = "exposed"
                        THEN "incident" ELSE "audit"
  BY DEF OvershareIncidentSiemEvent, Event
<1>3. \A e : Enforcement(e) =>
        /\ e.kind = "overshare-enforcement" /\ Len(e.id) = 3
        /\ e.outcome = e.id[3] /\ e.severity = SeverityOfAction(e.outcome)
        /\ e.delivery = IF e.outcome \notin {"allow", "warn"} THEN "incident" ELSE "audit"
  BY DEF OvershareEnforcementSiemEvent, Event
<1>4. \A e \in {held, event} : Governance(e) \/ Incident(e) \/ Enforcement(e)
  BY DEF Made
<1> HIDE DEF Governance, Incident, Enforcement
<1>5. \/ Governance(held) /\ Governance(event)
      \/ Incident(held) /\ Incident(event)
      \/ Enforcement(held) /\ Enforcement(event)
  BY <1>1, <1>2, <1>3, <1>4
<1> QED
  BY <1>1, <1>2, <1>3, <1>5 DEF SameOutcome

\* Routes tell two events apart only by kind, delivery, outcome and severity.
LEMMA SameRoute ==
  ASSUME NEW plan, NEW a, NEW b, a.kind = b.kind, a.delivery = b.delivery,
         a.outcome = b.outcome, a.severity = b.severity
  PROVE  ResolveSiemRoute(plan, a) = ResolveSiemRoute(plan, b)
<1>1. \A route : Takes(route, a) <=> Takes(route, b)
  BY DEF Takes
<1> QED
  BY <1>1 DEF ResolveSiemRoute

LEMMA SamplesCover ==
  ASSUME SiemInv, setup # NotLive, NEW event, Made(event),
         NEW sample \in setup.samples, SpeaksFor(sample, event)
  PROVE  /\ Passes(setup.connector, event) /\ Routed(setup.plan, event)
         /\ sample.severity = event.severity => Covered(setup.connector, setup.plan, event)
<1> DEFINE connector == setup.connector  plan == setup.plan
<1>1. event.severity \in SeverityNames /\ sample.severity \in SeverityNames
  BY MadeEvents, SampleAssumption DEF SiemInv, SeverityNames
<1>2. Covered(connector, plan, sample)
  BY DEF SiemInv, SiemReady
<1>3. connector.minimum \in SeverityNames /\ \A i \in DOMAIN plan : plan[i].minimum \in SeverityNames
  BY DEF SiemInv, RegistrationOk, RoutingPlanOk, RouteOk, SEVERITY_RANK, SeverityNames
<1>4. \A m \in SeverityNames : AtLeast(sample.severity, m) => AtLeast(event.severity, m)
  BY <1>1, AtLeastTransitive DEF SpeaksFor
<1>5. Passes(connector, event)
  BY <1>2, <1>3, <1>4 DEF Covered, Passes, SpeaksFor
<1>6. Routed(plan, event)
  BY <1>2, <1>3, <1>4 DEF Covered, Routed, Takes, SpeaksFor
<1>7. ASSUME sample.severity = event.severity PROVE Covered(connector, plan, event)
  <2>1. ResolveSiemRoute(plan, event) = ResolveSiemRoute(plan, sample)
    BY <1>7, SameRoute DEF SpeaksFor
  <2> QED
    BY <1>2, <1>5, <1>6, <2>1 DEF Covered, PlaybookSupports, SpeaksFor
<1> QED
  BY <1>5, <1>6, <1>7

\* For any connectors, plans, samples, requests and assessments: what the readiness
\* check of the routing promises of a decision holds of it however it is made and
\* delivered, and no other decision's event stands in for it.
\* (buildSiemReadiness, resolveSiemRoute, the three builders of events)
THEOREM DecisionsDelivered == SiemSpec => []DecisionsReachTheSoc
<1>1. SiemInv => DecisionsReachTheSoc
  <2> SUFFICES ASSUME SiemInv, NEW event \in decided
               PROVE  /\ \A sample \in setup.samples : SpeaksFor(sample, event) =>
                           /\ Passes(setup.connector, event) /\ Routed(setup.plan, event)
                           /\ sample.severity = event.severity =>
                                Covered(setup.connector, setup.plan, event)
                      /\ PlaybookSupports(event.playbook, event)
                      /\ \A held \in soc : held.id = event.id => SameOutcome(held, event)
    BY DEF DecisionsReachTheSoc
  <2>1. setup # NotLive /\ Made(event) /\ \A held \in soc : Made(held)
    BY DEF SiemInv
  <2> QED
    BY <2>1, SamplesCover, MadeEvents, IdTellsOutcome
<1> QED
  BY <1>1, SiemInitially, SiemKeepsInv, PTL DEF SiemSpec

\* For any requests: a condition that is lost never makes the answer to a request
\* milder; a missing ticket does not turn a denial into a call for approval.
\* (evaluateGovernanceRequest)
THEOREM LostConditionNeverMilder == SiemSpec => [][RequestsNeverMilder]_siemVars
<1>1. ASSUME NEW r, NEW more, NEW less, less \subseteq more
      PROVE  Strictness(EvaluateGovernanceRequest(r, less)) >=
               Strictness(EvaluateGovernanceRequest(r, more))
  BY <1>1 DEF Strictness, EvaluateGovernanceRequest
<1>2. [SiemStep]_siemVars => [RequestsNeverMilder]_siemVars
  BY <1>1 DEF RequestsNeverMilder
<1> QED
  BY <1>2, PTL DEF SiemSpec

-----------------------------------------------------------------------------
(* Cases of the triage.                                                     *)

LEMMA BandAscends ==
  ASSUME NEW s \in Int, NEW t \in Int, s <= t
  PROVE  Band(s) \in 1..4 /\ Band(t) \in 1..4 /\ Band(s) <= Band(t)
  BY DEF Band

LEMMA FifthAscends ==
  ASSUME NEW m \in Nat, NEW n \in Nat, m <= n
  PROVE  m \div 5 \in Nat /\ n \div 5 \in Nat /\ m \div 5 <= n \div 5
  OBVIOUS

LEMMA CapAscends ==
  ASSUME NEW m \in Int, NEW n \in Int, m <= n, NEW cap \in Int
  PROVE  AtMost(m, cap) \in Int /\ AtMost(n, cap) \in Int /\ AtMost(m, cap) <= AtMost(n, cap)
  BY DEF AtMost

\* The response of the third and the fourth band stops something.
LEMMA StopsByBand ==
  ASSUME NEW c, c.kind \in {"anomaly", "prompt"}, Gravity(c) \in 1..4
  PROVE  Stops(c) <=> Gravity(c) >= 3
<1>1. CASE c.kind = "anomaly"
  <2>1. Gravity(c) = Band(ScoreAccessAnomaly(c))
    BY <1>1 DEF Gravity
  <2>2. Stops(c) <=> MapAccessAnomalyResponse(c) \in {"contain", "revoke"}
    BY <1>1 DEF Stops
  <2> QED
    BY <2>1, <2>2 DEF MapAccessAnomalyResponse
<1>2. CASE c.kind = "prompt"
  <2>1. Gravity(c) = Band(ClassifyPromptInjectionRisk(c))
    BY <1>2 DEF Gravity
  <2>2. Stops(c) <=> BuildPromptInjectionContainment(c) \in {"block_and_review", "block_and_suspend"}
    BY <1>2 DEF Stops
  <2> QED
    BY <2>1, <2>2 DEF BuildPromptInjectionContainment
<1> QED
  BY <1>1, <1>2

LEMMA GraverAnomaly ==
  ASSUME NEW a \in Anomalies, NEW b \in Anomalies, b.type = a.type,
         a.signals <= b.signals, a.users <= b.users, a.repeats <= b.repeats,
         a.privileged => b.privileged
  PROVE  /\ Gravity(a) \in 1..4 /\ Gravity(b) \in 1..4 /\ Gravity(a) <= Gravity(b)
         /\ Stops(a) => Stops(b)
<1> DEFINE Sum(x) == ANOMALY_TYPE_WEIGHT[x.type] * 10 + AtMost(x.signals * 5, 25)
             + AtMost(x.users \div 5, 30) + AtMost(x.repeats * 3, 15) + Points(x.privileged, 10)
<1>1. /\ a.signals \in Nat /\ a.users \in Nat /\ a.repeats \in Nat /\ a.privileged \in BOOLEAN
      /\ b.signals \in Nat /\ b.users \in Nat /\ b.repeats \in Nat /\ b.privileged \in BOOLEAN
      /\ a.type \in DOMAIN ANOMALY_TYPE_WEIGHT /\ a.kind = "anomaly" /\ b.kind = "anomaly"
  BY CountsAssumption DEF Anomalies
<1>2. ANOMALY_TYPE_WEIGHT[a.type] \in Int
  BY <1>1 DEF ANOMALY_TYPE_WEIGHT
<1>3. /\ AtMost(a.signals * 5, 25) \in Int /\ AtMost(b.signals * 5, 25) \in Int
      /\ AtMost(a.signals * 5, 25) <= AtMost(b.signals * 5, 25)
  BY <1>1 DEF AtMost
<1>4. /\ AtMost(a.users \div 5, 30) \in Int /\ AtMost(b.users \div 5, 30) \in Int
      /\ AtMost(a.users \div 5, 30) <= AtMost(b.users \div 5, 30)
  <2>1. a.users \div 5 \in Nat /\ b.users \div 5 \in Nat /\ a.users \div 5 <= b.users \div 5
    BY <1>1, FifthAscends
  <2> QED
    BY <2>1 DEF AtMost
<1>5. /\ AtMost(a.repeats * 3, 15) \in Int /\ AtMost(b.repeats * 3, 15) \in Int
      /\ AtMost(a.repeats * 3, 15) <= AtMost(b.repeats * 3, 15)
  BY <1>1 DEF AtMost
<1>6. /\ Points(a.privileged, 10) \in Int /\ Points(b.privileged, 10) \in Int
      /\ Points(a.privileged, 10) <= Points(b.privileged, 10)
  BY <1>1 DEF Points
<1>7. Sum(a) \in Int /\ Sum(b) \in Int /\ Sum(a) <= Sum(b)
  BY <1>2, <1>3, <1>4, <1>5, <1>6
<1>8. \A x \in {a, b} : ScoreAccessAnomaly(x) = AtMost(Sum(x), 100)
  BY DEF ScoreAccessAnomaly
<1> HIDE DEF Sum
<1>9. /\ ScoreAccessAnomaly(a) \in Int /\ ScoreAccessAnomaly(b) \in Int
      /\ ScoreAccessAnomaly(a) <= ScoreAccessAnomaly(b)
  BY <1>7, <1>8, CapAscends
<1>10. Gravity(a) = Band(ScoreAccessAnomaly(a)) /\ Gravity(b) = Band(ScoreAccessAnomaly(b))
  BY <1>1 DEF Gravity
<1>11. Gravity(a) \in 1..4 /\ Gravity(b) \in 1..4 /\ Gravity(a) <= Gravity(b)
  BY <1>9, <1>10, BandAscends
<1> QED
  BY <1>1, <1>11, StopsByBand

LEMMA GraverPrompt ==
  ASSUME NEW a \in Prompts, NEW b \in Prompts, a.hits <= b.hits, a.signs \subseteq b.signs
  PROVE  /\ Gravity(a) \in 1..4 /\ Gravity(b) \in 1..4 /\ Gravity(a) <= Gravity(b)
         /\ Stops(a) => Stops(b)
<1>1. a.hits \in Nat /\ b.hits \in Nat /\ a.kind = "prompt" /\ b.kind = "prompt"
  BY CountsAssumption DEF Prompts
<1>2. /\ AtMost(a.hits * 12, 40) \in Int /\ AtMost(b.hits * 12, 40) \in Int
      /\ AtMost(a.hits * 12, 40) <= AtMost(b.hits * 12, 40)
  BY <1>1 DEF AtMost
<1>3. \A sign \in SIGNS, n \in Nat :
        /\ Points(sign \in a.signs, n) \in Int /\ Points(sign \in b.signs, n) \in Int
        /\ Points(sign \in a.signs, n) <= Points(sign \in b.signs, n)
  BY DEF Points
<1> DEFINE Sum(x) == AtMost(x.hits * 12, 40) + Points("credential" \in x.signs, 25)
             + Points("escalation" \in x.signs, 20) + Points("sensitive" \in x.signs, 10)
             + Points("long" \in x.signs, 5)
<1>4. Sum(a) \in Int /\ Sum(b) \in Int /\ Sum(a) <= Sum(b)
  <2>1. \A sign \in {"credential", "escalation", "sensitive", "long"} : sign \in SIGNS
    BY DEF SIGNS
  <2>2. /\ Points("credential" \in a.signs, 25) \in Int /\ Points("credential" \in b.signs, 25) \in Int
        /\ Points("credential" \in a.signs, 25) <= Points("credential" \in b.signs, 25)
    BY <1>3, <2>1
  <2>3. /\ Points("escalation" \in a.signs, 20) \in Int /\ Points("escalation" \in b.signs, 20) \in Int
        /\ Points("escalation" \in a.signs, 20) <= Points("escalation" \in b.signs, 20)
    BY <1>3, <2>1
  <2>4. /\ Points("sensitive" \in a.signs, 10) \in Int /\ Points("sensitive" \in b.signs, 10) \in Int
        /\ Points("sensitive" \in a.signs, 10) <= Points("sensitive" \in b.signs, 10)
    BY <1>3, <2>1
  <2>5. /\ Points("long" \in a.signs, 5) \in Int /\ Points("long" \in b.signs, 5) \in Int
        /\ Points("long" \in a.signs, 5) <= Points("long" \in b.signs, 5)
    BY <1>3, <2>1
  <2> QED
    BY <1>2, <2>2, <2>3, <2>4, <2>5
<1>5. \A x \in {a, b} : ClassifyPromptInjectionRisk(x) = AtMost(Sum(x), 100)
  BY DEF ClassifyPromptInjectionRisk
<1> HIDE DEF Sum
<1>6. /\ ClassifyPromptInjectionRisk(a) \in Int /\ ClassifyPromptInjectionRisk(b) \in Int
      /\ ClassifyPromptInjectionRisk(a) <= ClassifyPromptInjectionRisk(b)
  BY <1>4, <1>5, CapAscends
<1>7. /\ Gravity(a) = Band(ClassifyPromptInjectionRisk(a))
      /\ Gravity(b) = Band(ClassifyPromptInjectionRisk(b))
  BY <1>1 DEF Gravity
<1>8. Gravity(a) \in 1..4 /\ Gravity(b) \in 1..4 /\ Gravity(a) <= Gravity(b)
  BY <1>6, <1>7, BandAscends
<1> QED
  BY <1>1, <1>8, StopsByBand

LEMMA FiniteIndexes ==
  IsFiniteSet((DOMAIN DATA_SENSITIVITY_WEIGHT) \X (1..3))
<1> DEFINE One == {} \union {"confidential"}
           Two == One \union {"restricted"}
           Three == Two \union {"internal"}
           Four == Three \union {"public"}
<1>1. DOMAIN DATA_SENSITIVITY_WEIGHT = Four
  BY DEF DATA_SENSITIVITY_WEIGHT
<1>2. IsFiniteSet(One)
  BY FS_EmptySet, FS_AddElement
<1> HIDE DEF One
<1>3. IsFiniteSet(Two)
  BY <1>2, FS_AddElement
<1> HIDE DEF Two
<1>4. IsFiniteSet(Three)
  BY <1>3, FS_AddElement
<1> HIDE DEF Three
<1>5. IsFiniteSet(Four)
  BY <1>4, FS_AddElement
<1> HIDE DEF Four
<1>6. IsFiniteSet(DOMAIN DATA_SENSITIVITY_WEIGHT)
  BY <1>1, <1>5
<1>7. IsFiniteSet(1..3)
  <2> DEFINE first == 1  last == 3
  <2>1. first \in Int /\ last \in Int
    OBVIOUS
  <2>2. IsFiniteSet(first..last)
    <3> HIDE DEF first, last
    <3> QED
      BY <2>1, FS_Interval
  <2> QED
    BY <2>2
<1> QED
  BY <1>6, <1>7, FS_Product

\* More classifications weigh no less.
LEMMA SensitivityAscends ==
  ASSUME NEW a \in SUBSET DOMAIN DATA_SENSITIVITY_WEIGHT,
         NEW b \in SUBSET DOMAIN DATA_SENSITIVITY_WEIGHT, a \subseteq b
  PROVE  Sensitivity(a) \in Nat /\ Sensitivity(b) \in Nat /\ Sensitivity(a) <= Sensitivity(b)
<1> DEFINE S(classes) == {w \in classes \X (1..3) : w[2] <= DATA_SENSITIVITY_WEIGHT[w[1]]}
<1>1. S(b) \subseteq (DOMAIN DATA_SENSITIVITY_WEIGHT) \X (1..3) /\ S(a) \subseteq S(b)
  OBVIOUS
<1>2. Sensitivity(a) = Cardinality(S(a)) /\ Sensitivity(b) = Cardinality(S(b))
  BY DEF Sensitivity
<1> HIDE DEF S
<1>3. IsFiniteSet(S(b)) /\ IsFiniteSet(S(a))
  BY <1>1, FiniteIndexes, FS_Subset
<1>4. Cardinality(S(a)) \in Nat /\ Cardinality(S(b)) \in Nat /\ Cardinality(S(a)) <= Cardinality(S(b))
  BY <1>1, <1>3, FS_Subset, FS_CardinalityType
<1> QED
  BY <1>2, <1>4

LEMMA GraverIncident ==
  ASSUME NEW a \in Incidents, NEW b \in Incidents,
         SEVERITY_WEIGHT[a.severity] <= SEVERITY_WEIGHT[b.severity], a.users <= b.users,
         a.classes \subseteq b.classes, EXPOSURE_POINTS[a.exposure] <= EXPOSURE_POINTS[b.exposure]
  PROVE  Gravity(a) \in Int /\ Gravity(b) \in Int /\ Gravity(a) <= Gravity(b)
<1> DEFINE Sum(x) == SEVERITY_WEIGHT[x.severity] * 12 + AtMost(x.users \div 5, 40)
             + Sensitivity(x.classes) * 3 + EXPOSURE_POINTS[x.exposure]
<1>1. /\ a.users \in Nat /\ b.users \in Nat /\ a.kind = "incident" /\ b.kind = "incident"
      /\ a.severity \in DOMAIN SEVERITY_WEIGHT /\ b.severity \in DOMAIN SEVERITY_WEIGHT
      /\ a.exposure \in DOMAIN EXPOSURE_POINTS /\ b.exposure \in DOMAIN EXPOSURE_POINTS
      /\ a.classes \in SUBSET DOMAIN DATA_SENSITIVITY_WEIGHT
      /\ b.classes \in SUBSET DOMAIN DATA_SENSITIVITY_WEIGHT
  BY CountsAssumption DEF Incidents
<1>2. /\ SEVERITY_WEIGHT[a.severity] \in Int /\ SEVERITY_WEIGHT[b.severity] \in Int
      /\ EXPOSURE_POINTS[a.exposure] \in Int /\ EXPOSURE_POINTS[b.exposure] \in Int
  BY <1>1 DEF SEVERITY_WEIGHT, EXPOSURE_POINTS
<1>3. /\ AtMost(a.users \div 5, 40) \in Int /\ AtMost(b.users \div 5, 40) \in Int
      /\ AtMost(a.users \div 5, 40) <= AtMost(b.users \div 5, 40)
  <2>1. a.users \div 5 \in Nat /\ b.users \div 5 \in Nat /\ a.users \div 5 <= b.users \div 5
    BY <1>1, FifthAscends
  <2> QED
    BY <2>1 DEF AtMost
<1>4. /\ Sensitivity(a.classes) \in Nat /\ Sensitivity(b.classes) \in Nat
      /\ Sensitivity(a.classes) <= Sensitivity(b.classes)
  BY <1>1, SensitivityAscends
<1>5. Sum(a) \in Int /\ Sum(b) \in Int /\ Sum(a) <= Sum(b)
  BY <1>2, <1>3, <1>4
<1>6. \A x \in {a, b} : CalculateOversharePriority(x) = AtMost(Sum(x), 100)
  BY DEF CalculateOversharePriority
<1> HIDE DEF Sum
<1>7. /\ CalculateOversharePriority(a) \in Int /\ CalculateOversharePriority(b) \in Int
      /\ CalculateOversharePriority(a) <= CalculateOversharePriority(b)
  BY <1>5, <1>6, CapAscends
<1>8. /\ Gravity(a) = Band(CalculateOversharePriority(a))
      /\ Gravity(b) = Band(CalculateOversharePriority(b))
  BY <1>1 DEF Gravity
<1> QED
  BY <1>7, <1>8, BandAscends

\* A policy that drops another field redacts at most that one less, and one that
\* redacts more drops no less.
LEMMA TighterPolicy ==
  ASSUME NEW a \in Records, NEW b \in Records,
         \/ \E f \in a.allowed : b.allowed = a.allowed \ {f} /\ b.redact = a.redact
         \/ b.allowed = a.allowed /\ a.redact \subseteq b.redact
  PROVE  Gravity(a) \in Int /\ Gravity(b) \in Int /\ Gravity(a) <= Gravity(b)
<1> DEFINE G(x) == 2 * Cardinality(DroppedFields(x)) + Cardinality(RedactedFields(x))
<1>1. Gravity(a) = G(a) /\ Gravity(b) = G(b)
  BY DEF Gravity, Records
<1>2. \A x \in {a, b} : DroppedFields(x) \subseteq Fields /\ RedactedFields(x) \subseteq Fields
  BY DEF DroppedFields, RedactedFields
<1>3. \A x \in {a, b} : IsFiniteSet(DroppedFields(x)) /\ IsFiniteSet(RedactedFields(x))
  BY <1>2, FieldsAssumption, FS_Subset
<1>4. \A x \in {a, b} :
        Cardinality(DroppedFields(x)) \in Nat /\ Cardinality(RedactedFields(x)) \in Nat
  BY <1>3, FS_CardinalityType
<1>5. ASSUME NEW f \in a.allowed, b.allowed = a.allowed \ {f}, b.redact = a.redact
      PROVE  G(a) <= G(b)
  <2>1. DroppedFields(b) = DroppedFields(a) \union {f} /\ f \notin DroppedFields(a)
    BY <1>5 DEF DroppedFields, Records
  <2>2. Cardinality(DroppedFields(b)) = Cardinality(DroppedFields(a)) + 1
    BY <1>3, <2>1, FS_AddElement
  <2>3. RedactedFields(b) = RedactedFields(a) \ {f}
    BY <1>5 DEF RedactedFields, Records
  <2>4. Cardinality(RedactedFields(b)) >= Cardinality(RedactedFields(a)) - 1
    BY <1>3, <1>4, <2>3, FS_RemoveElement
  <2> QED
    BY <1>4, <2>2, <2>4
<1>6. ASSUME b.allowed = a.allowed, a.redact \subseteq b.redact PROVE G(a) <= G(b)
  <2>1. DroppedFields(b) = DroppedFields(a) /\ RedactedFields(a) \subseteq RedactedFields(b)
    BY <1>6 DEF DroppedFields, RedactedFields
  <2>2. Cardinality(RedactedFields(a)) <= Cardinality(RedactedFields(b))
    BY <1>3, <2>1, FS_Subset
  <2> QED
    BY <1>4, <2>1, <2>2
<1>7. G(a) <= G(b)
  BY <1>5, <1>6
<1>8. G(a) \in Int /\ G(b) \in Int
  BY <1>4
<1> QED
  BY <1>1, <1>7, <1>8

\* All items compliant is a hundred percent, and among few items one that is not shows.
LEMMA PercentShows ==
  ASSUME NEW t \in Nat
  PROVE  /\ Percent(t - 0, t) \in Int /\ Percent(t - 1, t) \in Int
         /\ t = 0 => Percent(t - 0, t) # 10000 /\ Percent(t - 1, t) # 10000
         /\ t > 0 => Percent(t - 0, t) = 10000
         /\ t < RoundingLimit => Percent(t - 1, t) # 10000
<1>1. CASE t = 0
  BY <1>1 DEF Percent
<1>2. CASE t > 0
  <2>1. \A n \in Int : n \div (2 * t) \in Int
    BY <1>2
  <2>2. \A n \in Int, q \in Int : 2 * t * q <= n /\ n < 2 * t * (q + 1) => n \div (2 * t) = q
    BY <1>2
  <2>3. \A n \in Int : 2 * t * (n \div (2 * t)) <= n
    BY <1>2
  <2>4. Percent(t - 0, t) = (20001 * t) \div (2 * t)
    BY <1>2 DEF Percent
  <2>5. Percent(t - 1, t) = (20001 * t - 20000) \div (2 * t)
    BY <1>2 DEF Percent
  <2>6. Percent(t - 0, t) = 10000
    BY <1>2, <2>2, <2>4
  <2>7. ASSUME Percent(t - 1, t) = 10000 PROVE t >= RoundingLimit
    <3> DEFINE n == 20001 * t - 20000
    <3>1. n \in Int /\ n \div (2 * t) = 10000
      BY <1>2, <2>5, <2>7
    <3> HIDE DEF n
    <3>2. 2 * t * 10000 <= n
      BY <2>3, <3>1
    <3> QED
      BY <3>2 DEF n, RoundingLimit
  <2>8. Percent(t - 0, t) \in Int /\ Percent(t - 1, t) \in Int
    <3>1. 20001 * t \in Int /\ 20001 * t - 20000 \in Int
      OBVIOUS
    <3> QED
      BY <2>1, <2>4, <2>5, <3>1
  <2>9. RoundingLimit \in Nat
    BY DEF RoundingLimit
  <2> QED
    BY <1>2, <2>6, <2>7, <2>8, <2>9
<1> QED
  BY <1>1, <1>2

Moved(p)      == Percent(p.total - p.moved, p.total) # 10000
Unlabelled(p) == Percent(p.total - p.unlabelled, p.total) # 10000

LEMMA FailedChecks ==
  ASSUME NEW p
  PROVE  /\ "data-residency" \in PrivacyFailedChecks(p) <=> Moved(p)
         /\ "purview-labels" \in PrivacyFailedChecks(p) <=> Unlabelled(p)
         /\ "pii-findings" \in PrivacyFailedChecks(p) <=> p.pii
         /\ "retention-workflow" \in PrivacyFailedChecks(p) <=> p.records = 0
         /\ PrivacyFailedChecks(p) \subseteq
              {"data-residency", "purview-labels", "pii-findings", "retention-workflow"}
<1> DEFINE checks == {"data-residency", "purview-labels", "pii-findings", "retention-workflow"}
           Failed(check) ==
             CASE check = "data-residency"     -> Moved(p)
               [] check = "purview-labels"     -> Unlabelled(p)
               [] check = "pii-findings"       -> p.pii
               [] check = "retention-workflow" -> p.records = 0
<1>1. PrivacyFailedChecks(p) = {check \in checks : Failed(check)}
  BY DEF PrivacyFailedChecks, Moved, Unlabelled
<1>2. /\ Failed("data-residency") <=> Moved(p)
      /\ Failed("purview-labels") <=> Unlabelled(p)
      /\ Failed("retention-workflow") <=> p.records = 0
  OBVIOUS
<1>3. Failed("pii-findings") <=> p.pii
  OBVIOUS
<1> HIDE DEF Failed
<1> QED
  BY <1>1, <1>2, <1>3

LEMMA FiniteChecks ==
  ASSUME NEW p
  PROVE  IsFiniteSet(PrivacyFailedChecks(p)) /\ Cardinality(PrivacyFailedChecks(p)) \in Nat
<1> DEFINE One == {} \union {"data-residency"}
           Two == One \union {"purview-labels"}
           Three == Two \union {"pii-findings"}
           Four == Three \union {"retention-workflow"}
<1>1. PrivacyFailedChecks(p) \subseteq Four
  BY FailedChecks
<1>2. IsFiniteSet(One)
  BY FS_EmptySet, FS_AddElement
<1> HIDE DEF One
<1>3. IsFiniteSet(Two)
  BY <1>2, FS_AddElement
<1> HIDE DEF Two
<1>4. IsFiniteSet(Three)
  BY <1>3, FS_AddElement
<1> HIDE DEF Three
<1>5. IsFiniteSet(Four)
  BY <1>4, FS_AddElement
<1> HIDE DEF Four
<1> QED
  BY <1>1, <1>5, FS_Subset, FS_CardinalityType

\* A posture that worsens fails no check less, and shows what it lost.
LEMMA WorsePosture ==
  ASSUME NEW a \in Postures, NEW b \in Postures, b.total = a.total, b.records = a.records,
         a.moved <= b.moved, a.unlabelled <= b.unlabelled, a.pii => b.pii
  PROVE  /\ Gravity(a) \in Int /\ Gravity(b) \in Int /\ Gravity(a) <= Gravity(b)
         /\ a.total < RoundingLimit =>
              /\ b.moved > 0 => "data-residency" \in PrivacyFailedChecks(b)
              /\ b.unlabelled > 0 => "purview-labels" \in PrivacyFailedChecks(b)
<1>1. /\ a.total \in Nat /\ a.moved \in {0, 1} /\ b.moved \in {0, 1}
      /\ a.unlabelled \in {0, 1} /\ b.unlabelled \in {0, 1}
      /\ a.kind = "posture" /\ b.kind = "posture"
  BY CountsAssumption DEF Postures
<1>2. /\ Moved(a) => Moved(b)
      /\ b.moved > 0 /\ a.total < RoundingLimit => Moved(b)
  BY <1>1, PercentShows DEF Moved
<1>3. /\ Unlabelled(a) => Unlabelled(b)
      /\ b.unlabelled > 0 /\ a.total < RoundingLimit => Unlabelled(b)
  BY <1>1, PercentShows DEF Unlabelled
<1>4. PrivacyFailedChecks(a) \subseteq PrivacyFailedChecks(b)
  BY <1>2, <1>3, FailedChecks
<1>5. Cardinality(PrivacyFailedChecks(a)) <= Cardinality(PrivacyFailedChecks(b))
  BY <1>4, FiniteChecks, FS_Subset
<1>6. /\ Gravity(a) = Cardinality(PrivacyFailedChecks(a))
      /\ Gravity(b) = Cardinality(PrivacyFailedChecks(b))
  BY <1>1 DEF Gravity
<1> QED
  BY <1>2, <1>3, <1>5, <1>6, FailedChecks, FiniteChecks

LEMMA CaseKinds ==
  ASSUME NEW c \in Cases
  PROVE  /\ c.kind = "anomaly" => c \in Anomalies
         /\ c.kind = "incident" => c \in Incidents
         /\ c.kind = "prompt" => c \in Prompts
         /\ c.kind = "record" => c \in Records
         /\ c.kind = "posture" => c \in Postures
         /\ c.kind \in {"anomaly", "incident", "prompt", "record", "posture"}
  BY DEF Cases, Anomalies, Incidents, Prompts, Records, Postures

\* A step of the triage keeps the case one of its kind, and is answered no milder.
NotMilder(before, after) ==
  /\ after \in Cases /\ after.kind = before.kind
  /\ Gravity(after) >= Gravity(before)
  /\ Stops(before) => Stops(after)
  /\ before.kind = "posture" /\ before.total < RoundingLimit =>
       /\ after.moved > 0 => "data-residency" \in PrivacyFailedChecks(after)
       /\ after.unlabelled > 0 => "purview-labels" \in PrivacyFailedChecks(after)

LEMMA AnomalyNotMilder ==
  ASSUME case \in Anomalies, AnomalyGrows
  PROVE  NotMilder(case, case')
<1>1. /\ case' \in Anomalies /\ case'.type = case.type
      /\ case.signals <= case'.signals /\ case.users <= case'.users
      /\ case.repeats <= case'.repeats /\ (case.privileged => case'.privileged)
  <2>1. /\ case.signals \in Nat /\ case.users \in Nat /\ case.repeats \in Nat
        /\ case.privileged \in BOOLEAN /\ case.type \in DOMAIN ANOMALY_TYPE_WEIGHT
    BY CountsAssumption DEF Anomalies
  <2>2. PICK n \in Counts, r \in Radii :
          \/ n > case.signals /\ case' = [case EXCEPT !.signals = n]
          \/ n > case.repeats /\ case' = [case EXCEPT !.repeats = n]
          \/ r > case.users /\ case' = [case EXCEPT !.users = r]
          \/ ~ case.privileged /\ case' = [case EXCEPT !.privileged = TRUE]
    BY DEF AnomalyGrows, Learn
  <2>3. n \in Nat /\ r \in Nat
    BY CountsAssumption
  <2>4. CASE n > case.signals /\ case' = [case EXCEPT !.signals = n]
    BY <2>1, <2>3, <2>4 DEF Anomalies
  <2>5. CASE n > case.repeats /\ case' = [case EXCEPT !.repeats = n]
    BY <2>1, <2>3, <2>5 DEF Anomalies
  <2>6. CASE r > case.users /\ case' = [case EXCEPT !.users = r]
    BY <2>1, <2>3, <2>6 DEF Anomalies
  <2>7. CASE ~ case.privileged /\ case' = [case EXCEPT !.privileged = TRUE]
    <3>1. \A yes \in BOOLEAN : [case EXCEPT !.privileged = yes] \in Anomalies
      BY DEF Anomalies
    <3>2. case' \in Anomalies
      BY <2>7, <3>1
    <3>3. /\ case'.type = case.type /\ case'.signals = case.signals /\ case'.users = case.users
          /\ case'.repeats = case.repeats
      BY <2>7 DEF Anomalies
    <3> QED
      BY <2>1, <2>7, <3>2, <3>3
  <2> QED
    BY <2>2, <2>4, <2>5, <2>6, <2>7
<1>2. case.kind = "anomaly" /\ case'.kind = "anomaly" /\ case' \in Cases
  BY <1>1 DEF Anomalies, Cases
<1>3. /\ Gravity(case) \in 1..4 /\ Gravity(case') \in 1..4 /\ Gravity(case) <= Gravity(case')
      /\ Stops(case) => Stops(case')
  BY <1>1, GraverAnomaly
<1> QED
  BY <1>2, <1>3 DEF NotMilder

LEMMA IncidentNotMilder ==
  ASSUME case \in Incidents, IncidentGrows
  PROVE  NotMilder(case, case')
<1>1. /\ case' \in Incidents
      /\ SEVERITY_WEIGHT[case.severity] <= SEVERITY_WEIGHT[case'.severity]
      /\ case.users <= case'.users /\ case.classes \subseteq case'.classes
      /\ EXPOSURE_POINTS[case.exposure] <= EXPOSURE_POINTS[case'.exposure]
  <2>1. /\ \A s \in DOMAIN SEVERITY_WEIGHT : SEVERITY_WEIGHT[s] \in Int
        /\ \A e \in DOMAIN EXPOSURE_POINTS : EXPOSURE_POINTS[e] \in Int
    BY DEF SEVERITY_WEIGHT, EXPOSURE_POINTS
  <2> QED
    BY <2>1, CountsAssumption DEF IncidentGrows, Learn, Incidents
<1>2. /\ case.kind = "incident" /\ case'.kind = "incident" /\ case' \in Cases
      /\ ~ Stops(case)
  BY <1>1 DEF Incidents, Cases, Stops
<1>3. Gravity(case) \in Int /\ Gravity(case') \in Int /\ Gravity(case) <= Gravity(case')
  BY <1>1, GraverIncident
<1> QED
  BY <1>2, <1>3 DEF NotMilder

LEMMA PromptNotMilder ==
  ASSUME case \in Prompts, PromptGrows
  PROVE  NotMilder(case, case')
<1>1. case' \in Prompts /\ case.hits <= case'.hits /\ case.signs \subseteq case'.signs
  BY CountsAssumption DEF PromptGrows, Learn, Prompts
<1>2. case.kind = "prompt" /\ case'.kind = "prompt" /\ case' \in Cases
  BY <1>1 DEF Prompts, Cases
<1>3. /\ Gravity(case) \in 1..4 /\ Gravity(case') \in 1..4 /\ Gravity(case) <= Gravity(case')
      /\ Stops(case) => Stops(case')
  BY <1>1, GraverPrompt
<1> QED
  BY <1>2, <1>3 DEF NotMilder

LEMMA PolicyNotMilder ==
  ASSUME case \in Records, PolicyTightens
  PROVE  NotMilder(case, case')
<1>1. /\ case' \in Records
      /\ \/ \E f \in case.allowed : case'.allowed = case.allowed \ {f} /\ case'.redact = case.redact
         \/ case'.allowed = case.allowed /\ case.redact \subseteq case'.redact
  BY DEF PolicyTightens, Learn, Records
<1>2. /\ case.kind = "record" /\ case'.kind = "record" /\ case' \in Cases
      /\ ~ Stops(case)
  BY <1>1 DEF Records, Cases, Stops
<1>3. Gravity(case) \in Int /\ Gravity(case') \in Int /\ Gravity(case) <= Gravity(case')
  BY <1>1, TighterPolicy
<1> QED
  BY <1>2, <1>3 DEF NotMilder

LEMMA PostureNotMilder ==
  ASSUME case \in Postures, PostureWorsens
  PROVE  NotMilder(case, case')
<1>1. /\ case' \in Postures /\ case'.total = case.total /\ case'.records = case.records
      /\ case.moved <= case'.moved /\ case.unlabelled <= case'.unlabelled
      /\ (case.pii => case'.pii)
  <2>1. CASE case.moved = 0 /\ case' = [case EXCEPT !.moved = 1]
    BY <2>1 DEF Postures
  <2>2. CASE case.unlabelled = 0 /\ case' = [case EXCEPT !.unlabelled = 1]
    BY <2>2 DEF Postures
  <2>3. CASE ~ case.pii /\ case' = [case EXCEPT !.pii = TRUE]
    <3>1. \A yes \in BOOLEAN : [case EXCEPT !.pii = yes] \in Postures
      BY DEF Postures
    <3>2. case' \in Postures
      BY <2>3, <3>1
    <3>3. /\ case'.total = case.total /\ case'.records = case.records
          /\ case'.moved = case.moved /\ case'.unlabelled = case.unlabelled
      BY <2>3 DEF Postures
    <3>4. case.moved \in Int /\ case.unlabelled \in Int
      BY DEF Postures
    <3> QED
      BY <2>3, <3>2, <3>3, <3>4
  <2> QED
    BY <2>1, <2>2, <2>3 DEF PostureWorsens, Learn
<1>2. /\ case.kind = "posture" /\ case'.kind = "posture" /\ case' \in Cases
      /\ ~ Stops(case)
  BY <1>1 DEF Postures, Cases, Stops
<1>3. /\ Gravity(case) \in Int /\ Gravity(case') \in Int /\ Gravity(case) <= Gravity(case')
      /\ case.total < RoundingLimit =>
           /\ case'.moved > 0 => "data-residency" \in PrivacyFailedChecks(case')
           /\ case'.unlabelled > 0 => "purview-labels" \in PrivacyFailedChecks(case')
  BY <1>1, WorsePosture
<1> QED
  BY <1>2, <1>3 DEF NotMilder

LEMMA TriageNotMilder == case \in Cases /\ TriageStep => NotMilder(case, case')
<1> SUFFICES ASSUME case \in Cases, TriageStep PROVE NotMilder(case, case')
  OBVIOUS
<1> QED
  BY CaseKinds, AnomalyNotMilder, IncidentNotMilder, PromptNotMilder, PolicyNotMilder,
     PostureNotMilder DEF TriageStep

\* For any numbers of users, signals, hits, fields and items: a case about which
\* more becomes known is not answered more mildly, by any of five contracts.
\* (scoreAccessAnomaly, calculateOversharePriority, classifyPromptInjectionRisk,
\* data minimisation, privacyFailedChecks)
THEOREM CasesNeverMilder == TriageSpec => [][CaseNeverMilder]_case
<1>1. TriageInit => case \in Cases
  BY DEF TriageInit
<1>2. case \in Cases /\ [TriageStep]_case => (case \in Cases)'
  BY TriageNotMilder DEF NotMilder
<1>3. case \in Cases /\ [TriageStep]_case => [CaseNeverMilder]_case
  BY TriageNotMilder DEF NotMilder, CaseNeverMilder
<1> QED
  BY <1>1, <1>2, <1>3, PTL DEF TriageSpec

=============================================================================
