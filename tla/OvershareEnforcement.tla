------------------------- MODULE OvershareEnforcement -------------------------
(***************************************************************************)
(* Overshare detection: documents with an access list and a Purview label  *)
(* are cut into chunks and indexed, each chunk with the access list and    *)
(* the label it had then.  An ingestion assessment compares the index with *)
(* the sources, a query assessment scores one answer with its hits and the *)
(* documents the last ingestion assessment found drifted, and the          *)
(* enforcement decision turns a score into the next state of the workflow. *)
(*                                                                         *)
(* Personal data is a flag of a document, present in the text of all its   *)
(* chunks (an address in the title, which every chunk repeats), so each    *)
(* document holds at most one finding by value.                            *)
(***************************************************************************)
EXTENDS Naturals, Sequences, FiniteSets

CONSTANTS
  Docs,        \* source documents
  Chunks,      \* chunks of the index
  DocOf,       \* the document a chunk was cut from
  Acls,        \* access lists, by hash
  Denying,     \* those with a deny entry
  Labels,      \* Purview labels
  Gone,        \* a document removed from the source
  NotIndexed,  \* a chunk not in the index
  Responses,   \* bound: the query responses the index may give
  Recurrences, \* bound: the recurrence counts the callers pass
  Policy       \* the thresholds of evaluateOvershareEnforcement

ASSUME CorpusAssumption ==
  /\ IsFiniteSet(Docs) /\ IsFiniteSet(Chunks)
  /\ DocOf \in [Chunks -> Docs]
  /\ Denying \subseteq Acls
  /\ Recurrences \subseteq Nat

\* A hit has a chunk, the marks the service set on it, and whether the label was
\* enforced; a response has hits in order, each of a chunk of its own, whether
\* the answer holds personal data, and the warnings of the service.  A warning is
\* any text; told apart is the one that enforcement reads as a reason code.
Hit      == [chunk : Chunks, marks : SUBSET {"redacted", "blocked"}, enforced : BOOLEAN]
Warnings == {"partial_results", "deny_precedence_lost"}

ASSUME ResponsesAssumption ==
  \A r \in Responses : /\ r.hits \in Seq(Hit)
                       /\ \A i, j \in DOMAIN r.hits :
                            r.hits[i].chunk = r.hits[j].chunk => i = j
                       /\ r.answerPii \in BOOLEAN
                       /\ r.warnings \in Seq(Warnings)

ASSUME PolicyAssumption ==
  Policy \in [warning : Nat, review : Nat, throttle : Nat, suspend : Nat, recurrence : Nat]

VARIABLES
  source,   \* per document: its security envelope, or Gone
  index,    \* per chunk: its indexed envelope, or NotIndexed
  drifted,  \* documents the last ingestion assessment found out of sync
  state     \* the enforcement state the caller keeps for the connector

vars   == <<source, index, drifted, state>>
corpus == <<source, index>>

Envelope == [acl : Acls, label : Labels, pii : BOOLEAN]

\* fresh: indexed no earlier than the label of the source was applied.
IndexedEnvelope == [acl : Acls, label : Labels, pii : BOOLEAN, fresh : BOOLEAN]

ASSUME GoneAssumption == Gone \notin Envelope /\ NotIndexed \notin IndexedEnvelope

ENFORCEMENT_STATES == <<"clear", "warned", "in_review", "throttled", "suspended">>

Restricted == {"throttled", "suspended"}

DefaultPolicy ==
  [warning |-> 10, review |-> 30, throttle |-> 60, suspend |-> 85, recurrence |-> 1]

Lesser(m, n) == IF m > n THEN n ELSE m

-----------------------------------------------------------------------------
(* The corpus: edits of the source, and the indexing jobs.                  *)

Indexed == {c \in Chunks : index[c] # NotIndexed}
Orphans == {c \in Indexed : source[DocOf[c]] = Gone}

\* Indexed chunks that are compared with a source at all.
Compared == Indexed \ Orphans

\* The date of a label may precede or follow the stamps of chunks indexed
\* before: kept are those that count as indexed since.
Restamped(d, kept) ==
  [c \in Chunks |-> IF c \in Indexed /\ DocOf[c] = d
                     THEN [index[c] EXCEPT !.fresh = c \in kept] ELSE index[c]]

Publish(d, envelope, kept) ==
  /\ source[d] = Gone
  /\ source' = [source EXCEPT ![d] = envelope]
  /\ index' = Restamped(d, kept)
  /\ UNCHANGED <<drifted, state>>

Protect(d, acl) ==
  /\ source[d] # Gone
  /\ source[d].acl # acl
  /\ source' = [source EXCEPT ![d].acl = acl]
  /\ UNCHANGED <<index, drifted, state>>

Relabel(d, label, kept) ==
  /\ source[d] # Gone
  /\ source' = [source EXCEPT ![d].label = label]
  /\ index' = Restamped(d, kept)
  /\ UNCHANGED <<drifted, state>>

Rewrite(d) ==
  /\ source[d] # Gone
  /\ source' = [source EXCEPT ![d].pii = ~ @]
  /\ UNCHANGED <<index, drifted, state>>

Remove(d) ==
  /\ source[d] # Gone
  /\ source' = [source EXCEPT ![d] = Gone]
  /\ UNCHANGED <<index, drifted, state>>

IndexChunk(c) ==
  /\ source[DocOf[c]] # Gone
  /\ index' = [index EXCEPT ![c] = [acl   |-> source[DocOf[c]].acl,
                                    label |-> source[DocOf[c]].label,
                                    pii   |-> source[DocOf[c]].pii,
                                    fresh |-> TRUE]]
  /\ UNCHANGED <<source, drifted, state>>

DropChunk(c) ==
  /\ c \in Indexed
  /\ index' = [index EXCEPT ![c] = NotIndexed]
  /\ UNCHANGED <<source, drifted, state>>

-----------------------------------------------------------------------------
(* The assessments: a score and whether the evidence is grave, which the    *)
(* enforcement asks for before it throttles.                                *)

AclMismatch  == {c \in Compared : source[DocOf[c]].acl # index[c].acl}
LostDeny     == {c \in Compared : source[DocOf[c]].acl \in Denying /\ index[c].acl \notin Denying}
WrongLabel   == {c \in Compared : source[DocOf[c]].label # index[c].label}
StaleLabel   == {c \in Compared : ~ index[c].fresh}
PiiDocs      == {d \in Docs : source[d] # Gone /\ source[d].pii}
PiiChunks    == {c \in Indexed : index[c].pii}
DocsOf(cs)   == {DocOf[c] : c \in cs}

\* Mutant of IngestionScore: a lost deny entry weighs half.
IngestionScoreMild ==
  Lesser(100, Lesser(Cardinality(PiiDocs) * 8, 24)
            + Lesser(Cardinality(DocsOf(PiiChunks)) * 12, 24)
            + Lesser(Cardinality(AclMismatch) * 14, 28)
            + Lesser(Cardinality(LostDeny) * 9, 18)
            + Lesser(Cardinality(WrongLabel) * 10, 20)
            + Lesser(Cardinality(StaleLabel) * 6, 12))

IngestionScore ==
  Lesser(100, Lesser(Cardinality(PiiDocs) * 8, 24)
            + Lesser(Cardinality(DocsOf(PiiChunks)) * 12, 24)
            + Lesser(Cardinality(AclMismatch) * 14, 28)
            + Lesser(Cardinality(LostDeny) * 18, 36)
            + Lesser(Cardinality(WrongLabel) * 10, 20)
            + Lesser(Cardinality(StaleLabel) * 6, 12))

IngestionIncident == [score |-> IngestionScore, grave |-> LostDeny # {}]

\* One finding per document and value, attributed to the first such hit.
Finds(r, i) ==
  /\ index[r.hits[i].chunk].pii
  /\ \A j \in 1..(i - 1) :
       ~ (index[r.hits[j].chunk].pii /\ DocOf[r.hits[j].chunk] = DocOf[r.hits[i].chunk])

Marked(r, mark)   == {i \in DOMAIN r.hits : mark \in r.hits[i].marks}
Shown(r)          == {i \in DOMAIN r.hits : r.hits[i].marks = {}}
Exposed(r)        == {i \in Shown(r) : Finds(r, i)}
FromDrifted(r)    == {i \in DOMAIN r.hits : DocOf[r.hits[i].chunk] \in drifted}
Unenforced(r)     == {i \in DOMAIN r.hits : ~ r.hits[i].enforced}

\* Mutant of ActualExposure: the answer's own text is not looked at.
ExposureInHits(r) == Exposed(r) # {}

ActualExposure(r) == r.answerPii \/ Exposed(r) # {}

QueryScore(r) ==
  Lesser(100, (IF r.answerPii THEN 30 ELSE 0)
            + Lesser(Cardinality(Exposed(r)) * 20, 40)
            + Lesser(Cardinality(FromDrifted(r)) * 12, 24)
            + Lesser(Cardinality(Unenforced(r)) * 8, 16)
            + Lesser(Cardinality(Marked(r, "redacted")) * 4, 8)
            + Lesser(Cardinality(Marked(r, "blocked")) * 2, 4)
            + Lesser(Len(r.warnings) * 3, 6))

\* The warnings are among the reason codes, where enforcement looks for evidence.
SaysDenyLost(r) == \E i \in DOMAIN r.warnings : r.warnings[i] = "deny_precedence_lost"

QueryIncident(r) == [score |-> QueryScore(r), grave |-> ActualExposure(r) \/ SaysDenyLost(r)]

-----------------------------------------------------------------------------
(* The enforcement decision, as the index of the action and of the state it *)
(* maps to, from 0 (allow, clear) to 4 (suspend, suspended).                *)

\* Mutant of Warrants: a suspension does not ask for an earlier incident.
WarrantsAtOnce(i, incident, prior, n) ==
  CASE i = 0 -> TRUE
    [] i = 1 -> incident.score >= Policy.warning
    [] i = 2 -> incident.score >= Policy.review
    [] i = 3 -> incident.score >= Policy.throttle /\ incident.grave
    [] i = 4 -> incident.score >= Policy.suspend /\ incident.grave

Warrants(i, incident, prior, n) ==
  CASE i = 0 -> TRUE
    [] i = 1 -> incident.score >= Policy.warning
    [] i = 2 -> incident.score >= Policy.review
    [] i = 3 -> incident.score >= Policy.throttle /\ incident.grave
    [] i = 4 -> /\ incident.score >= Policy.suspend
                /\ incident.grave
                /\ n >= Policy.recurrence \/ prior = "throttled"

\* The checks follow one another: the last one met decides.
ByScore(incident, prior, n) ==
  CHOOSE i \in 0..4 :
    /\ Warrants(i, incident, prior, n)
    /\ \A j \in (i + 1)..4 : ~ Warrants(j, incident, prior, n)

Escalated(i, n) == IF n > 0 /\ i \in 1..3 THEN i + 1 ELSE i

\* Mutant of WithEvidence: the cap on decisions without evidence is left out.
WithoutCap(i, incident) == i

WithEvidence(i, incident) == IF ~ incident.grave /\ i > 2 THEN 2 ELSE i

\* Mutant of Decide: a suspension is weighed like any other state.
DecideAfresh(incident, prior, n) ==
  WithEvidence(Escalated(ByScore(incident, prior, n), n), incident)

\* Mutant of Decide: a suspension stands only from the warning score on.
DecideFromWarning(incident, prior, n) ==
  IF prior = "suspended" /\ incident.score >= Policy.warning THEN 4
  ELSE WithEvidence(Escalated(ByScore(incident, prior, n), n), incident)

Decide(incident, prior, n) ==
  IF prior = "suspended" /\ incident.score > 0 THEN 4
  ELSE WithEvidence(Escalated(ByScore(incident, prior, n), n), incident)

NextState(incident, n) == ENFORCEMENT_STATES[Decide(incident, state, n) + 1]

-----------------------------------------------------------------------------

Init ==
  /\ source = [d \in Docs |-> Gone]
  /\ index = [c \in Chunks |-> NotIndexed]
  /\ drifted = {}
  /\ state = "clear"

\* The caller assesses the whole index, keeps the findings and takes the
\* enforcement decision.
AssessIngestion(n) ==
  /\ drifted' = DocsOf(AclMismatch \union LostDeny \union WrongLabel \union StaleLabel)
  /\ state' = NextState(IngestionIncident, n)
  /\ UNCHANGED corpus

\* Responses the index can give: its hits are chunks it holds.
Possible == {r \in Responses : \A i \in DOMAIN r.hits : r.hits[i].chunk \in Indexed}

AssessQuery(r, n) ==
  /\ state' = NextState(QueryIncident(r), n)
  /\ UNCHANGED <<corpus, drifted>>

Next ==
  \/ \E d \in Docs, envelope \in Envelope, kept \in SUBSET Chunks : Publish(d, envelope, kept)
  \/ \E d \in Docs, acl \in Acls : Protect(d, acl)
  \/ \E d \in Docs, label \in Labels, kept \in SUBSET Chunks : Relabel(d, label, kept)
  \/ \E d \in Docs : Rewrite(d) \/ Remove(d)
  \/ \E c \in Chunks : IndexChunk(c) \/ DropChunk(c)
  \/ \E n \in Recurrences : AssessIngestion(n)
  \/ \E n \in Recurrences, r \in Possible : AssessQuery(r, n)

Spec == Init /\ [][Next]_vars

-----------------------------------------------------------------------------

\* Every envelope, finding and state is one the code builds.
TypeOK ==
  /\ source \in [Docs -> Envelope \union {Gone}]
  /\ index \in [Chunks -> IndexedEnvelope \union {NotIndexed}]
  /\ drifted \subseteq Docs
  /\ state \in {"clear", "warned", "in_review", "throttled", "suspended"}

\* A deny entry the index has lost brings the connector at least under review
\* at the next ingestion assessment, whatever came before and however little
\* else is wrong: the weights and thresholds of two files must agree on it.
DenyLossReviewed ==
  LostDeny # {} => \A n \in Recurrences :
                     NextState(IngestionIncident, n) \in {"in_review"} \union Restricted

\* What an answer really surfaced: its text, or a hit shown with personal data.
Surfaced(r) ==
  r.answerPii \/ \E i \in Shown(r) : index[r.hits[i].chunk].pii

\* No connector becomes throttled or suspended without cause: a deny entry the
\* index has lost, or the service says is lost, or personal data an answer really
\* surfaced.  Neither the sum of lesser scores nor a recurrence is enough.
NoGroundlessThrottle ==
  state # "suspended" => \A n \in Recurrences :
    /\ NextState(IngestionIncident, n) \in Restricted => LostDeny # {}
    /\ \A r \in Possible :
         NextState(QueryIncident(r), n) \in Restricted => Surfaced(r) \/ SaysDenyLost(r)

\* A connector with no recurring incident is throttled before it is suspended.
FirstOffenceNotSuspended ==
  state \notin Restricted =>
    /\ NextState(IngestionIncident, 0) # "suspended"
    /\ \A r \in Possible : NextState(QueryIncident(r), 0) # "suspended"

InSync ==
  /\ \A c \in Compared : LET s == source[DocOf[c]] IN
       index[c].acl = s.acl /\ index[c].label = s.label /\ index[c].fresh
  /\ PiiDocs = {} /\ PiiChunks = {}

\* An ingestion assessment lifts a suspension only if every chunk that has a
\* source agrees with it and there is no personal data; a query only if it
\* surfaced nothing.
LiftedOnlyClean ==
  state = "suspended" => \A n \in Recurrences :
    /\ NextState(IngestionIncident, n) # "suspended" => InSync
    /\ \A r \in Possible : NextState(QueryIncident(r), n) # "suspended" => ~ Surfaced(r)

\* A suspension is not weakened step by step: it stands, or it is lifted.
SuspensionStands == [][state = "suspended" => state' \in {"suspended", "clear"}]_vars

\* As long as the index gives out no hit it has redacted or blocked, exposure
\* is reported if and only if an answer surfaced personal data.
SurfacedIsReported ==
  \A r \in Possible : Shown(r) = DOMAIN r.hits => (ActualExposure(r) <=> Surfaced(r))

\* What docs/190-overshare-detection.md says a query assessment answers: whether
\* the answer or a hit surfaced sensitive data, also next to hits it blocked.
ExposureReported == \A r \in Possible : Surfaced(r) => ActualExposure(r)
=============================================================================
