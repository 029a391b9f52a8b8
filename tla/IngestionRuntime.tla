--------------------------- MODULE IngestionRuntime ---------------------------
(***************************************************************************)
(* The runtime contracts of ingestion: the webhook receiver that turns     *)
(* notifications into triggers, the staging of raw artifacts and their     *)
(* handoff to Foundry.  The code only builds values; the caller answers    *)
(* the sender (500 when the receiver throws), keeps the triggers by        *)
(* idempotency key, the artifacts by path and the batches.  The sender     *)
(* delivers a notification, alone or with others, until it is answered,    *)
(* and an answer may be lost.                                              *)
(*                                                                         *)
(* Hashes are represented by what they hash, paths and keys by the tuples  *)
(* of their segments (no segment contains the separator).  The clock       *)
(* counts the instants at which artifacts are collected.                   *)
(***************************************************************************)
EXTENDS Integers, SequencesExt, PolicyCatalog

CONSTANTS
  Change,         \* changes the sender notifies
  SubscriptionId, \* ids of subscriptions a notification can carry
  EventId,        \* ids of notifications
  Absent,         \* a field that is not a string
  Scope,          \* the ingestion scopes (tenant and connection)
  Unmapped,       \* a notification whose scope is not found or not complete
  Name,           \* names of artifacts
  Sanitized,      \* Name -> their path segments
  Content,        \* versions of the scenario library's snapshot
  NoContent,      \* no snapshot stored yet
  Retention,      \* instants a staged artifact is retained
  MaxBatch,       \* bound: notifications in a delivery
  MaxStaged,      \* bound: artifacts staged
  MaxInstant      \* bound: the clock

ASSUME RuntimeAssumption == Retention \in Nat /\ MaxInstant \in Nat

VARIABLES
  notification, \* what each change is notified with
  subscribed,   \* the endpoint has answered the sender's validation request
  pending,      \* changes the sender still delivers
  accepted,     \* history: changes of deliveries answered with 202
  invalid,      \* history: changes listed as invalid in such an answer
  triggers,     \* the triggers the caller keeps
  instant,      \* the clock
  store,        \* raw storage: the artifacts kept
  staged,       \* history: artifacts staged
  batches,      \* handoff batches
  snapshot,     \* per scope, the scenario snapshot the caller stores
  report        \* the last run's telemetry

webhookVars == <<notification, subscribed, pending, accepted, invalid, triggers>>
stagingVars == <<instant, store, staged, batches, snapshot, report>>

Notification == [scope : Scope \union {Unmapped}, trusted : BOOLEAN,
                 subscriptionId : SubscriptionId \union {Absent},
                 eventId : EventId \union {Absent}]

Default(value, literal) == IF value = Absent THEN literal ELSE value

\* Mutant of WebhookKey: the event id is left out.
WebhookKeyOfSubscription(n) == <<n.scope, Default(n.subscriptionId, "subscription"), "">>

WebhookKey(n) ==
  <<n.scope, Default(n.subscriptionId, "subscription"), Default(n.eventId, "event")>>

\* createIngestionTrigger for a notification: its key, and where it came from.
WebhookTrigger(c) == [change |-> c, key |-> WebhookKey(notification[c])]

(***************************************************************************)
(* createWebhookReceiver.handleRequest.  A notification whose client state *)
(* is refused is listed as invalid before its scope is looked at; one that *)
(* cannot be mapped makes the handler throw.                               *)
(***************************************************************************)
Refused(batch)  == {c \in Range(batch) : ~notification[c].trusted}
Mappable(batch) == \A c \in Range(batch) \ Refused(batch) : notification[c].scope # Unmapped

Answer(status) == [status |-> status, triggers |-> <<>>, invalid |-> {}]

HandleRequest(request) ==
  IF request.validationToken THEN Answer(200)
  ELSE IF request.method # "POST" THEN Answer(405)
  ELSE IF ~Mappable(request.batch) THEN Answer(500)
  ELSE LET refused == Refused(request.batch)
           valid   == {i \in DOMAIN request.batch : request.batch[i] \notin refused}
       IN  [status   |-> 202,
            triggers |-> [i \in valid |-> WebhookTrigger(request.batch[i])],
            invalid  |-> refused]

\* Of the triggers of one key the caller keeps the first; a trigger stands at its
\* notification's place in the batch.
Kept(new) ==
  triggers \union
  {new[i] : i \in {j \in DOMAIN new :
     /\ \A t \in triggers : t.key # new[j].key
     /\ \A k \in DOMAIN new : k < j => new[k].key # new[j].key}}

Deliveries == {b \in UNION {[1..n -> pending] : n \in 1..MaxBatch} : IsInjective(b)}

\* Both ids are there, and neither is the literal that stands for an absent one.
Identified(n) == /\ n.subscriptionId \notin {Absent, "subscription"}
                 /\ n.eventId \notin {Absent, "event"}

WebhookInit ==
  /\ notification \in [Change -> Notification]
  \* The sender never gives two changes the ids of one.
  /\ \A c, d \in Change : c # d /\ Identified(notification[c]) => notification[c] # notification[d]
  /\ subscribed = FALSE
  /\ pending = Change
  /\ accepted = {} /\ invalid = {} /\ triggers = {}

Subscribe ==
  /\ ~subscribed
  /\ subscribed' = (HandleRequest([validationToken |-> TRUE]).status = 200)
  /\ UNCHANGED <<notification, pending, accepted, invalid, triggers>>

Deliver(batch, method, answered) ==
  LET answer == HandleRequest([validationToken |-> FALSE, method |-> method, batch |-> batch])
  IN  /\ subscribed
      /\ answer.status = 202
      /\ triggers' = Kept(answer.triggers)
      /\ invalid' = invalid \union answer.invalid
      /\ accepted' = accepted \union Range(batch)
      /\ pending' = IF answered THEN pending \ Range(batch) ELSE pending
      /\ UNCHANGED <<notification, subscribed>>

WebhookStep ==
  \/ Subscribe
  \/ \E b \in Deliveries, m \in {"POST", "GET"}, answered \in BOOLEAN : Deliver(b, m, answered)

WebhookSpec == WebhookInit /\ [][WebhookStep]_webhookVars

-----------------------------------------------------------------------------
(***************************************************************************)
(* Staging and handoff.  The caller stages what a trigger announced under  *)
(* any name, or runs the scenario pipeline, which does everything in one   *)
(* turn under one fixed name.                                              *)
(***************************************************************************)

\* Mutant of RawStoragePath: the path is named by the artifact alone.
RawStoragePathOfName(scope, at, name) == <<scope, Sanitized[name]>>

RawStoragePath(scope, at, name) == <<scope, at, Sanitized[name]>>

\* planRawStorageTarget and createRawStagedArtifact.
RawStagedArtifact(scope, at, name, content) ==
  [id |-> <<scope, content>>, scope |-> scope, name |-> name, at |-> at, hash |-> content,
   path |-> RawStoragePath(scope, at, name), expiresAt |-> at + Retention]

\* A write to a path replaces what was there.
Written(artifacts, new) == {a \in artifacts : a.path # new.path} \union {new}

\* buildFoundryHandoffBatch: documents are taken from the artifacts' payloads.
FoundryHandoffBatch(scope, artifacts) ==
  LET documents == {a.hash : a \in artifacts}
  IN  [id |-> <<scope, documents>>, documents |-> documents, sources |-> artifacts]

\* Mutant of RuntimeReport: the time to start is measured without a floor.
RuntimeReportUnfloored(received, started, completed, documents) ==
  [toStart |-> started - received, processing |-> Max({completed - started, 0}),
   endToEnd |-> Max({completed - received, 0}), documents |-> documents]

\* summarizeIngestionRuntime, without volumes and prices.
RuntimeReport(received, started, completed, documents) ==
  [toStart |-> Max({started - received, 0}), processing |-> Max({completed - started, 0}),
   endToEnd |-> Max({completed - received, 0}), documents |-> documents]

StagingInit ==
  /\ instant = 0
  /\ store = {} /\ staged = {} /\ batches = {}
  /\ snapshot = [s \in Scope |-> NoContent]
  /\ report = RuntimeReport(0, 0, 0, 0)

Stage(scope, name, content) ==
  LET new == RawStagedArtifact(scope, instant, name, content)
  IN  /\ Cardinality(staged) < MaxStaged
      /\ new \notin staged
      /\ store' = Written(store, new)
      /\ staged' = staged \union {new}
      /\ UNCHANGED <<instant, batches, snapshot, report>>

\* The clocks that stamp the three times of a run are the caller's.
HandOff(artifacts, received, started) ==
  /\ artifacts # {}
  /\ \A a \in artifacts : a.at >= received
  /\ LET batch == FoundryHandoffBatch((CHOOSE a \in artifacts : TRUE).scope, artifacts)
     IN  /\ batches' = batches \union {batch}
         /\ report' = RuntimeReport(received, started, instant, Cardinality(batch.documents))
  /\ UNCHANGED <<instant, store, staged, snapshot>>

\* buildScenarioRuntimeArtifacts, and the caller that stores the snapshot.  The
\* evaluation of the ingestion policies is reported and stops nothing.
ScenarioPolicies ==
  EvaluateIngestionPolicies([source |-> "microsoft-scenario-library", provider |-> "blob",
                             class |-> "short-term", days |-> 14])

ScenarioRuntime(scope, content) ==
  LET artifact == RawStagedArtifact(scope, instant, "scenario-library-snapshot", content)
  IN  /\ Cardinality(staged) < MaxStaged
      /\ snapshot' = [snapshot EXCEPT ![scope] = content]
      /\ IF snapshot[scope] = content
         THEN /\ report' = RuntimeReport(instant, instant, instant, 0)
              /\ UNCHANGED <<store, staged, batches>>
         ELSE /\ store' = Written(store, artifact)
              /\ staged' = staged \union {artifact}
              /\ batches' = batches \union {FoundryHandoffBatch(scope, {artifact})}
              /\ report' = RuntimeReport(instant, instant, instant, 1)
      /\ UNCHANGED instant

\* Time passes, and raw storage drops what has expired.
InstantPasses ==
  /\ instant < MaxInstant
  /\ instant' = instant + 1
  /\ store' = {a \in store : a.expiresAt > instant'}
  /\ UNCHANGED <<staged, batches, snapshot, report>>

StagingStep ==
  \/ InstantPasses
  \/ \E s \in Scope, c \in Content :
        \/ ScenarioRuntime(s, c)
        \/ \E n \in Name : Stage(s, n, c)
  \/ \E artifacts \in {A \in SUBSET store : \A a, b \in A : a.scope = b.scope},
       received, started \in 0..MaxInstant : HandOff(artifacts, received, started)

StagingSpec == StagingInit /\ [][StagingStep]_stagingVars

-----------------------------------------------------------------------------

(***************************************************************************)
(* However deliveries are cut into batches, repeated and reordered: a      *)
(* change of an answered delivery is listed as invalid, or the caller has  *)
(* its trigger, or it carries no complete identity; a change that was in   *)
(* no answered delivery left no trigger and no entry.                      *)
(* createWebhookReceiver, buildTriggerIdempotencyKey.                      *)
(***************************************************************************)
AcceptedIsAccounted ==
  /\ \A c \in accepted :
       \/ c \in invalid
       \/ \E t \in triggers : t.change = c
       \/ ~Identified(notification[c])
  /\ invalid \union {t.change : t \in triggers} \subseteq accepted
  /\ Change \ pending \subseteq accepted

(***************************************************************************)
(* What a handoff batch refers to was staged, and can be read back as it   *)
(* was staged until it expires, unless another artifact of the same scope  *)
(* was staged at the same instant under a name that gives the same path    *)
(* segment.                                                                *)
(* planRawStorageTarget, createRawStagedArtifact, buildFoundryHandoffBatch *)
(***************************************************************************)
Replaced(a) == \E b \in staged : /\ b.scope = a.scope /\ b.hash # a.hash
                                 /\ b.at = a.at /\ Sanitized[b.name] = Sanitized[a.name]

HandoffReadable ==
  \A batch \in batches : \A a \in batch.sources :
    /\ a \in staged
    /\ \/ \E kept \in store : kept.path = a.path /\ kept.hash = a.hash
       \/ a.expiresAt <= instant
       \/ Replaced(a)

(***************************************************************************)
(* A batch is never empty, its documents are the contents of what it       *)
(* refers to, all of it staged under one scope, and batches of one id hold *)
(* the same documents of the same scope.                                   *)
(* createRawStagedArtifact, buildFoundryHandoffBatch.                      *)
(***************************************************************************)
BatchesAreTheirSources ==
  /\ \A batch \in batches :
       /\ batch.sources # {}
       /\ batch.documents = {a.hash : a \in batch.sources}
  /\ \A one, other \in batches : one.id = other.id =>
       /\ one.documents = other.documents
       /\ \A a \in one.sources, b \in other.sources : a.scope = b.scope

(***************************************************************************)
(* Whatever the clocks that stamped a run, its reported latencies are not  *)
(* negative and the whole never exceeds the sum of its parts.              *)
(* summarizeIngestionRuntime.                                              *)
(***************************************************************************)
LatencyAddsUp ==
  /\ report.toStart >= 0 /\ report.processing >= 0
  /\ report.endToEnd \in 0..(report.toStart + report.processing)

(***************************************************************************)
(* What is handed off can be read until it expires, a batch is made of its *)
(* sources and told by its id, and the latencies that are reported of it   *)
(* add up.                                                                 *)
(***************************************************************************)
HandoffHolds == HandoffReadable /\ BatchesAreTheirSources /\ LatencyAddsUp
=============================================================================
