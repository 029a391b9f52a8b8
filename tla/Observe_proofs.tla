----------------------------- MODULE Observe_proofs -----------------------------
(***************************************************************************)
(* What holds of the ingestion runtime, the connector, replay recovery,    *)
(* the planner and the alerts, for every set of notifications, artifacts   *)
(* and readings, and at any time.                                          *)
(***************************************************************************)
EXTENDS IngestionRuntime, FoundryConnector, RefreshPlanner, ReplayRecovery, AlertThresholds,
        GraphCollection, NumberFacts, FiniteSetTheorems, TLAPS

-----------------------------------------------------------------------------
(* The refresh planner.                                                     *)

\* A pillar's data is never older, at the moment its caller last asked with the
\* time, than what the caller lets pass; and a schedule follows its refresh.
PlannerInv ==
  /\ nowHour \in Int /\ nowHour >= FirstHour
  /\ checkedAt \in Int /\ checkedAt <= nowHour
  /\ refreshedAt \in [Pillar -> Int \union {Never}]
  /\ schedule \in [Pillar -> Int]
  /\ checked => \A p \in Pillar : refreshedAt[p] # Never
  /\ ~ neglected => nowHour - checkedAt <= HourStep
  /\ \A p \in Pillar : refreshedAt[p] # Never =>
       /\ refreshedAt[p] >= FirstHour /\ refreshedAt[p] <= nowHour
       /\ refreshedAt[p] >= checkedAt - 2 * IntervalHours[p]
       /\ schedule[p] = refreshedAt[p] + IntervalHours[p]

LEMMA Intervals ==
  /\ Pillar = {"OBSERVE", "GOVERN", "SECURE", "OPTIMIZE"}
  /\ \A p \in Pillar : IntervalHours[p] \in {6, 12, 24}
  BY DEF Pillar, IntervalHours

\* Which pillars are overdue: those never fetched, and those too old.
LEMMA OverduePillars ==
  ASSUME NEW now, NEW p \in Pillar
  PROVE  p \in ListOverduePillars(refreshedAt, now) <=>
           \/ refreshedAt[p] = Never
           \/ /\ ~ (now - refreshedAt[p] <= IntervalHours[p])
              /\ ~ (now - refreshedAt[p] <= 2 * IntervalHours[p])
  BY DEF ListOverduePillars, CheckStaleness

LEMMA PlannerInitially == PlannerInit => PlannerInv
<1> SUFFICES ASSUME PlannerInit PROVE PlannerInv
  OBVIOUS
<1>1. \A p \in Pillar : IntervalHours[p] \in {6, 12, 24}
  BY Intervals
<1>2. /\ nowHour = FirstHour /\ checkedAt = FirstHour /\ ~ checked
      /\ \A p \in Pillar : refreshedAt[p] = Never
  BY DEF PlannerInit
<1>3. refreshedAt \in [Pillar -> Int \union {Never}] /\ schedule \in [Pillar -> Int]
  BY <1>1, PlannerAssumption DEF PlannerInit, BuildRefreshSchedule
<1> QED
  BY <1>2, <1>3, PlannerAssumption DEF PlannerInv

LEMMA PlannerRefreshes ==
  ASSUME PlannerInv, NEW now \in {nowHour, Epoch}, RefreshOverdue(now)
  PROVE  PlannerInv'
<1> DEFINE overdue == ListOverduePillars(refreshedAt, now)
<1>1. /\ refreshedAt' = [p \in Pillar |-> IF p \in overdue THEN nowHour ELSE refreshedAt[p]]
      /\ schedule' = [p \in Pillar |-> IF p \in overdue THEN nowHour + IntervalHours[p] ELSE schedule[p]]
      /\ checkedAt' = IF now = nowHour THEN nowHour ELSE checkedAt
      /\ checked' = TRUE /\ nowHour' = nowHour /\ neglected' = neglected
  BY DEF RefreshOverdue, BuildRefreshSchedule
<1>2. \A p \in Pillar : IntervalHours[p] \in {6, 12, 24}
  BY Intervals
<1>3. ASSUME NEW p \in Pillar
      PROVE  /\ refreshedAt'[p] \in Int /\ refreshedAt'[p] # Never
             /\ refreshedAt'[p] >= FirstHour /\ refreshedAt'[p] <= nowHour
             /\ refreshedAt'[p] >= checkedAt' - 2 * IntervalHours[p]
             /\ schedule'[p] = refreshedAt'[p] + IntervalHours[p]
  <2>1. CASE p \in overdue
    BY <1>1, <1>2, <1>3, <2>1, PlannerAssumption DEF PlannerInv
  <2>2. CASE p \notin overdue
    <3>1. refreshedAt[p] \in Int /\ refreshedAt[p] # Never /\ now - refreshedAt[p] <= 2 * IntervalHours[p]
      BY <1>2, <2>2, OverduePillars, PlannerAssumption DEF PlannerInv
    <3> QED
      BY <1>1, <1>2, <2>2, <3>1, PlannerAssumption DEF PlannerInv
  <2> QED
    BY <2>1, <2>2
<1> HIDE DEF overdue
<1> QED
  BY <1>1, <1>2, <1>3, PlannerAssumption DEF PlannerInv

LEMMA PlannerKeepsInv ==
  ASSUME PlannerInv, PlannerStep \/ UNCHANGED plannerVars
  PROVE  PlannerInv'
<1>1. CASE HoursPass
  <2>0. nowHour' = nowHour + HourStep
    BY <1>1 DEF HoursPass
  <2>1. /\ (~ neglected' => ~ (nowHour' - checkedAt > HourStep))
        /\ refreshedAt' = refreshedAt /\ schedule' = schedule
        /\ checkedAt' = checkedAt /\ checked' = checked
    BY <1>1 DEF HoursPass
  <2>2. nowHour' \in Int /\ nowHour' >= nowHour /\ nowHour' >= FirstHour /\ checkedAt <= nowHour'
    BY <2>0, PlannerAssumption DEF PlannerInv
  <2>3. nowHour' - checkedAt > HourStep \/ nowHour' - checkedAt <= HourStep
    <3>1. nowHour' \in Int /\ checkedAt \in Int /\ HourStep \in Int
      BY <2>2, PlannerAssumption DEF PlannerInv
    <3>2. \A a, b, c \in Int : a - b > c \/ a - b <= c
      OBVIOUS
    <3> QED
      BY <3>1, <3>2, Zenon
  <2>4. \A p \in Pillar : refreshedAt[p] # Never => refreshedAt[p] >= FirstHour /\ refreshedAt[p] <= nowHour'
    BY <2>2, PlannerAssumption DEF PlannerInv
  <2>5. ~ neglected' => nowHour' - checkedAt' <= HourStep
    BY <2>1, <2>3, Zenon
  <2> QED
    BY <2>1, <2>2, <2>4, <2>5 DEF PlannerInv
<1>2. CASE RefreshOverdue(nowHour) \/ RefreshOverdue(Epoch)
  BY <1>2, PlannerRefreshes
<1>3. ASSUME NEW p \in Asked, RefreshNow(p) PROVE PlannerInv'
  <2>1. /\ refreshedAt' = [refreshedAt EXCEPT ![p] = nowHour]
        /\ schedule' = [schedule EXCEPT ![p] = nowHour + IntervalHours[p]]
        /\ nowHour' = nowHour /\ checkedAt' = checkedAt /\ checked' = checked /\ neglected' = neglected
    BY <1>3, AskedAssumption DEF RefreshNow, BuildRefreshSchedule
  <2>2. p \in Pillar /\ IntervalHours[p] \in Int /\ nowHour >= checkedAt - 2 * IntervalHours[p]
    BY Intervals, AskedAssumption DEF PlannerInv
  <2> QED
    BY <2>1, <2>2, PlannerAssumption DEF PlannerInv
<1>4. CASE UNCHANGED plannerVars
  BY <1>4 DEF plannerVars, PlannerInv
<1> QED
  BY <1>1, <1>2, <1>3, <1>4 DEF PlannerStep

LEMMA InvKeepsFresh == PlannerInv => DataKeepsFresh
<1> SUFFICES ASSUME PlannerInv PROVE DataKeepsFresh
  OBVIOUS
<1>1. \A p \in Pillar : IntervalHours[p] \in {6, 12, 24}
  BY Intervals
<1>2. ASSUME NEW p \in Pillar, refreshedAt[p] # Never
      PROVE  /\ ~ neglected => nowHour - refreshedAt[p] <= 2 * IntervalHours[p] + HourStep
             /\ Epoch - refreshedAt[p] <= IntervalHours[p]
             /\ CheckStaleness(refreshedAt, nowHour)[p] = "fresh" <=> nowHour <= schedule[p]
  <2>1. CheckStaleness(refreshedAt, nowHour)[p] = "fresh" <=> nowHour - refreshedAt[p] <= IntervalHours[p]
    BY <1>2 DEF CheckStaleness
  <2> QED
    BY <1>1, <1>2, <2>1, PlannerAssumption DEF PlannerInv
<1>3. ListOverduePillars(refreshedAt, Epoch) = {p \in Pillar : refreshedAt[p] = Never}
  <2>1. \A p \in Pillar : p \in ListOverduePillars(refreshedAt, Epoch) <=> refreshedAt[p] = Never
    BY <1>2, OverduePillars
  <2> QED
    BY <2>1 DEF ListOverduePillars
<1> QED
  BY <1>2, <1>3 DEF PlannerInv, DataKeepsFresh

\* For any hours at which someone asks: a caller that asks with the time once a
\* tick works on no data older than two intervals and a tick, no pillar that was
\* never fetched escapes it, and a pillar is fresh until its schedule says
\* otherwise.  (checkStaleness, listOverduePillars, buildRefreshSchedule)
THEOREM PlannerKeepsFresh == PlannerSpec => []DataKeepsFresh
  BY PlannerInitially, PlannerKeepsInv, InvKeepsFresh, PTL DEF PlannerSpec

-----------------------------------------------------------------------------
(* The connector.                                                           *)

\* An index was defined after a knowledge base, which it still names unless that
\* was redefined; a job was requested when both and a source were there.
ConnectorInv ==
  /\ kb \in KnowledgeBase \union {None}
  /\ index # None => kb # None /\ index \in [ref : Index, kb : KnowledgeBase]
  /\ index # None /\ ~ moved => index.kb = kb
  /\ index = None => ~ moved
  /\ job # None => index # None /\ source # None
  /\ query # None => index # None
  /\ job # None /\ ~ job.astray => job.kb = job.ofIndex
  /\ moved \in BOOLEAN
  /\ workspace \in Configurations

LEMMA ConnectorInitially == ConnectorInit => ConnectorInv
  BY ConnectorAssumption DEF ConnectorInit, ConnectorInv

LEMMA ConnectorKeepsInv ==
  ASSUME ConnectorInv, ConnectorStep \/ UNCHANGED connectorVars
  PROVE  ConnectorInv'
<1>1. ASSUME NEW c \in Configurations, Configure(c) PROVE ConnectorInv'
  BY <1>1 DEF Configure, ConnectorInv
<1>2. ASSUME NEW r \in KnowledgeBase, DefineKnowledgeBase(r) PROVE ConnectorInv'
  BY <1>2, ConnectorAssumption DEF DefineKnowledgeBase, ConnectorInv
<1>3. ASSUME NEW r \in Index, DefineIndex(r) PROVE ConnectorInv'
  <2>1. index' = [ref |-> r, kb |-> kb] /\ index' \in [ref : Index, kb : KnowledgeBase] /\ index'.kb = kb
    BY <1>3 DEF DefineIndex, ConnectorInv
  <2> QED
    BY <1>3, <2>1, ConnectorAssumption DEF DefineIndex, ConnectorInv
<1>4. CASE RegisterSource
  <2>1. source' # None
    BY <1>4, ConnectorAssumption DEF RegisterSource, ConnectorInv, Configurations
  <2> QED
    BY <1>4, <2>1 DEF RegisterSource, ConnectorInv
<1>5. ASSUME NEW b \in Batch, RequestIndexing(b) PROVE ConnectorInv'
  <2>1. job'.kb = kb /\ job'.ofIndex = index.kb /\ job'.astray = moved
    BY <1>5 DEF RequestIndexing
  <2> QED
    BY <1>5, <2>1 DEF RequestIndexing, ConnectorInv
<1>6. CASE BuildQuery
  BY <1>6 DEF BuildQuery, ConnectorInv
<1>7. CASE UNCHANGED connectorVars
  BY <1>7 DEF connectorVars, ConnectorInv
<1> QED
  BY <1>1, <1>2, <1>3, <1>4, <1>5, <1>6, <1>7 DEF ConnectorStep

\* In whatever order and however often the builders are called: what is reported
\* ready rests on what it needs, and a job does not index astray unless the
\* knowledge base was redefined after the index.  (summarizeConnectorReadiness)
THEOREM ConnectorReadyInOrder == ConnectorSpec => []ReadyInOrder
<1>1. ConnectorInv => ReadyInOrder
  BY DEF ConnectorInv, ReadyInOrder, Readiness
<1> QED
  BY <1>1, ConnectorInitially, ConnectorKeepsInv, PTL DEF ConnectorSpec
-----------------------------------------------------------------------------
(* The webhook receiver.                                                    *)

\* What is known of the notifications never changes; a trigger is the one of its
\* change, whose notification was not refused.
WebhookInv ==
  /\ notification \in [Change -> Notification]
  /\ \A c, d \in Change : c # d /\ Identified(notification[c]) => notification[c] # notification[d]
  /\ pending \subseteq Change /\ accepted \subseteq Change
  /\ \A t \in triggers : /\ t.change \in Change /\ t.key = WebhookKey(notification[t.change])
                         /\ notification[t.change].trusted
  /\ AcceptedIsAccounted

\* A delivery is answered with 202 for a post whose notifications can be mapped.
LEMMA AnswerOfDelivery ==
  ASSUME NEW b, NEW m,
         HandleRequest([validationToken |-> FALSE, method |-> m, batch |-> b]).status = 202
  PROVE  LET answer == HandleRequest([validationToken |-> FALSE, method |-> m, batch |-> b])
             valid  == {i \in DOMAIN b : b[i] \notin Refused(b)}
         IN  /\ answer.triggers = [i \in valid |-> WebhookTrigger(b[i])]
             /\ answer.invalid = Refused(b)
  BY DEF HandleRequest, Answer

\* For every new trigger the caller has one of its key, and only new ones are added.
LEMMA KeptTriggers ==
  ASSUME NEW n \in Nat, NEW new, DOMAIN new \subseteq 1..n
  PROVE  /\ triggers \subseteq Kept(new)
         /\ \A t \in Kept(new) : t \in triggers \/ \E i \in DOMAIN new : t = new[i]
         /\ \A i \in DOMAIN new : \E t \in Kept(new) : t.key = new[i].key
<1>1. ASSUME NEW i \in DOMAIN new PROVE \E t \in Kept(new) : t.key = new[i].key
  <2>1. CASE \E t \in triggers : t.key = new[i].key
    BY <2>1 DEF Kept
  <2>2. CASE \A t \in triggers : t.key # new[i].key
    <3> DEFINE S == {k \in DOMAIN new : new[k].key = new[i].key}
    <3>1. PICK j \in S : \A k \in S : j <= k
      <4>1. S \subseteq Nat /\ S # {}
        OBVIOUS
      <4> QED
        BY <4>1, LeastNat
    <3>2. \A k \in DOMAIN new : k < j => new[k].key # new[j].key
      BY <3>1
    <3>3. new[j] \in Kept(new) /\ new[j].key = new[i].key
      BY <2>2, <3>1, <3>2 DEF Kept
    <3> QED
      BY <3>3
  <2> QED
    BY <2>1, <2>2
<1> QED
  BY <1>1 DEF Kept

\* Two notifications that are trusted and give one key are one, if it is identified.
LEMMA KeyIdentifies ==
  ASSUME NEW n \in Notification, NEW o \in Notification, n.trusted, o.trusted,
         Identified(n), WebhookKey(o) = WebhookKey(n)
  PROVE  o = n
<1>1. o.scope = n.scope /\ o.subscriptionId = n.subscriptionId /\ o.eventId = n.eventId
  BY DEF WebhookKey, Default, Identified
<1>2. o.trusted = n.trusted
  BY Zenon DEF Notification
<1> QED
  BY <1>1, <1>2 DEF Notification

LEMMA WebhookInitially == WebhookInit => WebhookInv
  BY DEF WebhookInit, WebhookInv, AcceptedIsAccounted

LEMMA DeliverKeepsInv ==
  ASSUME WebhookInv, NEW b \in Deliveries, NEW m, NEW answered, Deliver(b, m, answered)
  PROVE  WebhookInv'
<1> DEFINE answer == HandleRequest([validationToken |-> FALSE, method |-> m, batch |-> b])
           valid  == {i \in DOMAIN b : b[i] \notin Refused(b)}
           new    == [i \in valid |-> WebhookTrigger(b[i])]
<1>1. PICK n \in Nat : b \in [1..n -> pending]
  BY DEF Deliveries
<1>2. /\ triggers' = Kept(new) /\ invalid' = invalid \union Refused(b)
      /\ accepted' = accepted \union Range(b)
      /\ pending' \subseteq pending /\ pending \ pending' \subseteq Range(b)
      /\ notification' = notification
  <2>1. /\ answer.status = 202 /\ notification' = notification
        /\ triggers' = Kept(answer.triggers) /\ invalid' = invalid \union answer.invalid
        /\ accepted' = accepted \union Range(b)
        /\ pending' = pending \ Range(b) \/ pending' = pending
    BY Zenon DEF Deliver
  <2>2. answer.triggers = new /\ answer.invalid = Refused(b)
    <3>1. HandleRequest([validationToken |-> FALSE, method |-> m, batch |-> b]).status = 202
      BY <2>1
    <3> QED
      BY <3>1, AnswerOfDelivery
  <2> QED
    BY <2>1, <2>2
<1>3. /\ Range(b) \subseteq Change /\ Range(b) = {b[i] : i \in DOMAIN b}
      /\ Refused(b) \subseteq Range(b) /\ \A c \in Range(b) \ Refused(b) : notification[c].trusted
  BY <1>1 DEF WebhookInv, Refused, Range
<1>4. /\ DOMAIN new \subseteq 1..n
      /\ \A i \in DOMAIN new : /\ new[i].change = b[i] /\ new[i].key = WebhookKey(notification[b[i]])
                               /\ b[i] \in Range(b) \ Refused(b)
  BY <1>1, <1>3 DEF WebhookTrigger
<1> HIDE DEF new, valid, answer
<1>5. ASSUME NEW t \in Kept(new)
      PROVE  /\ t.change \in Change /\ t.key = WebhookKey(notification[t.change])
             /\ notification[t.change].trusted
             /\ t \in triggers \/ t.change \in Range(b)
  BY <1>3, <1>4, KeptTriggers DEF WebhookInv
<1>6. ASSUME NEW c \in Range(b), c \notin Refused(b), Identified(notification[c])
      PROVE  \E t \in Kept(new) : t.change = c
  <2>1. PICK i \in DOMAIN new : b[i] = c
    BY <1>3, <1>6 DEF new, valid
  <2>2. PICK t \in Kept(new) : t.key = new[i].key
    BY <1>4, KeptTriggers
  <2>3. WebhookKey(notification[t.change]) = WebhookKey(notification[c])
    BY <1>4, <1>5, <2>1, <2>2
  <2>4. /\ notification[t.change] \in Notification /\ notification[c] \in Notification
        /\ notification[t.change].trusted /\ notification[c].trusted
    BY <1>3, <1>5, <1>6 DEF WebhookInv
  <2>5. notification[t.change] = notification[c]
    BY <1>6, <2>3, <2>4, KeyIdentifies
  <2> QED
    BY <1>3, <1>5, <1>6, <2>5 DEF WebhookInv
<1>7. AcceptedIsAccounted'
  <2>1. \A c \in accepted' : \/ c \in invalid'
                             \/ \E t \in triggers' : t.change = c
                             \/ ~ Identified(notification'[c])
    <3>1. triggers \subseteq triggers'
      BY <1>2, <1>4, KeptTriggers
    <3> QED
      BY <1>2, <1>6, <3>1 DEF WebhookInv, AcceptedIsAccounted
  <2>2. invalid' \union {t.change : t \in triggers'} \subseteq accepted'
    BY <1>2, <1>3, <1>5 DEF WebhookInv, AcceptedIsAccounted
  <2>3. Change \ pending' \subseteq accepted'
    BY <1>2 DEF WebhookInv, AcceptedIsAccounted
  <2> QED
    BY <2>1, <2>2, <2>3 DEF AcceptedIsAccounted, Identified
<1> QED
  BY <1>2, <1>3, <1>5, <1>7 DEF WebhookInv, WebhookKey, Identified

\* For any changes, ids and batches: a change of an answered delivery is listed as
\* invalid, or the caller has its trigger, or it carries no complete identity; a
\* change that was in no answered delivery left no trigger and no entry.
\* (createWebhookReceiver, buildTriggerIdempotencyKey)
THEOREM WebhookAccounts == WebhookSpec => []AcceptedIsAccounted
<1>1. ASSUME WebhookInv, WebhookStep \/ UNCHANGED webhookVars PROVE WebhookInv'
  <2>1. CASE Subscribe
    BY <1>1, <2>1 DEF Subscribe, WebhookInv, AcceptedIsAccounted, WebhookKey, Identified
  <2>2. CASE UNCHANGED webhookVars
    BY <1>1, <2>2 DEF webhookVars, WebhookInv, AcceptedIsAccounted, WebhookKey, Identified
  <2> QED
    BY <1>1, <2>1, <2>2, DeliverKeepsInv DEF WebhookStep
<1>2. WebhookInv => AcceptedIsAccounted
  BY DEF WebhookInv
<1> QED
  BY <1>1, <1>2, WebhookInitially, PTL DEF WebhookSpec
-----------------------------------------------------------------------------
(* Staging and handoff.                                                     *)

Readable(a) ==
  \/ \E kept \in store : kept.path = a.path /\ kept.hash = a.hash
  \/ a.expiresAt <= instant
  \/ Replaced(a)

\* A batch has sources, all staged under the scope in its id, and their contents.
FromItsSources(batch) ==
  /\ batch.sources # {}
  /\ \A a \in batch.sources : a \in staged /\ a.scope = batch.id[1]
  /\ batch.documents = {a.hash : a \in batch.sources}
  /\ batch.id[2] = batch.documents

\* What was staged lies under the path of its scope, instant and name, and is
\* readable whether it was handed off or not; a batch is made of what was staged.
StagingInv ==
  /\ instant \in Nat
  /\ store \subseteq staged
  /\ \A a \in staged : /\ a.at \in Nat /\ a.expiresAt = a.at + Retention
                       /\ a.path = RawStoragePath(a.scope, a.at, a.name)
                       /\ Readable(a)
  /\ \A batch \in batches : FromItsSources(batch)
  /\ LatencyAddsUp

LEMMA MaxWithZero ==
  ASSUME NEW x \in Int
  PROVE  Max({x, 0}) = IF x > 0 THEN x ELSE 0
<1> DEFINE m == IF x > 0 THEN x ELSE 0
<1>1. m \in {x, 0} /\ \A y \in {x, 0} : m >= y
  OBVIOUS
<1>2. \A k \in {x, 0} : (\A y \in {x, 0} : k >= y) => k = m
  OBVIOUS
<1> QED
  BY <1>1, <1>2 DEF Max

LEMMA ReportAddsUp ==
  ASSUME NEW received \in Int, NEW started \in Int, NEW completed \in Int, NEW documents,
         report' = RuntimeReport(received, started, completed, documents)
  PROVE  LatencyAddsUp'
<1>1. /\ started - received \in Int /\ completed - started \in Int /\ completed - received \in Int
  OBVIOUS
<1>2. /\ report'.toStart = IF started - received > 0 THEN started - received ELSE 0
      /\ report'.processing = IF completed - started > 0 THEN completed - started ELSE 0
      /\ report'.endToEnd = IF completed - received > 0 THEN completed - received ELSE 0
  BY <1>1, MaxWithZero DEF RuntimeReport
<1> QED
  BY <1>2 DEF LatencyAddsUp

LEMMA StagingInitially == StagingInit => StagingInv
<1>1. 0 \in Int /\ 0 - 0 = 0 /\ Max({0, 0}) = 0
  BY MaxWithZero
<1> QED
  BY <1>1 DEF StagingInit, StagingInv, RuntimeReport, LatencyAddsUp

\* A batch made of staged artifacts of one scope, whatever else is staged with it.
LEMMA BatchFromSources ==
  ASSUME NEW scope, NEW artifacts \in SUBSET staged', artifacts # {},
         \A a \in artifacts : a.scope = scope
  PROVE  FromItsSources(FoundryHandoffBatch(scope, artifacts))'
<1> DEFINE batch == FoundryHandoffBatch(scope, artifacts)
<1>1. /\ batch.sources = artifacts /\ batch.documents = {a.hash : a \in artifacts}
      /\ batch.id = <<scope, batch.documents>>
  BY DEF FoundryHandoffBatch
<1>2. batch.id[1] = scope /\ batch.id[2] = batch.documents
  BY <1>1
<1> HIDE DEF batch
<1>3. FromItsSources(batch)'
  BY <1>1, <1>2 DEF FromItsSources
<1> QED
  BY <1>3 DEF batch

\* Writing to raw storage replaces an artifact of one path, and no other.
LEMMA StagesReadable ==
  ASSUME StagingInv, NEW scope, NEW name, NEW content,
         instant' = instant, LatencyAddsUp',
         store' = Written(store, RawStagedArtifact(scope, instant, name, content)),
         staged' = staged \union {RawStagedArtifact(scope, instant, name, content)},
         \A batch \in batches' \ batches : FromItsSources(batch)'
  PROVE  StagingInv'
<1> DEFINE new == RawStagedArtifact(scope, instant, name, content)
<1>1. /\ new.scope = scope /\ new.name = name /\ new.at = instant /\ new.hash = content
      /\ new.path = RawStoragePath(scope, instant, name) /\ new.expiresAt = instant + Retention
  BY DEF RawStagedArtifact
<1>2. /\ store' = {a \in store : a.path # new.path} \union {new}
      /\ staged' = staged \union {new}
  BY DEF Written
<1> HIDE DEF new
<1>3. ASSUME NEW a \in staged PROVE Readable(a)'
  <2>1. CASE a.expiresAt <= instant \/ Replaced(a)
    BY <1>2, <2>1 DEF Readable, Replaced
  <2>2. CASE \E kept \in store : kept.path = a.path /\ kept.hash = a.hash
    <3>1. CASE a.path # new.path
      BY <1>2, <2>2, <3>1 DEF Readable
    <3>2. CASE a.path = new.path /\ new.hash = a.hash
      BY <1>2, <3>2 DEF Readable
    <3>3. CASE a.path = new.path /\ new.hash # a.hash
      BY <1>1, <1>2, <1>3, <3>3 DEF Readable, Replaced, StagingInv, RawStoragePath
    <3> QED
      BY <3>1, <3>2, <3>3
  <2> QED
    BY <1>3, <2>1, <2>2 DEF StagingInv, Readable
<1>4. ASSUME NEW a, a = new PROVE Readable(a)'
  BY <1>2, <1>4 DEF Readable
<1>5. \A batch \in batches' : FromItsSources(batch)'
  BY <1>2 DEF StagingInv, FromItsSources
<1> QED
  BY <1>1, <1>2, <1>3, <1>4, <1>5 DEF StagingInv

LEMMA StagingKeepsInv ==
  ASSUME StagingInv, StagingStep \/ UNCHANGED stagingVars
  PROVE  StagingInv'
<1>1. CASE InstantPasses
  <2>1. /\ instant' = instant + 1 /\ staged' = staged /\ report' = report
        /\ store' = {a \in store : a.expiresAt > instant'}
    BY <1>1 DEF InstantPasses
  <2>2. ASSUME NEW a \in staged PROVE Readable(a)'
    <3>1. a.expiresAt \in Int
      BY <2>2, RuntimeAssumption DEF StagingInv
    <3>2. ASSUME NEW kept \in store, kept.path = a.path PROVE kept.expiresAt = a.expiresAt
      BY <2>2, <3>2 DEF StagingInv, RawStoragePath
    <3> QED
      BY <2>1, <2>2, <3>1, <3>2 DEF StagingInv, Readable, Replaced
  <2> QED
    BY <1>1, <2>1, <2>2 DEF InstantPasses, StagingInv, FromItsSources, LatencyAddsUp
<1>2. ASSUME NEW s \in Scope, NEW c \in Content, ScenarioRuntime(s, c) PROVE StagingInv'
  <2>1. instant' = instant /\ LatencyAddsUp'
    BY <1>2, ReportAddsUp DEF ScenarioRuntime, StagingInv
  <2>2. CASE UNCHANGED <<store, staged, batches>>
    BY <2>1, <2>2 DEF StagingInv, Readable, Replaced, FromItsSources
  <2>3. CASE ~ UNCHANGED <<store, staged, batches>>
    <3>1. PICK artifact : artifact = RawStagedArtifact(s, instant, "scenario-library-snapshot", c)
      OBVIOUS
    <3>2. /\ store' = Written(store, artifact) /\ staged' = staged \union {artifact}
          /\ batches' = batches \union {FoundryHandoffBatch(s, {artifact})}
          /\ artifact.scope = s
      BY <1>2, <2>3, <3>1 DEF ScenarioRuntime, RawStagedArtifact
    <3>3. {artifact} \in SUBSET staged' /\ {artifact} # {} /\ \A a \in {artifact} : a.scope = s
      BY <3>2
    <3>4. FromItsSources(FoundryHandoffBatch(s, {artifact}))'
      BY <3>3, BatchFromSources
    <3>5. ASSUME NEW batch \in batches' \ batches PROVE FromItsSources(batch)'
      BY <3>2, <3>4, <3>5
    <3> QED
      BY <2>1, <3>1, <3>2, <3>5, StagesReadable
  <2> QED
    BY <2>2, <2>3
<1>3. ASSUME NEW s \in Scope, NEW c \in Content, NEW n \in Name, Stage(s, n, c) PROVE StagingInv'
  <2>1. LatencyAddsUp' /\ batches' = batches
    BY <1>3 DEF Stage, StagingInv, LatencyAddsUp
  <2> QED
    BY <1>3, <2>1, StagesReadable DEF Stage
<1>4. ASSUME NEW artifacts \in SUBSET store, \A a, b \in artifacts : a.scope = b.scope,
             NEW received \in 0..MaxInstant, NEW started \in 0..MaxInstant,
             HandOff(artifacts, received, started)
      PROVE  StagingInv'
  <2>1. UNCHANGED <<instant, store, staged>> /\ LatencyAddsUp'
    BY <1>4, ReportAddsUp, RuntimeAssumption DEF HandOff, StagingInv
  <2> DEFINE scope == (CHOOSE a \in artifacts : TRUE).scope
             batch == FoundryHandoffBatch(scope, artifacts)
  <2>2. artifacts # {} /\ batches' = batches \union {batch}
    BY <1>4 DEF HandOff
  <2>3. \A a \in artifacts : a.scope = scope
    BY <1>4, <2>2
  <2> HIDE DEF scope
  <2>4. FromItsSources(FoundryHandoffBatch(scope, artifacts))'
    BY <1>4, <2>1, <2>2, <2>3, BatchFromSources DEF StagingInv
  <2>5. \A b \in batches' : FromItsSources(b)'
    BY <2>1, <2>2, <2>4 DEF StagingInv, FromItsSources, FoundryHandoffBatch
  <2> QED
    BY <2>1, <2>5 DEF StagingInv, Readable, Replaced
<1>5. CASE UNCHANGED stagingVars
  BY <1>5 DEF stagingVars, StagingInv, Readable, Replaced, FromItsSources, LatencyAddsUp
<1> QED
  BY <1>1, <1>2, <1>3, <1>4, <1>5 DEF StagingStep

\* For any artifacts, names and retention: what a batch refers to was staged, and is
\* readable until it expires, unless it was replaced at its very path; a batch holds
\* the contents of its sources, of one scope, and is told by its id; latencies add up.
\* (planRawStorageTarget, createRawStagedArtifact, buildFoundryHandoffBatch,
\* summarizeIngestionRuntime)
THEOREM StagingHoldsHandoff == StagingSpec => []HandoffHolds
<1>1. ASSUME StagingInv PROVE HandoffHolds
  <2>1. HandoffReadable
    BY <1>1 DEF StagingInv, HandoffReadable, Readable, FromItsSources
  <2>2. BatchesAreTheirSources
    BY <1>1 DEF StagingInv, BatchesAreTheirSources, FromItsSources
  <2> QED
    BY <1>1, <2>1, <2>2 DEF HandoffHolds, StagingInv
<1> QED
  BY <1>1, StagingInitially, StagingKeepsInv, PTL DEF StagingSpec
-----------------------------------------------------------------------------
(* Alerts.                                                                  *)

MetricsInv == tenantMetrics \in [DOMAIN Reading -> Int \union {NoReading}]

LEMMA MetricsStayMeasured ==
  ASSUME MetricsInv, [AlertsNext]_tenantMetrics
  PROVE  MetricsInv'
  BY ReadingAssumption DEF MetricsInv, AlertsNext, Measure

\* Every threshold is one side's: the side on which its metric gets worse.
LEMMA ThresholdsSide ==
  ASSUME NEW t \in BuildDefaultThresholds
  PROVE  /\ t.threshold \in Nat /\ t.severity \in 1..4
         /\ \/ t.operator = "gt" /\ IsWorseUpwards(t.metric)
            \/ t.operator = "lt" /\ ~ IsWorseUpwards(t.metric)
  BY DEF BuildDefaultThresholds, Threshold, IsWorseUpwards

\* The band above, critical at most.
LEMMA BandAbove ==
  ASSUME NEW s \in 1..4
  PROVE  Min({4, s + 1}) \in s..4
<1> DEFINE m == IF s < 4 THEN s + 1 ELSE 4
<1>1. m \in {4, s + 1} /\ \A y \in {4, s + 1} : m <= y
  OBVIOUS
<1>2. \A k \in {4, s + 1} : (\A y \in {4, s + 1} : k <= y) => k = m
  OBVIOUS
<1>3. Min({4, s + 1}) = m
  BY <1>1, <1>2 DEF Min
<1> QED
  BY <1>3

\* On the side that crossed, a value that is no worse is no farther away.
LEMMA SeverityFollowsValue ==
  ASSUME NEW t \in BuildDefaultThresholds, NEW before \in Int, NEW after \in Int,
         IF IsWorseUpwards(t.metric) THEN after <= before ELSE before <= after,
         Crosses(t.operator, after, t.threshold)
  PROVE  /\ Crosses(t.operator, before, t.threshold)
         /\ ClassifyAlertSeverity(t, after) <= ClassifyAlertSeverity(t, before)
<1>1. /\ t.threshold \in Nat /\ t.severity \in 1..4 /\ Min({4, t.severity + 1}) \in t.severity..4
      /\ "lt" # "gt"
  BY ThresholdsSide, BandAbove
<1>2. Crosses(t.operator, before, t.threshold)
  BY <1>1, ThresholdsSide DEF Crosses
<1>3. 2 * Distance(after, t.threshold) > t.threshold => 2 * Distance(before, t.threshold) > t.threshold
  BY <1>1, <1>2, ThresholdsSide DEF Crosses, Distance
<1> QED
  BY <1>1, <1>2, <1>3 DEF ClassifyAlertSeverity

LEMMA AlertFollowsMetric ==
  ASSUME MetricsInv, MetricsInv', Improved(tenantMetrics, tenantMetrics'),
         NEW t \in BuildDefaultThresholds
  PROVE  Alert(t, tenantMetrics') <= Alert(t, tenantMetrics)
<1> DEFINE m == t.metric  before == tenantMetrics[m]  after == tenantMetrics'[m]
<1>1. /\ DOMAIN tenantMetrics = DOMAIN Reading /\ DOMAIN tenantMetrics' = DOMAIN Reading
      /\ t.severity \in 1..4 /\ Min({4, t.severity + 1}) \in t.severity..4
  BY ThresholdsSide, BandAbove DEF MetricsInv
<1>2. Alert(t, tenantMetrics) \in 0..4 /\ Alert(t, tenantMetrics') \in 0..4
  BY <1>1 DEF Alert, ClassifyAlertSeverity
<1>3. CASE m \notin DOMAIN Reading
  BY <1>1, <1>3 DEF Alert
<1>4. CASE m \in DOMAIN Reading /\ after = before
  BY <1>1, <1>2, <1>4 DEF Alert
<1>5. CASE m \in DOMAIN Reading /\ after # before
  <2>1. before \in Int /\ after \in Int /\ before # NoReading
        /\ IF IsWorseUpwards(m) THEN after <= before ELSE before <= after
    BY <1>1, <1>5, ReadingAssumption DEF Improved, MetricsInv
  <2>2. CASE Crosses(t.operator, after, t.threshold)
    BY <1>1, <1>5, <2>1, <2>2, SeverityFollowsValue, ReadingAssumption DEF Alert
  <2>3. CASE ~ Crosses(t.operator, after, t.threshold)
    BY <1>2, <2>3 DEF Alert
  <2> QED
    BY <2>2, <2>3
<1> QED
  BY <1>3, <1>4, <1>5

\* For any readings: a metric that improves raises no alert and makes none more
\* severe.  (evaluateThresholds, classifyAlertSeverity, buildThresholdSummary)
THEOREM AlertsFollowMetrics == AlertsSpec => ImprovementRaisesNoAlert
<1> DEFINE NoAlert ==
      Improved(tenantMetrics, tenantMetrics') =>
        /\ \A t \in BuildDefaultThresholds : Alert(t, tenantMetrics') <= Alert(t, tenantMetrics)
        /\ BuildThresholdSummary(tenantMetrics').requiresAction =>
             BuildThresholdSummary(tenantMetrics).requiresAction
<1>1. AlertsInit => MetricsInv
  BY DEF AlertsInit, MetricsInv
<1>2. ASSUME MetricsInv, MetricsInv', [AlertsNext]_tenantMetrics PROVE [NoAlert]_tenantMetrics
  <2> SUFFICES ASSUME Improved(tenantMetrics, tenantMetrics') PROVE NoAlert
    OBVIOUS
  <2>1. \A t \in BuildDefaultThresholds : Alert(t, tenantMetrics') <= Alert(t, tenantMetrics)
    BY <1>2, AlertFollowsMetric
  <2>2. ASSUME NEW t \in BuildDefaultThresholds
        PROVE  Alert(t, tenantMetrics) \in Int /\ Alert(t, tenantMetrics') \in Int
    <3>1. t.severity \in 1..4 /\ Min({4, t.severity + 1}) \in t.severity..4
      BY ThresholdsSide, BandAbove
    <3> QED
      BY <3>1 DEF Alert, ClassifyAlertSeverity
  <2>3. \A t \in BuildDefaultThresholds :
          /\ Alert(t, tenantMetrics') > 0 => Alert(t, tenantMetrics) > 0
          /\ Alert(t, tenantMetrics') >= 3 => Alert(t, tenantMetrics) >= 3
    BY <2>1, <2>2
  <2>4. BuildThresholdSummary(tenantMetrics').requiresAction =>
          BuildThresholdSummary(tenantMetrics).requiresAction
    BY <2>3 DEF BuildThresholdSummary
  <2> QED
    BY <2>1, <2>4
<1> QED
  BY <1>1, <1>2, MetricsStayMeasured, PTL DEF AlertsSpec, ImprovementRaisesNoAlert
-----------------------------------------------------------------------------
(* Replay recovery.                                                         *)

\* The failure that lost an item: the last that was no later, and not resumed before.
Lost(i, item) ==
  /\ i \in DOMAIN failures
  /\ failures[i].failedAt <= item
  /\ \A j \in DOMAIN failures : failures[j].failedAt <= item => j <= i
  /\ failures[i].resumedAt # Unknown => item < failures[i].resumedAt

Failure == [failedAt : Nat, resumedAt : Nat \union {Unknown}]

ReplayTyped == clock \in Nat /\ cap \in Int /\ failures \in Seq(Failure)

\* Failures are listed in order, each after the resumption that was noticed of the
\* one before.
FailuresInOrder ==
  /\ \A i \in DOMAIN failures :
       /\ failures[i].failedAt <= clock
       /\ failures[i].resumedAt # Unknown => failures[i].resumedAt <= clock
  /\ \A i, j \in DOMAIN failures : i < j =>
       /\ failures[i].failedAt <= failures[j].failedAt
       /\ failures[i].resumedAt # Unknown => failures[i].resumedAt <= failures[j].failedAt
  /\ down => failures # <<>> /\ failures[Len(failures)].resumedAt = Unknown

\* What is missed was lost by a failure, and what a replay left out the cap cut off.
MissedWasLost ==
  /\ missed \subseteq 0..(clock - 1)
  /\ \A item \in missed : \E i \in DOMAIN failures : Lost(i, item)
  /\ verdict.at \in 0..clock
  /\ \A item \in missed : item < verdict.at =>
       \/ item \in recovered
       \/ \E i \in DOMAIN failures : Lost(i, item) /\ item - failures[i].failedAt >= CapInstants

\* A batch repeats itself only if an outage before the last one has no noticed end:
\* that of the last may yet be noticed.
BlockedByUnnoticed ==
  verdict.at > 0 /\ verdict.status = "blocked" =>
    \E i \in DOMAIN failures : i < Len(failures) /\ failures[i].resumedAt = Unknown

ReplayInv == ReplayTyped /\ FailuresInOrder /\ MissedWasLost /\ BlockedByUnnoticed

LEMMA FailuresTyped ==
  ASSUME ReplayTyped
  PROVE  /\ Len(failures) \in Nat /\ DOMAIN failures = 1..Len(failures)
         /\ \A i \in DOMAIN failures : /\ failures[i].failedAt \in Nat
                                       /\ failures[i].resumedAt # Unknown => failures[i].resumedAt \in Nat
         /\ CapInstants \in Nat
<1>1. CapInstants \in Nat
  <2>1. cap \in Int
    BY DEF ReplayTyped
  <2> QED
    BY <2>1 DEF CapInstants
<1>2. /\ Len(failures) \in Nat /\ DOMAIN failures = 1..Len(failures)
      /\ \A i \in DOMAIN failures : failures[i] \in Failure
  BY DEF ReplayTyped
<1> QED
  BY <1>1, <1>2 DEF Failure

LEMMA FailureThatLost ==
  ASSUME NEW item, NEW i \in DOMAIN failures, DOMAIN failures \subseteq Nat, Lost(i, item)
  PROVE  FailureOf(item) = i
  BY DEF FailureOf, Lost

LEMMA HalfOfItself == \A n \in Nat \ {0} : n \div (2 * n) = 0
  OBVIOUS

\* Windows that do not overlap make a batch that does not repeat itself.
LEMMA DisjointWindowsAreReady ==
  ASSUME ReplayInv, \A i \in DOMAIN failures : i < Len(failures) => failures[i].resumedAt # Unknown
  PROVE  EvaluateReplayDedupSafety(PlanReplayWindows) = "ready"
<1> DEFINE windows == PlanReplayWindows
           batch   == ReplayBatch(windows)
           f       == [entry \in batch |-> entry[2]]
<1>1. /\ DOMAIN windows = 1..Len(failures) /\ Len(failures) \in Nat
      /\ \A i \in DOMAIN windows : /\ windows[i].start = failures[i].failedAt
                                   /\ windows[i].end = EndOf(failures[i])
      /\ \A i \in DOMAIN failures : failures[i].failedAt \in Nat
  <2>1. Len(failures) \in Nat /\ DOMAIN failures = 1..Len(failures)
        /\ \A i \in DOMAIN failures : failures[i].failedAt \in Nat
    BY FailuresTyped DEF ReplayInv
  <2> QED
    BY <2>1 DEF PlanReplayWindows
<1>2. IsFiniteSet(batch)
  <2>1. IsFiniteSet(1..Len(failures)) /\ IsFiniteSet(0..(clock - 1))
    <3>1. clock - 1 \in Int
      BY DEF ReplayInv, ReplayTyped
    <3> QED
      BY <1>1, <3>1, FS_Interval
  <2>2. IsFiniteSet((1..Len(failures)) \X (0..(clock - 1)))
    BY <2>1, FS_Product
  <2>3. batch \subseteq (1..Len(failures)) \X (0..(clock - 1))
    <3>1. batch \subseteq (DOMAIN windows) \X (0..(clock - 1))
      BY Zenon DEF ReplayBatch
    <3>2. DOMAIN windows = 1..Len(failures)
      BY <1>1
    <3> QED
      BY <3>1, <3>2
  <2> QED
    BY <2>2, <2>3, FS_Subset
<1>3. ASSUME NEW i \in DOMAIN failures, NEW j \in DOMAIN failures, i < j
      PROVE  windows[i].end <= windows[j].start
  <2>1. /\ i < Len(failures) /\ failures[i].resumedAt # Unknown
        /\ failures[i].resumedAt \in Nat /\ failures[i].resumedAt <= failures[j].failedAt
        /\ failures[i].failedAt \in Nat /\ CapInstants \in Int
    <3>1. i \in 1..Len(failures) /\ j \in 1..Len(failures)
      BY FailuresTyped DEF ReplayInv
    <3>2. i < Len(failures) /\ failures[i].resumedAt # Unknown
      BY <1>1, <1>3, <3>1
    <3> QED
      BY <1>3, <3>2, FailuresTyped DEF ReplayInv, FailuresInOrder
  <2>2. EndOf(failures[i]) <= failures[i].resumedAt
    BY <2>1 DEF EndOf
  <2> QED
    BY <1>1, <1>3, <2>1, <2>2 DEF EndOf
<1>4. ASSUME NEW e1 \in batch, NEW e2 \in batch, e1[2] = e2[2] PROVE e1 = e2
  <2>1. /\ e1 \in (DOMAIN windows) \X (0..(clock - 1)) /\ e2 \in (DOMAIN windows) \X (0..(clock - 1))
        /\ e1[2] \in windows[e1[1]].start..(windows[e1[1]].end - 1)
        /\ e2[2] \in windows[e2[1]].start..(windows[e2[1]].end - 1)
    BY Zenon DEF ReplayBatch
  <2>a. e1 \in (1..Len(failures)) \X (0..(clock - 1)) /\ e2 \in (1..Len(failures)) \X (0..(clock - 1))
    <3>1. DOMAIN windows = 1..Len(failures)
      BY <1>1
    <3> QED
      BY <2>1, <3>1
  <2>2. PICK i \in 1..Len(failures), k \in 0..(clock - 1) : e1 = <<i, k>>
    BY <2>a
  <2>3. PICK j \in 1..Len(failures), l \in 0..(clock - 1) : e2 = <<j, l>>
    BY <2>a
  <2>4. ~ (i < j) /\ ~ (j < i)
    <3> HIDE DEF windows
    <3>1. /\ \A h \in 1..Len(failures) : windows[h].start \in Int /\ windows[h].end \in Int
          /\ k = l /\ i \in DOMAIN failures /\ j \in DOMAIN failures
          /\ k \in windows[i].start..(windows[i].end - 1)
          /\ k \in windows[j].start..(windows[j].end - 1)
      <4>1. \A h \in 1..Len(failures) : windows[h].start \in Int /\ windows[h].end \in Int
        <5>1. ASSUME NEW h \in DOMAIN failures PROVE EndOf(failures[h]) \in Int
          <6>1. /\ failures[h].failedAt \in Nat /\ CapInstants \in Nat
                /\ failures[h].resumedAt # Unknown => failures[h].resumedAt \in Nat
            BY FailuresTyped DEF ReplayInv
          <6> QED
            BY <6>1 DEF EndOf
        <5> QED
          BY <1>1, <5>1, FailuresTyped DEF ReplayInv
      <4>2. e1[1] = i /\ e1[2] = k /\ e2[1] = j /\ e2[2] = l
        BY <2>2, <2>3
      <4>3. k = l
        BY <1>4, <4>2
      <4>4. k \in windows[i].start..(windows[i].end - 1) /\ l \in windows[j].start..(windows[j].end - 1)
        BY <2>1, <4>2
      <4>5. DOMAIN failures = 1..Len(failures)
        BY FailuresTyped DEF ReplayInv
      <4> QED
        BY <4>1, <4>3, <4>4, <4>5
    <3>2. ASSUME i < j PROVE FALSE
      <4>1. windows[i].end <= windows[j].start
        BY <1>3, <3>1, <3>2
      <4> QED
        BY <3>1, <4>1
    <3>3. ASSUME j < i PROVE FALSE
      <4>1. windows[j].end <= windows[i].start
        BY <1>3, <3>1, <3>3
      <4> QED
        BY <3>1, <4>1
    <3> QED
      BY <3>2, <3>3
  <2> QED
    BY <1>1, <1>4, <2>2, <2>3, <2>4
<1>5. f \in Surjection(batch, Replayed(windows)) /\ f \in Injection(batch, Replayed(windows))
  BY <1>4 DEF Replayed, Surjection, Injection, IsInjective
<1>6. Cardinality(batch) \in Nat /\ Cardinality(Replayed(windows)) = Cardinality(batch)
  BY <1>2, <1>5, FS_Surjection, FS_CardinalityType
<1> HIDE DEF batch, windows
<1>7. Cardinality(batch) # 0 => (20000 * 0 + Cardinality(batch)) \div (2 * Cardinality(batch)) = 0
  BY <1>6, HalfOfItself
<1> QED
  BY <1>6, <1>7 DEF EvaluateReplayDedupSafety, batch, windows

LEMMA ReplayInitially == ReplayInit => ReplayInv
<1> SUFFICES ASSUME ReplayInit PROVE ReplayInv
  OBVIOUS
<1>1. ReplayTyped
  BY ReplayAssumption DEF ReplayInit, ReplayTyped
<1>2. DOMAIN failures = {} /\ ~ down
  BY DEF ReplayInit
<1>3. FailuresInOrder
  BY <1>2, Zenon DEF FailuresInOrder
<1>4. MissedWasLost /\ BlockedByUnnoticed
  BY DEF ReplayInit, MissedWasLost, BlockedByUnnoticed
<1> QED
  BY <1>1, <1>3, <1>4 DEF ReplayInv

LEMMA ElapseKeepsInv == ReplayInv /\ Elapse => ReplayInv'
<1> SUFFICES ASSUME ReplayInv, Elapse PROVE ReplayInv'
  OBVIOUS
<1>1. /\ clock' = clock + 1 /\ failures' = failures /\ down' = down
      /\ recovered' = recovered /\ cap' = cap /\ verdict' = verdict
      /\ missed' = missed \/ (down /\ missed' = missed \union {clock})
  BY Zenon DEF Elapse, Unchanged
<1>2. ReplayTyped' /\ clock \in Nat
  BY <1>1 DEF ReplayInv, ReplayTyped
<1>3. FailuresInOrder'
  BY <1>1, <1>2, FailuresTyped DEF ReplayInv, FailuresInOrder
<1>4. \A i, item : Lost(i, item)' <=> Lost(i, item)
  BY <1>1 DEF Lost
<1>5. down => \E i \in DOMAIN failures : Lost(i, clock)
  <2> SUFFICES ASSUME down PROVE Lost(Len(failures), clock) /\ Len(failures) \in DOMAIN failures
    OBVIOUS
  <2>1. /\ Len(failures) \in Nat /\ DOMAIN failures = 1..Len(failures) /\ failures # <<>>
        /\ failures[Len(failures)].resumedAt = Unknown
        /\ \A i \in DOMAIN failures : failures[i].failedAt <= clock
    BY FailuresTyped DEF ReplayInv, FailuresInOrder
  <2>2. Len(failures) \in DOMAIN failures
    BY <2>1 DEF ReplayInv, ReplayTyped
  <2> QED
    BY <2>1, <2>2 DEF Lost
<1>6. MissedWasLost'
  <2>1. missed' \subseteq 0..(clock' - 1) /\ verdict'.at \in 0..clock'
    <3>1. missed \subseteq 0..(clock - 1) /\ verdict.at \in 0..clock
      BY DEF ReplayInv, MissedWasLost
    <3>2. missed' \subseteq missed \union {clock}
      BY <1>1, Zenon
    <3>3. clock' = clock + 1 /\ verdict' = verdict /\ clock \in Nat
      BY <1>1, <1>2
    <3> QED
      BY <3>1, <3>2, <3>3
  <2>2. \A item \in missed' : \E i \in DOMAIN failures' : Lost(i, item)'
    BY <1>1, <1>4, <1>5 DEF ReplayInv, MissedWasLost
  <2>3. \A item \in missed' : item < verdict'.at => item \in missed
    BY <1>1, <1>2 DEF ReplayInv, MissedWasLost
  <2>4. CapInstants' = CapInstants
    BY <1>1 DEF CapInstants
  <2> QED
    BY <1>1, <1>4, <2>1, <2>2, <2>3, <2>4 DEF ReplayInv, MissedWasLost
<1>7. BlockedByUnnoticed'
  BY <1>1 DEF ReplayInv, BlockedByUnnoticed
<1> QED
  BY <1>2, <1>3, <1>6, <1>7 DEF ReplayInv

\* Whatever becomes of the last failure, what an item was lost by stays.
LEMMA FailuresKeepMissed ==
  ASSUME ReplayInv, UNCHANGED <<clock, missed, recovered, cap, verdict>>, ReplayTyped',
         Len(failures) <= Len(failures'),
         \A i \in DOMAIN failures : /\ failures'[i].failedAt = failures[i].failedAt
                                    /\ \/ failures'[i].resumedAt = failures[i].resumedAt
                                       \/ i = Len(failures) /\ failures'[i].resumedAt = clock,
         \A i \in DOMAIN failures' : i \in DOMAIN failures \/ failures'[i].failedAt = clock
  PROVE  MissedWasLost' /\ BlockedByUnnoticed'
<1>1. /\ Len(failures) \in Nat /\ DOMAIN failures = 1..Len(failures)
      /\ Len(failures') \in Nat /\ DOMAIN failures' = 1..Len(failures')
      /\ \A i \in DOMAIN failures : failures[i].failedAt \in Nat
      /\ clock \in Nat /\ missed \subseteq 0..(clock - 1)
  BY FailuresTyped DEF ReplayInv, ReplayTyped, MissedWasLost
<1>2. ASSUME NEW item \in missed, NEW i \in DOMAIN failures, Lost(i, item) PROVE Lost(i, item)'
  <2>1. item \in Nat /\ item < clock
    BY <1>1, <1>2
  <2>2. \A j \in DOMAIN failures' : failures'[j].failedAt <= item => j \in DOMAIN failures
    BY <1>1, <2>1
  <2>3. failures'[i].resumedAt # Unknown => item < failures'[i].resumedAt
    BY <1>2, <2>1 DEF Lost
  <2>4. /\ i \in DOMAIN failures' /\ failures'[i].failedAt <= item
        /\ \A j \in DOMAIN failures : failures'[j].failedAt = failures[j].failedAt
    BY <1>1, <1>2 DEF Lost
  <2>5. \A j \in DOMAIN failures' : failures'[j].failedAt <= item => j <= i
    BY <1>2, <2>2, <2>4 DEF Lost
  <2> QED
    BY <2>3, <2>4, <2>5 DEF Lost
<1>3. CapInstants' = CapInstants
  BY DEF CapInstants
<1>4. MissedWasLost'
  <2>1. DOMAIN failures \subseteq DOMAIN failures'
    BY <1>1
  <2>2. \A item \in missed : \E i \in DOMAIN failures' : Lost(i, item)'
    BY <1>2, <2>1 DEF ReplayInv, MissedWasLost
  <2>3. ASSUME NEW item \in missed, NEW i \in DOMAIN failures, Lost(i, item),
               item - failures[i].failedAt >= CapInstants
        PROVE  \E k \in DOMAIN failures' : Lost(k, item)' /\ item - failures'[k].failedAt >= CapInstants'
    BY <1>2, <1>3, <2>1, <2>3
  <2> QED
    BY <2>2, <2>3 DEF ReplayInv, MissedWasLost
<1>5. BlockedByUnnoticed'
  BY <1>1 DEF ReplayInv, BlockedByUnnoticed
<1> QED
  BY <1>4, <1>5

LEMMA FailKeepsInv == ReplayInv /\ Fail => ReplayInv'
<1> SUFFICES ASSUME ReplayInv, Fail PROVE ReplayInv'
  OBVIOUS
<1> DEFINE n == Len(failures)  new == [failedAt |-> clock, resumedAt |-> Unknown]
<1>1. /\ failures' = Append(failures, new) /\ UNCHANGED <<clock, missed, recovered, cap, verdict>>
      /\ failures \in Seq(Failure) /\ new \in Failure /\ clock \in Nat
  BY DEF Fail, Unchanged, ReplayInv, ReplayTyped, Failure
<1>2. /\ n \in Nat /\ DOMAIN failures = 1..n /\ DOMAIN failures' = 1..(n + 1) /\ Len(failures') = n + 1
      /\ \A i \in 1..n : failures'[i] = failures[i]
      /\ failures'[n + 1].failedAt = clock /\ failures'[n + 1].resumedAt = Unknown
      /\ ReplayTyped'
  BY <1>1, FailuresTyped DEF ReplayInv, ReplayTyped
<1>3. FailuresInOrder'
  <2>1. \A i \in DOMAIN failures' : i \in 1..n \/ i = n + 1
    BY <1>2
  <2>2. failures' # <<>>
    BY <1>2
  <2> QED
    BY <1>1, <1>2, <2>1, <2>2, FailuresTyped DEF ReplayInv, FailuresInOrder
<1>4. MissedWasLost' /\ BlockedByUnnoticed'
  <2>1. \A i \in DOMAIN failures' : i \in DOMAIN failures \/ i = n + 1
    BY <1>2
  <2> QED
    BY <1>1, <1>2, <2>1, FailuresKeepMissed
<1> QED
  BY <1>2, <1>3, <1>4 DEF ReplayInv

LEMMA ResumeKeepsInv ==
  ASSUME ReplayInv, NEW noticed, Resume(noticed)
  PROVE  ReplayInv'
<1> DEFINE n == Len(failures)
<1>1. /\ down /\ down' = FALSE /\ UNCHANGED <<clock, missed, recovered, cap, verdict>>
      /\ failures' = failures \/ failures' = [failures EXCEPT ![Len(failures)].resumedAt = clock]
  BY Zenon DEF Resume, Unchanged
<1>2. /\ n \in Nat /\ DOMAIN failures = 1..n /\ clock \in Nat /\ failures \in Seq(Failure)
      /\ \A i \in 1..n : failures[i] \in Failure
  BY FailuresTyped DEF ReplayInv, ReplayTyped
<1>3. /\ failures' \in Seq(Failure) /\ Len(failures') = n /\ DOMAIN failures' = 1..n
      /\ \A i \in 1..n :
           /\ failures'[i].failedAt = failures[i].failedAt
           /\ \/ failures'[i].resumedAt = failures[i].resumedAt
              \/ i = n /\ failures'[i].resumedAt = clock
  <2>1. CASE failures' = failures
    BY <1>2, <2>1
  <2>2. CASE failures' = [failures EXCEPT ![Len(failures)].resumedAt = clock]
    <3> DEFINE last == [failures[n] EXCEPT !.resumedAt = clock]
    <3>1. n \in 1..n
      BY <1>1, <1>2 DEF ReplayInv, FailuresInOrder
    <3>2. last \in Failure /\ last.failedAt = failures[n].failedAt /\ last.resumedAt = clock
      BY <1>2, <3>1 DEF Failure
    <3>3. failures' = [failures EXCEPT ![n] = last]
      BY <2>2
    <3> HIDE DEF last
    <3>4. failures' \in Seq(Failure) /\ Len(failures') = n /\ DOMAIN failures' = 1..n
      BY <1>2, <3>1, <3>2, <3>3
    <3>5. \A i \in 1..n : failures'[i] = IF i = n THEN last ELSE failures[i]
      BY <1>2, <3>1, <3>3
    <3> QED
      BY <3>2, <3>4, <3>5
  <2> QED
    BY <1>1, <2>1, <2>2
<1>4. ReplayTyped'
  BY <1>1, <1>3 DEF ReplayInv, ReplayTyped
<1>5. FailuresInOrder'
  <2> DEFINE failed(i) == failures[i].failedAt  resumed(i) == failures[i].resumedAt
             failed1(i) == failures'[i].failedAt  resumed1(i) == failures'[i].resumedAt
  <2>1. /\ n \in Nat /\ clock \in Nat
        /\ \A i \in 1..n : /\ failed(i) \in Nat /\ failed(i) <= clock
                           /\ resumed(i) # Unknown => resumed(i) \in Nat /\ resumed(i) <= clock
    BY <1>2 DEF ReplayInv, FailuresInOrder, Failure
  <2>2. \A i, j \in 1..n : i < j => /\ failed(i) <= failed(j)
                                    /\ resumed(i) # Unknown => resumed(i) <= failed(j)
    BY <1>2 DEF ReplayInv, FailuresInOrder
  <2>3. \A i \in 1..n : /\ failed1(i) = failed(i)
                        /\ resumed1(i) = resumed(i) \/ (i = n /\ resumed1(i) = clock)
    BY <1>3
  <2> HIDE DEF n, failed, resumed, failed1, resumed1
  <2>4. \A i \in 1..n : failed1(i) <= clock /\ (resumed1(i) # Unknown => resumed1(i) <= clock)
    BY <2>1, <2>3
  <2>5. \A i, j \in 1..n : i < j => /\ failed1(i) <= failed1(j)
                                    /\ resumed1(i) # Unknown => resumed1(i) <= failed1(j)
    BY <2>1, <2>2, <2>3
  <2> QED
    BY <1>1, <1>3, <2>4, <2>5 DEF FailuresInOrder, failed1, resumed1
<1>6. MissedWasLost' /\ BlockedByUnnoticed'
  BY <1>1, <1>2, <1>3, <1>4, FailuresKeepMissed
<1> QED
  BY <1>4, <1>5, <1>6 DEF ReplayInv

\* A replay recovers what was lost, up to the cap.
LEMMA ReplayRecovers ==
  ASSUME ReplayInv, NEW item \in missed, NEW i \in DOMAIN failures, Lost(i, item)
  PROVE  item \in Replayed(PlanReplayWindows) \/ item - failures[i].failedAt >= CapInstants
<1> SUFFICES ASSUME ~ (item - failures[i].failedAt >= CapInstants)
             PROVE  item \in Replayed(PlanReplayWindows)
  OBVIOUS
<1>1. /\ item \in 0..(clock - 1) /\ failures[i].failedAt \in Nat /\ CapInstants \in Nat
      /\ failures[i].failedAt <= item
      /\ failures[i].resumedAt # Unknown => failures[i].resumedAt \in Nat /\ item < failures[i].resumedAt
  BY FailuresTyped DEF ReplayInv, MissedWasLost, Lost
<1>2. item \in failures[i].failedAt..(EndOf(failures[i]) - 1)
  <2>1. EndOf(failures[i]) \in Int /\ item < EndOf(failures[i])
    BY <1>1 DEF EndOf
  <2> QED
    BY <1>1, <2>1
<1>3. /\ i \in DOMAIN PlanReplayWindows
      /\ PlanReplayWindows[i].start = failures[i].failedAt
      /\ PlanReplayWindows[i].end = EndOf(failures[i])
  BY DEF PlanReplayWindows
<1>4. <<i, item>> \in ReplayBatch(PlanReplayWindows)
  BY <1>1, <1>2, <1>3 DEF ReplayBatch
<1> QED
  BY <1>4 DEF Replayed

LEMMA ReplayKeepsInv == ReplayInv /\ Replay => ReplayInv'
<1> SUFFICES ASSUME ReplayInv, Replay PROVE ReplayInv'
  OBVIOUS
<1>1. /\ recovered' = recovered \union Replayed(PlanReplayWindows)
      /\ verdict' = [status |-> EvaluateReplayDedupSafety(PlanReplayWindows), at |-> clock]
      /\ UNCHANGED <<clock, down, failures, missed, cap>>
  BY DEF Replay
<1>2. ReplayTyped' /\ FailuresInOrder' /\ CapInstants' = CapInstants
  BY <1>1 DEF ReplayInv, ReplayTyped, FailuresInOrder, CapInstants
<1>3. \A i, item : Lost(i, item)' <=> Lost(i, item)
  BY <1>1 DEF Lost
<1>4. MissedWasLost'
  <2>1. verdict'.at \in 0..clock'
    BY <1>1 DEF ReplayInv, ReplayTyped
  <2>2. \A item \in missed : \E i \in DOMAIN failures : Lost(i, item)
    BY DEF ReplayInv, MissedWasLost
  <2> QED
    BY <1>1, <1>2, <1>3, <2>1, <2>2, ReplayRecovers DEF ReplayInv, MissedWasLost
<1>5. BlockedByUnnoticed'
  <2>1. CASE \A i \in DOMAIN failures : i < Len(failures) => failures[i].resumedAt # Unknown
    BY <1>1, <2>1, DisjointWindowsAreReady DEF BlockedByUnnoticed
  <2>2. CASE \E i \in DOMAIN failures : i < Len(failures) /\ failures[i].resumedAt = Unknown
    BY <1>1, <2>2 DEF BlockedByUnnoticed
  <2> QED
    BY <2>1, <2>2
<1> QED
  BY <1>2, <1>4, <1>5 DEF ReplayInv

\* For any caps and outages: what was missed before the last replay is recovered,
\* unless the cap cut it off, and a batch is blocked as repeating itself only if
\* some outage's end went unnoticed.
\* (planReplayWindows, evaluateReplayDedupSafety)
THEOREM ReplayRecoversMissed == ReplaySpec => []ReplayLeavesOnlyTheTail
<1>1. ASSUME ReplayInv, ReplayStep \/ UNCHANGED replayVars PROVE ReplayInv'
  <2>1. CASE UNCHANGED replayVars
    <3>1. \A i, item : Lost(i, item)' <=> Lost(i, item)
      BY <2>1 DEF replayVars, Lost
    <3> QED
      BY <1>1, <2>1, <3>1 DEF replayVars, ReplayInv, ReplayTyped, FailuresInOrder, MissedWasLost,
                              BlockedByUnnoticed, CapInstants
  <2> QED
    BY <1>1, <2>1, ElapseKeepsInv, FailKeepsInv, ResumeKeepsInv, ReplayKeepsInv DEF ReplayStep
<1>2. ReplayInv => ReplayLeavesOnlyTheTail
  <2> SUFFICES ASSUME ReplayInv PROVE ReplayLeavesOnlyTheTail
    OBVIOUS
  <2>1. DOMAIN failures \subseteq Nat
    BY FailuresTyped DEF ReplayInv
  <2> QED
    BY <2>1, FailureThatLost DEF ReplayInv, MissedWasLost, BlockedByUnnoticed, ReplayLeavesOnlyTheTail
<1> QED
  BY <1>1, <1>2, ReplayInitially, PTL DEF ReplaySpec
-----------------------------------------------------------------------------
(* Collecting from many tenants.                                            *)

\* A call is its plan and how it stands; what answered it is one of the payloads.
CallTyped(c) ==
  /\ DOMAIN c = {"entry", "dueAt", "retryBudget", "status", "payload"}
  /\ c.status = "ok" => c.payload \in Payload

QueuedAt  == {i \in DOMAIN tenants : IsQueued(tenants[i])}
SkippedAt == {i \in DOMAIN tenants : ~IsQueued(tenants[i])}

\* The signals of a tenant, by their places.
SignalsOf(t) == {k \in DOMAIN signals : signals[k].tenantId = t}

CollectionInv ==
  /\ tenants \in Portfolio
  /\ calls = <<>> => signals = <<>>
  /\ calls # <<>> => DOMAIN calls = 1..Cardinality(QueuedAt) /\ Len(skipped) = Cardinality(SkippedAt)
  /\ calls = [i \in DOMAIN calls |-> calls[i]] /\ \A i \in DOMAIN calls : CallTyped(calls[i])
  /\ signals \in Seq(ToSet(signals))
  /\ \A k \in DOMAIN signals : signals[k].severity \in DOMAIN SEVERITY_RANK
  /\ \A t : IsFiniteSet(AnsweredRows(t)) /\ Cardinality(SignalsOf(t)) = Cardinality(AnsweredRows(t))

\* The entries of a run are queued or skipped, each of them.
LEMMA PlacesAreFinite ==
  ASSUME tenants \in Portfolio
  PROVE  /\ Len(tenants) \in Nat
         /\ QueuedAt \in SUBSET Int /\ IsFiniteSet(QueuedAt)
         /\ SkippedAt \in SUBSET Int /\ IsFiniteSet(SkippedAt)
         /\ Cardinality(QueuedAt) + Cardinality(SkippedAt) = Len(tenants)
<1> DEFINE n == Len(tenants)
<1>1. n \in Nat /\ DOMAIN tenants = 1..n
  BY ListAssumption
<1> HIDE DEF n
<1>2. IsFiniteSet(1..n) /\ Cardinality(1..n) = n
  BY <1>1, FS_Interval
<1>3. /\ QueuedAt \in SUBSET (1..n) /\ SkippedAt \in SUBSET (1..n)
      /\ QueuedAt \union SkippedAt = 1..n /\ QueuedAt \intersect SkippedAt = {}
  BY <1>1 DEF QueuedAt, SkippedAt
<1>4. IsFiniteSet(QueuedAt) /\ IsFiniteSet(SkippedAt)
  BY <1>2, <1>3, FS_Subset
<1>5. /\ Cardinality(QueuedAt) \in Nat /\ Cardinality(SkippedAt) \in Nat
      /\ Cardinality(QueuedAt \union SkippedAt) = Cardinality(QueuedAt) + Cardinality(SkippedAt) - Cardinality({})
  BY <1>3, <1>4, FS_Union, FS_CardinalityType
<1>6. Cardinality({}) = 0
  BY FS_EmptySet
<1>7. Cardinality(QueuedAt) + Cardinality(SkippedAt) = n
  <2>1. Cardinality(QueuedAt \union SkippedAt) = n
    BY <1>2, <1>3
  <2> QED
    BY <1>1, <1>5, <1>6, <2>1
<1>8. QueuedAt \in SUBSET Int /\ SkippedAt \in SUBSET Int
  BY <1>3
<1> QED
  BY <1>1, <1>4, <1>7, <1>8 DEF n

\* What is added to a list goes behind it.
LEMMA Behind ==
  ASSUME NEW s, s \in Seq(ToSet(s)), NEW m \in Nat, NEW f, f = [r \in 1..m |-> f[r]]
  PROVE  LET both == s \o f
         IN  /\ both \in Seq(ToSet(both)) /\ Len(s) \in Nat /\ Len(both) = Len(s) + m
             /\ DOMAIN s = 1..Len(s) /\ DOMAIN both = 1..(Len(s) + m)
             /\ \A k \in 1..Len(s) : both[k] = s[k]
             /\ \A r \in 1..m : both[Len(s) + r] = f[r]
<1> DEFINE T == ToSet(s) \union {f[r] : r \in 1..m}
           both == s \o f
<1>1. s \in Seq(T)
  OBVIOUS
<1>2. f \in Seq(T) /\ Len(f) = m
  OBVIOUS
<1> HIDE DEF T
<1>3. both \in Seq(T)
  BY <1>1, <1>2
<1>4. /\ Len(s) \in Nat /\ DOMAIN s = 1..Len(s) /\ Len(both) = Len(s) + m
      /\ DOMAIN both = 1..(Len(s) + m)
  BY <1>1, <1>2
<1>5. /\ \A k \in 1..Len(s) : both[k] = s[k]
      /\ \A r \in 1..m : both[Len(s) + r] = f[r]
  <2>1. ASSUME NEW k \in 1..Len(s) PROVE both[k] = s[k]
    BY <1>1, <1>2, <1>4
  <2>2. ASSUME NEW r \in 1..m PROVE both[Len(s) + r] = f[r]
    BY <1>1, <1>2, <1>4
  <2> QED
    BY <2>1, <2>2
<1> HIDE DEF both
<1>6. both \in Seq(ToSet(both))
  BY <1>3, <1>4 DEF ToSet
<1> QED
  BY <1>4, <1>5, <1>6 DEF both

LEMMA PayloadRows ==
  ASSUME NEW payload \in Payload
  PROVE  Len(payload) \in Nat /\ DOMAIN payload = 1..Len(payload)
BY ListAssumption

LEMMA RowOf ==
  ASSUME NEW t, NEW row
  PROVE  row \in AnsweredRows(t) <=>
           \E i \in DOMAIN calls : calls[i].entry.tenantId = t /\ row \in {i} \X (1..Contributed(i))
BY DEF AnsweredRows

\* A step that changes neither what calls are for nor what they gave.
LEMMA RowsStay ==
  ASSUME DOMAIN calls' = DOMAIN calls,
         \A i \in DOMAIN calls : calls'[i].entry = calls[i].entry /\ Contributed(i)' = Contributed(i)
  PROVE  \A t : AnsweredRows(t)' = AnsweredRows(t)
BY DEF AnsweredRows

LEMMA AtMostFour ==
  ASSUME NEW x \in Int
  PROVE  Min({4, x}) = IF x < 4 THEN x ELSE 4
<1> DEFINE m == IF x < 4 THEN x ELSE 4
<1>1. m \in {4, x} /\ \A y \in {4, x} : m <= y
  OBVIOUS
<1>2. \A z \in {4, x} : (\A y \in {4, x} : z <= y) <=> z = m
  OBVIOUS
<1> QED
  BY <1>1, <1>2 DEF Min

LEMMA OneMore ==
  ASSUME NEW S, NEW x, NEW n \in Nat, IsFiniteSet(S), Cardinality(S) <= n
  PROVE  IsFiniteSet(S \union {x}) /\ Cardinality(S \union {x}) <= n + 1
<1>1. Cardinality(S) \in Nat
  BY FS_CardinalityType
<1>2. /\ IsFiniteSet(S \union {x})
      /\ Cardinality(S \union {x}) = IF x \in S THEN Cardinality(S) ELSE Cardinality(S) + 1
  BY FS_AddElement
<1> QED
  BY <1>1, <1>2

\* A greater group has no lower risk.
LEMMA RiskGrows ==
  ASSUME NEW H, NEW G \in SUBSET H, G # {},
         \A s \in H : s.severity \in DOMAIN SEVERITY_RANK /\ s.pillar \in VALID_PILLARS
  PROVE  ClassifyCorrelationRisk(H) >= ClassifyCorrelationRisk(G)
<1> DEFINE ranks(S)   == {SEVERITY_RANK[s.severity] : s \in S}
           pillars(S) == {s.pillar : s \in S}
           risk(S)    == Max(ranks(S)) + PillarCountElevation(Cardinality(pillars(S)))
<1>1. ranks(G) \subseteq ranks(H) /\ ranks(G) # {} /\ ranks(H) \subseteq 1..4
  <2>1. \A r \in DOMAIN SEVERITY_RANK : SEVERITY_RANK[r] \in 1..4
    BY DEF SEVERITY_RANK
  <2> QED
    BY <2>1
<1>2. Max(ranks(G)) \in 1..4 /\ Max(ranks(H)) \in 1..4 /\ Max(ranks(G)) <= Max(ranks(H))
  <2> HIDE DEF ranks
  <2>1. ASSUME NEW S \in SUBSET (1..4), S # {} PROVE Max(S) \in S /\ \A y \in S : Max(S) >= y
    <3>1. \E x \in S : \A y \in S : y <= x
      BY <2>1, GreatestNat
    <3>2. \E x \in S : \A y \in S : x >= y
      BY <3>1
    <3> QED
      BY <3>2 DEF Max
  <2>2. ranks(H) \in SUBSET (1..4) /\ ranks(G) \in SUBSET (1..4) /\ ranks(H) # {} /\ ranks(G) # {}
    BY <1>1
  <2>3. Max(ranks(G)) \in ranks(G) /\ Max(ranks(H)) \in ranks(H) /\ \A y \in ranks(H) : Max(ranks(H)) >= y
    BY <2>1, <2>2
  <2> QED
    BY <1>1, <2>2, <2>3
<1>3. /\ Cardinality(pillars(G)) \in 1..4 /\ Cardinality(pillars(H)) \in 1..4
      /\ Cardinality(pillars(G)) <= Cardinality(pillars(H))
  <2>1. IsFiniteSet(VALID_PILLARS) /\ Cardinality(VALID_PILLARS) <= 4
    <3> DEFINE P1 == {"OBSERVE"}  P2 == P1 \union {"GOVERN"}  P3 == P2 \union {"SECURE"}
               P4 == P3 \union {"OPTIMIZE"}
    <3>1. IsFiniteSet(P1) /\ Cardinality(P1) <= 1
      <4>1. IsFiniteSet(P1) /\ Cardinality(P1) = 1
        BY FS_Singleton, Zenon
      <4> HIDE DEF P1
      <4> QED
        BY <4>1
    <3>2. P4 = VALID_PILLARS
      BY DEF VALID_PILLARS
    <3> HIDE DEF P1
    <3>3. IsFiniteSet(P2) /\ Cardinality(P2) <= 2
      BY <3>1, OneMore, 1 \in Nat, 1 + 1 = 2
    <3> HIDE DEF P2
    <3>4. IsFiniteSet(P3) /\ Cardinality(P3) <= 3
      BY <3>3, OneMore, 2 \in Nat, 2 + 1 = 3
    <3> HIDE DEF P3
    <3>5. IsFiniteSet(P4) /\ Cardinality(P4) <= 4
      BY <3>4, OneMore, 3 \in Nat, 3 + 1 = 4
    <3> QED
      BY <3>2, <3>5
  <2>2. pillars(H) \in SUBSET VALID_PILLARS /\ pillars(G) \in SUBSET pillars(H) /\ pillars(G) # {}
    OBVIOUS
  <2> HIDE DEF pillars
  <2>3. IsFiniteSet(pillars(H)) /\ Cardinality(pillars(H)) <= Cardinality(VALID_PILLARS)
    BY <2>1, <2>2, FS_Subset
  <2>4. IsFiniteSet(pillars(G)) /\ Cardinality(pillars(G)) <= Cardinality(pillars(H))
    BY <2>2, <2>3, FS_Subset
  <2>5. Cardinality(pillars(G)) \in Nat /\ Cardinality(pillars(G)) # 0 /\ Cardinality(pillars(H)) \in Nat
        /\ Cardinality(VALID_PILLARS) \in Nat
    BY <2>1, <2>2, <2>3, <2>4, FS_CardinalityType, FS_EmptySet
  <2> QED
    BY <2>1, <2>3, <2>4, <2>5
<1>4. \A m, n \in 1..4 : m <= n => /\ PillarCountElevation(m) \in 0..2 /\ PillarCountElevation(n) \in 0..2
                                   /\ PillarCountElevation(m) <= PillarCountElevation(n)
  BY DEF PillarCountElevation
<1>5. risk(G) \in Int /\ risk(H) \in Int /\ risk(G) <= risk(H)
  <2> HIDE DEF ranks, pillars
  <2>1. /\ PillarCountElevation(Cardinality(pillars(G))) \in 0..2
        /\ PillarCountElevation(Cardinality(pillars(H))) \in 0..2
        /\ PillarCountElevation(Cardinality(pillars(G))) <= PillarCountElevation(Cardinality(pillars(H)))
    BY <1>3, <1>4
  <2> QED
    BY <1>2, <2>1
<1>6. ClassifyCorrelationRisk(G) = Min({4, risk(G)}) /\ ClassifyCorrelationRisk(H) = Min({4, risk(H)})
  BY DEF ClassifyCorrelationRisk
<1> HIDE DEF risk
<1> QED
  BY <1>5, <1>6, AtMostFour

\* Signals behind those there are lower no correlation.
LEMMA MoreSignals ==
  ASSUME CollectionInv', ToSet(signals) \subseteq ToSet(signals'),
         NEW window, NEW key \in Keys(signals, window)
  PROVE  /\ key \in Keys(signals', window)
         /\ CorrelateSignals(signals', window)[key] >= CorrelateSignals(signals, window)[key]
<1> DEFINE G == Group(signals, window, key)  H == Group(signals', window, key)
<1>1. key \in Keys(signals', window)
  BY DEF Keys
<1>2. G \in SUBSET H /\ G # {}
  BY DEF Group, Keys
<1>3. \A s \in H : s.severity \in DOMAIN SEVERITY_RANK /\ s.pillar \in VALID_PILLARS
  BY DEF Group, CollectionInv, ToSet, IsCorrelated
<1> HIDE DEF G, H
<1>4. ClassifyCorrelationRisk(H) >= ClassifyCorrelationRisk(G)
  BY <1>2, <1>3, RiskGrows
<1>5. /\ CorrelateSignals(signals, window)[key] = ClassifyCorrelationRisk(G)
      /\ CorrelateSignals(signals', window)[key] = ClassifyCorrelationRisk(H)
  BY <1>1 DEF CorrelateSignals, G, H
<1> QED
  BY <1>1, <1>4, <1>5

LEMMA CollectionInitially == CollectionInit => CollectionInv
<1> SUFFICES ASSUME CollectionInit PROVE CollectionInv
  OBVIOUS
<1>1. tenants \in Portfolio /\ calls = <<>> /\ signals = <<>>
  BY DEF CollectionInit
<1>2. ASSUME NEW t PROVE AnsweredRows(t) = {} /\ SignalsOf(t) = {}
  <2>1. \A row : row \notin AnsweredRows(t)
    BY <1>1, RowOf
  <2> QED
    BY <1>1, <2>1 DEF SignalsOf
<1>3. signals \in Seq(ToSet(signals)) /\ calls = [i \in DOMAIN calls |-> calls[i]]
  BY <1>1
<1> QED
  BY <1>1, <1>2, <1>3, FS_EmptySet DEF CollectionInv

\* A step after which every call is for the same and gave as much as before.
LEMMA InvStays ==
  ASSUME CollectionInv, UNCHANGED <<tenants, skipped, signals>>, DOMAIN calls' = DOMAIN calls,
         calls' = [i \in DOMAIN calls |-> calls'[i]],
         \A i \in DOMAIN calls : /\ calls'[i].entry = calls[i].entry /\ Contributed(i)' = Contributed(i)
                                 /\ CallTyped(calls'[i])
  PROVE  CollectionInv'
<1>1. calls = <<>> <=> DOMAIN calls = {}
  BY DEF CollectionInv
<1>2. calls' = <<>> <=> DOMAIN calls = {}
  OBVIOUS
<1>3. \A t : AnsweredRows(t)' = AnsweredRows(t) /\ SignalsOf(t)' = SignalsOf(t)
  BY RowsStay DEF SignalsOf
<1>4. QueuedAt' = QueuedAt /\ SkippedAt' = SkippedAt
  BY DEF QueuedAt, SkippedAt
<1> QED
  BY <1>1, <1>2, <1>3, <1>4 DEF CollectionInv

LEMMA Restated ==
  ASSUME NEW call, CallTyped(call), NEW status, status # "ok"
  PROVE  LET c == [call EXCEPT !.status = status]
         IN  CallTyped(c) /\ c.entry = call.entry /\ c.status = status
BY DEF CallTyped

LEMMA StartKeepsInv ==
  ASSUME CollectionInv, NEW i \in DOMAIN calls, StartCall(i) \/ CallFails(i)
  PROVE  CollectionInv'
<1>1. PICK c : /\ calls' = [calls EXCEPT ![i] = c] /\ CallTyped(c) /\ c.entry = calls[i].entry
               /\ c.status # "ok"
  <2>1. CallTyped(calls[i])
    BY DEF CollectionInv
  <2>2. ASSUME NEW status, status # "ok", Ends(i, status)
        PROVE  LET c == [calls[i] EXCEPT !.status = status]
               IN  /\ calls' = [calls EXCEPT ![i] = c] /\ CallTyped(c) /\ c.entry = calls[i].entry
                   /\ c.status # "ok"
    <3>1. calls' = [calls EXCEPT ![i] = [calls[i] EXCEPT !.status = status]]
      BY <2>2 DEF Ends
    <3> QED
      BY <2>1, <2>2, <3>1, Restated
  <2>3. CASE StartCall(i)
    <3>1. PICK status \in {"running", "error"} : Ends(i, status)
      BY <2>3 DEF StartCall
    <3> QED
      BY <2>2, <3>1
  <2>4. CASE CallFails(i) /\ calls[i].retryBudget > 0
    <3> DEFINE c == [calls[i] EXCEPT !.status = "waiting", !.retryBudget = @ - 1,
                                     !.dueAt = moment + policy.retryBackoff]
    <3>1. calls' = [calls EXCEPT ![i] = c]
      BY <2>4 DEF CallFails
    <3>2. CallTyped(c) /\ c.entry = calls[i].entry /\ c.status = "waiting"
      BY <2>1 DEF CallTyped
    <3> HIDE DEF c
    <3> QED
      BY <3>1, <3>2
  <2>5. CASE CallFails(i) /\ ~ (calls[i].retryBudget > 0)
    <3>1. Ends(i, "error")
      BY <2>5 DEF CallFails
    <3> QED
      BY <2>2, <3>1
  <2> QED
    BY <2>3, <2>4, <2>5
<1>2. UNCHANGED <<tenants, skipped, signals>> /\ calls[i].status # "ok"
  BY DEF StartCall, CallFails
<1>3. calls = [j \in DOMAIN calls |-> calls[j]] /\ \A j \in DOMAIN calls : CallTyped(calls[j])
  BY DEF CollectionInv
<1>4. /\ DOMAIN calls' = DOMAIN calls /\ calls' = [j \in DOMAIN calls |-> calls'[j]]
      /\ \A j \in DOMAIN calls : calls'[j] = IF j = i THEN c ELSE calls[j]
  BY <1>1, <1>3
<1>5. ASSUME NEW j \in DOMAIN calls
      PROVE  /\ calls'[j].entry = calls[j].entry /\ Contributed(j)' = Contributed(j)
             /\ CallTyped(calls'[j])
  BY <1>1, <1>2, <1>3, <1>4 DEF Contributed
<1> QED
  BY <1>2, <1>4, <1>5, InvStays

LEMMA LaunchKeepsInv == CollectionInv /\ Launch => CollectionInv'
<1> SUFFICES ASSUME CollectionInv, Launch PROVE CollectionInv'
  OBVIOUS
<1> DEFINE list == Queued(tenants)  queue == SortedBy(list, Priorities(list))  n == Cardinality(QueuedAt)
<1>1. /\ tenants \in Portfolio /\ UNCHANGED <<tenants, signals>> /\ signals = <<>>
      /\ skipped' = Pick(tenants, SkippedAt)
  BY DEF CollectionInv, Launch, BuildTenantQueue, SkippedAt
<1>2. /\ calls' = [i \in DOMAIN queue |-> calls'[i]]
      /\ \A i \in DOMAIN queue : CallTyped(calls'[i]) /\ calls'[i].status = "waiting"
  <2>1. calls' = [i \in DOMAIN queue |->
              LET plan == ApplyRateLimitPolicy(queue, policy)[i]
              IN  [entry |-> plan.entry, dueAt |-> plan.dueAt, retryBudget |-> plan.retryBudget,
                   status |-> "waiting", payload |-> <<>>]]
    BY DEF Launch, BuildTenantQueue
  <2> HIDE DEF queue
  <2> QED
    BY <2>1 DEF CallTyped
<1>3. /\ QueuedAt \in SUBSET Int /\ IsFiniteSet(QueuedAt)
      /\ SkippedAt \in SUBSET Int /\ IsFiniteSet(SkippedAt)
  BY <1>1, PlacesAreFinite DEF CollectionInv
<1>4. n \in Nat /\ DOMAIN list = 1..n
  BY <1>3, PickIs DEF Queued, QueuedAt, Along
<1>5. DOMAIN queue = 1..n
  <2>1. ASSUME NEW i \in 1..n PROVE Priorities(list)[i] \in Int
    <3>1. \E p \in 1..3 : PRIORITY_ORDER[p] = ClassifyTenantPriority(list[i].meta)
      <4>1. PRIORITY_ORDER[1] = "urgent" /\ PRIORITY_ORDER[2] = "standard" /\ PRIORITY_ORDER[3] = "low"
        BY DEF PRIORITY_ORDER
      <4> QED
        BY <4>1 DEF ClassifyTenantPriority
    <3>2. Priorities(list)[i] = CHOOSE p \in 1..3 : PRIORITY_ORDER[p] = ClassifyTenantPriority(list[i].meta)
      BY <1>4 DEF Priorities
    <3> QED
      BY <3>1, <3>2
  <2> HIDE DEF list, n
  <2> QED
    BY <1>4, <2>1, SortedByIs DEF Along
<1>6. Len(skipped') = Cardinality(SkippedAt)
  BY <1>1, <1>3, PickIs DEF Along
<1> HIDE DEF queue, list
<1>7. ASSUME NEW t PROVE AnsweredRows(t)' = {} /\ SignalsOf(t)' = {}
  <2>1. \A i \in DOMAIN calls' : Contributed(i)' = 0
    BY <1>2 DEF Contributed
  <2> QED
    BY <1>1, <2>1 DEF AnsweredRows, SignalsOf
<1>8. DOMAIN calls' = 1..n /\ calls' = [i \in DOMAIN calls' |-> calls'[i]]
  BY <1>2, <1>5
<1>9. QueuedAt' = QueuedAt /\ SkippedAt' = SkippedAt
  BY <1>1 DEF QueuedAt, SkippedAt
<1>10. signals' \in Seq(ToSet(signals'))
  BY <1>1
<1> QED
  BY <1>1, <1>2, <1>5, <1>6, <1>7, <1>8, <1>9, <1>10, FS_EmptySet DEF CollectionInv

\* What a signal says of its event is one of the correlator's severities.
LEMMA SignalOfRow ==
  ASSUME NEW entry, NEW row
  PROVE  /\ AsSignal(entry, row).tenantId = entry.tenantId
         /\ AsSignal(entry, row).severity \in DOMAIN SEVERITY_RANK
<1>1. DOMAIN EVENT_SEVERITY = DOMAIN SEVERITY_RANK /\ "low" \in DOMAIN SEVERITY_RANK
  BY DEF EVENT_SEVERITY, SEVERITY_RANK
<1>2. Lookup(EVENT_SEVERITY, row.operation, "low") \in DOMAIN SEVERITY_RANK
  BY <1>1 DEF Lookup
<1> QED
  BY <1>2 DEF AsSignal, ClassifyAuditEvent

\* An answer adds as many signals of its tenant as it adds rows, behind those there.
LEMMA AnswerAdds ==
  ASSUME CollectionInv, NEW i \in DOMAIN calls, NEW payload \in Payload, CallReturns(i, payload)
  PROVE  /\ DOMAIN calls' = DOMAIN calls /\ calls' = [j \in DOMAIN calls |-> calls'[j]]
         /\ \A j \in DOMAIN calls : CallTyped(calls'[j]) /\ calls'[j].entry = calls[j].entry
         /\ \A j \in DOMAIN calls \ {i} : Contributed(j)' = Contributed(j)
         /\ Contributed(i) = 0 /\ Contributed(i)' \in Nat
         /\ Len(signals) \in Nat /\ DOMAIN signals = 1..Len(signals)
         /\ signals' \in Seq(ToSet(signals')) /\ DOMAIN signals' = 1..(Len(signals) + Contributed(i)')
         /\ \A k \in 1..Len(signals) : signals'[k] = signals[k]
         /\ \A r \in 1..Contributed(i)' :
              /\ signals'[Len(signals) + r].tenantId = calls[i].entry.tenantId
              /\ signals'[Len(signals) + r].severity \in DOMAIN SEVERITY_RANK
<1> DEFINE entry    == calls[i].entry
           answered == ValidateResponse(entry.request.kind, payload)
           status   == IF answered.ok THEN "ok" ELSE "error"
           c        == [calls[i] EXCEPT !.status = status, !.payload = payload]
           audit    == entry.request.kind = "auditLog"
           m        == IF answered.ok /\ audit THEN Len(payload) ELSE 0
<1>1. /\ calls = [j \in DOMAIN calls |-> calls[j]] /\ \A j \in DOMAIN calls : CallTyped(calls[j])
      /\ calls[i].status = "running" /\ signals \in Seq(ToSet(signals))
  BY DEF CollectionInv, CallReturns
<1>2. calls' = [calls EXCEPT ![i] = c]
  BY <1>1 DEF CallReturns
<1>3. /\ answered.rows = IF answered.ok THEN payload ELSE <<>>
      /\ Len(payload) \in Nat /\ DOMAIN payload = 1..Len(payload)
  BY PayloadRows DEF ValidateResponse
<1>4. signals' = IF audit THEN signals \o [r \in DOMAIN answered.rows |-> AsSignal(entry, answered.rows[r])]
                 ELSE signals
  BY DEF CallReturns
<1> HIDE DEF answered, status
<1>5. \A call : CallTyped(call) =>
        LET d == [call EXCEPT !.status = status, !.payload = payload]
        IN  CallTyped(d) /\ d.entry = call.entry /\ d.status = status /\ d.payload = payload
  BY DEF CallTyped
<1>6. CallTyped(c) /\ c.entry = entry /\ c.status = status /\ c.payload = payload
  BY <1>1, <1>5
<1> HIDE DEF c
<1>7. /\ DOMAIN calls' = DOMAIN calls /\ calls' = [j \in DOMAIN calls |-> calls'[j]]
      /\ \A j \in DOMAIN calls : calls'[j] = IF j = i THEN c ELSE calls[j]
  BY <1>1, <1>2
<1>8. /\ \A j \in DOMAIN calls : CallTyped(calls'[j]) /\ calls'[j].entry = calls[j].entry
      /\ \A j \in DOMAIN calls \ {i} : Contributed(j)' = Contributed(j)
      /\ Contributed(i) = 0 /\ Contributed(i)' = m /\ m \in Nat
  BY <1>1, <1>3, <1>6, <1>7 DEF Contributed, status
<1>9. /\ Len(signals) \in Nat /\ DOMAIN signals = 1..Len(signals)
      /\ signals' \in Seq(ToSet(signals')) /\ DOMAIN signals' = 1..(Len(signals) + m)
      /\ \A k \in 1..Len(signals) : signals'[k] = signals[k]
      /\ \A r \in 1..m : /\ signals'[Len(signals) + r].tenantId = entry.tenantId
                         /\ signals'[Len(signals) + r].severity \in DOMAIN SEVERITY_RANK
  <2>1. CASE audit
    <3> DEFINE f == [r \in 1..m |-> AsSignal(entry, answered.rows[r])]
    <3>1. DOMAIN answered.rows = 1..m
      BY <1>3, <2>1
    <3>2. signals' = signals \o f
      BY <1>4, <2>1, <3>1
    <3>3. f = [r \in 1..m |-> f[r]] /\ \A r \in 1..m : f[r] = AsSignal(entry, answered.rows[r])
      OBVIOUS
    <3> HIDE DEF f, m
    <3>4. /\ Len(signals) \in Nat /\ DOMAIN signals = 1..Len(signals)
          /\ signals' \in Seq(ToSet(signals')) /\ DOMAIN signals' = 1..(Len(signals) + m)
          /\ \A k \in 1..Len(signals) : signals'[k] = signals[k]
          /\ \A r \in 1..m : signals'[Len(signals) + r] = f[r]
      BY <1>1, <1>8, <3>2, <3>3, Behind
    <3> QED
      BY <3>3, <3>4, SignalOfRow
  <2>2. CASE ~ audit
    <3>1. signals' = signals /\ m = 0
      BY <1>4, <2>2
    <3>2. Len(signals) \in Nat /\ DOMAIN signals = 1..Len(signals)
      BY <1>1
    <3> HIDE DEF m
    <3>3. Len(signals) + m = Len(signals) /\ 1..m = {}
      BY <3>1, <3>2
    <3>4. signals' \in Seq(ToSet(signals'))
      BY <1>1, <3>1
    <3> QED
      BY <3>1, <3>2, <3>3, <3>4
  <2> QED
    BY <2>1, <2>2
<1> QED
  BY <1>7, <1>8, <1>9

\* Each of the rows an answer adds is one signal more of its tenant.
LEMMA AnswerCounts ==
  ASSUME CollectionInv, NEW i \in DOMAIN calls, NEW payload \in Payload, CallReturns(i, payload), NEW t
  PROVE  /\ IsFiniteSet(AnsweredRows(t)') /\ Cardinality(SignalsOf(t)') = Cardinality(AnsweredRows(t)')
<1> DEFINE n    == Len(signals)
           m    == Contributed(i)'
           rows == {i} \X (1..m)
           new  == (n + 1)..(n + m)
<1>1. /\ DOMAIN calls' = DOMAIN calls /\ \A j \in DOMAIN calls : calls'[j].entry = calls[j].entry
      /\ \A j \in DOMAIN calls \ {i} : Contributed(j)' = Contributed(j)
      /\ Contributed(i) = 0 /\ m \in Nat /\ n \in Nat
      /\ DOMAIN signals = 1..n /\ DOMAIN signals' = 1..(n + m)
      /\ \A k \in 1..n : signals'[k] = signals[k]
      /\ \A r \in 1..m : signals'[n + r].tenantId = calls[i].entry.tenantId
  BY AnswerAdds
<1>2. \A row : row \in AnsweredRows(t)' <=>
        \E j \in DOMAIN calls : calls[j].entry.tenantId = t /\ row \in {j} \X (1..Contributed(j)')
  BY <1>1 DEF AnsweredRows
<1> HIDE DEF n, m
<1>3. \A k \in new : signals'[k].tenantId = calls[i].entry.tenantId
  <2> SUFFICES ASSUME NEW k \in new PROVE signals'[k].tenantId = calls[i].entry.tenantId
    OBVIOUS
  <2>1. k - n \in 1..m /\ n + (k - n) = k
    BY <1>1
  <2> QED
    BY <1>1, <2>1
<1>4. IsFiniteSet(AnsweredRows(t)) /\ Cardinality(SignalsOf(t)) = Cardinality(AnsweredRows(t))
  BY DEF CollectionInv
<1>5. CASE calls[i].entry.tenantId # t
  <2>1. AnsweredRows(t)' = AnsweredRows(t)
    <3>1. \A j \in DOMAIN calls : calls[j].entry.tenantId = t => Contributed(j)' = Contributed(j)
      BY <1>1, <1>5
    <3>2. \A row : row \in AnsweredRows(t)' <=> row \in AnsweredRows(t)
      BY <1>2, <3>1, RowOf
    <3> QED
      BY <3>2
  <2>2. SignalsOf(t)' = SignalsOf(t)
    <3>1. \A k \in 1..(n + m) : k \in 1..n \/ k \in new
      BY <1>1
    <3>2. 1..n \subseteq 1..(n + m)
      BY <1>1
    <3> QED
      BY <1>1, <1>3, <1>5, <3>1, <3>2 DEF SignalsOf
  <2> QED
    BY <1>4, <2>1, <2>2
<1>6. CASE calls[i].entry.tenantId = t
  <2>1. AnsweredRows(t)' = AnsweredRows(t) \union rows /\ AnsweredRows(t) \intersect rows = {}
    <3>1. \A row : row \in AnsweredRows(t) => row \notin {i} \X (1..m)
      <4>1. \A row, j : row \in {j} \X (1..Contributed(j)) => row[1] = j
        OBVIOUS
      <4>2. {i} \X (1..Contributed(i)) = {}
        BY <1>1
      <4>3. \A row : row \in {i} \X (1..m) => row[1] = i
        OBVIOUS
      <4> QED
        BY <4>1, <4>2, <4>3, RowOf
    <3>2. {i} \X (1..Contributed(i)) = {} /\ {i} \X (1..Contributed(i)') = rows
      BY <1>1 DEF m
    <3> HIDE DEF rows
    <3>3. \A row : row \in AnsweredRows(t)' <=> row \in AnsweredRows(t) \/ row \in rows
      <4>1. ASSUME NEW row, row \in AnsweredRows(t)' PROVE row \in AnsweredRows(t) \/ row \in rows
        <5>1. PICK j \in DOMAIN calls : calls[j].entry.tenantId = t /\ row \in {j} \X (1..Contributed(j)')
          BY <1>2, <4>1
        <5>2. CASE j = i
          BY <3>2, <5>1, <5>2
        <5>3. CASE j # i
          <6>1. Contributed(j)' = Contributed(j)
            BY <1>1, <5>3
          <6> QED
            BY <5>1, <6>1, RowOf
        <5> QED
          BY <5>2, <5>3
      <4>2. ASSUME NEW row, row \in AnsweredRows(t) PROVE row \in AnsweredRows(t)'
        <5>1. PICK j \in DOMAIN calls : calls[j].entry.tenantId = t /\ row \in {j} \X (1..Contributed(j))
          BY <4>2, RowOf
        <5>2. j # i
          BY <3>2, <5>1
        <5>3. Contributed(j)' = Contributed(j)
          BY <1>1, <5>2
        <5> QED
          BY <1>2, <5>1, <5>3
      <4>3. ASSUME NEW row, row \in rows PROVE row \in AnsweredRows(t)'
        BY <1>2, <1>6, <3>2, <4>3
      <4> QED
        BY <4>1, <4>2, <4>3
    <3> QED
      BY <3>1, <3>3 DEF rows
  <2>2. IsFiniteSet(rows) /\ Cardinality(rows) = m
    <3>1. IsFiniteSet({i}) /\ Cardinality({i}) = 1
      BY FS_Singleton, Zenon
    <3>2. IsFiniteSet(1..m) /\ Cardinality(1..m) = m
      BY <1>1, UpTo
    <3>3. IsFiniteSet({i} \X (1..m)) /\ Cardinality({i} \X (1..m)) = Cardinality({i}) * Cardinality(1..m)
      BY <3>1, <3>2, FS_Product
    <3> QED
      BY <1>1, <3>1, <3>2, <3>3
  <2>3. SignalsOf(t)' = SignalsOf(t) \union new /\ SignalsOf(t) \intersect new = {}
    <3>1. \A k : k \in 1..(n + m) <=> k \in 1..n \/ k \in new
      BY <1>1
    <3>2. \A k \in new : k \notin 1..n
      BY <1>1
    <3> HIDE DEF new
    <3> QED
      BY <1>1, <1>3, <1>6, <3>1, <3>2 DEF SignalsOf
  <2>4. IsFiniteSet(new) /\ Cardinality(new) = m
    BY <1>1, FS_Interval
  <2>5. IsFiniteSet(SignalsOf(t))
    <3>1. SignalsOf(t) \in SUBSET (1..n) /\ IsFiniteSet(1..n)
      BY <1>1, UpTo DEF SignalsOf
    <3> QED
      BY <3>1, FS_Subset
  <2> HIDE DEF rows, new
  <2>6. Cardinality({}) = 0
    BY FS_EmptySet
  <2>7. /\ IsFiniteSet(AnsweredRows(t)')
        /\ Cardinality(AnsweredRows(t)') = Cardinality(AnsweredRows(t)) + m - 0
    BY <1>4, <2>1, <2>2, <2>6, FS_Union
  <2>8. Cardinality(SignalsOf(t)') = Cardinality(SignalsOf(t)) + m - 0
    BY <2>3, <2>4, <2>5, <2>6, FS_Union
  <2> QED
    BY <1>4, <2>7, <2>8
<1> QED
  BY <1>5, <1>6

LEMMA AnswerKeepsInv ==
  ASSUME CollectionInv, NEW i \in DOMAIN calls, NEW payload \in Payload, CallReturns(i, payload)
  PROVE  CollectionInv' /\ ToSet(signals) \subseteq ToSet(signals')
<1> DEFINE n == Len(signals)  m == Contributed(i)'
<1>1. UNCHANGED <<tenants, skipped>>
  BY DEF CallReturns
<1>2. /\ DOMAIN calls' = DOMAIN calls /\ calls' = [j \in DOMAIN calls |-> calls'[j]]
      /\ \A j \in DOMAIN calls : CallTyped(calls'[j])
      /\ n \in Nat /\ m \in Nat /\ DOMAIN signals = 1..n
      /\ signals' \in Seq(ToSet(signals')) /\ DOMAIN signals' = 1..(n + m)
      /\ \A k \in 1..n : signals'[k] = signals[k]
      /\ \A r \in 1..m : signals'[n + r].severity \in DOMAIN SEVERITY_RANK
  BY AnswerAdds
<1> HIDE DEF n, m
<1>3. \A k \in DOMAIN signals' : signals'[k].severity \in DOMAIN SEVERITY_RANK
  <2> SUFFICES ASSUME NEW k \in 1..(n + m) PROVE signals'[k].severity \in DOMAIN SEVERITY_RANK
    BY <1>2
  <2>1. k \in 1..n \/ (k - n \in 1..m /\ n + (k - n) = k)
    BY <1>2
  <2> QED
    BY <1>2, <2>1 DEF CollectionInv
<1>4. calls # <<>> /\ calls' # <<>>
  BY <1>2
<1>5. QueuedAt' = QueuedAt /\ SkippedAt' = SkippedAt
  BY <1>1 DEF QueuedAt, SkippedAt
<1>6. \A t : IsFiniteSet(AnsweredRows(t)') /\ Cardinality(SignalsOf(t)') = Cardinality(AnsweredRows(t)')
  BY AnswerCounts
<1>7. CollectionInv'
  BY <1>1, <1>2, <1>3, <1>4, <1>5, <1>6 DEF CollectionInv
<1>8. ToSet(signals) \subseteq ToSet(signals')
  <2>1. 1..n \subseteq 1..(n + m)
    BY <1>2
  <2> QED
    BY <1>2, <2>1 DEF ToSet
<1> QED
  BY <1>7, <1>8

LEMMA CollectionKeepsInv ==
  CollectionInv /\ [CollectionNext]_collectionVars => CollectionInv' /\ ToSet(signals) \subseteq ToSet(signals')
<1> SUFFICES ASSUME CollectionInv, [CollectionNext]_collectionVars
             PROVE  CollectionInv' /\ ToSet(signals) \subseteq ToSet(signals')
  OBVIOUS
<1>1. CASE Launch
  BY <1>1, LaunchKeepsInv DEF Launch
<1>2. CASE Tick \/ UNCHANGED collectionVars
  <2>1. UNCHANGED <<tenants, skipped, signals, calls>>
    BY <1>2 DEF Tick, collectionVars
  <2>2. \A i \in DOMAIN calls : Contributed(i)' = Contributed(i)
    BY <2>1 DEF Contributed
  <2>3. calls = [i \in DOMAIN calls |-> calls[i]] /\ \A i \in DOMAIN calls : CallTyped(calls[i])
    BY DEF CollectionInv
  <2> QED
    BY <2>1, <2>2, <2>3, InvStays
<1>3. ASSUME NEW i \in DOMAIN calls, StartCall(i) \/ CallFails(i)
      PROVE  CollectionInv' /\ ToSet(signals) \subseteq ToSet(signals')
  BY <1>3, StartKeepsInv DEF StartCall, CallFails
<1>4. ASSUME NEW i \in DOMAIN calls, NEW payload \in Payload, CallReturns(i, payload)
      PROVE  CollectionInv' /\ ToSet(signals) \subseteq ToSet(signals')
  BY <1>4, AnswerKeepsInv
<1> QED
  BY <1>1, <1>2, <1>3, <1>4 DEF CollectionNext

LEMMA InvAccounts == CollectionInv => EveryTenantAccounted
<1> SUFFICES ASSUME CollectionInv PROVE EveryTenantAccounted
  OBVIOUS
<1> DEFINE Of(status) == {i \in DOMAIN calls : calls[i].status = status}
           ok == Cardinality(Of("ok"))  error == Cardinality(Of("error"))
           q  == Cardinality(QueuedAt)  s == Cardinality(SkippedAt)
           summary == BuildOrchestrationSummary
<1>1. \A t : Cardinality({k \in DOMAIN signals : signals[k].tenantId = t}) = Cardinality(AnsweredRows(t))
  BY DEF CollectionInv, SignalsOf
<1>2. ASSUME Finished
      PROVE  /\ summary.total = Len(tenants)
             /\ summary.health = "healthy" => 20 * (summary.errors + Len(skipped)) <= Len(tenants)
  <2>1. DOMAIN calls = 1..q /\ Len(skipped) = s
    BY <1>2 DEF CollectionInv, Finished, Launched
  <2>2. /\ Len(tenants) \in Nat /\ q \in Nat /\ s \in Nat /\ q + s = Len(tenants)
    BY PlacesAreFinite, FS_CardinalityType DEF CollectionInv
  <2> HIDE DEF q, s
  <2>3. IsFiniteSet(1..q) /\ Cardinality(1..q) = q
    BY <2>2, UpTo
  <2>4. /\ Of("ok") \in SUBSET (1..q) /\ Of("error") \in SUBSET (1..q)
        /\ Of("ok") \union Of("error") = 1..q /\ Of("ok") \intersect Of("error") = {}
    BY <1>2, <2>1 DEF Finished
  <2>5. /\ summary.total = ok + error + Len(skipped) /\ summary.errors = error
        /\ summary.health = "healthy" => 100 * ok >= 95 * summary.total
    BY DEF BuildOrchestrationSummary
  <2> HIDE DEF Of, summary
  <2>6. IsFiniteSet(Of("ok")) /\ IsFiniteSet(Of("error"))
    BY <2>3, <2>4, FS_Subset
  <2>7. /\ ok \in Nat /\ error \in Nat
        /\ Cardinality(Of("ok") \union Of("error")) = ok + error - Cardinality({})
    BY <2>4, <2>6, FS_Union, FS_CardinalityType
  <2>8. Cardinality({}) = 0
    BY FS_EmptySet
  <2> HIDE DEF ok, error
  <2>9. ok + error = q
    <3>1. Cardinality(Of("ok") \union Of("error")) = q
      BY <2>3, <2>4
    <3> QED
      BY <2>2, <2>7, <2>8, <3>1
  <2> QED
    BY <2>1, <2>2, <2>5, <2>7, <2>9
<1> QED
  BY <1>1, <1>2 DEF EveryTenantAccounted

\* For any portfolios, rate limits and answers: the signals of a tenant are the
\* rows of its answered calls, each once, and the summary of a finished run counts
\* every entry of the portfolio.
\* (buildTenantQueue, validateAuditLogResponse, buildOrchestrationSummary)
THEOREM TenantsAccounted == CollectionSpec => []EveryTenantAccounted
<1> QED
  BY CollectionInitially, CollectionKeepsInv, InvAccounts, PTL DEF CollectionSpec

\* For any windows and events: an answer that arrives late loses no correlation and
\* lowers none.  (correlateSignals, classifyCorrelationRisk)
THEOREM LateEventsRaise == CollectionSpec => LateEventsOnlyRaise
<1> DEFINE Raises == \A window \in WindowHours : \A key \in Keys(signals, window) :
                       /\ key \in Keys(signals', window)
                       /\ CorrelateSignals(signals', window)[key] >= CorrelateSignals(signals, window)[key]
<1>1. CollectionInv /\ [CollectionNext]_collectionVars => [Raises]_collectionVars
  BY CollectionKeepsInv, MoreSignals
<1> HIDE DEF Raises
<1>2. CollectionSpec => [][Raises]_collectionVars
  BY <1>1, CollectionInitially, CollectionKeepsInv, PTL DEF CollectionSpec
<1> QED
  BY <1>2 DEF LateEventsOnlyRaise, Raises

=============================================================================
