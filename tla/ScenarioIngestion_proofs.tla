------------------------ MODULE ScenarioIngestion_proofs ------------------------
(***************************************************************************)
(* Proofs about the scheduler, for any number of slots and handles, and    *)
(* about the pipeline it drives, for any catalog and any edits.            *)
(***************************************************************************)
EXTENDS ScenarioIngestion, NumberFacts, TLAPS

\* Whatever the order of start(), stop(), intervals and runs, a step keeps the
\* scheduler's state well formed.
LEMMA SchedulerTypeStep ==
  SchedulerTypeOK /\ [SchedulerNext]_schedulerVars => SchedulerTypeOK'
<1> SUFFICES ASSUME SchedulerTypeOK, [SchedulerNext]_schedulerVars
             PROVE  SchedulerTypeOK'
  OBVIOUS
<1> USE DEF SchedulerTypeOK
<1>1. CASE Stop
  BY <1>1 DEF Stop
<1>2. ASSUME NEW s \in Slot, Start(s) PROVE SchedulerTypeOK'
  BY <1>2 DEF Start
<1>3. ASSUME NEW s \in Slot, StartResolves(s) PROVE SchedulerTypeOK'
  BY <1>3 DEF StartResolves
<1>4. ASSUME NEW s \in Slot, StartRejects(s) PROVE SchedulerTypeOK'
  BY <1>4 DEF StartRejects
<1>5. ASSUME NEW s \in Slot, TickResolves(s) PROVE SchedulerTypeOK'
  BY <1>5 DEF TickResolves
<1>6. ASSUME NEW s \in Slot, TickRejects(s) PROVE SchedulerTypeOK'
  BY <1>6 DEF TickRejects
<1>7. ASSUME NEW s \in Slot, NEW h \in Handle, Tick(h, s) PROVE SchedulerTypeOK'
  BY <1>7 DEF Tick
<1>8. CASE UNCHANGED schedulerVars
  BY <1>8 DEF schedulerVars
<1>9. QED
  BY <1>1, <1>2, <1>3, <1>4, <1>5, <1>6, <1>7, <1>8 DEF SchedulerNext

(***************************************************************************)
(* LeakOnlyByOverlap is not inductive: when an awaited run resolves, start *)
(* arms an interval without looking at timer.  What makes that safe while  *)
(* starts do not overlap is that at most one start is pending and that, as *)
(* long as it is, no timer is armed.                                       *)
(***************************************************************************)
SoleStarter ==
  ~startsOverlapped =>
    /\ \A s, t \in Slot : inflight[s] = "start" /\ inflight[t] = "start" => s = t
    /\ (\E s \in Slot : inflight[s] = "start") => timer = NoTimer

SchedulerInv == SchedulerTypeOK /\ SoleStarter /\ LeakOnlyByOverlap

LEMMA SchedulerInvInit == SchedulerInit => SchedulerInv
  BY DEF SchedulerInit, SchedulerInv, SchedulerTypeOK, SoleStarter,
         LeakOnlyByOverlap, isRunning

LEMMA SchedulerInvStep == SchedulerInv /\ [SchedulerNext]_schedulerVars => SchedulerInv'
<1> SUFFICES ASSUME SchedulerInv, [SchedulerNext]_schedulerVars
             PROVE  SoleStarter' /\ LeakOnlyByOverlap'
  BY SchedulerTypeStep DEF SchedulerInv
<1> USE HandleAssumption
    DEF SchedulerInv, SchedulerTypeOK, SoleStarter, LeakOnlyByOverlap, isRunning
<1>1. CASE Stop
  BY <1>1 DEF Stop, isRunning
<1>2. ASSUME NEW s \in Slot, Start(s) PROVE SoleStarter' /\ LeakOnlyByOverlap'
  BY <1>2 DEF Start, isRunning, Starting
<1>3. ASSUME NEW s \in Slot, StartResolves(s) PROVE SoleStarter' /\ LeakOnlyByOverlap'
  <2>1. CASE startsOverlapped
    BY <1>3, <2>1 DEF StartResolves
  <2>2. CASE ~startsOverlapped
    <3>1. timer = NoTimer /\ live = {}
      BY <1>3, <2>2 DEF StartResolves
    <3>2. \A t \in Slot : inflight'[t] # "start"
      BY <1>3, <2>2 DEF StartResolves
    <3>3. PICK h \in Handle : timer' = h /\ live' = {h}
      BY <1>3, <3>1 DEF StartResolves
    <3>4. QED
      BY <3>2, <3>3
  <2>3. QED
    BY <2>1, <2>2
<1>4. ASSUME NEW s \in Slot, StartRejects(s) PROVE SoleStarter' /\ LeakOnlyByOverlap'
  BY <1>4 DEF StartRejects
<1>5. ASSUME NEW s \in Slot, TickResolves(s) PROVE SoleStarter' /\ LeakOnlyByOverlap'
  BY <1>5 DEF TickResolves
<1>6. ASSUME NEW s \in Slot, TickRejects(s) PROVE SoleStarter' /\ LeakOnlyByOverlap'
  BY <1>6 DEF TickRejects
<1>7. ASSUME NEW s \in Slot, NEW h \in Handle, Tick(h, s)
      PROVE  SoleStarter' /\ LeakOnlyByOverlap'
  BY <1>7 DEF Tick
<1>8. CASE UNCHANGED schedulerVars
  BY <1>8 DEF schedulerVars
<1>9. QED
  BY <1>1, <1>2, <1>3, <1>4, <1>5, <1>6, <1>7, <1>8 DEF SchedulerNext

\* The scheduler's state is well formed in every reachable state.
THEOREM SchedulerTypeCorrect == SchedulerSpec => []SchedulerTypeOK
<1>1. SchedulerInit => SchedulerTypeOK
  BY SchedulerInvInit DEF SchedulerInv
<1>2. QED
  BY <1>1, SchedulerTypeStep, PTL DEF SchedulerSpec

(***************************************************************************)
(* An interval that stop() cannot clear exists only after two start()      *)
(* calls overlapped, however many invocations and handles there are.       *)
(***************************************************************************)
THEOREM NoLeakWithoutOverlap == SchedulerSpec => []LeakOnlyByOverlap
<1>1. SchedulerInv => LeakOnlyByOverlap
  BY DEF SchedulerInv
<1>2. QED
  BY SchedulerInvInit, SchedulerInvStep, <1>1, PTL DEF SchedulerSpec
-----------------------------------------------------------------------------
(***************************************************************************)
(* The pipeline.                                                           *)
(***************************************************************************)

\* Whatever the pipeline does, its scheduler does one of its steps or none.
LEMMA PipelineStepsSchedule == [Next]_vars => [SchedulerNext]_schedulerVars
<1> SUFFICES ASSUME [Next]_vars PROVE [SchedulerNext]_schedulerVars
  OBVIOUS
<1>1. CASE UNCHANGED vars
  BY <1>1 DEF vars
<1>2. CASE LibraryChanges \/ StopScheduler \/ \E updates \in Batches : OperatorUpdate(updates)
  BY <1>2 DEF LibraryChanges, StopScheduler, OperatorUpdate, SchedulerNext
<1>3. ASSUME NEW s \in Slot, BeginByStart(s) \/ \E h \in Handle : BeginByTick(h, s)
      PROVE  SchedulerNext
  BY <1>3 DEF BeginByStart, BeginByTick, SchedulerNext
<1>4. ASSUME NEW s \in Slot, FetchScenarioTable(s) \/ FetchMalformedTable(s) \/ FetchSelectionLogic(s)
      PROVE  UNCHANGED schedulerVars
  BY <1>4 DEF FetchScenarioTable, FetchMalformedTable, FetchSelectionLogic
<1>5. ASSUME NEW s \in Slot, FinishRun(s) \/ FailRun(s) PROVE SchedulerNext
  BY <1>5 DEF FinishRun, FailRun, SchedulerNext
<1> QED
  BY <1>1, <1>2, <1>3, <1>4, <1>5 DEF Next

\* For any slots, handles and catalogs: driven by the pipeline, the scheduler is
\* the one specified on its own, of which everything above holds.
\* (createScenarioIngestionScheduler, runScenarioLibraryIngestion)
THEOREM PipelineSchedules == Spec => SchedulerSpec
<1>1. Init => SchedulerInit
  BY DEF Init
<1> QED
  BY <1>1, PipelineStepsSchedule, PTL DEF Spec, SchedulerSpec

-----------------------------------------------------------------------------

Request == [seen : Snapshot \union {Shared}, rows : (SUBSET UseCase) \union {Waiting},
            selection : Selection \union {Waiting}]

PipelineTypeOK ==
  /\ SchedulerTypeOK
  /\ library \in Checksum
  /\ current \in Snapshot
  /\ request \in [Slot -> Request]
  /\ intent \in [UseCase -> Status]
  /\ dropped \subseteq UseCase

(***************************************************************************)
(* Neither property is inductive.  While runs do not overlap there is one  *)
(* at most, and it works on the stored snapshot itself; and of a use case  *)
(* that is neither listed nor dropped no operator has set the status, so   *)
(* that it may enter the tracker as a candidate.                           *)
(***************************************************************************)
SoleRun ==
  /\ \A s, t \in Slot : inflight[s] # "idle" /\ inflight[t] # "idle" => s = t
  /\ \A s \in Slot : inflight[s] # "idle" => request[s].seen = Shared

EditsKept ==
  /\ \A u \in DOMAIN current.tracker \ dropped : current.tracker[u] = intent[u]
  /\ \A u \in UseCase \ (dropped \union DOMAIN current.tracker) : intent[u] = "candidate"
  /\ staged = current.checksum

PipelineInv == PipelineTypeOK /\ (~ runsOverlapped => SoleRun /\ EditsKept)

\* What of a batch is applied names listed use cases and listed statuses.
LEMMA AppliedUpdates ==
  ASSUME NEW tracker, NEW updates \in Batches
  PROVE  /\ Applied(tracker, updates) \in Nat
         /\ \A i \in 1..Applied(tracker, updates) :
              /\ i \in DOMAIN updates
              /\ updates[i].useCase \in DOMAIN tracker /\ updates[i].status \in Status
<1> DEFINE bad == {i \in DOMAIN updates : \/ updates[i].useCase \notin DOMAIN tracker
                                          \/ updates[i].status \notin Status}
<1>1. PICK m \in Nat : updates \in [1..m -> Update]
  BY DEF Batches, BoundedSeq, SeqOf
<1>2. Len(updates) = m /\ DOMAIN updates = 1..m
  BY <1>1
<1>3. CASE bad = {}
  BY <1>2, <1>3 DEF Applied
<1>4. CASE bad # {}
  <2>1. \E i \in bad : \A j \in bad : i <= j
    <3>1. bad \in SUBSET Nat
      BY <1>2
    <3> HIDE DEF bad
    <3> QED
      BY <1>4, <3>1, LeastNat
  <2> DEFINE first == CHOOSE i \in bad : \A j \in bad : i <= j
  <2>2. first \in bad /\ \A j \in bad : first <= j
    BY <2>1
  <2>3. Applied(tracker, updates) = first - 1
    BY <1>4 DEF Applied
  <2> HIDE DEF first
  <2>4. first \in 1..m
    BY <1>2, <2>2
  <2>5. \A i \in 1..(first - 1) : i \in 1..m /\ i \notin bad
    BY <1>2, <2>2, <2>4
  <2> QED
    BY <1>2, <2>3, <2>4, <2>5
<1> QED
  BY <1>3, <1>4

\* Updates change the statuses of a tracker, and those only of what they name.
LEMMA UpdatedTracker ==
  ASSUME NEW tracker, NEW updates \in Batches, NEW n \in Nat,
         \A i \in 1..n : updates[i].status \in Status
  PROVE  LET after == AfterUpdates(tracker, updates, n)
         IN  /\ DOMAIN after = DOMAIN tracker
             /\ \A U : tracker \in [U -> Status] => after \in [U -> Status]
             /\ \A u \in DOMAIN tracker \ {updates[i].useCase : i \in 1..n} : after[u] = tracker[u]
<1> DEFINE after == AfterUpdates(tracker, updates, n)
           Hits(u) == {i \in 1..n : updates[i].useCase = u}
           Latest(u) == CHOOSE i \in Hits(u) : \A j \in Hits(u) : j <= i
<1>1. after = [u \in DOMAIN tracker |-> IF Hits(u) = {} THEN tracker[u] ELSE updates[Latest(u)].status]
  BY DEF AfterUpdates
<1>2. \A u : Hits(u) # {} => Latest(u) \in 1..n
  BY GreatestNat
<1>3. \A u \in DOMAIN tracker \ {updates[i].useCase : i \in 1..n} : Hits(u) = {}
  OBVIOUS
<1> HIDE DEF Hits, Latest
<1> QED
  BY <1>1, <1>2, <1>3

LEMMA MergedTracker ==
  ASSUME NEW tracker \in Tracker, NEW rows \in SUBSET UseCase
  PROVE  MergeUseCaseTracker(tracker, rows) \in [rows -> Status]
  BY StatusAssumption DEF MergeUseCaseTracker, InitializeUseCaseTracker, Tracker

-----------------------------------------------------------------------------

LEMMA PipelineInitially == Init => PipelineInv
<1> SUFFICES ASSUME Init PROVE PipelineInv
  OBVIOUS
<1>1. SchedulerTypeOK
  BY SchedulerInvInit DEF Init, SchedulerInv
<1>2. NoSnapshot.tracker = <<>> /\ DOMAIN <<>> = {} /\ NoSnapshot.checksum = NoChecksum
  BY DEF NoSnapshot
<1>3. /\ current \in Snapshot /\ library \in Checksum /\ request \in [Slot -> Request]
      /\ intent \in [UseCase -> Status] /\ dropped \subseteq UseCase
  <2>1. NoRequest \in Request
    BY DEF NoRequest, Request
  <2> QED
    BY <2>1, StatusAssumption DEF Init, Snapshot, InitializeUseCaseTracker
<1>4. SoleRun
  BY DEF Init, SchedulerInit, SoleRun
<1>5. EditsKept
  BY <1>2 DEF Init, EditsKept, InitializeUseCaseTracker
<1> QED
  BY <1>1, <1>3, <1>4, <1>5 DEF PipelineInv, PipelineTypeOK

LEMMA TrackerOfSnapshot ==
  ASSUME NEW snapshot \in Snapshot
  PROVE  snapshot.tracker \in Tracker /\ DOMAIN snapshot.tracker \subseteq UseCase
<1>1. CASE snapshot \in [checksum : Checksum, tracker : Tracker]
  BY <1>1 DEF Tracker
<1>2. CASE snapshot = NoSnapshot
  <2>1. snapshot.tracker = <<>>
    BY <1>2 DEF NoSnapshot
  <2>2. <<>> \in [{} -> Status] /\ {} \in SUBSET UseCase /\ DOMAIN <<>> = {}
    OBVIOUS
  <2> QED
    BY <2>1, <2>2 DEF Tracker
<1> QED
  BY <1>1, <1>2 DEF Snapshot

\* A run begins: it captures the stored snapshot, and runs overlap if one was busy.
LEMMA BeginKeepsInv ==
  ASSUME PipelineInv, SchedulerTypeOK', NEW s \in Slot, BeginRun(s),
         inflight[s] = "idle", \A t \in Slot \ {s} : inflight'[t] = inflight[t],
         ~ runsOverlapped' => ~ runsOverlapped /\ Busy = {}
  PROVE  PipelineInv'
<1>1. /\ request' = [request EXCEPT ![s] = [NoRequest EXCEPT !.seen = Shared]]
      /\ UNCHANGED <<library, current, staged, intent, dropped>>
  BY DEF BeginRun, CaptureCurrent
<1>2. /\ request' \in [Slot -> Request] /\ request'[s].seen = Shared
      /\ \A t \in Slot \ {s} : request'[t] = request[t]
  <2>1. [NoRequest EXCEPT !.seen = Shared] \in Request
    BY DEF NoRequest, Request
  <2>2. [NoRequest EXCEPT !.seen = Shared].seen = Shared
    BY DEF NoRequest
  <2>3. request \in [Slot -> Request]
    BY DEF PipelineInv, PipelineTypeOK
  <2> QED
    BY <1>1, <2>1, <2>2, <2>3
<1>3. PipelineTypeOK'
  BY <1>1, <1>2 DEF PipelineInv, PipelineTypeOK
<1>4. ASSUME ~ runsOverlapped' PROVE SoleRun' /\ EditsKept'
  <2>1. /\ ~ runsOverlapped /\ \A t \in Slot : inflight[t] = "idle"
    BY <1>4 DEF Busy
  <2>2. \A t \in Slot \ {s} : inflight'[t] = "idle"
    BY <2>1
  <2> QED
    BY <1>1, <1>2, <2>1, <2>2 DEF PipelineInv, SoleRun, EditsKept
<1> QED
  BY <1>3, <1>4 DEF PipelineInv

\* An answer arrives at a run, or the library changes: nothing is stored.
LEMMA AnswerKeepsInv ==
  ASSUME PipelineInv, UNCHANGED <<schedulerVars, current, staged, intent, dropped>>,
         library' \in Checksum, request' \in [Slot -> Request],
         \A s \in Slot : request'[s].seen = request[s].seen
  PROVE  PipelineInv'
<1>1. PipelineTypeOK'
  BY DEF PipelineInv, PipelineTypeOK, schedulerVars, SchedulerTypeOK
<1>2. ASSUME ~ runsOverlapped' PROVE SoleRun' /\ EditsKept'
  BY <1>2 DEF PipelineInv, schedulerVars, SoleRun, EditsKept
<1> QED
  BY <1>1, <1>2 DEF PipelineInv

LEMMA FetchKeepsInv ==
  ASSUME PipelineInv, NEW s \in Slot,
         FetchScenarioTable(s) \/ FetchMalformedTable(s) \/ FetchSelectionLogic(s)
  PROVE  PipelineInv'
<1>1. library \in Checksum /\ library.rows \in SUBSET UseCase /\ library.selection \in Selection
      /\ request \in [Slot -> Request] /\ request[s] \in Request
  BY DEF PipelineInv, PipelineTypeOK, Checksum
<1>2. UNCHANGED <<schedulerVars, library, current, staged, intent, dropped>>
  BY DEF FetchScenarioTable, FetchMalformedTable, FetchSelectionLogic
<1>3. \/ \E rows \in SUBSET UseCase : request' = [request EXCEPT ![s].rows = rows]
      \/ \E selection \in Selection : request' = [request EXCEPT ![s].selection = selection]
  BY <1>1 DEF FetchScenarioTable, FetchMalformedTable, FetchSelectionLogic
<1>4. request' \in [Slot -> Request] /\ \A t \in Slot : request'[t].seen = request[t].seen
  <2>1. ASSUME NEW rows \in SUBSET UseCase, request' = [request EXCEPT ![s].rows = rows]
        PROVE  request' \in [Slot -> Request] /\ \A t \in Slot : request'[t].seen = request[t].seen
    <3>1. request'[s] = [request[s] EXCEPT !.rows = rows] /\ \A t \in Slot \ {s} : request'[t] = request[t]
      BY <1>1, <2>1
    <3>2. request'[s] \in Request /\ request'[s].seen = request[s].seen
      BY <1>1, <3>1 DEF Request
    <3> QED
      BY <1>1, <2>1, <3>1, <3>2
  <2>2. ASSUME NEW sel \in Selection, request' = [request EXCEPT ![s].selection = sel]
        PROVE  request' \in [Slot -> Request] /\ \A t \in Slot : request'[t].seen = request[t].seen
    <3>1. request'[s] = [request[s] EXCEPT !.selection = sel] /\ \A t \in Slot \ {s} : request'[t] = request[t]
      BY <1>1, <2>2
    <3>2. request'[s] \in Request /\ request'[s].seen = request[s].seen
      BY <1>1, <3>1 DEF Request
    <3> QED
      BY <1>1, <2>2, <3>1, <3>2
  <2> QED
    BY <1>3, <2>1, <2>2
<1> QED
  BY <1>1, <1>2, <1>4, AnswerKeepsInv

\* The snapshot of a run whose answers are in: its rows' use cases, each with what
\* the captured tracker says of it.
LEMMA SnapshotOfRun ==
  ASSUME PipelineInv, NEW s \in Slot, Fetched(s)
  PROVE  /\ SnapshotOf(s) \in Snapshot /\ Captured(s) \in Snapshot
         /\ DOMAIN SnapshotOf(s).tracker \subseteq UseCase
         /\ \A u \in DOMAIN SnapshotOf(s).tracker :
              SnapshotOf(s).tracker[u] =
                IF u \in DOMAIN Captured(s).tracker THEN Captured(s).tracker[u] ELSE "candidate"
<1>1. request[s] \in Request /\ current \in Snapshot
  BY DEF PipelineInv, PipelineTypeOK
<1>2. /\ request[s].rows \in SUBSET UseCase /\ request[s].selection \in Selection
      /\ request[s].seen \in Snapshot \union {Shared}
  BY <1>1 DEF Fetched, Request
<1>3. Captured(s) \in Snapshot
  BY <1>1, <1>2 DEF Captured
<1>4. Captured(s).tracker \in Tracker
  BY <1>3, TrackerOfSnapshot
<1> DEFINE merged == MergeUseCaseTracker(Captured(s).tracker, request[s].rows)
<1>5. merged \in [request[s].rows -> Status]
  BY <1>2, <1>4, MergedTracker
<1>6. merged \in Tracker
  BY <1>2, <1>5 DEF Tracker
<1>7. \A u \in request[s].rows :
        merged[u] = IF u \in DOMAIN Captured(s).tracker THEN Captured(s).tracker[u] ELSE "candidate"
  BY DEF MergeUseCaseTracker, InitializeUseCaseTracker
<1> HIDE DEF merged
<1>8. SnapshotOf(s) = [checksum |-> [rows |-> request[s].rows, selection |-> request[s].selection],
                       tracker |-> merged]
  BY DEF SnapshotOf, merged
<1>9. SnapshotOf(s) \in [checksum : Checksum, tracker : Tracker] /\ SnapshotOf(s).tracker = merged
  BY <1>2, <1>6, <1>8 DEF Checksum
<1> QED
  BY <1>2, <1>3, <1>5, <1>7, <1>9 DEF Snapshot

\* What a run stores keeps every edit, if it worked on what was stored.
LEMMA StoreKeepsEdits ==
  ASSUME PipelineInv, EditsKept, NEW s \in Slot, Fetched(s), request[s].seen = Shared,
         Store(s, SnapshotOf(s)), intent' = intent, staged' = SnapshotOf(s).checksum
  PROVE  EditsKept'
<1>1. Captured(s) = current
  BY DEF Captured
<1>2. /\ current' = SnapshotOf(s)
      /\ dropped' = dropped \union (DOMAIN current.tracker \ DOMAIN SnapshotOf(s).tracker)
  BY DEF Store
<1>3. \A u \in DOMAIN current'.tracker :
        /\ u \in UseCase
        /\ current'.tracker[u] = IF u \in DOMAIN current.tracker THEN current.tracker[u] ELSE "candidate"
  BY <1>1, <1>2, SnapshotOfRun
<1>4. ASSUME NEW u \in (DOMAIN current'.tracker) \ dropped' PROVE current'.tracker[u] = intent[u]
  BY <1>2, <1>3, <1>4 DEF EditsKept
<1>5. ASSUME NEW u \in UseCase \ (dropped' \union DOMAIN current'.tracker) PROVE intent[u] = "candidate"
  BY <1>2, <1>5 DEF EditsKept
<1> QED
  BY <1>2, <1>4, <1>5 DEF EditsKept

LEMMA FinishKeepsInv ==
  ASSUME PipelineInv, SchedulerTypeOK', NEW s \in Slot, FinishRun(s)
  PROVE  PipelineInv'
<1>1. /\ s \in Busy /\ Fetched(s) /\ UNCHANGED <<library, intent, runsOverlapped>>
      /\ inflight' = [inflight EXCEPT ![s] = "idle"]
  BY DEF FinishRun, StartResolves, TickResolves
<1>2. \/ /\ Store(s, SnapshotOf(s))
         /\ \/ staged' = SnapshotOf(s).checksum
            \/ staged' = staged /\ Captured(s).checksum = SnapshotOf(s).checksum
      \/ request' = [request EXCEPT ![s] = NoRequest] /\ UNCHANGED <<current, dropped, staged>>
  BY Zenon DEF FinishRun, FinishDuplicate, FinishFresh, IsDuplicate
<1>3. NoRequest \in Request /\ request \in [Slot -> Request] /\ current \in Snapshot
  BY DEF NoRequest, Request, PipelineInv, PipelineTypeOK
<1>4. request' \in [Slot -> Request]
  <2>1. \A r \in Slot : [request[r] EXCEPT !.seen = current] \in Request
    BY <1>3 DEF Request
  <2>2. CASE Store(s, SnapshotOf(s))
    BY <1>3, <2>1, <2>2 DEF Store
  <2> QED
    BY <1>2, <1>3, <2>2
<1>5. current' \in Snapshot /\ dropped' \subseteq UseCase
  <2>1. DOMAIN current.tracker \subseteq UseCase
    BY <1>3, TrackerOfSnapshot
  <2> QED
    BY <1>1, <1>2, <2>1, SnapshotOfRun DEF Store, PipelineInv, PipelineTypeOK
<1>6. PipelineTypeOK'
  BY <1>1, <1>4, <1>5 DEF PipelineInv, PipelineTypeOK
<1>7. ASSUME ~ runsOverlapped' PROVE SoleRun' /\ EditsKept'
  <2>1. ~ runsOverlapped
    BY <1>1, <1>7
  <2>2. /\ SoleRun /\ EditsKept /\ request[s].seen = Shared
        /\ \A t \in Slot \ {s} : inflight[t] = "idle"
    BY <1>1, <2>1 DEF PipelineInv, SoleRun, Busy
  <2>3. SoleRun'
    <3>1. \A t \in Slot : inflight'[t] = "idle"
      BY <1>1, <2>2 DEF PipelineInv, PipelineTypeOK, SchedulerTypeOK
    <3> QED
      BY <3>1 DEF SoleRun
  <2>4. Captured(s) = current /\ staged = current.checksum
    BY <2>2 DEF Captured, EditsKept
  <2>5. CASE Store(s, SnapshotOf(s)) /\ staged' = SnapshotOf(s).checksum
    <3>1. intent' = intent
      BY <1>1
    <3> QED
      BY <1>1, <2>2, <2>3, <2>5, <3>1, StoreKeepsEdits, Zenon
  <2>6. CASE UNCHANGED <<current, dropped, staged>>
    BY <1>1, <2>2, <2>3, <2>6 DEF EditsKept
  <2>7. CASE Store(s, SnapshotOf(s)) /\ staged' = staged /\ Captured(s).checksum = SnapshotOf(s).checksum
    <3>1. staged' = SnapshotOf(s).checksum
      BY <2>4, <2>7, Zenon
    <3> QED
      BY <2>5, <2>7, <3>1
  <2> QED
    BY <1>2, <2>5, <2>6, <2>7
<1> QED
  BY <1>6, <1>7 DEF PipelineInv

LEMMA FailKeepsInv ==
  ASSUME PipelineInv, SchedulerTypeOK', NEW s \in Slot, FailRun(s)
  PROVE  PipelineInv'
<1>1. /\ s \in Busy /\ UNCHANGED <<library, current, staged, intent, dropped, runsOverlapped>>
      /\ inflight' = [inflight EXCEPT ![s] = "idle"] \/ inflight' = [r \in Slot |-> "idle"]
      /\ request' = [request EXCEPT ![s] = NoRequest] \/ request' = [r \in Slot |-> NoRequest]
  BY Zenon DEF FailRun, StartRejects, TickRejects
<1>2. NoRequest \in Request
  BY DEF NoRequest, Request
<1>3. PipelineTypeOK'
  BY <1>1, <1>2 DEF PipelineInv, PipelineTypeOK
<1>4. ASSUME ~ runsOverlapped' PROVE SoleRun' /\ EditsKept'
  <2>1. ~ runsOverlapped
    BY <1>1, <1>4
  <2>2. SoleRun /\ EditsKept /\ \A t \in Slot \ {s} : inflight[t] = "idle"
    BY <1>1, <2>1 DEF PipelineInv, SoleRun, Busy
  <2>3. \A t \in Slot : inflight'[t] = "idle"
    BY <1>1, <2>2 DEF PipelineInv, PipelineTypeOK, SchedulerTypeOK
  <2> QED
    BY <1>1, <2>2, <2>3 DEF SoleRun, EditsKept
<1> QED
  BY <1>3, <1>4 DEF PipelineInv

LEMMA UpdateKeepsInv ==
  ASSUME PipelineInv, SchedulerTypeOK', NEW updates \in Batches, OperatorUpdate(updates)
  PROVE  PipelineInv'
<1> DEFINE n      == Applied(current.tracker, updates)
           after  == AfterUpdates(current.tracker, updates, n)
           named  == {updates[i].useCase : i \in 1..n}
<1>1. /\ current # NoSnapshot /\ current' = [current EXCEPT !.tracker = after]
      /\ intent' = AfterUpdates(intent, updates, n) /\ dropped' = dropped \ named
      /\ UNCHANGED <<schedulerVars, library, request, staged>>
  BY DEF OperatorUpdate, UpdateUseCaseTracker
<1>2. current \in [checksum : Checksum, tracker : Tracker] /\ intent \in [UseCase -> Status]
  BY <1>1 DEF PipelineInv, PipelineTypeOK, Snapshot
<1>3. /\ n \in Nat
      /\ \A i \in 1..n : updates[i].useCase \in DOMAIN current.tracker /\ updates[i].status \in Status
  BY AppliedUpdates
<1>4. PICK U \in SUBSET UseCase : current.tracker \in [U -> Status]
  BY <1>2 DEF Tracker
<1>5. /\ after \in [U -> Status] /\ intent' \in [UseCase -> Status] /\ named \subseteq U
      /\ \A u \in U \ named : after[u] = current.tracker[u]
      /\ \A u \in UseCase \ named : intent'[u] = intent[u]
  <2>1. \A i \in 1..n : updates[i].status \in Status
    BY <1>3
  <2>2. DOMAIN current.tracker = U /\ DOMAIN intent = UseCase
    BY <1>2, <1>4
  <2>3. /\ after \in [U -> Status]
        /\ \A u \in U \ named : after[u] = current.tracker[u]
    <3> HIDE DEF n, named
    <3>1. /\ DOMAIN after = DOMAIN current.tracker /\ after \in [U -> Status]
          /\ \A u \in DOMAIN current.tracker \ {updates[i].useCase : i \in 1..n} :
                after[u] = current.tracker[u]
      BY <1>3, <1>4, <2>1, UpdatedTracker
    <3> QED
      BY <2>2, <3>1 DEF named
  <2>4. /\ intent' \in [UseCase -> Status]
        /\ \A u \in UseCase \ named : intent'[u] = intent[u]
    BY <1>1, <1>2, <1>3, <2>1, <2>2, UpdatedTracker
  <2>5. named \subseteq U
    BY <1>3, <2>2
  <2> QED
    BY <2>3, <2>4, <2>5
<1>6. \A u \in named : after[u] = intent'[u]
  BY <1>1, <1>2, <1>4, <1>5 DEF AfterUpdates
<1> HIDE DEF n, after, named
<1>7. /\ current' \in [checksum : Checksum, tracker : Tracker]
      /\ current'.tracker = after /\ current'.checksum = current.checksum
  BY <1>1, <1>2, <1>5 DEF Tracker
<1>8. PipelineTypeOK'
  BY <1>1, <1>5, <1>7 DEF PipelineInv, PipelineTypeOK, Snapshot
<1>9. ASSUME ~ runsOverlapped' PROVE SoleRun' /\ EditsKept'
  <2>1. SoleRun /\ EditsKept /\ UNCHANGED <<inflight, request, staged>>
    BY <1>1, <1>9 DEF PipelineInv, schedulerVars
  <2>2. ASSUME NEW u \in U \ dropped' PROVE after[u] = intent'[u]
    BY <1>1, <1>4, <1>5, <1>6, <2>1, <2>2 DEF EditsKept
  <2>3. ASSUME NEW u \in UseCase \ (dropped' \union U) PROVE intent'[u] = "candidate"
    BY <1>1, <1>4, <1>5, <2>1, <2>3 DEF EditsKept
  <2>4. staged' = current'.checksum
    BY <1>7, <2>1 DEF EditsKept
  <2>5. DOMAIN current'.tracker = U
    BY <1>5, <1>7
  <2> QED
    BY <1>7, <2>1, <2>2, <2>3, <2>4, <2>5 DEF SoleRun, EditsKept
<1> QED
  BY <1>8, <1>9 DEF PipelineInv

LEMMA PipelineKeepsInv == PipelineInv /\ [Next]_vars => PipelineInv'
<1> SUFFICES ASSUME PipelineInv, [Next]_vars PROVE PipelineInv'
  OBVIOUS
<1>1. SchedulerTypeOK'
  BY PipelineStepsSchedule, SchedulerTypeStep DEF PipelineInv, PipelineTypeOK
<1>2. CASE UNCHANGED vars
  BY <1>2, AnswerKeepsInv DEF vars, PipelineInv, PipelineTypeOK
<1>3. CASE LibraryChanges
  BY <1>3, AnswerKeepsInv DEF LibraryChanges, PipelineInv, PipelineTypeOK
<1>4. CASE StopScheduler
  BY <1>1, <1>4 DEF StopScheduler, Stop, PipelineInv, PipelineTypeOK, SoleRun, EditsKept
<1>5. ASSUME NEW updates \in Batches, OperatorUpdate(updates) PROVE PipelineInv'
  BY <1>1, <1>5, UpdateKeepsInv
<1>6. ASSUME NEW s \in Slot, BeginByStart(s) \/ \E h \in Handle : BeginByTick(h, s) PROVE PipelineInv'
  <2>1. /\ BeginRun(s) /\ inflight[s] = "idle" /\ runsOverlapped' = (runsOverlapped \/ Busy # {})
        /\ \E w : inflight' = [inflight EXCEPT ![s] = w]
    BY <1>6 DEF BeginByStart, BeginByTick, Start, Tick
  <2>2. ~ runsOverlapped' => ~ runsOverlapped /\ Busy = {}
    BY <2>1, Zenon
  <2>3. \A t \in Slot \ {s} : inflight'[t] = inflight[t]
    BY <2>1 DEF PipelineInv, PipelineTypeOK, SchedulerTypeOK
  <2> QED
    BY <1>1, <2>1, <2>2, <2>3, BeginKeepsInv
<1>7. ASSUME NEW s \in Slot, FetchScenarioTable(s) \/ FetchMalformedTable(s) \/ FetchSelectionLogic(s)
      PROVE  PipelineInv'
  BY <1>7, FetchKeepsInv
<1>8. ASSUME NEW s \in Slot, FinishRun(s) \/ FailRun(s) PROVE PipelineInv'
  BY <1>1, <1>8, FinishKeepsInv, FailKeepsInv
<1> QED
  BY <1>2, <1>3, <1>4, <1>5, <1>6, <1>7, <1>8 DEF Next

\* For any catalog, statuses and batches of edits: no operator edit is lost while
\* runs do not overlap, as long as the catalog kept listing the use case.
\* (mergeUseCaseTracker, updateUseCaseTracker, runScenarioLibraryIngestion)
THEOREM EditsSurviveRuns == Spec => []UpdatesSurvive
<1>1. PipelineInv => UpdatesSurvive
  BY DEF PipelineInv, EditsKept, UpdatesSurvive
<1> QED
  BY <1>1, PipelineInitially, PipelineKeepsInv, PTL DEF Spec

\* For any catalog: while runs do not overlap, what Foundry was handed last is the
\* snapshot that the caller stores, however many runs were duplicates.
\* (runScenarioLibraryIngestion, isDuplicateScenarioSnapshot)
THEOREM FoundryHasTheStored == Spec => []HandoffMatchesStore
<1>1. PipelineInv => HandoffMatchesStore
  BY DEF PipelineInv, EditsKept, HandoffMatchesStore
<1> QED
  BY <1>1, PipelineInitially, PipelineKeepsInv, PTL DEF Spec
=============================================================================
