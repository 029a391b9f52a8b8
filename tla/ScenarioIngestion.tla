--------------------------- MODULE ScenarioIngestion ---------------------------
(***************************************************************************)
(* The Scenario Library pipeline as the scheduler drives it.  A run        *)
(* captures the caller's stored snapshot when it is called, awaits two     *)
(* independent fetches (the scenario table and the selection logic), then, *)
(* in one turn of the event loop, merges the use case tracker, compares    *)
(* checksums and either hands the snapshot to Foundry or reports a         *)
(* duplicate.  The caller stores the snapshot it gets back and passes it   *)
(* to the next run.                                                        *)
(*                                                                         *)
(* Between two runs, or while one is in flight, operators edit the stored  *)
(* tracker with updateUseCaseTracker, which mutates the tracker IN PLACE:  *)
(* a run that captured the same object sees the edits made after it was    *)
(* called.  A run therefore captures either Shared, the object the caller  *)
(* still stores, or the last value of an object since replaced.            *)
(*                                                                         *)
(* A checksum is a hash of rows and selection logic; it is represented by  *)
(* the pair it hashes.  Of an item's lifecycle and KPI fields, which the   *)
(* merge copies alike, the model keeps the status.                         *)
(***************************************************************************)
EXTENDS IngestionScheduler, Sequences, SequencesExt

CONSTANTS
  UseCase,     \* use case ids rows can normalise to
  Selection,   \* versions of the selection logic
  Status,      \* lifecycle statuses updateUseCaseTracker accepts
  Shared,      \* the captured snapshot is the object the caller still stores
  Waiting,     \* a fetch not yet answered
  NoChecksum,  \* no snapshot
  MaxEvents,   \* bound: library changes, malformed answers and operator calls
  MaxBatch     \* bound: updates in one call of updateUseCaseTracker

ASSUME StatusAssumption == "candidate" \in Status

VARIABLES
  library,   \* what the external service would answer now
  current,   \* the snapshot the caller stores
  request,   \* per slot: the captured snapshot and the answers so far
  staged,    \* checksum of the last snapshot staged and handed to Foundry
  intent,    \* history: per use case, the last status an operator set
  dropped,   \* history: use cases that left the stored tracker since then
  budget     \* what is left of MaxEvents

vars == <<schedulerVars, library, current, request, staged, intent, dropped, budget>>

Checksum   == [rows : SUBSET UseCase, selection : Selection]
NoSnapshot == [checksum |-> NoChecksum, tracker |-> <<>>]
NoRequest  == [seen |-> Shared, rows |-> Waiting, selection |-> Waiting]

(***************************************************************************)
(* initializeUseCaseTracker and mergeUseCaseTracker: every use case of the *)
(* refreshed catalog, with the previous item's lifecycle data if there was *)
(* one.  Items of the previous tracker that the catalog lacks are gone.    *)
(***************************************************************************)
InitializeUseCaseTracker(useCases) == [u \in useCases |-> "candidate"]

MergeUseCaseTracker(existing, useCases) ==
  [u \in useCases |-> IF u \in DOMAIN existing
                      THEN existing[u]
                      ELSE InitializeUseCaseTracker(useCases)[u]]

\* How many updates of a batch are applied before one throws: an unknown id, or
\* a status that is not in the list.
Applied(tracker, updates) ==
  LET bad == {i \in DOMAIN updates :
                 \/ updates[i].useCase \notin DOMAIN tracker
                 \/ updates[i].status \notin Status}
  IN  IF bad = {} THEN Len(updates) ELSE (CHOOSE i \in bad : \A j \in bad : i <= j) - 1

\* The tracker (or the history of what was asked for) after the first n
\* updates: the last one of a use case wins.
AfterUpdates(tracker, updates, n) ==
  [u \in DOMAIN tracker |->
     LET hits == {i \in 1..n : updates[i].useCase = u}
     IN  IF hits = {} THEN tracker[u]
         ELSE updates[CHOOSE i \in hits : \A j \in hits : j <= i].status]

UpdateUseCaseTracker(tracker, updates) ==
  AfterUpdates(tracker, updates, Applied(tracker, updates))

\* Mutant of IsDuplicate: the checksum leaves out the scenario table.
IsDuplicateSelection(previous, next) ==
  previous.checksum # NoChecksum /\ previous.checksum.selection = next.checksum.selection

IsDuplicate(previous, next) ==
  previous.checksum # NoChecksum /\ previous.checksum = next.checksum

-----------------------------------------------------------------------------

Init ==
  /\ SchedulerInit
  /\ library \in Checksum
  /\ current = NoSnapshot
  /\ request = [s \in Slot |-> NoRequest]
  /\ staged = NoChecksum
  /\ intent = InitializeUseCaseTracker(UseCase)
  /\ dropped = {}
  /\ budget = MaxEvents

Spend == budget > 0 /\ budget' = budget - 1

\* The external service publishes other rows or another selection logic.
LibraryChanges ==
  /\ Spend
  /\ library' \in Checksum \ {library}
  /\ UNCHANGED <<schedulerVars, current, request, staged, intent, dropped>>

\* Mutant of CaptureCurrent: the run works on a copy taken before its awaits.
CaptureCopy == current

CaptureCurrent == Shared

BeginRun(s) ==
  /\ request' = [request EXCEPT ![s] = [NoRequest EXCEPT !.seen = CaptureCurrent]]
  /\ UNCHANGED <<library, current, staged, intent, dropped, budget>>

BeginByStart(s)   == Start(s) /\ BeginRun(s)
BeginByTick(h, s) == Tick(h, s) /\ BeginRun(s)

StopScheduler ==
  /\ Stop
  /\ UNCHANGED <<library, current, request, staged, intent, dropped, budget>>

FetchScenarioTable(s) ==
  /\ s \in Busy /\ request[s].rows = Waiting
  /\ request' = [request EXCEPT ![s].rows = library.rows]
  /\ UNCHANGED <<schedulerVars, library, current, staged, intent, dropped, budget>>

\* A response whose value is not an array is read as an empty table.
FetchMalformedTable(s) ==
  /\ s \in Busy /\ request[s].rows = Waiting
  /\ Spend
  /\ request' = [request EXCEPT ![s].rows = {}]
  /\ UNCHANGED <<schedulerVars, library, current, staged, intent, dropped>>

FetchSelectionLogic(s) ==
  /\ s \in Busy /\ request[s].selection = Waiting
  /\ request' = [request EXCEPT ![s].selection = library.selection]
  /\ UNCHANGED <<schedulerVars, library, current, staged, intent, dropped, budget>>

Fetched(s) == request[s].rows # Waiting /\ request[s].selection # Waiting

Captured(s) == IF request[s].seen = Shared THEN current ELSE request[s].seen

SnapshotOf(s) ==
  [checksum |-> [rows |-> request[s].rows, selection |-> request[s].selection],
   tracker  |-> MergeUseCaseTracker(Captured(s).tracker, request[s].rows)]

\* The caller replaces the stored snapshot; runs in flight keep the old object.
Store(s, snapshot) ==
  /\ current' = snapshot
  /\ dropped' = dropped \union (DOMAIN current.tracker \ DOMAIN snapshot.tracker)
  /\ request' = [r \in Slot |->
                   IF r # s /\ r \in Busy /\ request[r].seen = Shared
                   THEN [request[r] EXCEPT !.seen = current]
                   ELSE IF r = s THEN NoRequest ELSE request[r]]

\* A caller may keep or discard the snapshot of a duplicate run.
FinishDuplicate(s) ==
  /\ IsDuplicate(Captured(s), SnapshotOf(s))
  /\ \/ Store(s, SnapshotOf(s))
     \/ /\ request' = [request EXCEPT ![s] = NoRequest]
        /\ UNCHANGED <<current, dropped>>
  /\ UNCHANGED staged

FinishFresh(s) ==
  /\ ~IsDuplicate(Captured(s), SnapshotOf(s))
  /\ Store(s, SnapshotOf(s))
  /\ staged' = SnapshotOf(s).checksum

FinishRun(s) ==
  /\ s \in Busy /\ Fetched(s)
  /\ StartResolves(s) \/ TickResolves(s)
  /\ FinishDuplicate(s) \/ FinishFresh(s)
  /\ UNCHANGED <<library, intent, budget>>

\* Either fetch fails: Promise.all rejects at once.  The successor of a process
\* that died of it finds the snapshot its caller stored.
FailRun(s) ==
  /\ s \in Busy /\ ~Fetched(s)
  /\ \/ StartRejects(s) /\ request' = [request EXCEPT ![s] = NoRequest]
     \/ TickRejects(s)  /\ request' = [r \in Slot |-> NoRequest]
  /\ UNCHANGED <<library, current, staged, intent, dropped, budget>>

\* An operator edits the stored tracker, in place.
OperatorUpdate(updates) ==
  /\ current # NoSnapshot
  /\ Spend
  /\ LET n    == Applied(current.tracker, updates)
         done == {updates[i].useCase : i \in 1..n}
     IN  /\ current' = [current EXCEPT !.tracker = UpdateUseCaseTracker(@, updates)]
         /\ intent' = AfterUpdates(intent, updates, n)
         /\ dropped' = dropped \ done
  /\ UNCHANGED <<schedulerVars, library, request, staged>>

Update  == [useCase : UseCase, status : Status \union {"unlisted"}]
Batches == BoundedSeq(Update, MaxBatch) \ {<<>>}

Next ==
  \/ LibraryChanges
  \/ StopScheduler
  \/ \E updates \in Batches : OperatorUpdate(updates)
  \/ \E s \in Slot :
       \/ BeginByStart(s)
       \/ \E h \in Handle : BeginByTick(h, s)
       \/ FetchScenarioTable(s)
       \/ FetchMalformedTable(s)
       \/ FetchSelectionLogic(s)
       \/ FinishRun(s)
       \/ FailRun(s)

(***************************************************************************)
(* Fairness: the service answers a request it was sent, the event loop     *)
(* resumes a run whose answers are in, and an armed interval fires.        *)
(* Nothing makes anyone call start(), stop() or updateUseCaseTracker.      *)
(***************************************************************************)
Fairness ==
  /\ \A s \in Slot : /\ WF_vars(FetchScenarioTable(s))
                     /\ WF_vars(FetchSelectionLogic(s))
                     /\ WF_vars(FinishRun(s))
  /\ WF_vars(\E h \in Handle, s \in Slot : BeginByTick(h, s))

Spec == Init /\ [][Next]_vars /\ Fairness

-----------------------------------------------------------------------------

Tracker  == UNION {[U -> Status] : U \in SUBSET UseCase}
Snapshot == [checksum : Checksum, tracker : Tracker] \union {NoSnapshot}

(***************************************************************************)
(* No operator edit is lost while runs do not overlap, not even one made   *)
(* while a run is between its two awaits: the stored status of a use case  *)
(* is the one last set, as long as the catalog kept listing it.            *)
(***************************************************************************)
UpdatesSurvive ==
  ~runsOverlapped =>
    \A u \in DOMAIN current.tracker \ dropped : current.tracker[u] = intent[u]

(***************************************************************************)
(* Duplicate suppression never leaves Foundry behind: while runs do not    *)
(* overlap, what was last handed over is the snapshot the caller stores,   *)
(* however often a run was reported as a duplicate.                        *)
(***************************************************************************)
HandoffMatchesStore == ~runsOverlapped => staged = current.checksum

(***************************************************************************)
(* A scheduler that stays up catches up: once the library stops changing,  *)
(* the stored snapshot ends up being the library's, whatever stale, torn   *)
(* or malformed answers runs saw before, and even if runs overlap.         *)
(***************************************************************************)
CatchesUp == <>[]isRunning => <>[](current.checksum = library)

(***************************************************************************)
(* What docs/120-scenario-library-integration.md says of the merge:        *)
(* lifecycle state is preserved across refreshed ingestions.  The stored   *)
(* status of every listed use case is the one an operator last set.        *)
(***************************************************************************)
LifecyclePersists ==
  ~runsOverlapped =>
    \A u \in DOMAIN current.tracker : current.tracker[u] = intent[u]
=============================================================================
