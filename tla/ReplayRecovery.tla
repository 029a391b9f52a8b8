---------------------------- MODULE ReplayRecovery ----------------------------
(***************************************************************************)
(* Recovery of a source's outages.  A source yields one item at every      *)
(* instant, which is collected unless the source is down.  The caller      *)
(* lists every failure, and when it resumed if that was noticed; at any    *)
(* time it plans the replay windows of all failures so far, fetches what   *)
(* they cover, and has the batch judged for duplicates.                    *)
(*                                                                         *)
(* An instant is half a minute; a window covers its start and not its end.  *)
(***************************************************************************)
EXTENDS Integers, Sequences, FiniteSets

CONSTANTS
  Caps,         \* caps, in minutes, the caller can pass
  Unknown,      \* a time that was not noticed
  MaxFailures,  \* bound: outages
  LastInstant   \* bound: the clock

ASSUME ReplayAssumption == Caps \subseteq Int /\ Unknown \notin Int

VARIABLES
  clock,
  down,      \* the source is down
  failures,  \* the failures listed: [failedAt, resumedAt]
  missed,    \* items not collected
  recovered, \* items a replay fetched
  cap,       \* the cap the caller passes
  verdict    \* the last batch's status, and when it was replayed

replayVars == <<clock, down, failures, missed, recovered, cap, verdict>>

CapInstants == 2 * (IF cap > 5 THEN cap ELSE 5)

\* Mutant of EndOf: a failure that has not resumed has an empty window.
EndOfResumed(failure) ==
  IF failure.resumedAt = Unknown THEN failure.failedAt
  ELSE IF failure.resumedAt < failure.failedAt + CapInstants THEN failure.resumedAt
  ELSE failure.failedAt + CapInstants

EndOf(failure) ==
  LET fallback == failure.failedAt + CapInstants
  IN  IF failure.resumedAt # Unknown /\ failure.resumedAt < fallback
      THEN failure.resumedAt ELSE fallback

\* planReplayWindows, without the minutes it reports.
PlanReplayWindows ==
  [i \in DOMAIN failures |-> [start |-> failures[i].failedAt, end |-> EndOf(failures[i])]]

\* The batch of a plan, as far as items exist: one entry per window and item in it.
ReplayBatch(windows) ==
  {entry \in (DOMAIN windows) \X (0..(clock - 1)) :
     entry[2] \in windows[entry[1]].start..(windows[entry[1]].end - 1)}
Replayed(windows) == {entry[2] : entry \in ReplayBatch(windows)}

\* evaluateReplayDedupSafety: the ratio has four decimals, rounded half up.
EvaluateReplayDedupSafety(windows) ==
  LET total      == Cardinality(ReplayBatch(windows))
      duplicates == total - Cardinality(Replayed(windows))
      ratio      == IF total = 0 THEN 0 ELSE (20000 * duplicates + total) \div (2 * total)
  IN  IF ratio <= 500 THEN "ready" ELSE "blocked"

-----------------------------------------------------------------------------

ReplayInit ==
  /\ clock = 0 /\ down = FALSE
  /\ failures = <<>>
  /\ missed = {} /\ recovered = {}
  /\ cap \in Caps
  /\ verdict = [status |-> "blocked", at |-> 0]

Unchanged == UNCHANGED <<recovered, cap, verdict>>

Elapse ==
  /\ clock < LastInstant
  /\ clock' = clock + 1
  /\ missed' = IF down THEN missed \union {clock} ELSE missed
  /\ UNCHANGED <<down, failures>> /\ Unchanged

Fail ==
  /\ ~down /\ Len(failures) < MaxFailures
  /\ down' = TRUE
  /\ failures' = Append(failures, [failedAt |-> clock, resumedAt |-> Unknown])
  /\ UNCHANGED <<clock, missed>> /\ Unchanged

Resume(noticed) ==
  /\ down
  /\ down' = FALSE
  /\ failures' = IF noticed THEN [failures EXCEPT ![Len(failures)].resumedAt = clock] ELSE failures
  /\ UNCHANGED <<clock, missed>> /\ Unchanged

Replay ==
  /\ failures # <<>>
  /\ recovered' = recovered \union Replayed(PlanReplayWindows)
  /\ verdict' = [status |-> EvaluateReplayDedupSafety(PlanReplayWindows), at |-> clock]
  /\ UNCHANGED <<clock, down, failures, missed, cap>>

ReplayStep == Elapse \/ Fail \/ (\E noticed \in BOOLEAN : Resume(noticed)) \/ Replay

ReplaySpec == ReplayInit /\ [][ReplayStep]_replayVars

(***************************************************************************)
(* An item that was missed before the last replay has been recovered,      *)
(* unless it came later than the cap allows after the failure that lost    *)
(* it; and a batch is blocked as repeating itself only if some outage's    *)
(* end went unnoticed.  planReplayWindows, evaluateReplayDedupSafety.      *)
(***************************************************************************)
FailureOf(item) ==
  CHOOSE i \in DOMAIN failures :
    /\ failures[i].failedAt <= item
    /\ \A j \in DOMAIN failures : failures[j].failedAt <= item => j <= i

ReplayLeavesOnlyTheTail ==
  /\ \A item \in missed :
       item < verdict.at =>
         \/ item \in recovered
         \/ item - failures[FailureOf(item)].failedAt >= CapInstants
  /\ verdict.at > 0 /\ verdict.status = "blocked" =>
       \E i \in DOMAIN failures : failures[i].resumedAt = Unknown
=============================================================================
