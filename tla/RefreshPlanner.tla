---------------------------- MODULE RefreshPlanner ----------------------------
(***************************************************************************)
(* The refresh planner: a schedule of a tenant's pillars, the age of their *)
(* data judged against it, and a caller that now and then asks which are   *)
(* overdue and refreshes those.  A caller may leave out the time, which    *)
(* then is the epoch.                                                      *)
(***************************************************************************)
EXTENDS Integers

CONSTANTS
  Epoch,      \* the time if none is passed
  FirstHour,  \* when the tenant was onboarded
  LastHour,   \* bound on the clock
  HourStep,   \* how the clock ticks: of the intervals, the hours that matter
  Asked,      \* bound: the pillars that someone asks for singly
  Never

ASSUME PlannerAssumption ==
  /\ Epoch \in Int /\ FirstHour \in Int /\ LastHour \in Int /\ HourStep \in Nat \ {0}
  /\ Epoch < FirstHour /\ Never \notin Int

VARIABLES
  nowHour,      \* the time
  refreshedAt,  \* per pillar: when it was refreshed last, or Never
  schedule,     \* per pillar: the schedule's nextRefreshAt, rebuilt at a refresh
  checkedAt,    \* when overdue pillars were last asked for with the time
  checked,      \* whether they were ever asked for
  neglected     \* whether they were not, over more than a tick

plannerVars == <<nowHour, refreshedAt, schedule, checkedAt, checked, neglected>>

-----------------------------------------------------------------------------

IntervalHours ==
  [pillar \in {"OBSERVE", "GOVERN", "SECURE", "OPTIMIZE"} |->
     IF pillar = "OBSERVE" THEN 6 ELSE IF pillar = "SECURE" THEN 12 ELSE 24]

Pillar == DOMAIN IntervalHours

ASSUME AskedAssumption == Asked \subseteq Pillar

\* buildRefreshSchedule: all pillars are anchored at one moment.
BuildRefreshSchedule(anchor) == [p \in Pillar |-> anchor + IntervalHours[p]]

\* Mutant of CheckStaleness: data that was never fetched is nothing to refresh.
CheckStalenessOfData(last, now) ==
  [p \in Pillar |->
     IF last[p] = Never THEN "fresh"
     ELSE IF now - last[p] <= IntervalHours[p] THEN "fresh"
     ELSE IF now - last[p] <= 2 * IntervalHours[p] THEN "stale" ELSE "overdue"]

CheckStaleness(last, now) ==
  [p \in Pillar |->
     IF last[p] = Never THEN "overdue"
     ELSE IF now - last[p] <= IntervalHours[p] THEN "fresh"
     ELSE IF now - last[p] <= 2 * IntervalHours[p] THEN "stale" ELSE "overdue"]

ListOverduePillars(last, now) == {p \in Pillar : CheckStaleness(last, now)[p] = "overdue"}

-----------------------------------------------------------------------------

PlannerInit ==
  /\ nowHour = FirstHour /\ checkedAt = FirstHour /\ checked = FALSE /\ neglected = FALSE
  /\ refreshedAt = [p \in Pillar |-> Never]
  /\ schedule = BuildRefreshSchedule(FirstHour)

HoursPass ==
  /\ nowHour + HourStep <= LastHour
  /\ nowHour' = nowHour + HourStep
  /\ neglected' = (neglected \/ nowHour' - checkedAt > HourStep)
  /\ UNCHANGED <<refreshedAt, schedule, checkedAt, checked>>

\* The caller refreshes what is listed, and plans it anew.
RefreshOverdue(now) ==
  LET overdue == ListOverduePillars(refreshedAt, now)
      planned == BuildRefreshSchedule(nowHour)
  IN  /\ refreshedAt' = [p \in Pillar |-> IF p \in overdue THEN nowHour ELSE refreshedAt[p]]
      /\ schedule' = [p \in Pillar |-> IF p \in overdue THEN planned[p] ELSE schedule[p]]
      /\ checkedAt' = IF now = nowHour THEN nowHour ELSE checkedAt
      /\ checked' = TRUE
      /\ UNCHANGED <<nowHour, neglected>>

\* Someone asks for the data of one pillar, due or not.
RefreshNow(p) ==
  /\ refreshedAt' = [refreshedAt EXCEPT ![p] = nowHour]
  /\ schedule' = [schedule EXCEPT ![p] = BuildRefreshSchedule(nowHour)[p]]
  /\ UNCHANGED <<nowHour, checkedAt, checked, neglected>>

PlannerStep ==
  \/ HoursPass
  \/ RefreshOverdue(nowHour) \/ RefreshOverdue(Epoch)
  \/ \E p \in Asked : RefreshNow(p)

PlannerSpec == PlannerInit /\ [][PlannerStep]_plannerVars

-----------------------------------------------------------------------------

\* A caller that asks with the time once a tick never works on data older than
\* two intervals and a tick; one that leaves the time out refreshes each pillar
\* once and none again, but at least no pillar it never fetched escapes it; and
\* a pillar is fresh exactly until its schedule says that it is to be refreshed.
\* (checkStaleness, listOverduePillars, buildRefreshSchedule)
DataKeepsFresh ==
  /\ checked => \A p \in Pillar : refreshedAt[p] # Never
  /\ ~ neglected =>
       \A p \in Pillar : refreshedAt[p] # Never => nowHour - refreshedAt[p] <= 2 * IntervalHours[p] + HourStep
  /\ ListOverduePillars(refreshedAt, Epoch) = {p \in Pillar : refreshedAt[p] = Never}
  /\ \A p \in Pillar : refreshedAt[p] # Never =>
       (CheckStaleness(refreshedAt, nowHour)[p] = "fresh" <=> nowHour <= schedule[p])
=============================================================================
