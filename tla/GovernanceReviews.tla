---------------------------- MODULE GovernanceReviews ----------------------------
(***************************************************************************)
(* Periodic attestations and reviews.  An item was last attested on some   *)
(* date and is due a number of days later.  Three functions say what is    *)
(* due: findDueAttestations compares dates, buildAttestationWindows and    *)
(* buildReviewCadenceSchedule round what is left down to whole days.  Of   *)
(* an item without a cadence the last two make one of zero days, with      *)
(* which it is due on the date it was attested; the first compares what is *)
(* no number and never lists it.                                           *)
(***************************************************************************)
EXTENDS GovernanceClock

CONSTANTS
  Item,       \* what is attested and reviewed
  Cadences,   \* days between two attestations of an item
  NoCadence,  \* a cadence that is missing or no number
  Upcoming    \* days before a review from which on it is upcoming

ASSUME CadenceAssumption == Cadences \subseteq Nat /\ NoCadence \notin Nat
ASSUME UpcomingAssumption == Upcoming \in Nat

VARIABLES
  item,      \* per item: the date it was last attested, and its cadence
  lastSeen,  \* history: the date the schedules were last evaluated
  warned,    \* history: per item, what evaluations said of it since it was attested
  missed     \* history: a day has passed without an evaluation

reviewVars == <<now, item, lastSeen, warned, missed>>

Warning == {"overdue", "due_now", "upcoming", "scheduled"}

ReviewInit ==
  /\ item \in [Item -> [last : {0}, cadence : Cadences \union {NoCadence}]]
  /\ lastSeen = 0
  /\ warned = [i \in Item |-> [window |-> {}, review |-> {}]]
  /\ missed = FALSE

CadenceDays(i) == IF item[i].cadence = NoCadence THEN 0 ELSE item[i].cadence

Due(i) == item[i].last + CadenceDays(i) * Day

\* Mutant of DaysUntil: what is left is rounded to the next whole day.
DaysUntilRoundedUp(due, asOf) == -((asOf - due) \div Day)
DaysUntil(due, asOf) == (due - asOf) \div Day

\* findDueAttestations
DueAttestations(asOf) == {i \in Item : item[i].cadence # NoCadence /\ Due(i) <= asOf}

\* classifyWindowStatus of buildAttestationWindows
WindowStatus(i, asOf) ==
  CASE DaysUntil(Due(i), asOf) < 0 -> "overdue"
    [] DaysUntil(Due(i), asOf) = 0 -> "due_now"
    [] OTHER                       -> "upcoming"

\* buildReviewCadenceSchedule
ReviewStatus(i, asOf) ==
  LET days == DaysUntil(Due(i), asOf)
  IN  IF days < 0 THEN "overdue" ELSE IF days <= Upcoming THEN "upcoming" ELSE "scheduled"
-----------------------------------------------------------------------------
Attest(i) ==
  /\ item' = [item EXCEPT ![i].last = now]
  /\ warned' = [warned EXCEPT ![i] = [window |-> {}, review |-> {}]]
  /\ UNCHANGED <<now, lastSeen, missed>>

\* Someone builds both schedules as of today.
Evaluate ==
  /\ lastSeen' = now
  /\ warned' = [i \in Item |-> [window |-> warned[i].window \union {WindowStatus(i, now)},
                                review |-> warned[i].review \union {ReviewStatus(i, now)}]]
  /\ UNCHANGED <<now, item, missed>>

DayPasses ==
  /\ Tick
  /\ missed' = (missed \/ now' - lastSeen > Day)
  /\ UNCHANGED <<item, lastSeen, warned>>

ReviewStep == Evaluate \/ \E i \in Item : Attest(i)

ReviewSpec == now = 0 /\ ReviewInit /\ [][ReviewStep \/ DayPasses]_reviewVars
-----------------------------------------------------------------------------
ReviewTypeOK ==
  /\ now \in Time
  /\ item \in [Item -> [last : Time, cadence : Cadences \union {NoCadence}]]
  /\ lastSeen \in Time
  /\ warned \in [Item -> [window : SUBSET Warning, review : SUBSET Warning]]
  /\ missed \in BOOLEAN

(***************************************************************************)
(* Nothing becomes overdue unannounced, and nothing late passes for due:   *)
(* whoever evaluates the schedules at least once a day was told "due_now"  *)
(* of an attestation and "upcoming" of a review before either is overdue,  *)
(* if there is at least a day between two of them; what is past its due    *)
(* time is overdue in both; and the list of due attestations holds all     *)
(* that is overdue, but for items without a cadence, and nothing not due   *)
(* today.                                                                  *)
(* findDueAttestations, buildAttestationWindows, buildReviewCadenceSchedule *)
(***************************************************************************)
WarnedBeforeOverdue ==
  \A i \in Item :
    /\ ~ missed /\ CadenceDays(i) > 0 =>
         /\ WindowStatus(i, now) = "overdue" => "due_now" \in warned[i].window
         /\ ReviewStatus(i, now) = "overdue" => "upcoming" \in warned[i].review
    /\ Due(i) < now => WindowStatus(i, now) = "overdue" /\ ReviewStatus(i, now) = "overdue"
    /\ WindowStatus(i, now) = "overdue" => i \in DueAttestations(now) \/ item[i].cadence = NoCadence
    /\ i \in DueAttestations(now) => WindowStatus(i, now) \in {"overdue", "due_now"}
=============================================================================
