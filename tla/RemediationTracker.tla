--------------------------- MODULE RemediationTracker ---------------------------
(***************************************************************************)
(* The remediation records of coach actions: open, acknowledged, resolved, *)
(* verified, with the timestamps the summary computes what is overdue      *)
(* from.  Every operation takes the time as an argument; a caller that     *)
(* leaves it out gets the epoch, which the code calls a sentinel.          *)
(*                                                                         *)
(* Time is counted in days from the epoch, the thresholds in hours.        *)
(***************************************************************************)
EXTENDS Naturals

CONSTANTS
  ActionId,  \* coach actions a record is created for
  Null,      \* a field not set
  MaxDay     \* bound: the last day of the clock

ASSUME DayAssumption == MaxDay \in Nat \ {0}

VARIABLES
  record,    \* per action: Null, or its remediation record
  now,       \* the day the operators and the summary see
  since,     \* history: per action, the day its record took its status
  unstamped  \* history: actions one of whose calls left the time out

vars == <<record, now, since, unstamped>>

Epoch == 0

STATUS_TRANSITIONS ==
  [open         |-> {"acknowledged"},
   acknowledged |-> {"resolved", "open"},
   resolved     |-> {"verified", "acknowledged"},
   verified     |-> {}]

OVERDUE_THRESHOLDS_HOURS == [open |-> 72, acknowledged |-> 168, resolved |-> 48]

Status == DOMAIN STATUS_TRANSITIONS

\* Mutant of CanTransition: a verified record may be acknowledged again.
CanTransitionFromVerified(r, target) ==
  target \in STATUS_TRANSITIONS[r.status] \/ r.status = "verified"

CanTransition(r, target) == target \in STATUS_TRANSITIONS[r.status]

Time   == 0..MaxDay
Record == [status : Status, evidence : {"none", "attached"}, createdAt : Time,
           acknowledgedAt : Time \union {Null}, resolvedAt : Time \union {Null},
           verifiedAt : Time \union {Null}]

ASSUME NullAssumption == Null \notin Nat /\ Null \notin Record

Has(a) == record[a] # Null

-----------------------------------------------------------------------------

Init ==
  /\ record = [a \in ActionId |-> Null]
  /\ now = 1
  /\ since = [a \in ActionId |-> Epoch]
  /\ unstamped = {}

\* The time a call passes, and whether it passed one.
Stamped(a, at) ==
  \/ at = now /\ UNCHANGED unstamped
  \/ at = Epoch /\ unstamped' = unstamped \union {a}

Put(a, r) ==
  /\ record' = [record EXCEPT ![a] = r]
  /\ since' = [since EXCEPT ![a] = now]
  /\ UNCHANGED now

CreateRemediationRecord(a, at) ==
  /\ ~Has(a)
  /\ Stamped(a, at)
  /\ Put(a, [status |-> "open", evidence |-> "none", createdAt |-> at,
             acknowledgedAt |-> Null, resolvedAt |-> Null, verifiedAt |-> Null])

\* From open, or from resolved, which sends an action back: its evidence and
\* its resolvedAt stay.
AcknowledgeAction(a, at) ==
  /\ Has(a) /\ CanTransition(record[a], "acknowledged")
  /\ Stamped(a, at)
  /\ Put(a, [record[a] EXCEPT !.status = "acknowledged", !.acknowledgedAt = at])

\* Mutant of ResolveAction: a time set in an earlier round is kept.
ResolveKeepsTime(a, at) ==
  /\ Has(a) /\ CanTransition(record[a], "resolved")
  /\ Stamped(a, at)
  /\ Put(a, [record[a] EXCEPT !.status = "resolved", !.evidence = "attached",
                              !.resolvedAt = IF @ = Null THEN at ELSE @])

\* A call without evidence is refused.
ResolveAction(a, at) ==
  /\ Has(a) /\ CanTransition(record[a], "resolved")
  /\ Stamped(a, at)
  /\ Put(a, [record[a] EXCEPT !.status = "resolved", !.evidence = "attached",
                              !.resolvedAt = at])

VerifyResolution(a, at) ==
  /\ Has(a) /\ CanTransition(record[a], "verified")
  /\ record[a].evidence # "none"
  /\ Stamped(a, at)
  /\ Put(a, [record[a] EXCEPT !.status = "verified", !.verifiedAt = at])

Tick ==
  /\ now < MaxDay
  /\ now' = now + 1
  /\ UNCHANGED <<record, since, unstamped>>

Next ==
  \/ \E a \in ActionId, at \in {Epoch, now} :
       \/ CreateRemediationRecord(a, at)
       \/ AcknowledgeAction(a, at)
       \/ ResolveAction(a, at)
       \/ VerifyResolution(a, at)
  \/ Tick

Spec == Init /\ [][Next]_vars

-----------------------------------------------------------------------------
(* buildRemediationSummary, of the time it is given. *)

RefAt(r) ==
  IF r.acknowledgedAt # Null THEN r.acknowledgedAt
  ELSE IF r.resolvedAt # Null THEN r.resolvedAt
  ELSE r.createdAt

AgeHours(day) == 24 * (now - day)

Tracked(r) == r.status \in DOMAIN OVERDUE_THRESHOLDS_HOURS

\* Mutant of Overdue: what was resolved once is taken for done.
OverdueUnresolved ==
  {a \in ActionId :
     /\ Has(a) /\ Tracked(record[a]) /\ record[a].resolvedAt = Null
     /\ AgeHours(RefAt(record[a])) > OVERDUE_THRESHOLDS_HOURS[record[a].status]}

Overdue ==
  {a \in ActionId :
     /\ Has(a) /\ Tracked(record[a])
     /\ AgeHours(RefAt(record[a])) > OVERDUE_THRESHOLDS_HOURS[record[a].status]}

-----------------------------------------------------------------------------

TypeOK ==
  /\ record \in [ActionId -> Record \union {Null}]
  /\ now \in 1..MaxDay
  /\ since \in [ActionId -> Time]
  /\ unstamped \subseteq ActionId

(***************************************************************************)
(* What the summary must not miss: a record that has kept its status       *)
(* longer than the threshold of that status is listed as overdue, also one *)
(* sent back from resolved, and also where callers left times out.         *)
(***************************************************************************)
StuckIsListed ==
  \A a \in ActionId :
    Has(a) /\ Tracked(record[a]) =>
      (AgeHours(since[a]) > OVERDUE_THRESHOLDS_HOURS[record[a].status] => a \in Overdue)

(***************************************************************************)
(* A verified record tells a consistent story, however often it went back: *)
(* it has evidence, and was created, last acknowledged, last resolved and  *)
(* verified in that order, if every call passed the time.                  *)
(***************************************************************************)
VerifiedInOrder ==
  \A a \in ActionId \ unstamped :
    Has(a) /\ record[a].status = "verified" =>
      /\ record[a].evidence = "attached"
      /\ record[a].createdAt <= record[a].acknowledgedAt
      /\ record[a].acknowledgedAt <= record[a].resolvedAt
      /\ record[a].resolvedAt <= record[a].verifiedAt

\* A record, once verified, does not change; one that exists stays.
VerifiedIsFinal ==
  [][\A a \in ActionId :
       Has(a) => /\ record'[a] # Null
                 /\ record[a].status = "verified" => record'[a] = record[a]]_vars

(***************************************************************************)
(* The thresholds of docs/410-remediation-tracker.md are hours in a        *)
(* status: what is listed as overdue has been in its status that long.     *)
(***************************************************************************)
OverdueMeansStuck ==
  \A a \in Overdue \ unstamped :
    AgeHours(since[a]) > OVERDUE_THRESHOLDS_HOURS[record[a].status]
=============================================================================
