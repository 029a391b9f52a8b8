----------------------------- MODULE Delivery_proofs -----------------------------
(***************************************************************************)
(* What holds of the delivered work: the remediation tracker, for every    *)
(* set of actions and every length of the clock, and the backlog board,    *)
(* for every set of instances and servers and for any number of fetches.   *)
(***************************************************************************)
EXTENDS RemediationTracker, CoachActions, BacklogBoard, NumberFacts, TLAPS

-----------------------------------------------------------------------------
(* The remediation tracker.                                                 *)

(***************************************************************************)
(* Of one record: which timestamps its status implies, none of them later  *)
(* than the day it took the status, and, if no call of its left the time   *)
(* out, in what order.                                                     *)
(***************************************************************************)
Sound(a) ==
  LET r == record[a] IN
  /\ since[a] <= now
  /\ r.createdAt <= since[a]
  /\ r.status = "open" => r.acknowledgedAt = Null /\ r.resolvedAt = Null
  /\ r.status # "open" => r.acknowledgedAt # Null /\ r.acknowledgedAt <= since[a]
  /\ r.status \in {"resolved", "verified"} =>
       r.evidence = "attached" /\ r.resolvedAt # Null /\ r.resolvedAt <= since[a]
  /\ r.status = "verified" => r.verifiedAt # Null
  /\ a \notin unstamped =>
       /\ r.status # "open" => r.createdAt <= r.acknowledgedAt
       /\ r.status \in {"resolved", "verified"} => r.acknowledgedAt <= r.resolvedAt
       /\ r.status = "verified" => r.resolvedAt <= r.verifiedAt

IInv == TypeOK /\ \A a \in ActionId : Has(a) => Sound(a)

\* What VerifiedIsFinal says of a step.
Final ==
  \A a \in ActionId :
    Has(a) => /\ record'[a] # Null
              /\ record[a].status = "verified" => record'[a] = record[a]

LEMMA InitIInv == Init => IInv
  BY DayAssumption DEF Init, IInv, TypeOK, Has, Time, Epoch

\* The time a call passes is a day no later than today.
LEMMA StampedAt ==
  ASSUME TypeOK, NEW a \in ActionId, NEW at \in {Epoch, now}, Stamped(a, at)
  PROVE  /\ at \in Time /\ at <= now
         /\ unstamped' \subseteq ActionId /\ unstamped \subseteq unstamped'
         /\ a \notin unstamped' => at = now
  BY DayAssumption DEF TypeOK, Stamped, Time, Epoch

\* Replacing one record by a typed one, as of today.
LEMMA PutStep ==
  ASSUME IInv, NEW a \in ActionId, NEW r \in Record, Put(a, r),
         unstamped' \subseteq ActionId, unstamped \subseteq unstamped',
         Sound(a)'
  PROVE  IInv' /\ record'[a] = r /\ \A b \in ActionId \ {a} : record'[b] = record[b]
<1>1. /\ record' = [record EXCEPT ![a] = r] /\ since' = [since EXCEPT ![a] = now]
      /\ now' = now
  BY DEF Put
<1>2. /\ record'[a] = r
      /\ \A b \in ActionId \ {a} : record'[b] = record[b] /\ since'[b] = since[b]
  BY <1>1 DEF IInv, TypeOK
<1>3. TypeOK'
  <2>1. record' \in [ActionId -> Record \union {Null}]
    BY <1>1 DEF IInv, TypeOK
  <2>2. since' \in [ActionId -> Time] /\ now' \in 1..MaxDay
    BY <1>1, DayAssumption DEF IInv, TypeOK, Time
  <2> QED
    BY <2>1, <2>2 DEF TypeOK
<1>4. ASSUME NEW b \in ActionId, record'[b] # Null PROVE Sound(b)'
  <2>1. CASE b = a
    BY <2>1
  <2>2. CASE b # a
    BY <1>1, <1>2, <1>4, <2>2 DEF IInv, Has, Sound
  <2> QED
    BY <2>1, <2>2
<1> QED
  BY <1>2, <1>3, <1>4 DEF IInv, Has

\* A new record has a creation time and nothing else.
LEMMA CreateStep ==
  ASSUME IInv, NEW a \in ActionId, NEW at \in {Epoch, now}, CreateRemediationRecord(a, at)
  PROVE  IInv' /\ Final
<1> DEFINE r == [status |-> "open", evidence |-> "none", createdAt |-> at,
                 acknowledgedAt |-> Null, resolvedAt |-> Null, verifiedAt |-> Null]
<1>1. ~Has(a)
  BY DEF CreateRemediationRecord
<1>2. /\ at \in Time /\ at <= now
      /\ unstamped' \subseteq ActionId /\ unstamped \subseteq unstamped'
      /\ a \notin unstamped' => at = now
  BY StampedAt DEF IInv, CreateRemediationRecord
<1>3. Put(a, r)
  BY DEF CreateRemediationRecord
<1>4. r \in Record
  BY <1>1, <1>2 DEF Record, Status, STATUS_TRANSITIONS, Has
<1>5. record'[a] = r /\ since'[a] = now /\ now' = now
  BY <1>3 DEF Put, IInv, TypeOK
<1>6. now \in Nat /\ since[a] \in Nat
  BY DEF IInv, TypeOK, Time
<1>7. Sound(a)'
  BY <1>1, <1>2, <1>4, <1>5, <1>6, NullAssumption
     DEF Sound, Record, Time, CanTransition, STATUS_TRANSITIONS, Status
<1>8. IInv' /\ \A b \in ActionId \ {a} : record'[b] = record[b]
  BY <1>2, <1>3, <1>4, <1>7, PutStep
<1> QED
  BY <1>1, <1>4, <1>5, <1>8, NullAssumption DEF Final, Has, CanTransition, STATUS_TRANSITIONS

\* An acknowledgement, the first or after a record was sent back.
LEMMA AcknowledgeStep ==
  ASSUME IInv, NEW a \in ActionId, NEW at \in {Epoch, now}, AcknowledgeAction(a, at)
  PROVE  IInv' /\ Final
<1> DEFINE r == [record[a] EXCEPT !.status = "acknowledged", !.acknowledgedAt = at]
<1>1. record[a] \in Record /\ Sound(a) /\ CanTransition(record[a], r.status)
  BY DEF AcknowledgeAction, IInv, TypeOK, Has
<1>2. /\ at \in Time /\ at <= now
      /\ unstamped' \subseteq ActionId /\ unstamped \subseteq unstamped'
      /\ a \notin unstamped' => at = now
  BY StampedAt DEF IInv, AcknowledgeAction
<1>3. Put(a, r)
  BY DEF AcknowledgeAction
<1>4. r \in Record
  BY <1>1, <1>2 DEF Record, Status, STATUS_TRANSITIONS, Has
<1>5. record'[a] = r /\ since'[a] = now /\ now' = now
  BY <1>3 DEF Put, IInv, TypeOK
<1>6. now \in Nat /\ since[a] \in Nat
  BY DEF IInv, TypeOK, Time
<1>7. Sound(a)'
  BY <1>1, <1>2, <1>4, <1>5, <1>6, NullAssumption
     DEF Sound, Record, Time, CanTransition, STATUS_TRANSITIONS, Status
<1>8. IInv' /\ \A b \in ActionId \ {a} : record'[b] = record[b]
  BY <1>2, <1>3, <1>4, <1>7, PutStep
<1> QED
  BY <1>1, <1>4, <1>5, <1>8, NullAssumption DEF Final, Has, CanTransition, STATUS_TRANSITIONS

\* A resolution brings its evidence.
LEMMA ResolveStep ==
  ASSUME IInv, NEW a \in ActionId, NEW at \in {Epoch, now}, ResolveAction(a, at)
  PROVE  IInv' /\ Final
<1> DEFINE r == [record[a] EXCEPT !.status = "resolved", !.evidence = "attached",
                                !.resolvedAt = at]
<1>1. record[a] \in Record /\ Sound(a) /\ CanTransition(record[a], r.status)
  BY DEF ResolveAction, IInv, TypeOK, Has
<1>2. /\ at \in Time /\ at <= now
      /\ unstamped' \subseteq ActionId /\ unstamped \subseteq unstamped'
      /\ a \notin unstamped' => at = now
  BY StampedAt DEF IInv, ResolveAction
<1>3. Put(a, r)
  BY DEF ResolveAction
<1>4. r \in Record
  BY <1>1, <1>2 DEF Record, Status, STATUS_TRANSITIONS, Has
<1>5. record'[a] = r /\ since'[a] = now /\ now' = now
  BY <1>3 DEF Put, IInv, TypeOK
<1>6. now \in Nat /\ since[a] \in Nat
  BY DEF IInv, TypeOK, Time
<1>7. Sound(a)'
  BY <1>1, <1>2, <1>4, <1>5, <1>6, NullAssumption
     DEF Sound, Record, Time, CanTransition, STATUS_TRANSITIONS, Status
<1>8. IInv' /\ \A b \in ActionId \ {a} : record'[b] = record[b]
  BY <1>2, <1>3, <1>4, <1>7, PutStep
<1> QED
  BY <1>1, <1>4, <1>5, <1>8, NullAssumption DEF Final, Has, CanTransition, STATUS_TRANSITIONS

\* A verification needs the evidence of the resolution.
LEMMA VerifyStep ==
  ASSUME IInv, NEW a \in ActionId, NEW at \in {Epoch, now}, VerifyResolution(a, at)
  PROVE  IInv' /\ Final
<1> DEFINE r == [record[a] EXCEPT !.status = "verified", !.verifiedAt = at]
<1>1. record[a] \in Record /\ Sound(a) /\ CanTransition(record[a], r.status)
  BY DEF VerifyResolution, IInv, TypeOK, Has
<1>2. /\ at \in Time /\ at <= now
      /\ unstamped' \subseteq ActionId /\ unstamped \subseteq unstamped'
      /\ a \notin unstamped' => at = now
  BY StampedAt DEF IInv, VerifyResolution
<1>3. Put(a, r)
  BY DEF VerifyResolution
<1>4. r \in Record
  BY <1>1, <1>2 DEF Record, Status, STATUS_TRANSITIONS, Has
<1>5. record'[a] = r /\ since'[a] = now /\ now' = now
  BY <1>3 DEF Put, IInv, TypeOK
<1>6. now \in Nat /\ since[a] \in Nat
  BY DEF IInv, TypeOK, Time
<1>7. Sound(a)'
  BY <1>1, <1>2, <1>4, <1>5, <1>6, NullAssumption
     DEF Sound, Record, Time, CanTransition, STATUS_TRANSITIONS, Status
<1>8. IInv' /\ \A b \in ActionId \ {a} : record'[b] = record[b]
  BY <1>2, <1>3, <1>4, <1>7, PutStep
<1> QED
  BY <1>1, <1>4, <1>5, <1>8, NullAssumption DEF Final, Has, CanTransition, STATUS_TRANSITIONS

LEMMA StepIInv == IInv /\ [Next]_vars => IInv' /\ Final
<1> SUFFICES ASSUME IInv, [Next]_vars PROVE IInv' /\ Final
  OBVIOUS
<1>1. ASSUME NEW a \in ActionId, NEW at \in {Epoch, now}, CreateRemediationRecord(a, at)
      PROVE  IInv' /\ Final
  BY <1>1, CreateStep
<1>2. ASSUME NEW a \in ActionId, NEW at \in {Epoch, now}, AcknowledgeAction(a, at)
      PROVE  IInv' /\ Final
  BY <1>2, AcknowledgeStep
<1>3. ASSUME NEW a \in ActionId, NEW at \in {Epoch, now}, ResolveAction(a, at)
      PROVE  IInv' /\ Final
  BY <1>3, ResolveStep
<1>4. ASSUME NEW a \in ActionId, NEW at \in {Epoch, now}, VerifyResolution(a, at)
      PROVE  IInv' /\ Final
  BY <1>4, VerifyStep
<1>5. CASE Tick
  <2>1. /\ record' = record /\ since' = since /\ unstamped' = unstamped
        /\ now' = now + 1 /\ now < MaxDay
    BY <1>5 DEF Tick
  <2>2. TypeOK'
    BY <2>1, DayAssumption DEF IInv, TypeOK
  <2>3. ASSUME NEW a \in ActionId, Has(a) PROVE Sound(a)'
    <3>1. Sound(a) /\ since[a] \in Nat /\ now \in Nat
      BY <2>3 DEF IInv, TypeOK, Time
    <3> QED
      BY <2>1, <3>1 DEF Sound
  <2>4. Final
    BY <2>1 DEF Final, Has
  <2> QED
    BY <2>1, <2>2, <2>3, <2>4 DEF IInv, Has
<1>6. CASE UNCHANGED vars
  BY <1>6 DEF vars, IInv, TypeOK, Sound, Has, Final
<1> QED
  BY <1>1, <1>2, <1>3, <1>4, <1>5, <1>6 DEF Next

LEMMA Invariance == Spec => []IInv
<1>1. IInv /\ [Next]_vars => IInv'
  BY StepIInv
<1> QED
  BY InitIInv, <1>1, PTL DEF Spec

-----------------------------------------------------------------------------

\* Every record has a status of the table and days of the clock in its fields.
THEOREM TypeCorrect == Spec => []TypeOK
<1>1. IInv => TypeOK
  BY DEF IInv
<1> QED
  BY Invariance, <1>1, PTL

\* buildRemediationSummary misses no record that outstayed its threshold.
THEOREM NothingStuckUnlisted == Spec => []StuckIsListed
<1>1. IInv => StuckIsListed
  <2> SUFFICES ASSUME IInv, NEW a \in ActionId, Has(a), Tracked(record[a]),
                      AgeHours(since[a]) > OVERDUE_THRESHOLDS_HOURS[record[a].status]
               PROVE  a \in Overdue
    BY DEF StuckIsListed
  <2>1. Sound(a) /\ record[a] \in Record /\ since[a] \in Nat /\ now \in Nat
    BY DEF IInv, TypeOK, Has, Time
  <2>2. RefAt(record[a]) \in Nat /\ RefAt(record[a]) <= since[a]
    BY <2>1, NullAssumption DEF RefAt, Sound, Record, Time, Status, STATUS_TRANSITIONS
  <2>3. since[a] <= now
    BY <2>1 DEF Sound
  <2>4. OVERDUE_THRESHOLDS_HOURS[record[a].status] \in Nat
    BY DEF Tracked, OVERDUE_THRESHOLDS_HOURS
  <2>5. AgeHours(RefAt(record[a])) > OVERDUE_THRESHOLDS_HOURS[record[a].status]
    BY <2>1, <2>2, <2>3, <2>4 DEF AgeHours
  <2> QED
    BY <2>5 DEF Overdue
<1> QED
  BY Invariance, <1>1, PTL

\* A verified record has evidence and its timestamps in order, if they were given.
THEOREM VerifiedIsConsistent == Spec => []VerifiedInOrder
<1>1. IInv => VerifiedInOrder
  BY DEF IInv, Sound, VerifiedInOrder
<1> QED
  BY Invariance, <1>1, PTL

\* No operation of the tracker changes a verified record or deletes one.
THEOREM VerifiedStays == Spec => VerifiedIsFinal
<1>1. IInv /\ [Next]_vars => [Final]_vars
  BY StepIInv
<1> QED
  BY Invariance, <1>1, PTL DEF Spec, VerifiedIsFinal, Final

-----------------------------------------------------------------------------
(* The host's side.                                                         *)

HostTypeOK ==
  /\ servers \in [Instance -> Server \union {None}]
  /\ owner \in [Server -> Instance \union {None}]
  /\ listening \subseteq Server
  /\ opening \subseteq listening
  /\ handed \in [Instance -> SUBSET Server]
  /\ raced \subseteq Instance

\* A server that listens was started for an instance.
ListenersOwned == \A s \in listening : owner[s] \in Instance

\* The map and the URLs that were handed out agree, and no server is handed to
\* two instances: closing one instance stops none of another's servers.
HandedOwned ==
  \A i \in Instance :
    /\ handed[i] \subseteq listening
    /\ \A s \in handed[i] : owner[s] = i
    /\ servers[i] # None =>
         servers[i] \in handed[i] /\ servers[i] \notin opening

\* Without a race an instance has an entry, or one server that is being opened.
OpenAlone ==
  \A i \in Instance \ raced :
    /\ \A s, t \in Pending(i) : s = t
    /\ servers[i] # None => Pending(i) = {}

HostInv == HostTypeOK /\ ListenersOwned /\ HandedOwned /\ OpenAlone /\ NoOrphanServer

LEMMA HostInitially == BoardInit => HostInv
  BY DEF BoardInit, HostInv, HostTypeOK, ListenersOwned, HandedOwned, OpenAlone,
         NoOrphanServer, Pending

LEMMA HostOpensAgain ==
  ASSUME HostInv, NEW i \in Instance, OpenAgain(i)
  PROVE  HostInv'
<1> USE DEF HostInv
<1>1. servers[i] \in handed[i]
  BY DEF OpenAgain, HandedOwned
<1>2. UNCHANGED boardVars
  BY <1>1 DEF OpenAgain, boardVars, HostTypeOK
<1> QED
  BY <1>2 DEF boardVars, HostTypeOK, ListenersOwned, HandedOwned, OpenAlone, NoOrphanServer, Pending

LEMMA HostStartsServer ==
  ASSUME HostInv, NEW i \in Instance, NEW s \in Server, OpenStarts(i, s)
  PROVE  HostInv'
<1> USE DEF HostInv
<1>1. s \notin listening /\ s # None /\ i # None
  BY NoneAssumption DEF OpenStarts, ListenersOwned
<1>2. owner'[s] = i /\ \A t \in Server \ {s} : owner'[t] = owner[t]
  BY DEF OpenStarts, HostTypeOK
<1>3. HostTypeOK' /\ ListenersOwned'
  BY <1>2 DEF OpenStarts, HostTypeOK, ListenersOwned
<1>4. HandedOwned'
  BY <1>1, <1>2 DEF OpenStarts, HandedOwned, HostTypeOK
<1>5. /\ Pending(i)' = Pending(i) \union {s}
      /\ \A j \in Instance \ {i} : Pending(j)' = Pending(j)
  BY <1>1, <1>2 DEF OpenStarts, Pending, HostTypeOK
<1>6. OpenAlone'
  BY <1>1, <1>5 DEF OpenStarts, OpenAlone
<1>7. NoOrphanServer'
  BY <1>1, <1>2 DEF OpenStarts, NoOrphanServer, HostTypeOK
<1> QED
  BY <1>3, <1>4, <1>6, <1>7

LEMMA HostKeepsServer ==
  ASSUME HostInv, NEW s \in Server, OpenResolves(s)
  PROVE  HostInv'
<1> USE DEF HostInv
<1> DEFINE i == owner[s]
<1>1. i \in Instance /\ s \in listening /\ s # None
  BY NoneAssumption DEF OpenResolves, HostTypeOK, ListenersOwned
<1>2. /\ servers'[i] = s /\ handed'[i] = handed[i] \union {s}
      /\ \A j \in Instance \ {i} : servers'[j] = servers[j] /\ handed'[j] = handed[j]
  BY <1>1 DEF OpenResolves, HostTypeOK
<1>3. HostTypeOK' /\ ListenersOwned'
  BY <1>1, <1>2 DEF OpenResolves, HostTypeOK, ListenersOwned
<1>4. HandedOwned'
  BY <1>1, <1>2 DEF OpenResolves, HandedOwned, HostTypeOK
<1>5. \A j \in Instance : Pending(j)' = Pending(j) \ {s}
  BY DEF OpenResolves, Pending
<1>6. OpenAlone'
  <2>1. s \in Pending(i)
    BY <1>1 DEF OpenResolves, Pending
  <2> QED
    BY <1>2, <1>5, <2>1 DEF OpenResolves, OpenAlone
<1>7. NoOrphanServer'
  <2> SUFFICES ASSUME NEW t \in listening, owner[t] \notin raced, t \notin opening', t # s
               PROVE  servers'[owner[t]] = t /\ t \in handed'[owner[t]]
    BY <1>1, <1>2 DEF OpenResolves, NoOrphanServer
  <2>1. t \notin opening /\ servers[owner[t]] = t /\ t \in handed[owner[t]] /\ owner[t] \in Instance
    BY DEF OpenResolves, NoOrphanServer, ListenersOwned
  <2>2. s \in Pending(i)
    BY <1>1 DEF OpenResolves, Pending
  <2>3. t # None
    BY NoneAssumption DEF HostTypeOK
  <2>4. owner[t] # i
    BY <1>1, <2>1, <2>2, <2>3 DEF OpenAlone
  <2> QED
    BY <1>2, <2>1, <2>4
<1> QED
  BY <1>3, <1>4, <1>6, <1>7

LEMMA HostCloses ==
  ASSUME HostInv, NEW i \in Instance, OnClose(i)
  PROVE  HostInv'
<1> USE DEF HostInv
<1> DEFINE closed == servers[i]
<1>1. closed = None \/ (closed \in handed[i] /\ owner[closed] = i /\ closed \notin opening)
  BY DEF HandedOwned
<1>2. /\ servers'[i] = None /\ handed'[i] = {}
      /\ \A j \in Instance \ {i} : servers'[j] = servers[j] /\ handed'[j] = handed[j]
  BY DEF OnClose, HostTypeOK
<1>3. listening' = listening \ {closed} /\ opening' = opening /\ owner' = owner /\ raced \subseteq raced'
  BY DEF OnClose
<1>4. closed \notin opening /\ \A j \in Instance \ {i} : closed \notin handed[j]
  BY <1>1, NoneAssumption DEF HandedOwned, HostTypeOK
<1>5. HostTypeOK' /\ ListenersOwned'
  BY <1>2, <1>3, <1>4 DEF OnClose, HostTypeOK, ListenersOwned
<1>6. HandedOwned'
  BY <1>2, <1>3, <1>4 DEF HandedOwned
<1>7. \A j \in Instance : Pending(j)' = Pending(j)
  BY <1>3 DEF Pending
<1>8. OpenAlone'
  BY <1>2, <1>3, <1>7 DEF OpenAlone
<1>9. NoOrphanServer'
  <2> SUFFICES ASSUME NEW t \in listening', owner[t] \notin raced', t \notin opening
               PROVE  servers'[owner[t]] = t /\ t \in handed'[owner[t]]
    BY <1>3 DEF NoOrphanServer
  <2>1. servers[owner[t]] = t /\ t \in handed[owner[t]] /\ owner[t] \in Instance
    BY <1>3 DEF NoOrphanServer, ListenersOwned
  <2>2. owner[t] # i
    BY <1>3, <2>1
  <2> QED
    BY <1>2, <2>1, <2>2
<1> QED
  BY <1>5, <1>6, <1>8, <1>9

LEMMA HostKeepsInv ==
  ASSUME HostInv, HostStep \/ UNCHANGED boardVars
  PROVE  HostInv'
<1>1. CASE UNCHANGED boardVars
  BY <1>1 DEF boardVars, HostInv, HostTypeOK, ListenersOwned, HandedOwned, OpenAlone,
              NoOrphanServer, Pending
<1>2. CASE HostStep
  BY <1>2, HostOpensAgain, HostStartsServer, HostKeepsServer, HostCloses DEF HostStep
<1> QED
  BY <1>1, <1>2

-----------------------------------------------------------------------------
(* The page's side.                                                         *)

PageTypeOK ==
  /\ issues \in Nat /\ allIssues \in Nat /\ newest \in Nat /\ newest <= issues
  /\ crossed \in BOOLEAN
  /\ fetches \in [1..MaxFetches ->
                    [phase : {"new", "sent", "answered", "done"}, list : Nat]]

\* While no fetches have overlapped there is at most one in flight, and what it
\* brings is not older than what was shown.
NothingOld ==
  /\ \A f \in DOMAIN fetches : fetches[f].list <= issues
  /\ ~ crossed =>
       /\ allIssues \in {0, newest}
       /\ \A f, g \in InFlight : f = g
       /\ \A f \in InFlight :
            fetches[f].phase = "answered" => fetches[f].list = 0 \/ newest <= fetches[f].list

PageInv == PageTypeOK /\ NothingOld

LEMMA PageInitially == PageInit => PageInv
<1> SUFFICES ASSUME PageInit PROVE PageInv
  OBVIOUS
<1>1. \A f \in 1..MaxFetches :
        /\ fetches[f] = [phase |-> IF f = 1 THEN "sent" ELSE "new", list |-> 0]
        /\ fetches[f] \in [phase : {"new", "sent", "answered", "done"}, list : Nat]
  BY DEF PageInit
<1>2. PageTypeOK
  <2>1. fetches \in [1..MaxFetches ->
                       [phase : {"new", "sent", "answered", "done"}, list : Nat]]
    BY DEF PageInit
  <2>2. crossed \in BOOLEAN
    BY Zenon DEF PageInit
  <2> QED
    BY <2>1, <2>2 DEF PageInit, PageTypeOK
<1>3. InFlight \subseteq {1}
  BY <1>1, BoundAssumption DEF PageInit, InFlight
<1>4. NothingOld
  <2>1. \A f \in DOMAIN fetches : fetches[f].list = 0
    BY <1>1 DEF PageInit
  <2>2. \A f \in InFlight : f = 1 /\ fetches[f].list = 0
    BY <1>3, <2>1 DEF InFlight
  <2>3. \A f \in DOMAIN fetches : fetches[f].list <= issues
    <3>1. issues = 1
      BY DEF PageInit
    <3> QED
      BY <2>1, <3>1
  <2>4. allIssues \in {0, newest}
    BY DEF PageInit
  <2> QED
    BY <2>2, <2>3, <2>4 DEF NothingOld
<1> QED
  BY <1>2, <1>4 DEF PageInv

LEMMA PageFetches ==
  ASSUME PageInv, NEW f \in DOMAIN fetches, ClickRefresh(f) \/ ServeIssues(f)
  PROVE  PageInv'
<1> USE DEF PageInv
<1>1. f \in 1..MaxFetches /\ DOMAIN fetches' = 1..MaxFetches
  BY DEF PageTypeOK, ClickRefresh, ServeIssues
<1>2. CASE ClickRefresh(f)
  <2>1. /\ fetches'[f] = [fetches[f] EXCEPT !.phase = "sent"]
        /\ \A g \in 1..MaxFetches \ {f} : fetches'[g] = fetches[g]
    BY <1>1, <1>2 DEF ClickRefresh, PageTypeOK
  <2>2. InFlight' = InFlight \union {f}
    BY <1>1, <1>2, <2>1 DEF InFlight, ClickRefresh, PageTypeOK
  <2>3. PageTypeOK'
    BY <1>1, <1>2, <2>1 DEF PageTypeOK, ClickRefresh
  <2>4. ~ crossed' => ~ crossed /\ InFlight = {}
    BY <1>2 DEF ClickRefresh
  <2>5. NothingOld'
    <3>1. \A g \in DOMAIN fetches' : fetches'[g].list <= issues'
      BY <1>1, <1>2, <2>1 DEF NothingOld, ClickRefresh, PageTypeOK
    <3>2. ~ crossed' => InFlight' = {f} /\ fetches'[f].phase = "sent" /\ allIssues' \in {0, newest'}
      BY <1>1, <1>2, <2>1, <2>2, <2>4 DEF NothingOld, ClickRefresh, PageTypeOK
    <3> QED
      BY <3>1, <3>2 DEF NothingOld
  <2> QED
    BY <2>3, <2>5
<1>3. CASE ServeIssues(f)
  <2>1. PICK list \in {0, issues} :
          fetches' = [fetches EXCEPT ![f] = [phase |-> "answered", list |-> list]]
    BY <1>3 DEF ServeIssues
  <2>2. /\ fetches'[f] = [phase |-> "answered", list |-> list]
        /\ \A g \in 1..MaxFetches \ {f} : fetches'[g] = fetches[g]
    BY <1>1, <2>1 DEF PageTypeOK
  <2>3. InFlight' = InFlight
    BY <1>1, <1>3, <2>2 DEF InFlight, ServeIssues, PageTypeOK
  <2>4. PageTypeOK'
    BY <1>1, <1>3, <2>1 DEF PageTypeOK, ServeIssues
  <2>5. NothingOld'
    BY <1>1, <1>3, <2>2, <2>3 DEF NothingOld, ServeIssues, PageTypeOK, InFlight
  <2> QED
    BY <2>4, <2>5
<1> QED
  BY <1>2, <1>3

LEMMA PageAnswered ==
  ASSUME PageInv, NEW f \in DOMAIN fetches, FetchResolves(f) \/ FetchRejects(f)
  PROVE  PageInv'
<1> USE DEF PageInv
<1>1. f \in 1..MaxFetches /\ f \in InFlight /\ DOMAIN fetches' = 1..MaxFetches
  BY DEF PageTypeOK, FetchResolves, FetchRejects, InFlight
<1>2. /\ fetches'[f] = [fetches[f] EXCEPT !.phase = "done"]
      /\ \A g \in 1..MaxFetches \ {f} : fetches'[g] = fetches[g]
  BY <1>1 DEF FetchResolves, FetchRejects, PageTypeOK
<1>3. InFlight' = InFlight \ {f}
  BY <1>1, <1>2 DEF InFlight, PageTypeOK
<1>4. PageTypeOK'
  BY <1>1, <1>2 DEF PageTypeOK, NothingOld, FetchResolves, FetchRejects
<1>5. NothingOld'
  BY <1>1, <1>2, <1>3 DEF NothingOld, FetchResolves, FetchRejects, PageTypeOK, InFlight
<1> QED
  BY <1>4, <1>5

LEMMA PageKeepsInv ==
  ASSUME PageInv, PageStep \/ UNCHANGED pageVars
  PROVE  PageInv'
<1>1. CASE UNCHANGED pageVars
  BY <1>1 DEF pageVars, PageInv, PageTypeOK, NothingOld, InFlight
<1>2. CASE IssuesChange
  BY <1>2 DEF IssuesChange, PageInv, PageTypeOK, NothingOld, InFlight
<1>3. CASE RenderIssues
  BY <1>3 DEF RenderIssues, PageInv, PageTypeOK, NothingOld, InFlight
<1> QED
  BY <1>1, <1>2, <1>3, PageFetches, PageAnswered DEF PageStep

-----------------------------------------------------------------------------

\* The board's promises, for any instances, servers and fetches: a URL that was
\* handed out is served until its instance is closed, a server is orphaned only
\* by a race of the host's calls, and a page does not go back to an older list
\* unless its fetches overlapped.  (open, onClose, fetchIssues, renderIssues)
THEOREM BoardKeepsServing == BoardSpec => []BoardServes
<1>1. BoardInit /\ PageInit => HostInv /\ PageInv
  BY HostInitially, PageInitially
<1>2. HostInv /\ PageInv /\ [BoardNext]_<<boardVars, pageVars>> => HostInv' /\ PageInv'
  BY HostKeepsInv, PageKeepsInv DEF BoardNext
<1>3. HostInv /\ PageInv => BoardServes
  BY DEF HostInv, HandedOwned, PageInv, NothingOld, BoardServes, UrlsAreServed, PageKeepsUp
<1> QED
  BY <1>1, <1>2, <1>3, PTL DEF BoardSpec
-----------------------------------------------------------------------------
(* Coach actions.                                                           *)

CoachInv == reports \in [Pillar -> Seq(Action)]

\* A list of n elements with scores.
Scored(s, n) == n \in Nat /\ DOMAIN s = 1..n /\ \A i \in 1..n : Score(s[i]) \in Int

LEMMA ActionsScored ==
  ASSUME NEW a \in Action, NEW p
  PROVE  Score(WithPillar(a, p)) \in Int
<1>1. /\ "severity" \in DOMAIN a /\ "worth" \in DOMAIN a
      /\ a.severity \in DOMAIN WEIGHT /\ a.worth \in Nat
  BY ActionAssumption
<1>2. WithPillar(a, p).severity = a.severity /\ WithPillar(a, p).worth = a.worth
  BY <1>1 DEF WithPillar
<1>3. WEIGHT[a.severity] \in Nat
  BY <1>1 DEF WEIGHT
<1> QED
  BY <1>1, <1>2, <1>3 DEF Score

LEMMA AllActionsScored ==
  ASSUME CoachInv
  PROVE  \E n : Scored(AllActions(reports), n)
<1> DEFINE list(i) == reports[Pillars[i]]
           kept(i) == {k \in DOMAIN list(i) : list(i)[k].id # NoId}
           entries == UNION {{i} \X kept(i) : i \in DOMAIN Pillars}
           before  == {p \in entries \X entries : \/ p[1][1] < p[2][1]
                                                  \/ p[1][1] = p[2][1] /\ p[1][2] < p[2][2]}
           order   == InOrder(entries, before)
           n       == Cardinality(entries)
           at(k)   == WithPillar(list(order[k][1])[order[k][2]], Pillars[order[k][1]])
           f       == [k \in 1..n |-> at(k)]
<1>1. /\ Len(Pillars) \in Nat /\ DOMAIN Pillars = 1..Len(Pillars)
      /\ \A i \in DOMAIN Pillars : list(i) \in Seq(Action)
  <2>1. Pillars \in Seq(Range(Pillars)) /\ \A i \in DOMAIN Pillars : Pillars[i] \in Pillar
    BY PillarsAssumption DEF Pillar, Range
  <2> QED
    BY <2>1 DEF CoachInv
<1>2. \A i \in DOMAIN Pillars :
        /\ Len(list(i)) \in Nat /\ kept(i) \subseteq 1..Len(list(i))
        /\ \A k \in kept(i) : list(i)[k] \in Action
  BY <1>1
<1>3. AllActions(reports) = Computed([k \in DOMAIN order |-> at(k)])
  BY DEF AllActions
<1>4. \A i \in DOMAIN Pillars : IsFiniteSet(kept(i))
  BY <1>2, UpTo, FS_Subset
<1> HIDE DEF list, kept
<1>5. \A e \in entries : /\ e = <<e[1], e[2]>> /\ e[1] \in Int /\ e[2] \in Int
                         /\ e[1] \in DOMAIN Pillars /\ e[2] \in kept(e[1])
  <2> SUFFICES ASSUME NEW i \in DOMAIN Pillars, NEW k \in kept(i)
               PROVE  /\ <<i, k>>[1] \in Int /\ <<i, k>>[2] \in Int
                      /\ <<i, k>>[1] \in DOMAIN Pillars /\ <<i, k>>[2] \in kept(<<i, k>>[1])
    OBVIOUS
  <2>1. i \in Int /\ k \in Int
    BY <1>1, <1>2
  <2> QED
    BY <2>1
<1>6. IsFiniteSet(entries)
  <2> DEFINE sets == {{i} \X kept(i) : i \in DOMAIN Pillars}
  <2>1. IsFiniteSet(DOMAIN Pillars)
    BY <1>1, UpTo
  <2>2. IsFiniteSet(sets)
    <3> DEFINE g == [i \in DOMAIN Pillars |-> {i} \X kept(i)]
    <3>1. g \in Surjection(DOMAIN Pillars, sets)
      BY DEF Surjection
    <3> QED
      BY <2>1, <3>1, FS_Surjection
  <2>3. \A i \in DOMAIN Pillars : IsFiniteSet({i} \X kept(i))
    BY <1>4, FS_Singleton, FS_Product
  <2>4. \A S \in sets : IsFiniteSet(S)
    BY <2>3
  <2> HIDE DEF sets
  <2>5. IsFiniteSet(UNION sets)
    BY <2>2, <2>4, FS_UNION
  <2> QED
    BY <2>5 DEF sets
<1>7. \A x, y \in entries : <<x, y>> \in before <=> (x[1] < y[1] \/ (x[1] = y[1] /\ x[2] < y[2]))
  OBVIOUS
<1> HIDE DEF entries, before
<1>8. /\ \A x \in entries : <<x, x>> \notin before
      /\ \A x, y, z \in entries : <<x, y>> \in before /\ <<y, z>> \in before => <<x, z>> \in before
      /\ \A x, y \in entries : x # y => <<x, y>> \in before \/ <<y, x>> \in before
  <2>1. ASSUME NEW x \in entries PROVE <<x, x>> \notin before
    BY <1>5, <1>7
  <2>2. ASSUME NEW x \in entries, NEW y \in entries, NEW z \in entries,
               <<x, y>> \in before, <<y, z>> \in before
        PROVE  <<x, z>> \in before
    <3>1. /\ x[1] < y[1] \/ (x[1] = y[1] /\ x[2] < y[2])
          /\ y[1] < z[1] \/ (y[1] = z[1] /\ y[2] < z[2])
      BY <1>7, <2>2
    <3>2. x[1] < z[1] \/ (x[1] = z[1] /\ x[2] < z[2])
      BY <1>5, <3>1
    <3> QED
      BY <1>7, <3>2
  <2>3. ASSUME NEW x \in entries, NEW y \in entries, x # y
        PROVE  <<x, y>> \in before \/ <<y, x>> \in before
    <3>1. x[1] # y[1] \/ x[2] # y[2]
      BY <1>5, <2>3
    <3>2. \/ x[1] < y[1] \/ (x[1] = y[1] /\ x[2] < y[2])
          \/ y[1] < x[1] \/ (y[1] = x[1] /\ y[2] < x[2])
      BY <1>5, <3>1
    <3> QED
      BY <1>7, <3>2
  <2> QED
    BY <2>1, <2>2, <2>3
<1>9. n \in Nat /\ order \in [1..n -> entries]
  BY <1>6, <1>8, InOrderIs
<1> HIDE DEF order, n
<1>10. \A k \in 1..n : Score(at(k)) \in Int
  <2> SUFFICES ASSUME NEW k \in 1..n PROVE Score(at(k)) \in Int
    OBVIOUS
  <2>1. order[k] \in entries
    BY <1>9
  <2>2. order[k][1] \in DOMAIN Pillars /\ order[k][2] \in kept(order[k][1])
    BY <1>5, <2>1
  <2>3. list(order[k][1])[order[k][2]] \in Action
    BY <1>2, <2>2
  <2> QED
    BY <2>3, ActionsScored
<1> HIDE DEF at
<1>11. AllActions(reports) = f
  <2>1. f = [k \in 1..n |-> f[k]] /\ DOMAIN order = 1..n
    BY <1>9
  <2>2. AllActions(reports) = Computed(f)
    BY <1>3, <2>1
  <2> HIDE DEF f
  <2> QED
    BY <1>9, <2>1, <2>2, ComputedIs
<1>12. Scored(f, n)
  BY <1>9, <1>10 DEF Scored
<1> QED
  BY <1>11, <1>12

\* Of the actions of an id, one of those with the highest score.
LEMMA BestOfIdIs ==
  ASSUME NEW all, NEW n, Scored(all, n), NEW i \in 1..n
  PROVE  \E b \in 1..n : /\ BestOfId(all, all[i].id) = all[b] /\ all[b].id = all[i].id
                        /\ \A j \in 1..n : all[j].id = all[i].id => Score(all[j]) <= Score(all[b])
<1> DEFINE id   == all[i].id
           I    == {j \in 1..n : all[j].id = id}
           rank == [j \in 1..n |-> -Score(all[j])]
           first(b) == /\ all[b].id = id
                       /\ \A j \in DOMAIN all : all[j].id = id =>
                            Score(all[j]) < Score(all[b]) \/ (Score(all[j]) = Score(all[b]) /\ b <= j)
<1>1. n \in Nat /\ DOMAIN all = 1..n /\ \A j \in 1..n : Score(all[j]) \in Int
  BY DEF Scored
<1>2. \A j \in 1..n : rank[j] = -Score(all[j]) /\ rank[j] \in Int
  BY <1>1
<1>3. I \in SUBSET (1..n) /\ I # {} /\ \A j \in 1..n : j \in I <=> all[j].id = id
  OBVIOUS
<1> HIDE DEF rank, I
<1>4. PICK b \in I : \A j \in I : rank[b] < rank[j] \/ (rank[b] = rank[j] /\ b <= j)
  BY <1>1, <1>2, <1>3, FirstOfLeastRank
<1>5. first(b)
  <2> SUFFICES ASSUME NEW j \in 1..n, all[j].id = id
               PROVE  Score(all[j]) < Score(all[b]) \/ (Score(all[j]) = Score(all[b]) /\ b <= j)
    BY <1>1, <1>3, <1>4
  <2>1. j \in I /\ b \in 1..n
    BY <1>3, <1>4
  <2>2. rank[b] < rank[j] \/ (rank[b] = rank[j] /\ b <= j)
    BY <1>4, <2>1
  <2>3. /\ rank[b] = -Score(all[b]) /\ rank[j] = -Score(all[j])
        /\ Score(all[b]) \in Int /\ Score(all[j]) \in Int
    BY <1>1, <1>2, <2>1
  <2> QED
    BY <2>2, <2>3
<1>6. BestOfId(all, id) = all[CHOOSE c \in DOMAIN all : first(c)]
  BY DEF BestOfId
<1> DEFINE c == CHOOSE c \in DOMAIN all : first(c)
<1>7. c \in 1..n /\ first(c)
  <2> HIDE DEF first
  <2>1. \E d \in DOMAIN all : first(d)
    BY <1>1, <1>3, <1>4, <1>5
  <2> QED
    BY <1>1, <2>1
<1> HIDE DEF c
<1>8. ASSUME NEW j \in 1..n, all[j].id = id PROVE Score(all[j]) <= Score(all[c])
  <2>1. Score(all[j]) < Score(all[c]) \/ Score(all[j]) = Score(all[c])
    BY <1>1, <1>7, <1>8
  <2>2. Score(all[j]) \in Int /\ Score(all[c]) \in Int
    BY <1>1, <1>7
  <2> QED
    BY <2>1, <2>2
<1> QED
  BY <1>6, <1>7, <1>8 DEF c

\* The actions of an id with its highest score.
Best(all, id) ==
  {b \in Range(all) : b.id = id /\ \A c \in Range(all) : c.id = id => Score(c) <= Score(b)}

\* Every id is listed once, at its best.
LEMMA ByIdOnce ==
  ASSUME NEW all, NEW n, Scored(all, n)
  PROVE  LET byId == DeduplicatedById(all)
         IN  \E m : /\ Scored(byId, m)
                    /\ \A k \in 1..m : byId[k] \in Best(all, byId[k].id)
                    /\ \A k, l \in 1..m : k # l => byId[k].id # byId[l].id
                    /\ \A a \in Range(all) : \E k \in 1..m : byId[k].id = a.id
<1> DEFINE I    == {i \in DOMAIN all : \A j \in 1..(i - 1) : all[j].id # all[i].id}
           ids  == Pick(all, I)
           byId == DeduplicatedById(all)
           m    == Cardinality(I)
           f    == [k \in DOMAIN ids |-> BestOfId(all, ids[k].id)]
<1>1. n \in Nat /\ DOMAIN all = 1..n /\ \A j \in 1..n : Score(all[j]) \in Int
  BY DEF Scored
<1>2. byId = Computed(f)
  BY DEF DeduplicatedById
<1>3. I \in SUBSET (1..n) /\ \A i \in I, j \in 1..n : j < i => all[j].id # all[i].id
  <2>1. \A i, j \in 1..n : j < i => j \in 1..(i - 1)
    BY <1>1
  <2> QED
    BY <1>1, <2>1
<1>4. ASSUME NEW i \in 1..n PROVE \E j \in I : all[j].id = all[i].id
  <2> DEFINE same == {j \in 1..n : all[j].id = all[i].id}
  <2>1. same \in SUBSET Nat /\ i \in same
    BY <1>1
  <2>2. PICK k \in same : \A j \in same : k <= j
    BY <2>1, LeastNat
  <2>3. k \in 1..n /\ all[k].id = all[i].id
    BY <2>2
  <2>4. ASSUME NEW j \in 1..(k - 1) PROVE all[j].id # all[k].id
    <3>1. j \in 1..n /\ ~ (k <= j)
      BY <1>1, <2>3
    <3> QED
      BY <2>2, <2>3, <3>1
  <2>5. k \in I
    BY <1>1, <2>3, <2>4
  <2> QED
    BY <2>3, <2>5
<1>5. I \in SUBSET Int /\ IsFiniteSet(I)
  <2>1. 1..n \subseteq Int /\ IsFiniteSet(1..n)
    BY <1>1, UpTo
  <2> QED
    BY <1>3, <2>1, FS_Subset, Zenon
<1> HIDE DEF I, byId
<1>6. m \in Nat
  BY <1>5, PickIs
<1>7. PICK o : Enumerates(o, I) /\ ids = Along(all, o, m)
  BY <1>5, PickIs
<1>8. /\ o \in [1..m -> I] /\ \A i \in I : \E k \in 1..m : o[k] = i
      /\ \A k, l \in 1..m : k < l => o[k] < o[l]
  BY <1>7 DEF Enumerates
<1> HIDE DEF m, ids
<1>9. DOMAIN ids = 1..m /\ \A k \in 1..m : ids[k] = all[o[k]] /\ o[k] \in I /\ o[k] \in 1..n
  BY <1>3, <1>7, <1>8 DEF Along
<1>10. DOMAIN byId = 1..m /\ \A k \in 1..m : byId[k] = BestOfId(all, ids[k].id)
  <2>1. f = [k \in 1..m |-> f[k]] /\ \A k \in 1..m : f[k] = BestOfId(all, ids[k].id)
    BY <1>9
  <2> HIDE DEF f
  <2>2. byId = f
    BY <1>2, <1>6, <2>1, ComputedIs
  <2> QED
    BY <2>1, <2>2
<1>11. ASSUME NEW k \in 1..m
       PROVE  /\ byId[k] \in Best(all, byId[k].id) /\ byId[k].id = all[o[k]].id
              /\ Score(byId[k]) \in Int
  <2>1. o[k] \in 1..n /\ byId[k] = BestOfId(all, all[o[k]].id)
    BY <1>9, <1>10
  <2>2. PICK b \in 1..n : /\ byId[k] = all[b] /\ all[b].id = all[o[k]].id
                         /\ \A j \in 1..n : all[j].id = all[o[k]].id => Score(all[j]) <= Score(all[b])
    BY <2>1, BestOfIdIs
  <2>3. Range(all) = {all[j] : j \in 1..n}
    BY <1>1 DEF Range
  <2> QED
    BY <1>1, <2>2, <2>3 DEF Best
<1>12. ASSUME NEW k \in 1..m, NEW l \in 1..m, k # l PROVE byId[k].id # byId[l].id
  <2>1. ASSUME NEW p \in 1..m, NEW q \in 1..m, p < q PROVE byId[p].id # byId[q].id
    <3>1. o[p] < o[q] /\ o[p] \in 1..n /\ o[q] \in I
      BY <1>8, <1>9, <2>1
    <3>2. all[o[p]].id # all[o[q]].id
      BY <1>3, <3>1
    <3> QED
      BY <1>11, <3>2
  <2>2. k < l \/ l < k
    BY <1>6, <1>12
  <2> QED
    BY <2>1, <2>2
<1>13. ASSUME NEW a \in Range(all) PROVE \E k \in 1..m : byId[k].id = a.id
  <2>1. PICK i \in 1..n : all[i] = a
    BY <1>1 DEF Range
  <2>2. PICK j \in I : all[j].id = a.id
    BY <1>4, <2>1
  <2>3. PICK k \in 1..m : o[k] = j
    BY <1>8
  <2> QED
    BY <1>11, <2>2, <2>3
<1>14. Scored(byId, m)
  BY <1>6, <1>10, <1>11 DEF Scored
<1> QED
  BY <1>11, <1>12, <1>13, <1>14 DEF byId

\* A list s of m of all actions: at their best, no id or control twice, and of every
\* id one of the best is listed or has a control that is.
EachOnce(s, m, all) ==
  /\ Scored(s, m)
  /\ \A k \in 1..m : s[k] \in Best(all, s[k].id)
  /\ \A k, l \in 1..m : k # l =>
       /\ s[k].id # s[l].id
       /\ s[k].control # NoControl => s[k].control # s[l].control
  /\ \A a \in Range(all) : \E b \in Best(all, a.id), k \in 1..m :
       b = s[k] \/ (b.control # NoControl /\ b.control = s[k].control)

LEMMA DeduplicatedOnce ==
  ASSUME NEW all, NEW n, Scored(all, n)
  PROVE  \E m : EachOnce(DeduplicateActions(all), m, all)
<1> DEFINE byId == DeduplicatedById(all)
           J    == {k \in DOMAIN byId :
                      \/ byId[k].control = NoControl
                      \/ \A j \in 1..(k - 1) : byId[j].control # byId[k].control}
           s    == DeduplicateActions(all)
           m    == Cardinality(J)
<1>1. PICK p : /\ Scored(byId, p)
               /\ \A k \in 1..p : byId[k] \in Best(all, byId[k].id)
               /\ \A k, l \in 1..p : k # l => byId[k].id # byId[l].id
               /\ \A a \in Range(all) : \E k \in 1..p : byId[k].id = a.id
  BY ByIdOnce
<1>2. s = Pick(byId, J)
  BY DEF DeduplicateActions
<1> HIDE DEF byId, s
<1>3. p \in Nat /\ DOMAIN byId = 1..p /\ \A k \in 1..p : Score(byId[k]) \in Int
  BY <1>1 DEF Scored
<1>4. /\ J \in SUBSET (1..p)
      /\ \A k \in J, j \in 1..p : j < k /\ byId[k].control # NoControl =>
           byId[j].control # byId[k].control
  <2>1. \A k, j \in 1..p : j < k => j \in 1..(k - 1)
    BY <1>3
  <2> QED
    BY <1>3, <2>1
<1>5. ASSUME NEW k \in 1..p
      PROVE  \E j \in J : j = k \/ (byId[k].control # NoControl /\ byId[j].control = byId[k].control)
  <2>1. CASE byId[k].control = NoControl
    BY <1>3, <2>1
  <2>2. CASE byId[k].control # NoControl
    <3> DEFINE same == {j \in 1..p : byId[j].control = byId[k].control}
    <3>1. same \in SUBSET Nat /\ k \in same
      BY <1>3
    <3>2. PICK i \in same : \A j \in same : i <= j
      BY <3>1, LeastNat
    <3>3. i \in 1..p /\ byId[i].control = byId[k].control
      BY <3>2
    <3>4. ASSUME NEW j \in 1..(i - 1) PROVE byId[j].control # byId[i].control
      <4>1. j \in 1..p /\ ~ (i <= j)
        BY <1>3, <3>3
      <4> QED
        BY <3>2, <3>3, <4>1
    <3>5. i \in J
      BY <1>3, <3>3, <3>4
    <3> QED
      BY <2>2, <3>3, <3>5
  <2> QED
    BY <2>1, <2>2
<1>6. J \in SUBSET Int /\ IsFiniteSet(J)
  <2>1. 1..p \subseteq Int /\ IsFiniteSet(1..p)
    BY <1>3, UpTo
  <2> QED
    BY <1>4, <2>1, FS_Subset, Zenon
<1> HIDE DEF J
<1>7. m \in Nat
  BY <1>6, PickIs
<1>8. PICK o : Enumerates(o, J) /\ Pick(byId, J) = Along(byId, o, m)
  BY <1>6, PickIs
<1>9. /\ o \in [1..m -> J] /\ \A i \in J : \E k \in 1..m : o[k] = i
      /\ \A k, l \in 1..m : k < l => o[k] < o[l]
  BY <1>8 DEF Enumerates
<1> HIDE DEF m
<1>10. DOMAIN s = 1..m /\ \A k \in 1..m : s[k] = byId[o[k]] /\ o[k] \in J /\ o[k] \in 1..p
  BY <1>2, <1>4, <1>8, <1>9 DEF Along
<1>11. ASSUME NEW k \in 1..m PROVE s[k] \in Best(all, s[k].id) /\ Score(s[k]) \in Int
  BY <1>1, <1>3, <1>10
<1>12. ASSUME NEW k \in 1..m, NEW l \in 1..m, k # l
       PROVE  /\ s[k].id # s[l].id
              /\ s[k].control # NoControl => s[k].control # s[l].control
  <2>1. ASSUME NEW x \in 1..m, NEW y \in 1..m, x < y
        PROVE  /\ s[x].id # s[y].id
               /\ s[y].control # NoControl => s[x].control # s[y].control
    <3>1. /\ o[x] < o[y] /\ o[x] \in 1..p /\ o[y] \in 1..p /\ o[y] \in J
          /\ s[x] = byId[o[x]] /\ s[y] = byId[o[y]]
      BY <1>9, <1>10, <2>1
    <3>2. o[x] # o[y]
      BY <3>1
    <3> QED
      BY <1>1, <1>4, <3>1, <3>2
  <2>2. k < l \/ l < k
    BY <1>7, <1>12
  <2> QED
    BY <2>1, <2>2
<1>13. ASSUME NEW a \in Range(all)
       PROVE  \E b \in Best(all, a.id), k \in 1..m :
                b = s[k] \/ (b.control # NoControl /\ b.control = s[k].control)
  <2>1. PICK i \in 1..p : byId[i].id = a.id
    BY <1>1
  <2>2. byId[i] \in Best(all, a.id)
    BY <1>1, <2>1
  <2>3. PICK j \in J : j = i \/ (byId[i].control # NoControl /\ byId[j].control = byId[i].control)
    BY <1>5
  <2>4. PICK k \in 1..m : o[k] = j
    BY <1>9
  <2>5. byId[i] = s[k] \/ (byId[i].control # NoControl /\ byId[i].control = s[k].control)
    BY <1>10, <2>3, <2>4
  <2> QED
    BY <2>2, <2>5
<1>14. EachOnce(s, m, all)
  BY <1>7, <1>10, <1>11, <1>12, <1>13 DEF EachOnce, Scored
<1> QED
  BY <1>14 DEF s

\* Ranking a list keeps it and puts no action before a better one.
LEMMA RankedOnce ==
  ASSUME NEW all, NEW s, NEW m, EachOnce(s, m, all)
  PROVE  /\ EachOnce(Ranked(s), m, all)
         /\ \A k, l \in 1..m : k < l => Score(Ranked(s)[l]) <= Score(Ranked(s)[k])
<1> DEFINE rank == [i \in DOMAIN s |-> -Score(s[i])]
           r    == Ranked(s)
<1>1. m \in Nat /\ DOMAIN s = 1..m /\ \A k \in 1..m : Score(s[k]) \in Int
  BY DEF EachOnce, Scored
<1>2. \A k \in 1..m : rank[k] = -Score(s[k]) /\ rank[k] \in Int
  BY <1>1
<1>3. r = SortedBy(s, rank)
  BY DEF Ranked
<1> HIDE DEF rank, r
<1>4. PICK o : Sorts(o, m, rank) /\ SortedBy(s, rank) = Along(s, o, m)
  BY <1>1, <1>2, SortedByIs
<1>5. /\ o \in [1..m -> 1..m] /\ \A i \in 1..m : \E k \in 1..m : o[k] = i
      /\ \A k, l \in 1..m : k < l =>
           rank[o[k]] < rank[o[l]] \/ (rank[o[k]] = rank[o[l]] /\ o[k] < o[l])
  BY <1>4 DEF Sorts
<1>6. DOMAIN r = 1..m /\ \A k \in 1..m : r[k] = s[o[k]] /\ o[k] \in 1..m
  BY <1>3, <1>4, <1>5 DEF Along
<1>7. ASSUME NEW k \in 1..m, NEW l \in 1..m, k < l PROVE Score(r[l]) <= Score(r[k])
  <2>1. rank[o[k]] < rank[o[l]] \/ rank[o[k]] = rank[o[l]]
    BY <1>5, <1>7
  <2>2. /\ rank[o[k]] = -Score(r[k]) /\ rank[o[l]] = -Score(r[l])
        /\ Score(r[k]) \in Int /\ Score(r[l]) \in Int
    BY <1>1, <1>2, <1>6
  <2> QED
    BY <2>1, <2>2
<1>8. ASSUME NEW k \in 1..m, NEW l \in 1..m, k # l PROVE o[k] # o[l]
  <2>1. ASSUME NEW x \in 1..m, NEW y \in 1..m, x < y PROVE o[x] # o[y]
    <3>1. rank[o[x]] < rank[o[y]] \/ (rank[o[x]] = rank[o[y]] /\ o[x] < o[y])
      BY <1>5, <2>1
    <3>2. rank[o[x]] \in Int /\ o[x] \in Int
      BY <1>2, <1>6
    <3> QED
      BY <3>1, <3>2
  <2>2. k < l \/ l < k
    BY <1>1, <1>8
  <2> QED
    BY <2>1, <2>2
<1>9. /\ \A k \in 1..m : s[k] \in Best(all, s[k].id)
      /\ \A k, l \in 1..m : k # l =>
           /\ s[k].id # s[l].id
           /\ s[k].control # NoControl => s[k].control # s[l].control
      /\ \A a \in Range(all) : \E b \in Best(all, a.id), k \in 1..m :
           b = s[k] \/ (b.control # NoControl /\ b.control = s[k].control)
  BY DEF EachOnce
<1>10. ASSUME NEW a \in Range(all)
       PROVE  \E b \in Best(all, a.id), k \in 1..m :
                b = r[k] \/ (b.control # NoControl /\ b.control = r[k].control)
  <2>1. PICK b \in Best(all, a.id), i \in 1..m :
          b = s[i] \/ (b.control # NoControl /\ b.control = s[i].control)
    BY <1>9
  <2>2. PICK k \in 1..m : o[k] = i
    BY <1>5
  <2> QED
    BY <1>6, <2>1, <2>2
<1>11. Scored(r, m)
  BY <1>1, <1>6 DEF Scored
<1>12. EachOnce(r, m, all)
  BY <1>6, <1>8, <1>9, <1>10, <1>11 DEF EachOnce
<1> QED
  BY <1>7, <1>12 DEF r

LEMMA ListedOnce ==
  ASSUME CoachInv
  PROVE  \E m : /\ EachOnce(Listed, m, AllActions(reports))
                /\ \A k, l \in 1..m : k < l => Score(Listed[l]) <= Score(Listed[k])
<1>1. PICK n : Scored(AllActions(reports), n)
  BY AllActionsScored
<1>2. PICK m : EachOnce(DeduplicateActions(AllActions(reports)), m, AllActions(reports))
  BY <1>1, DeduplicatedOnce
<1>3. Listed = Ranked(DeduplicateActions(AllActions(reports)))
  BY DEF Listed, AggregateCoachActions
<1> QED
  BY <1>2, <1>3, RankedOnce

\* A package of at most n of a ranked list holds the best that pass the filter.
LEMMA PackageHoldsBest ==
  ASSUME NEW list, NEW m, Scored(list, m),
         \A k, l \in 1..m : k < l => Score(list[l]) <= Score(list[k]),
         NEW filter, NEW n \in Nat \ {0}
  PROVE  LET package == DeliveryPackage(list, filter, n)
             taken   == Range(package)
             passed  == {a \in Range(list) : Passes(a, filter)}
             left    == passed \ taken
         IN  /\ taken \subseteq passed
             /\ left # {} => Len(package) = n
             /\ \A a \in taken, b \in left : Score(b) <= Score(a)
<1> DEFINE I       == {i \in DOMAIN list : Passes(list[i], filter)}
           p       == ApplyAdminFilter(list, filter)
           c       == Cardinality(I)
           package == DeliveryPackage(list, filter, n)
           taken   == Range(package)
           passed  == {a \in Range(list) : Passes(a, filter)}
           q       == IF n < c THEN n ELSE c
<1>1. m \in Nat /\ DOMAIN list = 1..m
  BY DEF Scored
<1>2. I \in SUBSET Int /\ IsFiniteSet(I) /\ I \subseteq 1..m
  <2>1. I \subseteq 1..m /\ 1..m \subseteq Int /\ IsFiniteSet(1..m)
    BY <1>1, UpTo
  <2> QED
    BY <2>1, FS_Subset, Zenon
<1>3. c \in Nat
  BY <1>2, PickIs
<1>4. p = Pick(list, I)
  BY DEF ApplyAdminFilter
<1>5. \A i \in 1..m : i \in I <=> Passes(list[i], filter)
  BY <1>1
<1> HIDE DEF I, p
<1>6. PICK o : Enumerates(o, I) /\ Pick(list, I) = Along(list, o, c)
  BY <1>2, PickIs
<1>7. /\ o \in [1..c -> I] /\ \A i \in I : \E k \in 1..c : o[k] = i
      /\ \A k, l \in 1..c : k < l => o[k] < o[l]
  BY <1>6 DEF Enumerates
<1> HIDE DEF c
<1>8. /\ p = [k \in 1..c |-> list[o[k]]]
      /\ DOMAIN p = 1..c /\ \A k \in 1..c : p[k] = list[o[k]] /\ o[k] \in I /\ o[k] \in 1..m
  BY <1>2, <1>4, <1>6, <1>7 DEF Along
<1>9. p \in Seq(Range(list)) /\ Len(p) = c
  <2>1. \A k \in 1..c : list[o[k]] \in Range(list)
    BY <1>1, <1>8 DEF Range
  <2> QED
    BY <1>3, <1>8, <2>1
<1>10. package = SubSeq(p, 1, q)
  BY <1>9 DEF DeliveryPackage, FirstOf, p
<1>11. q \in Nat /\ q <= c /\ q <= n /\ (q = n \/ q = c)
  BY <1>3
<1> HIDE DEF package, q
<1>12. Len(package) = q /\ DOMAIN package = 1..q /\ \A k \in 1..q : package[k] = p[k] /\ k \in 1..c
  BY <1>3, <1>9, <1>10, <1>11
<1>13. \A a : a \in taken <=> \E k \in 1..q : a = list[o[k]]
  <2>1. taken = {package[k] : k \in 1..q}
    BY <1>12 DEF Range
  <2>2. \A k \in 1..q : package[k] = list[o[k]]
    BY <1>8, <1>12
  <2> HIDE DEF taken
  <2> QED
    BY <2>1, <2>2
<1>14. \A a : a \in passed <=> \E k \in 1..c : a = list[o[k]]
  <2>1. ASSUME NEW k \in 1..c PROVE list[o[k]] \in passed
    BY <1>1, <1>5, <1>8 DEF Range
  <2>2. ASSUME NEW a \in passed PROVE \E k \in 1..c : a = list[o[k]]
    <3>1. PICK i \in 1..m : list[i] = a
      BY <1>1 DEF Range
    <3>2. i \in I
      BY <1>5, <3>1
    <3> QED
      BY <1>7, <3>1, <3>2
  <2> HIDE DEF passed
  <2> QED
    BY <2>1, <2>2
<1> HIDE DEF taken, passed
<1>15. taken \subseteq passed
  BY <1>12, <1>13, <1>14
<1>16. ASSUME NEW b \in passed \ taken
       PROVE  q = n /\ \E l \in 1..c : b = list[o[l]] /\ q < l
  <2>1. PICK l \in 1..c : b = list[o[l]]
    BY <1>14
  <2>2. ~ (l \in 1..q)
    BY <1>13, <2>1
  <2>3. q < l
    BY <1>3, <1>11, <2>2
  <2>4. q # c
    BY <1>3, <2>3
  <2> QED
    BY <1>11, <2>1, <2>3, <2>4
<1>17. ASSUME NEW a \in taken, NEW b \in passed \ taken PROVE Score(b) <= Score(a)
  <2>1. PICK k \in 1..q : a = list[o[k]]
    BY <1>13
  <2>2. PICK l \in 1..c : b = list[o[l]] /\ q < l
    BY <1>16
  <2>3. k \in 1..c /\ k < l
    BY <1>3, <1>11, <1>12, <2>1, <2>2
  <2>4. o[k] < o[l] /\ o[k] \in 1..m /\ o[l] \in 1..m
    BY <1>7, <1>8, <2>2, <2>3
  <2> QED
    BY <2>1, <2>2, <2>4
<1>18. passed \ taken # {} => Len(package) = n
  BY <1>12, <1>16
<1> QED
  BY <1>15, <1>17, <1>18 DEF taken, passed, package

LEMMA CoachInvariant == CoachSpec => []CoachInv
<1>1. CoachInit => CoachInv
  BY DEF CoachInit, CoachInv
<1>2. CoachInv /\ [CoachNext]_reports => CoachInv'
  <2> SUFFICES ASSUME CoachInv, [CoachNext]_reports PROVE CoachInv'
    OBVIOUS
  <2>1. ASSUME NEW p \in Pillar, NEW a \in Action, Report(p, a) PROVE CoachInv'
    BY <2>1 DEF Report, CoachInv
  <2>2. ASSUME NEW p \in Pillar, Reset(p) PROVE CoachInv'
    BY <2>2 DEF Reset, CoachInv
  <2>3. CASE UNCHANGED reports
    BY <2>3 DEF CoachInv
  <2> QED
    BY <2>1, <2>2, <2>3 DEF CoachNext
<1> QED
  BY <1>1, <1>2, PTL DEF CoachSpec

(***************************************************************************)
(* The list says everything once and at its best, whichever pillars report *)
(* it and in whatever order: what is listed was reported, no id and no     *)
(* control is listed twice, an id is listed at the highest score it was    *)
(* reported with, and of an id that is not listed some action with that    *)
(* score has a control that is.                                            *)
(***************************************************************************)
THEOREM ListedOnceAtTheirBest == CoachSpec => []EverythingOnceAtItsBest
<1>1. CoachInv => EverythingOnceAtItsBest
  <2> SUFFICES ASSUME CoachInv PROVE EverythingOnceAtItsBest
    OBVIOUS
  <2>1. PICK m : EachOnce(Listed, m, AllActions(reports))
    BY ListedOnce
  <2>2. DOMAIN Listed = 1..m
    BY <2>1 DEF EachOnce, Scored
  <2> DEFINE listed   == Listed
             reported == Reported
             best(id) == {b \in reported :
                            b.id = id /\ \A c \in reported : c.id = id => Score(c) <= Score(b)}
  <2>3. \A id : best(id) = Best(AllActions(reports), id)
    BY DEF Best, Reported
  <2> HIDE DEF best
  <2>4. /\ \A i \in DOMAIN listed : listed[i] \in best(listed[i].id)
        /\ \A i, j \in DOMAIN listed : i # j =>
             /\ listed[i].id # listed[j].id
             /\ listed[i].control # NoControl => listed[i].control # listed[j].control
    BY <2>1, <2>2, <2>3 DEF EachOnce
  <2>5. \A a \in reported : \E b \in best(a.id), i \in DOMAIN listed :
          b = listed[i] \/ (b.control # NoControl /\ b.control = listed[i].control)
    BY <2>1, <2>2, <2>3 DEF EachOnce, Reported
  <2> QED
    BY <2>4, <2>5, Zenon DEF EverythingOnceAtItsBest, best
<1> QED
  BY <1>1, CoachInvariant, PTL

(***************************************************************************)
(* A package holds the best of what passes the filter: nothing that passes *)
(* is left out while there is room, or outranks what was taken.            *)
(***************************************************************************)
THEOREM PackagesHoldTheBest == CoachSpec => []PackageIsTheBest
<1>1. CoachInv => PackageIsTheBest
  <2> SUFFICES ASSUME CoachInv PROVE PackageIsTheBest
    OBVIOUS
  <2>1. PICK m : /\ EachOnce(Listed, m, AllActions(reports))
                 /\ \A k, l \in 1..m : k < l => Score(Listed[l]) <= Score(Listed[k])
    BY ListedOnce
  <2>2. Scored(Listed, m)
    BY <2>1 DEF EachOnce
  <2>3. \A n \in 1..MaxReports : n \in Nat \ {0}
    OBVIOUS
  <2> QED
    BY <2>1, <2>2, <2>3, PackageHoldsBest DEF PackageIsTheBest
<1> QED
  BY <1>1, CoachInvariant, PTL

=============================================================================
