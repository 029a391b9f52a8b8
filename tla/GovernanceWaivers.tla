---------------------------- MODULE GovernanceWaivers ----------------------------
(***************************************************************************)
(* Governance waivers and their audit trail.  The caller keeps the list of *)
(* waivers, replaces an entry when it registers a waiver again (renews     *)
(* it), and has expiries enforced as of some date.  Audit events reach the *)
(* trail in any order, each with the date it happened.                     *)
(***************************************************************************)
EXTENDS Integers, SequencesExt, StableOrder

CONSTANTS
  Waiver,     \* waiver ids
  Actor,      \* who an audit event names
  NoWaiver,   \* no waiver is registered under an id
  Dates,      \* bound: dates callers pass
  MaxAppends  \* bound: audit events

ASSUME DatesAssumption == Dates \subseteq Nat /\ 0 \in Dates

VARIABLES
  waiver,     \* per id, the waiver in the caller's list
  trail,      \* the audit trail
  enforced,   \* history: per id, the latest date enforced since it was registered
  arrived     \* history: the audit events, in the order they were appended

waiverVars == <<waiver, trail, enforced, arrived>>

Entry == [expiresAt : Dates, state : {"active", "expired"}]
\* Of the six event types only "approved" is told apart.
AuditEvent == [waiverId : Waiver, eventType : {"approved", "revoked"}, actor : Actor, at : Dates]

ASSUME WaiverAssumption == NoWaiver \notin Entry
-----------------------------------------------------------------------------
WaiverInit ==
  /\ waiver = [w \in Waiver |-> NoWaiver]
  /\ enforced = [w \in Waiver |-> 0]
  /\ trail = <<>>
  /\ arrived = <<>>

RegisterGovernanceWaiver(w, expiresAt) ==
  /\ waiver' = [waiver EXCEPT ![w] = [expiresAt |-> expiresAt, state |-> "active"]]
  /\ enforced' = [enforced EXCEPT ![w] = 0]
  /\ UNCHANGED <<trail, arrived>>

\* Mutant of Enforced: what is not expired as of the date is active.
EnforcedAnew(entry, asOf) ==
  [entry EXCEPT !.state = IF entry.expiresAt < asOf THEN "expired" ELSE "active"]

\* An entry keeps its state unless it is expired as of the date.
Enforced(entry, asOf) ==
  [entry EXCEPT !.state = IF entry.expiresAt < asOf THEN "expired" ELSE @]

\* enforceWaiverExpiry, as of any date: the list is mapped as a whole.
EnforceWaiverExpiry(asOf) ==
  LET listed == {w \in Waiver : waiver[w] # NoWaiver}
  IN  /\ listed # {}
      /\ waiver' = [w \in Waiver |-> IF w \in listed THEN Enforced(waiver[w], asOf) ELSE NoWaiver]
      /\ enforced' = [w \in Waiver |->
                        IF w \in listed /\ asOf > enforced[w] THEN asOf ELSE enforced[w]]
      /\ UNCHANGED <<trail, arrived>>

\* The stable sort by date.
ByDate(events) == SortedBy(events, [i \in DOMAIN events |-> events[i].at])

\* Mutant of AppendWaiverAuditEvent: the trail is not sorted.
AppendUnsorted(event) ==
  /\ Len(arrived) < MaxAppends
  /\ trail' = Append(trail, event)
  /\ arrived' = Append(arrived, event)
  /\ UNCHANGED <<waiver, enforced>>

AppendWaiverAuditEvent(event) ==
  /\ Len(arrived) < MaxAppends
  /\ trail' = ByDate(Append(trail, event))
  /\ arrived' = Append(arrived, event)
  /\ UNCHANGED <<waiver, enforced>>

WaiverStep ==
  \/ \E w \in Waiver, expiresAt \in Dates : RegisterGovernanceWaiver(w, expiresAt)
  \/ \E asOf \in Dates : EnforceWaiverExpiry(asOf)

TrailStep == \E event \in AuditEvent : AppendWaiverAuditEvent(event)

WaiverSpec == WaiverInit /\ [][WaiverStep \/ TrailStep]_waiverVars

\* buildWaiverApprovalLineage: the approvers of a waiver, each once.
Lineage(w) == ByDate(Pick(trail, {i \in DOMAIN trail : trail[i].waiverId = w}))
Approvals(w) ==
  LET lineage == Lineage(w)
  IN  Pick(lineage, {i \in DOMAIN lineage : lineage[i].eventType = "approved"})
Approvers(w) ==
  LET approvals == Approvals(w)
      firsts == Pick(approvals, {i \in DOMAIN approvals :
                                   \A j \in 1..(i - 1) : approvals[j].actor # approvals[i].actor})
  IN  [k \in DOMAIN firsts |-> firsts[k].actor]
-----------------------------------------------------------------------------
WaiverTypeOK ==
  /\ waiver \in [Waiver -> Entry \union {NoWaiver}]
  /\ enforced \in [Waiver -> Dates]
  /\ trail \in Seq(AuditEvent)
  /\ arrived \in Seq(AuditEvent)

(***************************************************************************)
(* Enforcing expiries is independent of the order of the dates: a waiver   *)
(* is expired if and only if some enforcement since it was registered was  *)
(* later than its expiry.  An enforcement as of an earlier date does not   *)
(* bring it back.                                                          *)
(***************************************************************************)
ExpiryIsOrderFree ==
  \A w \in Waiver : waiver[w] # NoWaiver =>
    (waiver[w].state = "expired" <=> enforced[w] > waiver[w].expiresAt)

\* The first day an actor approved a waiver, of the events that arrived.
FirstApproval(w, a) ==
  LET dates == {e.at : e \in {v \in Range(arrived) :
                  v.waiverId = w /\ v.actor = a /\ v.eventType = "approved"}}
  IN  CHOOSE t \in dates : \A u \in dates : t <= u

OfDate(events, t) == {i \in DOMAIN events : events[i].at = t}

(***************************************************************************)
(* Late events fall into place: the trail holds every event that arrived,  *)
(* by date and on one date in the order of arrival, and the lineage names  *)
(* everyone who approved, once, in the order of their first approvals.     *)
(***************************************************************************)
TrailInOrder ==
  /\ \A i, j \in DOMAIN trail : i < j => trail[i].at <= trail[j].at
  /\ \A t \in Dates : Pick(trail, OfDate(trail, t)) = Pick(arrived, OfDate(arrived, t))
  /\ \A w \in Waiver :
       LET names == Approvers(w)
       IN  /\ Range(names) = {e.actor : e \in {v \in Range(arrived) :
                                v.waiverId = w /\ v.eventType = "approved"}}
           /\ \A i, j \in DOMAIN names : i < j =>
                /\ names[i] # names[j]
                /\ FirstApproval(w, names[i]) <= FirstApproval(w, names[j])
=============================================================================
