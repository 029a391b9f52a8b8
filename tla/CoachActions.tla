------------------------------ MODULE CoachActions ------------------------------
(***************************************************************************)
(* Coach actions: the pillars report recommendations, the aggregator       *)
(* merges the lists, keeps one per id and one per control, ranks them, and *)
(* a delivery package takes the first ones that pass an admin's filter.    *)
(*                                                                         *)
(* A package is a function of the lists of the pillars, which change from  *)
(* one delivery to the next: a state is what the pillars have reported.    *)
(* Of an action the model keeps its id, its pillar, its control, its       *)
(* severity, its effort and its worth, the product of the clamped impact   *)
(* and confidence.                                                         *)
(***************************************************************************)
EXTENDS Integers, SequencesExt, StableOrder

CONSTANTS
  Pillars,    \* the keys of pillarActions, in the order of the object
  Action,     \* actions a pillar can report
  NoId,       \* the id of an action without id or title
  NoControl,  \* the control of an action linked to none
  MaxReports  \* bound: actions reported at a time

VARIABLE reports  \* per pillar, the list of actions it reports

Pillar == Range(Pillars)

Unset == "unset"

SeverityNames == <<"critical", "high", "medium", "low">>
EffortNames   == <<"low", "medium", "high">>
WEIGHT == [critical |-> 4, high |-> 3, medium |-> 2, low |-> 1, none |-> 1]

Score(a) == a.worth * WEIGHT[a.severity]

\* Pillars are listed; what is reported of an action is complete.
ASSUME PillarsAssumption == Pillars \in Seq(Range(Pillars))
ASSUME ActionAssumption ==
  \A a \in Action :
    /\ DOMAIN a = {"id", "pillar", "control", "severity", "effort", "worth"}
    /\ a.severity \in DOMAIN WEIGHT /\ a.worth \in Nat

\* indexOf: 0 for a value that is not in the list.
PlaceIn(names, name) ==
  IF name \in Range(names) THEN CHOOSE i \in DOMAIN names : names[i] = name ELSE 0

-----------------------------------------------------------------------------
(* aggregateCoachActions *)

\* An action that names no pillar is one of the pillar that reports it.
WithPillar(a, p) == [a EXCEPT !.pillar = IF @ = Unset THEN p ELSE @]

\* The lists of all pillars one after the other, without the actions that lack an
\* id or a title: an entry is a pillar's place and the action's place in its list.
AllActions(lists) ==
  LET list(i) == lists[Pillars[i]]
      entries == UNION {{i} \X {k \in DOMAIN list(i) : list(i)[k].id # NoId} : i \in DOMAIN Pillars}
      order   == InOrder(entries, {p \in entries \X entries :
                                     \/ p[1][1] < p[2][1]
                                     \/ p[1][1] = p[2][1] /\ p[1][2] < p[2][2]})
  IN  Computed([k \in DOMAIN order |->
                  WithPillar(list(order[k][1])[order[k][2]], Pillars[order[k][1]])])

\* Mutant of BestOfId: the last action of an id wins.
LastOfId(all, id) ==
  all[CHOOSE i \in DOMAIN all : all[i].id = id /\ \A j \in DOMAIN all : all[j].id = id => j <= i]

\* Of the actions of an id, the first of those with the highest score.
BestOfId(all, id) ==
  all[CHOOSE i \in DOMAIN all :
        /\ all[i].id = id
        /\ \A j \in DOMAIN all : all[j].id = id =>
             Score(all[j]) < Score(all[i]) \/ (Score(all[j]) = Score(all[i]) /\ i <= j)]

\* One action per id, where the id occurs first.
DeduplicatedById(all) ==
  LET ids == Pick(all, {i \in DOMAIN all : \A j \in 1..(i - 1) : all[j].id # all[i].id})
  IN  Computed([k \in DOMAIN ids |-> BestOfId(all, ids[k].id)])

\* Mutant of DeduplicateActions: an action without control is one of a control.
DeduplicateNoControl(all) ==
  LET byId == DeduplicatedById(all)
  IN  Pick(byId, {k \in DOMAIN byId : \A m \in 1..(k - 1) : byId[m].control # byId[k].control})

\* Of the actions of a control the first is listed; that byControl takes up a
\* later one with a higher score changes nothing in the result.
DeduplicateActions(all) ==
  LET byId == DeduplicatedById(all)
  IN  Pick(byId, {k \in DOMAIN byId :
                    \/ byId[k].control = NoControl
                    \/ \A m \in 1..(k - 1) : byId[m].control # byId[k].control})

\* The stable sort by descending score.
Ranked(actions) == SortedBy(actions, [i \in DOMAIN actions |-> -Score(actions[i])])

AggregateCoachActions(lists) == Ranked(DeduplicateActions(AllActions(lists)))

-----------------------------------------------------------------------------
(* applyAdminFilter and buildCoachActionDeliveryPackage *)

\* A severity the list does not know is below every index.  So an action
\* without severity passes every minimum.
Passes(a, filter) ==
  /\ filter.pillar # Unset => a.pillar = filter.pillar
  /\ filter.severity # Unset =>
       PlaceIn(SeverityNames, a.severity) <= PlaceIn(SeverityNames, filter.severity)
  /\ filter.effort # Unset =>
       PlaceIn(EffortNames, a.effort) <= PlaceIn(EffortNames, filter.effort)

ApplyAdminFilter(actions, filter) ==
  Pick(actions, {i \in DOMAIN actions : Passes(actions[i], filter)})

FirstOf(actions, n) == SubSeq(actions, 1, IF n < Len(actions) THEN n ELSE Len(actions))

\* Mutant of DeliveryPackage: the list is cut before it is filtered.
PackageCutFirst(aggregated, filter, maxActions) ==
  ApplyAdminFilter(FirstOf(aggregated, maxActions), filter)

\* The package of the list that it has had aggregated.
DeliveryPackage(aggregated, filter, maxActions) ==
  FirstOf(ApplyAdminFilter(aggregated, filter), maxActions)

-----------------------------------------------------------------------------

Reported == Range(AllActions(reports))
Listed   == AggregateCoachActions(reports)

CoachInit == reports = [p \in Pillar |-> <<>>]

\* A pillar reports one more action.
Report(p, a) ==
  /\ Len(FlattenSeq([i \in DOMAIN Pillars |-> reports[Pillars[i]]])) < MaxReports
  /\ reports' = [reports EXCEPT ![p] = Append(@, a)]

\* Mutant of Reset: the pillar is gone.
ResetDeletes(p) ==
  /\ reports[p] # <<>>
  /\ reports' = [q \in Pillar \ {p} |-> reports[q]]

\* A pillar starts its list anew.
Reset(p) ==
  /\ reports[p] # <<>>
  /\ reports' = [reports EXCEPT ![p] = <<>>]

CoachNext == \E p \in Pillar : Reset(p) \/ \E a \in Action : Report(p, a)

CoachSpec == CoachInit /\ [][CoachNext]_reports

-----------------------------------------------------------------------------

Filters == [pillar : Pillar \union {Unset}, severity : Range(SeverityNames) \union {Unset},
            effort : Range(EffortNames) \union {Unset}]

(***************************************************************************)
(* The list says everything once and at its best, whichever pillars report *)
(* it and in whatever order: what is listed was reported, no id and no     *)
(* control is listed twice, an id is listed at the highest score it was    *)
(* reported with, and of an id that is not listed some action with that    *)
(* score has a control that is.                                            *)
(***************************************************************************)
EverythingOnceAtItsBest ==
  LET listed   == Listed
      reported == Reported
      best(id) == {b \in reported : b.id = id /\ \A c \in reported : c.id = id => Score(c) <= Score(b)}
  IN  /\ \A i \in DOMAIN listed : listed[i] \in best(listed[i].id)
      /\ \A i, j \in DOMAIN listed : i # j =>
           /\ listed[i].id # listed[j].id
           /\ listed[i].control # NoControl => listed[i].control # listed[j].control
      /\ \A a \in reported : \E b \in best(a.id), i \in DOMAIN listed :
           b = listed[i] \/ (b.control # NoControl /\ b.control = listed[i].control)

(***************************************************************************)
(* A package holds the best of what passes the filter: nothing that passes *)
(* is left out while there is room, or outranks what was taken.            *)
(***************************************************************************)
PackageIsTheBest ==
  LET listed == Listed
  IN  \A filter \in Filters, n \in 1..MaxReports :
        LET package == DeliveryPackage(listed, filter, n)
            taken   == Range(package)
            passed  == {a \in Range(listed) : Passes(a, filter)}
            left    == passed \ taken
        IN  /\ taken \subseteq passed
            /\ left # {} => Len(package) = n
            /\ \A a \in taken, b \in left : Score(b) <= Score(a)

(***************************************************************************)
(* What docs/370-coach-action-aggregator.md and the comment of             *)
(* deduplicateActions say: of the actions of one control, the one with the *)
(* highest score is kept.                                                  *)
(***************************************************************************)
HighestOfItsControl ==
  \A i \in DOMAIN Listed : \A a \in Reported :
    a.control # NoControl /\ a.control = Listed[i].control => Score(a) <= Score(Listed[i])
=============================================================================
