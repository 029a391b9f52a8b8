------------------------------- MODULE ChangeFeed -------------------------------
(***************************************************************************)
(* What incremental ingestion of a change feed promises, whatever the      *)
(* paging, the failures and the number of readers: changes are ingested at *)
(* least once, and the committed position never covers a change that was   *)
(* not ingested, but for those the source once answered unreadably.  A     *)
(* change is its place in the feed.                                        *)
(***************************************************************************)
EXTENDS Naturals

VARIABLES
  published,  \* how many changes the source has published
  ingested,   \* the changes handed downstream
  unreadable, \* the changes the source gave an unreadable answer for
  committed   \* everything up to here will not be read again

feedVars == <<published, ingested, unreadable, committed>>

Init ==
  /\ published = 0
  /\ ingested = {}
  /\ unreadable = {}
  /\ committed = 0

Publish ==
  /\ published' = published + 1
  /\ UNCHANGED <<ingested, unreadable, committed>>

Ingest ==
  /\ \E changes \in SUBSET (1..published) : ingested' = ingested \union changes
  /\ UNCHANGED <<published, unreadable, committed>>

Garble ==
  /\ \E changes \in SUBSET (1..published) : unreadable' = unreadable \union changes
  /\ UNCHANGED <<published, ingested, committed>>

Commit ==
  /\ \E p \in 0..published : 1..p \subseteq ingested \union unreadable /\ committed' = p
  /\ UNCHANGED <<published, ingested, unreadable>>

Next == Publish \/ Ingest \/ Garble \/ Commit

Spec == Init /\ [][Next]_feedVars

\* Nothing readable at or before the committed position was skipped.
NothingSkipped == 1..committed \subseteq ingested \union unreadable
=============================================================================
