------------------------------ MODULE MCDelivery ------------------------------
(* The two ends of delivery, coach actions that are listed and packed and    *)
(* the record of one action's remediation, and the backlog board, its server *)
(* and its page, each part checked alone.                                    *)
EXTENDS RemediationTracker, MCCoachActions, BacklogBoard

VARIABLE part  \* the part that is checked

MCInit ==
  /\ Init /\ CoachInit /\ BoardInit /\ PageInit
  /\ part \in {"coach", "tracker", "host", "page"}

MCNext ==
  \/ part = "coach" /\ CoachNext /\ UNCHANGED <<vars, boardVars, pageVars, part>>
  \/ part = "tracker" /\ Next /\ UNCHANGED <<reports, boardVars, pageVars, part>>
  \/ part = "host" /\ HostStep /\ UNCHANGED <<vars, reports, pageVars, part>>
  \/ part = "page" /\ PageStep /\ UNCHANGED <<vars, reports, boardVars, part>>

MCSpec == MCInit /\ [][MCNext]_<<vars, reports, boardVars, pageVars, part>>
=============================================================================
