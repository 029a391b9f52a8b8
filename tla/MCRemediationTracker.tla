------------------------- MODULE MCRemediationTracker -------------------------
(* A small instance of RemediationTracker: records do not interact, so one   *)
(* action is enough, over more days than the longest threshold has.          *)
EXTENDS RemediationTracker
=============================================================================
