---------------------------- MODULE MCCoachActions ----------------------------
(* A small instance of CoachActions: two actions of one control, one of them *)
(* reported with another control as well, an action reported with two        *)
(* severities, one without severity and one without id.                      *)
EXTENDS CoachActions

A(i, c, s, e, w) == [id |-> i, pillar |-> Unset, control |-> c, severity |-> s, effort |-> e, worth |-> w]

MCPillars == <<"OBSERVE", "SECURE">>

MCAction ==
  { A("x", "c1", "low", "low", 1),
    A("y", "c1", "critical", "high", 1),
    A("y", "c2", "high", "low", 2),
    A("z", NoControl, "medium", "low", 1),
    A("z", NoControl, "high", "medium", 2),
    [A("w", NoControl, "none", "low", 3) EXCEPT !.pillar = "SECURE"],
    A(NoId, "c2", "critical", "low", 2) }
=============================================================================
