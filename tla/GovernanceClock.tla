---------------------------- MODULE GovernanceClock ----------------------------
(***************************************************************************)
(* The time governance records are judged against.  Dates are counted in   *)
(* half days, so that a day has a middle: the schedules round times to     *)
(* days.  The functions under govern/ take every date as an argument;      *)
(* nothing keeps a caller from passing one that is not the clock's.        *)
(***************************************************************************)
EXTENDS Integers

CONSTANT MaxTime  \* bound: the last half day of the clock

ASSUME TimeAssumption == MaxTime \in Nat \ {0}

VARIABLE now

Time == 0..MaxTime
Day  == 2

Tick == now < MaxTime /\ now' = now + 1
=============================================================================
