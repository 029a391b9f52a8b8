--------------------------- MODULE IngestionScheduler ---------------------------
(***************************************************************************)
(* createScenarioIngestionScheduler: a closure over one variable, timer,   *)
(* whose start() awaits a first config.run() BEFORE it arms setInterval.   *)
(* Between the call and the end of that run the closure still says "not    *)
(* running", so stop() has nothing to clear and a second start() is not    *)
(* refused.  The interval callback does not await the run it begins, so    *)
(* runs may overlap; a rejected one is an unhandled rejection, which ends  *)
(* the Node process.                                                       *)
(*                                                                         *)
(* A slot is one invocation of config.run() in flight: either the first    *)
(* run some start() call awaits, or a run begun by an interval.            *)
(***************************************************************************)
EXTENDS Naturals, FiniteSets

CONSTANTS
  Slot,     \* invocations of config.run() that may be in flight at a time
  Handle,   \* identities setInterval hands out (re-used once cleared)
  NoTimer   \* the closure's null

ASSUME HandleAssumption == NoTimer \notin Handle

VARIABLES
  timer,              \* the closure variable: the handle stop() would clear
  live,               \* the intervals the event loop still fires
  inflight,           \* what each slot is doing
  startsOverlapped,   \* history: a start() was called while another awaited its run
  runsOverlapped      \* history: two runs were in flight together

schedulerVars == <<timer, live, inflight, startsOverlapped, runsOverlapped>>

Starting == {s \in Slot : inflight[s] = "start"}
Busy     == {s \in Slot : inflight[s] # "idle"}

isRunning == timer # NoTimer

SchedulerInit ==
  /\ timer = NoTimer
  /\ live = {}
  /\ inflight = [s \in Slot |-> "idle"]
  /\ startsOverlapped = FALSE
  /\ runsOverlapped = FALSE

(***************************************************************************)
(* start() while a timer is armed returns at once and changes nothing, so  *)
(* it is not a step; otherwise it begins the run it will await.  The bound *)
(* keeps a handle free for every pending start().                          *)
(***************************************************************************)
StartBound == Cardinality(live) + Cardinality(Starting) < Cardinality(Handle)

Start(s) ==
  /\ ~isRunning
  /\ inflight[s] = "idle"
  /\ StartBound
  /\ inflight' = [inflight EXCEPT ![s] = "start"]
  /\ startsOverlapped' = (startsOverlapped \/ Starting # {})
  /\ runsOverlapped' = (runsOverlapped \/ Busy # {})
  /\ UNCHANGED <<timer, live>>

\* The awaited run resolves and start() goes on to arm the interval: it does
\* not look at timer again.
StartResolves(s) ==
  /\ inflight[s] = "start"
  /\ \E h \in Handle \ live :
       /\ timer' = h
       /\ live' = live \union {h}
  /\ inflight' = [inflight EXCEPT ![s] = "idle"]
  /\ UNCHANGED <<startsOverlapped, runsOverlapped>>

\* The awaited run rejects, and start() with it: no interval is armed.
StartRejects(s) ==
  /\ inflight[s] = "start"
  /\ inflight' = [inflight EXCEPT ![s] = "idle"]
  /\ UNCHANGED <<timer, live, startsOverlapped, runsOverlapped>>

\* An interval fires and begins a run, whatever runs are still in flight.
Tick(h, s) ==
  /\ h \in live
  /\ inflight[s] = "idle"
  /\ inflight' = [inflight EXCEPT ![s] = "tick"]
  /\ runsOverlapped' = (runsOverlapped \/ Busy # {})
  /\ UNCHANGED <<timer, live, startsOverlapped>>

TickResolves(s) ==
  /\ inflight[s] = "tick"
  /\ inflight' = [inflight EXCEPT ![s] = "idle"]
  /\ UNCHANGED <<timer, live, startsOverlapped, runsOverlapped>>

\* Nothing handles the rejection of a run begun by the interval: the process
\* ends, and its successor creates the scheduler anew.
TickRejects(s) ==
  /\ inflight[s] = "tick"
  /\ timer' = NoTimer
  /\ live' = {}
  /\ inflight' = [r \in Slot |-> "idle"]
  /\ startsOverlapped' = FALSE
  /\ UNCHANGED runsOverlapped

\* Mutant of Stop: the handle is forgotten but its interval never cleared.
StopWithoutClear ==
  /\ isRunning
  /\ timer' = NoTimer
  /\ UNCHANGED <<live, inflight, startsOverlapped, runsOverlapped>>

\* stop(): returns at once when no timer is armed.
Stop ==
  /\ isRunning
  /\ live' = live \ {timer}
  /\ timer' = NoTimer
  /\ UNCHANGED <<inflight, startsOverlapped, runsOverlapped>>

SchedulerNext ==
  \/ Stop
  \/ \E s \in Slot :
       \/ Start(s)
       \/ StartResolves(s)
       \/ StartRejects(s)
       \/ TickResolves(s)
       \/ TickRejects(s)
       \/ \E h \in Handle : Tick(h, s)

SchedulerSpec == SchedulerInit /\ [][SchedulerNext]_schedulerVars

-----------------------------------------------------------------------------

SchedulerTypeOK ==
  /\ timer \in Handle \union {NoTimer}
  /\ live \subseteq Handle
  /\ inflight \in [Slot -> {"idle", "start", "tick"}]
  /\ startsOverlapped \in BOOLEAN
  /\ runsOverlapped \in BOOLEAN

(***************************************************************************)
(* Every interval that fires is the one stop() would clear, unless some    *)
(* start() was called while another was still awaiting its first run       *)
(* (start() tests timer before the await and assigns it after).            *)
(***************************************************************************)
LeakOnlyByOverlap ==
  ~startsOverlapped => live = IF isRunning THEN {timer} ELSE {}
=============================================================================
