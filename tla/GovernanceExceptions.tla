-------------------------- MODULE GovernanceExceptions --------------------------
(***************************************************************************)
(* Governance exceptions: a request is reviewed, approved, implemented and *)
(* closed, until it expires.  advanceExceptionState judges expiry by the   *)
(* date the event carries, summarizeExceptionPortfolio by the date it is   *)
(* asked for; the model's callers date an event by the clock or back to    *)
(* the first day.                                                          *)
(***************************************************************************)
EXTENDS GovernanceClock, Sequences

CONSTANTS
  Exception,  \* ids of exceptions
  NoRequest,  \* no request was created under an id
  Expiries    \* bound: dates a request may expire

VARIABLE request  \* per id, the request the caller keeps

exceptionVars == <<now, request>>

ALLOWED_TRANSITIONS ==
  [requested    |-> {"under_review", "rejected", "expired"},
   under_review |-> {"approved", "rejected", "expired"},
   approved     |-> {"implemented", "expired", "closed"},
   implemented  |-> {"closed", "expired"},
   rejected     |-> {"closed"},
   expired      |-> {"closed"},
   closed       |-> {}]

ExceptionState == DOMAIN ALLOWED_TRANSITIONS
Event   == [from : ExceptionState, to : ExceptionState, at : Time]
Request == [state : ExceptionState, expiresAt : Expiries, history : Seq(Event)]

ASSUME ExpiriesAssumption == Expiries \subseteq Nat
ASSUME RequestAssumption == NoRequest \notin Request

Created(e) == request[e] # NoRequest
-----------------------------------------------------------------------------
ExceptionInit == request = [e \in Exception |-> NoRequest]

\* Any valid date will do for the expiry, also one gone by.
CreateExceptionRequest(e, expiresAt) ==
  /\ ~ Created(e)
  /\ request' = [request EXCEPT ![e] =
                   [state |-> "requested", expiresAt |-> expiresAt, history |-> <<>>]]
  /\ UNCHANGED now

\* Mutant of Accepts: expired on the day of the expiry already.
AcceptsBefore(r, to, at) ==
  /\ to \in ALLOWED_TRANSITIONS[r.state]
  /\ at >= r.expiresAt => to \in {"expired", "closed"}

\* After its expiry a request can only be expired or closed.
Accepts(r, to, at) ==
  /\ to \in ALLOWED_TRANSITIONS[r.state]
  /\ at > r.expiresAt => to \in {"expired", "closed"}

AdvanceExceptionState(e, to, at) ==
  /\ Created(e) /\ Accepts(request[e], to, at)
  /\ request' = [request EXCEPT ![e].state = to,
                   ![e].history = Append(@, [from |-> request[e].state, to |-> to, at |-> at])]
  /\ UNCHANGED now

ExceptionStep ==
  \E e \in Exception :
    \/ \E expiresAt \in Expiries : CreateExceptionRequest(e, expiresAt)
    \/ \E to \in ExceptionState, at \in {0, now} : AdvanceExceptionState(e, to, at)

ExceptionSpec ==
  now = 0 /\ ExceptionInit /\ [][ExceptionStep \/ (Tick /\ UNCHANGED request)]_exceptionVars

\* summarizeExceptionPortfolio: the requests it counts as overdue.
Overdue(asOf) ==
  {e \in Exception :
     /\ Created(e) /\ request[e].expiresAt < asOf
     /\ request[e].state \notin {"closed", "expired", "rejected"}}
-----------------------------------------------------------------------------
ExceptionTypeOK == now \in Time /\ request \in [Exception -> Request \union {NoRequest}]

\* What the workflow accepts of a request today.
OpenTo(e) == {to \in ExceptionState : Accepts(request[e], to, now)}

(***************************************************************************)
(* The portfolio and the workflow agree on every day, the expiry's         *)
(* included, whatever dates earlier events carried.  A request that counts *)
(* as overdue can go nowhere but out of force, and can be expired at once; *)
(* one that does not is refused nothing the workflow lists for its state.  *)
(***************************************************************************)
PortfolioAgrees ==
  \A e \in Exception : Created(e) =>
    IF e \in Overdue(now)
    THEN "expired" \in OpenTo(e) /\ OpenTo(e) \subseteq {"expired", "closed"}
    ELSE OpenTo(e) = ALLOWED_TRANSITIONS[request[e].state]
=============================================================================
