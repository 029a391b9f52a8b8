-------------------------- MODULE MCTenantRepository --------------------------
(* A small instance of TenantRepository and of TenantApi over it: lists with  *)
(* a duplicate, an invalid record and a hole among the seeds, and callers     *)
(* refused at every check.  Parts share the repository, not the callers.      *)
EXTENDS TenantApi, TLC

CONSTANTS t1, t2

VARIABLE part  \* which of the two callers of the repository is checked

R(t, s, v) == [id |-> t, state |-> s, valid |-> v]

MCSeed ==
  { <<>>,
    <<R(t1, "active", TRUE), R(t1, "draft", TRUE)>>,
    <<R(t1, "onboarding", FALSE), R(t2, "suspended", TRUE)>>,
    <<R(t1, "draft", TRUE), Hole>> }

-----------------------------------------------------------------------------

Everything == {"Reports.Read.All", "User.Read.All"}

Token(scp, roles) ==
  [present |-> TRUE, tid |-> t1, oid |-> TRUE, iss |-> TRUE, scp |-> scp, roles |-> roles,
   expired |-> FALSE]

Body(t, state, complete) == [id |-> t, state |-> state, complete |-> complete]

Caller ==
  [method |-> "GET", path |-> API_VERSION_PREFIX \o <<"tenants">>, bearer |-> TRUE,
   claims |-> Token(Everything, {}), expectedTenantId |-> t1,
   userContext |-> [tenantId |-> t1, roles |-> {"ComplianceAdmin"}], granted |-> Everything,
   body |-> Body(t1, "none", FALSE)]

At(method, rest, body) ==
  [Caller EXCEPT !.method = method, !.path = API_VERSION_PREFIX \o <<"tenants">> \o rest,
                 !.body = body]

Put(body) == At("PUT", <<body.id>>, body)

\* Requests refused at each check of the two gates.
Refused ==
  LET put   == Put(Body(t1, "active", TRUE))
      ready == At("GET", <<t1, "readiness">>, Caller.body)
  IN  {[put EXCEPT !.bearer = FALSE],
       [ready EXCEPT !.claims.tid = t2],
       [put EXCEPT !.claims.expired = TRUE],
       [ready EXCEPT !.claims = Token({"User.Read.All"}, Everything)],
       [put EXCEPT !.userContext.tenantId = NoId],
       [put EXCEPT !.userContext.roles = {"SecurityAdmin", "OperationsAdmin"}],
       [ready EXCEPT !.granted = {"Reports.Read.All"}]}

MCRequest ==
  {At("GET", <<>>, Caller.body),
   At("GET", <<t1>>, Caller.body),
   At("GET", <<t2, "readiness">>, Caller.body),
   At("DELETE", <<t1>>, Caller.body),
   Put(Body(t1, "active", TRUE)), Put(Body(t2, "none", TRUE)), Put(Body(t1, "active", FALSE))}
  \union Refused

-----------------------------------------------------------------------------

MCInit == ApiInit /\ part \in {"flows", "api"}

MCNext ==
  \/ part = "flows" /\ Next /\ UNCHANGED <<call, part>>
  \/ part = "api" /\ ApiNext /\ UNCHANGED part

MCSpec == MCInit /\ [][MCNext]_<<apiVars, part>>

Symmetry == Permutations(Flow) \union Permutations(Client)
=============================================================================
