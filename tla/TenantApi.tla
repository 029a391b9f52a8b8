------------------------------- MODULE TenantApi -------------------------------
(***************************************************************************)
(* The tenant management API over the tenant repository.  A request brings *)
(* the records its host has read; the runtime resolves its route, checks   *)
(* its token, dispatches it to the handler of the route, which checks the  *)
(* user and answers, and reports the answer as a telemetry event.          *)
(*                                                                         *)
(* handleUpsertTenant stores nothing: it answers with the record to store. *)
(* The host of this model stores the record of a successful answer into    *)
(* the repository of that moment, which other calls may have changed since *)
(* the request read it.                                                    *)
(***************************************************************************)
EXTENDS TenantRepository, AccessControl

CONSTANTS
  Client,   \* callers of the API
  Request,  \* requests: method, path, bearer, claims, expectedTenantId, userContext, granted, body
  Param,    \* the segment of a route's path that stands for a tenant
  NoData    \* an answer without data

VARIABLES call  \* per client: its request, what the host read, its answer, and a history

apiVars == <<vars, call>>

-----------------------------------------------------------------------------

API_VERSION_PREFIX == <<"api", "v1">>

BuildRoute(method, path, permissions) ==
  [pillar |-> "GOVERN", method |-> method, path |-> API_VERSION_PREFIX \o path,
   requiredPermissions |-> permissions]

TENANT_API_ROUTES ==
  <<BuildRoute("GET", <<"tenants">>, {"User.Read.All"}),
    BuildRoute("GET", <<"tenants", Param>>, {"User.Read.All"}),
    BuildRoute("PUT", <<"tenants", Param>>, {"User.Read.All"}),
    BuildRoute("GET", <<"tenants", Param, "readiness">>, {"Reports.Read.All", "User.Read.All"})>>

MatchRoutePath(routePath, requestPath) ==
  /\ Len(routePath) = Len(requestPath)
  /\ \A i \in DOMAIN routePath : routePath[i] \in {Param, requestPath[i]}

Resolved(method, path) ==
  {i \in DOMAIN TENANT_API_ROUTES :
     /\ TENANT_API_ROUTES[i].method = method
     /\ MatchRoutePath(TENANT_API_ROUTES[i].path, path)}

\* The parameter tenantId of a path that matches a route with one.
TenantParam(path) == path[4]

ASSUME RequestAssumption ==
  \A r \in Request :
    /\ r.body.id \in Tenant /\ r.body.state \in TenantState \union {"none"}
    /\ r.body.complete \in BOOLEAN
    /\ Resolved(r.method, r.path) \in {{2}, {4}} => TenantParam(r.path) \in Tenant

-----------------------------------------------------------------------------
(* Handlers: an answer has a status, the code of its first error, and data.  *)

Response(status, code, data) == [status |-> status, code |-> code, data |-> data]

FormatSuccess(data)       == Response("success", "none", data)
FormatPartial(data, code) == Response("partial", code, data)
FormatError(code)         == Response("error", code, NoData)

\* The handlers ask for access to the caller's own tenant.
Access(request, i) ==
  AuthorizeRouteAccess(request.userContext, request.userContext.tenantId,
                       TENANT_API_ROUTES[i], request.granted)

BuildTenantRegistrySummary(records) ==
  [total           |-> Len(records),
   byState         |-> [s \in TenantState |->
                          Cardinality({i \in DOMAIN records : records[i] # Hole /\ records[i].state = s})],
   activeTenantIds |-> {records[i].id : i \in {j \in DOMAIN records :
                                                 records[j] # Hole /\ records[j].state = "active"}}]

IsListed(record) == record.valid

HandleListTenants(request, records) ==
  LET access        == Access(request, 1)
      Data(tenants) == [tenants |-> tenants, summary |-> BuildTenantRegistrySummary(records)]
  IN  IF access # Allowed THEN FormatError(access)
      ELSE IF \E i \in DOMAIN records : ~IsListed(records[i])
      THEN FormatPartial(Data(SelectSeq(records, IsListed)), "invalid_records_filtered")
      ELSE FormatSuccess(Data(records))

\* Mutant of Found: the last record of the tenant.
FoundLast(records, t) ==
  records[CHOOSE i \in DOMAIN records :
            records[i].id = t /\ \A j \in DOMAIN records : j > i => records[j].id # t]

Found(records, t) == GetTenantById(records, t)

HandleGetTenant(request, records, t) ==
  LET access == Access(request, 2)
  IN  IF access # Allowed THEN FormatError(access)
      ELSE IF t \notin Ids(records) THEN FormatError("tenant_not_found")
      ELSE FormatSuccess(Found(records, t))

\* A payload without a state makes a draft; an incomplete one is refused with
\* the first error of its validation.
BuildTenantRecord(body) ==
  [id |-> body.id, state |-> IF body.state = "none" THEN "draft" ELSE body.state,
   valid |-> body.complete]

HandleUpsertTenant(request) ==
  LET access    == Access(request, 3)
      candidate == BuildTenantRecord(request.body)
  IN  IF access # Allowed THEN FormatError(access)
      ELSE IF ~candidate.valid THEN FormatError("record_invalid")
      ELSE FormatSuccess(candidate)

HandleTenantReadiness(request, records, t) ==
  LET access == Access(request, 4)
      record == Found(records, t)
  IN  IF access # Allowed THEN FormatError(access)
      ELSE IF t \notin Ids(records) THEN FormatError("tenant_not_found")
      ELSE FormatSuccess([state |-> record.state,
                          readiness |-> IF record.valid /\ record.state = "active"
                                        THEN "ready" ELSE "blocked"])

\* dispatchApiRequest with a handler for each route.
Dispatch(i, request, records) ==
  CASE i = 1 -> HandleListTenants(request, records)
    [] i = 2 -> HandleGetTenant(request, records, TenantParam(request.path))
    [] i = 3 -> HandleUpsertTenant(request)
    [] i = 4 -> HandleTenantReadiness(request, records, TenantParam(request.path))

-----------------------------------------------------------------------------
(* The runtime. *)

InferStatusCode(response) ==
  CASE response.status = "success" -> 200
    [] response.status = "partial" -> 207
    [] response.code = "route_not_found" -> 404
    [] response.code \in {"bearer_missing", "tenant_id_mismatch"} -> 401
    [] response.code \in {"insufficient_permissions", "missing_permissions"} -> 403
    [] OTHER -> 500

ClassifyRequestOutcome(statusCode) ==
  CASE statusCode \in 200..299 -> "success"
    [] statusCode \in 400..499 -> "client_error"
    [] statusCode >= 500 -> "server_error"
    [] OTHER -> "unknown"

RespondTo(request, records) ==
  LET routes == Resolved(request.method, request.path)
      i      == Min(routes)
      auth   == AuthorizeRequest(request, TENANT_API_ROUTES[i])
  IN  IF routes = {} THEN FormatError("route_not_found")
      ELSE IF auth # Allowed THEN FormatError(auth)
      ELSE Dispatch(i, request, records)

TelemetryEvent(response) ==
  [statusCode |-> InferStatusCode(response),
   outcome    |-> ClassifyRequestOutcome(InferStatusCode(response)),
   errorCode  |-> response.code]

ExecuteRuntimeRequest(request, records) ==
  LET response == RespondTo(request, records)
  IN  [response |-> response, telemetry |-> TelemetryEvent(response)]

-----------------------------------------------------------------------------
(* The host. *)

NoAnswer == [response |-> FormatError("none"), telemetry |-> TelemetryEvent(FormatError("none"))]
NoCall   == [phase |-> "idle", request |-> CHOOSE r \in Request : TRUE, records |-> <<>>,
             answer |-> NoAnswer, current |-> [t \in Tenant |-> {}]]

ApiInit == Init /\ call = [c \in Client |-> NoCall]

Arrive(c, request) ==
  /\ call[c].phase # "open"
  /\ call' = [call EXCEPT ![c] =
       [phase |-> "open", request |-> request, records |-> repository, answer |-> NoAnswer,
        current |-> [t \in Tenant |-> {StateIn(repository, t)}]]]
  /\ UNCHANGED vars

\* The calls that are open have now seen t in state s.
Observed(calls, t, s) ==
  [c \in Client |-> IF calls[c].phase = "open"
                    THEN [calls[c] EXCEPT !.current[t] = @ \union {s}] ELSE calls[c]]

Answered(c) ==
  [call EXCEPT ![c] = [@ EXCEPT !.phase = "answered", !.records = <<>>,
                                !.answer = ExecuteRuntimeRequest(call[c].request, call[c].records)]]

Answer(c) ==
  /\ call[c].phase = "open"
  /\ LET response == Answered(c)[c].answer.response
         stores   == call[c].request.method = "PUT" /\ response.status = "success"
         record   == response.data
     IN  \/ /\ ~stores
            /\ call' = Answered(c)
            /\ UNCHANGED vars
         \/ /\ stores
            /\ ~UpsertThrows(repository, record.id)
            /\ edits < MaxEdits /\ edits' = edits + 1
            /\ repository' = UpsertTenantRecord(repository, record)
            /\ acked' = [acked EXCEPT ![record.id] = record.state]
            /\ call' = Observed(Answered(c), record.id, record.state)
            /\ UNCHANGED <<seed, flow, snapshot, stale>>

\* The host is gone, and the calls with it.
ApiRestart == Restart /\ call' = [c \in Client |-> NoCall]

ApiNext ==
  \/ \E c \in Client : (\E request \in Request : Arrive(c, request)) \/ Answer(c)
  \/ SaveSnapshot /\ UNCHANGED call
  \/ ApiRestart

ApiSpec == ApiInit /\ [][ApiNext]_apiVars

-----------------------------------------------------------------------------

StateAnswered(answer, t) == IF answer.code = "tenant_not_found" THEN Absent ELSE answer.data.state

(***************************************************************************)
(* Whatever calls overlap, an answer about a tenant gives a state the      *)
(* tenant had at some moment while the call was open: what get, list and   *)
(* readiness say of one tenant cannot disagree otherwise, and a call that  *)
(* arrives after an upsert was acknowledged does not answer the state      *)
(* before it.  (handleGetTenant, handleTenantReadiness, and                *)
(* handleListTenants unless it filtered invalid records.)                  *)
(***************************************************************************)
AnswersAreCurrent ==
  \A c \in Client : call[c].phase = "answered" =>
    LET answer  == call[c].answer.response
        request == call[c].request
    IN  /\ (Resolved("GET", request.path) \in {{2}, {4}} /\ request.method = "GET"
              /\ (answer.status = "success" \/ answer.code = "tenant_not_found")) =>
             StateAnswered(answer, TenantParam(request.path))
               \in call[c].current[TenantParam(request.path)]
        /\ (Resolved(request.method, request.path) = {1} /\ answer.status = "success") =>
             \A t \in Tenant : StateIn(answer.data.tenants, t) \in call[c].current[t]
=============================================================================
