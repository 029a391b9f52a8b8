----------------------------- MODULE AccessControl -----------------------------
(***************************************************************************)
(* Who may do what: the claims of a decoded Entra token, the Graph         *)
(* permissions a pillar needs, and the pillars a role opens.  Each check   *)
(* refuses with the reason of the first condition that does not hold.      *)
(***************************************************************************)
EXTENDS FiniteSetsExt, Sequences

CONSTANTS NoId  \* a tenant id that is missing

Allowed == "allowed"

Check(holds, reason) == [holds |-> holds, reason |-> reason]

\* The reason of the first check that does not hold.
Verdict(checks) ==
  LET broken == {i \in DOMAIN checks : ~checks[i].holds}
  IN  IF broken = {} THEN Allowed ELSE checks[Min(broken)].reason

-----------------------------------------------------------------------------
(* Entra claims: [present, tid, oid, iss, scp, roles, expired], where scp and *)
(* roles are the sets of permissions in the claim.                            *)

ClassifyPermissionType(claims) ==
  IF claims.scp # {} THEN "delegated" ELSE IF claims.roles # {} THEN "application" ELSE "unknown"

\* Roles count only in a token without scopes.
Granted(claims) ==
  IF ClassifyPermissionType(claims) = "delegated" THEN claims.scp ELSE claims.roles

ValidateTokenClaims(claims, expectedTenantId) ==
  Verdict(<<Check(claims.present, "claims_missing"),
            Check(claims.tid # NoId, "missing_claim_tid"),
            Check(claims.oid, "missing_claim_oid"),
            Check(claims.iss, "missing_claim_iss"),
            Check(expectedTenantId # NoId, "expected_tenant_id_missing"),
            Check(claims.tid = expectedTenantId, "tenant_id_mismatch"),
            Check(ClassifyPermissionType(claims) # "unknown", "no_permissions_found"),
            Check(~claims.expired, "token_expired")>>)

AuthorizeTokenPermissions(claims, required) == required \subseteq Granted(claims)

EnforceAuthGate(claims, expectedTenantId, required) ==
  LET valid == ValidateTokenClaims(claims, expectedTenantId)
  IN  Verdict(<<Check(valid = Allowed, valid),
                Check(AuthorizeTokenPermissions(claims, required), "insufficient_permissions")>>)

\* bearer: the Authorization header carries a non-empty bearer token.
AuthorizeRequest(request, route) ==
  IF ~request.bearer THEN "bearer_missing"
  ELSE EnforceAuthGate(request.claims, request.expectedTenantId, route.requiredPermissions)

-----------------------------------------------------------------------------
(* Pillars. *)

PILLAR_REQUIRED_PERMISSIONS ==
  [OBSERVE  |-> {"Reports.Read.All"},
   GOVERN   |-> {"Reports.Read.All", "User.Read.All"},
   SECURE   |-> {"AuditLog.Read.All", "User.Read.All"},
   OPTIMIZE |-> {"Reports.Read.All", "User.Read.All"}]

Pillars == DOMAIN PILLAR_REQUIRED_PERMISSIONS

CheckPillarPermissions(pillar, granted) == PILLAR_REQUIRED_PERMISSIONS[pillar] \ granted

\* buildScopeGapReport of checkAllPillarPermissions: what each pillar lacks.
ScopeGaps(granted) ==
  {[pillar |-> p, missing |-> CheckPillarPermissions(p, granted)] :
     p \in {q \in Pillars : CheckPillarPermissions(q, granted) # {}}}

ROLE_TO_PILLAR_ACCESS ==
  [GlobalAdmin     |-> Pillars,
   SecurityAdmin   |-> {"OBSERVE", "SECURE"},
   ComplianceAdmin |-> {"OBSERVE", "GOVERN"},
   OperationsAdmin |-> {"OBSERVE", "OPTIMIZE"},
   Reader          |-> {"OBSERVE"}]

PLATFORM_ROLES == DOMAIN ROLE_TO_PILLAR_ACCESS

ResolvePillarAccess(roles) == UNION {ROLE_TO_PILLAR_ACCESS[r] : r \in roles \intersect PLATFORM_ROLES}

AuthorizeTenantPillar(userContext, tenantId, pillar) ==
  Verdict(<<Check(tenantId # NoId, "tenant_missing"),
            Check(userContext.tenantId = tenantId, "tenant_mismatch"),
            Check(userContext.roles \subseteq PLATFORM_ROLES, "unknown_roles"),
            Check(pillar \in ResolvePillarAccess(userContext.roles), "insufficient_role_access")>>)

AuthorizeRouteAccess(userContext, tenantId, route, granted) ==
  LET pillar == AuthorizeTenantPillar(userContext, tenantId, route.pillar)
  IN  Verdict(<<Check(pillar = Allowed, pillar),
                Check(route.requiredPermissions \subseteq granted, "missing_permissions")>>)
=============================================================================
