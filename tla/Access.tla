-------------------------------- MODULE Access --------------------------------
(***************************************************************************)
(* Who may call the API (common/security.py, apps/api_gateway/deps.py and  *)
(* tenancy.py), and which configurations a service starts with             *)
(* (services/readiness_service.py).  Pure functions of the settings, the   *)
(* request and the meeting.                                                *)
(*                                                                         *)
(* A request has a key and perhaps a token.  Of a token it matters whether *)
(* it verifies, its tenant, its permissions, and which of the two marks of *)
(* a service it has: a claim or a role.  Settings are a record; a text of  *)
(* which only matters whether it is set is a Boolean.                      *)
(***************************************************************************)
EXTENDS FiniteSets

CONSTANTS Keys, Tenants, Scopes, None

ASSUME AccessAssumption == None \notin Keys \cup Tenants

Marks == {"claim", "role"}

Tokens == [valid : BOOLEAN, tenant : Tenants \cup {None},
           marks : SUBSET Marks, scopes : SUBSET Scopes]

Calls == [key : Keys \cup {None}, token : Tokens \cup {None}]

Settings == [
  prod : BOOLEAN, mode : {"none", "api_key", "jwt", "unknown"},
  apiKeys : SUBSET Keys, serviceKeys : SUBSET Keys,
  issuer : BOOLEAN, jwks : BOOLEAN, secret : BOOLEAN,
  keyFallback : BOOLEAN,       \* allow_service_api_key_in_jwt_mode
  marks : SUBSET Marks,        \* marks that are configured
  permissionClaim : BOOLEAN,
  tenancy : BOOLEAN, tenantClaim : BOOLEAN,
  requireJwt : BOOLEAN,        \* auth_require_jwt_in_prod
  failFast : BOOLEAN,          \* readiness_fail_fast_in_prod
  provider : {"sberjazz", "sberjazz_mock", "other"},
  base : {"", "http", "https"}, requireHttps : BOOLEAN, baseToken : BOOLEAN,
  sharedFs : BOOLEAN, requireShared : BOOLEAN, corsWildcard : BOOLEAN,
  probe : BOOLEAN, probeFails : BOOLEAN]  \* sberjazz_startup_probe_*

-----------------------------------------------------------------------------
(* require_auth *)

Denied == [type |-> "denied", claims |-> None]
Context(type, claims) == [type |-> type, claims |-> claims]

\* _verify_jwt
Verifies(s, token) == token.valid /\ (s.secret \/ s.jwks \/ s.issuer)

\* Mutant: the fallback to service keys is not limited to development.
FallbackAnywhere(s, call) == s.keyFallback /\ call.key \in s.serviceKeys

\* A service key in place of a token.
Fallback(s, call) == s.keyFallback /\ ~s.prod /\ call.key \in s.serviceKeys

KeyContext(s, key) ==
  CASE key \in s.serviceKeys -> Context("service_api_key", None)
    [] key \in s.apiKeys \ s.serviceKeys -> Context("user_api_key", None)
    [] OTHER -> Denied

TokenContext(s, call) ==
  CASE call.token # None ->
         IF Verifies(s, call.token) THEN Context("jwt", call.token) ELSE Denied
    [] call.token = None /\ Fallback(s, call) -> Context("service_api_key", None)
    [] OTHER -> Denied

RequireAuth(s, call) ==
  CASE s.mode = "none" -> IF s.prod THEN Denied ELSE Context("none", None)
    [] s.mode = "api_key" -> KeyContext(s, call.key)
    [] s.mode = "jwt" -> TokenContext(s, call)
    [] OTHER -> Denied

Admitted(s, call) == RequireAuth(s, call).type # "denied"

\* is_service_jwt_claims
IsService(s, ctx) == ctx.type = "jwt" /\ ctx.claims.marks \cap s.marks # {}

\* has_any_service_permission
Permits(s, ctx, required) ==
  required # {} => s.permissionClaim /\ ctx.claims.scopes \cap required # {}

\* _service_auth_internal: the endpoints of administrators.
ServiceAdmitted(s, call, required) ==
  LET ctx == RequireAuth(s, call) IN
  \/ ctx.type = "service_api_key"
  \/ IsService(s, ctx) /\ Permits(s, ctx, required)

-----------------------------------------------------------------------------
(* Tenants *)

\* resolve_tenant_id
Tenant(s, ctx) ==
  IF s.tenancy /\ ctx.type = "jwt" /\ ~IsService(s, ctx)
    THEN ctx.claims.tenant ELSE None

\* apply_tenant_to_context: may a meeting with the tenant `given` be made?
MayCreate(s, ctx, given) ==
  s.tenancy => Tenant(s, ctx) # None /\ given \in {None, Tenant(s, ctx)}

Stored(s, ctx, given) ==
  IF s.tenancy /\ given = None THEN Tenant(s, ctx) ELSE given

\* enforce_meeting_access
MayAccess(s, ctx, stored) ==
  s.tenancy => Tenant(s, ctx) # None /\ stored = Tenant(s, ctx)

-----------------------------------------------------------------------------
(* Readiness *)

\* evaluate_readiness: the errors about the mode of authorisation.
ModeErrors(s) ==
  {e \in {"auth_none_in_prod", "tenant_requires_jwt", "tenant_claim_key_missing",
          "auth_mode_must_be_jwt_in_prod", "oidc_not_configured"} :
     CASE e = "auth_none_in_prod" -> s.mode = "none"
       [] e = "tenant_requires_jwt" -> s.tenancy /\ s.mode # "jwt"
       [] e = "tenant_claim_key_missing" -> s.tenancy /\ ~s.tenantClaim
       [] e = "auth_mode_must_be_jwt_in_prod" -> s.requireJwt /\ s.mode # "jwt"
       [] e = "oidc_not_configured" -> s.mode = "jwt" /\ ~s.issuer /\ ~s.jwks}

\* Those about storage, origins and the meeting platform.
PlaceErrors(s) ==
  {e \in {"storage_not_shared_fs", "cors_wildcard_in_prod",
          "sberjazz_api_base_not_https", "sberjazz_requires_jwt_auth_mode"} :
     CASE e = "storage_not_shared_fs" -> s.requireShared /\ ~s.sharedFs
       [] e = "cors_wildcard_in_prod" -> s.corsWildcard
       [] e = "sberjazz_api_base_not_https" ->
            s.provider = "sberjazz" /\ s.base = "http" /\ s.requireHttps
       [] e = "sberjazz_requires_jwt_auth_mode" ->
            s.provider = "sberjazz" /\ s.mode # "jwt"}

EmptyErrors(s) ==
  {e \in {"auth_api_keys_empty", "sberjazz_api_base_empty",
          "sberjazz_api_token_empty"} :
     CASE e = "auth_api_keys_empty" -> s.mode = "api_key" /\ s.apiKeys = {}
       [] e = "sberjazz_api_base_empty" -> s.provider = "sberjazz" /\ s.base = ""
       [] e = "sberjazz_api_token_empty" ->
            s.provider = "sberjazz" /\ ~s.baseToken /\ s.prod}

Errors(s) ==
  EmptyErrors(s) \cup IF s.prod THEN ModeErrors(s) \cup PlaceErrors(s) ELSE {}

\* enforce_startup_readiness: whether the service starts, given the platform's health.
Starts(s, healthy) ==
  LET probed == IF s.prod /\ s.provider = "sberjazz" /\ s.probe /\ ~healthy /\ s.probeFails
                THEN {"sberjazz_startup_probe_failed"} ELSE {} IN
  s.prod /\ s.failFast => Errors(s) \cup probed = {}

-----------------------------------------------------------------------------
(* Properties. *)

\* What a caller makes another can use only with a token of the same tenant,
\* whatever context it was made with; a service has no tenant of its own.
SameTenant(s, creator, given, other) ==
  LET c == RequireAuth(s, creator)
      o == RequireAuth(s, other) IN
  s.tenancy /\ c # Denied /\ o # Denied /\ MayCreate(s, c, given)
    /\ MayAccess(s, o, Stored(s, c, given))
    => creator.token # None /\ other.token # None /\ creator.token.tenant = other.token.tenant

\* A service that was allowed to start in production with the defaults admits
\* nobody without a token that verifies, and no administrator without the mark
\* of a service and a permission: keys do not count, though they may be set.
TokensOnly(s, healthy, call, required) ==
  s.prod /\ s.requireJwt /\ s.failFast /\ Starts(s, healthy) =>
    /\ Admitted(s, call) => call.token # None /\ call.token.valid
    /\ ServiceAdmitted(s, call, required) =>
         /\ call.token # None /\ call.token.marks \cap s.marks # {}
         /\ required # {} => call.token.scopes \cap required # {}
=============================================================================
