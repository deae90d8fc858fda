---------------------------- MODULE GatewayProofs ----------------------------
(***************************************************************************)
(* The gateway for any keys, tenants and settings, requests, meetings,     *)
(* artifacts, rebuilds and restarts: tenants are kept apart and production *)
(* asks for tokens (Access); an alert is relayed (AlertRelay), embeddings  *)
(* have an address (Providers) and every line is in a chunk (RagSearch);   *)
(* numbers of meetings differ, a name is kept and a served artifact is     *)
(* whole (Documents).                                                      *)
(***************************************************************************)
EXTENDS MCComputations, Documents, SequenceTheorems, FiniteSetTheorems, TLAPS

\* Only a token gives a tenant: its own.
LEMMA TenantFromToken ==
  ASSUME NEW s, NEW call \in Calls, s.tenancy, Tenant(s, RequireAuth(s, call)) # None
  PROVE  /\ call.token # None
         /\ call.token.tenant = Tenant(s, RequireAuth(s, call))
  <1> DEFINE ctx == RequireAuth(s, call)
  <1>1. ctx.type = "jwt" /\ Tenant(s, ctx) = ctx.claims.tenant
    BY DEF Tenant
  <1>2. s.mode = "jwt" /\ ctx = TokenContext(s, call)
    BY <1>1 DEF RequireAuth, Denied, Context, KeyContext
  <1>3. call.token # None /\ ctx.claims = call.token
    BY <1>1, <1>2 DEF TokenContext, Denied, Context
  <1> QED
    BY <1>1, <1>3

\* A meeting that one caller made is used by another only with a token of the
\* same tenant, whatever context the first one sent along (tenancy.py).
THEOREM TenantsAreApart ==
  ASSUME NEW s, NEW creator \in Calls, NEW other \in Calls,
         NEW given \in Tenants \cup {None}
  PROVE  SameTenant(s, creator, given, other)
  <1> DEFINE c == RequireAuth(s, creator)
             o == RequireAuth(s, other)
  <1> SUFFICES ASSUME s.tenancy, MayCreate(s, c, given), MayAccess(s, o, Stored(s, c, given))
               PROVE  /\ creator.token # None /\ other.token # None
                      /\ creator.token.tenant = other.token.tenant
    BY DEF SameTenant
  <1>1. Tenant(s, c) # None /\ Stored(s, c, given) = Tenant(s, c)
    BY DEF MayCreate, Stored
  <1>2. Tenant(s, o) # None /\ Tenant(s, o) = Tenant(s, c)
    BY <1>1 DEF MayAccess
  <1> HIDE DEF c, o
  <1> QED
    BY <1>1, <1>2, TenantFromToken DEF c, o

-----------------------------------------------------------------------------

\* Readiness lets a service start in production with tokens only.
LEMMA StartsWithTokens ==
  ASSUME NEW s, NEW healthy,
         s.prod, s.requireJwt, s.failFast, Starts(s, healthy)
  PROVE  s.mode = "jwt"
  <1>1. "auth_mode_must_be_jwt_in_prod" \notin Errors(s)
    BY DEF Starts
  <1> QED
    BY <1>1 DEF Errors, ModeErrors

\* A service that starts in production with the defaults admits nobody without
\* a token that verifies, and no administrator without the mark of a service and
\* a permission, though keys and the fallback to them may be set
\* (enforce_startup_readiness, require_auth, _service_auth_internal).
THEOREM ReadyAsksForTokens ==
  ASSUME NEW s, NEW healthy \in BOOLEAN, NEW call \in Calls,
         NEW required \in SUBSET Scopes
  PROVE  TokensOnly(s, healthy, call, required)
  <1> SUFFICES ASSUME s.prod, s.requireJwt, s.failFast, Starts(s, healthy)
               PROVE  /\ Admitted(s, call) => call.token # None /\ call.token.valid
                      /\ ServiceAdmitted(s, call, required) =>
                           /\ call.token # None /\ call.token.marks \cap s.marks # {}
                           /\ required # {} => call.token.scopes \cap required # {}
    BY DEF TokensOnly
  <1> DEFINE ctx == RequireAuth(s, call)
  <1>1. s.mode = "jwt" /\ ~Fallback(s, call)
    BY StartsWithTokens DEF Fallback
  <1>2. ctx = IF call.token # None /\ Verifies(s, call.token)
              THEN Context("jwt", call.token) ELSE Denied
    BY <1>1 DEF RequireAuth, TokenContext
  <1>3. Admitted(s, call) => call.token # None /\ call.token.valid
    BY <1>2 DEF Admitted, Denied, Verifies
  <1>4. ASSUME ServiceAdmitted(s, call, required)
        PROVE  /\ call.token # None /\ call.token.marks \cap s.marks # {}
               /\ required # {} => call.token.scopes \cap required # {}
    <2>1. ctx.type # "service_api_key"
      BY <1>2 DEF Denied, Context
    <2>2. IsService(s, ctx) /\ Permits(s, ctx, required)
      BY <1>4, <2>1 DEF ServiceAdmitted
    <2>3. ctx.type = "jwt"
      BY <2>2 DEF IsService
    <2>4. call.token # None /\ ctx.claims = call.token
      BY <1>2, <2>3 DEF Denied, Context
    <2> QED
      BY <2>2, <2>4 DEF IsService, Permits
  <1> QED
    BY <1>3, <1>4

-----------------------------------------------------------------------------
(* The calls to other services. *)

\* The least of some numbers.
LEMMA LeastOf ==
  ASSUME NEW S \in SUBSET Nat, S # {}
  PROVE  Alert!Min(S) \in S /\ \A y \in S : Alert!Min(S) <= y
  <1> DEFINE Less == OpToRel(<, Nat)
  <1>1. PICK x \in S : \A y \in S : ~ (<<y, x>> \in Less)
    <2>1. IsWellFoundedOn(Less, Nat)
      BY NatLessThanWellFounded
    <2> HIDE DEF Less
    <2> QED BY <2>1, WFMin
  <1>2. \A y \in S : x <= y
    <2>1. \A y \in S : ~(y < x)
      BY <1>1 DEF OpToRel
    <2> QED BY <2>1
  <1> QED BY <1>2 DEF Alert!Min

\* One address: the post that is taken is the first of all that no retry follows.
LEMMA Forwarded ==
  ASSUME NEW seen, NEW retries \in Nat
  PROVE  LET f == Alert!Forward(seen, retries) IN
         /\ f.posts \in 1 .. retries + 1
         /\ f.taken <=> \E n \in 1 .. retries + 1 :
                          seen[n] = "ok" /\ \A k \in 1 .. n - 1 : seen[k] \in Alert!Retried
         /\ \A k \in 1 .. f.posts - 1 : seen[k] # "ok"
  <1> DEFINE S == {retries + 1} \cup {i \in 1 .. retries + 1 : seen[i] \notin Alert!Retried}
             n == Alert!LastPost(seen, retries)
  <1>1. n = Alert!Min(S)
    BY DEF Alert!LastPost, Alert!Attempts
  <1>2. n \in S /\ \A y \in S : n <= y
    <2>1. S \in SUBSET Nat /\ S # {}
      OBVIOUS
    <2> HIDE DEF S, n
    <2> QED BY <1>1, <2>1, LeastOf
  <1>3. n \in 1 .. retries + 1 /\ \A k \in 1 .. n - 1 : seen[k] \in Alert!Retried
    BY <1>2
  <1>4. "ok" \notin Alert!Retried
    BY DEF Alert!Retried
  <1>5. Alert!Forward(seen, retries) = [posts |-> n, taken |-> n > 0 /\ seen[n] = "ok"]
    BY DEF Alert!Forward
  <1> HIDE DEF n
  <1>6. ASSUME NEW m \in 1 .. retries + 1, seen[m] = "ok",
               \A k \in 1 .. m - 1 : seen[k] \in Alert!Retried
        PROVE  m = n
    <2>1. n <= m
      BY <1>2, <1>4, <1>6
    <2>2. CASE n < m
      <3>1. n \in 1 .. m - 1
        BY <1>3, <2>2
      <3>2. n = retries + 1
        BY <1>2, <1>6, <3>1
      <3> QED BY <2>2, <3>2
    <2> QED BY <1>3, <2>1, <2>2
  <1>7. n > 0
    BY <1>3
  <1> DEFINE f == Alert!Forward(seen, retries)
  <1>8. f.posts = n /\ (f.taken <=> seen[n] = "ok")
    <2>1. f.posts = n /\ f.taken = (n > 0 /\ seen[n] = "ok")
      BY <1>5
    <2> QED BY <1>7, <2>1
  <1> HIDE DEF f
  <1> QED BY <1>3, <1>4, <1>6, <1>8 DEF f

\* The addresses are those that are set, each once.
LEMMA AddressesOnce ==
  ASSUME NEW target, NEW shadow
  PROVE  LET urls == Alert!Addresses(target, shadow) IN
         /\ urls \in Seq({target, shadow})
         /\ {target, shadow} \ {Unset} = Alert!ToSet(urls) /\ Alert!IsInjective(urls)
  <1> DEFINE urls == Alert!Addresses(target, shadow)
  <1>1. \/ urls = <<>> /\ {target, shadow} \ {Unset} = {}
        \/ \E u \in {target, shadow} : urls = <<u>> /\ {target, shadow} \ {Unset} = {u}
        \/ urls = <<target, shadow>> /\ target # shadow /\ Unset \notin {target, shadow}
    <2>1. <<>> \o <<>> = <<>>
      OBVIOUS
    <2>2. <<target>> \o <<>> = <<target>>
      OBVIOUS
    <2>3. <<>> \o <<shadow>> = <<shadow>>
      OBVIOUS
    <2>4. <<target>> \o <<shadow>> = <<target, shadow>>
      <3> DEFINE a == <<target>> \o <<shadow>>
                 b == <<target, shadow>>
                 U == {target, shadow}
      <3>1. <<target>> \in Seq(U) /\ <<shadow>> \in Seq(U) /\ b \in Seq(U)
        OBVIOUS
      <3>2. a \in Seq(U) /\ Len(a) = 2 /\ a[1] = target /\ a[2] = shadow
        BY <3>1
      <3>3. Len(b) = 2 /\ b[1] = target /\ b[2] = shadow
        OBVIOUS
      <3> HIDE DEF a, b
      <3>4. \A i \in 1 .. Len(a) : a[i] = b[i]
        BY <3>2, <3>3
      <3>5. a = b
        BY <3>1, <3>2, <3>3, <3>4, SeqEqual
      <3> QED BY <3>5 DEF a, b
    <2> QED BY <2>1, <2>2, <2>3, <2>4 DEF Alert!Addresses
  <1> HIDE DEF urls
  <1>2. CASE urls = <<>> /\ {target, shadow} \ {Unset} = {}
    BY <1>2 DEF Alert!ToSet, Alert!IsInjective, urls
  <1>3. ASSUME NEW u \in {target, shadow}, urls = <<u>>, {target, shadow} \ {Unset} = {u}
        PROVE  /\ urls \in Seq({target, shadow})
               /\ {target, shadow} \ {Unset} = Alert!ToSet(urls) /\ Alert!IsInjective(urls)
    <2>1. DOMAIN <<u>> = {1} /\ <<u>>[1] = u
      OBVIOUS
    <2> QED BY <1>3, <2>1 DEF Alert!ToSet, Alert!IsInjective
  <1>4. CASE urls = <<target, shadow>> /\ target # shadow /\ Unset \notin {target, shadow}
    <2>1. DOMAIN <<target, shadow>> = {1, 2}
      OBVIOUS
    <2>2. <<target, shadow>>[1] = target /\ <<target, shadow>>[2] = shadow
      OBVIOUS
    <2>3. Alert!ToSet(urls) = {target, shadow}
      BY <1>4, <2>1, <2>2 DEF Alert!ToSet
    <2>4. Alert!IsInjective(urls)
      BY <1>4, <2>1, <2>2 DEF Alert!IsInjective
    <2>5. urls \in Seq({target, shadow})
      BY <1>4
    <2> QED BY <1>4, <2>3, <2>4, <2>5 DEF urls
  <1> QED BY <1>1, <1>2, <1>3, <1>4 DEF urls

\* An alert reaches every address that takes it within the retries, whatever they
\* answer and however often (webhook, _forward).
THEOREM AlertsArrive ==
  ASSUME NEW target, NEW shadow, NEW outcomes, NEW retries \in Nat, NEW failOnError \in BOOLEAN
  PROVE  Alert!Delivered(target, shadow, outcomes, retries, failOnError)
  <1> DEFINE r == Alert!Relay(target, shadow, outcomes, retries, failOnError)
             urls == Alert!Addresses(target, shadow)
             results == [i \in DOMAIN urls |-> Alert!Forward(outcomes[urls[i]], retries)]
             errors == {i \in DOMAIN urls : ~results[i].taken}
  <1>1. r.urls = urls /\ r.results = results
        /\ r.status = IF errors # {} /\ failOnError THEN 502 ELSE 200
    BY DEF Alert!Relay
  <1>2. {target, shadow} \ {Unset} = Alert!ToSet(urls) /\ Alert!IsInjective(urls)
    BY AddressesOnce
  <1> HIDE DEF r, urls
  <1>3. ASSUME NEW i \in DOMAIN urls
        PROVE  LET seen == outcomes[urls[i]] IN
               /\ results[i].posts <= retries + 1
               /\ results[i].taken <=>
                    \E n \in 1 .. retries + 1 :
                      seen[n] = "ok" /\ \A k \in 1 .. n - 1 : seen[k] \in Alert!Retried
               /\ \A k \in 1 .. results[i].posts - 1 : seen[k] # "ok"
    <2>1. results[i] = Alert!Forward(outcomes[urls[i]], retries)
      OBVIOUS
    <2> HIDE DEF results
    <2> QED BY <2>1, Forwarded
  <1>4. failOnError => (r.status = 200 <=> \A i \in DOMAIN urls : results[i].taken)
    BY <1>1
  <1> HIDE DEF results, errors
  <1> QED BY <1>1, <1>2, <1>3, <1>4 DEF Alert!Delivered, r

\* Embeddings that are taken from the settings of the language model have an
\* address (resolve_embedding_provider, resolve_embedding_endpoint).
THEOREM EmbeddingsHaveAddress ==
  ASSUME NEW s
  PROVE  Model!TakenHasAddress(s)
  BY DEF Model!TakenHasAddress, Model!EmbeddingEndpoint, Model!EmbeddingProvider, Model!First,
       Model!DefaultBase, Model!Shared, Model!LlmBase, Model!LlmProvider, Model!LlmProviders,
       Model!EmbeddingProviders, Model!LlmKey

\* The inputs of the access rules are calls and settings.
LEMMA TenantInput ==
  ASSUME TenantInputs
  PROVE  /\ input.of = "tenants"
         /\ input.creator \in Calls /\ input.given \in Tenants \cup {None}
  <1>1. PICK prod \in BOOLEAN, fallback \in BOOLEAN, mode \in Modes, keys \in SUBSET Keys,
             serviceKeys \in SUBSET Keys, marks \in SUBSET Marks, creator \in Calls,
             given \in Tenants \cup {None} :
          input = [of |-> "tenants", creator |-> creator, given |-> given,
             s |-> [Plain EXCEPT !.prod = prod, !.keyFallback = fallback, !.mode = mode,
                       !.apiKeys = keys, !.serviceKeys = serviceKeys, !.marks = marks]]
    BY DEF TenantInputs
  <1> DEFINE st == [Plain EXCEPT !.prod = prod, !.keyFallback = fallback, !.mode = mode,
                       !.apiKeys = keys, !.serviceKeys = serviceKeys, !.marks = marks]
  <1>2. input = [of |-> "tenants", creator |-> creator, given |-> given, s |-> st]
    BY <1>1
  <1> HIDE DEF st
  <1> QED BY <1>2

LEMMA StartInput ==
  ASSUME StartInputs
  PROVE  input.of = "start" /\ input.healthy \in BOOLEAN
  <1>1. PICK mode \in Modes, keys \in SUBSET Keys, serviceKeys \in SUBSET Keys,
             issuer \in BOOLEAN, secret \in BOOLEAN, fallback \in BOOLEAN, tenancy \in BOOLEAN,
             permissions \in BOOLEAN, healthy \in BOOLEAN,
             provider \in {"other", "sberjazz"}, base \in {"http", "https"} :
          input = [of |-> "start", healthy |-> healthy,
             s |-> [Plain EXCEPT !.mode = mode, !.apiKeys = keys, !.serviceKeys = serviceKeys,
                       !.issuer = issuer, !.secret = secret, !.keyFallback = fallback,
                       !.tenancy = tenancy, !.permissionClaim = permissions,
                       !.provider = provider, !.base = base]]
    BY DEF StartInputs
  <1> DEFINE st == [Plain EXCEPT !.mode = mode, !.apiKeys = keys, !.serviceKeys = serviceKeys,
                       !.issuer = issuer, !.secret = secret, !.keyFallback = fallback,
                       !.tenancy = tenancy, !.permissionClaim = permissions,
                       !.provider = provider, !.base = base]
  <1>2. input = [of |-> "start", healthy |-> healthy, s |-> st]
    BY <1>1
  <1> HIDE DEF st
  <1> QED BY <1>2

LEMMA AlertInput ==
  ASSUME AlertInputs
  PROVE  input.of = "alert" /\ input.retries \in Nat /\ input.tell \in BOOLEAN
  BY DEF AlertInputs

LEMMA OtherInputs ==
  ASSUME SearchInputs \/ ReportInputs \/ TableInputs \/ SpeechInputs \/ SettingInputs
  PROVE  input.of \notin {"tenants", "start", "alert"}
  <1>1. CASE SearchInputs
    BY <1>1 DEF SearchInputs
  <1>2. CASE ReportInputs
    BY <1>2 DEF ReportInputs
  <1>3. CASE TableInputs
    BY <1>3 DEF TableInputs
  <1>4. CASE SpeechInputs
    BY <1>4 DEF SpeechInputs
  <1>5. CASE SettingInputs
    <2>1. PICK x : input = [of |-> "settings", s |-> x]
      BY <1>5, Zenon DEF SettingInputs
    <2> QED BY <2>1
  <1> QED BY <1>1, <1>2, <1>3, <1>4, <1>5

\* What others are sent reaches them: the two for the inputs of the run.
THEOREM OthersGetIt == InputSpec => []OthersAreReached
  <1>1. InputInit => OthersAreReached
    <2> SUFFICES ASSUME InputInit PROVE OthersAreReached
      OBVIOUS
    <2>1. ASSUME input.of = "alert"
          PROVE  Alert!Delivered(input.target, input.shadow, input.seen, input.retries, input.tell)
      <3>1. input.retries \in Nat /\ input.tell \in BOOLEAN
        BY <2>1, AlertInput, TenantInput, StartInput, OtherInputs DEF InputInit
      <3> QED BY <3>1, AlertsArrive
    <2> QED BY <2>1, EmbeddingsHaveAddress DEF OthersAreReached
  <1>2. OthersAreReached /\ [InputNext]_input => OthersAreReached'
    BY DEF InputNext, OthersAreReached
  <1> QED BY <1>1, <1>2, PTL DEF InputSpec

\* The rules of access hold for the inputs of the run.
THEOREM AccessIsKept == InputSpec => []AccessHolds
  <1>1. InputInit => AccessHolds
    <2> SUFFICES ASSUME InputInit PROVE AccessHolds
      OBVIOUS
    <2>1. TenantsApart
      <3>1. input.of = "tenants" => TenantInputs
        BY AlertInput, TenantInput, StartInput, OtherInputs DEF InputInit
      <3> QED BY <3>1, TenantInput, TenantsAreApart DEF TenantsApart
    <2>2. ReadyMeansToken
      <3>1. input.of = "start" => StartInputs
        BY AlertInput, TenantInput, StartInput, OtherInputs DEF InputInit
      <3> QED BY <3>1, StartInput, ReadyAsksForTokens DEF ReadyMeansToken
    <2> QED BY <2>1, <2>2 DEF AccessHolds
  <1>2. AccessHolds /\ [InputNext]_input => AccessHolds'
    BY DEF InputNext, AccessHolds, TenantsApart, ReadyMeansToken
  <1> QED BY <1>1, <1>2, PTL DEF InputSpec

-----------------------------------------------------------------------------
(* The search. *)

\* What division is.
LEMMA Division ==
  ASSUME NEW a \in Nat, NEW d \in Nat \ {0}
  PROVE  /\ a \div d \in Nat
         /\ d * (a \div d) <= a /\ a < d * (a \div d) + d
  OBVIOUS

\* The smaller of two numbers is known from their products.
LEMMA LeastProduct ==
  ASSUME NEW d \in Nat \ {0}, NEW p \in Nat, NEW q \in Nat, d * p < d * q + d
  PROVE  p <= q
  <1> SUFFICES ASSUME p >= q + 1 PROVE FALSE
    OBVIOUS
  <1>1. PICK k \in Nat : p = q + 1 + k
    <2>1. p - q - 1 \in Nat
      OBVIOUS
    <2> QED BY <2>1
  <1>2. d * p = d * q + d + d * k
    BY <1>1
  <1>3. d * k >= 0
    OBVIOUS
  <1> QED BY <1>2, <1>3

\* Products of naturals.
LEMMA ProductIsNatural ==
  ASSUME NEW a \in Nat, NEW b \in Nat
  PROVE  a * b \in Nat
  OBVIOUS

LEMMA ProductOfNext ==
  ASSUME NEW a \in Nat, NEW b \in Nat
  PROVE  a * (b + 1) = a * b + a /\ b * a = a * b
  OBVIOUS

\* The number of the chunk that a line is in: where it begins, and that there is one.
LEMMA PlaceOfLine ==
  ASSUME NEW i \in Nat \ {0}, NEW length \in Nat, i <= length, NEW step \in Nat \ {0}
  PROVE  LET n == (i - 1) \div step + 1
             f == 1 + (n - 1) * step IN
         /\ n \in 1 .. ((length + step - 1) \div step)
         /\ f \in 1 .. i /\ i < f + step
  <1> DEFINE q == (i - 1) \div step
             p == (length + step - 1) \div step
  <1>1. i - 1 \in Nat /\ length + step - 1 \in Nat
    OBVIOUS
  <1>2. q \in Nat /\ step * q <= i - 1 /\ i - 1 < step * q + step
    BY <1>1, Division
  <1>3. p \in Nat /\ length + step - 1 < step * p + step
    BY <1>1, Division
  <1> HIDE DEF q, p
  <1>4. step * q \in Nat /\ step * p \in Nat
    BY <1>2, <1>3, ProductIsNatural
  <1>5. step * (q + 1) = step * q + step /\ q * step = step * q
    BY <1>2, ProductOfNext
  <1>6. q + 1 \in Nat /\ q + 1 <= p
    <2>1. step * (q + 1) < step * p + step
      <3> DEFINE x == step * q
                 y == step * p
                 z == step * (q + 1)
      <3>1. x \in Nat /\ y \in Nat /\ z = x + step /\ x <= i - 1
            /\ length + step - 1 < y + step
        BY <1>2, <1>3, <1>4, <1>5
      <3> HIDE DEF x, y, z
      <3>2. z < y + step
        BY <3>1
      <3> QED BY <3>2 DEF x, y, z
    <2>2. q + 1 \in Nat
      BY <1>2
    <2> QED BY <1>3, <2>1, <2>2, LeastProduct
  <1>7. q + 1 \in 1 .. p /\ (q + 1) - 1 = q
    BY <1>2, <1>3, <1>6
  <1>8. 1 + q * step \in 1 .. i /\ i < (1 + q * step) + step
    <2> DEFINE x == q * step
    <2>1. x \in Nat /\ x <= i - 1 /\ i - 1 < x + step
      BY <1>2, <1>4, <1>5
    <2> HIDE DEF x
    <2>2. 1 + x \in 1 .. i /\ i < (1 + x) + step
      BY <2>1
    <2> QED BY <2>2 DEF x
  <1>9. q + 1 \in 1 .. p /\ 1 + ((q + 1) - 1) * step \in 1 .. i
        /\ i < (1 + ((q + 1) - 1) * step) + step
    BY <1>7, <1>8, Zenon
  <1> QED BY <1>9 DEF q, p

\* The greatest of some numbers.
LEMMA GreatestOf ==
  ASSUME NEW n \in Int, NEW m \in Int, NEW S \in SUBSET (n .. m), S # {}
  PROVE  Search!Max(S) \in S /\ \A y \in S : Search!Max(S) >= y
  <1> DEFINE T == {m - y : y \in S}
             t == Alert!Min(T)
  <1>1. T \in SUBSET Nat /\ T # {}
    <2>1. \A y \in S : y \in Int /\ y <= m
      OBVIOUS
    <2>2. \A y \in S : m - y \in Nat
      BY <2>1
    <2> QED BY <2>2
  <1>2. t \in T /\ \A y \in T : t <= y
    BY <1>1, LeastOf
  <1>3. PICK x \in S : t = m - x
    BY <1>2
  <1>4. ASSUME NEW y \in S PROVE x >= y
    <2>1. t <= m - y
      BY <1>2
    <2> QED BY <2>1, <1>3
  <1> QED BY <1>3, <1>4 DEF Search!Max

\* Every line of a transcript is in a chunk, whatever the widths of the lines and
\* the limits, as long as the lines up to the next chunk fit into one
\* (_rag_chunk_line_items).
THEOREM EveryLineIsFound ==
  ASSUME NEW widths \in Seq(Nat), NEW speakers,
         NEW maxLines \in Nat \ {0}, NEW overlap \in Nat, NEW maxChars,
         \A i \in DOMAIN widths :
           LET j == Search!Least(Len(widths), i + Search!Step(maxLines, overlap) - 1) IN
           i < j => Search!Width(widths, i, j) <= maxChars
  PROVE  LET chunks == Search!Chunks(widths, speakers, maxLines, overlap, maxChars) IN
         \A i \in DOMAIN widths :
           \E n \in DOMAIN chunks : chunks[n].first <= i /\ i <= chunks[n].last
  <1> DEFINE step == Search!Step(maxLines, overlap)
             chunks == Search!Chunks(widths, speakers, maxLines, overlap, maxChars)
             length == Len(widths)
             first(n) == 1 + (n - 1) * step
  <1>0. length \in Nat /\ DOMAIN widths = 1 .. length
    OBVIOUS
  <1>1. step \in Nat \ {0} /\ step <= maxLines
    BY DEF Search!Step, Search!Most
  <1> SUFFICES ASSUME NEW i \in DOMAIN widths
               PROVE  \E n \in DOMAIN chunks : chunks[n].first <= i /\ i <= chunks[n].last
    OBVIOUS
  <1>2. i \in 1 .. length
    BY <1>0
  <1> DEFINE n == (i - 1) \div step + 1
             j == Search!Least(length, first(n) + step - 1)
             ends == {l \in first(n) .. length :
                        l - first(n) < maxLines
                          /\ (l = first(n) \/ Search!Width(widths, first(n), l) <= maxChars)}
  <1>3. DOMAIN chunks = 1 .. ((length + step - 1) \div step)
    BY DEF Search!Chunks
  <1>4. \A k \in DOMAIN chunks : chunks[k].first = first(k)
                                /\ chunks[k].last = Search!ChunkEnd(widths, first(k), maxLines, maxChars)
    BY DEF Search!Chunks
  <1>5. n \in DOMAIN chunks /\ first(n) \in 1 .. i /\ i < first(n) + step
    <2>1. i \in Nat \ {0} /\ i <= length
      BY <1>0, <1>2
    <2> HIDE DEF chunks, step, length
    <2> QED BY <1>0, <1>1, <1>3, <2>1, PlaceOfLine
  <1> DEFINE f == first(n)
  <1> HIDE DEF chunks, n, first, step
  <1>6. f \in 1 .. length /\ f \in DOMAIN widths
    BY <1>0, <1>2, <1>5
  <1>7. j \in ends /\ i <= j
    <2>1. j \in f .. length /\ i <= j /\ j - f < maxLines
      <3>1. f \in Nat /\ i \in Nat /\ f <= i /\ i <= length /\ i < f + step
        BY <1>0, <1>2, <1>5
      <3>2. j = IF length < f + step - 1 THEN length ELSE f + step - 1
        BY DEF Search!Least
      <3> HIDE DEF f, j, length
      <3> QED BY <1>0, <1>1, <3>1, <3>2
    <2>2. f < j => Search!Width(widths, f, j) <= maxChars
      BY <1>6 DEF step
    <2>3. j = f \/ f < j
      <3> HIDE DEF f, j, length
      <3> QED BY <1>0, <1>6, <2>1
    <2> HIDE DEF j
    <2> QED BY <2>1, <2>2, <2>3
  <1>8. i <= Search!Max(ends)
    <2>1. ends \in SUBSET (f .. length)
      OBVIOUS
    <2>2. f \in Int /\ length \in Int /\ ends # {}
      BY <1>0, <1>6, <1>7
    <2> HIDE DEF ends, j, f, length
    <2>3. Search!Max(ends) \in ends /\ \A y \in ends : Search!Max(ends) >= y
      BY <2>1, <2>2, GreatestOf
    <2>4. Search!Max(ends) >= j
      BY <2>3, <1>7
    <2>5. Search!Max(ends) \in f .. length /\ j \in f .. length /\ i \in 1 .. length
      BY <2>1, <2>3, <1>2, <1>7
    <2> QED BY <1>0, <1>6, <1>7, <2>4, <2>5
  <1>9. Search!ChunkEnd(widths, first(n), maxLines, maxChars) = Search!Max(ends)
    BY DEF Search!ChunkEnd
  <1>10. chunks[n].first = f /\ chunks[n].last = Search!Max(ends) /\ f <= i
    <2>1. f <= i
      BY <1>2, <1>5
    <2> QED BY <1>4, <1>5, <1>9, <2>1
  <1> HIDE DEF ends, f
  <1> QED BY <1>5, <1>8, <1>10

-----------------------------------------------------------------------------
(* What the requests hold and what the files say. *)

Contents == Nat \cup Entries \cup Texts \cup {"ok", Missing, Torn}

ReqType ==
  [at : {"idle", "look", "lock", "scan", "cached", "make", "open", "fill"},
   op : {"none", "show", "rename", "report", "download", "artifact"},
   about : Meetings \cup {ReportFile, Missing} \cup Ids,
   name : Names \cup {"default"}, force : BOOLEAN, over : BOOLEAN,
   of : 0..Versions, max : Nat, todo : SUBSET Meetings,
   writes : Seq(Files \X Contents)]

Lists(r) == req[r].op \in {"show", "rename"}
Pending(r) == req[r].at \in {"open", "fill"}
Ahead(r) == Head(req[r].writes)
Last(r) == req[r].writes[Len(req[r].writes)]

\* A request knows what it is about, and is where its kind of request can be.
KnowsItsWork(r) ==
  /\ req[r].at = "idle" => req[r] = Idle
  /\ Lists(r) => req[r].about \in Meetings /\ req[r].at \notin {"cached", "make"}
  /\ req[r].op = "show" => req[r].name = "default"
  /\ req[r].op = "rename" => req[r].name \in Names
  /\ req[r].op \in {"report", "download"} =>
       req[r].about = ReportFile /\ req[r].at \in {"make", "open", "fill"}
  /\ req[r].op = "report" => req[r].of \in 1..Versions
  /\ req[r].op = "artifact" => /\ req[r].about \in Ids /\ req[r].of = req[r].about[2]
                               /\ req[r].at \in {"cached", "make", "open", "fill"}
  /\ req[r].op = "none" => req[r].at = "idle"
  /\ Pending(r) => req[r].writes # <<>>

\* The number of the entry a request writes.
Number(r) == Last(r)[2].index

\* The counter first, if a number was taken, and the entry at the end.
WritesEntry(r) ==
  LET w == req[r].writes  m == req[r].about IN
  /\ Last(r)[1] = m /\ Last(r)[2] \in Entries /\ Last(r)[2].name = req[r].name
  /\ \A k \in 1..Len(w) :
       \/ w[k] \in {<<m, Entry(Number(r), "default")>>, <<m, Entry(Number(r), req[r].name)>>}
       \/ k = 1 /\ w[1] = <<Counter, Number(r)>>

\* A report, in two files.
WritesReport(r) ==
  \A k \in 1..Len(req[r].writes) :
    req[r].writes[k][1] \in Reports /\ req[r].writes[k][2] \in Texts

\* A report perhaps, and then the artifact, its meta.json at the end.
WritesArtifact(r) ==
  LET w == req[r].writes  n == Len(w)  id == req[r].about IN
  /\ w[n] = <<<<id, "meta">>, "ok">>
  /\ n >= 2 => /\ w[n - 1][1] = <<id, "txt">> /\ w[n - 1][2] \in Texts
               /\ id[1] # "brief" => w[n - 1][2].of = id[2]
  /\ n >= 3 => w[n - 2] = <<<<id, "json">>, w[n - 1][2]>>
  /\ \A k \in 1..(n - 3) : w[k][1] \in Reports /\ w[k][2] \in Texts

WritesWhatItShould(r) ==
  Pending(r) => /\ Lists(r) => WritesEntry(r)
                /\ req[r].op \in {"report", "download"} => WritesReport(r)
                /\ req[r].op = "artifact" => WritesArtifact(r)

FilesTyped ==
  /\ disk \in [Files -> Contents]
  /\ Whole(Counter) => disk[Counter] \in Nat \ {0}
  /\ \A m \in Meetings : Whole(m) => disk[m] \in Entries
  /\ \A f \in Reports : Whole(f) => disk[f] \in Texts

Typed ==
  /\ FilesTyped
  /\ version \in 1..Versions
  /\ named \in [Meetings -> Names \cup {"default"}]
  /\ req \in [Requests -> ReqType]
  /\ \A r \in Requests : KnowsItsWork(r) /\ WritesWhatItShould(r)

\* Who counts the entries, or has the counter to write, holds the lock.
TakesNumber(r) == req[r].at = "scan" \/ (Lists(r) /\ Pending(r) /\ Ahead(r)[1] = Counter)

LockRight ==
  /\ lock = {} \/ \E r \in Requests : lock = {r}
  /\ \A r \in Requests : r \in lock <=> TakesNumber(r)
  /\ \A r \in lock : req[r].at \in {"scan", "fill"} => ~Whole(Counter)

-----------------------------------------------------------------------------
(* The list of meetings. *)

\* A meeting has a number in its entry, or in that to be written by a request
\* that has its number already.
Claims(m, i) ==
  \/ Whole(m) /\ disk[m].index = i
  \/ \E r \in Requests : /\ Lists(r) /\ Pending(r) /\ r \notin lock
                         /\ req[r].about = m /\ Number(r) = i

\* Since the last restart no number has been taken.
NoneTaken == ~Whole(Counter) /\ \A r \in lock : req[r].at = "scan"

NumbersRight ==
  /\ \A m, n \in Meetings : \A i \in Nat : Claims(m, i) /\ Claims(n, i) => m = n
  /\ Whole(Counter) => \A m \in Meetings : \A i \in Nat : Claims(m, i) => i <= disk[Counter]
  /\ \A r \in lock : Pending(r) => \A m \in Meetings : \A i \in Nat : Claims(m, i) => i < Number(r)
  /\ NoneTaken =>
       \A m \in Meetings : \A i, j \in Nat : Claims(m, i) /\ Claims(m, j) => i = j
  /\ \A r \in Requests : req[r].at = "scan" =>
       \A m \in Meetings \ req[r].todo : \A i \in Nat : Claims(m, i) => i <= req[r].max

\* While one request at most has an entry to write, it writes what is asked.
Kept(m) == named[m] \in Names => Whole(m) /\ disk[m].name = named[m]

NameRight(m) ==
  m \notin spoiled =>
    /\ \A r, o \in Writers(m) : r = o
    /\ (\A r \in Writers(m) : req[r].at = "look") => Kept(m)
    /\ \A r \in Writers(m) :
         /\ req[r].op = "show" \/ req[r].at \in {"lock", "scan"} => named[m] \notin Names
         /\ req[r].at = "fill" /\ Ahead(r)[1] = m => ~Whole(m)

-----------------------------------------------------------------------------
(* Artifacts. *)

Served(id) ==
  Whole(<<id, "meta">>) =>
    /\ Whole(<<id, "json">>)
    /\ disk[<<id, "txt">>] = disk[<<id, "json">>]
    /\ id[1] # "brief" => disk[<<id, "json">>].of = id[2]

\* What a request has left behind it says what it has still to write.
LeftBehind(r) ==
  LET w == req[r].writes  n == Len(w)  id == req[r].about IN
  /\ n = 2 => disk[<<id, "json">>] = w[1][2]
  /\ n = 1 => /\ disk[<<id, "json">>] \in Texts
              /\ disk[<<id, "txt">>] = disk[<<id, "json">>]
              /\ id[1] # "brief" => disk[<<id, "json">>].of = id[2]

ArtifactRight(id) ==
  id \notin spoiled =>
    /\ \A r, o \in Writers(id) : r = o
    /\ (\A r \in Writers(id) : req[r].at = "make") => Served(id)
    /\ \A r \in Writers(id) :
         /\ ~req[r].over => ~Whole(<<id, "meta">>)
         /\ Pending(r) => LeftBehind(r)
         /\ req[r].at = "fill" => \A p \in Parts : Ahead(r)[1] = <<id, p>> => ~Whole(<<id, p>>)

DInv ==
  /\ Typed /\ LockRight
  /\ Counter \notin spoiled => NumbersRight
  /\ \A m \in Meetings : NameRight(m)
  /\ \A id \in Ids : ArtifactRight(id)

-----------------------------------------------------------------------------
(* What a step of one request leaves alone. *)

LEMMA TextsAreWhole ==
  /\ \A x \in Nat \cup Entries \cup Texts \cup Files \cup {"ok"} : x # Missing /\ x # Torn
  /\ Missing # Torn /\ Missing \in Contents /\ Torn \in Contents
  BY DocumentsAssumption DEF Contents

LEMMA FilesDiffer ==
  /\ Counter \in Files /\ ReportFile \in Files /\ ReportText \in Files /\ Meetings \subseteq Files
  /\ \A id \in Ids, p \in Parts : <<id, p>> \in Files
  /\ Counter \notin Meetings \cup Reports /\ ReportFile # ReportText
  /\ \A f \in Reports : f \notin Meetings \cup Ids
  /\ \A m \in Meetings : m \notin Ids
  /\ \A id \in Ids, p \in Parts : <<id, p>> \notin Meetings \cup Reports \cup {Counter}
  /\ Missing \notin Meetings \cup Ids \cup Reports
  <1>1. /\ Counter \in Files /\ ReportFile \in Files /\ ReportText \in Files
        /\ Meetings \subseteq Files
        /\ \A id \in Ids, p \in Parts : <<id, p>> \in Files
    BY DEF Files, Reports
  <1>2. Counter \notin Meetings \cup Reports /\ ReportFile # ReportText
    BY DocumentsAssumption
  <1>3. (\A f \in Reports : f \notin Meetings \cup Ids) /\ (\A m \in Meetings : m \notin Ids)
    BY DocumentsAssumption
  <1>4. \A id \in Ids, p \in Parts : <<id, p>> \notin Meetings \cup Reports \cup {Counter}
    <2> SUFFICES ASSUME NEW id \in Ids, NEW p \in Parts
                 PROVE  <<id, p>> \notin Meetings \cup Reports \cup {Counter}
      OBVIOUS
    <2>1. <<id, p>> \in Ids \X Parts
      OBVIOUS
    <2> QED BY <2>1, DocumentsAssumption
  <1>5. Missing \notin Meetings \cup Reports
    BY DocumentsAssumption DEF Files
  <1>6. Missing \notin Ids
    BY DocumentsAssumption
  <1> QED BY <1>1, <1>2, <1>3, <1>4, <1>5, <1>6

LEMMA WritersAre ==
  ASSUME NEW r \in Requests, NEW x
  PROVE  /\ r \in Writers(x) <=>
              /\ req[r].about = x
              /\ req[r].op = "rename" \/ req[r].at \in {"lock", "scan", "make", "open", "fill"}
         /\ (r \in Writers(x))' <=>
              /\ req'[r].about = x
              /\ req'[r].op = "rename" \/ req'[r].at \in {"lock", "scan", "make", "open", "fill"}
  BY DEF Writers

\* The writers of x do not change.
SameWriters(x) ==
  \A o \in Requests : o \in Writers(x) \/ (o \in Writers(x))' => req'[o] = req[o]

LEMMA SameWritersAre ==
  ASSUME NEW x, SameWriters(x)
  PROVE  Writers(x)' = Writers(x)
  BY WritersAre DEF SameWriters, Writers

LEMMA NameFrame ==
  ASSUME NEW m \in Meetings, NameRight(m), SameWriters(m), named'[m] = named[m],
         disk'[m] = disk[m], m \in spoiled => m \in spoiled'
  PROVE  NameRight(m)'
  <1>1. Writers(m)' = Writers(m)
    BY SameWritersAre
  <1>2. \A o \in Writers(m) : req'[o] = req[o]
    BY DEF SameWriters, Writers
  <1>3. Kept(m)' <=> Kept(m)
    BY DEF Kept, Whole
  <1>4. Whole(m)' <=> Whole(m)
    BY DEF Whole
  <1>5. \A o \in Writers(m) : Ahead(o)' = Ahead(o)
    BY <1>2 DEF Ahead
  <1> QED BY <1>1, <1>2, <1>3, <1>4, <1>5 DEF NameRight

LEMMA ArtifactFrame ==
  ASSUME NEW id \in Ids, ArtifactRight(id), SameWriters(id),
         \A p \in Parts : disk'[<<id, p>>] = disk[<<id, p>>],
         id \in spoiled => id \in spoiled'
  PROVE  ArtifactRight(id)'
  <1>1. Writers(id)' = Writers(id)
    BY SameWritersAre
  <1>2. \A o \in Writers(id) : req'[o] = req[o] /\ req[o].about = id
    BY DEF SameWriters, Writers
  <1>3. disk'[<<id, "json">>] = disk[<<id, "json">>] /\ disk'[<<id, "txt">>] = disk[<<id, "txt">>]
    BY DEF Parts
  <1>4. \A p \in Parts : Whole(<<id, p>>)' <=> Whole(<<id, p>>)
    BY DEF Whole
  <1>5. Served(id)' <=> Served(id)
    BY <1>3, <1>4 DEF Served, Parts
  <1>6. \A o \in Writers(id) : /\ Ahead(o)' = Ahead(o) /\ (Pending(o)' <=> Pending(o))
                               /\ (LeftBehind(o)' <=> LeftBehind(o))
    BY <1>2, <1>3 DEF Ahead, Pending, LeftBehind
  <1> QED BY <1>1, <1>2, <1>4, <1>5, <1>6 DEF ArtifactRight, Parts

\* No request that has to do with the numbers changes, and no entry.
SameEntries ==
  /\ lock' = lock /\ disk'[Counter] = disk[Counter]
  /\ \A m \in Meetings : disk'[m] = disk[m]
  /\ \A o \in Requests :
       \/ req'[o] = req[o]
       \/ /\ req[o].at # "scan" /\ req'[o].at # "scan"
          /\ ~(Lists(o) /\ Pending(o)) /\ ~(Lists(o) /\ Pending(o))'

LEMMA NumbersFrame ==
  ASSUME LockRight, SameEntries
  PROVE  LockRight' /\ (NumbersRight => NumbersRight')
  <1>1. \A o \in Requests : TakesNumber(o)' <=> TakesNumber(o)
    BY DEF SameEntries, TakesNumber, Lists, Pending, Ahead
  <1>2. Whole(Counter)' <=> Whole(Counter)
    BY DEF SameEntries, Whole
  <1>3. \A o \in lock : o \in Requests /\ req'[o] = req[o]
    BY DEF SameEntries, LockRight, TakesNumber
  <1>4. LockRight'
    BY <1>1, <1>2, <1>3 DEF SameEntries, LockRight
  <1>5. \A m \in Meetings : \A i : Claims(m, i)' <=> Claims(m, i)
    BY DEF SameEntries, Claims, Whole, Lists, Pending, Number, Last
  <1>6. NoneTaken' <=> NoneTaken
    BY <1>2, <1>3 DEF NoneTaken, SameEntries
  <1>7. \A o \in lock : (Pending(o)' <=> Pending(o)) /\ Number(o)' = Number(o)
    BY <1>3 DEF Pending, Number, Last
  <1>8. \A o \in Requests : /\ req'[o].at = "scan" <=> req[o].at = "scan"
                            /\ req[o].at = "scan" => req'[o] = req[o]
    BY DEF SameEntries
  <1>9. lock' = lock /\ disk'[Counter] = disk[Counter]
    BY DEF SameEntries
  <1> QED BY <1>2, <1>4, <1>5, <1>6, <1>7, <1>8, <1>9 DEF NumbersRight

-----------------------------------------------------------------------------
(* What a step does to a request. *)

Fields(r) == <<req[r].op, req[r].about, req[r].name, req[r].force, req[r].of>>

OnlyThis(r) == req' \in [Requests -> ReqType] /\ \A o \in Requests \ {r} : req'[o] = req[o]

LEMMA IdleIsTyped ==
  /\ Idle \in ReqType /\ Idle.at = "idle" /\ Idle.op = "none" /\ Idle.about = Missing
  /\ Idle.writes = <<>>
  <1>1. <<>> \in Seq(Files \X Contents)
    OBVIOUS
  <1>2. 0 \in Nat /\ {} \in SUBSET Meetings /\ 0 \in 0..Versions
    BY DocumentsAssumption
  <1> QED BY <1>1, <1>2 DEF Idle, ReqType

LEMMA AnswerEffect ==
  ASSUME Typed, NEW r \in Requests, Answer(r)
  PROVE  OnlyThis(r) /\ req'[r] = Idle
  BY IdleIsTyped DEF Typed, Answer, OnlyThis

LEMMA WriteEffect ==
  ASSUME Typed, NEW r \in Requests, NEW w \in Seq(Files \X Contents), Write(r, w)
  PROVE  /\ OnlyThis(r) /\ req'[r].at = "open" /\ req'[r].writes = w
         /\ Fields(r)' = Fields(r) /\ req'[r].over = req[r].over
  <1>1. req[r] \in ReqType /\ req \in [Requests -> ReqType]
    BY DEF Typed
  <1>2. req' = [req EXCEPT ![r] = [req[r] EXCEPT !.at = "open", !.writes = w]]
    BY <1>1 DEF Write
  <1>3. [req[r] EXCEPT !.at = "open", !.writes = w] \in ReqType
    BY <1>1 DEF ReqType
  <1>4. req'[r] = [req[r] EXCEPT !.at = "open", !.writes = w]
    BY <1>1, <1>2
  <1>5. /\ req'[r].at = "open" /\ req'[r].writes = w
        /\ req'[r].op = req[r].op /\ req'[r].about = req[r].about /\ req'[r].name = req[r].name
        /\ req'[r].force = req[r].force /\ req'[r].of = req[r].of /\ req'[r].over = req[r].over
    BY <1>1, <1>4 DEF ReqType
  <1> QED BY <1>1, <1>2, <1>3, <1>5 DEF OnlyThis, Fields

\* The request goes elsewhere.
LEMMA GoesEffect ==
  ASSUME Typed, NEW r \in Requests, NEW at \in {"lock", "make", "fill"},
         req' = [req EXCEPT ![r].at = at]
  PROVE  /\ OnlyThis(r) /\ req'[r].at = at /\ req'[r].writes = req[r].writes
         /\ Fields(r)' = Fields(r) /\ req'[r].over = req[r].over
  <1>1. req[r] \in ReqType /\ req \in [Requests -> ReqType]
    BY DEF Typed
  <1>2. req'[r] = [req[r] EXCEPT !.at = at] /\ [req[r] EXCEPT !.at = at] \in ReqType
    BY <1>1 DEF ReqType
  <1>3. /\ req'[r].at = at /\ req'[r].writes = req[r].writes
        /\ req'[r].op = req[r].op /\ req'[r].about = req[r].about /\ req'[r].name = req[r].name
        /\ req'[r].force = req[r].force /\ req'[r].of = req[r].of /\ req'[r].over = req[r].over
    BY <1>1, <1>2 DEF ReqType
  <1> QED BY <1>1, <1>2, <1>3 DEF OnlyThis, Fields

\* The work of the others is what it was.
LEMMA OthersKnowTheirWork ==
  ASSUME Typed, NEW r \in Requests, OnlyThis(r), NEW o \in Requests \ {r}
  PROVE  KnowsItsWork(o)' /\ WritesWhatItShould(o)'
  <1>1. req'[o] = req[o] /\ KnowsItsWork(o) /\ WritesWhatItShould(o)
    BY DEF Typed, OnlyThis
  <1>2. KnowsItsWork(o)'
    BY <1>1 DEF KnowsItsWork, Lists, Pending
  <1>3. Last(o)' = Last(o) /\ Number(o)' = Number(o)
    BY <1>1 DEF Last, Number
  <1>4. /\ WritesEntry(o)' <=> WritesEntry(o)
        /\ WritesReport(o)' <=> WritesReport(o)
        /\ WritesArtifact(o)' <=> WritesArtifact(o)
    BY <1>1, <1>3 DEF WritesEntry, WritesReport, WritesArtifact
  <1> QED BY <1>1, <1>2, <1>4 DEF WritesWhatItShould, Lists, Pending

LEMMA TypedFrame ==
  ASSUME Typed, NEW r \in Requests, OnlyThis(r), FilesTyped', version' = version,
         named' \in [Meetings -> Names \cup {"default"}],
         KnowsItsWork(r)', WritesWhatItShould(r)'
  PROVE  Typed'
  BY OthersKnowTheirWork DEF Typed, OnlyThis

LEMMA SameFilesTyped == FilesTyped /\ disk' = disk => FilesTyped'
  BY DEF FilesTyped, Whole

\* A request for a report or an artifact changes no entry, and none that is for
\* an entry changes an artifact.
LEMMA OfDocuments ==
  ASSUME DInv, NEW r \in Requests, OnlyThis(r), ~Lists(r), ~Lists(r)',
         KnowsItsWork(r)', named' = named, lock' = lock, spoiled \subseteq spoiled',
         disk'[Counter] = disk[Counter], \A m \in Meetings : disk'[m] = disk[m]
  PROVE  /\ LockRight' /\ (Counter \notin spoiled' => NumbersRight')
         /\ \A m \in Meetings : NameRight(m)'
  <1>1. KnowsItsWork(r) /\ req'[r].at # "scan" /\ req[r].at # "scan"
    BY DEF DInv, Typed, KnowsItsWork, Lists, OnlyThis, ReqType
  <1>2. SameEntries
    BY <1>1 DEF SameEntries, OnlyThis
  <1>3. req[r].about \notin Meetings /\ req'[r].about \notin Meetings
    <2>1. req[r] \in ReqType /\ req'[r] \in ReqType
      BY DEF DInv, Typed, OnlyThis
    <2>2. req[r].about \in {Missing, ReportFile} \cup Ids
      BY <1>1, <2>1, IdleIsTyped DEF KnowsItsWork, Lists, ReqType
    <2>3. req'[r].about \in {Missing, ReportFile} \cup Ids
      BY <2>1, IdleIsTyped DEF KnowsItsWork, Lists, ReqType
    <2> QED BY <2>2, <2>3, FilesDiffer DEF Reports
  <1>4. \A m \in Meetings : SameWriters(m)
    BY <1>3, WritersAre DEF SameWriters, OnlyThis
  <1>5. \A m \in Meetings : NameRight(m)'
    BY <1>4, NameFrame DEF DInv
  <1> QED BY <1>2, <1>5, NumbersFrame DEF DInv

LEMMA OfEntries ==
  ASSUME DInv, NEW r \in Requests, OnlyThis(r), req[r].op # "artifact", req'[r].op # "artifact",
         KnowsItsWork(r)', spoiled \subseteq spoiled',
         \A id \in Ids, p \in Parts : disk'[<<id, p>>] = disk[<<id, p>>]
  PROVE  \A id \in Ids : ArtifactRight(id)'
  <1>1. req[r].about \notin Ids /\ req'[r].about \notin Ids
    <2>1. req[r] \in ReqType /\ req'[r] \in ReqType /\ KnowsItsWork(r)
      BY DEF DInv, Typed, OnlyThis
    <2>2. req[r].about \in {Missing, ReportFile} \cup Meetings
      BY <2>1, IdleIsTyped DEF KnowsItsWork, Lists, ReqType
    <2>3. req'[r].about \in {Missing, ReportFile} \cup Meetings
      BY <2>1, IdleIsTyped DEF KnowsItsWork, Lists, ReqType
    <2> QED BY <2>2, <2>3, FilesDiffer DEF Reports
  <1>2. \A id \in Ids : SameWriters(id)
    BY <1>1, WritersAre DEF SameWriters, OnlyThis
  <1> QED BY <1>2, ArtifactFrame DEF DInv

-----------------------------------------------------------------------------
(* Requests come in. *)

\* What a new request may be.
Asked(new) ==
  \/ /\ new.op \in {"show", "rename"} /\ new.at = "look" /\ new.about \in Meetings
     /\ new.op = "show" => new.name = "default"
     /\ new.op = "rename" => new.name \in Names
  \/ /\ new.op \in {"report", "download"} /\ new.at = "make" /\ new.about = ReportFile
     /\ new.op = "report" => new.of \in 1..Versions
  \/ /\ new.op = "artifact" /\ new.at = "cached" /\ new.about \in Ids
     /\ new.of = new.about[2]

LEMMA AskKeeps ==
  ASSUME DInv, NEW r \in Requests, NEW new \in ReqType, Asked(new), Ask(r, new)
  PROVE  DInv'
  <1>1. /\ req' = [req EXCEPT ![r] = new] /\ req[r].at = "idle"
        /\ spoiled' = IF new.op = "rename" /\ Writers(new.about) # {}
                        THEN spoiled \cup {new.about} ELSE spoiled
        /\ UNCHANGED <<disk, version, lock, named>>
    BY DEF Ask
  <1>2. req[r] = Idle /\ Typed /\ LockRight /\ req[r].at = "idle" /\ req[r].op = "none"
    BY <1>1, IdleIsTyped DEF DInv, Typed, KnowsItsWork
  <1>3. OnlyThis(r) /\ req'[r] = new
    BY <1>1, <1>2 DEF OnlyThis, Typed
  <1>4. KnowsItsWork(r)' /\ WritesWhatItShould(r)'
    BY <1>3 DEF Asked, KnowsItsWork, WritesWhatItShould, Lists, Pending
  <1>5. Typed'
    BY <1>1, <1>2, <1>3, <1>4, TypedFrame, SameFilesTyped DEF Typed
  <1>6. SameEntries
    BY <1>1, <1>2, <1>3 DEF SameEntries, OnlyThis, Asked, Lists, Pending
  <1>7. LockRight' /\ (Counter \notin spoiled' => NumbersRight')
    BY <1>1, <1>2, <1>6, NumbersFrame DEF DInv
  <1>8. \A x : r \notin Writers(x)
    BY <1>2, WritersAre
  <1>9. ASSUME NEW id \in Ids
        PROVE  ArtifactRight(id)'
    <2>1. ~(r \in Writers(id))'
      BY <1>3, WritersAre, FilesDiffer DEF Asked, Reports
    <2>2. SameWriters(id)
      BY <1>3, <1>8, <2>1 DEF SameWriters, OnlyThis
    <2> QED BY <1>1, <2>2, ArtifactFrame DEF DInv
  <1>10. ASSUME NEW m \in Meetings
         PROVE  NameRight(m)'
    <2>1. CASE new.op # "rename" \/ new.about # m
      <3>1. ~(r \in Writers(m))'
        BY <1>3, <2>1, WritersAre, FilesDiffer DEF Asked, Reports
      <3>2. SameWriters(m)
        BY <1>3, <1>8, <3>1 DEF SameWriters, OnlyThis
      <3> QED BY <1>1, <3>2, NameFrame DEF DInv
    <2>2. CASE new.op = "rename" /\ new.about = m
      <3> SUFFICES ASSUME m \notin spoiled'
                   PROVE  NameRight(m)'
        BY DEF NameRight
      <3>1. m \notin spoiled /\ Writers(m) = {}
        BY <1>1, <2>2
      <3>2. \A o \in Writers(m)' : o = r
        BY <1>3, <3>1, WritersAre DEF OnlyThis, Writers
      <3>3. Kept(m)'
        BY <1>1, <3>1 DEF DInv, NameRight, Kept, Whole
      <3>4. req'[r].at = "look" /\ req'[r].op = "rename"
        BY <1>3, <2>2 DEF Asked
      <3> QED BY <3>2, <3>3, <3>4 DEF NameRight
    <2> QED BY <2>1, <2>2
  <1> QED BY <1>5, <1>7, <1>9, <1>10 DEF DInv

LEMMA AsksKeep ==
  ASSUME DInv, NEW r \in Requests, Asks(r)
  PROVE  DInv'
  <1>1. Idle \in ReqType /\ version \in 1..Versions /\ version \in 0..Versions
    BY IdleIsTyped, DocumentsAssumption DEF DInv, Typed
  <1>3. CASE AskShow(r)
    <2>1. PICK m \in Meetings :
            Ask(r, [Idle EXCEPT !.at = "look", !.op = "show", !.about = m])
      BY <1>3 DEF AskShow
    <2> DEFINE new == [Idle EXCEPT !.at = "look", !.op = "show", !.about = m]
    <2>2. new \in ReqType /\ Asked(new)
      BY <1>1 DEF Idle, ReqType, Asked
    <2> QED BY <2>1, <2>2, AskKeeps
  <1>4. CASE AskRename(r)
    <2>1. PICK m \in Meetings, n \in Names :
            Ask(r, [Idle EXCEPT !.at = "look", !.op = "rename", !.about = m, !.name = n])
      BY <1>4 DEF AskRename
    <2> DEFINE new == [Idle EXCEPT !.at = "look", !.op = "rename", !.about = m, !.name = n]
    <2>2. new \in ReqType /\ Asked(new)
      BY <1>1 DEF Idle, ReqType, Asked
    <2> QED BY <2>1, <2>2, AskKeeps
  <1>5. CASE AskReport(r)
    <2> DEFINE new == [Idle EXCEPT !.at = "make", !.op = "report", !.about = ReportFile,
                                   !.of = version]
    <2>1. new \in ReqType /\ Asked(new)
      BY <1>1 DEF Idle, ReqType, Asked
    <2> QED BY <1>5, <2>1, AskKeeps DEF AskReport
  <1>6. CASE AskArtifact(r)
    <2>1. PICK k \in Kinds, force \in BOOLEAN :
            Ask(r, [Idle EXCEPT !.at = "cached", !.op = "artifact", !.force = force,
                                !.about = <<k, version>>, !.of = version])
      BY <1>6 DEF AskArtifact
    <2> DEFINE new == [Idle EXCEPT !.at = "cached", !.op = "artifact", !.force = force,
                                   !.about = <<k, version>>, !.of = version]
    <2>2. <<k, version>> \in Ids
      BY <1>1 DEF Ids
    <2>3. new \in ReqType /\ Asked(new)
      BY <1>1, <2>2 DEF Idle, ReqType, Asked
    <2> QED BY <2>1, <2>3, AskKeeps
  <1>7. CASE AskDownload(r)
    <2> DEFINE new == [Idle EXCEPT !.at = "make", !.op = "download", !.about = ReportFile]
    <2>1. new \in ReqType /\ Asked(new)
      BY <1>1 DEF Idle, ReqType, Asked
    <2> QED BY <1>7, <2>1, AskKeeps DEF AskDownload
  <1> QED BY <1>3, <1>4, <1>5, <1>6, <1>7 DEF Asks

LEMMA RebuildKeeps ==
  ASSUME DInv, Rebuild
  PROVE  DInv'
  <1>1. UNCHANGED <<disk, lock, req, named, spoiled>>
    BY DEF Rebuild
  <1>2. version' \in 1..Versions
    BY DocumentsAssumption DEF Rebuild, DInv, Typed
  <1>3. \A r \in Requests : KnowsItsWork(r)' /\ WritesWhatItShould(r)'
    BY <1>1 DEF DInv, Typed, KnowsItsWork, WritesWhatItShould, WritesEntry, WritesReport,
                WritesArtifact, Lists, Pending, Number, Last
  <1>4. Typed'
    BY <1>1, <1>2, <1>3, SameFilesTyped DEF DInv, Typed
  <1>5. SameEntries
    BY <1>1 DEF SameEntries
  <1>6. LockRight' /\ (Counter \notin spoiled' => NumbersRight')
    BY <1>1, <1>5, NumbersFrame DEF DInv
  <1>7. \A x : SameWriters(x)
    BY <1>1 DEF SameWriters
  <1>8. (\A m \in Meetings : NameRight(m)') /\ (\A id \in Ids : ArtifactRight(id)')
    BY <1>1, <1>7, NameFrame, ArtifactFrame DEF DInv
  <1> QED BY <1>4, <1>6, <1>8 DEF DInv

-----------------------------------------------------------------------------
(* What is to be written for reports and artifacts. *)

LEMMA ReportIs ==
  ASSUME NEW v \in 1..Versions
  PROVE  /\ Report(v) \in Seq(Files \X Contents) /\ Len(Report(v)) = 2
         /\ \A k \in 1..2 : Report(v)[k][1] \in Reports /\ Report(v)[k][2] \in Texts
  <1>1. Says(v, Missing) \in Texts
    BY DEF Says, Texts
  <1>2. Says(v, Missing) \in Contents
    BY <1>1 DEF Contents
  <1>3. <<ReportFile, Says(v, Missing)>> \in Files \X Contents
        /\ <<ReportText, Says(v, Missing)>> \in Files \X Contents
    BY <1>2, FilesDiffer
  <1> QED BY <1>1, <1>3 DEF Report, Reports

LEMMA PlanIs ==
  ASSUME NEW id \in Ids, NEW says \in Texts
  PROVE  /\ Plan(id, says) \in Seq(Files \X Contents) /\ Len(Plan(id, says)) = 3
         /\ Plan(id, says)[1] = <<<<id, "json">>, says>>
         /\ Plan(id, says)[2] = <<<<id, "txt">>, says>>
         /\ Plan(id, says)[3] = <<<<id, "meta">>, "ok">>
  <1>1. says \in Contents /\ "ok" \in Contents
    BY DEF Contents
  <1>2. <<id, "json">> \in Files /\ <<id, "txt">> \in Files /\ <<id, "meta">> \in Files
    BY FilesDiffer DEF Parts
  <1>3. /\ <<<<id, "json">>, says>> \in Files \X Contents
        /\ <<<<id, "txt">>, says>> \in Files \X Contents
        /\ <<<<id, "meta">>, "ok">> \in Files \X Contents
    BY <1>1, <1>2
  <1> QED BY <1>3 DEF Plan

\* What an artifact's plan is, with the report before it or not.
PlanOf(w, id) ==
  LET n == Len(w) IN
  /\ n = 3 \/ n = 5
  /\ w[n] = <<<<id, "meta">>, "ok">>
  /\ w[n - 1][1] = <<id, "txt">> /\ w[n - 1][2] \in Texts
  /\ id[1] # "brief" => w[n - 1][2].of = id[2]
  /\ w[n - 2] = <<<<id, "json">>, w[n - 1][2]>>
  /\ \A k \in 1..(n - 3) : w[k][1] \in Reports /\ w[k][2] \in Texts

LEMMA PlanIsLong ==
  ASSUME NEW w, NEW id, PlanOf(w, id)
  PROVE  Len(w) # 1 /\ Len(w) # 2
  <1>1. Len(w) = 3 \/ Len(w) = 5
    BY DEF PlanOf
  <1> QED BY <1>1

LEMMA PlansAre ==
  ASSUME NEW id \in Ids, NEW says \in Texts, id[1] # "brief" => says.of = id[2],
         NEW v \in 1..Versions
  PROVE  /\ Plan(id, says) \in Seq(Files \X Contents) /\ PlanOf(Plan(id, says), id)
         /\ Report(v) \o Plan(id, says) \in Seq(Files \X Contents)
         /\ PlanOf(Report(v) \o Plan(id, says), id)
  <1> DEFINE p == Plan(id, says)
             q == Report(v)
  <1>1. /\ p \in Seq(Files \X Contents) /\ Len(p) = 3
        /\ p[1] = <<<<id, "json">>, says>> /\ p[2] = <<<<id, "txt">>, says>>
        /\ p[3] = <<<<id, "meta">>, "ok">>
    BY PlanIs
  <1>2. /\ q \in Seq(Files \X Contents) /\ Len(q) = 2
        /\ \A k \in 1..2 : q[k][1] \in Reports /\ q[k][2] \in Texts
    BY ReportIs
  <1> HIDE DEF p, q
  <1>3. PlanOf(p, id)
    <2>1. p[2][1] = <<id, "txt">> /\ p[2][2] = says
      BY <1>1
    <2> QED BY <1>1, <2>1 DEF PlanOf
  <1> DEFINE w == q \o p
  <1>4. /\ w \in Seq(Files \X Contents) /\ Len(w) = 5
        /\ w[1] = q[1] /\ w[2] = q[2] /\ w[3] = p[1] /\ w[4] = p[2] /\ w[5] = p[3]
    <2>1. /\ w \in Seq(Files \X Contents) /\ Len(w) = 2 + 3
          /\ \A i \in 1..(2 + 3) : w[i] = IF i <= 2 THEN q[i] ELSE p[i - 2]
      <3> DEFINE S == Files \X Contents
      <3>1. p \in Seq(S) /\ q \in Seq(S)
        BY <1>1, <1>2
      <3> HIDE DEF S, w
      <3>2. /\ q \o p \in Seq(S) /\ Len(q \o p) = Len(q) + Len(p)
            /\ \A i \in 1..Len(q) + Len(p) :
                 (q \o p)[i] = IF i <= Len(q) THEN q[i] ELSE p[i - Len(q)]
        BY <3>1, ConcatProperties
      <3> QED BY <1>1, <1>2, <3>2 DEF S, w
    <2> HIDE DEF w
    <2>2. w[1] = q[1] /\ w[2] = q[2]
      BY <2>1
    <2>3. w[3] = p[3 - 2] /\ w[4] = p[4 - 2] /\ w[5] = p[5 - 2]
      BY <2>1
    <2> QED BY <2>1, <2>2, <2>3
  <1> HIDE DEF w
  <1>5. PlanOf(w, id)
    <2>1. w[4][1] = <<id, "txt">> /\ w[4][2] = says
      BY <1>1, <1>4
    <2>2. \A k \in 1..2 : w[k][1] \in Reports /\ w[k][2] \in Texts
      BY <1>2, <1>4
    <2> QED BY <1>1, <1>4, <2>1, <2>2 DEF PlanOf
  <1> QED BY <1>1, <1>3, <1>4, <1>5 DEF p, q, w

-----------------------------------------------------------------------------
(* Requests for reports and artifacts, up to writing. *)

LEMMA DocumentStep ==
  ASSUME DInv, NEW r \in Requests, OnlyThis(r), ~Lists(r), ~Lists(r)',
         KnowsItsWork(r)', WritesWhatItShould(r)', UNCHANGED <<disk, version, lock, named>>,
         spoiled \subseteq spoiled', req'[r].about \in {req[r].about, Missing},
         \A id \in Ids : req[r].op = "artifact" /\ req[r].about = id => ArtifactRight(id)'
  PROVE  DInv'
  <1>1. Typed'
    BY TypedFrame, SameFilesTyped DEF DInv, Typed
  <1>2. /\ LockRight' /\ (Counter \notin spoiled' => NumbersRight')
        /\ \A m \in Meetings : NameRight(m)'
    BY OfDocuments
  <1>3. ASSUME NEW id \in Ids
        PROVE  ArtifactRight(id)'
    <2>1. CASE req[r].about = id
      <3>1. req[r].op = "artifact"
        BY <2>1, FilesDiffer, IdleIsTyped
        DEF DInv, Typed, KnowsItsWork, Lists, ReqType, Reports
      <3> QED BY <2>1, <3>1
    <2>2. CASE req[r].about # id
      <3>1. req'[r].about # id
        BY <2>2, FilesDiffer
      <3>2. SameWriters(id)
        BY <2>2, <3>1, WritersAre DEF SameWriters, OnlyThis
      <3> QED BY <3>2, ArtifactFrame DEF DInv
    <2> QED BY <2>1, <2>2
  <1> QED BY <1>1, <1>2, <1>3 DEF DInv

LEMMA IdleKnowsItsWork ==
  ASSUME NEW r \in Requests, req'[r] = Idle
  PROVE  /\ KnowsItsWork(r)' /\ WritesWhatItShould(r)' /\ ~Lists(r)' /\ req'[r].about = Missing
         /\ \A x \in Meetings \cup Ids : ~(r \in Writers(x))'
  <1>1. /\ req'[r].at = "idle" /\ req'[r].op = "none" /\ req'[r].about = Missing
    BY IdleIsTyped
  <1>2. \A x \in Meetings \cup Ids : x # Missing
    BY FilesDiffer
  <1> QED BY <1>1, <1>2, WritersAre DEF KnowsItsWork, WritesWhatItShould, Lists, Pending

\* A request ends before it has something to write, or starts to write its plan.
LEMMA PlanKeeps ==
  ASSUME DInv, NEW r \in Requests, req[r].at = "make", req[r].op = "artifact",
         UNCHANGED <<disk, version, lock, named, spoiled>>,
         Answer(r) \/ \E w \in Seq(Files \X Contents) :
                        PlanOf(w, req[r].about) /\ Write(r, w)
  PROVE  DInv'
  <1>1. Typed /\ KnowsItsWork(r) /\ ~Lists(r)
    BY DEF DInv, Typed, KnowsItsWork, Lists
  <1> PICK id \in Ids : req[r].about = id
    BY <1>1 DEF KnowsItsWork
  <1>2. ArtifactRight(id) /\ r \in Writers(id)
    BY WritersAre DEF DInv
  <1>3. CASE Answer(r)
    <2>1. OnlyThis(r) /\ req'[r] = Idle
      BY <1>1, <1>3, AnswerEffect
    <2>2. ArtifactRight(id)'
      <3> SUFFICES ASSUME id \notin spoiled
                   PROVE  ArtifactRight(id)'
        BY DEF ArtifactRight
      <3>1. Writers(id) = {r}
        BY <1>2 DEF ArtifactRight
      <3>2. (Writers(id))' = {}
        BY <1>1, <2>1, <3>1, IdleKnowsItsWork, WritersAre DEF OnlyThis, Writers
      <3>3. Served(id)'
        BY <1>2, <3>1 DEF ArtifactRight, Served, Whole
      <3> QED BY <3>2, <3>3 DEF ArtifactRight
    <2> QED BY <1>1, <2>1, <2>2, IdleKnowsItsWork, DocumentStep
  <1>4. ASSUME NEW w \in Seq(Files \X Contents), PlanOf(w, req[r].about), Write(r, w)
        PROVE  DInv'
    <2>1. /\ OnlyThis(r) /\ req'[r].at = "open" /\ req'[r].writes = w
          /\ Fields(r)' = Fields(r) /\ req'[r].over = req[r].over
      BY <1>1, <1>4, WriteEffect
    <2>2. /\ req'[r].op = "artifact" /\ req'[r].about = req[r].about /\ req'[r].of = req[r].of
          /\ req'[r].name = req[r].name
      BY <2>1 DEF Fields
    <2>3. (Len(w) = 3 \/ Len(w) = 5) /\ w # <<>>
      BY <1>4 DEF PlanOf
    <2>4. KnowsItsWork(r)' /\ ~Lists(r)'
      BY <1>1, <2>1, <2>2, <2>3 DEF KnowsItsWork, Lists, Pending
    <2>5. WritesWhatItShould(r)'
      BY <1>4, <2>1, <2>2, <2>3 DEF WritesWhatItShould, WritesArtifact, PlanOf, Lists
    <2>6. ArtifactRight(id)'
      <3> SUFFICES ASSUME id \notin spoiled
                   PROVE  ArtifactRight(id)'
        BY DEF ArtifactRight
      <3>1. Writers(id) = {r}
        BY <1>2 DEF ArtifactRight
      <3>2. (Writers(id))' = {r}
        BY <1>1, <2>1, <2>2, <3>1, WritersAre DEF OnlyThis, Writers
      <3>3. LeftBehind(r)'
        <4>1. req'[r].writes = w
          BY <2>1
        <4>2. Len(w) # 1 /\ Len(w) # 2
          BY <1>4, PlanIsLong
        <4> QED BY <4>1, <4>2 DEF LeftBehind
      <3> QED BY <1>2, <2>1, <3>1, <3>2, <3>3 DEF ArtifactRight, Whole
    <2> QED BY <1>1, <2>1, <2>2, <2>4, <2>5, <2>6, DocumentStep
  <1> QED BY <1>3, <1>4

LEMMA MakeKeeps ==
  ASSUME DInv, NEW r \in Requests, Make(r) \/ MakeBrief(r)
  PROVE  DInv'
  <1>1. /\ req[r].at = "make" /\ req[r].op = "artifact"
        /\ UNCHANGED <<disk, version, lock, named, spoiled>>
    BY DEF Make, MakeBrief
  <1>2. /\ version \in 1..Versions /\ KnowsItsWork(r) /\ req[r] \in ReqType
        /\ Whole(ReportFile) => disk[ReportFile] \in Texts
    BY DEF DInv, Typed, FilesTyped, Reports
  <1> PICK id \in Ids : req[r].about = id
    BY <1>1, <1>2 DEF KnowsItsWork
  <1>3. id[2] \in 1..Versions /\ req[r].of = id[2]
    BY <1>1, <1>2 DEF Ids, KnowsItsWork
  <1>4. ASSUME NEW says \in Texts, id[1] # "brief" => says.of = id[2],
               Write(r, Plan(id, says)) \/ Write(r, Report(version) \o Plan(id, says))
        PROVE  DInv'
    BY <1>1, <1>2, <1>4, PlansAre, PlanKeeps
  <1>5. CASE Answer(r)
    BY <1>1, <1>5, PlanKeeps
  <1>6. CASE Make(r) /\ ~Answer(r)
    <2> DEFINE says == Says(req[r].of, IF id[1] = "custom" THEN r ELSE Missing)
    <2>1. says \in Texts /\ says.of = id[2]
      BY <1>3 DEF Says, Texts
    <2>2. Write(r, Plan(id, says)) \/ Write(r, Report(version) \o Plan(id, says))
      BY <1>6 DEF Make
    <2> HIDE DEF says
    <2> QED BY <1>4, <2>1, <2>2
  <1>7. CASE MakeBrief(r) /\ ~Answer(r)
    <2>0. id[1] = "brief"
      BY <1>7 DEF MakeBrief
    <2>1. CASE /\ disk[ReportFile] \notin {Missing, Torn}
               /\ Write(r, Plan(id, disk[ReportFile]))
      <3>1. disk[ReportFile] \in Texts
        BY <1>2, <2>1 DEF Whole
      <3> QED BY <1>4, <2>0, <2>1, <3>1
    <2>2. CASE Write(r, Report(version) \o Plan(id, Says(version, Missing)))
      <3>1. Says(version, Missing) \in Texts
        BY <1>2 DEF Says, Texts
      <3> QED BY <1>4, <2>0, <2>2, <3>1
    <2> QED BY <1>7, <2>1, <2>2 DEF MakeBrief
  <1> QED BY <1>5, <1>6, <1>7

LEMMA MakeReportKeeps ==
  ASSUME DInv, NEW r \in Requests, MakeReport(r)
  PROVE  DInv'
  <1>1. /\ req[r].at = "make" /\ req[r].op \in {"report", "download"} /\ ~Lists(r)
        /\ UNCHANGED <<disk, version, lock, named, spoiled>>
    BY DEF MakeReport, Lists
  <1>2. /\ Typed /\ KnowsItsWork(r) /\ FilesTyped
    BY DEF DInv, Typed
  <1>3. CASE Answer(r)
    <2>1. OnlyThis(r) /\ req'[r] = Idle
      BY <1>2, <1>3, AnswerEffect
    <2> QED BY <1>1, <2>1, IdleKnowsItsWork, DocumentStep
  <1>4. ASSUME NEW w \in Seq(Files \X Contents), Write(r, w), w # <<>>,
               \A k \in 1..Len(w) : w[k][1] \in Reports /\ w[k][2] \in Texts
        PROVE  DInv'
    <2>1. /\ OnlyThis(r) /\ req'[r].at = "open" /\ req'[r].writes = w
          /\ Fields(r)' = Fields(r)
      BY <1>2, <1>4, WriteEffect
    <2>2. /\ req'[r].op = req[r].op /\ req'[r].about = req[r].about /\ req'[r].of = req[r].of
          /\ req'[r].name = req[r].name
      BY <2>1 DEF Fields
    <2>3. KnowsItsWork(r)' /\ ~Lists(r)'
      BY <1>1, <1>2, <1>4, <2>1, <2>2 DEF KnowsItsWork, Lists, Pending
    <2>4. WritesWhatItShould(r)'
      BY <1>1, <1>4, <2>1, <2>2 DEF WritesWhatItShould, WritesReport, Lists
    <2> QED BY <1>1, <2>1, <2>2, <2>3, <2>4, DocumentStep
  <1>5. CASE req[r].op = "report" /\ Write(r, Report(req[r].of))
    <2>1. req[r].of \in 1..Versions
      BY <1>2, <1>5 DEF KnowsItsWork
    <2> DEFINE w == Report(req[r].of)
    <2>2. /\ w \in Seq(Files \X Contents) /\ Len(w) = 2
          /\ \A k \in 1..2 : w[k][1] \in Reports /\ w[k][2] \in Texts
      BY <2>1, ReportIs
    <2>3. w # <<>>
      BY DEF Report
    <2>4. Write(r, w)
      BY <1>5
    <2> HIDE DEF w
    <2> QED BY <1>4, <2>2, <2>3, <2>4
  <1>6. CASE Whole(ReportFile) /\ Write(r, <<<<ReportText, disk[ReportFile]>>>>)
    <2> DEFINE w == <<<<ReportText, disk[ReportFile]>>>>
    <2>1. disk[ReportFile] \in Texts /\ disk[ReportFile] \in Contents
      BY <1>2, <1>6 DEF FilesTyped, Reports, Contents
    <2>2. w \in Seq(Files \X Contents) /\ Len(w) = 1 /\ w # <<>>
          /\ w[1][1] \in Reports /\ w[1][2] \in Texts
      BY <2>1, FilesDiffer DEF Reports
    <2>3. Write(r, w)
      BY <1>6
    <2> HIDE DEF w
    <2> QED BY <1>4, <2>2, <2>3
  <1> QED BY <1>3, <1>5, <1>6 DEF MakeReport

LEMMA CachedKeeps ==
  ASSUME DInv, NEW r \in Requests, Cached(r)
  PROVE  DInv'
  <1>1. req[r].at = "cached" /\ UNCHANGED <<disk, version, lock, named>>
    BY DEF Cached
  <1>2. Typed /\ KnowsItsWork(r) /\ req[r] \in ReqType
    BY DEF DInv, Typed
  <1>3. req[r].op = "artifact" /\ ~Lists(r) /\ req[r].at # "idle"
    BY <1>1, <1>2 DEF KnowsItsWork, Lists, ReqType
  <1> PICK id \in Ids : req[r].about = id
    BY <1>2, <1>3 DEF KnowsItsWork
  <1>4. r \notin Writers(id) /\ ArtifactRight(id)
    BY <1>1, <1>3, WritersAre DEF DInv
  <1>5. CASE Answer(r) /\ UNCHANGED spoiled
    <2>1. OnlyThis(r) /\ req'[r] = Idle
      BY <1>2, <1>5, AnswerEffect
    <2>2. SameWriters(id)
      BY <1>4, <2>1, IdleKnowsItsWork DEF SameWriters, OnlyThis
    <2>3. ArtifactRight(id)'
      BY <1>1, <1>4, <1>5, <2>2, ArtifactFrame
    <2> QED BY <1>1, <1>3, <1>5, <2>1, <2>3, IdleKnowsItsWork, DocumentStep
  <1>6. CASE /\ req' = [req EXCEPT ![r].at = "make", ![r].over = Whole(<<id, "meta">>)]
             /\ spoiled' = IF Writers(id) = {} THEN spoiled ELSE spoiled \cup {id}
    <2>1. /\ OnlyThis(r) /\ req'[r].at = "make" /\ req'[r].op = "artifact"
          /\ req'[r].about = id /\ req'[r].of = req[r].of
          /\ req'[r].over = Whole(<<id, "meta">>)
      <3>1. Whole(<<id, "meta">>) \in BOOLEAN /\ req \in [Requests -> ReqType]
        BY <1>2 DEF Whole, Typed
      <3> DEFINE new == [req[r] EXCEPT !.at = "make", !.over = Whole(<<id, "meta">>)]
      <3>2. new \in ReqType
        BY <1>2, <3>1 DEF ReqType
      <3>3. req' = [req EXCEPT ![r] = new]
        BY <1>2, <1>6, <3>1
      <3>4. /\ new.at = "make" /\ new.op = "artifact" /\ new.about = id /\ new.of = req[r].of
            /\ new.over = Whole(<<id, "meta">>)
        BY <1>2, <1>3, <3>1 DEF ReqType
      <3> HIDE DEF new
      <3> QED BY <3>1, <3>2, <3>3, <3>4 DEF OnlyThis
    <2>2. KnowsItsWork(r)' /\ WritesWhatItShould(r)' /\ ~Lists(r)'
      BY <1>2, <1>3, <2>1 DEF KnowsItsWork, WritesWhatItShould, Lists, Pending
    <2>3. ArtifactRight(id)'
      <3> SUFFICES ASSUME id \notin spoiled'
                   PROVE  ArtifactRight(id)'
        BY DEF ArtifactRight
      <3>1. Writers(id) = {} /\ id \notin spoiled
        BY <1>6
      <3>2. (Writers(id))' = {r}
        BY <2>1, <3>1, WritersAre DEF OnlyThis, Writers
      <3>3. Served(id)'
        BY <1>1, <1>4, <3>1 DEF ArtifactRight, Served, Whole
      <3> QED BY <1>1, <2>1, <3>2, <3>3 DEF ArtifactRight, Whole, Pending
    <2>4. spoiled \subseteq spoiled'
      BY <1>6
    <2> QED BY <1>1, <1>3, <2>1, <2>2, <2>3, <2>4, DocumentStep
  <1> QED BY <1>5, <1>6 DEF Cached

-----------------------------------------------------------------------------
(* Requests for the list of meetings, up to writing. *)

LEMMA ListStep ==
  ASSUME DInv, NEW r \in Requests, NEW m \in Meetings, OnlyThis(r), Lists(r),
         req[r].about = m, req'[r].about \in {m, Missing}, req'[r].op # "artifact",
         KnowsItsWork(r)', WritesWhatItShould(r)', UNCHANGED <<disk, version, named>>,
         spoiled \subseteq spoiled', LockRight', Counter \notin spoiled' => NumbersRight',
         NameRight(m)'
  PROVE  DInv'
  <1>1. Typed'
    BY TypedFrame, SameFilesTyped DEF DInv, Typed
  <1>2. \A id \in Ids : ArtifactRight(id)'
    BY OfEntries DEF Lists
  <1>3. ASSUME NEW n \in Meetings, n # m
        PROVE  NameRight(n)'
    <2>1. req'[r].about # n
      BY <1>3, FilesDiffer
    <2>2. SameWriters(n)
      BY <1>3, <2>1, WritersAre DEF SameWriters, OnlyThis
    <2> QED BY <2>2, NameFrame DEF DInv
  <1> QED BY <1>1, <1>2, <1>3 DEF DInv

\* The entry's number, a name, and what it is made of.
LEMMA EntryIs ==
  ASSUME NEW i \in Nat \ {0}, NEW n \in Names \cup {"default"}, NEW m \in Meetings
  PROVE  /\ Entry(i, n) \in Entries /\ Entry(i, n).index = i /\ Entry(i, n).name = n
         /\ <<m, Entry(i, n)>> \in Files \X Contents /\ <<Counter, i>> \in Files \X Contents
  <1>1. Entry(i, n) \in Entries
    BY DEF Entry, Entries
  <1> QED BY <1>1, FilesDiffer DEF Entry, Contents

\* Three in a row.
LEMMA ThreeInSequence ==
  ASSUME NEW S, NEW a \in S, NEW b \in S, NEW c \in S
  PROVE  /\ <<a, b>> \o <<c>> \in Seq(S) /\ Len(<<a, b>> \o <<c>>) = 3
         /\ (<<a, b>> \o <<c>>)[1] = a /\ (<<a, b>> \o <<c>>)[2] = b
         /\ (<<a, b>> \o <<c>>)[3] = c
  <1> DEFINE w == <<a, b>>
             v == w \o <<c>>
  <1>1. w \in Seq(S) /\ Len(w) = 2 /\ w[1] = a /\ w[2] = b
    OBVIOUS
  <1>2. w \in Seq(S)
    OBVIOUS
  <1> HIDE DEF w
  <1>3. Append(w, c) = v
    BY <1>2, AppendIsConcat
  <1>4. /\ Append(w, c) \in Seq(S) /\ Len(Append(w, c)) = Len(w) + 1
        /\ \A i \in 1..Len(w) : Append(w, c)[i] = w[i]
        /\ Append(w, c)[Len(w) + 1] = c
    BY <1>2, AppendProperties
  <1> HIDE DEF v
  <1>5. v \in Seq(S) /\ Len(v) = 3 /\ v[1] = a /\ v[2] = b /\ v[3] = c
    BY <1>1, <1>3, <1>4
  <1> QED BY <1>5 DEF v, w

LEMMA AllocatedIs ==
  ASSUME NEW r \in Requests, NEW m \in Meetings, NEW last \in Nat,
         req[r] \in ReqType, Lists(r), KnowsItsWork(r), req[r].about = m
  PROVE  /\ Allocated(r, last) \in Seq(Files \X Contents)
         /\ Len(Allocated(r, last)) = IF req[r].op = "rename" THEN 3 ELSE 2
         /\ Allocated(r, last)[1] = <<Counter, last + 1>>
         /\ Allocated(r, last)[2] = <<m, Entry(last + 1, "default")>>
         /\ req[r].op = "rename" => Allocated(r, last)[3] = <<m, Entry(last + 1, req[r].name)>>
  <1> DEFINE a == <<Counter, last + 1>>
             b == <<m, Entry(last + 1, "default")>>
             c == <<m, Entry(last + 1, req[r].name)>>
  <1>1. a \in Files \X Contents /\ b \in Files \X Contents /\ c \in Files \X Contents
    BY EntryIs DEF ReqType
  <1>2. Allocated(r, last) = <<a, b>> \o IF req[r].op = "rename" THEN <<c>> ELSE <<>>
    BY DEF Allocated
  <1> HIDE DEF a, b, c
  <1>3. CASE req[r].op = "rename"
    <2> DEFINE S == Files \X Contents
    <2>1. a \in S /\ b \in S /\ c \in S
      BY <1>1
    <2>2. Allocated(r, last) = <<a, b>> \o <<c>>
      BY <1>2, <1>3
    <2> HIDE DEF S
    <2>3. /\ Allocated(r, last) \in Seq(S) /\ Len(Allocated(r, last)) = 3
          /\ Allocated(r, last)[1] = a /\ Allocated(r, last)[2] = b
          /\ Allocated(r, last)[3] = c
      BY <2>1, <2>2, ThreeInSequence
    <2> QED BY <1>3, <2>3 DEF a, b, c, S
  <1>4. CASE req[r].op # "rename"
    <2>1. <<a, b>> \o <<>> = <<a, b>>
      OBVIOUS
    <2>2. Allocated(r, last) = <<a, b>>
      BY <1>2, <1>4, <2>1
    <2> QED BY <1>1, <1>4, <2>2 DEF a, b, c
  <1> QED BY <1>3, <1>4

\* A request that has its number writes what it should.
LEMMA AllocatedWrites ==
  ASSUME NEW r \in Requests, NEW m \in Meetings, NEW last \in Nat,
         req[r] \in ReqType, Lists(r), KnowsItsWork(r), req[r].about = m,
         req'[r].writes = Allocated(r, last), Fields(r)' = Fields(r)
  PROVE  WritesEntry(r)' /\ Number(r)' = last + 1 /\ Ahead(r)'[1] = Counter
         /\ req'[r].writes # <<>>
  <1> DEFINE w == Allocated(r, last)
  <1>1. /\ w \in Seq(Files \X Contents) /\ Len(w) = IF req[r].op = "rename" THEN 3 ELSE 2
        /\ w[1] = <<Counter, last + 1>> /\ w[2] = <<m, Entry(last + 1, "default")>>
        /\ req[r].op = "rename" => w[3] = <<m, Entry(last + 1, req[r].name)>>
    BY AllocatedIs
  <1>2. req'[r].writes = w /\ req'[r].about = m /\ req'[r].name = req[r].name
    BY DEF Fields
  <1> HIDE DEF w
  <1>3. /\ Entry(last + 1, "default") \in Entries /\ Entry(last + 1, req[r].name) \in Entries
        /\ Entry(last + 1, "default").index = last + 1
        /\ Entry(last + 1, req[r].name).index = last + 1
        /\ Entry(last + 1, "default").name = "default"
        /\ Entry(last + 1, req[r].name).name = req[r].name
    <2>1. last + 1 \in Nat \ {0} /\ req[r].name \in Names \cup {"default"}
      BY DEF ReqType
    <2>2. \A n \in Names \cup {"default"} :
            /\ Entry(last + 1, n) \in Entries
            /\ Entry(last + 1, n).index = last + 1 /\ Entry(last + 1, n).name = n
      BY <2>1 DEF Entry, Entries
    <2> QED BY <2>1, <2>2
  <1>4. Last(r)' = <<m, Entry(last + 1, req[r].name)>>
    <2>1. Last(r)' = w[Len(w)]
      BY <1>2 DEF Last
    <2>2. req[r].op # "rename" => req[r].name = "default"
      BY DEF Lists, KnowsItsWork
    <2> QED BY <1>1, <2>1, <2>2
  <1>5. Number(r)' = last + 1
    BY <1>3, <1>4 DEF Number
  <1>6. \A k \in 1..Len(w) :
          \/ w[k] \in {<<m, Entry(last + 1, "default")>>, <<m, Entry(last + 1, req[r].name)>>}
          \/ k = 1 /\ w[1] = <<Counter, last + 1>>
    <2>1. \A k \in 1..Len(w) : k = 1 \/ k = 2 \/ (k = 3 /\ req[r].op = "rename")
      BY <1>1
    <2> QED BY <1>1, <2>1
  <1>7. WritesEntry(r)'
    BY <1>2, <1>3, <1>4, <1>5, <1>6 DEF WritesEntry
  <1>8. Ahead(r)'[1] = Counter /\ w # <<>>
    BY <1>1, <1>2 DEF Ahead
  <1> QED BY <1>2, <1>5, <1>7, <1>8

\* A request that holds the lock takes the next number.
LEMMA AllocateStep ==
  ASSUME DInv, NEW r \in Requests, NEW m \in Meetings, NEW last \in Nat, Lists(r),
         req[r].about = m, req[r].at \in {"lock", "scan"}, Write(r, Allocated(r, last)),
         UNCHANGED <<disk, version, named, spoiled>>, lock' = {r}, lock \subseteq {r},
         Counter \notin spoiled => \A n \in Meetings : \A i \in Nat : Claims(n, i) => i <= last
  PROVE  DInv'
  <1>1. Typed /\ KnowsItsWork(r) /\ req[r] \in ReqType /\ LockRight
    BY DEF DInv, Typed
  <1> DEFINE w == Allocated(r, last)
  <1>2. w \in Seq(Files \X Contents)
    BY <1>1, AllocatedIs
  <1>3. /\ OnlyThis(r) /\ req'[r].at = "open" /\ req'[r].writes = w
        /\ Fields(r)' = Fields(r)
    BY <1>1, <1>2, WriteEffect
  <1>4. /\ req'[r].op = req[r].op /\ req'[r].about = m /\ req'[r].name = req[r].name
        /\ req'[r].of = req[r].of
    BY <1>3 DEF Fields
  <1>5. /\ WritesEntry(r)' /\ Number(r)' = last + 1 /\ Ahead(r)'[1] = Counter
        /\ req'[r].writes # <<>>
    BY <1>1, <1>3, AllocatedWrites
  <1> HIDE DEF w
  <1>6. Lists(r)' /\ Pending(r)' /\ ~Pending(r) /\ req'[r].op # "artifact"
    BY <1>3, <1>4 DEF Lists, Pending
  <1>7. KnowsItsWork(r)'
    BY <1>1, <1>3, <1>4, <1>5 DEF KnowsItsWork, Lists, Pending
  <1>8. WritesWhatItShould(r)'
    BY <1>5, <1>6 DEF WritesWhatItShould, Lists
  <1>9. LockRight'
    <2>1. TakesNumber(r)'
      BY <1>5, <1>6 DEF TakesNumber
    <2>2. ASSUME NEW o \in Requests, o # r
          PROVE  ~TakesNumber(o)'
      <3>1. req'[o] = req[o] /\ ~TakesNumber(o)
        BY <1>1, <1>3, <2>2 DEF OnlyThis, LockRight
      <3> QED BY <3>1 DEF TakesNumber, Lists, Pending, Ahead
    <2> QED BY <1>3, <2>1, <2>2 DEF LockRight
  <1>10. ASSUME Counter \notin spoiled
         PROVE  NumbersRight'
    <2>1. NumbersRight
      BY <1>10 DEF DInv
    <2>2. ASSUME NEW n \in Meetings, NEW i \in Nat
          PROVE  Claims(n, i)' <=> Claims(n, i)
      <3>1. ASSUME NEW o \in Requests
            PROVE  (Lists(o) /\ Pending(o) /\ o \notin lock /\ req[o].about = n /\ Number(o) = i)'
                     <=> (Lists(o) /\ Pending(o) /\ o \notin lock /\ req[o].about = n /\ Number(o) = i)
        <4>1. CASE o = r
          BY <1>6, <4>1
        <4>2. CASE o # r
          <5>1. req'[o] = req[o] /\ o \notin lock /\ o \notin lock'
            BY <1>3, <4>2 DEF OnlyThis
          <5> QED BY <5>1 DEF Lists, Pending, Number, Last
        <4> QED BY <4>1, <4>2
      <3>2. Whole(n)' <=> Whole(n)
        BY DEF Whole
      <3> QED BY <3>1, <3>2 DEF Claims
    <2>3. (Whole(Counter)' <=> Whole(Counter)) /\ disk' = disk
      BY DEF Whole
    <2>4. \A o \in lock' : o = r
      OBVIOUS
    <2>5. \A o \in Requests : req'[o].at # "scan"
      <3>1. \A o \in Requests : req'[o].at = "scan" => o = r
        BY <1>9 DEF LockRight, TakesNumber
      <3> QED BY <1>3, <3>1
    <2>6. ~NoneTaken'
      BY <2>5 DEF NoneTaken
    <2>7. \A n \in Meetings : \A i \in Nat : Claims(n, i)' => i < Number(r)'
      <3>1. \A n \in Meetings : \A i \in Nat : Claims(n, i)' => i <= last
        BY <1>10, <2>2
      <3> QED BY <1>5, <3>1
    <2> QED BY <2>1, <2>2, <2>3, <2>4, <2>5, <2>6, <2>7 DEF NumbersRight
  <1>11. NameRight(m)'
    <2> SUFFICES ASSUME m \notin spoiled
                 PROVE  NameRight(m)'
      BY DEF NameRight
    <2>1. NameRight(m) /\ r \in Writers(m)
      BY WritersAre DEF DInv
    <2>2. Writers(m) = {r}
      BY <2>1 DEF NameRight
    <2>3. Writers(m)' = {r}
      BY <1>3, <1>4, <2>2, WritersAre DEF OnlyThis, Writers
    <2>4. named'[m] \notin Names
      BY <2>1, <2>2 DEF NameRight
    <2> QED BY <1>3, <2>3, <2>4 DEF NameRight
  <1> QED BY <1>3, <1>4, <1>6, <1>7, <1>8, <1>9, <1>10, <1>11, ListStep

\* The request that holds the lock goes on counting.
LEMMA ScanStep ==
  ASSUME DInv, NEW r \in Requests, NEW m \in Meetings, Lists(r), req[r].about = m,
         req[r].at \in {"lock", "scan"}, OnlyThis(r), req'[r].at = "scan",
         Fields(r)' = Fields(r), UNCHANGED <<disk, version, named>>, spoiled \subseteq spoiled',
         lock' = {r}, lock \subseteq {r}, NoneTaken,
         Counter \notin spoiled' => \A n \in Meetings \ req'[r].todo : \A i \in Nat :
                                      Claims(n, i) => i <= req'[r].max
  PROVE  DInv'
  <1>1. Typed /\ KnowsItsWork(r) /\ LockRight /\ ~Whole(Counter)
    BY DEF DInv, Typed, NoneTaken
  <1>2. /\ req'[r].op = req[r].op /\ req'[r].about = m /\ req'[r].name = req[r].name
        /\ req'[r].of = req[r].of
    BY DEF Fields
  <1>3. Lists(r)' /\ ~Pending(r)' /\ ~Pending(r) /\ req'[r].op # "artifact"
    BY <1>2 DEF Lists, Pending
  <1>4. KnowsItsWork(r)' /\ WritesWhatItShould(r)'
    BY <1>1, <1>2, <1>3 DEF KnowsItsWork, WritesWhatItShould, Lists, Pending
  <1>5. LockRight'
    <2>1. TakesNumber(r)'
      BY DEF TakesNumber
    <2>2. ASSUME NEW o \in Requests, o # r
          PROVE  ~TakesNumber(o)'
      <3>1. req'[o] = req[o] /\ ~TakesNumber(o)
        BY <1>1, <2>2 DEF OnlyThis, LockRight
      <3> QED BY <3>1 DEF TakesNumber, Lists, Pending, Ahead
    <2> QED BY <1>1, <2>1, <2>2 DEF LockRight, Whole
  <1>6. ASSUME Counter \notin spoiled'
        PROVE  NumbersRight'
    <2>1. NumbersRight
      BY <1>6 DEF DInv
    <2>2. ASSUME NEW n \in Meetings, NEW i \in Nat
          PROVE  Claims(n, i)' <=> Claims(n, i)
      <3>1. ASSUME NEW o \in Requests
            PROVE  (Lists(o) /\ Pending(o) /\ o \notin lock /\ req[o].about = n /\ Number(o) = i)'
                     <=> (Lists(o) /\ Pending(o) /\ o \notin lock /\ req[o].about = n /\ Number(o) = i)
        <4>1. CASE o = r
          BY <1>3, <4>1
        <4>2. CASE o # r
          <5>1. req'[o] = req[o] /\ o \notin lock /\ o \notin lock'
            BY <4>2 DEF OnlyThis
          <5> QED BY <5>1 DEF Lists, Pending, Number, Last
        <4> QED BY <4>1, <4>2
      <3>2. Whole(n)' <=> Whole(n)
        BY DEF Whole
      <3> QED BY <3>1, <3>2 DEF Claims
    <2>3. ~Whole(Counter)'
      BY <1>1 DEF Whole
    <2>4. \A o \in lock' : ~Pending(o)'
      BY <1>3
    <2>5. \A o \in Requests : req'[o].at = "scan" => o = r
      BY <1>5 DEF LockRight, TakesNumber
    <2>6. \A n \in Meetings : \A i, j \in Nat : Claims(n, i)' /\ Claims(n, j)' => i = j
      BY <2>1, <2>2 DEF NumbersRight
    <2>7. \A n \in Meetings \ req'[r].todo : \A i \in Nat : Claims(n, i)' => i <= req'[r].max
      BY <1>6, <2>2
    <2> QED BY <2>1, <2>2, <2>3, <2>4, <2>5, <2>6, <2>7 DEF NumbersRight
  <1>7. NameRight(m)'
    <2> SUFFICES ASSUME m \notin spoiled
                 PROVE  NameRight(m)'
      BY DEF NameRight
    <2>1. NameRight(m) /\ r \in Writers(m)
      BY WritersAre DEF DInv
    <2>2. Writers(m) = {r}
      BY <2>1 DEF NameRight
    <2>3. Writers(m)' = {r}
      BY <1>2, <2>2, WritersAre DEF OnlyThis, Writers
    <2>4. named'[m] \notin Names
      BY <2>1, <2>2 DEF NameRight
    <2> QED BY <2>3, <2>4 DEF NameRight
  <1> QED BY <1>2, <1>3, <1>4, <1>5, <1>6, <1>7, ListStep

\* The last number of the counter, and the greatest of two.
LEMMA MaxOfTwo ==
  ASSUME NEW i \in Nat, NEW j \in Nat
  PROVE  Max({i, j}) \in Nat /\ Max({i, j}) >= i /\ Max({i, j}) >= j
  <1>1. \E x \in {i, j} : \A y \in {i, j} : x >= y
    OBVIOUS
  <1>2. Max({i, j}) \in {i, j} /\ \A y \in {i, j} : Max({i, j}) >= y
    BY <1>1 DEF Max
  <1> QED BY <1>2

\* What is next to be written of an entry.
LEMMA AheadOfEntry ==
  ASSUME Typed, NEW r \in Requests, Lists(r), Pending(r)
  PROVE  /\ req[r].writes \in Seq(Files \X Contents) /\ Len(req[r].writes) >= 1
         /\ Ahead(r) = req[r].writes[1] /\ Number(r) \in Nat \ {0} /\ WritesEntry(r)
         /\ \/ Ahead(r) = <<Counter, Number(r)>>
            \/ \E n \in {"default", req[r].name} :
                 Ahead(r) = <<req[r].about, Entry(Number(r), n)>>
  <1>1. req[r] \in ReqType /\ req[r].writes # <<>> /\ WritesEntry(r)
    BY DEF Typed, KnowsItsWork, WritesWhatItShould
  <1>2. req[r].writes \in Seq(Files \X Contents)
    BY <1>1 DEF ReqType
  <1> DEFINE w == req[r].writes
             S == Files \X Contents
  <1>3. w \in Seq(S) /\ w # <<>>
    BY <1>1, <1>2
  <1> HIDE DEF w, S
  <1>4. Len(w) >= 1 /\ Head(w) = w[1]
    BY <1>3
  <1>5. Ahead(r) = w[1]
    BY <1>4 DEF Ahead, w
  <1>6. Number(r) \in Nat \ {0}
    BY <1>1 DEF WritesEntry, Number, Entries
  <1>7. 1 \in 1..Len(w)
    BY <1>3, <1>4
  <1>8. \/ w[1] \in {<<req[r].about, Entry(Number(r), "default")>>,
                     <<req[r].about, Entry(Number(r), req[r].name)>>}
        \/ w[1] = <<Counter, Number(r)>>
    BY <1>1, <1>7 DEF WritesEntry, w
  <1> QED BY <1>1, <1>3, <1>4, <1>5, <1>6, <1>8 DEF w, S

LEMMA TakeCounterKeeps ==
  ASSUME DInv, NEW r \in Requests, TakeCounter(r)
  PROVE  DInv'
  <1>1. /\ req[r].at = "lock" /\ lock = {} /\ lock' = {r}
        /\ UNCHANGED <<disk, version, named, spoiled>>
    BY DEF TakeCounter, Free
  <1>2. Typed /\ KnowsItsWork(r) /\ req[r] \in ReqType
    BY DEF DInv, Typed
  <1>3. Lists(r)
    BY <1>1, <1>2 DEF KnowsItsWork, Lists, ReqType
  <1> PICK m \in Meetings : req[r].about = m
    BY <1>2, <1>3 DEF KnowsItsWork
  <1>4. CASE Whole(Counter) /\ Write(r, Allocated(r, disk[Counter]))
    <2> DEFINE last == disk[Counter]
    <2>1. last \in Nat
      BY <1>2, <1>4 DEF Typed, FilesTyped
    <2>2. Counter \notin spoiled => \A n \in Meetings : \A i \in Nat : Claims(n, i) => i <= last
      BY <1>4 DEF DInv, NumbersRight
    <2>3. Write(r, Allocated(r, last))
      BY <1>4
    <2> HIDE DEF last
    <2> QED BY <1>1, <1>3, <2>1, <2>2, <2>3, AllocateStep
  <1>5. CASE ~Whole(Counter) /\ req' = [req EXCEPT ![r].at = "scan", ![r].todo = Meetings]
    <2> DEFINE new == [req[r] EXCEPT !.at = "scan", !.todo = Meetings]
    <2>1. new \in ReqType /\ req \in [Requests -> ReqType]
      BY <1>2 DEF ReqType, Typed
    <2>2. req' = [req EXCEPT ![r] = new]
      BY <1>5, <2>1
    <2>3. /\ new.at = "scan" /\ new.todo = Meetings /\ new.op = req[r].op
          /\ new.about = req[r].about /\ new.name = req[r].name /\ new.force = req[r].force
          /\ new.of = req[r].of
      BY <1>2 DEF ReqType
    <2> HIDE DEF new
    <2>4. OnlyThis(r) /\ req'[r] = new
      BY <2>1, <2>2 DEF OnlyThis
    <2>5. Fields(r)' = Fields(r) /\ req'[r].at = "scan"
      BY <2>3, <2>4 DEF Fields
    <2>6. \A n \in Meetings : n \in req'[r].todo
      BY <2>3, <2>4
    <2>7. NoneTaken
      BY <1>1, <1>5 DEF NoneTaken
    <2> QED BY <1>1, <1>3, <2>4, <2>5, <2>6, <2>7, ScanStep
  <1> QED BY <1>4, <1>5 DEF TakeCounter

LEMMA ScanKeeps ==
  ASSUME DInv, NEW r \in Requests, Scan(r)
  PROVE  DInv'
  <1>1. /\ req[r].at = "scan" /\ UNCHANGED <<disk, version, lock, named>>
    BY DEF Scan
  <1>2. Typed /\ KnowsItsWork(r) /\ req[r] \in ReqType /\ LockRight
    BY DEF DInv, Typed
  <1>3. Lists(r)
    BY <1>1, <1>2 DEF KnowsItsWork, Lists, ReqType
  <1> PICK m \in Meetings : req[r].about = m
    BY <1>2, <1>3 DEF KnowsItsWork
  <1>4. lock = {r} /\ NoneTaken
    BY <1>1, <1>2 DEF LockRight, TakesNumber, NoneTaken
  <1>5. CASE req[r].todo = {} /\ Write(r, Allocated(r, req[r].max)) /\ UNCHANGED spoiled
    <2> DEFINE last == req[r].max
    <2>1. last \in Nat
      BY <1>2 DEF ReqType
    <2>2. Counter \notin spoiled => \A n \in Meetings : \A i \in Nat : Claims(n, i) => i <= last
      BY <1>1, <1>5 DEF DInv, NumbersRight
    <2>3. Write(r, Allocated(r, last))
      BY <1>5
    <2> HIDE DEF last
    <2> QED BY <1>1, <1>3, <1>4, <1>5, <2>1, <2>2, <2>3, AllocateStep
  <1>6. ASSUME NEW e \in req[r].todo,
               req' = [req EXCEPT ![r].todo = @ \ {e},
                        ![r].max = IF Whole(e) THEN Max({@, disk[e].index}) ELSE @],
               spoiled' = IF ~Whole(e) /\ \E o \in Requests : Writes(o, e)
                            THEN spoiled \cup {Counter} ELSE spoiled
        PROVE  DInv'
    <2> DEFINE max == IF Whole(e) THEN Max({req[r].max, disk[e].index}) ELSE req[r].max
               new == [req[r] EXCEPT !.todo = @ \ {e}, !.max = max]
    <2>1. /\ e \in Meetings /\ req[r].max \in Nat
          /\ Whole(e) => disk[e].index \in Nat
      BY <1>2, <1>6 DEF ReqType, Typed, FilesTyped, Entries
    <2>2. /\ max \in Nat /\ req[r].max <= max
          /\ Whole(e) => disk[e].index <= max
      BY <2>1, MaxOfTwo
    <2>3. req' = [req EXCEPT ![r] = new] /\ req \in [Requests -> ReqType]
      BY <1>2, <1>6 DEF Typed
    <2> HIDE DEF max
    <2>4. new \in ReqType
      BY <1>2, <2>2 DEF ReqType
    <2>5. /\ new.at = "scan" /\ new.todo = req[r].todo \ {e} /\ new.max = max
          /\ new.op = req[r].op /\ new.about = req[r].about /\ new.name = req[r].name
          /\ new.force = req[r].force /\ new.of = req[r].of
      BY <1>1, <1>2 DEF ReqType
    <2> HIDE DEF new
    <2>6. OnlyThis(r) /\ req'[r] = new
      BY <2>3, <2>4 DEF OnlyThis
    <2>7. Fields(r)' = Fields(r) /\ req'[r].at = "scan"
      BY <2>5, <2>6 DEF Fields
    <2>8. ASSUME Counter \notin spoiled', NEW n \in Meetings \ req'[r].todo, NEW i \in Nat,
                 Claims(n, i)
          PROVE  i <= req'[r].max
      <3>1. NumbersRight
        BY <1>6, <2>8 DEF DInv
      <3>2. CASE n \notin req[r].todo
        <4>1. i <= req[r].max
          BY <1>1, <2>8, <3>1, <3>2 DEF NumbersRight
        <4> QED BY <2>1, <2>2, <2>5, <2>6, <4>1
      <3>3. CASE n = e /\ Whole(e)
        <4>1. Claims(e, disk[e].index)
          BY <3>3 DEF Claims
        <4>2. i = disk[e].index
          BY <1>4, <2>1, <2>8, <3>1, <3>3, <4>1 DEF NumbersRight
        <4> QED BY <2>2, <2>5, <2>6, <3>3, <4>2
      <3>4. CASE n = e /\ ~Whole(e)
        <4>1. \A o \in Requests : ~Writes(o, e)
          BY <1>6, <2>8, <3>4
        <4>2. PICK o \in Requests : /\ Lists(o) /\ Pending(o) /\ o \notin lock
                                    /\ req[o].about = e
          BY <2>8, <3>4 DEF Claims
        <4>3. Ahead(o)[1] # e
          BY <4>1, <4>2 DEF Writes, Ahead, Pending
        <4>4. Ahead(o)[1] = Counter
          BY <1>2, <4>2, <4>3, AheadOfEntry
        <4> QED BY <1>2, <4>2, <4>4 DEF LockRight, TakesNumber
      <3> QED BY <2>5, <2>6, <2>8, <3>2, <3>3, <3>4
    <2>9. spoiled \subseteq spoiled'
      BY <1>6
    <2> QED BY <1>1, <1>3, <1>4, <2>6, <2>7, <2>8, <2>9, ScanStep
  <1> QED BY <1>1, <1>5, <1>6 DEF Scan

LEMMA LookKeeps ==
  ASSUME DInv, NEW r \in Requests, Look(r)
  PROVE  DInv'
  <1>1. /\ req[r].at = "look" /\ UNCHANGED <<disk, version, lock, named>>
    BY DEF Look
  <1>2. Typed /\ KnowsItsWork(r) /\ req[r] \in ReqType /\ LockRight
    BY DEF DInv, Typed
  <1>3. Lists(r) /\ ~Pending(r) /\ r \notin lock
    BY <1>1, <1>2 DEF KnowsItsWork, Lists, ReqType, Pending, LockRight, TakesNumber
  <1> PICK m \in Meetings : req[r].about = m
    BY <1>2, <1>3 DEF KnowsItsWork
  <1>4. NameRight(m)
    BY DEF DInv
  <1>5. CASE /\ Whole(m) /\ req[r].op = "rename" /\ UNCHANGED spoiled
             /\ Write(r, <<<<m, Entry(disk[m].index, req[r].name)>>>>)
    <2> DEFINE i == disk[m].index
               e == <<m, Entry(i, req[r].name)>>
    <2>1. i \in Nat \ {0} /\ req[r].name \in Names
      BY <1>2, <1>5 DEF Typed, FilesTyped, Entries, KnowsItsWork
    <2>2. /\ e \in Files \X Contents /\ e[1] = m /\ e[2] = Entry(i, req[r].name)
          /\ e[2] \in Entries /\ e[2].index = i /\ e[2].name = req[r].name
      BY <2>1, EntryIs
    <2> HIDE DEF e, i
    <2> DEFINE w == <<e>>
    <2>3. /\ w \in Seq(Files \X Contents) /\ Len(w) = 1 /\ w[1] = e /\ Head(w) = e /\ w # <<>>
      BY <2>2
    <2>4. Write(r, w)
      BY <1>5 DEF e, i
    <2> HIDE DEF w
    <2>5. /\ OnlyThis(r) /\ req'[r].at = "open" /\ req'[r].writes = w
          /\ Fields(r)' = Fields(r)
      BY <1>2, <2>3, <2>4, WriteEffect
    <2>6. /\ req'[r].op = "rename" /\ req'[r].about = m /\ req'[r].name = req[r].name
          /\ req'[r].of = req[r].of
      BY <1>5, <2>5 DEF Fields
    <2>7. Lists(r)' /\ Pending(r)'
      BY <2>5, <2>6 DEF Lists, Pending
    <2>8. Last(r)' = e /\ Ahead(r)' = e /\ Number(r)' = i
      BY <2>2, <2>3, <2>5 DEF Last, Ahead, Number
    <2>9. KnowsItsWork(r)'
      BY <2>1, <2>3, <2>5, <2>6 DEF KnowsItsWork, Lists, Pending
    <2>10. WritesWhatItShould(r)'
      <3>1. e = <<m, Entry(i, req[r].name)>>
        BY DEF e
      <3>2. \A k \in 1..Len(w) : w[k] = <<m, Entry(i, req[r].name)>>
        BY <2>3, <3>1
      <3>3. WritesEntry(r)'
        BY <2>2, <2>5, <2>6, <2>8, <3>2 DEF WritesEntry
      <3> QED BY <2>6, <3>3 DEF WritesWhatItShould
    <2>11. LockRight'
      <3>1. ~TakesNumber(r)'
        BY <2>2, <2>5, <2>8, FilesDiffer DEF TakesNumber
      <3>2. \A o \in Requests : o # r => (TakesNumber(o)' <=> TakesNumber(o))
        BY <2>5 DEF OnlyThis, TakesNumber, Lists, Pending, Ahead
      <3>3. \A o \in lock : o \in Requests /\ req'[o] = req[o]
        BY <1>2, <1>3, <2>5 DEF LockRight, OnlyThis
      <3> QED BY <1>1, <1>2, <1>3, <3>1, <3>2, <3>3 DEF LockRight, Whole
    <2>12. ASSUME Counter \notin spoiled'
           PROVE  NumbersRight'
      <3>1. NumbersRight
        BY <1>5, <2>12 DEF DInv
      <3>2. ASSUME NEW n \in Meetings, NEW j \in Nat
            PROVE  Claims(n, j)' <=> Claims(n, j)
        <4>1. Whole(n)' <=> Whole(n)
          BY <1>1 DEF Whole
        <4>2. \A o \in Requests : o # r => (Lists(o)' <=> Lists(o)) /\ (Pending(o)' <=> Pending(o))
                                           /\ req'[o] = req[o] /\ Number(o)' = Number(o)
          BY <2>5 DEF OnlyThis, Lists, Pending, Number, Last
        <4>3. ASSUME Claims(n, j)
              PROVE  Claims(n, j)'
          BY <1>1, <1>3, <4>1, <4>2, <4>3 DEF Claims
        <4>4. ASSUME Claims(n, j)'
              PROVE  Claims(n, j)
          <5>1. CASE n = m /\ j = i
            BY <1>5, <5>1 DEF Claims, i
          <5>2. CASE ~(n = m /\ j = i)
            BY <1>1, <2>6, <2>8, <4>1, <4>2, <4>4, <5>2 DEF Claims
          <5> QED BY <5>1, <5>2
        <4> QED BY <4>3, <4>4
      <3>3. \A o \in lock : o \in Requests /\ req'[o] = req[o]
        BY <1>2, <1>3, <2>5 DEF LockRight, OnlyThis
      <3>4. Whole(Counter)' <=> Whole(Counter)
        BY <1>1 DEF Whole
      <3>5. NoneTaken' <=> NoneTaken
        BY <1>1, <3>3, <3>4 DEF NoneTaken
      <3>6. \A o \in lock : (Pending(o)' <=> Pending(o)) /\ Number(o)' = Number(o)
        BY <3>3 DEF Pending, Number, Last
      <3>7. \A o \in Requests : /\ req'[o].at = "scan" <=> req[o].at = "scan"
                                /\ req[o].at = "scan" => req'[o] = req[o]
        BY <1>1, <2>5 DEF OnlyThis
      <3> QED BY <1>1, <3>1, <3>2, <3>4, <3>5, <3>6, <3>7 DEF NumbersRight
    <2>13. NameRight(m)'
      <3> SUFFICES ASSUME m \notin spoiled
                   PROVE  NameRight(m)'
        BY <1>5 DEF NameRight
      <3>1. Writers(m) = {r}
        BY <1>4, <1>5, WritersAre DEF NameRight
      <3>2. Writers(m)' = {r}
        BY <2>5, <2>6, <3>1, WritersAre DEF OnlyThis, Writers
      <3> QED BY <2>5, <2>6, <3>2 DEF NameRight
    <2> QED BY <1>1, <1>3, <1>5, <2>5, <2>6, <2>9, <2>10, <2>11, <2>12, <2>13, ListStep
  <1>6. CASE Whole(m) /\ req[r].op # "rename" /\ Answer(r) /\ UNCHANGED spoiled
    <2>1. OnlyThis(r) /\ req'[r] = Idle /\ req'[r].at = "idle" /\ req'[r].op = "none"
      BY <1>2, <1>6, AnswerEffect, IdleIsTyped
    <2>2. /\ KnowsItsWork(r)' /\ WritesWhatItShould(r)' /\ ~Lists(r)' /\ req'[r].about = Missing
          /\ ~(r \in Writers(m))'
      BY <2>1, IdleKnowsItsWork
    <2>3. SameEntries
      BY <1>1, <1>3, <2>1, <2>2 DEF SameEntries, OnlyThis
    <2>4. LockRight' /\ (Counter \notin spoiled' => NumbersRight')
      BY <1>2, <1>6, <2>3, NumbersFrame DEF DInv
    <2>5. r \notin Writers(m)
      BY <1>1, <1>6, WritersAre
    <2>6. SameWriters(m)
      BY <2>1, <2>2, <2>5 DEF SameWriters, OnlyThis
    <2>7. NameRight(m)'
      BY <1>1, <1>4, <1>6, <2>6, NameFrame
    <2> QED BY <1>1, <1>3, <1>6, <2>1, <2>2, <2>4, <2>7, ListStep
  <1>7. CASE /\ ~Whole(m) /\ req' = [req EXCEPT ![r].at = "lock"]
             /\ spoiled' = IF Writers(m) \subseteq {r} THEN spoiled ELSE spoiled \cup {m}
    <2>1. OnlyThis(r) /\ req'[r].at = "lock" /\ Fields(r)' = Fields(r)
      BY <1>2, <1>7, GoesEffect
    <2>2. /\ req'[r].op = req[r].op /\ req'[r].about = m /\ req'[r].name = req[r].name
          /\ req'[r].of = req[r].of
      BY <2>1 DEF Fields
    <2>3. KnowsItsWork(r)' /\ WritesWhatItShould(r)' /\ req'[r].op # "artifact"
      BY <1>2, <1>3, <2>1, <2>2 DEF KnowsItsWork, WritesWhatItShould, Lists, Pending
    <2>4. SameEntries
      BY <1>1, <1>3, <2>1 DEF SameEntries, OnlyThis, Pending
    <2>5. spoiled \subseteq spoiled'
      BY <1>7
    <2>6. LockRight' /\ (Counter \notin spoiled' => NumbersRight')
      BY <1>2, <2>4, <2>5, NumbersFrame DEF DInv
    <2>7. NameRight(m)'
      <3> SUFFICES ASSUME m \notin spoiled'
                   PROVE  NameRight(m)'
        BY DEF NameRight
      <3>1. Writers(m) \subseteq {r} /\ m \notin spoiled
        BY <1>7
      <3>2. named'[m] \notin Names
        BY <1>1, <1>4, <1>7, <3>1 DEF NameRight, Kept
      <3>3. Writers(m)' = {r}
        BY <2>1, <2>2, <3>1, WritersAre DEF OnlyThis, Writers
      <3> QED BY <2>1, <3>2, <3>3 DEF NameRight
    <2> QED BY <1>1, <1>3, <2>1, <2>2, <2>3, <2>5, <2>6, <2>7, ListStep
  <1> QED BY <1>5, <1>6, <1>7 DEF Look, Found

-----------------------------------------------------------------------------
(* Writing. *)

LEMMA WritesAre ==
  ASSUME Typed, NEW r \in Requests, Pending(r)
  PROVE  /\ req[r].writes \in Seq(Files \X Contents) /\ Len(req[r].writes) \in Nat \ {0}
         /\ Ahead(r) = req[r].writes[1] /\ Ahead(r) \in Files \X Contents
         /\ Ahead(r)[1] \in Files /\ Ahead(r)[2] \in Contents
  <1>1. req[r] \in ReqType /\ req[r].writes # <<>>
    BY DEF Typed, KnowsItsWork
  <1>2. req[r].writes \in Seq(Files \X Contents)
    BY <1>1 DEF ReqType
  <1> DEFINE w == req[r].writes
             S == Files \X Contents
  <1>3. w \in Seq(S) /\ w # <<>>
    BY <1>1, <1>2
  <1> HIDE DEF w, S
  <1>4. Len(w) \in Nat \ {0} /\ Head(w) = w[1] /\ Head(w) \in S
    BY <1>3
  <1>5. Ahead(r) = w[1] /\ Ahead(r) \in S
    BY <1>4 DEF Ahead, w
  <1> QED BY <1>3, <1>4, <1>5 DEF w, S

\* One file changes.
LEMMA DiskEffect ==
  ASSUME Typed, NEW f \in Files, NEW new \in Contents, disk' = [disk EXCEPT ![f] = new]
  PROVE  /\ disk' \in [Files -> Contents] /\ disk'[f] = new
         /\ \A x \in Files : x # f => disk'[x] = disk[x] /\ (Whole(x)' <=> Whole(x))
  <1>1. disk \in [Files -> Contents]
    BY DEF Typed, FilesTyped
  <1> QED BY <1>1 DEF Whole

\* What a request has to write does not change when it opens a file.
LEMMA OpensWhatItWrites ==
  ASSUME Typed, NEW r \in Requests, req[r].at = "open", req'[r].at = "fill",
         req'[r].writes = req[r].writes, Fields(r)' = Fields(r)
  PROVE  KnowsItsWork(r)' /\ WritesWhatItShould(r)'
  <1>1. KnowsItsWork(r) /\ WritesWhatItShould(r)
    BY DEF Typed
  <1>2. /\ req'[r].op = req[r].op /\ req'[r].about = req[r].about
        /\ req'[r].name = req[r].name /\ req'[r].of = req[r].of
    BY DEF Fields
  <1>3. KnowsItsWork(r)'
    BY <1>1, <1>2 DEF KnowsItsWork, Lists, Pending
  <1>4. Last(r)' = Last(r) /\ Number(r)' = Number(r)
    BY DEF Last, Number
  <1>5. /\ WritesEntry(r)' <=> WritesEntry(r)
        /\ WritesReport(r)' <=> WritesReport(r)
        /\ WritesArtifact(r)' <=> WritesArtifact(r)
    BY <1>2, <1>4 DEF WritesEntry, WritesReport, WritesArtifact
  <1> QED BY <1>1, <1>2, <1>3, <1>5 DEF WritesWhatItShould, Lists, Pending

LEMMA OpenKeeps ==
  ASSUME DInv, NEW r \in Requests, Open(r)
  PROVE  DInv'
  <1>1. /\ req[r].at = "open" /\ Pending(r) /\ UNCHANGED <<version, lock, named, spoiled>>
        /\ disk' = [disk EXCEPT ![Ahead(r)[1]] = Torn]
    BY DEF Open, Pending, Ahead
  <1>2. Typed /\ KnowsItsWork(r) /\ WritesWhatItShould(r) /\ req[r] \in ReqType /\ LockRight
        /\ FilesTyped
    BY DEF DInv, Typed
  <1> DEFINE w == req[r].writes
  <1>0. PICK f \in Files : f = Ahead(r)[1]
    BY <1>1, <1>2, WritesAre
  <1>4. /\ OnlyThis(r) /\ req'[r].at = "fill" /\ req'[r].writes = w /\ Fields(r)' = Fields(r)
        /\ req'[r].over = req[r].over
    BY <1>2, GoesEffect DEF Open
  <1>5. /\ req'[r].op = req[r].op /\ req'[r].about = req[r].about
        /\ req'[r].name = req[r].name /\ req'[r].of = req[r].of
    BY <1>4 DEF Fields
  <1>6. KnowsItsWork(r)' /\ WritesWhatItShould(r)' /\ Pending(r)' /\ Ahead(r)' = Ahead(r)
    BY <1>1, <1>2, <1>4, OpensWhatItWrites DEF Pending, Ahead
  <1>7. disk' = [disk EXCEPT ![f] = Torn]
    BY <1>0, <1>1
  <1>8. /\ disk' \in [Files -> Contents] /\ disk'[f] = Torn /\ ~Whole(f)'
        /\ \A x \in Files : x # f => disk'[x] = disk[x] /\ (Whole(x)' <=> Whole(x))
    <2>1. Torn \in Contents
      BY DEF Contents
    <2>2. /\ disk' \in [Files -> Contents] /\ disk'[f] = Torn
          /\ \A x \in Files : x # f => disk'[x] = disk[x] /\ (Whole(x)' <=> Whole(x))
      BY <1>2, <1>7, <2>1, DiskEffect
    <2> QED BY <2>2 DEF Whole
  <1>9. \A x \in Files : Whole(x)' => x # f /\ Whole(x) /\ disk'[x] = disk[x]
    BY <1>8
  <1>10. FilesTyped'
    BY <1>2, <1>8, <1>9, FilesDiffer DEF FilesTyped, Reports
  <1>11. Typed'
    BY <1>1, <1>2, <1>4, <1>6, <1>10, TypedFrame DEF Typed
  <1>12. CASE Lists(r)
    <2> PICK m \in Meetings : req[r].about = m
      BY <1>2, <1>12 DEF KnowsItsWork
    <2>1. f = Counter \/ f = m
      BY <1>0, <1>1, <1>2, <1>12, AheadOfEntry
    <2>2. \A id \in Ids, p \in Parts : disk'[<<id, p>>] = disk[<<id, p>>]
      BY <1>8, <2>1, FilesDiffer
    <2>3. \A id \in Ids : ArtifactRight(id)'
      BY <1>1, <1>4, <1>5, <1>6, <1>12, <2>2, OfEntries DEF Lists
    <2>4. \A o \in Requests : /\ Lists(o)' <=> Lists(o)
                              /\ Pending(o)' <=> Pending(o)
                              /\ Ahead(o)' = Ahead(o) /\ Number(o)' = Number(o)
                              /\ req'[o].about = req[o].about
                              /\ req'[o].at = "scan" <=> req[o].at = "scan"
      BY <1>1, <1>4, <1>5, <1>6 DEF OnlyThis, Lists, Pending, Ahead, Number, Last
    <2>5. r \in lock <=> f = Counter
      BY <1>0, <1>1, <1>2, <1>12 DEF LockRight, TakesNumber
    <2>6. LockRight'
      <3>1. \A o \in Requests : TakesNumber(o)' <=> TakesNumber(o)
        BY <2>4 DEF TakesNumber
      <3>2. ASSUME NEW o \in lock, req'[o].at \in {"scan", "fill"}
            PROVE  ~Whole(Counter)'
        <4>1. CASE o = r
          BY <1>8, <2>5, <4>1
        <4>2. CASE o # r
          <5>1. req'[o] = req[o]
            BY <1>2, <1>4, <4>2 DEF OnlyThis, LockRight
          <5>2. ~Whole(Counter)
            BY <1>2, <3>2, <5>1 DEF LockRight
          <5> QED BY <1>9, <5>2, FilesDiffer
        <4> QED BY <4>1, <4>2
      <3> QED BY <1>1, <1>2, <3>1, <3>2 DEF LockRight
    <2>7. ASSUME Counter \notin spoiled
          PROVE  NumbersRight'
      <3>1. NumbersRight
        BY <2>7 DEF DInv
      <3>2. ASSUME NEW n \in Meetings, NEW j \in Nat, Claims(n, j)'
            PROVE  Claims(n, j)
        BY <1>1, <1>9, <2>4, <3>2, FilesDiffer DEF Claims
      <3>3. Whole(Counter)' => Whole(Counter) /\ disk'[Counter] = disk[Counter]
        BY <1>9, FilesDiffer
      <3>4. NoneTaken' => NoneTaken
        <4> SUFFICES ASSUME NoneTaken'
                     PROVE  NoneTaken
          OBVIOUS
        <4>1. r \notin lock
          BY <1>1, <1>4 DEF NoneTaken
        <4>2. ~Whole(Counter)
          BY <1>8, <2>5, <4>1, FilesDiffer DEF NoneTaken
        <4>3. \A o \in lock : o \in Requests /\ req[o].at = "scan"
          BY <1>1, <1>2, <2>4 DEF LockRight, NoneTaken
        <4> QED BY <4>2, <4>3 DEF NoneTaken
      <3>5. \A o \in lock : o \in Requests
        BY <1>2 DEF LockRight
      <3>6. \A o \in Requests : req'[o].at = "scan" => req'[o] = req[o] /\ req[o].at = "scan"
        BY <1>4 DEF OnlyThis
      <3> QED BY <1>1, <2>4, <3>1, <3>2, <3>3, <3>4, <3>5, <3>6 DEF NumbersRight
    <2>8. ASSUME NEW n \in Meetings
          PROVE  NameRight(n)'
      <3>1. CASE n # m
        <4>1. SameWriters(n)
          BY <1>4, <1>5, <3>1, WritersAre DEF SameWriters, OnlyThis
        <4>2. disk'[n] = disk[n]
          BY <1>8, <2>1, <3>1, FilesDiffer
        <4> QED BY <1>1, <4>1, <4>2, NameFrame DEF DInv
      <3>2. CASE n = m
        <4> SUFFICES ASSUME m \notin spoiled
                     PROVE  NameRight(m)'
          BY <1>1, <3>2 DEF NameRight
        <4>1. NameRight(m) /\ r \in Writers(m)
          BY <1>1, WritersAre DEF DInv
        <4>2. Writers(m) = {r}
          BY <4>1 DEF NameRight
        <4>3. Writers(m)' = {r}
          BY <1>4, <1>5, <4>2, WritersAre DEF OnlyThis, Writers
        <4>4. req'[r].op = "show" => named'[m] \notin Names
          BY <1>1, <1>5, <4>1, <4>2 DEF NameRight
        <4>5. Ahead(r)'[1] = m => ~Whole(m)'
          BY <1>0, <1>6, <1>8
        <4> QED BY <1>4, <4>3, <4>4, <4>5 DEF NameRight
      <3> QED BY <3>1, <3>2
    <2> QED BY <1>1, <1>11, <2>3, <2>6, <2>7, <2>8 DEF DInv
  <1>13. CASE req[r].op \in {"report", "download"}
    <2>1. f \in Reports
      <3>1. WritesReport(r) /\ Len(w) \in Nat \ {0} /\ Ahead(r) = w[1]
        BY <1>1, <1>2, <1>13, WritesAre DEF WritesWhatItShould
      <3>2. 1 \in 1..Len(w)
        BY <3>1
      <3> QED BY <1>0, <3>1, <3>2 DEF WritesReport
    <2>2. /\ disk'[Counter] = disk[Counter] /\ \A m \in Meetings : disk'[m] = disk[m]
          /\ \A id \in Ids, p \in Parts : disk'[<<id, p>>] = disk[<<id, p>>]
      BY <1>8, <2>1, FilesDiffer
    <2>3. ~Lists(r) /\ ~Lists(r)' /\ req[r].op # "artifact" /\ req'[r].op # "artifact"
      BY <1>5, <1>13 DEF Lists
    <2>4. /\ LockRight' /\ (Counter \notin spoiled' => NumbersRight')
          /\ \A m \in Meetings : NameRight(m)'
      BY <1>1, <1>4, <1>6, <2>2, <2>3, OfDocuments
    <2>5. \A id \in Ids : ArtifactRight(id)'
      BY <1>1, <1>4, <1>6, <2>2, <2>3, OfEntries
    <2> QED BY <1>11, <2>4, <2>5 DEF DInv
  <1>14. CASE req[r].op = "artifact"
    <2> PICK id \in Ids : req[r].about = id
      BY <1>2, <1>14 DEF KnowsItsWork
    <2>1. /\ WritesArtifact(r) /\ Len(w) \in Nat \ {0} /\ Ahead(r) = w[1]
      BY <1>1, <1>2, <1>14, WritesAre DEF WritesWhatItShould, Lists
    <2>2. /\ f \in Reports \/ \E p \in Parts : f = <<id, p>>
          /\ Len(w) = 1 => f = <<id, "meta">>
          /\ Len(w) = 2 => f = <<id, "txt">>
      <3>1. CASE Len(w) = 1
        BY <1>0, <2>1, <3>1 DEF WritesArtifact, Parts
      <3>2. CASE Len(w) = 2
        BY <1>0, <2>1, <3>2 DEF WritesArtifact, Parts
      <3>3. CASE Len(w) = 3
        BY <1>0, <2>1, <3>3 DEF WritesArtifact, Parts
      <3>0. PICK n \in Nat \ {0} : n = Len(w)
        BY <2>1
      <3>4. CASE n > 3
        <4>1. 1 \in 1..(n - 3)
          BY <3>4
        <4>2. w[1][1] \in Reports
          BY <2>1, <3>0, <4>1 DEF WritesArtifact
        <4>3. n # 1 /\ n # 2
          BY <3>4
        <4> QED BY <1>0, <2>1, <3>0, <4>2, <4>3
      <3>5. n = 1 \/ n = 2 \/ n = 3 \/ n > 3
        OBVIOUS
      <3> QED BY <3>0, <3>1, <3>2, <3>3, <3>4, <3>5
    <2>3. disk'[Counter] = disk[Counter] /\ \A m \in Meetings : disk'[m] = disk[m]
      BY <1>8, <2>2, FilesDiffer
    <2>4. ~Lists(r) /\ ~Lists(r)'
      BY <1>5, <1>14 DEF Lists
    <2>5. /\ LockRight' /\ (Counter \notin spoiled' => NumbersRight')
          /\ \A m \in Meetings : NameRight(m)'
      BY <1>1, <1>4, <1>6, <2>3, <2>4, OfDocuments
    <2>6. ASSUME NEW x \in Ids, x # id
          PROVE  ArtifactRight(x)'
      <3>1. SameWriters(x)
        BY <1>4, <1>5, <2>6, WritersAre DEF SameWriters, OnlyThis
      <3>2. \A p \in Parts : disk'[<<x, p>>] = disk[<<x, p>>]
        BY <1>8, <2>2, <2>6, FilesDiffer
      <3> QED BY <1>1, <3>1, <3>2, ArtifactFrame DEF DInv
    <2>7. ArtifactRight(id)'
      <3> SUFFICES ASSUME id \notin spoiled
                   PROVE  ArtifactRight(id)'
        BY <1>1 DEF ArtifactRight
      <3>1. ArtifactRight(id) /\ r \in Writers(id)
        BY <1>1, WritersAre DEF DInv
      <3>2. Writers(id) = {r}
        BY <3>1 DEF ArtifactRight
      <3>3. Writers(id)' = {r}
        BY <1>4, <1>5, <3>2, WritersAre DEF OnlyThis, Writers
      <3>4. \A p \in Parts : <<id, p>> \in Files
        BY FilesDiffer
      <3>5. ~req'[r].over => ~Whole(<<id, "meta">>)'
        BY <1>4, <1>9, <3>1, <3>2, <3>4 DEF ArtifactRight, Parts
      <3>6. LeftBehind(r)'
        <4>1. LeftBehind(r) /\ req'[r].writes = w /\ req'[r].about = id
          BY <1>1, <1>4, <1>5, <3>1, <3>2 DEF ArtifactRight
        <4>2. Len(w) \in {1, 2} => disk'[<<id, "json">>] = disk[<<id, "json">>]
          BY <1>8, <2>2, <3>4 DEF Parts
        <4>3. Len(w) = 1 => disk'[<<id, "txt">>] = disk[<<id, "txt">>]
          BY <1>8, <2>2, <3>4 DEF Parts
        <4> QED BY <4>1, <4>2, <4>3 DEF LeftBehind
      <3>7. \A p \in Parts : Ahead(r)'[1] = <<id, p>> => ~Whole(<<id, p>>)'
        BY <1>0, <1>6, <1>8
      <3> QED BY <1>4, <3>3, <3>5, <3>6, <3>7 DEF ArtifactRight
    <2> QED BY <1>11, <2>5, <2>6, <2>7 DEF DInv
  <1>15. Lists(r) \/ req[r].op \in {"report", "download"} \/ req[r].op = "artifact"
    BY <1>1, <1>2 DEF KnowsItsWork, Lists, ReqType
  <1> QED BY <1>12, <1>13, <1>14, <1>15

\* What is left to write when the first text is written.
LEMMA RestIs ==
  ASSUME NEW S, NEW w \in Seq(S), w # <<>>
  PROVE  /\ Tail(w) \in Seq(S) /\ Len(Tail(w)) = Len(w) - 1
         /\ \A k \in 1..Len(Tail(w)) : Tail(w)[k] = w[k + 1]
         /\ Tail(w) = <<>> <=> Len(w) = 1
  <1>1. /\ Tail(w) \in Seq(S) /\ Len(Tail(w)) = Len(w) - 1
        /\ \A k \in 1..Len(Tail(w)) : Tail(w)[k] = w[k + 1]
    BY HeadTailProperties
  <1>2. Tail(w) = <<>> <=> Len(Tail(w)) = 0
    BY <1>1, EmptySeq
  <1> QED BY <1>1, <1>2

LEMMA FillIs ==
  ASSUME Typed, NEW r \in Requests, Fill(r), NEW f \in Files, f = Ahead(r)[1]
  PROVE  /\ req[r].at = "fill" /\ Pending(r) /\ UNCHANGED <<version, spoiled>>
         /\ lock' = IF f = Counter THEN {} ELSE lock
         /\ disk' \in [Files -> Contents]
         /\ disk'[f] \in {Ahead(r)[2], Torn}
         /\ ~Whole(f) => disk'[f] = Ahead(r)[2]
         /\ \A x \in Files : x # f => disk'[x] = disk[x] /\ (Whole(x)' <=> Whole(x))
         /\ OnlyThis(r)
         /\ Len(req[r].writes) = 1 =>
              /\ req'[r] = Idle
              /\ named' = IF req[r].op = "rename" THEN [named EXCEPT ![f] = req[r].name] ELSE named
         /\ Len(req[r].writes) # 1 =>
              /\ req'[r].at = "open" /\ Fields(r)' = Fields(r) /\ req'[r].over = req[r].over
              /\ req'[r].writes = Tail(req[r].writes) /\ named' = named
              /\ Tail(req[r].writes) # <<>>
  <1>1. /\ req[r].at = "fill" /\ Pending(r) /\ UNCHANGED <<version, spoiled>>
        /\ lock' = IF f = Counter THEN {} ELSE lock
    BY DEF Fill, Pending, Ahead
  <1> DEFINE w == req[r].writes
             rest == Tail(w)
  <1>2. PICK new \in {Ahead(r)[2]} \cup IF Whole(f) THEN {Torn} ELSE {} :
               disk' = [disk EXCEPT ![f] = new]
    BY DEF Fill, Ahead
  <1>3. IF rest = <<>> THEN Answer(r) ELSE Write(r, rest)
    BY DEF Fill
  <1>4. named' = IF rest = <<>> /\ req[r].op = "rename"
                   THEN [named EXCEPT ![f] = req[r].name] ELSE named
    BY DEF Fill, Ahead
  <1>5. w \in Seq(Files \X Contents) /\ w # <<>> /\ Ahead(r)[2] \in Contents
    BY <1>1, WritesAre DEF Typed, KnowsItsWork
  <1>6. rest \in Seq(Files \X Contents) /\ (rest = <<>> <=> Len(w) = 1)
    BY <1>5, RestIs
  <1> HIDE DEF w, rest
  <1>7. new \in Contents /\ new \in {Ahead(r)[2], Torn} /\ (~Whole(f) => new = Ahead(r)[2])
    BY <1>2, <1>5 DEF Contents
  <1>8. /\ disk' \in [Files -> Contents] /\ disk'[f] = new
        /\ \A x \in Files : x # f => disk'[x] = disk[x] /\ (Whole(x)' <=> Whole(x))
    BY <1>2, <1>7, DiskEffect
  <1>9. CASE rest = <<>>
    <2>1. OnlyThis(r) /\ req'[r] = Idle
      BY <1>3, <1>9, AnswerEffect
    <2>2. Len(w) = 1 /\ named' = IF req[r].op = "rename" THEN [named EXCEPT ![f] = req[r].name]
                                                          ELSE named
      BY <1>4, <1>6, <1>9
    <2> QED BY <1>1, <1>7, <1>8, <2>1, <2>2 DEF w
  <1>10. CASE rest # <<>>
    <2>1. /\ OnlyThis(r) /\ req'[r].at = "open" /\ req'[r].writes = rest
          /\ Fields(r)' = Fields(r) /\ req'[r].over = req[r].over
      BY <1>3, <1>6, <1>10, WriteEffect
    <2>2. Len(w) # 1 /\ named' = named
      BY <1>4, <1>6, <1>10
    <2> QED BY <1>1, <1>7, <1>8, <1>10, <2>1, <2>2 DEF w, rest
  <1> QED BY <1>9, <1>10

LEMMA EntryGoesOn ==
  ASSUME Typed, NEW r \in Requests, Lists(r), Pending(r), Len(req[r].writes) # 1,
         req'[r].writes = Tail(req[r].writes), Fields(r)' = Fields(r)
  PROVE  WritesEntry(r)' /\ Number(r)' = Number(r) /\ Ahead(r)'[1] = req[r].about
  <1> DEFINE w == req[r].writes
             S == Files \X Contents
             rest == Tail(w)
  <1>1. w \in Seq(S) /\ w # <<>> /\ WritesEntry(r) /\ Len(w) \in Nat \ {0}
    BY AheadOfEntry, WritesAre DEF Typed, KnowsItsWork
  <1>2. /\ req'[r].about = req[r].about /\ req'[r].name = req[r].name
        /\ req'[r].writes = rest
    BY DEF Fields
  <1> HIDE DEF S
  <1>3. PICK n \in Nat \ {0} : n = Len(w)
    BY <1>1
  <1>4. /\ rest \in Seq(S) /\ Len(rest) = n - 1
        /\ \A k \in 1..(n - 1) : rest[k] = w[k + 1]
    BY <1>1, <1>3, RestIs
  <1>5. n # 1
    BY <1>3
  <1>6. \A k \in 1..n :
          \/ w[k] \in {<<req[r].about, Entry(Number(r), "default")>>,
                       <<req[r].about, Entry(Number(r), req[r].name)>>}
          \/ k = 1 /\ w[1] = <<Counter, Number(r)>>
    BY <1>1, <1>3 DEF WritesEntry
  <1>7. Last(r) = w[n] /\ Last(r)[1] = req[r].about /\ Last(r)[2] \in Entries
        /\ Last(r)[2].name = req[r].name
    BY <1>1, <1>3 DEF WritesEntry, Last
  <1> HIDE DEF w, rest
  <1>8. Last(r)' = Last(r)
    <2>1. Last(r)' = rest[n - 1]
      BY <1>2, <1>4 DEF Last
    <2>2. n - 1 \in 1..(n - 1) /\ (n - 1) + 1 = n
      BY <1>5
    <2>3. rest[n - 1] = w[(n - 1) + 1]
      BY <1>4, <2>2
    <2> QED BY <1>7, <2>1, <2>2, <2>3
  <1>9. Number(r)' = Number(r)
    BY <1>8 DEF Number
  <1>10. \A k \in 1..(n - 1) :
           rest[k] \in {<<req[r].about, Entry(Number(r), "default")>>,
                        <<req[r].about, Entry(Number(r), req[r].name)>>}
    <2> TAKE k \in 1..(n - 1)
    <2>1. rest[k] = w[k + 1] /\ k + 1 \in 1..n /\ k + 1 # 1
      BY <1>4
    <2> QED BY <1>6, <2>1
  <1>11. WritesEntry(r)'
    <2>1. Len(req'[r].writes) = n - 1
      BY <1>2, <1>4
    <2> QED BY <1>2, <1>7, <1>8, <1>9, <1>10, <2>1 DEF WritesEntry
  <1>12. Ahead(r)'[1] = req[r].about
    <2>1. 1 \in 1..(n - 1)
      BY <1>5
    <2>0. rest # <<>>
      BY <1>1, <1>3, <1>5, RestIs DEF rest
    <2>2. Head(rest) = rest[1]
      BY <1>4, <2>0
    <2>3. Ahead(r)' = rest[1]
      BY <1>2, <2>2 DEF Ahead
    <2> QED BY <1>10, <2>1, <2>3
  <1> QED BY <1>9, <1>11, <1>12

\* A report, or the text of one, is written.
LEMMA FillReportKeeps ==
  ASSUME DInv, NEW r \in Requests, Fill(r), req[r].op \in {"report", "download"}
  PROVE  DInv'
  <1>1. Typed /\ KnowsItsWork(r) /\ WritesWhatItShould(r) /\ req[r] \in ReqType /\ FilesTyped
    BY DEF DInv, Typed
  <1> DEFINE w == req[r].writes
             S == Files \X Contents
  <1>2. Pending(r)
    BY DEF Fill, Pending
  <1>3. /\ w \in Seq(S) /\ w # <<>> /\ Len(w) \in Nat \ {0}
        /\ Ahead(r) = w[1] /\ Ahead(r)[1] \in Files
    BY <1>1, <1>2, WritesAre DEF KnowsItsWork
  <1>4. PICK f \in Files : f = Ahead(r)[1]
    BY <1>3
  <1>5. WritesReport(r) /\ ~Lists(r)
    BY <1>1, <1>2 DEF WritesWhatItShould, Lists
  <1>6. f \in Reports /\ Ahead(r)[2] \in Texts
    <2>1. 1 \in 1..Len(w)
      BY <1>3
    <2> QED BY <1>3, <1>4, <1>5, <2>1 DEF WritesReport
  <1>7. f # Counter /\ f \notin Meetings /\ \A id \in Ids, p \in Parts : f # <<id, p>>
    BY <1>6, FilesDiffer
  <1>8. /\ UNCHANGED <<version, spoiled>> /\ lock' = lock /\ disk' \in [Files -> Contents]
        /\ disk'[f] \in {Ahead(r)[2], Torn}
        /\ \A x \in Files : x # f => disk'[x] = disk[x] /\ (Whole(x)' <=> Whole(x))
        /\ OnlyThis(r)
        /\ Len(w) = 1 => req'[r] = Idle
        /\ Len(w) # 1 => /\ req'[r].at = "open" /\ Fields(r)' = Fields(r)
                         /\ req'[r].writes = Tail(w) /\ Tail(w) # <<>>
        /\ named' = named
    BY <1>1, <1>4, <1>7, FillIs
  <1>9. /\ disk'[Counter] = disk[Counter] /\ \A m \in Meetings : disk'[m] = disk[m]
        /\ \A id \in Ids, p \in Parts : disk'[<<id, p>>] = disk[<<id, p>>]
    BY <1>7, <1>8, FilesDiffer
  <1>10. FilesTyped'
    <2>1. \A x \in Reports : Whole(x)' => disk'[x] \in Texts
      <3>1. Whole(f)' => disk'[f] \in Texts
        BY <1>6, <1>8 DEF Whole
      <3>2. \A x \in Reports : x \in Files /\ (x # f /\ Whole(x)' => disk'[x] \in Texts)
        BY <1>1, <1>8, FilesDiffer DEF FilesTyped, Reports
      <3> QED BY <3>1, <3>2
    <2> QED BY <1>1, <1>8, <1>9, <2>1 DEF FilesTyped, Whole
  <1> HIDE DEF S
  <1>11. /\ KnowsItsWork(r)' /\ WritesWhatItShould(r)' /\ ~Lists(r)'
         /\ req'[r].op # "artifact"
    <2>1. CASE Len(w) = 1
      <3>1. req'[r] = Idle
        BY <1>8, <2>1
      <3>2. req'[r].op = "none"
        BY <3>1, IdleIsTyped
      <3> QED BY <3>1, <3>2, IdleKnowsItsWork
    <2>2. CASE Len(w) # 1
      <3>1. /\ req'[r].op = req[r].op /\ req'[r].about = req[r].about
            /\ req'[r].of = req[r].of /\ req'[r].name = req[r].name
        BY <1>8, <2>2 DEF Fields
      <3>2. KnowsItsWork(r)' /\ ~Lists(r)' /\ req'[r].op # "artifact"
        BY <1>1, <1>8, <2>2, <3>1 DEF KnowsItsWork, Lists, Pending
      <3>3. PICK n \in Nat \ {0} : n = Len(w)
        BY <1>3
      <3> DEFINE rest == Tail(w)
      <3>4. Len(rest) = n - 1 /\ \A k \in 1..(n - 1) : rest[k] = w[k + 1]
        BY <1>3, <3>3, RestIs
      <3>5. \A k \in 1..n : w[k][1] \in Reports /\ w[k][2] \in Texts
        BY <1>5, <3>3 DEF WritesReport
      <3>6. req'[r].writes = rest
        BY <1>8, <2>2
      <3> HIDE DEF w, rest
      <3>7. \A k \in 1..(n - 1) : rest[k][1] \in Reports /\ rest[k][2] \in Texts
        <4> TAKE k \in 1..(n - 1)
        <4>1. k + 1 \in 1..n /\ rest[k] = w[k + 1]
          BY <3>4
        <4> QED BY <3>5, <4>1
      <3>8. WritesReport(r)'
        BY <3>4, <3>6, <3>7 DEF WritesReport
      <3> QED BY <3>1, <3>2, <3>8 DEF WritesWhatItShould, Lists
    <2> QED BY <2>1, <2>2
  <1>12. Typed'
    BY <1>1, <1>8, <1>10, <1>11, TypedFrame DEF Typed
  <1>13. /\ LockRight' /\ (Counter \notin spoiled' => NumbersRight')
         /\ \A m \in Meetings : NameRight(m)'
    BY <1>5, <1>8, <1>9, <1>11, OfDocuments
  <1>14. \A id \in Ids : ArtifactRight(id)'
    BY <1>8, <1>9, <1>11, OfEntries
  <1> QED BY <1>12, <1>13, <1>14 DEF DInv

\* The number is in the counter now, and the lock is let go.
LEMMA FillCounterKeeps ==
  ASSUME DInv, NEW r \in Requests, Fill(r), Lists(r), Ahead(r)[1] = Counter
  PROVE  DInv'
  <1>1. Typed /\ KnowsItsWork(r) /\ req[r] \in ReqType /\ LockRight /\ FilesTyped
    BY DEF DInv, Typed
  <1>2. Pending(r) /\ req[r].at = "fill"
    BY DEF Fill, Pending
  <1> PICK m \in Meetings : req[r].about = m
    BY <1>1 DEF KnowsItsWork
  <1> DEFINE w == req[r].writes
             S == Files \X Contents
             i == Number(r)
  <1>3. lock = {r} /\ ~Whole(Counter)
    <2>1. r \in lock
      BY <1>2 DEF TakesNumber, LockRight, DInv
    <2> QED BY <1>1, <1>2, <2>1 DEF LockRight
  <1>4. /\ w \in Seq(S) /\ w # <<>> /\ Ahead(r) = w[1] /\ i \in Nat \ {0}
        /\ WritesEntry(r) /\ Ahead(r) = <<Counter, i>> /\ Len(w) \in Nat \ {0}
    <2>1. \A n : <<m, n>>[1] # Counter
      BY FilesDiffer
    <2> QED BY <1>1, <1>2, <2>1, AheadOfEntry, WritesAre DEF KnowsItsWork
  <1>5. Len(w) # 1
    <2>1. Last(r)[1] = m /\ m # Counter
      BY <1>4, FilesDiffer DEF WritesEntry
    <2> QED BY <1>4, <2>1 DEF Last
  <1>6. /\ UNCHANGED <<version, spoiled, named>> /\ lock' = {}
        /\ disk' \in [Files -> Contents] /\ disk'[Counter] = i
        /\ \A x \in Files : x # Counter => disk'[x] = disk[x] /\ (Whole(x)' <=> Whole(x))
        /\ OnlyThis(r) /\ req'[r].at = "open" /\ Fields(r)' = Fields(r)
        /\ req'[r].writes = Tail(w) /\ Tail(w) # <<>>
    BY <1>1, <1>3, <1>4, <1>5, FillIs, FilesDiffer
  <1>7. /\ req'[r].op = req[r].op /\ req'[r].about = m /\ req'[r].name = req[r].name
        /\ req'[r].of = req[r].of
    BY <1>6 DEF Fields
  <1>8. WritesEntry(r)' /\ Number(r)' = i /\ Ahead(r)'[1] = m
    BY <1>1, <1>2, <1>5, <1>6, EntryGoesOn
  <1> HIDE DEF w, S, i
  <1>9. Lists(r)' /\ Pending(r)' /\ req'[r].op # "artifact"
    BY <1>6, <1>7 DEF Lists, Pending
  <1>10. KnowsItsWork(r)'
    BY <1>1, <1>6, <1>7 DEF KnowsItsWork, Lists, Pending
  <1>11. WritesWhatItShould(r)'
    BY <1>8, <1>9 DEF WritesWhatItShould, Lists
  <1>12. /\ \A x \in Meetings : disk'[x] = disk[x] /\ (Whole(x)' <=> Whole(x))
         /\ \A id \in Ids, p \in Parts : disk'[<<id, p>>] = disk[<<id, p>>]
         /\ \A x \in Reports : disk'[x] = disk[x] /\ (Whole(x)' <=> Whole(x))
    BY <1>6, FilesDiffer DEF Reports
  <1>13. Whole(Counter)'
    BY <1>4, <1>6, TextsAreWhole DEF Whole
  <1>14. FilesTyped'
    BY <1>1, <1>4, <1>6, <1>12 DEF FilesTyped
  <1>15. Typed'
    BY <1>1, <1>6, <1>10, <1>11, <1>14, TypedFrame DEF Typed
  <1>16. \A id \in Ids : ArtifactRight(id)'
    BY <1>6, <1>9, <1>10, <1>12, OfEntries DEF Lists
  <1>17. \A o \in Requests : ~TakesNumber(o)'
    <2>1. ~TakesNumber(r)'
      BY <1>6, <1>8, FilesDiffer DEF TakesNumber
    <2>2. ASSUME NEW o \in Requests, o # r
          PROVE  ~TakesNumber(o)'
      <3>1. req'[o] = req[o] /\ ~TakesNumber(o)
        BY <1>1, <1>3, <1>6, <2>2 DEF OnlyThis, LockRight
      <3> QED BY <3>1 DEF TakesNumber, Lists, Pending, Ahead
    <2> QED BY <2>1, <2>2
  <1>18. LockRight'
    BY <1>6, <1>17 DEF LockRight
  <1>19. ASSUME Counter \notin spoiled
         PROVE  NumbersRight'
    <2>1. NumbersRight
      BY <1>19 DEF DInv
    <2>2. \A n \in Meetings : \A j \in Nat : Claims(n, j) => j < i
      BY <1>2, <1>3, <2>1 DEF NumbersRight, i
    <2>3. ASSUME NEW n \in Meetings, NEW j \in Nat, Claims(n, j)'
          PROVE  Claims(n, j) \/ (n = m /\ j = i)
      <3>1. \A o \in Requests : o # r => /\ Lists(o)' <=> Lists(o)
                                         /\ Pending(o)' <=> Pending(o)
                                         /\ req'[o] = req[o] /\ Number(o)' = Number(o)
                                         /\ o \notin lock
        BY <1>3, <1>6 DEF OnlyThis, Lists, Pending, Number, Last
      <3> QED BY <1>7, <1>8, <1>12, <2>3, <3>1 DEF Claims
    <2>4. \A n, k \in Meetings : \A j \in Nat : Claims(n, j)' /\ Claims(k, j)' => n = k
      <3> TAKE n, k \in Meetings
      <3> TAKE j \in Nat
      <3> HAVE Claims(n, j)' /\ Claims(k, j)'
      <3>1. /\ Claims(n, j) \/ (n = m /\ j = i)
            /\ Claims(k, j) \/ (k = m /\ j = i)
        BY <2>3
      <3>2. /\ Claims(n, j) => j < i
            /\ Claims(k, j) => j < i
        BY <2>2
      <3>3. Claims(n, j) /\ Claims(k, j) => n = k
        BY <2>1 DEF NumbersRight
      <3>4. ~(i < i)
        BY <1>4
      <3> QED BY <3>1, <3>2, <3>3, <3>4
    <2>5. \A n \in Meetings : \A j \in Nat : Claims(n, j)' => j <= i
      BY <1>4, <2>2, <2>3
    <2>6. \A o \in Requests : req'[o].at # "scan"
      BY <1>17 DEF TakesNumber
    <2> QED BY <1>6, <1>13, <2>4, <2>5, <2>6 DEF NumbersRight, NoneTaken
  <1>20. ASSUME NEW n \in Meetings
         PROVE  NameRight(n)'
    <2>1. CASE n # m
      <3>1. SameWriters(n)
        BY <1>6, <1>7, <2>1, WritersAre DEF SameWriters, OnlyThis
      <3> QED BY <1>6, <1>12, <3>1, NameFrame DEF DInv
    <2>2. CASE n = m
      <3> SUFFICES ASSUME m \notin spoiled
                   PROVE  NameRight(m)'
        BY <1>6, <2>2 DEF NameRight
      <3>1. NameRight(m) /\ r \in Writers(m)
        BY <1>2, WritersAre DEF DInv
      <3>2. Writers(m) = {r}
        BY <3>1 DEF NameRight
      <3>3. Writers(m)' = {r}
        BY <1>6, <1>7, <3>2, WritersAre DEF OnlyThis, Writers
      <3>4. req'[r].op = "show" => named'[m] \notin Names
        BY <1>6, <1>7, <3>1, <3>2 DEF NameRight
      <3> QED BY <1>6, <3>3, <3>4 DEF NameRight
    <2> QED BY <2>1, <2>2
  <1> QED BY <1>6, <1>15, <1>16, <1>18, <1>19, <1>20 DEF DInv

\* An entry is written.
LEMMA FillEntryKeeps ==
  ASSUME DInv, NEW r \in Requests, Fill(r), Lists(r), Ahead(r)[1] # Counter
  PROVE  DInv'
  <1>1. Typed /\ KnowsItsWork(r) /\ req[r] \in ReqType /\ LockRight /\ FilesTyped
    BY DEF DInv, Typed
  <1>2. Pending(r) /\ req[r].at = "fill"
    BY DEF Fill, Pending
  <1> PICK m \in Meetings : req[r].about = m
    BY <1>1 DEF KnowsItsWork
  <1> DEFINE w == req[r].writes
             S == Files \X Contents
             i == Number(r)
  <1>3. r \notin lock
    BY <1>1, <1>2 DEF LockRight, TakesNumber
  <1>4. /\ w \in Seq(S) /\ w # <<>> /\ Ahead(r) = w[1] /\ i \in Nat \ {0}
        /\ WritesEntry(r) /\ Len(w) \in Nat \ {0}
    BY <1>1, <1>2, AheadOfEntry, WritesAre DEF KnowsItsWork
  <1>5. PICK name \in {"default", req[r].name} : Ahead(r) = <<m, Entry(i, name)>>
    BY <1>1, <1>2, AheadOfEntry
  <1>6. /\ Entry(i, name) \in Entries /\ Entry(i, name).index = i /\ Entry(i, name).name = name
        /\ name \in Names \cup {"default"}
    <2>1. name \in Names \cup {"default"}
      BY <1>1 DEF ReqType
    <2>2. i \in Nat \ {0}
      BY <1>4
    <2> HIDE DEF i
    <2> QED BY <2>1, <2>2, EntryIs, ZenonT(60)
  <1>7. m \in Files /\ m # Counter
    BY FilesDiffer
  <1>8. /\ UNCHANGED <<version, spoiled, lock>>
        /\ disk' \in [Files -> Contents] /\ disk'[m] \in {Entry(i, name), Torn}
        /\ ~Whole(m) => disk'[m] = Entry(i, name)
        /\ \A x \in Files : x # m => disk'[x] = disk[x] /\ (Whole(x)' <=> Whole(x))
        /\ OnlyThis(r)
        /\ Len(w) = 1 =>
             /\ req'[r] = Idle
             /\ named' = IF req[r].op = "rename" THEN [named EXCEPT ![m] = req[r].name] ELSE named
        /\ Len(w) # 1 =>
             /\ req'[r].at = "open" /\ Fields(r)' = Fields(r)
             /\ req'[r].writes = Tail(w) /\ Tail(w) # <<>> /\ named' = named
    BY <1>1, <1>5, <1>7, FillIs
  <1>9. Len(w) # 1 => /\ req'[r].op = req[r].op /\ req'[r].about = m
                      /\ req'[r].name = req[r].name /\ req'[r].of = req[r].of
    BY <1>8 DEF Fields
  <1>10. Len(w) # 1 => WritesEntry(r)' /\ Number(r)' = i /\ Ahead(r)'[1] = m
    BY <1>1, <1>2, <1>8, EntryGoesOn
  <1>11. Len(w) = 1 => Last(r) = Ahead(r) /\ name = req[r].name
    <2> SUFFICES ASSUME Len(w) = 1
                 PROVE  Last(r) = Ahead(r) /\ name = req[r].name
      OBVIOUS
    <2>1. Last(r) = w[1]
      BY DEF Last
    <2>2. Last(r)[2].name = req[r].name
      BY <1>4 DEF WritesEntry
    <2>3. Last(r) = Ahead(r)
      BY <1>4, <2>1
    <2> HIDE DEF w, i
    <2>4. Last(r)[2] = Entry(i, name)
      BY <1>5, <2>3
    <2> QED BY <1>6, <2>2, <2>3, <2>4
  <1> HIDE DEF w, S, i
  <1>12. /\ KnowsItsWork(r)' /\ WritesWhatItShould(r)' /\ req'[r].op # "artifact"
         /\ req'[r].at # "scan" /\ ~TakesNumber(r)'
         /\ Lists(r)' /\ Pending(r)' => req'[r].about = m /\ Number(r)' = i
    <2>1. CASE Len(w) = 1
      <3>1. req'[r] = Idle
        BY <1>8, <2>1
      <3>2. req'[r].op = "none" /\ req'[r].at = "idle"
        BY <3>1, IdleIsTyped
      <3>3. ~Lists(r)'
        BY <3>2 DEF Lists
      <3> QED BY <3>1, <3>2, <3>3, IdleKnowsItsWork DEF TakesNumber
    <2>2. CASE Len(w) # 1
      <3>1. Lists(r)' /\ Pending(r)' /\ req'[r].op # "artifact"
        BY <1>8, <1>9, <2>2 DEF Lists, Pending
      <3>2. KnowsItsWork(r)'
        BY <1>1, <1>8, <1>9, <2>2 DEF KnowsItsWork, Lists, Pending
      <3>3. WritesWhatItShould(r)'
        BY <1>10, <2>2, <3>1 DEF WritesWhatItShould, Lists
      <3>4. ~TakesNumber(r)'
        BY <1>7, <1>8, <1>10, <2>2 DEF TakesNumber
      <3> QED BY <1>8, <1>9, <1>10, <2>2, <3>1, <3>2, <3>3, <3>4
    <2> QED BY <2>1, <2>2
  <1>13. /\ \A x \in Meetings : x # m => disk'[x] = disk[x] /\ (Whole(x)' <=> Whole(x))
         /\ \A id \in Ids, p \in Parts : disk'[<<id, p>>] = disk[<<id, p>>]
         /\ \A x \in Reports : disk'[x] = disk[x] /\ (Whole(x)' <=> Whole(x))
         /\ disk'[Counter] = disk[Counter] /\ (Whole(Counter)' <=> Whole(Counter))
    BY <1>7, <1>8, FilesDiffer DEF Reports
  <1>14. Whole(m)' => disk'[m] = Entry(i, name)
    BY <1>8 DEF Whole
  <1>15. FilesTyped'
    BY <1>1, <1>6, <1>8, <1>13, <1>14 DEF FilesTyped
  <1>16. named' \in [Meetings -> Names \cup {"default"}]
    <2>1. named \in [Meetings -> Names \cup {"default"}] /\ req[r].name \in Names \cup {"default"}
      BY <1>1 DEF Typed, ReqType
    <2> QED BY <1>8, <2>1
  <1>17. Typed'
    BY <1>1, <1>8, <1>12, <1>15, <1>16, TypedFrame
  <1>18. \A id \in Ids : ArtifactRight(id)'
    BY <1>8, <1>12, <1>13, OfEntries DEF Lists
  <1>19. \A o \in lock : o \in Requests /\ o # r /\ req'[o] = req[o]
    BY <1>1, <1>3, <1>8 DEF OnlyThis, LockRight
  <1>20. LockRight'
    <2>1. \A o \in Requests : TakesNumber(o)' <=> TakesNumber(o)
      <3>1. ~TakesNumber(r)
        BY <1>1, <1>3 DEF LockRight
      <3>2. \A o \in Requests : o # r => req'[o] = req[o]
        BY <1>8 DEF OnlyThis
      <3>3. \A o \in Requests : o # r => (TakesNumber(o)' <=> TakesNumber(o))
        BY <3>2 DEF TakesNumber, Lists, Pending, Ahead
      <3> QED BY <1>12, <3>1, <3>3
    <2> QED BY <1>1, <1>8, <1>13, <1>19, <2>1 DEF LockRight
  <1>21. ASSUME Counter \notin spoiled
         PROVE  NumbersRight'
    <2>1. NumbersRight
      BY <1>21 DEF DInv
    <2>2. ASSUME NEW n \in Meetings, NEW j \in Nat, Claims(n, j)'
          PROVE  Claims(n, j)
      <3>1. \A o \in Requests : o # r => /\ Lists(o)' <=> Lists(o)
                                         /\ Pending(o)' <=> Pending(o)
                                         /\ req'[o] = req[o] /\ Number(o)' = Number(o)
        BY <1>8 DEF OnlyThis, Lists, Pending, Number, Last
      <3>2. Claims(m, i)
        BY <1>2, <1>3 DEF Claims, i
      <3>3. CASE n = m /\ Whole(m)' /\ disk'[m].index = j
        BY <1>6, <1>14, <3>2, <3>3
      <3>4. CASE n # m /\ Whole(n)' /\ disk'[n].index = j
        BY <1>13, <3>4 DEF Claims
      <3>5. ASSUME NEW o \in Requests,
                   (Lists(o) /\ Pending(o) /\ o \notin lock /\ req[o].about = n /\ Number(o) = j)'
            PROVE  Claims(n, j)
        <4>1. CASE o = r
          BY <1>12, <3>2, <3>5, <4>1
        <4>2. CASE o # r
          BY <1>8, <3>1, <3>5, <4>2 DEF Claims
        <4> QED BY <4>1, <4>2
      <3> QED BY <2>2, <3>3, <3>4, <3>5 DEF Claims
    <2>3. NoneTaken' <=> NoneTaken
      BY <1>8, <1>13, <1>19 DEF NoneTaken
    <2>4. \A o \in lock : (Pending(o)' <=> Pending(o)) /\ Number(o)' = Number(o)
      BY <1>19 DEF Pending, Number, Last
    <2>5. \A o \in Requests : req'[o].at = "scan" => req'[o] = req[o] /\ req[o].at = "scan"
      BY <1>8, <1>12 DEF OnlyThis
    <2> QED BY <1>8, <1>13, <2>1, <2>2, <2>3, <2>4, <2>5 DEF NumbersRight
  <1>22. ASSUME NEW n \in Meetings
         PROVE  NameRight(n)'
    <2>1. CASE n # m
      <3>1. req'[r].about # n
        <4>1. Len(w) = 1 => req'[r].about = Missing
          BY <1>8, IdleIsTyped
        <4> QED BY <1>9, <2>1, <4>1, FilesDiffer
      <3>2. SameWriters(n)
        BY <1>8, <2>1, <3>1, WritersAre DEF SameWriters, OnlyThis
      <3>3. named'[n] = named[n]
        BY <1>1, <1>8, <2>1 DEF Typed
      <3> QED BY <1>8, <1>13, <2>1, <3>2, <3>3, NameFrame DEF DInv
    <2>2. CASE n = m
      <3> SUFFICES ASSUME m \notin spoiled
                   PROVE  NameRight(m)'
        BY <1>8, <2>2 DEF NameRight
      <3>1. NameRight(m) /\ r \in Writers(m)
        BY <1>2, WritersAre DEF DInv
      <3>2. Writers(m) = {r}
        BY <3>1 DEF NameRight
      <3>3. /\ req[r].op = "show" => named[m] \notin Names
            /\ ~Whole(m)
        BY <1>2, <1>5, <3>1, <3>2 DEF NameRight
      <3>4. disk'[m] = Entry(i, name) /\ Whole(m)'
        <4>1. disk'[m] = Entry(i, name)
          BY <1>8, <3>3
        <4> QED BY <1>6, <4>1, TextsAreWhole DEF Whole
      <3>5. CASE Len(w) = 1
        <4>1. ~(r \in Writers(m))'
          BY <1>8, <3>5, IdleKnowsItsWork
        <4>2. Writers(m)' = {}
          BY <1>8, <3>2, <4>1, WritersAre DEF OnlyThis, Writers
        <4>3. Kept(m)'
          <5>1. CASE req[r].op = "rename"
            <6>1. disk'[m].name = req[r].name
              BY <1>6, <1>11, <3>4, <3>5
            <6>2. named'[m] = req[r].name
              BY <1>1, <1>8, <3>5, <5>1 DEF Typed
            <6> QED BY <3>4, <6>1, <6>2 DEF Kept
          <5>2. CASE req[r].op = "show"
            BY <1>8, <3>3, <3>5, <5>2 DEF Kept
          <5> QED BY <5>1, <5>2 DEF Lists
        <4> QED BY <4>2, <4>3 DEF NameRight
      <3>6. CASE Len(w) # 1
        <4>1. Writers(m)' = {r}
          BY <1>8, <1>9, <3>2, <3>6, WritersAre DEF OnlyThis, Writers
        <4>2. req'[r].at = "open" /\ (req'[r].op = "show" => named'[m] \notin Names)
          BY <1>8, <1>9, <3>3, <3>6
        <4> QED BY <4>1, <4>2 DEF NameRight
      <3> QED BY <3>5, <3>6
    <2> QED BY <2>1, <2>2
  <1> QED BY <1>8, <1>17, <1>18, <1>20, <1>21, <1>22 DEF DInv

\* A file of an artifact, or of the report made for it, is written.
LEMMA FillArtifactKeeps ==
  ASSUME DInv, NEW r \in Requests, Fill(r), req[r].op = "artifact"
  PROVE  DInv'
  <1>1. Typed /\ KnowsItsWork(r) /\ WritesWhatItShould(r) /\ req[r] \in ReqType /\ FilesTyped
    BY DEF DInv, Typed
  <1>2. Pending(r) /\ req[r].at = "fill" /\ ~Lists(r)
    BY DEF Fill, Pending, Lists
  <1> PICK id \in Ids : req[r].about = id
    BY <1>1 DEF KnowsItsWork
  <1> DEFINE w == req[r].writes
             S == Files \X Contents
             rest == Tail(w)
  <1>3. /\ w \in Seq(S) /\ w # <<>> /\ Len(w) \in Nat \ {0}
        /\ Ahead(r) = w[1] /\ Ahead(r)[1] \in Files /\ WritesArtifact(r)
    BY <1>1, <1>2, WritesAre DEF KnowsItsWork, WritesWhatItShould
  <1>4. PICK f \in Files : f = Ahead(r)[1]
    BY <1>3
  <1>5. PICK n \in Nat \ {0} : n = Len(w)
    BY <1>3
  <1>6. /\ w[n] = <<<<id, "meta">>, "ok">>
        /\ n >= 2 => /\ w[n - 1][1] = <<id, "txt">> /\ w[n - 1][2] \in Texts
                     /\ id[1] # "brief" => w[n - 1][2].of = id[2]
        /\ n >= 3 => w[n - 2] = <<<<id, "json">>, w[n - 1][2]>>
        /\ \A k \in 1..(n - 3) : w[k][1] \in Reports /\ w[k][2] \in Texts
    BY <1>3, <1>5 DEF WritesArtifact
  <1>7. n # 1 => /\ rest \in Seq(S) /\ Len(rest) = n - 1
                 /\ \A k \in 1..(n - 1) : rest[k] = w[k + 1]
    BY <1>3, <1>5, RestIs
  <1> HIDE DEF w, S, rest
  <1>8. /\ n = 1 => f = <<id, "meta">>
        /\ n = 2 => f = <<id, "txt">>
        /\ n = 3 => f = <<id, "json">>
        /\ n > 3 => f \in Reports /\ Ahead(r)[2] \in Texts
    <2>1. n = 1 => f = <<id, "meta">>
      BY <1>3, <1>4, <1>6
    <2>2. n = 2 => f = <<id, "txt">>
      BY <1>3, <1>4, <1>6
    <2>3. n = 3 => f = <<id, "json">>
      BY <1>3, <1>4, <1>6
    <2>4. n > 3 => f \in Reports /\ Ahead(r)[2] \in Texts
      <3>1. n > 3 => 1 \in 1..(n - 3)
        OBVIOUS
      <3> QED BY <1>3, <1>4, <1>6, <3>1
    <2> QED BY <2>1, <2>2, <2>3, <2>4
  <1>9. f \in Reports \/ \E p \in Parts : f = <<id, p>>
    <2>1. n = 1 \/ n = 2 \/ n = 3 \/ n > 3
      OBVIOUS
    <2> QED BY <1>8, <2>1 DEF Parts
  <1>10. /\ f # Counter /\ f \notin Meetings /\ \A x \in Ids, p \in Parts : x # id => f # <<x, p>>
         /\ n \in {1, 2, 3} => f \notin Reports
    <2>1. n \in {1, 2, 3} => f \notin Reports
      BY <1>8, FilesDiffer DEF Parts
    <2> QED BY <1>9, <2>1, FilesDiffer
  <1>11. /\ UNCHANGED <<version, spoiled>> /\ lock' = lock /\ disk' \in [Files -> Contents]
         /\ disk'[f] \in {Ahead(r)[2], Torn}
         /\ ~Whole(f) => disk'[f] = Ahead(r)[2]
         /\ \A x \in Files : x # f => disk'[x] = disk[x] /\ (Whole(x)' <=> Whole(x))
         /\ OnlyThis(r) /\ named' = named
         /\ n = 1 => req'[r] = Idle
         /\ n # 1 => /\ req'[r].at = "open" /\ Fields(r)' = Fields(r)
                     /\ req'[r].over = req[r].over /\ req'[r].writes = rest /\ rest # <<>>
    BY <1>1, <1>4, <1>5, <1>10, FillIs DEF w, rest
  <1>12. /\ disk'[Counter] = disk[Counter] /\ (Whole(Counter)' <=> Whole(Counter))
         /\ \A m \in Meetings : disk'[m] = disk[m] /\ (Whole(m)' <=> Whole(m))
    BY <1>10, <1>11, FilesDiffer
  <1>13. FilesTyped'
    <2>1. \A x \in Reports : Whole(x)' => disk'[x] \in Texts
      <3> TAKE x \in Reports
      <3>1. CASE x = f
        <4>1. n > 3
          BY <1>10, <3>1
        <4> QED BY <1>8, <1>11, <3>1, <4>1 DEF Whole
      <3>2. CASE x # f
        BY <1>1, <1>11, <3>2, FilesDiffer DEF FilesTyped, Reports
      <3> QED BY <3>1, <3>2
    <2> QED BY <1>1, <1>11, <1>12, <2>1 DEF FilesTyped
  <1>14. n # 1 => /\ req'[r].op = "artifact" /\ req'[r].about = id
                  /\ req'[r].of = req[r].of /\ req'[r].name = req[r].name
    BY <1>11 DEF Fields
  <1>15. n # 1 => WritesArtifact(r)'
    <2> SUFFICES ASSUME n # 1
                 PROVE  WritesArtifact(r)'
      OBVIOUS
    <2>1. PICK l \in Nat \ {0} : n = l + 1
      <3>1. n - 1 \in Nat \ {0} /\ n = (n - 1) + 1
        OBVIOUS
      <3> QED BY <3>1
    <2>2. /\ Len(rest) = l /\ req'[r].writes = rest /\ req'[r].about = id
          /\ \A k \in 1..l : rest[k] = w[k + 1]
      BY <1>7, <1>11, <1>14, <2>1
    <2>3. rest[l] = <<<<id, "meta">>, "ok">>
      BY <1>6, <2>1, <2>2
    <2>4. l >= 2 => rest[l - 1] = w[n - 1]
      <3>1. l >= 2 => l - 1 \in 1..l /\ (l - 1) + 1 = n - 1
        BY <2>1
      <3> QED BY <2>2, <3>1
    <2>5. l >= 3 => rest[l - 2] = w[n - 2]
      <3>1. l >= 3 => l - 2 \in 1..l /\ (l - 2) + 1 = n - 2
        BY <2>1
      <3> QED BY <2>2, <3>1
    <2>6. \A k \in 1..(l - 3) : rest[k][1] \in Reports /\ rest[k][2] \in Texts
      <3> TAKE k \in 1..(l - 3)
      <3>1. k \in 1..l /\ k + 1 \in 1..(n - 3)
        BY <2>1
      <3> QED BY <1>6, <2>2, <3>1
    <2>7. /\ l >= 2 => /\ rest[l - 1][1] = <<id, "txt">> /\ rest[l - 1][2] \in Texts
                       /\ id[1] # "brief" => rest[l - 1][2].of = id[2]
          /\ l >= 3 => rest[l - 2] = <<<<id, "json">>, rest[l - 1][2]>>
      BY <1>6, <2>1, <2>4, <2>5
    <2> QED BY <2>2, <2>3, <2>6, <2>7 DEF WritesArtifact
  <1>16. /\ KnowsItsWork(r)' /\ WritesWhatItShould(r)' /\ ~Lists(r)'
         /\ req'[r].about \in {id, Missing}
    <2>1. CASE n = 1
      BY <1>11, <2>1, IdleKnowsItsWork
    <2>2. CASE n # 1
      <3>1. KnowsItsWork(r)' /\ ~Lists(r)'
        BY <1>1, <1>11, <1>14, <2>2 DEF KnowsItsWork, Lists, Pending
      <3> QED BY <1>14, <1>15, <2>2, <3>1 DEF WritesWhatItShould
    <2> QED BY <2>1, <2>2
  <1>17. Typed'
    BY <1>1, <1>11, <1>13, <1>16, TypedFrame DEF Typed
  <1>18. /\ LockRight' /\ (Counter \notin spoiled' => NumbersRight')
         /\ \A m \in Meetings : NameRight(m)'
    BY <1>2, <1>11, <1>12, <1>16, OfDocuments
  <1>19. ASSUME NEW x \in Ids, x # id
         PROVE  ArtifactRight(x)'
    <2>1. req'[r].about # x
      BY <1>16, <1>19, FilesDiffer
    <2>2. SameWriters(x)
      BY <1>11, <1>19, <2>1, WritersAre DEF SameWriters, OnlyThis
    <2>3. \A p \in Parts : disk'[<<x, p>>] = disk[<<x, p>>]
      BY <1>10, <1>11, <1>19, FilesDiffer
    <2> QED BY <1>11, <2>2, <2>3, ArtifactFrame DEF DInv
  <1>20. ArtifactRight(id)'
    <2> SUFFICES ASSUME id \notin spoiled
                 PROVE  ArtifactRight(id)'
      BY <1>11 DEF ArtifactRight
    <2>1. ArtifactRight(id) /\ r \in Writers(id)
      BY <1>2, WritersAre DEF DInv
    <2>2. Writers(id) = {r}
      BY <2>1 DEF ArtifactRight
    <2>3. /\ ~req[r].over => ~Whole(<<id, "meta">>)
          /\ \A p \in Parts : f = <<id, p>> => ~Whole(<<id, p>>)
          /\ LeftBehind(r)
      BY <1>2, <1>4, <2>1, <2>2 DEF ArtifactRight
    <2>4. /\ n = 2 => disk[<<id, "json">>] = w[1][2]
          /\ n = 1 => /\ disk[<<id, "json">>] \in Texts
                      /\ disk[<<id, "txt">>] = disk[<<id, "json">>]
                      /\ id[1] # "brief" => disk[<<id, "json">>].of = id[2]
      BY <1>5, <2>3 DEF LeftBehind, w
    <2>5. /\ <<id, "json">> \in Files /\ <<id, "txt">> \in Files /\ <<id, "meta">> \in Files
          /\ <<id, "json">> # <<id, "txt">> /\ <<id, "json">> # <<id, "meta">>
          /\ <<id, "txt">> # <<id, "meta">>
          /\ \A p \in Parts : <<id, p>> \notin Reports
      BY FilesDiffer DEF Parts
    <2>6. CASE n = 1
      <3>1. ~(r \in Writers(id))'
        BY <1>11, <2>6, IdleKnowsItsWork
      <3>2. Writers(id)' = {}
        BY <1>11, <2>2, <3>1, WritersAre DEF OnlyThis, Writers
      <3>3. /\ disk'[<<id, "json">>] = disk[<<id, "json">>]
            /\ disk'[<<id, "txt">>] = disk[<<id, "txt">>]
            /\ Whole(<<id, "json">>)' <=> Whole(<<id, "json">>)
        BY <1>8, <1>11, <2>5, <2>6
      <3>4. Whole(<<id, "json">>)
        BY <2>4, <2>6, TextsAreWhole DEF Whole
      <3>5. Served(id)'
        BY <2>4, <2>6, <3>3, <3>4 DEF Served
      <3> QED BY <3>2, <3>5 DEF ArtifactRight
    <2>7. CASE n # 1
      <3>1. Writers(id)' = {r}
        BY <1>11, <1>14, <2>2, <2>7, WritersAre DEF OnlyThis, Writers
      <3>2. f # <<id, "meta">>
        <4>1. n = 2 \/ n = 3 \/ n > 3
          BY <2>7
        <4> QED BY <1>8, <2>5, <4>1 DEF Parts
      <3>3. ~req'[r].over => ~Whole(<<id, "meta">>)'
        BY <1>11, <2>3, <2>5, <2>7, <3>2
      <3>4. LeftBehind(r)'
        <4>1. CASE n = 2
          <5>1. disk'[<<id, "txt">>] = w[1][2] /\ disk'[<<id, "json">>] = w[1][2]
            <6>1. f = <<id, "txt">> /\ ~Whole(f)
              BY <1>8, <2>3, <4>1 DEF Parts
            <6>2. disk'[f] = w[1][2]
              BY <1>3, <1>11, <6>1
            <6> QED BY <1>11, <2>4, <2>5, <4>1, <6>1, <6>2
          <5>2. w[1][2] \in Texts /\ (id[1] # "brief" => w[1][2].of = id[2])
            BY <1>6, <4>1
          <5>3. Len(rest) = 1 /\ req'[r].writes = rest /\ req'[r].about = id
            BY <1>7, <1>11, <1>14, <2>7, <4>1
          <5> QED BY <5>1, <5>2, <5>3 DEF LeftBehind
        <4>2. CASE n = 3
          <5>1. f = <<id, "json">> /\ ~Whole(f)
            BY <1>8, <2>3, <4>2 DEF Parts
          <5>2. disk'[<<id, "json">>] = w[1][2]
            BY <1>3, <1>11, <5>1
          <5>3. w[1][2] = w[2][2]
            BY <1>6, <4>2
          <5>4. rest[1] = w[2]
            BY <1>7, <4>2
          <5>5. Len(rest) = 2 /\ req'[r].writes = rest /\ req'[r].about = id
            BY <1>7, <1>11, <1>14, <2>7, <4>2
          <5> QED BY <5>2, <5>3, <5>4, <5>5 DEF LeftBehind
        <4>3. CASE n > 3
          <5>1. Len(rest) # 1 /\ Len(rest) # 2 /\ req'[r].writes = rest
            BY <1>7, <1>11, <2>7, <4>3
          <5> QED BY <5>1 DEF LeftBehind
        <4>4. n = 2 \/ n = 3 \/ n > 3
          BY <2>7
        <4> QED BY <4>1, <4>2, <4>3, <4>4
      <3> QED BY <1>11, <2>7, <3>1, <3>3, <3>4 DEF ArtifactRight
    <2> QED BY <2>6, <2>7
  <1> QED BY <1>17, <1>18, <1>19, <1>20 DEF DInv

LEMMA FillKeeps ==
  ASSUME DInv, NEW r \in Requests, Fill(r)
  PROVE  DInv'
  <1>1. KnowsItsWork(r) /\ req[r] \in ReqType /\ req[r].at = "fill"
    BY DEF DInv, Typed, Fill
  <1>2. Lists(r) \/ req[r].op \in {"report", "download"} \/ req[r].op = "artifact"
    BY <1>1 DEF KnowsItsWork, Lists, ReqType
  <1> QED BY <1>2, FillCounterKeeps, FillEntryKeeps, FillReportKeeps, FillArtifactKeeps

-----------------------------------------------------------------------------
(* The process ends. *)

LEMMA CrashKeeps ==
  ASSUME DInv, Crash
  PROVE  DInv'
  <1>1. /\ req' = [r \in Requests |-> Idle] /\ lock' = {} /\ UNCHANGED <<disk, version, named>>
    BY DEF Crash
  <1>2. \A r \in Requests : Pending(r) /\ (req[r].op = "rename" \/ req[r].over)
                              => req[r].about \in spoiled'
    BY DEF Crash, Pending
  <1>3. spoiled \subseteq spoiled'
    BY DEF Crash
  <1>4. Typed /\ \A r \in Requests : KnowsItsWork(r) /\ req[r] \in ReqType
    BY DEF DInv, Typed
  <1>5. \A r \in Requests : req'[r] = Idle /\ req'[r].at = "idle"
    BY <1>1, IdleIsTyped
  <1>6. \A r \in Requests : /\ KnowsItsWork(r)' /\ WritesWhatItShould(r)' /\ ~Lists(r)'
                            /\ \A x \in Meetings \cup Ids : ~(r \in Writers(x))'
    BY <1>5, IdleKnowsItsWork
  <1>7. Typed'
    BY <1>1, <1>4, <1>6, IdleIsTyped, SameFilesTyped DEF Typed
  <1>8. \A r \in Requests : ~TakesNumber(r)'
    BY <1>5, <1>6 DEF TakesNumber
  <1>9. LockRight'
    BY <1>1, <1>8 DEF LockRight
  <1>10. ASSUME Counter \notin spoiled'
         PROVE  NumbersRight'
    <2>1. NumbersRight
      BY <1>3, <1>10 DEF DInv
    <2>2. ASSUME NEW n \in Meetings, NEW j \in Nat, Claims(n, j)'
          PROVE  Claims(n, j) /\ disk[n].index = j
      BY <1>1, <1>6, <2>2 DEF Claims, Whole
    <2>3. Whole(Counter)' => Whole(Counter) /\ disk'[Counter] = disk[Counter]
      BY <1>1 DEF Whole
    <2>4. \A n \in Meetings : \A i, j \in Nat : Claims(n, i)' /\ Claims(n, j)' => i = j
      <3> TAKE n \in Meetings
      <3> TAKE i, j \in Nat
      <3> HAVE Claims(n, i)' /\ Claims(n, j)'
      <3>1. disk[n].index = i /\ disk[n].index = j
        BY <2>2
      <3> QED BY <3>1
    <2> QED BY <1>1, <1>5, <2>1, <2>2, <2>3, <2>4 DEF NumbersRight
  <1>11. \A x \in Meetings \cup Ids : (Writers(x))' = {}
    BY <1>6 DEF Writers
  <1>12. ASSUME NEW m \in Meetings
         PROVE  NameRight(m)'
    <2> SUFFICES ASSUME m \notin spoiled'
                 PROVE  NameRight(m)'
      BY DEF NameRight
    <2>1. NameRight(m) /\ m \notin spoiled
      BY <1>3 DEF DInv
    <2>2. Kept(m)
      <3>1. CASE \A r \in Writers(m) : req[r].at = "look"
        BY <2>1, <3>1 DEF NameRight
      <3>2. ASSUME NEW r \in Writers(m), req[r].at # "look"
            PROVE  Kept(m)
        <4>1. r \in Requests /\ req[r].about = m
          BY DEF Writers
        <4>2. Lists(r) /\ req[r].at # "idle"
          <5>1. req[r].at # "idle"
            BY <1>4, <4>1, IdleIsTyped, FilesDiffer DEF KnowsItsWork
          <5> QED BY <1>4, <4>1, <5>1, FilesDiffer DEF KnowsItsWork, Lists, ReqType, Reports
        <4>3. req[r].at \in {"lock", "scan"} \/ Pending(r)
          BY <1>4, <3>2, <4>1, <4>2 DEF KnowsItsWork, ReqType, Pending
        <4>4. req[r].op = "show" \/ req[r].at \in {"lock", "scan"}
          BY <1>2, <4>1, <4>2, <4>3 DEF Lists
        <4>5. named[m] \notin Names
          BY <2>1, <3>2, <4>4 DEF NameRight
        <4> QED BY <4>5 DEF Kept
      <3> QED BY <3>1, <3>2
    <2>3. Kept(m)'
      BY <1>1, <2>2 DEF Kept, Whole
    <2> QED BY <1>11, <2>3 DEF NameRight
  <1>13. ASSUME NEW id \in Ids
         PROVE  ArtifactRight(id)'
    <2> SUFFICES ASSUME id \notin spoiled'
                 PROVE  ArtifactRight(id)'
      BY DEF ArtifactRight
    <2>1. ArtifactRight(id) /\ id \notin spoiled
      BY <1>3 DEF DInv
    <2>2. Served(id)
      <3>1. CASE \A r \in Writers(id) : req[r].at = "make"
        BY <2>1, <3>1 DEF ArtifactRight
      <3>2. ASSUME NEW r \in Writers(id), req[r].at # "make"
            PROVE  Served(id)
        <4>1. /\ r \in Requests /\ req[r].about = id
              /\ req[r].op = "rename" \/ req[r].at \in {"lock", "scan", "make", "open", "fill"}
          BY DEF Writers
        <4>2. req[r].op = "artifact"
          <5>1. req[r].at # "idle"
            BY <1>4, <4>1, IdleIsTyped, FilesDiffer DEF KnowsItsWork
          <5> QED BY <1>4, <4>1, <5>1, FilesDiffer DEF KnowsItsWork, Lists, ReqType, Reports
        <4>3. Pending(r)
          BY <1>4, <3>2, <4>1, <4>2 DEF KnowsItsWork, ReqType, Pending
        <4>4. ~req[r].over
          BY <1>2, <4>1, <4>3
        <4>5. ~Whole(<<id, "meta">>)
          BY <2>1, <3>2, <4>4 DEF ArtifactRight
        <4> QED BY <4>5 DEF Served
      <3> QED BY <3>1, <3>2
    <2>3. Served(id)'
      BY <1>1, <2>2 DEF Served, Whole
    <2> QED BY <1>11, <2>3 DEF ArtifactRight
  <1> QED BY <1>7, <1>9, <1>10, <1>12, <1>13 DEF DInv

-----------------------------------------------------------------------------
(* From the start, and step by step. *)

LEMMA AtTheStart ==
  ASSUME Init
  PROVE  DInv
  <1>1. /\ disk = [f \in Files |-> Missing] /\ version = 1 /\ lock = {}
        /\ req = [r \in Requests |-> Idle] /\ named = [m \in Meetings |-> "default"]
    BY DEF Init
  <1>2. \A f \in Files : ~Whole(f)
    BY <1>1 DEF Whole
  <1>3. \A r \in Requests : req[r] = Idle
    BY <1>1
  <1>4. \A r \in Requests : /\ req[r].at = "idle" /\ req[r].op = "none"
                            /\ req[r].about = Missing /\ req[r] \in ReqType
    BY <1>3, IdleIsTyped
  <1>5. \A r \in Requests : ~Lists(r) /\ ~Pending(r)
    BY <1>4 DEF Lists, Pending
  <1>6. \A x \in Meetings \cup Ids : Writers(x) = {}
    BY <1>4, FilesDiffer DEF Writers
  <1>7. FilesTyped
    <2>1. disk \in [Files -> Contents]
      BY <1>1, TextsAreWhole
    <2> QED BY <1>2, <2>1, FilesDiffer DEF FilesTyped, Reports
  <1>8. Typed
    <2>1. \A r \in Requests : KnowsItsWork(r) /\ WritesWhatItShould(r)
      BY <1>3, <1>4, <1>5 DEF KnowsItsWork, WritesWhatItShould, Lists
    <2>2. version \in 1..Versions
      BY <1>1, DocumentsAssumption
    <2>3. req \in [Requests -> ReqType] /\ named \in [Meetings -> Names \cup {"default"}]
      BY <1>1, IdleIsTyped
    <2> QED BY <1>7, <2>1, <2>2, <2>3 DEF Typed
  <1>9. LockRight
    BY <1>1, <1>4, <1>5 DEF LockRight, TakesNumber
  <1>10. NumbersRight
    <2>1. \A m \in Meetings : \A i : ~Claims(m, i)
      BY <1>2, <1>5, FilesDiffer DEF Claims
    <2> QED BY <1>1, <1>2, <1>4, <2>1, FilesDiffer DEF NumbersRight
  <1>11. \A m \in Meetings : NameRight(m)
    <2>1. \A m \in Meetings : named[m] \notin Names
      BY <1>1, DocumentsAssumption
    <2> QED BY <1>6, <2>1 DEF NameRight, Kept
  <1>12. \A id \in Ids : ArtifactRight(id)
    <2>1. \A id \in Ids : Served(id)
      BY <1>2, FilesDiffer DEF Served, Parts
    <2> QED BY <1>6, <2>1 DEF ArtifactRight
  <1> QED BY <1>8, <1>9, <1>10, <1>11, <1>12 DEF DInv

LEMMA NothingHappens ==
  ASSUME DInv, UNCHANGED vars
  PROVE  DInv'
  <1>1. UNCHANGED <<disk, version, lock, req, named, spoiled>>
    BY DEF vars
  <1>2. \A r \in Requests : KnowsItsWork(r)' /\ WritesWhatItShould(r)'
    BY <1>1 DEF DInv, Typed, KnowsItsWork, WritesWhatItShould, WritesEntry, WritesReport,
                WritesArtifact, Lists, Pending, Number, Last
  <1>3. Typed'
    BY <1>1, <1>2, SameFilesTyped DEF DInv, Typed
  <1>4. SameEntries
    BY <1>1 DEF SameEntries
  <1>5. LockRight' /\ (Counter \notin spoiled' => NumbersRight')
    BY <1>1, <1>4, NumbersFrame DEF DInv
  <1>6. \A x : SameWriters(x)
    BY <1>1 DEF SameWriters
  <1>7. (\A m \in Meetings : NameRight(m)') /\ (\A id \in Ids : ArtifactRight(id)')
    BY <1>1, <1>6, NameFrame, ArtifactFrame DEF DInv
  <1> QED BY <1>3, <1>5, <1>7 DEF DInv

LEMMA StepKeeps ==
  ASSUME DInv, [Next]_vars
  PROVE  DInv'
  <1>1. ASSUME NEW r \in Requests, Serve(r)
        PROVE  DInv'
    BY <1>1, LookKeeps, TakeCounterKeeps, ScanKeeps, CachedKeeps, MakeReportKeeps, MakeKeeps,
       OpenKeeps, FillKeeps DEF Serve
  <1> QED BY <1>1, AsksKeep, RebuildKeeps, CrashKeeps, NothingHappens DEF Next

LEMMA DocumentsInvariant == Spec => []DInv
  <1> QED BY AtTheStart, StepKeeps, PTL DEF Spec

-----------------------------------------------------------------------------
(* What follows. *)

\* The state of every request, file and lock is as the code can have it; one
\* request at most holds the lock of the counter.
THEOREM DocumentsTyped == Spec => []TypeOK
  <1>1. DInv => TypeOK
    <2> SUFFICES ASSUME DInv
                 PROVE  TypeOK
      OBVIOUS
    <2>1. DOMAIN disk = Files /\ FilesTyped /\ version \in 1..Versions
      BY DEF DInv, Typed, FilesTyped
    <2>2. lock \subseteq Requests /\ Cardinality(lock) <= 1
      <3>1. CASE lock = {}
        <4>1. Cardinality(lock) = 0
          BY <3>1, FS_EmptySet
        <4> QED BY <3>1, <4>1
      <3>2. ASSUME NEW r \in Requests, lock = {r}
            PROVE  lock \subseteq Requests /\ Cardinality(lock) <= 1
        <4>1. Cardinality(lock) = 1
          BY <3>2, FS_Singleton
        <4> QED BY <3>2, <4>1
      <3> QED BY <3>1, <3>2 DEF DInv, LockRight
    <2>3. \A r \in Requests : req[r].at \in
            {"idle", "look", "lock", "scan", "cached", "make", "open", "fill"}
      BY DEF DInv, Typed, ReqType
    <2> QED BY <2>1, <2>2, <2>3 DEF TypeOK, FilesTyped
  <1> QED BY <1>1, DocumentsInvariant, PTL

\* However requests meet in _next_record_index, and wherever the process ends,
\* no two meetings are numbered alike (but for the case IndexesDiffer names).
THEOREM MeetingsAreNumberedApart == Spec => []IndexesDiffer
  <1>1. DInv => IndexesDiffer
    <2> SUFFICES ASSUME DInv, Counter \notin spoiled, NEW m \in Meetings, NEW n \in Meetings,
                        Whole(m), Whole(n), m # n, disk[m].index = disk[n].index
                 PROVE  FALSE
      BY DEF IndexesDiffer
    <2>1. disk[m].index \in Nat
      BY DEF DInv, Typed, FilesTyped, Entries
    <2>2. Claims(m, disk[m].index) /\ Claims(n, disk[m].index)
      BY DEF Claims
    <2>3. NumbersRight
      BY DEF DInv
    <2> QED BY <2>1, <2>2, <2>3 DEF NumbersRight
  <1> QED BY <1>1, DocumentsInvariant, PTL

\* A name given by update_meeting_display_name stays, whatever else is asked of
\* the meeting, unless two requests write its entry at once or a restart cuts a
\* rename short.
THEOREM MeetingsKeepTheirNames == Spec => []NameIsKept
  <1>1. DInv => NameIsKept
    BY DEF DInv, NameRight, Kept, NameIsKept
  <1> QED BY <1>1, DocumentsInvariant, PTL

\* What _generate_llm_artifact finds made already is whole and of its transcript,
\* restarts of the process included.
THEOREM ArtifactsServedAreWhole == Spec => []ArtifactIsWhole
  <1>1. DInv => ArtifactIsWhole
    BY DEF DInv, ArtifactRight, Served, ArtifactIsWhole
  <1> QED BY <1>1, DocumentsInvariant, PTL
=============================================================================
