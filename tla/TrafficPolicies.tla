--------------------------- MODULE TrafficPolicies ---------------------------
(***************************************************************************)
(* The TrafficPolicy plugin as two chained krt collections: GatewayExtension *)
(* objects become extension IRs, TrafficPolicies become policy wrappers that *)
(* embed the IR of the extensions they refer to.  Both transforms read       *)
(* backends, secrets, config maps and ReferenceGrants; a row is translated   *)
(* again when something it has read changes, and an event goes downstream    *)
(* only when the new row is not Equals to the old one.                       *)
(***************************************************************************)
EXTENDS PolicySpecs, TLC

CONSTANTS Policy,
          GrantKey,          \* index keys of the ReferenceGrants that may exist
          HMACSecret,        \* the secret of the OAuth2 filter, outside the policies' reach
          Start,             \* specs of the policies and extensions at startup, and how
                             \* many changes of the cluster may follow: a bound
          ExtensionSpec,     \* specs an extension may be given later
          SecretData, InitialSecret, ConfigMapData

VARIABLES policy,      \* policy[p]: the TrafficPolicy, or Nil
          extension,   \* extension[e]: the spec of the GatewayExtension, or Nil
          secret, configMap, backend, grant,
          issuer,      \* what OIDC discovery of the issuer yields
          extRow,      \* extRow[e]: the translated extension and what it read, or Nil
          polRow,      \* polRow[p]: the policy wrapper and what it read, or Nil
          extDirty, polDirty,    \* rows whose transform is due
          events       \* changes of the cluster that may still come

objects == <<policy, extension, secret, configMap, backend, grant, issuer>>
vars == <<policy, extension, secret, configMap, backend, grant, issuer, extRow, polRow, extDirty, polDirty, events>>

-----------------------------------------------------------------------------
(* The GatewayExtension transform.                                          *)

World == [secret |-> secret, configMap |-> configMap, backend |-> backend, grant |-> grant, issuer |-> issuer]

GetBackendFromRef(w, ns, b) ==
    LET allowed == ReferenceAllowed(w, "GatewayExtension", ns, "Service", b)
        reads == allowed.reads \cup {<<"backend", b>>}
    IN IF ~allowed.yes THEN Failed("missing grant", allowed.reads)
       ELSE IF w.backend[b] = Nil THEN Failed("backend not found", reads)
       ELSE Built(b, reads)

ResolveExtGrpcService(w, ns, b) == GetBackendFromRef(w, ns, b)
ResolveExtHttpService(w, ns, b) == GetBackendFromRef(w, ns, b)

\* A PEM block, a non-empty key set or a single key.
TranslateKey(k) == k \in {"pem", "jwks", "jwk"}
translateJwksInline(k, reads) == IF TranslateKey(k) THEN Built(<<"keys", k>>, reads) ELSE Failed("cannot parse local jwks", reads)
translateJwksConfigMap(data, reads) ==
    IF data = "" THEN Failed("configmap key not found", reads) ELSE translateJwksInline(data, reads)
GetConfigMap(w, c) ==
    IF w.configMap[c] = Nil THEN Failed("configmap not found", {<<"configMap", c>>})
    ELSE Built(w.configMap[c], {<<"configMap", c>>})
translateJwks(w, ns, k) ==
    LET cm == GetConfigMap(w, k.configMap)
    IN IF Has(k, "inline") THEN translateJwksInline(k.inline, {})
       ELSE IF Has(k, "remote") THEN GetBackendFromRef(w, ns, k.remote)
       ELSE IF cm.err # Nil THEN cm ELSE translateJwksConfigMap(cm.ir, cm.reads)
translateProvider(w, ns, k) == translateJwks(w, ns, k)

\* Any of the providers; the lenient modes add an alternative of their own.
buildJwtRequirementFromProviders(n, mode) ==
    LET any == IF n = 1 THEN <<"provider", 1>> ELSE <<"any", n>>
    IN IF mode = "Strict" THEN <<any>> ELSE <<any, mode>>

resolveJwtProviders(w, ns, providers, mode) ==
    LET r == [i \in DOMAIN providers |-> translateProvider(w, ns, providers[i])]
        bad == {i \in DOMAIN r : r[i].err # Nil}
        upTo == IF bad = {} THEN DOMAIN r ELSE 1 .. Min(bad)
        reads == UNION {r[i].reads : i \in upTo}
    IN IF bad # {} THEN Failed(r[Min(bad)].err, reads)
       ELSE Built([providers |-> [i \in DOMAIN r |-> r[i].ir],
                   requirement |-> buildJwtRequirementFromProviders(Len(providers), mode)], reads)

\* Discovery is needed when the issuer is set and an endpoint is left to find.
oidcDiscoveryRequired(o) == o.issuerURI /\ o.endpoints # Endpoint

\* No token, no JWT filter; one requirement stands alone, two are both required.
buildOAuth2JWTConfig(tokens) ==
    IF tokens = {} THEN Nil ELSE IF Cardinality(tokens) = 1 THEN <<"one", tokens>> ELSE <<"all", tokens>>

\* The filter's configuration; its secrets travel with it, by name and value.
oauth2Config(o, endpoints, client, hmac) ==
    [endpoints |-> endpoints, backend |-> o.oauth2, secrets |-> <<client, hmac>>, jwt |-> buildOAuth2JWTConfig(o.tokens)]

\* The first of these that fails is the error of the extension.
buildOAuth2ProviderConfig(w, ns, o) ==
    LET discovered == IF oidcDiscoveryRequired(o) THEN w.issuer ELSE {}
        endpoints == o.endpoints \cup discovered
        d == IF oidcDiscoveryRequired(o) THEN {<<"issuer">>} ELSE {}
        backendR == GetBackendFromRef(w, ns, o.oauth2)
        jwksR == GetBackendFromRef(w, ns, o.jwksBackend)
        client == GetSecret(w, "GatewayExtension", ns, o.clientSecret)
        hmac == w.secret[HMACSecret]
        r1 == d \cup backendR.reads
        r2 == IF o.tokens = {} THEN r1 ELSE r1 \cup jwksR.reads
        r3 == r2 \cup client.reads
        r4 == r3 \cup {<<"secret", HMACSecret>>}
    IN CASE oidcDiscoveryRequired(o) /\ w.issuer = {} -> Failed("discovery", d)
         [] "token" \notin endpoints -> Failed("no token endpoint", d)
         [] "authorization" \notin endpoints -> Failed("no authorization endpoint", d)
         [] backendR.err # Nil -> Failed(backendR.err, r1)
         [] o.tokens # {} /\ jwksR.err # Nil -> Failed(jwksR.err, r2)
         [] client.err # Nil -> Failed(client.err, r3)
         [] client.ir.keys = <<>> -> Failed("no client secret", r3)
         [] hmac = Nil -> Failed("not found", r4)
         [] hmac.keys = <<>> -> Failed("no HMAC secret", r4)
         [] o.tokens # {} /\ "jwks" \notin endpoints -> Failed("no jwksURI", r4)
         [] OTHER -> Built(oauth2Config(o, endpoints, client.ir.keys, hmac.keys), r4)

ProviderKind(x) == IF Has(x, "extAuth") THEN "extAuth" ELSE IF Has(x, "extProc") THEN "extProc"
                   ELSE IF Has(x, "rateLimit") THEN "rateLimit" ELSE IF Has(x, "jwt") THEN "jwt" ELSE "oauth2"

resolveExtension(w, ns, x) ==
    CASE Has(x, "extAuth") -> (IF x.extAuth = "grpc" THEN ResolveExtGrpcService(w, ns, x.backend)
                               ELSE IF x.extAuth = "http" THEN ResolveExtHttpService(w, ns, x.backend)
                               ELSE Failed("no service", {}))
      [] Has(x, "extProc") -> ResolveExtGrpcService(w, ns, x.extProc)
      [] Has(x, "rateLimit") -> ResolveExtGrpcService(w, ns, x.rateLimit)
      [] Has(x, "jwt") -> resolveJwtProviders(w, ns, x.jwt, x.validationMode)
      [] Has(x, "oauth2") -> buildOAuth2ProviderConfig(w, ns, x)

\* The extension's IR is published with its error: a failure leaves no provider.
ExtensionIR(e, x, r) ==
    [ir |-> [name |-> e, kind |-> IF r.err = Nil THEN ProviderKind(x) ELSE Nil, config |-> r.ir, err |-> r.err,
             filterStage |-> IF r.err = Nil THEN Opt(x, "filterStage", Nil) ELSE Nil, prefix |-> Opt(x, "prefix", "good")],
     reads |-> r.reads]
gatewayExtensionBuilder(w, e, x) == ExtensionIR(e, x, resolveExtension(w, NsOf[e], x))

-----------------------------------------------------------------------------
(* The TrafficPolicy transform.                                             *)

PolicyView(w, exts) == [secret |-> w.secret, grant |-> w.grant, extension |-> exts]

\* NewPlugin's transform: construct, validate, parse the precedence annotation.
PolicyWrapper(p, r) ==
    LET annotation == IF p.weightValid THEN {} ELSE {<<"precedence", "annotation">>}
    IN [wrapper |-> [ir |-> r.ir, errors |-> r.errors \cup validateWithValidationLevel(r.ir) \cup annotation,
                     generation |-> p.generation],
        reads |-> r.reads]

TranslateTrafficPolicy(w, p, parsed) == PolicyWrapper(p, ConstructIR(w, p, parsed))

\* TrafficPolicyGatewayExtensionIR.Equals compares every field of the IR, the
\* error by its message; PolicyWrapper.Equals the version, errors and IR.
EqualsIgnoringErr(a, b) == [a EXCEPT !.err = Nil] = [b EXCEPT !.err = Nil]
ExtensionEquals(a, b) == a = b
ErrorsNotCompared(a, b) == a.generation = b.generation /\ TrafficPolicyEquals(a.ir, b.ir)
PolicyEquals(a, b) == a.generation = b.generation /\ a.errors = b.errors /\ TrafficPolicyEquals(a.ir, b.ir)

-----------------------------------------------------------------------------

InitialPolicy(spec) == [spec |-> spec, ns |-> "ns1", generation |-> 1, weightValid |-> TRUE]

\* Startup: the informers have synced and every row is due.
Init ==
    /\ \E s \in Start : /\ Admitted(s.policy)
                        /\ policy = [p \in Policy |-> InitialPolicy(s.policy)]
                        /\ extension = [e \in Extension |-> s.extension]
                        /\ events = s.events
    /\ secret = [s \in Secret \cup {HMACSecret} |-> InitialSecret]
    /\ configMap = [c \in ConfigMap |-> "jwks"]
    /\ backend = [b \in Backend |-> "up"]
    /\ grant = {}
    /\ issuer = Endpoint
    /\ extRow = [e \in Extension |-> Nil]
    /\ polRow = [p \in Policy |-> Nil]
    /\ extDirty = Extension
    /\ polDirty = Policy

Readers(row, key) == {x \in DOMAIN row : row[x] # Nil /\ key \in row[x].reads}

\* krt re-runs a transform when an object it fetched changes.
Touched(keys) ==
    /\ extDirty' = extDirty \cup UNION {Readers(extRow, k) : k \in keys}
    /\ polDirty' = polDirty \cup UNION {Readers(polRow, k) : k \in keys}
    /\ events > 0 /\ events' = events - 1
    /\ UNCHANGED <<extRow, polRow>>

Labelled(d) == d # Nil /\ d.labelled
SetSecret(s, d) ==
    /\ d # secret[s] /\ secret' = [secret EXCEPT ![s] = d]
    /\ Touched({<<"secret", s>>} \cup {k \in {<<"secrets">>} : Labelled(d) \/ Labelled(secret[s])})
    /\ UNCHANGED <<policy, extension, configMap, backend, grant, issuer>>

SetConfigMap(c, d) ==
    /\ d # configMap[c] /\ configMap' = [configMap EXCEPT ![c] = d]
    /\ Touched({<<"configMap", c>>})
    /\ UNCHANGED <<policy, extension, secret, backend, grant, issuer>>

SetBackend(b) ==
    /\ backend' = [backend EXCEPT ![b] = IF backend[b] = Nil THEN "up" ELSE Nil]
    /\ Touched({<<"backend", b>>})
    /\ UNCHANGED <<policy, extension, secret, configMap, grant, issuer>>

SetGrant(g) ==
    /\ grant' = IF g \in grant THEN grant \ {g} ELSE grant \cup {g}
    /\ Touched({g})
    /\ UNCHANGED <<policy, extension, secret, configMap, backend, issuer>>

\* A refresh of the discovery cache that changed the outcome fires its trigger.
SetIssuer(found) ==
    /\ found # issuer /\ issuer' = found
    /\ Touched({<<"issuer">>})
    /\ UNCHANGED <<policy, extension, secret, configMap, backend, grant>>

SetExtension(e, x) ==
    /\ x # extension[e] /\ extension' = [extension EXCEPT ![e] = x]
    /\ events > 0 /\ events' = events - 1
    /\ extDirty' = extDirty \cup {e}
    /\ UNCHANGED <<policy, secret, configMap, backend, grant, issuer, extRow, polRow, polDirty>>

AnnotatePolicy(p) ==
    /\ events > 0 /\ events' = events - 1
    /\ policy' = [policy EXCEPT ![p].weightValid = ~@, ![p].generation = @ + 1]
    /\ polDirty' = polDirty \cup {p}
    /\ UNCHANGED <<extension, secret, configMap, backend, grant, issuer, extRow, polRow, extDirty>>

\* krt keeps the published object when the new one equals it, and always the
\* new dependencies.
PutExtension(e, new) ==
    LET same == extRow[e] # Nil /\ new # Nil /\ ExtensionEquals(extRow[e].ir, new.ir)
    IN /\ extRow' = [extRow EXCEPT ![e] = IF same THEN [@ EXCEPT !.reads = new.reads] ELSE new]
       /\ polDirty' = IF same THEN polDirty ELSE polDirty \cup Readers(polRow, <<"extension", e>>)

TranslateExtension(e) ==
    /\ e \in extDirty /\ extDirty' = extDirty \ {e}
    /\ PutExtension(e, IF extension[e] = Nil THEN Nil ELSE gatewayExtensionBuilder(World, e, extension[e]))
    /\ UNCHANGED <<objects, polRow, events>>

Published == [e \in Extension |-> IF extRow[e] = Nil THEN Nil ELSE extRow[e].ir]

Republished(old, new) ==
    IF old # Nil /\ PolicyEquals(old.wrapper, new.wrapper) THEN [old EXCEPT !.reads = new.reads] ELSE new

TranslatePolicy(p) ==
    LET w == PolicyView(World, Published)
    IN /\ p \in polDirty /\ polDirty' = polDirty \ {p}
       /\ \E parsed \in IterationOrders(w, policy[p]) :
            polRow' = [polRow EXCEPT ![p] = Republished(@, TranslateTrafficPolicy(w, policy[p], parsed))]
       /\ UNCHANGED <<objects, extRow, extDirty, events>>

Next ==
    \/ \E s \in Secret \cup {HMACSecret}, d \in SecretData : SetSecret(s, d)
    \/ \E c \in ConfigMap, d \in ConfigMapData : SetConfigMap(c, d)
    \/ \E b \in Backend : SetBackend(b)
    \/ \E g \in GrantKey : SetGrant(g)
    \/ \E found \in {{}, {"token"}, Endpoint} : SetIssuer(found)
    \/ \E e \in Extension, x \in ExtensionSpec \cup {Nil} : SetExtension(e, x)
    \/ \E p \in Policy : AnnotatePolicy(p)
    \/ \E e \in Extension : TranslateExtension(e)
    \/ \E p \in Policy : TranslatePolicy(p)

Spec == Init /\ [][Next]_vars

-----------------------------------------------------------------------------
(* Properties.                                                              *)

FreshExtensions ==
    [e \in Extension |-> IF extension[e] = Nil THEN Nil ELSE gatewayExtensionBuilder(World, e, extension[e]).ir]

\* Once nothing is due, every policy is what translating the cluster from
\* scratch would make of it, in whatever order Go ranges over the secrets: no
\* read goes unrecorded (a grant, secret or backend that appears later would
\* leave the policy failing), no Equals hides a change of an extension, and no
\* order of iteration leaks into the IR.
PoliciesSettleExact ==
    extDirty = {} /\ polDirty = {} =>
        \A p \in Policy :
            LET w == PolicyView(World, FreshExtensions)
            IN \A parsed \in IterationOrders(w, policy[p]) :
                 polRow[p].wrapper = TranslateTrafficPolicy(w, policy[p], parsed).wrapper

\* No published policy lists an API key or a basic-auth user twice: Envoy would
\* reject the whole RouteConfiguration (dedupeAPIKeyCredentials,
\* validateAndFilterSHAUsers), however the secrets it was read from overlap.
CredentialsUnique ==
    \A p \in Policy : polRow[p] # Nil =>
        LET ir == polRow[p].wrapper.ir
            unique(s, key(_)) == \A i, j \in DOMAIN s : key(s[i]) = key(s[j]) => i = j
        IN /\ "apiKeyAuth" \in DOMAIN ir /\ Has(ir.apiKeyAuth, "credentials") =>
                unique(ir.apiKeyAuth.credentials, LAMBDA c : c.key)
           /\ "basicAuth" \in DOMAIN ir /\ Has(ir.basicAuth, "users") => unique(ir.basicAuth.users, LAMBDA u : u.user)
=============================================================================
