----------------------------- MODULE PolicySpecs -----------------------------
(***************************************************************************)
(* What the TrafficPolicy plugin makes of one TrafficPolicy: the settings   *)
(* the API admits for each feature, and the construct* functions that turn  *)
(* them into the policy's IR.  A transform reads other objects through its  *)
(* krt context, which records what it has read, so every result carries the *)
(* reads it made: `reads` of a result is what a krt.Fetch registered.       *)
(*                                                                         *)
(* `w` is what the transform can see: w.extension (translated extensions),  *)
(* w.secret (secret data) and w.grant (index keys of the ReferenceGrants).  *)
(* A setting is a record whose absent fields are the API's nil pointers.    *)
(***************************************************************************)
EXTENDS Naturals, SequencesExt

CONSTANTS Nil,
          Extension, Secret,      \* names of GatewayExtensions and Secrets
          Backend, ConfigMap,
          NsOf,                   \* the namespace of every named object
          ReferenceGrantMode,     \* "Off" | "On" | "Strict"
          ValidationMode          \* "Standard" | "Strict"

Has(r, f) == f \in DOMAIN r
Opt(r, f, default) == IF Has(r, f) THEN r[f] ELSE default

Skipped == [ir |-> Nil, err |-> Nil, reads |-> {}]
Built(ir, reads) == [ir |-> ir, err |-> Nil, reads |-> reads]
Failed(err, reads) == [ir |-> Nil, err |-> err, reads |-> reads]

Disable == [disable |-> TRUE]

-----------------------------------------------------------------------------
(* Settings the CRD admits, feature by feature.                             *)

TransformationPolicy == {[empty |-> TRUE], [request |-> "add"]}
ExtProcPolicy == {Disable} \cup [ref : Extension, processingMode : {"default", "streamed"}]
ExtAuthPolicy == {Disable} \cup [ref : Extension, withRequestBody : BOOLEAN]
LocalRateLimitPolicy == {[empty |-> TRUE], [tokenBucket |-> 1], [tokenBucket |-> 1, percentEnabled |-> 0],
                         [tokenBucket |-> 1, shareAcrossGateway |-> TRUE]}
RateLimitEntry == {[type |-> "Generic", generic |-> "k"], [type |-> "Header", header |-> "h"],
                   [type |-> "RemoteAddress"], [type |-> "Path"]}
GlobalRateLimitPolicy == [ref : Extension, descriptors : {<<<<e>>>> : e \in RateLimitEntry}]
CorsPolicy == {Disable, [origins |-> "valid"], [origins |-> "invalid"]}
CSRFPolicy == {[none |-> TRUE], [percentageEnabled |-> 50], [percentageEnabled |-> 50, percentageShadowed |-> 10]}
Codec == {"brotli", "gzip"}
CompressionPolicy == {[responseCompression |-> [libraries |-> <<>>]],
                      [responseCompression |-> [libraries |-> <<"gzip", "brotli">>, disable |-> TRUE]],
                      [requestDecompression |-> [libraries |-> <<"gzip", "brotli">>]],
                      [requestDecompression |-> [libraries |-> <<"brotli", "gzip">>]]}
HTTPHeader == {[name |-> "x", value |-> "v"]} \cup [secret : Secret]
              \cup [secret : Secret, key : {1, 2}]
HeaderModifiers == {[request |-> <<h>>] : h \in HTTPHeader} \cup {[response |-> <<h>>] : h \in HTTPHeader}
RequestMirrorPolicy == {[hostRewriteLiteral |-> "m"]}
AutoHostRewrite == {[enabled |-> TRUE], [enabled |-> FALSE]}
BufferPolicy == {Disable, [maxRequestSize |-> 1], [maxRequestSize |-> 1, filterStage |-> "AuthN"]}
UpgradeType == {"websocket", "CONNECT"}
ProtocolUpgradeConfig == {[type |-> "websocket"], [type |-> "CONNECT"], [type |-> "CONNECT", terminate |-> TRUE]}
HTTPUpgrade == {<<u>> : u \in ProtocolUpgradeConfig} \cup {<<[type |-> "websocket"], [type |-> "CONNECT"]>>}
FaultInjectionPolicy == {Disable, [delay |-> 1], [abort |-> [httpStatus |-> 503]], [abort |-> [grpcStatus |-> 14]]}
ACLPolicy == {<<"address">>, <<"network">>, <<"network", "hostBits">>, <<"malformed">>}
Timeouts == {[request |-> 2], [request |-> 2, streamIdle |-> 1]}
RetryPolicy == {[attempts |-> 1], [attempts |-> 1, perTryTimeout |-> 1]}
InternalRedirectPolicy == {[maxRedirects |-> 1], [codes |-> <<302>>]}
Authorization == [action : {"Allow", "Deny"}, matchExpressions : {<<>>, <<"valid">>, <<"valid", "valid">>, <<"invalid">>}]
APIKeyAuth == {Disable, [secretSelector |-> TRUE]} \cup [secretRef : Secret]
              \cup [secretRef : Secret, keySources : {<<"header">>}]
JWTAuth == {Disable} \cup [ref : Extension]
OAuth2Policy == [ref : Extension]
RouteTracing == {Disable, [clientSampling |-> 10]}
URLRewrite == {[pathRegex |-> "valid"], [pathRegex |-> "invalid"], [none |-> TRUE]}
StatPrefix == {[template |-> "route"]}
HtpasswdLine == [form : {"entry"}, user : {1, 2}, hash : {"sha", "other-sha", "md5"}]
                \cup {[form |-> "comment"], [form |-> "malformed"]}
BasicAuthPolicy == {Disable} \cup [secretRef : Secret]
                   \cup {[users |-> u] : u \in {<<l>> : l \in HtpasswdLine}}

\* The rules of TrafficPolicySpec that relate two of its fields.
Admitted(spec) ==
    /\ Has(spec, "buffer") /\ Has(spec, "httpUpgrade") => Has(spec.buffer, "disable")
    /\ Has(spec, "retry") /\ Has(spec, "timeouts") =>
         (Has(spec.retry, "perTryTimeout") => spec.retry.perTryTimeout < spec.timeouts.request)

-----------------------------------------------------------------------------
(* Lookups that cross a namespace ask for a ReferenceGrant.                 *)

\* ReferenceAllowed looks for a grant for the whole kind before one that names
\* the object; each lookup is a fetch of its own.
ReferenceAllowed(w, fromKind, fromNs, kind, o) ==
    LET wide == <<"grant", fromKind, kind, "*">>
        named == <<"grant", fromKind, kind, o>>
    IN IF ReferenceGrantMode = "Off" \/ NsOf[o] = fromNs THEN [yes |-> TRUE, reads |-> {}]
       ELSE IF wide \in w.grant THEN [yes |-> TRUE, reads |-> {wide}]
       ELSE [yes |-> named \in w.grant, reads |-> {wide, named}]

GetSecret(w, fromKind, fromNs, s) ==
    LET allowed == ReferenceAllowed(w, fromKind, fromNs, "Secret", s)
        reads == allowed.reads \cup {<<"secret", s>>}
    IN CASE ~allowed.yes -> Failed("missing grant", allowed.reads)
         [] allowed.yes /\ w.secret[s] = Nil -> Failed("not found", reads)
         [] OTHER -> Built(w.secret[s], reads)

\* Every labelled secret the policy may read; the others are passed over.
GetSecretsBySelector(w, fromKind, fromNs) ==
    LET matched == {s \in Secret : w.secret[s] # Nil /\ w.secret[s].labelled}
        foreign == {s \in matched : NsOf[s] # fromNs}
        look == [s \in foreign |-> ReferenceAllowed(w, fromKind, fromNs, "Secret", s)]
        allowed == {s \in matched : s \in foreign => look[s].yes}
        reads == {<<"secrets">>} \cup UNION {look[s].reads : s \in foreign}
    IN IF allowed = {} /\ foreign # {} THEN Failed("missing grant", reads)
       ELSE Built(allowed, reads)

FetchGatewayExtension(w, ns, ref) ==
    LET allowed == IF ReferenceGrantMode = "Strict"
                   THEN ReferenceAllowed(w, "TrafficPolicy", ns, "GatewayExtension", ref)
                   ELSE [yes |-> TRUE, reads |-> {}]
        reads == allowed.reads \cup {<<"extension", ref>>}
        e == w.extension[ref]
    IN IF ~allowed.yes THEN Failed("missing grant", allowed.reads)
       ELSE IF e = Nil THEN Failed("extension not found", reads)
       ELSE IF e.err # Nil THEN Failed(e.err, reads)
       ELSE Built(e, reads)

\* The extension a feature refers to, or why it cannot be used: `kind` is the
\* provider field of the extension's IR the feature needs.
Provider(w, ns, ref, kind) ==
    LET r == FetchGatewayExtension(w, ns, ref)
    IN IF r.err = Nil /\ r.ir.kind # kind THEN Failed("invalid extension type", r.reads) ELSE r

-----------------------------------------------------------------------------
(* Features that refer to a GatewayExtension.                               *)

\* convertFilterStageSpec
FilterStage(stage, default) == IF stage = Nil THEN default ELSE stage

constructExtProc(w, p) ==
    LET s == p.spec.extProc
        r == Provider(w, p.ns, s.ref, "extProc")
    IN IF Has(s, "disable") THEN Built([disableAllProviders |-> TRUE], {})
       ELSE IF r.err # Nil THEN r
       ELSE Built([provider |-> r.ir, perRoute |-> s.processingMode,
                   filterStage |-> FilterStage(r.ir.filterStage, "after AuthZ")], r.reads)

\* A per-route override exists only when there is something to override.
buildExtAuthPerRouteFilterConfig(s) == IF s.withRequestBody THEN "check settings" ELSE Nil

constructExtAuth(w, p) ==
    LET s == p.spec.extAuth
        r == Provider(w, p.ns, s.ref, "extAuth")
    IN IF Has(s, "disable") THEN Built([disableAllProviders |-> TRUE], {})
       ELSE IF r.err # Nil THEN r
       ELSE Built([provider |-> r.ir, perRoute |-> buildExtAuthPerRouteFilterConfig(s)], r.reads)

\* Every descriptor with an entry becomes one RateLimit of its entries' actions.
createRateLimitActions(descriptors) ==
    LET action(e) == CASE e.type = "Generic" -> <<"generic_key", e.generic>>
                       [] e.type = "Header" -> <<"request_headers", e.header>>
                       [] e.type = "RemoteAddress" -> <<"remote_address">>
                       [] e.type = "Path" -> <<"request_headers", ":path">>
        limits == [i \in DOMAIN descriptors |->
                     [j \in DOMAIN descriptors[i] |-> action(descriptors[i][j])]]
    IN SelectSeq(limits, LAMBDA l : l # <<>>)

constructGlobalRateLimit(w, p) ==
    LET s == p.spec.globalRateLimit
        r == Provider(w, p.ns, s.ref, "rateLimit")
    IN IF s.descriptors = <<>> THEN Failed("no descriptor", {})
       ELSE IF r.err # Nil THEN r
       ELSE Built([provider |-> r.ir, actions |-> createRateLimitActions(s.descriptors)], r.reads)

constructJwt(w, p) ==
    LET s == p.spec.jwt
        r == Provider(w, p.ns, s.ref, "jwt")
    IN IF Has(s, "disable") THEN Built([disableAllProviders |-> TRUE], {})
       ELSE IF r.err # Nil THEN r
       ELSE Built([provider |-> r.ir, requirement |-> s.ref], r.reads)

constructOAuth2(w, p) ==
    LET r == Provider(w, p.ns, p.spec.oauth2.ref, "oauth2")
    IN IF r.err # Nil THEN r ELSE Built([provider |-> r.ir], r.reads)

-----------------------------------------------------------------------------
(* Features that read Secrets.                                              *)

\* resolveHeader: a literal, one key of the secret, or all of them in order.
resolveHeader(w, p, h) ==
    LET r == GetSecret(w, "TrafficPolicy", p.ns, h.secret)
        names == SetToSortSeq(DOMAIN r.ir.keys, LAMBDA a, b : a < b)
    IN IF Has(h, "value") THEN Built(<<<<h.name, h.value>>>>, {})
       ELSE IF r.err # Nil THEN r
       ELSE IF ~Has(h, "key") THEN Built([i \in DOMAIN names |-> <<names[i], r.ir.keys[names[i]]>>], r.reads)
       ELSE IF h.key \notin DOMAIN r.ir.keys THEN Failed("no such key", r.reads)
       ELSE Built(<<<<h.key, r.ir.keys[h.key]>>>>, r.reads)

\* ConvertHeaderFilter stops at the first header it cannot resolve.
UpToFailure(resolved) ==
    LET bad == {i \in DOMAIN resolved : resolved[i].err # Nil}
    IN IF bad # {}
       THEN Failed(resolved[Min(bad)].err, UNION {resolved[i].reads : i \in 1 .. Min(bad)})
       ELSE Built(FlattenSeq([i \in DOMAIN resolved |-> resolved[i].ir]), UNION {resolved[i].reads : i \in DOMAIN resolved})

ConvertHeaderFilter(w, p, headers) ==
    UpToFailure([i \in DOMAIN headers |-> resolveHeader(w, p, headers[i])])

HeaderMutations(request, response) ==
    IF request.err # Nil THEN request
    ELSE IF response.err # Nil THEN Failed(response.err, request.reads \cup response.reads)
    ELSE Built([mutations |-> IF request.ir = <<>> /\ response.ir = <<>> THEN Nil
                              ELSE <<request.ir, response.ir>>], request.reads \cup response.reads)

constructHeaderModifiers(w, p) ==
    HeaderMutations(ConvertHeaderFilter(w, p, Opt(p.spec.headerModifiers, "request", <<>>)),
                    ConvertHeaderFilter(w, p, Opt(p.spec.headerModifiers, "response", <<>>)))

\* The secrets an apiKeyAuth reads: the one it names, or the labelled ones.
apiKeySecrets(w, p) ==
    LET s == p.spec.apiKeyAuth
        named == GetSecret(w, "TrafficPolicy", p.ns, s.secretRef)
        selected == GetSecretsBySelector(w, "TrafficPolicy", p.ns)
    IN IF Has(s, "secretRef")
       THEN IF named.err # Nil THEN named ELSE Built({s.secretRef}, named.reads)
       ELSE IF selected.err = Nil /\ selected.ir = {} THEN Failed("no secret selected", selected.reads)
       ELSE selected

\* parsedAPIKey: a client, its key and the secret it came from; empty keys are
\* no credentials.
parsedAPIKeys(w, secrets) ==
    UNION {{[client |-> c, key |-> w.secret[s].keys[c], secret |-> s] :
              c \in {x \in DOMAIN w.secret[s].keys : w.secret[s].keys[x] # 0}} : s \in secrets}

\* The order in which Go ranges over the secrets and their data is arbitrary.
IterationOrders(w, p) ==
    IF ~Has(p.spec, "apiKeyAuth") \/ Has(p.spec.apiKeyAuth, "disable") THEN {<<>>}
    ELSE LET r == apiKeySecrets(w, p)
         IN IF r.err # Nil THEN {<<>>} ELSE SetToSeqs(parsedAPIKeys(w, r.ir))

\* Orders of Secret names, as strings.Compare sees them.
CONSTANT SecretOrder

Earlier(a, b) ==
    \/ a.client < b.client
    \/ a.client = b.client /\ a.key < b.key
    \/ a.client = b.client /\ a.key = b.key /\ SecretOrder[a.secret] < SecretOrder[b.secret]

Unsorted(parsed) == parsed
BySecretOrder(parsed) == SortSeq(parsed, Earlier)

\* One credential per key value: the first in order.  A later one of the same
\* client repeats it; of another client it makes the key ambiguous.
keepAllCredentials(parsed) ==
    [credentials |-> [i \in DOMAIN parsed |-> [client |-> parsed[i].client, key |-> parsed[i].key]],
     ambiguous |-> FALSE]
dedupeAPIKeyCredentials(parsed) ==
    LET sorted == BySecretOrder(parsed)
        prev(i) == {j \in 1 .. i - 1 : sorted[j].key = sorted[i].key}
        kept == {i \in DOMAIN sorted : prev(i) = {}}
        order == SetToSortSeq(kept, LAMBDA a, b : a < b)
    IN [credentials |-> [n \in DOMAIN order |-> [client |-> sorted[order[n]].client, key |-> sorted[order[n]].key]],
        ambiguous |-> \E i \in DOMAIN sorted \ kept : sorted[Min(prev(i))].client # sorted[i].client]

constructAPIKeyAuth(w, p, parsed) ==
    LET s == p.spec.apiKeyAuth
        r == apiKeySecrets(w, p)
        d == dedupeAPIKeyCredentials(parsed)
    IN IF Has(s, "disable") THEN Built([disable |-> TRUE], {})
       ELSE IF r.err # Nil THEN r
       ELSE IF d.ambiguous THEN Failed("duplicate API key value", r.reads)
       ELSE IF d.credentials = <<>> THEN Failed("no valid API keys", r.reads)
       ELSE Built([credentials |-> d.credentials, keySources |-> Opt(s, "keySources", <<"api-key header">>)], r.reads)

\* Users Envoy accepts, in order, and whether an entry had to be dropped: a
\* repeated entry is collapsed, a user with two hashes is an error.
validateAndFilterSHAUsers(lines) ==
    LET sha(i) == lines[i].form = "entry" /\ lines[i].hash # "md5"
        seen(i) == {j \in 1 .. i - 1 : sha(j) /\ lines[j].user = lines[i].user}
        valid == {i \in DOMAIN lines : sha(i) /\ seen(i) = {}}
        invalid == {i \in DOMAIN lines :
                      \/ lines[i].form = "malformed"
                      \/ lines[i].form = "entry" /\ lines[i].hash = "md5"
                      \/ sha(i) /\ seen(i) # {} /\ lines[Min(seen(i))].hash # lines[i].hash}
        order == SetToSortSeq(valid, LAMBDA a, b : a < b)
    IN [valid |-> [n \in DOMAIN order |-> lines[order[n]]], invalid |-> invalid # {}]

fetchHtpasswdFromSecret(w, p, s) ==
    LET r == GetSecret(w, "TrafficPolicy", p.ns, s)
    IN IF r.err # Nil THEN r
       ELSE IF r.ir.htpasswd = <<>> THEN Failed("no htpasswd data", r.reads)
       ELSE Built(r.ir.htpasswd, r.reads)

constructBasicAuth(w, p) ==
    LET s == p.spec.basicAuth
        r == IF Has(s, "users") THEN Built(s.users, {}) ELSE fetchHtpasswdFromSecret(w, p, s.secretRef)
        users == validateAndFilterSHAUsers(r.ir)
    IN IF Has(s, "disable") THEN Built([disable |-> TRUE], {})
       ELSE IF r.err # Nil THEN r
       ELSE IF users.invalid THEN Failed("dropped users", r.reads)
       ELSE IF users.valid = <<>> THEN Failed("no valid users", r.reads)
       ELSE Built([users |-> users.valid], r.reads)

-----------------------------------------------------------------------------
(* Features that depend on the policy alone.                                *)

constructRustformation(p) ==
    Built([config |-> IF Has(p.spec.rustformation, "empty") THEN Nil ELSE p.spec.rustformation.request], {})

\* An empty policy switches rate limiting off; percentages default to 100.
toLocalRateLimitFilterConfig(t) ==
    IF Has(t, "empty") THEN [disabled |-> TRUE]
    ELSE [tokenBucket |-> t.tokenBucket, enabled |-> Opt(t, "percentEnabled", 100),
          enforced |-> Opt(t, "percentEnforced", 100), shared |-> Opt(t, "shareAcrossGateway", FALSE)]
constructLocalRateLimit(p) == Built(toLocalRateLimitFilterConfig(p.spec.localRateLimit), {})

constructCORS(p) ==
    Built([policy |-> IF Has(p.spec.cors, "disable") THEN "disabled" ELSE p.spec.cors.origins], {})

constructCSRF(p) ==
    Built([enabled |-> Opt(p.spec.csrf, "percentageEnabled", 0), shadow |-> Opt(p.spec.csrf, "percentageShadowed", Nil)], {})

OrGzip(libraries) == IF libraries = <<>> THEN <<"gzip">> ELSE libraries

\* Decompression is selected by Content-Encoding, so its list is put in order.
constructCompression(p) ==
    LET s == p.spec.compression
    IN IF Has(s, "responseCompression")
       THEN Built([enable |-> ~Has(s.responseCompression, "disable"), libraries |-> OrGzip(s.responseCompression.libraries)], {})
       ELSE Built([enable |-> ~Has(s.requestDecompression, "disable"),
                   libraries |-> SelectSeq(<<"brotli", "gzip">>, LAMBDA c : Contains(OrGzip(s.requestDecompression.libraries), c))], {})

constructRequestMirror(p) == Built(p.spec.requestMirror, {})
constructAutoHostRewrite(p) == Built([enabled |-> p.spec.autoHostRewrite.enabled], {})

\* A policy that only disables buffering expresses no placement.
constructBuffer(p) ==
    IF Has(p.spec.buffer, "disable") THEN Built([disabled |-> TRUE, filterStage |-> Nil], {})
    ELSE Built([max |-> p.spec.buffer.maxRequestSize, filterStage |-> FilterStage(Opt(p.spec.buffer, "filterStage", Nil), "default")], {})

constructHTTPUpgrade(p) ==
    LET u == p.spec.httpUpgrade
    IN IF Has(p.spec, "buffer") /\ ~Has(p.spec.buffer, "disable") THEN Failed("buffer with httpUpgrade", {})
       ELSE IF \E i, j \in DOMAIN u : i # j /\ u[i].type = u[j].type THEN Failed("duplicate upgrade type", {})
       ELSE Built([i \in DOMAIN u |-> [type |-> u[i].type, connect |-> Opt(u[i], "terminate", FALSE)]], {})

constructFaultInjection(p) ==
    LET f == p.spec.faultInjection
        abort == IF ~Has(f, "abort") THEN Nil
                 ELSE IF Has(f.abort, "httpStatus") THEN <<"http", f.abort.httpStatus>> ELSE <<"grpc", f.abort.grpcStatus>>
    IN Built([httpFault |-> IF Has(f, "disable") THEN Nil ELSE [delay |-> Opt(f, "delay", Nil), abort |-> abort]], {})

\* Host bits below the mask make a CIDR invalid; a bare address has none.
validateACLCIDRs(cidrs) == \A i \in DOMAIN cidrs : cidrs[i] \in {"address", "network"}
constructHttpACL(p) == IF validateACLCIDRs(p.spec.httpACL) THEN Built(p.spec.httpACL, {}) ELSE Failed("invalid CIDR", {})

constructTimeouts(p) ==
    Built([route |-> Opt(p.spec.timeouts, "request", Nil), idle |-> Opt(p.spec.timeouts, "streamIdle", Nil)], {})
constructRetry(p) == Built(p.spec.retry, {})
constructInternalRedirect(p) == Built(p.spec.internalRedirect, {})

\* Matching requests get the action, the others its inverse; without an
\* expression everything is denied, and an expression that does not parse is an error.
translateRBAC(r) ==
    IF r.matchExpressions = <<>> THEN [match |-> Nil, noMatch |-> "Deny"]
    ELSE [match |-> r.action, noMatch |-> IF r.action = "Deny" THEN "Allow" ELSE "Deny"]
createCELMatcherFails(exprs) == \E i \in DOMAIN exprs : exprs[i] = "invalid"
constructRBAC(p) ==
    IF createCELMatcherFails(p.spec.rbac.matchExpressions) THEN Failed("CEL", {}) ELSE Built(translateRBAC(p.spec.rbac), {})

constructRouteTracing(p) ==
    LET t == p.spec.tracing
        off == Has(t, "disable")
        sampling(f) == IF off THEN 0 ELSE Opt(t, f, Nil)
    IN Built([client |-> sampling("clientSampling"), random |-> sampling("randomSampling"), overall |-> sampling("overallSampling")], {})
constructURLRewrite(p) == Built([regex |-> Opt(p.spec.urlRewrite, "pathRegex", Nil)], {})
constructStatPrefix(p) == Built([template |-> p.spec.statPrefix.template], {})

-----------------------------------------------------------------------------
(* The whole policy.                                                        *)

Features == {"rustformation", "extProc", "extAuth", "localRateLimit", "globalRateLimit", "cors", "csrf",
             "compression", "headerModifiers", "requestMirror", "autoHostRewrite", "buffer", "httpUpgrade",
             "faultInjection", "httpACL", "timeouts", "retry", "internalRedirect", "rbac", "apiKeyAuth", "jwt",
             "oauth2", "tracing", "urlRewrite", "statPrefix", "basicAuth"}

construct(w, p, f, parsed) ==
    CASE f = "rustformation" -> constructRustformation(p)  [] f = "extProc" -> constructExtProc(w, p)
      [] f = "extAuth" -> constructExtAuth(w, p)           [] f = "localRateLimit" -> constructLocalRateLimit(p)
      [] f = "globalRateLimit" -> constructGlobalRateLimit(w, p) [] f = "cors" -> constructCORS(p)
      [] f = "csrf" -> constructCSRF(p)                    [] f = "compression" -> constructCompression(p)
      [] f = "headerModifiers" -> constructHeaderModifiers(w, p) [] f = "requestMirror" -> constructRequestMirror(p)
      [] f = "autoHostRewrite" -> constructAutoHostRewrite(p) [] f = "buffer" -> constructBuffer(p)
      [] f = "httpUpgrade" -> constructHTTPUpgrade(p)      [] f = "faultInjection" -> constructFaultInjection(p)
      [] f = "httpACL" -> constructHttpACL(p)              [] f = "timeouts" -> constructTimeouts(p)
      [] f = "retry" -> constructRetry(p)                  [] f = "internalRedirect" -> constructInternalRedirect(p)
      [] f = "rbac" -> constructRBAC(p)                    [] f = "apiKeyAuth" -> constructAPIKeyAuth(w, p, parsed)
      [] f = "jwt" -> constructJwt(w, p)                   [] f = "oauth2" -> constructOAuth2(w, p)
      [] f = "tracing" -> constructRouteTracing(p)         [] f = "urlRewrite" -> constructURLRewrite(p)
      [] f = "statPrefix" -> constructStatPrefix(p)        [] f = "basicAuth" -> constructBasicAuth(w, p)

\* ConstructIR builds every feature the spec sets and collects what failed; a
\* feature that failed is missing from the IR and leaves the others alone.
Collected(built) ==
    LET failed == {f \in DOMAIN built : built[f].err # Nil}
    IN [ir |-> [f \in DOMAIN built \ failed |-> built[f].ir],
        errors |-> {<<f, built[f].err>> : f \in failed},
        reads |-> UNION {built[f].reads : f \in DOMAIN built}]

ConstructIR(w, p, parsed) == Collected([f \in DOMAIN p.spec |-> construct(w, p, f, parsed)])

\* TrafficPolicy.Equals compares the policies feature by feature.
TrafficPolicyEquals(a, b) == \A f \in Features : Opt(a, f, Nil) = Opt(b, f, Nil)

\* Validate: what the proto rules reject in what was built.
Validate(ir) ==
    {<<f, "invalid">> : f \in {g \in DOMAIN ir : \/ g = "cors" /\ ir[g].policy = "invalid"
                                                 \/ g = "urlRewrite" /\ ir[g].regex = "invalid"}}

\* In strict mode Envoy also sees what passed: it does not accept a per-route
\* stream to an extension with a bad path prefix.
validateXDS(ir) ==
    {<<f, "rejected">> : f \in {g \in DOMAIN ir : g = "extAuth" /\ Has(ir[g], "provider") /\ ir[g].provider.prefix = "bad"}}

validateWithValidationLevel(ir) ==
    IF Validate(ir) # {} \/ ValidationMode = "Standard" THEN Validate(ir) ELSE validateXDS(ir)

-----------------------------------------------------------------------------
\* The API of a GatewayExtension: exactly one provider.
ExtAuthProvider == {[extAuth |-> "none"]} \cup [extAuth : {"grpc"}, backend : Backend]
                   \cup [extAuth : {"http"}, backend : Backend, prefix : {"good", "bad"}]
ExtProcProvider == [extProc : Backend, filterStage : {Nil, "before AuthN"}]
RateLimitProvider == [rateLimit : Backend]
JwksKey == {"pem", "jwks", "emptySet", "jwk", "junk"}
JWKS == [inline : JwksKey] \cup [configMap : ConfigMap] \cup [remote : Backend]
JWTProviders == [jwt : {<<k>> : k \in JWKS} \cup {<<[inline |-> "jwk"], k>> : k \in JWKS},
                 validationMode : {"Strict", "AllowMissing", "AllowMissingOrFailed"}]
Endpoint == {"token", "authorization", "endSession", "jwks"}
\* The issuer, or both endpoints; a JWT needs the issuer or its own JWKS.
OAuth2Provider ==
    {o \in [oauth2 : Backend, jwksBackend : Backend, issuerURI : BOOLEAN, endpoints : SUBSET Endpoint,
            clientSecret : Secret, tokens : SUBSET {"access", "id"}] :
        /\ o.issuerURI \/ {"token", "authorization"} \subseteq o.endpoints
        /\ o.tokens # {} => o.issuerURI \/ "jwks" \in o.endpoints}
=============================================================================
