------------------------------ MODULE MCPolicies ------------------------------
(***************************************************************************)
(* Small gateways and policies for RoutePolicies, PolicyMerge,              *)
(* TrafficPolicies and ListenerPolicies.                                    *)
(***************************************************************************)
EXTENDS PolicySpecs, TLC
-----------------------------------------------------------------------------
(* RoutePolicies.  A stage is <<position, before, during or after it>>.    *)
P(id, stage, weight) == [id |-> id, stage |-> stage, weight |-> weight]
On(list) == [off |-> FALSE, list |-> list]
Off == [off |-> TRUE, list |-> <<>>]
None == [n \in {} |-> FALSE]
Good(spec) == [bad |-> FALSE, spec |-> spec]

(* Providers enabled and disabled at every level.                          *)
AuthN == <<3, 0>>         \* DuringStage(AuthNStage)
SwitchSpecs(f) == {None, f :> On(<<P(1, AuthN, 0)>>), f :> On(<<P(2, AuthN, 5)>>), f :> Off}
ProcSpecs == {None, "extProc" :> On(<<P(1, AuthN, 1), P(2, <<8, 1>>, 0)>>), "extProc" :> Off}

(* Buffers that ask for different stages, and decompression.               *)
Buffer(stage) == "buffer" :> [off |-> FALSE, stage |-> stage]
Unpack == "decompression" :> [off |-> FALSE, libs |-> <<1, 3>>]
BufferSpecs == {None, Unpack @@ Buffer(<<6, -2>>), Buffer(<<0, -1>>),
                Buffer(<<1, 0>>), "buffer" :> [off |-> TRUE, stage |-> <<>>]}

(* The route-action fields, valued with the level that sets them.          *)
FieldSpecs(v) == {None, "retry" :> v @@ "mirror" :> v, "timeout" :> v @@ "upgrade" :> v}

Others == {"transformation", "localRateLimit", "cors", "csrf", "headers", "rbac", "fault", "httpACL", "apiKey"}
(* One feature of each kind.                                               *)
MixedSpecs == {None, "oauth2" :> [id |-> 1, stage |-> <<3, -1>>, weight |-> 2, jwt |-> TRUE],
               "compression" :> [off |-> FALSE, libs |-> <<2, 1>>] @@ "cors" :> [off |-> FALSE],
               "rateLimit" :> P(1, <<5, 0>>, 0) @@ "compression" :> [off |-> TRUE],
               [f \in Others |-> [off |-> FALSE]] @@ "basicAuth" :> [off |-> TRUE]}

Route(p, redirect, builtin) == [policy |-> p, redirect |-> redirect, builtin |-> builtin]

(* One chain of two routes under a listener and a gateway policy.          *)
OneChain(Specs(_)) ==
    {[authMetadata |-> m, chains |->
        <<[routes |-> <<Route(Good(a), FALSE, TRUE), Route(Good(b), FALSE, FALSE)>>,
           vhost |-> Good(v), rc |-> Good(g)]>>] :
        m \in BOOLEAN, a \in Specs(1), b \in Specs(2), v \in Specs(3), g \in Specs(4)}

(* Two chains that share the pass; a redirect; a policy in error.          *)
TwoChains(Specs(_)) ==
    {[authMetadata |-> FALSE, chains |->
        <<[routes |-> <<Route([bad |-> bad = 1, spec |-> a], FALSE, FALSE)>>,
           vhost |-> [bad |-> bad = 2, spec |-> v], rc |-> Good(None)],
          [routes |-> <<Route(Good(b), FALSE, TRUE), Route(Good(a), TRUE, FALSE)>>,
           vhost |-> Good(None), rc |-> [bad |-> bad = 3, spec |-> v]]>>] :
        bad \in 0 .. 3, a \in Specs(1), b \in Specs(2), v \in Specs(3)}

S1(i) == SwitchSpecs("extAuth")
S2(i) == SwitchSpecs("jwt")
S3(i) == ProcSpecs
S4(i) == BufferSpecs
S5(i) == MixedSpecs
SomeGateways == OneChain(S1) \cup OneChain(S4) \cup OneChain(S3) \cup OneChain(S5)
                \cup OneChain(FieldSpecs) \cup TwoChains(S1) \cup TwoChains(S2) \cup TwoChains(S5)
SomeFilters == <<[name |-> <<"other", 0>>, stage |-> AuthN, weight |-> 0]>>
-----------------------------------------------------------------------------
(* PolicyMerge: lists of three attached policies.                          *)
DeepField == {"extAuth", "extProc", "transformation", "httpACL"}
Field == DeepField \cup {"cors", "retry", "buffer", "httpUpgrade"}
Unset == [f \in Field |-> <<>>]
With(f, v) == [Unset EXCEPT ![f] = <<v>>]
Calls(p, i) == [list |-> <<[provider |-> p, by |-> i]>>, off |-> FALSE]

(* The specs the i-th policy may have, by the question they are about.     *)
AuthSpecs(i) == {Unset, With("extAuth", Calls("a", i)), With("extAuth", Calls("b", i)),
                 With("extProc", [list |-> <<>>, off |-> TRUE])}
ListSpecs(i) == {With("transformation", [acts |-> <<i>>, body |-> <<i>>]),
                 With("httpACL", [action |-> "allow", rules |-> <<i>>, deny |-> <<>>]),
                 With("httpACL", [action |-> "deny", rules |-> <<i>>, deny |-> <<403>>])}
StreamSpecs(i) == {With("buffer", [on |-> TRUE]), With("buffer", [on |-> FALSE]),
                   [With("httpUpgrade", i) EXCEPT !["cors"] = <<i>>]}

(* Three policies on a route, or on a route and its delegating parents.    *)
Layouts == {<<0, 0, -1>>, <<0, -1, -1>>, <<0, -1, -2>>}
Shallow == {"ShallowMergePreferChild", "ShallowMergePreferParent"}
Inherits == Shallow \cup {"DeepMergePreferChild", "DeepMergePreferParent"}

Lists(Specs(_)) ==
    {[i \in 1 .. 3 |-> [prio |-> l[i], inherited |-> IF i = 1 THEN own ELSE inh,
                        bad |-> FALSE, spec |-> <<s1, s2, s3>>[i]]] :
        l \in Layouts, own \in Shallow, inh \in Inherits,
        s1 \in Specs(1), s2 \in Specs(2), s3 \in Specs(3)}

(* One of the policies could not be constructed.                           *)
OneBad ==
    {[i \in 1 .. 3 |-> [prio |-> l[i], inherited |-> "ShallowMergePreferChild",
                        bad |-> i = b, spec |-> With("cors", i)]] :
        l \in Layouts, b \in 1 .. 3}

SomeLists == Lists(AuthSpecs) \cup Lists(ListSpecs) \cup Lists(StreamSpecs) \cup OneBad

NoOverride == [f \in DeepField |-> ""]
SomeOverrides == {NoOverride, [f \in DeepField |-> IF f = "httpACL" THEN "ShallowMerge" ELSE "DeepMerge"]}
-----------------------------------------------------------------------------
(* TrafficPolicies: one policy, one extension, two secrets.                *)
User(u, h) == [form |-> "entry", user |-> u, hash |-> h]
InitialSecret ==
    [labelled |-> TRUE, keys |-> <<7>>, htpasswd |-> <<User(1, "sha"), [form |-> "comment"], User(1, "sha")>>]
SecretData ==
    {Nil,
     [labelled |-> TRUE, keys |-> <<8, 7, 0>>, htpasswd |-> <<User(1, "sha"), User(1, "other-sha")>>],
     [labelled |-> FALSE, keys |-> <<>>, htpasswd |-> <<>>]}
GrantKey == {<<"grant", "TrafficPolicy", "Secret", "*">>, <<"grant", "TrafficPolicy", "Secret", "s2">>,
               <<"grant", "GatewayExtension", "Service", "b2">>}

Set(f, values) == {[x \in {f} |-> v] : v \in values}
\* Specs of a policy that refers to no other object, to secrets, or to an extension.
Standalone ==
    UNION {Set("rustformation", TransformationPolicy), Set("localRateLimit", LocalRateLimitPolicy), Set("cors", CorsPolicy),
           Set("csrf", CSRFPolicy), Set("compression", CompressionPolicy), Set("headerModifiers", HeaderModifiers),
           Set("requestMirror", RequestMirrorPolicy), Set("autoHostRewrite", AutoHostRewrite), Set("buffer", BufferPolicy),
           Set("httpUpgrade", HTTPUpgrade), Set("faultInjection", FaultInjectionPolicy), Set("httpACL", ACLPolicy),
           Set("timeouts", Timeouts), Set("internalRedirect", InternalRedirectPolicy), Set("rbac", Authorization),
           Set("tracing", RouteTracing), Set("urlRewrite", URLRewrite), Set("statPrefix", StatPrefix),
           [timeouts : Timeouts, retry : RetryPolicy], [buffer : BufferPolicy, httpUpgrade : HTTPUpgrade]}
WithSecrets == Set("apiKeyAuth", APIKeyAuth) \cup Set("basicAuth", BasicAuthPolicy)
Referring ==
    UNION {Set("extProc", ExtProcPolicy), Set("extAuth", ExtAuthPolicy), Set("globalRateLimit", GlobalRateLimitPolicy),
           Set("jwt", JWTAuth), Set("oauth2", OAuth2Policy)}
RateLimiter == [rateLimit |-> "b1"]
MCOAuth2 == {o \in OAuth2Provider : /\ o.clientSecret = "s1" /\ o.oauth2 = "b1"
                                    /\ o.jwksBackend = "b2" => o.tokens # {}
                                    /\ o.endpoints \in {{}, {"token", "authorization"}, Endpoint}}
Providers(f) == CASE f = "extProc" -> ExtProcProvider [] f = "extAuth" -> ExtAuthProvider
                  [] f = "globalRateLimit" -> RateLimitProvider [] f = "jwt" -> JWTProviders [] f = "oauth2" -> MCOAuth2
PolicyStart ==
    [policy : Standalone, extension : {RateLimiter}, events : {1}]
    \cup [policy : WithSecrets, extension : {RateLimiter}, events : {2}]
    \cup UNION {[policy : {s}, extension : {RateLimiter} \cup UNION {Providers(f) : f \in DOMAIN s}, events : {2}] :
                  s \in Referring}
ExtensionSpec == {RateLimiter, [extAuth |-> "grpc", backend |-> "b2"]}
-----------------------------------------------------------------------------
(* ListenerPolicies: three policies, two gateways and two ports.           *)
Http(h) == [http |-> h]
Log(s, b, f) == [sink |-> s, backend |-> b, filter |-> f]
Logs == [accessLog |-> <<Log("openTelemetry", "b1", "none"), Log("fileSink", "b1", "valid")>>]
Trace == [tracing |-> [backend |-> "b1", serviceName |-> ""]]

(* Layers, by the question they are about.                                 *)
Layers ==
    {Http([healthCheck |-> TRUE, serverName |-> TRUE]) @@ [proxyProtocol |-> TRUE],
     Http([grpcStats |-> TRUE, maxHeadersCount |-> TRUE, defaultHostForHttp10 |-> TRUE]) @@ [tcpKeepalive |-> TRUE],
     Http(Logs @@ Trace), Http([accessLog |-> <<>>]),
     Http([accessLog |-> <<Log("grpcService", "b1", "invalid")>>, localReplies |-> "readable"])}

Failing ==
    {Http([accessLog |-> <<Log("grpcService", "missing", "none")>>]),
     Http([tracing |-> [backend |-> "missing", serviceName |-> "own"]]),
     Http([http2ProtocolOptions |-> "window too small"]),
     Http([localReplies |-> "unreadable"]),
     Http([useRemoteAddress |-> FALSE, xffTrustedCIDRs |-> "unparsable", skipXffAppend |-> TRUE]),
     Http([forwardClientCert |-> [details |-> TRUE], http2ProtocolOptions |-> "valid"])}

At(l, c) == [k \in {l} |-> c]
DefaultOf(c) == At("default", c)

Two(s1, s2, s3) == [spec |-> <<s1, s2, s3>>,
                    attached |-> [g \in {"g1", "g2"} |-> IF g = "g1" THEN {1, 2} ELSE {2, 3}]]

ListenerStarts ==
    {Two(At(l, c), At(k, d), DefaultOf(CHOOSE x \in Layers : TRUE)) :
        l, k \in {"default", "80"}, c, d \in Layers}
    \cup {Two(At("80", c) @@ DefaultOf(d), At("81", d), At("80", d)) : c, d \in Layers}
    \cup {Two(DefaultOf(c), At("80", d), DefaultOf(d)) : c \in Failing, d \in Layers}
=============================================================================
