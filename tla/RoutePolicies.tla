----------------------------- MODULE RoutePolicies -----------------------------
(***************************************************************************)
(* Applying merged TrafficPolicies to the routes of a gateway and building *)
(* the HTTP filter chains they need (irtranslator/route.go, gateway.go and *)
(* fc.go; plugins/trafficpolicy).                                          *)
(*                                                                         *)
(* A chain is translated route by route, then its virtual host, then its   *)
(* route configuration, and only then its filters.  The plugin pass        *)
(* remembers what each chain needs; a policy reaches its filter only       *)
(* through that memory and through the per-filter configuration left on    *)
(* the route, the virtual host or the route configuration.  Every chain    *)
(* has one virtual host here; a policy is the merged one (PolicyMerge).    *)
(***************************************************************************)
EXTENDS Integers, Sequences, FiniteSets, TLC, SequencesExt

CONSTANTS
    Gateways,  \* the gateways to translate: a sequence of chains
    OtherFilters \* the filters other plugins add to every chain

VARIABLES
    gw,    \* the gateway: for every chain its routes and attached policies
    pass,  \* trafficPolicyPluginGwPass: what every chain needs
    out,   \* the translated chains
    pc     \* the next step: <<chain, step of that chain>>

vars == <<gw, pass, out, pc>>

Nil == <<>>
Kinds == {"extAuth", "extProc", "jwt"}
Provided == Kinds \cup {"rateLimit", "oauth2"}
(* The features that register a single disabled filter in the chain.       *)
Single == {"transformation", "localRateLimit", "cors", "csrf", "headers",
           "rbac", "fault", "httpACL", "basicAuth", "apiKey"}
RouteField == {"hostRewrite", "idleTimeout", "timeout", "retry", "redirect", "rewrite"}
(* The order of handlePolicies.                                            *)
FeatureOrder == <<"transformation", "extAuth", "extProc", "jwt", "rateLimit", "localRateLimit",
                  "cors", "csrf", "headers", "buffer", "rbac", "compression", "decompression",
                  "basicAuth", "apiKey", "oauth2", "fault", "httpACL">>
FieldOrder == <<"mirror", "hostRewrite", "idleTimeout", "timeout", "retry", "redirect",
                "rewrite", "upgrade">>
Ordered(order, S) == SelectSeq(order, LAMBDA f : f \in S)

(* global_disable/<kind> and <kind>_enabled.                               *)
Disable == [extAuth |-> "disable_extAuth", extProc |-> "disable_extProc", jwt |-> "disable_jwt"]
Enabled == [extAuth |-> "extAuthEnabled", jwt |-> "jwtEnabled", oauth2 |-> "oauth2Enabled",
            basicAuth |-> "basicAuthEnabled", apiKey |-> "apiKeyEnabled"]
-----------------------------------------------------------------------------
(* The stages of the filter chain, in order (pluginsdk/filters).           *)
FaultStage == 0
CorsStage == 1
AuthNStage == 3
AuthZStage == 4
RateLimitStage == 5
AcceptedStage == 6
RouteStage == 8

BeforeStage(s) == <<s, -1>>
DuringStage(s) == <<s, 0>>
AfterStage(s) == <<s, 1>>
defaultBufferFilterStage == <<AcceptedStage, -2>>

FilterStageComparison(a, b) ==
    IF a[1] # b[1] THEN a[1] - b[1] ELSE a[2] - b[2]

(* The names in the lexical order of the source's filter names; a provider *)
(* or a codec is the second component.                                     *)
NameOrder == <<"apiKeyEnabled", "basicAuthEnabled", "httpACL", "transformation", "headers", "apiKey",
               "basicAuth", "buffer", "compressor", "cors", "csrf", "decompressor", "fault",
               "oauth2Jwt", "oauth2", "rbac", "extAuth", "extAuthEnabled", "extProc",
               "disable_extAuth", "disable_extProc", "disable_jwt", "jwt", "jwtEnabled", "oauth2Enabled",
               "rateLimit", "localRateLimit", "other">>
Rank(n) == CHOOSE k \in DOMAIN NameOrder : NameOrder[k] = n
Type(n) == IF n = "oauth2Jwt" THEN "jwt" ELSE n

Staged(n, k, stage, weight) == [name |-> <<n, k>>, stage |-> stage, weight |-> weight]

(* CompareStagedFilters(a, b) < 0.                                         *)
CompareStagedFilters(a, b) ==
    CASE a.stage # b.stage -> FilterStageComparison(a.stage, b.stage) < 0
      [] a.stage = b.stage /\ Type(a.name[1]) = Type(b.name[1]) /\ a.weight # b.weight ->
            a.weight > b.weight
      [] OTHER -> \/ Rank(a.name[1]) < Rank(b.name[1])
                  \/ a.name[1] = b.name[1] /\ a.name[2] < b.name[2]

(* One round of the insertion sort that SortStableFunc is for short lists. *)
Insert(sorted, x) ==
    LET stop == {k \in DOMAIN sorted : ~ CompareStagedFilters(x, sorted[k])}
        at == IF stop = {} THEN 0 ELSE CHOOSE k \in stop : \A j \in stop : j <= k
    IN  SubSeq(sorted, 1, at) \o <<x>> \o SubSeq(sorted, at + 1, Len(sorted))

(* Mutant: the filters are sorted and repetitions are kept.                *)
sortOnly(list) == LET s == FoldLeft(Insert, <<>>, list) IN [k \in DOMAIN s |-> s[k].name]

(* Sorts, and drops a filter equal to the one just before it.              *)
sortHttpFilters(list) ==
    LET s == FoldLeft(Insert, <<>>, list)
        keep == {k \in DOMAIN s : k = 1 \/ s[k].name # s[k - 1].name}
    IN  [k \in 1 .. Cardinality(keep) |->
            s[CHOOSE j \in keep : Cardinality({i \in keep : i <= j}) = k].name]
-----------------------------------------------------------------------------
(* The pass and the per-filter configuration that the handlers extend.     *)
NewPass(chains) ==
    [providers |-> [c \in chains |-> <<>>], inChain |-> [c \in chains |-> {}],
     buffer |-> [c \in chains |-> Nil], compressor |-> [c \in chains |-> <<>>],
     decompressor |-> [c \in chains |-> <<>>], mirrored |-> {}, secrets |-> {}]

(* A per-filter configuration either makes its filter run or turns it off. *)
AddTypedConfig(s, name, on) == [s EXCEPT !.cfg = (name :> on) @@ @]

(* Mutant: a provider another chain already asked for is not added again.  *)
AddOnce(s, c, kind, p) ==
    IF \E d \in DOMAIN s.pass.providers :
            \E k \in DOMAIN s.pass.providers[d] : s.pass.providers[d][k].id = p.id
    THEN s
    ELSE [s EXCEPT !.pass.providers[c] = Append(@, [kind |-> kind, id |-> p.id,
                                                    stage |-> p.stage, weight |-> p.weight])]

Add(s, c, kind, p) ==
    [s EXCEPT !.pass.providers[c] = Append(@, [kind |-> kind, id |-> p.id,
                                               stage |-> p.stage, weight |-> p.weight])]

AddAuthMetadataIfNeeded(s, kind) ==
    IF gw.authMetadata /\ kind \in DOMAIN Enabled
    THEN AddTypedConfig(s, <<Enabled[kind], 0>>, TRUE) ELSE s

AddBlankTransformationIfNeeded(s, kind) ==
    IF gw.authMetadata /\ kind \in DOMAIN Enabled
    THEN AddTypedConfig(s, <<Enabled[kind], 0>>, FALSE) ELSE s

AddProvider(s, c, kind, p) == AddTypedConfig(Add(s, c, kind, p), <<kind, p.id>>, TRUE)

AddProviders(s, c, kind, list) ==
    LET one(t, p) == AddProvider(t, c, kind, p)
    IN  AddAuthMetadataIfNeeded(FoldLeft(one, s, list), kind)

handleExtAuth(s, c, kind, in) ==
    IF in.off
    THEN AddBlankTransformationIfNeeded(AddTypedConfig(s, <<Disable[kind], 0>>, TRUE), kind)
    ELSE AddProviders(s, c, kind, in.list)

handleExtProc(s, c, kind, in) == handleExtAuth(s, c, kind, in)

handleJwt(s, c, kind, in) == handleExtAuth(s, c, kind, in)

handleGlobalRateLimit(s, c, in) == AddProvider(s, c, "rateLimit", in)

handleOauth2(s, c, in) ==
    LET t == AddProvider(s, c, "oauth2", in)
        u == IF in.jwt THEN AddTypedConfig(t, <<"oauth2Jwt", in.id>>, TRUE) ELSE t
    IN  AddAuthMetadataIfNeeded([u EXCEPT !.pass.secrets = @ \cup {in.id}], "oauth2")

handleSingle(s, c, f, in) ==
    IF in.off
    THEN AddBlankTransformationIfNeeded(AddTypedConfig(s, <<f, 0>>, FALSE), f)
    ELSE AddAuthMetadataIfNeeded(
            AddTypedConfig([s EXCEPT !.pass.inChain[c] = @ \cup {f}], <<f, 0>>, TRUE), f)

handleRustFormation(s, c, in) == handleSingle(s, c, "transformation", in)
handleLocalRateLimit(s, c, in) == handleSingle(s, c, "localRateLimit", in)
handleCors(s, c, in) == handleSingle(s, c, "cors", in)
handleCsrf(s, c, in) == handleSingle(s, c, "csrf", in)
handleHeaderModifiers(s, c, in) == handleSingle(s, c, "headers", in)
handleRBAC(s, c, in) == handleSingle(s, c, "rbac", in)
handleBasicAuth(s, c, in) == handleSingle(s, c, "basicAuth", in)
handleAPIKeyAuth(s, c, in) == handleSingle(s, c, "apiKey", in)
handleFaultInjection(s, c, in) == handleSingle(s, c, "fault", in)
handleHttpACL(s, c, in) == handleSingle(s, c, "httpACL", in)

(* Mutant: the stage of the first policy that buffers is the chain's.      *)
handleBufferFirst(s, c, in) ==
    LET t == AddTypedConfig(s, <<"buffer", 0>>, ~ in.off)
        stage == IF s.pass.buffer[c] = Nil THEN Nil ELSE s.pass.buffer[c][1]
    IN  [t EXCEPT !.pass.buffer[c] = <<IF in.off \/ stage # Nil THEN stage ELSE in.stage>>]

(* One buffer filter per chain, at the earliest stage a policy asks for.   *)
handleBuffer(s, c, in) ==
    LET t == AddTypedConfig(s, <<"buffer", 0>>, ~ in.off)
        stage == IF s.pass.buffer[c] = Nil THEN Nil ELSE s.pass.buffer[c][1]
        earlier == ~ in.off /\ (stage = Nil \/ FilterStageComparison(in.stage, stage) < 0)
    IN  [t EXCEPT !.pass.buffer[c] = <<IF earlier THEN in.stage ELSE stage>>]

AddCodecs(list, libs) ==
    LET one(l, k) == IF Contains(l, k) THEN l ELSE Append(l, k) IN FoldLeft(one, list, libs)

TypedForAll(s, name, codecs, on) ==
    LET one(t, k) == AddTypedConfig(t, <<name, k>>, on) IN FoldLeft(one, s, codecs)

handleCompression(s, c, in) ==
    IF in.off THEN TypedForAll(s, "compressor", <<1, 2, 3>>, FALSE)
    ELSE TypedForAll([s EXCEPT !.pass.compressor[c] = AddCodecs(@, in.libs)],
                     "compressor", in.libs, TRUE)

handleDecompression(s, c, in) ==
    IF in.off THEN TypedForAll(s, "decompressor", <<1, 2, 3>>, FALSE)
    ELSE TypedForAll([s EXCEPT !.pass.decompressor[c] = AddCodecs(@, in.libs)],
                     "decompressor", in.libs, TRUE)

(* A merged policy sets some features; one of them at a time here.         *)
handleFeature(s, c, f, in) ==
    CASE f = "extAuth"       -> handleExtAuth(s, c, f, in)
      [] f = "extProc"       -> handleExtProc(s, c, f, in)
      [] f = "jwt"           -> handleJwt(s, c, f, in)
      [] f = "rateLimit"     -> handleGlobalRateLimit(s, c, in)
      [] f = "oauth2"        -> handleOauth2(s, c, in)
      [] f = "buffer"        -> handleBuffer(s, c, in)
      [] f = "compression"   -> handleCompression(s, c, in)
      [] f = "decompression" -> handleDecompression(s, c, in)
      [] f = "transformation"-> handleRustFormation(s, c, in)
      [] f = "localRateLimit"-> handleLocalRateLimit(s, c, in)
      [] f = "cors"          -> handleCors(s, c, in)
      [] f = "csrf"          -> handleCsrf(s, c, in)
      [] f = "headers"       -> handleHeaderModifiers(s, c, in)
      [] f = "rbac"          -> handleRBAC(s, c, in)
      [] f = "basicAuth"     -> handleBasicAuth(s, c, in)
      [] f = "apiKey"        -> handleAPIKeyAuth(s, c, in)
      [] f = "fault"         -> handleFaultInjection(s, c, in)
      [] f = "httpACL"       -> handleHttpACL(s, c, in)
      [] OTHER               -> s

handlePolicies(s, c, spec) ==
    LET one(t, f) == handleFeature(t, c, f, spec[f])
    IN  FoldLeft(one, s, Ordered(FeatureOrder, DOMAIN spec))
-----------------------------------------------------------------------------
(* Mutant: a policy sets a field that is already set.                      *)
setAlways(action, f, v) == [action EXCEPT ![f] = <<v>>]

(* A route-action field is set only while it is unset.                     *)
setIfUnset(action, f, v) == IF action[f] = Nil THEN [action EXCEPT ![f] = <<v>>] ELSE action

(* applyHTTPUpgrade replaces the configuration of the same upgrade type.   *)
applyHTTPUpgrade(action, v) == [action EXCEPT !["upgrade"] = <<v>>]

applyRequestMirror(s, name, v) ==
    IF name \in s.pass.mirrored THEN s
    ELSE [s EXCEPT !.pass.mirrored = @ \cup {name}, !.action["mirror"] = <<v>>]

(* handlePerRoutePolicies; a route that redirects has no action to change. *)
handlePerRoutePolicies(s, name, spec) ==
    LET one(t, f) ==
            CASE f = "mirror"        -> applyRequestMirror(t, name, spec[f])
              [] f = "upgrade"       -> [t EXCEPT !.action = applyHTTPUpgrade(@, spec[f])]
              [] f \in RouteField    -> [t EXCEPT !.action = setIfUnset(@, f, spec[f])]
              [] OTHER               -> t
    IN  IF s.redirect THEN s ELSE FoldLeft(one, s, Ordered(FieldOrder, DOMAIN spec))

(* Applies the per-route settings of a policy above the routes to each.    *)
applyPerRouteSettings(c, p, routes, spec) ==
    LET one(acc, i) ==
            LET t == handlePerRoutePolicies(
                        [pass |-> acc.pass, action |-> acc.routes[i].action,
                         redirect |-> acc.routes[i].redirect], <<c, i>>, spec)
            IN  [acc EXCEPT !.pass = t.pass, !.routes[i].action = t.action]
    IN  FoldLeft(one, [pass |-> p, routes |-> routes], [i \in DOMAIN routes |-> i])
-----------------------------------------------------------------------------
EmptyMap == [n \in {} |-> FALSE]
NoAction == [f \in RouteField \cup {"mirror", "upgrade"} |-> Nil]
NoRoute == [action |-> NoAction, redirect |-> FALSE, cfg |-> EmptyMap, replaced |-> FALSE]

Init ==
    /\ gw \in Gateways
    /\ pass = NewPass(DOMAIN gw.chains)
    /\ out = [c \in DOMAIN gw.chains |->
                [routes |-> [i \in DOMAIN gw.chains[c].routes |-> NoRoute],
                 vhost |-> EmptyMap, rc |-> EmptyMap, vhostReplaced |-> FALSE,
                 rcReplaced |-> FALSE, filters |-> <<>>, upstream |-> <<>>]]
    /\ pc = <<1, 1>>

Chain == gw.chains[pc[1]]
Translating == pc[1] \in DOMAIN gw.chains
Advance == pc' = <<pc[1], pc[2] + 1>>

(* runRoutePlugins: builtin HTTPRoute policies have left their fields, then *)
(* ApplyForRoute; a policy in error replaces the route.                     *)
runRoutePlugins ==
    /\ Translating /\ pc[2] \in DOMAIN Chain.routes
    /\ LET c == pc[1]
           r == Chain.routes[pc[2]]
           preset == [NoAction EXCEPT !["timeout"] = IF r.builtin THEN <<0>> ELSE Nil]
           s == [pass |-> pass, action |-> preset, redirect |-> r.redirect, cfg |-> EmptyMap]
           t == IF r.policy.bad THEN s
                ELSE handlePolicies(handlePerRoutePolicies(s, pc, r.policy.spec), c, r.policy.spec)
       IN  /\ pass' = t.pass
           /\ out' = [out EXCEPT ![c].routes[pc[2]] =
                        [action |-> t.action, redirect |-> r.redirect, cfg |-> t.cfg,
                         replaced |-> r.policy.bad]]
    /\ Advance /\ UNCHANGED gw

(* runVhostPlugins: the listener's policy, routes first, then the host.     *)
runVhostPlugins ==
    /\ Translating /\ pc[2] = Len(Chain.routes) + 1
    /\ LET c == pc[1]
           p == Chain.vhost
           a == applyPerRouteSettings(c, pass, out[c].routes, p.spec)
           t == handlePolicies([pass |-> a.pass, cfg |-> EmptyMap], c, p.spec)
       IN  IF p.bad
           THEN out' = [out EXCEPT ![c].vhostReplaced = TRUE] /\ UNCHANGED pass
           ELSE /\ pass' = t.pass
                /\ out' = [out EXCEPT ![c].routes = a.routes, ![c].vhost = t.cfg]
    /\ Advance /\ UNCHANGED gw

(* ComputeRouteConfiguration: the gateway's policy, then every route of a   *)
(* virtual host that was not replaced.                                      *)
ComputeRouteConfiguration ==
    /\ Translating /\ pc[2] = Len(Chain.routes) + 2
    /\ LET c == pc[1]
           p == Chain.rc
           t == handlePolicies([pass |-> pass, cfg |-> EmptyMap], c, p.spec)
           a == applyPerRouteSettings(c, t.pass, out[c].routes, p.spec)
       IN  IF p.bad
           THEN out' = [out EXCEPT ![c].rcReplaced = TRUE] /\ UNCHANGED pass
           ELSE /\ pass' = IF out[c].vhostReplaced THEN t.pass ELSE a.pass
                /\ out' = [out EXCEPT ![c].rc = t.cfg,
                            ![c].routes = IF out[c].vhostReplaced THEN @ ELSE a.routes]
    /\ Advance /\ UNCHANGED gw
-----------------------------------------------------------------------------
SingleStage(f) ==
    CASE f = "fault"          -> DuringStage(FaultStage)
      [] f = "httpACL"        -> AfterStage(FaultStage)
      [] f = "transformation" -> BeforeStage(AcceptedStage)
      [] f = "localRateLimit" -> DuringStage(RateLimitStage)
      [] f = "cors"           -> DuringStage(CorsStage)
      [] f = "rbac"           -> DuringStage(AuthZStage)
      [] f \in {"basicAuth", "apiKey"} -> DuringStage(AuthNStage)
      [] OTHER                -> DuringStage(RouteStage)

runAsUpstreamFilter(p) ==
    p.kind = "extProc" /\ FilterStageComparison(p.stage, DuringStage(RouteStage)) > 0

ProviderFilters(p) ==
    CASE runAsUpstreamFilter(p) -> <<>>
      [] p.kind = "oauth2" -> <<Staged("oauth2", p.id, p.stage, p.weight),
                                Staged("oauth2Jwt", p.id, DuringStage(AuthNStage), p.weight)>>
      [] OTHER -> <<Staged(p.kind, p.id, p.stage, p.weight)>>

(* Mutant: the disabling filter is staged with the filters it disables.    *)
disableDuringAuthN(kinds) ==
    [i \in DOMAIN kinds |-> Staged(Disable[kinds[i]], 0, DuringStage(AuthNStage), 0)]

AddDisableFilterIfNeeded(kinds) ==
    [i \in DOMAIN kinds |-> Staged(Disable[kinds[i]], 0, BeforeStage(FaultStage), 0)]

AddAuthEnabledFilterIfNeeded(kinds) ==
    IF gw.authMetadata
    THEN [i \in DOMAIN kinds |-> Staged(Enabled[kinds[i]], 0, AfterStage(AuthNStage), 0)]
    ELSE <<>>

BufferStage(c) ==
    IF pass.buffer[c][1] = Nil THEN defaultBufferFilterStage ELSE pass.buffer[c][1]

(* Mutant: the decompressors stay after CORS.                              *)
decompressorAfterCors(c) == AfterStage(CorsStage)

decompressorStage(c) ==
    IF pass.buffer[c] = Nil \/ FilterStageComparison(BufferStage(c), AfterStage(CorsStage)) > 0
    THEN AfterStage(CorsStage) ELSE <<BufferStage(c)[1], -2>>

addCompressionFiltersIfNeeded(c) ==
    [i \in DOMAIN pass.compressor[c] |->
        Staged("compressor", pass.compressor[c][i], <<CorsStage, i>>, 0)]
    \o [i \in DOMAIN pass.decompressor[c] |->
        Staged("decompressor", pass.decompressor[c][i], decompressorStage(c), 0)]

HttpFilters(c) ==
    LET kinds == {pass.providers[c][k].kind : k \in DOMAIN pass.providers[c]}
        auth == (kinds \cap {"extAuth", "jwt", "oauth2"}) \cup
                (pass.inChain[c] \cap {"basicAuth", "apiKey"})
        single(f) == Staged(f, 0, SingleStage(f), 0)
        singles == Ordered(FeatureOrder, pass.inChain[c])
    IN  [i \in DOMAIN singles |-> single(singles[i])]
        \o AddDisableFilterIfNeeded(Ordered(FeatureOrder, kinds \cap Kinds))
        \o FlattenSeq([k \in DOMAIN pass.providers[c] |-> ProviderFilters(pass.providers[c][k])])
        \o AddAuthEnabledFilterIfNeeded(Ordered(FeatureOrder, auth))
        \o (IF pass.buffer[c] = Nil THEN <<>> ELSE <<Staged("buffer", 0, BufferStage(c), 0)>>)
        \o addCompressionFiltersIfNeeded(c)

UpstreamHttpFilters(c) ==
    LET after == SelectSeq(pass.providers[c], runAsUpstreamFilter)
    IN  [k \in DOMAIN after |-> Staged("extProc", after[k].id, <<0, 0>>, after[k].weight)]

(* computeHttpFilters: the plugins are visited in the order of a Go map.    *)
computeHttpFilters ==
    /\ Translating /\ pc[2] = Len(Chain.routes) + 3
    /\ LET c == pc[1] IN
       \E list \in {HttpFilters(c) \o OtherFilters, OtherFilters \o HttpFilters(c)} :
            out' = [out EXCEPT ![c].filters = sortHttpFilters(list),
                               ![c].upstream = sortHttpFilters(UpstreamHttpFilters(c))]
    /\ pc' = <<pc[1] + 1, 1>> /\ UNCHANGED <<gw, pass>>

Next == runRoutePlugins \/ runVhostPlugins \/ ComputeRouteConfiguration \/ computeHttpFilters

Spec == Init /\ [][Next]_vars
-----------------------------------------------------------------------------
Finished == ~ Translating
Has(list, n) == \E k \in DOMAIN list : list[k] = n
Position(list, n) == CHOOSE k \in DOMAIN list : list[k] = n

(* The configurations a served chain carries, at any level.                *)
Configs(c) ==
    IF out[c].rcReplaced THEN {}
    ELSE {out[c].rc} \cup
         IF out[c].vhostReplaced THEN {}
         ELSE {out[c].vhost} \cup {out[c].routes[i].cfg : i \in
                    {j \in DOMAIN out[c].routes : ~ out[c].routes[j].replaced}}

(* Envoy looks a filter's configuration up on the route, then on the       *)
(* virtual host, then on the route configuration.                          *)
Effective(c, i, n) ==
    CASE n \in DOMAIN out[c].routes[i].cfg -> out[c].routes[i].cfg[n]
      [] n \notin DOMAIN out[c].routes[i].cfg /\ n \in DOMAIN out[c].vhost -> out[c].vhost[n]
      [] OTHER -> n \in DOMAIN out[c].rc /\ out[c].rc[n]

(* The levels of policies over route i of chain c, most specific first.    *)
Levels(c, i) == <<gw.chains[c].routes[i].policy, gw.chains[c].vhost, gw.chains[c].rc>>
Setting(c, i, f) == {k \in 1 .. 3 : f \in DOMAIN Levels(c, i)[k].spec}
MostSpecific(c, i, f) ==
    Levels(c, i)[CHOOSE k \in Setting(c, i, f) : \A j \in Setting(c, i, f) : k <= j].spec[f]

Serves(c, i) ==
    /\ Finished /\ ~ out[c].rcReplaced /\ ~ out[c].vhostReplaced
    /\ ~ out[c].routes[i].replaced
Routes == UNION {{<<c, i>> : i \in DOMAIN gw.chains[c].routes} : c \in DOMAIN gw.chains}

(* A configuration that makes a filter run finds that filter in its own    *)
(* chain (or among the upstream filters), whichever level and whichever    *)
(* listener asked for it first: without the filter Envoy ignores it.       *)
ConfigHasItsFilter ==
    Finished => \A c \in DOMAIN out : \A cfg \in Configs(c) : \A n \in DOMAIN cfg :
        cfg[n] /\ (\A kind \in Kinds : n[1] = Disable[kind] =>
                    \E k \in DOMAIN pass.providers[c] : pass.providers[c][k].kind = kind)
            => Has(out[c].filters, n) \/ Has(out[c].upstream, n)

(* No filter is in a chain twice, in whatever order the plugins are        *)
(* visited: the only removal of the providers that several routes ask for  *)
(* is that equal filters are neighbours after the sort.                    *)
NoFilterTwice ==
    Finished => \A c \in DOMAIN out : \A j, k \in DOMAIN out[c].filters :
        out[c].filters[j] = out[c].filters[k] => j = k

(* Where the most specific policy turns every provider of a kind off, no   *)
(* provider that a policy above it put on the chain runs: the filter that  *)
(* sets the disabling metadata is on and precedes all of them.             *)
DisabledMeansOff ==
    \A r \in Routes : \A kind \in Kinds :
        LET c == r[1]
            i == r[2]
            n == <<Disable[kind], 0>>
        IN  Serves(c, i) /\ Setting(c, i, kind) # {} /\ MostSpecific(c, i, kind).off =>
                \A k \in DOMAIN out[c].filters :
                    out[c].filters[k][1] = kind =>
                        /\ Effective(c, i, n)
                        /\ Has(out[c].filters, n) /\ Position(out[c].filters, n) < k

(* Request bodies are decompressed before they are measured: every         *)
(* decompressor precedes the chain's buffer filter, wherever the policies  *)
(* of the chain moved it.                                                  *)
DecompressBeforeBuffer ==
    Finished => \A c \in DOMAIN out : \A j, k \in DOMAIN out[c].filters :
        out[c].filters[j][1] = "decompressor" /\ out[c].filters[k][1] = "buffer" => j < k

(* The buffer filter is at the earliest stage that any buffering policy of *)
(* the chain names, in whatever order the policies are visited.            *)
BufferAtEarliestStage ==
    Finished => \A c \in DOMAIN out : pass.buffer[c] # Nil =>
        \A i \in DOMAIN gw.chains[c].routes : \A k \in 1 .. 3 :
            LET p == Levels(c, i)[k] IN
            ~ p.bad /\ "buffer" \in DOMAIN p.spec /\ ~ p.spec["buffer"].off =>
                FilterStageComparison(BufferStage(c), p.spec["buffer"].stage) <= 0

(* A route-action field holds the value of the most specific policy that   *)
(* sets it, and the builtin timeout of the HTTPRoute before any of them.   *)
MostSpecificFieldWins ==
    \A r \in Routes : \A f \in RouteField \cup {"mirror"} :
        LET c == r[1]
            i == r[2]
        IN  Serves(c, i) /\ ~ out[c].routes[i].redirect /\ Setting(c, i, f) # {} =>
                out[c].routes[i].action[f] =
                    IF f = "timeout" /\ gw.chains[c].routes[i].builtin THEN <<0>>
                    ELSE <<MostSpecific(c, i, f)>>
=============================================================================
