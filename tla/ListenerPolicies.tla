--------------------------- MODULE ListenerPolicies ---------------------------
(***************************************************************************)
(* ListenerPolicy: conversion to IR, merge and application to the          *)
(* listeners of the gateways it is attached to (plugins/listenerpolicy).   *)
(*                                                                         *)
(* The layers of a policy (its default and one for each port) are structs  *)
(* that a merge copies, but the HTTP settings of a layer are behind a      *)
(* pointer, and so are the tracing provider and the OpenTelemetry access   *)
(* logs that the settings hold.  These are the cells of a heap that the    *)
(* policy collection and every gateway translation share: cell <<p, l>> is *)
(* the HTTP settings of layer l of policy p, service <<p, l, k>> the       *)
(* service name in its k-th access log, or in its tracing provider (k = 0).*)
(* A plain value that layer l of p sets is <<p, l>>; <<0, l>> is a merged   *)
(* layer's own settings.                                                   *)
(***************************************************************************)
EXTENDS Integers, Sequences, FiniteSets, SequencesExt

CONSTANTS
    PolicyOrder, \* the policies, from high to low priority
    Gateway,
    Port,       \* the ports every gateway listens on, a sequence
    Backend,    \* the backends that can be resolved
    Start,      \* the first specs and attachments: [spec, attached]
    MaxEdits    \* how often the targets of a policy are edited

VARIABLES
    spec,      \* the spec of each policy
    attached,  \* the policies that target each gateway
    http,      \* the HTTP settings cells of the policy collection
    service,   \* the service names in providers and access logs of the cells
    pending,   \* the gateways the collections will translate again
    served,    \* for each gateway and port, what Envoy was last given
    edits

vars == <<spec, attached, http, service, pending, served, edits>>

Policy == Range(PolicyOrder)
Has(r, f) == f \in DOMAIN r
Nothing == [f \in {} |-> {}]
Only(r, F) == [f \in F \cap DOMAIN r |-> r[f]]
(* What p sets and, where p sets nothing, what q sets.                     *)
Augment(p, q) == [f \in DOMAIN p \cup DOMAIN q |-> IF Has(p, f) THEN p[f] ELSE q[f]]
-----------------------------------------------------------------------------
(* The settings of the API.  The fields that are only copied stand in the  *)
(* groups in which conversion, merge and application treat them.           *)
listenerFields == {"proxyProtocol", "tcpKeepalive", "perConnectionBufferLimitBytes",
                   "transportSocketConnectTimeout", "clientCertificateValidation"}
requestFields == {"preserveExternalRequestId", "generateRequestId", "defaultHostForHttp10"}
headerFields == {"serverName", "idleTimeout", "upgradeConfigs"}
limitFields == {"maxHeadersCount", "uuidRequestIdConfig", "stripHostPortMode"}
copiedFields == requestFields \cup headerFields \cup limitFields

FilterType == {"none", "valid", "invalid"}
LogSink == {"fileSink", "grpcService", "openTelemetry"}
AccessLog == [sink : LogSink, backend : Backend \cup {"missing"}, filter : FilterType]
ServiceName == {"", "own"}
Tracing == [backend : Backend \cup {"missing"}, serviceName : ServiceName]
LocalReplies == {"readable", "unreadable"}
Http2Options == {"valid", "window too small"}
ForwardClientCertMode == {"Sanitize", "ForwardOnly", "AppendForward", "SanitizeSet"}

(* The rules the API server enforces on one policy.                        *)
HTTPSettingsValid(h) ==
    /\ Has(h, "xffTrustedCIDRs") => Has(h, "useRemoteAddress") /\ ~h.useRemoteAddress
    /\ ~(Has(h, "xffTrustedCIDRs") /\ Has(h, "xffNumTrustedHops"))

SubresourcesValid(h) ==
    /\ Has(h, "accessLog") => \A i \in DOMAIN h.accessLog : h.accessLog[i] \in AccessLog
    /\ Has(h, "tracing") => h.tracing \in Tracing
    /\ Has(h, "localReplies") => h.localReplies \in LocalReplies
    /\ Has(h, "http2ProtocolOptions") => h.http2ProtocolOptions \in Http2Options

ForwardClientCertDetailsValid(h) ==
    Has(h, "forwardClientCert") =>
        LET c == h.forwardClientCert
        IN  /\ Has(c, "mode") => c.mode \in ForwardClientCertMode
            /\ (Has(c, "details") /\ Has(c, "mode")) => c.mode \in {"AppendForward", "SanitizeSet"}

Admitted(s) ==
    \A l \in DOMAIN s :
        /\ Has(s[l], "clientCertificateValidation") => l = "default"
        /\ Has(s[l], "http") =>
               /\ HTTPSettingsValid(s[l].http) /\ ForwardClientCertDetailsValid(s[l].http)
               /\ SubresourcesValid(s[l].http)
-----------------------------------------------------------------------------
(* Conversion.  Each returns the IR fields it sets and the errors it met.  *)
None == [ir |-> Nothing, errs |-> {}]
Fails(e) == [ir |-> Nothing, errs |-> {e}]

translateAccessLog(log) ==
    CASE log.sink = "fileSink"      -> {}
      [] log.backend \notin Backend -> {"unresolved backend"}
      [] OTHER                      -> {}

(* A config is named by its place in the list; an empty list stays in the  *)
(* policies and gives no configs.                                          *)
convertAccessLogConfig(h, cell) ==
    LET logs == h.accessLog
        errs == UNION {translateAccessLog(logs[i]) : i \in DOMAIN logs}
        kept == [accessLogPolicies |-> [i \in DOMAIN logs |-> [cell |-> cell, at |-> i, filter |-> logs[i].filter]]]
    IN  CASE ~Has(h, "accessLog") -> None
          [] errs # {} -> [ir |-> kept, errs |-> errs]
          [] logs = <<>> -> [ir |-> kept, errs |-> {}]
          [] OTHER -> [ir |-> [accessLogConfig |-> [i \in DOMAIN logs |-> <<cell[1], cell[2], i>>]] @@ kept,
                       errs |-> {}]

convertTracingConfig(h, cell) ==
    CASE ~Has(h, "tracing") -> None
      [] h.tracing.backend \notin Backend -> Fails("unresolved backend")
      [] OTHER -> [ir |-> [tracingProvider |-> <<cell[1], cell[2], 0>>, tracingConfig |-> cell], errs |-> {}]

convertLocalReplyConfig(h, cell) ==
    CASE ~Has(h, "localReplies") -> None
      [] h.localReplies = "unreadable" -> Fails("no such secret")
      [] OTHER -> [ir |-> [localReplyConfig |-> cell], errs |-> {}]

validateHTTP2ProtocolOptions(h, cell) ==
    CASE ~Has(h, "http2ProtocolOptions") -> None
      [] h.http2ProtocolOptions = "window too small" -> Fails("invalid window size")
      [] OTHER -> [ir |-> [http2ProtocolOptions |-> cell], errs |-> {}]

convertHealthCheckPolicy(h, cell) ==
    IF Has(h, "healthCheck") THEN [ir |-> [healthCheckPolicy |-> cell], errs |-> {}] ELSE None

convertGrpcStats(h, cell) ==
    IF Has(h, "grpcStats") THEN [ir |-> [grpcStats |-> cell], errs |-> {}] ELSE None

(* With useRemoteAddress off, the hops move into the XFF extension.        *)
convertXff(h, cell) ==
    LET off == Has(h, "useRemoteAddress") /\ ~h.useRemoteAddress
    IN  [ir |-> Only(h, {"useRemoteAddress", "skipXffAppend"})
                @@ (IF off THEN [xffConfig |-> [by |-> cell] @@ Only(h, {"xffNumTrustedHops", "xffTrustedCIDRs",
                                                                         "skipXffAppend"})]
                    ELSE Only(h, {"xffNumTrustedHops"})),
         errs |-> IF off /\ Has(h, "xffTrustedCIDRs") /\ h.xffTrustedCIDRs = "unparsable" THEN {"bad CIDR"} ELSE {}]

convertForwardClientCert(h, cell) ==
    LET c == h.forwardClientCert
    IN  CASE ~Has(h, "forwardClientCert") -> None
          [] ~Has(c, "details") -> [ir |-> [forwardClientCertMode |-> c.mode], errs |-> {}]
          [] OTHER -> [ir |-> [forwardClientCertMode |-> IF Has(c, "mode") THEN c.mode ELSE "SanitizeSet",
                               setCurrentClientCertDetails |-> cell], errs |-> {}]

convertCopied(h, cell) == [ir |-> [f \in copiedFields \cap DOMAIN h |-> cell], errs |-> {}]

NewHttpListenerPolicy(h, cell) ==
    LET parts == {convertAccessLogConfig(h, cell), convertTracingConfig(h, cell),
                  convertLocalReplyConfig(h, cell), validateHTTP2ProtocolOptions(h, cell),
                  convertHealthCheckPolicy(h, cell), convertGrpcStats(h, cell),
                  convertXff(h, cell), convertForwardClientCert(h, cell), convertCopied(h, cell)}
    IN  [ir |-> [f \in UNION {DOMAIN c.ir : c \in parts} |->
                    LET c == CHOOSE d \in parts : Has(d.ir, f) IN c.ir[f]],
         errs |-> UNION {c.errs : c \in parts}]

(* The struct of a layer; "http" is the pointer to its settings.           *)
newListenerPolicy(p, l) ==
    [f \in DOMAIN spec[p][l] |-> <<p, l>>]

Cells(s, p) == {<<p, l>> : l \in {k \in DOMAIN s[p] : Has(s[p][k], "http")}}
ErrorsOf(s, p) == UNION {NewHttpListenerPolicy(s[p][c[2]].http, c).errs : c \in Cells(s, p)}

(* The settings of all cells as the collection of a spec s first has them. *)
newListenerPolicyIR(s) ==
    [c \in UNION {Cells(s, p) : p \in Policy} |-> NewHttpListenerPolicy(s[c[1]][c[2]].http, c).ir]

Services(s) ==
    [k \in UNION {{<<c[1], c[2], i>> : i \in 0 .. 2} : c \in UNION {Cells(s, p) : p \in Policy}} |->
        IF k[3] = 0 /\ Has(s[k[1]][k[2]].http, "tracing") THEN s[k[1]][k[2]].http.tracing.serviceName ELSE ""]
-----------------------------------------------------------------------------
(* Merge.  The accumulator m has its own layers and shares the heap.  A    *)
(* field is mergeable when the accumulator lacks it and the policy has it; *)
(* access logs and tracing are two fields that only move together.         *)
Both(a, b, F) == IF F \subseteq DOMAIN b /\ F \cap DOMAIN a = {} THEN Only(b, F) ELSE Nothing

(* Mutant: the two lists are merged like any two fields.                   *)
mergeLogsApart(a, b) == Only(b, {"accessLogConfig", "accessLogPolicies"} \ DOMAIN a)

mergeAccessLog(a, b) == Both(a, b, {"accessLogConfig", "accessLogPolicies"})
mergeTracing(a, b) == Both(a, b, {"tracingProvider", "tracingConfig"})

mergeBodyFields(a, b) == Only(b, {"localReplyConfig", "upgradeConfigs"} \ DOMAIN a)
mergeRequestFields(a, b) == Only(b, ({"useRemoteAddress"} \cup requestFields) \ DOMAIN a)
mergeXffFields(a, b) == Only(b, {"xffNumTrustedHops", "xffConfig", "skipXffAppend"} \ DOMAIN a)
mergeHeaderFields(a, b) == Only(b, {"serverName", "idleTimeout", "http2ProtocolOptions"} \ DOMAIN a)
mergeFilterFields(a, b) == Only(b, {"healthCheckPolicy", "grpcStats"} \ DOMAIN a)
mergeLimitFields(a, b) == Only(b, limitFields \ DOMAIN a)
mergeForwardClientCertDetails(a, b) ==
    Only(b, {"forwardClientCertMode", "setCurrentClientCertDetails"} \ DOMAIN a)

MergeHttpPolicies(a, b) ==
    a @@ mergeAccessLog(a, b) @@ mergeTracing(a, b) @@ mergeBodyFields(a, b) @@ mergeRequestFields(a, b)
      @@ mergeXffFields(a, b) @@ mergeHeaderFields(a, b) @@ mergeFilterFields(a, b) @@ mergeLimitFields(a, b)
      @@ mergeForwardClientCertDetails(a, b)

(* The settings are merged into the object the accumulator points to: a    *)
(* new one if it has none.                                                 *)
mergeHttpSettings(m, l, b) ==
    LET to == IF Has(m.layers[l], "http") THEN m.layers[l].http ELSE <<0, l>>
        a  == IF Has(m.http, to) THEN m.http[to] ELSE Nothing
    IN  IF ~Has(b, "http") THEN m
        ELSE [layers |-> [m.layers EXCEPT ![l] = Augment(@, [http |-> to])],
              http |-> [c \in {to} |-> MergeHttpPolicies(a, m.http[b.http])] @@ m.http]

mergeListenerPolicy(m, l, b) ==
    mergeHttpSettings([m EXCEPT !.layers[l] = Augment(@, Only(b, DOMAIN b \ {"http"}))], l, b)

mergeDefault(m, p) ==
    IF Has(spec[p], "default") THEN mergeListenerPolicy(m, "default", newListenerPolicy(p, "default")) ELSE m

(* The first policy of a port lends the accumulator its struct.            *)
mergePerPort(m, p) ==
    FoldLeft(LAMBDA n, l : IF ~Has(spec[p], l) THEN n
                           ELSE IF Has(n.layers, l) THEN mergeListenerPolicy(n, l, newListenerPolicy(p, l))
                           ELSE [n EXCEPT !.layers = [k \in {l} |-> newListenerPolicy(p, l)] @@ @],
             m, Port)

(* Mutant: the errors of a policy do not outlive its hierarchy.            *)
MergeValid(pols) ==
    FoldLeft(LAMBDA n, p : mergePerPort(mergeDefault(n, p), p),
             [layers |-> [l \in {"default"} |-> Nothing], http |-> http],
             SelectSeq(pols, LAMBDA p : ErrorsOf(spec, p) = {}))

(* A policy with errors is left out of its hierarchy, and a hierarchy with *)
(* errors is left out of the result: then no policy of the gateway applies.*)
MergePolicies(pols) ==
    LET valid == SelectSeq(pols, LAMBDA p : ErrorsOf(spec, p) = {})
        empty == [l \in {"default"} |-> Nothing]
        m == FoldLeft(LAMBDA n, p : mergePerPort(mergeDefault(n, p), p), [layers |-> empty, http |-> http], valid)
    IN  IF valid = pols THEN m ELSE [m EXCEPT !.layers = empty]
-----------------------------------------------------------------------------
(* Application to the listener of one port.                                *)
getPolicy(m, port) == IF Has(m.layers, port) THEN m.layers[port] ELSE m.layers["default"]

(* Mutant: the pass remembers one health check for all ports.              *)
ApplyToPass(m, pass, port) ==
    LET cfg == getPolicy(m, port)
    IN  IF Has(cfg, "http")
        THEN [q \in Range(Port) |-> Only(m.http[cfg.http], {"healthCheckPolicy", "grpcStats"})]
        ELSE pass

(* The pass keeps the settings the HTTP filters need by port.              *)
ApplyListenerPlugin(m, pass, port) ==
    LET cfg == getPolicy(m, port)
    IN  IF Has(cfg, "http")
        THEN [q \in {port} |-> Only(m.http[cfg.http], {"healthCheckPolicy", "grpcStats"})] @@ pass
        ELSE pass

HttpFilters(pass, port) == IF Has(pass, port) THEN pass[port] ELSE Nothing

ApplyToListener(m, port) ==
    Only(getPolicy(m, port), {"proxyProtocol", "tcpKeepalive", "perConnectionBufferLimitBytes"})
ApplyPostListener(m, port) == Only(getPolicy(m, port), {"transportSocketConnectTimeout"})

Named(svc, k, g) == IF svc[k] = "" THEN [svc EXCEPT ![k] = g] ELSE svc

translateFilter(f) == IF f = "invalid" THEN {"invalid filter"} ELSE {}
convertAccessLogFilter(f) == IF f = "none" THEN {} ELSE translateFilter(f)

(* The i-th config gets the filter of the i-th policy; the default service *)
(* name is written into the config itself.                                 *)
generateAccessLogConfig(h, g, svc) ==
    LET n == IF Has(h, "accessLogConfig") THEN Len(h.accessLogConfig) ELSE 0
        named == IF n = 0 THEN svc ELSE FoldLeft(LAMBDA v, k : Named(v, k, g), svc, h.accessLogConfig)
    IN  [logs |-> [i \in 1 .. n |-> [config |-> h.accessLogConfig[i], service |-> named[h.accessLogConfig[i]],
                                     policy |-> IF i \in DOMAIN h.accessLogPolicies THEN h.accessLogPolicies[i].at ELSE 0,
                                     of |-> IF i \in DOMAIN h.accessLogPolicies THEN h.accessLogPolicies[i].cell ELSE <<>>]],
         failed |-> \E i \in 1 .. n : i \in DOMAIN h.accessLogPolicies /\ convertAccessLogFilter(h.accessLogPolicies[i].filter) # {},
         service |-> named]

updateTracingConfig(h, g, svc) ==
    IF {"tracingProvider", "tracingConfig"} \subseteq DOMAIN h THEN Named(svc, h.tracingProvider, g) ELSE svc

initializeHCM == [useRemoteAddress |-> TRUE]

applyAddressSettings(h) ==
    Only(h, {"localReplyConfig", "upgradeConfigs", "useRemoteAddress", "xffNumTrustedHops", "xffConfig",
             "skipXffAppend"} \cup requestFields)
applyConnectionSettings(h) == Only(h, {"serverName", "idleTimeout", "http2ProtocolOptions"})
applyLimitSettings(h) == Only(h, limitFields \cup {"forwardClientCertMode", "setCurrentClientCertDetails"})

(* The rest of the settings is not applied when a log filter is invalid.   *)
ApplyHCM(m, g, port, svc) ==
    LET cfg == getPolicy(m, port)
        h   == m.http[cfg.http]
        al  == generateAccessLogConfig(h, g, svc)
        s2  == updateTracingConfig(h, g, al.service)
    IN  CASE ~Has(cfg, "http") -> [hcm |-> initializeHCM, service |-> svc]
          [] al.failed         -> [hcm |-> [error |-> TRUE] @@ initializeHCM, service |-> al.service]
          [] OTHER -> [hcm |-> [accessLog |-> al.logs]
                               @@ (IF Has(h, "tracingConfig") THEN [tracing |-> s2[h.tracingProvider]] ELSE Nothing)
                               @@ applyAddressSettings(h) @@ applyConnectionSettings(h) @@ applyLimitSettings(h)
                               @@ initializeHCM,
                       service |-> s2]

-----------------------------------------------------------------------------
Policies(g) == SelectSeq(PolicyOrder, LAMBDA p : p \in attached[g])
Unserved == [q \in Range(Port) |-> [listener |-> Nothing, filters |-> Nothing, hcm |-> initializeHCM]]

Init ==
    /\ \E s \in Start : spec = s.spec /\ attached = s.attached
    /\ http = newListenerPolicyIR(spec) /\ service = Services(spec)
    /\ pending = Gateway
    /\ served = [g \in Gateway |-> Unserved]
    /\ edits = 0

(* One translation of a gateway: merge, then listener after listener.      *)
Translate(g) ==
    LET m    == MergePolicies(Policies(g))
        pass == FoldLeft(LAMBDA ps, q : ApplyListenerPlugin(m, ps, q), Nothing, Port)
        hcms == FoldLeft(LAMBDA o, q : LET r == ApplyHCM(m, g, q, o.service)
                                       IN  [service |-> r.service, hcm |-> [k \in {q} |-> r.hcm] @@ o.hcm],
                         [service |-> service, hcm |-> Nothing], Port)
    IN  /\ g \in pending
        /\ served' = [served EXCEPT ![g] =
               [q \in Range(Port) |-> [listener |-> ApplyToListener(m, q) @@ ApplyPostListener(m, q),
                                       filters |-> HttpFilters(pass, q), hcm |-> hcms.hcm[q]]]]
        /\ http' = Only(m.http, DOMAIN http) /\ service' = hcms.service
        /\ pending' = pending \ {g}
        /\ UNCHANGED <<spec, attached, edits>>

(* The collection builds p again: new cells, as its spec describes them.   *)
Rebuild(p) ==
    /\ LET irs == newListenerPolicyIR(spec)
       IN  http' = [c \in DOMAIN http |-> IF c[1] = p THEN irs[c] ELSE http[c]]
    /\ LET services == Services(spec)
       IN  service' = [k \in DOMAIN service |-> IF k[1] = p THEN services[k] ELSE service[k]]

(* The user edits the targets of p.                                        *)
Retarget(p, g) ==
    /\ edits < MaxEdits
    /\ attached' = [attached EXCEPT ![g] = IF p \in @ THEN @ \ {p} ELSE @ \cup {p}]
    /\ Rebuild(p)
    /\ pending' = pending \cup {k \in Gateway : p \in attached[k] \cup attached'[k]}
    /\ edits' = edits + 1
    /\ UNCHANGED <<spec, served>>

HttpListenerPolicyEquals(a, b) == a = b

(* Something p refers to changed without consequence: the new IR replaces  *)
(* the old one, and the gateways follow, only if Equals tells them apart.  *)
Resync(p) ==
    /\ Rebuild(p)
    /\ ~HttpListenerPolicyEquals(<<http, service>>, <<http, service>>')
    /\ pending' = pending \cup {k \in Gateway : p \in attached[k]}
    /\ UNCHANGED <<spec, attached, served, edits>>

Next ==
    \/ \E g \in Gateway : Translate(g)
    \/ \E p \in Policy, g \in Gateway : Retarget(p, g)
    \/ \E p \in Policy : Resync(p)

Spec == Init /\ [][Next]_vars
-----------------------------------------------------------------------------
(* What the HCM of a port carries that names the layer it comes from.      *)
Carried(r) == Only(r, listenerFields \cup copiedFields \cup {"healthCheckPolicy", "grpcStats"})
LayersServed(o) ==
    {v[2] : v \in Range(Carried(o.listener)) \cup Range(Carried(o.filters)) \cup Range(Carried(o.hcm))}
    \cup (IF Has(o.hcm, "accessLog") THEN {l.config[2] : l \in Range(o.hcm.accessLog)} ELSE {})

(* The settings of a port come from per-port layers of that very port as   *)
(* soon as one attached policy has one, whichever policy has priority, and *)
(* from default layers otherwise: a listener never gets the health check,  *)
(* the gRPC statistics or the settings of another port, although one pass  *)
(* keeps them for all of them (getPolicy, ApplyListenerPlugin, HttpFilters).*)
PortReplacesDefault ==
    \A g \in Gateway \ pending : \A q \in Range(Port) :
        LayersServed(served[g][q]) \subseteq
            IF \E p \in attached[g] : Has(spec[p], q) THEN {q} ELSE {"default"}

(* Every access log carries the filter that was written beside it, however *)
(* the logs of several policies were merged: the configs and the policies  *)
(* they were made from are parallel lists (generateAccessLogConfig).       *)
LogsKeepTheirFilters ==
    \A g \in Gateway, q \in Range(Port) :
        Has(served[g][q].hcm, "accessLog") =>
            \A l \in Range(served[g][q].hcm.accessLog) : l.config = Append(l.of, l.policy)

(* A gateway is never served some of its policies: when one of them could  *)
(* not be converted, none of them is applied (policy.MergePolicies).       *)
NeverSomePolicies ==
    \A g \in Gateway \ pending :
        (\E p \in attached[g] : ErrorsOf(spec, p) # {}) => served[g] = Unserved
=============================================================================
