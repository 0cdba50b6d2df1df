--------------------------- MODULE BackendPolicies ---------------------------
(***************************************************************************)
(* What a backend and the policies attached to it make of an Envoy         *)
(* cluster: the hooks that pkg/kgateway/translator/irtranslator/backend.go *)
(* calls.  Pure operators; BackendTranslation runs them.                   *)
(*                                                                         *)
(* A cluster is a record; an unset field of the proto is "none", "" or {}. *)
(* A transport socket is [wrapped, kind, from, cert]: `wrapped` says that  *)
(* upstream PROXY protocol is the outer layer, `kind` is what is inside,   *)
(* `from` who configured it and `cert` the client certificate it presents. *)
(* Specs and IRs are sparse records: a missing field is an unset pointer.  *)
(***************************************************************************)
EXTENDS Integers, Sequences, FiniteSets, SequencesExt

Has(r, f) == f \in DOMAIN r
Get(r, f, default) == IF Has(r, f) THEN r[f] ELSE default

NoSocket == [wrapped |-> FALSE, kind |-> "none", from |-> "", cert |-> ""]
RawBuffer == [NoSocket EXCEPT !.kind = "raw"]
TlsSocket(from, cert) == [wrapped |-> FALSE, kind |-> "tls", from |-> from, cert |-> cert]
NoCla == [set |-> FALSE, weighted |-> FALSE, eps |-> {}]
Cla(eps) == [set |-> TRUE, weighted |-> FALSE, eps |-> eps]

\* A load balancing policy is a proto the policy IR holds; `cell` identifies
\* that proto, so two clusters with one cell share it.
NoCell == <<"none", 0>>
NoLb == [cell |-> NoCell, kind |-> "none", locality |-> "none", hostname |-> FALSE]

-----------------------------------------------------------------------------
(* BackendConfigPolicy: what the CRD admits.                               *)

\* Which TLS sources, health checks and load balancers a policy may carry.
TLSSpecAdmitted(t) ==
  /\ t.source \in {"secretRef", "files", "insecureSkipVerify", "wellKnownCACertificates"}
  /\ t.source = "files" => t.cert \/ t.key \/ t.ca

LoadBalancerAdmitted(l) ==
  /\ l.kind \in {"leastRequest", "roundRobin", "ringHash", "maglev", "random"}
  /\ ~(Has(l, "localityType") /\ Has(l, "zoneAware"))
  /\ Has(l, "zoneAware") => l.kind \notin {"ringHash", "maglev"}
  /\ Has(l, "useHostname") => l.kind \in {"ringHash", "maglev"}

HealthCheckAdmitted(h) == h.protocol \in {"http", "grpc"}

DNSAdmitted(d) ==
  Has(d, "jitter") /\ Has(d, "refreshRate") => d.jitter <= d.refreshRate

BackendConfigPolicyAdmitted(s) ==
  /\ ~(Has(s, "http1") /\ Has(s, "http2"))
  /\ Has(s, "tls") => TLSSpecAdmitted(s.tls)
  /\ Has(s, "loadBalancer") => LoadBalancerAdmitted(s.loadBalancer)
  /\ Has(s, "healthCheck") => HealthCheckAdmitted(s.healthCheck)
  /\ Has(s, "dns") => DNSAdmitted(s.dns)

-----------------------------------------------------------------------------
(* BackendConfigPolicy: translation to the IR.                             *)

\* A key pair is parsed as PEM even when the policy names files, so a file
\* path is never a valid pair.  A secret may hold a pair that does not match.
CleanedSslKeyPair(t) == t.source = "secretRef" /\ Get(t, "pairMatches", TRUE)

buildCertificateContext(t) ==
  IF ~t.cert /\ ~t.key THEN [ok |-> TRUE, cert |-> ""]
  ELSE [ok |-> t.cert /\ t.key /\ CleanedSslKeyPair(t), cert |-> "policy"]

buildValidationContext(t) ==
  t.source = "wellKnownCACertificates" \/ t.ca \/ ~Get(t, "sans", FALSE)

\* The TLS context a policy asks for; ok is FALSE when it cannot be built.
translateTLSConfig(t, secrets) ==
  LET found   == t.source # "secretRef" \/ t.secret \in secrets
      context == IF Get(t, "simpleTLS", FALSE) THEN [ok |-> TRUE, cert |-> ""]
                 ELSE buildCertificateContext(t)
  IN IF Get(t, "badVersion", FALSE) THEN [ok |-> FALSE, cert |-> ""]
     ELSE IF t.source = "insecureSkipVerify" THEN [ok |-> TRUE, cert |-> ""]
     ELSE [ok |-> found /\ context.ok /\ buildValidationContext(t), cert |-> context.cert]

\* A typed policy always carries its own locality mode, since it makes Envoy
\* ignore the cluster's: zone aware when asked for, else weighted.  The hashing
\* balancers are locality weighted only on request.
buildTypedLocalityLbConfig(l) ==
  IF l.kind \in {"ringHash", "maglev"}
  THEN IF Has(l, "localityType") THEN "weighted" ELSE "none"
  ELSE IF Has(l, "zoneAware") THEN "zoneAware" ELSE "weighted"

translateLoadBalancerConfig(l, cell) ==
  [policy |-> [cell |-> cell, kind |-> l.kind, locality |-> buildTypedLocalityLbConfig(l),
               hostname |-> Get(l, "useHostname", FALSE)],
   panic |-> Get(l, "healthyPanicThreshold", "none"),
   hasZoneAware |-> Has(l, "zoneAware")]

\* The fields copied one to one into the IR, whatever they hold.
HttpFields == {"commonHttp", "http1", "http2"}
CopiedFields == HttpFields \cup {"connectTimeout", "bufferLimit", "tcpKeepalive",
                                 "healthCheck", "outlierDetection", "circuitBreakers"}

\* In strict mode Envoy is asked about a probe cluster with the policy applied.
validateXDS(s, strict) == strict => Get(s, "outlierDetection", "") # "rejected"

\* The IR a spec translates to, and whether anything in it failed.
translate(s, name, cell, secrets, strict) ==
  LET tls    == translateTLSConfig(s.tls, secrets)
      dns    == Get(s, "dns", <<>>)
      copied == {f \in CopiedFields : Has(s, f)}
      fields == copied
                \cup (IF Has(s, "tls") /\ tls.ok THEN {"tls"} ELSE {})
                \cup (IF Has(s, "loadBalancer") THEN {"lb"} ELSE {})
                \cup {f \in {"refreshRate", "jitter", "respectTTL"} : Has(dns, f)}
                \cup (IF Has(s, "proxyProtocol") THEN {"proxyProtocol"} ELSE {})
  IN [ir |-> [f \in fields |->
               CASE f = "tls" -> TlsSocket(name, tls.cert)
                 [] f = "lb" -> translateLoadBalancerConfig(s.loadBalancer, cell)
                 [] f \in {"refreshRate", "jitter", "respectTTL"} -> dns[f]
                 [] OTHER -> s[f]],
      failed |-> \/ Has(s, "tls") /\ ~tls.ok
                 \/ Get(s, "circuitBreakers", "") = "invalid"
                 \/ ~validateXDS(s, strict)]

\* The order in which policies merge: weight, then age, then name (att.ref is
\* a number that stands for the lexical order of the reference).
sortForMerge(atts) ==
  SortSeq(atts, LAMBDA a, b :
    \/ a.weight > b.weight
    \/ a.weight = b.weight /\ a.created < b.created
    \/ a.weight = b.weight /\ a.created = b.created /\ a.ref < b.ref)

\* Every field of the IR merges on its own: the first policy that sets it wins.
mergeBackendConfigPolicies(irs) ==
  FoldLeft(LAMBDA merged, ir : merged @@ ir, <<>>, irs)

-----------------------------------------------------------------------------
(* BackendConfigPolicy: the hook on the cluster.                           *)

hasBackendTLSPolicy(backend) == backend.btps # <<>>

\* Only a cluster that resolves each of its names can hash on host names.
supportsHostnameForHashing(out) == out.type = "DNS"

applyUpstreamProxyProtocol(socket) ==
  [(IF socket.kind = "none" THEN RawBuffer ELSE socket) EXCEPT !.wrapped = TRUE]

\* The options on the wire protocol: common options need some protocol config,
\* and the options of one HTTP version are ignored for a backend of the other.
applyHttpProtocolOptions(ir, backend, out) ==
  LET common == Has(ir, "commonHttp")
      h1     == Has(ir, "http1") /\ backend.appProtocol # "http2"
      h2     == Has(ir, "http2") /\ backend.appProtocol = "http2"
  IN [common |-> IF common THEN ir.commonHttp ELSE out.http.common,
      explicit |-> IF h2 THEN ir.http2
                   ELSE IF h1 THEN ir.http1
                   ELSE IF common /\ out.http.explicit = "none" THEN "http1"
                   ELSE out.http.explicit]

clearEndpointHealthCheckHostnames(cla) ==
  [cla EXCEPT !.eps = {[ep EXCEPT !.hcHost = ""] : ep \in @}]

healthCheckHasExplicitHost(h) == Get(h, "host", "") # ""

\* Only the DNS cluster extension takes the resolution settings.
applyDnsClusterConfig(ir, out) ==
  LET settings == [f \in {"refreshRate", "jitter", "respectTTL"} \cap DOMAIN ir |-> ir[f]]
  IN IF out.type \in {"DNS", "DNS_SINGLE"} THEN settings @@ out.dns ELSE out.dns

\* The load balancer part.  The cluster is given the very proto the policy IR
\* holds, not a copy.
applyLoadBalancerConfig(ir, out) ==
  IF ~Has(ir, "lb") THEN out
  ELSE [out EXCEPT !.lb = ir.lb.policy, !.locality = "none", !.panic = ir.lb.panic]

\* The protos that are rewritten in place because this cluster cannot hash on
\* host names.
disableUseHostnameForHashingIfPresent(ir, out) ==
  IF Has(ir, "lb") /\ ir.lb.policy.hostname /\ ~supportsHostnameForHashing(out)
  THEN {ir.lb.policy.cell} ELSE {}

processBackendConfig(ir, backend, out) ==
  LET tls    == IF Has(ir, "tls") /\ ~hasBackendTLSPolicy(backend) THEN ir.tls ELSE out.socket
      socket == IF Has(ir, "proxyProtocol") THEN applyUpstreamProxyProtocol(tls) ELSE tls
      opts   == [f \in (CopiedFields \ HttpFields) \cap DOMAIN ir |-> ir[f]]
      clears == Has(ir, "healthCheck") /\ healthCheckHasExplicitHost(ir.healthCheck)
  IN [applyLoadBalancerConfig(ir, out) EXCEPT
        !.socket = socket,
        !.http = applyHttpProtocolOptions(ir, backend, out),
        !.opts = opts @@ @,
        !.cla = IF clears THEN clearEndpointHealthCheckHostnames(@) ELSE @,
        !.dns = applyDnsClusterConfig(ir, out)]

-----------------------------------------------------------------------------
(* BackendTLSPolicy and Istio auto mTLS.                                   *)

\* The socket of a BackendTLSPolicy, from the system bundle or the first CA
\* reference; a reference of another kind, a missing object or one without a
\* usable certificate is an error.
translateBackendTLS(p, name, secrets) ==
  CASE p.ca = "system" -> [ok |-> TRUE, socket |-> TlsSocket(name, "")]
    [] p.ca \in {"ConfigMap", "Secret"} ->
         [ok |-> p.object \in secrets, socket |-> TlsSocket(name, "")]
    [] OTHER -> [ok |-> FALSE, socket |-> NoSocket]

\* The oldest policy wins as a whole, valid or not.
winnerIndex(atts) ==
  CHOOSE i \in DOMAIN atts : \A j \in DOMAIN atts \ {i} :
    \/ atts[i].created < atts[j].created
    \/ atts[i].created = atts[j].created /\ atts[i].ref < atts[j].ref

\* TLS replaces what is inside a PROXY wrapper, or the whole socket.
processBackendTLS(socket, out) ==
  [out EXCEPT !.socket = [socket EXCEPT !.wrapped = out.socket.wrapped]]

\* Auto mTLS adds two matches: mesh endpoints over Istio's certificate, and
\* the empty match, which every other endpoint takes, in plaintext.
processIstio(enabled, backend, out) ==
  IF ~enabled \/ backend.disableAutoMtls THEN out
  ELSE [out EXCEPT !.matches = @ \o <<[match |-> "istio", socket |-> TlsSocket("istio", "sds")],
                                     [match |-> "", socket |-> RawBuffer]>>]

-----------------------------------------------------------------------------
(* What each kind of backend initialises.  Endpoints are [addr, hcHost,    *)
(* zone, prio]; addr lists the address to dial and its alternatives.       *)

Endpoint(a, host, zone, prio) == [addr |-> a, hcHost |-> host, zone |-> zone, prio |-> prio]

\* One named host makes the whole backend DNS; each endpoint is checked under
\* its own dial address.
buildStaticIr(hosts) ==
  [type |-> IF \E h \in hosts : h.dns THEN "DNS" ELSE "STATIC",
   eps |-> {Endpoint(<<h.addr>>, h.addr, "", 0) : h \in hosts}]

\* Groups flatten static backends into one assignment, a priority per group.
buildPriorityGroupsIr(groups) ==
  LET irs == [g \in DOMAIN groups |-> buildStaticIr(groups[g])]
  IN [type |-> IF \E g \in DOMAIN irs : irs[g].type = "DNS" THEN "DNS" ELSE "STATIC",
      eps |-> UNION {{[ep EXCEPT !.prio = g - 1] : ep \in irs[g].eps} : g \in DOMAIN irs}]

processStatic(ir, out) == [out EXCEPT !.type = ir.type, !.cla = Cla(ir.eps)]

\* The function's endpoint, over TLS and HTTP/2, with the signing filters; all
\* its addresses are one endpoint.
processLambda(b, out) ==
  [out EXCEPT !.type = "DNS_SINGLE", !.http = [common |-> "lambda", explicit |-> "http2"],
              !.socket = TlsSocket("lambda", ""), !.meta = "lambda",
              !.cla = Cla({Endpoint(<<"lambda">>, "", "", 0)})]

processGcp(b, out) ==
  [out EXCEPT !.type = "DNS", !.socket = TlsSocket("gcp", ""), !.meta = "audience",
              !.cla = Cla({Endpoint(<<b.host>>, "", "", 0)})]

processDynamicForwardProxy(b, out) ==
  [out EXCEPT !.type = "CLUSTER_PROVIDED",
              !.socket = IF b.enableTls THEN TlsSocket("dfp", "") ELSE @]

\* Services, EC2 backends and ServiceEntries that select workloads use EDS.
processEds(out) == [out EXCEPT !.type = "EDS", !.eds = TRUE]

\* A ServiceEntry without a workload selector keeps its endpoints for the
\* translator; DNS_ROUND_ROBIN puts all addresses in one endpoint.
initServiceEntryBackend(b, out) ==
  CASE b.resolution = "STATIC" -> [out EXCEPT !.type = "STATIC"]
    [] b.resolution = "DNS" -> [out EXCEPT !.type = "DNS"]
    [] b.resolution = "DNS_ROUND_ROBIN" -> [out EXCEPT !.type = "DNS_SINGLE"]

InitEnvoyBackend(b, out) ==
  CASE b.kind \in {"Service", "Ec2", "WorkloadEntry"} -> processEds(out)
    [] b.kind = "ServiceEntry" -> initServiceEntryBackend(b, out)
    [] b.kind = "Static" -> processStatic(buildStaticIr(b.hosts), out)
    [] b.kind = "PriorityGroups" -> processStatic(buildPriorityGroupsIr(b.groups), out)
    [] b.kind = "Lambda" -> processLambda(b, out)
    [] b.kind = "Gcp" -> processGcp(b, out)
    [] b.kind = "DynamicForwardProxy" -> processDynamicForwardProxy(b, out)

\* A Lambda backend whose secret is missing, and a backend of an unknown kind,
\* carry an error from the start.
BackendErrors(b, secrets) ==
  IF b.kind = "Lambda" /\ b.secret \notin secrets THEN {"secret"} ELSE {}

HasInlineEndpoints(b) == b.kind = "ServiceEntry"
InlineEndpoints(b) == IF HasInlineEndpoints(b) THEN b.eps ELSE {}
=============================================================================
