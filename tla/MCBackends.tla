------------------------------ MODULE MCBackends ------------------------------
(***************************************************************************)
(* Small instances for BackendTranslation (two backends, a mesh client and  *)
(* one outside the mesh, and families of configurations around one feature  *)
(* each) and for EndpointPriorities (two localities, four clients).         *)
(***************************************************************************)
EXTENDS BackendPolicies

C1 == [ns |-> "a", zone |-> "z1", ambient |-> TRUE, gatewayClass |-> "kgateway", custom |-> TRUE]
C2 == [ns |-> "b", zone |-> "z2", ambient |-> FALSE, gatewayClass |-> "kgateway", custom |-> FALSE]
TwoClients == {C1, C2}
TwoBackends == {"b1", "b2"}

Common(name, kind) ==
  [name |-> name, kind |-> kind, host |-> name, port |-> 80, ns |-> "a", generation |-> 1, td |-> "Any",
   appProtocol |-> "", disableAutoMtls |-> FALSE, cert |-> "", label |-> FALSE, addrs |-> <<>>,
   bcps |-> <<>>, btps |-> <<>>]
Service(name) == Common(name, "Service")
Entry(name, resolution, eps) ==
  [resolution |-> resolution, eps |-> eps] @@ Common(name, "ServiceEntry")
Static(name, hosts) == [hosts |-> hosts] @@ Common(name, "Static")
Host(a, dns) == [addr |-> a, dns |-> dns]

Ep(a, z) == Endpoint(<<a>>, "", z, 0)
Att(name, created) == [name |-> name, weight |-> 0, created |-> created, ref |-> created]
Policy(outlier, locality) == [outlier |-> outlier, locality |-> locality]
Rule(host, exports, created, p) ==
  [host |-> host, exportTo |-> exports, created |-> created, policy |-> p,
   portLevel |-> [port |-> 0, policy |-> p]]

World(b1, b2) ==
  [strict |-> FALSE, istio |-> FALSE, family |-> "V4Preferred", custom |-> "off", secrets |-> {"s"},
   bcp |-> <<>>, btp |-> <<>>, rules |-> {}, waypoints |-> {}, nsLabels |-> {},
   backends |-> [b \in TwoBackends |-> IF b = "b1" THEN b1 ELSE b2]]

\* Rules come and go for a host whose endpoints are inline, and endpoints move.
InlineRules ==
  {[World([Entry("b1", "STATIC", eps) EXCEPT !.td = td], Service("b2")) EXCEPT !.rules = rules] :
     eps \in {{Ep("x", "z1")}, {Ep("x", "z1"), Ep("y", "z2")}},
     td \in {"Any", "PreferSameZone"},
     rules \in {{}, {Rule("b1", {"*"}, 1, Policy("none", TRUE))},
                {Rule("b1", {"b"}, 2, Policy("5xx", FALSE)), Rule("b2", {"*"}, 1, Policy("5xx", TRUE))}}}

\* A port-level policy, hidden rules and rules of several ages, on an EDS cluster.
PortRules ==
  {[World([Service("b1") EXCEPT !.port = port, !.generation = port], Service("b2")) EXCEPT !.rules = rules] :
     port \in {80, 81},
     rules \in SUBSET {[Rule("b1", {"*"}, 2, Policy("5xx", TRUE)) EXCEPT
                          !.portLevel = [port |-> 81, policy |-> Policy("none", TRUE)]],
                       Rule("b1", {"*"}, 1, Policy("gateway", FALSE)),
                       Rule("b1", {"a"}, 0, Policy("local", FALSE))}}

\* The mesh client is sent to the service's addresses.
V4 == [v4 |-> TRUE, ip |-> "v4"]
V6 == [v4 |-> FALSE, ip |-> "v6"]
Waypoints(family, td) ==
  {[World([Service("b1") EXCEPT !.label = (labels = {}), !.addrs = addrs, !.td = td], Service("b2")) EXCEPT
      !.family = family, !.waypoints = ways, !.nsLabels = labels,
      !.rules = {Rule("b1", {"a"}, 1, Policy("5xx", TRUE))}] :
     addrs \in {<<>>, <<V6, V4>>},
     ways \in {{}, {"b1"}}, labels \in {{}, {"a"}, {"b"}}}

\* TLS from three sources, PROXY protocol around it, and a client certificate.
Identity(custom, istio, certs) ==
  {[World([Static("b1", {Host("x", FALSE)}) EXCEPT !.cert = cert, !.btps = btps, !.bcps = <<Att("p", 1)>>],
          [Service("b2") EXCEPT !.cert = "gw", !.disableAutoMtls = TRUE]) EXCEPT
      !.custom = custom, !.istio = istio, !.secrets = secrets,
      !.bcp = [p |-> spec], !.btp = [t |-> [ca |-> "ConfigMap", object |-> "s"]]] :
     cert \in certs, btps \in {<<>>, <<Att("t", 1)>>}, secrets \in {{}, {"s"}},
     spec \in {[tls |-> [source |-> "insecureSkipVerify"], proxyProtocol |-> "v2"],
               [proxyProtocol |-> "v1"]}}

\* Hooks of another plugin that change the discovery type.
Retyped(custom) ==
  {[World([Entry("b1", "DNS", eps) EXCEPT !.generation = g],
          [Static("b2", {Host("x", TRUE)}) EXCEPT !.generation = g]) EXCEPT !.custom = custom] :
     eps \in {{Ep("x", "z1")}, {Ep("y", "z1"), Endpoint(<<>>, "", "z1", 0)}}, g \in {1, 2}}

\* Strict validation of clusters that are complete on the base, or per client.
Strict ==
  {[World([Entry("b1", "DNS_ROUND_ROBIN", eps) EXCEPT !.td = td, !.generation = Cardinality(eps)],
          [Static("b2", {Host("x", TRUE)}) EXCEPT !.bcps = <<Att("p", 1)>>]) EXCEPT
      !.strict = TRUE, !.rules = rules, !.bcp = [p |-> spec]] :
     eps \in {{Ep("x", "z1")}, {Ep("x", "z1"), Ep("y", "z2")}},
     td \in {"Any", "PreferSameZone"},
     rules \in {{}, {Rule("b2", {"*"}, 1, Policy("rejected", FALSE))}},
     spec \in {[outlierDetection |-> "ok"], [outlierDetection |-> "rejected"]}}

\* Policies that merge, zone awareness, health checks and protocol options.
Zone == [kind |-> "roundRobin", zoneAware |-> TRUE]
Merged ==
  {[World([Entry("b1", "STATIC", {Ep("x", "z1"), Ep("y", "z2")}) EXCEPT
             !.td = "PreferSameZone", !.bcps = atts],
          [Static("b2", {Host("x", TRUE)}) EXCEPT !.bcps = <<Att("q", 2)>>, !.appProtocol = "http2"]) EXCEPT
      !.bcp = [p |-> p, q |-> q]] :
     atts \in {<<>>, <<Att("q", 2)>>, <<Att("p", 1), Att("q", 2)>>},
     p \in {[http1 |-> "tuned", connectTimeout |-> "1s"], [loadBalancer |-> [kind |-> "leastRequest"]],
            [circuitBreakers |-> "invalid"]},
     q \in {[loadBalancer |-> Zone, commonHttp |-> "idle"],
            [healthCheck |-> [protocol |-> "http", host |-> "h"], connectTimeout |-> "2s", http2 |-> "tuned2",
             dns |-> [refreshRate |-> 1]]}}

\* The other kinds of backend, and secrets that come and go.
Kinds ==
  {[World([[secret |-> "s"] @@ Common("b1", "Lambda") EXCEPT !.bcps = <<Att("p", 1)>>], other) EXCEPT
      !.secrets = secrets, !.bcp = [p |-> spec]] :
     other \in {[Common("b2", "Gcp") EXCEPT !.host = "gcp"],
                [enableTls |-> TRUE] @@ Common("b2", "DynamicForwardProxy"),
                [groups |-> <<{Host("x", FALSE)}, {Host("y", TRUE)}>>] @@ Common("b2", "PriorityGroups"),
                Common("b2", "Ec2")},
     secrets \in {{}, {"s"}},
     spec \in {[tls |-> [source |-> "secretRef", secret |-> "s", cert |-> TRUE, key |-> TRUE, ca |-> TRUE]],
               [tls |-> [source |-> "wellKnownCACertificates", cert |-> FALSE, key |-> FALSE, ca |-> FALSE]]}}

Families ==
  <<InlineRules, PortRules, Strict, Merged, Kinds, Retyped("eds"), Retyped("static"),
   Waypoints("V4Preferred", "PreferSameZone"), Waypoints("V6Only", "Any"),
   Identity("off", TRUE, {"", "gw", "gw2"}), Identity("ownTLS", FALSE, {"gw"}),
   Identity("plainMatch", TRUE, {"gw"}), Identity("plaintext", FALSE, {"gw"})>>
-----------------------------------------------------------------------------
Labels(n, r, z, s, h) == [network |-> n, region |-> r, zone |-> z, subzone |-> s, hostname |-> h]
East == [region |-> "r1", zone |-> "z1", subzone |-> ""]
West == [region |-> "r2", zone |-> "z2", subzone |-> ""]
EpContent == {
    [addr |-> "a", labels |-> Labels("n1", "r1", "z1", "", "h1"), weight |-> 1],
    [addr |-> "b", labels |-> Labels("n1", "r2", "z2", "", "h2"), weight |-> 2]}
Unaddressed == [addr |-> "", labels |-> Labels("n2", "r1", "z1", "", "h1"), weight |-> 1]
At(addr) == CHOOSE content \in EpContent : content.addr = addr
EpLocality == {East, West}
EpSource == {<<<<East, At("a")>>>>, <<<<East, Unaddressed>>, <<West, At("b")>>>>}
EpClient == {
    [labels |-> Labels("n1", "r1", "z1", "", "h1"), locality |-> East],
    [labels |-> Labels("n1", "r1", "z1", "", "h2"), locality |-> East],
    [labels |-> Labels("n2", "r1", "z1", "", "h1"), locality |-> West],
    [labels |-> Labels("n1", "r2", "z2", "", "h2"), locality |-> West]}
EpPriority == {
    [set |-> TRUE, labels |-> <<<<"zone", "z1">>, <<"hostname", "">>>>, failover |-> {}],
    [set |-> TRUE, labels |-> <<>>, failover |-> {[from |-> "r1", to |-> "r3"]}]}
=============================================================================
