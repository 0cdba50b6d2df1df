------------------------------ MODULE MCListeners ------------------------------
(* Gateways with two listener sets' worth of listeners, their routes, TLS      *)
(* references and frontend validation, for Listeners.                         *)
EXTENDS Integers, Sequences, TLC

Nil == [nil |-> TRUE]
GwParent == [kind |-> "Gateway", name |-> "gw", ns |-> "n1"]
SetParent == [kind |-> "ListenerSet", name |-> "ls", ns |-> "n2"]

Com == <<"com">>
Wild == <<"*", "com">>
Exact == <<"shop", "com">>
Deep == <<"*", "shop", "com">>
Deeper == <<"eu", "shop", "com">>

Plain(parent, name, port, protocol, host) ==
    [parent |-> parent, name |-> name, port |-> port, protocol |-> protocol, host |-> host,
     kinds |-> {}, from |-> "All", mode |-> "", certs |-> {}, options |-> {}, pols |-> {}]
Tls(l, mode, certs) == [l EXCEPT !.mode = mode, !.certs = certs]

SomeListeners == {
    <<Plain(GwParent, "l1", 0, "HTTP", <<>>), Plain(GwParent, "l2", 80, "HTTP", Wild),
      Plain(SetParent, "l3", 80, "HTTP", Deep), Plain(SetParent, "l4", 80, "HTTP", Exact)>>,
    <<[Plain(GwParent, "l1", 80, "HTTP", Wild) EXCEPT !.from = "Selector"], [Plain(GwParent, "l2", 80, "HTTP", Deeper) EXCEPT !.from = "Same"],
      Plain(SetParent, "l3", 80, "HTTP", Wild), Plain(SetParent, "l4", 80, "HTTP", <<>>)>>,
    <<Plain(GwParent, "l1", 80, "HTTP", Exact), Plain(GwParent, "l2", 80, "TCP", <<>>),
      Plain(SetParent, "l3", 80, "HTTP", <<>>), Plain(SetParent, "l4", 9091, "HTTP", <<>>)>>,
    <<Tls(Plain(GwParent, "l1", 0, "HTTPS", Exact), "Terminate", {"cert1", "cert2"}),
      [Tls(Plain(GwParent, "l2", 443, "HTTPS", Wild), "Terminate", {"cert1"}) EXCEPT !.options = {"san"}],
      [Tls(Plain(SetParent, "l3", 443, "HTTPS", Deep), "Terminate", {"cert1"}) EXCEPT !.pols = {[refs |-> {"ca2"}, required |-> TRUE]}],
      Tls(Plain(SetParent, "l4", 443, "TLS", Deeper), "Passthrough", {})>>,
    <<Tls(Plain(GwParent, "l1", 443, "TLS", Wild), "Terminate", {"cert2"}), Tls(Plain(GwParent, "l2", 443, "TLS", Exact), "Passthrough", {}),
      Tls(Plain(SetParent, "l3", 443, "HTTPS", Deep), "Terminate", {"cert1"}),
      [Tls(Plain(SetParent, "l4", 444, "HTTPS", Deep), "Terminate", {"cert1"}) EXCEPT !.pols = {[refs |-> {"ca1"}, required |-> FALSE]}]>>,
    <<Plain(GwParent, "l1", 90, "TCP", <<>>), Plain(GwParent, "l2", 90, "TCP", <<>>), Plain(SetParent, "l3", 0, "TCP", <<>>),
      Tls(Plain(SetParent, "l4", 443, "TLS", <<>>), "Terminate", {"cert1"})>>,
    <<Plain(GwParent, "l1", 90, "UDP", <<>>), [Plain(GwParent, "l2", 80, "HTTP", <<>>) EXCEPT !.kinds = {"TCPRoute"}],
      [Plain(SetParent, "l3", 80, "HTTP", Wild) EXCEPT !.kinds = {"TCPRoute", "GRPCRoute"}],
      [Tls(Plain(SetParent, "l4", 443, "HTTPS", Exact), "Terminate", {"cert1"}) EXCEPT !.options = {"unknown"}]>>,
    <<Plain(GwParent, "l1", 90, "UDP", <<>>), [Plain(SetParent, "l3", 80, "HTTP", <<>>) EXCEPT !.from = "invalid", !.kinds = {"TCPRoute"}],
      [Tls(Plain(SetParent, "l4", 19000, "HTTPS", <<>>), "Terminate", {"cert1"}) EXCEPT !.options = {"bad"}]>>}

Ref(name, section, port) == [name |-> name, section |-> section, port |-> port]
RouteOf(kind, ns, parents, hosts, created, rules, backends) ==
    [kind |-> kind, ns |-> ns, parents |-> parents, hosts |-> hosts, created |-> created, rules |-> rules, backends |-> backends]
Both == <<Ref("gw", "", 0), Ref("ls", "", 0)>>

SomeRoutes == {
    [r1 |-> RouteOf("HTTPRoute", "n1", Both, {Deeper, Wild}, 1, 1, {}), r2 |-> RouteOf("HTTPRoute", "n2", Both, {}, 2, 1, {})],
    [r1 |-> RouteOf("HTTPRoute", "n2", <<Ref("gw", "l1", 0), Ref("ls", "", 80)>>, {Deep, Exact}, 1, 2, {}),
     r2 |-> RouteOf("GRPCRoute", "n1", Both, {Deeper, Exact}, 1, 1, {})],
    [r1 |-> RouteOf("HTTPRoute", "n1", <<Ref("gw", "l2", 0)>>, {Deeper, Exact}, 1, 1, {}),
     r2 |-> RouteOf("HTTPRoute", "n1", <<Ref("ls", "", 0)>>, {}, 1, 1, {})],
    [r1 |-> RouteOf("HTTPRoute", "n1", Both, {Exact}, 1, 0, {}), r2 |-> RouteOf("TLSRoute", "n1", Both, {Exact, Deeper}, 2, 1, {"ok"})],
    [r1 |-> RouteOf("TCPRoute", "n1", Both, {}, 2, 1, {"ok", "bad"}), r2 |-> RouteOf("TCPRoute", "n2", Both, {}, 1, 1, {"ok"})],
    [r1 |-> RouteOf("TCPRoute", "n1", Both, {}, 1, 2, {"ok"}), r2 |-> RouteOf("TLSRoute", "n1", Both, {}, 1, 1, {"ok"})],
    [r1 |-> RouteOf("TCPRoute", "n1", Both, {}, 1, 1, {}), r2 |-> RouteOf("TLSRoute", "n2", <<Ref("gw", "", 443)>>, {Wild}, 1, 1, {"bad"})]}

Val(refs, required) == [refs |-> refs, required |-> required]
SomeFrontends == {
    Nil, [default |-> Val({"ca1"}, TRUE), ports |-> <<>>],
    [default |-> Nil, ports |-> (443 :> Val({"ca1", "other"}, FALSE)) @@ (444 :> Val({"other"}, TRUE))],
    [default |-> Val({"ca1", "ca2"}, FALSE), ports |-> (444 :> Val({"ca2"}, TRUE))]}

Object(kind, ns, state, granted) == [kind |-> kind, ns |-> ns, state |-> state, granted |-> granted]
SomeRefs == {
    [cert1 |-> Object("Secret", "n2", c1, g), cert2 |-> Object("Secret", "n1", c2, {}), other |-> Object("Service", "n1", "ok", {}),
     ca1 |-> Object("ConfigMap", "n1", ca, {}), ca2 |-> Object("Secret", "n2", "ok", g)] :
        c1 \in {"ok", "missing"}, c2 \in {"ok", "bad"}, g \in {{}, {"gw"}}, ca \in {"ok", "missing"}}

Settled == [cert1 |-> Object("Secret", "n2", "ok", {"gw"}), cert2 |-> Object("Secret", "n1", "bad", {}),
            other |-> Object("Service", "n1", "ok", {}), ca1 |-> Object("ConfigMap", "n1", "ok", {}),
            ca2 |-> Object("Secret", "n2", "ok", {"gw"})]

StartOf(ls, rs, frontend) ==
    [gateway |-> GwParent, listeners |-> ls, routes |-> rs, selected |-> {"n1"}, frontend |-> frontend, refs |-> Settled]
\* Routes bear on no frontend validation, so one set of them is enough for these.
SomeStart ==
    {StartOf(ls, rs, Nil) : ls \in SomeListeners, rs \in SomeRoutes}
    \cup {StartOf(ls, CHOOSE rs \in SomeRoutes : TRUE, f) : ls \in SomeListeners, f \in SomeFrontends}
SomeEdits == [routes |-> SomeRoutes, selected |-> {{"n1"}, {"n2"}}, frontend |-> SomeFrontends, refs |-> SomeRefs]
SomeLens == [x \in {"*"} |-> 1] @@ [com |-> 3, shop |-> 4, eu |-> 2]
BothOrders == {<<"r1", "r2">>, <<"r2", "r1">>}
=============================================================================
