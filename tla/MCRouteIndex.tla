----------------------------- MODULE MCRouteIndex -----------------------------
(* Small clusters for RouteIndex: the objects, how they start and how they   *)
(* may be edited.                                                            *)
EXTENDS RouteIndex, SequencesExt

Obj(kind, ns, name) == [kind |-> kind, ns |-> ns, name |-> name]
SomePolicies == {"tp1", "tp2", "btp1", "btp2", "lp"}
SomeBackends == {"svc", "far", "entry", "entry2"}
SomeRoutes == {"http", "tcp"}
OneGateway == {"gw"}
TwoListenerSets == {"near", "away"}
Sources ==
    "tp1" :> Obj("TrafficPolicy", "a", "tp1") @@ "tp2" :> Obj("TrafficPolicy", "sys", "tp2")
    @@ "btp1" :> Obj("BackendTLSPolicy", "a", "btp1") @@ "btp2" :> Obj("BackendTLSPolicy", "a", "btp2")
    @@ "lp" :> Obj("ListenerPolicy", "a", "lp")
    @@ "svc" :> Obj("Service", "a", "svc") @@ "far" :> Obj("Service", "b", "far")
    @@ "entry" :> Obj("ServiceEntry", "b", "e1") @@ "entry2" :> Obj("ServiceEntry", "b", "e2")
    @@ "http" :> Obj("HTTPRoute", "a", "http") @@ "tcp" :> Obj("TCPRoute", "a", "tcp")
    @@ "gw" :> Obj("Gateway", "a", "gw")
    @@ "near" :> Obj("ListenerSet", "a", "near") @@ "away" :> Obj("ListenerSet", "b", "away")
Ages ==
    "tp1" :> 1 @@ "tp2" :> 3 @@ "lp" :> 2 @@ "btp1" :> 4 @@ "btp2" :> 5
    @@ "svc" :> 1 @@ "far" :> 1 @@ "entry" :> 2 @@ "entry2" :> 1
SetsByAge == <<"away", "near">>
SomeGrants == {<<"HTTPRoute", "a", "Service", "b", "">>, <<"HTTPRoute", "a", "Service", "c", "">>}
BackendPolicyKinds == {"BackendTLSPolicy"}
Aliases == "Service" :> {} @@ "Backend" :> {} @@ "Hostname" :> {"ServiceEntry"} @@ "Other" :> {}
KindsOfBackends == {"Service", "Backend", "ServiceEntry"}
TwoOrders == {<<"tp1", "tp2", "lp", "btp1", "btp2">>, <<"btp2", "lp", "tp2", "tp1", "btp1">>}

Ref(kind, name, section) == [kind |-> kind, name |-> name, section |-> section, labels |-> {}]
Select(kind, section, labels) == [kind |-> kind, name |-> "", section |-> section, labels |-> labels]
Pol(refs, weight) == [refs |-> refs, weight |-> weight]
To(kind, ns, name, port) == [kind |-> kind, ns |-> ns, name |-> name, port |-> port]
Svc(portName) == [port |-> "80", portName |-> portName, aliases |-> <<>>, labels |-> {"x"},
                  supports |-> {"HTTPRoute", "TCPRoute"}]
Entry == [port |-> "80", portName |-> "", aliases |-> <<Obj("Hostname", "", "host")>>, supports |-> {"HTTPRoute"}]
Rule(name, filters, backends) == [name |-> name, filters |-> filters, backends |-> backends]
HTTP(labels, rules) == [labels |-> labels, rules |-> rules]
Gw(allowed) == [listeners |-> <<"l1">>, allowed |-> allowed]

Empty == [o \in Objects |-> Nil]
ToFar == To("Service", "b", "far", "80")
Far(name) == HTTP({"x"}, <<Rule(name, <<>>, <<ToFar>>)>>)
Plain == HTTP({"x"}, <<Rule("", <<>>, <<To("Service", "a", "svc", "80")>>)>>)
Cluster(o, g) == [obj |-> o @@ Empty, grant |-> g, open |-> {}]

References ==
    {Cluster("http" :> Far("r1") @@ "far" :> f @@ "svc" :> Svc(""), g) : f \in {Svc(""), Nil}, g \in SUBSET SomeGrants}
    \cup {Cluster("http" :> HTTP({}, <<Rule("", <<[ext |-> "tp1"]>>, refs)>>) @@ "entry" :> Entry @@ "svc" :> Svc(""), {}) :
            refs \in {<<To("Hostname", "", "host", "80")>>, <<To("Hostname", "", "host", "81")>>,
                      <<To("Service", "a", "svc", "81"), To("Backend", "a", "be", "80")>>,
                      <<To("HTTPRoute", "a", "child", ""), To("Other", "a", "x", "")>>}}
    \cup {Cluster("tcp" :> HTTP({}, <<Rule("", <<>>, <<To("Hostname", "", "host", "80"), To("Service", "a", "svc", "80")>>)>>)
                  @@ "entry" :> Entry, {})}
Attachments ==
    {Cluster("http" :> Far("r1") @@ "far" :> Svc("") @@ "svc" :> Svc("web")
             @@ "btp1" :> Pol({Ref("Service", "svc", "")}, 0) @@ "tp1" :> Pol({Ref("HTTPRoute", "http", "")}, 0), {})}
ListenerSets ==
    {Cluster("gw" :> Gw(a) @@ "near" :> [parent |-> "gw", listeners |-> <<"l2">>]
             @@ "away" :> [parent |-> "gw", listeners |-> <<"l3">>], {}) : a \in {"nil", "Same", "Selector", "All"}}
SomeClusters == References \cup Attachments \cup ListenerSets

SomeEdits ==
    "tp1" :> {Nil, Pol({Ref("HTTPRoute", "http", "r1")}, 0), Pol({Ref("HTTPRoute", "http", ""), Ref("Gateway", "gw", "")}, 1)}
    @@ "tp2" :> {Pol({Select("HTTPRoute", "", {"x"})}, 2), Pol({Select("HTTPRoute", "", {"x", "y"})}, 0)}
    @@ "btp2" :> {Nil, Pol({Ref("Service", "svc", "web")}, 0)}
    @@ "lp" :> {Pol({Ref("ListenerSet", "near", ""), Ref("ListenerSet", "near", "l2")}, 0)}
    @@ "svc" :> {Nil, Svc("web")} @@ "far" :> {Nil, Svc("")} @@ "entry2" :> {Nil, Entry}
    @@ "http" :> {Plain, Far("")} @@ "gw" :> {Gw("nil"), Gw("All")}
    @@ "away" :> {Nil, [parent |-> "gw", listeners |-> <<"l3">>]}
=============================================================================
