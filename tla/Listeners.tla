------------------------------- MODULE Listeners -------------------------------
(***************************************************************************)
(* From the listeners of a Gateway and its ListenerSets to filter chains:   *)
(* which routes attach where (query), which listeners conflict and what is  *)
(* reported about them (translator/listener/validation.go), and the chains  *)
(* and virtual hosts of each port (gateway_listener_translator.go).         *)
(*                                                                          *)
(* A hostname is the sequence of its labels, "*" being one; <<>> is none.   *)
(* Listeners are numbered by their precedence.                              *)
(***************************************************************************)
EXTENDS Integers, Sequences, FiniteSets, SequencesExt

CONSTANTS
    LabelLen,      \* [label -> its length]
    Orders,        \* the orders in which krt may list routes
    Experimental,  \* EnableExperimentalGatewayAPIFeatures
    Start,         \* gateways with their routes and secrets, at startup
    Edits,         \* [key -> the values that field of the world may change to]
    MaxEdits       \* bound on the changes

VARIABLES
    world,   \* [listeners, routes, selected, frontend, refs]
    fresh,   \* whether out is the translation of the world
    out,     \* the result of the last translation
    edits

vars == <<world, fresh, out, edits>>

Nil == [nil |-> TRUE]
L(i) == world.listeners[i]
Listener == DOMAIN world.listeners
-----------------------------------------------------------------------------
(* query: hostnames.                                                       *)
IsWild(h) == Len(h) > 1 /\ Head(h) = "*"
UnderWildcard(h, w) == IsStrictSuffix(Tail(w), h)

(* The hostnames that a listener and a route have in common, or <<>>.      *)
IntersectHostnames(l, r) ==
    CASE l = <<>> -> r
      [] r = <<>> -> l
      [] OTHER ->
        IF ~ IsWild(l) /\ ~ IsWild(r) THEN IF l = r THEN l ELSE <<>>
        ELSE IF ~ IsWild(r) THEN IF UnderWildcard(r, l) THEN r ELSE <<>>
        ELSE IF ~ IsWild(l) THEN IF UnderWildcard(l, r) THEN l ELSE <<>>
        ELSE IF IsSuffix(Tail(r), Tail(l)) THEN l
        ELSE IF IsSuffix(Tail(l), Tail(r)) THEN r ELSE <<>>

hostnameIntersect(l, hosts) ==
    IF hosts = {} THEN [ok |-> TRUE, hosts |-> {l} \ {<<>>}]
    ELSE LET both == {IntersectHostnames(l, h) : h \in hosts} \ {<<>>}
         IN  [ok |-> both # {}, hosts |-> both]
-----------------------------------------------------------------------------
(* query: attachment.                                                      *)
Terminates(l) == l.mode = "Terminate"
defaultAllowedRouteKinds(l) ==
    CASE l.protocol \in {"HTTP", "HTTPS"} -> {"HTTPRoute", "GRPCRoute"}
      [] l.protocol = "TLS" -> {"TLSRoute"} \cup IF Terminates(l) THEN {"TCPRoute"} ELSE {}
      [] l.protocol = "TCP" -> {"TCPRoute"}
      [] l.protocol = "UDP" -> {""}
      [] OTHER -> {"HTTPRoute"}

(* The selector "invalid" stands for one that is missing or unparsable.    *)
allowedRoutes(l, route) ==
    /\ l.from # "invalid"
    /\ route.kind \in (IF l.kinds = {} THEN defaultAllowedRouteKinds(l) ELSE l.kinds \cap defaultAllowedRouteKinds(l))
    /\ \/ l.from = "All"
       \/ l.from = "Selector" /\ route.ns \in world.selected
       \/ l.from = "Same" /\ route.ns = l.parent.ns

parentRefMatchListener(ref, l) == ref.port \in {0, l.port} /\ ref.section \in {"", l.name}

(* What becomes of one parent reference of a route.                        *)
processRoute(r, ref) ==
    LET route == world.routes[r]
        allowed == {i \in Listener : L(i).parent.name = ref.name /\ allowedRoutes(L(i), route)}
        matched == {i \in allowed : parentRefMatchListener(ref, L(i))}
        common(i) == hostnameIntersect(L(i).host, route.hosts)
        attached == {i \in matched : route.kind = "TCPRoute" \/ common(i).ok}
    IN  [infos |-> [i \in attached |->
                      [route |-> r, ref |-> ref, hosts |-> IF route.kind = "TCPRoute" THEN {} ELSE common(i).hosts]],
         error |-> CASE allowed = {} -> "NotAllowedByListeners"
                     [] allowed # {} /\ matched = {} -> "NoMatchingParent"
                     [] matched # {} /\ attached = {} -> "NoMatchingListenerHostname"
                     [] OTHER -> ""]

RefsOf(ord) ==
    FlattenSeq([k \in DOMAIN ord |->
        IF ord[k] \in DOMAIN world.routes
        THEN [j \in DOMAIN world.routes[ord[k]].parents |-> <<ord[k], world.routes[ord[k]].parents[j]>>] ELSE <<>>])

(* GetRoutesForGateway: the routes of each listener, in krt's order.       *)
GetRoutesForGateway(ord) ==
    LET refs == RefsOf(ord)
    IN  [i \in Listener |->
            FoldLeft(LAMBDA acc, x : LET p == processRoute(x[1], x[2])
                                     IN  IF i \in DOMAIN p.infos THEN Append(acc, p.infos[i]) ELSE acc, <<>>, refs)]
RouteErrors(ord) ==
    {[route |-> x[1], ref |-> x[2], reason |-> processRoute(x[1], x[2]).error] :
        x \in {y \in Range(RefsOf(ord)) : processRoute(y[1], y[2]).error # ""}}
-----------------------------------------------------------------------------
(* validation.go.  Conditions are [type -> <<status, reason>>].            *)
getSupportedRouteKindsForListener(l) ==
    CASE l.protocol \in {"HTTP", "HTTPS"} -> {"HTTPRoute", "GRPCRoute"}
      [] l.protocol = "TCP" -> {"TCPRoute"}
      [] l.protocol = "TLS" -> {"TLSRoute"} \cup IF Terminates(l) THEN {"TCPRoute"} ELSE {}
      [] l.protocol = "HBONE" -> {"HTTPRoute", "GRPCRoute", "TCPRoute", "TLSRoute"}
      [] OTHER -> {}

validateSupportedRoutes(l) ==
    LET supported == getSupportedRouteKindsForListener(l)
    IN  CASE supported = {} -> [ok |-> FALSE, conds |-> [Accepted |-> <<"False", "UnsupportedProtocol">>]]
          [] l.kinds = {} /\ supported # {} -> [ok |-> TRUE, conds |-> <<>>]
          [] OTHER -> [ok |-> l.kinds \cap supported # {},
                       conds |-> IF l.kinds \subseteq supported THEN <<>>
                                 ELSE [ResolvedRefs |-> <<"False", "InvalidRouteKinds">>]]

DetectListenerPortNumber(l) ==
    CASE l.port # 0 -> l.port
      [] l.port = 0 /\ l.protocol = "HTTP" -> 80
      [] l.port = 0 /\ l.protocol = "HTTPS" -> 443
      [] OTHER -> 0
ReservedPorts == {9091, 8082, 19000}

NormalizedProtocol(l) == IF l.protocol \in {"HTTPS", "TLS"} THEN "HTTPS/TLS" ELSE l.protocol

(* portProtocol: the listeners of a port, in the order of precedence.      *)
OnPort(port) == {i \in Listener : validateSupportedRoutes(L(i)).ok /\ DetectListenerPortNumber(L(i)) = port}
First(S) == CHOOSE i \in S : \A j \in S : i <= j

unsupportedMixedTLSModeConflict(pp, i) ==
    /\ ~ Experimental
    /\ L(i).protocol = "TLS"
    /\ {"Terminate", "Passthrough"} \subseteq {L(j).mode : j \in {k \in pp : L(k).protocol = "TLS"}}

protocolConflict(pp, i) ==
    /\ Cardinality({NormalizedProtocol(L(j)) : j \in pp}) > 1
    /\ L(i).protocol # L(First(pp)).protocol

hostNameConflict(pp, i) == i # First({j \in pp : L(j).host = L(i).host})

rejectInvalidListener(reason) == [Accepted |-> <<"False", reason>>, Programmed |-> <<"False", reason>>]
rejectConflictedListener(reason) == [Conflicted |-> <<"True", reason>>] @@ rejectInvalidListener(reason)

(* The conditions a listener gets from validation; Accepted=False rejects. *)
validateListener(i) ==
    LET kinds == validateSupportedRoutes(L(i))
        port == DetectListenerPortNumber(L(i))
        pp == OnPort(port)
    IN  CASE ~ kinds.ok -> kinds.conds
          [] kinds.ok /\ port = 0 -> rejectInvalidListener("Invalid") @@ kinds.conds
          [] OTHER ->
                IF unsupportedMixedTLSModeConflict(pp, i) \/ protocolConflict(pp, i)
                THEN rejectConflictedListener("ProtocolConflict") @@ kinds.conds
                ELSE IF hostNameConflict(pp, i) THEN rejectConflictedListener("HostnameConflict") @@ kinds.conds
                ELSE IF port \in ReservedPorts THEN rejectConflictedListener("Invalid") @@ kinds.conds
                ELSE kinds.conds

Valid(i) == validateSupportedRoutes(L(i)).ok /\ "Accepted" \notin DOMAIN validateListener(i)
validListeners == {i \in Listener : Valid(i)}

(* The conditions of the Gateway and of its ListenerSets.                  *)
validateListeners ==
    LET parents == {L(i).parent : i \in Listener}
        short(p) == \E i \in Listener : L(i).parent = p /\ ~ Valid(i)
        rejected(p) == \E i \in Listener : /\ L(i).parent = p /\ "Accepted" \in DOMAIN validateListener(i)
                                           /\ validateSupportedRoutes(L(i)).ok
    IN  [p \in parents |->
            IF validListeners = {} /\ p.kind = "Gateway"
            THEN [Accepted |-> <<"False", "ListenersNotValid">>, Programmed |-> <<"False", "Invalid">>]
            ELSE IF IF validListeners = {} THEN rejected(p) ELSE short(p)
            THEN [Accepted |-> <<"True", "ListenersNotValid">>] ELSE <<>>]
attachedListenerSets == {L(i).parent : i \in {j \in validListeners : L(j).parent.kind = "ListenerSet"}}
-----------------------------------------------------------------------------
(* TLS of a listener.  A reference is [kind, ns, state, granted]: what it   *)
(* names, and the parents a ReferenceGrant lets refer to it.                *)
RefError(name, parent, found) ==
    LET ref == world.refs[name]
    IN  CASE ref.ns # parent.ns /\ parent.name \notin ref.granted -> "MissingReferenceGrant"
          [] ref.ns = parent.ns \/ parent.name \in ref.granted ->
             IF ref.state = "missing" THEN "NotFound" ELSE IF ref.state = "bad" THEN found ELSE ""

buildCaCertificateReference(name, parent) ==
    LET err == RefError(name, parent, "BadCa")
        kind == world.refs[name].kind
    IN  CASE kind = "ConfigMap" /\ err = "MissingReferenceGrant" -> "MissingCaCertificateRefGrant"
          [] kind = "ConfigMap" /\ err = "NotFound" -> "InvalidCACertificateRef"
          [] kind \notin {"ConfigMap", "Secret"} -> "UnsupportedCa"
          [] OTHER -> err

(* applyClientCertificateValidation: [cas, errs] for a validation.         *)
CAsOf(val, parent) ==
    [cas |-> {n \in val.refs : buildCaCertificateReference(n, parent) = ""},
     errs |-> {buildCaCertificateReference(n, parent) : n \in val.refs} \ {""}]

(* getFrontendTLSConfig for one validation: unsupported kinds are dropped. *)
ValidationIR(val) ==
    LET valid == {n \in val.refs : world.refs[n].kind \in {"ConfigMap", "Secret"}}
    IN  [val |-> IF valid = {} THEN Nil ELSE [refs |-> valid, required |-> val.required],
         errs |-> IF valid = val.refs THEN {} ELSE {"InvalidCACertificateKind"}]

(* front is the FrontendTLSConfig of the merged listener's gateway.        *)
resolveFrontendTLSConfig(port, front) ==
    CASE front = Nil -> [val |-> Nil, errs |-> {}]
      [] front # Nil ->
         LET own == IF port \in DOMAIN front.ports THEN ValidationIR(front.ports[port]) ELSE [val |-> Nil, errs |-> {}]
         IN  IF own.errs # {} \/ own.val # Nil THEN own
             ELSE IF front.default = Nil THEN [val |-> Nil, errs |-> {}] ELSE ValidationIR(front.default)

(* The union of the validations of the attached ListenerPolicies.          *)
getCertValidationFromAttached(l) ==
    LET refs == UNION {v.refs : v \in l.pols}
    IN  IF refs = {} THEN Nil ELSE [refs |-> refs, required |-> \E v \in l.pols : v.required]

OptionErrors(l) == (IF "unknown" \in l.options THEN {"UnknownTLSExtensionOption"} ELSE {})
                   \cup (IF "bad" \in l.options THEN {"BadOption"} ELSE {})

(* [cfg, errs]; cfg and an error together mean a partially valid listener. *)
translateTLSConfig(l, val, gw) ==
    LET certErr(n) == RefError(n, l.parent, "InvalidTlsSecret")
        certs == {n \in l.certs : certErr(n) = ""}
        certErrs == {certErr(n) : n \in l.certs} \ {""}
        trusted == val # Nil
        ofGw == IF trusted THEN CAsOf(val, gw) ELSE [cas |-> {}, errs |-> {}]
        pol == getCertValidationFromAttached(l)
        ofPol == CAsOf(pol, l.parent)
        none(errs) == [cfg |-> Nil, errs |-> errs]
        cfg(cas, req) == [certs |-> certs, cas |-> cas, required |-> cas # {} /\ req]
        cfgOfGw == cfg(ofGw.cas, trusted /\ val.required)
    IN  CASE l.mode # "Terminate" -> none({})
          [] l.mode = "Terminate" ->
             IF certs = {} /\ certErrs # {} THEN none(certErrs)
             ELSE IF OptionErrors(l) # {} THEN none(OptionErrors(l))
             ELSE IF "san" \in l.options /\ ~ trusted THEN none({"VerifySubjectAltNamesRequiresCA"})
             ELSE IF trusted /\ ofGw.cas = {} /\ val.required THEN none(certErrs \cup ofGw.errs)
             ELSE IF pol = Nil THEN [cfg |-> cfgOfGw, errs |-> certErrs \cup ofGw.errs]
             ELSE IF ofPol.cas # {} THEN [cfg |-> cfg(ofPol.cas, pol.required), errs |-> certErrs \cup ofPol.errs]
             ELSE IF pol.required THEN none(certErrs \cup ofPol.errs)
             ELSE [cfg |-> cfgOfGw, errs |-> {}]

(* Mutant: every TLS error is taken for a partial one.                     *)
reportAsPartial(errs, partiallyValid) ==
    IF errs = {} THEN <<>>
    ELSE [Programmed |-> <<"True", "Invalid">>, Accepted |-> <<"True", "Invalid">>]

reportTLSConfigError(errs, partiallyValid) ==
    LET is(e) == e \in errs
        status == IF partiallyValid THEN "True" ELSE "False"
        refs(reason) == [ResolvedRefs |-> <<"False", reason>>]
        rest(reason) == [Programmed |-> <<status, "Invalid">>, Accepted |-> <<status, reason>>]
    IN  IF errs = {} THEN <<>>
        ELSE IF is("MissingReferenceGrant") THEN refs("RefNotPermitted") @@ rest("Invalid")
        ELSE IF is("MissingCaCertificateRefGrant") THEN refs("RefNotPermitted") @@ rest("NoValidCACertificate")
        ELSE IF is("InvalidTlsSecret") THEN refs("InvalidCertificateRef") @@ rest("Invalid")
        ELSE IF is("VerifySubjectAltNamesRequiresCA") THEN rest("Invalid")
        ELSE IF is("InvalidCACertificateRef") THEN refs("InvalidCACertificateRef") @@ rest("NoValidCACertificate")
        ELSE IF is("InvalidCACertificateKind") THEN refs("InvalidCACertificateKind") @@ rest("NoValidCACertificate")
        ELSE IF is("UnknownTLSExtensionOption") THEN rest("Invalid")
        ELSE refs("InvalidCertificateRef") @@ rest("Invalid")

(* Both TLS steps of a chain: [ok, cfg, conds].                            *)
Translated(tls, first) ==
    [ok |-> tls.errs = {} \/ tls.cfg # Nil, cfg |-> tls.cfg,
     conds |-> reportTLSConfigError(tls.errs, tls.cfg # Nil) @@ first]

ChainTLS(l, front, gw) ==
    LET res == resolveFrontendTLSConfig(DetectListenerPortNumber(l), front)
        first == reportTLSConfigError(res.errs, res.val # Nil)
    IN  IF res.errs # {} /\ res.val = Nil THEN [ok |-> FALSE, cfg |-> Nil, conds |-> first]
        ELSE Translated(translateTLSConfig(l, res.val, gw), first)
-----------------------------------------------------------------------------
(* Filter chains.  parents are the HTTP listeners merged on one port.      *)
HostLen(h) == FoldSeq(LAMBDA lab, n : n + LabelLen[lab], 0, h) + Len(h) - 1

listenerHostnameCoversRouteHostname(lh, host) ==
    \/ lh = <<>>
    \/ host # <<"*">> /\ IntersectHostnames(lh, host) = host

(* Mutant: every wildcard is as specific as every other.                   *)
rankAlone(h) == IF h = <<>> THEN <<0, 0>> ELSE IF IsWild(h) THEN <<1, 0>> ELSE <<2, 0>>

listenerHostnamePrecedence(h) ==
    CASE h = <<>> -> <<0, 0>>
      [] IsWild(h) -> <<1, Len(h) - 2>>
      [] OTHER -> <<2, 0>>

listenerHostnamePrecedes(cur, cand) ==
    LET a == listenerHostnamePrecedence(cur)
        b == listenerHostnamePrecedence(cand)
    IN  IF a[1] # b[1] THEN b[1] > a[1] ELSE b[2] > a[2]

hostnameOwnedByMoreSpecificHTTPListener(i, parents, host) ==
    \E j \in parents \ {i} : /\ listenerHostnameCoversRouteHostname(L(j).host, host)
                             /\ listenerHostnamePrecedes(L(i).host, L(j).host)

routeHostnamesOrCatchAll(info) == IF info.hosts = {} THEN {<<"*">>} ELSE info.hosts
isHostContained(host, lh) == lh = <<>> \/ host = lh \/ (IsWild(lh) /\ UnderWildcard(host, lh))

(* routesByHost of one listener; `owned` are the hostnames its filter leaves *)
(* to other listeners.                                                      *)
buildRoutesPerHost(infos, owned) ==
    UNION {{<<host, infos[k].route>> : host \in routeHostnamesOrCatchAll(infos[k]) \ owned} :
             k \in {n \in DOMAIN infos : world.routes[infos[n].route].rules > 0}}

RulesOf(pairs, host) == {p[2] : p \in {q \in pairs : q[1] = host}}

translateHttpFilterChain(parents, routes) ==
    LET hosts(i) == UNION {routeHostnamesOrCatchAll(routes[i][k]) : k \in DOMAIN routes[i]}
        owned(i) == {h \in hosts(i) : hostnameOwnedByMoreSpecificHTTPListener(i, parents, h)}
        pairs == UNION {buildRoutesPerHost(routes[i], owned(i)) : i \in parents}
        len(i) == IF L(i).host = <<>> THEN 0 ELSE HostLen(L(i).host)
        holders(host) == {i \in parents : isHostContained(host, L(i).host)}
        longest(host) == {i \in holders(host) : \A j \in holders(host) : len(j) <= len(i)}
    IN  [host \in {p[1] : p \in pairs} |->
            [rules |-> RulesOf(pairs, host), owner |-> First(longest(host))]]

translateHttpsFilterChain(i, routes, tls) ==
    LET pairs == buildRoutesPerHost(routes[i], {})
    IN  [tls |-> tls.cfg, sni |-> L(i).host,
         vhosts |-> [host \in {p[1] : p \in pairs} |-> RulesOf(pairs, host)]]

(* The chains to build of a TCP or TLS listener: [listener, infos, sni].   *)
AppendTcpListener(i, routes) == <<[listener |-> i, infos |-> routes[i], sni |-> {}]>>
tlsRouteSNIDomains(i, info) ==
    IF world.routes[info.route].kind = "TLSRoute" /\ info.hosts # {} THEN info.hosts ELSE {L(i).host} \ {<<>>}
AppendTlsListener(i, routes) ==
    IF routes[i] = <<>> THEN <<[listener |-> i, infos |-> <<>>, sni |-> {L(i).host} \ {<<>>}]>>
    ELSE [k \in DOMAIN routes[i] |->
            [listener |-> i, infos |-> <<routes[i][k]>>, sni |-> tlsRouteSNIDomains(i, routes[i][k])]]

(* The oldest route of a chain, the first listed of equally old ones.      *)
Oldest(infos) ==
    LET age(k) == world.routes[infos[k].route].created
    IN  infos[CHOOSE k \in DOMAIN infos : \A n \in DOMAIN infos : age(k) < age(n) \/ (age(k) = age(n) /\ k <= n)]

(* [chain, conds, told]: the chain or Nil, the listener's conditions, and  *)
(* the route conditions, a set of [route, ref, type, status].              *)
translateTcpFilterChain(tc, front, gw) ==
    LET l == L(tc.listener)
        r == Oldest(tc.infos)
        route == world.routes[r.route]
        losers == {[route |-> x.route, ref |-> x.ref, type |-> "kgateway.dev/Programmed", status |-> "False"] :
                     x \in Range(tc.infos) \ {r}}
        about(type, status) == {[route |-> r.route, ref |-> ref, type |-> type, status |-> status] : ref \in Range(route.parents)}
        accepted == losers \cup about("Accepted", "True")
                    \cup IF route.backends \subseteq {"ok"} THEN {} ELSE about("ResolvedRefs", "False")
        tls == ChainTLS(IF l.protocol = "TLS" THEN l ELSE [l EXCEPT !.mode = ""], front, gw)
        nothing(told) == [chain |-> Nil, conds |-> <<>>, told |-> told]
    IN  CASE tc.infos = <<>> -> nothing({})
          [] tc.infos # <<>> ->
             IF route.rules # 1 THEN nothing(losers)
             ELSE IF route.backends = {} THEN nothing(accepted)
             ELSE [chain |-> IF tls.ok THEN [listener |-> tc.listener, route |-> r.route, tls |-> tls.cfg,
                                             sni |-> IF route.kind = "TLSRoute" THEN tc.sni ELSE {}] ELSE Nil,
                   conds |-> tls.conds, told |-> accepted]

(* mergeGWListeners: the TCP chains of a port, listener by listener.       *)
TcpFilterChains(here, routes) ==
    FoldLeft(LAMBDA acc, i : acc \o IF L(i).protocol = "TCP" THEN AppendTcpListener(i, routes)
                                    ELSE AppendTlsListener(i, routes),
             <<>>, SetToSortSeq({i \in here : L(i).protocol \in {"TCP", "TLS"}}, <))

(* What the TCP chains leave: a listener none of whose chains matches is   *)
(* not programmed.                                                         *)
TcpResult(done) ==
    LET matched == SelectSeq(done, LAMBDA d : d.chain # Nil)
        failed == IF done # <<>> /\ matched = <<>> THEN [Programmed |-> <<"False", "Invalid">>] ELSE <<>>
        conds(i) == FoldLeft(LAMBDA acc, d : IF d.listener = i THEN d.conds @@ acc ELSE acc, <<>>, done)
    IN  [chains |-> [k \in DOMAIN matched |-> matched[k].chain],
         told |-> UNION {done[k].told : k \in DOMAIN done},
         conds |-> [i \in Listener |-> failed @@ conds(i)]]

PortResult(here, routes, tls, tcp) ==
    LET of(protocol) == {i \in here : L(i).protocol = protocol}
    IN  [http |-> translateHttpFilterChain(of("HTTP"), routes),
         https |-> [i \in {j \in of("HTTPS") : tls[j].ok} |-> translateHttpsFilterChain(i, routes, tls[i])],
         tcp |-> tcp.chains,
         told |-> tcp.told,
         conds |-> [i \in here |-> CASE L(i).protocol = "HTTPS" -> tls[i].conds
                                     [] L(i).protocol \in {"TCP", "TLS"} -> tcp.conds[i]
                                     [] OTHER -> <<>>]]

(* A port first claimed by a TLS listener is merged without its gateway.   *)
TranslateListener(here, routes) ==
    LET front == IF L(First(here)).protocol = "TLS" THEN Nil ELSE world.frontend
        done(tc) == [listener |-> tc.listener] @@ translateTcpFilterChain(tc, front, world.gateway)
        all(tfc) == [k \in DOMAIN tfc |-> done(tfc[k])]
    IN  PortResult(here, routes, [i \in {j \in here : L(j).protocol = "HTTPS"} |-> ChainTLS(L(i), front, world.gateway)],
                   TcpResult(all(TcpFilterChains(here, routes))))

(* Translate of the gateway translator, with krt listing routes as ord.    *)
Ports(routes) ==
    [port \in {DetectListenerPortNumber(L(i)) : i \in validListeners} |->
        TranslateListener({i \in validListeners : DetectListenerPortNumber(L(i)) = port}, routes)]

Report(ord, routes, ports) ==
    [ports |-> ports,
     attached |-> [i \in Listener |-> Len(routes[i])],
     errors |-> RouteErrors(ord),
     parents |-> validateListeners,
     sets |-> Cardinality(attachedListenerSets),
     conds |-> [i \in Listener |->
                  IF i \in validListeners
                  THEN ports[DetectListenerPortNumber(L(i))].conds[i] @@ validateListener(i) ELSE validateListener(i)]]

Translation(ord) ==
    LET routes == GetRoutesForGateway(ord)
    IN  Report(ord, routes, Ports(routes))
-----------------------------------------------------------------------------
Init ==
    /\ world \in Start
    /\ fresh = FALSE
    /\ out = Nil
    /\ edits = 0

(* A route, a listener, a secret, a grant or a namespace label changes.    *)
Edit(key) ==
    /\ edits < MaxEdits
    /\ \E v \in Edits[key] : v # world[key] /\ world' = [world EXCEPT ![key] = v]
    /\ fresh' = FALSE
    /\ edits' = edits + 1
    /\ UNCHANGED out

Translate ==
    /\ ~ fresh
    /\ \E ord \in Orders : out' = Translation(ord)
    /\ fresh' = TRUE
    /\ UNCHANGED <<world, edits>>

Next == (\E key \in DOMAIN Edits : Edit(key)) \/ Translate

Spec == Init /\ [][Next]_vars
-----------------------------------------------------------------------------
Condition(i, type) == IF type \in DOMAIN out.conds[i] THEN out.conds[i][type][1] ELSE "default"
OutPort(i) == out.ports[DetectListenerPortNumber(L(i))]
Serves(i) ==
    /\ i \in validListeners
    /\ \/ L(i).protocol = "HTTP"
       \/ L(i).protocol = "HTTPS" /\ i \in DOMAIN OutPort(i).https
       \/ \E k \in DOMAIN OutPort(i).tcp : OutPort(i).tcp[k].listener = i

(* The hostnames that route r is attached to listener i with.              *)
AttachedHosts(i, r) ==
    UNION {routeHostnamesOrCatchAll(processRoute(r, ref).infos[i]) :
             ref \in {x \in Range(world.routes[r].parents) : i \in DOMAIN processRoute(r, x).infos}}

(* The narrowest hostname among those of the listeners S that cover host.  *)
Covers(w, h) == w = <<>> \/ h = w \/ (IsWild(w) /\ IsStrictSuffix(Tail(w), h))
Narrowest(S, host) ==
    CHOOSE i \in S : /\ Covers(L(i).host, host)
                     /\ \A j \in S : Covers(L(j).host, host) => Covers(L(j).host, L(i).host)

(* Listener isolation (filterHTTPListenerIsolationHostnames, and the choice *)
(* of attachedPolicies in translateHttpFilterChain, which measures hosts in *)
(* another way): on every HTTP port a virtual host has exactly the routes   *)
(* attached with that hostname to the narrowest listener covering it, and   *)
(* that listener's policies.  No route answers for a hostname which a       *)
(* sibling listener owns, and none that the owner has is missing.           *)
HostsIsolated ==
    fresh => \A port \in DOMAIN out.ports :
        LET http == out.ports[port].http
            S == {i \in validListeners : DetectListenerPortNumber(L(i)) = port /\ L(i).protocol = "HTTP"}
            ruled == {r \in DOMAIN world.routes : world.routes[r].rules > 0}
            asked == UNION {AttachedHosts(i, r) : i \in S, r \in ruled}
            rules(host) == {r \in ruled : host \in AttachedHosts(Narrowest(S, host), r)}
        IN  /\ DOMAIN http = {host \in asked : rules(host) # {}}
            /\ \A host \in DOMAIN http : http[host] = [rules |-> rules(host), owner |-> Narrowest(S, host)]

(* What the status says and what is served (validateListeners against       *)
(* TranslateListener and reportTLSConfigError): a listener with a filter    *)
(* chain is never reported Accepted or Programmed False, one without is     *)
(* told so by some condition, unless another TCP or TLS listener keeps its  *)
(* port programmed; the listeners served on a port agree on the protocol    *)
(* and differ in their hostnames; the Gateway and every ListenerSet are     *)
(* ListenersNotValid exactly when one of their listeners was turned away,   *)
(* except ListenerSets that lose only for their protocol or route kinds     *)
(* while nothing else is valid.                                             *)
StatusTellsServed ==
    fresh =>
    /\ \A i \in Listener : L(i).protocol # "HBONE" =>
        /\ Serves(i) => "False" \notin {Condition(i, "Accepted"), Condition(i, "Programmed")}
        /\ ~ Serves(i) =>
             \/ \E type \in {"Accepted", "Programmed", "ResolvedRefs"} : Condition(i, type) = "False"
             \/ i \in validListeners /\ L(i).protocol \in {"TCP", "TLS"} /\ OutPort(i).tcp # <<>>
    /\ \A i, j \in validListeners :
        i # j /\ DetectListenerPortNumber(L(i)) = DetectListenerPortNumber(L(j))
            => NormalizedProtocol(L(i)) = NormalizedProtocol(L(j)) /\ L(i).host # L(j).host
    /\ \A p \in DOMAIN out.parents :
        ("Accepted" \in DOMAIN out.parents[p]) <=>
            \E i \in Listener : /\ L(i).parent = p
                                /\ i \notin validListeners
                                /\ \/ p.kind = "Gateway" \/ validListeners # {}
                                   \/ "Programmed" \in DOMAIN out.conds[i]
=============================================================================
