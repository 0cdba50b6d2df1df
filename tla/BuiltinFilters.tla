---------------------------- MODULE BuiltinFilters ----------------------------
(***************************************************************************)
(* The filters, timeouts, retries and session persistence of the Gateway   *)
(* API itself (krtcollections/builtin.go): their conversion to the IR and  *)
(* their application to Envoy routes.                                      *)
(*                                                                         *)
(* A route rule is converted once.  Its IR is then applied on every        *)
(* listener the route attaches to, and the gateways that own the listeners *)
(* are translated concurrently: one step here is one ApplyForRoute call of *)
(* one listener's translation.  A delegated rule also carries the policies *)
(* of the rules that delegate to it, from the leaf to the root.            *)
(*                                                                         *)
(* Records are sparse: an absent field is the source's nil.                *)
(***************************************************************************)
EXTENDS Integers, Sequences, FiniteSets, SequencesExt

CONSTANTS
    Chains,    \* delegation chains: the leaf's level first, then its parents
    Listener,  \* the listeners the leaf is translated for
    Port,      \* [Listener -> the port it binds]
    HasTLS     \* [Listener -> whether its filter chain has TLS]

VARIABLES
    chain,     \* the chain that is translated
    redirects, \* the RedirectAction protos, by owner: <<IR, p>> is the IR's
    out,       \* [Listener -> the Envoy route under construction]
    needs,     \* [Listener -> the filters its chain needs]
    at         \* [Listener -> the next policy to apply]

vars == <<chain, redirects, out, needs, at>>

Has(r, f) == f \in DOMAIN r
Get(r, f, default) == IF Has(r, f) THEN r[f] ELSE default
Without(r, fields) == [f \in DOMAIN r \ fields |-> r[f]]
IR == "ir"
-----------------------------------------------------------------------------
(* The admission rules of HTTPRoute that the application relies on.        *)
RuleAdmitted(level) ==
    LET of(type) == {k \in DOMAIN level.filters : level.filters[k].type = type}
    IN  /\ \A t \in {"redirect", "rewrite", "requestHeaders", "responseHeaders", "cors"} :
                Cardinality(of(t)) <= 1
        /\ of("redirect") # {} => of("rewrite") = {} /\ ~ level.backends
-----------------------------------------------------------------------------
(* Conversion to the IR.                                                   *)

(* The annotation is a list of codes, each for every rule or for one; the  *)
(* first that may apply decides.  0 is a code that does not parse.         *)
RedirectCodes == {301, 302, 303, 307, 308}
translateStatusCode(f, level) ==
    LET applies == {k \in DOMAIN Get(level, "codes", <<>>) :
                        ~ Has(level, "name") \/ level.codes[k].rule \in {"", level.name}}
        k == CHOOSE i \in applies : \A j \in applies : i <= j
    IN  IF applies # {} THEN level.codes[k].code ELSE Get(f, "code", 302)

convertRequestRedirectIR(f, level) ==
    [host |-> Get(f, "host", ""), code |-> translateStatusCode(f, level),
     https |-> Get(f, "scheme", "") = "https",
     path |-> Get(f, "path", ""), port |-> 0]

(* Full paths replace the whole path, prefixes only the matched part; "/"  *)
(* is what an omitted replacement means.                                   *)
convertURLRewriteIR(f) ==
    [type |-> "rewrite"]
    @@ (IF Has(f, "host") THEN [host |-> f.host] ELSE <<>>)
    @@ (IF Has(f, "full") THEN [full |-> f.full]
        ELSE IF Has(f, "prefix") THEN [prefix |-> f.prefix] ELSE <<>>)

(* A percentage, or a fraction scaled to a million; no fraction is all.    *)
getFractionPercent(f) ==
    CASE Has(f, "percent") -> <<f.percent, 100>>
      [] ~ Has(f, "percent") /\ Has(f, "fraction") ->
            <<(f.fraction[1] * 1000000) \div f.fraction[2], 1000000>>
      [] OTHER -> <<1, 1>>

(* nil when the reference is not granted or does not resolve.              *)
convertMirrorIR(f) == [type |-> "mirror", cluster |-> f.cluster, fraction |-> getFractionPercent(f)]

convertHeaderModifierIR(f) ==
    [type |-> f.type,
     add |-> [k \in DOMAIN f.add |-> <<f.add[k], "append">>]
             \o [k \in DOMAIN f.set |-> <<f.set[k], "overwrite">>],
     remove |-> f.remove]

convertTimeouts(rule) ==
    IF Has(rule, "request") \/ Has(rule, "backendRequest")
    THEN [timeouts |-> Without(rule, {"retry", "session"})] ELSE <<>>

(* The backend timeout becomes the timeout of one try.                     *)
convertRetry(rule) ==
    IF ~ Has(rule, "retry") THEN <<>>
    ELSE [retry |-> [attempts |-> Get(rule.retry, "attempts", 1), codes |-> Get(rule.retry, "codes", {}),
                     perTry |-> Get(rule, "backendRequest", 0)]]

Year == 365
convertSessionPersistence(rule) ==
    IF ~ Has(rule, "session") THEN <<>>
    ELSE LET s == rule.session
         IN  [session |->
                CASE s.type = "header" -> <<"header", 0>>
                  [] s.type = "cookie" /\ Get(s, "lifetime", "") = "Session" -> <<"cookie", 0>>
                  [] s.type = "cookie" /\ Get(s, "lifetime", "") = "Permanent" ->
                        <<"cookie", Get(s, "ttl", Year)>>
                  [] OTHER -> <<"cookie", Get(s, "ttl", 0)>>]

buildHTTPRouteRulePolicy(rule) ==
    convertTimeouts(rule) @@ convertRetry(rule) @@ convertSessionPersistence(rule)

(* A filter that yields no policy stays in the list as a no-op; a redirect *)
(* whose code is invalid is an error of the rule and leaves the list.      *)
convertfilterIR(f, level) ==
    CASE f.type = "redirect" -> [type |-> "redirect", filter |-> f, redir |-> convertRequestRedirectIR(f, level)]
      [] f.type = "rewrite" -> convertURLRewriteIR(f)
      [] f.type = "mirror" -> IF f.resolved THEN convertMirrorIR(f) ELSE [type |-> "none"]
      [] f.type = "cors" -> [type |-> "cors", cors |-> f.cors]
      [] OTHER -> convertHeaderModifierIR(f)

ValidFilter(f, level) == f.type = "redirect" => translateStatusCode(f, level) \in RedirectCodes

(* The filters of a rule, then its own settings.                           *)
LevelPolicies(level) ==
    LET valid == SelectSeq(level.filters, LAMBDA f : ValidFilter(f, level))
        filters == [k \in DOMAIN valid |-> [filter |-> convertfilterIR(valid[k], level), rule |-> <<>>]]
        rule == IF level.rule = <<>> THEN <<>>
                ELSE <<[filter |-> [type |-> "none"], rule |-> buildHTTPRouteRulePolicy(level.rule)]>>
        all == filters \o rule
    IN  [k \in DOMAIN all |-> [prio |-> level.prio] @@ all[k]]

(* runRoutePlugins: the policies of the leaf, then those of its parents.   *)
PoliciesOf(c) == FoldLeft(LAMBDA acc, level : acc \o LevelPolicies(level), <<>>, c)
RuleErr(level) == \E k \in DOMAIN level.filters : ~ ValidFilter(level.filters[k], level)
-----------------------------------------------------------------------------
(* Application to a route.                                                 *)

(* IsSettable: only the shallow merge that prefers the child protects what *)
(* is already set.                                                         *)
IsSettable(set, prio) == prio = "ShallowMergePreferChild" => ~ set

RouteAction(r) == r.action = "route"

applyMirror(r, p) == IF RouteAction(r) THEN [r EXCEPT !.mirrors = Append(@, p)] ELSE r

applyHeaders(r, p) ==
    IF p.type = "requestHeaders"
    THEN [r EXCEPT !.requestAdd = @ \o p.add, !.requestRemove = @ \o p.remove]
    ELSE [r EXCEPT !.responseAdd = @ \o p.add, !.responseRemove = @ \o p.remove]

applyCors(r, p, prio) ==
    IF IsSettable(Has(r, "cors"), prio) THEN [cors |-> p.cors] @@ r ELSE r

isPathRewriteSettable(r, prio) ==
    IsSettable(Has(r, "regexRewrite"), prio) /\ IsSettable(Has(r, "prefixRewrite"), prio)

(* Mutant: whichever rewrite comes last replaces the host.                 *)
applyRewriteLast(r, p, prio) ==
    IF RouteAction(r) /\ Has(p, "host") THEN [hostRewrite |-> p.host] @@ r ELSE r

(* A full path is a regex rewrite; so is the removal of a prefix.  Only    *)
(* the prefix branches clear the other kind of rewrite.                    *)
applyRewrite(r, p, prio) ==
    LET host == IF Has(p, "host") /\ IsSettable(Has(r, "hostRewrite"), prio)
                THEN [hostRewrite |-> p.host] @@ r ELSE r
        settable == isPathRewriteSettable(r, prio)
    IN  CASE ~ RouteAction(r) -> r
          [] RouteAction(r) /\ settable /\ Has(p, "full") -> [regexRewrite |-> <<"all", p.full>>] @@ host
          [] RouteAction(r) /\ settable /\ Has(p, "prefix") /\ p.prefix = "/" ->
                [regexRewrite |-> <<"matched", "/">>] @@ Without(host, {"prefixRewrite"})
          [] RouteAction(r) /\ settable /\ Has(p, "prefix") /\ p.prefix # "/" ->
                [prefixRewrite |-> p.prefix] @@ Without(host, {"regexRewrite"})
          [] OTHER -> host

(* With a retry of its own the rule's backend timeout bounds one try only. *)
applyTimeouts(r, rule, prio) ==
    LET t == Get(rule, "timeouts", <<>>)
        value == CASE Has(t, "backendRequest") /\ Has(t, "request") ->
                        [timeout |-> IF Has(rule, "retry") THEN t.request ELSE t.backendRequest]
                   [] Has(t, "backendRequest") /\ ~ Has(t, "request") ->
                        IF Has(rule, "retry") THEN <<>> ELSE [timeout |-> t.backendRequest]
                   [] OTHER -> [timeout |-> t.request]
    IN  IF t = <<>> \/ ~ IsSettable(Has(r, "timeout"), prio) THEN r
        ELSE value @@ Without(r, {"timeout"})

applyRetry(r, rule, prio) ==
    IF Has(rule, "retry") /\ IsSettable(Has(r, "retry"), prio)
    THEN [retry |-> rule.retry] @@ r ELSE r

applySession(r, rule, prio) ==
    IF Has(rule, "session") /\ IsSettable(Has(r, "session"), prio)
    THEN [session |-> rule.session] @@ r ELSE r

applyRulePolicy(r, rule, prio) ==
    IF RouteAction(r)
    THEN applySession(applyRetry(applyTimeouts(r, rule, prio), rule, prio), rule, prio) ELSE r

(* Mutant: the route refers to the IR's redirect.                          *)
redirectShared(l, p) == <<IR, p>>

(* The route owns a clone of the IR's redirect.                            *)
redirectOf(l, p) == <<l, p>>

defaultPortForScheme(scheme) ==
    CASE scheme = "http" -> 80 [] scheme = "https" -> 443 [] OTHER -> 0

(* The port of the Location header on listener l; 0 leaves it out.         *)
applyRedirectPortPostProcessing(f, l) ==
    LET scheme == IF Has(f, "scheme") THEN f.scheme ELSE IF HasTLS[l] THEN "https" ELSE "http"
        port == CASE Has(f, "port") -> f.port
                  [] ~ Has(f, "port") /\ Has(f, "scheme") -> defaultPortForScheme(scheme)
                  [] OTHER -> Port[l]
    IN  IF port = defaultPortForScheme(scheme) THEN 0 ELSE port

(* One policy on the route r of a listener.                                *)
applyFilter(r, p, prio) ==
    CASE p.type = "mirror" -> applyMirror(r, p)
      [] p.type \in {"requestHeaders", "responseHeaders"} -> applyHeaders(r, p)
      [] p.type = "cors" -> applyCors(r, p, prio)
      [] p.type = "rewrite" -> applyRewrite(r, p, prio)
      [] OTHER -> r

(* Session persistence is noted for the chain when a route receives it,    *)
(* CORS whenever a policy has it.                                          *)
NeedsOf(r, pol) ==
    (IF pol.filter.type = "cors" THEN {"cors"} ELSE {})
    \cup (IF RouteAction(r) /\ Has(pol.rule, "session") /\ IsSettable(Has(r, "session"), pol.prio)
          THEN {"session"} ELSE {})

ApplyForRoute(l) ==
    LET policies == PoliciesOf(chain)
        p == at[l]
        pol == policies[p]
        r == out[l]
        id == redirectOf(l, p)
        takes == pol.filter.type = "redirect" /\ IsSettable(Has(r, "redirect"), pol.prio)
        filtered == IF takes THEN [redirect |-> id, action |-> "redirect"] @@ r
                    ELSE applyFilter(r, pol.filter, pol.prio)
    IN  /\ at[l] <= Len(policies)
        /\ redirects' = IF takes
                        THEN (id :> [redirects[<<IR, p>>] EXCEPT
                                        !.port = applyRedirectPortPostProcessing(pol.filter.filter, l)])
                             @@ redirects
                        ELSE redirects
        /\ out' = [out EXCEPT ![l] = applyRulePolicy(filtered, pol.rule, pol.prio)]
        /\ needs' = [needs EXCEPT ![l] = @ \cup NeedsOf(filtered, pol)]
        /\ at' = [at EXCEPT ![l] = p + 1]
        /\ UNCHANGED chain

(* applyToBackend: the filters of a backendRef set the headers of the      *)
(* weighted cluster; each kind occurs once.                                *)
ApplyForRouteBackend(c) ==
    LET b == Get(c[1], "backendFilters", <<>>)
        of(type) == SelectSeq(b, LAMBDA f : f.type = type)
        added(type) == IF of(type) = <<>> THEN <<>> ELSE convertHeaderModifierIR(of(type)[1]).add
    IN  [request |-> added("requestHeaders"), response |-> added("responseHeaders"),
         cors |-> of("cors") # <<>>]

NewRoute(c) ==
    [action |-> IF c[1].backends THEN "route" ELSE "none", mirrors |-> <<>>,
     requestAdd |-> <<>>, requestRemove |-> <<>>, responseAdd |-> <<>>, responseRemove |-> <<>>]

Init ==
    /\ chain \in Chains
    /\ redirects = LET ps == PoliciesOf(chain)
                       those == {p \in DOMAIN ps : ps[p].filter.type = "redirect"}
                   IN  [id \in {<<IR, p>> : p \in those} |-> ps[id[2]].filter.redir]
    /\ out = [l \in Listener |-> NewRoute(chain)]
    /\ needs = [l \in Listener |-> IF ApplyForRouteBackend(chain).cors THEN {"cors"} ELSE {}]
    /\ at = [l \in Listener |-> 1]

Next == \E l \in Listener : ApplyForRoute(l)

Spec == Init /\ [][Next]_vars
-----------------------------------------------------------------------------
Finished(l) == at[l] > Len(PoliciesOf(chain))

(* HttpFilters: the filters the chain of listener l gets.                  *)
HttpFilters(l) == needs[l]

(* A redirect's Location header names the filter's port, else the port of  *)
(* the filter's scheme, else the port of the listener that served the      *)
(* request, and leaves out a port its scheme implies: on every listener,   *)
(* however the translations of the gateways that share the rule's IR are   *)
(* interleaved.                                                            *)
RedirectsPerListener ==
    \A l \in Listener : Finished(l) /\ Has(out[l], "redirect") =>
        LET f == PoliciesOf(chain)[out[l].redirect[2]].filter.filter
            secure == IF Has(f, "scheme") THEN f.scheme = "https" ELSE HasTLS[l]
            standard == IF secure THEN 443 ELSE 80
            wanted == IF Has(f, "port") THEN f.port ELSE IF Has(f, "scheme") THEN standard ELSE Port[l]
        IN  redirects[out[l].redirect].port = IF wanted = standard THEN 0 ELSE wanted

(* The policy whose value a field of the output must have: the leaf-most,  *)
(* unless a policy further up says the parent is preferred; of those the   *)
(* last applied.                                                           *)
PrefersParent(prio) == prio \in {"ShallowMergePreferParent", "DeepMergePreferParent"}
Winner(ps, setters) ==
    LET parents == {p \in setters : PrefersParent(ps[p].prio)}
    IN  IF parents # {} THEN CHOOSE p \in parents : \A q \in parents : q <= p
        ELSE CHOOSE p \in setters : \A q \in setters : p <= q

(* Every single-valued field of a delegated route has the value of the     *)
(* policy that the inherited-policy-priority annotations prefer, and a     *)
(* route with session persistence or CORS has the filter in its chain.     *)
FieldsFollowPriority ==
    \A l \in Listener : Finished(l) /\ out[l].action = "route" =>
        LET ps == PoliciesOf(chain)
            r == out[l]
            rule(f) == {p \in DOMAIN ps : Has(ps[p].rule, f)}
            filter(type, f) == {p \in DOMAIN ps : ps[p].filter.type = type /\ Has(ps[p].filter, f)}
            host == filter("rewrite", "host")
            cors == filter("cors", "cors")
        IN  /\ rule("retry") # {} => r.retry = ps[Winner(ps, rule("retry"))].rule.retry
            /\ rule("session") # {} => r.session = ps[Winner(ps, rule("session"))].rule.session
            /\ host # {} => r.hostRewrite = ps[Winner(ps, host)].filter.host
            /\ cors # {} => r.cors = ps[Winner(ps, cors)].filter.cors
            /\ Has(r, "session") => "session" \in HttpFilters(l)
            /\ Has(r, "cors") => "cors" \in HttpFilters(l)
=============================================================================
