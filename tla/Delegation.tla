------------------------------ MODULE Delegation ------------------------------
(***************************************************************************)
(* Delegation between HTTPRoutes: the tree of child routes that is resolved*)
(* for a route of the gateway (query/route.go), its flattening into output *)
(* routes (translator/httproute) and their order in a virtual host         *)
(* (translator/routeutils).                                                *)
(*                                                                         *)
(* A path is the sequence of its segments.  A match is a record in which   *)
(* an unset field is absent; headers and params are sets of <<name,value>>.*)
(***************************************************************************)
EXTENDS Integers, Sequences, FiniteSets, SequencesExt

CONSTANTS
    RouteId,     \* the HTTPRoutes
    Ns, Created, \* [RouteId -> namespace], [RouteId -> creation time]
    Top,         \* the route that is attached to the gateway
    SegLen,      \* [segment -> its length]
    SegPrefix,   \* the pairs <<s, t>> where segment t starts with s
    Orders,      \* the orders in which krt may list routes
    Start,       \* the route specs at startup
    Edits,       \* [RouteId -> the specs it may be changed to]
    MaxEdits     \* bound on the changes

VARIABLES
    route,   \* [RouteId -> its spec, or Nil]
    fresh,   \* whether output is the translation of the routes there are
    output,  \* [routes, conds] of the last translation
    edits

vars == <<route, fresh, output, edits>>

Nil == [nil |-> TRUE]
Has(r, f) == f \in DOMAIN r
Get(r, f, default) == IF Has(r, f) THEN r[f] ELSE default
-----------------------------------------------------------------------------
(* utils/delegation                                                        *)
ChildRouteCanAttachToParentRef(c, p) == route[c].parents = {} \/ p \in route[c].parents

(* strings.HasPrefix: a segment may go on after the prefix.                *)
HasPrefix(value, prefix) ==
    \/ prefix = <<>>
    \/ LET n == Len(prefix)
       IN  /\ n <= Len(value)
           /\ SubSeq(value, 1, n - 1) = SubSeq(prefix, 1, n - 1)
           /\ prefix[n] = value[n] \/ <<prefix[n], value[n]>> \in SegPrefix

IsDelegatedRouteMatch(parent, child) ==
    /\ Has(parent, "path") /\ parent.path.type = "PathPrefix"
    /\ Has(child, "path") /\ HasPrefix(child.path.value, parent.path.value)
    /\ Get(parent, "headers", {}) \subseteq Get(child, "headers", {})
    /\ Get(parent, "params", {}) \subseteq Get(child, "params", {})
    /\ Has(parent, "method") => Has(child, "method") /\ child.method = parent.method

(* The parent's value wins for a name that both have.                      *)
mergeHeaders(parent, child) ==
    parent \cup {h \in child : \A g \in parent : g[1] # h[1]}

MergeParentChildRouteMatch(parent, child) ==
    LET path == Get(child, "path", [type |-> "PathPrefix", value |-> <<>>])
        above == IF Has(parent, "path") THEN parent.path.value ELSE <<>>
        set == [path |-> [path EXCEPT !.value = above \o @],
                headers |-> mergeHeaders(Get(parent, "headers", {}), Get(child, "headers", {})),
                params |-> mergeHeaders(Get(parent, "params", {}), Get(child, "params", {}))]
        method == IF Has(parent, "method") THEN [method |-> parent.method] ELSE <<>>
    IN  set @@ method @@ child

FilterDelegatedRuleMatches(parentMatch, matches, inherit) ==
    IF inherit THEN IF matches = <<>> THEN <<parentMatch>>
                    ELSE [k \in DOMAIN matches |-> MergeParentChildRouteMatch(parentMatch, matches[k])]
    ELSE SelectSeq(matches, LAMBDA m : IsDelegatedRouteMatch(parentMatch, m))

(* Mutant: a rule without a match left is kept.                            *)
withAllRules(c, parentMatch) ==
    [route[c] EXCEPT !.rules = [k \in DOMAIN @ |-> [@[k] EXCEPT
        !.matches = FilterDelegatedRuleMatches(parentMatch, @, route[c].inherit)]]]

(* The spec of a child with the rules and matches that the parent's match  *)
(* leaves; the rules are numbered anew.                                    *)
filteredSpec(c, parentMatch) ==
    LET spec == route[c]
        left == [k \in DOMAIN spec.rules |-> [spec.rules[k] EXCEPT
                    !.matches = FilterDelegatedRuleMatches(parentMatch, @, spec.inherit)]]
    IN  [spec EXCEPT !.rules = SelectSeq(left, LAMBDA rule : rule.matches # <<>>)]
-----------------------------------------------------------------------------
(* query: the tree of child routes.                                        *)
fetchRoutesByRef(ref, ord) ==
    LET selected(r) == /\ route[r] # Nil
                       /\ CASE ref.kind = "label" -> route[r].label = ref.name /\ ref.ns \in {Ns[r], "all"}
                            [] ref.kind = "HTTPRoute" /\ ref.name = "*" -> Ns[r] = ref.ns
                            [] OTHER -> r = ref.name /\ Ns[r] = ref.ns
    IN  SelectSeq(ord, selected)

(* BackendMap: an error of a reference hides its children.                 *)
NoChildren == [kids |-> <<>>, err |-> ""]
ErrUnresolvedReference == "unresolved reference"
ErrCyclicReference == "cyclic reference"
ChildrenFor(map, ref) == IF ref \in DOMAIN map THEN map[ref] ELSE [NoChildren EXCEPT !.err = ErrUnresolvedReference]

Fetched(map, ref) == IF ref \in DOMAIN map THEN map[ref] ELSE NoChildren
SetChildren(map, ref, c) == [x \in DOMAIN map \cup {ref} |-> IF x = ref THEN c ELSE map[x]]

RECURSIVE getDelegatedChildren(_, _, _)

(* refChildren collects over all references of one rule.                   *)
addReference(r, seen, ord, acc, ref) ==
    LET found == fetchRoutesByRef(ref, ord)
        mine == SelectSeq(found, LAMBDA c : ChildRouteCanAttachToParentRef(c, r))
        good == SelectSeq(mine, LAMBDA c : c \notin seen)
        refChildren == acc.refChildren \o
            [k \in DOMAIN good |-> [id |-> good[k], children |-> getDelegatedChildren(good[k], seen, ord)]]
        old == Fetched(acc.map, ref)
    IN  IF found = <<>>
        THEN [acc EXCEPT !.map = SetChildren(@, ref, [old EXCEPT !.err = ErrUnresolvedReference])]
        ELSE [refChildren |-> refChildren,
              map |-> SetChildren(acc.map, ref, [kids |-> refChildren,
                        err |-> IF Len(good) < Len(mine) THEN ErrCyclicReference ELSE old.err])]

getDelegatedChildren(r, visited, ord) ==
    LET seen == visited \cup {r}
        addBackend(acc, b) == IF Has(b, "delegate") THEN addReference(r, seen, ord, acc, b.delegate) ELSE acc
        addRule(map, rule) == FoldLeft(addBackend, [map |-> map, refChildren |-> <<>>], rule.backends).map
    IN  FoldLeft(addRule, <<>>, route[r].rules)

GetRouteChain(r, ord) == [id |-> r, children |-> getDelegatedChildren(r, {}, ord)]
-----------------------------------------------------------------------------
(* httproute: flattening.  The result is the routes in the order in which  *)
(* they are appended, and the conditions that are reported.                *)
Result(routes, conds) == [routes |-> routes, conds |-> conds]
Plus(a, b) == Result(a.routes \o b.routes, a.conds \cup b.conds)
Cond(r, parent, type, reason) == [route |-> r, parent |-> parent, type |-> type, reason |-> reason]

(* Mutant: only references that are not permitted are reported.            *)
reportNotPermitted(err, r, parent) ==
    Cond(r, parent, IF err = ErrUnresolvedReference THEN "PartiallyInvalid" ELSE "ResolvedRefs", "RefNotPermitted")

ProcessBackendError(err, r, parent) ==
    Cond(r, parent, "ResolvedRefs",
         CASE err \in {"unknown kind", "unsupported route kind"} -> "InvalidKind"
           [] err \in {"missing grant", ErrCyclicReference} -> "RefNotPermitted"
           [] OTHER -> "BackendNotFound")

filterDelegatedChildren(kids, parentMatch) ==
    SelectSeq(kids, LAMBDA kid : filteredSpec(kid.id, parentMatch).rules # <<>>)

RECURSIVE translateGatewayHTTPRouteRulesUtil(_, _, _, _, _)

(* parent: the route that delegates; via: its output route and those above.*)
flattenDelegatedRoutes(info, ref, match, visited, via) ==
    LET seen == visited \cup {info.id}
        children == ChildrenFor(info.children, ref)
        selected == filterDelegatedChildren(children.kids, match)
        cyclic(kid) == kid.id \in seen
        withHosts(kid) == route[kid.id].hosts
        valid == SelectSeq(selected, LAMBDA kid : ~ cyclic(kid) /\ ~ withHosts(kid))
        add(acc, kid) ==
            Plus(acc, translateGatewayHTTPRouteRulesUtil(kid, filteredSpec(kid.id, match), info.id, seen, via))
        told == {Cond(info.id, "", "ResolvedRefs", "RefNotPermitted") : kid \in {k \in Range(selected) : cyclic(k)}}
                \cup {Cond(kid.id, info.id, "Accepted", "UnsupportedValue") :
                        kid \in {k \in Range(selected) : ~ cyclic(k) /\ withHosts(k)}}
    IN  IF children.err # "" THEN [result |-> Result(<<>>, {}), err |-> children.err]
        ELSE [result |-> FoldLeft(add, Result(<<>>, told), valid),
              err |-> IF valid = <<>> THEN ErrUnresolvedReference ELSE ""]

setRouteAction(info, parent, rule, out, visited) ==
    LET add(acc, b) ==
            IF Has(b, "delegate")
            THEN LET flat == flattenDelegatedRoutes(info, b.delegate, out.match, visited, Append(out.via, <<info.id, out.match>>))
                     told == IF flat.err = "" THEN {} ELSE {ProcessBackendError(flat.err, info.id, parent)}
                 IN  [out |-> [acc.out EXCEPT !.delegates = TRUE,
                                              !.replaced = IF flat.err = "" THEN @ ELSE flat.err],
                      below |-> Plus(acc.below, Result(flat.result.routes, flat.result.conds \cup told))]
            ELSE [out |-> [acc.out EXCEPT !.backends = Append(@, b.cluster)],
                  below |-> Plus(acc.below, Result(<<>>,
                        IF b.err = "" THEN {} ELSE {ProcessBackendError(b.err, info.id, parent)}))]
    IN  FoldLeft(add, [out |-> out, below |-> Result(<<>>, {})], rule.backends)

(* The routes of the children come before those of the rule.               *)
translateGatewayHTTPRouteRule(info, parent, rule, ruleIdx, visited, via) ==
    LET matches == IF rule.matches = <<>> THEN <<<<>>>> ELSE rule.matches
        new(idx) == [id |-> info.id, name |-> <<info.id, ruleIdx, idx>>, match |-> matches[idx], via |-> via,
                     weight |-> route[info.id].weight, backends |-> <<>>, delegates |-> FALSE, replaced |-> ""]
        set == [idx \in DOMAIN matches |-> setRouteAction(info, parent, rule, new(idx), visited)]
        below == FoldLeft(LAMBDA acc, s : Plus(acc, s.below), Result(<<>>, {}), set)
    IN  Plus(below, Result([idx \in DOMAIN set |-> set[idx].out], {}))

translateGatewayHTTPRouteRulesUtil(info, spec, parent, visited, via) ==
    FoldLeft(LAMBDA acc, k : Plus(acc, translateGatewayHTTPRouteRule(info, parent, spec.rules[k], k, visited, via)),
             Result(<<>>, {}), [k \in DOMAIN spec.rules |-> k])

TranslateGatewayHTTPRouteRules(r, ord) ==
    translateGatewayHTTPRouteRulesUtil(GetRouteChain(r, ord), route[r], "gateway", {}, <<>>)
-----------------------------------------------------------------------------
(* routeutils: the order of the routes in a virtual host.                  *)
ParsePath(m) == Get(m, "path", [type |-> "PathPrefix", value |-> <<>>])
PathLen(value) == IF value = <<>> THEN 1 ELSE FoldLeft(LAMBDA n, s : n + 1 + SegLen[s], 0, value)
TypeRank(type) == CASE type = "PathPrefix" -> 0 [] type = "RegularExpression" -> 1 [] OTHER -> 2

(* Mutant: paths are compared by their length alone.                       *)
lessPathByLength(a, b) ==
    LET p == ParsePath(a)
        q == ParsePath(b)
    IN  IF PathLen(p.value) # PathLen(q.value) THEN IF PathLen(p.value) < PathLen(q.value) THEN "yes" ELSE "no"
        ELSE "equal"

lessPath(a, b) ==
    LET p == ParsePath(a)
        q == ParsePath(b)
        less(x, y) == IF x < y THEN "yes" ELSE "no"
    IN  CASE p.type # q.type -> less(TypeRank(p.type), TypeRank(q.type))
          [] p.type = q.type /\ p.type # "RegularExpression" /\ PathLen(p.value) # PathLen(q.value) ->
                less(PathLen(p.value), PathLen(q.value))
          [] OTHER -> "equal"

(* Whether a has a lower priority than b.  All routes here come from the   *)
(* same route of the gateway, so that the delegated ones are compared by   *)
(* the route they were written in.                                         *)
routeWrapperLessFunc(a, b) ==
    LET x == a.match
        y == b.match
        count(m, f) == Cardinality(Get(m, f, {}))
    IN  CASE lessPath(x, y) # "equal" -> lessPath(x, y) = "yes"
          [] lessPath(x, y) = "equal" /\ Has(x, "method") # Has(y, "method") -> Has(y, "method")
          [] lessPath(x, y) = "equal" /\ Has(x, "method") = Has(y, "method") ->
                IF count(x, "headers") # count(y, "headers") THEN count(x, "headers") < count(y, "headers")
                ELSE IF count(x, "params") # count(y, "params") THEN count(x, "params") < count(y, "params")
                ELSE IF a.id # b.id THEN Created[a.id] > Created[b.id]
                ELSE a.idx > b.idx

CompareTo(a, b) ==
    IF a.weight # b.weight THEN a.weight > b.weight ELSE routeWrapperLessFunc(b, a)

ToSortable(routes) == [k \in DOMAIN routes |-> [idx |-> k] @@ routes[k]]

(* SortStableFunc.                                                         *)
Insert(sorted, x) ==
    LET stop == {k \in DOMAIN sorted : ~ CompareTo(x, sorted[k])}
        i == IF stop = {} THEN 0 ELSE CHOOSE k \in stop : \A j \in stop : j <= k
    IN  SubSeq(sorted, 1, i) \o <<x>> \o SubSeq(sorted, i + 1, Len(sorted))
Sorted(routes) == FoldLeft(Insert, <<>>, ToSortable(routes))
InOrder(t) == Result(Sorted(t.routes), t.conds)
-----------------------------------------------------------------------------
Init ==
    /\ route \in Start
    /\ fresh = FALSE
    /\ output = Result(<<>>, {})
    /\ edits = 0

(* The gateway is translated; krt lists the routes in some order.          *)
Translate ==
    /\ ~ fresh
    /\ route[Top] # Nil
    /\ fresh' = TRUE
    /\ \E ord \in Orders : output' = InOrder(TranslateGatewayHTTPRouteRules(Top, ord))
    /\ UNCHANGED <<route, edits>>

(* A route is created, changed or deleted.                                 *)
Edit(r) ==
    /\ edits < MaxEdits
    /\ edits' = edits + 1
    /\ \E spec \in Edits[r] \ {route[r]} : route' = [route EXCEPT ![r] = spec]
    /\ fresh' = FALSE
    /\ UNCHANGED output

Next == Translate \/ \E r \in DOMAIN Edits : Edit(r)

Spec == Init /\ [][Next]_vars
-----------------------------------------------------------------------------
Routes == Range(output.routes)
Refs(rule) == {rule.backends[k].delegate : k \in {j \in DOMAIN rule.backends : Has(rule.backends[j], "delegate")}}
Selected(ref) == LET all == CHOOSE ord \in Orders : TRUE IN Range(fetchRoutesByRef(ref, all))

(* The effective matches with which route c is reached through a match.    *)
Effective(c, match, m) ==
    IF route[c].inherit THEN {MergeParentChildRouteMatch(match, m)}
    ELSE {x \in {m} : IsDelegatedRouteMatch(match, x)}
Inherited(c, match, rule) == IF rule.matches = <<>> /\ route[c].inherit THEN {match} ELSE {}

(* What a chain of routes and matches may be continued with: a child that  *)
(* a reference of the rule selects, that accepts the parent, is not on the *)
(* chain and has no hostnames of its own.  A reference that also selects a *)
(* route of the chain is void.                                             *)
Continued(chain, rule) ==
    LET last == chain[Len(chain)]
        on == {chain[k][1] : k \in DOMAIN chain}
        kids(ref) == {c \in Selected(ref) : ChildRouteCanAttachToParentRef(c, last[1])}
    IN  UNION {UNION {UNION {{[chain |-> Append(chain, <<c, x>>), rule |-> sub] :
                                x \in Inherited(c, last[2], sub) \cup UNION {Effective(c, last[2], m) : m \in Range(sub.matches)}} :
                        sub \in Range(route[c].rules)} :
                 c \in {d \in kids(ref) : ~ route[d].hosts}} :
           ref \in {f \in Refs(rule) : kids(f) \cap on = {}}}

RECURSIVE ChainsFrom(_)
ChainsFrom(S) == IF S = {} THEN {} ELSE S \cup ChainsFrom(UNION {Continued(s.chain, s.rule) : s \in S})
TopChains ==
    UNION {{[chain |-> <<<<Top, m>>>>, rule |-> rule] :
                m \in IF rule.matches = <<>> THEN {<<>>} ELSE Range(rule.matches)} : rule \in Range(route[Top].rules)}

Clusters(rule) == {rule.backends[k].cluster : k \in {j \in DOMAIN rule.backends : Has(rule.backends[j], "cluster")}}

(* The output routes are exactly the chains of delegations that the routes *)
(* declare, each with the match that its parents leave it and its own      *)
(* backends, for any graph of references, cyclic ones included.            *)
DelegationExact ==
    fresh => {[chain |-> Append(o.via, <<o.id, o.match>>), to |-> Range(o.backends)] : o \in Routes} =
             {[chain |-> s.chain, to |-> Clusters(s.rule)] : s \in ChainsFrom(TopChains)}

(* An output route that delegates and has no route below it answers with   *)
(* an error, and a condition of its route says that the reference is not   *)
(* resolved.                                                               *)
NoSilentDrop ==
    fresh => \A o \in Routes : o.delegates =>
        \/ \E x \in Routes : Len(x.via) > Len(o.via) /\ SubSeq(x.via, 1, Len(o.via) + 1) = Append(o.via, <<o.id, o.match>>)
        \/ /\ o.replaced # ""
           /\ \E c \in output.conds : c.route = o.id /\ c.type = "ResolvedRefs"

(* Every request of one route is a request of the other, but not vice versa*)
Narrower(a, b) ==
    LET x == a.match
        y == b.match
        p == ParsePath(x)
        q == ParsePath(y)
    IN  /\ a.match # b.match
        /\ \/ p = q
           \/ q.type = "PathPrefix" /\ p.type # "RegularExpression" /\ IsPrefix(q.value, p.value)
        /\ Get(y, "headers", {}) \subseteq Get(x, "headers", {})
        /\ Get(y, "params", {}) \subseteq Get(x, "params", {})
        /\ Has(y, "method") => Has(x, "method") /\ x.method = y.method

Ids(routes) == [k \in DOMAIN routes |-> routes[k].id]

(* Of two routes with the same weight the one that matches fewer requests  *)
(* comes first, and the order of routes that were written in different     *)
(* objects does not depend on the order in which krt lists the routes.     *)
NarrowerFirst ==
    fresh =>
        /\ \A i, j \in DOMAIN output.routes :
            i < j /\ output.routes[i].weight = output.routes[j].weight => ~ Narrower(output.routes[j], output.routes[i])
        /\ \A ord \in Orders :
            Ids(Sorted(TranslateGatewayHTTPRouteRules(Top, ord).routes)) = Ids(output.routes)
=============================================================================
