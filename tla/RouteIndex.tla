------------------------------ MODULE RouteIndex ------------------------------
(***************************************************************************)
(* The krt collections that attach policies and resolve references         *)
(* (krtcollections/policy.go, pluginsdk/ir): backends with their policies, *)
(* routes with their policies, backends and filters, and gateways with     *)
(* their policies and ListenerSets.                                        *)
(*                                                                         *)
(* A transform records the index keys it fetches.  A row is computed again *)
(* when its own object or something under those keys changes, and the old  *)
(* row stays in place when the new one Equals it; only a row that is       *)
(* replaced is an event for the collections that read it.                  *)
(***************************************************************************)
EXTENDS Integers, Sequences, Functions

CONSTANTS
    Policy, Backend, Route, Gateway, ListenerSet,    \* the objects
    Source,          \* [object -> [kind, ns, name]]
    Created,         \* [backend or policy -> its place by creation time]
    ListenerSetOrder, \* the ListenerSets by creation time and name
    GrantKey,        \* the ReferenceGrant entries that may exist
    ForBackends,     \* the policy kinds that process backends
    AliasKinds,      \* [kind -> the kinds whose backends have aliases of that kind]
    BackendKinds,    \* the kinds with a collection of their own
    GlobalNamespace, \* the namespace whose selectors reach every namespace
    Orders,          \* the orders in which maps may list the policies
    Start,           \* the clusters at startup
    Edits,           \* Edits[object]: what the object may become
    MaxEvents        \* bound on the changes of the cluster

VARIABLES
    obj,     \* [object -> its spec, or Nil]
    grant,   \* the ReferenceGrant entries
    open,    \* the namespaces that the gateways' selector selects
    row,     \* [object -> its row, or Nil]: backends, routes, gateways
    reads,   \* [object -> the keys its last transform fetched]
    dirty,   \* the objects whose transform is due
    boot,    \* the backends that their collection has yet to compute to be synced
    events

vars == <<obj, grant, open, row, reads, dirty, boot, events>>

Nil == [nil |-> TRUE]
Rows == Backend \cup Route \cup Gateway
Objects == Rows \cup Policy \cup ListenerSet
Has(r, f) == f \in DOMAIN r

(* What the API and the plugins admit: an ExtensionRef names a policy, a   *)
(* ListenerSet has listeners, and the aliases of a backend are global or   *)
(* in its namespace.                                                       *)
Admitted(o, spec) ==
    spec # Nil =>
        /\ o \in Route => \A k \in DOMAIN spec.rules : \A f \in Range(spec.rules[k].filters) :
                            Has(f, "mirror") \/ f.ext \in Policy
        /\ o \in Gateway \cup ListenerSet => spec.listeners \in Seq(STRING)
        /\ o \in ListenerSet => spec.listeners # <<>>
        /\ o \in Backend => \A a \in Range(spec.aliases) : a.ns \in {"", Source[o].ns}

ASSUME RouteIndexAssumption ==
    /\ Rows \cap (Policy \cup ListenerSet) = {} /\ Policy \cap ListenerSet = {}
    /\ Backend \cap (Route \cup Gateway) = {} /\ Route \cap Gateway = {}
    /\ \A b \in Backend : Created[b] \in Nat
    /\ ListenerSetOrder \in Seq(ListenerSet) /\ ListenerSet \subseteq Range(ListenerSetOrder)
    /\ IsInjective(ListenerSetOrder)
    /\ \A b \in Backend : Source[b].ns # ""
    /\ \A ord \in Orders : ord \in Seq(Policy) /\ Policy \subseteq Range(ord)
    /\ DOMAIN Edits \subseteq Objects
    /\ \A s \in Start : s.obj = [o \in Objects |-> s.obj[o]]
    /\ \A s \in Start : \A o \in Objects : Admitted(o, s.obj[o])
    /\ \A o \in DOMAIN Edits : \A spec \in Edits[o] : Admitted(o, spec)

Labels(o) == IF Has(obj[o], "labels") THEN obj[o].labels ELSE {}

(* The lists in ss, one after the other.                                   *)
Flatten(ss) ==
    LET all[k \in 0..Len(ss)] == IF k = 0 THEN <<>> ELSE all[k - 1] \o ss[k] IN all[Len(ss)]

(* What s lists of S.                                                      *)
Only(s, S) == Flatten([k \in DOMAIN s |-> IF s[k] \in S THEN <<s[k]>> ELSE <<>>])

(* The values of f, in the order in which ord lists its domain.            *)
InOrder(ord, f) == LET listed == Only(ord, DOMAIN f) IN [k \in DOMAIN listed |-> f[listed[k]]]
-----------------------------------------------------------------------------
(* PolicyIndex: which policies target an object.                           *)
Live(P) == {p \in P : obj[p] # Nil}
PolicyKey(kind, ns, name, section) == <<"policies", kind, ns, name, section>>

Fits(p, onlyBackends) == onlyBackends => Source[p].kind \in ForBackends

fetchByTargetRef(src, section, onlyBackends) ==
    {p \in Live(Policy) : /\ Source[p].ns = src.ns /\ Fits(p, onlyBackends)
                          /\ \E t \in obj[p].refs : t.kind = src.kind /\ t.name = src.name /\ t.section = section}

(* A selector without labels selects nothing, and nothing selects an       *)
(* object without labels.                                                  *)
fetchByTargetRefLabels(src, ns, section, labels, onlyBackends) ==
    {p \in Live(Policy) : /\ Source[p].ns = ns /\ Fits(p, onlyBackends)
                          /\ \E t \in obj[p].refs : /\ t.kind = src.kind /\ t.section = section
                                                    /\ t.labels # {} /\ t.labels \subseteq labels}

PolicyAtt(p, section) ==
    [policy |-> p, kind |-> Source[p].kind, section |-> section, spec |-> obj[p]]

(* Weight decides within a kind, then age, then identity.                  *)
Precedes(a, b) ==
    IF a.kind = b.kind /\ a.spec.weight # b.spec.weight THEN a.spec.weight > b.spec.weight
    ELSE Created[a.policy] < Created[b.policy]

(* SortStableFunc sorts short lists by insertion.                          *)
Insert(sorted, x) ==
    LET stop == {k \in DOMAIN sorted : ~ Precedes(x, sorted[k])}
        i == IF stop = {} THEN 0 ELSE CHOOSE k \in stop : \A j \in stop : j <= k
    IN  SubSeq(sorted, 1, i) \o <<x>> \o SubSeq(sorted, i + 1, Len(sorted))
sortPolicies(list) ==
    LET sorted[k \in 0..Len(list)] == IF k = 0 THEN <<>> ELSE Insert(sorted[k - 1], list[k])
    IN  sorted[Len(list)]

(* The policies in the order in which the maps are listed, then sorted.    *)
getTargetingPolicies(src, section, labels, onlyBackends, ord) ==
    LET list(S) == InOrder(ord, [p \in S |-> PolicyAtt(p, section)])
        selecting(ns) == fetchByTargetRefLabels(src, ns, section, labels, onlyBackends)
    IN  sortPolicies(list(fetchByTargetRef(src, section, onlyBackends)) \o list(selecting(src.ns))
                     \o IF src.ns = GlobalNamespace THEN <<>> ELSE list(selecting(GlobalNamespace)))

TargetingReads(src, section, labels) ==
    {PolicyKey(src.kind, src.ns, src.name, section)}
    \cup (IF labels = {} THEN {} ELSE {PolicyKey(src.kind, ns, "", section) : ns \in {src.ns, GlobalNamespace}})

(* The lists per kind, which is how policies are merged and applied.       *)
ToAttachedPolicies(atts) ==
    [k \in {a.kind : a \in Range(atts)} |-> Only(atts, {a \in Range(atts) : a.kind = k})]

(* The keys under which the index holds a policy.                          *)
PolicyKeys(p, spec) ==
    IF spec = Nil THEN {}
    ELSE {<<"policy", p>>}
         \cup (UNION {{PolicyKey(t.kind, Source[p].ns, t.name, t.section),
                       PolicyKey(t.kind, Source[p].ns, "", t.section)} : t \in spec.refs})
-----------------------------------------------------------------------------
(* BackendIndex: the policies of a backend, and finding a backend.         *)
IsBackendTLS(a) == a.kind = "BackendTLSPolicy"

(* A policy on the port hides those on the whole service.                  *)
preferPortSpecificBackendTLSPolicies(base, port) ==
    IF \E k \in DOMAIN port : IsBackendTLS(port[k])
    THEN Only(base, {a \in Range(base) : ~ IsBackendTLS(a)}) ELSE base

PoliciesOfSource(b, src, ord) ==
    LET base == getTargetingPolicies(src, "", Labels(b), TRUE, ord)
        port == getTargetingPolicies(src, obj[b].portName, Labels(b), TRUE, ord)
    IN  IF obj[b].portName = "" THEN base
        ELSE preferPortSpecificBackendTLSPolicies(base, port) \o port

(* A global alias is given the namespace of the backend.                   *)
SourcesOf(b) ==
    <<Source[b]>> \o [k \in DOMAIN obj[b].aliases |->
                        IF obj[b].aliases[k].ns = "" THEN [obj[b].aliases[k] EXCEPT !.ns = Source[b].ns]
                        ELSE obj[b].aliases[k]]

attachPoliciesToBackend(b, ord) ==
    LET all == Flatten([k \in DOMAIN SourcesOf(b) |-> PoliciesOfSource(b, SourcesOf(b)[k], ord)])
    IN  [spec |-> obj[b], policies |-> ToAttachedPolicies(all), requiresStatus |-> all # <<>>]
SourceReads(b, src) == UNION {TargetingReads(src, s, Labels(b)) : s \in {"", obj[b].portName}}
BackendReads(b) == UNION {SourceReads(b, src) : src \in Range(SourcesOf(b))}

BackendKey(src, port) == <<"backend", src.kind, src.ns, src.name, port>>
AliasKey(src, port) == <<"alias", src.kind, src.ns, src.name, port>>
NameKey(src) == <<"named", src.kind, src.ns, src.name>>

(* The keys under which the indexes hold a backend's row.                  *)
LookupKeys(b, r) ==
    IF r = Nil THEN {} ELSE {BackendKey(Source[b], r.spec.port)} \cup {AliasKey(a, r.spec.port) : a \in Range(r.spec.aliases)}
NameKeys(b, r) ==
    IF r = Nil THEN {} ELSE {NameKey(Source[b])} \cup {NameKey(a) : a \in Range(r.spec.aliases)}

(* The keys whose readers hear of a change.  A PartialFetch by name hears  *)
(* only of a backend that gains or loses the name.                         *)
ChangedKeys(b, old, new) ==
    LookupKeys(b, old) \cup LookupKeys(b, new)
    \cup (NameKeys(b, old) \ NameKeys(b, new)) \cup (NameKeys(b, new) \ NameKeys(b, old))

Found(b) == [backend |-> b, err |-> ""]
Missing(err) == [backend |-> "", err |-> err]
Present == {b \in Backend : row[b] # Nil}

BackendsNamed(ref) ==
    {b \in Present : /\ Source[b].kind \in BackendKinds
                     /\ BackendKey(Source[b], row[b].spec.port) = BackendKey(ref, ref.port)}
BackendsAliased(ref) ==
    {b \in Present : /\ Source[b].kind \in AliasKinds[ref.kind]
                     /\ \E a \in Range(row[b].spec.aliases) : AliasKey(a, row[b].spec.port) = AliasKey(ref, ref.port)}

(* The oldest backend with the alias.                                      *)
getBackendFromAlias(ref) ==
    IF BackendsAliased(ref) = {} THEN Missing("not found")
    ELSE Found(CHOOSE b \in BackendsAliased(ref) : \A c \in BackendsAliased(ref) : Created[b] <= Created[c])

hasBackendNamed(ref) ==
    \E b \in Present : /\ Source[b].kind \in {ref.kind} \cup AliasKinds[ref.kind]
                       /\ NameKey(ref) \in NameKeys(b, row[b])

notFoundErr(ref) ==
    Missing(IF ref.port # "" /\ hasBackendNamed(ref) THEN "port not found" ELSE "not found")

PortNotAllowed(ref) == ref.kind = "Backend" /\ ref.port # ""

getBackend(ref) ==
    CASE PortNotAllowed(ref) -> Missing("port not allowed")
      [] ~ PortNotAllowed(ref) /\ BackendsNamed(ref) # {} -> Found(CHOOSE b \in BackendsNamed(ref) : TRUE)
      [] ~ PortNotAllowed(ref) /\ BackendsNamed(ref) = {} ->
            IF ref.kind \notin BackendKinds /\ AliasKinds[ref.kind] = {} THEN Missing("unknown kind")
            ELSE IF BackendsAliased(ref) # {} THEN getBackendFromAlias(ref) ELSE notFoundErr(ref)

(* Each lookup is made only when the one before it found nothing.          *)
BackendRefReads(ref) ==
    IF PortNotAllowed(ref) THEN {}
    ELSE {BackendKey(ref, ref.port)} \cup
         IF BackendsNamed(ref) # {} THEN {}
         ELSE {AliasKey(ref, ref.port)} \cup
              IF BackendsAliased(ref) # {} \/ ref.port = "" THEN {} ELSE {NameKey(ref)}
-----------------------------------------------------------------------------
(* RefGrantIndex.                                                          *)
GrantFor(kind, ns, ref, name) == <<kind, ns, ref.kind, ref.ns, name>>
(* Mutant: a grant for the kind is taken without its namespace.            *)
AllowedByKind(kind, ns, ref) ==
    \/ ns = ref.ns
    \/ ref.ns = ""
    \/ \E g \in grant : g[1] = kind /\ g[2] = ns /\ g[3] = ref.kind

(* References within a namespace, and to global kinds, need no grant.      *)
ReferenceAllowed(kind, ns, ref) ==
    \/ ns = ref.ns
    \/ ref.ns = ""
    \/ \E name \in {"", ref.name} : GrantFor(kind, ns, ref, name) \in grant

(* The grant for one name is looked up when there is none for all.         *)
GrantReads(kind, ns, ref) ==
    IF ns = ref.ns \/ ref.ns = "" THEN {}
    ELSE {<<"grant", GrantFor(kind, ns, ref, name)>> :
            name \in {""} \cup IF GrantFor(kind, ns, ref, "") \in grant THEN {} ELSE {ref.name}}

GetBackendFromRef(kind, ns, ref) ==
    IF ReferenceAllowed(kind, ns, ref) THEN getBackend(ref) ELSE Missing("missing grant")
FromRefReads(kind, ns, ref) ==
    GrantReads(kind, ns, ref) \cup IF ReferenceAllowed(kind, ns, ref) THEN BackendRefReads(ref) ELSE {}
-----------------------------------------------------------------------------
(* RoutesIndex.                                                            *)
Blackhole == "blackhole"

resolveRouteBackend(r, ref) ==
    LET found == GetBackendFromRef(Source[r].kind, Source[r].ns, ref)
    IN  CASE found.err # "" -> [cluster |-> Blackhole, object |-> Nil, err |-> found.err]
          [] found.err = "" /\ Source[r].kind \notin row[found.backend].spec.supports ->
                [cluster |-> Blackhole, object |-> Nil, err |-> "unsupported route kind"]
          [] OTHER -> [cluster |-> found.backend, object |-> row[found.backend], err |-> ""]

(* A mirror that is not granted or not found is left out without an error. *)
convertMirrorIR(r, ref) ==
    LET found == GetBackendFromRef("HTTPRoute", Source[r].ns, ref)
    IN  [builtin |-> TRUE, mirror |-> IF found.err = "" THEN found.backend ELSE ""]

(* An extension that does not exist is the rule's error.                   *)
resolveExtension(r, f) ==
    IF Has(f, "mirror") THEN convertMirrorIR(r, f.mirror)
    ELSE IF obj[f.ext] = Nil THEN [builtin |-> FALSE, err |-> f.ext]
    ELSE [builtin |-> FALSE, ext |-> f.ext, spec |-> obj[f.ext]]

getExtensionRefs(r, filters) == [k \in DOMAIN filters |-> resolveExtension(r, filters[k])]

getBackends(r, refs) ==
    [k \in DOMAIN refs |-> IF refs[k].kind = "HTTPRoute" THEN [delegate |-> refs[k]]
                           ELSE resolveRouteBackend(r, refs[k])]

transformRule(r, rule, ord) ==
    [refs |-> getExtensionRefs(r, rule.filters), backends |-> getBackends(r, rule.backends),
     policies |-> IF rule.name = "" THEN <<>>
                  ELSE ToAttachedPolicies(getTargetingPolicies(Source[r], rule.name, Labels(r), FALSE, ord))]

transformRoute(r, ord) ==
    [spec |-> obj[r],
     policies |-> ToAttachedPolicies(getTargetingPolicies(Source[r], "", Labels(r), FALSE, ord)),
     rules |-> [k \in DOMAIN obj[r].rules |-> transformRule(r, obj[r].rules[k], ord)]]

FilterReads(r, f) ==
    IF Has(f, "mirror") THEN FromRefReads("HTTPRoute", Source[r].ns, f.mirror) ELSE {<<"policy", f.ext>>}
RuleReads(r, rule) ==
    TargetingReads(Source[r], rule.name, Labels(r))
    \cup (UNION {FilterReads(r, f) : f \in Range(rule.filters)})
    \cup (UNION {FromRefReads(Source[r].kind, Source[r].ns, ref) :
                    ref \in {b \in Range(rule.backends) : b.kind # "HTTPRoute"}})
RouteReads(r) ==
    TargetingReads(Source[r], "", Labels(r)) \cup (UNION {RuleReads(r, rule) : rule \in Range(obj[r].rules)})
-----------------------------------------------------------------------------
(* GatewayIndex.                                                           *)
AllowedListenerSet(g, l) ==
    CASE obj[g].allowed = "All" -> TRUE
      [] obj[g].allowed = "Same" -> Source[g].ns = Source[l].ns
      [] obj[g].allowed = "Selector" -> Source[l].ns \in open
      [] OTHER -> FALSE     \* nil, None and what does not parse

ListenerSetsOf(g) == {l \in Live(ListenerSet) : obj[l].parent = g}

(* The policies of the listener, then those of the whole ListenerSet.      *)
Listeners(o, setWide, ord) ==
    LET names == obj[o].listeners
        of(n) == getTargetingPolicies(Source[o], n, Labels(o), FALSE, ord)
        rest == IF setWide THEN getTargetingPolicies(Source[o], "", Labels(o), FALSE, ord) ELSE <<>>
    IN  [k \in DOMAIN names |-> [of |-> o, listener |-> names[k],
                                 policies |-> ToAttachedPolicies(of(names[k]) \o rest)]]

(* The gateway's row, with the ports that the deployer's own collection    *)
(* lists for it: it counts every ListenerSet, allowed or not.              *)
GatewaysForEnvoyTransformationFunc(g, ord) ==
    LET allowed == {l \in ListenerSetsOf(g) : AllowedListenerSet(g, l)}
    IN  [spec |-> obj[g],
         policies |-> ToAttachedPolicies(getTargetingPolicies(Source[g], "", Labels(g), FALSE, ord)),
         listeners |-> Listeners(g, FALSE, ord)
                       \o Flatten(InOrder(ListenerSetOrder, [l \in allowed |-> Listeners(l, TRUE, ord)])),
         denied |-> Only(ListenerSetOrder, ListenerSetsOf(g) \ allowed),
         ports |-> UNION {Range(obj[o].listeners) : o \in {g} \cup ListenerSetsOf(g)}]

ListenerReads(o) ==
    UNION {TargetingReads(Source[o], s, Labels(o)) : s \in {""} \cup Range(obj[o].listeners)}
GatewayReads(g) ==
    {<<"listenerSets", g>>} \cup (UNION {ListenerReads(o) : o \in {g} \cup ListenerSetsOf(g)})
    \cup (IF obj[g].allowed = "Selector" THEN {<<"namespace", Source[l].ns>> : l \in ListenerSetsOf(g)} ELSE {})
-----------------------------------------------------------------------------
(* Equality.                                                               *)
Entries(r) == [k \in DOMAIN r.rules |-> [r.rules[k] EXCEPT
                 !.refs = [j \in DOMAIN @ |-> IF @[j].builtin THEN [builtin |-> TRUE] ELSE @[j]]]]

(* Mutant: the version of the route decides alone.                         *)
versionAlone(a, b) == a.spec = b.spec /\ a.policies = b.policies

(* HttpRouteIR.Equals; two built-in policies are always Equal.             *)
RouteEquals(a, b) == a.spec = b.spec /\ a.policies = b.policies /\ Entries(a) = Entries(b)

RowEquals(o, a, b) == IF o \in Route THEN RouteEquals(a, b) ELSE a = b
-----------------------------------------------------------------------------
(* The transforms and the cluster.                                         *)
Transform(o, ord) ==
    CASE o \in Backend -> attachPoliciesToBackend(o, ord)
      [] o \in Route -> transformRoute(o, ord)
      [] OTHER -> GatewaysForEnvoyTransformationFunc(o, ord)
ReadsOf(o) ==
    CASE o \in Backend -> BackendReads(o) [] o \in Route -> RouteReads(o) [] OTHER -> GatewayReads(o)

(* The rows that have read one of the keys.                                *)
Readers(keys) == {o \in Rows : reads[o] \cap keys # {}}

(* krt keeps a row that equals the new one, and tells the readers of one   *)
(* that does not.                                                          *)
Put(o, new) ==
    LET kept == row[o] # Nil /\ new # Nil /\ RowEquals(o, row[o], new)
    IN  /\ row' = [row EXCEPT ![o] = IF kept THEN row[o] ELSE new]
        /\ dirty' = (dirty \ {o})
                    \cup IF o \in Backend /\ ~ kept
                         THEN Readers(ChangedKeys(o, row[o], new)) ELSE {}

(* A transform that fetches from a collection waits until it is synced.    *)
Compute(o) ==
    /\ o \in dirty
    /\ o \notin Backend => boot = {}
    /\ boot' = boot \ {o}
    /\ \E ord \in Orders : Put(o, IF obj[o] = Nil THEN Nil ELSE Transform(o, ord))
    /\ reads' = [reads EXCEPT ![o] = IF obj[o] = Nil THEN {} ELSE ReadsOf(o)]
    /\ UNCHANGED <<obj, grant, open, events>>

(* An object is created, changed or deleted.                               *)
Change(o) ==
    /\ events < MaxEvents
    /\ events' = events + 1
    /\ \E spec \in Edits[o] \ {obj[o]} :
        /\ obj' = [obj EXCEPT ![o] = spec]
        /\ dirty' = dirty \cup
            CASE o \in Rows -> {o}
              [] o \in Policy -> Readers(PolicyKeys(o, obj[o]) \cup PolicyKeys(o, spec))
              [] OTHER -> Readers({<<"listenerSets", s.parent>> : s \in {obj[o], spec} \ {Nil}})
    /\ UNCHANGED <<grant, open, row, reads, boot>>

ChangeGrant(g) ==
    /\ events < MaxEvents
    /\ events' = events + 1
    /\ grant' = IF g \in grant THEN grant \ {g} ELSE grant \cup {g}
    /\ dirty' = dirty \cup Readers({<<"grant", g>>})
    /\ UNCHANGED <<obj, open, row, reads, boot>>

Relabel(ns) ==
    /\ events < MaxEvents
    /\ events' = events + 1
    /\ open' = IF ns \in open THEN open \ {ns} ELSE open \cup {ns}
    /\ dirty' = dirty \cup Readers({<<"namespace", ns>>})
    /\ UNCHANGED <<obj, grant, row, reads, boot>>

Init ==
    /\ \E s \in Start : obj = s.obj /\ grant = s.grant /\ open = s.open
    /\ row = [o \in Rows |-> Nil]
    /\ reads = [o \in Rows |-> {}]
    /\ dirty = {o \in Rows : obj[o] # Nil}
    /\ boot = Live(Backend)
    /\ events = 0

Next ==
    \/ \E o \in Rows : Compute(o)
    \/ \E o \in DOMAIN Edits : Change(o)
    \/ \E g \in GrantKey : ChangeGrant(g)
    \/ \E l \in ListenerSet : Relabel(Source[l].ns)

Spec == Init /\ [][Next]_vars
-----------------------------------------------------------------------------
Settled == dirty = {}

(* The same row, but for the built-in filters: two of them are Equal       *)
(* whatever backends their mirrors resolve to.                             *)
SameRow(o, a, b) ==
    IF o \in Route THEN a.spec = b.spec /\ a.policies = b.policies /\ Entries(a) = Entries(b) ELSE a = b

(* Once nothing is due, every backend, route and gateway row is what the   *)
(* objects say now, whatever the order in which the changes arrived and    *)
(* the rows were computed: no fetch is missing from what a transform       *)
(* records and no Equals hides a change.                                   *)
RowsSettle ==
    Settled => \A o \in Rows :
        IF obj[o] = Nil THEN row[o] = Nil
        ELSE row[o] # Nil /\ \E ord \in Orders : SameRow(o, row[o], Transform(o, ord))

(* Whether a policy targets section s of an object, from its target        *)
(* references alone.                                                       *)
Targets(p, src, s, labels) ==
    \E t \in obj[p].refs :
        /\ t.kind = src.kind /\ t.section = s
        /\ \/ t.name = src.name /\ Source[p].ns = src.ns
           \/ t.labels # {} /\ t.labels \subseteq labels /\ Source[p].ns \in {src.ns, GlobalNamespace}
AttachedTo(policies) == UNION {{policies[k][i].policy : i \in DOMAIN policies[k]} : k \in DOMAIN policies}

(* Once nothing is due, a route carries exactly the policies that target   *)
(* it; it sends traffic to another namespace only under a grant that       *)
(* exists; a gateway has the listeners of exactly the ListenerSets it      *)
(* allows; and the ports that the deployer exposes include every listener. *)
AttachedAsDeclared ==
    Settled =>
        /\ \A r \in Live(Route) :
            /\ AttachedTo(row[r].policies) = {p \in Live(Policy) : Targets(p, Source[r], "", Labels(r))}
            /\ \A k \in DOMAIN row[r].rules : \A b \in Range(row[r].rules[k].backends) :
                Has(b, "cluster") /\ b.cluster # Blackhole /\ Source[b.cluster].ns # Source[r].ns =>
                    \/ \E g \in grant : g[1] = Source[r].kind /\ g[2] = Source[r].ns
                                        /\ g[4] = Source[b.cluster].ns
                    \/ \E a \in Range(obj[b.cluster].aliases) : a.ns = ""
        /\ \A g \in Live(Gateway) :
            /\ {x.of : x \in Range(row[g].listeners)} \ {g} =
                    {l \in Live(ListenerSet) : obj[l].parent = g /\ AllowedListenerSet(g, l)}
            /\ {x.listener : x \in Range(row[g].listeners)} \subseteq row[g].ports
=============================================================================
