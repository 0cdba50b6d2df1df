------------------------------- MODULE MCRoutes -------------------------------
(***************************************************************************)
(* Finite instances for TLC of the parts that bring routes from the cluster *)
(* to Envoy: the index of policies, backends and routes, the delegation     *)
(* between routes, the listeners that serve them, the built-in filters and  *)
(* the validation of the result.  Each is a transformation of its own:      *)
(* `part` says which of them a behaviour is about.                          *)
(***************************************************************************)
EXTENDS MCRouteIndex

CONSTANTS w1, w2

VARIABLES part,
          strict, work, cache, memo, jobs, killed, failed,    \* Validation
          route, output,                                      \* Delegation
          world, out,                                         \* Listeners
          fresh, edits,                                       \* either of them
          chain, redirects, built, needs, at                  \* BuiltinFilters

validationVars == <<strict, work, cache, memo, jobs, killed, failed>>
delegationVars == <<route, output>>
listenerVars == <<world, out>>
editVars == <<fresh, edits>>
filterVars == <<chain, redirects, built, needs, at>>
all == <<part, vars, validationVars, delegationVars, listenerVars, editVars, filterVars>>
-----------------------------------------------------------------------------
(* Virtual hosts that between them have every kind of rule, and clusters.  *)
R(name, matcher, action) ==
    [name |-> name, matcher |-> matcher, action |-> action, policy |-> FALSE,
     delegates |-> FALSE, earlier |-> FALSE]
V(rules) == [rules |-> rules, policy |-> FALSE]
Good == R(1, "ok", "ok")

MCWorker == {w1, w2}
SomeJobs ==
    { V(<<Good, R(2, "syntax", "ok"), R(3, "ok", "rejected")>>),
      V(<<R(3, "rejected", "rejected")>>),
      V(<<Good, R(5, "ok", "ok")>>),
      V(<<[R(6, "syntax", "none") EXCEPT !.policy = TRUE],
          [R(7, "ok", "none") EXCEPT !.delegates = TRUE],
          [R(8, "ok", "ok") EXCEPT !.earlier = TRUE], R(4, "ok", "path"), R(9, "ok", "none")>>),
      [V(<<Good>>) EXCEPT !.policy = TRUE],
      [cluster |-> "ok"], [cluster |-> "rejected"] }

Strict == INSTANCE Validation
            WITH Worker <- MCWorker, Jobs <- SomeJobs, Clash <- {<<1, 5>>},
                 CacheSize <- 1, MaxJobs <- 2, MaxFaults <- 1

ASSUME JobsTyped == Strict!JobsAdmitted
-----------------------------------------------------------------------------
(* Gateways for Listeners.                                                 *)
G == INSTANCE MCListeners
Edge == INSTANCE Listeners
           WITH LabelLen <- G!SomeLens, Orders <- G!BothOrders, Experimental <- FALSE,
                Start <- G!SomeStart, Edits <- G!SomeEdits, MaxEdits <- 1
-----------------------------------------------------------------------------
(* Graphs of four HTTPRoutes for Delegation.                               *)
FourRoutes == {"top", "b1", "b2", "c"}
InNamespaces == [top |-> "a", b1 |-> "b", b2 |-> "b", c |-> "b"]
RouteAges == [top |-> 1, b1 |-> 3, b2 |-> 2, c |-> 4]
Listings == {<<"top", "b1", "b2", "c">>, <<"c", "b2", "top", "b1">>}
SegmentLen == [x |-> 1, xy |-> 2, y |-> 1]
NoRoute == [nil |-> TRUE]
Prefix(value) == [path |-> [type |-> "PathPrefix", value |-> value]]
Exact(value) == [path |-> [type |-> "Exact", value |-> value]]
Regex(value) == [path |-> [type |-> "RegularExpression", value |-> value]]
Delegate(kind, ns, name) == [delegate |-> [kind |-> kind, ns |-> ns, name |-> name]]
Child(c) == Delegate("HTTPRoute", "b", c)
Direct(c) == [cluster |-> c, err |-> ""]
Broken(err) == [cluster |-> "blackhole", err |-> err]
On(matches, backends) == [matches |-> matches, backends |-> backends]
Rt(rules) == [parents |-> {}, hosts |-> FALSE, label |-> "", inherit |-> FALSE, weight |-> 0, rules |-> rules]
Inherit(r) == [r EXCEPT !.inherit = TRUE]

H == {<<"h", "1">>}
Leaf(m) == Rt(<<On(<<m>>, <<Direct("svc")>>)>>)
Tops ==
    {Rt(<<On(<<Prefix(<<"x">>)>>, <<ref>>)>>) :
        ref \in {Child("b1"), Child("*"), Delegate("label", "all", "l"), Delegate("label", "b", "l")}}
    \cup {Rt(<<On(<<Prefix(<<"x">>), [headers |-> H, method |-> "GET"] @@ Prefix(<<"y">>)>>, <<Child("b1"), Direct("own")>>)>>),
          Rt(<<On(<<>>, <<Child("b1")>>), On(<<Exact(<<"x">>)>>, <<Child("b2")>>)>>),
          Rt(<<On(<<Prefix(<<"x">>)>>, <<Child("b1")>>), On(<<Prefix(<<"x", "y">>)>>, <<Child("b2"), Broken("missing grant")>>)>>)}
B1s ==
    {Rt(<<On(<<Prefix(<<"x", "y">>)>>, <<Child(c)>>)>>) : c \in {"c", "b2", "*", "b1"}}
    \cup {Inherit(Rt(<<On(<<>>, <<Child("c")>>), On(<<Exact(<<"y">>), Regex(<<"y", "y">>)>>, <<Direct("svc")>>)>>)),
          [Inherit(Rt(<<On(<<[headers |-> {<<"h", "2">>, <<"g", "1">>}, method |-> "PUT"]>>, <<Child("b2")>>)>>)) EXCEPT !.label = "l"],
          [Leaf(Prefix(<<"xy">>)) EXCEPT !.hosts = TRUE, !.label = "l"]}
B2s ==
    {NoRoute, Leaf(Prefix(<<"xy">>)),
     [Rt(<<On(<<Exact(<<"x", "y">>), [headers |-> H] @@ Prefix(<<"x", "y">>)>>, <<Direct("svc")>>), On(<<Prefix(<<"y">>)>>, <<Child("c")>>)>>)
        EXCEPT !.label = "l", !.weight = 1],
     Inherit(Rt(<<On(<<>>, <<Child("b1")>>)>>))}
Cs ==
    {Leaf(Prefix(<<"x", "y">>)), [Inherit(Leaf(Regex(<<"y">>))) EXCEPT !.parents = {"b1"}],
     [Leaf([params |-> H] @@ Prefix(<<"x">>)) EXCEPT !.label = "l"]}
Graph(t, b1, b2, c) == "top" :> [t EXCEPT !.parents = {"gateway"}] @@ "b1" :> b1 @@ "b2" :> b2 @@ "c" :> c
Graphs == {Graph(t, b1, b2, c) : t \in Tops, b1 \in B1s, b2 \in B2s, c \in Cs}
GraphEdits == "b1" :> {NoRoute} @@ "c" :> {NoRoute} @@ "b2" :> {Leaf(Prefix(<<"xy">>))}

Chained == INSTANCE Delegation
             WITH RouteId <- FourRoutes, Top <- "top", Ns <- InNamespaces, Created <- RouteAges,
                  SegLen <- SegmentLen, SegPrefix <- {<<"x", "xy">>}, Orders <- Listings,
                  Start <- Graphs, Edits <- GraphEdits, MaxEdits <- 1
-----------------------------------------------------------------------------
(* Delegation chains for BuiltinFilters: a leaf and its parent.            *)
Level(filters, rule, prio, backends) ==
    [filters |-> filters, rule |-> rule, prio |-> prio, backends |-> backends]
Shallow == {"ShallowMergePreferChild", "ShallowMergePreferParent"}

Redirects == {<<>>, [scheme |-> "https"], [scheme |-> "http", port |-> 8080], [port |-> 443], [port |-> 80],
              [scheme |-> "https", code |-> 301, path |-> "/x"]}
RedirectLeaves ==
    {names @@ Level(<<[type |-> "redirect"] @@ r>>, <<>>, "ShallowMergePreferChild", FALSE) :
        r \in Redirects,
        names \in {<<>>, [name |-> "r1"], [name |-> "r1", codes |-> <<[rule |-> "r2", code |-> 308],
                                                                 [rule |-> "r1", code |-> 307]>>],
                   [codes |-> <<[rule |-> "", code |-> 0]>>]}}

Headers(n) == [type |-> "requestHeaders", add |-> <<n>>, set |-> <<>>, remove |-> <<>>]
Rewrites(n) == {[type |-> "rewrite", host |-> n], [type |-> "rewrite", prefix |-> "/"],
                [type |-> "rewrite", host |-> n, prefix |-> "/p"]}
Filters(n) == {<<>>, <<[type |-> "cors", cors |-> n]>>,
               <<[type |-> "mirror", cluster |-> n, resolved |-> TRUE, fraction |-> <<1, 3>>],
                 [type |-> "mirror", cluster |-> n, resolved |-> FALSE]>>}
              \cup {<<f>> : f \in Rewrites(n)} \cup {<<f, Headers(n)>> : f \in Rewrites(n)}
Rules(n) == {<<>>, [request |-> n], [backendRequest |-> n, retry |-> [attempts |-> n]],
             [retry |-> [attempts |-> n], session |-> [type |-> "cookie", ttl |-> n]]}
Levels(n, prios) == {Level(f, r, prio, TRUE) : f \in Filters(n), r \in Rules(n), prio \in prios}

Chains ==
    {<<leaf, parent>> : leaf \in RedirectLeaves,
                        parent \in {l \in Levels(2, {"ShallowMergePreferChild"}) : l.rule = <<>>}}
    \cup {<<leaf, parent>> : leaf \in Levels(1, {"ShallowMergePreferChild"}), parent \in Levels(2, Shallow)}

ListenerPort == [a |-> 80, b |-> 8443]
ListenerTLS == [a |-> FALSE, b |-> TRUE]

Builtin == INSTANCE BuiltinFilters
             WITH Listener <- {"a", "b"}, Port <- ListenerPort, HasTLS <- ListenerTLS, out <- built

\* The CEL rules of the HTTPRoute API admit these rules.
ASSUME RulesAdmitted == \A c \in Chains : \A k \in DOMAIN c : Builtin!RuleAdmitted(c[k])
-----------------------------------------------------------------------------
Parts == {"index", "delegation", "listeners", "builtin", "validation"}

\* The variables of a part that a behaviour is not about are out of use.
Unused == "unused"
NoCluster ==
    /\ obj = Empty /\ grant = {} /\ open = {}
    /\ row = [o \in Rows |-> Nil] /\ reads = [o \in Rows |-> {}]
    /\ dirty = {} /\ boot = {} /\ events = 0
PartsInit ==
    /\ part \in Parts
    /\ Strict!Init /\ (part # "validation" => ~ strict)
    /\ IF part = "index" THEN Init ELSE NoCluster
    /\ CASE part = "delegation" -> Chained!Init /\ world = Unused /\ out = Unused
         [] part = "listeners" -> Edge!Init /\ route = Unused /\ output = Unused
         [] OTHER -> /\ world = Unused /\ out = Unused /\ route = Unused /\ output = Unused
                     /\ fresh = FALSE /\ edits = 0
    /\ IF part = "builtin" THEN Builtin!Init
       ELSE /\ chain = Unused /\ redirects = Unused /\ built = Unused
            /\ needs = Unused /\ at = Unused

Validate(A) ==
    /\ part = "validation" /\ A
    /\ UNCHANGED <<part, vars, delegationVars, listenerVars, editVars, filterVars>>
PartsNext ==
    \/ Validate(Strict!Next)
    \/ /\ part = "index" /\ Next
       /\ UNCHANGED <<part, validationVars, delegationVars, listenerVars, editVars, filterVars>>
    \/ /\ part = "delegation" /\ Chained!Next
       /\ UNCHANGED <<part, vars, validationVars, listenerVars, filterVars>>
    \/ /\ part = "listeners" /\ Edge!Next
       /\ UNCHANGED <<part, vars, validationVars, delegationVars, filterVars>>
    \/ /\ part = "builtin" /\ Builtin!Next
       /\ UNCHANGED <<part, vars, validationVars, delegationVars, listenerVars, editVars>>

\* The fairness of Validation.
PartsFairness == \A w \in MCWorker : WF_all(Validate(Strict!Step(w)))

PartsSpec == PartsInit /\ [][PartsNext]_all /\ PartsFairness
-----------------------------------------------------------------------------
\* The translator's flattened routes are exactly the chains of delegations that
\* the HTTPRoutes declare, cyclic or not; a delegation that leads nowhere is
\* answered with an error and reported; and the narrower match comes first.
DelegationExact ==
    part = "delegation" => Chained!DelegationExact /\ Chained!NoSilentDrop /\ Chained!NarrowerFirst

\* On every HTTP port a virtual host has exactly the routes attached with that
\* hostname to the narrowest listener covering it, and that listener's policies.
HostsIsolated == part = "listeners" => Edge!HostsIsolated

\* The conditions of listeners, Gateways and ListenerSets agree with the filter
\* chains that the listener translator serves.
StatusTellsServed == part = "listeners" => Edge!StatusTellsServed

\* A redirect names the port of the listener that serves it, however gateways
\* that share the rule's IR interleave, and the other fields of a delegated
\* route have the values that the policy priority annotations prefer.
FiltersFollowRules == part = "builtin" => Builtin!RedirectsPerListener /\ Builtin!FieldsFollowPriority

\* In strict mode what is published was accepted by Envoy as a whole; while
\* Envoy answers, an invalid rule costs only itself, and the validator's caches
\* hold only Envoy's own verdicts.
OnlyInvalidRulesFall == Strict!OnlyValidServed /\ Strict!IsolationExact /\ Strict!VerdictsExact

\* Every translation ends, for the one that leads a flight and for those who
\* joined it, whatever becomes of its process.
EveryTranslationEnds == Strict!EveryTranslationEnds
=============================================================================
