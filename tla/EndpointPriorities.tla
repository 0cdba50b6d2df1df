------------------------- MODULE EndpointPriorities -------------------------
(***************************************************************************)
(* The endpoints of one backend on their way to its clients' load          *)
(* assignments: the row KRT shares (ir/model.go), the copy-on-write editor *)
(* that endpoint plugins work through, client after client                 *)
(* (endpoints/editor.go, irtranslator/endpoint_plugins.go), and the        *)
(* assignment built from the result (endpoints/prioritize.go).             *)
(*                                                                         *)
(* Endpoint protos are cells of a memory, because the question is who can  *)
(* still write to one: the editor shares them, clones them, and hands some *)
(* to plugins, which live longer than a client's pass.  An equality hash   *)
(* is the set of contributions that occur an odd number of times: XOR over *)
(* collision-free hashes.                                                  *)
(***************************************************************************)
EXTENDS Integers, Sequences, FiniteSets, SequencesExt, FiniteSetsExt

CONSTANTS
    Content,        \* what an endpoint proto and its labels can hold: [addr, labels, weight]
    Locality,       \* localities: [region, zone, subzone]
    Source,         \* rows the backend may start with: sequences of <<locality, content>>
    Client,         \* the clients: [labels, locality]
    Priority,       \* priority settings a plugin may install
    Distribution,   \* traffic distributions
    MaxCells,       \* bound: endpoint protos allocated
    MaxCalls,       \* bound: plugin calls
    MaxPasses       \* bound: clients resolved

NoPriority == [set |-> FALSE, labels |-> <<>>, failover |-> {}]

VARIABLES
    memory,    \* the content of each allocated cell
    source,    \* the shared row: [eps, sum, td]
    inputs,    \* the resolver's working inputs: [eps, sum, td, prio]
    resolver,  \* [open, legacyIsolated, endpointHashesReusable]
    builder,   \* the replacement set: [state, eps, sum], state "none", "live" or "consumed"
    held,      \* cells some plugin holds a pointer to
    resolved,  \* the inputs of the clients resolved so far, and what they held then
    asked,     \* history: the last traffic distribution set in this pass, and
               \* whether a legacy hook wrote since the last replacement
    calls      \* plugin calls so far

vars == <<memory, source, inputs, resolver, builder, held, resolved, asked, calls>>

-----------------------------------------------------------------------------
(* EndpointsForBackend.                                                    *)

Xor(a, b) == (a \cup b) \ (a \cap b)

hashEndpoints(loc, cell, mem) == {<<loc, mem[cell]>>}

\* An entry of LbEps: its locality, its proto and the contribution it caches
\* ({} when a clone dropped it).
Entry(loc, cell, contribution) == [loc |-> loc, cell |-> cell, cached |-> contribution]

addWithEndpointHash(row, loc, cell, contribution) ==
    [row EXCEPT !.eps = Append(@, Entry(loc, cell, contribution)),
                !.sum = Xor(@, contribution)]

AddEndpoint(row, loc, cell, mem) ==
    addWithEndpointHash(row, loc, cell, hashEndpoints(loc, cell, mem))

\* A cached contribution is trusted, unless a clone dropped it.
ReuseEndpoint(row, entry, mem) ==
    addWithEndpointHash(row, entry.loc, entry.cell,
        IF entry.cached = {} THEN hashEndpoints(entry.loc, entry.cell, mem) ELSE entry.cached)

EmptyRow == [eps |-> <<>>, sum |-> {}]

ContentOf(eps, mem) == [i \in DOMAIN eps |-> <<eps[i].loc, mem[eps[i].cell]>>]
TrueSum(eps, mem) ==
    FoldLeft(LAMBDA acc, e : Xor(acc, hashEndpoints(e.loc, e.cell, mem)), {}, eps)

-----------------------------------------------------------------------------
(* Prioritisation: what a client's assignment is.                          *)

NewPriorities(labels) == [set |-> TRUE, labels |-> labels, failover |-> {}]

priorityInfoFromTrafficDistribution(td) ==
    CASE td = "PreferSameZone" -> NewPriorities(<<<<"network", "">>, <<"region", "">>, <<"zone", "">>>>)
      [] td = "PreferSameNode" -> NewPriorities(<<<<"network", "">>, <<"region", "">>, <<"zone", "">>,
                                                  <<"subzone", "">>, <<"hostname", "">>>>)
      [] td = "PreferNetwork" -> NewPriorities(<<<<"network", "">>>>)
      [] OTHER -> NoPriority

ResolvedPriorityInfo(in) ==
    IF in.prio.set THEN in.prio ELSE priorityInfoFromTrafficDistribution(in.td)

DependsOnClient(in) == ResolvedPriorityInfo(in).set

\* The value a label is compared with: the one the setting gives, or the client's.
valueForProxy(labels, j, c) ==
    LET given == {i \in DOMAIN labels : labels[i][1] = labels[j][1] /\ labels[i][2] # ""}
    IN IF given # {} THEN labels[Max(given)][2] ELSE c.labels[labels[j][1]]

\* The later the first label that differs, the better the priority.
GetPriority(labels, c, ep) ==
    LET differ == {j \in DOMAIN labels : valueForProxy(labels, j, c) # ep.labels[labels[j][1]]}
    IN IF differ = {} THEN 0 ELSE Len(labels) - (Min(differ) - 1)

\* Mutant: the context is the locality, also where labels decide.
contextByLocality(c, in) == IF ResolvedPriorityInfo(in).set THEN <<c.locality>> ELSE <<>>

\* The part of the client that the assignment reads.
LoadBalancingContextHash(c, in) ==
    LET info == ResolvedPriorityInfo(in)
    IN IF ~info.set THEN <<>>
       ELSE IF info.labels # <<>>
            THEN [j \in DOMAIN info.labels |-> <<info.labels[j][1], valueForProxy(info.labels, j, c)>>]
            ELSE <<c.locality>>

LbPriority(proxy, loc) ==
    CASE proxy.region # loc.region -> 3
      [] proxy.region = loc.region /\ proxy.zone # loc.zone -> 2
      [] proxy.region = loc.region /\ proxy.zone = loc.zone /\ proxy.subzone # loc.subzone -> 1
      [] OTHER -> 0

\* The endpoints of a locality without an address are left out.
filterInvalidEps(eps, loc, mem) ==
    {i \in DOMAIN eps : eps[i].loc = loc /\ mem[eps[i].cell].addr # ""}

Group(eps, loc, p, is, mem) ==
    [loc |-> loc, priority |-> p, addrs |-> {<<i, mem[eps[i].cell].addr>> : i \in is},
     weight |-> MapThenSumSet(LAMBDA i : mem[eps[i].cell].weight, is)]

\* One group per locality and priority; the priorities keep their gaps.
applyFailoverPriorityPerLocality(eps, loc, info, c, mem) ==
    LET valid == filterInvalidEps(eps, loc, mem)
        prio  == [i \in valid |-> GetPriority(info.labels, c, mem[eps[i].cell])]
    IN {Group(eps, loc, p, {i \in valid : prio[i] = p}, mem) : p \in {prio[i] : i \in valid}}

\* Without labels the distance between localities decides, made worse where a
\* failover from the client's region names another one; then renumbered from 0.
applyLocalityFailover(groups, info, c) ==
    LET named(g) == {f \in info.failover : f.from = c.locality.region}
        raw(g)   == LET p == LbPriority(c.locality, g.loc)
                    IN IF p = 3 /\ named(g) # {} /\ \A f \in named(g) : f.to # g.loc.region
                       THEN 4 ELSE p
        rank(g)  == Cardinality({raw(h) : h \in {h2 \in groups : raw(h2) < raw(g)}})
    IN {[g EXCEPT !.priority = rank(g)] : g \in groups}

PrioritizeEndpoints(c, in, mem) ==
    LET info   == ResolvedPriorityInfo(in)
        locs   == {in.eps[i].loc : i \in DOMAIN in.eps}
        plain  == {Group(in.eps, loc, 0, filterInvalidEps(in.eps, loc, mem), mem) : loc \in locs}
    IN IF ~info.set THEN plain
       ELSE IF info.labels # <<>>
            THEN UNION {applyFailoverPriorityPerLocality(in.eps, loc, info, c, mem) : loc \in locs}
            ELSE applyLocalityFailover(plain, info, c)

-----------------------------------------------------------------------------
(* The editor.  A pass opens a resolver over the shared row, lets plugins   *)
(* call it and hands the result on.                                        *)

Idle == [open |-> FALSE, legacyIsolated |-> FALSE, endpointHashesReusable |-> TRUE]
NoBuilder == [state |-> "none", eps |-> <<>>, sum |-> {}, td |-> ""]
NothingAsked == [td |-> "", raw |-> FALSE]

Init ==
    \E rows \in Source, td \in Distribution :
        LET mem  == [i \in DOMAIN rows |-> rows[i][2]]
            full == FoldLeft(LAMBDA row, i : AddEndpoint(row, rows[i][1], i, mem), EmptyRow,
                             [i \in DOMAIN rows |-> i])
        IN /\ memory = mem
           /\ source = [eps |-> full.eps, sum |-> full.sum, td |-> td]
           /\ inputs = [eps |-> <<>>, sum |-> {}, td |-> td, prio |-> NoPriority]
           /\ resolver = Idle /\ builder = NoBuilder /\ held = {} /\ resolved = <<>>
           /\ asked = NothingAsked /\ calls = 0

\* The calls that add or set something are counted; the others only frame them.
Call == resolver.open /\ calls < MaxCalls /\ calls' = calls + 1
Frame == resolver.open /\ UNCHANGED calls

\* A cell for each content, appended to the memory.
Allocate(contents) == memory \o contents
Room(n) == Len(memory) + n <= MaxCells

NewEndpointInputsResolver ==
    /\ ~resolver.open /\ Len(resolved) < MaxPasses
    /\ resolver' = [Idle EXCEPT !.open = TRUE]
    /\ inputs' = [eps |-> source.eps, sum |-> source.sum, td |-> source.td, prio |-> NoPriority]
    /\ builder' = NoBuilder /\ asked' = NothingAsked
    /\ UNCHANGED <<memory, source, held, resolved, calls>>

SetPriorityInfo(info) ==
    /\ Call
    /\ inputs' = [inputs EXCEPT !.prio = info]
    /\ UNCHANGED <<memory, source, resolver, builder, held, resolved, asked>>

SetTrafficDistribution(td) ==
    /\ Call
    /\ inputs' = [inputs EXCEPT !.td = td]
    /\ asked' = [asked EXCEPT !.td = td]
    /\ UNCHANGED <<memory, source, resolver, builder, held, resolved>>

NewEndpointSet ==
    /\ Frame /\ builder.state = "none"
    /\ builder' = [state |-> "live", eps |-> <<>>, sum |-> {}, td |-> inputs.td]
    /\ UNCHANGED <<memory, source, inputs, resolver, held, resolved, asked>>

\* Mutant: a view is trusted although a legacy hook may have written behind it.
trustedView(row, view, loc, reusable, mem) ==
    IF loc # view.loc THEN AddEndpoint(row, loc, view.cell, mem) ELSE ReuseEndpoint(row, view, mem)

\* An endpoint that moves, or that a legacy hook may have written, is hashed anew.
addView(row, view, loc, reusable, mem) ==
    IF loc # view.loc \/ ~reusable THEN AddEndpoint(row, loc, view.cell, mem)
    ELSE ReuseEndpoint(row, view, mem)

AddUnchanged(i, loc) ==
    /\ Call /\ builder.state = "live" /\ i \in DOMAIN inputs.eps
    /\ builder' = addView(builder, inputs.eps[i], loc, resolver.endpointHashesReusable, memory)
    /\ UNCHANGED <<memory, source, inputs, resolver, held, resolved, asked>>

\* Mutant: the modifier is handed the shared endpoint itself.
modifyInPlace(cell, content) == [cell |-> cell, mem |-> [memory EXCEPT ![cell] = content]]

\* The modifier gets a clone and its result is hashed after it returns.
modifyClone(cell, content) == [cell |-> Len(memory) + 1, mem |-> Allocate(<<content>>)]

AddModified(i, loc, content) ==
    /\ Call /\ builder.state = "live" /\ i \in DOMAIN inputs.eps /\ Room(1)
    /\ LET m == modifyClone(inputs.eps[i].cell, content)
       IN /\ memory' = m.mem
          /\ builder' = AddEndpoint(builder, loc, m.cell, m.mem)
    /\ UNCHANGED <<source, inputs, resolver, held, resolved, asked>>

\* Mutant: the plugin's own endpoint is installed without a copy.
adoptOwn(content) == [cell |-> Len(memory) + 1, mem |-> Allocate(<<content>>)]

\* The builder copies an endpoint that a plugin made and may keep.
cloneOwn(content) == [cell |-> Len(memory) + 2, mem |-> Allocate(<<content, content>>)]

AddOwn(loc, content) ==
    /\ Call /\ builder.state = "live" /\ Room(2)
    /\ LET own == cloneOwn(content)
       IN /\ memory' = own.mem
          /\ builder' = AddEndpoint(builder, loc, own.cell, own.mem)
    /\ held' = held \cup {Len(memory) + 1}
    /\ UNCHANGED <<source, inputs, resolver, resolved, asked>>

\* Mutant: the builder's whole row is installed, with the distribution it was
\* seeded with.
installWhole(in, b) == [in EXCEPT !.eps = b.eps, !.sum = b.sum, !.td = b.td]

\* Only the endpoints and their hash are adopted.
AdoptEndpointsFrom(in, b) == [in EXCEPT !.eps = b.eps, !.sum = b.sum]

ReplaceEndpoints ==
    /\ Frame /\ builder.state = "live"
    /\ inputs' = AdoptEndpointsFrom(inputs, builder)
    /\ builder' = [NoBuilder EXCEPT !.state = "consumed"]
    /\ resolver' = [resolver EXCEPT !.endpointHashesReusable = TRUE]
    /\ asked' = [asked EXCEPT !.raw = FALSE]
    /\ UNCHANGED <<memory, source, held, resolved>>

\* A second plugin of the pass starts over with a builder of its own.
NextPlugin ==
    /\ Frame /\ builder.state = "consumed"
    /\ builder' = NoBuilder
    /\ UNCHANGED <<memory, source, inputs, resolver, held, resolved, asked>>

\* A legacy hook gets the inputs themselves, isolated once per client, and
\* writes one endpoint without telling the row.
LegacyMutableInputs(i, content) ==
    /\ Call /\ i \in DOMAIN inputs.eps /\ builder.state # "live"
    /\ resolver.legacyIsolated \/ Room(Len(inputs.eps))
    /\ LET n      == Len(memory)
           clones == [j \in DOMAIN inputs.eps |-> Entry(inputs.eps[j].loc, n + j, {})]
           eps    == IF resolver.legacyIsolated THEN inputs.eps ELSE clones
           mem    == IF resolver.legacyIsolated THEN memory
                     ELSE Allocate([j \in DOMAIN inputs.eps |-> memory[inputs.eps[j].cell]])
       IN /\ memory' = [mem EXCEPT ![eps[i].cell] = content]
          /\ inputs' = [inputs EXCEPT !.eps = eps]
    /\ resolver' = [resolver EXCEPT !.legacyIsolated = TRUE, !.endpointHashesReusable = FALSE]
    /\ asked' = [asked EXCEPT !.raw = TRUE]
    /\ UNCHANGED <<source, builder, held, resolved>>

\* The pass ends: the inputs go to PrioritizeEndpoints and stay in the rows.
Inputs ==
    /\ resolver.open
    /\ resolved' = Append(resolved, [in |-> inputs, was |-> ContentOf(inputs.eps, memory),
                                     asked |-> asked])
    /\ resolver' = Idle /\ builder' = NoBuilder
    /\ UNCHANGED <<memory, source, inputs, held, asked, calls>>

\* A plugin writes, at any time, to an endpoint it made and still holds.
PluginWrites(cell, content) ==
    /\ calls < MaxCalls /\ calls' = calls + 1
    /\ cell \in held /\ memory[cell] # content
    /\ memory' = [memory EXCEPT ![cell] = content]
    /\ UNCHANGED <<source, inputs, resolver, builder, held, resolved, asked>>

Next ==
    \/ NewEndpointInputsResolver
    \/ \E info \in Priority : SetPriorityInfo(info)
    \/ \E td \in Distribution : SetTrafficDistribution(td)
    \/ NewEndpointSet
    \/ \E i \in DOMAIN inputs.eps, loc \in Locality : AddUnchanged(i, loc)
    \/ \E i \in DOMAIN inputs.eps, loc \in Locality, content \in Content : AddModified(i, loc, content)
    \/ \E loc \in Locality, content \in Content : AddOwn(loc, content)
    \/ ReplaceEndpoints
    \/ NextPlugin
    \/ \E i \in DOMAIN inputs.eps, content \in Content : LegacyMutableInputs(i, content)
    \/ Inputs
    \/ \E cell \in held, content \in Content : PluginWrites(cell, content)

Spec == Init /\ [][Next]_vars

-----------------------------------------------------------------------------
(* Properties.                                                             *)

\* Whatever plugins call and whatever they write afterwards, the row KRT shares
\* between clients and the inputs of the clients resolved before keep their
\* content: editor.go clones what a plugin may write.
ResolvedKeepTheirContent ==
    /\ source.sum = TrueSum(source.eps, memory)
    /\ \A k \in DOMAIN resolved :
         ContentOf(resolved[k].in.eps, memory) = resolved[k].was

\* The hash of a client's endpoints is the hash of their content, unless a legacy
\* hook wrote after the last replacement (its own contribution versions that): a
\* reused contribution never versions changed content (ReuseEndpoint).  The
\* traffic distribution is the last one a plugin set, also when a replacement set
\* was begun before it (ReplaceEndpoints).
ResolvedAsAsked ==
    \A k \in DOMAIN resolved : LET r == resolved[k] IN
        /\ ~r.asked.raw => r.in.sum = TrueSum(r.in.eps, memory)
        /\ r.asked.td # "" => r.in.td = r.asked.td

\* Two clients with the same load-balancing context get the same assignment, and
\* when DependsOnClient says no client matters, every client does: the interning
\* of EDS assignments and the CLA on the shared base rest on it.
SameContextSameCla ==
    \A k \in DOMAIN resolved : LET in == resolved[k].in IN
        \A c, d \in Client :
            (~DependsOnClient(in) \/ LoadBalancingContextHash(c, in) = LoadBalancingContextHash(d, in))
                => PrioritizeEndpoints(c, in, memory) = PrioritizeEndpoints(d, in, memory)
=============================================================================
