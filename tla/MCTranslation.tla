----------------------------- MODULE MCTranslation -----------------------------
(***************************************************************************)
(* Finite instances for TLC of the parts that turn policies and backends    *)
(* into what Envoy is served, and of the deferral tracker that follows      *)
(* proxy_syncer's collections, with two clients of one Gateway.  They have  *)
(* no state in common: `part` says which of them a behaviour is about.      *)
(***************************************************************************)
EXTENDS SnapshotDeferral, TLC

CONSTANTS k1, k2, gw1, e1, p1, nil

VARIABLES part,
          gw, gwPass, out, pc,   \* RoutePolicies
          pols, tpOpts, heap, accs, todo, round,   \* PolicyMerge
          policy, extension, secret, configMap, target, grant, issuer,
          extRow, polRow, extDirty, polDirty, events,   \* TrafficPolicies
          spec, attached, http, service, pending, served, retargets,   \* ListenerPolicies
          memory, source, inputs, resolver, builder, held, resolved,
          asked, calls,   \* EndpointPriorities
          setting, world, edits, irs, backendIRs, base, watches,
          dirtyBase, payload, dirtyClient, disabled   \* BackendTranslation

routeVars == <<gw, gwPass, out, pc>>
mergeVars == <<pols, tpOpts, heap, accs, todo, round>>
policyVars == <<policy, extension, secret, configMap, target, grant, issuer, extRow, polRow,
                extDirty, polDirty, events>>
listenerVars == <<spec, attached, http, service, pending, served, retargets>>
endpointVars == <<memory, source, inputs, resolver, builder, held, resolved, asked, calls>>
backendVars == <<setting, world, edits, irs, backendIRs, base, watches, dirtyBase, payload,
                 dirtyClient, disabled>>

TwoKeys == {k1, k2}
OneGateway == {gw1}
SameGateway == [k \in TwoKeys |-> gw1]

TwoBackends == {"b1", "b2"}
TwoSecrets == {"s1", "s2"}
Namespaces == [x \in {e1, "s1", "b1", "hmac"} |-> "ns1"] @@ [x \in {"s2", "b2"} |-> "ns2"]
ByName == [s1 |-> 1, s2 |-> 2]
P == INSTANCE MCPolicies
       WITH Nil <- nil, Extension <- {e1}, Secret <- TwoSecrets, Backend <- TwoBackends,
            ConfigMap <- {"c1"}, NsOf <- Namespaces, SecretOrder <- ByName, ReferenceGrantMode <- "On",
            ValidationMode <- "Strict"

OnRoutes == INSTANCE RoutePolicies
              WITH Gateways <- P!SomeGateways, OtherFilters <- P!SomeFilters, pass <- gwPass
Merging == INSTANCE PolicyMerge
             WITH PolicyLists <- P!SomeLists, Overrides <- P!SomeOverrides, MaxRounds <- 2

\* The policies to be merged are such as their construction leaves.
ASSUME ListsConstructed == Merging!PoliciesConstructed

Policies == INSTANCE TrafficPolicies
              WITH Nil <- nil, Policy <- {p1}, Extension <- {e1}, Secret <- TwoSecrets, Backend <- TwoBackends,
                   ConfigMap <- {"c1"}, NsOf <- Namespaces, SecretOrder <- ByName,
                   ReferenceGrantMode <- "On", ValidationMode <- "Strict", HMACSecret <- "hmac",
                   GrantKey <- P!GrantKey, Start <- P!PolicyStart, ExtensionSpec <- P!ExtensionSpec,
                   SecretData <- P!SecretData, InitialSecret <- P!InitialSecret,
                   ConfigMapData <- {"", "jwk", "junk"}, backend <- target
OnListeners == INSTANCE ListenerPolicies
                 WITH PolicyOrder <- <<1, 2, 3>>, Gateway <- {"g1", "g2"}, Port <- <<"80", "81">>,
                      Backend <- {"b1"}, Start <- P!ListenerStarts, MaxEdits <- 1,
                      edits <- retargets

\* The CEL rules of the ListenerPolicy API admit these specs.
ASSUME SpecsAdmitted ==
    \A s \in P!ListenerStarts : \A p \in 1 .. 3 : OnListeners!Admitted(s.spec[p])

B == INSTANCE MCBackends
Backends == INSTANCE BackendTranslation
              WITH Backend <- TwoBackends, Client <- B!TwoClients, Families <- B!Families,
                   MaxEdits <- 1, held <- backendIRs
Endpoints == INSTANCE EndpointPriorities
               WITH Content <- B!EpContent, Locality <- B!EpLocality, Source <- B!EpSource,
                    Client <- B!EpClient, Priority <- B!EpPriority,
                    Distribution <- {"Any", "PreferSameNode"}, MaxCells <- 4, MaxCalls <- 3,
                    MaxPasses <- 1
-----------------------------------------------------------------------------
\* The variables of a part that a behaviour is not about are out of use.
Unused == "unused"
Parts == {"tracker", "routes", "merge", "policies", "listeners", "endpoints", "backends"}
PartsInit ==
    /\ part \in Parts
    /\ Init
    /\ IF part = "routes" THEN OnRoutes!Init
       ELSE /\ gw = Unused /\ gwPass = Unused /\ out = Unused /\ pc = Unused
    /\ IF part = "merge" THEN Merging!Init
       ELSE /\ pols = Unused /\ tpOpts = Unused /\ heap = Unused /\ accs = Unused
            /\ todo = Unused /\ round = Unused
    /\ IF part = "policies" THEN Policies!Init
       ELSE /\ policy = Unused /\ extension = Unused /\ secret = Unused
            /\ configMap = Unused /\ target = Unused /\ grant = Unused /\ issuer = Unused
            /\ extRow = Unused /\ polRow = Unused /\ extDirty = Unused
            /\ polDirty = Unused /\ events = Unused
    /\ IF part = "listeners" THEN OnListeners!Init
       ELSE /\ spec = Unused /\ attached = Unused /\ http = Unused /\ service = Unused
            /\ pending = Unused /\ served = Unused /\ retargets = Unused
    /\ IF part = "endpoints" THEN Endpoints!Init
       ELSE /\ memory = Unused /\ source = Unused /\ inputs = Unused /\ resolver = Unused
            /\ builder = Unused /\ held = Unused /\ resolved = Unused /\ asked = Unused
            /\ calls = Unused
    /\ IF part = "backends" THEN Backends!Init
       ELSE /\ setting = Unused /\ world = Unused /\ edits = Unused /\ irs = Unused
            /\ backendIRs = Unused /\ base = Unused /\ watches = Unused
            /\ dirtyBase = Unused /\ payload = Unused /\ dirtyClient = Unused
            /\ disabled = Unused

PartsNext ==
    \/ /\ part = "tracker" /\ Next
       /\ UNCHANGED <<part, routeVars, mergeVars, policyVars, listenerVars,
                      endpointVars, backendVars>>
    \/ /\ part = "routes" /\ OnRoutes!Next
       /\ UNCHANGED <<part, vars, mergeVars, policyVars, listenerVars,
                      endpointVars, backendVars>>
    \/ /\ part = "merge" /\ Merging!Next
       /\ UNCHANGED <<part, vars, routeVars, policyVars, listenerVars,
                      endpointVars, backendVars>>
    \/ /\ part = "policies" /\ Policies!Next
       /\ UNCHANGED <<part, vars, routeVars, mergeVars, listenerVars,
                      endpointVars, backendVars>>
    \/ /\ part = "listeners" /\ OnListeners!Next
       /\ UNCHANGED <<part, vars, routeVars, mergeVars, policyVars,
                      endpointVars, backendVars>>
    \/ /\ part = "endpoints" /\ Endpoints!Next
       /\ UNCHANGED <<part, vars, routeVars, mergeVars, policyVars,
                      listenerVars, backendVars>>
    \/ /\ part = "backends" /\ Backends!Next
       /\ UNCHANGED <<part, vars, routeVars, mergeVars, policyVars,
                      listenerVars, endpointVars>>

PartsSpec == PartsInit /\ [][PartsNext]_<<part, vars, routeVars, mergeVars, policyVars,
                                         listenerVars, endpointVars, backendVars>>
-----------------------------------------------------------------------------
\* Every per-route configuration finds its filter in the chain, once; a provider
\* that is turned off does not run; bodies are decompressed before they are
\* buffered, at the earliest stage that a policy of the chain names.
ChainsCarryTheirPolicies ==
    part = "routes" =>
        /\ OnRoutes!ConfigHasItsFilter /\ OnRoutes!NoFilterTwice /\ OnRoutes!DisabledMeansOff
        /\ OnRoutes!DecompressBeforeBuffer /\ OnRoutes!BufferAtEarliestStage

\* A route-action field holds the value of the most specific policy that sets it.
MostSpecificFieldWins == part = "routes" => OnRoutes!MostSpecificFieldWins

\* Merging attached policies writes into none of them, never leaves a buffer
\* beside an upgrade, and gives every field the value and the origin that the
\* documented precedence names.
MergedAsDeclared ==
    part = "merge" => /\ Merging!SourcesUntouched /\ Merging!NeverBufferAndUpgrade
                      /\ Merging!MergedAsDeclared

\* Once nothing is due, every TrafficPolicy is what translating the cluster from
\* scratch would make of it, and none lists an API key or a user twice.
PoliciesSettleExact ==
    part = "policies" => Policies!PoliciesSettleExact /\ Policies!CredentialsUnique

\* The settings of a port come from per-port layers of that port or else from
\* default ones, access logs keep their filters, and a gateway with a broken
\* listener policy is served none of them.
ListenersAsConfigured ==
    part = "listeners" => /\ OnListeners!PortReplacesDefault /\ OnListeners!LogsKeepTheirFilters
                          /\ OnListeners!NeverSomePolicies

\* Whatever plugins do with the endpoints of a client, rows and inputs already
\* resolved keep their content, hashes are those of the content, and the traffic
\* distribution is the last one set.
ResolvedAsAsked ==
    part = "endpoints" => Endpoints!ResolvedKeepTheirContent /\ Endpoints!ResolvedAsAsked

\* Clients with the same load-balancing context get the same load assignment.
SameContextSameCla == part = "endpoints" => Endpoints!SameContextSameCla

\* Once the collections have caught up, every client is served what one pass
\* over the present configuration makes of each backend, and no overlay takes a
\* gateway's client certificate away.
ServedExact == part = "backends" => Backends!ServedExact /\ Backends!IdentityKept
=============================================================================
