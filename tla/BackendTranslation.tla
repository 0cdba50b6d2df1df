-------------------------- MODULE BackendTranslation --------------------------
(***************************************************************************)
(* Clusters for every connected client, in two phases: one base cluster    *)
(* per backend, shared by all clients, and the overlays of a client on a   *)
(* copy of it.                                                             *)
(*   pkg/kgateway/translator/irtranslator/backend.go                       *)
(*   pkg/kgateway/proxy_syncer/backends.go                                 *)
(* Rows are KRT rows: when a recomputed row Equals the stored one, the OLD *)
(* row stays, with whatever its Equals does not look at.                   *)
(*                                                                         *)
(* A world is the configuration: [strict, istio, family, custom, secrets,  *)
(* bcp (policy name -> spec), btp (name -> spec), rules, waypoints,        *)
(* nsLabels, backends].  A family is a set of worlds; an edit moves the    *)
(* system from one world of the family to another.                         *)
(***************************************************************************)
EXTENDS BackendPolicies

CONSTANTS Backend, Client,
          Families,    \* a sequence of sets of worlds; a behaviour stays in one
          MaxEdits     \* how many edits a behaviour makes

VARIABLES setting,     \* which family this behaviour is about
          world,       \* the configuration now
          edits,       \* edits made so far
          irs,         \* BackendConfigPolicy name -> [ir, failed, cell]
          held,        \* backend -> its IR, with the attached policies
          base,        \* backend -> baseEnvoyCluster row
          watches,     \* backends whose base read the DestinationRules of its host
          dirtyBase,   \* backends whose base has to be translated again
          payload,     \* client -> clustersWithErrors row
          dirtyClient, \* clients whose payload has to be assembled again
          disabled     \* load balancing protos whose host name hashing was switched off

vars == <<setting, world, edits, irs, held, base, watches, dirtyBase, payload, dirtyClient, disabled>>

-----------------------------------------------------------------------------
(* The IR of a backend.                                                    *)

\* A policy is translated again when its spec or what it references changes; an
\* equal result keeps the old IR, and with it the old protos.
PolicyIR(w, n, cell) == translate(w.bcp[n], n, cell, w.secrets, w.strict)

RefreshPolicy(w, n, old, stamp) ==
  IF PolicyIR(w, n, old.cell) = [ir |-> old.ir, failed |-> old.failed] THEN old
  ELSE LET fresh == PolicyIR(w, n, <<n, stamp>>)
       IN [ir |-> fresh.ir, failed |-> fresh.failed, cell |-> <<n, stamp>>]

\* The backend with the policies that target it (attachPoliciesToBackend), and
\* its version: Services carry no generation.
BackendObjectIR(w, is, b) ==
  LET x == w.backends[b]
  IN [obj |-> x,
      generation |-> IF x.kind = "Service" THEN 0 ELSE x.generation,
      appProtocol |-> x.appProtocol, disableAutoMtls |-> x.disableAutoMtls,
      errors |-> BackendErrors(x, w.secrets),
      bcps |-> [i \in DOMAIN x.bcps |->
                 [att |-> x.bcps[i], generation |-> w.bcp[x.bcps[i].name],
                  ir |-> is[x.bcps[i].name].ir, failed |-> is[x.bcps[i].name].failed]],
      btps |-> [i \in DOMAIN x.btps |->
                 [att |-> x.btps[i], generation |-> w.btp[x.btps[i].name],
                  tls |-> translateBackendTLS(w.btp[x.btps[i].name], x.btps[i].name, w.secrets)]]]

-----------------------------------------------------------------------------
(* TranslateBackendBase.                                                   *)

initializeCluster(b) ==
  [type |-> "none", eds |-> FALSE, panic |-> "none", lb |-> NoLb, meta |-> "",
   locality |-> IF b.obj.td = "Any" THEN "none" ELSE "weighted",
   http |-> [common |-> "none",
             explicit |-> IF b.appProtocol = "http2" THEN "h2" ELSE "none"],
   socket |-> NoSocket, matches |-> <<>>, opts |-> <<>>, cla |-> NoCla, dns |-> <<>>]

\* The cluster that stands for a backend that failed; it is never published.
buildBlackholeCluster == [blackhole |-> TRUE]

processDnsLookupFamily(w, out) ==
  IF out.type \in {"DNS", "DNS_SINGLE"}
  THEN [out EXCEPT !.dns = [lookupFamily |-> w.family] @@ @] ELSE out

\* One merged policy of each kind.
MergedConfig(b) ==
  LET sorted == sortForMerge([i \in DOMAIN b.bcps |-> b.bcps[i].att @@ [ir |-> b.bcps[i].ir]])
  IN mergeBackendConfigPolicies([i \in DOMAIN sorted |-> sorted[i].ir])
MergedTLS(b) == b.btps[winnerIndex([i \in DOMAIN b.btps |-> b.btps[i].att])].tls

\* The attachments that fail the backend as a whole.
PolicyErrors(b) ==
  {b.bcps[i].att.name : i \in {j \in DOMAIN b.bcps : b.bcps[j].failed}}
  \cup (IF b.btps # <<>> /\ ~MergedTLS(b).ok THEN {"BackendTLSPolicy"} ELSE {})

ProcessBackend(hook, w, b, out) ==
  CASE hook = "bcp" -> IF b.bcps = <<>> THEN out ELSE processBackendConfig(MergedConfig(b), b, out)
    [] hook = "btp" -> IF b.btps = <<>> THEN out ELSE processBackendTLS(MergedTLS(b).socket, out)
    [] hook = "istio" -> processIstio(w.istio, b, out)

\* The hooks with something to do for a backend.
Hooks(b) == {"istio"} \cup {h \in {"bcp"} : b.bcps # <<>>} \cup {h \in {"btp"} : b.btps # <<>>}

\* The plugins are the values of a Go map: any order is possible.
applyBasePolicies(order, w, b, out) ==
  FoldLeft(LAMBDA acc, hook : ProcessBackend(hook, w, b, acc), out, order)

\* Zones weigh by their endpoints unless something chose another mode.
defaultsLocality(out) == out.lb = NoLb /\ out.locality = "none" /\ out.eds
defaultLocalityConfig(out) ==
  IF defaultsLocality(out) THEN [out EXCEPT !.locality = "weighted"] ELSE out

removeDefaultedLocalityConfig(out) == [out EXCEPT !.locality = "none"]

gatewayIdentityTLS(socket) == socket.kind = "tls"

injectGatewayBackendClientCertificate(socket, cert) ==
  IF gatewayIdentityTLS(socket) THEN [socket EXCEPT !.cert = cert] ELSE socket

applyGatewayBackendClientCertificate(b, out) ==
  IF b.obj.cert = "" THEN out
  ELSE [out EXCEPT !.socket = injectGatewayBackendClientCertificate(@, b.obj.cert),
                   !.matches = [i \in DOMAIN @ |-> [@[i] EXCEPT
                      !.socket = injectGatewayBackendClientCertificate(@, b.obj.cert)]]]

clusterSupportsInlineCLA(out) == out.type \in {"STATIC", "DNS", "DNS_SINGLE"}
NeedsInlineCLA(out, hasInputs) == clusterSupportsInlineCLA(out) /\ ~out.cla.set /\ hasInputs

HasRulesForHost(w, host) == host # "" /\ \E r \in w.rules : r.host = host

\* Whether the rules are consulted at all: traffic distribution and attached
\* BackendConfigPolicies decide before them.
ConsultsRules(b, needs) == needs /\ b.obj.td = "Any" /\ b.bcps = <<>>
inlineCLADependsOnClient(w, b) ==
  b.obj.td # "Any" \/ b.bcps # <<>> \/ HasRulesForHost(w, b.obj.host)

\* Endpoints without an address are dropped; with a locality preference, those
\* of another zone than the client's come second (EndpointPriorities has the
\* whole algorithm).
PrioritizeEndpoints(eps, local, zone) ==
  LET valid == {e \in eps : e.addr # <<>>}
  IN [set |-> TRUE, weighted |-> valid # {},
      eps |-> {[ep EXCEPT !.prio = IF local /\ ep.zone # zone THEN 1 ELSE 0] : ep \in valid}]

\* What Envoy refuses of the clusters here.
EnvoyRejects(out) ==
  \/ out.type = "DNS_SINGLE" /\ Cardinality(out.cla.eps) # 1
  \/ "outlierDetection" \in DOMAIN out.opts /\ out.opts.outlierDetection = "rejected"
validateClusterConfig(w, out) == w.strict => ~EnvoyRejects(out)

NoInputs == [set |-> FALSE, eps |-> {}, td |-> "Any"]
FailedBase(errors) ==
  [error |-> errors, cluster |-> buildBlackholeCluster, inputs |-> NoInputs,
   inline |-> FALSE, defaulted |-> FALSE, generated |-> FALSE]

TranslateBackendBase(w, b, order) ==
  LET started   == processDnsLookupFamily(w, InitEnvoyBackend(b.obj, initializeCluster(b)))
      shaped    == applyBasePolicies(order, w, b, started)
      defaulted == defaultsLocality(shaped)
      dressed   == applyGatewayBackendClientCertificate(b, defaultLocalityConfig(shaped))
      inputs    == IF HasInlineEndpoints(b.obj)
                   THEN [set |-> TRUE, eps |-> InlineEndpoints(b.obj), td |-> b.obj.td] ELSE NoInputs
      needs     == NeedsInlineCLA(dressed, inputs.set)
      generates == needs /\ ~inlineCLADependsOnClient(w, b)
      out       == IF generates
                   THEN [dressed EXCEPT !.cla = PrioritizeEndpoints(inputs.eps, FALSE, "")]
                   ELSE dressed
  IN IF b.errors # {} THEN FailedBase(b.errors)
     ELSE IF PolicyErrors(b) # {} THEN FailedBase(PolicyErrors(b))
     ELSE IF (~needs \/ generates) /\ ~validateClusterConfig(w, out) THEN FailedBase({"envoy"})
     ELSE [error |-> {}, cluster |-> out, inputs |-> inputs, inline |-> clusterSupportsInlineCLA(out),
           defaulted |-> defaulted, generated |-> generates]

\* The protos this translation rewrites in place; hooks run even when another
\* attachment of the backend fails.
RewrittenProtos(w, b) ==
  IF b.errors # {} \/ b.bcps = <<>> \/ \E i \in DOMAIN b.bcps : b.bcps[i].failed THEN {}
  ELSE disableUseHostnameForHashingIfPresent(MergedConfig(b), InitEnvoyBackend(b.obj, initializeCluster(b)))

\* The content of a cluster now: a proto it shares with a policy IR may have
\* been rewritten since.
ContentOf(out, off) ==
  IF "lb" \notin DOMAIN out THEN out
  ELSE [out EXCEPT !.lb.hostname = @ /\ out.lb.cell \notin off, !.lb.cell = NoCell]

-----------------------------------------------------------------------------
(* The rows of the base collection.                                        *)

\* What the overlays declare to read of a backend: DestinationRule its host and
\* port, waypoint its label, namespace, addresses and port; a hook that declares
\* nothing counts as reading the whole object.
OverlayInputsHash(w, b) ==
  <<b.obj.host, b.obj.port, b.obj.label, b.obj.ns, b.obj.addrs,
    IF w.custom = "off" THEN 0 ELSE b.obj.generation>>

\* What endpoint hooks may read of the attached policies: references, their
\* generations, their errors and a policy's own hash.
backendEndpointVersionHash(b) ==
  <<[i \in DOMAIN b.bcps |-> <<b.bcps[i].att, b.bcps[i].generation, b.bcps[i].failed>>],
    [i \in DOMAIN b.btps |-> <<b.btps[i].att, b.btps[i].generation, b.btps[i].tls>>]>>

\* As if the endpoints and policies an assignment is built from later were part
\* of the proto.
versionOfProtoOnly(b, t, off) ==
  [content |-> ContentOf(t.cluster, off), endpoints |-> <<>>, policies |-> <<>>]

\* The content of the cluster when it was stored and, where the assignment is
\* built from them later, the endpoints and the policies.
baseClusterVersion(b, t, off) ==
  [content |-> ContentOf(t.cluster, off),
   endpoints |-> IF t.error = {} /\ t.inline /\ t.inputs.set THEN <<t.inputs>> ELSE <<>>,
   policies |-> IF t.error = {} /\ t.inline /\ t.inputs.set
                THEN <<backendEndpointVersionHash(b)>> ELSE <<>>]

NoRow == [present |-> FALSE]
baseEnvoyCluster(w, b, t, off) ==
  t @@ [present |-> TRUE, backend |-> b, version |-> baseClusterVersion(b, t, off),
        overlay |-> OverlayInputsHash(w, b), compares |-> w.custom # "off",
        generation |-> b.generation]

baseEquals(r, q) ==
  /\ r.present /\ q.present
  /\ r.compares = q.compares
  /\ r.compares => r.backend = q.backend
  /\ r.version = q.version /\ r.overlay = q.overlay
  /\ r.generation = q.generation /\ r.error = q.error

-----------------------------------------------------------------------------
(* ApplyPerClient.                                                         *)

\* The rules a client's lookup fetches, and the oldest, which applies.
FetchDestRules(w, c, host) ==
  LET visible(ns) == {r \in w.rules : host # "" /\ r.host = host /\ ns \in r.exportTo}
  IN IF visible("*") # {} THEN visible("*") ELSE visible(c.ns)
OldestRule(rules) == CHOOSE r \in rules : \A q \in rules : r.created <= q.created

\* A port-level policy replaces the rule's whole policy for its port.
getTrafficPolicy(r, port) == IF r.portLevel.port = port THEN r.portLevel.policy ELSE r.policy

TrafficPolicyFor(w, c, b) ==
  LET rules == FetchDestRules(w, c, b.obj.host)
  IN IF rules = {} THEN [outlier |-> "none", locality |-> FALSE]
     ELSE getTrafficPolicy(OldestRule(rules), b.obj.port)

applyLocalityLbConfig(p, out) ==
  IF p.locality /\ ~(out.type = "STATIC" /\ out.cla.set /\ ~out.cla.weighted)
  THEN [out EXCEPT !.locality = "weighted"] ELSE out

applyOutlierDetection(p, out) ==
  [out EXCEPT !.panic = "rule", !.opts = [outlierDetection |-> p.outlier] @@ @]

destruleOverlay(w, c, b, out) ==
  LET p == TrafficPolicyFor(w, c, b) IN applyOutlierDetection(p, applyLocalityLbConfig(p, out))

HasIngressUseWaypointLabel(w, b) == b.obj.label \/ b.obj.ns \in w.nsLabels

waypointApplies(w, c, b) ==
  /\ c.ambient
  /\ HasIngressUseWaypointLabel(w, b)
  /\ c.gatewayClass \notin {"", "waypoint"}
  /\ b.obj.name \in w.waypoints

\* Addresses are [v4, ip]; the first is dialled, the others are its alternatives.
sortAddressesByDnsLookupFamily(addrs, family) ==
  LET ips(seq) == [i \in DOMAIN seq |-> seq[i].ip]
      v4 == ips(SelectSeq(addrs, LAMBDA a : a.v4))
      v6 == ips(SelectSeq(addrs, LAMBDA a : ~a.v4))
  IN CASE family = "All" -> ips(addrs)
       [] family = "V4Only" -> v4
       [] family = "V6Only" -> v6
       [] family = "Auto" -> v6 \o v4
       [] OTHER -> v4 \o v6

\* Traffic goes to the service's own addresses, where the mesh picks it up.
ApplyIngressUseWaypointCluster(w, b, out) ==
  LET addrs == sortAddressesByDnsLookupFamily(b.obj.addrs, w.family)
  IN [out EXCEPT !.type = "STATIC", !.eds = FALSE, !.locality = "none",
                 !.cla = Cla(IF addrs = <<>> THEN {} ELSE {Endpoint(addrs, "", "", 0)})]

\* A hook of another plugin: it declares no inputs and is called for every
\* client; what it may write is listed here.
CustomOverlay(w, c, b, out) ==
  CASE w.custom = "off" \/ ~c.custom -> out
    [] w.custom = "ownTLS" -> [out EXCEPT !.socket = TlsSocket("custom", "custom")]
    [] w.custom = "plaintext" -> [out EXCEPT !.socket = RawBuffer]
    [] w.custom = "plainMatch" ->
         [out EXCEPT !.matches = <<[match |-> "custom", socket |-> RawBuffer]>> \o @]
    [] w.custom = "eds" -> [out EXCEPT !.type = "EDS", !.eds = TRUE]
    [] w.custom = "static" -> [out EXCEPT !.type = "STATIC", !.eds = FALSE]

HasOverlays(w, c, b) ==
  TrafficPolicyFor(w, c, b).outlier # "none" \/ waypointApplies(w, c, b) \/ w.custom # "off"

\* In the order of the plugins' group and kind.
Overlaid(w, c, b, out) ==
  LET ruled  == IF TrafficPolicyFor(w, c, b).outlier # "none" THEN destruleOverlay(w, c, b, out) ELSE out
      routed == IF waypointApplies(w, c, b) THEN ApplyIngressUseWaypointCluster(w, b, ruled) ELSE ruled
  IN CustomOverlay(w, c, b, routed)

\* The first healthy policy that asks for zone awareness sets the traffic
\* distribution of the Service aside.
selectZoneAware(b) ==
  \E i \in DOMAIN b.bcps : ~b.bcps[i].failed /\ Has(b.bcps[i].ir, "lb") /\ b.bcps[i].ir.lb.hasZoneAware

ResolvedAssignment(w, c, b, inputs) ==
  PrioritizeEndpoints(inputs.eps,
    TrafficPolicyFor(w, c, b).locality \/ (inputs.td # "Any" /\ ~selectZoneAware(b)), c.zone)

\* The empty match is what endpoints without a match of their own take.
FallbackSocket(out) ==
  LET empty == {i \in DOMAIN out.matches : out.matches[i].match = ""}
  IN IF empty = {} THEN out.socket
     ELSE out.matches[CHOOSE i \in empty : \A j \in empty : i <= j].socket

SocketFor(match, out) ==
  LET same == {i \in DOMAIN out.matches : out.matches[i].match = match}
  IN IF same = {} THEN FallbackSocket(out)
     ELSE out.matches[CHOOSE i \in same : \A j \in same : i <= j].socket

\* As if overlays were trusted with the sockets.
trustOverlays(before, out) == TRUE

\* An overlay may replace TLS by TLS, never by plaintext, and may not put a
\* plaintext match in front of a TLS path.
validateGatewayClientIdentityOverlay(before, out) ==
  LET tls(socket) == gatewayIdentityTLS(socket)
      unchanged(i) == \A j \in 1..i : j \in DOMAIN before.matches
                                    /\ before.matches[j].match = out.matches[j].match
      hasTLS == tls(FallbackSocket(before)) \/ \E i \in DOMAIN before.matches : tls(before.matches[i].socket)
  IN /\ tls(FallbackSocket(before)) => tls(FallbackSocket(out))
     /\ \A i \in DOMAIN before.matches :
          tls(before.matches[i].socket) => tls(SocketFor(before.matches[i].match, out))
     /\ hasTLS => \A i \in DOMAIN out.matches :
          ~tls(out.matches[i].socket) => unchanged(i) /\ ~tls(before.matches[i].socket)

Shared == [kind |-> "shared"]
Own(out) == [kind |-> "own", cluster |-> out]
Failed(why) == [kind |-> "failed", why |-> why]

\* A generated load assignment the overlays left alone goes with its cluster type.
SweepGeneratedCLA(row, bare, over) ==
  IF row.generated /\ over.cla = bare.cla /\ ~clusterSupportsInlineCLA(over)
  THEN [over EXCEPT !.cla = NoCla] ELSE over

\* The client certificate is applied last, and what results must be valid.
Finish(w, row, settled) ==
  LET out == applyGatewayBackendClientCertificate(row.backend, settled)
  IN IF row.backend.obj.cert # "" /\ ~validateGatewayClientIdentityOverlay(row.cluster, settled)
     THEN Failed("client identity")
     ELSE IF ~validateClusterConfig(w, out) THEN Failed("envoy")
     ELSE Own(out)

Assign(w, c, row, swept) ==
  LET needs    == clusterSupportsInlineCLA(swept) /\ ~swept.cla.set
      assigned == IF needs THEN [swept EXCEPT !.cla = ResolvedAssignment(w, c, row.backend, row.inputs)] ELSE swept
  IN IF needs /\ ~row.inputs.set THEN Failed("no endpoint inputs")
     ELSE Finish(w, row, IF row.defaulted THEN defaultLocalityConfig(assigned) ELSE assigned)

ApplyPerClient(w, c, row, off) ==
  LET b      == row.backend
      cloned == ContentOf(row.cluster, off)
      bare   == IF row.defaulted THEN removeDefaultedLocalityConfig(cloned) ELSE cloned
  IN IF ~HasOverlays(w, c, b) /\ ~NeedsInlineCLA(row.cluster, row.inputs.set) THEN Shared
     ELSE Assign(w, c, row, SweepGeneratedCLA(row, bare, Overlaid(w, c, b, bare)))

-----------------------------------------------------------------------------
(* The payload of a client.                                                *)

\* One client's view of every base: published as it is, replaced by the
\* client's own cluster, or errored, with who is to blame.
Outcome(row, r) ==
  CASE r.kind = "shared" -> [state |-> "shared", version |-> row.version, cluster |-> row.cluster]
    [] r.kind = "own" -> [state |-> "own", version |-> r.cluster, cluster |-> r.cluster]
    [] r.kind = "failed" -> [state |-> "errored", why |-> r.why, generation |-> row.generation]

ClusterRow(w, c, row, off) ==
  IF row.error # {} THEN [state |-> "errored", why |-> ""]
  ELSE Outcome(row, ApplyPerClient(w, c, row, off))

clustersForClient(w, c, rows, off) ==
  [b \in {x \in Backend : rows[x].present} |-> ClusterRow(w, c, rows[b], off)]

NoPayload == [present |-> FALSE]
assemblePerClientClusters(view) ==
  IF DOMAIN view = {} THEN NoPayload
  ELSE LET errored == {b \in DOMAIN view : view[b].state = "errored"}
       IN [present |-> TRUE, errored |-> errored,
           clusters |-> [b \in DOMAIN view \ errored |-> view[b].cluster],
           versions |-> [b \in DOMAIN view \ errored |-> view[b].version],
           failures |-> [b \in {x \in errored : view[x].why # ""} |-> view[b]]]

payloadEquals(p, q) ==
  /\ p.present /\ q.present
  /\ p.versions = q.versions /\ p.errored = q.errored /\ p.failures = q.failures
KeepEqual(old, new) == IF payloadEquals(old, new) THEN old ELSE new

-----------------------------------------------------------------------------
(* The collections.                                                        *)

RulesOf(w, b) == {r \in w.rules : r.host = b.obj.host}

\* What the overlays and endpoint hooks of a client fetch besides the base rows.
\* Rules are looked up by host and namespace; the waypoint hook looks further
\* only for a mesh client.
Fetches(w, c, h) ==
  [b \in Backend |->
    [rules |-> FetchDestRules(w, c, h[b].obj.host),
     waypoint |-> IF c.ambient THEN waypointApplies(w, c, h[b]) ELSE FALSE]]

Init ==
  /\ setting \in DOMAIN Families /\ world \in Families[setting] /\ edits = 0
  /\ irs = [n \in DOMAIN world.bcp |->
             PolicyIR(world, n, <<n, 0>>) @@ [cell |-> <<n, 0>>]]
  /\ held = [b \in Backend |-> BackendObjectIR(world, irs, b)]
  /\ base = [b \in Backend |-> NoRow]
  /\ watches = {} /\ dirtyBase = Backend
  /\ payload = [c \in Client |-> NoPayload]
  /\ dirtyClient = Client
  /\ disabled = {}

\* A user, or the platform, changes the configuration.  Policies and backends
\* are derived at once; bases and payloads follow in steps of their own.
Edit ==
  /\ edits < MaxEdits
  /\ \E w \in Families[setting] \ {world} :
       LET is == [n \in DOMAIN w.bcp |-> RefreshPolicy(w, n, irs[n], edits + 1)]
           hs == [b \in Backend |-> BackendObjectIR(w, is, b)]
       IN /\ world' = w /\ irs' = is /\ held' = hs
          /\ dirtyBase' = dirtyBase \cup
               {b \in Backend : \/ hs[b] # held[b]
                                \/ b \in watches /\ RulesOf(w, hs[b]) # RulesOf(world, held[b])}
          /\ dirtyClient' = dirtyClient \cup
               {c \in Client : Fetches(w, c, hs) # Fetches(world, c, held)}
  /\ edits' = edits + 1
  /\ UNCHANGED <<setting, base, watches, payload, disabled>>

\* The base transform of one backend.
TranslateBase(b) ==
  /\ b \in dirtyBase
  /\ \E order \in SetToSeqs(Hooks(held[b])) :
       LET t   == TranslateBackendBase(world, held[b], order)
           off == disabled \cup RewrittenProtos(world, held[b])
           row == baseEnvoyCluster(world, held[b], t, off)
       IN /\ disabled' = off
          /\ watches' = (watches \ {b}) \cup
               (IF t.error = {} /\ ConsultsRules(held[b], t.inline /\ t.inputs.set) THEN {b} ELSE {})
          /\ IF baseEquals(base[b], row) THEN UNCHANGED <<base, dirtyClient>>
             ELSE base' = [base EXCEPT ![b] = row] /\ dirtyClient' = Client
  /\ dirtyBase' = dirtyBase \ {b}
  /\ UNCHANGED <<setting, world, edits, irs, held, payload>>

\* The per-client transform of one client.
RecomputeClient(c) ==
  /\ c \in dirtyClient
  /\ payload' = [payload EXCEPT
       ![c] = KeepEqual(@, assemblePerClientClusters(clustersForClient(world, c, base, disabled)))]
  /\ dirtyClient' = dirtyClient \ {c}
  /\ UNCHANGED <<setting, world, edits, irs, held, base, watches, dirtyBase, disabled>>

Next ==
  \/ Edit
  \/ \E b \in Backend : TranslateBase(b)
  \/ \E c \in Client : RecomputeClient(c)

Spec == Init /\ [][Next]_vars

-----------------------------------------------------------------------------
(* Properties.                                                             *)

\* The cluster of a backend before any overlay, by the rules alone.
Plain(w, b) ==
  LET out == applyBasePolicies(<<"bcp", "btp", "istio">>, w, b,
               processDnsLookupFamily(w, InitEnvoyBackend(b.obj, initializeCluster(b))))
  IN [out EXCEPT !.lb.hostname = @ /\ supportsHostnameForHashing(out), !.lb.cell = NoCell]

\* Only a cluster that needs the default without overlays can get it with them.
Settled(w, b, out) ==
  applyGatewayBackendClientCertificate(b,
    IF defaultsLocality(Plain(w, b)) THEN defaultLocalityConfig(out) ELSE out)

\* The cluster every client would get were there no overlays; incomplete when
\* its assignment depends on the client.
Complete(w, b) == ~NeedsInlineCLA(Plain(w, b), HasInlineEndpoints(b.obj)) \/ ~inlineCLADependsOnClient(w, b)
WithoutOverlays(w, b) ==
  Settled(w, b, IF NeedsInlineCLA(Plain(w, b), HasInlineEndpoints(b.obj))
             THEN [Plain(w, b) EXCEPT !.cla = PrioritizeEndpoints(b.obj.eps, FALSE, "")]
             ELSE Plain(w, b))

BaseErrors(w, b) ==
  IF b.errors # {} THEN b.errors
  ELSE IF PolicyErrors(b) # {} THEN PolicyErrors(b)
  ELSE IF Complete(w, b) /\ ~validateClusterConfig(w, WithoutOverlays(w, b)) THEN {"envoy"}
  ELSE {}

\* What a client is to get of a backend: the hooks in one pass, on a cluster of
\* its own, and the defaults last.
Expected(w, c, b) ==
  LET over     == Overlaid(w, c, b, Plain(w, b))
      needs    == clusterSupportsInlineCLA(over) /\ ~over.cla.set
      assigned == IF needs
                  THEN [over EXCEPT !.cla = ResolvedAssignment(w, c, b,
                          [eps |-> InlineEndpoints(b.obj), td |-> b.obj.td])]
                  ELSE over
      out      == Settled(w, b, assigned)
  IN IF BaseErrors(w, b) # {} THEN [errored |-> "base"]
     ELSE IF needs /\ ~HasInlineEndpoints(b.obj) THEN [errored |-> "no endpoint inputs"]
     ELSE IF b.obj.cert # "" /\ ~validateGatewayClientIdentityOverlay(Settled(w, b, Plain(w, b)), out)
          THEN [errored |-> "client identity"]
     ELSE IF ~validateClusterConfig(w, out) THEN [errored |-> "envoy"]
     ELSE [served |-> out]

Observed(c, b) ==
  LET p == payload[c]
  IN IF b \in DOMAIN p.clusters THEN [served |-> ContentOf(p.clusters[b], disabled)]
     ELSE IF b \in DOMAIN p.failures THEN [errored |-> p.failures[b].why]
     ELSE [errored |-> "base"]

Quiet == dirtyBase = {} /\ dirtyClient = {}

\* Once the collections have caught up with the configuration, every client is
\* served what one pass over the present configuration makes of each backend,
\* or has it among its errors for the reason it has now, and the failure of a
\* base and the generation it failed at are those to report: splitting the
\* translation, sharing its result and keeping a row that Equals another
\* (backends.go, baseEnvoyCluster.Equals, baseClusterVersion) lose nothing.
ServedExact ==
  Quiet => \A b \in Backend :
    /\ base[b].error = BaseErrors(world, held[b])
    /\ base[b].generation = held[b].generation
    /\ \A c \in Client : Observed(c, b) = Expected(world, c, held[b])

\* The socket Envoy takes for an endpoint with these labels: the first match.
PathOf(labels, out) ==
  LET hits == {i \in DOMAIN out.matches : out.matches[i].match \in labels \cup {""}}
  IN IF hits = {} THEN out.socket ELSE out.matches[CHOOSE i \in hits : \A j \in hits : i <= j].socket

\* Where the gateway presents a client certificate, no overlay takes it away:
\* whichever labels an endpoint has, if its path is TLS without overlays, it is
\* TLS with that certificate in every client's cluster (ApplyPerClient,
\* validateGatewayClientIdentityOverlay).
IdentityKept ==
  Quiet => \A b \in Backend, c \in Client :
    held[b].obj.cert # "" /\ b \in DOMAIN payload[c].clusters =>
      \A labels \in SUBSET {"istio", "custom"} :
        gatewayIdentityTLS(PathOf(labels, Plain(world, held[b]))) =>
          LET path == PathOf(labels, payload[c].clusters[b])
          IN gatewayIdentityTLS(path) /\ path.cert = held[b].obj.cert
=============================================================================
