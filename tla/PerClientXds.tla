---------------------------- MODULE PerClientXds ----------------------------
(***************************************************************************)
(* From the KRT collections of proxy_syncer to a connected Envoy: the       *)
(* per-client clusters (backends.go), endpoints (cla.go, local_cluster.go)  *)
(* and snapshots (perclient.go), the subscriber that fills the snapshot     *)
(* cache (ProxySyncer.Start, syncXds), and the xDS server's push rule.      *)
(*                                                                          *)
(* Every collection recomputes a row on its own, some time after the rows   *)
(* it reads have changed.  The handlers of a collection see its events in   *)
(* order, so a late subscriber is a late recomputation of the last row.     *)
(* Content hashes are taken to be free of collisions, as the code does: the *)
(* version of a resource type is what is hashed.                            *)
(***************************************************************************)
EXTENDS Integers, FiniteSets

CONSTANTS
    Client,        \* unique client keys
    LocalClient,   \* the clients whose bootstrap defines the local cluster
    Backend,
    Cluster,       \* what a backend may be translated to: see EdsCluster...
    Endpoint,      \* endpoint sets that a backend may have
    Translation,   \* results of translating the Gateway
    MaxEvents      \* bound: changes of the inputs, connections and disconnections

None == "none"
Errored == "error"      \* a translation error
Static == "static"      \* inline endpoints: a STATIC cluster
Local == "local"        \* the cluster of the gateway's own pods
EdsCluster == Cluster \ {Errored, Static}
Name == Backend \cup {Local}

ASSUME XdsAssumption ==
    /\ LocalClient \subseteq Client
    /\ None \notin Cluster \cup Endpoint \cup Translation
    /\ Local \notin Backend
    /\ MaxEvents \in Nat

VARIABLES
    uccs,        \* the connected clients
    knows,       \* those that have asked for the local cluster
    gateway,     \* mostXdsSnapshots: the Gateway's listeners, routes and clusters
    base,        \* base[b]: the shared translation of a backend
    endpoints,   \* endpoints[b]: the endpoints of its Service
    clusterRow,  \* clusterRow[c]: clustersWithErrors
    claRow,      \* claRow[c]: the CLAs of the client
    snapRow,     \* snapRow[c]: XdsSnapWrapper
    served,      \* the SnapshotCache
    started,     \* the subscriber is registered
    envoy,       \* what a connected Envoy holds and has asked for
    budget       \* events left of MaxEvents

vars == <<uccs, knows, gateway, base, endpoints, clusterRow, claRow, snapRow, served,
          started, envoy, budget>>
inputs == <<uccs, knows, gateway, base, endpoints, budget>>

\* Nothing yet: a row or snapshot that does not exist.
NoRow == [exists |-> FALSE]
Row(v) == [exists |-> TRUE, value |-> v]

\* A freshly started Envoy.
Fresh == [cds |-> [b \in Backend |-> None], clas |-> [n \in Name |-> None],
          acked |-> NoRow, named |-> {}, returned |-> {}]

Init ==
    /\ uccs = {} /\ knows = {}
    /\ gateway \in Translation \cup {None}
    /\ base \in [Backend -> Cluster \cup {None}]
    /\ endpoints = [b \in Backend |-> CHOOSE e \in Endpoint : TRUE]   \* contents are interchangeable
    /\ clusterRow = [c \in Client |-> NoRow]
    /\ claRow = [c \in Client |-> NoRow]
    /\ snapRow = [c \in Client |-> NoRow]
    /\ served = [c \in Client |-> NoRow]
    /\ started = FALSE
    /\ envoy = [c \in Client |-> Fresh]
    /\ budget = MaxEvents

Spend == budget > 0 /\ budget' = budget - 1

-----------------------------------------------------------------------------
(* Inputs of the collections *)

BackendChanges(b) ==
    /\ Spend
    /\ \E x \in (Cluster \cup {None}) \ {base[b]} : base' = [base EXCEPT ![b] = x]
    /\ UNCHANGED <<uccs, knows, gateway, endpoints, clusterRow, claRow, snapRow, served, started, envoy>>

EndpointsChange(b) ==
    /\ Spend
    /\ \E x \in Endpoint \ {endpoints[b]} : endpoints' = [endpoints EXCEPT ![b] = x]
    /\ UNCHANGED <<uccs, knows, gateway, base, clusterRow, claRow, snapRow, served, started, envoy>>

GatewayChanges ==
    /\ Spend
    /\ \E x \in (Translation \cup {None}) \ {gateway} : gateway' = x
    /\ UNCHANGED <<uccs, knows, base, endpoints, clusterRow, claRow, snapRow, served, started, envoy>>

Connect(c) ==
    /\ c \notin uccs
    /\ Spend
    /\ uccs' = uccs \cup {c}
    /\ envoy' = [envoy EXCEPT ![c] = Fresh]
    /\ UNCHANGED <<knows, gateway, base, endpoints, clusterRow, claRow, snapRow, served, started>>

Disconnect(c) ==
    /\ c \in uccs
    /\ Spend
    /\ uccs' = uccs \ {c} /\ knows' = knows \ {c}
    /\ envoy' = [envoy EXCEPT ![c] = Fresh]
    /\ UNCHANGED <<gateway, base, endpoints, clusterRow, claRow, snapRow, served, started>>

-----------------------------------------------------------------------------
(* Per-client rows *)

\* clustersForClient and assemblePerClientClusters: one row for a client, once a
\* backend exists; errored clusters are kept out of the payload by name.
assemblePerClientClusters(c) ==
    IF c \notin uccs \/ \A b \in Backend : base[b] = None THEN NoRow
    ELSE Row([clusters |-> [b \in Backend |-> IF base[b] = Errored THEN None ELSE base[b]],
              errored |-> {b \in Backend : base[b] = Errored}])

RecomputeClusters(c) ==
    /\ clusterRow[c] # assemblePerClientClusters(c)
    /\ clusterRow' = [clusterRow EXCEPT ![c] = assemblePerClientClusters(c)]
    /\ UNCHANGED <<inputs, claRow, snapRow, served, started, envoy>>

\* newFinalBackendEndpoints follows the backend's lifecycle; the local cluster's
\* CLA exists only for a client that has asked for it.
claOf(c, n) ==
    IF n = Local THEN IF c \in knows THEN "pods" ELSE None
    ELSE IF base[n] = None THEN None ELSE endpoints[n]

\* EndpointResources: a row per client, refreshed one CLA at a time.
RecomputeEndpoints(c) ==
    /\ \/ /\ c \notin uccs /\ claRow[c] # NoRow
          /\ claRow' = [claRow EXCEPT ![c] = NoRow]
       \/ /\ c \in uccs /\ claRow[c] = NoRow
          /\ claRow' = [claRow EXCEPT ![c] = Row([n \in Name |-> claOf(c, n)])]
       \/ /\ c \in uccs /\ claRow[c] # NoRow
          /\ \E n \in Name :
               /\ claRow[c].value[n] # claOf(c, n)
               /\ claRow' = [claRow EXCEPT ![c] = Row([@.value EXCEPT ![n] = claOf(c, n)])]
    /\ UNCHANGED <<inputs, clusterRow, snapRow, served, started, envoy>>

-----------------------------------------------------------------------------
(* Snapshots *)

\* Mutant: STATIC clusters keep their CLAs.
filterNothing(clusters, eds) == eds

\* CLAs of STATIC clusters are left out; the version stays that of all CLAs.
filterEndpointResourcesForStaticClusters(clusters, eds) ==
    [version |-> eds.version,
     clas |-> [n \in Name |-> IF n \in Backend /\ clusters[n] = Static THEN None ELSE eds.clas[n]]]

\* Mutant: the version does not say what was filtered.
filterErroredSameVersion(eds, errored) ==
    [version |-> eds.version,
     clas |-> [n \in Name |-> IF n \in errored THEN None ELSE eds.clas[n]]]

\* CLAs of errored clusters are left out; a version that filtered any of them
\* also names the errored clusters.
filterEndpointResourcesForErroredClusters(eds, errored) ==
    IF \A n \in errored : eds.clas[n] = None THEN eds
    ELSE [version |-> [all |-> eds.version.all, errored |-> errored],
          clas |-> [n \in Name |-> IF n \in errored THEN None ELSE eds.clas[n]]]

\* The snapshot of c from the rows as they are, or none when one is missing.
snapshotPerClient(c) ==
    IF c \notin uccs \/ gateway = None \/ clusterRow[c] = NoRow \/ claRow[c] = NoRow THEN NoRow
    ELSE LET row == clusterRow[c].value
             all == [version |-> [all |-> claRow[c].value, errored |-> {}], clas |-> claRow[c].value]
         IN  Row([gateway |-> gateway, cds |-> row.clusters,
                  eds |-> filterEndpointResourcesForErroredClusters(
                              filterEndpointResourcesForStaticClusters(row.clusters, all), row.errored)])

\* Mutant: the version of the endpoints is not compared.
SnapEqualsNoEds(x, y) ==
    /\ x.exists = y.exists
    /\ x.exists => x.value.gateway = y.value.gateway /\ x.value.cds = y.value.cds

\* XdsSnapWrapper.Equals compares the versions of the resource types only.
SnapEquals(x, y) ==
    /\ x.exists = y.exists
    /\ x.exists => /\ x.value.gateway = y.value.gateway /\ x.value.cds = y.value.cds
                   /\ x.value.eds.version = y.value.eds.version

\* Mutant: the subscriber clears the cache when a row goes away.
publishDeletes(c, row) ==
    served' = IF started THEN [served EXCEPT ![c] = row] ELSE served

\* The subscriber: SetSnapshot, and nothing for a delete, so that Envoy keeps
\* its last complete configuration while a snapshot is deferred.
publish(c, row) ==
    served' = IF started /\ row.exists THEN [served EXCEPT ![c] = row] ELSE served

RecomputeSnapshot(c) ==
    LET row == snapshotPerClient(c)
    IN  /\ ~SnapEquals(snapRow[c], row)
        /\ snapRow' = [snapRow EXCEPT ![c] = row]
        /\ publish(c, row)
        /\ UNCHANGED <<inputs, clusterRow, claRow, started, envoy>>

\* Start: the caches are warm; registration replays the rows that exist.
Start ==
    /\ ~started
    /\ started' = TRUE
    /\ served' = [c \in Client |-> IF snapRow[c].exists THEN snapRow[c] ELSE served[c]]
    /\ UNCHANGED <<inputs, clusterRow, claRow, snapRow, envoy>>

-----------------------------------------------------------------------------
(* External: the xDS server's rules and Envoy *)

Present(eds) == {n \in Name : eds.clas[n] # None}

\* An EDS response to e: withheld while the snapshot has more than e names.
Answer(e, eds, due) ==
    IF due /\ e.named # {} /\ Present(eds) \subseteq e.named
    THEN [e EXCEPT !.clas = [n \in Name |-> IF n \in e.named THEN eds.clas[n] ELSE e.clas[n]],
                   !.acked = Row(eds.version), !.returned = Present(eds)]
    ELSE e

\* SetSnapshot answers the open watches whose version differs, CDS before EDS.
\* A cluster that no longer uses EDS loses its load assignment in Envoy.
Pushed(c) ==
    LET snap == served[c].value
        e == [envoy[c] EXCEPT
                !.cds = snap.cds,
                !.clas = [n \in Name |-> IF n = Local \/ snap.cds[n] \in EdsCluster
                                         THEN envoy[c].clas[n] ELSE None]]
    IN  Answer(e, snap.eds, e.acked # Row(snap.eds.version))

Push(c) ==
    /\ c \in uccs /\ served[c].exists
    /\ envoy[c] # Pushed(c)
    /\ envoy' = [envoy EXCEPT ![c] = Pushed(c)]
    /\ UNCHANGED <<inputs, clusterRow, claRow, snapRow, served, started>>

Wanted(c) ==
    {b \in Backend : envoy[c].cds[b] \in EdsCluster} \cup (IF c \in LocalClient THEN {Local} ELSE {})

\* Envoy names the clusters it wants.  A request is answered when the version
\* differs or a resource it names has not been sent to it.
\* observeLocalClusterRequest notices the local cluster among the names.
Request(c) ==
    /\ c \in uccs
    /\ envoy[c].named # Wanted(c)
    /\ LET e == [envoy[c] EXCEPT !.named = Wanted(c), !.returned = @ \cap Wanted(c)]
           snap == served[c].value
       IN  envoy' = [envoy EXCEPT ![c] =
                       IF ~served[c].exists THEN e
                       ELSE Answer(e, snap.eds, \/ e.acked # Row(snap.eds.version)
                                                \/ ~(Present(snap.eds) \subseteq e.returned))]
    /\ knows' = IF Local \in Wanted(c) THEN knows \cup {c} ELSE knows
    /\ UNCHANGED <<uccs, gateway, base, endpoints, budget, clusterRow, claRow, snapRow, served, started>>

-----------------------------------------------------------------------------
Environment ==
    \/ \E b \in Backend : BackendChanges(b) \/ EndpointsChange(b)
    \/ GatewayChanges
    \/ \E c \in Client : Connect(c) \/ Disconnect(c)
Collections(c) == RecomputeClusters(c) \/ RecomputeEndpoints(c) \/ RecomputeSnapshot(c)
Stream(c) == Push(c) \/ Request(c)

Next == Environment \/ Start \/ \E c \in Client : Collections(c) \/ Stream(c)

Spec == Init /\ [][Next]_vars

\* KRT delivers every event, and the stream of a connected client is served.
Fairness ==
    /\ WF_vars(Start)
    /\ \A c \in Client :
         /\ WF_vars(RecomputeClusters(c)) /\ WF_vars(RecomputeEndpoints(c))
         /\ WF_vars(RecomputeSnapshot(c))
         /\ WF_vars(Push(c)) /\ WF_vars(Request(c))

FairSpec == Spec /\ Fairness

-----------------------------------------------------------------------------
Clas == [Name -> Endpoint \cup {None, "pods"}]
IsSnapshot(x) ==
    x.exists => /\ x.value.gateway \in Translation
                /\ x.value.cds \in [Backend -> Cluster \cup {None}]
                /\ x.value.eds.clas \in Clas
                /\ x.value.eds.version.all \in Clas
                /\ x.value.eds.version.errored \subseteq Backend

TypeOK ==
    /\ uccs \subseteq Client /\ knows \subseteq uccs \cap LocalClient
    /\ gateway \in Translation \cup {None}
    /\ base \in [Backend -> Cluster \cup {None}] /\ endpoints \in [Backend -> Endpoint]
    /\ \A c \in Client :
         /\ clusterRow[c].exists => /\ clusterRow[c].value.clusters \in [Backend -> (Cluster \ {Errored}) \cup {None}]
                                    /\ clusterRow[c].value.errored \subseteq Backend
         /\ claRow[c].exists => claRow[c].value \in Clas
         /\ IsSnapshot(snapRow[c]) /\ IsSnapshot(served[c])
         /\ envoy[c].cds \in [Backend -> (Cluster \ {Errored}) \cup {None}]
         /\ envoy[c].clas \in Clas
         /\ envoy[c].named \subseteq Name /\ envoy[c].returned \subseteq Name
    /\ started \in BOOLEAN /\ budget \in 0..MaxEvents

\* A snapshot without a CLA that its own clusters make Envoy never ask for: of
\* a cluster that is STATIC, or absent because of an error.
AllAsked(snap) ==
    snap.exists =>
        \A b \in Backend :
            /\ snap.value.cds[b] = Static => snap.value.eds.clas[b] = None
            /\ b \in snap.value.eds.version.errored => snap.value.eds.clas[b] = None

\* Whatever is served has no CLA that Envoy never asks for, and a connected
\* client that has been served a complete configuration is never left without
\* one while its rows are recomputed.
ServedWhole ==
    [][\A c \in Client : /\ AllAsked(served'[c])
                         /\ served[c].exists => served'[c].exists]_vars

Complete(c) == c \in uccs /\ gateway # None /\ \E b \in Backend : base[b] # None

\* Whatever the order of the recomputations, a connected client is in the end
\* served the snapshot of the current inputs: contents, not only versions.
PublishesLatest ==
    \A c \in Client :
        <>[](Complete(c) =>
               /\ served[c].exists
               /\ served[c].value.gateway = gateway
               /\ \A b \in Backend :
                    /\ served[c].value.cds[b] = (IF base[b] = Errored THEN None ELSE base[b])
                    /\ served[c].value.eds.clas[b] =
                         (IF base[b] \in EdsCluster THEN endpoints[b] ELSE None))

\* A connected Envoy in the end has the endpoints of every EDS cluster it has
\* been given, none stays warming, however clusters fail and recover.  (Not so
\* for a cluster that turns STATIC and back, or goes and returns, before its
\* endpoints are recomputed: then nothing changes the version of the endpoints.)
NoneStaysWarming ==
    [](\A b \in Backend : base[b] \in EdsCluster \cup {Errored}) =>
        \A c \in Client :
            <>[](Complete(c) =>
                   \A b \in Backend :
                       base[b] \in EdsCluster => envoy[c].clas[b] = endpoints[b])
=============================================================================
