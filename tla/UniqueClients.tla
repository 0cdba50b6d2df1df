--------------------------- MODULE UniqueClients ---------------------------
(***************************************************************************)
(* The collection of uniquely connected clients                             *)
(* (krtcollections/uniqueclients.go): xDS stream callbacks, serialised per  *)
(* stream and concurrent between streams, maintain reference counted        *)
(* buckets of streams with the same identity, and trigger a recomputation   *)
(* of the KRT collection that translation runs for.                         *)
(***************************************************************************)
EXTENDS Integers, FiniteSets

CONSTANTS
    Stream,       \* stream ids
    Role,         \* roles an Envoy can present
    RoleOf,       \* RoleOf[s]: the role of the proxy behind stream s
    OldEnvoy,     \* streams of an Envoy below the minimum version
    PodState,     \* what the augmented pod collection can hold for a pod
    GatewayOf,    \* GatewayOf[p]: the role in p's gateway name label, or NoRole
    UsePods,      \* FALSE under DISABLE_POD_LOCALITY_XDS: augmentedPods is nil
    XdsAuth,      \* the role comes from the authenticated peer
    MaxPodEvents, \* bound: changes of the pods
    MaxOpens,     \* bound: streams opened
    NoPod,        \* the pod is not in the collection
    NoName,       \* no entry in the clients map
    NoRole        \* no gateway name label

\* A unique client name: the role, with the pod's labels and namespace if used.
Name == Role \cup (Role \X PodState)

ASSUME ClientsAssumption ==
    /\ IsFiniteSet(Stream)
    /\ RoleOf \in [Stream -> Role]
    /\ NoPod \notin PodState /\ NoRole \notin Role /\ NoName \notin Name
    /\ GatewayOf \in [PodState -> Role \cup {NoRole}]
    /\ UsePods \in BOOLEAN /\ XdsAuth \in BOOLEAN
    /\ MaxPodEvents \in Nat /\ MaxOpens \in Nat

VARIABLES
    built,      \* buildCollection has stored the collection
    pod,        \* pod[s]: the pod behind s, as augmentedPods has it
    nodeRole,   \* nodeRole[s]: the role in s's Node, rewritten by newStream
    peers,      \* streamIDToPeerInfo
    clients,    \* clients[s]: uniqueClientName, or NoName
    count,      \* uniqClientsCount: 0 where the map has no key
    uniq,       \* the keys of uniqClients
    known,      \* knownLocalClusterBySid: the streams that are TRUE
    pc,         \* pc[s]: where the callback of s is
    derived,    \* derived[s]: the identity that add() derived outside the lock
    triggered,  \* the recompute trigger is pending
    col,        \* the published collection: [name -> KnowsLocalCluster]
    podEvents, opens

vars == <<built, pod, nodeRole, peers, clients, count, uniq, known, pc, derived,
          triggered, col, podEvents, opens>>
maps == <<clients, count, uniq, known>>
world == <<built, pod, podEvents, opens>>

Location == {"closed", "idle", "publish", "observe", "confirmed", "joined", "failed", "released"}

TypeOK ==
    /\ built \in BOOLEAN /\ triggered \in BOOLEAN
    /\ pod \in [Stream -> PodState \cup {NoPod}]
    /\ nodeRole \in [Stream -> Name]
    /\ peers \subseteq Stream /\ known \subseteq Stream
    /\ clients \in [Stream -> Name \cup {NoName}]
    /\ count \in [Name -> Nat]
    /\ uniq \subseteq Name
    /\ pc \in [Stream -> Location]
    /\ derived \in [Stream -> Name \cup {NoName}]
    /\ DOMAIN col \subseteq Name

Init ==
    /\ built = FALSE
    /\ pod \in [Stream -> PodState \cup {NoPod}]
    /\ nodeRole = RoleOf
    /\ peers = {}
    /\ clients = [s \in Stream |-> NoName]
    /\ count = [n \in Name |-> 0]
    /\ uniq = {} /\ known = {}
    /\ pc = [s \in Stream |-> "closed"]
    /\ derived = [s \in Stream |-> NoName]
    /\ triggered = FALSE
    /\ col = [n \in {} |-> FALSE]
    /\ podEvents = 0 /\ opens = 0

At(s, here, there) == pc[s] = here /\ pc' = [pc EXCEPT ![s] = there]

\* buildCollection: the first computation of the collection sees no clients.
buildCollection ==
    /\ ~built
    /\ built' = TRUE
    /\ UNCHANGED <<pod, nodeRole, peers, maps, pc, derived, triggered, col,
                   podEvents, opens>>

\* The pod and node informers change what is known of the pod behind s.
PodEvent(s) ==
    /\ podEvents < MaxPodEvents
    /\ podEvents' = podEvents + 1
    /\ \E p \in (PodState \cup {NoPod}) \ {pod[s]} : pod' = [pod EXCEPT ![s] = p]
    /\ UNCHANGED <<built, nodeRole, peers, maps, pc, derived, triggered, col, opens>>

\* A proxy connects; its first request will carry a Node with its own role.
OnStreamOpen(s) ==
    /\ opens < MaxOpens
    /\ opens' = opens + 1
    /\ At(s, "closed", "idle")
    /\ nodeRole' = [nodeRole EXCEPT ![s] = RoleOf[s]]
    /\ peers' = IF XdsAuth THEN peers \cup {s} ELSE peers
    /\ UNCHANGED <<built, pod, maps, derived, triggered, col, podEvents>>

-----------------------------------------------------------------------------
(* OnStreamRequest *)

\* NormalizeGatewayRole: the gateway name label of the pod decides.
NormalizeGatewayRole(role, p) == IF GatewayOf[p] = NoRole THEN role ELSE GatewayOf[p]

\* deriveClientIdentity and NewUniquelyConnectedClient: without pod locality
\* the name is the role, otherwise the role with the pod's labels and namespace;
\* NoName is the error "pod not found".
deriveClientIdentity(s, role) ==
    IF ~UsePods THEN role
    ELSE IF pod[s] = NoPod THEN NoName
    ELSE <<NormalizeGatewayRole(role, pod[s]), pod[s]>>

getPeerRole(s) == IF XdsAuth THEN RoleOf[s] ELSE nodeRole[s]

\* Mutant: an established stream is identified by the role in its Node, which
\* newStream has already replaced by the unique name.
pinnedRoleFromNode(s) == getPeerRole(s)

\* The role that identity is derived from: that of the first request once the
\* stream is established, since newStream rewrites the Node's.  The first
\* request's role is the proxy's own.
pinnedRole(s) == IF clients[s] # NoName THEN RoleOf[s] ELSE getPeerRole(s)

\* Mutant: the identity of an established stream is never derived again.
FollowUpFrozen(s) == clients[s] # NoName /\ At(s, "idle", "observe") /\ UNCHANGED derived

\* A request of an established stream: keep serving if the pod is missing,
\* close the stream if its identity has drifted.
FollowUp(s) ==
    /\ clients[s] # NoName
    /\ LET name == deriveClientIdentity(s, pinnedRole(s))
       IN  IF name \in {NoName, clients[s]}
           THEN At(s, "idle", "observe") ELSE At(s, "idle", "failed")
    /\ UNCHANGED derived

\* The first request: the version gate, then the identity, derived without
\* holding stateLock and published later.
First(s) ==
    /\ clients[s] = NoName
    /\ LET name == deriveClientIdentity(s, pinnedRole(s))
       IN  IF s \in OldEnvoy \/ name = NoName
           THEN At(s, "idle", "failed") /\ UNCHANGED derived
           ELSE At(s, "idle", "publish") /\ derived' = [derived EXCEPT ![s] = name]

\* OnStreamRequest ignores streams whose role is not a kgateway cache key: they
\* have no state here, and are left out of Stream.
OnStreamRequest(s) ==
    /\ \/ /\ ~built \/ (XdsAuth /\ s \notin peers)     \* an error closes the stream
          /\ At(s, "idle", "failed")
          /\ UNCHANGED derived
       \/ /\ built /\ (XdsAuth => s \in peers)
          /\ FollowUp(s) \/ First(s)
    /\ UNCHANGED <<world, nodeRole, peers, maps, triggered, col>>

\* Mutant: an identity that is already in the map is not counted again.
publishUncounted(s) ==
    /\ At(s, "publish", "observe")
    /\ clients' = [clients EXCEPT ![s] = derived[s]]
    /\ count' = [count EXCEPT ![derived[s]] = 1]
    /\ uniq' = uniq \cup {derived[s]}
    /\ UNCHANGED <<world, nodeRole, peers, known, derived, triggered, col>>

\* The end of add(), under stateLock.
publish(s) ==
    /\ At(s, "publish", "observe")
    /\ clients' = [clients EXCEPT ![s] = derived[s]]
    /\ count' = [count EXCEPT ![derived[s]] = @ + 1]
    /\ uniq' = IF count[derived[s]] = 0 THEN uniq \cup {derived[s]} ELSE uniq
    /\ UNCHANGED <<world, nodeRole, peers, known, derived, triggered, col>>

\* tryConfirmLocalCluster, under stateLock: an EDS request that names the
\* bucket's local cluster is the stream's first.
tryConfirmLocalCluster(s, namesLocalCluster) ==
    namesLocalCluster /\ s \notin known /\ clients[s] \in uniq

AfterObserve(s) == IF derived[s] = NoName THEN "idle" ELSE "joined"

\* observeLocalClusterRequest and the rewrite of the Node's role.
observeLocalClusterRequest(s) ==
    /\ \E namesLocalCluster \in BOOLEAN :
         IF tryConfirmLocalCluster(s, namesLocalCluster)
         THEN known' = known \cup {s} /\ At(s, "observe", "confirmed")
         ELSE UNCHANGED known /\ At(s, "observe", AfterObserve(s))
    /\ nodeRole' = [nodeRole EXCEPT ![s] = clients[s]]
    /\ UNCHANGED <<world, peers, clients, count, uniq, derived, triggered, col>>

\* Mutant: the confirmation does not recompute the collection.
triggerConfirmedSilently(s) ==
    /\ At(s, "confirmed", AfterObserve(s))
    /\ UNCHANGED <<world, nodeRole, peers, maps, derived, triggered, col>>

\* TriggerRecomputation after a confirmation, stateLock released.
triggerConfirmed(s) ==
    /\ At(s, "confirmed", AfterObserve(s))
    /\ triggered' = TRUE
    /\ UNCHANGED <<world, nodeRole, peers, maps, derived, col>>

\* TriggerRecomputation for a new stream, even one that joins a bucket.
triggerJoined(s) ==
    /\ At(s, "joined", "idle")
    /\ triggered' = TRUE
    /\ derived' = [derived EXCEPT ![s] = NoName]
    /\ UNCHANGED <<world, nodeRole, peers, maps, col>>

-----------------------------------------------------------------------------
(* OnStreamClosed *)

\* del, under stateLock: the last stream of a bucket removes it.
del(s) ==
    /\ clients' = [clients EXCEPT ![s] = NoName]
    /\ known' = known \ {s}
    /\ IF clients[s] = NoName THEN UNCHANGED <<count, uniq>>
       ELSE /\ count' = [count EXCEPT ![clients[s]] = @ - 1]
            /\ uniq' = IF count[clients[s]] = 1 THEN uniq \ {clients[s]} ELSE uniq

\* The stream ends: the proxy left, or a request returned an error.  Without a
\* collection there is nothing to release.
OnStreamClosed(s) ==
    /\ peers' = peers \ {s}
    /\ derived' = [derived EXCEPT ![s] = NoName]
    /\ pc[s] \in {"idle", "failed"}
    /\ IF built
       THEN del(s) /\ pc' = [pc EXCEPT ![s] = "released"]
       ELSE UNCHANGED maps /\ pc' = [pc EXCEPT ![s] = "closed"]
    /\ UNCHANGED <<world, nodeRole, triggered, col>>

\* streamClosed always recomputes: the bucket may have become all-confirmed.
triggerReleased(s) ==
    /\ At(s, "released", "closed")
    /\ triggered' = TRUE
    /\ UNCHANGED <<world, nodeRole, peers, maps, derived, col>>

-----------------------------------------------------------------------------
\* Mutant: one confirmed stream is enough for its bucket.
getClientsAny ==
    [n \in uniq |-> \E s \in Stream : clients[s] = n /\ s \in known]

\* getClients: a bucket knows the local cluster when all its streams do.
getClients ==
    [n \in uniq |-> \A s \in Stream : clients[s] = n => s \in known]

\* KRT recomputes the collection; a trigger that arrives later runs it again.
Recompute ==
    /\ built /\ triggered
    /\ triggered' = FALSE
    /\ col' = getClients
    /\ UNCHANGED <<world, nodeRole, peers, maps, pc, derived>>

Next ==
    \/ buildCollection \/ Recompute
    \/ \E s \in Stream :
         \/ PodEvent(s) \/ OnStreamOpen(s) \/ OnStreamRequest(s) \/ publish(s)
         \/ observeLocalClusterRequest(s) \/ triggerConfirmed(s) \/ triggerJoined(s)
         \/ OnStreamClosed(s) \/ triggerReleased(s)

Spec == Init /\ [][Next]_vars

(***************************************************************************)
(* Callbacks run to their end and KRT recomputes; a connected Envoy sends   *)
(* requests (it acknowledges what it is sent), a stream whose callback      *)
(* failed is closed.  Nothing obliges a proxy to connect or to leave.       *)
(***************************************************************************)
Fairness ==
    /\ WF_vars(buildCollection) /\ WF_vars(Recompute)
    /\ \A s \in Stream :
         /\ WF_vars(OnStreamRequest(s)) /\ WF_vars(publish(s))
         /\ WF_vars(observeLocalClusterRequest(s))
         /\ WF_vars(triggerConfirmed(s)) /\ WF_vars(triggerJoined(s))
         /\ WF_vars(pc[s] = "failed" /\ OnStreamClosed(s)) /\ WF_vars(triggerReleased(s))

FairSpec == Spec /\ Fairness

-----------------------------------------------------------------------------
\* The count of a bucket is the number of its streams, and exactly the buckets
\* with streams are in uniqClients: no bucket is leaked or dropped early.
BucketsCounted ==
    \A n \in Name :
        /\ count[n] = Cardinality({s \in Stream : clients[s] = n})
        /\ n \in uniq <=> count[n] > 0

\* A stream that has ended leaves nothing behind in any of the maps.
NothingLeaks ==
    \A s \in Stream :
        pc[s] \in {"closed", "released"} => clients[s] = NoName /\ s \notin known \cup peers

\* The callback of s is on its way to TriggerRecomputation.
WillTrigger(s) ==
    \/ pc[s] \in {"confirmed", "joined", "released"}
    \/ pc[s] = "observe" /\ derived[s] # NoName

\* The published collection is out of date only while a recomputation is
\* pending or a callback is about to ask for one: no change goes unnoticed.
CollectionFresh == col = getClients \/ triggered \/ \E s \in Stream : WillTrigger(s)

\* A proxy is served (its callbacks are done and nothing is pending) only from
\* a collection that has its bucket, which claims the local cluster only if
\* this very stream has asked for it.
ServedFromItsBucket ==
    \A s \in Stream :
        (clients[s] # NoName /\ ~triggered /\ \A q \in Stream : pc[q] \in {"closed", "idle"})
            => clients[s] \in DOMAIN col /\ (col[clients[s]] => s \in known)

\* A follow-up request fails only if the pod behind the stream has changed: the
\* server's own rewrite of the role never looks like a new identity.
ClosedOnlyOnDrift ==
    [][\A s \in Stream :
         (built /\ clients[s] # NoName /\ pc[s] = "idle" /\ pc'[s] = "failed")
            => UsePods /\ clients[s] # deriveClientIdentity(s, RoleOf[s])]_vars

\* Once the pods stop changing, every stream that stays is identified by the
\* current state of its pod: an identity from stale pod data is corrected.
IdentitiesHeal ==
    \A s \in Stream :
        <>[](pc[s] \notin {"closed", "failed", "released"} /\ clients[s] # NoName /\ pod[s] # NoPod
               => clients[s] = deriveClientIdentity(s, RoleOf[s]))
=============================================================================
