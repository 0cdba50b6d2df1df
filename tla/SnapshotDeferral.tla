-------------------------- MODULE SnapshotDeferral --------------------------
(***************************************************************************)
(* snapshotDeferralTracker (snapshot_deferral.go): from the events of two   *)
(* KRT collections, the connected clients and their snapshot rows, it keeps *)
(* per Gateway the number of connected clients without a row.               *)
(*                                                                          *)
(* Each collection delivers its events to the tracker in order, but nothing *)
(* orders one collection's events after the other's.  A batch is handled    *)
(* under the lock; a batch of n events is n steps here, and since the       *)
(* handlers look at one key at a time, each key has a queue of its own.     *)
(***************************************************************************)
EXTENDS Integers, Sequences, FiniteSets

CONSTANTS
    Key,         \* client keys: role~namespace~gateway~...
    Gateway,     \* the (namespace, gateway) labels
    GatewayOf,   \* getDetailsFromXDSClientResourceName
    MaxPending   \* bound: undelivered events of a key

ASSUME DeferralAssumption ==
    /\ IsFiniteSet(Key)
    /\ GatewayOf \in [Key -> Gateway]
    /\ MaxPending \in Nat

Event == {"add", "update", "delete"}

VARIABLES
    connected,      \* the clients collection
    rows,           \* the snapshot collection
    registered,     \* the collections the tracker has subscribed to
    clientQueue,    \* clientQueue[k]: events on their way to clientEvents
    snapshotQueue,  \* snapshotQueue[k]: events on their way to snapshotEvents
    clients, snapshots, deferred,   \* the tracker
    gauge           \* the published metric; a label never set reads 0

vars == <<connected, rows, registered, clientQueue, snapshotQueue,
          clients, snapshots, deferred, gauge>>
tracker == <<clients, snapshots, deferred, gauge>>

Init ==
    /\ connected = {} /\ rows = {} /\ registered = {}
    /\ clientQueue = [k \in Key |-> <<>>]
    /\ snapshotQueue = [k \in Key |-> <<>>]
    /\ clients = {} /\ snapshots = {}
    /\ deferred = [g \in Gateway |-> 0]   \* 0: no entry
    /\ gauge = [g \in Gateway |-> 0]

-----------------------------------------------------------------------------
(* The collections *)

Sends(queue, k, kind, to) ==
    IF to \in registered THEN [queue EXCEPT ![k] = Append(@, kind)] ELSE queue

\* KRT sends an add, an update or a delete as the client comes, changes or goes.
ClientChanges(k, kind) ==
    /\ Len(clientQueue[k]) < MaxPending
    /\ kind = "add" <=> k \notin connected
    /\ connected' = IF kind = "delete" THEN connected \ {k} ELSE connected \cup {k}
    /\ clientQueue' = Sends(clientQueue, k, kind, "clients")
    /\ UNCHANGED <<rows, registered, snapshotQueue, tracker>>

\* The same for the snapshot rows, which follow the clients with a lag and also
\* go away while a snapshot is incomplete.
RowChanges(k, kind) ==
    /\ Len(snapshotQueue[k]) < MaxPending
    /\ kind = "add" <=> k \notin rows
    /\ rows' = IF kind = "delete" THEN rows \ {k} ELSE rows \cup {k}
    /\ snapshotQueue' = Sends(snapshotQueue, k, kind, "snapshots")
    /\ UNCHANGED <<connected, registered, clientQueue, tracker>>

-----------------------------------------------------------------------------
(* The tracker *)

\* Mutant: clients that exist already are not replayed.
registerClientsNoReplay ==
    /\ registered = {}
    /\ registered' = {"clients"}
    /\ UNCHANGED <<connected, rows, clientQueue, snapshotQueue, tracker>>

registerClients ==
    /\ registered = {}
    /\ registered' = {"clients"}
    /\ clientQueue' = [k \in Key |-> IF k \in connected THEN <<"add">> ELSE <<>>]
    /\ UNCHANGED <<connected, rows, snapshotQueue, tracker>>

registerSnapshots ==
    /\ registered = {"clients"}
    /\ registered' = {"clients", "snapshots"}
    /\ snapshotQueue' = [k \in Key |-> IF k \in rows THEN <<"add">> ELSE <<>>]
    /\ UNCHANGED <<connected, rows, clientQueue, tracker>>

\* Mutant: the sign is wrong and nothing is clamped.
adjustSwapped(k, delta) ==
    LET n == deferred[GatewayOf[k]] - delta
    IN  /\ deferred' = [deferred EXCEPT ![GatewayOf[k]] = n]
        /\ gauge' = [gauge EXCEPT ![GatewayOf[k]] = n]

adjust(k, delta) ==
    LET g == GatewayOf[k]
        n == IF deferred[g] + delta <= 0 THEN 0 ELSE deferred[g] + delta
    IN  /\ deferred' = [deferred EXCEPT ![g] = n]
        /\ gauge' = [gauge EXCEPT ![g] = n]

clientEvents(k) ==
    /\ clientQueue[k] # <<>>
    /\ clientQueue' = [clientQueue EXCEPT ![k] = Tail(@)]
    /\ LET delete == Head(clientQueue[k]) = "delete"
       IN  /\ clients' = IF delete THEN clients \ {k} ELSE clients \cup {k}
           /\ IF (k \in clients) # delete \/ k \in snapshots THEN UNCHANGED <<deferred, gauge>>
              ELSE adjust(k, IF delete THEN -1 ELSE 1)
    /\ UNCHANGED <<connected, rows, registered, snapshotQueue, snapshots>>

snapshotEvents(k) ==
    /\ snapshotQueue[k] # <<>>
    /\ snapshotQueue' = [snapshotQueue EXCEPT ![k] = Tail(@)]
    /\ LET delete == Head(snapshotQueue[k]) = "delete"
       IN  /\ snapshots' = IF delete THEN snapshots \ {k} ELSE snapshots \cup {k}
           /\ IF (k \in snapshots) # delete \/ k \notin clients THEN UNCHANGED <<deferred, gauge>>
              ELSE adjust(k, IF delete THEN 1 ELSE -1)
    /\ UNCHANGED <<connected, rows, registered, clientQueue, clients>>

-----------------------------------------------------------------------------
Next ==
    \/ \E k \in Key, kind \in Event : ClientChanges(k, kind) \/ RowChanges(k, kind)
    \/ registerClients \/ registerSnapshots
    \/ \E k \in Key : clientEvents(k) \/ snapshotEvents(k)

Spec == Init /\ [][Next]_vars

-----------------------------------------------------------------------------
TypeOK ==
    /\ connected \subseteq Key /\ rows \subseteq Key
    /\ registered \subseteq {"clients", "snapshots"}
    /\ clientQueue \in [Key -> Seq(Event)] /\ snapshotQueue \in [Key -> Seq(Event)]
    /\ clients \subseteq Key /\ snapshots \subseteq Key
    /\ deferred \in [Gateway -> Nat] /\ gauge \in [Gateway -> Nat]

Lacking(present, have, g) == {k \in present \ have : GatewayOf[k] = g}

\* However the two streams of events interleave, the incremental counts and the
\* published gauge are the number of clients the tracker knows without a row: the
\* clamp at zero in adjust hides no miscount.
CountsExact ==
    \A g \in Gateway :
        /\ deferred[g] = Cardinality(Lacking(clients, snapshots, g))
        /\ gauge[g] = deferred[g]

\* Once both subscriptions are made and every event is delivered, the gauge is
\* the number of connected clients that have no snapshot row, those included
\* that connected before the tracker registered.
SettledExact ==
    (/\ registered = {"clients", "snapshots"}
     /\ \A k \in Key : clientQueue[k] = <<>> /\ snapshotQueue[k] = <<>>)
    => \A g \in Gateway : gauge[g] = Cardinality(Lacking(connected, rows, g))
=============================================================================
